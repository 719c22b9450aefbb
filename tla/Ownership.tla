------------------------------ MODULE Ownership ------------------------------
(***************************************************************************)
(* Docker resources of one acceptance run (scripts/docker_ownership.py and *)
(* the cleanup of scripts/ci.py).  The run reserves names that are absent, *)
(* its tests reach Docker through a shim that inspects before it changes   *)
(* anything, and at the end the run removes what it can prove to be its    *)
(* own.  Everybody else uses the same daemon meanwhile, and a command may  *)
(* outlive the shim that started it.                                       *)
(*                                                                         *)
(* A volume is known by its name, an image by a tag that can be moved, a   *)
(* container by a name in the tests' commands and by its identifier in the *)
(* cleanup's plan.  A network is reserved, labelled, selected and removed  *)
(* as a container that mounts nothing.                                     *)
(***************************************************************************)
EXTENDS Naturals, FiniteSets

CONSTANTS
    Volumes,        \* volume names the run claims; its Compose file declares them
    Rollbacks,      \* names Docker may generate for anonymous volumes
    Containers,     \* containers and networks
    Tags,           \* candidate image tags
    None,
    MaxOps,         \* bound on the Docker commands of the run
    MaxFaults,      \* bound on failing Docker commands
    MaxForeign      \* bound on the changes everybody else makes

ASSUME NamesAreApart == Volumes \cap Rollbacks = {}
ASSUME NoneIsNoName == None \notin Volumes \cup Rollbacks \cup Containers \cup Tags

Names == Volumes \cup Rollbacks
Makers == {"run", "other"}
VolumeState == [by : Makers, labels : SUBSET {"owner", "project", "rollback"}]
ContainerState == [by : Makers, labels : SUBSET {"owner", "project"},
                   mounts : SUBSET Names, image : Makers, stale : BOOLEAN]

ASSUME NoneIsNoState == None \notin VolumeState \cup ContainerState \cup Makers

Commands == [op : {"none", "run", "up", "create", "rmvol", "rmctr", "down", "rmimg", "build", "direct"},
             pc : {"idle", "check", "act", "start", "verify", "record"},
             v : Names \cup {None}, c : Containers \cup {None}, t : Tags \cup {None},
             stale : BOOLEAN]

VARIABLES
    volume,     \* what stands under each volume name, or None
    container,  \* each container, or None
    image,      \* whose image each tag names, or None
    ledger,     \* the claims: volume names, tags, attempts, recorded image IDs
    events,     \* rollback volumes whose creation the shim recorded
    denied,     \* the event log holds a refusal
    shim,       \* the Docker command under way
    late,       \* the command of a killed shim, which may still act
    ci,         \* the run: phase, cleanup plan, tests accepted, failures found
    ran,        \* history: tags and images of the starts the shim confirmed
    since,      \* history: what appeared after the last verification began
    spent       \* bounds used

docker == <<volume, container, image>>
vars == <<docker, ledger, events, denied, shim, late, ci, ran, since, spent>>

Idle == [op |-> "none", pc |-> "idle", v |-> None, c |-> None, t |-> None, stale |-> FALSE]

Init ==
    /\ volume = [n \in Names |-> None]
    /\ container = [c \in Containers |-> None]
    /\ image = [t \in Tags |-> None]
    /\ ledger = [vols |-> {}, tags |-> {}, tried |-> {}, id |-> [t \in Tags |-> None]]
    /\ events = {}
    /\ denied = FALSE
    /\ shim = Idle
    /\ late = Idle
    /\ ci = [phase |-> "reserve", seen |-> None, stale |-> FALSE, ctrs |-> {}, vols |-> {},
             tags |-> {}, objs |-> {}, accepted |-> FALSE, failed |-> FALSE]
    /\ ran = {}
    /\ since = {}
    /\ spent = [ops |-> 0, faults |-> 0, foreign |-> 0]

-----------------------------------------------------------------------------
(* History: a command is stale when what it inspected last, and is about   *)
(* to act on, has been put there by somebody else in the meantime.         *)

\* What an inspection of this command has found to be the run's.
Confirmed(cmd) ==
    CASE cmd.pc = "start" \/ (cmd.pc = "act" /\ cmd.op = "rmvol") -> {cmd.v}
      [] cmd.pc = "act" /\ cmd.op = "rmctr" -> {cmd.c}
      [] cmd.pc = "act" /\ cmd.op \in {"rmimg", "build"} -> {cmd.t}
      [] OTHER -> {}

Overtaken(cmd, x) == IF x \in Confirmed(cmd) THEN [cmd EXCEPT !.stale = TRUE] ELSE cmd

\* The same of the volume or tag the cleanup has read again.
OvertakenPlan(x) ==
    IF ci.phase \in {"remove", "images"} /\ ci.seen = x THEN [ci EXCEPT !.stale = TRUE] ELSE ci

Verifying == ci.phase \in {"containers", "volumes", "names"}
Appeared(X) == IF Verifying THEN since \cup X ELSE since

-----------------------------------------------------------------------------
(* Ownership rules.  Compose containers carry only the project label.      *)

Labelled(x, l) == x # None /\ l \in x.labels

\* Mutant: a claimed name is ownership enough.
OwnedVolumeByName(n) == n \in ledger.vols \cup events

OwnedVolume(n) ==
    \/ Labelled(volume[n], "owner") /\ Labelled(volume[n], "rollback")
    \/ n \in ledger.vols /\ volume[n] # None /\ volume[n].labels # {}

OwnedContainer(c) == Labelled(container[c], "owner") \/ Labelled(container[c], "project")

\* Before a mount: a claimed or recorded name; present and ours, or missing and claimed.
Mountable(n) ==
    /\ n \in ledger.vols \cup events
    /\ IF volume[n] # None THEN OwnedVolume(n) ELSE n \in ledger.vols

\* The image a container may use: recorded after a build of the run, still under its tag.
VerifiedImage(t) == t \in ledger.tried /\ ledger.id[t] # None /\ image[t] = ledger.id[t]

InUse(n) == \E c \in Containers : container[c] # None /\ n \in container[c].mounts

\* Mutant: the containers of plain docker run, which have no project, are missed.
SelectedByProject == {c \in Containers : Labelled(container[c], "project")}

SelectedContainers == {c \in Containers : OwnedContainer(c)}

SelectedVolumes ==
    {n \in Names : \/ Labelled(volume[n], "owner")
                   \/ /\ n \in ledger.vols
                      /\ Labelled(volume[n], "project") \/ Labelled(volume[n], "rollback")}

\* Attempted tags without an ID get the one now found.
CapturedIDs ==
    [t \in Tags |-> IF t \in ledger.tried /\ ledger.id[t] = None THEN image[t] ELSE ledger.id[t]]

SelectedTags == {t \in ledger.tried : image[t] # None /\ image[t] = CapturedIDs[t]}

-----------------------------------------------------------------------------
(* Reservation: every name is seen absent, then claimed in the ledger.  A  *)
(* name that is taken ends the run before it owns anything.                *)

SeeAbsent(x) ==
    /\ ci.phase = "reserve" /\ ci.seen = None
    /\ x \in (Volumes \ ledger.vols) \cup (Tags \ ledger.tags)
    /\ LET taken == IF x \in Tags THEN image[x] # None ELSE volume[x] # None
       IN  ci' = IF taken THEN [ci EXCEPT !.phase = "refused"] ELSE [ci EXCEPT !.seen = x]
    /\ UNCHANGED <<docker, ledger, events, denied, shim, spent, ran, since, late>>

AppendClaim ==
    /\ ci.phase = "reserve" /\ ci.seen # None
    /\ ledger' = IF ci.seen \in Tags THEN [ledger EXCEPT !.tags = @ \cup {ci.seen}]
                                     ELSE [ledger EXCEPT !.vols = @ \cup {ci.seen}]
    /\ ci' = [ci EXCEPT !.seen = None,
                        !.phase = IF ledger'.vols = Volumes /\ ledger'.tags = Tags
                                  THEN "build" ELSE @]
    /\ UNCHANGED <<docker, events, denied, shim, spent, ran, since, late>>

-----------------------------------------------------------------------------
(* The shim.  A command is checked, then carried out; whatever cannot be   *)
(* proven is refused and leaves a denial in the event log.                 *)

Begin(cmd) ==
    /\ shim = Idle
    /\ spent.ops < MaxOps /\ ~ci.accepted
    /\ shim' = cmd
    /\ spent' = [spent EXCEPT !.ops = @ + 1]
    /\ UNCHANGED <<docker, ledger, events, denied, ci, ran, since, late>>

BeginOnImage(op, t) ==
    /\ \/ op = "build" /\ ci.phase = "build" /\ t \notin ledger.tried
       \/ op \in {"rmimg", "direct"} /\ ci.phase = "test"
    /\ Begin([Idle EXCEPT !.op = op, !.pc = "check", !.t = t])

BeginOnVolume(op, n, t) ==
    /\ ci.phase = "test"
    /\ op \in {"run", "up", "create", "rmvol"}
    /\ op = "up" => n \in Volumes
    /\ Begin([Idle EXCEPT !.op = op, !.pc = "check", !.v = n, !.t = t])

BeginOther(op, c) ==
    /\ ci.phase = "test"
    /\ op \in {"rmctr", "down"}
    /\ Begin([Idle EXCEPT !.op = op, !.pc = "check", !.c = c])

Refuse == denied' = TRUE /\ shim' = Idle

\* Before a down every volume that has the project's label, or is mounted by
\* its containers, must provably be ours.
DownIsSafe ==
    \A n \in Names :
        (\/ Labelled(volume[n], "project")
         \/ \E c \in Containers : Labelled(container[c], "project") /\ n \in container[c].mounts)
        => n \in ledger.vols /\ OwnedVolume(n)

\* docker build, tag, load and pull are passed on as they are.
Allowed ==
    CASE shim.op \in {"run", "up"} -> Mountable(shim.v) /\ VerifiedImage(shim.t)
      [] shim.op = "create" -> Mountable(shim.v)
      [] shim.op = "rmvol"  -> OwnedVolume(shim.v)
      [] shim.op = "rmctr"  -> OwnedContainer(shim.c)
      [] shim.op = "down"   -> DownIsSafe
      [] shim.op = "rmimg"  -> VerifiedImage(shim.t)
      [] shim.op = "build"  -> image[shim.t] = None \/ image[shim.t] = ledger.id[shim.t]
      [] shim.op = "direct" -> TRUE

\* Inspection of everything the command names; a build also records its attempt.
Check ==
    /\ shim.pc = "check"
    /\ IF Allowed
       THEN /\ shim' = [shim EXCEPT !.pc = "act"]
            /\ ledger' = IF shim.op = "build" THEN [ledger EXCEPT !.tried = @ \cup {shim.t}]
                                              ELSE ledger
            /\ UNCHANGED denied
       ELSE Refuse /\ UNCHANGED ledger
    /\ UNCHANGED <<docker, events, ci, spent, ran, since, late>>

\* docker volume create is a no-op on a name that is taken.
VolumeMade(cmd) ==
    [volume EXCEPT ![cmd.v] =
        IF @ # None THEN @
        ELSE [by |-> "run", labels |-> IF cmd.op = "up" THEN {"owner", "project"} ELSE {"owner"}]]

EnsuredVolume == shim' = IF shim.op = "create" THEN Idle ELSE [shim EXCEPT !.pc = "start"]

\* Mutant: docker volume create succeeded, so the volume is ours.
EnsureVolumeUnread ==
    /\ shim.pc = "act" /\ shim.op \in {"run", "up", "create"}
    /\ volume' = VolumeMade(shim) /\ EnsuredVolume
    /\ UNCHANGED <<container, image, ledger, events, denied, ci, spent, ran, since, late>>

\* A missing claimed volume is created with our label, and read back.
EnsureVolume ==
    /\ shim.pc = "act" /\ shim.op \in {"run", "up", "create"}
    /\ IF volume[shim.v] = None \/ OwnedVolume(shim.v)
       THEN volume' = VolumeMade(shim) /\ EnsuredVolume /\ UNCHANGED denied
       ELSE Refuse /\ UNCHANGED volume
    /\ UNCHANGED <<container, image, ledger, events, ci, spent, ran, since, late>>

\* docker run is given the verified image ID, compose up resolves the tag
\* again.  Both create a volume that has gone, without our label.  An
\* identifier of the cleanup's plan is not given again.
Starts(cmd, c) ==
    /\ cmd.pc = "start"
    /\ container[c] = None /\ c \notin ci.ctrs
    /\ cmd.op = "up" => image[cmd.t] # None
    /\ volume' = [volume EXCEPT ![cmd.v] =
            IF @ # None THEN @ ELSE [by |-> "run", labels |-> IF cmd.op = "up" THEN {"project"} ELSE {}]]
    /\ container' = [container EXCEPT ![c] =
            [by |-> "run", labels |-> IF cmd.op = "up" THEN {"project"} ELSE {"owner"},
             mounts |-> {cmd.v}, stale |-> cmd.stale,
             image |-> IF cmd.op = "up" THEN image[cmd.t] ELSE ledger.id[cmd.t]]]
    /\ UNCHANGED image

StartContainer(c) ==
    /\ Starts(shim, c)
    /\ shim' = [shim EXCEPT !.pc = "verify", !.c = c]
    /\ UNCHANGED <<ledger, events, denied, ci, spent, ran, since, late>>

\* Without the tag compose up starts nothing and says so.
NothingToStart ==
    /\ shim.pc = "start" /\ shim.op = "up" /\ image[shim.t] = None
    /\ shim' = Idle
    /\ UNCHANGED <<docker, ledger, events, denied, ci, spent, ran, since, late>>

\* Mutant: the image the new container has is not compared.
VerifyUnread ==
    /\ shim.pc = "verify"
    /\ shim' = Idle
    /\ ran' = IF container[shim.c] # None THEN ran \cup {<<shim.t, container[shim.c].image>>} ELSE ran
    /\ UNCHANGED <<docker, ledger, events, denied, ci, spent, since, late>>

VerifyStarted ==
    /\ shim.pc = "verify"
    /\ IF container[shim.c] = None
       THEN shim' = Idle /\ UNCHANGED <<denied, ran>>
       ELSE IF container[shim.c].image # ledger.id[shim.t]
       THEN Refuse /\ UNCHANGED ran
       ELSE /\ shim' = Idle /\ UNCHANGED denied
            /\ ran' = ran \cup {<<shim.t, container[shim.c].image>>}
    /\ UNCHANGED <<docker, ledger, events, ci, spent, since, late>>

\* Docker resolves names again when it removes.  A down takes the project's
\* containers and every volume the Compose file declares; a volume in use stays.
Removes(cmd) ==
    /\ cmd.pc = "act" /\ cmd.op \in {"rmvol", "rmctr", "rmimg", "down"}
    /\ container' = [c \in Containers |->
            IF \/ cmd.op = "rmctr" /\ c = cmd.c
               \/ cmd.op = "down" /\ Labelled(container[c], "project")
            THEN None ELSE container[c]]
    /\ volume' = [n \in Names |->
            IF /\ \/ cmd.op = "rmvol" /\ n = cmd.v
                  \/ cmd.op = "down" /\ n \in Volumes
               /\ ~ \E c \in Containers : container'[c] # None /\ n \in container'[c].mounts
            THEN None ELSE volume[n]]
    /\ image' = IF cmd.op = "rmimg" THEN [image EXCEPT ![cmd.t] = None] ELSE image

RemoveByShim ==
    /\ Removes(shim)
    /\ shim' = Idle
    /\ UNCHANGED <<ledger, events, denied, ci, spent, ran, since, late>>

\* An anonymous volume must carry the owner and rollback labels; its name is
\* recorded only after it was read back.
CreateRollback(n) ==
    /\ ci.phase = "test" /\ shim = Idle
    /\ spent.ops < MaxOps /\ ~ci.accepted
    /\ n \in Rollbacks /\ volume[n] = None
    /\ volume' = [volume EXCEPT ![n] = [by |-> "run", labels |-> {"owner", "rollback"}]]
    /\ \/ events' = events \cup {n} /\ UNCHANGED denied
       \/ denied' = TRUE /\ UNCHANGED events
    /\ spent' = [spent EXCEPT !.ops = @ + 1]
    /\ UNCHANGED <<container, image, ledger, shim, ci, ran, since, late>>

\* The build ends, with or without an image under its tag ...
BuildEnds ==
    /\ shim.pc = "act" /\ shim.op = "build"
    /\ \/ image' = [image EXCEPT ![shim.t] = "run"]
       \/ UNCHANGED image
    /\ shim' = [shim EXCEPT !.pc = "record"]
    /\ UNCHANGED <<volume, container, ledger, events, denied, ci, spent, ran, since, late>>

\* ... and the ID then found there is recorded, whoever put it there.
RecordImage ==
    /\ shim.pc = "record"
    /\ ledger' = IF image[shim.t] # None THEN [ledger EXCEPT !.id[shim.t] = image[shim.t]] ELSE ledger
    /\ shim' = Idle
    /\ UNCHANGED <<docker, events, denied, ci, spent, ran, since, late>>

\* A docker build, tag, load or pull of the tests moves a tag to any image.
DirectMove ==
    /\ shim.pc = "act" /\ shim.op = "direct"
    /\ \E by \in Makers : image' = [image EXCEPT ![shim.t] = by]
    /\ shim' = Idle
    /\ late' = Overtaken(late, shim.t)
    /\ UNCHANGED <<volume, container, ledger, events, denied, ci, spent, ran, since>>

\* A Docker command fails or times out; only some failures are recorded as
\* denials, and the command of a killed shim goes on alone.
ShimFails ==
    /\ shim # Idle
    /\ spent.faults < MaxFaults
    /\ spent' = [spent EXCEPT !.faults = @ + 1]
    /\ shim' = Idle
    /\ late' \in {late} \cup IF shim.pc \in {"act", "start"} THEN {shim} ELSE {}
    /\ denied' \in {denied, TRUE}
    /\ UNCHANGED <<docker, ledger, events, ci, ran, since>>

LateMovesTag ==
    /\ late.pc = "act" /\ late.op \in {"build", "direct"}
    /\ \E by \in IF late.op = "build" THEN {"run"} ELSE Makers :
            image' = [image EXCEPT ![late.t] = by]
    /\ shim' = IF late.op = "direct" THEN Overtaken(shim, late.t) ELSE shim
    /\ ci' = IF late.op = "direct" THEN OvertakenPlan(late.t) ELSE ci
    /\ since' = Appeared({late.t})
    /\ UNCHANGED <<volume, container>>

LateCreates ==
    /\ late.pc = "act" /\ late.op \in {"run", "up", "create"}
    /\ volume' = VolumeMade(late)
    /\ since' = Appeared({late.v})
    /\ UNCHANGED <<container, image, shim, ci>>

LateStarts(c) ==
    /\ Starts(late, c)
    /\ since' = Appeared({late.v, c})
    /\ UNCHANGED <<shim, ci>>

LateRemoves == Removes(late) /\ UNCHANGED <<shim, ci, since>>

LateCommandActs ==
    /\ late' = Idle
    /\ LateMovesTag \/ LateCreates \/ LateRemoves \/ \E c \in Containers : LateStarts(c)
    /\ UNCHANGED <<ledger, events, denied, ran, spent>>

-----------------------------------------------------------------------------
(* The run.  After the builds the IDs under the tags are recorded again.   *)

FreezeImages ==
    /\ ci.phase = "build" /\ shim = Idle
    /\ \A t \in Tags : ledger.id[t] # None /\ image[t] # None
    /\ ledger' = [ledger EXCEPT !.id = image]
    /\ ci' = [ci EXCEPT !.phase = "test"]
    /\ UNCHANGED <<docker, events, denied, shim, spent, ran, since, late>>

\* All tests passed and every tag still names the frozen image.
Accept ==
    /\ ci.phase = "test" /\ ~ci.accepted /\ shim = Idle
    /\ image = ledger.id
    /\ ci' = [ci EXCEPT !.accepted = TRUE]
    /\ UNCHANGED <<docker, ledger, events, denied, shim, ran, since, spent, late>>

\* The finally block: tests done or failed.  Claimed volumes without a label
\* of ours are kept.
Inventory ==
    /\ ci.phase \in {"build", "test"} /\ shim = Idle
    /\ ledger' = [ledger EXCEPT !.id = CapturedIDs]
    /\ ci' = [ci EXCEPT !.phase = "remove", !.ctrs = SelectedContainers, !.vols = SelectedVolumes,
                        !.failed = \E n \in ledger.vols : volume[n] # None /\ n \notin SelectedVolumes]
    /\ UNCHANGED <<docker, events, denied, shim, spent, ran, since, late>>

CleanContainer(c) ==
    /\ ci.phase = "remove" /\ c \in ci.ctrs
    /\ container' = [container EXCEPT ![c] = None]
    /\ ci' = [ci EXCEPT !.ctrs = @ \ {c}]
    /\ UNCHANGED <<volume, image, ledger, events, denied, shim, spent, ran, since, late>>

\* Ownership of a volume is read once more just before it is removed.
RevalidateVolume(n) ==
    /\ ci.phase = "remove" /\ ci.ctrs = {} /\ ci.seen = None
    /\ n \in ci.vols
    /\ ci' = IF volume[n] = None THEN [ci EXCEPT !.vols = @ \ {n}]
             ELSE IF volume[n].labels = {} THEN [ci EXCEPT !.vols = @ \ {n}, !.failed = TRUE]
             ELSE [ci EXCEPT !.seen = n]
    /\ UNCHANGED <<docker, ledger, events, denied, shim, spent, ran, since, late>>

CleanVolume ==
    /\ ci.phase = "remove" /\ ci.seen # None
    /\ volume' = IF InUse(ci.seen) THEN volume ELSE [volume EXCEPT ![ci.seen] = None]
    /\ ci' = [ci EXCEPT !.vols = @ \ {ci.seen}, !.seen = None, !.stale = FALSE,
                        !.failed = @ \/ InUse(ci.seen)]
    /\ UNCHANGED <<container, image, ledger, events, denied, shim, spent, ran, since, late>>

PlanImages ==
    /\ ci.phase = "remove" /\ ci.ctrs = {} /\ ci.vols = {}
    /\ ledger' = [ledger EXCEPT !.id = CapturedIDs]
    /\ ci' = [ci EXCEPT !.phase = "images", !.tags = SelectedTags]
    /\ UNCHANGED <<docker, events, denied, shim, spent, ran, since, late>>

RevalidateTag(t) ==
    /\ ci.phase = "images" /\ ci.seen = None /\ t \in ci.tags
    /\ ci' = IF image[t] = ledger.id[t] THEN [ci EXCEPT !.seen = t]
                                        ELSE [ci EXCEPT !.tags = @ \ {t}, !.failed = TRUE]
    /\ UNCHANGED <<docker, ledger, events, denied, shim, spent, ran, since, late>>

CleanTag ==
    /\ ci.phase = "images" /\ ci.seen # None
    /\ image' = [image EXCEPT ![ci.seen] = None]
    /\ ci' = [ci EXCEPT !.tags = @ \ {ci.seen}, !.objs = @ \cup {ci.seen}, !.seen = None, !.stale = FALSE]
    /\ UNCHANGED <<volume, container, ledger, events, denied, shim, spent, ran, since, late>>

\* An image whose tag was removed is gone with it or removed by its ID; one
\* that another tag or a container holds is kept and reported.
CleanObject(t) ==
    /\ ci.phase = "images" /\ ci.tags = {} /\ t \in ci.objs
    /\ \E kept \in BOOLEAN : ci' = [ci EXCEPT !.objs = @ \ {t}, !.failed = @ \/ kept]
    /\ UNCHANGED <<docker, ledger, events, denied, shim, spent, ran, since, late>>

CleanupCommandFails ==
    /\ spent.faults < MaxFaults
    /\ \/ \E c \in ci.ctrs : ci' = [ci EXCEPT !.ctrs = @ \ {c}, !.failed = TRUE]
       \/ /\ ci.seen # None /\ ci.phase \in {"remove", "images"}
          /\ ci' = [ci EXCEPT !.vols = @ \ {ci.seen}, !.tags = @ \ {ci.seen},
                              !.seen = None, !.stale = FALSE, !.failed = TRUE]
       \/ Verifying /\ ci' = [ci EXCEPT !.failed = TRUE]
    /\ spent' = [spent EXCEPT !.faults = @ + 1]
    /\ UNCHANGED <<docker, ledger, events, denied, shim, ran, since, late>>

-----------------------------------------------------------------------------
(* The verification after the cleanup looks again, at one kind after the   *)
(* other; anything of ours, or under a claimed name, is a failure.         *)

Look(found, next) ==
    /\ ci' = [next EXCEPT !.failed = @ \/ found]
    /\ UNCHANGED <<docker, ledger, events, denied, shim, spent, ran, late>>

\* The cleanup of the images ends with a last look at the claimed tags.
BeginVerification ==
    /\ ci.phase = "images" /\ ci.tags = {} /\ ci.objs = {}
    /\ Look(\E t \in ledger.tags : image[t] # None,
            [ci EXCEPT !.phase = "containers", !.vols = ledger.vols, !.tags = ledger.tags])
    /\ since' = {}

LookForContainers ==
    /\ ci.phase = "containers"
    /\ Look(SelectedContainers # {}, [ci EXCEPT !.phase = "volumes"]) /\ UNCHANGED since

LookForVolumes ==
    /\ ci.phase = "volumes"
    /\ Look(SelectedVolumes # {}, [ci EXCEPT !.phase = "names"]) /\ UNCHANGED since

LookForVolume(n) ==
    /\ ci.phase = "names" /\ n \in ci.vols
    /\ Look(volume[n] # None, [ci EXCEPT !.vols = @ \ {n}]) /\ UNCHANGED since

LookForTag(t) ==
    /\ ci.phase = "names" /\ ci.vols = {} /\ t \in ci.tags
    /\ Look(image[t] # None, [ci EXCEPT !.tags = @ \ {t}]) /\ UNCHANGED since

\* A denial of the shim is a failure too.
Report ==
    /\ ci.phase = "names" /\ ci.vols = {} /\ ci.tags = {}
    /\ Look(denied, [ci EXCEPT !.phase = "done"]) /\ UNCHANGED since

-----------------------------------------------------------------------------
(* Everybody else: takes any free name, moves any tag away and back,       *)
(* removes only what is theirs.                                            *)

OtherCreates(x) ==
    /\ spent.foreign < MaxForeign
    /\ \/ /\ x \in Names /\ volume[x] = None
          /\ volume' = [volume EXCEPT ![x] = [by |-> "other", labels |-> {}]]
          /\ UNCHANGED <<container, image>>
       \/ /\ x \in Containers /\ container[x] = None /\ x \notin ci.ctrs
          /\ container' = [container EXCEPT ![x] =
                [by |-> "other", labels |-> {}, mounts |-> {}, image |-> "other", stale |-> FALSE]]
          /\ UNCHANGED <<volume, image>>
       \/ /\ x \in Tags /\ image[x] # "other"
          /\ image' = [image EXCEPT ![x] = "other"]
          /\ UNCHANGED <<volume, container>>
       \/ /\ x \in Tags /\ image[x] = "other" /\ ledger.id[x] = "run"
          /\ image' = [image EXCEPT ![x] = "run"]
          /\ UNCHANGED <<volume, container>>
    /\ shim' = Overtaken(shim, x) /\ late' = Overtaken(late, x) /\ ci' = OvertakenPlan(x)
    /\ since' = Appeared({x})
    /\ spent' = [spent EXCEPT !.foreign = @ + 1]
    /\ UNCHANGED <<ledger, events, denied, ran>>

OtherRemoves(n) ==
    /\ volume[n] # None /\ volume[n].by = "other"
    /\ ~InUse(n)
    /\ volume' = [volume EXCEPT ![n] = None]
    /\ UNCHANGED <<container, image, ledger, events, denied, shim, ci, spent, ran, since, late>>

Others ==
    \/ \E x \in Names \cup Containers \cup Tags : OtherCreates(x)
    \/ \E n \in Names : OtherRemoves(n)

-----------------------------------------------------------------------------

Reserve == (\E x \in Volumes \cup Tags : SeeAbsent(x)) \/ AppendClaim

ShimStep ==
    \/ Check \/ EnsureVolume \/ NothingToStart \/ VerifyStarted \/ RemoveByShim
    \/ BuildEnds \/ RecordImage \/ DirectMove
    \/ \E c \in Containers : StartContainer(c)

Tests ==
    \/ \E op \in {"build", "rmimg", "direct"}, t \in Tags : BeginOnImage(op, t)
    \/ \E op \in {"run", "up", "create", "rmvol"}, n \in Names, t \in Tags : BeginOnVolume(op, n, t)
    \/ \E op \in {"rmctr", "down"}, c \in Containers : BeginOther(op, c)
    \/ \E n \in Rollbacks : CreateRollback(n)
    \/ FreezeImages \/ Accept \/ ShimFails \/ LateCommandActs

Cleanup ==
    \/ Inventory \/ CleanVolume \/ PlanImages \/ CleanTag
    \/ \E c \in Containers : CleanContainer(c)
    \/ \E n \in Names : RevalidateVolume(n)
    \/ \E t \in Tags : RevalidateTag(t) \/ CleanObject(t)

Verify ==
    \/ BeginVerification \/ LookForContainers \/ LookForVolumes \/ Report
    \/ \E n \in Names : LookForVolume(n)
    \/ \E t \in Tags : LookForTag(t)

Next == Reserve \/ ShimStep \/ Tests \/ Cleanup \/ CleanupCommandFails \/ Verify \/ Others

Spec == Init /\ [][Next]_vars

-----------------------------------------------------------------------------

\* Every variable has its type.
TypeOK ==
    /\ volume \in [Names -> VolumeState \cup {None}]
    /\ container \in [Containers -> ContainerState \cup {None}]
    /\ image \in [Tags -> Makers \cup {None}]
    /\ ledger \in [vols : SUBSET Volumes, tags : SUBSET Tags, tried : SUBSET Tags,
                   id : [Tags -> Makers \cup {None}]]
    /\ events \subseteq Rollbacks
    /\ denied \in BOOLEAN
    /\ shim \in Commands /\ late \in Commands
    /\ ci \in [phase : {"reserve", "refused", "build", "test", "remove", "images",
                        "containers", "volumes", "names", "done"},
               seen : Names \cup Tags \cup {None}, stale : BOOLEAN,
               ctrs : SUBSET Containers, vols : SUBSET Names, tags : SUBSET Tags, objs : SUBSET Tags,
               accepted : BOOLEAN, failed : BOOLEAN]
    /\ ran \subseteq Tags \X Makers

\* A container of the run, also one whose start outlived its shim, mounts no
\* volume of somebody else, whoever took a claimed name before the shim had
\* read it back.  Excepted is exactly the container of a stale command: the
\* run's own volume was removed, and its name taken by somebody else, between
\* that reading and the start (docker_ownership.py:607, which nothing repeats).
\* Part of it is that the variables keep their types.
MountsAreOwn ==
    /\ TypeOK
    /\ \A c \in Containers :
          container[c] # None /\ container[c].by = "run" /\ ~container[c].stale =>
              \A n \in container[c].mounts : volume[n] # None /\ volume[n].by = "run"

\* What an accepted run was told it had started had the images it had recorded
\* when its builds were done, also when somebody moved a tag between the
\* shim's check and Compose's own resolution of it, and moved it back before
\* the tags were compared.  Whether the recorded image is the run's own is
\* another question: the code records what the tag names when the build ends.
AcceptedImagesWereFrozen == ci.accepted => \A p \in ran : p[2] = ledger.id[p[1]]

\* A clean report is true: whatever failed on the way, and whatever commands of
\* killed shims did behind the cleanup, no volume or container of the run and
\* nothing under a claimed name is left, but what has appeared since the last
\* verification began.  One thing escapes: the volume without a label that a
\* late docker run creates again under the generated name of a rollback volume;
\* no claim names it.
CleanReport ==
    [][Report /\ ~ci'.failed =>
        /\ \A n \in Names \ since : volume[n] # None =>
              n \in Rollbacks /\ (volume[n].by = "other" \/ volume[n].labels = {})
        /\ \A c \in Containers \ since : container[c] # None => container[c].by = "other"
        /\ \A t \in Tags \ since : image[t] = None]_vars

\* The command that acts in this step had been overtaken on x.
ByStale(x) ==
    \/ shim.stale /\ x \in Confirmed(shim) /\ shim' # shim
    \/ late.stale /\ x \in Confirmed(late) /\ late' # late
    \/ ci.stale /\ x = ci.seen /\ ci' # ci

By(op) == (shim.op = op /\ shim' # shim) \/ (late.op = op /\ late' # late)

\* Neither the tests' commands, also those that outlive their shims, nor the
\* cleanup remove or replace a volume, a container or a tag of somebody else,
\* whoever took a claimed name and when (docker_ownership.py: every mutation
\* follows an inspection).  Excepted is exactly what the code lets through:
\* names that changed hands between the inspection and Docker's own lookup;
\* volumes that a down removes because the Compose file declares them; tags
\* moved by a direct build, tag, load or pull; and images recorded as the
\* run's because the tag named them when a build ended.
ForeignUntouched ==
    [][\/ Others
       \/ /\ \A n \in Names : volume[n] # None /\ volume[n].by = "other" =>
                volume'[n] = volume[n] \/ ByStale(n) \/ (n \in Volumes /\ By("down"))
          /\ \A c \in Containers : container[c] # None /\ container[c].by = "other" =>
                container'[c] = container[c] \/ ByStale(c)
          /\ \A t \in Tags : image[t] = "other" =>
                image'[t] = "other" \/ ByStale(t) \/ By("direct") \/ ledger.id[t] = "other"]_vars

=============================================================================
