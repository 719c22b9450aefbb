--------------------------- MODULE OwnershipProofs ---------------------------
(***************************************************************************)
(* What is proved of one acceptance run's Docker resources, for any names, *)
(* any number of commands, failures and changes of others, and with no     *)
(* assumption on what others retag or what outlives its shim.              *)
(*                                                                         *)
(* Each step moves one volume, container, tag or recorded ID in one of a   *)
(* few ways; the invariants follow from these moves and not from the       *)
(* actions.                                                                *)
(***************************************************************************)
EXTENDS Ownership, TLAPS

\* Labels prove who made a volume or a container.
LabelsProve ==
    /\ \A n \in Names : volume[n] # None /\ volume[n].labels # {} =>
          volume[n].by = "run" /\ (n \in Rollbacks => "owner" \in volume[n].labels)
    /\ \A c \in Containers : container[c] # None =>
          (container[c].labels # {} <=> container[c].by = "run")

\* A command names what its operation needs; one that starts a container has
\* the recorded ID of an image.
CommandOK(cmd) ==
    /\ cmd.op \in {"run", "up", "create", "rmvol"} => cmd.v \in Names /\ cmd.t \in Tags
    /\ cmd.op = "up" => cmd.v \in Volumes
    /\ cmd.op \in {"build", "rmimg", "direct"} => cmd.t \in Tags
    /\ cmd.op = "rmctr" => cmd.c \in Containers
    /\ cmd.pc \in {"start", "verify"} => cmd.op \in {"run", "up"}
    /\ cmd.pc = "verify" => cmd.c \in Containers
    /\ cmd.op \in {"run", "up"} /\ cmd.pc \in {"act", "start"} => ledger.id[cmd.t] # None

\* Commands run while images are built and tests go on, and never later.
CommandsOK ==
    /\ CommandOK(shim) /\ CommandOK(late)
    /\ shim # Idle => ci.phase \in {"build", "test"} /\ ~ci.accepted
    /\ shim.op = "build" => ci.phase = "build"
    /\ shim.op \notin {"none", "build"} => ci.phase = "test"
    /\ shim.pc = "record" => shim.op = "build"

VolumeIsOurs(n) == volume[n] = None \/ volume[n].by = "run"
ContainerIsOurs(c) == container[c] = None \/ container[c].by = "run"
TagIsOurs(t) == image[t] # "other" \/ ledger.id[t] = "other"

\* What the inspection found still holds when a command acts that is not stale.
CurrentOK(cmd) ==
    ~cmd.stale =>
        /\ cmd.pc = "start" \/ (cmd.pc = "act" /\ cmd.op = "rmvol") => VolumeIsOurs(cmd.v)
        /\ cmd.pc = "act" /\ cmd.op = "rmctr" => ContainerIsOurs(cmd.c)
        /\ cmd.pc = "act" /\ cmd.op \in {"rmimg", "build"} => TagIsOurs(cmd.t)

\* So does what the run has just seen absent, planned or read again.
PlanIsCurrent ==
    /\ ci.phase = "reserve" => ci.seen \in Volumes \cup Tags \cup {None}
    /\ ci.phase \in {"build", "test"} \/ Verifying => ci.seen = None
    /\ ci.phase = "remove" =>
          /\ \A c \in ci.ctrs : ContainerIsOurs(c)
          /\ ci.seen # None => ci.seen \in ci.vols /\ (ci.stale \/ VolumeIsOurs(ci.seen))
    /\ ci.phase = "images" /\ ci.seen # None => ci.seen \in ci.tags /\ (ci.stale \/ TagIsOurs(ci.seen))

OwnershipInv ==
    /\ TypeOK /\ LabelsProve /\ CommandsOK
    /\ CurrentOK(shim) /\ CurrentOK(late) /\ PlanIsCurrent
    /\ MountsAreOwn

---------------------------------------------------------------------------
(* What a step may do to one volume.                                       *)

\* Something of somebody else appears as x, and what looked at x is stale.
Marked(x) ==
    /\ shim' = Overtaken(shim, x) \/ shim' = Idle
    /\ late' = Overtaken(late, x) \/ late' = Idle
    /\ ci' = OvertakenPlan(x)

\* A command of the tests, or one that outlived its shim, removes a volume.
CommandRemovesVolume(cmd, n) ==
    /\ cmd.pc = "act"
    /\ (cmd.op = "rmvol" /\ n = cmd.v) \/ (cmd.op = "down" /\ n \in Volumes)

RunRemovesVolume(n) ==
    \/ CommandRemovesVolume(shim, n) /\ shim' = Idle
    \/ CommandRemovesVolume(late, n) /\ late' = Idle
    \/ ci.phase = "remove" /\ ci.seen # None /\ n = ci.seen /\ ci' # ci

VolumeMove(n) ==
    \/ volume'[n] = volume[n]
    \/ /\ volume[n] = None /\ volume'[n] \in VolumeState /\ volume'[n].by = "run"
       /\ n \in Rollbacks /\ volume'[n].labels # {} => "owner" \in volume'[n].labels
       /\ Verifying => n \in since'
    \/ /\ volume[n] = None /\ volume'[n] = [by |-> "other", labels |-> {}]
       /\ Others /\ Marked(n) /\ since' = Appeared({n})
    \/ /\ volume'[n] = None
       /\ \A c \in Containers : container'[c] # None => n \notin container'[c].mounts
       /\ Others \/ RunRemovesVolume(n)

VolumesGoal == volume' \in [Names -> VolumeState \cup {None}] /\ \A n \in Names : VolumeMove(n)

\* One missing volume of the run appears.
LEMMA AppearingVolume ==
    ASSUME volume \in [Names -> VolumeState \cup {None}], NEW x \in Names,
           NEW s \in VolumeState, s.by = "run",
           x \in Rollbacks /\ s.labels # {} => "owner" \in s.labels,
           Verifying => x \in since',
           volume' = [volume EXCEPT ![x] = IF @ # None THEN @ ELSE s]
    PROVE  VolumesGoal
<1>1. \A n \in Names : volume'[n] = IF n = x /\ volume[x] = None THEN s ELSE volume[n]
  OBVIOUS
<1>2. volume' \in [Names -> VolumeState \cup {None}]
  OBVIOUS
<1> QED
  BY <1>1, <1>2 DEF VolumeMove, VolumesGoal

LEMMA MadeVolume ==
    ASSUME OwnershipInv, NEW cmd, CommandOK(cmd), cmd.op \in {"run", "up", "create"},
           volume' = VolumeMade(cmd), Verifying => cmd.v \in since'
    PROVE  VolumesGoal
<1> DEFINE s == [by |-> "run", labels |-> IF cmd.op = "up" THEN {"owner", "project"} ELSE {"owner"}]
<1>1. cmd.v \in Names
  BY DEF CommandOK
<1>2. s \in VolumeState /\ s.by = "run" /\ "owner" \in s.labels
  BY DEF VolumeState, Makers
<1>3. volume' = [volume EXCEPT ![cmd.v] = IF @ # None THEN @ ELSE s]
  BY DEF VolumeMade
<1>4. volume \in [Names -> VolumeState \cup {None}]
  BY DEF OwnershipInv, TypeOK
<1> HIDE DEF s
<1> QED
  BY <1>1, <1>2, <1>3, <1>4, AppearingVolume

LEMMA StartedVolume ==
    ASSUME OwnershipInv, NEW cmd, CommandOK(cmd), NEW c \in Containers, Starts(cmd, c),
           Verifying => cmd.v \in since'
    PROVE  VolumesGoal
<1> DEFINE s == [by |-> "run", labels |-> IF cmd.op = "up" THEN {"project"} ELSE {}]
<1>1. cmd.v \in Names /\ (cmd.op = "up" => cmd.v \notin Rollbacks)
  BY NamesAreApart DEF CommandOK, Starts
<1>2. s \in VolumeState /\ s.by = "run" /\ (cmd.v \in Rollbacks => s.labels = {})
  BY <1>1 DEF VolumeState, Makers
<1>3. volume' = [volume EXCEPT ![cmd.v] = IF @ # None THEN @ ELSE s]
  BY DEF Starts
<1>4. volume \in [Names -> VolumeState \cup {None}]
  BY DEF OwnershipInv, TypeOK
<1> HIDE DEF s
<1> QED
  BY <1>1, <1>2, <1>3, <1>4, AppearingVolume

LEMMA RemovedVolumes ==
    ASSUME OwnershipInv, NEW cmd, Removes(cmd),
           (cmd = shim /\ shim' = Idle) \/ (cmd = late /\ late' = Idle)
    PROVE  VolumesGoal
<1>1. /\ cmd.pc = "act"
      /\ volume' = [n \in Names |->
            IF /\ \/ cmd.op = "rmvol" /\ n = cmd.v
                  \/ cmd.op = "down" /\ n \in Volumes
               /\ ~ \E c \in Containers : container'[c] # None /\ n \in container'[c].mounts
            THEN None ELSE volume[n]]
  BY DEF Removes
<1>2. volume \in [Names -> VolumeState \cup {None}]
  BY DEF OwnershipInv, TypeOK
<1>3. volume' \in [Names -> VolumeState \cup {None}]
  BY <1>1, <1>2
<1>4. ASSUME NEW n \in Names PROVE VolumeMove(n)
  BY <1>1, <1>2 DEF VolumeMove, RunRemovesVolume, CommandRemovesVolume
<1> QED
  BY <1>3, <1>4 DEF VolumesGoal

LEMMA VolumeSteps == ASSUME OwnershipInv, [Next]_vars PROVE VolumesGoal
<1>1. /\ volume \in [Names -> VolumeState \cup {None}] /\ CommandOK(shim) /\ CommandOK(late)
      /\ shim # Idle => ~Verifying
  BY DEF OwnershipInv, TypeOK, CommandsOK, Verifying
<1>2. CASE UNCHANGED volume
  BY <1>1, <1>2 DEF VolumeMove, VolumesGoal
<1>3. CASE EnsureVolume
  <2>1. shim # Idle
    BY <1>3 DEF EnsureVolume, Idle
  <2> QED
    BY <1>1, <1>2, <1>3, <2>1, MadeVolume DEF EnsureVolume
<1>4. CASE RemoveByShim
  BY <1>4, RemovedVolumes DEF RemoveByShim
<1>5. ASSUME NEW c \in Containers, StartContainer(c) PROVE VolumesGoal
  <2>1. shim # Idle
    BY <1>5 DEF StartContainer, Starts, Idle
  <2> QED
    BY <1>1, <1>5, <2>1, StartedVolume DEF StartContainer
<1>6. ASSUME NEW x \in Rollbacks, CreateRollback(x) PROVE VolumesGoal
  <2> DEFINE s == [by |-> "run", labels |-> {"owner", "rollback"}]
  <2>1. x \in Names /\ volume' = [volume EXCEPT ![x] = IF @ # None THEN @ ELSE s] /\ ~Verifying
    BY <1>6 DEF CreateRollback, Names, Verifying
  <2>2. s \in VolumeState /\ s.by = "run" /\ "owner" \in s.labels
    BY DEF VolumeState, Makers
  <2> HIDE DEF s
  <2> QED
    BY <1>1, <2>1, <2>2, AppearingVolume
<1>7. CASE LateCommandActs
  <2>1. CASE LateCreates
    BY <1>1, <2>1, MadeVolume DEF LateCreates, Appeared
  <2>2. CASE \E c \in Containers : LateStarts(c)
    BY <1>1, <2>2, StartedVolume DEF LateStarts, Appeared
  <2>3. CASE LateRemoves
    BY <1>7, <2>3, RemovedVolumes DEF LateCommandActs, LateRemoves
  <2> QED
    BY <1>2, <1>7, <2>1, <2>2, <2>3 DEF LateCommandActs, LateMovesTag
<1>8. CASE CleanVolume
  <2> SUFFICES ASSUME ~InUse(ci.seen) PROVE VolumesGoal
    BY <1>2, <1>8 DEF CleanVolume
  <2>1. /\ ci.phase = "remove" /\ ci.seen # None
        /\ volume' = [volume EXCEPT ![ci.seen] = None] /\ container' = container
    BY <1>8 DEF CleanVolume
  <2>2. ci'.seen = None
    BY <1>8 DEF CleanVolume, OwnershipInv, TypeOK
  <2>3. \A n \in Names : volume'[n] = IF n = ci.seen THEN None ELSE volume[n]
    BY <1>1, <2>1
  <2>4. volume' \in [Names -> VolumeState \cup {None}]
    BY <1>1, <2>1
  <2> QED
    BY <2>1, <2>2, <2>3, <2>4 DEF VolumesGoal, VolumeMove, RunRemovesVolume, InUse
<1>9. ASSUME NEW x \in Names \cup Containers \cup Tags, OtherCreates(x) PROVE VolumesGoal
  <2> SUFFICES ASSUME x \in Names, volume[x] = None,
                      volume' = [volume EXCEPT ![x] = [by |-> "other", labels |-> {}]]
               PROVE  VolumesGoal
    BY <1>2, <1>9 DEF OtherCreates
  <2>1. [by |-> "other", labels |-> {}] \in VolumeState
    BY DEF VolumeState, Makers
  <2>2. \A n \in Names : volume'[n] = IF n = x THEN [by |-> "other", labels |-> {}] ELSE volume[n]
    BY <1>1
  <2>3. volume' \in [Names -> VolumeState \cup {None}]
    BY <1>1, <2>1
  <2>4. Others /\ Marked(x) /\ since' = Appeared({x})
    BY <1>9 DEF Others, OtherCreates, Marked
  <2> QED
    BY <2>2, <2>3, <2>4 DEF VolumesGoal, VolumeMove
<1>10. ASSUME NEW x \in Names, OtherRemoves(x) PROVE VolumesGoal
  <2>1. Others /\ volume' = [volume EXCEPT ![x] = None] /\ ~InUse(x) /\ container' = container
    BY <1>10 DEF OtherRemoves, Others
  <2>2. \A n \in Names : volume'[n] = IF n = x THEN None ELSE volume[n]
    BY <1>1, <2>1
  <2>3. volume' \in [Names -> VolumeState \cup {None}]
    BY <1>1, <2>1
  <2> QED
    BY <2>1, <2>2, <2>3 DEF VolumesGoal, VolumeMove, InUse
<1>11. CASE Reserve
  BY <1>2, <1>11 DEF Reserve, SeeAbsent, AppendClaim, docker
<1>12. CASE ShimStep
  BY <1>2, <1>3, <1>4, <1>5, <1>12
  DEF ShimStep, Check, NothingToStart, VerifyStarted, BuildEnds, RecordImage, DirectMove, docker
<1>13. CASE Tests
  BY <1>2, <1>6, <1>7, <1>13
  DEF Tests, BeginOnImage, BeginOnVolume, BeginOther, Begin, FreezeImages, Accept, ShimFails, docker
<1>14. CASE Cleanup \/ CleanupCommandFails \/ Verify
  BY <1>2, <1>8, <1>14
  DEF Cleanup, CleanupCommandFails, Inventory, PlanImages, CleanTag, CleanObject, CleanContainer,
      RevalidateVolume, RevalidateTag, Verify, BeginVerification, LookForContainers, LookForVolumes,
      LookForVolume, LookForTag, Report, Look, docker
<1>15. CASE Others
  BY <1>9, <1>10, <1>15 DEF Others
<1> QED
  BY <1>2, <1>11, <1>12, <1>13, <1>14, <1>15 DEF Next, vars, docker


(* What a step may do to one container.                                    *)

CommandRemovesContainer(cmd, c) ==
    /\ cmd.pc = "act"
    /\ (cmd.op = "rmctr" /\ c = cmd.c) \/ (cmd.op = "down" /\ Labelled(container[c], "project"))

RunRemovesContainer(c) ==
    \/ CommandRemovesContainer(shim, c) /\ shim' = Idle
    \/ CommandRemovesContainer(late, c) /\ late' = Idle
    \/ ci.phase = "remove" /\ c \in ci.ctrs /\ c \notin ci'.ctrs

ContainerMove(c) ==
    \/ container'[c] = container[c]
    \/ /\ container[c] = None /\ container'[c] \in ContainerState /\ c \notin ci.ctrs
       /\ container'[c].by = "run" /\ container'[c].labels # {}
       /\ ~container'[c].stale =>
              \A n \in container'[c].mounts : volume'[n] # None /\ volume'[n].by = "run"
       /\ Verifying => c \in since'
    \/ /\ container[c] = None /\ container'[c] \in ContainerState /\ c \notin ci.ctrs
       /\ container'[c].by = "other" /\ container'[c].labels = {} /\ container'[c].mounts = {}
       /\ Others /\ Marked(c) /\ since' = Appeared({c})
    \/ container'[c] = None /\ RunRemovesContainer(c)

ContainersGoal ==
    container' \in [Containers -> ContainerState \cup {None}] /\ \A c \in Containers : ContainerMove(c)

LEMMA StartedContainer ==
    ASSUME OwnershipInv, NEW cmd \in Commands, CommandOK(cmd), CurrentOK(cmd),
           NEW x \in Containers, Starts(cmd, x), Verifying => x \in since'
    PROVE  ContainersGoal
<1> DEFINE s == [by |-> "run", labels |-> IF cmd.op = "up" THEN {"project"} ELSE {"owner"},
                 mounts |-> {cmd.v}, stale |-> cmd.stale,
                 image |-> IF cmd.op = "up" THEN image[cmd.t] ELSE ledger.id[cmd.t]]
           v == [by |-> "run", labels |-> IF cmd.op = "up" THEN {"project"} ELSE {}]
<1>1. /\ cmd.pc = "start" /\ container[x] = None /\ x \notin ci.ctrs
      /\ container' = [container EXCEPT ![x] = s]
      /\ volume' = [volume EXCEPT ![cmd.v] = IF @ # None THEN @ ELSE v]
      /\ cmd.op = "up" => image[cmd.t] # None
  BY DEF Starts
<1>2. /\ container \in [Containers -> ContainerState \cup {None}]
      /\ volume \in [Names -> VolumeState \cup {None}]
      /\ ledger.id \in [Tags -> Makers \cup {None}] /\ image \in [Tags -> Makers \cup {None}]
  BY DEF OwnershipInv, TypeOK
<1>3. cmd.v \in Names /\ cmd.t \in Tags /\ ledger.id[cmd.t] # None /\ cmd.stale \in BOOLEAN
  BY <1>1 DEF CommandOK, Commands
<1>4. (IF cmd.op = "up" THEN image[cmd.t] ELSE ledger.id[cmd.t]) \in Makers
  BY <1>1, <1>2, <1>3
<1>5. s \in ContainerState /\ s.by = "run" /\ s.labels # {} /\ s.mounts = {cmd.v} /\ s.stale = cmd.stale
  BY <1>3, <1>4 DEF ContainerState, Makers
<1>6. v \in VolumeState /\ v.by = "run"
  BY DEF VolumeState, Makers
<1> HIDE DEF s, v
<1>7. ~cmd.stale => volume'[cmd.v] # None /\ volume'[cmd.v].by = "run"
  BY <1>1, <1>2, <1>3, <1>6, NoneIsNoState DEF CurrentOK, VolumeIsOurs
<1>8. \A c \in Containers : container'[c] = IF c = x THEN s ELSE container[c]
  BY <1>1, <1>2
<1>9. container' \in [Containers -> ContainerState \cup {None}]
  BY <1>1, <1>2, <1>5
<1> QED
  BY <1>1, <1>5, <1>7, <1>8, <1>9 DEF ContainersGoal, ContainerMove

LEMMA RemovedContainers ==
    ASSUME OwnershipInv, NEW cmd, Removes(cmd),
           (cmd = shim /\ shim' = Idle) \/ (cmd = late /\ late' = Idle)
    PROVE  ContainersGoal
<1>1. /\ cmd.pc = "act"
      /\ container' = [c \in Containers |->
            IF \/ cmd.op = "rmctr" /\ c = cmd.c
               \/ cmd.op = "down" /\ Labelled(container[c], "project")
            THEN None ELSE container[c]]
  BY DEF Removes
<1>2. container \in [Containers -> ContainerState \cup {None}]
  BY DEF OwnershipInv, TypeOK
<1>3. container' \in [Containers -> ContainerState \cup {None}]
  BY <1>1, <1>2
<1>4. ASSUME NEW c \in Containers PROVE ContainerMove(c)
  BY <1>1, <1>2 DEF ContainerMove, RunRemovesContainer, CommandRemovesContainer
<1> QED
  BY <1>3, <1>4 DEF ContainersGoal

LEMMA ContainerSteps == ASSUME OwnershipInv, [Next]_vars PROVE ContainersGoal
<1>1. /\ container \in [Containers -> ContainerState \cup {None}] /\ CommandOK(shim) /\ CommandOK(late)
      /\ shim # Idle => ~Verifying
      /\ shim \in Commands /\ late \in Commands /\ CurrentOK(shim) /\ CurrentOK(late)
  BY DEF OwnershipInv, TypeOK, CommandsOK, Verifying
<1>2. CASE UNCHANGED container
  BY <1>1, <1>2 DEF ContainerMove, ContainersGoal
<1>3. ASSUME NEW c \in Containers, StartContainer(c) PROVE ContainersGoal
  <2>1. shim # Idle
    BY <1>3 DEF StartContainer, Starts, Idle
  <2> QED
    BY <1>1, <1>3, <2>1, StartedContainer DEF StartContainer
<1>4. CASE RemoveByShim
  BY <1>4, RemovedContainers DEF RemoveByShim
<1>5. CASE LateCommandActs
  <2>1. CASE \E c \in Containers : LateStarts(c)
    BY <1>1, <2>1, StartedContainer DEF LateStarts, Appeared
  <2>2. CASE LateRemoves
    BY <1>5, <2>2, RemovedContainers DEF LateCommandActs, LateRemoves
  <2> QED
    BY <1>2, <1>5, <2>1, <2>2 DEF LateCommandActs, LateMovesTag, LateCreates
<1>6. ASSUME NEW x \in Containers, CleanContainer(x) PROVE ContainersGoal
  <2>1. ci.phase = "remove" /\ x \in ci.ctrs /\ container' = [container EXCEPT ![x] = None]
    BY <1>6 DEF CleanContainer
  <2>2. x \notin ci'.ctrs
    BY <1>6 DEF CleanContainer, OwnershipInv, TypeOK
  <2>3. \A c \in Containers : container'[c] = IF c = x THEN None ELSE container[c]
    BY <1>1, <2>1
  <2>4. container' \in [Containers -> ContainerState \cup {None}]
    BY <1>1, <2>1
  <2> QED
    BY <2>1, <2>2, <2>3, <2>4 DEF ContainersGoal, ContainerMove, RunRemovesContainer
<1>7. ASSUME NEW x \in Names \cup Containers \cup Tags, OtherCreates(x) PROVE ContainersGoal
  <2> DEFINE s == [by |-> "other", labels |-> {}, mounts |-> {}, image |-> "other", stale |-> FALSE]
  <2> SUFFICES ASSUME x \in Containers, container[x] = None, x \notin ci.ctrs,
                      container' = [container EXCEPT ![x] = s]
               PROVE  ContainersGoal
    BY <1>2, <1>7 DEF OtherCreates
  <2>1. s \in ContainerState /\ s.by = "other" /\ s.labels = {} /\ s.mounts = {}
    BY DEF ContainerState, Makers
  <2> HIDE DEF s
  <2>2. \A c \in Containers : container'[c] = IF c = x THEN s ELSE container[c]
    BY <1>1
  <2>3. container' \in [Containers -> ContainerState \cup {None}]
    BY <1>1, <2>1
  <2>4. Others /\ Marked(x) /\ since' = Appeared({x})
    BY <1>7 DEF Others, OtherCreates, Marked
  <2> QED
    BY <2>1, <2>2, <2>3, <2>4 DEF ContainersGoal, ContainerMove
<1>8. CASE Reserve
  BY <1>2, <1>8 DEF Reserve, SeeAbsent, AppendClaim, docker
<1>9. CASE ShimStep
  BY <1>2, <1>3, <1>4, <1>9
  DEF ShimStep, Check, EnsureVolume, NothingToStart, VerifyStarted, BuildEnds, RecordImage, DirectMove,
      docker
<1>10. CASE Tests
  BY <1>2, <1>5, <1>10
  DEF Tests, BeginOnImage, BeginOnVolume, BeginOther, Begin, CreateRollback, FreezeImages, Accept,
      ShimFails, docker
<1>11. CASE Cleanup \/ CleanupCommandFails \/ Verify
  BY <1>2, <1>6, <1>11
  DEF Cleanup, CleanupCommandFails, Inventory, CleanVolume, PlanImages, CleanTag, CleanObject,
      RevalidateVolume, RevalidateTag, Verify, BeginVerification, LookForContainers, LookForVolumes,
      LookForVolume, LookForTag, Report, Look, docker
<1>12. CASE Others
  BY <1>2, <1>7, <1>12 DEF Others, OtherRemoves
<1> QED
  BY <1>2, <1>8, <1>9, <1>10, <1>11, <1>12 DEF Next, vars, docker

(* What a step may do to one tag.                                          *)

CommandRemovesTag(cmd, t) == cmd.pc = "act" /\ cmd.op = "rmimg" /\ t = cmd.t

BuildsTag(cmd, t) == cmd.pc = "act" /\ cmd.op = "build" /\ t = cmd.t

ImageMove(t) ==
    \/ image'[t] = image[t]
    \/ /\ Others \/ By("direct")
       /\ image'[t] \in Makers /\ Marked(t) /\ (Verifying => t \in since')
    \/ /\ image'[t] = "run" /\ (Verifying => t \in since')
       /\ \/ BuildsTag(shim, t) /\ shim' # shim
          \/ BuildsTag(late, t) /\ late' # late
    \/ /\ image'[t] = None
       /\ \/ CommandRemovesTag(shim, t) /\ shim' = Idle
          \/ CommandRemovesTag(late, t) /\ late' = Idle
          \/ ci.phase = "images" /\ ci.seen # None /\ t = ci.seen /\ ci' # ci

ImagesGoal == image' \in [Tags -> Makers \cup {None}] /\ \A t \in Tags : ImageMove(t)

LEMMA ImageSteps == ASSUME OwnershipInv, [Next]_vars PROVE ImagesGoal
<1>1. /\ image \in [Tags -> Makers \cup {None}] /\ CommandOK(shim) /\ CommandOK(late)
      /\ shim # Idle => ~Verifying
      /\ shim.op \notin {"none", "build"} => ci.phase = "test"
      /\ shim.pc # "idle" => shim # Idle
  BY DEF OwnershipInv, TypeOK, CommandsOK, Verifying, Idle
<1>2. CASE UNCHANGED image
  BY <1>1, <1>2 DEF ImageMove, ImagesGoal
<1>3. ASSUME NEW x \in Tags, NEW i \in Makers \cup {None}, image' = [image EXCEPT ![x] = i],
             image'[x] = i => ImageMove(x)
      PROVE  ImagesGoal
  <2>1. image' \in [Tags -> Makers \cup {None}] /\ \A t \in Tags : image'[t] = IF t = x THEN i ELSE image[t]
    BY <1>1, <1>3
  <2> QED
    BY <1>3, <2>1 DEF ImageMove, ImagesGoal
<1>4. CASE RemoveByShim
  <2> SUFFICES ASSUME shim.op = "rmimg" PROVE ImagesGoal
    BY <1>2, <1>4 DEF RemoveByShim, Removes
  <2>1. shim.pc = "act" /\ shim' = Idle /\ shim.t \in Tags /\ image' = [image EXCEPT ![shim.t] = None]
    BY <1>1, <1>4 DEF RemoveByShim, Removes, CommandOK
  <2>2. image'[shim.t] = None => ImageMove(shim.t)
    BY <2>1 DEF ImageMove, CommandRemovesTag
  <2> QED
    BY <1>3, <2>1, <2>2
<1>5. CASE BuildEnds
  <2> SUFFICES ASSUME image' = [image EXCEPT ![shim.t] = "run"] PROVE ImagesGoal
    BY <1>2, <1>5 DEF BuildEnds
  <2>1. /\ shim.pc = "act" /\ shim.op = "build" /\ shim.t \in Tags /\ ~Verifying
        /\ shim' = [shim EXCEPT !.pc = "record"]
    BY <1>1, <1>5 DEF BuildEnds, CommandOK
  <2>2. shim' # shim
    BY <2>1 DEF OwnershipInv, TypeOK, Commands
  <2>3. image'[shim.t] = "run" => ImageMove(shim.t)
    BY <2>1, <2>2 DEF ImageMove, BuildsTag
  <2> QED
    BY <1>3, <2>1, <2>3 DEF Makers
<1>6. CASE DirectMove
  <2>1. /\ shim.pc = "act" /\ shim.op = "direct" /\ shim.t \in Tags /\ shim' = Idle /\ ci' = ci
        /\ late' = Overtaken(late, shim.t) /\ ci.phase = "test"
    BY <1>1, <1>6 DEF DirectMove, CommandOK
  <2>2. shim' # shim
    BY <1>1, <2>1
  <2>3. PICK i \in Makers : image' = [image EXCEPT ![shim.t] = i]
    BY <1>6 DEF DirectMove
  <2>4. Marked(shim.t) /\ By("direct") /\ ~Verifying
    BY <2>1, <2>2 DEF Marked, OvertakenPlan, By, Verifying
  <2>5. image'[shim.t] = i => ImageMove(shim.t)
    BY <2>4 DEF ImageMove
  <2> QED
    BY <1>3, <2>1, <2>3, <2>5
<1>7. CASE LateCommandActs /\ LateMovesTag
  <2>1. /\ late.pc = "act" /\ late.op \in {"build", "direct"} /\ late.t \in Tags
        /\ late' = Idle /\ late' # late /\ since' = Appeared({late.t})
    BY <1>1, <1>7 DEF LateCommandActs, LateMovesTag, CommandOK, Idle
  <2>2. Verifying => late.t \in since'
    BY <2>1 DEF Appeared
  <2>3. CASE late.op = "build"
    <3>1. image' = [image EXCEPT ![late.t] = "run"]
      BY <1>7, <2>3 DEF LateMovesTag
    <3>2. image'[late.t] = "run" => ImageMove(late.t)
      BY <2>1, <2>2, <2>3 DEF ImageMove, BuildsTag
    <3> QED
      BY <1>3, <2>1, <3>1, <3>2 DEF Makers
  <2>4. CASE late.op = "direct"
    <3>1. PICK i \in Makers : image' = [image EXCEPT ![late.t] = i]
      BY <1>7, <2>4 DEF LateMovesTag
    <3>2. Marked(late.t) /\ By("direct")
      BY <1>7, <2>1, <2>4 DEF LateMovesTag, Marked, By
    <3>3. image'[late.t] = i => ImageMove(late.t)
      BY <2>2, <3>2 DEF ImageMove
    <3> QED
      BY <1>3, <2>1, <3>1, <3>3
  <2> QED
    BY <2>1, <2>3, <2>4
<1>8. CASE LateCommandActs /\ LateRemoves
  <2> SUFFICES ASSUME late.op = "rmimg" PROVE ImagesGoal
    BY <1>2, <1>8 DEF LateRemoves, Removes
  <2>1. late.pc = "act" /\ late' = Idle /\ late.t \in Tags /\ image' = [image EXCEPT ![late.t] = None]
    BY <1>1, <1>8 DEF LateCommandActs, LateRemoves, Removes, CommandOK
  <2>2. image'[late.t] = None => ImageMove(late.t)
    BY <2>1 DEF ImageMove, CommandRemovesTag
  <2> QED
    BY <1>3, <2>1, <2>2
<1>9. CASE CleanTag
  <2>1. /\ ci.phase = "images" /\ ci.seen # None /\ ci.seen \in ci.tags
        /\ image' = [image EXCEPT ![ci.seen] = None]
    BY <1>9 DEF CleanTag, OwnershipInv, PlanIsCurrent
  <2>2. ci.seen \in Tags /\ ci'.seen = None
    BY <1>9, <2>1 DEF CleanTag, OwnershipInv, TypeOK
  <2>3. image'[ci.seen] = None => ImageMove(ci.seen)
    BY <2>1, <2>2 DEF ImageMove
  <2> QED
    BY <1>3, <2>1, <2>2, <2>3
<1>10. ASSUME NEW x \in Names \cup Containers \cup Tags, OtherCreates(x) PROVE ImagesGoal
  <2> SUFFICES ASSUME x \in Tags, NEW i \in Makers, image' = [image EXCEPT ![x] = i]
               PROVE  ImagesGoal
    BY <1>2, <1>10 DEF OtherCreates, Makers
  <2>1. Others /\ Marked(x) /\ (Verifying => x \in since')
    BY <1>10 DEF Others, OtherCreates, Marked, Appeared
  <2>2. image'[x] = i => ImageMove(x)
    BY <2>1 DEF ImageMove
  <2> QED
    BY <1>3, <2>2
<1>11. CASE Reserve
  BY <1>2, <1>11 DEF Reserve, SeeAbsent, AppendClaim, docker
<1>12. CASE ShimStep
  BY <1>2, <1>4, <1>5, <1>6, <1>12
  DEF ShimStep, Check, EnsureVolume, NothingToStart, VerifyStarted, RecordImage, StartContainer, Starts,
      docker
<1>13. CASE Tests
  BY <1>2, <1>7, <1>8, <1>13
  DEF Tests, BeginOnImage, BeginOnVolume, BeginOther, Begin, CreateRollback, FreezeImages, Accept,
      ShimFails, LateCommandActs, LateCreates, LateStarts, Starts, docker
<1>14. CASE Cleanup \/ CleanupCommandFails \/ Verify
  BY <1>2, <1>9, <1>14
  DEF Cleanup, CleanupCommandFails, Inventory, CleanVolume, PlanImages, CleanContainer, CleanObject,
      RevalidateVolume, RevalidateTag, Verify, BeginVerification, LookForContainers, LookForVolumes,
      LookForVolume, LookForTag, Report, Look, docker
<1>15. CASE Others
  BY <1>2, <1>10, <1>15 DEF Others, OtherRemoves
<1> QED
  BY <1>2, <1>11, <1>12, <1>13, <1>14, <1>15 DEF Next, vars, docker

(* The ledger, and the images of the confirmed starts.                     *)

Ledgers == [vols : SUBSET Volumes, tags : SUBSET Tags, tried : SUBSET Tags,
            id : [Tags -> Makers \cup {None}]]

\* A recorded ID is replaced while the images are built, and never forgotten.
IDMove(t) ==
    \/ ledger'.id[t] = ledger.id[t]
    \/ /\ image' = image /\ ledger'.id[t] = image[t]
       /\ ledger.id[t] = None \/ (ci.phase = "build" /\ image[t] # None)

LedgerGoal == ledger' \in Ledgers /\ \A t \in Tags : IDMove(t)

LEMMA CapturedLedger ==
    ASSUME OwnershipInv, image' = image, ledger' = [ledger EXCEPT !.id = CapturedIDs]
    PROVE  LedgerGoal
<1>1. ledger \in Ledgers /\ image \in [Tags -> Makers \cup {None}]
  BY DEF OwnershipInv, TypeOK, Ledgers
<1>2. /\ CapturedIDs \in [Tags -> Makers \cup {None}]
      /\ \A t \in Tags : CapturedIDs[t] = ledger.id[t] \/ (ledger.id[t] = None /\ CapturedIDs[t] = image[t])
  BY <1>1 DEF CapturedIDs, Ledgers
<1>3. ledger' \in Ledgers /\ ledger'.id = CapturedIDs
  BY <1>1, <1>2 DEF Ledgers
<1> QED
  BY <1>2, <1>3 DEF LedgerGoal, IDMove

LEMMA LedgerSteps == ASSUME OwnershipInv, [Next]_vars PROVE LedgerGoal
<1>1. /\ ledger \in Ledgers /\ image \in [Tags -> Makers \cup {None}] /\ CommandOK(shim)
      /\ shim.op = "build" => ci.phase = "build"
      /\ shim.pc = "record" => shim.op = "build"
  BY DEF OwnershipInv, TypeOK, CommandsOK, Ledgers
<1>2. CASE UNCHANGED ledger
  BY <1>1, <1>2 DEF LedgerGoal, IDMove
<1>3. CASE AppendClaim
  <2>1. ci.seen \in Volumes \cup Tags
    BY <1>3 DEF AppendClaim, OwnershipInv, PlanIsCurrent
  <2> QED
    BY <1>1, <1>3, <2>1 DEF AppendClaim, LedgerGoal, IDMove, Ledgers
<1>4. CASE Check
  <2> SUFFICES ASSUME Allowed, shim.op = "build" PROVE LedgerGoal
    BY <1>2, <1>4 DEF Check
  <2>1. ledger' = [ledger EXCEPT !.tried = @ \cup {shim.t}] /\ shim.t \in Tags
    BY <1>1, <1>4 DEF Check, CommandOK
  <2> QED
    BY <1>1, <2>1 DEF LedgerGoal, IDMove, Ledgers
<1>5. CASE RecordImage
  <2> SUFFICES ASSUME image[shim.t] # None PROVE LedgerGoal
    BY <1>2, <1>5 DEF RecordImage
  <2>1. /\ ledger' = [ledger EXCEPT !.id[shim.t] = image[shim.t]] /\ image' = image
        /\ shim.t \in Tags /\ ci.phase = "build"
    BY <1>1, <1>5 DEF RecordImage, CommandOK, docker
  <2>2. ledger' \in Ledgers /\ \A t \in Tags : ledger'.id[t] = IF t = shim.t THEN image[t] ELSE ledger.id[t]
    BY <1>1, <2>1 DEF Ledgers
  <2> QED
    BY <2>1, <2>2 DEF LedgerGoal, IDMove
<1>6. CASE FreezeImages
  <2>1. ledger' = [ledger EXCEPT !.id = image] /\ image' = image /\ ci.phase = "build"
        /\ \A t \in Tags : image[t] # None
    BY <1>6 DEF FreezeImages, docker
  <2>2. ledger' \in Ledgers /\ ledger'.id = image
    BY <1>1, <2>1 DEF Ledgers
  <2> QED
    BY <2>1, <2>2 DEF LedgerGoal, IDMove
<1>7. CASE Inventory \/ PlanImages
  BY <1>7, CapturedLedger DEF Inventory, PlanImages, docker
<1>8. CASE Reserve
  BY <1>2, <1>3, <1>8 DEF Reserve, SeeAbsent
<1>9. CASE ShimStep
  BY <1>2, <1>4, <1>5, <1>9
  DEF ShimStep, EnsureVolume, NothingToStart, VerifyStarted, RemoveByShim, BuildEnds, DirectMove,
      StartContainer
<1>10. CASE Tests
  BY <1>2, <1>6, <1>10
  DEF Tests, BeginOnImage, BeginOnVolume, BeginOther, Begin, CreateRollback, Accept, ShimFails,
      LateCommandActs
<1>11. CASE Cleanup \/ CleanupCommandFails \/ Verify
  BY <1>2, <1>7, <1>11
  DEF Cleanup, CleanupCommandFails, CleanVolume, CleanTag, CleanObject, CleanContainer,
      RevalidateVolume, RevalidateTag, Verify, BeginVerification, LookForContainers, LookForVolumes,
      LookForVolume, LookForTag, Report, Look
<1>12. CASE Others
  BY <1>2, <1>12 DEF Others, OtherCreates, OtherRemoves
<1> QED
  BY <1>2, <1>8, <1>9, <1>10, <1>11, <1>12 DEF Next, vars

\* A start is confirmed when the container has the recorded image.
RanMove ==
    \/ ran' = ran
    \/ /\ shim.pc = "verify" /\ ledger' = ledger
       /\ shim.t \in Tags /\ ledger.id[shim.t] \in Makers
       /\ ran' = ran \cup {<<shim.t, ledger.id[shim.t]>>}

LEMMA RanSteps == ASSUME OwnershipInv, [Next]_vars PROVE RanMove
<1>1. CASE UNCHANGED ran
  BY <1>1 DEF RanMove
<1>2. CASE VerifyStarted
  <2> SUFFICES ASSUME container[shim.c] # None, container[shim.c].image = ledger.id[shim.t] PROVE RanMove
    BY <1>1, <1>2 DEF VerifyStarted
  <2>1. shim.pc = "verify" /\ ran' = ran \cup {<<shim.t, ledger.id[shim.t]>>} /\ ledger' = ledger
    BY <1>2 DEF VerifyStarted
  <2>2. shim.t \in Tags /\ shim.c \in Containers
    BY <2>1 DEF OwnershipInv, CommandsOK, CommandOK
  <2>3. ledger.id[shim.t] \in Makers
    BY <2>2 DEF OwnershipInv, TypeOK, ContainerState
  <2> QED
    BY <2>1, <2>2, <2>3 DEF RanMove
<1>3. CASE Reserve
  BY <1>1, <1>3 DEF Reserve, SeeAbsent, AppendClaim
<1>4. CASE ShimStep
  BY <1>1, <1>2, <1>4
  DEF ShimStep, Check, EnsureVolume, NothingToStart, RemoveByShim, BuildEnds, RecordImage, DirectMove,
      StartContainer
<1>5. CASE Tests
  BY <1>1, <1>5
  DEF Tests, BeginOnImage, BeginOnVolume, BeginOther, Begin, CreateRollback, FreezeImages, Accept,
      ShimFails, LateCommandActs
<1>6. CASE Cleanup \/ CleanupCommandFails \/ Verify
  BY <1>1, <1>6
  DEF Cleanup, CleanupCommandFails, Inventory, CleanVolume, PlanImages, CleanTag, CleanObject,
      CleanContainer, RevalidateVolume, RevalidateTag, Verify, BeginVerification, LookForContainers,
      LookForVolumes, LookForVolume, LookForTag, Report, Look
<1>7. CASE Others
  BY <1>1, <1>7 DEF Others, OtherCreates, OtherRemoves
<1> QED
  BY <1>1, <1>3, <1>4, <1>5, <1>6, <1>7 DEF Next, vars

---------------------------------------------------------------------------
(* The commands.                                                           *)

\* A command the tests begin is only checked.
LEMMA BegunCommands ==
    ASSUME \/ \E op \in {"build", "rmimg", "direct"}, t \in Tags : BeginOnImage(op, t)
           \/ \E op \in {"run", "up", "create", "rmvol"}, n \in Names, t \in Tags : BeginOnVolume(op, n, t)
           \/ \E op \in {"rmctr", "down"}, c \in Containers : BeginOther(op, c)
    PROVE  /\ shim' \in Commands /\ shim'.pc = "check" /\ CommandOK(shim')
           /\ shim = Idle /\ ~ci.accepted /\ ci' = ci
           /\ ci.phase = IF shim'.op = "build" THEN "build" ELSE "test"
<1>1. ASSUME NEW op \in {"build", "rmimg", "direct"}, NEW t \in Tags, BeginOnImage(op, t)
      PROVE  /\ shim' = [op |-> op, pc |-> "check", v |-> None, c |-> None, t |-> t, stale |-> FALSE]
             /\ ci.phase = IF op = "build" THEN "build" ELSE "test"
  BY <1>1 DEF BeginOnImage, Begin, Idle
<1>2. ASSUME NEW op \in {"run", "up", "create", "rmvol"}, NEW n \in Names, NEW t \in Tags,
             BeginOnVolume(op, n, t)
      PROVE  /\ shim' = [op |-> op, pc |-> "check", v |-> n, c |-> None, t |-> t, stale |-> FALSE]
             /\ ci.phase = "test" /\ (op = "up" => n \in Volumes)
  BY <1>2 DEF BeginOnVolume, Begin, Idle
<1>3. ASSUME NEW op \in {"rmctr", "down"}, NEW c \in Containers, BeginOther(op, c)
      PROVE  /\ shim' = [op |-> op, pc |-> "check", v |-> None, c |-> c, t |-> None, stale |-> FALSE]
             /\ ci.phase = "test"
  BY <1>3 DEF BeginOther, Begin, Idle
<1>4. /\ shim'.op \in {"build", "rmimg", "direct", "run", "up", "create", "rmvol", "rmctr", "down"}
      /\ shim'.pc = "check" /\ shim'.stale = FALSE /\ DOMAIN shim' = {"op", "pc", "v", "c", "t", "stale"}
      /\ shim'.v \in Names \cup {None} /\ shim'.c \in Containers \cup {None} /\ shim'.t \in Tags \cup {None}
  BY <1>1, <1>2, <1>3
<1>5. shim' = [op |-> shim'.op, pc |-> shim'.pc, v |-> shim'.v, c |-> shim'.c, t |-> shim'.t,
               stale |-> shim'.stale]
  BY <1>1, <1>2, <1>3
<1>6. shim' \in Commands
  BY <1>4, <1>5 DEF Commands
<1>7. CommandOK(shim')
  BY <1>1, <1>2, <1>3 DEF CommandOK
<1>8. ci.phase = IF shim'.op = "build" THEN "build" ELSE "test"
  BY <1>1, <1>2, <1>3
<1>9. shim = Idle /\ ~ci.accepted /\ ci' = ci
  BY DEF BeginOnImage, BeginOnVolume, BeginOther, Begin
<1> QED
  BY <1>4, <1>6, <1>7, <1>8, <1>9

\* The shim's command goes on to another point.
GoesOn(from, to) ==
    /\ shim.pc = from /\ shim'.pc = to
    /\ shim'.op = shim.op /\ shim'.v = shim.v /\ shim'.t = shim.t /\ shim'.stale = shim.stale
    /\ to # "verify" => shim'.c = shim.c

\* What the shim's command does next.
ShimMove ==
    \/ shim' \in {shim, Idle}
    \/ shim # Idle /\ shim' = [shim EXCEPT !.stale = TRUE]
    \/ /\ shim = Idle /\ shim'.pc = "check" /\ CommandOK(shim') /\ ci' = ci /\ ~ci.accepted
       /\ ci.phase = IF shim'.op = "build" THEN "build" ELSE "test"
    \/ GoesOn("check", "act") /\ Allowed /\ ledger'.id = ledger.id /\ docker' = docker
    \/ GoesOn("act", "start") /\ shim.op \in {"run", "up"} /\ VolumeIsOurs(shim.v)'
    \/ GoesOn("start", "verify") /\ shim'.c \in Containers
    \/ GoesOn("act", "record") /\ shim.op = "build"

ShimGoal == shim' \in Commands /\ ShimMove

LEMMA ShimSteps == ASSUME OwnershipInv, [Next]_vars PROVE ShimGoal
<1>1. shim \in Commands /\ Idle \in Commands /\ CommandOK(shim)
  BY DEF OwnershipInv, TypeOK, CommandsOK, Idle, Commands
<1>2. CASE shim' \in {shim, Idle} \/ \E x : shim' = Overtaken(shim, x)
  <2>1. [shim EXCEPT !.stale = TRUE] \in Commands
    BY <1>1 DEF Commands
  <2>2. ASSUME NEW x PROVE Overtaken(shim, x) = shim \/ shim # Idle
    BY DEF Overtaken, Confirmed, Idle
  <2> QED
    BY <1>1, <1>2, <2>1, <2>2 DEF ShimMove, ShimGoal, Overtaken
<1>3. ASSUME NEW pc \in {"act", "start", "record"}, shim' = [shim EXCEPT !.pc = pc]
      PROVE  shim' \in Commands /\ GoesOn(shim.pc, pc)
  BY <1>1, <1>3 DEF Commands, GoesOn
<1>4. CASE Check
  <2> SUFFICES ASSUME Allowed PROVE ShimGoal
    BY <1>2, <1>4 DEF Check, Refuse
  <2>1. shim' = [shim EXCEPT !.pc = "act"] /\ docker' = docker /\ shim.pc = "check"
    BY <1>4 DEF Check
  <2>2. ledger'.id = ledger.id
    BY <1>4 DEF Check, OwnershipInv, TypeOK
  <2> QED
    BY <1>3, <2>1, <2>2 DEF ShimMove, ShimGoal
<1>5. CASE EnsureVolume
  <2> SUFFICES ASSUME volume[shim.v] = None \/ OwnedVolume(shim.v), shim.op # "create" PROVE ShimGoal
    BY <1>2, <1>5 DEF EnsureVolume, EnsuredVolume, Refuse
  <2>1. /\ shim.pc = "act" /\ shim.op \in {"run", "up"} /\ shim.v \in Names
        /\ shim' = [shim EXCEPT !.pc = "start"] /\ volume' = VolumeMade(shim)
    BY <1>1, <1>5 DEF EnsureVolume, EnsuredVolume, CommandOK
  <2>2. volume[shim.v] # None => volume[shim.v].by = "run"
    BY <2>1 DEF OwnedVolume, Labelled, OwnershipInv, LabelsProve
  <2>3. volume'[shim.v] = None \/ volume'[shim.v].by = "run"
    BY <2>1, <2>2 DEF VolumeMade, OwnershipInv, TypeOK
  <2>4. shim'.v = shim.v
    BY <1>3, <2>1 DEF GoesOn
  <2> QED
    BY <1>3, <2>1, <2>3, <2>4 DEF ShimMove, ShimGoal, VolumeIsOurs
<1>6. ASSUME NEW c \in Containers, StartContainer(c) PROVE ShimGoal
  <2>1. shim' = [shim EXCEPT !.pc = "verify", !.c = c] /\ shim.pc = "start"
    BY <1>6 DEF StartContainer, Starts
  <2>2. shim' \in Commands /\ GoesOn("start", "verify") /\ shim'.c = c
    BY <1>1, <2>1 DEF Commands, GoesOn
  <2> QED
    BY <2>2 DEF ShimMove, ShimGoal
<1>7. CASE NothingToStart \/ VerifyStarted \/ RemoveByShim \/ RecordImage \/ DirectMove \/ ShimFails
  BY <1>2, <1>7 DEF NothingToStart, VerifyStarted, RemoveByShim, RecordImage, DirectMove, ShimFails, Refuse
<1>8. CASE BuildEnds
  BY <1>3, <1>8 DEF BuildEnds, ShimMove, ShimGoal
<1>9. CASE Reserve
  BY <1>2, <1>9 DEF Reserve, SeeAbsent, AppendClaim
<1>10. CASE ShimStep
  BY <1>4, <1>5, <1>6, <1>7, <1>8, <1>10 DEF ShimStep
<1>11. CASE LateCommandActs
  BY <1>2, <1>11 DEF LateCommandActs, LateMovesTag, LateCreates, LateStarts, LateRemoves
<1>12. CASE Tests
  <2>1. CASE \/ \E op \in {"build", "rmimg", "direct"}, t \in Tags : BeginOnImage(op, t)
             \/ \E op \in {"run", "up", "create", "rmvol"}, n \in Names, t \in Tags :
                    BeginOnVolume(op, n, t)
             \/ \E op \in {"rmctr", "down"}, c \in Containers : BeginOther(op, c)
    BY <2>1, BegunCommands DEF ShimMove, ShimGoal
  <2> QED
    BY <1>2, <1>7, <1>11, <1>12, <2>1 DEF Tests, CreateRollback, FreezeImages, Accept
<1>13. CASE Cleanup \/ CleanupCommandFails \/ Verify
  BY <1>2, <1>13
  DEF Cleanup, CleanupCommandFails, Inventory, CleanVolume, PlanImages, CleanTag, CleanObject,
      CleanContainer, RevalidateVolume, RevalidateTag, Verify, BeginVerification, LookForContainers,
      LookForVolumes, LookForVolume, LookForTag, Report, Look
<1>14. CASE Others
  BY <1>2, <1>14 DEF Others, OtherCreates, OtherRemoves
<1> QED
  BY <1>2, <1>9, <1>10, <1>12, <1>13, <1>14 DEF Next, vars

LateMove ==
    \/ late' \in {late, Idle, [late EXCEPT !.stale = TRUE]}
    \/ late' = shim /\ UNCHANGED <<docker, ledger>>

LateGoal == late' \in Commands /\ LateMove

LEMMA LateSteps == ASSUME OwnershipInv, [Next]_vars PROVE LateGoal
<1>1. shim \in Commands /\ late \in Commands /\ Idle \in Commands
  BY DEF OwnershipInv, TypeOK, Idle, Commands
<1>2. CASE late' \in {late, Idle, [late EXCEPT !.stale = TRUE]}
  <2>1. [late EXCEPT !.stale = TRUE] \in Commands
    BY <1>1 DEF Commands
  <2> QED
    BY <1>1, <1>2, <2>1 DEF LateMove, LateGoal
<1>3. CASE ShimFails
  BY <1>1, <1>3 DEF ShimFails, LateMove, LateGoal
<1>4. CASE Reserve
  BY <1>2, <1>4 DEF Reserve, SeeAbsent, AppendClaim
<1>5. CASE ShimStep
  BY <1>2, <1>5
  DEF ShimStep, Check, EnsureVolume, NothingToStart, VerifyStarted, RemoveByShim, BuildEnds, RecordImage,
      DirectMove, StartContainer, Overtaken
<1>6. CASE Tests
  BY <1>2, <1>3, <1>6
  DEF Tests, BeginOnImage, BeginOnVolume, BeginOther, Begin, CreateRollback, FreezeImages, Accept,
      LateCommandActs
<1>7. CASE Cleanup \/ CleanupCommandFails \/ Verify
  BY <1>2, <1>7
  DEF Cleanup, CleanupCommandFails, Inventory, CleanVolume, PlanImages, CleanTag, CleanObject,
      CleanContainer, RevalidateVolume, RevalidateTag, Verify, BeginVerification, LookForContainers,
      LookForVolumes, LookForVolume, LookForTag, Report, Look
<1>8. CASE Others
  BY <1>2, <1>8 DEF Others, OtherCreates, OtherRemoves, Overtaken
<1> QED
  BY <1>2, <1>4, <1>5, <1>6, <1>7, <1>8 DEF Next, vars

---------------------------------------------------------------------------
(* The run and its cleanup.                                                *)

CiStates == [phase : {"reserve", "refused", "build", "test", "remove", "images",
                      "containers", "volumes", "names", "done"},
             seen : Names \cup Tags \cup {None}, stale : BOOLEAN,
             ctrs : SUBSET Containers, vols : SUBSET Names, tags : SUBSET Tags, objs : SUBSET Tags,
             accepted : BOOLEAN, failed : BOOLEAN]

\* What is the run's stays so, or what has looked at it becomes stale.
LEMMA OursStay ==
    ASSUME OwnershipInv, [Next]_vars
    PROVE  /\ \A n \in Names : VolumeIsOurs(n) => VolumeIsOurs(n)' \/ Marked(n)
           /\ \A c \in Containers : ContainerIsOurs(c) => ContainerIsOurs(c)' \/ (Marked(c) /\ c \notin ci.ctrs)
           /\ \A t \in Tags : TagIsOurs(t) => TagIsOurs(t)' \/ Marked(t)
<1>1. \A n \in Names : VolumeIsOurs(n) => VolumeIsOurs(n)' \/ Marked(n)
  BY VolumeSteps DEF VolumesGoal, VolumeMove, VolumeIsOurs
<1>2. \A c \in Containers : ContainerIsOurs(c) => ContainerIsOurs(c)' \/ (Marked(c) /\ c \notin ci.ctrs)
  BY ContainerSteps DEF ContainersGoal, ContainerMove, ContainerIsOurs
<1>3. ASSUME NEW t \in Tags, TagIsOurs(t) PROVE TagIsOurs(t)' \/ Marked(t)
  <2>1. ImageMove(t) /\ IDMove(t)
    BY ImageSteps, LedgerSteps DEF ImagesGoal, LedgerGoal
  <2>2. None # "other"
    BY NoneIsNoState DEF Makers
  <2> QED
    BY <1>3, <2>1, <2>2 DEF ImageMove, IDMove, TagIsOurs
<1> QED
  BY <1>1, <1>2, <1>3

\* The run stays in its phase, or no command is under way.
SamePhase == ci'.phase = ci.phase /\ ci'.accepted = ci.accepted

CiGoal == ci' \in CiStates /\ PlanIsCurrent' /\ (shim # Idle => SamePhase)

LEMMA CiSteps == ASSUME OwnershipInv, [Next]_vars PROVE CiGoal
<1>1. /\ ci \in CiStates /\ PlanIsCurrent /\ (shim # Idle => ci.phase \in {"build", "test"})
      /\ LabelsProve /\ ledger.vols \subseteq Names /\ ledger.tags \subseteq Tags /\ ledger.tried \subseteq Tags
  BY DEF OwnershipInv, TypeOK, CiStates, CommandsOK, Names
<1>2. CASE ci' \in {ci, [ci EXCEPT !.stale = TRUE]}
  <2>1. /\ ci' \in CiStates /\ SamePhase /\ ci'.seen = ci.seen /\ ci'.ctrs = ci.ctrs /\ ci'.vols = ci.vols
        /\ ci'.tags = ci.tags /\ (~ci'.stale => ci' = ci)
    BY <1>1, <1>2 DEF CiStates, SamePhase
  <2>2. ASSUME ~ci'.stale, ci.seen # None, ci.phase \in {"remove", "images"} PROVE ~Marked(ci.seen)
    <3>1. ci' = ci /\ [ci EXCEPT !.stale = TRUE] # ci
      BY <1>1, <2>1, <2>2 DEF CiStates
    <3> QED
      BY <2>2, <3>1 DEF Marked, OvertakenPlan
  <2>3. ASSUME ci.phase = "remove", NEW c \in ci.ctrs PROVE ContainerIsOurs(c)'
    BY <1>1, <2>3, OursStay DEF CiStates, PlanIsCurrent
  <2>4. ASSUME ci.phase = "remove", NEW n, ci.seen = n, n # None
        PROVE  n \in ci'.vols /\ (ci'.stale \/ VolumeIsOurs(n)')
    BY <1>1, <2>1, <2>2, <2>4, OursStay DEF CiStates, PlanIsCurrent
  <2>5. ASSUME ci.phase = "images", NEW t, ci.seen = t, t # None
        PROVE  t \in ci'.tags /\ (ci'.stale \/ TagIsOurs(t)')
    BY <1>1, <2>1, <2>2, <2>5, OursStay DEF CiStates, PlanIsCurrent
  <2>6. PlanIsCurrent'
    BY <1>1, <2>1, <2>3, <2>4, <2>5 DEF PlanIsCurrent, SamePhase, Verifying, VolumeIsOurs, TagIsOurs
  <2> QED
    BY <2>1, <2>6 DEF CiGoal
<1>3. ASSUME NEW x \in Volumes \cup Tags, SeeAbsent(x) PROVE CiGoal
  BY <1>1, <1>3, NoneIsNoName DEF SeeAbsent, CiStates, PlanIsCurrent, CiGoal, Names, Verifying
<1>4. CASE AppendClaim
  BY <1>1, <1>4 DEF AppendClaim, CiStates, PlanIsCurrent, CiGoal, Verifying
<1>5. CASE FreezeImages \/ Accept
  BY <1>1, <1>5 DEF FreezeImages, Accept, CiStates, PlanIsCurrent, CiGoal, Verifying
<1>6. CASE Inventory
  <2> DEFINE kept == \E n \in ledger.vols : volume[n] # None /\ n \notin SelectedVolumes
  <2>1. SelectedVolumes \subseteq Names /\ SelectedContainers \subseteq Containers
    BY DEF SelectedVolumes, SelectedContainers
  <2>2. /\ shim = Idle /\ ci.seen = None /\ UNCHANGED docker
        /\ ci' = [ci EXCEPT !.phase = "remove", !.ctrs = SelectedContainers, !.vols = SelectedVolumes,
                            !.failed = kept]
    BY <1>1, <1>6 DEF Inventory, PlanIsCurrent
  <2> HIDE DEF kept
  <2>3. ci' \in CiStates /\ ci'.phase = "remove" /\ ci'.seen = None /\ ci'.ctrs = SelectedContainers
    <3>1. kept \in BOOLEAN
      BY DEF kept
    <3> QED
      BY <1>1, <2>1, <2>2, <3>1 DEF CiStates
  <2>4. \A c \in SelectedContainers : container[c].by = "run"
    BY <1>1 DEF SelectedContainers, OwnedContainer, Labelled, LabelsProve
  <2> QED
    BY <2>2, <2>3, <2>4 DEF PlanIsCurrent, CiGoal, ContainerIsOurs, docker, Verifying
<1>7. ASSUME NEW c \in Containers, CleanContainer(c) PROVE CiGoal
  <2>1. /\ ci.phase = "remove" /\ ci' \in CiStates /\ SamePhase /\ ci'.ctrs \subseteq ci.ctrs
        /\ ci'.vols = ci.vols /\ ci'.seen = ci.seen /\ ci'.stale = ci.stale /\ volume' = volume
    BY <1>1, <1>7 DEF CleanContainer, CiStates, SamePhase
  <2>2. ASSUME NEW d \in ci'.ctrs PROVE ContainerIsOurs(d)'
    BY <1>1, <2>1, <2>2, OursStay DEF CiStates, PlanIsCurrent
  <2> QED
    BY <1>1, <2>1, <2>2 DEF CiGoal, PlanIsCurrent, SamePhase, VolumeIsOurs, Verifying
<1>8. ASSUME NEW n \in Names, RevalidateVolume(n) PROVE CiGoal
  <2>1. /\ ci.phase = "remove" /\ ci.ctrs = {} /\ ci.seen = None /\ n \in ci.vols /\ volume' = volume
        /\ ci' = IF volume[n] = None THEN [ci EXCEPT !.vols = @ \ {n}]
                 ELSE IF volume[n].labels = {} THEN [ci EXCEPT !.vols = @ \ {n}, !.failed = TRUE]
                 ELSE [ci EXCEPT !.seen = n]
    BY <1>8 DEF RevalidateVolume, docker
  <2>2. /\ ci' \in CiStates /\ SamePhase /\ ci'.ctrs = {}
        /\ \/ ci'.seen = None
           \/ ci'.seen = n /\ n \in ci'.vols /\ volume[n] # None /\ volume[n].labels # {}
    BY <1>1, <2>1 DEF CiStates, SamePhase
  <2> QED
    BY <1>1, <2>1, <2>2 DEF CiGoal, PlanIsCurrent, SamePhase, VolumeIsOurs, LabelsProve, Verifying
<1>9. CASE CleanVolume
  <2>1. /\ ci.phase = "remove" /\ ci' \in CiStates /\ SamePhase /\ ci'.ctrs = ci.ctrs /\ ci'.seen = None
    BY <1>1, <1>9 DEF CleanVolume, CiStates, SamePhase, InUse
  <2>2. ASSUME NEW d \in ci'.ctrs PROVE ContainerIsOurs(d)'
    BY <1>1, <2>1, <2>2, OursStay DEF CiStates, PlanIsCurrent
  <2> QED
    BY <1>1, <2>1, <2>2 DEF CiGoal, PlanIsCurrent, SamePhase, Verifying
<1>10. CASE PlanImages
  <2>1. ci.seen = None /\ SelectedTags \subseteq Tags
    BY <1>1, <1>10 DEF PlanImages, PlanIsCurrent, SelectedTags
  <2> QED
    BY <1>1, <1>10, <2>1 DEF PlanImages, CiStates, PlanIsCurrent, CiGoal, Verifying
<1>11. ASSUME NEW t \in Tags, RevalidateTag(t) PROVE CiGoal
  <2>1. /\ ci.phase = "images" /\ ci.seen = None /\ t \in ci.tags /\ UNCHANGED <<image, ledger>>
        /\ ci' = IF image[t] = ledger.id[t] THEN [ci EXCEPT !.seen = t]
                                            ELSE [ci EXCEPT !.tags = @ \ {t}, !.failed = TRUE]
    BY <1>11 DEF RevalidateTag, docker
  <2>2. /\ ci' \in CiStates /\ SamePhase
        /\ ci'.seen = None \/ (ci'.seen = t /\ t \in ci'.tags /\ image[t] = ledger.id[t])
    BY <1>1, <2>1 DEF CiStates, SamePhase
  <2> QED
    BY <1>1, <2>1, <2>2 DEF CiGoal, PlanIsCurrent, SamePhase, TagIsOurs, Verifying
<1>12. ASSUME ci' \in CiStates, SamePhase, ci'.seen = None, ci.phase \in {"images"} \/ Verifying PROVE CiGoal
  BY <1>1, <1>12 DEF CiGoal, PlanIsCurrent, SamePhase, Verifying
<1>13. CASE CleanTag \/ \E t \in Tags : CleanObject(t)
  <2>1. ASSUME NEW t \in Tags, CleanObject(t) PROVE CiGoal
    <3>1. PICK kept \in BOOLEAN : ci' = [ci EXCEPT !.objs = @ \ {t}, !.failed = @ \/ kept]
      BY <2>1 DEF CleanObject
    <3>2. ci.phase = "images" /\ ci.tags = {}
      BY <2>1 DEF CleanObject
    <3>3. ci' \in CiStates /\ SamePhase /\ ci'.seen = ci.seen
      BY <1>1, <3>1 DEF CiStates, SamePhase
    <3> QED
      BY <1>1, <1>12, <3>2, <3>3 DEF PlanIsCurrent
  <2>2. CASE CleanTag
    <3>1. ci.phase = "images" /\ ci.seen \in ci.tags
      BY <1>1, <2>2 DEF CleanTag, PlanIsCurrent
    <3>2. ci' \in CiStates /\ SamePhase /\ ci'.seen = None
      BY <1>1, <2>2, <3>1 DEF CleanTag, CiStates, SamePhase
    <3> QED
      BY <1>12, <3>1, <3>2
  <2> QED
    BY <1>13, <2>1, <2>2
<1>14. CASE CleanupCommandFails
  <2>1. ASSUME NEW c \in ci.ctrs, ci' = [ci EXCEPT !.ctrs = @ \ {c}, !.failed = TRUE] PROVE CiGoal
    <3>1. /\ ci' \in CiStates /\ SamePhase /\ ci'.ctrs \subseteq ci.ctrs /\ ci'.vols = ci.vols
          /\ ci'.tags = ci.tags /\ ci'.seen = ci.seen /\ ci'.stale = ci.stale
      BY <1>1, <2>1 DEF CiStates, SamePhase
    <3>2. UNCHANGED <<docker, ledger>>
      BY <1>14 DEF CleanupCommandFails
    <3> QED
      BY <1>1, <3>1, <3>2
      DEF CiGoal, PlanIsCurrent, SamePhase, ContainerIsOurs, VolumeIsOurs, TagIsOurs, Verifying, docker
  <2>2. CASE /\ ci.phase \in {"remove", "images"}
             /\ ci' = [ci EXCEPT !.vols = @ \ {ci.seen}, !.tags = @ \ {ci.seen},
                                 !.seen = None, !.stale = FALSE, !.failed = TRUE]
    <3>1. ci' \in CiStates /\ SamePhase /\ ci'.ctrs = ci.ctrs /\ ci'.seen = None
      BY <1>1, <2>2 DEF CiStates, SamePhase
    <3>2. UNCHANGED container
      BY <1>14 DEF CleanupCommandFails, docker
    <3> QED
      BY <1>1, <2>2, <3>1, <3>2 DEF CiGoal, PlanIsCurrent, SamePhase, ContainerIsOurs, Verifying
  <2>3. CASE Verifying /\ ci' = [ci EXCEPT !.failed = TRUE]
    <3>1. ci' \in CiStates /\ SamePhase /\ ci'.seen = ci.seen
      BY <1>1, <2>3 DEF CiStates, SamePhase
    <3> QED
      BY <1>1, <1>12, <2>3, <3>1 DEF PlanIsCurrent
  <2> QED
    BY <1>14, <2>1, <2>2, <2>3 DEF CleanupCommandFails
<1>15. CASE Verify
  <2>1. ASSUME NEW found \in BOOLEAN, NEW next \in CiStates, Look(found, next)
        PROVE  ci' \in CiStates /\ ci'.phase = next.phase /\ ci'.seen = next.seen
    BY <2>1 DEF Look, CiStates
  <2>2. ASSUME NEW found \in BOOLEAN, NEW next \in CiStates, Look(found, next), next.seen = None,
               next.phase \in {"containers", "volumes", "names", "done"}, shim = Idle
        PROVE  CiGoal
    BY <2>1, <2>2 DEF CiGoal, PlanIsCurrent, Verifying
  <2>3. Verifying => ci.seen = None /\ shim = Idle
    BY <1>1 DEF PlanIsCurrent, Verifying
  <2>4. CASE BeginVerification
    <3>1. ci.phase = "images" /\ ci.tags = {} /\ ci.seen = None /\ shim = Idle
      BY <1>1, <2>4 DEF BeginVerification, PlanIsCurrent
    <3> DEFINE next == [ci EXCEPT !.phase = "containers", !.vols = ledger.vols, !.tags = ledger.tags]
               found == \E t \in ledger.tags : image[t] # None
    <3>2. next \in CiStates /\ next.seen = None /\ next.phase = "containers"
      BY <1>1, <3>1 DEF CiStates
    <3>3. Look(found, next) /\ found \in BOOLEAN
      BY <2>4 DEF BeginVerification
    <3> HIDE DEF next, found
    <3> QED
      BY <2>2, <3>1, <3>2, <3>3
  <2>5. CASE LookForContainers \/ LookForVolumes \/ Report
    <3>1. PICK found \in BOOLEAN, p \in {"volumes", "names", "done"} : Look(found, [ci EXCEPT !.phase = p])
      BY <2>5 DEF LookForContainers, LookForVolumes, Report, OwnershipInv, TypeOK
    <3>2. Verifying
      BY <2>5 DEF LookForContainers, LookForVolumes, Report, Verifying
    <3> DEFINE next == [ci EXCEPT !.phase = p]
    <3>3. next \in CiStates /\ next.seen = ci.seen /\ next.phase = p
      BY <1>1 DEF CiStates
    <3>4. Look(found, next)
      BY <3>1
    <3> HIDE DEF next
    <3> QED
      BY <2>2, <2>3, <3>2, <3>3, <3>4
  <2>6. ASSUME NEW n \in Names, LookForVolume(n) PROVE CiGoal
    BY <1>1, <1>12, <2>3, <2>6 DEF LookForVolume, Look, CiStates, Verifying, SamePhase
  <2>7. ASSUME NEW t \in Tags, LookForTag(t) PROVE CiGoal
    BY <1>1, <1>12, <2>3, <2>7 DEF LookForTag, Look, CiStates, Verifying, SamePhase
  <2> QED
    BY <1>15, <2>4, <2>5, <2>6, <2>7 DEF Verify
<1>16. CASE ShimStep
  BY <1>2, <1>16
  DEF ShimStep, Check, EnsureVolume, NothingToStart, VerifyStarted, RemoveByShim, BuildEnds, RecordImage,
      DirectMove, StartContainer
<1>17. CASE LateCommandActs
  BY <1>2, <1>17 DEF LateCommandActs, LateMovesTag, LateCreates, LateStarts, LateRemoves, OvertakenPlan
<1>18. CASE Tests
  BY <1>2, <1>5, <1>17, <1>18
  DEF Tests, BeginOnImage, BeginOnVolume, BeginOther, Begin, CreateRollback, ShimFails
<1>19. CASE Others
  BY <1>2, <1>19 DEF Others, OtherCreates, OtherRemoves, OvertakenPlan
<1>20. CASE Reserve
  BY <1>3, <1>4, <1>20 DEF Reserve
<1>21. CASE Cleanup
  BY <1>6, <1>7, <1>8, <1>9, <1>10, <1>11, <1>13, <1>21 DEF Cleanup
<1> QED
  BY <1>2, <1>14, <1>15, <1>16, <1>18, <1>19, <1>20, <1>21 DEF Next, vars

---------------------------------------------------------------------------
(* The invariant of volumes, containers and tags.                          *)

LEMMA IDsAreKept ==
    ASSUME OwnershipInv, [Next]_vars PROVE \A t \in Tags : ledger.id[t] # None => ledger'.id[t] # None
  BY LedgerSteps DEF LedgerGoal, IDMove

LEMMA CommandsStep == ASSUME OwnershipInv, [Next]_vars PROVE CommandsOK'
<1>1. /\ CommandOK(shim) /\ CommandOK(late) /\ (shim # Idle => ci.phase \in {"build", "test"} /\ ~ci.accepted)
      /\ shim.op = "build" => ci.phase = "build"
      /\ shim.op \notin {"none", "build"} => ci.phase = "test"
      /\ shim.pc = "record" => shim.op = "build"
      /\ shim \in Commands /\ late \in Commands
  BY DEF OwnershipInv, CommandsOK, TypeOK
<1>2. Idle.op = "none" /\ Idle.pc = "idle" /\ CommandOK(Idle)'
  BY DEF Idle, CommandOK
<1>3. ASSUME NEW cmd, CommandOK(cmd) PROVE CommandOK(cmd)'
  BY <1>3, IDsAreKept DEF CommandOK
<1>4. ASSUME NEW cmd \in Commands, CommandOK(cmd) PROVE CommandOK([cmd EXCEPT !.stale = TRUE])'
  <2> DEFINE new == [cmd EXCEPT !.stale = TRUE]
  <2>1. new.op = cmd.op /\ new.pc = cmd.pc /\ new.v = cmd.v /\ new.c = cmd.c /\ new.t = cmd.t
    BY DEF Commands
  <2>2. CommandOK(cmd)'
    BY <1>3, <1>4
  <2> HIDE DEF new
  <2>3. CommandOK(new)'
    BY <2>1, <2>2 DEF CommandOK
  <2> QED
    BY <2>3 DEF new
<1>5. CommandOK(shim)'
  <2>1. ASSUME NEW new, shim' = new, CommandOK(new)' PROVE CommandOK(shim)'
    BY <2>1 DEF CommandOK
  <2>2. CASE shim' \in {shim, Idle} \/ shim' = [shim EXCEPT !.stale = TRUE]
    <3>1. ASSUME NEW cmd, shim = cmd, shim' \in {cmd, Idle, [cmd EXCEPT !.stale = TRUE]} PROVE CommandOK(shim)'
      BY <1>1, <1>2, <1>3, <1>4, <2>1, <3>1
    <3> QED
      BY <2>2, <3>1
  <2>3. CASE shim = Idle /\ shim'.pc = "check" /\ CommandOK(shim')
    BY <2>3 DEF CommandOK
  <2>4. CASE GoesOn("check", "act") /\ Allowed /\ ledger'.id = ledger.id
    <3>1. shim.op \in {"run", "up"} => ledger.id[shim.t] # None
      BY <2>4 DEF Allowed, VerifiedImage
    <3> QED
      BY <1>1, <2>4, <3>1 DEF CommandOK, GoesOn
  <2>5. CASE GoesOn("act", "start") /\ shim.op \in {"run", "up"}
    BY <1>1, <2>5, IDsAreKept DEF CommandOK, GoesOn
  <2>6. CASE GoesOn("start", "verify") /\ shim'.c \in Containers
    BY <1>1, <2>6 DEF CommandOK, GoesOn
  <2>7. CASE GoesOn("act", "record") /\ shim.op = "build"
    BY <1>1, <2>7 DEF CommandOK, GoesOn
  <2> QED
    BY <2>2, <2>3, <2>4, <2>5, <2>6, <2>7, ShimSteps DEF ShimGoal, ShimMove
<1>6. CommandOK(late)'
  <2>1. ASSUME NEW new, late' = new, CommandOK(new)' PROVE CommandOK(late)'
    BY <2>1 DEF CommandOK
  <2>2. ASSUME NEW cmd, late = cmd, late' \in {cmd, Idle, [cmd EXCEPT !.stale = TRUE]} PROVE CommandOK(late)'
    BY <1>1, <1>2, <1>3, <1>4, <2>1, <2>2
  <2>3. ASSUME NEW cmd, shim = cmd, late' = cmd PROVE CommandOK(late)'
    BY <1>1, <1>3, <2>1, <2>3
  <2> QED
    BY <2>2, <2>3, LateSteps DEF LateGoal, LateMove
<1>7. /\ shim' # Idle => ci'.phase \in {"build", "test"} /\ ~ci'.accepted
      /\ shim'.op = "build" => ci'.phase = "build"
      /\ shim'.op \notin {"none", "build"} => ci'.phase = "test"
      /\ shim'.pc = "record" => shim'.op = "build"
  <2>1. /\ shim # Idle => ci'.phase = ci.phase /\ ci'.accepted = ci.accepted
        /\ shim.pc # "idle" => shim # Idle
        /\ shim.op # "none" => shim # Idle
    BY <1>2, CiSteps DEF CiGoal, SamePhase
  <2>2. CASE shim' \in {shim, Idle} \/ (shim # Idle /\ shim' = [shim EXCEPT !.stale = TRUE])
    <3>1. shim' = Idle \/ (shim'.op = shim.op /\ shim'.pc = shim.pc)
      BY <1>1, <2>2 DEF Commands
    <3> QED
      BY <1>1, <1>2, <2>1, <2>2, <3>1
  <2>3. CASE /\ shim = Idle /\ shim'.pc = "check" /\ ci' = ci /\ ~ci.accepted
             /\ ci.phase = IF shim'.op = "build" THEN "build" ELSE "test"
    BY <2>3
  <2>4. ASSUME NEW from, NEW to, GoesOn(from, to), from # "idle", to = "record" => shim.op = "build"
        PROVE  /\ shim # Idle /\ shim'.op = shim.op
               /\ shim'.pc = "record" => shim'.op = "build"
    BY <2>1, <2>4 DEF GoesOn
  <2> QED
    BY <1>1, <2>1, <2>2, <2>3, <2>4, ShimSteps DEF ShimGoal, ShimMove
<1> QED
  BY <1>5, <1>6, <1>7 DEF CommandsOK

\* What a command has found stays so, or the command becomes stale.
LEMMA CurrentStep == ASSUME OwnershipInv, [Next]_vars PROVE CurrentOK(shim)' /\ CurrentOK(late)'
<1>1. /\ shim \in Commands /\ late \in Commands /\ CommandOK(shim) /\ CommandOK(late)
      /\ CurrentOK(shim) /\ CurrentOK(late) /\ LabelsProve
  BY DEF OwnershipInv, TypeOK, CommandsOK
<1>2. Idle.pc = "idle" /\ Confirmed(Idle) = {}
  BY DEF Idle, Confirmed
<1>3. ASSUME NEW cmd, CommandOK(cmd), CurrentOK(cmd), \A x \in Confirmed(cmd) : ~Marked(x)
      PROVE  CurrentOK(cmd)'
  <2>1. ASSUME cmd.pc = "start" \/ (cmd.pc = "act" /\ cmd.op = "rmvol"), VolumeIsOurs(cmd.v)
        PROVE  VolumeIsOurs(cmd.v)'
    <3>1. cmd.v \in Names /\ cmd.v \in Confirmed(cmd)
      BY <1>3, <2>1 DEF CommandOK, Confirmed
    <3> QED
      BY <1>3, <2>1, <3>1, OursStay
  <2>2. ASSUME cmd.pc = "act", cmd.op = "rmctr", ContainerIsOurs(cmd.c) PROVE ContainerIsOurs(cmd.c)'
    <3>1. cmd.c \in Containers /\ cmd.c \in Confirmed(cmd)
      BY <1>3, <2>2 DEF CommandOK, Confirmed
    <3> QED
      BY <1>3, <2>2, <3>1, OursStay
  <2>3. ASSUME cmd.pc = "act", cmd.op \in {"rmimg", "build"}, TagIsOurs(cmd.t) PROVE TagIsOurs(cmd.t)'
    <3>1. cmd.t \in Tags /\ cmd.t \in Confirmed(cmd)
      BY <1>3, <2>3 DEF CommandOK, Confirmed
    <3> QED
      BY <1>3, <2>3, <3>1, OursStay
  <2> QED
    BY <1>3, <2>1, <2>2, <2>3 DEF CurrentOK
<1>4. ASSUME NEW cmd \in Commands, NEW x \in Confirmed(cmd) PROVE Overtaken(cmd, x).stale /\ cmd # Idle
  BY <1>2, <1>4 DEF Overtaken, Commands
<1>5. ASSUME NEW old, shim = old, shim' = old PROVE CurrentOK(shim)'
  <2>1. ASSUME ~old.stale, NEW x \in Confirmed(old) PROVE ~Marked(x)
    BY <1>1, <1>4, <1>5, <2>1 DEF Marked
  <2>2. CurrentOK(old)'
    BY <1>1, <1>3, <1>5, <2>1 DEF CurrentOK
  <2> QED
    BY <1>5, <2>2 DEF CurrentOK
<1>6. ASSUME NEW old, late = old, late' = old PROVE CurrentOK(late)'
  <2>1. ASSUME ~old.stale, NEW x \in Confirmed(old) PROVE ~Marked(x)
    BY <1>1, <1>4, <1>6, <2>1 DEF Marked
  <2>2. CurrentOK(old)'
    BY <1>1, <1>3, <1>6, <2>1 DEF CurrentOK
  <2> QED
    BY <1>6, <2>2 DEF CurrentOK
<1>7. CurrentOK(shim)'
  <2>1. CASE shim' = Idle \/ shim' = [shim EXCEPT !.stale = TRUE] \/ shim'.pc \in {"check", "verify", "record"}
    <3>1. shim'.stale \/ shim'.pc \in {"idle", "check", "verify", "record"}
      BY <1>1, <1>2, <2>1 DEF Commands
    <3> QED
      BY <3>1 DEF CurrentOK
  <2>2. CASE GoesOn("check", "act") /\ Allowed /\ ledger'.id = ledger.id /\ docker' = docker
    <3>1. shim.op = "rmvol" => VolumeIsOurs(shim.v)
      BY <1>1, <2>2 DEF Allowed, OwnedVolume, Labelled, LabelsProve, CommandOK, VolumeIsOurs
    <3>2. shim.op = "rmctr" => ContainerIsOurs(shim.c)
      BY <1>1, <2>2 DEF Allowed, OwnedContainer, Labelled, LabelsProve, CommandOK, ContainerIsOurs
    <3>3. shim.op \in {"rmimg", "build"} => TagIsOurs(shim.t)
      BY <2>2, NoneIsNoState DEF Allowed, VerifiedImage, TagIsOurs, Makers
    <3> QED
      BY <2>2, <3>1, <3>2, <3>3
      DEF CurrentOK, GoesOn, docker, VolumeIsOurs, ContainerIsOurs, TagIsOurs
  <2>3. CASE GoesOn("act", "start") /\ VolumeIsOurs(shim.v)'
    BY <2>3 DEF CurrentOK, GoesOn, VolumeIsOurs
  <2> QED
    BY <1>5, <2>1, <2>2, <2>3, ShimSteps DEF ShimGoal, ShimMove, GoesOn
<1>8. CurrentOK(late)'
  <2>1. CASE late' = Idle \/ late' = [late EXCEPT !.stale = TRUE]
    <3>1. late'.stale \/ late'.pc = "idle"
      BY <1>1, <1>2, <2>1 DEF Commands
    <3> QED
      BY <3>1 DEF CurrentOK
  <2>2. CASE late' = shim /\ UNCHANGED <<docker, ledger>>
    BY <1>1, <2>2 DEF CurrentOK, docker, VolumeIsOurs, ContainerIsOurs, TagIsOurs
  <2> QED
    BY <1>6, <2>1, <2>2, LateSteps DEF LateGoal, LateMove
<1> QED
  BY <1>7, <1>8

LEMMA LabelsStep == ASSUME OwnershipInv, [Next]_vars PROVE LabelsProve'
<1>1. LabelsProve /\ (\A n \in Names : VolumeMove(n)) /\ (\A c \in Containers : ContainerMove(c))
  BY VolumeSteps, ContainerSteps DEF OwnershipInv, VolumesGoal, ContainersGoal
<1>2. ASSUME NEW n \in Names, volume'[n] # None, volume'[n].labels # {}
      PROVE  volume'[n].by = "run" /\ (n \in Rollbacks => "owner" \in volume'[n].labels)
  <2>1. [by |-> "other", labels |-> {}].labels = {}
    OBVIOUS
  <2>2. \/ volume'[n] = volume[n]
        \/ volume'[n].by = "run" /\ (n \in Rollbacks => "owner" \in volume'[n].labels)
    BY <1>1, <1>2, <2>1 DEF VolumeMove
  <2> QED
    BY <1>1, <1>2, <2>2 DEF LabelsProve
<1>3. ASSUME NEW c \in Containers, container'[c] # None
      PROVE  container'[c].labels # {} <=> container'[c].by = "run"
  BY <1>1, <1>3 DEF ContainerMove, LabelsProve
<1> QED
  BY <1>2, <1>3 DEF LabelsProve

\* The recorded rollback volumes and the history.
LEMMA OtherTypes ==
    ASSUME OwnershipInv, [Next]_vars
    PROVE  events' \subseteq Rollbacks /\ denied' \in BOOLEAN
<1> DEFINE Goal == events' \subseteq Rollbacks /\ denied' \in BOOLEAN
<1>1. events \subseteq Rollbacks /\ denied \in BOOLEAN
  BY DEF OwnershipInv, TypeOK
<1>2. CASE UNCHANGED <<events, denied>>
  BY <1>1, <1>2
<1>3. CASE Check \/ EnsureVolume \/ VerifyStarted \/ ShimFails \/ \E n \in Rollbacks : CreateRollback(n)
  BY <1>1, <1>3 DEF Check, EnsureVolume, VerifyStarted, ShimFails, CreateRollback, Refuse
<1>4. CASE Reserve
  BY <1>2, <1>4 DEF Reserve, SeeAbsent, AppendClaim
<1>5. CASE ShimStep
  BY <1>2, <1>3, <1>5
  DEF ShimStep, NothingToStart, RemoveByShim, BuildEnds, RecordImage, DirectMove, StartContainer
<1>6. CASE Tests
  BY <1>2, <1>3, <1>6
  DEF Tests, BeginOnImage, BeginOnVolume, BeginOther, Begin, FreezeImages, Accept, LateCommandActs
<1>7. CASE Cleanup \/ CleanupCommandFails \/ Verify
  BY <1>2, <1>7
  DEF Cleanup, CleanupCommandFails, Inventory, CleanVolume, PlanImages, CleanTag, CleanObject,
      CleanContainer, RevalidateVolume, RevalidateTag, Verify, BeginVerification, LookForContainers,
      LookForVolumes, LookForVolume, LookForTag, Report, Look
<1>8. CASE Others
  BY <1>2, <1>8 DEF Others, OtherCreates, OtherRemoves
<1> QED
  BY <1>2, <1>4, <1>5, <1>6, <1>7, <1>8 DEF Next, vars

LEMMA TypesStep == ASSUME OwnershipInv, [Next]_vars PROVE TypeOK'
<1>1. ran \subseteq Tags \X Makers
  BY DEF OwnershipInv, TypeOK
<1>2. ran' \subseteq Tags \X Makers
  BY <1>1, RanSteps DEF RanMove
<1>3. ledger' \in [vols : SUBSET Volumes, tags : SUBSET Tags, tried : SUBSET Tags,
                   id : [Tags -> Makers \cup {None}]]
  BY LedgerSteps DEF LedgerGoal, Ledgers
<1> QED
  BY <1>2, <1>3, VolumeSteps, ContainerSteps, ImageSteps, ShimSteps, LateSteps, CiSteps, OtherTypes
  DEF TypeOK, CiStates, VolumesGoal, ContainersGoal, ImagesGoal, ShimGoal, LateGoal, CiGoal

LEMMA MountsStep == ASSUME OwnershipInv, [Next]_vars PROVE MountsAreOwn'
<1>1. ASSUME NEW c \in Containers, container'[c] # None, container'[c].by = "run", ~container'[c].stale,
             NEW n \in container'[c].mounts
      PROVE  volume'[n] # None /\ volume'[n].by = "run"
  <2>1. ContainerMove(c)
    BY ContainerSteps DEF ContainersGoal
  <2>2. CASE container'[c] = container[c]
    <3>1. n \in Names /\ volume[n] # None /\ volume[n].by = "run"
      BY <1>1, <2>2 DEF OwnershipInv, MountsAreOwn, TypeOK, ContainerState
    <3> QED
      BY <1>1, <3>1, VolumeSteps DEF VolumesGoal, VolumeMove
  <2> QED
    BY <1>1, <2>1, <2>2 DEF ContainerMove
<1> QED
  BY <1>1, TypesStep DEF MountsAreOwn

\* The invariant of volumes, containers and tags holds however others use the
\* daemon, whatever they retag, and whatever outlives its shim.
THEOREM OwnershipInvariant == Spec => []OwnershipInv
<1>1. Init => OwnershipInv
  <2> SUFFICES ASSUME Init PROVE OwnershipInv
    OBVIOUS
  <2>1. TypeOK
    BY NoneIsNoName DEF Init, TypeOK, Idle, Commands
  <2>2. LabelsProve /\ PlanIsCurrent
    BY DEF Init, LabelsProve, PlanIsCurrent, Verifying
  <2>3. CommandsOK /\ CurrentOK(shim) /\ CurrentOK(late)
    BY DEF Init, CommandsOK, CommandOK, CurrentOK, Idle
  <2>4. MountsAreOwn
    BY <2>1 DEF Init, MountsAreOwn
  <2> QED
    BY <2>1, <2>2, <2>3, <2>4 DEF OwnershipInv
<1>2. OwnershipInv /\ [Next]_vars => OwnershipInv'
  BY TypesStep, LabelsStep, CommandsStep, CurrentStep, CiSteps, MountsStep DEF OwnershipInv, CiGoal
<1> QED
  BY <1>1, <1>2, PTL DEF Spec

\* MountsAreOwn: no container of the run, also one that outlived its shim, is
\* started on, or left with, a volume somebody else put under a claimed name
\* before the shim had read it back (ensure_volume).
THEOREM MountsAreAlwaysOwn == Spec => []MountsAreOwn
<1>1. OwnershipInv => MountsAreOwn
  BY DEF OwnershipInv
<1> QED
  BY OwnershipInvariant, <1>1, PTL

---------------------------------------------------------------------------
(* What was run, and what is left to others.                               *)

\* The images that confirmed starts had are the recorded ones, and those stay.
RanInv ==
    /\ ran # {} => ci.phase \notin {"reserve", "refused", "build"}
    /\ \A p \in ran : p[2] = ledger.id[p[1]]

\* Where the run goes.
PhaseMove ==
    \/ ci'.phase = ci.phase
    \/ AppendClaim /\ ci'.phase = "build" /\ ledger'.vols = Volumes /\ ledger'.tags = Tags
    \/ ci.phase = "reserve" /\ ci'.phase = "refused"
    \/ /\ ci.phase \notin {"reserve", "refused"} /\ ci'.phase \notin {"reserve", "refused", "build"}
       /\ ~Reserve

LEMMA PhaseSteps == ASSUME OwnershipInv, [Next]_vars PROVE PhaseMove
<1>1. ci \in CiStates
  BY DEF OwnershipInv, TypeOK, CiStates
<1>2. CASE ci'.phase = ci.phase
  BY <1>2 DEF PhaseMove
<1>3. ASSUME NEW x \in Volumes \cup Tags, SeeAbsent(x) PROVE PhaseMove
  BY <1>1, <1>3 DEF SeeAbsent, CiStates, PhaseMove
<1>4. CASE AppendClaim
  <2>1. ci'.phase = IF ledger'.vols = Volumes /\ ledger'.tags = Tags THEN "build" ELSE "reserve"
    BY <1>1, <1>4 DEF AppendClaim, CiStates
  <2>2. ci.phase = "reserve"
    BY <1>4 DEF AppendClaim
  <2> QED
    BY <1>4, <2>1, <2>2 DEF PhaseMove
<1>5. ASSUME ci.phase \in {"build", "test", "remove", "images", "containers", "volumes", "names"},
             ci'.phase \in {"test", "remove", "images", "containers", "volumes", "names", "done"}
      PROVE  PhaseMove
  BY <1>5 DEF PhaseMove, Reserve, SeeAbsent, AppendClaim
<1>6. CASE FreezeImages \/ Accept \/ Inventory \/ PlanImages
  BY <1>1, <1>2, <1>5, <1>6 DEF FreezeImages, Accept, Inventory, PlanImages, CiStates
<1>7. CASE \/ CleanVolume \/ CleanTag
           \/ \E c \in Containers : CleanContainer(c)
           \/ \E n \in Names : RevalidateVolume(n)
           \/ \E t \in Tags : RevalidateTag(t) \/ CleanObject(t)
  BY <1>1, <1>2, <1>7
  DEF CleanVolume, CleanTag, CleanContainer, RevalidateVolume, RevalidateTag, CleanObject, CiStates
<1>8. CASE CleanupCommandFails
  BY <1>1, <1>2, <1>8 DEF CleanupCommandFails, CiStates
<1>9. CASE Verify
  BY <1>1, <1>2, <1>5, <1>9
  DEF Verify, BeginVerification, LookForContainers, LookForVolumes, LookForVolume, LookForTag, Report,
      Look, CiStates
<1>10. CASE UNCHANGED ci \/ ci' = [ci EXCEPT !.stale = TRUE]
  BY <1>1, <1>2, <1>10 DEF CiStates
<1>11. CASE ShimStep
  BY <1>10, <1>11
  DEF ShimStep, Check, EnsureVolume, NothingToStart, VerifyStarted, RemoveByShim, BuildEnds, RecordImage,
      DirectMove, StartContainer
<1>12. CASE LateCommandActs
  BY <1>10, <1>12 DEF LateCommandActs, LateMovesTag, LateCreates, LateStarts, LateRemoves, OvertakenPlan
<1>13. CASE Tests
  BY <1>6, <1>10, <1>12, <1>13
  DEF Tests, BeginOnImage, BeginOnVolume, BeginOther, Begin, CreateRollback, ShimFails
<1>14. CASE Others
  BY <1>10, <1>14 DEF Others, OtherCreates, OtherRemoves, OvertakenPlan
<1> QED
  BY <1>3, <1>4, <1>6, <1>7, <1>8, <1>9, <1>10, <1>11, <1>13, <1>14 DEF Next, vars, Reserve, Cleanup

LEMMA RanStep == ASSUME OwnershipInv, RanInv, [Next]_vars PROVE RanInv'
<1>1. /\ ran \subseteq Tags \X Makers
      /\ shim.pc = "verify" => ci.phase = "test" /\ ci'.phase = "test"
  BY CiSteps DEF OwnershipInv, TypeOK, CommandsOK, CommandOK, Idle, CiGoal, SamePhase
<1>2. \A t \in Tags : IDMove(t)
  BY LedgerSteps DEF LedgerGoal
<1>3. ran' # {} => ci'.phase \notin {"reserve", "refused", "build"}
  <2>1. ran' = ran \/ ci'.phase = "test"
    BY <1>1, RanSteps DEF RanMove
  <2>2. CASE ran' = ran /\ ran # {}
    BY <2>2, PhaseSteps DEF RanInv, PhaseMove, AppendClaim
  <2> QED
    BY <2>1, <2>2
<1>4. ASSUME NEW p \in ran' PROVE p[2] = ledger'.id[p[1]]
  <2>1. CASE p \in ran
    <3>1. p[1] \in Tags /\ p[2] \in Makers /\ p[2] = ledger.id[p[1]] /\ ci.phase # "build"
      BY <1>1, <2>1 DEF RanInv
    <3>2. ledger.id[p[1]] # None
      BY <3>1, NoneIsNoState
    <3> QED
      BY <1>2, <3>1, <3>2 DEF IDMove
  <2>2. CASE p \notin ran
    BY <1>4, <2>2, RanSteps DEF RanMove
  <2> QED
    BY <2>1, <2>2
<1> QED
  BY <1>3, <1>4 DEF RanInv

\* AcceptedImagesWereFrozen: the images an accepted run was told it had
\* started are the recorded ones, whoever moved a tag between the check and
\* Compose's own resolution of it, and back (the comparison of the container's
\* image after its start).
THEOREM TestedImagesWereFrozen == Spec => []AcceptedImagesWereFrozen
<1>1. Init => RanInv
  BY DEF Init, RanInv
<1>2. OwnershipInv /\ RanInv /\ [Next]_vars => RanInv'
  BY RanStep
<1>3. RanInv => AcceptedImagesWereFrozen
  BY DEF RanInv, AcceptedImagesWereFrozen
<1> QED
  BY <1>1, <1>2, <1>3, OwnershipInvariant, PTL DEF Spec

\* ForeignUntouched: but for what changed hands between an inspection and
\* Docker's own lookup, the names a down takes with it, and tags moved or
\* adopted unseen, no command of the tests, of a killed shim or of the cleanup
\* removes or replaces what somebody else made.
THEOREM OthersKeepTheirs == Spec => ForeignUntouched
<1> DEFINE
      KeptVolumes == \A n \in Names : volume[n] # None /\ volume[n].by = "other" =>
                        volume'[n] = volume[n] \/ ByStale(n) \/ (n \in Volumes /\ By("down"))
      KeptContainers == \A c \in Containers : container[c] # None /\ container[c].by = "other" =>
                        container'[c] = container[c] \/ ByStale(c)
      KeptTags == \A t \in Tags : image[t] = "other" =>
                        image'[t] = "other" \/ ByStale(t) \/ By("direct") \/ ledger.id[t] = "other"
<1>1. ASSUME OwnershipInv, [Next]_vars, ~Others PROVE KeptVolumes /\ KeptContainers /\ KeptTags
  <2>1. /\ CurrentOK(shim) /\ CurrentOK(late) /\ PlanIsCurrent /\ LabelsProve /\ ci \in CiStates
        /\ Idle.pc = "idle"
    BY <1>1 DEF OwnershipInv, TypeOK, CiStates, Idle
  <2>2. ASSUME NEW n \in Names, volume[n] # None, volume[n].by = "other", volume'[n] # volume[n]
        PROVE  ByStale(n) \/ (n \in Volumes /\ By("down"))
    <3>1. RunRemovesVolume(n)
      BY <1>1, <2>2, VolumeSteps DEF VolumesGoal, VolumeMove
    <3>2. CASE CommandRemovesVolume(shim, n) /\ shim' = Idle
      BY <2>1, <2>2, <3>2 DEF CommandRemovesVolume, CurrentOK, VolumeIsOurs, ByStale, By, Confirmed
    <3>3. CASE CommandRemovesVolume(late, n) /\ late' = Idle
      BY <2>1, <2>2, <3>3 DEF CommandRemovesVolume, CurrentOK, VolumeIsOurs, ByStale, By, Confirmed
    <3>4. CASE ci.phase = "remove" /\ ci.seen # None /\ n = ci.seen /\ ci' # ci
      BY <2>1, <2>2, <3>4 DEF PlanIsCurrent, VolumeIsOurs, ByStale
    <3> QED
      BY <3>1, <3>2, <3>3, <3>4 DEF RunRemovesVolume
  <2>3. ASSUME NEW c \in Containers, container[c] # None, container[c].by = "other",
               container'[c] # container[c]
        PROVE  ByStale(c)
    <3>1. RunRemovesContainer(c) /\ container[c].labels = {}
      BY <1>1, <2>1, <2>3, ContainerSteps DEF ContainersGoal, ContainerMove, LabelsProve
    <3>2. CASE CommandRemovesContainer(shim, c) /\ shim' = Idle
      BY <2>1, <2>3, <3>1, <3>2
      DEF CommandRemovesContainer, Labelled, CurrentOK, ContainerIsOurs, ByStale, Confirmed
    <3>3. CASE CommandRemovesContainer(late, c) /\ late' = Idle
      BY <2>1, <2>3, <3>1, <3>3
      DEF CommandRemovesContainer, Labelled, CurrentOK, ContainerIsOurs, ByStale, Confirmed
    <3>4. CASE ci.phase = "remove" /\ c \in ci.ctrs
      BY <2>1, <2>3, <3>4 DEF PlanIsCurrent, ContainerIsOurs
    <3> QED
      BY <3>1, <3>2, <3>3, <3>4 DEF RunRemovesContainer
  <2>4. ASSUME NEW t \in Tags, image[t] = "other", image'[t] # "other", ledger.id[t] # "other"
        PROVE  ByStale(t) \/ By("direct")
    <3>1. ImageMove(t) /\ ~TagIsOurs(t)
      BY <1>1, <2>4, ImageSteps DEF ImagesGoal, TagIsOurs
    <3>2. CASE (BuildsTag(shim, t) \/ CommandRemovesTag(shim, t)) /\ shim' # shim
      BY <2>1, <3>1, <3>2 DEF BuildsTag, CommandRemovesTag, CurrentOK, ByStale, Confirmed
    <3>3. CASE (BuildsTag(late, t) \/ CommandRemovesTag(late, t)) /\ late' # late
      BY <2>1, <3>1, <3>3 DEF BuildsTag, CommandRemovesTag, CurrentOK, ByStale, Confirmed
    <3>4. CASE ci.phase = "images" /\ ci.seen # None /\ t = ci.seen /\ ci' # ci
      BY <2>1, <3>1, <3>4 DEF PlanIsCurrent, ByStale
    <3>5. /\ CommandRemovesTag(shim, t) /\ shim' = Idle => shim' # shim
          /\ CommandRemovesTag(late, t) /\ late' = Idle => late' # late
      BY <2>1 DEF CommandRemovesTag
    <3> QED
      BY <1>1, <2>4, <3>1, <3>2, <3>3, <3>4, <3>5 DEF ImageMove
  <2> QED
    BY <2>2, <2>3, <2>4
<1>2. OwnershipInv /\ [Next]_vars => [Others \/ (KeptVolumes /\ KeptContainers /\ KeptTags)]_vars
  BY <1>1
<1> QED
  BY <1>2, OwnershipInvariant, PTL DEF Spec, ForeignUntouched

---------------------------------------------------------------------------
(* What the run leaves behind.                                             *)

\* After the reservation every name of the run is claimed.
AllClaimed == ci.phase \notin {"reserve", "refused"} => ledger.vols = Volumes /\ ledger.tags = Tags

LEMMA ClaimsStep == ASSUME OwnershipInv, AllClaimed, [Next]_vars PROVE AllClaimed'
<1>1. ledger \in Ledgers
  BY DEF OwnershipInv, TypeOK, Ledgers
<1>2. ~Reserve => ledger'.vols = ledger.vols /\ ledger'.tags = ledger.tags
  <2>1. CASE ShimStep
    <3>1. Check \/ RecordImage \/ UNCHANGED ledger
      BY <2>1 DEF ShimStep, EnsureVolume, NothingToStart, VerifyStarted, RemoveByShim, BuildEnds,
                  DirectMove, StartContainer
    <3> QED
      BY <1>1, <3>1 DEF Check, RecordImage, Ledgers
  <2>2. CASE Tests
    <3>1. FreezeImages \/ UNCHANGED ledger
      BY <2>2 DEF Tests, BeginOnImage, BeginOnVolume, BeginOther, Begin, CreateRollback, Accept,
                  ShimFails, LateCommandActs
    <3> QED
      BY <1>1, <3>1 DEF FreezeImages, Ledgers
  <2>3. CASE Cleanup \/ CleanupCommandFails \/ Verify
    <3>1. Inventory \/ PlanImages \/ UNCHANGED ledger
      BY <2>3 DEF Cleanup, CleanupCommandFails, CleanVolume, CleanTag, CleanObject, CleanContainer,
                  RevalidateVolume, RevalidateTag, Verify, BeginVerification, LookForContainers,
                  LookForVolumes, LookForVolume, LookForTag, Report, Look
    <3> QED
      BY <1>1, <3>1 DEF Inventory, PlanImages, Ledgers
  <2>4. CASE Others
    BY <2>4 DEF Others, OtherCreates, OtherRemoves
  <2> QED
    BY <2>1, <2>2, <2>3, <2>4 DEF Next, vars
<1>3. Reserve => ci.phase = "reserve"
  BY DEF Reserve, SeeAbsent, AppendClaim
<1> QED
  BY <1>2, <1>3, PhaseSteps DEF PhaseMove, AllClaimed, AppendClaim

\* What the verification has looked at is gone, if it found no fault, or has
\* appeared since.
Verified ==
    /\ ci.phase \in {"containers", "volumes"} => ci.vols = Volumes
    /\ Verifying /\ ~ci.failed =>
          /\ \A t \in Tags : image[t] = None \/ t \in since
          /\ ci.phase # "containers" =>
                \A c \in Containers : container[c] = None \/ container[c].by = "other" \/ c \in since
          /\ ci.phase = "names" =>
                \A n \in Names : \/ volume[n] = None \/ n \in since \/ n \in ci.vols
                                 \/ n \in Rollbacks /\ (volume[n].by = "other" \/ volume[n].labels = {})

\* Others, and commands that outlived their shims, act behind the verification.
Behind == ci'.phase = ci.phase /\ ci'.vols = ci.vols /\ ci'.failed = ci.failed /\ since \subseteq since'

LEMMA VerifySteps ==
    ASSUME OwnershipInv, [Next]_vars, Verifying'
    PROVE  \/ Verifying /\ Behind
           \/ Verifying /\ ci'.phase = ci.phase /\ ci'.vols = ci.vols /\ ci'.failed
           \/ Verify
<1>1. ci \in CiStates /\ since \subseteq Appeared({})
  BY DEF OwnershipInv, TypeOK, CiStates, Appeared
<1>2. CASE UNCHANGED <<ci, since>>
  BY <1>2 DEF Behind, Verifying
<1>3. CASE Reserve
  BY <1>1, <1>3 DEF Reserve, SeeAbsent, AppendClaim, Verifying, CiStates
<1>4. CASE ShimStep
  BY <1>2, <1>4
  DEF ShimStep, Check, EnsureVolume, NothingToStart, VerifyStarted, RemoveByShim, BuildEnds, RecordImage,
      DirectMove, StartContainer
<1>5. CASE FreezeImages \/ Accept
  BY <1>1, <1>5 DEF FreezeImages, Accept, Verifying, CiStates
<1>6. ASSUME NEW X, since' = Appeared(X), ci' = ci \/ \E x : ci' = OvertakenPlan(x)
      PROVE  Verifying /\ Behind
  <2>1. ci'.phase = ci.phase /\ ci'.vols = ci.vols /\ ci'.failed = ci.failed
    BY <1>1, <1>6 DEF OvertakenPlan, CiStates
  <2> QED
    BY <1>6, <2>1 DEF Behind, Verifying, Appeared
<1>7. CASE LateCommandActs
  BY <1>2, <1>6, <1>7 DEF LateCommandActs, LateMovesTag, LateCreates, LateStarts, LateRemoves
<1>8. CASE Tests
  BY <1>2, <1>5, <1>7, <1>8
  DEF Tests, BeginOnImage, BeginOnVolume, BeginOther, Begin, CreateRollback, ShimFails
<1>9. CASE Cleanup
  <2>1. ci.phase \in {"build", "test", "remove", "images"} /\ ci'.phase \in {"remove", "images"}
    BY <1>1, <1>9
    DEF Cleanup, Inventory, CleanVolume, PlanImages, CleanTag, CleanObject, CleanContainer,
        RevalidateVolume, RevalidateTag, CiStates
  <2> QED
    BY <2>1 DEF Verifying
<1>10. CASE CleanupCommandFails
  BY <1>1, <1>10 DEF CleanupCommandFails, Verifying, CiStates
<1>11. CASE Others
  BY <1>2, <1>6, <1>11 DEF Others, OtherCreates, OtherRemoves
<1> QED
  BY <1>2, <1>3, <1>4, <1>8, <1>9, <1>10, <1>11 DEF Next, vars

LEMMA VerifiedStep == ASSUME OwnershipInv, AllClaimed, Verified, [Next]_vars PROVE Verified'
<1>1. /\ ci \in CiStates /\ LabelsProve /\ container \in [Containers -> ContainerState \cup {None}]
      /\ volume \in [Names -> VolumeState \cup {None}]
      /\ ci.phase \notin {"reserve", "refused"} => ledger.vols = Volumes /\ ledger.tags = Tags
  BY DEF OwnershipInv, TypeOK, CiStates, AllClaimed
<1>2. CASE ~Verifying'
  BY <1>2 DEF Verified, Verifying
<1>3. CASE Verifying /\ ci'.phase = ci.phase /\ ci'.vols = ci.vols /\ ci'.failed
  BY <1>3 DEF Verified
<1>4. CASE Verifying /\ Behind
  <2>1. ASSUME NEW t \in Tags, image[t] = None \/ t \in since PROVE image'[t] = None \/ t \in since'
    BY <1>4, <2>1, ImageSteps DEF ImagesGoal, ImageMove, Behind
  <2>2. ASSUME NEW c \in Containers, container[c] = None \/ container[c].by = "other" \/ c \in since
        PROVE  container'[c] = None \/ container'[c].by = "other" \/ c \in since'
    BY <1>4, <2>2, ContainerSteps DEF ContainersGoal, ContainerMove, Behind
  <2>3. ASSUME NEW n \in Names, \/ volume[n] = None \/ n \in since \/ n \in ci.vols
                                \/ n \in Rollbacks /\ (volume[n].by = "other" \/ volume[n].labels = {})
        PROVE  \/ volume'[n] = None \/ n \in since' \/ n \in ci'.vols
               \/ n \in Rollbacks /\ (volume'[n].by = "other" \/ volume'[n].labels = {})
    <3>1. \/ volume'[n] = volume[n]
          \/ volume'[n] = None
          \/ n \in since'
      BY <1>4, VolumeSteps DEF VolumesGoal, VolumeMove, Appeared
    <3> QED
      BY <1>4, <2>3, <3>1 DEF Behind
  <2> QED
    BY <1>4, <2>1, <2>2, <2>3 DEF Verified, Behind, Verifying
<1>5. CASE BeginVerification
  <2>1. /\ ci.phase = "images" /\ UNCHANGED docker /\ since' = {}
        /\ ci' = [[ci EXCEPT !.phase = "containers", !.vols = ledger.vols, !.tags = ledger.tags]
                  EXCEPT !.failed = @ \/ \E t \in ledger.tags : image[t] # None]
    BY <1>5 DEF BeginVerification, Look
  <2>2. /\ ci'.phase = "containers" /\ ci'.vols = Volumes
        /\ ~ci'.failed => \A t \in Tags : image[t] = None
    BY <1>1, <2>1 DEF CiStates
  <2> QED
    BY <2>1, <2>2 DEF Verified, docker
<1>6. CASE LookForContainers
  <2>1. /\ ci.phase = "containers" /\ UNCHANGED <<docker, since>>
        /\ ci'.phase = "volumes" /\ ci'.vols = ci.vols
        /\ ~ci'.failed => ~ci.failed /\ SelectedContainers = {}
    BY <1>1, <1>6 DEF LookForContainers, Look, CiStates
  <2>2. ASSUME SelectedContainers = {}, NEW c \in Containers, container[c] # None
        PROVE  container[c].by = "other"
    <3>1. container[c] \in ContainerState /\ "owner" \notin container[c].labels
          /\ "project" \notin container[c].labels
      BY <1>1, <2>2 DEF SelectedContainers, OwnedContainer, Labelled
    <3>2. container[c].labels = {} /\ container[c].by \in Makers
      BY <3>1 DEF ContainerState
    <3> QED
      BY <1>1, <2>2, <3>2 DEF LabelsProve, Makers
  <2> QED
    BY <2>1, <2>2 DEF Verified, Verifying, docker
<1>7. CASE LookForVolumes
  <2>1. /\ ci.phase = "volumes" /\ UNCHANGED <<docker, since>>
        /\ ci'.phase = "names" /\ ci'.vols = ci.vols
        /\ ~ci'.failed => ~ci.failed /\ SelectedVolumes = {}
    BY <1>1, <1>7 DEF LookForVolumes, Look, CiStates
  <2>2. ASSUME SelectedVolumes = {}, NEW n \in Rollbacks, volume[n] # None PROVE volume[n].labels = {}
    BY <1>1, <2>2 DEF SelectedVolumes, Labelled, LabelsProve, Names
  <2>3. \A n \in Names : n \in Volumes \/ n \in Rollbacks
    BY DEF Names
  <2> QED
    BY <2>1, <2>2, <2>3 DEF Verified, Verifying, docker
<1>8. ASSUME NEW x \in Names, LookForVolume(x) PROVE Verified'
  <2>1. /\ ci.phase = "names" /\ UNCHANGED <<docker, since>>
        /\ ci'.phase = "names" /\ ci'.vols = ci.vols \ {x}
        /\ ~ci'.failed => ~ci.failed /\ volume[x] = None
    BY <1>1, <1>8 DEF LookForVolume, Look, CiStates
  <2> QED
    BY <2>1 DEF Verified, Verifying, docker
<1>9. ASSUME NEW x \in Tags, LookForTag(x) PROVE Verified'
  <2>1. /\ ci.phase = "names" /\ UNCHANGED <<docker, since>>
        /\ ci'.phase = "names" /\ ci'.vols = ci.vols /\ (~ci'.failed => ~ci.failed)
    BY <1>1, <1>9 DEF LookForTag, Look, CiStates
  <2> QED
    BY <2>1 DEF Verified, Verifying, docker
<1>10. CASE Report
  <2>1. ci'.phase = "done"
    BY <1>1, <1>10 DEF Report, Look, CiStates
  <2> QED
    BY <2>1 DEF Verified, Verifying
<1> QED
  BY <1>2, <1>3, <1>4, <1>5, <1>6, <1>7, <1>8, <1>9, <1>10, VerifySteps DEF Verify

\* CleanReport: a cleanup that reports no failure has left nothing of the run
\* that was there when its verification began, whatever failed before,
\* whatever the commands of killed shims did, and whatever others retagged;
\* all but an unlabelled volume under a generated name
\* (verify_registry_postcondition).
THEOREM CleanReportsAreTrue == Spec => CleanReport
<1> DEFINE Gone ==
        /\ \A n \in Names \ since : volume[n] # None =>
              n \in Rollbacks /\ (volume[n].by = "other" \/ volume[n].labels = {})
        /\ \A c \in Containers \ since : container[c] # None => container[c].by = "other"
        /\ \A t \in Tags \ since : image[t] = None
<1>1. OwnershipInv /\ Verified /\ Report /\ ~ci'.failed => Gone
  <2> SUFFICES ASSUME OwnershipInv, Verified, Report, ~ci'.failed PROVE Gone
    OBVIOUS
  <2>1. ci.phase = "names" /\ ci.vols = {} /\ ~ci.failed /\ Verifying
    BY DEF Report, Look, OwnershipInv, TypeOK, Verifying
  <2> QED
    BY <2>1 DEF Verified
<1>2. Init => AllClaimed /\ Verified
  BY DEF Init, AllClaimed, Verified, Verifying
<1>3. OwnershipInv /\ AllClaimed /\ Verified /\ [Next]_vars =>
        AllClaimed' /\ Verified' /\ [Report /\ ~ci'.failed => Gone]_vars
  BY <1>1, ClaimsStep, VerifiedStep
<1> QED
  BY <1>2, <1>3, OwnershipInvariant, PTL DEF Spec, CleanReport
=============================================================================
