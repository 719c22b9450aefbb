------------------------------- MODULE Restore -------------------------------
(***************************************************************************)
(* scripts/backup.sh: the host wrapper that backs up and restores the      *)
(* wallet volume.  It stops Electron Cash, runs helper containers on the   *)
(* volume, and makes a restore recoverable with a rollback volume and a    *)
(* marker file that names it.  The script may be killed or interrupted     *)
(* between any two commands; its helper containers outlive it.  One        *)
(* invocation runs at a time (the script takes no lock of its own), and    *)
(* nobody else starts or stops Electron Cash while it runs or while its    *)
(* marker exists.                                                          *)
(***************************************************************************)
EXTENDS Naturals

CONSTANTS
    Wallets,        \* possible complete contents of the wallet volume
    Initial,        \* the one it starts with
    Archives,       \* the backups a user may restore, as what they leave in it
    Volumes,        \* names Docker may give a rollback volume (bounds leaks)
    None,           \* no volume, no archive, no marker
    MaxFaults,      \* bound: commands that fail
    MaxMisreads,    \* bound: docker errors the script reads as "nothing there"
    MaxKills,       \* bound: kills of the script and power losses
    MaxSignals      \* bound: INT or TERM signals the script traps

Broken == {"partial", "empty", "absent"}

ASSUME WalletAssumption ==
    /\ Initial \in Wallets /\ Archives \subseteq Wallets
    /\ Broken \cap Wallets = {} /\ None \notin Wallets
ASSUME VolumeAssumption ==
    None \notin Volumes /\ None \notin [vol : Volumes, running : BOOLEAN]
ASSUME BoundAssumption == {MaxFaults, MaxMisreads, MaxKills, MaxSignals} \subseteq Nat

VARIABLES
    wallet,         \* contents of the wallet volume
    service,        \* Electron Cash runs on it
    content,        \* content[v]: what is in a rollback volume, or "absent"
    owned,          \* the rollback volumes that carry this project's labels
    marker,         \* restore-pending: [vol, running], or None
    helpers,        \* the helper containers: [job, at, vol, archive, attached]
    pc,             \* where the script is
    op,             \* "backup", "restore" or "none"
    archive,        \* the archive it restores
    was,            \* BACKUP_WAS_RUNNING
    active,         \* RESTORE_ACTIVE
    rv,             \* ROLLBACK_VOLUME
    caller,         \* who called rollback_restore
    return,         \* where remove_rollback_volume returns to
    trapped,        \* on_signal is installed
    exit,           \* how the last invocation ended
    before,         \* history: the wallet and service it has to preserve
    faults, misreads, kills, signals  \* history: how much of the bounds is used

shellVars  == <<op, archive, was, active, rv, caller, return, trapped>>
worldVars  == <<wallet, service, content, owned, marker>>
errorVars  == <<faults, misreads>>
outerVars  == <<before, kills, signals>>
vars == <<worldVars, helpers, pc, shellVars, exit, errorVars, outerVars>>

Works    == UNCHANGED errorVars
Fails    == faults < MaxFaults /\ faults' = faults + 1 /\ UNCHANGED misreads
Misreads == misreads < MaxMisreads /\ misreads' = misreads + 1 /\ UNCHANGED faults

\* What recovery would leave in the wallet volume.
Effective ==
    IF marker # None /\ content[marker.vol] \in Wallets
    THEN content[marker.vol] ELSE wallet

---------------------------------------------------------------------------
(* Helper containers: docker run --rm ... backup.sh, backup_tool.py.       *)

Busy(h)  == h.at \in {"begun", "copying"}
InUse    == \E h \in helpers : Busy(h)
Mounted(v) == \E h \in helpers : Busy(h) /\ h.vol = v
Attached == {h \in helpers : h.attached}

\* docker run; it creates a volume it is asked to mount and does not find.  The
\* container may act long after the script has died, its creation may not (Kill).
Launch(job, v) ==
    /\ helpers' = helpers \cup {[job |-> job, at |-> "begun", vol |-> v,
                                 archive |-> archive, attached |-> TRUE]}
    /\ content' = IF v # None /\ content[v] = "absent"
                  THEN [content EXCEPT ![v] = "empty"] ELSE content
    /\ UNCHANGED <<wallet, service, owned, marker>>

Put(h, data) ==
    CASE h.job \in {"replace", "restore"} -> wallet' = data /\ UNCHANGED content
      [] h.job = "snapshot" ->
            content' = [content EXCEPT ![h.vol] = data] /\ UNCHANGED wallet
      [] h.job = "create" -> UNCHANGED <<wallet, content>>

Moved(h, at) == (helpers \ {h}) \cup {[h EXCEPT !.at = at]}

\* _copy_tree empties its target (a snapshot's must be empty), then copies.
HelperWrites(h) ==
    /\ h.at = "begun"
    /\ h.job = "snapshot" => content[h.vol] = "empty"
    /\ helpers' = Moved(h, "copying")
    /\ Put(h, "partial")
    /\ Works

\* The copy is complete and its signature agrees with the source's.
HelperSucceeds(h) ==
    /\ h.at = "copying"
    /\ helpers' = Moved(h, "ok")
    /\ Put(h, CASE h.job = "replace"  -> h.archive
                [] h.job = "restore"  -> content[h.vol]
                [] OTHER -> wallet)
    /\ Works

\* Before it writes anything it refuses its input: an archive whose manifest or
\* contents do not check, a volume with a link or a device in it.
HelperRejects(h) ==
    /\ h.at = "begun"
    /\ Fails
    /\ helpers' = Moved(h, "failed")
    /\ UNCHANGED <<wallet, content>>

\* It runs out of space, dies, or finds the copy unlike its source.
HelperFails(h) ==
    /\ h.at = "copying"
    /\ Fails
    /\ helpers' = Moved(h, "failed")
    /\ UNCHANGED <<wallet, content>>

\* A container nobody waits for is removed when it stops.
HelperLeaves(h) ==
    /\ ~h.attached /\ ~Busy(h)
    /\ helpers' = helpers \ {h}
    /\ UNCHANGED <<wallet, content>> /\ Works

HelperStep(h) ==
    /\ HelperWrites(h) \/ HelperSucceeds(h) \/ HelperRejects(h)
       \/ HelperFails(h) \/ HelperLeaves(h)
    /\ UNCHANGED <<service, owned, marker, pc, shellVars, exit, outerVars>>

---------------------------------------------------------------------------
(* The script's vocabulary.  ok and bad say where it goes on.              *)

KeepWorld == UNCHANGED <<worldVars, helpers>>

Goto(label) == pc' = label /\ UNCHANGED <<shellVars, exit>>

\* The shell's variables die with it.
Exit(status) ==
    /\ pc' = "idle" /\ exit' = status
    /\ op' = "none" /\ archive' = None /\ was' = FALSE /\ active' = FALSE
    /\ rv' = None /\ caller' = "none" /\ return' = "none" /\ trapped' = FALSE

\* The helper the script waits for has ended.
Await(ok, bad) ==
    /\ \E h \in Attached :
        /\ ~Busy(h)
        /\ helpers' = helpers \ {h}
        /\ IF h.at = "ok" THEN ok ELSE bad
    /\ UNCHANGED worldVars /\ Works

\* stop_service: an error of docker compose ps reads as "not running", so an
\* outage that spans its calls makes it succeed without stopping anything.
StopService(ok, bad) ==
    /\ \/ Works /\ service' = FALSE /\ ok
       \/ Misreads /\ service /\ UNCHANGED service /\ ok
       \/ Fails /\ service /\ service' \in BOOLEAN /\ bad
    /\ UNCHANGED <<wallet, content, owned, marker, helpers>>

\* ensure_volume_unused: gives up after 30 tries; an error of docker ps reads
\* as "unused".
EnsureVolumeUnused(ok, bad) ==
    /\ \/ Works /\ ~service /\ ~InUse /\ ok
       \/ Misreads /\ (service \/ InUse) /\ ok
       \/ Works /\ (service \/ InUse) /\ bad
    /\ KeepWorld

\* start_service: up -d, then wait until it is healthy.
StartService(ok, bad) ==
    /\ \/ Works /\ service' = TRUE /\ ok
       \/ Fails /\ service' \in BOOLEAN /\ bad
    /\ UNCHANGED <<wallet, content, owned, marker, helpers>>

\* restore_prior_state; ensure_service_stopped is stop_service when running.
RestorePriorState(ok, bad) ==
    IF was THEN StartService(ok, bad) ELSE StopService(ok, bad)

CallRollback(who) ==
    /\ pc' = "rb_stop" /\ caller' = who
    /\ UNCHANGED <<op, archive, was, active, rv, return, trapped, exit>>

CallRemove(label) ==
    /\ pc' = "rm_validate" /\ return' = label
    /\ UNCHANGED <<op, archive, was, active, rv, caller, trapped, exit>>

---------------------------------------------------------------------------
(* Start, and recovery of an interrupted restore.                          *)

Begin(o, a) ==
    /\ pc = "idle"
    /\ o = "restore" => \E v \in Volumes : content[v] = "absent"
    /\ pc' = "pending" /\ op' = o /\ archive' = a /\ trapped' = TRUE /\ exit' = "none"
    /\ before' = [wallet |-> Effective,
                  service |-> IF marker = None THEN service ELSE marker.running]
    /\ UNCHANGED <<worldVars, helpers, was, active, rv, caller, return, errorVars,
                   kills, signals>>

\* Faulty variant: the service state of the marker is not taken over.
ReadPendingForgetful ==
    /\ pc = "pending" /\ KeepWorld /\ Works
    /\ IF marker = None THEN Goto("probe")
       ELSE /\ rv' = marker.vol /\ pc' = "rb_stop" /\ caller' = "recover"
            /\ UNCHANGED <<op, archive, was, active, return, trapped, exit>>

\* Faulty variant: the marker is looked for only before a restore.
ReadPendingIfRestoring ==
    /\ pc = "pending" /\ KeepWorld /\ Works
    /\ IF marker = None \/ op = "backup" THEN Goto("probe")
       ELSE /\ rv' = marker.vol /\ was' = marker.running
            /\ pc' = "rb_stop" /\ caller' = "recover"
            /\ UNCHANGED <<op, archive, active, return, trapped, exit>>

\* read_pending, validate_rollback_volume
ReadPending ==
    /\ pc = "pending" /\ KeepWorld
    /\ \/ Works /\ marker = None /\ Goto("probe")
       \/ /\ Works /\ marker # None
          /\ IF marker.vol \in owned
             THEN /\ rv' = marker.vol /\ was' = marker.running
                  /\ pc' = "rb_stop" /\ caller' = "recover"
                  /\ UNCHANGED <<op, archive, active, return, trapped, exit>>
             ELSE Exit("failed")
       \/ Fails /\ marker # None /\ Exit("failed")

ProbeService(to) ==
    /\ \/ Works /\ was' = (was \/ service)
       \/ Misreads /\ service /\ UNCHANGED was
    /\ pc' = to
    /\ UNCHANGED <<op, archive, rv, caller, return, trapped, exit>> /\ KeepWorld

Probe == pc = "probe" /\ ProbeService("confirm") /\ UNCHANGED active

\* The prompts, the archive's existence and its verification.
Confirm ==
    /\ pc = "confirm" /\ KeepWorld
    /\ \/ Works /\ Goto(IF op = "backup" THEN "b_stop" ELSE "r_active")
       \/ Works /\ op = "restore" /\ Exit("cancelled")
       \/ Fails /\ Exit("failed")

---------------------------------------------------------------------------
(* Backup.                                                                 *)

BackupStops ==
    /\ pc = "b_stop"
    /\ IF was THEN StopService(Goto("b_unused"), Exit("failed"))
              ELSE Goto("b_unused") /\ KeepWorld /\ Works

BackupNeedsVolume ==
    pc = "b_unused" /\ EnsureVolumeUnused(Goto("b_create"), Goto("b_bail"))

BackupCreates ==
    pc = "b_create" /\ Launch("create", None) /\ Goto("b_wait") /\ Works

BackupCreated == pc = "b_wait" /\ Await(Goto("b_start"), Goto("b_bail"))

BackupBails ==
    /\ pc = "b_bail"
    /\ IF was THEN StartService(Exit("failed"), Exit("failed"))
              ELSE Exit("failed") /\ KeepWorld /\ Works

BackupStarts ==
    /\ pc = "b_start"
    /\ IF was THEN StartService(Exit("done"), Exit("failed"))
              ELSE Exit("done") /\ KeepWorld /\ Works

Backup == \/ BackupStops \/ BackupNeedsVolume \/ BackupCreates
          \/ BackupCreated \/ BackupBails \/ BackupStarts

---------------------------------------------------------------------------
(* Restore: stop, snapshot, mark, replace, start, drop the snapshot, unmark. *)

RestoreBegins ==
    pc = "r_active" /\ active' = TRUE /\ ProbeService("r_stop")

RestoreStops ==
    pc = "r_stop" /\ StopService(Goto("r_unused"), Exit("failed"))

\* Faulty variant: the volume's users are not looked for.
RestoreSkipsVolume == pc = "r_unused" /\ Goto("r_create") /\ KeepWorld /\ Works

RestoreNeedsVolume ==
    pc = "r_unused" /\ EnsureVolumeUnused(Goto("r_create"), Exit("failed"))

CreateVolume ==
    /\ pc = "r_create"
    /\ \/ \E v \in Volumes :
            /\ content[v] = "absent"
            /\ content' = [content EXCEPT ![v] = "empty"]
            /\ owned' = owned \cup {v}
            /\ rv' = v /\ pc' = "r_valid"
            /\ UNCHANGED <<op, archive, was, active, caller, return, trapped, exit>>
            /\ Works
       \/ Fails /\ Exit("failed") /\ UNCHANGED <<content, owned>>
    /\ UNCHANGED <<wallet, service, marker, helpers>>

ValidateVolume ==
    /\ pc = "r_valid" /\ KeepWorld
    /\ \/ Works /\ rv \in owned /\ Goto("r_snapshot")
       \/ Fails /\ Exit("failed")

Snapshot == pc = "r_snapshot" /\ Launch("snapshot", rv) /\ Goto("r_snapped") /\ Works

\* Faulty variant: the wallet is replaced before the marker is written.
SnappedUnmarked == pc = "r_snapped" /\ Await(Goto("r_replace"), CallRemove("abandon"))

Snapped == pc = "r_snapped" /\ Await(Goto("r_mark"), CallRemove("abandon"))

WritePending ==
    /\ pc = "r_mark"
    /\ \/ /\ Works /\ marker = None
          /\ marker' = [vol |-> rv, running |-> was] /\ Goto("r_replace")
       \/ (IF marker = None THEN Fails ELSE Works) /\ CallRemove("abandon") /\ UNCHANGED marker
    /\ UNCHANGED <<wallet, service, content, owned, helpers>>

Abandon ==
    pc = "abandon" /\ RestorePriorState(Exit("failed"), Exit("failed"))

Replace == pc = "r_replace" /\ Launch("replace", None) /\ Goto("r_wait") /\ Works

\* Faulty variant: a failed replacement is cleaned up like a failed snapshot.
ReplacedAbandons == pc = "r_wait" /\ Await(Goto("r_prior"), CallRemove("abandon"))

Replaced == pc = "r_wait" /\ Await(Goto("r_prior"), CallRollback("main"))

RestoreStarts ==
    pc = "r_prior" /\ RestorePriorState(CallRemove("r_unmark"), CallRollback("main"))

Unmark(at, ok) ==
    /\ pc = at /\ marker' = None /\ ok /\ Works
    /\ UNCHANGED <<wallet, service, content, owned, helpers>>

RestoreUnmarks == Unmark("r_unmark", Goto("r_done"))

RestoreDone == pc = "r_done" /\ Exit("done") /\ KeepWorld /\ Works

RestoreWallet ==
    \/ RestoreBegins \/ RestoreStops \/ RestoreNeedsVolume \/ CreateVolume
    \/ ValidateVolume \/ Snapshot \/ Snapped \/ WritePending \/ Abandon
    \/ Replace \/ Replaced \/ RestoreStarts \/ RestoreUnmarks \/ RestoreDone

---------------------------------------------------------------------------
(* rollback_restore and remove_rollback_volume.                            *)

RollbackFails == Exit(IF caller = "signal" THEN "interrupted" ELSE "failed")

RollbackStops == pc = "rb_stop" /\ StopService(Goto("rb_unused"), RollbackFails)

RollbackNeedsVolume ==
    pc = "rb_unused" /\ EnsureVolumeUnused(Goto("rb_copy"), RollbackFails)

RollbackCopies == pc = "rb_copy" /\ Launch("restore", rv) /\ Goto("rb_wait") /\ Works

\* Faulty variant: Electron Cash is started whatever became of the copy.
RollbackStartsAnyway == pc = "rb_wait" /\ Await(Goto("rb_prior"), Goto("rb_prior"))

RollbackCopied == pc = "rb_wait" /\ Await(Goto("rb_prior"), RollbackFails)

RollbackStarts ==
    pc = "rb_prior" /\ RestorePriorState(CallRemove("rb_unmark"), RollbackFails)

RollbackUnmarks ==
    Unmark("rb_unmark", IF caller = "recover" THEN Goto("probe") ELSE RollbackFails)

\* An unavailable or foreign volume ends the script, whoever called.
RemoveValidates ==
    /\ pc = "rm_validate" /\ KeepWorld
    /\ \/ Works /\ rv = None /\ Goto(return)
       \/ Works /\ rv # None /\ rv \in owned /\ Goto("rm_volume")
       \/ Works /\ rv # None /\ rv \notin owned /\ Exit("failed")
       \/ Fails /\ rv # None /\ Exit("failed")

\* docker volume rm, which refuses a volume that a container is using.  Its failure
\* is lost, because every caller tests the function's status and so turns off
\* errexit inside it.
RemoveVolume ==
    /\ pc = "rm_volume" /\ Goto("rm_clear")
    /\ \/ /\ Works /\ ~Mounted(rv)
          /\ content' = [content EXCEPT ![rv] = "absent"]
          /\ owned' = owned \ {rv}
       \/ /\ IF Mounted(rv) THEN Works ELSE Fails
          /\ UNCHANGED <<content, owned>>
    /\ UNCHANGED <<wallet, service, marker, helpers>>

RemoveClears ==
    /\ pc = "rm_clear" /\ rv' = None /\ pc' = return /\ KeepWorld /\ Works
    /\ UNCHANGED <<op, archive, was, active, caller, return, trapped, exit>>

Rollback ==
    \/ RollbackStops \/ RollbackNeedsVolume \/ RollbackCopies \/ RollbackCopied
    \/ RollbackStarts \/ RollbackUnmarks
    \/ RemoveValidates \/ RemoveVolume \/ RemoveClears

---------------------------------------------------------------------------
(* Signals, kills and the world around the script.                         *)

\* Faulty variant: only a marked restore is undone.
OnSignalIgnoresRestore ==
    /\ pc # "idle" /\ trapped /\ ~\E h \in Attached : Busy(h)
    /\ signals < MaxSignals /\ signals' = signals + 1
    /\ trapped' = FALSE /\ helpers' = helpers \ Attached
    /\ IF active /\ marker # None THEN pc' = "rb_stop" /\ caller' = "signal"
                                  ELSE pc' = "sig_exit" /\ UNCHANGED caller
    /\ UNCHANGED <<worldVars, op, archive, was, active, rv, return, exit, errorVars,
                   before, kills>>

\* on_signal, once the command in the foreground has ended.
OnSignal ==
    /\ pc # "idle" /\ trapped /\ ~\E h \in Attached : Busy(h)
    /\ signals < MaxSignals /\ signals' = signals + 1
    /\ trapped' = FALSE
    /\ helpers' = helpers \ Attached
    /\ IF active /\ rv # None /\ marker # None
       THEN pc' = "rb_stop" /\ caller' = "signal"
       ELSE pc' = (IF active THEN "sig_prior" ELSE "sig_start") /\ UNCHANGED caller
    /\ UNCHANGED <<worldVars, op, archive, was, active, rv, return, exit, errorVars,
                   before, kills>>

SignalPrior ==
    /\ pc = "sig_prior"
    /\ RestorePriorState(CallRemove("sig_exit"), CallRemove("sig_exit"))

SignalStarts ==
    /\ pc = "sig_start"
    /\ IF was THEN StartService(Goto("sig_exit"), Goto("sig_exit"))
              ELSE Goto("sig_exit") /\ KeepWorld /\ Works

SignalExits == pc = "sig_exit" /\ Exit("interrupted") /\ KeepWorld /\ Works

Signal == SignalPrior \/ SignalStarts \/ SignalExits

\* SIGKILL or SIGHUP ends the script; docker keeps its container running.  Of a
\* docker command that was in flight one thing is assumed: it has ended before
\* the next invocation and before the user starts or stops Electron Cash.  Then
\* it is as if the kill came just after it, or just before it did anything.
Kill ==
    /\ pc # "idle" /\ kills < MaxKills /\ kills' = kills + 1
    /\ Exit("killed")
    /\ helpers' = {[h EXCEPT !.attached = FALSE] : h \in helpers}
    /\ UNCHANGED <<worldVars, errorVars, before, signals>>

\* The host loses power.
PowerLoss ==
    /\ pc # "idle" \/ helpers # {}
    /\ kills < MaxKills /\ kills' = kills + 1
    /\ IF pc = "idle" THEN UNCHANGED <<pc, shellVars, exit>> ELSE Exit("killed")
    /\ helpers' = {} /\ service' = FALSE
    /\ UNCHANGED <<wallet, content, owned, marker, errorVars, before, signals>>

\* The user starts or stops Electron Cash when no restore is pending.
UserToggles ==
    /\ pc = "idle" /\ marker = None /\ helpers = {}
    /\ service' = ~service
    /\ UNCHANGED <<wallet, content, owned, marker, helpers, pc, shellVars, exit,
                   errorVars, outerVars>>

---------------------------------------------------------------------------
Init ==
    /\ wallet = Initial /\ service = FALSE
    /\ content = [v \in Volumes |-> "absent"] /\ owned = {} /\ marker = None
    /\ helpers = {} /\ pc = "idle" /\ op = "none" /\ archive = None
    /\ was = FALSE /\ active = FALSE /\ rv = None
    /\ caller = "none" /\ return = "none" /\ trapped = FALSE /\ exit = "none"
    /\ before = [wallet |-> Initial, service |-> FALSE]
    /\ faults = 0 /\ misreads = 0 /\ kills = 0 /\ signals = 0

Script ==
    /\ ReadPending \/ Probe \/ Confirm \/ Backup \/ RestoreWallet \/ Rollback \/ Signal
    /\ UNCHANGED outerVars

Invoke == Begin("backup", None) \/ \E a \in Archives : Begin("restore", a)

Next ==
    \/ Invoke \/ Script \/ OnSignal \/ Kill \/ PowerLoss \/ UserToggles
    \/ \E h \in helpers : HelperStep(h)

Spec == Init /\ [][Next]_vars

\* The script and its helpers run on, and the user invokes it again.
Fairness ==
    /\ WF_vars(Script) /\ WF_vars(Invoke)
    /\ WF_vars(\E h \in helpers : HelperStep(h))
FairSpec == Spec /\ Fairness

---------------------------------------------------------------------------
(* Properties.                                                             *)

HelperType ==
    [job : {"create", "snapshot", "replace", "restore"},
     at : {"begun", "copying", "ok", "failed"}, vol : Volumes \cup {None},
     archive : Archives \cup {None}, attached : BOOLEAN]

WorldTypeOK ==
    /\ wallet \in Wallets \cup Broken /\ service \in BOOLEAN
    /\ content \in [Volumes -> Wallets \cup Broken]
    /\ owned \subseteq {v \in Volumes : content[v] # "absent"}
    /\ marker \in [vol : Volumes, running : BOOLEAN] \cup {None}
    /\ helpers \subseteq HelperType

ShellTypeOK ==
    /\ op \in {"none", "backup", "restore"} /\ archive \in Archives \cup {None}
    /\ was \in BOOLEAN /\ active \in BOOLEAN /\ trapped \in BOOLEAN
    /\ rv \in Volumes \cup {None}
    /\ caller \in {"none", "recover", "main", "signal"}
    /\ return \in {"none", "r_unmark", "rb_unmark", "abandon", "sig_exit"}
    /\ exit \in {"none", "done", "cancelled", "failed", "interrupted", "killed"}

GhostTypeOK ==
    /\ before \in [wallet : Wallets \cup Broken, service : BOOLEAN]
    /\ faults \in 0..MaxFaults /\ misreads \in 0..MaxMisreads
    /\ kills \in 0..MaxKills /\ signals \in 0..MaxSignals

\* The type invariant: the files, volumes and shell variables stay in their
\* ranges, and a volume that carries the labels exists.
TypeOK == WorldTypeOK /\ ShellTypeOK /\ GhostTypeOK

\* Whenever the wallet volume is not a complete wallet, the marker is on disk
\* and names a volume of this installation with a complete one, whatever was
\* killed when (snapshot, write_pending, replace, rollback, removal).
DamageIsRecoverable ==
    wallet \notin Wallets =>
        /\ marker # None /\ marker.vol \in owned
        /\ content[marker.vol] \in Wallets

\* Electron Cash never runs on a partly copied wallet: recovery comes before
\* anything starts it.  Part of it is that the variables keep their types.
ServiceOnWholeWallet == TypeOK /\ (service => wallet \in Wallets)

\* No helper copies from or to the wallet volume while Electron Cash runs,
\* even if docker fails to answer one of the questions about who uses it.
ServiceOffDuringCopy == InUse => ~service

\* When a restore is over (its marker goes) or the script reports success,
\* Electron Cash runs if and only if it ran before, also across a kill.
PriorStateKept ==
    [][(marker # None /\ marker' = None) \/ (pc # "idle" /\ exit' = "done")
       => service' = before.service]_vars

\* A trapped signal leaves Electron Cash as it was, wherever it arrives; a
\* command that fails while it is handled may keep it from starting.
SignalKeepsPriorState ==
    [][pc # "idle" /\ exit' = "interrupted" /\ faults' = 0 /\ misreads' = 0
       => service' = before.service]_vars

\* The wallet recovery would leave changes in one step, from the old one to the
\* archive, and the exit status tells the two apart (AtomicRestore).
Atomic == INSTANCE AtomicRestore WITH
    value   <- Effective,
    request <- IF pc = "idle" THEN [archive |-> None, old |-> None]
               ELSE [archive |-> archive, old |-> before.wallet],
    answer  <- exit
AtomicRestore == Atomic!Spec

\* Invoked again and again, with commands that fail and signals that arrive only
\* finitely often, the script gets rid of the marker of every interrupted
\* restore whose rollback volume still exists (recover_pending).
RetriesRecover == marker # None ~> marker = None \/ marker.vol \notin owned
=============================================================================
