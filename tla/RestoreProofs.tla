---------------------------- MODULE RestoreProofs ----------------------------
(***************************************************************************)
(* What is proved of scripts/backup.sh, for any wallets, archives and      *)
(* rollback volumes, in two parts.  The first is about runs with any       *)
(* number of failing commands, of kills and of power losses, in which no   *)
(* signal is trapped and docker's errors are not taken for answers.  The   *)
(* second is about runs with any number of signals, in which nothing is    *)
(* killed.  That a signal spares the wallet itself is not proved, because  *)
(* it does not: the violation run shows it.                                *)
(***************************************************************************)
EXTENDS Restore, TLAPS

\* No signal has been trapped, and every question docker was asked answered.
Undisturbed == signals = 0 /\ misreads = 0

\* Where a helper of a killed script may still be at work.  The script passes
\* b_unused, r_unused and rb_unused only when none is.
Noisy == {"idle", "pending", "probe", "confirm", "b_stop", "b_unused", "b_bail",
          "r_active", "r_stop", "r_unused", "rb_stop", "rb_unused"}

\* Where the script waits for a helper of its own, and for which.
Waits == {"b_wait", "r_snapped", "r_wait", "rb_wait"}
Job(label) ==
    CASE label = "b_wait"    -> "create"
      [] label = "r_snapped" -> "snapshot"
      [] label = "r_wait"    -> "replace"
      [] label = "rb_wait"   -> "restore"
      [] OTHER -> "none"

\* No restore is pending; one is, and its rollback volume is complete.
Before == {"probe", "confirm", "b_stop", "b_unused", "b_create", "b_wait", "b_bail", "b_start",
           "r_active", "r_stop", "r_unused", "r_create", "r_valid", "r_snapshot", "r_snapped",
           "r_mark", "abandon", "r_done"}
Marked == {"r_replace", "r_wait", "r_prior",
           "rb_stop", "rb_unused", "rb_copy", "rb_wait", "rb_prior"}
Removing == {"rm_validate", "rm_volume", "rm_clear"}
Restoring == {"r_active", "r_stop", "r_unused", "r_create", "r_valid", "r_snapshot", "r_snapped",
              "r_mark", "abandon", "r_replace", "r_wait", "r_prior", "r_unmark", "r_done"}
BackingUp == {"b_stop", "b_unused", "b_create", "b_wait", "b_bail", "b_start"}
RollingBack == {"rb_stop", "rb_unused", "rb_copy", "rb_wait", "rb_prior", "rb_unmark"}

\* Electron Cash has been stopped.
Off == {"b_create", "b_wait", "b_start", "r_unused", "r_create", "r_valid", "r_snapshot",
        "r_snapped", "r_mark", "r_replace", "r_wait", "rb_unused", "rb_copy", "rb_wait"}

\* On the way to x, or there, after everything else of the restore is done.
Towards(x) == pc = x \/ (pc \in Removing /\ return = x)

WholeMarker == marker # None /\ marker.vol \in owned

\* What a helper left behind may still do, and what one waited for has done.
HelpersInv ==
    /\ \A h \in helpers :
        /\ h.attached =>
             /\ h.job = Job(pc) /\ h.archive = archive
             /\ h.job \in {"snapshot", "restore"} => h.vol = rv
             /\ h.at = "ok" =>
                  CASE h.job = "replace"  -> wallet = archive
                    [] h.job = "restore"  -> wallet = content[rv]
                    [] h.job = "snapshot" -> content[rv] = wallet
                    [] OTHER -> TRUE
        /\ Busy(h) =>
             /\ ~service
             /\ ~h.attached => pc \in Noisy /\ (pc \notin {"rb_stop", "rb_unused"} => ~was)
             /\ h.job \in {"replace", "restore"} => WholeMarker
             /\ h.job = "restore" => h.vol = marker.vol
             /\ h.job = "snapshot" => marker = None /\ h.vol \in Volumes
        /\ h.job = "replace" => h.archive \in Archives
    /\ \A g, h \in Attached : g = h

\* The marker is there while the wallet may be damaged, and names a complete
\* copy until that copy is no longer needed.
MarkerInv ==
    /\ WholeMarker => content[marker.vol] \in Wallets
    /\ wallet \notin Wallets => WholeMarker
    /\ pc \in Before \/ Towards("abandon") => marker = None
    /\ pc \in Marked => WholeMarker /\ rv = marker.vol
    /\ pc \in Removing => return \in {"abandon", "r_unmark", "rb_unmark"} /\ rv \in Volumes
    /\ Towards("r_unmark") \/ Towards("rb_unmark") => marker # None
    /\ pc \in Removing /\ return # "abandon" => rv = marker.vol
    /\ pc \in {"rm_validate", "rm_volume"} /\ return # "abandon" => rv \in owned
    /\ pc \in {"r_valid", "r_snapshot", "r_snapped", "r_mark"} => rv \in owned
    /\ pc = "r_mark" => content[rv] = wallet

\* The script's own variables, where it is.
ShellInv ==
    /\ pc = "idle" => op = "none" /\ archive = None /\ ~was /\ ~active
    /\ pc # "idle" =>
          exit = "none" /\ op \in {"backup", "restore"} /\ (op = "restore" <=> archive \in Archives)
    /\ pc = "pending" => ~was
    /\ pc \in BackingUp => op = "backup"
    /\ pc \in Restoring => op = "restore"
    /\ pc \in Removing /\ return \in {"abandon", "r_unmark"} => op = "restore"
    /\ pc \in RollingBack \/ Towards("rb_unmark") => caller \in {"recover", "main"}
    /\ pc \notin {"sig_prior", "sig_start", "sig_exit"}

\* Electron Cash is off where helpers work, and what it was before is known.
ServiceInv ==
    /\ service => wallet \in Wallets
    /\ pc \in Off => ~service
    /\ marker # None /\ pc # "idle" => marker.running = before.service
    /\ pc \notin {"idle", "pending", "probe"} => was = before.service
    /\ pc = "probe" /\ was => service
    /\ pc \in {"probe", "confirm", "r_active", "r_done"} => service = before.service
    /\ Towards("r_unmark") \/ Towards("rb_unmark") => service = before.service
    /\ pc = "pending" /\ marker = None => service = before.service

\* What recovery would leave is the old wallet, until the rollback volume may
\* be gone; then the wallet volume is what the script wants it to be.
WalletInv ==
    /\ pc # "idle" => before.wallet \in Wallets
    /\ pc \in {"r_prior", "r_done"} \/ Towards("r_unmark") => wallet = archive
    /\ pc = "rb_prior" \/ Towards("rb_unmark") => wallet = before.wallet
    /\ pc \notin {"idle", "r_done"} /\ ~(pc \in {"rm_clear", "r_unmark"} /\ return = "r_unmark") =>
          Effective = before.wallet
    /\ pc \in {"rm_clear", "r_unmark"} /\ return = "r_unmark" => Effective \in {before.wallet, archive}
    /\ pc = "r_unmark" => return = "r_unmark"

RestoreInv == TypeOK /\ HelpersInv /\ MarkerInv /\ ShellInv /\ ServiceInv /\ WalletInv

---------------------------------------------------------------------------
(* Helpers.                                                                *)

\* Past the checks nobody uses the volume.
LEMMA NoUsers ==
    ASSUME WorldTypeOK, HelpersInv, pc \notin Noisy, pc \notin Waits
    PROVE  \A h \in helpers : ~h.attached /\ ~Busy(h)
<1>1. Job(pc) = "none"
  BY DEF Job, Waits
<1>2. \A h \in helpers : h.job # "none"
  BY DEF WorldTypeOK, HelperType
<1> QED
  BY <1>1, <1>2 DEF HelpersInv

\* A new helper is the only one, and mounts volumes that exist.
LEMMA Launches ==
    ASSUME WorldTypeOK, ShellTypeOK, HelpersInv, pc \notin Noisy, pc \notin Waits, ~service,
           NEW job \in {"create", "snapshot", "replace", "restore"}, NEW v \in {None, rv},
           Launch(job, v), job = Job(pc'), UNCHANGED <<archive, rv, was>>,
           v # None => v \in owned,
           job \in {"snapshot", "restore"} => v = rv /\ rv # None,
           job \in {"replace", "restore"} => WholeMarker,
           job = "replace" => archive \in Archives,
           job = "restore" => rv = marker.vol,
           job = "snapshot" => marker = None
    PROVE  WorldTypeOK' /\ HelpersInv' /\ UNCHANGED <<wallet, service, content, owned, marker>>
<1> DEFINE n == [job |-> job, at |-> "begun", vol |-> v, archive |-> archive, attached |-> TRUE]
<1>1. /\ helpers' = helpers \cup {n} /\ UNCHANGED <<wallet, service, content, owned, marker>>
  BY VolumeAssumption DEF Launch, WorldTypeOK
<1>2. n \in HelperType
  BY DEF HelperType, ShellTypeOK
<1>3. WorldTypeOK'
  BY <1>1, <1>2 DEF WorldTypeOK
<1>4. ASSUME NEW h \in helpers' PROVE (~h.attached /\ ~Busy(h)) \/ h = n
  BY <1>1, <1>4, NoUsers
<1>5. Busy(n) /\ n.at # "ok" /\ n.attached /\ n.job = job /\ n.vol = v /\ n.archive = archive
  BY DEF Busy
<1>6. ASSUME NEW h \in helpers' PROVE h.job = "replace" => h.archive \in Archives
  BY <1>1, <1>5 DEF HelpersInv
<1>7. job = "snapshot" => v \in Volumes
  BY DEF ShellTypeOK
<1> HIDE DEF n
<1> QED
  BY <1>1, <1>3, <1>4, <1>5, <1>6, <1>7 DEF HelpersInv, Attached, WholeMarker, Busy

\* A helper changes the wallet volume only under a marker, and a rollback
\* volume only without one; what recovery would leave stays the same.
HelperMove ==
    /\ UNCHANGED <<service, owned, marker, pc, shellVars, exit, outerVars>>
    /\ wallet' \in Wallets \cup Broken
    /\ content' \in [Volumes -> Wallets \cup Broken]
    /\ \A v \in owned : content'[v] # "absent"
    /\ \/ UNCHANGED <<wallet, content>>
       \/ /\ pc \in Noisy \cup Waits /\ ~service
          /\ \/ WholeMarker /\ UNCHANGED content
             \/ marker = None /\ UNCHANGED wallet
    /\ Works \/ Fails

\* Each of a helper's steps is such a move.
LEMMA HelperMoves ==
    ASSUME RestoreInv, NEW h \in helpers, HelperStep(h)
    PROVE  HelperMove
<1>1. /\ WorldTypeOK /\ HelpersInv /\ MarkerInv /\ h \in HelperType
      /\ UNCHANGED <<service, owned, marker, pc, shellVars, exit, outerVars>>
  BY DEF RestoreInv, TypeOK, WorldTypeOK, HelperStep
<1>2. \A v \in owned : v \in Volumes /\ content[v] # "absent"
  BY <1>1 DEF WorldTypeOK
<1>3. CASE UNCHANGED <<wallet, content>> /\ (Works \/ Fails)
  BY <1>1, <1>2, <1>3 DEF HelperMove, WorldTypeOK
<1>4. ASSUME Busy(h), NEW data \in Wallets \cup {"partial"}, Put(h, data), Works
      PROVE  HelperMove
  <2>1. /\ ~service
        /\ h.job \in {"replace", "restore"} => WholeMarker
        /\ h.job = "snapshot" => marker = None /\ h.vol \in Volumes
        /\ pc \in Noisy \cup Waits
    <3>1. h.attached => pc \in Waits
      BY <1>1 DEF HelpersInv, HelperType, Job, Waits
    <3> QED
      BY <1>1, <1>4, <3>1 DEF HelpersInv
  <2>2. data # "absent" /\ data \in Wallets \cup Broken
    BY WalletAssumption DEF Broken
  <2>3. CASE h.job \in {"replace", "restore"}
    <3>1. wallet' = data /\ content' = content
      BY <1>4, <2>3 DEF Put
    <3> QED
      BY <1>1, <1>2, <1>4, <2>1, <2>2, <2>3, <3>1 DEF HelperMove, WorldTypeOK
  <2>4. CASE h.job = "snapshot"
    <3>1. wallet' = wallet /\ content' = [content EXCEPT ![h.vol] = data]
      BY <1>4, <2>4 DEF Put
    <3>2. \A v \in Volumes : content'[v] = IF v = h.vol THEN data ELSE content[v]
      BY <1>1, <3>1 DEF WorldTypeOK
    <3>3. content' \in [Volumes -> Wallets \cup Broken]
      BY <1>1, <2>2, <3>1 DEF WorldTypeOK
    <3> QED
      BY <1>1, <1>2, <1>4, <2>1, <2>2, <2>4, <3>1, <3>2, <3>3 DEF HelperMove, WorldTypeOK
  <2>5. CASE h.job = "create"
    BY <1>3, <1>4, <2>5 DEF Put
  <2> QED
    BY <1>1, <2>3, <2>4, <2>5 DEF HelperType
<1>5. CASE HelperWrites(h)
  BY <1>4, <1>5 DEF HelperWrites, Busy
<1>6. CASE HelperSucceeds(h)
  <2>1. Busy(h) /\ Works
    BY <1>6 DEF HelperSucceeds, Busy
  <2>2. CASE h.job = "replace"
    <3>1. h.archive \in Wallets /\ Put(h, h.archive)
      BY <1>1, <1>6, <2>2, WalletAssumption DEF HelperSucceeds, HelpersInv
    <3> QED
      BY <1>4, <2>1, <3>1
  <2>3. CASE h.job = "restore"
    <3>1. content[h.vol] \in Wallets
      BY <1>1, <2>1, <2>3 DEF HelpersInv, MarkerInv
    <3>2. Put(h, content[h.vol])
      BY <1>6, <2>3 DEF HelperSucceeds
    <3> QED
      BY <1>4, <2>1, <3>1, <3>2
  <2>4. CASE h.job = "snapshot"
    <3>1. wallet \in Wallets
      BY <1>1, <2>1, <2>4 DEF HelpersInv, MarkerInv, WholeMarker
    <3>2. Put(h, wallet)
      BY <1>6, <2>4 DEF HelperSucceeds
    <3> QED
      BY <1>4, <2>1, <3>1, <3>2
  <2>5. CASE h.job = "create"
    BY <1>3, <1>6, <2>5 DEF HelperSucceeds, Put
  <2> QED
    BY <1>1, <2>2, <2>3, <2>4, <2>5 DEF HelperType
<1>7. CASE HelperRejects(h) \/ HelperFails(h) \/ HelperLeaves(h)
  BY <1>3, <1>7 DEF HelperRejects, HelperFails, HelperLeaves
<1> QED
  BY <1>5, <1>6, <1>7 DEF HelperStep

\* A helper that is waited for has done its job when it ends well.
LEMMA HelperEnds ==
    ASSUME RestoreInv, NEW h \in helpers, HelperStep(h)
    PROVE  helpers' \subseteq HelperType /\ HelpersInv'
<1>1. /\ WorldTypeOK /\ HelpersInv /\ MarkerInv /\ h \in HelperType /\ HelperMove
      /\ UNCHANGED <<service, owned, marker, pc, archive, rv, was>>
  BY HelperMoves DEF RestoreInv, TypeOK, WorldTypeOK, HelperStep, shellVars
<1>2. \/ helpers' = helpers \ {h} /\ UNCHANGED <<wallet, content>>
      \/ /\ Busy(h)
         /\ \E at \in {"copying", "ok", "failed"} :
               helpers' = Moved(h, at) /\ (at = "ok" => HelperSucceeds(h))
  <2>1. CASE HelperWrites(h)
    BY <2>1 DEF HelperWrites, Busy
  <2>2. CASE HelperSucceeds(h)
    BY <2>2 DEF HelperSucceeds, Busy
  <2>3. CASE HelperRejects(h) \/ HelperFails(h)
    BY <2>3 DEF HelperRejects, HelperFails, Busy
  <2>4. CASE HelperLeaves(h)
    BY <2>4 DEF HelperLeaves
  <2> QED
    BY <2>1, <2>2, <2>3, <2>4 DEF HelperStep
<1>3. ASSUME NEW at \in {"copying", "ok", "failed"}
      PROVE  /\ [h EXCEPT !.at = at] \in HelperType
             /\ [h EXCEPT !.at = at].job = h.job /\ [h EXCEPT !.at = at].at = at
             /\ [h EXCEPT !.at = at].vol = h.vol /\ [h EXCEPT !.at = at].archive = h.archive
             /\ [h EXCEPT !.at = at].attached = h.attached
  BY <1>1 DEF HelperType
<1>4. ASSUME NEW g \in helpers'
      PROVE  \/ g \in helpers /\ g # h
             \/ /\ g \in HelperType /\ g.job = h.job /\ g.vol = h.vol /\ g.archive = h.archive
                /\ g.attached = h.attached /\ g.at \in {"copying", "ok", "failed"}
                /\ Busy(h) /\ g = [h EXCEPT !.at = g.at] /\ (g.at = "ok" => HelperSucceeds(h))
  BY <1>2, <1>3 DEF Moved
<1>5. helpers' \subseteq HelperType
  BY <1>1, <1>4 DEF WorldTypeOK
<1>6. \A g \in helpers : g.attached => pc \in Waits /\ pc \notin Noisy
  BY <1>1 DEF WorldTypeOK, HelpersInv, HelperType, Job, Waits, Noisy
<1>7. ASSUME NEW g \in helpers, g # h, g.attached PROVE UNCHANGED <<wallet, content>>
  BY <1>1, <1>2, <1>6, <1>7 DEF HelpersInv, Attached
<1>8. ASSUME NEW g \in helpers', g.attached, g.at = "ok"
      PROVE  /\ g.job = "replace" => wallet' = archive
             /\ g.job = "restore" => wallet' = content'[rv]
             /\ g.job = "snapshot" => content'[rv] = wallet'
  <2>1. CASE g \in helpers /\ g # h
    BY <1>1, <1>7, <1>8, <2>1 DEF HelpersInv
  <2>2. CASE g.attached = h.attached /\ g.job = h.job /\ Busy(h) /\ HelperSucceeds(h)
    <3>1. h.archive = archive /\ (h.job \in {"snapshot", "restore"} => h.vol = rv)
      BY <1>1, <1>8, <2>2 DEF HelpersInv
    <3>2. h.job = "snapshot" => h.vol \in Volumes
      BY <1>1, <2>2 DEF HelpersInv
    <3> QED
      BY <1>1, <2>2, <3>1, <3>2 DEF HelperSucceeds, Put, WorldTypeOK
  <2> QED
    BY <1>4, <1>8, <2>1, <2>2
<1>9. ASSUME NEW g \in helpers'
      PROVE  /\ g.attached => /\ g.job = Job(pc) /\ g.archive = archive
                              /\ g.job \in {"snapshot", "restore"} => g.vol = rv
             /\ Busy(g) =>
                  /\ ~service
                  /\ ~g.attached => pc \in Noisy /\ (pc \notin {"rb_stop", "rb_unused"} => ~was)
                  /\ g.job \in {"replace", "restore"} => WholeMarker
                  /\ g.job = "restore" => g.vol = marker.vol
                  /\ g.job = "snapshot" => marker = None /\ g.vol \in Volumes
             /\ g.job = "replace" => g.archive \in Archives
  BY <1>1, <1>4 DEF HelpersInv
<1>10. ASSUME NEW f \in helpers', NEW g \in helpers', f.attached, g.attached PROVE f = g
  BY <1>1, <1>2, <1>3, <1>4, <1>10 DEF HelpersInv, Attached, Moved
<1> QED
  BY <1>1, <1>5, <1>8, <1>9, <1>10 DEF HelpersInv, Attached, WholeMarker, Busy

\* The bounds.
LEMMA Counted ==
    ASSUME GhostTypeOK, Works \/ Fails \/ Misreads, UNCHANGED outerVars
    PROVE  GhostTypeOK'
  BY BoundAssumption DEF GhostTypeOK, Works, Fails, Misreads, errorVars, outerVars

\* A helper at work keeps the invariant.
LEMMA HelperKeeps ==
    ASSUME RestoreInv, NEW h \in helpers, HelperStep(h)
    PROVE  RestoreInv'
<1>1. /\ WorldTypeOK /\ ShellTypeOK /\ GhostTypeOK /\ MarkerInv /\ ShellInv /\ ServiceInv /\ WalletInv
      /\ HelperMove /\ helpers' \subseteq HelperType /\ HelpersInv'
      /\ UNCHANGED <<service, owned, marker, pc, op, archive, was, active, rv, caller, return, trapped,
                     exit, before, kills, signals>>
  BY HelperMoves, HelperEnds DEF RestoreInv, TypeOK, HelperMove, shellVars, outerVars
<1>2. WorldTypeOK'
  BY <1>1 DEF WorldTypeOK, HelperMove
<1>3. ShellTypeOK' /\ ShellInv'
  BY <1>1 DEF ShellTypeOK, ShellInv, Towards, Removing
<1>4. GhostTypeOK'
  BY <1>1, Counted DEF HelperMove
<1>5. Effective' = Effective
  BY <1>1 DEF HelperMove, MarkerInv, WholeMarker, Effective
<1>6. pc \notin Noisy \cup Waits => UNCHANGED <<wallet, content>>
  BY <1>1 DEF HelperMove
<1>7. MarkerInv'
  BY <1>1, <1>6
  DEF HelperMove, MarkerInv, WholeMarker, Before, Marked, Removing, Towards, Noisy, Waits
<1>8. ServiceInv'
  BY <1>1 DEF HelperMove, ServiceInv, Towards
<1>9. WalletInv'
  BY <1>1, <1>5, <1>6 DEF WalletInv, Towards, Removing, Noisy, Waits
<1> QED
  BY <1>1, <1>2, <1>3, <1>4, <1>7, <1>8, <1>9 DEF RestoreInv, TypeOK

---------------------------------------------------------------------------
(* The beginning and the end of an invocation.                             *)

\* Recovery would always leave a complete wallet.
LEMMA EffectiveIsWhole == ASSUME MarkerInv PROVE Effective \in Wallets
  BY DEF MarkerInv, WholeMarker, Effective

\* A new invocation notes what it has to preserve.
LEMMA BeginKeeps ==
    ASSUME RestoreInv, NEW o \in {"backup", "restore"}, NEW a, Begin(o, a),
           o = "restore" => a \in Archives, o = "backup" => a = None
    PROVE  RestoreInv'
<1>1. /\ WorldTypeOK /\ ShellTypeOK /\ GhostTypeOK /\ HelpersInv /\ MarkerInv /\ ShellInv
      /\ ServiceInv /\ WalletInv
      /\ UNCHANGED <<wallet, service, content, owned, marker, helpers, was, active, rv, caller, return,
                     faults, misreads, kills, signals>>
      /\ pc = "idle" /\ pc' = "pending" /\ op' = o /\ archive' = a /\ trapped' = TRUE /\ exit' = "none"
      /\ before' = [wallet |-> Effective,
                    service |-> IF marker = None THEN service ELSE marker.running]
  BY DEF RestoreInv, TypeOK, Begin, worldVars, errorVars
<1>2. /\ before'.wallet = Effective /\ Effective \in Wallets
      /\ before' \in [wallet : Wallets, service : BOOLEAN]
      /\ before'.service = IF marker = None THEN service ELSE marker.running
  BY <1>1, EffectiveIsWhole DEF WorldTypeOK
<1>3. Effective' = Effective
  BY <1>1 DEF Effective
<1>4. WorldTypeOK' /\ ShellTypeOK' /\ GhostTypeOK'
  BY <1>1, <1>2 DEF WorldTypeOK, ShellTypeOK, GhostTypeOK
<1>5. \A h \in helpers : ~h.attached
  BY <1>1 DEF HelpersInv, WorldTypeOK, HelperType, Job
<1>6. HelpersInv'
  BY <1>1, <1>5 DEF HelpersInv, Attached, Busy, WholeMarker, Noisy, ShellInv
<1>7. MarkerInv'
  BY <1>1 DEF MarkerInv, WholeMarker, Before, Marked, Removing, Towards
<1>8. ShellInv'
  BY <1>1, WalletAssumption DEF ShellInv, BackingUp, Restoring, Removing, RollingBack, Towards
<1>9. ServiceInv'
  BY <1>1, <1>2 DEF ServiceInv, Off, Towards, Removing
<1>10. WalletInv'
  BY <1>1, <1>2, <1>3 DEF WalletInv, Towards, Removing
<1> QED
  BY <1>4, <1>6, <1>7, <1>8, <1>9, <1>10 DEF RestoreInv, TypeOK

\* After the script's end only what is in the world matters.
LEMMA Ended ==
    ASSUME RestoreInv, pc' = "idle", op' = "none", archive' = None, was' = FALSE, active' = FALSE,
           UNCHANGED <<wallet, content, owned, marker>>, service' => wallet \in Wallets,
           \A h \in helpers' : ~h.attached /\ (Busy(h) => ~service'),
           \A h \in helpers' : \E g \in helpers : /\ h.job = g.job /\ h.archive = g.archive
                                                 /\ h.vol = g.vol /\ h.at = g.at
    PROVE  HelpersInv' /\ MarkerInv' /\ ShellInv' /\ ServiceInv' /\ WalletInv'
<1>1. HelpersInv /\ MarkerInv
  BY DEF RestoreInv
<1>2. \A h \in helpers' : /\ Busy(h) => /\ h.job \in {"replace", "restore"} => WholeMarker
                                        /\ h.job = "restore" => h.vol = marker.vol
                                        /\ h.job = "snapshot" => marker = None /\ h.vol \in Volumes
                          /\ h.job = "replace" => h.archive \in Archives
  BY <1>1 DEF HelpersInv, Busy
<1>3. HelpersInv'
  BY <1>2 DEF HelpersInv, Attached, Busy, WholeMarker, Noisy
<1>4. MarkerInv'
  BY <1>1 DEF MarkerInv, WholeMarker, Before, Marked, Removing, Towards
<1>5. ShellInv' /\ ServiceInv' /\ WalletInv'
  BY DEF ShellInv, ServiceInv, WalletInv, BackingUp, Restoring, Removing, RollingBack, Off, Towards
<1> QED
  BY <1>3, <1>4, <1>5

\* A helper the script waited for goes on by itself, or dies with the host.
LEMMA KillKeeps == ASSUME RestoreInv, Kill \/ PowerLoss PROVE RestoreInv'
<1>1. /\ WorldTypeOK /\ ShellTypeOK /\ GhostTypeOK /\ HelpersInv /\ MarkerInv /\ ShellInv
      /\ ServiceInv /\ WalletInv
  BY DEF RestoreInv, TypeOK
<1>2. /\ UNCHANGED <<wallet, content, owned, marker, faults, misreads, before, signals>>
      /\ kills' \in 0..MaxKills
      /\ \/ Exit("killed")
         \/ /\ pc = "idle"
            /\ UNCHANGED <<pc, op, archive, was, active, rv, caller, return, trapped, exit>>
  BY <1>1, BoundAssumption DEF Kill, PowerLoss, GhostTypeOK, worldVars, shellVars, errorVars
<1>3. ShellTypeOK' /\ GhostTypeOK'
  <2>1. ShellTypeOK'
    BY <1>1, <1>2 DEF ShellTypeOK, Exit
  <2>2. GhostTypeOK'
    BY <1>1, <1>2 DEF GhostTypeOK
  <2> QED
    BY <2>1, <2>2
<1>4. pc' = "idle" /\ op' = "none" /\ archive' = None /\ was' = FALSE /\ active' = FALSE
  BY <1>1, <1>2 DEF Exit, ShellInv, ShellTypeOK
<1>5. CASE Kill
  <2>1. helpers' = {[h EXCEPT !.attached = FALSE] : h \in helpers} /\ service' = service
    BY <1>5 DEF Kill, worldVars
  <2>2. ASSUME NEW g \in helpers
        PROVE  /\ [g EXCEPT !.attached = FALSE] \in HelperType
               /\ [g EXCEPT !.attached = FALSE].attached = FALSE
               /\ [g EXCEPT !.attached = FALSE].job = g.job /\ [g EXCEPT !.attached = FALSE].at = g.at
               /\ [g EXCEPT !.attached = FALSE].vol = g.vol
               /\ [g EXCEPT !.attached = FALSE].archive = g.archive
    BY <1>1 DEF WorldTypeOK, HelperType
  <2>3. ASSUME NEW h \in helpers'
        PROVE  /\ h \in HelperType /\ ~h.attached
               /\ \E g \in helpers : /\ h.job = g.job /\ h.archive = g.archive
                                     /\ h.vol = g.vol /\ h.at = g.at
    BY <2>1, <2>2
  <2>4. ASSUME NEW h \in helpers', Busy(h) PROVE ~service'
    BY <1>1, <2>1, <2>3, <2>4 DEF HelpersInv, Busy
  <2>5. HelpersInv' /\ MarkerInv' /\ ShellInv' /\ ServiceInv' /\ WalletInv'
    BY <1>1, <1>2, <1>4, <2>1, <2>3, <2>4, Ended DEF ServiceInv
  <2>6. WorldTypeOK'
    BY <1>1, <1>2, <2>1, <2>3 DEF WorldTypeOK
  <2> QED
    BY <1>3, <2>5, <2>6 DEF RestoreInv, TypeOK
<1>6. CASE PowerLoss
  <2>1. helpers' = {} /\ service' = FALSE
    BY <1>6 DEF PowerLoss
  <2>2. HelpersInv' /\ MarkerInv' /\ ShellInv' /\ ServiceInv' /\ WalletInv'
    BY <1>2, <1>4, <2>1, Ended
  <2>3. WorldTypeOK'
    BY <1>1, <1>2, <2>1 DEF WorldTypeOK
  <2> QED
    BY <1>3, <2>2, <2>3 DEF RestoreInv, TypeOK
<1> QED
  BY <1>5, <1>6

\* Electron Cash started or stopped by hand.
LEMMA UserKeeps == ASSUME RestoreInv, UserToggles PROVE RestoreInv'
<1>1. /\ WorldTypeOK /\ ShellTypeOK /\ GhostTypeOK /\ HelpersInv /\ MarkerInv /\ ShellInv
      /\ ServiceInv /\ WalletInv /\ pc = "idle" /\ marker = None /\ helpers = {} /\ service' = ~service
      /\ UNCHANGED <<wallet, content, owned, marker, helpers, pc, op, archive, was, active, rv, caller,
                     return, trapped, exit, faults, misreads, before, kills, signals>>
  BY DEF RestoreInv, TypeOK, UserToggles, shellVars, errorVars, outerVars
<1>2. WorldTypeOK' /\ ShellTypeOK' /\ GhostTypeOK'
  BY <1>1 DEF WorldTypeOK, ShellTypeOK, GhostTypeOK
<1>3. wallet \in Wallets
  BY <1>1 DEF MarkerInv, WholeMarker
<1>4. HelpersInv' /\ MarkerInv'
  BY <1>1 DEF HelpersInv, Attached, MarkerInv, WholeMarker, Before, Marked, Removing, Towards
<1>5. ShellInv' /\ ServiceInv' /\ WalletInv'
  BY <1>1, <1>3 DEF ShellInv, ServiceInv, WalletInv, BackingUp, Restoring, Removing, RollingBack,
     Off, Towards
<1> QED
  BY <1>2, <1>4, <1>5 DEF RestoreInv, TypeOK

---------------------------------------------------------------------------
(* The script's own steps.                                                 *)

\* Reading the marker, asking whether Electron Cash runs, the prompts.
LEMMA StartKeeps ==
    ASSUME RestoreInv, Undisturbed, Undisturbed', UNCHANGED outerVars,
           ReadPending \/ Probe \/ Confirm
    PROVE  RestoreInv'
<1> USE WalletAssumption, VolumeAssumption
<1> USE DEF worldVars, shellVars, errorVars, Works, Fails, Misreads, KeepWorld, Goto, Exit,
    ProbeService, Busy, InUse, Attached, HelperType, Noisy, Waits, Job, Before, Marked, Removing,
    BackingUp, Restoring, RollingBack, Off, Towards, WholeMarker, Effective, Broken
<1>1. /\ WorldTypeOK /\ ShellTypeOK /\ GhostTypeOK /\ HelpersInv /\ MarkerInv /\ ShellInv
      /\ ServiceInv /\ WalletInv /\ misreads = 0 /\ misreads' = 0 /\ UNCHANGED <<before, kills, signals>>
  BY DEF RestoreInv, TypeOK, Undisturbed, outerVars
<1>2. GhostTypeOK'
  <2>1. Works \/ Fails
    BY <1>1 DEF ReadPending, Probe, Confirm
  <2> QED
    BY <1>1, <2>1, Counted
<1>3. CASE ReadPending
  <2>1. WorldTypeOK'
    BY <1>1, <1>3 DEF ReadPending, WorldTypeOK
  <2>2. ShellTypeOK'
    <3>1. marker # None => marker.vol \in Volumes /\ marker.running \in BOOLEAN
      BY <1>1 DEF WorldTypeOK
    <3> QED
      BY <1>1, <3>1, <1>3 DEF ReadPending, ShellTypeOK, ShellInv
  <2>3. HelpersInv'
    BY <1>1, <1>3 DEF ReadPending, HelpersInv, WorldTypeOK
  <2>4. MarkerInv' /\ ShellInv'
    BY <1>1, <1>3 DEF ReadPending, MarkerInv, ShellInv
  <2>5. ServiceInv' /\ WalletInv'
    BY <1>1, <1>3 DEF ReadPending, ServiceInv, MarkerInv, ShellInv, WalletInv
  <2> QED
    BY <1>2, <2>1, <2>2, <2>3, <2>4, <2>5 DEF RestoreInv, TypeOK
<1>4. CASE Probe
  <2>1. WorldTypeOK' /\ ShellTypeOK'
    BY <1>1, <1>4 DEF Probe, WorldTypeOK, ShellTypeOK, MarkerInv, ShellInv
  <2>2. HelpersInv'
    BY <1>1, <1>4 DEF Probe, HelpersInv
  <2>3. MarkerInv' /\ ShellInv'
    BY <1>1, <1>4 DEF Probe, MarkerInv, ShellInv
  <2>4. ServiceInv' /\ WalletInv'
    BY <1>1, <1>4 DEF Probe, WorldTypeOK, ShellTypeOK, HelpersInv, MarkerInv, ShellInv, ServiceInv,
        WalletInv
  <2> QED
    BY <1>2, <2>1, <2>2, <2>3, <2>4 DEF RestoreInv, TypeOK
<1>5. CASE Confirm
  <2>1. WorldTypeOK'
    BY <1>1, <1>5 DEF Confirm, WorldTypeOK
  <2>2. ShellTypeOK'
    BY <1>1, <1>5 DEF Confirm, ShellTypeOK, MarkerInv, ShellInv
  <2>3. HelpersInv'
    BY <1>1, <1>5 DEF Confirm, HelpersInv, WorldTypeOK
  <2>4. MarkerInv' /\ ShellInv'
    BY <1>1, <1>5 DEF Confirm, MarkerInv, ShellInv
  <2>5. ServiceInv' /\ WalletInv'
    BY <1>1, <1>5 DEF Confirm, ServiceInv, WalletInv
  <2> QED
    BY <1>2, <2>1, <2>2, <2>3, <2>4, <2>5 DEF RestoreInv, TypeOK
<1> QED
  BY <1>3, <1>4, <1>5

\* A backup.
LEMMA BackupKeeps ==
    ASSUME RestoreInv, Undisturbed, Undisturbed', UNCHANGED outerVars,
           BackupStops \/ BackupNeedsVolume \/ BackupCreates \/ BackupCreated \/ BackupBails
             \/ BackupStarts
    PROVE  RestoreInv'
<1> USE WalletAssumption, VolumeAssumption
<1> USE DEF worldVars, shellVars, errorVars, Works, Fails, Misreads, KeepWorld, Goto, Exit, Await,
    StopService, EnsureVolumeUnused, StartService, Launch, Busy, InUse, Attached, HelperType, Noisy,
    Waits, Job, Before, Marked, Removing, BackingUp, Restoring, RollingBack, Off, Towards,
    WholeMarker, Effective, Broken
<1>1. /\ WorldTypeOK /\ ShellTypeOK /\ GhostTypeOK /\ HelpersInv /\ MarkerInv /\ ShellInv
      /\ ServiceInv /\ WalletInv /\ misreads = 0 /\ misreads' = 0 /\ UNCHANGED <<before, kills, signals>>
  BY DEF RestoreInv, TypeOK, Undisturbed, outerVars
<1>2. GhostTypeOK'
  <2>1. Works \/ Fails
    BY <1>1 DEF BackupStops, BackupNeedsVolume, BackupCreates, BackupCreated, BackupBails,
        BackupStarts
  <2> QED
    BY <1>1, <2>1, Counted
<1>3. CASE BackupStops
  <2>1. WorldTypeOK'
    BY <1>1, <1>3 DEF BackupStops, WorldTypeOK
  <2>2. ShellTypeOK'
    BY <1>1, <1>3 DEF BackupStops, ShellTypeOK, MarkerInv, ShellInv
  <2>3. HelpersInv'
    BY <1>1, <1>3 DEF BackupStops, HelpersInv, WorldTypeOK
  <2>4. MarkerInv' /\ ShellInv'
    BY <1>1, <1>3 DEF BackupStops, MarkerInv, ShellInv
  <2>5. ServiceInv' /\ WalletInv'
    BY <1>1, <1>3 DEF BackupStops, ServiceInv, WalletInv
  <2> QED
    BY <1>2, <2>1, <2>2, <2>3, <2>4, <2>5 DEF RestoreInv, TypeOK
<1>4. CASE BackupNeedsVolume
  <2>1. WorldTypeOK' /\ ShellTypeOK'
    BY <1>1, <1>4 DEF BackupNeedsVolume, WorldTypeOK, ShellTypeOK
  <2>2. HelpersInv'
    BY <1>1, <1>4 DEF BackupNeedsVolume, HelpersInv, WorldTypeOK
  <2>3. MarkerInv' /\ ShellInv'
    BY <1>1, <1>4 DEF BackupNeedsVolume, MarkerInv, ShellInv
  <2>4. ServiceInv' /\ WalletInv'
    BY <1>1, <1>4 DEF BackupNeedsVolume, WorldTypeOK, ShellTypeOK, HelpersInv, MarkerInv, ShellInv,
        ServiceInv, WalletInv
  <2> QED
    BY <1>2, <2>1, <2>2, <2>3, <2>4 DEF RestoreInv, TypeOK
<1>5. CASE BackupCreates
  <2>1. WorldTypeOK' /\ HelpersInv'
    <3>1. /\ pc \notin Noisy /\ pc \notin Waits /\ ~service /\ "create" = Job(pc')
          /\ None \in {None, rv} /\ UNCHANGED <<archive, rv, was>>
      BY <1>1, <1>5 DEF BackupCreates, ServiceInv
    <3>2. Launch("create", None)
      BY <1>5 DEF BackupCreates
    <3> HIDE DEF Launch, Noisy, Waits, Job, WholeMarker
    <3> QED
      BY <1>1, <3>1, <3>2, Launches
  <2>2. ShellTypeOK'
    BY <1>1, <1>5 DEF BackupCreates, ShellTypeOK
  <2>3. MarkerInv' /\ ShellInv'
    BY <1>1, <1>5 DEF BackupCreates, MarkerInv, ShellInv
  <2>4. ServiceInv' /\ WalletInv'
    BY <1>1, <1>5 DEF BackupCreates, ServiceInv, WalletInv
  <2> QED
    BY <1>2, <2>1, <2>2, <2>3, <2>4 DEF RestoreInv, TypeOK
<1>6. CASE BackupCreated
  <2>1. WorldTypeOK' /\ ShellTypeOK'
    BY <1>1, <1>6 DEF BackupCreated, WorldTypeOK, ShellTypeOK
  <2>2. HelpersInv'
    BY <1>1, <1>6 DEF BackupCreated, HelpersInv
  <2>3. MarkerInv' /\ ShellInv'
    BY <1>1, <1>6 DEF BackupCreated, MarkerInv, ShellInv
  <2>4. ServiceInv' /\ WalletInv'
    BY <1>1, <1>6 DEF BackupCreated, ServiceInv, WalletInv
  <2> QED
    BY <1>2, <2>1, <2>2, <2>3, <2>4 DEF RestoreInv, TypeOK
<1>7. CASE BackupBails
  <2>1. WorldTypeOK' /\ ShellTypeOK'
    BY <1>1, <1>7 DEF BackupBails, WorldTypeOK, ShellTypeOK
  <2>2. HelpersInv'
    BY <1>1, <1>7 DEF BackupBails, HelpersInv, WorldTypeOK
  <2>3. MarkerInv' /\ ShellInv'
    BY <1>1, <1>7 DEF BackupBails, MarkerInv, ShellInv
  <2>4. ServiceInv' /\ WalletInv'
    BY <1>1, <1>7 DEF BackupBails, ServiceInv, MarkerInv, ShellInv, WalletInv
  <2> QED
    BY <1>2, <2>1, <2>2, <2>3, <2>4 DEF RestoreInv, TypeOK
<1>8. CASE BackupStarts
  <2>1. WorldTypeOK' /\ ShellTypeOK'
    BY <1>1, <1>8 DEF BackupStarts, WorldTypeOK, ShellTypeOK
  <2>2. HelpersInv'
    BY <1>1, <1>8 DEF BackupStarts, HelpersInv, WorldTypeOK
  <2>3. MarkerInv' /\ ShellInv'
    BY <1>1, <1>8 DEF BackupStarts, MarkerInv, ShellInv
  <2>4. ServiceInv' /\ WalletInv'
    BY <1>1, <1>8 DEF BackupStarts, ServiceInv, MarkerInv, ShellInv, WalletInv
  <2> QED
    BY <1>2, <2>1, <2>2, <2>3, <2>4 DEF RestoreInv, TypeOK
<1> QED
  BY <1>3, <1>4, <1>5, <1>6, <1>7, <1>8

\* A restore, up to the marker or giving up.
LEMMA PrepareKeeps ==
    ASSUME RestoreInv, Undisturbed, Undisturbed', UNCHANGED outerVars,
           RestoreBegins \/ RestoreStops \/ RestoreNeedsVolume \/ CreateVolume \/ ValidateVolume
             \/ Snapshot \/ Snapped \/ WritePending \/ Abandon
    PROVE  RestoreInv'
<1> USE WalletAssumption, VolumeAssumption
<1> USE DEF worldVars, shellVars, errorVars, Works, Fails, Misreads, KeepWorld, Goto, Exit, Await,
    StopService, EnsureVolumeUnused, StartService, RestorePriorState, CallRemove, ProbeService,
    Launch, Busy, InUse, Attached, HelperType, Noisy, Waits, Job, Before, Marked, Removing,
    BackingUp, Restoring, RollingBack, Off, Towards, WholeMarker, Effective, Broken
<1>1. /\ WorldTypeOK /\ ShellTypeOK /\ GhostTypeOK /\ HelpersInv /\ MarkerInv /\ ShellInv
      /\ ServiceInv /\ WalletInv /\ misreads = 0 /\ misreads' = 0 /\ UNCHANGED <<before, kills, signals>>
  BY DEF RestoreInv, TypeOK, Undisturbed, outerVars
<1>2. GhostTypeOK'
  <2>1. Works \/ Fails
    BY <1>1 DEF RestoreBegins, RestoreStops, RestoreNeedsVolume, CreateVolume, ValidateVolume,
        Snapshot, Snapped, WritePending, Abandon
  <2> QED
    BY <1>1, <2>1, Counted
<1>3. CASE RestoreBegins
  <2>1. WorldTypeOK' /\ ShellTypeOK'
    BY <1>1, <1>3 DEF RestoreBegins, WorldTypeOK, ShellTypeOK
  <2>2. HelpersInv'
    BY <1>1, <1>3 DEF RestoreBegins, HelpersInv
  <2>3. MarkerInv' /\ ShellInv'
    BY <1>1, <1>3 DEF RestoreBegins, MarkerInv, ShellInv
  <2>4. ServiceInv' /\ WalletInv'
    BY <1>1, <1>3 DEF RestoreBegins, WorldTypeOK, ShellTypeOK, HelpersInv, MarkerInv, ShellInv,
        ServiceInv, WalletInv
  <2> QED
    BY <1>2, <2>1, <2>2, <2>3, <2>4 DEF RestoreInv, TypeOK
<1>4. CASE RestoreStops
  <2>1. WorldTypeOK' /\ ShellTypeOK'
    BY <1>1, <1>4 DEF RestoreStops, WorldTypeOK, ShellTypeOK, MarkerInv, ShellInv
  <2>2. HelpersInv'
    BY <1>1, <1>4 DEF RestoreStops, HelpersInv, WorldTypeOK
  <2>3. MarkerInv' /\ ShellInv'
    BY <1>1, <1>4 DEF RestoreStops, MarkerInv, ShellInv
  <2>4. ServiceInv' /\ WalletInv'
    BY <1>1, <1>4 DEF RestoreStops, WorldTypeOK, ShellTypeOK, HelpersInv, MarkerInv, ShellInv,
        ServiceInv, WalletInv
  <2> QED
    BY <1>2, <2>1, <2>2, <2>3, <2>4 DEF RestoreInv, TypeOK
<1>5. CASE RestoreNeedsVolume
  <2>1. WorldTypeOK'
    BY <1>1, <1>5 DEF RestoreNeedsVolume, WorldTypeOK
  <2>2. ShellTypeOK'
    BY <1>1, <1>5 DEF RestoreNeedsVolume, ShellTypeOK, MarkerInv, ShellInv
  <2>3. HelpersInv'
    BY <1>1, <1>5 DEF RestoreNeedsVolume, HelpersInv, WorldTypeOK
  <2>4. MarkerInv' /\ ShellInv'
    BY <1>1, <1>5 DEF RestoreNeedsVolume, MarkerInv, ShellInv
  <2>5. ServiceInv' /\ WalletInv'
    BY <1>1, <1>5 DEF RestoreNeedsVolume, ServiceInv, WalletInv
  <2> QED
    BY <1>2, <2>1, <2>2, <2>3, <2>4, <2>5 DEF RestoreInv, TypeOK
<1>6. CASE CreateVolume
  <2>1. WorldTypeOK'
    BY <1>1, <1>6 DEF CreateVolume, WorldTypeOK
  <2>2. ShellTypeOK'
    BY <1>1, <1>6 DEF CreateVolume, ShellTypeOK, MarkerInv, ShellInv
  <2>3. HelpersInv'
    BY <1>1, <1>6 DEF CreateVolume, HelpersInv, WorldTypeOK
  <2>4. MarkerInv' /\ ShellInv'
    BY <1>1, <1>6 DEF CreateVolume, MarkerInv, ShellInv
  <2>5. ServiceInv' /\ WalletInv'
    BY <1>1, <1>6 DEF CreateVolume, ServiceInv, WalletInv, MarkerInv, ShellInv
  <2> QED
    BY <1>2, <2>1, <2>2, <2>3, <2>4, <2>5 DEF RestoreInv, TypeOK
<1>7. CASE ValidateVolume
  <2>1. WorldTypeOK' /\ ShellTypeOK'
    BY <1>1, <1>7 DEF ValidateVolume, WorldTypeOK, ShellTypeOK, MarkerInv, ShellInv
  <2>2. HelpersInv'
    BY <1>1, <1>7 DEF ValidateVolume, HelpersInv, WorldTypeOK
  <2>3. MarkerInv' /\ ShellInv'
    BY <1>1, <1>7 DEF ValidateVolume, MarkerInv, ShellInv
  <2>4. ServiceInv' /\ WalletInv'
    BY <1>1, <1>7 DEF ValidateVolume, ServiceInv, WalletInv
  <2> QED
    BY <1>2, <2>1, <2>2, <2>3, <2>4 DEF RestoreInv, TypeOK
<1>8. CASE Snapshot
  <2>1. WorldTypeOK' /\ HelpersInv'
    <3>1. /\ pc \notin Noisy /\ pc \notin Waits /\ ~service /\ "snapshot" = Job(pc')
          /\ rv \in {None, rv} /\ UNCHANGED <<archive, rv, was>>
          /\ rv \in owned /\ rv # None
          /\ marker = None
      BY <1>1, <1>8 DEF Snapshot, ServiceInv, MarkerInv, WorldTypeOK
    <3>2. Launch("snapshot", rv)
      BY <1>8 DEF Snapshot
    <3> HIDE DEF Launch, Noisy, Waits, Job, WholeMarker
    <3> QED
      BY <1>1, <3>1, <3>2, Launches
  <2>2. ShellTypeOK'
    BY <1>1, <1>8 DEF Snapshot, ShellTypeOK
  <2>3. MarkerInv' /\ ShellInv'
    BY <1>1, <1>8 DEF Snapshot, MarkerInv, ShellInv
  <2>4. ServiceInv' /\ WalletInv'
    BY <1>1, <1>8 DEF Snapshot, ServiceInv, WalletInv, MarkerInv, ShellInv
  <2> QED
    BY <1>2, <2>1, <2>2, <2>3, <2>4 DEF RestoreInv, TypeOK
<1>9. CASE Snapped
  <2>1. WorldTypeOK' /\ ShellTypeOK'
    BY <1>1, <1>9 DEF Snapped, WorldTypeOK, ShellTypeOK
  <2>2. HelpersInv'
    BY <1>1, <1>9 DEF Snapped, HelpersInv
  <2>3. MarkerInv' /\ ShellInv'
    BY <1>1, <1>9 DEF Snapped, WorldTypeOK, ShellTypeOK, HelpersInv, MarkerInv, ShellInv,
        ServiceInv, WalletInv
  <2>4. ServiceInv' /\ WalletInv'
    BY <1>1, <1>9 DEF Snapped, ServiceInv, WalletInv
  <2> QED
    BY <1>2, <2>1, <2>2, <2>3, <2>4 DEF RestoreInv, TypeOK
<1>10. CASE WritePending
  <2>1. WorldTypeOK' /\ ShellTypeOK'
    BY <1>1, <1>10 DEF WritePending, WorldTypeOK, ShellTypeOK, HelpersInv, MarkerInv, ShellInv,
        ServiceInv, WalletInv
  <2>2. HelpersInv'
    BY <1>1, <1>10 DEF WritePending, HelpersInv
  <2>3. MarkerInv'
    <3>1. CASE pc' = "r_replace"
      <4>1. /\ marker' = [vol |-> rv, running |-> was] /\ UNCHANGED <<wallet, content, owned, rv>>
            /\ rv \in owned /\ content[rv] = wallet /\ wallet \in Wallets
        BY <1>1, <3>1, <1>10 DEF WritePending, MarkerInv
      <4>2. marker' # None /\ marker'.vol = rv
        BY <1>1, <4>1 DEF WorldTypeOK, ShellTypeOK
      <4> QED
        BY <3>1, <4>1, <4>2 DEF MarkerInv
    <3>2. CASE pc' # "r_replace"
      BY <1>1, <3>2, <1>10 DEF WritePending, MarkerInv, ShellInv, ServiceInv, WorldTypeOK
    <3> QED
      BY <3>1, <3>2
  <2>4. ShellInv'
    BY <1>1, <1>10 DEF WritePending, ShellInv
  <2>5. ServiceInv' /\ WalletInv'
    BY <1>1, <1>10 DEF WritePending, ServiceInv, WalletInv, MarkerInv, ShellInv
  <2> QED
    BY <1>2, <2>1, <2>2, <2>3, <2>4, <2>5 DEF RestoreInv, TypeOK
<1>11. CASE Abandon
  <2>1. WorldTypeOK' /\ ShellTypeOK'
    BY <1>1, <1>11 DEF Abandon, WorldTypeOK, ShellTypeOK
  <2>2. HelpersInv'
    BY <1>1, <1>11 DEF Abandon, HelpersInv, WorldTypeOK
  <2>3. MarkerInv' /\ ShellInv'
    BY <1>1, <1>11 DEF Abandon, MarkerInv, ShellInv
  <2>4. ServiceInv' /\ WalletInv'
    BY <1>1, <1>11 DEF Abandon, ServiceInv, MarkerInv, ShellInv, WalletInv
  <2> QED
    BY <1>2, <2>1, <2>2, <2>3, <2>4 DEF RestoreInv, TypeOK
<1> QED
  BY <1>3, <1>4, <1>5, <1>6, <1>7, <1>8, <1>9, <1>10, <1>11

\* A restore, once the marker is written.
LEMMA ReplaceKeeps ==
    ASSUME RestoreInv, Undisturbed, Undisturbed', UNCHANGED outerVars,
           Replace \/ Replaced \/ RestoreStarts \/ RestoreUnmarks \/ RestoreDone
    PROVE  RestoreInv'
<1> USE WalletAssumption, VolumeAssumption
<1> USE DEF worldVars, shellVars, errorVars, Works, Fails, Misreads, KeepWorld, Goto, Exit, Await,
    StopService, StartService, RestorePriorState, CallRollback, CallRemove, Unmark, Launch, Busy,
    InUse, Attached, HelperType, Noisy, Waits, Job, Before, Marked, Removing, BackingUp, Restoring,
    RollingBack, Off, Towards, WholeMarker, Effective, Broken
<1>1. /\ WorldTypeOK /\ ShellTypeOK /\ GhostTypeOK /\ HelpersInv /\ MarkerInv /\ ShellInv
      /\ ServiceInv /\ WalletInv /\ misreads = 0 /\ misreads' = 0 /\ UNCHANGED <<before, kills, signals>>
  BY DEF RestoreInv, TypeOK, Undisturbed, outerVars
<1>2. GhostTypeOK'
  <2>1. Works \/ Fails
    BY <1>1 DEF Replace, Replaced, RestoreStarts, RestoreUnmarks, RestoreDone
  <2> QED
    BY <1>1, <2>1, Counted
<1>3. CASE Replace
  <2>1. WorldTypeOK' /\ HelpersInv'
    <3>1. /\ pc \notin Noisy /\ pc \notin Waits /\ ~service /\ "replace" = Job(pc')
          /\ None \in {None, rv} /\ UNCHANGED <<archive, rv, was>>
          /\ WholeMarker /\ archive \in Archives
      BY <1>1, <1>3 DEF Replace, ServiceInv, MarkerInv, ShellInv
    <3>2. Launch("replace", None)
      BY <1>3 DEF Replace
    <3> HIDE DEF Launch, Noisy, Waits, Job, WholeMarker
    <3> QED
      BY <1>1, <3>1, <3>2, Launches
  <2>2. ShellTypeOK'
    BY <1>1, <1>3 DEF Replace, ShellTypeOK
  <2>3. MarkerInv' /\ ShellInv'
    BY <1>1, <1>3 DEF Replace, MarkerInv, ShellInv
  <2>4. ServiceInv' /\ WalletInv'
    BY <1>1, <1>3 DEF Replace, ServiceInv, WalletInv
  <2> QED
    BY <1>2, <2>1, <2>2, <2>3, <2>4 DEF RestoreInv, TypeOK
<1>4. CASE Replaced
  <2>1. WorldTypeOK' /\ ShellTypeOK'
    BY <1>1, <1>4 DEF Replaced, WorldTypeOK, ShellTypeOK
  <2>2. HelpersInv'
    BY <1>1, <1>4 DEF Replaced, HelpersInv
  <2>3. MarkerInv' /\ ShellInv'
    BY <1>1, <1>4 DEF Replaced, MarkerInv, ShellInv
  <2>4. ServiceInv' /\ WalletInv'
    BY <1>1, <1>4 DEF Replaced, ServiceInv, WalletInv, HelpersInv, MarkerInv, ShellInv
  <2> QED
    BY <1>2, <2>1, <2>2, <2>3, <2>4 DEF RestoreInv, TypeOK
<1>5. CASE RestoreStarts
  <2>1. WorldTypeOK'
    BY <1>1, <1>5 DEF RestoreStarts, WorldTypeOK
  <2>2. ShellTypeOK'
    BY <1>1, <1>5 DEF RestoreStarts, ShellTypeOK
  <2>3. HelpersInv'
    BY <1>1, <1>5 DEF RestoreStarts, HelpersInv, WorldTypeOK
  <2>4. MarkerInv' /\ ShellInv'
    BY <1>1, <1>5 DEF RestoreStarts, WorldTypeOK, ShellTypeOK, HelpersInv, MarkerInv, ShellInv,
        ServiceInv, WalletInv
  <2>5. ServiceInv'
    <3>1. /\ was = before.service /\ (marker # None => marker.running = before.service)
          /\ wallet \in Wallets /\ was \in BOOLEAN
      <4>1. was = before.service /\ (marker # None => marker.running = before.service)
        BY <1>1, <1>5 DEF RestoreStarts, ServiceInv
      <4>2. wallet \in Wallets
        BY <1>1, <1>5 DEF RestoreStarts, WalletInv, ShellInv
      <4> QED
        BY <1>1, <4>1, <4>2 DEF ShellTypeOK
    <3>2. UNCHANGED <<wallet, marker, before>> /\ (pc' # "idle" => UNCHANGED was)
      BY <1>1, <1>5 DEF RestoreStarts
    <3>3. \/ pc' = "rm_validate" /\ return' = "r_unmark" /\ service' = was
          \/ pc' = "rb_stop"
      <4>1. CASE was = TRUE
        BY <1>1, <3>1, <4>1, <1>5 DEF RestoreStarts
      <4>2. CASE was = FALSE
        <5>1. StopService(CallRemove("r_unmark"), CallRollback("main"))
          BY <4>2, <1>5 DEF RestoreStarts
        <5>2. \/ pc' = "rm_validate" /\ return' = "r_unmark" /\ service' = FALSE
              \/ pc' = "rb_stop"
          BY <1>1, <5>1
        <5> QED
          BY <4>2, <5>2, Zenon
      <4> QED
        BY <3>1, <4>1, <4>2
    <3> QED
      BY <3>1, <3>2, <3>3 DEF ServiceInv
  <2>6. WalletInv'
    BY <1>1, <1>5 DEF RestoreStarts, WalletInv
  <2> QED
    BY <1>2, <2>1, <2>2, <2>3, <2>4, <2>5, <2>6 DEF RestoreInv, TypeOK
<1>6. CASE RestoreUnmarks
  <2>1. WorldTypeOK' /\ ShellTypeOK'
    BY <1>1, <1>6 DEF RestoreUnmarks, WorldTypeOK, ShellTypeOK
  <2>2. HelpersInv'
    BY <1>1, <1>6 DEF RestoreUnmarks, HelpersInv
  <2>3. MarkerInv' /\ ShellInv'
    BY <1>1, <1>6 DEF RestoreUnmarks, MarkerInv, HelpersInv, ShellInv, ServiceInv, WalletInv
  <2>4. ServiceInv' /\ WalletInv'
    BY <1>1, <1>6 DEF RestoreUnmarks, ServiceInv, WalletInv
  <2> QED
    BY <1>2, <2>1, <2>2, <2>3, <2>4 DEF RestoreInv, TypeOK
<1>7. CASE RestoreDone
  <2>1. WorldTypeOK' /\ ShellTypeOK'
    BY <1>1, <1>7 DEF RestoreDone, WorldTypeOK, ShellTypeOK
  <2>2. HelpersInv'
    BY <1>1, <1>7 DEF RestoreDone, HelpersInv, WorldTypeOK
  <2>3. MarkerInv' /\ ShellInv'
    BY <1>1, <1>7 DEF RestoreDone, MarkerInv, ShellInv
  <2>4. ServiceInv' /\ WalletInv'
    BY <1>1, <1>7 DEF RestoreDone, ServiceInv, WalletInv
  <2> QED
    BY <1>2, <2>1, <2>2, <2>3, <2>4 DEF RestoreInv, TypeOK
<1> QED
  BY <1>3, <1>4, <1>5, <1>6, <1>7

\* rollback_restore.
LEMMA RollbackKeeps ==
    ASSUME RestoreInv, Undisturbed, Undisturbed', UNCHANGED outerVars,
           RollbackStops \/ RollbackNeedsVolume \/ RollbackCopies \/ RollbackCopied
             \/ RollbackStarts \/ RollbackUnmarks
    PROVE  RestoreInv'
<1> USE WalletAssumption, VolumeAssumption
<1> USE DEF worldVars, shellVars, errorVars, Works, Fails, Misreads, KeepWorld, Goto, Exit, Await,
    StopService, EnsureVolumeUnused, StartService, RestorePriorState, CallRemove, Unmark,
    RollbackFails, Launch, Busy, InUse, Attached, HelperType, Noisy, Waits, Job, Before, Marked,
    Removing, BackingUp, Restoring, RollingBack, Off, Towards, WholeMarker, Effective, Broken
<1>1. /\ WorldTypeOK /\ ShellTypeOK /\ GhostTypeOK /\ HelpersInv /\ MarkerInv /\ ShellInv
      /\ ServiceInv /\ WalletInv /\ misreads = 0 /\ misreads' = 0 /\ UNCHANGED <<before, kills, signals>>
  BY DEF RestoreInv, TypeOK, Undisturbed, outerVars
<1>2. GhostTypeOK'
  <2>1. Works \/ Fails
    BY <1>1 DEF RollbackStops, RollbackNeedsVolume, RollbackCopies, RollbackCopied, RollbackStarts,
        RollbackUnmarks
  <2> QED
    BY <1>1, <2>1, Counted
<1>3. CASE RollbackStops
  <2>1. WorldTypeOK'
    BY <1>1, <1>3 DEF RollbackStops, WorldTypeOK
  <2>2. ShellTypeOK'
    BY <1>1, <1>3 DEF RollbackStops, ShellTypeOK, MarkerInv, ShellInv
  <2>3. HelpersInv'
    BY <1>1, <1>3 DEF RollbackStops, HelpersInv, WorldTypeOK
  <2>4. MarkerInv' /\ ShellInv'
    BY <1>1, <1>3 DEF RollbackStops, MarkerInv, ShellInv
  <2>5. ServiceInv' /\ WalletInv'
    BY <1>1, <1>3 DEF RollbackStops, WorldTypeOK, ShellTypeOK, HelpersInv, MarkerInv, ShellInv,
        ServiceInv, WalletInv
  <2> QED
    BY <1>2, <2>1, <2>2, <2>3, <2>4, <2>5 DEF RestoreInv, TypeOK
<1>4. CASE RollbackNeedsVolume
  <2>1. WorldTypeOK'
    BY <1>1, <1>4 DEF RollbackNeedsVolume, WorldTypeOK
  <2>2. ShellTypeOK'
    BY <1>1, <1>4 DEF RollbackNeedsVolume, ShellTypeOK, MarkerInv, ShellInv
  <2>3. HelpersInv'
    BY <1>1, <1>4 DEF RollbackNeedsVolume, HelpersInv, WorldTypeOK
  <2>4. MarkerInv' /\ ShellInv'
    BY <1>1, <1>4 DEF RollbackNeedsVolume, MarkerInv, ShellInv
  <2>5. ServiceInv' /\ WalletInv'
    BY <1>1, <1>4 DEF RollbackNeedsVolume, ServiceInv, WalletInv
  <2> QED
    BY <1>2, <2>1, <2>2, <2>3, <2>4, <2>5 DEF RestoreInv, TypeOK
<1>5. CASE RollbackCopies
  <2>1. WorldTypeOK' /\ HelpersInv'
    <3>1. /\ pc \notin Noisy /\ pc \notin Waits /\ ~service /\ "restore" = Job(pc')
          /\ rv \in {None, rv} /\ UNCHANGED <<archive, rv, was>>
          /\ rv \in owned /\ rv # None
          /\ WholeMarker /\ rv = marker.vol
      BY <1>1, <1>5 DEF RollbackCopies, ServiceInv, MarkerInv, WorldTypeOK
    <3>2. Launch("restore", rv)
      BY <1>5 DEF RollbackCopies
    <3> HIDE DEF Launch, Noisy, Waits, Job, WholeMarker
    <3> QED
      BY <1>1, <3>1, <3>2, Launches
  <2>2. ShellTypeOK'
    BY <1>1, <1>5 DEF RollbackCopies, ShellTypeOK
  <2>3. MarkerInv' /\ ShellInv'
    BY <1>1, <1>5 DEF RollbackCopies, WorldTypeOK, ShellTypeOK, HelpersInv, MarkerInv, ShellInv,
        ServiceInv, WalletInv
  <2>4. ServiceInv' /\ WalletInv'
    BY <1>1, <1>5 DEF RollbackCopies, ServiceInv, WorldTypeOK, ShellTypeOK, HelpersInv, MarkerInv,
        ShellInv, WalletInv
  <2> QED
    BY <1>2, <2>1, <2>2, <2>3, <2>4 DEF RestoreInv, TypeOK
<1>6. CASE RollbackCopied
  <2>1. WorldTypeOK'
    BY <1>1, <1>6 DEF RollbackCopied, WorldTypeOK
  <2>2. ShellTypeOK'
    BY <1>1, <1>6 DEF RollbackCopied, ShellTypeOK, MarkerInv, ShellInv
  <2>3. HelpersInv'
    BY <1>1, <1>6 DEF RollbackCopied, HelpersInv
  <2>4. MarkerInv' /\ ShellInv'
    BY <1>1, <1>6 DEF RollbackCopied, MarkerInv, ShellInv
  <2>5. ServiceInv' /\ WalletInv'
    BY <1>1, <1>6 DEF RollbackCopied, ServiceInv, WalletInv, HelpersInv, MarkerInv, ShellInv
  <2> QED
    BY <1>2, <2>1, <2>2, <2>3, <2>4, <2>5 DEF RestoreInv, TypeOK
<1>7. CASE RollbackStarts
  <2>1. WorldTypeOK'
    BY <1>1, <1>7 DEF RollbackStarts, WorldTypeOK
  <2>2. ShellTypeOK'
    BY <1>1, <1>7 DEF RollbackStarts, ShellTypeOK
  <2>3. HelpersInv'
    BY <1>1, <1>7 DEF RollbackStarts, HelpersInv, WorldTypeOK
  <2>4. MarkerInv' /\ ShellInv'
    BY <1>1, <1>7 DEF RollbackStarts, WorldTypeOK, ShellTypeOK, HelpersInv, MarkerInv, ShellInv,
        ServiceInv, WalletInv
  <2>5. ServiceInv'
    <3>1. /\ was = before.service /\ (marker # None => marker.running = before.service)
          /\ wallet \in Wallets /\ was \in BOOLEAN
      <4>1. was = before.service /\ (marker # None => marker.running = before.service)
        BY <1>1, <1>7 DEF RollbackStarts, ServiceInv
      <4>2. wallet \in Wallets
        BY <1>1, <1>7 DEF RollbackStarts, WalletInv, ShellInv
      <4> QED
        BY <1>1, <4>1, <4>2 DEF ShellTypeOK
    <3>2. UNCHANGED <<wallet, marker, before>> /\ (pc' # "idle" => UNCHANGED was)
      BY <1>1, <1>7 DEF RollbackStarts
    <3>3. \/ pc' = "rm_validate" /\ return' = "rb_unmark" /\ service' = was
          \/ pc' = "idle"
      <4>1. CASE was = TRUE
        BY <1>1, <3>1, <4>1, <1>7 DEF RollbackStarts
      <4>2. CASE was = FALSE
        <5>1. StopService(CallRemove("rb_unmark"), RollbackFails)
          BY <4>2, <1>7 DEF RollbackStarts
        <5>2. \/ pc' = "rm_validate" /\ return' = "rb_unmark" /\ service' = FALSE
              \/ pc' = "idle"
          BY <1>1, <5>1
        <5> QED
          BY <4>2, <5>2, Zenon
      <4> QED
        BY <3>1, <4>1, <4>2
    <3> QED
      BY <3>1, <3>2, <3>3 DEF ServiceInv
  <2>6. WalletInv'
    BY <1>1, <1>7 DEF RollbackStarts, WalletInv
  <2> QED
    BY <1>2, <2>1, <2>2, <2>3, <2>4, <2>5, <2>6 DEF RestoreInv, TypeOK
<1>8. CASE RollbackUnmarks
  <2>1. WorldTypeOK'
    BY <1>1, <1>8 DEF RollbackUnmarks, WorldTypeOK
  <2>2. ShellTypeOK'
    BY <1>1, <1>8 DEF RollbackUnmarks, ShellTypeOK
  <2>3. HelpersInv'
    BY <1>1, <1>8 DEF RollbackUnmarks, HelpersInv, WorldTypeOK
  <2>4. MarkerInv' /\ ShellInv'
    BY <1>1, <1>8 DEF RollbackUnmarks, MarkerInv, HelpersInv, ShellInv, ServiceInv, WalletInv
  <2>5. ServiceInv' /\ WalletInv'
    BY <1>1, <1>8 DEF RollbackUnmarks, ServiceInv, WalletInv
  <2> QED
    BY <1>2, <2>1, <2>2, <2>3, <2>4, <2>5 DEF RestoreInv, TypeOK
<1> QED
  BY <1>3, <1>4, <1>5, <1>6, <1>7, <1>8

\* remove_rollback_volume.
LEMMA RemoveKeeps ==
    ASSUME RestoreInv, Undisturbed, Undisturbed', UNCHANGED outerVars,
           RemoveValidates \/ RemoveVolume \/ RemoveClears
    PROVE  RestoreInv'
<1> USE WalletAssumption, VolumeAssumption
<1> USE DEF worldVars, shellVars, errorVars, Works, Fails, KeepWorld, Goto, Exit, Busy, InUse,
    Attached, HelperType, Noisy, Waits, Job, Before, Marked, Removing, BackingUp, Restoring,
    RollingBack, Off, Towards, WholeMarker, Effective, Broken
<1>1. /\ WorldTypeOK /\ ShellTypeOK /\ GhostTypeOK /\ HelpersInv /\ MarkerInv /\ ShellInv
      /\ ServiceInv /\ WalletInv /\ misreads = 0 /\ misreads' = 0 /\ UNCHANGED <<before, kills, signals>>
  BY DEF RestoreInv, TypeOK, Undisturbed, outerVars
<1>2. GhostTypeOK'
  <2>1. Works \/ Fails
    BY <1>1 DEF RemoveValidates, RemoveVolume, RemoveClears
  <2> QED
    BY <1>1, <2>1, Counted
<1>3. CASE RemoveValidates
  <2>1. WorldTypeOK'
    BY <1>1, <1>3 DEF RemoveValidates, WorldTypeOK
  <2>2. ShellTypeOK'
    BY <1>1, <1>3 DEF RemoveValidates, ShellTypeOK, MarkerInv, ShellInv
  <2>3. HelpersInv'
    BY <1>1, <1>3 DEF RemoveValidates, HelpersInv, WorldTypeOK
  <2>4. MarkerInv' /\ ShellInv'
    BY <1>1, <1>3 DEF RemoveValidates, MarkerInv, ShellInv
  <2>5. ServiceInv' /\ WalletInv'
    BY <1>1, <1>3 DEF RemoveValidates, ServiceInv, MarkerInv, ShellInv, WalletInv
  <2> QED
    BY <1>2, <2>1, <2>2, <2>3, <2>4, <2>5 DEF RestoreInv, TypeOK
<1>4. CASE RemoveVolume
  <2>1. WorldTypeOK' /\ ShellTypeOK'
    BY <1>1, <1>4 DEF RemoveVolume, WorldTypeOK, ShellTypeOK
  <2>2. HelpersInv'
    BY <1>1, <1>4 DEF RemoveVolume, HelpersInv
  <2>3. MarkerInv' /\ ShellInv'
    BY <1>1, <1>4 DEF RemoveVolume, MarkerInv, HelpersInv, ShellInv, ServiceInv, WalletInv
  <2>4. ServiceInv' /\ WalletInv'
    BY <1>1, <1>4 DEF RemoveVolume, ServiceInv, WorldTypeOK, ShellTypeOK, HelpersInv, MarkerInv,
        ShellInv, WalletInv
  <2> QED
    BY <1>2, <2>1, <2>2, <2>3, <2>4 DEF RestoreInv, TypeOK
<1>5. CASE RemoveClears
  <2>1. WorldTypeOK' /\ ShellTypeOK'
    BY <1>1, <1>5 DEF RemoveClears, WorldTypeOK, ShellTypeOK
  <2>2. HelpersInv'
    BY <1>1, <1>5 DEF RemoveClears, HelpersInv, MarkerInv, ShellInv
  <2>3. MarkerInv'
    BY <1>1, <1>5 DEF RemoveClears, MarkerInv
  <2>4. ShellInv'
    <3>1. /\ pc = "rm_clear" /\ pc' = return /\ return \in {"abandon", "r_unmark", "rb_unmark"}
          /\ UNCHANGED <<op, archive, was, active, caller, return, exit>>
      BY <1>1, <1>5 DEF RemoveClears, MarkerInv
    <3>2. CASE return \in {"abandon", "r_unmark"}
      BY <1>1, <3>1, <3>2 DEF ShellInv
    <3>3. CASE return = "rb_unmark"
      BY <1>1, <3>1, <3>3 DEF ShellInv
    <3> QED
      BY <3>1, <3>2, <3>3
  <2>5. ServiceInv' /\ WalletInv'
    BY <1>1, <1>5 DEF RemoveClears, ServiceInv, MarkerInv, ShellInv, WalletInv
  <2> QED
    BY <1>2, <2>1, <2>2, <2>3, <2>4, <2>5 DEF RestoreInv, TypeOK
<1> QED
  BY <1>3, <1>4, <1>5

---------------------------------------------------------------------------
(* The invariant.                                                          *)
\* Signals, and questions docker does not answer, are excluded.
LEMMA ScriptKeeps ==
    ASSUME RestoreInv, Undisturbed, Undisturbed', Script
    PROVE  RestoreInv' /\ ~Signal
<1>1. UNCHANGED outerVars /\ ~Signal
  BY DEF Script, RestoreInv, ShellInv, Signal, SignalPrior, SignalStarts, SignalExits
<1>2. CASE ReadPending \/ Probe \/ Confirm
  BY <1>1, <1>2, StartKeeps
<1>3. CASE Backup
  BY <1>1, <1>3, BackupKeeps DEF Backup
<1>4. CASE RestoreWallet
  BY <1>1, <1>4, PrepareKeeps, ReplaceKeeps DEF RestoreWallet
<1>5. CASE Rollback
  BY <1>1, <1>5, RollbackKeeps, RemoveKeeps DEF Rollback
<1> QED
  BY <1>1, <1>2, <1>3, <1>4, <1>5 DEF Script

\* A user may begin a backup, or a restore of any archive.
LEMMA InvokeKeeps == ASSUME RestoreInv, Invoke PROVE RestoreInv'
<1>1. CASE Begin("backup", None)
  BY <1>1, BeginKeeps
<1>2. ASSUME NEW a \in Archives, Begin("restore", a) PROVE RestoreInv'
  BY <1>2, BeginKeeps
<1> QED
  BY <1>1, <1>2 DEF Invoke

\* Nothing happens.
LEMMA StutterKeeps == ASSUME RestoreInv, UNCHANGED vars PROVE RestoreInv'
<1>1. /\ WorldTypeOK /\ ShellTypeOK /\ GhostTypeOK /\ HelpersInv /\ MarkerInv /\ ShellInv
      /\ ServiceInv /\ WalletInv
      /\ UNCHANGED <<wallet, service, content, owned, marker, helpers, pc, op, archive, was, active, rv,
                     caller, return, trapped, exit, faults, misreads, before, kills, signals>>
  BY DEF RestoreInv, TypeOK, vars, worldVars, shellVars, errorVars, outerVars
<1>2. TypeOK'
  BY <1>1 DEF TypeOK, WorldTypeOK, ShellTypeOK, GhostTypeOK
<1>3. HelpersInv' /\ MarkerInv'
  BY <1>1 DEF HelpersInv, MarkerInv, Attached, Busy, Job, WholeMarker, Towards
<1>4. ShellInv' /\ ServiceInv' /\ WalletInv'
  BY <1>1 DEF ShellInv, ServiceInv, WalletInv, Towards, Effective
<1> QED
  BY <1>2, <1>3, <1>4 DEF RestoreInv

\* No step but a trapped signal or a misread breaks the invariant.
LEMMA NextKeeps ==
    ASSUME RestoreInv, Undisturbed, Undisturbed', [Next]_vars
    PROVE  RestoreInv'
<1>1. ~OnSignal
  BY DEF OnSignal, Undisturbed
<1>2. ASSUME NEW h \in helpers, HelperStep(h) PROVE RestoreInv'
  BY <1>2, HelperKeeps
<1> QED
  BY <1>1, <1>2, InvokeKeeps, ScriptKeeps, KillKeeps, UserKeeps, StutterKeeps DEF Next

\* It holds before the first invocation.
LEMMA InitHolds == Init => RestoreInv
<1> SUFFICES ASSUME Init PROVE RestoreInv
  OBVIOUS
<1> USE WalletAssumption, VolumeAssumption, BoundAssumption DEF Init
<1>1. WorldTypeOK /\ ShellTypeOK
  BY DEF WorldTypeOK, ShellTypeOK, Broken
<1>2. GhostTypeOK
  BY DEF GhostTypeOK
<1>3. HelpersInv /\ MarkerInv /\ ShellInv
  BY DEF HelpersInv, MarkerInv, ShellInv, Attached, WholeMarker, Before, Marked, Removing,
     BackingUp, Restoring, RollingBack, Towards
<1>4. ServiceInv /\ WalletInv
  BY DEF ServiceInv, WalletInv, Off, Removing, Towards
<1> QED
  BY <1>1, <1>2, <1>3, <1>4 DEF RestoreInv, TypeOK

\* What every reachable state satisfies: who may still write to the volume,
\* when the marker and the copy it names are there, what the script remembers
\* of Electron Cash, and which wallet recovery would leave.
THEOREM RestoreInvariant == Spec /\ []Undisturbed => []RestoreInv
<1>1. Init => RestoreInv
  BY InitHolds
<1>2. RestoreInv /\ Undisturbed /\ Undisturbed' /\ [Next]_vars => RestoreInv'
  BY NextKeeps
<1> QED
  BY <1>1, <1>2, PTL DEF Spec

\* A damaged wallet volume always has a complete copy that the marker names,
\* whatever command failed and whatever was killed, however often.
THEOREM DamageIsAlwaysRecoverable == Spec /\ []Undisturbed => []DamageIsRecoverable
<1>1. RestoreInv => DamageIsRecoverable
  BY DEF RestoreInv, MarkerInv, WholeMarker, DamageIsRecoverable
<1> QED
  BY <1>1, RestoreInvariant, PTL

\* Electron Cash never runs on a partly copied wallet.
THEOREM ServiceRunsOnWholeWallet == Spec /\ []Undisturbed => []ServiceOnWholeWallet
<1>1. RestoreInv => ServiceOnWholeWallet
  BY DEF RestoreInv, ServiceInv, ServiceOnWholeWallet
<1> QED
  BY <1>1, RestoreInvariant, PTL

\* No helper copies from or to the wallet volume while Electron Cash runs, also
\* a helper that outlived the script that started it.
THEOREM CopiesAreAlone == Spec /\ []Undisturbed => []ServiceOffDuringCopy
<1>1. RestoreInv => ServiceOffDuringCopy
  BY DEF RestoreInv, HelpersInv, InUse, ServiceOffDuringCopy
<1> QED
  BY <1>1, RestoreInvariant, PTL

---------------------------------------------------------------------------
(* What a step of the script does to what the user sees of it.             *)

\* A step that does not end the script keeps its request; one that ends it
\* leaves the wallet alone, and the last rollback step only drops the marker.
LEMMA Outcomes ==
    ASSUME RestoreInv, Undisturbed, Undisturbed', Script
    PROVE  /\ pc # "idle" /\ UNCHANGED before
           /\ \/ pc' # "idle" /\ UNCHANGED <<archive, exit>>
              \/ /\ pc' = "idle" /\ archive' = None
                 /\ UNCHANGED <<wallet, content>> /\ (UNCHANGED marker \/ RollbackUnmarks)
                 /\ \/ /\ exit' \in {"failed", "cancelled"}
                       /\ pc \notin {"r_done", "rm_clear", "r_unmark"}
                    \/ exit' = "done" /\ (RestoreDone \/ BackupStarts)
           /\ marker # None /\ marker' = None => RestoreUnmarks \/ RollbackUnmarks
           /\ pc = "rm_clear" => UNCHANGED <<wallet, content, marker>>
           /\ pc = "r_unmark" => marker' = None /\ UNCHANGED wallet
           /\ pc = "r_done" => pc' = "idle"
<1> USE DEF worldVars, shellVars, errorVars, Works, Fails, Misreads, KeepWorld, Goto, Exit, Await,
        StopService, EnsureVolumeUnused, StartService, RestorePriorState, CallRollback, CallRemove,
        Unmark, RollbackFails, ProbeService, Launch
<1>1. /\ MarkerInv /\ ShellInv /\ misreads = 0 /\ misreads' = 0 /\ UNCHANGED before /\ ~Signal
  BY ScriptKeeps DEF RestoreInv, Undisturbed, Script, outerVars
<1>2. CASE ReadPending \/ Probe \/ Confirm
  BY <1>1, <1>2 DEF ReadPending, Probe, Confirm
<1>3. CASE Backup
  BY <1>1, <1>3 DEF Backup, BackupStops, BackupNeedsVolume, BackupCreates, BackupCreated, BackupBails,
     BackupStarts, ShellInv
<1>4. CASE RestoreWallet
  <2>1. CASE RestoreBegins \/ RestoreStops \/ RestoreNeedsVolume \/ CreateVolume \/ ValidateVolume
             \/ Snapshot
    BY <1>1, <2>1 DEF RestoreBegins, RestoreStops, RestoreNeedsVolume, CreateVolume, ValidateVolume,
       Snapshot
  <2>2. CASE Snapped \/ WritePending \/ Abandon \/ Replace \/ Replaced \/ RestoreStarts
    BY <1>1, <2>2 DEF Snapped, WritePending, Abandon, Replace, Replaced, RestoreStarts
  <2>3. CASE RestoreUnmarks \/ RestoreDone
    BY <1>1, <2>3 DEF RestoreUnmarks, RestoreDone
  <2> QED
    BY <1>4, <2>1, <2>2, <2>3 DEF RestoreWallet
<1>5. CASE Rollback
  <2>1. CASE RollbackStops \/ RollbackNeedsVolume \/ RollbackCopies \/ RollbackCopied \/ RollbackStarts
             \/ RollbackUnmarks
    BY <1>1, <2>1 DEF RollbackStops, RollbackNeedsVolume, RollbackCopies, RollbackCopied, RollbackStarts,
       RollbackUnmarks, ShellInv, RollingBack
  <2>2. CASE RemoveValidates \/ RemoveVolume \/ RemoveClears
    BY <1>1, <2>2 DEF RemoveValidates, RemoveVolume, RemoveClears, MarkerInv, Removing
  <2> QED
    BY <1>5, <2>1, <2>2 DEF Rollback
<1> QED
  BY <1>1, <1>2, <1>3, <1>4, <1>5 DEF Script

\* Only the steps that unmark, and those that report success, have to show it.
LEMMA PriorStateIsKept ==
    ASSUME RestoreInv, Undisturbed, Undisturbed', [Next]_vars,
           (marker # None /\ marker' = None) \/ (pc # "idle" /\ exit' = "done")
    PROVE  service' = before.service \/ UNCHANGED vars
<1> USE DEF Works, Fails, Misreads, KeepWorld, Goto, Exit, StartService, Unmark, worldVars, shellVars,
        errorVars
<1>1. /\ MarkerInv /\ ShellInv /\ ServiceInv /\ WorldTypeOK /\ ShellTypeOK /\ ~OnSignal
      /\ misreads = 0 /\ misreads' = 0
  BY DEF RestoreInv, TypeOK, Undisturbed, OnSignal
<1>2. RestoreUnmarks \/ RollbackUnmarks => service' = before.service
  BY <1>1 DEF RestoreUnmarks, RollbackUnmarks, ServiceInv, Towards
<1>3. RestoreDone => service' = before.service
  BY <1>1 DEF RestoreDone, ServiceInv
<1>4. BackupStarts /\ exit' = "done" => service' = before.service
  <2> SUFFICES ASSUME BackupStarts, exit' = "done" PROVE service' = before.service
    OBVIOUS
  <2>1. was = before.service /\ was \in BOOLEAN /\ service = FALSE
    BY <1>1 DEF BackupStarts, ServiceInv, Off, ShellTypeOK, WorldTypeOK
  <2>2. CASE was = TRUE
    <3>1. service' = TRUE
      BY <1>1, <2>2 DEF BackupStarts
    <3> QED
      BY <2>1, <2>2, <3>1, Zenon
  <2>3. CASE was = FALSE
    <3>1. service' = service
      BY <1>1, <2>3 DEF BackupStarts
    <3> QED
      BY <2>1, <2>3, <3>1, Zenon
  <2> QED
    BY <2>1, <2>2, <2>3
<1>5. CASE Script
  <2>1. pc # "idle" /\ exit = "none"
    BY <1>1, <1>5, Outcomes DEF ShellInv
  <2> QED
    BY <1>2, <1>3, <1>4, <1>5, <2>1, Outcomes
<1>6. ~Invoke /\ ~Kill /\ ~PowerLoss /\ ~UserToggles
  BY <1>1 DEF Invoke, Begin, Kill, PowerLoss, UserToggles, ShellInv
<1>7. \A h \in helpers : ~HelperStep(h)
  BY <1>1 DEF HelperStep, ShellInv
<1> QED
  BY <1>1, <1>5, <1>6, <1>7 DEF Next, ShellInv, vars

\* When a restore is over, or the script reports success, Electron Cash runs if
\* and only if it ran before, whatever was killed in between.
THEOREM ServiceStateIsKept == Spec /\ []Undisturbed => PriorStateKept
<1>1. RestoreInv /\ Undisturbed /\ Undisturbed' /\ [Next]_vars =>
        [(marker # None /\ marker' = None) \/ (pc # "idle" /\ exit' = "done")
         => service' = before.service]_vars
  BY PriorStateIsKept
<1> QED
  BY <1>1, RestoreInvariant, PTL DEF Spec, PriorStateKept

---------------------------------------------------------------------------
(* The detailed script implements the abstract one.                        *)

\* What the abstract specification calls the request.
Request == IF pc = "idle" THEN [archive |-> None, old |-> None]
           ELSE [archive |-> archive, old |-> before.wallet]

\* It can tell an invocation from none, and what the invocation has to reach.
LEMMA RequestIsMade ==
    ASSUME RestoreInv, pc # "idle"
    PROVE  /\ Request # Atomic!Idle /\ Request.old = before.wallet /\ Request.archive = archive
           /\ archive \in Archives => Atomic!Goal = archive
           /\ archive = None => Atomic!Goal = before.wallet
<1>1. before.wallet \in Wallets
  BY DEF RestoreInv, WalletInv
<1>2. Request = [archive |-> archive, old |-> before.wallet]
  BY DEF Request
<1>3. Request # Atomic!Idle /\ Request.old = before.wallet /\ Request.archive = archive
  BY <1>1, <1>2, WalletAssumption DEF Atomic!Idle
<1>4. Atomic!Goal = IF archive = None THEN before.wallet ELSE archive
  BY <1>2, <1>3 DEF Atomic!Goal, Request
<1> QED
  BY <1>3, <1>4, WalletAssumption

\* What recovery would leave goes from the old wallet to the archive when the
\* rollback volume is removed, or at the latest when the marker is.
LEMMA WalletIsKept ==
    ASSUME RestoreInv, Undisturbed, Undisturbed', Script, pc' # "idle"
    PROVE  Effective' = Effective \/ (archive \in Archives /\ Effective' = archive)
<1>1. /\ MarkerInv' /\ ShellInv /\ ShellInv' /\ WalletInv /\ WalletInv'
      /\ pc # "idle" /\ UNCHANGED <<before, archive>>
  BY ScriptKeeps, Outcomes DEF RestoreInv
<1>2. CASE pc = "rm_clear"
  BY <1>2, Outcomes DEF Effective
<1>3. CASE pc = "r_unmark"
  BY <1>1, <1>3, Outcomes DEF Effective, ShellInv, Restoring, WalletInv, Towards
<1>4. CASE pc \notin {"rm_clear", "r_unmark"}
  <2>1. Effective = before.wallet
    BY <1>1, <1>4, Outcomes DEF WalletInv
  <2>2. CASE pc' = "r_done"
    BY <1>1, <2>2 DEF Effective, MarkerInv, Before, ShellInv, Restoring, WalletInv
  <2>3. CASE pc' \in {"rm_clear", "r_unmark"} /\ return' = "r_unmark"
    BY <1>1, <2>1, <2>3 DEF ShellInv, Restoring, Removing, WalletInv
  <2>4. CASE pc' # "r_done" /\ ~(pc' \in {"rm_clear", "r_unmark"} /\ return' = "r_unmark")
    BY <1>1, <2>1, <2>4 DEF WalletInv
  <2> QED
    BY <2>2, <2>3, <2>4
<1> QED
  BY <1>2, <1>3, <1>4

\* The script's steps commit, end the request, or change nothing of it.
LEMMA ScriptRefines ==
    ASSUME RestoreInv, Undisturbed, Undisturbed', Script
    PROVE  Atomic!Next \/ UNCHANGED <<Effective, Request, exit>>
<1>1. /\ ShellTypeOK /\ MarkerInv /\ ShellInv /\ WalletInv /\ pc # "idle" /\ UNCHANGED before
  BY Outcomes DEF RestoreInv, TypeOK
<1>2. CASE pc' # "idle"
  <2>1. UNCHANGED <<archive, exit>>
    BY <1>2, Outcomes
  <2>2. UNCHANGED <<Request, exit>>
    BY <1>1, <1>2, <2>1 DEF Request
  <2>3. CASE archive \in Archives /\ Effective' = archive
    <3>1. Atomic!Commit
      BY <1>1, <2>2, <2>3, RequestIsMade DEF Atomic!Commit, Request
    <3> QED
      BY <3>1 DEF Atomic!Next
  <2> QED
    BY <1>2, <2>2, <2>3, WalletIsKept
<1>3. CASE pc' = "idle"
  <2>1. Request' = Atomic!Idle
    BY <1>3 DEF Request, Atomic!Idle
  <2>2. UNCHANGED <<wallet, content>> /\ (UNCHANGED marker \/ RollbackUnmarks)
    BY <1>3, Outcomes
  <2>3. Effective' = Effective
    <3>1. CASE UNCHANGED marker
      BY <2>2, <3>1 DEF Effective
    <3>2. CASE RollbackUnmarks
      <4>1. marker' = None /\ pc = "rb_unmark"
        BY <3>2 DEF RollbackUnmarks, Unmark
      <4> QED
        BY <1>1, <2>2, <4>1 DEF Effective, WalletInv, Towards
    <3> QED
      BY <2>2, <3>1, <3>2
  <2>4. CASE exit' \in {"failed", "cancelled"} /\ pc \notin {"r_done", "rm_clear", "r_unmark"}
    <3>1. Effective = before.wallet
      BY <1>1, <2>4 DEF WalletInv
    <3>2. Atomic!End(exit')
      BY <1>1, <2>1, <2>3, <2>4, <3>1, RequestIsMade DEF Atomic!End, Request
    <3> QED
      BY <2>4, <3>2 DEF Atomic!Next
  <2>5. CASE exit' = "done" /\ (RestoreDone \/ BackupStarts)
    <3>1. Effective = Atomic!Goal
      <4>1. CASE RestoreDone
        <5>1. pc = "r_done" /\ marker = None /\ wallet = archive /\ archive \in Archives
          BY <1>1, <4>1 DEF RestoreDone, MarkerInv, Before, WalletInv, ShellInv, Restoring
        <5> QED
          BY <1>1, <5>1, RequestIsMade DEF Effective
      <4>2. CASE BackupStarts
        <5>1. Effective = before.wallet /\ op = "backup"
          BY <1>1, <4>2 DEF BackupStarts, WalletInv, ShellInv, BackingUp
        <5>2. archive = None
          BY <1>1, <5>1 DEF ShellInv, ShellTypeOK
        <5> QED
          BY <1>1, <5>1, <5>2, RequestIsMade
      <4> QED
        BY <2>5, <4>1, <4>2
    <3>2. Atomic!End(exit')
      BY <1>1, <2>1, <2>3, <2>5, <3>1, RequestIsMade DEF Atomic!End, Request
    <3> QED
      BY <2>5, <3>2 DEF Atomic!Next
  <2> QED
    BY <1>3, <2>4, <2>5, Outcomes
<1> QED
  BY <1>2, <1>3

\* An invocation begins a request, a kill ends it, everything else is unseen.
LEMMA OthersRefine ==
    ASSUME RestoreInv, Undisturbed, Undisturbed', [Next]_vars, ~Script
    PROVE  Atomic!Next \/ UNCHANGED <<Effective, Request, exit>>
<1>1. /\ MarkerInv /\ ~OnSignal
  BY DEF RestoreInv, Undisturbed, OnSignal
<1>2. ASSUME NEW o, NEW a \in Archives \cup {None}, Begin(o, a)
      PROVE  Atomic!Next
  <2>1. Request = Atomic!Idle /\ exit' = "none" /\ pc' = "pending" /\ archive' = a
    BY <1>2 DEF Begin, Request, Atomic!Idle
  <2>2. Effective' = Effective /\ before'.wallet = Effective
    BY <1>2 DEF Begin, Effective, worldVars
  <2>3. Request' = [archive |-> a, old |-> Effective]
    BY <2>1, <2>2 DEF Request
  <2>4. Atomic!Begin(a)
    BY <2>1, <2>2, <2>3 DEF Atomic!Begin, Request
  <2> QED
    BY <2>4 DEF Atomic!Next
<1>3. CASE Invoke
  BY <1>2, <1>3 DEF Invoke
<1>4. CASE Kill \/ PowerLoss
  <2>1. Effective' = Effective
    BY <1>4 DEF Kill, PowerLoss, Effective, worldVars
  <2>2. CASE pc = "idle"
    BY <1>4, <2>1, <2>2 DEF Kill, PowerLoss, Request, shellVars
  <2>3. CASE pc # "idle"
    <3>1. Exit("killed")
      BY <1>4, <2>3 DEF Kill, PowerLoss
    <3>2. Request' = Atomic!Idle /\ exit' = "killed"
      BY <3>1 DEF Exit, Request, Atomic!Idle
    <3>3. Atomic!End("killed")
      BY <2>1, <2>3, <3>2, RequestIsMade DEF Atomic!End, Request
    <3> QED
      BY <3>3 DEF Atomic!Next
  <2> QED
    BY <2>2, <2>3
<1>5. CASE UserToggles
  BY <1>5 DEF UserToggles, Effective, Request, shellVars, outerVars
<1>6. ASSUME NEW h \in helpers, HelperStep(h)
      PROVE  UNCHANGED <<Effective, Request, exit>>
  <2>1. Effective' = Effective
    BY <1>1, <1>6, HelperMoves DEF HelperMove, MarkerInv, WholeMarker, Effective
  <2> QED
    BY <1>6, <2>1 DEF HelperStep, Request, shellVars, outerVars
<1>7. CASE UNCHANGED vars
  BY <1>7 DEF vars, worldVars, shellVars, outerVars, Effective, Request
<1> QED
  BY <1>1, <1>3, <1>4, <1>5, <1>6, <1>7 DEF Next

\* A restore replaces the wallet in one step or keeps it, its exit status says
\* which, and a backup keeps it.
THEOREM RestoreIsAtomic == Spec /\ []Undisturbed => AtomicRestore
<1>1. Init => Atomic!Init
  BY DEF Init, Atomic!Init, Atomic!Idle, Effective
<1>2. RestoreInv /\ Undisturbed /\ Undisturbed' /\ [Next]_vars =>
        Atomic!Next \/ UNCHANGED <<Effective, Request, exit>>
  BY ScriptRefines, OthersRefine
<1>3. RestoreInv /\ Undisturbed /\ Undisturbed' /\ [Next]_vars =>
        [Atomic!Next]_<<Effective, IF pc = "idle" THEN [archive |-> None, old |-> None]
                                   ELSE [archive |-> archive, old |-> before.wallet], exit>>
  BY <1>2 DEF Request
<1> QED
  BY <1>1, <1>3, RestoreInvariant, PTL DEF Spec, AtomicRestore, Atomic!Spec

---------------------------------------------------------------------------
(* Runs with signals.                                                      *)

\* Where ROLLBACK_VOLUME is set.
Mounting == {"r_valid", "r_snapshot", "r_snapped", "r_mark", "r_replace", "r_wait", "r_prior",
             "rb_stop", "rb_unused", "rb_copy", "rb_wait", "rb_prior", "rm_volume"}
\* From the start of a restore to the replacement of the wallet.
Preparing == {"r_active", "r_stop", "r_unused", "r_create", "r_valid", "r_snapshot", "r_snapped",
              "r_mark", "r_replace"}

\* The script uses a variable only where it has set it, whatever interrupts it.
ShellPlaces ==
    /\ pc # "idle" => exit = "none" /\ op \in {"backup", "restore"}
    /\ op = "restore" => archive \in Archives
    /\ pc \in Preparing => op = "restore"
    /\ pc \in Mounting => rv \in Volumes

\* A helper mounts volumes that exist, and knows its archive if it needs one.
HelperPlaces ==
    /\ \A h \in helpers :
        /\ h.job = "replace" => h.archive \in Archives
        /\ h.job \in {"snapshot", "restore"} => h.vol \in Volumes
        /\ Busy(h) /\ h.vol # None => content[h.vol] # "absent"
    /\ wallet # "absent"

PlaceInv == ShellPlaces /\ HelperPlaces

\* The invariant behind the types.
TypeInv == TypeOK /\ PlaceInv

\* The script starts with nothing set.
LEMMA TypesAtStart == Init => TypeInv
<1> SUFFICES ASSUME Init PROVE TypeInv
  OBVIOUS
<1>1. WorldTypeOK /\ HelperPlaces
  BY WalletAssumption DEF Init, WorldTypeOK, HelperPlaces, Broken
<1>2. ShellTypeOK /\ ShellPlaces
  BY WalletAssumption DEF Init, ShellTypeOK, ShellPlaces, Preparing, Mounting
<1>3. GhostTypeOK
  BY WalletAssumption, BoundAssumption DEF Init, GhostTypeOK
<1> QED
  BY <1>1, <1>2, <1>3 DEF TypeInv, TypeOK, PlaceInv

\* Whatever a step of the script does, the counts stay in their bounds.
LEMMA CountTypes ==
    ASSUME GhostTypeOK, Works \/ Fails \/ Misreads, UNCHANGED outerVars
    PROVE  GhostTypeOK'
  BY BoundAssumption DEF GhostTypeOK, Works, Fails, Misreads, errorVars, outerVars

\* A helper writes only where it has mounted something.
LEMMA HelperTypes ==
    ASSUME TypeInv, NEW h \in helpers, HelperStep(h)
    PROVE  TypeInv'
<1> USE DEF TypeInv, TypeOK
<1>1. h \in HelperType /\ content \in [Volumes -> Wallets \cup Broken]
  BY DEF WorldTypeOK
<1>2. ShellTypeOK' /\ UNCHANGED <<service, owned, marker, pc, exit, op, archive, rv>>
  BY DEF HelperStep, ShellTypeOK, shellVars
<1>3. GhostTypeOK'
  BY CountTypes DEF HelperStep, HelperWrites, HelperSucceeds, HelperRejects, HelperFails, HelperLeaves
<1>4. CASE HelperRejects(h) \/ HelperFails(h) \/ HelperLeaves(h)
  <2>1. UNCHANGED <<wallet, content>>
    BY <1>4 DEF HelperRejects, HelperFails, HelperLeaves
  <2>2. \A g \in helpers' : g \in helpers \/ g = [h EXCEPT !.at = "failed"]
    BY <1>4 DEF HelperRejects, HelperFails, HelperLeaves, Moved
  <2>3. [h EXCEPT !.at = "failed"] \in HelperType
    BY <1>1 DEF HelperType
  <2>4. WorldTypeOK'
    BY <1>2, <2>1, <2>2, <2>3 DEF WorldTypeOK
  <2>5. PlaceInv'
    BY <1>1, <1>2, <2>1, <2>2 DEF PlaceInv, ShellPlaces, HelperPlaces, Busy, HelperType
  <2> QED
    BY <1>2, <1>3, <2>4, <2>5
<1>5. CASE HelperWrites(h) \/ HelperSucceeds(h)
  <2>1. PICK at \in {"copying", "ok"}, data \in Wallets \cup {"partial", "empty"} :
            helpers' = Moved(h, at) /\ Put(h, data)
    <3>1. CASE HelperWrites(h)
      BY <3>1 DEF HelperWrites
    <3>2. CASE HelperSucceeds(h)
      <4>1. wallet \in Wallets \cup {"partial", "empty"}
        BY DEF WorldTypeOK, PlaceInv, ShellPlaces, HelperPlaces, Broken
      <4>2. h.job = "replace" => h.archive \in Wallets
        BY WalletAssumption DEF PlaceInv, ShellPlaces, HelperPlaces
      <4>3. h.job = "restore" => content[h.vol] \in Wallets \cup {"partial", "empty"}
        BY <1>1, <3>2, VolumeAssumption DEF HelperSucceeds, PlaceInv, ShellPlaces, HelperPlaces, Busy, Broken
      <4>4. CASE h.job = "replace"
        BY <3>2, <4>2, <4>4 DEF HelperSucceeds
      <4>5. CASE h.job = "restore"
        BY <3>2, <4>3, <4>5 DEF HelperSucceeds
      <4>6. CASE h.job \notin {"replace", "restore"}
        BY <3>2, <4>1, <4>6 DEF HelperSucceeds
      <4> QED
        BY <4>4, <4>5, <4>6
    <3> QED
      BY <1>5, <3>1, <3>2
  <2>2. data \in Wallets \cup Broken /\ data # "absent"
    BY WalletAssumption DEF Broken
  <2>3. /\ wallet' \in {wallet, data} /\ content' \in [Volumes -> Wallets \cup Broken]
        /\ \A v \in Volumes : content'[v] \in {content[v], data}
    BY <1>1, <2>1, <2>2 DEF Put, HelperType, WorldTypeOK
  <2>4. \A g \in helpers' : g \in helpers \/ g = [h EXCEPT !.at = at]
    BY <2>1 DEF Moved
  <2>5. [h EXCEPT !.at = at] \in HelperType
    BY <1>1, <2>1 DEF HelperType
  <2>6. WorldTypeOK'
    BY <1>2, <2>2, <2>3, <2>4, <2>5 DEF WorldTypeOK
  <2>7. PlaceInv'
    <3>1. Busy(h)
      BY <1>5 DEF HelperWrites, HelperSucceeds, Busy
    <3>2. \A g \in helpers : g \in HelperType
      BY DEF WorldTypeOK
    <3> QED
      BY <1>1, <1>2, <2>2, <2>3, <2>4, <3>1, <3>2 DEF PlaceInv, ShellPlaces, HelperPlaces, Busy, HelperType
  <2> QED
    BY <1>2, <1>3, <2>6, <2>7
<1> QED
  BY <1>4, <1>5 DEF HelperStep

\* A new helper's volume exists from then on.
LEMMA LaunchTypes ==
    ASSUME TypeInv, NEW job \in {"create", "snapshot", "replace", "restore"},
           NEW v \in Volumes \cup {None}, Launch(job, v),
           job \in {"snapshot", "restore"} => v \in Volumes,
           job = "replace" => archive \in Archives
    PROVE  /\ WorldTypeOK'
           /\ \A h \in helpers' :
                /\ h.job = "replace" => h.archive \in Archives
                /\ h.job \in {"snapshot", "restore"} => h.vol \in Volumes
                /\ Busy(h) /\ h.vol # None => content'[h.vol] # "absent"
           /\ wallet' # "absent"
<1> USE DEF TypeInv, TypeOK
<1> DEFINE new == [job |-> job, at |-> "begun", vol |-> v, archive |-> archive, attached |-> TRUE]
<1>1. new \in HelperType /\ helpers' = helpers \cup {new}
      /\ new.job = job /\ new.vol = v /\ new.archive = archive
  BY DEF Launch, HelperType, ShellTypeOK
<1>2. UNCHANGED <<wallet, service, owned, marker>>
  BY DEF Launch
<1>3. /\ content' \in [Volumes -> Wallets \cup Broken]
      /\ \A u \in Volumes : content'[u] = content[u] \/ content'[u] = "empty"
      /\ v # None => content'[v] # "absent"
  BY DEF Launch, WorldTypeOK, Broken
<1>4. "empty" # "absent"
  OBVIOUS
<1> HIDE DEF new
<1> QED
  BY <1>1, <1>2, <1>3, <1>4 DEF WorldTypeOK, PlaceInv, ShellPlaces, HelperPlaces, HelperType

\* Each step of the script sets its variables before it goes where they are used.
LEMMA ScriptShell ==
    ASSUME TypeInv, Script
    PROVE  ShellTypeOK' /\ ShellPlaces'
<1>1. ShellTypeOK /\ ShellPlaces /\ owned \subseteq Volumes
      /\ marker \in [vol : Volumes, running : BOOLEAN] \cup {None} /\ service \in BOOLEAN
  BY DEF TypeInv, TypeOK, PlaceInv, WorldTypeOK
<1> USE <1>1 DEF ShellTypeOK, ShellPlaces, shellVars, Goto, Exit, CallRollback, CallRemove, RollbackFails, Mounting, Preparing
<1>2. CASE ReadPending
  BY <1>2 DEF ReadPending
<1>3. CASE Probe
  BY <1>3 DEF Probe, ProbeService
<1>4. CASE Confirm
  BY <1>4 DEF Confirm
<1>5. CASE RestoreBegins
  BY <1>5 DEF RestoreBegins, ProbeService
<1>6. CASE BackupStops
  BY <1>6 DEF BackupStops, StopService
<1>7. CASE BackupNeedsVolume
  BY <1>7 DEF BackupNeedsVolume, EnsureVolumeUnused
<1>8. CASE BackupCreates
  BY <1>8 DEF BackupCreates
<1>9. CASE BackupCreated
  BY <1>9 DEF BackupCreated, Await
<1>10. CASE BackupBails
  BY <1>10 DEF BackupBails, StartService
<1>11. CASE BackupStarts
  BY <1>11 DEF BackupStarts, StartService
<1>12. CASE RestoreStops
  BY <1>12 DEF RestoreStops, StopService
<1>13. CASE RestoreNeedsVolume
  BY <1>13 DEF RestoreNeedsVolume, EnsureVolumeUnused
<1>14. CASE CreateVolume
  BY <1>14 DEF CreateVolume
<1>15. CASE ValidateVolume
  BY <1>15 DEF ValidateVolume
<1>16. CASE Snapshot
  BY <1>16 DEF Snapshot
<1>17. CASE Snapped
  BY <1>17 DEF Snapped, Await
<1>18. CASE WritePending
  BY <1>18 DEF WritePending
<1>19. CASE Abandon
  BY <1>19 DEF Abandon, RestorePriorState, StartService, StopService
<1>20. CASE Replace
  BY <1>20 DEF Replace
<1>21. CASE Replaced
  BY <1>21 DEF Replaced, Await
<1>22. CASE RestoreStarts
  BY <1>22 DEF RestoreStarts, RestorePriorState, StartService, StopService
<1>23. CASE RestoreUnmarks
  BY <1>23 DEF RestoreUnmarks, Unmark
<1>24. CASE RestoreDone
  BY <1>24 DEF RestoreDone
<1>25. CASE RollbackStops
  BY <1>25 DEF RollbackStops, StopService
<1>26. CASE RollbackNeedsVolume
  BY <1>26 DEF RollbackNeedsVolume, EnsureVolumeUnused
<1>27. CASE RollbackCopies
  BY <1>27 DEF RollbackCopies
<1>28. CASE RollbackCopied
  BY <1>28 DEF RollbackCopied, Await
<1>29. CASE RollbackStarts
  BY <1>29 DEF RollbackStarts, RestorePriorState, StartService, StopService
<1>30. CASE RollbackUnmarks
  BY <1>30 DEF RollbackUnmarks, Unmark
<1>31. CASE RemoveVolume
  BY <1>31 DEF RemoveVolume
<1>32. CASE RemoveClears
  BY <1>32 DEF RemoveClears
<1>33. CASE SignalPrior
  BY <1>33 DEF SignalPrior, RestorePriorState, StartService, StopService
<1>34. CASE SignalStarts
  BY <1>34 DEF SignalStarts, StartService
<1>35. CASE SignalExits
  BY <1>35 DEF SignalExits
<1>36. CASE RemoveValidates
  <2>2. CASE RemoveValidates /\ Goto(return)
    BY <2>2 DEF RemoveValidates
  <2>3. CASE RemoveValidates /\ Goto("rm_volume")
    BY <2>3 DEF RemoveValidates
  <2>4. CASE RemoveValidates /\ Exit("failed")
    BY <2>4 DEF RemoveValidates
  <2> QED
    BY <1>36, <2>2, <2>3, <2>4 DEF RemoveValidates
<1> QED
  BY <1>2, <1>3, <1>4, <1>5, <1>6, <1>7, <1>8, <1>9, <1>10, <1>11, <1>12, <1>13, <1>14, <1>15, <1>16, <1>17, <1>18, <1>19, <1>20, <1>21, <1>22, <1>23, <1>24, <1>25, <1>26, <1>27, <1>28, <1>29, <1>30, <1>31, <1>32, <1>33, <1>34, <1>35, <1>36
     DEF Script, Backup, RestoreWallet, Rollback, Signal

\* A step of the script works, fails, or misreads an answer.
LEMMA ScriptCounts == Script => Works \/ Fails \/ Misreads
  BY DEF Script, ReadPending, Probe, ProbeService, Confirm, Backup, BackupStops, BackupNeedsVolume,
     BackupCreates, BackupCreated, BackupBails, BackupStarts, RestoreWallet, RestoreBegins, RestoreStops,
     RestoreNeedsVolume, CreateVolume, ValidateVolume, Snapshot, Snapped, WritePending, Abandon, Replace,
     Replaced, RestoreStarts, RestoreUnmarks, Unmark, RestoreDone, Rollback, RollbackStops,
     RollbackNeedsVolume, RollbackCopies, RollbackCopied, RollbackStarts, RollbackUnmarks,
     RemoveValidates, RemoveVolume, RemoveClears, Signal, SignalPrior, SignalStarts, SignalExits,
     Await, StopService, EnsureVolumeUnused, StartService, RestorePriorState

\* Each step of the script leaves files and volumes in their ranges.
LEMMA ScriptTypes ==
    ASSUME TypeInv, Script
    PROVE  TypeInv'
<1> USE DEF TypeInv, TypeOK
<1>1. GhostTypeOK'
  BY ScriptCounts, CountTypes DEF Script
<1>2. ShellTypeOK' /\ ShellPlaces'
  BY ScriptShell
<1>3. ASSUME helpers' \subseteq helpers, UNCHANGED <<wallet, content, owned>>, service' \in BOOLEAN,
             marker' \in [vol : Volumes, running : BOOLEAN] \cup {None}
      PROVE  WorldTypeOK' /\ HelperPlaces'
  BY <1>3 DEF WorldTypeOK, PlaceInv, HelperPlaces
<1>4. CASE WritePending
  <2>1. rv \in Volumes /\ was \in BOOLEAN
    BY <1>4 DEF WritePending, PlaceInv, ShellPlaces, Mounting, ShellTypeOK
  <2> QED
    BY <1>1, <1>2, <1>3, <1>4, <2>1 DEF WritePending, WorldTypeOK, PlaceInv
<1>5. CASE CreateVolume
  <2>2. UNCHANGED <<wallet, service, marker, helpers>>
    BY <1>5 DEF CreateVolume
  <2>3. WorldTypeOK' /\ HelperPlaces'
    <3>1. CASE UNCHANGED <<content, owned>>
      BY <2>2, <3>1 DEF WorldTypeOK, PlaceInv, HelperPlaces, Busy
    <3>2. ASSUME NEW v \in Volumes, content' = [content EXCEPT ![v] = "empty"], owned' = owned \cup {v}
          PROVE  WorldTypeOK' /\ HelperPlaces'
      BY <2>2, <3>2 DEF WorldTypeOK, Broken, PlaceInv, HelperPlaces, HelperType, Busy
    <3> QED
      BY <1>5, <3>1, <3>2 DEF CreateVolume
  <2> QED
    BY <1>1, <1>2, <2>3 DEF PlaceInv
<1>6. CASE RemoveVolume
  <2>1. UNCHANGED <<wallet, service, marker, helpers>>
    BY <1>6 DEF RemoveVolume
  <2>2. CASE UNCHANGED <<content, owned>>
    BY <1>1, <1>2, <1>3, <2>1, <2>2 DEF WorldTypeOK, PlaceInv
  <2>3. CASE /\ ~Mounted(rv) /\ content' = [content EXCEPT ![rv] = "absent"]
             /\ owned' = owned \ {rv}
    <3>1. WorldTypeOK' /\ HelperPlaces'
      BY <2>1, <2>3 DEF WorldTypeOK, Broken, PlaceInv, HelperPlaces, HelperType, Busy, Mounted
    <3> QED
      BY <1>1, <1>2, <3>1 DEF PlaceInv
  <2> QED
    BY <1>6, <2>2, <2>3 DEF RemoveVolume
<1>7. CASE BackupCreates \/ Snapshot \/ Replace \/ RollbackCopies
  <2>1. WorldTypeOK' /\ HelperPlaces'
    <3>1. pc = "r_snapshot" \/ pc = "rb_copy" => rv \in Volumes
      BY DEF PlaceInv, ShellPlaces, Mounting
    <3>2. pc = "r_replace" => archive \in Archives
      BY DEF PlaceInv, ShellPlaces, Preparing
    <3> QED
      BY <1>7, <3>1, <3>2, LaunchTypes DEF BackupCreates, Snapshot, Replace, RollbackCopies, HelperPlaces, Goto, shellVars
  <2> QED
    BY <1>1, <1>2, <2>1 DEF PlaceInv
<1>8. CASE ~(WritePending \/ CreateVolume \/ RemoveVolume
             \/ BackupCreates \/ Snapshot \/ Replace \/ RollbackCopies)
  <2>1. /\ helpers' \subseteq helpers /\ UNCHANGED <<wallet, content, owned>>
        /\ service' = service \/ service' \in BOOLEAN
        /\ marker' = marker \/ marker' = None
    BY <1>8 DEF Script, ReadPending, Probe, ProbeService, Confirm, Backup, BackupStops, BackupNeedsVolume,
       BackupCreated, BackupBails, BackupStarts, RestoreWallet, RestoreBegins, RestoreStops,
       RestoreNeedsVolume, ValidateVolume, Snapped, Abandon,
       Replaced, RestoreStarts, RestoreUnmarks, Unmark, RestoreDone, Rollback, RollbackStops,
       RollbackNeedsVolume, RollbackCopied, RollbackStarts, RollbackUnmarks,
       RemoveValidates, RemoveClears, Signal, SignalPrior, SignalStarts, SignalExits,
       Await, StopService, EnsureVolumeUnused, StartService, RestorePriorState, KeepWorld, worldVars
  <2>2. service' \in BOOLEAN /\ marker' \in [vol : Volumes, running : BOOLEAN] \cup {None}
    BY <2>1 DEF WorldTypeOK
  <2> QED
    BY <1>1, <1>2, <1>3, <2>1, <2>2 DEF PlaceInv
<1> QED
  BY <1>4, <1>5, <1>6, <1>7, <1>8

\* So do an invocation, a signal, a kill, a power loss and the user.
LEMMA OutsideTypes ==
    ASSUME TypeInv, Invoke \/ OnSignal \/ Kill \/ PowerLoss \/ UserToggles \/ UNCHANGED vars
    PROVE  TypeInv'
<1> USE DEF TypeInv, TypeOK, PlaceInv, worldVars, shellVars, errorVars, outerVars
<1>1. /\ content \in [Volumes -> Wallets \cup Broken] /\ wallet \in Wallets \cup Broken
      /\ marker \in [vol : Volumes, running : BOOLEAN] \cup {None}
  BY DEF WorldTypeOK
<1>2. ASSUME UNCHANGED <<wallet, content, owned, marker>>, service' \in BOOLEAN,
             \A h \in helpers' : \E g \in helpers : h \in {g, [g EXCEPT !.attached = FALSE]}
      PROVE  WorldTypeOK' /\ HelperPlaces'
  <2>1. \A h \in helpers' : h \in HelperType /\
            \E g \in helpers : h.job = g.job /\ h.vol = g.vol /\ h.at = g.at /\ h.archive = g.archive
    <3>1. SUFFICES ASSUME NEW h \in helpers', NEW g \in helpers, h = g \/ h = [g EXCEPT !.attached = FALSE]
                   PROVE  /\ h \in HelperType
                          /\ h.job = g.job /\ h.vol = g.vol /\ h.at = g.at /\ h.archive = g.archive
      BY <1>2
    <3>2. g \in HelperType
      BY DEF WorldTypeOK
    <3> QED
      BY <3>1, <3>2 DEF HelperType
  <2>2. WorldTypeOK'
    BY <1>2, <2>1 DEF WorldTypeOK
  <2>3. HelperPlaces'
    BY <1>2, <2>1 DEF HelperPlaces, Busy
  <2> QED
    BY <2>2, <2>3
<1>3. CASE Invoke
  <2>1. PICK o \in {"backup", "restore"}, a \in Archives \cup {None} : Begin(o, a) /\ (o = "restore" => a \in Archives)
    BY <1>3 DEF Invoke
  <2>2. Effective \in Wallets \cup Broken
    BY <1>1 DEF Effective
  <2>3. WorldTypeOK' /\ HelperPlaces'
    BY <1>2, <2>1 DEF Begin, WorldTypeOK
  <2>4. ShellTypeOK' /\ ShellPlaces'
    BY <2>1 DEF Begin, ShellTypeOK, ShellPlaces, Preparing, Mounting
  <2>5. GhostTypeOK'
    <3>1. (IF marker = None THEN service ELSE marker.running) \in BOOLEAN
      BY <1>1 DEF WorldTypeOK
    <3> QED
      BY <2>1, <2>2, <3>1 DEF Begin, GhostTypeOK
  <2> QED
    BY <2>3, <2>4, <2>5
<1>4. CASE OnSignal
  <2>1. WorldTypeOK' /\ HelperPlaces'
    BY <1>2, <1>4 DEF OnSignal, WorldTypeOK
  <2>2. ShellTypeOK'
    BY <1>4 DEF OnSignal, ShellTypeOK
  <2>3. ShellPlaces'
    BY <1>4 DEF OnSignal, ShellTypeOK, ShellPlaces, Preparing, Mounting
  <2>4. GhostTypeOK'
    BY <1>4, BoundAssumption DEF OnSignal, GhostTypeOK
  <2> QED
    BY <2>1, <2>2, <2>3, <2>4
<1>5. CASE Kill \/ PowerLoss
  <2>1. GhostTypeOK'
    BY <1>5, BoundAssumption DEF Kill, PowerLoss, GhostTypeOK
  <2>2. ShellTypeOK' /\ ShellPlaces'
    <3>1. CASE Exit("killed")
      BY <3>1 DEF Exit, ShellTypeOK, ShellPlaces, Preparing, Mounting
    <3>2. CASE UNCHANGED <<pc, shellVars, exit>>
      BY <3>2 DEF ShellTypeOK, ShellPlaces
    <3> QED
      BY <1>5, <3>1, <3>2 DEF Kill, PowerLoss
  <2>3. WorldTypeOK' /\ HelperPlaces'
    BY <1>2, <1>5 DEF Kill, PowerLoss, WorldTypeOK
  <2> QED
    BY <2>1, <2>2, <2>3
<1>6. CASE UserToggles \/ UNCHANGED vars
  <2>1. WorldTypeOK' /\ HelperPlaces'
    BY <1>2, <1>6 DEF UserToggles, vars, WorldTypeOK
  <2>2. ShellTypeOK' /\ ShellPlaces' /\ GhostTypeOK'
    BY <1>6 DEF UserToggles, vars, ShellTypeOK, ShellPlaces, GhostTypeOK
  <2> QED
    BY <2>1, <2>2
<1> QED
  BY <1>3, <1>4, <1>5, <1>6

\* Every step keeps the types.
LEMMA TypeStep == TypeInv /\ [Next]_vars => TypeInv'
  BY HelperTypes, ScriptTypes, OutsideTypes DEF Next

\* The type invariant of scripts/backup.sh, with signals, kills and misread answers:
\* no path through it uses a shell variable it has not set, or mounts a volume that
\* is gone.
THEOREM TypeCorrect == Spec => []TypeOK
<1>1. TypeInv => TypeOK
  BY DEF TypeInv
<1> QED
  BY <1>1, TypesAtStart, TypeStep, PTL DEF Spec

\* Nobody was killed, and docker misreported itself at most once.
OneMisread == kills = 0 /\ misreads <= 1

\* Between the last look at who uses the volume and the start of Electron Cash.
Stopped == {"b_create", "b_wait", "r_create", "r_valid", "r_snapshot", "r_snapped", "r_mark",
            "r_replace", "r_wait", "rb_copy", "rb_wait"}

\* The one helper is waited for; a service that runs where it should not has cost
\* the one misread.
AloneInv ==
    OneMisread =>
        /\ \A h \in helpers : h.attached /\ pc \in Waits
        /\ \A g, h \in helpers : g = h
        /\ pc \in Stopped => ~service
        /\ pc \in {"b_unused", "r_unused", "rb_unused"} /\ service => misreads = 1
        /\ pc \in {"confirm", "b_stop"} /\ service => was \/ misreads = 1

\* Nothing but signals disturbs the script.
OnlySignals == kills = 0 /\ faults = 0 /\ misreads = 0

\* On the way to x, in remove_rollback_volume.
Leaving(x) == pc \in Removing /\ return = x
\* on_signal without a rollback; rollback_restore; the end of a good restore.
Handling == pc \in {"sig_prior", "sig_start", "sig_exit"} \/ Leaving("sig_exit")
Undoing  == pc \in RollingBack \/ Leaving("rb_unmark")
Ending   == pc = "r_unmark" \/ Leaving("r_unmark")

\* The marker exists from the snapshot on; afterwards only one that names a
\* volume that is gone can be left.
SignalMarker ==
    /\ pc \in Before => marker = None
    /\ pc \in {"r_replace", "r_wait", "r_prior"} \/ Undoing \/ Ending => marker # None
    /\ pc \in {"r_replace", "r_wait", "r_prior"} \/ (pc # "rb_unmark" /\ Undoing) \/ Leaving("r_unmark") => rv = marker.vol
    /\ marker # None /\ (pc \in {"idle", "pending", "r_unmark"} \/ Handling \/ (pc = "rm_clear" /\ return = "r_unmark"))
         => marker.vol \notin owned

\* Which way the handler goes, and that it is entered once.
SignalPath ==
    /\ pc \in Before \cup Marked \cup Removing
              \cup {"idle", "pending", "r_unmark", "rb_unmark", "sig_prior", "sig_start", "sig_exit"}
    /\ pc = "r_unmark" => rv = None
    /\ \A h \in helpers : h.at # "failed"
    /\ pc \notin {"abandon", "b_bail"} /\ ~Leaving("abandon")
    /\ pc \in Removing => return \in {"abandon", "r_unmark", "rb_unmark", "sig_exit"}
    /\ Undoing => caller = "signal"
    /\ Undoing \/ Handling => ~trapped
    /\ pc \in (Restoring \ {"r_active"}) \/ Ending => active
    /\ pc \in BackingUp \cup {"idle", "pending", "probe", "confirm", "r_active"} => ~active

\* What Electron Cash was is known, and is what it is again at the end.
SignalService ==
    /\ pc \in {"idle", "pending", "probe"} => ~was
    /\ pc \notin {"idle", "pending", "probe", "sig_start", "sig_exit"} => was = before.service
    /\ pc \in {"pending", "probe", "confirm", "r_active", "rb_unmark", "r_done", "sig_exit"}
         \/ Ending \/ Leaving("rb_unmark") \/ Leaving("sig_exit") => service = before.service
    /\ pc = "sig_start" => IF was THEN before.service = TRUE ELSE service = before.service
    /\ pc \in BackingUp /\ ~was => ~service
    /\ marker # None => marker.running = IF pc = "idle" THEN service ELSE before.service

\* What the shell variables and the world say of each other where a signal may come.
SignalState == SignalMarker /\ SignalPath /\ SignalService
SignalInv == OnlySignals => SignalState

\* The script lets a helper loose only after it has found the volume unused.
LEMMA AloneScript ==
    ASSUME TypeInv, AloneInv, Script, OneMisread, OneMisread'
    PROVE  AloneInv'
<1>1. /\ \A h \in helpers : h \in HelperType /\ h.attached /\ pc \in Waits
      /\ \A g, h \in helpers : g = h
      /\ pc \in Stopped => ~service
      /\ pc \in {"b_unused", "r_unused", "rb_unused"} /\ service => misreads = 1
      /\ pc \in {"confirm", "b_stop"} /\ service => was \/ misreads = 1
      /\ misreads \in {0, 1} /\ misreads' \in {0, 1} /\ service \in BOOLEAN /\ was \in BOOLEAN
      /\ return \in {"none", "r_unmark", "rb_unmark", "abandon", "sig_exit"}
  <2>1. misreads \in Nat /\ misreads' \in Nat
    BY ScriptTypes, BoundAssumption DEF TypeInv, TypeOK, GhostTypeOK
  <2> QED
    BY <2>1 DEF AloneInv, OneMisread, TypeInv, TypeOK, WorldTypeOK, ShellTypeOK
<1> DEFINE Goal == /\ \A h \in helpers' : h.attached /\ pc' \in Waits
                   /\ \A g, h \in helpers' : g = h
                   /\ pc' \in Stopped => ~service'
                   /\ pc' \in {"b_unused", "r_unused", "rb_unused"} /\ service' => misreads' = 1
                   /\ pc' \in {"confirm", "b_stop"} /\ service' => was' \/ misreads' = 1
<1>2. SUFFICES Goal
  BY DEF AloneInv
<1>3. pc \notin Waits => helpers = {}
  BY <1>1
<1>4. ASSUME NEW job, NEW v, Launch(job, v), helpers = {}, pc' \in Waits, ~service
      PROVE  Goal
  <2>1. helpers' = {[job |-> job, at |-> "begun", vol |-> v, archive |-> archive, attached |-> TRUE]}
        /\ service' = service
    BY <1>4 DEF Launch
  <2> QED
    BY <1>4, <2>1 DEF Waits
<1>5. ASSUME NEW h \in Attached, helpers' = helpers \ {h} PROVE helpers' = {}
  BY <1>1, <1>5 DEF Attached
<1> USE <1>1 DEF Waits, Stopped, Works, Fails, Misreads, errorVars, worldVars, shellVars, KeepWorld, Goto, Exit,
                 CallRollback, CallRemove, RollbackFails
<1>6. CASE ReadPending
  BY <1>3, <1>6 DEF ReadPending
<1>7. CASE Probe
  BY <1>3, <1>7 DEF Probe, ProbeService
<1>8. CASE Confirm
  BY <1>3, <1>8 DEF Confirm
<1>9. CASE RestoreBegins
  BY <1>3, <1>9 DEF RestoreBegins, ProbeService
<1>10. CASE BackupStops
  BY <1>3, <1>10 DEF BackupStops, StopService
<1>11. CASE BackupNeedsVolume
  BY <1>3, <1>11 DEF BackupNeedsVolume, EnsureVolumeUnused
<1>12. CASE BackupCreates
  BY <1>3, <1>4, <1>12 DEF BackupCreates
<1>13. CASE BackupCreated
  BY <1>5, <1>13 DEF BackupCreated, Await
<1>14. CASE BackupBails
  BY <1>3, <1>14 DEF BackupBails, StartService
<1>15. CASE BackupStarts
  BY <1>3, <1>15 DEF BackupStarts, StartService
<1>16. CASE RestoreStops
  BY <1>3, <1>16 DEF RestoreStops, StopService
<1>17. CASE RestoreNeedsVolume
  BY <1>3, <1>17 DEF RestoreNeedsVolume, EnsureVolumeUnused
<1>18. CASE CreateVolume
  BY <1>3, <1>18 DEF CreateVolume
<1>19. CASE ValidateVolume
  BY <1>3, <1>19 DEF ValidateVolume
<1>20. CASE Snapshot
  BY <1>3, <1>4, <1>20 DEF Snapshot
<1>21. CASE Snapped
  BY <1>5, <1>21 DEF Snapped, Await
<1>22. CASE WritePending
  BY <1>3, <1>22 DEF WritePending
<1>23. CASE Abandon
  BY <1>3, <1>23 DEF Abandon, RestorePriorState, StartService, StopService
<1>24. CASE Replace
  BY <1>3, <1>4, <1>24 DEF Replace
<1>25. CASE Replaced
  BY <1>5, <1>25 DEF Replaced, Await
<1>26. CASE RestoreStarts
  BY <1>3, <1>26 DEF RestoreStarts, RestorePriorState, StartService, StopService
<1>27. CASE RestoreUnmarks
  BY <1>3, <1>27 DEF RestoreUnmarks, Unmark
<1>28. CASE RestoreDone
  BY <1>3, <1>28 DEF RestoreDone
<1>29. CASE RollbackStops
  BY <1>3, <1>29 DEF RollbackStops, StopService
<1>30. CASE RollbackNeedsVolume
  BY <1>3, <1>30 DEF RollbackNeedsVolume, EnsureVolumeUnused
<1>31. CASE RollbackCopies
  BY <1>3, <1>4, <1>31 DEF RollbackCopies
<1>32. CASE RollbackCopied
  BY <1>5, <1>32 DEF RollbackCopied, Await
<1>33. CASE RollbackStarts
  BY <1>3, <1>33 DEF RollbackStarts, RestorePriorState, StartService, StopService
<1>34. CASE RollbackUnmarks
  BY <1>3, <1>34 DEF RollbackUnmarks, Unmark
<1>35. CASE RemoveValidates
  BY <1>3, <1>35 DEF RemoveValidates
<1>36. CASE RemoveVolume
  BY <1>3, <1>36 DEF RemoveVolume
<1>37. CASE RemoveClears
  BY <1>3, <1>37 DEF RemoveClears
<1>38. CASE SignalPrior
  BY <1>3, <1>38 DEF SignalPrior, RestorePriorState, StartService, StopService
<1>39. CASE SignalStarts
  BY <1>3, <1>39 DEF SignalStarts, StartService
<1>40. CASE SignalExits
  BY <1>3, <1>40 DEF SignalExits
<1> QED
  BY <1>6, <1>7, <1>8, <1>9, <1>10, <1>11, <1>12, <1>13, <1>14, <1>15, <1>16, <1>17, <1>18, <1>19, <1>20, <1>21, <1>22, <1>23, <1>24, <1>25, <1>26, <1>27, <1>28, <1>29, <1>30, <1>31, <1>32, <1>33, <1>34, <1>35, <1>36, <1>37, <1>38, <1>39, <1>40
     DEF Script, Backup, RestoreWallet, Rollback, Signal

\* Every step keeps the helper alone.
LEMMA AloneStep == TypeInv /\ AloneInv /\ [Next]_vars => AloneInv'
<1> SUFFICES ASSUME TypeInv, AloneInv, [Next]_vars, OneMisread'
             PROVE  AloneInv'
  BY DEF AloneInv
<1>1. kills \in Nat /\ misreads \in Nat
  BY BoundAssumption DEF TypeInv, TypeOK, GhostTypeOK
<1>2. \A h \in helpers : h \in HelperType
  BY DEF TypeInv, TypeOK, WorldTypeOK
<1>3. CASE Script
  <2>1. OneMisread
    <3>1. kills' = kills /\ (misreads' = misreads \/ misreads' = misreads + 1)
      BY <1>3, ScriptCounts DEF Script, outerVars, Works, Fails, Misreads, errorVars
    <3> QED
      BY <1>1, <3>1 DEF OneMisread
  <2> QED
    BY <1>3, <2>1, AloneScript
<1>4. CASE Kill \/ PowerLoss
  <2>1. kills' = kills + 1
    BY <1>4 DEF Kill, PowerLoss
  <2> QED
    BY <1>1, <2>1 DEF OneMisread
<1>5. CASE Invoke
  BY <1>5 DEF Invoke, Begin, AloneInv, OneMisread, Waits, Stopped, worldVars, errorVars
<1>6. CASE OnSignal
  <2>1. UNCHANGED <<kills, misreads, service, was>> /\ helpers' = helpers \ Attached
        /\ pc' \in {"rb_stop", "sig_prior", "sig_start"}
    BY <1>6 DEF OnSignal, worldVars, errorVars
  <2>2. helpers' = {}
    BY <2>1 DEF AloneInv, OneMisread, Attached
  <2> QED
    BY <2>1, <2>2 DEF AloneInv, Stopped
<1>7. CASE UserToggles \/ UNCHANGED vars
  BY <1>7 DEF UserToggles, vars, worldVars, errorVars, outerVars, shellVars, AloneInv, OneMisread, Waits, Stopped
<1>8. ASSUME NEW h \in helpers, HelperStep(h) PROVE AloneInv'
  <2>1. UNCHANGED <<service, pc, was, kills, misreads>>
    BY <1>8 DEF HelperStep, HelperWrites, HelperSucceeds, HelperRejects, HelperFails, HelperLeaves, Works, Fails,
       shellVars, outerVars, errorVars
  <2>2. PICK at : helpers' = Moved(h, at) \/ helpers' = helpers \ {h}
    BY <1>8 DEF HelperStep, HelperWrites, HelperSucceeds, HelperRejects, HelperFails, HelperLeaves
  <2>3. [h EXCEPT !.at = at].attached = h.attached
    BY <1>2 DEF HelperType
  <2> QED
    BY <2>1, <2>2, <2>3 DEF AloneInv, OneMisread, Moved
<1> QED
  BY <1>3, <1>4, <1>5, <1>6, <1>7, <1>8 DEF Next

\* With any number of failing commands and trapped signals, and one answer of docker
\* that is misread, no helper works on the wallet volume while Electron Cash runs:
\* stop_service and ensure_volume_unused each ask, and one of them is answered.
THEOREM CopiesAreAloneWithSignals == Spec /\ []OneMisread => []ServiceOffDuringCopy
<1>1. Init => AloneInv
  BY DEF Init, AloneInv, Stopped
<1>2. TypeInv /\ AloneInv /\ OneMisread => ServiceOffDuringCopy
  <2> SUFFICES ASSUME AloneInv, OneMisread, NEW h \in helpers PROVE ~service
    BY DEF ServiceOffDuringCopy, InUse
  <2> QED
    BY DEF AloneInv, Waits, Stopped
<1> QED
  BY <1>1, <1>2, TypesAtStart, TypeStep, AloneStep, PTL DEF Spec

\* Each step of the script goes where a signal would find what it expects.
LEMMA SignalScript ==
    ASSUME TypeInv, AloneInv, SignalState, Script, OnlySignals, OnlySignals'
    PROVE  SignalState'
<1>1. /\ rv \in Volumes \cup {None} /\ return \in {"none", "r_unmark", "rb_unmark", "abandon", "sig_exit"}
      /\ op \in {"none", "backup", "restore"} /\ service \in BOOLEAN /\ was \in BOOLEAN /\ active \in BOOLEAN
      /\ trapped \in BOOLEAN /\ before.service \in BOOLEAN
      /\ pc \in Mounting => rv \in Volumes
      /\ None \notin Volumes /\ owned \subseteq Volumes
      /\ marker \in [vol : Volumes, running : BOOLEAN] \cup {None}
  BY VolumeAssumption DEF TypeInv, TypeOK, WorldTypeOK, ShellTypeOK, GhostTypeOK, PlaceInv, ShellPlaces
<1>2. /\ \A h \in helpers : h \in HelperType /\ pc \in Waits
      /\ pc \in Stopped \cup {"b_unused", "r_unused", "rb_unused"} => ~service
  <2>1. OneMisread /\ misreads # 1
    BY DEF OnlySignals, OneMisread
  <2> QED
    BY <2>1 DEF AloneInv, TypeInv, TypeOK, WorldTypeOK
<1>3. Works /\ ~Fails /\ ~Misreads /\ UNCHANGED before
  BY ScriptCounts DEF OnlySignals, Works, Fails, Misreads, errorVars, Script, outerVars
<1>4. pc \notin Waits => helpers = {}
  BY <1>2
<1>5. ASSUME NEW job, NEW v, Launch(job, v)
      PROVE  /\ UNCHANGED <<wallet, service, owned, marker>>
             /\ \A h \in helpers' : h \in helpers \/ h.at = "begun"
  BY <1>5 DEF Launch
<1>6. ASSUME NEW h \in Attached, ~Busy(h) PROVE h.at = "ok"
  BY <1>2, <1>6 DEF Attached, Busy, HelperType, SignalState, SignalPath
<1> USE <1>1, <1>3 DEF SignalState, SignalMarker, SignalPath, SignalService, Handling, Undoing, Ending, Leaving,
        Before, Marked, RollingBack, Removing, Restoring, BackingUp, Mounting, Waits, Stopped, worldVars, shellVars,
        KeepWorld, Goto, Exit, CallRollback, CallRemove, RollbackFails
<1>7. CASE ReadPending
  BY <1>7 DEF ReadPending
<1>8. CASE Probe
  BY <1>8 DEF Probe, ProbeService
<1>9. CASE Confirm
  BY <1>9 DEF Confirm
<1>10. CASE RestoreBegins
  BY <1>10 DEF RestoreBegins, ProbeService
<1>11. CASE BackupStops
  BY <1>11 DEF BackupStops, StopService
<1>12. CASE BackupNeedsVolume
  BY <1>2, <1>4, <1>12 DEF BackupNeedsVolume, EnsureVolumeUnused, InUse
<1>13. CASE BackupCreates
  BY <1>5, <1>13 DEF BackupCreates
<1>14. CASE BackupCreated
  BY <1>6, <1>14 DEF BackupCreated, Await
<1>15. CASE BackupBails
  BY <1>15 DEF BackupBails, StartService
<1>16. CASE BackupStarts
  BY <1>16 DEF BackupStarts, StartService
<1>17. CASE RestoreStops
  BY <1>17 DEF RestoreStops, StopService
<1>18. CASE RestoreNeedsVolume
  BY <1>2, <1>4, <1>18 DEF RestoreNeedsVolume, EnsureVolumeUnused, InUse
<1>19. CASE CreateVolume
  BY <1>19 DEF CreateVolume
<1>20. CASE ValidateVolume
  BY <1>20 DEF ValidateVolume
<1>21. CASE Snapshot
  BY <1>5, <1>21 DEF Snapshot
<1>22. CASE Snapped
  BY <1>6, <1>22 DEF Snapped, Await
<1>23. CASE WritePending
  <2>1. pc = "r_mark" /\ rv \in Volumes /\ marker = None
    BY <1>23 DEF WritePending
  <2>2. [vol |-> rv, running |-> was] \in [vol : Volumes, running : BOOLEAN]
    BY <2>1
  <2>3. [vol |-> rv, running |-> was] # None
    BY <2>2, VolumeAssumption
  <2>4. /\ marker' = [vol |-> rv, running |-> was] /\ Goto("r_replace")
        /\ UNCHANGED <<wallet, service, content, owned, helpers>>
    BY <1>23, <2>1 DEF WritePending
  <2> QED
    BY <2>1, <2>3, <2>4
<1>24. CASE Abandon
  BY <1>24 DEF Abandon, RestorePriorState, StartService, StopService
<1>25. CASE Replace
  BY <1>5, <1>25 DEF Replace
<1>26. CASE Replaced
  BY <1>6, <1>26 DEF Replaced, Await
<1>27. CASE RestoreStarts
  BY <1>27 DEF RestoreStarts, RestorePriorState, StartService, StopService
<1>28. CASE RestoreUnmarks
  BY <1>28 DEF RestoreUnmarks, Unmark
<1>29. CASE RestoreDone
  BY <1>29 DEF RestoreDone
<1>30. CASE RollbackStops
  BY <1>30 DEF RollbackStops, StopService
<1>31. CASE RollbackNeedsVolume
  BY <1>2, <1>4, <1>31 DEF RollbackNeedsVolume, EnsureVolumeUnused, InUse
<1>32. CASE RollbackCopies
  BY <1>5, <1>32 DEF RollbackCopies
<1>33. CASE RollbackCopied
  BY <1>6, <1>33 DEF RollbackCopied, Await
<1>34. CASE RollbackStarts
  BY <1>34 DEF RollbackStarts, RestorePriorState, StartService, StopService
<1>35. CASE RollbackUnmarks
  BY <1>35 DEF RollbackUnmarks, Unmark
<1>36. CASE RemoveValidates
  BY <1>36 DEF RemoveValidates
<1>37. CASE RemoveVolume
  BY <1>4, <1>37 DEF RemoveVolume, Mounted
<1>38. CASE RemoveClears
  BY <1>38 DEF RemoveClears
<1>39. CASE SignalPrior
  <2>1. /\ service' = was /\ CallRemove("sig_exit")
        /\ UNCHANGED <<wallet, content, owned, marker, helpers>>
    BY <1>39 DEF SignalPrior, RestorePriorState, StartService, StopService
  <2> QED
    BY <1>39, <2>1 DEF SignalPrior
<1>40. CASE SignalStarts
  <2>1. /\ Goto("sig_exit") /\ UNCHANGED <<owned, marker, helpers>>
        /\ IF was THEN service' = TRUE ELSE UNCHANGED service
    BY <1>40 DEF SignalStarts, StartService
  <2> QED
    BY <1>40, <2>1 DEF SignalStarts
<1>41. CASE SignalExits
  BY <1>41 DEF SignalExits
<1> QED
  BY <1>7, <1>8, <1>9, <1>10, <1>11, <1>12, <1>13, <1>14, <1>15, <1>16, <1>17, <1>18, <1>19, <1>20, <1>21, <1>22, <1>23, <1>24, <1>25, <1>26, <1>27, <1>28, <1>29, <1>30, <1>31, <1>32, <1>33, <1>34, <1>35, <1>36, <1>37, <1>38, <1>39, <1>40, <1>41
     DEF Script, Backup, RestoreWallet, Rollback, Signal

\* The handler is entered where what it will find is known.
LEMMA SignalArrives ==
    ASSUME TypeInv, AloneInv, SignalState, OnSignal, OnlySignals
    PROVE  SignalState'
<1>1. /\ UNCHANGED <<worldVars, op, archive, was, active, rv, return, exit, before>>
      /\ trapped /\ ~trapped' /\ pc # "idle" /\ helpers' = helpers \ Attached
  BY DEF OnSignal
<1>2. /\ pc \in Mounting => rv \in Volumes
      /\ None \notin Volumes
      /\ marker \in [vol : Volumes, running : BOOLEAN] \cup {None}
      /\ active \in BOOLEAN /\ was \in BOOLEAN /\ service \in BOOLEAN /\ before.service \in BOOLEAN
  BY VolumeAssumption DEF TypeInv, TypeOK, WorldTypeOK, ShellTypeOK, GhostTypeOK, PlaceInv, ShellPlaces
<1>3. ~Undoing /\ ~Handling
  BY <1>1 DEF SignalState, SignalPath
<1> USE <1>1, <1>2, <1>3 DEF worldVars, SignalState, SignalMarker, SignalPath, SignalService, Handling, Undoing,
        Ending, Leaving, Before, Marked, RollingBack, Removing, Restoring, BackingUp, Mounting
<1>4. /\ marker # None /\ active => pc \in {"r_replace", "r_wait", "r_prior"} \/ Ending
      /\ active => pc \in {"r_replace", "r_wait", "r_prior", "r_done"} \/ Ending \/ was = before.service
  OBVIOUS
<1>5. CASE active /\ rv # None /\ marker # None
  <2>1. pc' = "rb_stop" /\ caller' = "signal"
    BY <1>5 DEF OnSignal
  <2>2. rv = marker.vol /\ was = before.service
    BY <1>4, <1>5
  <2> QED
    BY <1>5, <2>1, <2>2
<1>6. CASE active /\ ~(rv # None /\ marker # None)
  <2>1. pc' = "sig_prior"
    BY <1>6 DEF OnSignal
  <2>2. was = before.service /\ (marker # None => marker.vol \notin owned)
    BY <1>4, <1>6
  <2>3. marker # None => marker.running = before.service
    OBVIOUS
  <2> QED
    BY <2>1, <2>2, <2>3
<1>7. CASE ~active
  <2>1. pc' = "sig_start"
    BY <1>7 DEF OnSignal
  <2>2. pc \in BackingUp \cup {"pending", "probe", "confirm", "r_active"}
    BY <1>7
  <2>3. /\ IF was THEN before.service = TRUE ELSE service = before.service
        /\ marker # None => marker.vol \notin owned
        /\ marker # None => marker.running = before.service
    BY <2>2
  <2> QED
    BY <2>1, <2>3
<1> QED
  BY <1>5, <1>6, <1>7

\* Every step keeps that, while nothing but signals disturbs the script.
LEMMA SignalStep == TypeInv /\ AloneInv /\ SignalInv /\ [Next]_vars => SignalInv'
<1> SUFFICES ASSUME TypeInv, AloneInv, SignalInv, [Next]_vars, OnlySignals'
             PROVE  SignalState'
  BY DEF SignalInv
<1>1. kills \in Nat /\ misreads \in Nat /\ faults \in Nat
  BY BoundAssumption DEF TypeInv, TypeOK, GhostTypeOK
<1>2. CASE Kill \/ PowerLoss
  <2>1. kills' = kills + 1
    BY <1>2 DEF Kill, PowerLoss
  <2> QED
    BY <1>1, <2>1 DEF OnlySignals
<1>3. CASE Script
  <2>1. OnlySignals
    BY <1>1, <1>3, ScriptCounts DEF OnlySignals, Script, outerVars, Works, Fails, Misreads, errorVars
  <2> QED
    BY <1>3, <2>1, SignalScript DEF SignalInv
<1>4. CASE OnSignal
  <2>1. OnlySignals
    BY <1>4 DEF OnSignal, OnlySignals, errorVars
  <2> QED
    BY <1>4, <2>1, SignalArrives DEF SignalInv
<1>5. CASE Invoke
  <2>1. /\ pc = "idle" /\ pc' = "pending" /\ UNCHANGED <<worldVars, helpers, was, active, rv, caller, return>>
        /\ before'.service = IF marker = None THEN service ELSE marker.running
        /\ UNCHANGED <<kills, faults, misreads>>
    BY <1>5 DEF Invoke, Begin, errorVars
  <2>2. SignalState
    BY <2>1 DEF OnlySignals, SignalInv
  <2> QED
    BY <2>1, <2>2 DEF worldVars, SignalState, SignalMarker, SignalPath, SignalService, Handling, Undoing,
       Ending, Leaving, Before, Marked, RollingBack, Removing, Restoring, BackingUp
<1>6. CASE UserToggles \/ UNCHANGED vars
  <2>1. UNCHANGED <<pc, marker, owned, helpers, was, active, return, caller, rv, trapped, before, kills, faults, misreads>>
        /\ (UNCHANGED service \/ (pc = "idle" /\ marker = None))
    BY <1>6 DEF UserToggles, vars, worldVars, shellVars, errorVars, outerVars
  <2>2. SignalState
    BY <2>1 DEF OnlySignals, SignalInv
  <2>3. CASE UNCHANGED service
    BY <2>1, <2>2, <2>3 DEF SignalState, SignalMarker, SignalPath, SignalService, Handling, Undoing,
       Ending, Leaving
  <2>4. CASE pc = "idle" /\ marker = None
    BY <2>1, <2>2, <2>4 DEF SignalState, SignalMarker, SignalPath, SignalService, Handling, Undoing,
       Ending, Leaving, Removing, RollingBack, BackingUp
  <2> QED
    BY <2>1, <2>3, <2>4
<1>7. ASSUME NEW h \in helpers, HelperStep(h) PROVE SignalState'
  <2>1. /\ UNCHANGED <<pc, service, marker, owned, was, active, return, caller, rv, trapped, before, kills>>
        /\ Works \/ Fails
    BY <1>7 DEF HelperStep, HelperWrites, HelperSucceeds, HelperRejects, HelperFails, HelperLeaves, shellVars, outerVars
  <2>2. Works /\ ~Fails /\ OnlySignals
    BY <1>1, <2>1 DEF Works, Fails, errorVars, OnlySignals
  <2>3. \A g \in helpers' : g \in helpers \/ g.at # "failed"
    <3>1. h \in HelperType
      BY DEF TypeInv, TypeOK, WorldTypeOK
    <3> QED
      BY <1>7, <2>2, <3>1 DEF HelperStep, HelperWrites, HelperSucceeds, HelperRejects, HelperFails,
         HelperLeaves, Moved, HelperType
  <2> QED
    BY <2>1, <2>2, <2>3 DEF SignalInv, SignalState, SignalMarker, SignalPath, SignalService, Handling, Undoing,
       Ending, Leaving
<1> QED
  BY <1>2, <1>3, <1>4, <1>5, <1>6, <1>7 DEF Next

\* A trapped signal leaves Electron Cash as it was wherever it arrives, in any
\* invocation, for as long as no command failed, none was misread and nothing was killed.
THEOREM SignalsKeepPriorState == Spec /\ [](kills = 0) => SignalKeepsPriorState
<1>1. Init => AloneInv /\ SignalInv
  BY DEF Init, AloneInv, Stopped, SignalInv, SignalState, SignalMarker, SignalPath, SignalService, Handling, Undoing,
     Ending, Leaving, Before, Marked, RollingBack, Removing, Restoring, BackingUp
<1>2. TypeInv /\ AloneInv /\ SignalInv /\ kills = 0 /\ (kills = 0)' /\ [Next]_vars =>
        [pc # "idle" /\ exit' = "interrupted" /\ faults' = 0 /\ misreads' = 0
           => service' = before.service]_vars
  <2> SUFFICES ASSUME TypeInv, AloneInv, SignalInv, OnlySignals', Next, pc # "idle", exit' = "interrupted"
               PROVE  service' = before.service
    BY DEF OnlySignals
  <2>1. exit = "none" /\ faults \in Nat /\ misreads \in Nat
    BY BoundAssumption DEF TypeInv, TypeOK, PlaceInv, ShellPlaces, GhostTypeOK
  <2>2. Script
    BY <2>1 DEF Next, Invoke, Begin, OnSignal, Kill, PowerLoss, Exit, UserToggles, HelperStep
  <2>3. Works /\ ~Fails /\ OnlySignals
    BY <2>1, <2>2, ScriptCounts DEF OnlySignals, Script, outerVars, Works, Fails, Misreads, errorVars
  <2>4. SignalState
    BY <2>3 DEF SignalInv
  <2>5. UNCHANGED before
    BY <2>2 DEF Script, outerVars
  <2>6. /\ RollbackStops \/ RollbackNeedsVolume \/ RollbackCopied \/ RollbackStarts \/ RollbackUnmarks \/ SignalExits
        /\ pc' = "idle"
    BY <2>1, <2>2 DEF Script, ReadPending, Probe, ProbeService, Confirm, Backup, BackupStops, BackupNeedsVolume,
       BackupCreates, BackupCreated, BackupBails, BackupStarts, RestoreWallet, RestoreBegins, RestoreStops,
       RestoreNeedsVolume, CreateVolume, ValidateVolume, Snapshot, Snapped, WritePending, Abandon, Replace,
       Replaced, RestoreStarts, RestoreUnmarks, Unmark, RestoreDone, Rollback, RollbackStops,
       RollbackNeedsVolume, RollbackCopies, RollbackCopied, RollbackStarts, RollbackUnmarks, RollbackFails,
       RemoveValidates, RemoveVolume, RemoveClears, Signal, SignalPrior, SignalStarts, SignalExits,
       Await, StopService, EnsureVolumeUnused, StartService, RestorePriorState, CallRollback, CallRemove, Goto, Exit,
       shellVars
  <2>7. ~RollbackStops /\ ~RollbackStarts
    BY <2>3, <2>6 DEF RollbackStops, RollbackStarts, RestorePriorState, StartService, StopService, Goto, CallRemove,
       Works, Fails, Misreads, errorVars
  <2>8. ~RollbackNeedsVolume
    <3>1. pc = "rb_unused" => ~service /\ ~InUse
      BY <2>3 DEF AloneInv, OneMisread, OnlySignals, Waits, InUse
    <3> QED
      BY <2>6, <3>1 DEF RollbackNeedsVolume, EnsureVolumeUnused, Goto
  <2>9. ~RollbackCopied
    <3>1. \A h \in helpers : ~Busy(h) => h.at = "ok"
      BY <2>4 DEF TypeInv, TypeOK, WorldTypeOK, HelperType, Busy, SignalState, SignalPath
    <3> QED
      BY <2>6, <3>1 DEF RollbackCopied, Await, Attached, Goto
  <2>10. pc \in {"rb_unmark", "sig_exit"} /\ service' = service
    BY <2>6, <2>7, <2>8, <2>9 DEF RollbackUnmarks, Unmark, SignalExits, KeepWorld, worldVars
  <2> QED
    BY <2>4, <2>5, <2>10 DEF SignalState, SignalService
<1> QED
  BY <1>1, <1>2, TypesAtStart, TypeStep, AloneStep, SignalStep, PTL DEF Spec, SignalKeepsPriorState
=============================================================================
