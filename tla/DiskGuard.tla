----------------------------- MODULE DiskGuard -----------------------------
(***************************************************************************)
(* The disk guard of the acceptance run: a phase is admitted when the free *)
(* space covers its estimate, and is cancelled when a poll finds less than *)
(* the early trigger (scripts/ci.py and scripts/docker_ownership.py).      *)
(* Everybody else fills the same disk.                                     *)
(***************************************************************************)
EXTENDS Naturals

CONSTANTS
    Floor,      \* free space no supervised phase may reach
    Cancel,     \* a poll at or below it cancels the phase
    Peak,       \* the estimate of each phase
    DefaultPeak,
    Size,       \* bound on the free space
    Burst       \* most that disappears from one poll to the end of the next

Phases == DOMAIN Peak

ASSUME LevelsAreNaturals == /\ {Floor, Cancel, DefaultPeak, Size, Burst} \subseteq Nat
                            /\ \A p \in Phases : Peak[p] \in Nat
\* The code refuses a trigger below the floor; its constants leave headroom.
ASSUME CancelAboveFloor == Floor <= Cancel /\ DefaultPeak > 0
\* Polls come every quarter or half second, and a cancelled process has
\* twenty seconds to end: the headroom must outlast them.  This is an assumption
\* on the environment, which FloorKept and everything above it rest on.
ASSUME HeadroomOutlastsPoll == Burst <= Cancel - Floor

VARIABLES
    free,   \* free space of the fullest monitored file system
    cache,  \* space held by the run's own build cache
    job     \* the supervised phase

disk == <<free, cache, job>>

Idle == [pc |-> "idle", phase |-> "none", used |-> 0, others |-> 0, drop |-> 0]
JobPCs == {"idle", "running", "cancelled", "finished"}

\* disk_phase_admission, and no phase below the default
Estimate(p) == IF Peak[p] > DefaultPeak THEN Peak[p] ELSE DefaultPeak
Admission(p) == Floor + Estimate(p) + (Cancel - Floor)

DiskInit == free \in 0 .. Size /\ cache = 0 /\ job = Idle

\* require_build_capacity, then the start of the supervised process
Admit(p) ==
    /\ job.pc = "idle" /\ free >= Admission(p)
    /\ job' = [Idle EXCEPT !.pc = "running", !.phase = p]
    /\ UNCHANGED <<free, cache>>

Refused(p) == job.pc = "idle" /\ free < Admission(p) /\ UNCHANGED disk

\* retain_or_reclaim_completed_cache: the cache goes only when the next phase
\* is not admitted without it.
Reclaim(p) ==
    /\ job.pc = "idle" /\ free < Admission(p) /\ cache > 0
    /\ free' = free + cache /\ cache' = 0
    /\ UNCHANGED job

\* The phase, or somebody else, fills the disk between two polls.  That they
\* take no more than Burst is assumed of the host: nothing in the code bounds
\* what others write, and its headroom is worth as much as this assumption.
Fill(who) ==
    /\ free > 0
    /\ who = "phase" => job.pc = "running"
    /\ job.pc = "running" => job.drop < Burst
    /\ free' = free - 1
    /\ job' = IF job.pc # "running" THEN job
              ELSE [job EXCEPT !.drop = @ + 1,
                               !.used = IF who = "phase" THEN @ + 1 ELSE @,
                               !.others = IF who = "phase" THEN @ ELSE @ + 1]
    /\ UNCHANGED cache

\* Mutant: the poll compares with the hard floor.
PollAtFloor ==
    /\ job.pc = "running"
    /\ job' = IF free <= Floor THEN [job EXCEPT !.pc = "cancelled"] ELSE [job EXCEPT !.drop = 0]
    /\ UNCHANGED <<free, cache>>

\* A poll: at the trigger the process group is terminated, then killed.
Poll ==
    /\ job.pc = "running"
    /\ job' = IF free <= Cancel THEN [job EXCEPT !.pc = "cancelled"] ELSE [job EXCEPT !.drop = 0]
    /\ UNCHANGED <<free, cache>>

\* The process ended; a last sample decides whether the phase counts.
Finish ==
    /\ job.pc = "running"
    /\ job' = [job EXCEPT !.pc = IF free <= Cancel THEN "cancelled" ELSE "finished"]
    /\ UNCHANGED <<free, cache>>

\* The result is taken, or the supervisor is interrupted; some of what the
\* phase used stays as build cache and the rest is given back.
Settle(kept) ==
    /\ job.pc # "idle" /\ kept \in 0 .. job.used
    /\ free' = free + (job.used - kept) /\ cache' = cache + kept
    /\ job' = Idle

DiskNext ==
    \/ \E p \in Phases : Admit(p) \/ Refused(p) \/ Reclaim(p)
    \/ Fill("phase") \/ Fill("others") \/ Poll \/ Finish
    \/ \E kept \in 0 .. job.used : Settle(kept)

\* What the gate's handling of the disk amounts to (require_build_capacity,
\* retain_or_reclaim_completed_cache, checked, _run_build_with_disk_guard).
DiskSpec == DiskInit /\ [][DiskNext]_disk

-----------------------------------------------------------------------------

DiskTypeOK ==
    /\ free \in Nat /\ cache \in Nat
    /\ job \in [pc : JobPCs, phase : Phases \cup {"none"}, used : Nat, others : Nat, drop : Nat]
    /\ free + cache + job.used <= Size

\* While a supervised phase runs the free space stays above the hard floor,
\* whoever fills the disk, as long as nobody outruns the polls
\* (ci.py: "record and stop the exact Docker CLI process before the host floor").
FloorKept == job.pc = "running" => free > Floor

\* A phase is cancelled only when it used its whole estimate or somebody else
\* used the disk meanwhile: what was admitted fits.
AdmittedFits == job.pc = "cancelled" => job.others > 0 \/ job.used >= Estimate(job.phase)

\* The host keeps its floor and no admitted phase is cancelled for its own
\* estimate: what admission asks for and what a poll cancels at agree.
DiskSafe == FloorKept /\ AdmittedFits
=============================================================================
