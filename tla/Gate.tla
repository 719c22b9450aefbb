-------------------------------- MODULE Gate --------------------------------
(***************************************************************************)
(* The local release gate (scripts/ci.py gate and acceptance, with the     *)
(* evidence checks of scripts/release_security.py) and the adapter that    *)
(* publishes its exit status for a commit (scripts/forge/gitlab_gate.py).  *)
(*                                                                         *)
(* The gate runs its steps one after the other on the working tree it      *)
(* found, and calls the result PASS, FAIL or BLOCKED.  Meanwhile somebody  *)
(* edits the tree, uses the same Docker daemon and disk, and reviews the   *)
(* candidate; the gate is interrupted or killed and is started again.      *)
(***************************************************************************)
EXTENDS DiskGuard, Sequences

CONSTANTS
    BuildOrder,     \* the images built, in their order, each a disk phase
    TestOrder,      \* the mandatory tests in their order, each a disk phase
    Reclaimers,     \* the phases before which the build cache may be reclaimed
    Classified,     \* the tests whose failure may be put down to Docker's builder
    Versions,       \* contents the working tree can have
    First,          \* the one it has at first
    MaxEdits,       \* bound on changes of the tree
    MaxForeign,     \* bound on what others do to Docker's resources and the builder
    MaxAttests,     \* bound on attestations
    MaxFaults,      \* bound on failing steps, interrupts, kills, lost posts
    MaxRuns,        \* bound on runs
    Tries           \* attempts to post a status

ASSUME PhasesAreEstimated ==
    /\ First \in Versions
    /\ BuildOrder \in Seq(Phases) /\ TestOrder \in Seq(Phases)
    /\ Reclaimers \cup Classified \cup {"bootstrap", "sast", "source", "scan"} \subseteq Phases

ASSUME BoundsAreNaturals ==
    /\ MaxEdits \in Nat /\ MaxForeign \in Nat /\ MaxAttests \in Nat
    /\ MaxFaults \in Nat /\ MaxRuns \in Nat
    /\ Tries \in Nat \ {0}

Tests == {TestOrder[i] : i \in DOMAIN TestOrder}
Required == {"fast", "advisory", "sast", "scan", "assessment", "acceptance", "review", "final"}

VARIABLES
    src,        \* content of the working tree
    foreign,    \* version of everybody else's Docker resources
    attest,     \* the attestation in the report directory
    own,        \* what this run has created and not removed
    builder,    \* the task's Buildx builder, its record and its lock
    run,        \* the gate process
    manifest,   \* what gate-manifest.json says
    status,     \* the adapter, and the commit status at the forge
    seen,       \* history of this run
    spent       \* bounds used

vars == <<disk, src, foreign, attest, own, builder, run, manifest, status, seen, spent>>
outside == <<src, foreign, attest, status, spent>>

NoAttest == [of |-> "none", rev |-> 0, live |-> FALSE]
NoRun == [pc |-> "off", n |-> 0, frozen |-> "none", base |-> 0, attested |-> NoAttest,
          err |-> "none", denied |-> FALSE, exit |-> "none"]
NoManifest == [overall |-> "none", steps |-> [s \in Required |-> "none"],
               results |-> [t \in Tests |-> "none"], kind |-> "none",
               security |-> "none", cleanup |-> "none"]
NoHistory == [versions |-> {}, infra |-> FALSE, defect |-> FALSE, moved |-> FALSE, reverted |-> FALSE,
              removed |-> FALSE, stray |-> FALSE]

Init ==
    /\ DiskInit
    /\ src = First /\ foreign = 0 /\ attest = NoAttest /\ own = {}
    /\ builder = [id |-> 0, made |-> 0, listed |-> FALSE, record |-> "none", claimed |-> 0,
                  lock |-> "free"]
    /\ run = NoRun /\ manifest = NoManifest /\ seen = NoHistory
    /\ status = [pc |-> "off", sha |-> "none", state |-> "none", tries |-> 0]
    /\ spent = [edits |-> 0, removals |-> 0, attests |-> 0, faults |-> 0, runs |-> 0]

-----------------------------------------------------------------------------
(* Verdicts.                                                               *)

\* gate_overall_status, with validate_mandatory_acceptance_results
Overall(m, failed) ==
    IF failed THEN IF m.kind = "INFRA_FAILURE" THEN "BLOCKED" ELSE "FAIL"
    ELSE IF /\ \A s \in Required : m.steps[s] = "PASS"
            /\ \A t \in Tests : m.results[t] = "PASS"
            /\ m.security = "PASS" /\ m.cleanup = "PASS"
         THEN "PASS" ELSE "FAIL"

\* verify_gate_postcondition: the cleanup, and the security evidence again
Postcondition ==
    /\ manifest.cleanup = "PASS" /\ manifest.security = "PASS"
    /\ attest = run.attested /\ attest.of = run.frozen /\ attest.live

-----------------------------------------------------------------------------
(* Outcomes of a step.                                                     *)

Goto(pc) == run' = [run EXCEPT !.pc = pc]
Raise(pc) == run' = [run EXCEPT !.pc = pc, !.err = "error"]
Use == seen' = [seen EXCEPT !.versions = @ \cup {src}]

\* record_step, and the kind of failure its caller adds: "infra" when a source
\* of advisories, a download or a review is to blame.  Which failures those
\* are is a choice here; the code tells them by the exception or its text.
Recorded(m, s, cause) ==
    [m EXCEPT !.steps[s] = IF cause = "none" THEN "PASS" ELSE "FAIL",
              !.kind = IF cause = "infra" THEN "INFRA_FAILURE" ELSE @]

SpendFault == spent.faults < MaxFaults /\ spent' = [spent EXCEPT !.faults = @ + 1]
Blame(cause) == seen' = [seen EXCEPT !.infra = @ \/ cause = "infra", !.defect = @ \/ cause = "defect"]

Pass(s, next) ==
    /\ run.pc = s
    /\ manifest' = Recorded(manifest, s, "none") /\ Use /\ Goto(next)
    /\ UNCHANGED <<disk, outside, own, builder>>

Fail(s, causes) ==
    /\ run.pc = s /\ SpendFault /\ Raise("identity")
    /\ \E cause \in causes : Blame(cause) /\ manifest' = Recorded(manifest, s, cause)
    /\ UNCHANGED <<disk, src, foreign, attest, status, own, builder>>

\* ensure_trivy is no step: its failure is recorded of the gate alone, as
\* infrastructure when the download server is busy or down.
NoTrivy ==
    /\ run.pc = "scan" /\ SpendFault /\ Raise("identity")
    /\ \E cause \in {"infra", "machine"} :
          /\ Blame(cause)
          /\ manifest' = [manifest EXCEPT !.kind = IF cause = "infra" THEN "INFRA_FAILURE" ELSE @]
    /\ UNCHANGED <<disk, src, foreign, attest, status, own, builder>>

-----------------------------------------------------------------------------
(* The start: two snapshots of the daemon that must agree.                 *)

Start ==
    /\ run.pc = "off" /\ run.exit = "none" /\ status.pc = "gate"
    /\ run' = [NoRun EXCEPT !.pc = "baseline", !.frozen = src]
    /\ manifest' = [NoManifest EXCEPT !.overall = "RUNNING"]
    /\ seen' = [NoHistory EXCEPT !.moved = src # status.sha]
    /\ own' = {} /\ attest' = NoAttest
    /\ UNCHANGED <<disk, src, foreign, status, spent, builder>>

Baseline ==
    /\ run.pc = "baseline"
    /\ run' = [run EXCEPT !.pc = "confirm", !.base = foreign]
    /\ UNCHANGED <<disk, outside, own, builder, manifest, seen>>

Confirm ==
    /\ run.pc = "confirm"
    /\ IF foreign # run.base \/ free <= Floor
       THEN /\ manifest' = [manifest EXCEPT !.overall = "FAIL"]
            /\ run' = [run EXCEPT !.pc = "off", !.exit = "bad"]
       ELSE Goto("fast") /\ UNCHANGED manifest
    /\ UNCHANGED <<disk, outside, own, builder, seen>>

Current == TestOrder[run.n + 1]
Result(st) == manifest' = [manifest EXCEPT !.results[Current] = st]

\* The first test runs outside every handler: its entry stays as it was begun.
Unpassed == IF run.n = 0 THEN "RUNNING" ELSE "FAIL"

\* require_build_capacity: a phase that does not fit is not begun.  The first
\* and the last test are entered before the disk is measured, the others after.
NoCapacity(pc, phase, handler) ==
    /\ run.pc = pc /\ Refused(phase) /\ (phase \in Reclaimers => cache = 0)
    /\ Raise(handler)
    /\ builder' = [builder EXCEPT !.lock = IF pc \in {"reserve", "create"} THEN "free" ELSE @]
    /\ CASE pc \in {"reserve", "create"} -> manifest' = Recorded(manifest, "acceptance", "machine")
         [] pc = "tests" /\ Current \notin Reclaimers -> Result(Unpassed)
         [] OTHER -> UNCHANGED manifest
    /\ UNCHANGED <<outside, own, seen>>

\* retain_or_reclaim_completed_cache
ReclaimCache(phase) ==
    /\ Reclaim(phase) /\ phase \in Reclaimers
    /\ UNCHANGED <<outside, own, builder, run, manifest, seen>>

-----------------------------------------------------------------------------
(* Acceptance: the daemon is compared again, then the builder is claimed.  *)

Snapshots ==
    /\ run.pc = "snapshots"
    /\ IF foreign # run.base
       THEN Raise("identity") /\ manifest' = Recorded(manifest, "acceptance", "drift")
       ELSE Goto("claim") /\ UNCHANGED manifest
    /\ UNCHANGED <<disk, outside, own, builder, seen>>

\* The builder is used by whoever holds its lock.
ClaimBuilder ==
    /\ run.pc = "claim"
    /\ IF builder.lock # "free"
       THEN /\ Raise("identity") /\ manifest' = Recorded(manifest, "acceptance", "busy")
            /\ UNCHANGED builder
       ELSE /\ builder' = [builder EXCEPT !.lock = "gate"]
            /\ Goto(CASE builder.record = "none" -> "reserve"
                      [] builder.listed -> "ready"
                      [] OTHER -> "create")
            /\ UNCHANGED manifest
    /\ UNCHANGED <<disk, outside, own, seen>>

\* The record is on disk before the builder is created.
ReserveBuilder ==
    /\ run.pc = "reserve" /\ free >= Admission("source")
    /\ builder' = [builder EXCEPT !.record = "creating"]
    /\ Goto("create")
    /\ UNCHANGED <<disk, outside, own, manifest, seen>>

\* A container of the builder, started by its creation or by a later use.
Booted == [builder EXCEPT !.id = builder.made + 1, !.made = @ + 1, !.listed = TRUE]

CreateBuilder ==
    /\ run.pc = "create" /\ free >= Admission("bootstrap")
    /\ builder' = Booted
    /\ Goto("ready")
    /\ UNCHANGED <<disk, outside, own, manifest, seen>>

\* Mutant: whatever container answers to the name is adopted.
AdoptBuilder ==
    /\ run.pc = "ready" /\ Goto("build")
    /\ builder' = [builder EXCEPT !.record = "ready"]
    /\ UNCHANGED <<disk, outside, own, manifest, seen>>

\* A container that is not the recorded one is refused, now and ever after.
\* One that was never recorded may be missing: its first use starts another.
IsClaimed == builder.listed /\ builder.claimed \in {0, builder.id}

BuilderReady ==
    /\ run.pc = "ready"
    /\ IF IsClaimed
       THEN /\ builder' = [builder EXCEPT !.record = "ready", !.claimed = builder.id]
            /\ Goto("build") /\ UNCHANGED manifest
       ELSE /\ builder' = [builder EXCEPT !.lock = "free"]
            /\ Raise("identity") /\ manifest' = Recorded(manifest, "acceptance", "identity")
    /\ UNCHANGED <<disk, outside, own, seen>>

-----------------------------------------------------------------------------
(* The images, each a supervised phase, built from the tree as it is now.  *)

\* Buildx starts the container of a listed builder that has none.
BeginBuild ==
    /\ run.pc = "build" /\ run.n < Len(BuildOrder) /\ Admit(BuildOrder[run.n + 1])
    /\ builder.listed
    /\ builder' = IF builder.id = 0 THEN Booted ELSE builder
    /\ own' = own \cup {"images"}
    /\ seen' = [seen EXCEPT !.versions = @ \cup {src},
                            !.stray = @ \/ builder'.claimed \notin {0, builder'.id}]
    /\ Goto("building")
    /\ UNCHANGED <<outside, manifest>>

\* A build that was cancelled or failed is an event the cleanup reports.
EndBuild ==
    /\ run.pc = "building" /\ job.pc \in {"finished", "cancelled"}
    /\ \E kept \in 0 .. job.used : Settle(kept)
    /\ \/ /\ job.pc = "finished" /\ run' = [run EXCEPT !.n = @ + 1, !.pc = "build"]
          /\ UNCHANGED <<spent, seen>>
       \/ /\ run' = [run EXCEPT !.pc = "cleanup", !.err = "error", !.denied = TRUE]
          /\ \/ job.pc = "finished" /\ SpendFault /\ Blame("defect")
             \/ (job.pc = "cancelled" \/ builder.id = 0) /\ UNCHANGED <<spent, seen>>
    /\ UNCHANGED <<src, foreign, attest, status, own, builder, manifest>>

\* task_builder_cache_inventory, before a build or a test, or the build itself
\* finds no builder.
BuilderMissing ==
    /\ builder.id = 0 /\ Raise("cleanup")
    /\ \/ run.pc = "build" /\ run.n < Len(BuildOrder)
       \/ run.pc = "tests" /\ run.n < Len(TestOrder) /\ Current \in Reclaimers
    /\ UNCHANGED <<disk, outside, own, builder, manifest, seen>>

\* The scans of the images, under the vulnerability policy.
ScanImages ==
    /\ run.pc = "build" /\ run.n = Len(BuildOrder) /\ free >= Admission("scan")
    /\ \/ run' = [run EXCEPT !.pc = "await", !.n = 0] /\ UNCHANGED <<spent, seen>>
       \/ SpendFault /\ Blame("defect") /\ Raise("cleanup")
    /\ UNCHANGED <<disk, src, foreign, attest, status, own, builder, manifest>>

-----------------------------------------------------------------------------
(* The review: an attestation written by somebody who saw the inventory.   *)

\* SecurityBlocked
Block ==
    /\ Raise("cleanup") /\ Blame("infra")
    /\ manifest' = [manifest EXCEPT !.kind = "INFRA_FAILURE"]

\* Mutant: the wait has no deadline.
AwaitForever ==
    /\ run.pc = "await" /\ attest.of # "none" /\ Goto("evaluate")
    /\ UNCHANGED <<disk, outside, own, builder, manifest, seen>>

\* await_external_review, until its deadline
AwaitReview ==
    /\ run.pc = "await"
    /\ \/ attest.of # "none" /\ Goto("evaluate") /\ UNCHANGED <<manifest, seen>>
       \/ attest.of = "none" /\ Block
    /\ UNCHANGED <<disk, outside, own, builder>>

\* official_preflight with the attestation, whose digest is kept
EvaluateSources ==
    /\ run.pc = "evaluate"
    /\ IF attest.of = run.frozen /\ attest.live
       THEN run' = [run EXCEPT !.pc = "assessment", !.attested = attest] /\ UNCHANGED <<manifest, seen>>
       ELSE Block
    /\ UNCHANGED <<disk, outside, own, builder>>

\* complete_security: one that belongs elsewhere or expired blocks, one that
\* was replaced fails.
Assess ==
    /\ run.pc = "assessment"
    /\ CASE attest = run.attested ->
              /\ Use /\ Goto("tests")
              /\ manifest' = [Recorded(manifest, "assessment", "none") EXCEPT !.security = "PASS"]
         [] attest.of # run.frozen \/ ~attest.live ->
              /\ Raise("cleanup") /\ Blame("infra")
              /\ manifest' = [Recorded(manifest, "assessment", "infra") EXCEPT !.security = "BLOCKED"]
         [] OTHER ->
              /\ Raise("cleanup") /\ UNCHANGED seen
              /\ manifest' = [Recorded(manifest, "assessment", "replaced") EXCEPT !.security = "FAIL"]
    /\ UNCHANGED <<disk, outside, own, builder>>

-----------------------------------------------------------------------------
(* The tests, each a supervised phase on the images built before.          *)

\* Mutant: a test begins whatever the disk holds.
BeginTestUnmeasured ==
    /\ run.pc = "tests" /\ run.n < Len(TestOrder) /\ job.pc = "idle"
    /\ job' = [Idle EXCEPT !.pc = "running", !.phase = Current]
    /\ Result("RUNNING") /\ Use /\ Goto("testing")
    /\ own' = own \cup {"tests"}
    /\ UNCHANGED <<free, cache, outside, builder>>

BeginTest ==
    /\ run.pc = "tests" /\ run.n < Len(TestOrder) /\ Admit(Current)
    /\ Result("RUNNING") /\ Use /\ Goto("testing")
    /\ own' = own \cup {"tests"}
    /\ UNCHANGED <<outside, builder>>

\* A mandatory test that this host cannot run counts as failed.
SkipTest ==
    /\ run.pc = "tests" /\ run.n < Len(TestOrder) /\ Current \in Reclaimers
    /\ SpendFault /\ Raise("cleanup") /\ Result("FAIL")
    /\ UNCHANGED <<disk, src, foreign, attest, status, own, builder, seen>>

\* Some failures of the tests of the default builder are not the candidate's.
EndTest ==
    /\ run.pc = "testing" /\ job.pc \in {"finished", "cancelled"}
    /\ \E kept \in 0 .. job.used : Settle(kept)
    /\ \/ /\ job.pc = "finished" /\ Result("PASS")
          /\ run' = [run EXCEPT !.n = @ + 1, !.pc = "tests"]
          /\ UNCHANGED <<spent, seen>>
       \/ /\ job.pc = "cancelled" /\ Result(Unpassed) /\ Raise("cleanup")
          /\ UNCHANGED <<spent, seen>>
       \/ /\ job.pc = "finished" /\ Raise("cleanup") /\ SpendFault
          /\ \E cause \in {"defect"} \cup {"infra" : t \in {Current} \cap Classified} :
                /\ Blame(cause)
                /\ manifest' = [manifest EXCEPT !.results[Current] = Unpassed,
                                    !.kind = IF cause = "infra" THEN "INFRA_FAILURE" ELSE @]
    /\ UNCHANGED <<src, foreign, attest, status, own, builder>>

\* All results are validated, and the tags must still name the tested images.
TestsDone ==
    /\ run.pc = "tests" /\ run.n = Len(TestOrder)
    /\ \/ Goto("cleanup") /\ UNCHANGED spent
       \/ SpendFault /\ Raise("cleanup")
    /\ UNCHANGED <<disk, src, foreign, attest, status, own, builder, manifest, seen>>

-----------------------------------------------------------------------------
(* The finally block of the acceptance; Ownership has the removal itself.  *)

\* After an interrupt nothing is raised: the step stays as it was begun.
Cleaned(clean) ==
    LET good == clean /\ run.err = "none"
    IN  /\ manifest' = [manifest EXCEPT !.cleanup = IF clean THEN "PASS" ELSE "FAIL",
                !.steps["acceptance"] = IF run.err = "interrupt" THEN @ ELSE IF good THEN "PASS" ELSE "FAIL"]
        /\ run' = [run EXCEPT !.pc = IF good THEN "review" ELSE "identity",
                              !.err = IF @ = "none" /\ ~clean THEN "error" ELSE @]

Removal ==
    /\ run.pc = "cleanup" /\ job.pc = "idle"
    /\ \/ own' = {} /\ UNCHANGED spent
       \/ UNCHANGED own /\ SpendFault
    /\ builder' = [builder EXCEPT !.lock = "free", !.claimed = IF IsClaimed THEN builder.id ELSE @]
    /\ UNCHANGED <<disk, src, foreign, attest, status, seen>>

Untouched == foreign = run.base /\ free > Floor /\ ~run.denied

\* Mutant: what could not be removed is not looked for.
CleanupUnverified == Removal /\ Cleaned(Untouched /\ IsClaimed)

\* The builder's record is read again before the daemon is compared.
Cleanup == Removal /\ Cleaned(own' = {} /\ Untouched /\ IsClaimed)

-----------------------------------------------------------------------------
(* The end: the postcondition, the identity of the candidate, the verdict. *)

FinalStep ==
    /\ run.pc = "final"
    /\ IF Postcondition THEN manifest' = Recorded(manifest, "final", "none") /\ Goto("identity")
                        ELSE manifest' = Recorded(manifest, "final", "stale") /\ Raise("identity")
    /\ UNCHANGED <<disk, outside, own, builder, seen>>

\* Mutant: the tree is not compared with the one the gate began on.
PublishUnfrozen ==
    /\ run.pc = "identity"
    /\ LET m == IF manifest.steps["final"] # "none" THEN manifest
                ELSE Recorded(manifest, "final", IF Postcondition THEN "none" ELSE "stale")
           overall == Overall(m, run.err = "error")
       IN  /\ manifest' = [m EXCEPT !.overall = overall]
           /\ run' = [run EXCEPT !.pc = "off",
                        !.exit = IF overall = "PASS" /\ run.err = "none" THEN "ok" ELSE "bad"]
    /\ builder' = [builder EXCEPT !.lock = IF @ = "gate" THEN "free" ELSE @]
    /\ UNCHANGED <<disk, outside, own, seen>>

\* The finally block of the gate.  An interrupt is no error for the verdict;
\* it left its step unfinished, and the process ends by the exception.
Publish ==
    /\ run.pc = "identity"
    /\ LET m == IF manifest.steps["final"] # "none" THEN manifest
                ELSE Recorded(manifest, "final", IF Postcondition THEN "none" ELSE "stale")
           overall == Overall(m, \/ run.err = "error" \/ src # run.frozen
                                 \/ manifest.steps["final"] = "none" /\ ~Postcondition)
       IN  /\ manifest' = [m EXCEPT !.overall = overall]
           /\ run' = [run EXCEPT !.pc = "off",
                        !.exit = IF overall = "PASS" /\ run.err = "none" THEN "ok" ELSE "bad"]
    /\ builder' = [builder EXCEPT !.lock = IF @ = "gate" THEN "free" ELSE @]
    /\ UNCHANGED <<disk, outside, own, seen>>

-----------------------------------------------------------------------------
(* Interruption and kill.                                                  *)

Setup == {"snapshots", "claim", "reserve", "create", "ready"}
InAcceptance == {"build", "building", "await", "evaluate", "assessment", "tests", "testing", "cleanup"}

GiveUp == IF job.pc = "idle" THEN UNCHANGED disk ELSE Settle(0)

\* Ctrl-C, with or without the adapter: the acceptance still cleans up and
\* the gate still publishes, unless that is what was interrupted.
Interrupt ==
    /\ run.pc # "off" /\ SpendFault /\ GiveUp
    /\ LET next == CASE run.pc \in {"baseline", "confirm", "identity"} -> "off"
                     [] run.pc \in InAcceptance \ {"cleanup"} -> "cleanup"
                     [] OTHER -> "identity"
       IN  run' = [run EXCEPT !.pc = next, !.err = IF @ = "none" THEN "interrupt" ELSE @,
                              !.exit = IF next = "off" THEN "bad" ELSE @]
    /\ manifest' = [manifest EXCEPT !.steps = [s \in Required |->
            IF s = run.pc \/ (s = "acceptance" /\ run.pc \in Setup \cup InAcceptance)
            THEN "RUNNING" ELSE manifest.steps[s]]]
    /\ builder' = [builder EXCEPT !.lock = IF @ = "gate" /\ run'.pc # "cleanup" THEN "free" ELSE @]
    /\ \E pc \in {status.pc, "off"} : status' = [status EXCEPT !.pc = pc]
    /\ UNCHANGED <<src, foreign, attest, own, seen>>

\* SIGTERM, SIGKILL or power loss: no handler runs; the kernel drops the lock.
Kill ==
    /\ run.pc # "off" /\ SpendFault /\ GiveUp
    /\ run' = [run EXCEPT !.pc = "off", !.exit = "bad"]
    /\ builder' = [builder EXCEPT !.lock = IF @ = "gate" THEN "free" ELSE @]
    /\ UNCHANGED <<src, foreign, attest, status, own, manifest, seen>>

-----------------------------------------------------------------------------
(* Everybody else.  A change that nobody looks at makes no difference: each *)
(* is made just before one of the steps that read what it changes.         *)

Edit ==
    /\ run.pc \in {"off", "fast", "scan", "build", "assessment", "tests", "review", "identity"}
    /\ spent.edits < MaxEdits /\ spent' = [spent EXCEPT !.edits = @ + 1]
    /\ src' \in Versions \ {src}
    /\ seen' = [seen EXCEPT !.reverted = @ \/ src' = run.frozen]
    /\ UNCHANGED <<disk, foreign, attest, own, builder, run, manifest, status>>

\* Resources of others change, or another session takes or leaves the builder.
OthersUseDocker ==
    /\ \/ /\ run.pc \in {"confirm", "snapshots", "cleanup"}
          /\ foreign < MaxForeign /\ foreign + spent.removals < MaxForeign
          /\ foreign' = foreign + 1 /\ UNCHANGED builder
       \/ /\ run.pc = "claim" /\ builder.lock # "gate"
          /\ builder' = [builder EXCEPT !.lock = IF @ = "free" THEN "other" ELSE "free"]
          /\ UNCHANGED foreign
    /\ UNCHANGED <<disk, src, attest, status, spent, own, run, manifest, seen>>

\* Somebody removes the builder before a run claims it, or its container while
\* the run uses it, between the builds or in one.
RemoveBuilder ==
    /\ run.pc \in {"claim", "build", "building"}
    /\ builder.id # 0 /\ foreign + spent.removals < MaxForeign
    /\ spent' = [spent EXCEPT !.removals = @ + 1]
    /\ builder' = [builder EXCEPT !.id = 0, !.listed = run.pc # "claim"]
    /\ seen' = [seen EXCEPT !.removed = @ \/ run.pc # "claim"]
    /\ UNCHANGED <<disk, src, foreign, attest, status, own, run, manifest>>

\* A reviewer writes or replaces the attestation, for this candidate or
\* another; its seven days, or the day of its receipts, run out.
Review ==
    /\ run.pc \in {"await", "evaluate", "assessment", "final"} /\ spent.attests < MaxAttests
    /\ spent' = [spent EXCEPT !.attests = @ + 1]
    /\ \/ \E v \in Versions : attest' = [of |-> v, rev |-> attest.rev + 1, live |-> TRUE]
       \/ attest.live /\ attest' = [attest EXCEPT !.live = FALSE]
    /\ UNCHANGED <<disk, src, foreign, own, builder, run, manifest, status, seen>>

\* The disk; what it held when the run began covers the steps before the builds.
DiskMoves ==
    /\ run.pc \in {"build", "building", "tests", "testing", "cleanup"}
    /\ Fill("phase") \/ Fill("others") \/ Poll \/ Finish
    /\ UNCHANGED <<outside, own, builder, run, manifest, seen>>

-----------------------------------------------------------------------------
(* The adapter: the SHA of the clean tree, a pending status, the gate, and *)
(* its result.  A post is tried again after a conflict or a server error;  *)
(* an answer that is lost ends the adapter, whatever the forge recorded.   *)

AdapterReads ==
    /\ status.pc = "off" /\ run.pc = "off" /\ spent.runs < MaxRuns
    /\ spent' = [spent EXCEPT !.runs = @ + 1]
    /\ status' = [pc |-> "pending", sha |-> src, tries |-> 0,
                  state |-> IF src = status.sha THEN status.state ELSE "none"]
    /\ run' = [run EXCEPT !.exit = "none"]
    /\ UNCHANGED <<disk, src, foreign, attest, own, builder, manifest, seen>>

Post(pc, state, next) ==
    /\ status.pc = pc
    /\ \/ status' = [status EXCEPT !.state = state, !.pc = next, !.tries = 0]
          /\ UNCHANGED spent
       \/ /\ SpendFault
          /\ \/ status' = [status EXCEPT !.tries = (@ + 1) % Tries,
                                         !.pc = IF status.tries + 1 = Tries THEN "off" ELSE @]
             \/ \E recorded \in {state, status.state} :
                    status' = [status EXCEPT !.state = recorded, !.pc = "off"]
    /\ UNCHANGED <<disk, src, foreign, attest, own, builder, run, manifest, seen>>

PostPending == Post("pending", "pending", "gate")

GateReturns ==
    /\ status.pc = "gate" /\ run.pc = "off" /\ run.exit # "none"
    /\ status' = [status EXCEPT !.pc = "final"]
    /\ UNCHANGED <<disk, src, foreign, attest, spent, own, builder, run, manifest, seen>>

\* Mutant: what is not a failure is a success.
PostUnlessFailed == Post("final", IF manifest.overall = "FAIL" THEN "failed" ELSE "success", "off")

PostFinal == Post("final", IF run.exit = "ok" THEN "success" ELSE "failed", "off")

-----------------------------------------------------------------------------

GateSteps ==
    \/ Start \/ Baseline \/ Confirm
    \/ Pass("fast", "advisory") \/ Pass("advisory", "sast")
    \/ free >= Admission("sast") /\ Pass("sast", "scan")
    \/ free >= Admission("source") /\ Pass("scan", "snapshots")
    \/ NoCapacity("sast", "sast", "identity") \/ NoCapacity("scan", "source", "identity")
    \/ Snapshots \/ ClaimBuilder \/ ReserveBuilder \/ CreateBuilder \/ BuilderReady
    \/ NoCapacity("reserve", "source", "identity") \/ NoCapacity("create", "bootstrap", "identity")
    \/ BeginBuild \/ EndBuild \/ BuilderMissing \/ ScanImages \/ AwaitReview \/ EvaluateSources \/ Assess
    \/ run.n < Len(BuildOrder) /\ NoCapacity("build", BuildOrder[run.n + 1], "cleanup")
    \/ run.n = Len(BuildOrder) /\ NoCapacity("build", "scan", "cleanup")
    \/ BeginTest \/ EndTest \/ TestsDone
    \/ run.n < Len(TestOrder) /\ NoCapacity("tests", Current, "cleanup")
    \/ run.pc = "build" /\ run.n < Len(BuildOrder) /\ ReclaimCache(BuildOrder[run.n + 1])
    \/ run.pc = "build" /\ run.n = Len(BuildOrder) /\ ReclaimCache("scan")
    \/ run.pc = "tests" /\ run.n < Len(TestOrder) /\ ReclaimCache(Current)
    \/ Cleanup \/ Pass("review", "final") \/ FinalStep \/ Publish

Faults ==
    \/ Fail("fast", {"defect"}) \/ Fail("advisory", {"defect", "infra"}) \/ Fail("sast", {"defect"})
    \/ NoTrivy \/ Fail("scan", {"defect"}) \/ Fail("review", {"defect"})
    \/ SkipTest \/ Interrupt \/ Kill

Environment == Edit \/ OthersUseDocker \/ RemoveBuilder \/ Review \/ DiskMoves

Adapter == AdapterReads \/ PostPending \/ GateReturns \/ PostFinal

Next == GateSteps \/ Faults \/ Environment \/ Adapter

Spec == Init /\ [][Next]_vars

\* The gate is one process that goes on, and so is every phase it supervises.
FairSpec == Spec /\ WF_vars(GateSteps) /\ WF_vars(Finish /\ DiskMoves)

-----------------------------------------------------------------------------

TypeOK ==
    /\ DiskTypeOK
    /\ src \in Versions /\ foreign \in 0 .. MaxForeign
    /\ {attest.of, run.frozen, status.sha} \subseteq Versions \cup {"none"}
    /\ own \subseteq {"images", "tests"}
    /\ builder \in [id : Nat, made : Nat, listed : BOOLEAN, record : {"none", "creating", "ready"},
                    claimed : Nat, lock : {"free", "gate", "other"}]
    /\ run.n \in Nat /\ run.err \in {"none", "error", "interrupt"} /\ run.exit \in {"none", "ok", "bad"}
    /\ manifest.overall \in {"none", "RUNNING", "PASS", "FAIL", "BLOCKED"}
    /\ manifest.steps \in [Required -> {"none", "RUNNING", "PASS", "FAIL"}]
    /\ manifest.results \in [Tests -> {"none", "RUNNING", "PASS", "FAIL"}]
    /\ status.state \in {"none", "pending", "success", "failed"} /\ status.tries < Tries

\* A PASS was earned by this candidate: every required step and test passed on
\* the tree the gate froze, a live attestation of it was evaluated, and nothing
\* the run created is left (require_frozen_candidate, gate_overall_status).  A
\* tree changed and changed back between two looks is not noticed.
PassIsEarned ==
    manifest.overall = "PASS" =>
        /\ \A s \in Required : manifest.steps[s] = "PASS"
        /\ \A t \in Tests : manifest.results[t] = "PASS"
        /\ seen.versions = {run.frozen} \/ seen.reverted
        /\ run.attested.of = run.frozen
        /\ own = {} /\ ~seen.defect

\* A run is called blocked only for a cause outside the candidate
\* (gate_failure_kind, SecurityBlocked), never for a failing one.
BlockedIsInfra == manifest.overall = "BLOCKED" => seen.infra /\ ~seen.defect

\* The verdict a run leaves was earned, whatever was edited, interrupted or
\* killed between the steps it rests on; the variables keep their types.
VerdictIsEarned == TypeOK /\ PassIsEarned /\ BlockedIsInfra

\* The forge is told of a success only for the commit the gate passed on; the
\* adapter reads the commit before it posts, and the tree may move until the
\* gate starts (gitlab_gate.py run_adapter).
SuccessIsEarned ==
    [][status'.state = "success" /\ status.state # "success"
        => /\ manifest.overall = "PASS" /\ run.exit = "ok"
           /\ run.frozen = status.sha \/ seen.moved]_vars

\* What a finished run left behind is in its report: only a run that was killed,
\* or interrupted while it cleaned up, leaves resources no report mentions.
LeftoversAreTold ==
    own # {} /\ manifest.overall \in {"PASS", "FAIL", "BLOCKED"} => manifest.cleanup # "PASS"

\* No builder exists without a record, and images are built with the container
\* the record claims: Buildx replaces one that somebody removed during the run
\* without a word, and then the cleanup must find it out
\* (ensure_task_buildx_builder, refresh_task_builder_record).
BuilderIsClaimed ==
    /\ builder.listed => builder.record # "none"
    /\ seen.stray => seen.removed /\ manifest.cleanup # "PASS"

\* Every run ends, whoever uses the disk, the daemon or the tree: the waits for
\* the reviewer, the lock and the disk are bounded.
GateEnds == run.pc # "off" ~> run.pc = "off"
=============================================================================
