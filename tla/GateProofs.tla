----------------------------- MODULE GateProofs -----------------------------
(***************************************************************************)
(* What is proved of the release gate and of the disk guard it implements, *)
(* for every list of images and tests, every estimate of a phase and every *)
(* bound on edits, faults and runs.                                        *)
(*                                                                         *)
(* First the guard on its own: its invariant keeps the hard floor between  *)
(* two polls.  Then the gate: every step of it is a step of the guard or   *)
(* leaves the disk alone (GateDisk), and GateInv is what a verdict rests   *)
(* on.  Most steps of the gate have one of a few shapes (a step passes,    *)
(* fails with a cause, is refused, moves on): each shape is a lemma, and   *)
(* each action is shown to have its shape.                                 *)
(***************************************************************************)
EXTENDS Gate, TLAPS

---------------------------------------------------------------------------
(* The disk guard.                                                         *)

\* While a phase runs: what the last poll left above the trigger is still
\* there or was lost since that poll, and what was admitted is still free or
\* was used by somebody.
Guarded ==
    job.pc = "running" =>
        /\ free + job.drop > Cancel /\ job.drop <= Burst
        /\ job.phase \in Phases
        /\ free + job.used + job.others >= Admission(job.phase)

DiskInv == DiskTypeOK /\ Guarded /\ AdmittedFits

\* An admission is the trigger and at least one more byte.
LEMMA AdmissionCovers ==
    ASSUME NEW p \in Phases
    PROVE  /\ Estimate(p) \in Nat /\ Estimate(p) > 0
           /\ Admission(p) = Cancel + Estimate(p)
  <1>1. Estimate(p) \in Nat /\ Estimate(p) > 0
    BY LevelsAreNaturals, CancelAboveFloor DEF Estimate
  <1> QED
    BY <1>1, LevelsAreNaturals, CancelAboveFloor DEF Admission

\* The jobs a step may leave.
Jobs == [pc : JobPCs, phase : Phases \cup {"none"}, used : Nat, others : Nat, drop : Nat]

\* A unit of disk more, to whoever filled it.
LEMMA FilledJob ==
    ASSUME NEW j \in Jobs, NEW d \in Nat, NEW u \in Nat, NEW o \in Nat
    PROVE  [j EXCEPT !.drop = d, !.used = u, !.others = o] \in Jobs
  <1>1. [j EXCEPT !.drop = d] \in Jobs
    BY DEF Jobs
  <1>2. \A k \in Jobs : [k EXCEPT !.used = u] \in Jobs
    BY DEF Jobs
  <1>3. \A k \in Jobs : [k EXCEPT !.others = o] \in Jobs
    BY DEF Jobs
  <1> QED
    BY <1>1, <1>2, <1>3

\* The run starts with no phase.
LEMMA DiskInitial == DiskInit => DiskInv
  <1> SUFFICES ASSUME DiskInit PROVE DiskInv
    OBVIOUS
  <1>1. job = Idle /\ free \in 0 .. Size /\ cache = 0
    BY DEF DiskInit
  <1> QED
    BY <1>1, LevelsAreNaturals DEF DiskInv, DiskTypeOK, Guarded, AdmittedFits, Idle, JobPCs

\* What makes the floor safe between two polls.
LEMMA GuardKeepsFloor == DiskInv => FloorKept
  BY LevelsAreNaturals, CancelAboveFloor, HeadroomOutlastsPoll
     DEF DiskInv, DiskTypeOK, Guarded, FloorKept

\* No step of the guard, of the phase or of anybody else breaks it.
LEMMA DiskStep == DiskInv /\ [DiskNext]_disk => DiskInv'
  <1> SUFFICES ASSUME DiskInv, [DiskNext]_disk PROVE DiskInv'
    OBVIOUS
  <1> USE LevelsAreNaturals
  <1>1. ASSUME NEW p \in Phases, Admit(p) PROVE DiskInv'
    <2>1. /\ job' = [pc |-> "running", phase |-> p, used |-> 0, others |-> 0, drop |-> 0]
          /\ free' = free /\ cache' = cache /\ free >= Admission(p)
      BY <1>1 DEF Admit, Idle
    <2>2. free > Cancel /\ free \in Nat /\ cache \in Nat /\ free + cache <= Size
      BY <2>1, AdmissionCovers DEF DiskInv, DiskTypeOK
    <2>3. DiskTypeOK'
      BY <2>1, <2>2 DEF DiskTypeOK, JobPCs
    <2>4. Guarded'
      BY <2>1, <2>2 DEF Guarded, Admission, Estimate
    <2> QED
      BY <2>1, <2>3, <2>4 DEF DiskInv, AdmittedFits
  <1>2. ASSUME NEW p \in Phases, Reclaim(p) PROVE DiskInv'
    BY <1>2 DEF Reclaim, DiskInv, DiskTypeOK, Guarded, AdmittedFits
  <1>3. ASSUME Fill("phase") PROVE DiskInv'
    <2>1. /\ job.pc = "running" /\ free > 0 /\ free' = free - 1 /\ cache' = cache
          /\ job.drop < Burst
          /\ job' = [job EXCEPT !.drop = @ + 1, !.used = @ + 1, !.others = @]
      BY <1>3 DEF Fill
    <2>2. /\ job'.pc = "running" /\ job'.phase = job.phase /\ job'.drop = job.drop + 1
          /\ job'.used = job.used + 1 /\ job'.others = job.others
      BY <2>1 DEF DiskInv, DiskTypeOK
    <2>3. DiskTypeOK'
      <3>1. free \in Nat /\ free' \in Nat /\ cache \in Nat /\ job.used \in Nat
        BY <2>1 DEF DiskInv, DiskTypeOK
      <3>2. free' + cache' + job'.used <= Size
        BY <2>1, <2>2, <3>1 DEF DiskInv, DiskTypeOK
      <3>3. job' \in [pc : JobPCs, phase : Phases \cup {"none"}, used : Nat, others : Nat, drop : Nat]
        <4>1. job \in Jobs
          BY DEF DiskInv, DiskTypeOK, Jobs
        <4>2. job.drop + 1 \in Nat /\ job.used + 1 \in Nat /\ job.others \in Nat
          BY <4>1 DEF Jobs
        <4>3. [job EXCEPT !.drop = job.drop + 1, !.used = job.used + 1, !.others = job.others] \in Jobs
          BY <4>1, <4>2, FilledJob
        <4> QED
          BY <2>1, <4>3 DEF Jobs
      <3> QED
        BY <2>1, <3>1, <3>2, <3>3 DEF DiskTypeOK
    <2>4. Guarded' /\ AdmittedFits'
      <3>1. free' + job'.used + job'.others >= Admission(job.phase)
        BY <2>1, <2>2, AdmissionCovers DEF DiskInv, DiskTypeOK, Guarded
      <3> QED
        BY <2>1, <2>2, <3>1 DEF DiskInv, DiskTypeOK, Guarded, AdmittedFits, Admission, Estimate
    <2> QED
      BY <2>3, <2>4 DEF DiskInv
  <1>4. ASSUME Fill("others") PROVE DiskInv'
    <2>1. free > 0 /\ free' = free - 1 /\ cache' = cache
      BY <1>4 DEF Fill
    <2>2. CASE job.pc # "running"
      <3>1. job' = job
        BY <1>4, <2>2 DEF Fill
      <3> QED
        BY <2>1, <2>2, <3>1 DEF DiskInv, DiskTypeOK, Guarded, AdmittedFits, Estimate
    <2>3. CASE job.pc = "running"
      <3>1. /\ job.drop < Burst
            /\ job' = [job EXCEPT !.drop = @ + 1, !.used = @, !.others = @ + 1]
        BY <1>4, <2>3 DEF Fill
      <3>2. /\ job'.pc = "running" /\ job'.phase = job.phase /\ job'.drop = job.drop + 1
            /\ job'.used = job.used /\ job'.others = job.others + 1
        BY <2>3, <3>1 DEF DiskInv, DiskTypeOK
      <3>3. DiskTypeOK'
        <4>1. free \in Nat /\ free' \in Nat /\ cache \in Nat /\ job.used \in Nat
          BY <2>1 DEF DiskInv, DiskTypeOK
        <4>2. free' + cache' + job'.used <= Size
          BY <2>1, <3>2, <4>1 DEF DiskInv, DiskTypeOK
        <4>3. job' \in [pc : JobPCs, phase : Phases \cup {"none"}, used : Nat, others : Nat, drop : Nat]
          <5>1. job \in Jobs
            BY DEF DiskInv, DiskTypeOK, Jobs
          <5>2. job.drop + 1 \in Nat /\ job.used \in Nat /\ job.others + 1 \in Nat
            BY <5>1 DEF Jobs
          <5>3. [job EXCEPT !.drop = job.drop + 1, !.used = job.used, !.others = job.others + 1] \in Jobs
            BY <5>1, <5>2, FilledJob
          <5> QED
            BY <3>1, <5>3 DEF Jobs
        <4> QED
          BY <2>1, <4>1, <4>2, <4>3 DEF DiskTypeOK
      <3>4. free' + job'.used + job'.others >= Admission(job.phase)
        BY <2>1, <2>3, <3>2, AdmissionCovers DEF DiskInv, DiskTypeOK, Guarded
      <3>5. Guarded' /\ AdmittedFits'
        BY <2>1, <2>3, <3>1, <3>2, <3>4 DEF DiskInv, DiskTypeOK, Guarded, AdmittedFits, Admission, Estimate
      <3> QED
        BY <3>3, <3>5 DEF DiskInv
    <2> QED
      BY <2>2, <2>3
  <1>5. ASSUME Poll \/ Finish PROVE DiskInv'
    <2>1. /\ job.pc = "running" /\ UNCHANGED <<free, cache>>
          /\ \/ free <= Cancel /\ job' = [job EXCEPT !.pc = "cancelled"]
             \/ free > Cancel /\ job' = [job EXCEPT !.drop = 0]
             \/ free > Cancel /\ job' = [job EXCEPT !.pc = "finished"]
      BY <1>5 DEF Poll, Finish, DiskInv, DiskTypeOK
    <2>2. CASE free <= Cancel /\ job' = [job EXCEPT !.pc = "cancelled"]
      <3>1. job.others = 0 => job.used >= Estimate(job.phase)
        BY <2>1, <2>2, AdmissionCovers DEF DiskInv, DiskTypeOK, Guarded
      <3>2. AdmittedFits'
        BY <2>2, <3>1 DEF AdmittedFits, DiskInv, DiskTypeOK, Estimate
      <3> QED
        BY <2>1, <2>2, <3>2 DEF DiskInv, DiskTypeOK, Guarded, JobPCs
    <2>3. CASE free > Cancel /\ job' = [job EXCEPT !.drop = 0]
      BY <2>1, <2>3 DEF DiskInv, DiskTypeOK, Guarded, AdmittedFits, Admission, Estimate, JobPCs
    <2>4. CASE free > Cancel /\ job' = [job EXCEPT !.pc = "finished"]
      BY <2>1, <2>4 DEF DiskInv, DiskTypeOK, Guarded, AdmittedFits, JobPCs
    <2> QED
      BY <2>1, <2>2, <2>3, <2>4
  <1>6. ASSUME NEW kept \in 0 .. job.used, Settle(kept) PROVE DiskInv'
    BY <1>6 DEF Settle, Idle, DiskInv, DiskTypeOK, Guarded, AdmittedFits, JobPCs
  <1>7. CASE UNCHANGED disk
    BY <1>7 DEF disk, DiskInv, DiskTypeOK, Guarded, AdmittedFits, Admission, Estimate
  <1> QED
    BY <1>1, <1>2, <1>3, <1>4, <1>5, <1>6, <1>7 DEF DiskNext, Refused

\* The guard's invariant holds throughout.
THEOREM DiskCorrect == DiskSpec => []DiskInv
  <1> QED
    BY DiskInitial, DiskStep, PTL DEF DiskSpec

\* A supervised phase never sees the free space at the hard floor.
THEOREM FloorIsKept == DiskSpec => []FloorKept
  <1> QED
    BY DiskCorrect, GuardKeepsFloor, PTL

\* Admission and the polls agree: the floor is kept and what was admitted fits.
THEOREM DiskIsSafe == DiskSpec => []DiskSafe
  <1>1. DiskInv => DiskSafe
    BY GuardKeepsFloor DEF DiskInv, DiskSafe
  <1> QED
    BY <1>1, DiskCorrect, PTL

\* A phase that is cancelled used its whole estimate, unless others used the disk.
THEOREM AdmittedPhasesFit == DiskSpec => []AdmittedFits
  <1>1. DiskInv => AdmittedFits
    BY DEF DiskInv
  <1> QED
    BY <1>1, DiskCorrect, PTL

---------------------------------------------------------------------------
(* The records of the gate.                                                *)

RunPCs == {"off", "baseline", "confirm", "fast", "advisory", "sast", "scan", "snapshots", "claim",
           "reserve", "create", "ready", "build", "building", "await", "evaluate", "assessment",
           "tests", "testing", "cleanup", "review", "final", "identity"}
Outcomes == {"none", "RUNNING", "PASS", "FAIL"}
Attestations == [of : Versions \cup {"none"}, rev : Nat, live : BOOLEAN]
Runs == [pc : RunPCs, n : Nat, frozen : Versions \cup {"none"}, base : Nat, attested : Attestations,
         err : {"none", "error", "interrupt"}, denied : BOOLEAN, exit : {"none", "ok", "bad"}]
Manifests == [overall : {"none", "RUNNING", "PASS", "FAIL", "BLOCKED"},
              steps : [Required -> Outcomes], results : [Tests -> Outcomes],
              kind : {"none", "INFRA_FAILURE"}, security : {"none", "PASS", "FAIL", "BLOCKED"},
              cleanup : {"none", "PASS", "FAIL"}]
Builders == [id : Nat, made : Nat, listed : BOOLEAN, record : {"none", "creating", "ready"},
             claimed : Nat, lock : {"free", "gate", "other"}]
Statuses == [pc : {"off", "pending", "gate", "final"}, sha : Versions \cup {"none"},
             state : {"none", "pending", "success", "failed"}, tries : 0 .. (Tries - 1)]
Histories == [versions : SUBSET Versions, infra : BOOLEAN, defect : BOOLEAN, moved : BOOLEAN,
              reverted : BOOLEAN, removed : BOOLEAN, stray : BOOLEAN]

\* The types the steps preserve; TypeOK says what matters of them.
GateType ==
    /\ src \in Versions /\ foreign \in 0 .. MaxForeign /\ own \subseteq {"images", "tests"}
    /\ attest \in Attestations /\ builder \in Builders /\ run \in Runs
    /\ manifest \in Manifests /\ status \in Statuses /\ seen \in Histories

LEMMA TypesAgree == DiskTypeOK /\ GateType => TypeOK
  BY BoundsAreNaturals DEF GateType, TypeOK, Attestations, Runs, Manifests, Builders, Statuses, Outcomes

\* The steps after record_step has marked one of them.
Marked(steps, s, cause) == [steps EXCEPT ![s] = IF cause = "none" THEN "PASS" ELSE "FAIL"]

LEMMA MarkedSteps ==
    ASSUME NEW steps \in [Required -> Outcomes], NEW s \in Required, NEW cause
    PROVE  /\ Marked(steps, s, cause) \in [Required -> Outcomes]
           /\ Marked(steps, s, cause)[s] = "PASS" => cause = "none"
           /\ \A t \in Required \ {s} : Marked(steps, s, cause)[t] = steps[t]
  BY DEF Marked, Outcomes

\* record_step changes the step it names and, for a cause outside the
\* candidate, the kind of the failure.
LEMMA RecordedFields ==
    ASSUME NEW m \in Manifests, NEW s \in Required, NEW cause
    PROVE  /\ Recorded(m, s, cause) \in Manifests
           /\ Recorded(m, s, cause).steps = Marked(m.steps, s, cause)
           /\ cause = "infra" => Recorded(m, s, cause).kind = "INFRA_FAILURE"
           /\ cause # "infra" => Recorded(m, s, cause).kind = m.kind
           /\ Recorded(m, s, cause).overall = m.overall
           /\ Recorded(m, s, cause).results = m.results
           /\ Recorded(m, s, cause).security = m.security
           /\ Recorded(m, s, cause).cleanup = m.cleanup
<1> DEFINE st == Marked(m.steps, s, cause)
           k  == IF cause = "infra" THEN "INFRA_FAILURE" ELSE m.kind
<1>1. st \in [Required -> Outcomes] /\ k \in {"none", "INFRA_FAILURE"}
  BY MarkedSteps DEF Manifests
<1>2. Recorded(m, s, cause) \in
        [overall : {m.overall}, steps : {st}, results : {m.results}, kind : {k},
         security : {m.security}, cleanup : {m.cleanup}]
  <2>1. \A x \in Manifests, y \in [Required -> Outcomes] :
            [x EXCEPT !.steps = y] \in
                [overall : {x.overall}, steps : {y}, results : {x.results}, kind : {x.kind},
                 security : {x.security}, cleanup : {x.cleanup}]
    BY DEF Manifests
  <2>2. \A x \in Manifests, y \in {"none", "INFRA_FAILURE"} :
            [x EXCEPT !.kind = y] \in
                [overall : {x.overall}, steps : {x.steps}, results : {x.results}, kind : {y},
                 security : {x.security}, cleanup : {x.cleanup}]
    BY DEF Manifests
  <2>3. Recorded(m, s, cause) = [[m EXCEPT !.steps = st] EXCEPT !.kind = k]
    BY DEF Recorded, Manifests, Marked
  <2> HIDE DEF st, k
  <2>4. [m EXCEPT !.steps = st] \in Manifests
    BY <1>1, <2>1 DEF Manifests
  <2> QED
    BY <1>1, <2>1, <2>2, <2>3, <2>4
<1>3. Recorded(m, s, cause).kind = k
  BY <1>2
<1> HIDE DEF st, k
<1>4. Recorded(m, s, cause) \in Manifests
  BY <1>1, <1>2 DEF Manifests
<1> QED
  BY <1>2, <1>3, <1>4 DEF st, k

\* Every phase the gate names is one of the disk guard's.
LEMMA NamedPhases ==
    /\ {"bootstrap", "sast", "source", "scan"} \subseteq Phases
    /\ run \in Runs /\ run.n < Len(BuildOrder) => BuildOrder[run.n + 1] \in Phases
    /\ run \in Runs /\ run.n < Len(TestOrder) => Current \in Phases /\ Current \in Tests
<1>1. /\ BuildOrder \in Seq(Phases) /\ TestOrder \in Seq(Phases)
      /\ {"bootstrap", "sast", "source", "scan"} \subseteq Phases
  BY PhasesAreEstimated
<1>2. ASSUME run \in Runs, run.n < Len(BuildOrder) PROVE BuildOrder[run.n + 1] \in Phases
  <2>1. run.n \in Nat
    BY <1>2 DEF Runs
  <2>2. Len(BuildOrder) \in Nat
    BY <1>1
  <2>3. run.n + 1 \in 1 .. Len(BuildOrder)
    BY <1>2, <2>1, <2>2
  <2> QED
    BY <1>1, <2>3
<1>3. ASSUME run \in Runs, run.n < Len(TestOrder) PROVE Current \in Phases /\ Current \in Tests
  <2>1. run.n \in Nat
    BY <1>3 DEF Runs
  <2>2. Len(TestOrder) \in Nat
    BY <1>1
  <2>3. run.n + 1 \in 1 .. Len(TestOrder)
    BY <1>3, <2>1, <2>2
  <2> QED
    BY <1>1, <2>3 DEF Current, Tests
<1> QED
  BY <1>1, <1>2, <1>3

---------------------------------------------------------------------------
(* What the gate does to the disk is what the guard allows.                *)

\* Every step of the gate, of the phases and of everybody else is a step of the
\* guard or leaves the disk alone.
LEMMA GateDisk == DiskInv /\ GateType /\ [Next]_vars => [DiskNext]_disk
<1> SUFFICES ASSUME DiskInv, GateType, [Next]_vars PROVE DiskNext \/ UNCHANGED disk
  OBVIOUS
<1>1. CASE BeginBuild
  BY <1>1, NamedPhases DEF BeginBuild, DiskNext, GateType
<1>2. CASE BeginTest
  BY <1>2, NamedPhases DEF BeginTest, DiskNext, GateType
<1>3. CASE EndBuild \/ EndTest
  BY <1>3 DEF EndBuild, EndTest, DiskNext
<1>4. CASE Interrupt \/ Kill
  <2>1. 0 \in 0 .. job.used
    BY DEF DiskInv, DiskTypeOK
  <2> QED
    BY <1>4, <2>1 DEF Interrupt, Kill, GiveUp, DiskNext
<1>5. ASSUME NEW p \in Phases, ReclaimCache(p) PROVE DiskNext
  BY <1>5 DEF ReclaimCache, DiskNext
<1>6. CASE DiskMoves
  BY <1>6 DEF DiskMoves, DiskNext
<1>7. ASSUME NEW pc, NEW p, NEW h, NoCapacity(pc, p, h) PROVE UNCHANGED disk
  BY <1>7 DEF NoCapacity, Refused
<1>8. CASE Adapter
  BY <1>8 DEF Adapter, AdapterReads, PostPending, GateReturns, PostFinal, Post
<1>9. CASE \/ Edit \/ OthersUseDocker \/ RemoveBuilder \/ Review \/ SkipTest \/ NoTrivy
           \/ UNCHANGED vars
  BY <1>9 DEF Edit, OthersUseDocker, RemoveBuilder, Review, SkipTest, NoTrivy, vars
<1>10. ASSUME NEW s, NEW x, Fail(s, x) \/ Pass(s, x) PROVE UNCHANGED disk
  BY <1>10 DEF Fail, Pass
<1>11. CASE \/ Start \/ Baseline \/ Confirm \/ Snapshots \/ ClaimBuilder \/ ReserveBuilder
            \/ CreateBuilder \/ BuilderReady
  BY <1>11 DEF Start, Baseline, Confirm, Snapshots, ClaimBuilder, ReserveBuilder, CreateBuilder,
     BuilderReady
<1>12. CASE \/ ScanImages \/ AwaitReview \/ EvaluateSources \/ Assess \/ TestsDone \/ Cleanup
            \/ FinalStep \/ Publish \/ BuilderMissing
  BY <1>12 DEF ScanImages, AwaitReview, EvaluateSources, Assess, TestsDone, Cleanup, Removal,
     FinalStep, Publish, BuilderMissing
<1>13. CASE GateSteps
  BY <1>1, <1>2, <1>3, <1>5, <1>7, <1>10, <1>11, <1>12, <1>13, NamedPhases DEF GateSteps, GateType
<1>14. CASE Faults
  BY <1>4, <1>9, <1>10, <1>14 DEF Faults
<1> QED
  BY <1>6, <1>8, <1>9, <1>13, <1>14 DEF Next, Environment

---------------------------------------------------------------------------
(* Why a verdict was earned.                                               *)

\* A run that goes on has no verdict yet, and one that ended well has one.
Undecided ==
    /\ run.pc # "off" => manifest.overall = "RUNNING"
    /\ run.exit = "ok" => run.pc = "off" /\ manifest.overall = "PASS"
    /\ run.pc # "off" \/ run.exit # "none" => run.frozen = status.sha \/ seen.moved

\* After an error only the cleanup and the end are left; a defect is an error,
\* and so is a cause outside the candidate, which no defect can follow.
Errors ==
    run.pc # "off" =>
        /\ run.err # "none" => run.pc \in {"cleanup", "identity"}
        /\ seen.defect => run.err = "error"
        /\ manifest.kind = "INFRA_FAILURE" => run.err = "error" /\ seen.infra /\ ~seen.defect

\* While the tree is the frozen one and was never changed back to it, the steps
\* have used no other; what the first step used is known.
Looked ==
    /\ run.pc # "off" /\ src = run.frozen /\ ~seen.reverted => seen.versions \subseteq {run.frozen}
    /\ manifest.steps["fast"] = "PASS" => seen.versions # {}

\* Evidence is of the frozen tree, and a clean report of a run that owns nothing.
Evidence ==
    /\ run.pc = "assessment" \/ manifest.security = "PASS" => run.attested.of = run.frozen
    /\ manifest.cleanup = "PASS" => own = {}
    /\ run.pc \notin {"off", "review", "final", "identity"} => manifest.cleanup = "none"

UsingBuilder == {"build", "building", "await", "evaluate", "assessment", "tests", "testing"}

\* The builder in use is the recorded one unless somebody removed its container,
\* and a container that took its place is not the recorded one ever after.
Builder ==
    /\ builder.listed => builder.record # "none"
    /\ builder.id # 0 => builder.listed
    /\ run.pc \in {"create", "ready"} => builder.record # "none"
    /\ builder.id <= builder.made /\ builder.claimed <= builder.made
    /\ run.pc \in UsingBuilder /\ ~seen.removed => builder.claimed \in {0, builder.id}
    /\ seen.stray => seen.removed /\ builder.claimed \notin {0, builder.id} /\ manifest.cleanup # "PASS"

GateInv == Undecided /\ Errors /\ Looked /\ Evidence /\ Builder /\ PassIsEarned /\ BlockedIsInfra

---------------------------------------------------------------------------
(* The shapes of the steps: what each does to the fields the invariants    *)
(* speak of.                                                               *)

\* The run goes to x with error e; what it knows of its candidate stays.
RunTo(x, e) ==
    /\ run' \in Runs /\ run'.pc = x /\ run'.err = e
    /\ run'.frozen = run.frozen /\ run'.attested = run.attested /\ run'.exit = run.exit

LEMMA MoveShapes ==
    ASSUME run \in Runs, NEW x \in RunPCs
    PROVE  /\ Goto(x) => RunTo(x, run.err)
           /\ Raise(x) => RunTo(x, "error")
  BY DEF Goto, Raise, RunTo, Runs

\* A phase that ends well leaves the run at the next one.
LEMMA NextPhase ==
    ASSUME run \in Runs, NEW x \in RunPCs, NEW n \in Nat,
           run' = [run EXCEPT !.n = n, !.pc = x]
    PROVE  RunTo(x, run.err)
  BY DEF RunTo, Runs

\* The history after a step that looked at the tree, and after a failing one.
SameCourse ==
    /\ seen'.moved = seen.moved /\ seen'.reverted = seen.reverted
    /\ seen'.removed = seen.removed /\ seen'.stray = seen.stray

\* Nothing but the lock of the builder changes.
SameBuilder ==
    /\ builder' \in Builders
    /\ builder'.id = builder.id /\ builder'.made = builder.made /\ builder'.listed = builder.listed
    /\ builder'.record = builder.record /\ builder'.claimed = builder.claimed

LEMMA UseShape ==
    ASSUME seen \in Histories, src \in Versions, Use
    PROVE  /\ seen' \in Histories /\ SameCourse /\ seen'.versions = seen.versions \cup {src}
           /\ seen'.infra = seen.infra /\ seen'.defect = seen.defect
  BY DEF Use, Histories, SameCourse

LEMMA BlameShape ==
    ASSUME seen \in Histories, NEW cause, Blame(cause)
    PROVE  /\ seen' \in Histories /\ SameCourse /\ seen'.versions = seen.versions
           /\ seen'.infra <=> seen.infra \/ cause = "infra"
           /\ seen'.defect <=> seen.defect \/ cause = "defect"
<1>1. ASSUME NEW i \in BOOLEAN, NEW d \in BOOLEAN, seen' = [seen EXCEPT !.infra = i, !.defect = d]
      PROVE  /\ seen' \in Histories /\ SameCourse /\ seen'.versions = seen.versions
             /\ seen'.infra = i /\ seen'.defect = d
  BY <1>1 DEF Histories, SameCourse
<1>2. seen' = [seen EXCEPT !.infra = (seen.infra \/ cause = "infra"),
                           !.defect = (seen.defect \/ cause = "defect")]
  BY DEF Blame, Histories
<1>3. (seen.infra \/ cause = "infra") \in BOOLEAN /\ (seen.defect \/ cause = "defect") \in BOOLEAN
  OBVIOUS
<1> QED
  BY <1>1, <1>2, <1>3

LEMMA LockOnly ==
    ASSUME builder \in Builders
    PROVE  /\ UNCHANGED builder => SameBuilder
           /\ \A l \in {"free", "gate", "other"} : builder' = [builder EXCEPT !.lock = l] => SameBuilder
  BY DEF SameBuilder, Builders

LEMMA StillBuilder == GateType /\ UNCHANGED builder => SameBuilder
  BY LockOnly DEF GateType

\* What the manifest says of everything but its steps.
SameReport ==
    /\ manifest'.overall = manifest.overall /\ manifest'.kind = manifest.kind
    /\ manifest'.security = manifest.security /\ manifest'.cleanup = manifest.cleanup

LEMMA ResultShape ==
    ASSUME manifest \in Manifests, NEW st \in Outcomes, Result(st)
    PROVE  manifest' \in Manifests /\ SameReport /\ manifest'.steps = manifest.steps
<1>1. [manifest.results EXCEPT ![Current] = st] \in [Tests -> Outcomes]
  BY DEF Manifests
<1>2. manifest' = [manifest EXCEPT !.results = [manifest.results EXCEPT ![Current] = st]]
  BY DEF Result, Manifests
<1>3. \A y \in [Tests -> Outcomes] :
          LET m == [manifest EXCEPT !.results = y]
          IN  /\ m \in Manifests /\ m.overall = manifest.overall /\ m.kind = manifest.kind
              /\ m.security = manifest.security /\ m.cleanup = manifest.cleanup
              /\ m.steps = manifest.steps
  BY DEF Manifests
<1> QED
  BY <1>1, <1>2, <1>3 DEF SameReport

\* A step of a run that goes on: nobody moves the tree or the status's commit,
\* the verdict stays open, and the tree is looked at as it is.
Ongoing ==
    /\ run.pc # "off" /\ run'.pc # "off"
    /\ run'.frozen = run.frozen /\ run'.exit = run.exit
    /\ src' = src /\ status'.sha = status.sha
    /\ manifest'.overall = manifest.overall
    /\ SameCourse
    /\ seen'.versions \in {seen.versions, seen.versions \cup {src}}
    /\ \/ manifest'.steps["fast"] = "PASS" => manifest.steps["fast"] = "PASS"
       \/ seen'.versions = seen.versions \cup {src}

LEMMA OngoingKeeps ==
    ASSUME GateType, GateInv, Ongoing
    PROVE  Undecided' /\ Looked' /\ PassIsEarned' /\ BlockedIsInfra'
<1>1. run.pc # "off" /\ manifest'.overall = "RUNNING"
  BY DEF Ongoing, GateInv, Undecided
<1>2. PassIsEarned' /\ BlockedIsInfra'
  BY <1>1 DEF PassIsEarned, BlockedIsInfra
<1>3. Undecided'
  BY <1>1 DEF Ongoing, SameCourse, GateInv, Undecided
<1>4. Looked'
  BY <1>1 DEF Ongoing, SameCourse, GateInv, Looked
<1> QED
  BY <1>2, <1>3, <1>4

\* A running step has met no error yet, and the cleanup has not been reported.
Working == run.pc \notin {"off", "cleanup", "review", "final", "identity"}

LEMMA NoErrorYet ==
    ASSUME GateType, GateInv, run.pc \notin {"off", "cleanup", "identity"}
    PROVE  run.err = "none" /\ ~seen.defect /\ manifest.kind # "INFRA_FAILURE"
  BY DEF GateType, Runs, GateInv, Errors

---------------------------------------------------------------------------
(* The steps of the gate before the acceptance, and those that fail.       *)

LEMMA PassStep ==
    ASSUME GateType, GateInv, NEW s, NEW next, Pass(s, next),
           \/ s \in {"fast", "advisory", "sast", "scan"}
              /\ next \in {"advisory", "sast", "scan", "snapshots"}
           \/ s = "review" /\ next = "final"
    PROVE  GateType' /\ GateInv'
<1>1. /\ run.pc = s /\ s \in Required /\ next \in RunPCs /\ s \notin {"off", "cleanup", "identity"}
      /\ manifest' = Recorded(manifest, s, "none")
      /\ UNCHANGED <<src, foreign, attest, status, own, builder>>
  BY DEF Pass, outside, Required, RunPCs
<1>2. RunTo(next, run.err)
  BY <1>1, MoveShapes DEF Pass, GateType
<1>3. /\ seen' \in Histories /\ SameCourse /\ seen'.versions = seen.versions \cup {src}
      /\ seen'.infra = seen.infra /\ seen'.defect = seen.defect
  BY UseShape DEF Pass, GateType
<1>4. manifest' \in Manifests /\ SameReport
  BY <1>1, RecordedFields DEF GateType, SameReport
<1>5. GateType'
  BY <1>1, <1>2, <1>3, <1>4 DEF GateType, RunTo
<1>6. Ongoing
  BY <1>1, <1>2, <1>3, <1>4 DEF Ongoing, RunTo, SameReport
<1>7. run.err = "none" /\ ~seen.defect /\ manifest.kind # "INFRA_FAILURE"
  BY <1>1, NoErrorYet
<1>8. Errors'
  BY <1>2, <1>3, <1>4, <1>7 DEF Errors, RunTo, SameReport
<1>9. Evidence' /\ Builder'
  BY <1>1, <1>2, <1>3, <1>4
  DEF Evidence, Builder, RunTo, SameReport, GateInv, UsingBuilder, SameCourse
<1> QED
  BY <1>5, <1>6, <1>8, <1>9, OngoingKeeps DEF GateInv

\* A run that fails goes to the cleanup or to the end, and its report loses
\* what it had earned, if anything.
LEMMA FailingStep ==
    ASSUME GateType, GateInv, Working \/ run.pc = "review",
           NEW x \in {"cleanup", "identity"}, RunTo(x, "error"),
           x = "cleanup" => Working,
           manifest' \in Manifests, manifest'.overall = manifest.overall,
           manifest'.cleanup = manifest.cleanup,
           manifest'.security = "PASS" => manifest.security = "PASS",
           manifest'.steps["fast"] = "PASS" => manifest.steps["fast"] = "PASS",
           seen' \in Histories, SameCourse, seen'.versions = seen.versions,
           manifest'.kind = "INFRA_FAILURE" =>
               manifest.kind = "INFRA_FAILURE" \/ (seen'.infra /\ ~seen'.defect),
           UNCHANGED <<src, foreign, attest>>, status' \in Statuses, status'.sha = status.sha,
           own' = own,
           SameBuilder
    PROVE  GateType' /\ GateInv'
<1>1. GateType'
  BY DEF GateType, RunTo, SameBuilder
<1>2. Ongoing
  BY DEF Ongoing, RunTo, Working
<1>3. run.err = "none" /\ ~seen.defect /\ manifest.kind # "INFRA_FAILURE"
  BY NoErrorYet DEF Working
<1>4. Errors'
  BY <1>3 DEF Errors, RunTo
<1>5. Evidence'
  BY DEF Evidence, RunTo, GateInv, Working
<1>6. Builder'
  BY DEF Builder, RunTo, GateInv, UsingBuilder, SameBuilder, SameCourse
<1> QED
  BY <1>1, <1>2, <1>4, <1>5, <1>6, OngoingKeeps DEF GateInv

LEMMA FailStep ==
    ASSUME GateType, GateInv, NEW s \in {"fast", "advisory", "sast", "scan", "review"},
           NEW causes \in SUBSET {"defect", "infra"}, Fail(s, causes)
    PROVE  GateType' /\ GateInv'
<1> PICK cause \in causes : Blame(cause) /\ manifest' = Recorded(manifest, s, cause)
  BY DEF Fail
<1>1. /\ run.pc = s /\ s \in Required
      /\ UNCHANGED <<src, foreign, attest, status, own, builder>>
  BY DEF Fail, Required
<1>2. RunTo("identity", "error")
  BY MoveShapes DEF Fail, GateType, RunPCs
<1>3. /\ seen' \in Histories /\ SameCourse /\ seen'.versions = seen.versions
      /\ seen'.infra <=> seen.infra \/ cause = "infra"
      /\ seen'.defect <=> seen.defect \/ cause = "defect"
  BY BlameShape DEF GateType
<1>4. manifest' \in Manifests /\ manifest'.steps = Marked(manifest.steps, s, cause)
  BY <1>1, RecordedFields DEF GateType
<1>5. /\ manifest'.overall = manifest.overall /\ manifest'.security = manifest.security
      /\ manifest'.cleanup = manifest.cleanup
      /\ cause = "infra" \/ manifest'.kind = manifest.kind
  BY <1>1, RecordedFields DEF GateType
<1>6. manifest'.steps["fast"] = "PASS" => manifest.steps["fast"] = "PASS"
  BY <1>1, <1>4, MarkedSteps DEF GateType, Manifests, Required
<1>7. run.err = "none" /\ ~seen.defect
  BY <1>1, NoErrorYet
<1>8. manifest'.kind = "INFRA_FAILURE" =>
          manifest.kind = "INFRA_FAILURE" \/ (seen'.infra /\ ~seen'.defect)
  BY <1>3, <1>5, <1>7
<1> QED
  BY <1>1, <1>2, <1>3, <1>4, <1>5, <1>6, <1>8, FailingStep, StillBuilder DEF Working, GateType

\* A step that is refused, or stands still, and blames nobody.
LEMMA StoppedStep ==
    ASSUME GateType, GateInv, Working, NEW x \in {"cleanup", "identity"}, RunTo(x, "error"),
           NEW cause, cause # "infra",
           manifest' = manifest \/ manifest' = Recorded(manifest, "acceptance", cause),
           UNCHANGED <<src, foreign, attest, status, own, seen>>,
           SameBuilder
    PROVE  GateType' /\ GateInv'
<1>1. "acceptance" \in Required /\ "fast" # "acceptance"
  BY DEF Required
<1>2. manifest' \in Manifests /\ SameReport
  BY <1>1, RecordedFields DEF GateType, SameReport
<1>3. manifest'.steps["fast"] = "PASS" => manifest.steps["fast"] = "PASS"
  <2>1. CASE manifest' = Recorded(manifest, "acceptance", cause)
    <3>1. manifest \in Manifests
      BY DEF GateType
    <3>2. manifest'.steps = Marked(manifest.steps, "acceptance", cause)
      BY <1>1, <2>1, <3>1, RecordedFields
    <3> QED
      BY <1>1, <3>1, <3>2, MarkedSteps DEF Manifests, Required
  <2> QED
    BY <2>1
<1>4. seen' \in Histories /\ SameCourse /\ seen'.versions = seen.versions
  BY DEF GateType, SameCourse
<1> QED
  BY <1>2, <1>3, <1>4, FailingStep DEF SameReport, GateType

LEMMA NoCapacityStep ==
    ASSUME GateType, GateInv, NEW pc, NEW p, NEW h \in {"cleanup", "identity"},
           NoCapacity(pc, p, h),
           pc \in {"sast", "scan", "reserve", "create", "build", "tests"}
    PROVE  GateType' /\ GateInv'
<1>1. RunTo(h, "error") /\ Working
  BY MoveShapes DEF NoCapacity, GateType, RunPCs, Working
<1>2. SameBuilder
  BY LockOnly DEF NoCapacity, GateType, Builders
<1>3. UNCHANGED <<src, foreign, attest, status, own, seen>>
  BY DEF NoCapacity, outside
<1>4. CASE manifest' = manifest \/ manifest' = Recorded(manifest, "acceptance", "machine")
  BY <1>1, <1>2, <1>3, <1>4, StoppedStep
<1>5. CASE Result(Unpassed)
  <2>1. manifest' \in Manifests /\ SameReport /\ manifest'.steps = manifest.steps
    BY <1>5, ResultShape DEF GateType, Outcomes, Unpassed
  <2> QED
    BY <1>1, <1>2, <1>3, <2>1, FailingStep DEF GateType, SameCourse, SameReport
<1> QED
  BY <1>4, <1>5 DEF NoCapacity

\* Trivy could not be downloaded: no step says so, only the kind of the failure.
LEMMA NoTrivyStep == GateType /\ GateInv /\ NoTrivy => GateType' /\ GateInv'
<1> SUFFICES ASSUME GateType, GateInv, NoTrivy PROVE GateType' /\ GateInv'
  OBVIOUS
<1> PICK cause \in {"infra", "machine"} :
        /\ Blame(cause)
        /\ manifest' = [manifest EXCEPT !.kind = IF cause = "infra" THEN "INFRA_FAILURE" ELSE @]
  BY DEF NoTrivy
<1>1. Working /\ UNCHANGED <<src, foreign, attest, status, own, builder>>
  BY DEF NoTrivy, Working
<1>2. RunTo("identity", "error")
  BY MoveShapes DEF NoTrivy, GateType, RunPCs
<1>3. /\ seen' \in Histories /\ SameCourse /\ seen'.versions = seen.versions
      /\ seen'.infra <=> seen.infra \/ cause = "infra"
      /\ seen'.defect <=> seen.defect
  BY BlameShape DEF GateType
<1>4. /\ manifest' \in Manifests /\ manifest'.overall = manifest.overall
      /\ manifest'.security = manifest.security /\ manifest'.cleanup = manifest.cleanup
      /\ manifest'.steps = manifest.steps
      /\ cause = "infra" \/ manifest'.kind = manifest.kind
  BY DEF GateType, Manifests
<1>5. ~seen.defect
  BY <1>1, NoErrorYet DEF Working
<1>6. SameBuilder
  BY <1>1, LockOnly DEF GateType
<1> QED
  BY <1>1, <1>2, <1>3, <1>4, <1>5, <1>6, FailingStep DEF GateType

\* A step that succeeds goes on with what it has; what it must show is that the
\* builder is the recorded one and the evidence is of the frozen tree.
LEMMA MovingStep ==
    ASSUME GateType, GateInv, Working, NEW x \in RunPCs \ {"off"},
           run' \in Runs, run'.pc = x, run'.err = run.err, run'.frozen = run.frozen,
           run'.exit = run.exit,
           x = "assessment" \/ manifest'.security = "PASS" => run'.attested.of = run'.frozen,
           manifest' \in Manifests, manifest'.overall = manifest.overall,
           manifest'.kind = manifest.kind, manifest'.cleanup = manifest.cleanup,
           manifest'.steps["fast"] = "PASS" => manifest.steps["fast"] = "PASS",
           seen' \in Histories, SameCourse,
           seen'.versions \in {seen.versions, seen.versions \cup {src}},
           seen'.infra = seen.infra, seen'.defect = seen.defect,
           UNCHANGED <<src, foreign, attest, status>>, own' \subseteq {"images", "tests"},
           builder' \in Builders, Builder'
    PROVE  GateType' /\ GateInv'
<1>1. GateType'
  BY DEF GateType
<1>2. Ongoing
  BY DEF Ongoing, Working
<1>3. run.err = "none" /\ ~seen.defect /\ manifest.kind # "INFRA_FAILURE"
  BY NoErrorYet DEF Working
<1>4. Errors'
  BY <1>3 DEF Errors
<1>5. Evidence'
  BY DEF Evidence, GateInv, Working
<1> QED
  BY <1>1, <1>2, <1>4, <1>5, OngoingKeeps DEF GateInv

\* A step that changes nothing but where the run is.
LEMMA RunToStep ==
    ASSUME GateType, GateInv, Working, NEW x \in RunPCs \ {"off", "assessment"}, RunTo(x, run.err),
           UNCHANGED <<src, foreign, attest, status, own, manifest, seen>>,
           builder' \in Builders, Builder'
    PROVE  GateType' /\ GateInv'
<1>1. manifest.security = "PASS" => run'.attested.of = run'.frozen
  BY DEF RunTo, GateInv, Evidence
<1> QED
  BY <1>1, MovingStep DEF RunTo, GateType, SameCourse

LEMMA GotoStep ==
    ASSUME GateType, GateInv, Working, NEW x \in RunPCs \ {"off", "assessment"}, Goto(x),
           UNCHANGED <<src, foreign, attest, status, own, manifest, seen>>,
           builder' \in Builders, Builder'
    PROVE  GateType' /\ GateInv'
<1>1. RunTo(x, run.err)
  BY MoveShapes DEF GateType
<1> QED
  BY <1>1, RunToStep

LEMMA BuilderKept ==
    ASSUME GateInv, UNCHANGED builder, SameCourse, manifest'.cleanup = manifest.cleanup,
           run'.pc \notin {"create", "ready"},
           run'.pc \in UsingBuilder => run.pc \in UsingBuilder
    PROVE  Builder'
  BY DEF GateInv, Builder, UsingBuilder, SameBuilder, SameCourse

---------------------------------------------------------------------------
(* The start of a run, and the builder.                                    *)

LEMMA StartStep == GateType /\ GateInv /\ Start => GateType' /\ GateInv'
<1> SUFFICES ASSUME GateType, GateInv, Start PROVE GateType' /\ GateInv'
  OBVIOUS
<1>1. /\ run' = [pc |-> "baseline", n |-> 0, frozen |-> src, base |-> 0, attested |-> NoAttest,
                 err |-> "none", denied |-> FALSE, exit |-> "none"]
      /\ attest' = NoAttest
  BY DEF Start, NoRun
<1>2. /\ manifest' \in Manifests /\ manifest'.overall = "RUNNING" /\ manifest'.kind = "none"
      /\ manifest'.security = "none" /\ manifest'.cleanup = "none"
      /\ manifest'.steps["fast"] = "none"
  BY DEF Start, NoManifest, Manifests, Outcomes, Required
<1>3. /\ seen' \in Histories /\ seen'.moved = (src # status.sha) /\ seen'.versions = {}
      /\ ~seen'.infra /\ ~seen'.defect /\ ~seen'.removed /\ ~seen'.stray
  <2>1. seen' = [versions |-> {}, infra |-> FALSE, defect |-> FALSE, moved |-> (src # status.sha),
                 reverted |-> FALSE, removed |-> FALSE, stray |-> FALSE]
    BY DEF Start, NoHistory
  <2>2. (src # status.sha) \in BOOLEAN
    OBVIOUS
  <2> QED
    BY <2>1, <2>2 DEF Histories
<1>4. UNCHANGED <<src, foreign, status, builder>> /\ own' = {}
  BY DEF Start
<1>5. GateType'
  BY <1>1, <1>2, <1>3, <1>4 DEF GateType, Runs, RunPCs, NoAttest, Attestations
<1>6. Undecided' /\ Errors' /\ Looked' /\ Evidence' /\ Builder'
  BY <1>1, <1>2, <1>3, <1>4
  DEF Undecided, Errors, Looked, Evidence, Builder, GateInv, UsingBuilder, SameBuilder, SameCourse
<1>7. PassIsEarned' /\ BlockedIsInfra'
  BY <1>2 DEF PassIsEarned, BlockedIsInfra
<1> QED
  BY <1>5, <1>6, <1>7 DEF GateInv

LEMMA BaselineStep == GateType /\ GateInv /\ Baseline => GateType' /\ GateInv'
<1> SUFFICES ASSUME GateType, GateInv, Baseline PROVE GateType' /\ GateInv'
  OBVIOUS
<1>1. UNCHANGED <<src, foreign, attest, status, own, builder, manifest, seen>> /\ Working
  BY DEF Baseline, outside, Working
<1>2. foreign \in Nat
  BY BoundsAreNaturals DEF GateType
<1>3. RunTo("confirm", run.err)
  BY <1>2 DEF Baseline, RunTo, Runs, RunPCs, GateType
<1>4. Builder'
  BY <1>1, <1>3
  DEF Builder, RunTo, GateInv, UsingBuilder, SameBuilder, SameCourse
<1>5. manifest.security = "PASS" => run'.attested.of = run'.frozen
  BY <1>3 DEF RunTo, GateInv, Evidence
<1> QED
  BY <1>1, <1>3, <1>4, <1>5, MovingStep DEF RunTo, RunPCs, GateType, SameCourse

LEMMA ConfirmStep == GateType /\ GateInv /\ Confirm => GateType' /\ GateInv'
<1> SUFFICES ASSUME GateType, GateInv, Confirm PROVE GateType' /\ GateInv'
  OBVIOUS
<1>1. /\ UNCHANGED <<src, foreign, attest, status, own, builder, seen>> /\ Working
      /\ run.pc = "confirm"
  BY DEF Confirm, outside, Working
<1>2. CASE foreign # run.base \/ free <= Floor
  <2>1. /\ run' \in Runs /\ run'.pc = "off" /\ run'.exit = "bad" /\ run'.frozen = run.frozen
        /\ run'.attested = run.attested
    <3>1. run \in Runs /\ run' = [run EXCEPT !.pc = "off", !.exit = "bad"]
      BY <1>2 DEF Confirm, GateType
    <3> QED
      BY <3>1 DEF Runs, RunPCs
  <2>2. /\ manifest' \in Manifests /\ manifest'.overall = "FAIL" /\ manifest'.kind = manifest.kind
        /\ manifest'.security = manifest.security /\ manifest'.cleanup = manifest.cleanup
        /\ manifest'.steps = manifest.steps
    BY <1>2 DEF Confirm, GateType, Manifests
  <2>3. GateType'
    BY <1>1, <2>1, <2>2 DEF GateType
  <2>4. Undecided' /\ Errors' /\ Looked' /\ Evidence' /\ Builder'
    BY <1>1, <2>1, <2>2
    DEF Undecided, Errors, Looked, Evidence, Builder, GateInv, UsingBuilder, SameBuilder, SameCourse
  <2>5. PassIsEarned' /\ BlockedIsInfra'
    BY <2>2 DEF PassIsEarned, BlockedIsInfra
  <2> QED
    BY <2>3, <2>4, <2>5 DEF GateInv
<1>3. CASE ~(foreign # run.base \/ free <= Floor)
  <2>1. Goto("fast") /\ UNCHANGED manifest
    BY <1>3 DEF Confirm
  <2>2. Builder'
    BY <1>1, <2>1, MoveShapes
    DEF Builder, RunTo, RunPCs, GateInv, GateType, UsingBuilder, SameBuilder, SameCourse
  <2> QED
    BY <1>1, <2>1, <2>2, GotoStep DEF RunPCs, GateType
<1> QED
  BY <1>2, <1>3

LEMMA SnapshotsStep == GateType /\ GateInv /\ Snapshots => GateType' /\ GateInv'
<1> SUFFICES ASSUME GateType, GateInv, Snapshots PROVE GateType' /\ GateInv'
  OBVIOUS
<1>1. UNCHANGED <<src, foreign, attest, status, own, builder, seen>> /\ Working
  BY DEF Snapshots, outside, Working
<1>2. CASE foreign # run.base
  BY <1>1, <1>2, MoveShapes, StoppedStep, StillBuilder DEF Snapshots, GateType, RunPCs
<1>3. CASE foreign = run.base
  <2>1. Goto("claim") /\ UNCHANGED manifest
    BY <1>3 DEF Snapshots
  <2>2. Builder'
    BY <1>1, <2>1, MoveShapes
    DEF Builder, RunTo, RunPCs, GateInv, GateType, UsingBuilder, SameBuilder, SameCourse
  <2> QED
    BY <1>1, <2>1, <2>2, GotoStep DEF RunPCs, GateType
<1> QED
  BY <1>2, <1>3

LEMMA ClaimStep == GateType /\ GateInv /\ ClaimBuilder => GateType' /\ GateInv'
<1> SUFFICES ASSUME GateType, GateInv, ClaimBuilder PROVE GateType' /\ GateInv'
  OBVIOUS
<1>1. UNCHANGED <<src, foreign, attest, status, own, seen>> /\ Working
  BY DEF ClaimBuilder, outside, Working
<1>2. CASE builder.lock # "free"
  BY <1>1, <1>2, MoveShapes, StoppedStep, StillBuilder DEF ClaimBuilder, GateType, RunPCs
<1>3. CASE builder.lock = "free"
  <2>1. SameBuilder
    BY <1>3, LockOnly DEF ClaimBuilder, GateType
  <2>2. UNCHANGED manifest
    BY <1>3 DEF ClaimBuilder
  <2>3. ASSUME NEW x \in {"reserve", "ready", "create"}, Goto(x),
               x # "reserve" => builder.record # "none"
        PROVE  GateType' /\ GateInv'
    <3>1. Builder'
      <4>1. run'.pc = x
        BY <2>3, MoveShapes DEF RunTo, RunPCs, GateType
      <4> QED
        BY <1>1, <2>1, <2>2, <2>3, <4>1
        DEF Builder, GateInv, UsingBuilder, SameBuilder, SameCourse
    <3> QED
      BY <1>1, <2>1, <2>2, <2>3, <3>1, GotoStep DEF RunPCs, SameBuilder
  <2> DEFINE x == CASE builder.record = "none" -> "reserve" [] builder.listed -> "ready"
                    [] OTHER -> "create"
  <2>4. Goto(x)
    BY <1>3 DEF ClaimBuilder
  <2>5. x \in {"reserve", "ready", "create"} /\ (x # "reserve" => builder.record # "none")
    BY DEF GateInv, Builder, GateType, Builders
  <2> HIDE DEF x
  <2> QED
    BY <2>3, <2>4, <2>5
<1> QED
  BY <1>2, <1>3

\* A container that is started belongs to a builder with a record, and is none
\* that was seen before.
LEMMA BootedShape ==
    ASSUME builder \in Builders, builder' = Booted
    PROVE  /\ builder' \in Builders /\ builder'.id = builder.made + 1 /\ builder'.made = builder.made + 1
           /\ builder'.listed /\ builder'.record = builder.record /\ builder'.claimed = builder.claimed
<1>1. builder.made + 1 \in Nat /\ Booted = [builder EXCEPT !.id = builder.made + 1,
                                      !.made = builder.made + 1, !.listed = TRUE]
  BY DEF Booted, Builders
<1> QED
  BY <1>1 DEF Builders

LEMMA BuilderSteps ==
    GateType /\ GateInv /\ (ReserveBuilder \/ CreateBuilder \/ BuilderReady) => GateType' /\ GateInv'
<1> SUFFICES ASSUME GateType, GateInv, ReserveBuilder \/ CreateBuilder \/ BuilderReady
             PROVE  GateType' /\ GateInv'
  OBVIOUS
<1>1. UNCHANGED <<src, foreign, attest, status, own, seen>> /\ Working /\ SameCourse
  BY DEF ReserveBuilder, CreateBuilder, BuilderReady, outside, Working, SameCourse
<1>2. CASE ReserveBuilder
  <2>1. /\ builder' \in Builders /\ builder'.record = "creating" /\ builder'.id = builder.id
        /\ builder'.made = builder.made /\ builder'.listed = builder.listed
        /\ builder'.claimed = builder.claimed
    BY <1>2 DEF ReserveBuilder, GateType, Builders
  <2>2. Goto("create") /\ UNCHANGED manifest
    BY <1>2 DEF ReserveBuilder
  <2>3. Builder'
    BY <1>1, <2>1, <2>2, MoveShapes
    DEF Builder, RunTo, RunPCs, GateInv, GateType, UsingBuilder, SameCourse
  <2> QED
    BY <1>1, <2>1, <2>2, <2>3, GotoStep DEF RunPCs
<1>3. CASE CreateBuilder
  <2>1. Goto("ready") /\ UNCHANGED manifest /\ run.pc = "create"
    BY <1>3 DEF CreateBuilder
  <2>2. /\ builder' \in Builders /\ builder'.id = builder.made + 1
        /\ builder'.made = builder.made + 1 /\ builder'.listed
        /\ builder'.record = builder.record /\ builder'.claimed = builder.claimed
    BY <1>3, BootedShape DEF CreateBuilder, GateType
  <2>3. builder.made \in Nat /\ builder.claimed \in Nat /\ run'.pc = "ready"
    BY <2>1, MoveShapes DEF GateType, Builders, RunTo, RunPCs
  <2>4. Builder'
    BY <1>1, <2>1, <2>2, <2>3 DEF Builder, GateInv, UsingBuilder, SameCourse
  <2> QED
    BY <1>1, <2>1, <2>2, <2>4, GotoStep DEF RunPCs
<1>4. CASE BuilderReady /\ IsClaimed
  <2>1. /\ builder' \in Builders /\ builder'.id = builder.id /\ builder'.record = "ready"
        /\ builder'.made = builder.made /\ builder'.listed = builder.listed
        /\ builder'.claimed = builder.id
    BY <1>4 DEF BuilderReady, GateType, Builders
  <2>2. Goto("build") /\ UNCHANGED manifest /\ run.pc = "ready"
    BY <1>4 DEF BuilderReady
  <2>3. ~seen.stray
    BY <1>4 DEF IsClaimed, GateInv, Builder
  <2>4. run'.pc = "build"
    BY <2>2, MoveShapes DEF GateType, RunTo, RunPCs
  <2>5. Builder'
    BY <1>1, <2>1, <2>2, <2>3, <2>4 DEF Builder, GateInv, UsingBuilder, SameCourse
  <2> QED
    BY <1>1, <2>1, <2>2, <2>5, GotoStep DEF RunPCs
<1>5. CASE BuilderReady /\ ~IsClaimed
  <2>1. SameBuilder
    BY <1>5, LockOnly DEF BuilderReady, GateType
  <2> QED
    BY <1>1, <1>5, <2>1, MoveShapes, StoppedStep DEF BuilderReady, GateType, RunPCs
<1> QED
  BY <1>2, <1>3, <1>4, <1>5

---------------------------------------------------------------------------
---------------------------------------------------------------------------
(* The images, the review and the assessment.                              *)

\* A step of the acceptance that fails for a cause it blames.
LEMMA BlamedStep ==
    ASSUME GateType, GateInv, Working, RunTo("cleanup", "error"),
           NEW cause \in {"defect", "infra"}, Blame(cause),
           manifest' \in Manifests, manifest'.overall = manifest.overall,
           manifest'.cleanup = manifest.cleanup,
           manifest'.security = "PASS" => manifest.security = "PASS",
           manifest'.steps["fast"] = "PASS" => manifest.steps["fast"] = "PASS",
           cause = "infra" \/ manifest'.kind = manifest.kind,
           UNCHANGED <<src, foreign, attest, status, own, builder>>
    PROVE  GateType' /\ GateInv'
<1>1. /\ seen' \in Histories /\ SameCourse /\ seen'.versions = seen.versions
      /\ seen'.infra <=> seen.infra \/ cause = "infra"
      /\ seen'.defect <=> seen.defect \/ cause = "defect"
  BY BlameShape DEF GateType
<1>2. ~seen.defect
  BY NoErrorYet DEF Working
<1>3. manifest'.kind = "INFRA_FAILURE" =>
          manifest.kind = "INFRA_FAILURE" \/ (seen'.infra /\ ~seen'.defect)
  BY <1>1, <1>2
<1> QED
  BY <1>1, <1>3, FailingStep, StillBuilder DEF GateType

LEMMA BeginBuildStep == GateType /\ GateInv /\ BeginBuild => GateType' /\ GateInv'
<1> SUFFICES ASSUME GateType, GateInv, BeginBuild PROVE GateType' /\ GateInv'
  OBVIOUS
<1>1. /\ UNCHANGED <<src, foreign, attest, status, manifest>>
      /\ own' = own \cup {"images"} /\ run.pc = "build" /\ builder.listed
  BY DEF BeginBuild, outside
<1>2. RunTo("building", run.err)
  BY MoveShapes DEF BeginBuild, GateType, RunPCs
<1>3. /\ seen' \in Histories /\ seen'.versions = seen.versions \cup {src}
      /\ seen'.infra = seen.infra /\ seen'.defect = seen.defect
      /\ seen'.moved = seen.moved /\ seen'.reverted = seen.reverted /\ seen'.removed = seen.removed
      /\ seen'.stray <=> seen.stray \/ builder'.claimed \notin {0, builder'.id}
  <2>1. ASSUME NEW r \in BOOLEAN, seen' = [seen EXCEPT !.versions = @ \cup {src}, !.stray = r]
        PROVE  /\ seen' \in Histories /\ seen'.versions = seen.versions \cup {src}
               /\ seen'.infra = seen.infra /\ seen'.defect = seen.defect /\ seen'.moved = seen.moved
               /\ seen'.reverted = seen.reverted /\ seen'.removed = seen.removed /\ seen'.stray = r
    BY <2>1 DEF GateType, Histories
  <2>2. /\ (seen.stray \/ builder'.claimed \notin {0, builder'.id}) \in BOOLEAN
        /\ seen' = [seen EXCEPT !.versions = @ \cup {src},
                        !.stray = (seen.stray \/ builder'.claimed \notin {0, builder'.id})]
    BY DEF BeginBuild, GateType, Histories
  <2> QED
    BY <2>1, <2>2
<1>4. /\ builder' \in Builders /\ builder'.listed /\ builder'.record = builder.record
      /\ builder'.claimed = builder.claimed
      /\ builder'.made >= builder.made /\ builder'.id <= builder'.made
      /\ builder'.id = (IF builder.id = 0 THEN builder.made + 1 ELSE builder.id)
  <2>1. CASE builder.id = 0
    BY <2>1, BootedShape DEF BeginBuild, GateType, Builders
  <2>2. CASE builder.id # 0
    BY <1>1, <2>2 DEF BeginBuild, GateType, GateInv, Builder, Builders
  <2> QED
    BY <2>1, <2>2
<1>5. Builder'
  <2>1. /\ builder.claimed \in Nat /\ builder.made \in Nat /\ builder.id \in Nat
        /\ builder.claimed <= builder.made /\ builder'.made \in Nat
    BY <1>4 DEF GateType, GateInv, Builder, Builders
  <2>2. builder.claimed \notin {0, builder.id} => builder'.claimed \notin {0, builder'.id}
    BY <1>4, <2>1
  <2>3. ~seen.removed => builder'.claimed \in {0, builder'.id}
    BY <1>1, <1>4 DEF GateInv, Builder, UsingBuilder
  <2>4. manifest'.cleanup # "PASS"
    BY <1>1 DEF GateInv, Evidence
  <2>5. seen'.stray => seen'.removed /\ builder'.claimed \notin {0, builder'.id}
    BY <1>3, <2>2, <2>3 DEF GateInv, Builder
  <2>6. builder'.record # "none"
    BY <1>1, <1>4 DEF GateInv, Builder
  <2> QED
    BY <1>2, <1>3, <1>4, <2>1, <2>3, <2>4, <2>5, <2>6 DEF Builder, RunTo
<1>6. GateType'
  BY <1>1, <1>2, <1>3, <1>4 DEF GateType, RunTo
<1>7. Undecided' /\ Errors' /\ Looked' /\ Evidence'
  BY <1>1, <1>2, <1>3 DEF Undecided, Errors, Looked, Evidence, RunTo, GateInv
<1>8. PassIsEarned' /\ BlockedIsInfra'
  BY <1>1 DEF PassIsEarned, BlockedIsInfra, Undecided, GateInv
<1> QED
  BY <1>5, <1>6, <1>7, <1>8 DEF GateInv

LEMMA EndBuildStep == GateType /\ GateInv /\ EndBuild => GateType' /\ GateInv'
<1> SUFFICES ASSUME GateType, GateInv, EndBuild PROVE GateType' /\ GateInv'
  OBVIOUS
<1>1. /\ UNCHANGED <<src, foreign, attest, status, own, builder, manifest>> /\ Working
      /\ run.pc = "building" /\ SameBuilder
  BY LockOnly DEF EndBuild, Working, GateType
<1>2. CASE run' = [run EXCEPT !.n = @ + 1, !.pc = "build"] /\ UNCHANGED seen
  <2>1. RunTo("build", run.err)
    <3>1. run.n + 1 \in Nat /\ run' = [run EXCEPT !.n = run.n + 1, !.pc = "build"]
      BY <1>2 DEF GateType, Runs
    <3> QED
      BY <3>1, NextPhase DEF RunPCs, GateType
  <2>2. Builder'
    BY <1>1, <1>2, <2>1, BuilderKept DEF RunTo, UsingBuilder, SameCourse
  <2> QED
    BY <1>1, <1>2, <2>1, <2>2, RunToStep DEF RunPCs, GateType
<1>3. ASSUME run' = [run EXCEPT !.pc = "cleanup", !.err = "error", !.denied = TRUE]
      PROVE  RunTo("cleanup", "error")
  BY <1>3 DEF RunTo, Runs, RunPCs, GateType
<1>4. CASE RunTo("cleanup", "error") /\ UNCHANGED seen
  BY <1>1, <1>4, FailingStep DEF GateType, SameCourse
<1>5. CASE RunTo("cleanup", "error") /\ Blame("defect")
  BY <1>1, <1>5, BlamedStep DEF GateType
<1>6. \/ run' = [run EXCEPT !.n = @ + 1, !.pc = "build"] /\ UNCHANGED seen
      \/ run' = [run EXCEPT !.pc = "cleanup", !.err = "error", !.denied = TRUE]
         /\ (UNCHANGED seen \/ Blame("defect"))
  BY DEF EndBuild
<1> QED
  BY <1>2, <1>3, <1>4, <1>5, <1>6

LEMMA MissingStep == GateType /\ GateInv /\ BuilderMissing => GateType' /\ GateInv'
<1> SUFFICES ASSUME GateType, GateInv, BuilderMissing PROVE GateType' /\ GateInv'
  OBVIOUS
<1>1. /\ UNCHANGED <<src, foreign, attest, status, own, builder, manifest, seen>> /\ Working
      /\ SameBuilder
  BY LockOnly DEF BuilderMissing, outside, Working, GateType
<1>2. RunTo("cleanup", "error")
  BY MoveShapes DEF BuilderMissing, RunPCs, GateType
<1> QED
  BY <1>1, <1>2, FailingStep DEF GateType, SameCourse

LEMMA ScanImagesStep == GateType /\ GateInv /\ ScanImages => GateType' /\ GateInv'
<1> SUFFICES ASSUME GateType, GateInv, ScanImages PROVE GateType' /\ GateInv'
  OBVIOUS
<1>1. /\ UNCHANGED <<src, foreign, attest, status, own, builder, manifest>> /\ Working
      /\ run.pc = "build"
  BY DEF ScanImages, Working
<1>2. CASE run' = [run EXCEPT !.pc = "await", !.n = 0] /\ UNCHANGED seen
  <2>1. RunTo("await", run.err)
    BY <1>2, NextPhase DEF RunPCs, GateType
  <2>2. Builder'
    BY <1>1, <1>2, <2>1, BuilderKept DEF RunTo, UsingBuilder, SameCourse
  <2> QED
    BY <1>1, <1>2, <2>1, <2>2, RunToStep DEF RunPCs, GateType
<1>3. CASE Blame("defect") /\ Raise("cleanup")
  <2>1. RunTo("cleanup", "error")
    BY <1>3, MoveShapes DEF RunPCs, GateType
  <2> QED
    BY <1>1, <1>3, <2>1, BlamedStep DEF GateType
<1> QED
  BY <1>2, <1>3 DEF ScanImages

LEMMA BlockStep ==
    ASSUME GateType, GateInv, Working, Block, UNCHANGED <<src, foreign, attest, status, own, builder>>
    PROVE  GateType' /\ GateInv'
<1>1. RunTo("cleanup", "error")
  BY MoveShapes DEF Block, RunPCs, GateType
<1>2. /\ manifest' \in Manifests /\ manifest'.overall = manifest.overall
      /\ manifest'.cleanup = manifest.cleanup /\ manifest'.security = manifest.security
      /\ manifest'.steps = manifest.steps
  BY DEF Block, GateType, Manifests
<1> QED
  BY <1>1, <1>2, BlamedStep DEF Block

LEMMA ReviewSteps ==
    GateType /\ GateInv /\ (AwaitReview \/ EvaluateSources) => GateType' /\ GateInv'
<1> SUFFICES ASSUME GateType, GateInv, AwaitReview \/ EvaluateSources PROVE GateType' /\ GateInv'
  OBVIOUS
<1>1. /\ UNCHANGED <<src, foreign, attest, status, own, builder>> /\ Working
      /\ run.pc \in {"await", "evaluate"}
  BY DEF AwaitReview, EvaluateSources, outside, Working
<1>2. CASE Block
  BY <1>1, <1>2, BlockStep
<1>3. CASE Goto("evaluate") /\ UNCHANGED <<manifest, seen>>
  <2>1. Builder'
    BY <1>1, <1>3, MoveShapes, BuilderKept DEF RunTo, UsingBuilder, RunPCs, GateType, SameCourse
  <2> QED
    BY <1>1, <1>3, <2>1, GotoStep DEF RunPCs, GateType
<1>4. CASE /\ attest.of = run.frozen /\ UNCHANGED <<manifest, seen>>
           /\ run' = [run EXCEPT !.pc = "assessment", !.attested = attest]
  <2>1. /\ run' \in Runs /\ run'.pc = "assessment" /\ run'.err = run.err
        /\ run'.frozen = run.frozen /\ run'.exit = run.exit /\ run'.attested = attest
    BY <1>4 DEF Runs, RunPCs, GateType
  <2>2. Builder'
    BY <1>1, <1>4, <2>1, BuilderKept DEF UsingBuilder, SameCourse
  <2> QED
    BY <1>1, <1>4, <2>1, <2>2, MovingStep DEF RunPCs, GateType, SameCourse
<1> QED
  BY <1>2, <1>3, <1>4 DEF AwaitReview, EvaluateSources

\* The report after the assessment.
LEMMA AssessedFields ==
    ASSUME manifest \in Manifests, NEW cause, NEW st \in {"PASS", "FAIL", "BLOCKED"},
           manifest' = [Recorded(manifest, "assessment", cause) EXCEPT !.security = st]
    PROVE  /\ manifest' \in Manifests /\ manifest'.security = st
           /\ manifest'.overall = manifest.overall /\ manifest'.cleanup = manifest.cleanup
           /\ cause = "infra" \/ manifest'.kind = manifest.kind
           /\ manifest'.steps["fast"] = manifest.steps["fast"]
<1>1. "assessment" \in Required /\ "fast" \in Required \ {"assessment"}
  BY DEF Required
<1>2. PICK r \in Manifests : r = Recorded(manifest, "assessment", cause)
  BY <1>1, RecordedFields
<1>3. /\ manifest' \in Manifests /\ manifest'.security = st /\ manifest'.overall = r.overall
      /\ manifest'.cleanup = r.cleanup /\ manifest'.kind = r.kind /\ manifest'.steps = r.steps
  BY <1>2 DEF Manifests
<1>4. /\ r.overall = manifest.overall /\ r.cleanup = manifest.cleanup
      /\ cause = "infra" \/ r.kind = manifest.kind
      /\ r.steps = Marked(manifest.steps, "assessment", cause)
  BY <1>1, <1>2, RecordedFields
<1>5. Marked(manifest.steps, "assessment", cause)["fast"] = manifest.steps["fast"]
  BY <1>1, MarkedSteps DEF Manifests
<1> QED
  BY <1>3, <1>4, <1>5

LEMMA AssessStep == GateType /\ GateInv /\ Assess => GateType' /\ GateInv'
<1> SUFFICES ASSUME GateType, GateInv, Assess PROVE GateType' /\ GateInv'
  OBVIOUS
<1>1. /\ UNCHANGED <<src, foreign, attest, status, own, builder>> /\ Working
      /\ run.pc = "assessment" /\ manifest \in Manifests
  BY DEF Assess, outside, Working, GateType
<1>2. CASE /\ Use /\ Goto("tests")
           /\ manifest' = [Recorded(manifest, "assessment", "none") EXCEPT !.security = "PASS"]
  <2>1. RunTo("tests", run.err)
    BY <1>2, MoveShapes DEF RunPCs, GateType
  <2>2. /\ seen' \in Histories /\ SameCourse /\ seen'.versions = seen.versions \cup {src}
        /\ seen'.infra = seen.infra /\ seen'.defect = seen.defect
    BY <1>2, UseShape DEF GateType
  <2>3. /\ manifest' \in Manifests /\ manifest'.overall = manifest.overall
        /\ manifest'.kind = manifest.kind /\ manifest'.cleanup = manifest.cleanup
        /\ manifest'.steps["fast"] = manifest.steps["fast"]
    BY <1>1, <1>2, AssessedFields
  <2>4. Builder'
    BY <1>1, <2>1, <2>2, <2>3, BuilderKept DEF RunTo, UsingBuilder
  <2>5. run'.attested.of = run'.frozen
    BY <1>1, <2>1 DEF RunTo, GateInv, Evidence
  <2> QED
    BY <1>1, <2>1, <2>2, <2>3, <2>4, <2>5, MovingStep DEF RunTo, RunPCs, GateType
<1>3. CASE /\ Raise("cleanup") /\ Blame("infra")
           /\ manifest' = [Recorded(manifest, "assessment", "infra") EXCEPT !.security = "BLOCKED"]
  <2>1. RunTo("cleanup", "error")
    BY <1>3, MoveShapes DEF RunPCs, GateType
  <2>2. /\ manifest' \in Manifests /\ manifest'.overall = manifest.overall
        /\ manifest'.cleanup = manifest.cleanup /\ manifest'.security = "BLOCKED"
        /\ manifest'.steps["fast"] = manifest.steps["fast"]
    BY <1>1, <1>3, AssessedFields
  <2> QED
    BY <1>1, <1>3, <2>1, <2>2, BlamedStep
<1>4. CASE /\ Raise("cleanup") /\ UNCHANGED seen
           /\ manifest' = [Recorded(manifest, "assessment", "replaced") EXCEPT !.security = "FAIL"]
  <2>1. RunTo("cleanup", "error")
    BY <1>4, MoveShapes DEF RunPCs, GateType
  <2>2. /\ manifest' \in Manifests /\ manifest'.overall = manifest.overall
        /\ manifest'.cleanup = manifest.cleanup /\ manifest'.security = "FAIL"
        /\ manifest'.kind = manifest.kind /\ manifest'.steps["fast"] = manifest.steps["fast"]
    BY <1>1, <1>4, AssessedFields
  <2> QED
    BY <1>1, <1>4, <2>1, <2>2, FailingStep, StillBuilder DEF GateType, SameCourse
<1> HIDE DEF GateType, GateInv
<1> QED
  BY <1>2, <1>3, <1>4 DEF Assess
---------------------------------------------------------------------------
(* The tests.                                                              *)

LEMMA BeginTestStep == GateType /\ GateInv /\ BeginTest => GateType' /\ GateInv'
<1> SUFFICES ASSUME GateType, GateInv, BeginTest PROVE GateType' /\ GateInv'
  OBVIOUS
<1>1. /\ UNCHANGED <<src, foreign, attest, status, builder>> /\ Working
      /\ own' = own \cup {"tests"} /\ run.pc = "tests"
  BY DEF BeginTest, outside, Working
<1>2. RunTo("testing", run.err)
  BY MoveShapes DEF BeginTest, GateType, RunPCs
<1>3. /\ seen' \in Histories /\ SameCourse /\ seen'.versions = seen.versions \cup {src}
      /\ seen'.infra = seen.infra /\ seen'.defect = seen.defect
  BY UseShape DEF BeginTest, GateType
<1>4. manifest' \in Manifests /\ SameReport /\ manifest'.steps = manifest.steps
  BY ResultShape DEF BeginTest, GateType, Outcomes
<1>5. Builder'
  BY <1>1, <1>2, <1>3, <1>4, BuilderKept DEF RunTo, UsingBuilder, SameReport
<1>6. manifest.security = "PASS" => run'.attested.of = run'.frozen
  BY <1>2 DEF RunTo, GateInv, Evidence
<1>7. own' \subseteq {"images", "tests"}
  BY <1>1 DEF GateType
<1> QED
  BY <1>1, <1>2, <1>3, <1>4, <1>5, <1>6, <1>7, MovingStep DEF RunTo, RunPCs, SameReport, GateType

\* A test that fails and blames nobody: it was skipped or cancelled.
LEMMA FailedTest ==
    ASSUME GateType, GateInv, Working, Raise("cleanup"), NEW st \in {"RUNNING", "FAIL"}, Result(st),
           UNCHANGED <<src, foreign, attest, status, own, builder, seen>>
    PROVE  GateType' /\ GateInv'
<1>1. RunTo("cleanup", "error")
  BY MoveShapes DEF RunPCs, GateType
<1>2. manifest' \in Manifests /\ SameReport /\ manifest'.steps = manifest.steps
  BY ResultShape DEF GateType, Outcomes
<1> QED
  BY <1>1, <1>2, FailingStep, StillBuilder DEF GateType, SameCourse, SameReport

\* The report of a test that failed for a cause.
LEMMA BlamedResult ==
    ASSUME manifest \in Manifests, NEW cause,
           manifest' = [manifest EXCEPT !.results[Current] = Unpassed,
                           !.kind = IF cause = "infra" THEN "INFRA_FAILURE" ELSE @]
    PROVE  /\ manifest' \in Manifests /\ manifest'.steps = manifest.steps
           /\ manifest'.overall = manifest.overall /\ manifest'.cleanup = manifest.cleanup
           /\ manifest'.security = manifest.security
           /\ cause = "infra" \/ manifest'.kind = manifest.kind
<1> DEFINE res == [manifest.results EXCEPT ![Current] = Unpassed]
           k   == IF cause = "infra" THEN "INFRA_FAILURE" ELSE manifest.kind
<1>1. res \in [Tests -> Outcomes] /\ k \in {"none", "INFRA_FAILURE"}
  BY DEF Manifests, Outcomes, Unpassed
<1>2. manifest' = [manifest EXCEPT !.results = res, !.kind = k]
  BY DEF Manifests
<1>3. ASSUME NEW y \in [Tests -> Outcomes], NEW z \in {"none", "INFRA_FAILURE"},
             manifest' = [manifest EXCEPT !.results = y, !.kind = z]
      PROVE  /\ manifest' \in Manifests /\ manifest'.kind = z
             /\ manifest'.overall = manifest.overall /\ manifest'.security = manifest.security
             /\ manifest'.cleanup = manifest.cleanup /\ manifest'.steps = manifest.steps
  BY <1>3 DEF Manifests
<1>4. cause = "infra" \/ k = manifest.kind
  OBVIOUS
<1> HIDE DEF res, k
<1> QED
  BY <1>1, <1>2, <1>3, <1>4

LEMMA EndTestStep == GateType /\ GateInv /\ EndTest => GateType' /\ GateInv'
<1> SUFFICES ASSUME GateType, GateInv, EndTest PROVE GateType' /\ GateInv'
  OBVIOUS
<1>1. /\ UNCHANGED <<src, foreign, attest, status, own, builder>> /\ Working
      /\ run.pc = "testing"
  BY DEF EndTest, Working
<1>2. CASE /\ Result("PASS") /\ run' = [run EXCEPT !.n = @ + 1, !.pc = "tests"]
           /\ UNCHANGED seen
  <2>1. RunTo("tests", run.err)
    <3>1. run.n + 1 \in Nat /\ run' = [run EXCEPT !.n = run.n + 1, !.pc = "tests"]
      BY <1>2 DEF GateType, Runs
    <3> QED
      BY <3>1, NextPhase DEF RunPCs, GateType
  <2>2. manifest' \in Manifests /\ SameReport /\ manifest'.steps = manifest.steps
    BY <1>2, ResultShape DEF GateType, Outcomes
  <2>3. Builder'
    BY <1>1, <1>2, <2>1, <2>2, BuilderKept DEF RunTo, UsingBuilder, SameReport, SameCourse
  <2>4. manifest.security = "PASS" => run'.attested.of = run'.frozen
    BY <2>1 DEF RunTo, GateInv, Evidence
  <2> QED
    BY <1>1, <1>2, <2>1, <2>2, <2>3, <2>4, MovingStep
    DEF RunTo, RunPCs, SameReport, SameCourse, GateType
<1>3. CASE Result(Unpassed) /\ Raise("cleanup") /\ UNCHANGED seen
  BY <1>1, <1>3, FailedTest DEF Unpassed
<1>4. ASSUME NEW cause \in {"defect", "infra"}, Raise("cleanup"), Blame(cause),
             manifest' = [manifest EXCEPT !.results[Current] = Unpassed,
                             !.kind = IF cause = "infra" THEN "INFRA_FAILURE" ELSE @]
      PROVE  GateType' /\ GateInv'
  <2>1. RunTo("cleanup", "error")
    BY <1>4, MoveShapes DEF RunPCs, GateType
  <2>2. /\ manifest' \in Manifests /\ manifest'.steps = manifest.steps
        /\ manifest'.overall = manifest.overall /\ manifest'.cleanup = manifest.cleanup
        /\ manifest'.security = manifest.security
        /\ cause = "infra" \/ manifest'.kind = manifest.kind
    BY <1>4, BlamedResult DEF GateType
  <2> QED
    BY <1>1, <1>4, <2>1, <2>2, BlamedStep
<1> HIDE DEF GateType, GateInv
<1> QED
  BY <1>2, <1>3, <1>4 DEF EndTest

LEMMA TestsDoneStep == GateType /\ GateInv /\ (TestsDone \/ SkipTest) => GateType' /\ GateInv'
<1> SUFFICES ASSUME GateType, GateInv, TestsDone \/ SkipTest PROVE GateType' /\ GateInv'
  OBVIOUS
<1>1. UNCHANGED <<src, foreign, attest, status, own, builder, seen>> /\ Working
  BY DEF TestsDone, SkipTest, Working
<1>2. CASE SkipTest
  BY <1>1, <1>2, FailedTest DEF SkipTest
<1>3. CASE Goto("cleanup") /\ UNCHANGED manifest
  <2>1. Builder'
    BY <1>1, <1>3, MoveShapes, BuilderKept DEF RunTo, UsingBuilder, RunPCs, GateType, SameCourse
  <2> QED
    BY <1>1, <1>3, <2>1, GotoStep DEF RunPCs, GateType
<1>4. CASE Raise("cleanup") /\ UNCHANGED manifest
  <2>1. RunTo("cleanup", "error")
    BY <1>4, MoveShapes DEF RunPCs, GateType
  <2> QED
    BY <1>1, <1>4, <2>1, FailingStep, StillBuilder DEF GateType, SameCourse
<1> QED
  BY <1>2, <1>3, <1>4 DEF TestsDone

---------------------------------------------------------------------------
(* The cleanup and the verdict.                                            *)

\* What the cleanup reports.
LEMMA CleanedReport ==
    ASSUME manifest \in Manifests, run \in Runs, NEW clean \in BOOLEAN, Cleaned(clean)
    PROVE  /\ manifest' \in Manifests /\ manifest'.cleanup = (IF clean THEN "PASS" ELSE "FAIL")
           /\ manifest'.overall = manifest.overall /\ manifest'.kind = manifest.kind
           /\ manifest'.security = manifest.security
           /\ manifest'.steps["fast"] = manifest.steps["fast"]
           /\ run' \in Runs /\ run'.frozen = run.frozen /\ run'.exit = run.exit
           /\ run'.attested = run.attested
           /\ run'.pc = (IF clean /\ run.err = "none" THEN "review" ELSE "identity")
           /\ run'.err = (IF run.err = "none" /\ ~clean THEN "error" ELSE run.err)
<1> DEFINE a  == IF run.err = "interrupt" THEN manifest.steps["acceptance"]
                 ELSE IF clean /\ run.err = "none" THEN "PASS" ELSE "FAIL"
           c  == IF clean THEN "PASS" ELSE "FAIL"
           st == [manifest.steps EXCEPT !["acceptance"] = a]
<1>1. st \in [Required -> Outcomes] /\ st["fast"] = manifest.steps["fast"] /\ c \in {"PASS", "FAIL"}
  BY DEF Manifests, Outcomes, Required
<1>2. manifest' = [manifest EXCEPT !.cleanup = c, !.steps = st]
  BY DEF Cleaned, Manifests
<1>3. ASSUME NEW y \in [Required -> Outcomes], NEW z \in {"PASS", "FAIL"},
             manifest' = [manifest EXCEPT !.cleanup = z, !.steps = y]
      PROVE  /\ manifest' \in Manifests /\ manifest'.cleanup = z /\ manifest'.steps = y
             /\ manifest'.overall = manifest.overall /\ manifest'.kind = manifest.kind
             /\ manifest'.security = manifest.security
  BY <1>3 DEF Manifests
<1>4. run' = [run EXCEPT !.pc = IF clean /\ run.err = "none" THEN "review" ELSE "identity",
                         !.err = IF run.err = "none" /\ ~clean THEN "error" ELSE run.err]
  BY DEF Cleaned, Runs
<1>5. /\ run' \in Runs /\ run'.frozen = run.frozen /\ run'.exit = run.exit
      /\ run'.attested = run.attested
      /\ run'.pc = (IF clean /\ run.err = "none" THEN "review" ELSE "identity")
      /\ run'.err = (IF run.err = "none" /\ ~clean THEN "error" ELSE run.err)
  BY <1>4 DEF Runs, RunPCs
<1> HIDE DEF st, c
<1>6. /\ manifest' \in Manifests /\ manifest'.cleanup = c /\ manifest'.steps = st
      /\ manifest'.overall = manifest.overall /\ manifest'.kind = manifest.kind
      /\ manifest'.security = manifest.security
  BY <1>1, <1>2, <1>3
<1> QED
  BY <1>1, <1>5, <1>6 DEF c

LEMMA CleanupStep == GateType /\ GateInv /\ Cleanup => GateType' /\ GateInv'
<1> SUFFICES ASSUME GateType, GateInv, Cleanup PROVE GateType' /\ GateInv'
  OBVIOUS
<1> DEFINE clean == own' = {} /\ Untouched /\ IsClaimed
<1>1. /\ UNCHANGED <<src, foreign, attest, status, seen>> /\ run.pc = "cleanup"
      /\ own' = {} \/ own' = own
  BY DEF Cleanup, Removal
<1>2. /\ manifest' \in Manifests /\ manifest'.cleanup = (IF clean THEN "PASS" ELSE "FAIL")
      /\ manifest'.overall = manifest.overall /\ manifest'.kind = manifest.kind
      /\ manifest'.security = manifest.security
      /\ manifest'.steps["fast"] = manifest.steps["fast"]
      /\ run' \in Runs /\ run'.frozen = run.frozen /\ run'.exit = run.exit
      /\ run'.attested = run.attested
      /\ run'.pc = (IF clean /\ run.err = "none" THEN "review" ELSE "identity")
      /\ run'.err = (IF run.err = "none" /\ ~clean THEN "error" ELSE run.err)
  <2>1. clean \in BOOLEAN /\ Cleaned(clean)
    BY DEF Cleanup
  <2> HIDE DEF clean
  <2> QED
    BY <2>1, CleanedReport DEF GateType
<1>3. /\ builder' \in Builders /\ builder'.id = builder.id /\ builder'.record = builder.record
      /\ builder'.made = builder.made /\ builder'.listed = builder.listed
      /\ builder'.claimed = (IF IsClaimed THEN builder.id ELSE builder.claimed)
  <2>1. /\ builder' = [builder EXCEPT !.lock = "free",
                                      !.claimed = IF IsClaimed THEN builder.id ELSE builder.claimed]
        /\ (IF IsClaimed THEN builder.id ELSE builder.claimed) \in Nat
    BY DEF Cleanup, Removal, GateType, Builders
  <2>2. \A c \in Nat : LET b == [builder EXCEPT !.lock = "free", !.claimed = c]
                       IN  /\ b \in Builders /\ b.id = builder.id /\ b.record = builder.record
                           /\ b.made = builder.made /\ b.listed = builder.listed /\ b.claimed = c
    BY DEF GateType, Builders
  <2> QED
    BY <2>1, <2>2
<1>4. clean => own' = {} /\ IsClaimed
  OBVIOUS
<1> HIDE DEF clean
<1>5. GateType'
  BY <1>1, <1>2, <1>3 DEF GateType
<1>6. Ongoing
  BY <1>1, <1>2 DEF Ongoing, SameCourse
<1>7. Errors'
  BY <1>1, <1>2 DEF Errors, GateInv
<1>8. Evidence'
  BY <1>1, <1>2, <1>4 DEF Evidence, GateInv
<1>9. Builder'
  BY <1>1, <1>2, <1>3, <1>4 DEF Builder, GateInv, IsClaimed, UsingBuilder
<1> QED
  BY <1>5, <1>6, <1>7, <1>8, <1>9, OngoingKeeps DEF GateInv

LEMMA FinalStepStep == GateType /\ GateInv /\ FinalStep => GateType' /\ GateInv'
<1> SUFFICES ASSUME GateType, GateInv, FinalStep PROVE GateType' /\ GateInv'
  OBVIOUS
<1>1. /\ UNCHANGED <<src, foreign, attest, status, own, builder, seen>> /\ run.pc = "final"
      /\ "final" \in Required /\ "fast" \in Required \ {"final"} /\ manifest \in Manifests
  BY DEF FinalStep, outside, Required, GateType
<1>2. ASSUME NEW cause \in {"none", "stale"}, manifest' = Recorded(manifest, "final", cause)
      PROVE  /\ manifest' \in Manifests /\ SameReport
             /\ manifest'.steps["fast"] = manifest.steps["fast"]
  <2>1. /\ manifest' \in Manifests /\ SameReport
        /\ manifest'.steps = Marked(manifest.steps, "final", cause)
    BY <1>1, <1>2, RecordedFields DEF SameReport
  <2> QED
    BY <1>1, <2>1, MarkedSteps DEF Manifests
<1>3. manifest' \in Manifests /\ SameReport /\ manifest'.steps["fast"] = manifest.steps["fast"]
  BY <1>2 DEF FinalStep
<1>4. PICK e \in {run.err, "error"} : RunTo("identity", e)
  BY MoveShapes DEF FinalStep, RunPCs, GateType
<1>5. GateType'
  BY <1>1, <1>3, <1>4 DEF GateType, RunTo
<1>6. Ongoing
  BY <1>1, <1>3, <1>4 DEF Ongoing, RunTo, SameReport, SameCourse
<1>7. Errors'
  BY <1>1, <1>3, <1>4 DEF Errors, RunTo, SameReport, GateInv
<1>8. Evidence' /\ Builder'
  BY <1>1, <1>3, <1>4
  DEF Evidence, Builder, RunTo, SameReport, GateInv, UsingBuilder, SameBuilder, SameCourse
<1> QED
  BY <1>5, <1>6, <1>7, <1>8, OngoingKeeps DEF GateInv

\* What each verdict says of the report it was computed from.
LEMMA VerdictMeans ==
    ASSUME NEW m, NEW failed \in BOOLEAN
    PROVE  /\ Overall(m, failed) \in {"PASS", "FAIL", "BLOCKED"}
           /\ Overall(m, failed) = "PASS" =>
                 /\ ~failed /\ m.security = "PASS" /\ m.cleanup = "PASS"
                 /\ \A s \in Required : m.steps[s] = "PASS"
                 /\ \A t \in Tests : m.results[t] = "PASS"
           /\ Overall(m, failed) = "BLOCKED" => failed /\ m.kind = "INFRA_FAILURE"
  BY DEF Overall

LEMMA PublishStep == GateType /\ GateInv /\ Publish => GateType' /\ GateInv'
<1> SUFFICES ASSUME GateType, GateInv, Publish PROVE GateType' /\ GateInv'
  OBVIOUS
<1> DEFINE m == IF manifest.steps["final"] # "none" THEN manifest
                ELSE Recorded(manifest, "final", IF Postcondition THEN "none" ELSE "stale")
           failed == \/ run.err = "error" \/ src # run.frozen
                     \/ manifest.steps["final"] = "none" /\ ~Postcondition
           overall == Overall(m, failed)
<1>1. /\ UNCHANGED <<src, foreign, attest, status, own, seen>> /\ run.pc = "identity"
      /\ "final" \in Required /\ "fast" \in Required \ {"final"} /\ manifest \in Manifests
  BY DEF Publish, outside, Required, GateType
<1>2. /\ manifest' = [m EXCEPT !.overall = overall]
      /\ run' = [run EXCEPT !.pc = "off",
                    !.exit = IF overall = "PASS" /\ run.err = "none" THEN "ok" ELSE "bad"]
      /\ builder' = [builder EXCEPT !.lock = IF @ = "gate" THEN "free" ELSE @]
  BY DEF Publish
<1>3. failed \in BOOLEAN
  OBVIOUS
<1>4. failed \/ (run.err # "error" /\ src = run.frozen)
  OBVIOUS
<1>5. /\ m \in Manifests /\ m.kind = manifest.kind /\ m.security = manifest.security
      /\ m.cleanup = manifest.cleanup /\ m.results = manifest.results
      /\ m.steps["fast"] = manifest.steps["fast"]
  <2>1. CASE manifest.steps["final"] # "none"
    BY <1>1, <2>1
  <2>2. ASSUME NEW cause \in {"none", "stale"}, m = Recorded(manifest, "final", cause)
        PROVE  /\ m \in Manifests /\ m.kind = manifest.kind /\ m.security = manifest.security
               /\ m.cleanup = manifest.cleanup /\ m.results = manifest.results
               /\ m.steps["fast"] = manifest.steps["fast"]
    <3>1. /\ m \in Manifests /\ m.kind = manifest.kind /\ m.security = manifest.security
          /\ m.cleanup = manifest.cleanup /\ m.results = manifest.results
          /\ m.steps = Marked(manifest.steps, "final", cause)
      BY <1>1, <2>2, RecordedFields
    <3>2. Marked(manifest.steps, "final", cause)["fast"] = manifest.steps["fast"]
      BY <1>1, MarkedSteps DEF Manifests
    <3> QED
      BY <3>1, <3>2
  <2>3. manifest.steps["final"] # "none" \/ \E cause \in {"none", "stale"} :
            m = Recorded(manifest, "final", cause)
    OBVIOUS
  <2> QED
    BY <2>1, <2>2, <2>3
<1> HIDE DEF m, failed
<1>6. /\ overall \in {"PASS", "FAIL", "BLOCKED"}
      /\ overall = "PASS" =>
            /\ ~failed /\ m.security = "PASS" /\ m.cleanup = "PASS"
            /\ \A s \in Required : m.steps[s] = "PASS"
            /\ \A t \in Tests : m.results[t] = "PASS"
      /\ overall = "BLOCKED" => failed /\ m.kind = "INFRA_FAILURE"
  BY <1>3, VerdictMeans
<1> HIDE DEF overall
<1>7. /\ manifest' \in Manifests /\ manifest'.overall = overall /\ manifest'.kind = m.kind
      /\ manifest'.security = m.security /\ manifest'.cleanup = m.cleanup
      /\ manifest'.steps = m.steps /\ manifest'.results = m.results
  BY <1>2, <1>5, <1>6 DEF Manifests
<1>8. /\ run' \in Runs /\ run'.pc = "off" /\ run'.frozen = run.frozen
      /\ run'.attested = run.attested
      /\ run'.exit = (IF overall = "PASS" /\ run.err = "none" THEN "ok" ELSE "bad")
  BY <1>2 DEF GateType, Runs, RunPCs
<1>9. SameBuilder
  BY <1>2, LockOnly DEF GateType, Builders
<1>10. GateType'
  BY <1>1, <1>7, <1>8, <1>9 DEF GateType, SameBuilder
<1>11. Undecided' /\ Errors'
  BY <1>1, <1>7, <1>8 DEF Undecided, Errors, GateInv
<1>12. Looked' /\ Builder'
  BY <1>1, <1>5, <1>7, <1>8, <1>9
  DEF Looked, Builder, GateInv, UsingBuilder, SameBuilder, SameCourse
<1>13. Evidence'
  BY <1>1, <1>5, <1>7, <1>8 DEF Evidence, GateInv
<1>14. PassIsEarned'
  <2> SUFFICES ASSUME overall = "PASS" PROVE PassIsEarned'
    BY <1>7 DEF PassIsEarned
  <2>1. /\ run.err # "error" /\ src = run.frozen /\ manifest.security = "PASS"
        /\ manifest.cleanup = "PASS" /\ manifest.steps["fast"] = "PASS"
    BY <1>1, <1>4, <1>5, <1>6
  <2>2. seen.versions = {run.frozen} \/ seen.reverted
    BY <1>1, <2>1 DEF Looked, GateInv
  <2>3. run.attested.of = run.frozen /\ own = {} /\ ~seen.defect
    BY <1>1, <2>1 DEF Evidence, Errors, GateInv
  <2> QED
    BY <1>1, <1>6, <1>7, <1>8, <2>2, <2>3 DEF PassIsEarned
<1>15. BlockedIsInfra'
  BY <1>1, <1>5, <1>6, <1>7 DEF BlockedIsInfra, Errors, GateInv
<1> QED
  BY <1>10, <1>11, <1>12, <1>13, <1>14, <1>15 DEF GateInv
---------------------------------------------------------------------------
(* Interruption and kill.                                                  *)

LEMMA InterruptStep == GateType /\ GateInv /\ Interrupt => GateType' /\ GateInv'
<1> SUFFICES ASSUME GateType, GateInv, Interrupt PROVE GateType' /\ GateInv'
  OBVIOUS
<1> DEFINE next == CASE run.pc \in {"baseline", "confirm", "identity"} -> "off"
                     [] run.pc \in InAcceptance \ {"cleanup"} -> "cleanup"
                     [] OTHER -> "identity"
           left == [s \in Required |->
                       IF s = run.pc \/ (s = "acceptance" /\ run.pc \in Setup \cup InAcceptance)
                       THEN "RUNNING" ELSE manifest.steps[s]]
<1>1. /\ UNCHANGED <<src, foreign, attest, own, seen>> /\ run.pc # "off"
      /\ run' = [run EXCEPT !.pc = next, !.err = IF @ = "none" THEN "interrupt" ELSE @,
                            !.exit = IF next = "off" THEN "bad" ELSE @]
      /\ manifest' = [manifest EXCEPT !.steps = left]
  BY DEF Interrupt
<1>2. /\ next \in {"off", "cleanup", "identity"}
      /\ run.pc \in {"baseline", "confirm"} => next = "off"
      /\ next = "cleanup" => run.pc \in InAcceptance \ {"cleanup"}
  BY DEF InAcceptance
<1>3. left \in [Required -> Outcomes] /\ (left["fast"] = "PASS" => manifest.steps["fast"] = "PASS")
  BY DEF GateType, Manifests, Outcomes, Required
<1>4. SameBuilder
  BY LockOnly DEF Interrupt, GateType, Builders
<1>5. status' \in Statuses /\ status'.sha = status.sha
  BY DEF Interrupt, GateType, Statuses
<1> HIDE DEF next, left
<1>6. /\ run' \in Runs /\ run'.pc = next /\ run'.frozen = run.frozen
      /\ run'.attested = run.attested
      /\ run'.err = (IF run.err = "none" THEN "interrupt" ELSE run.err)
      /\ run'.exit = (IF next = "off" THEN "bad" ELSE run.exit)
  BY <1>1, <1>2 DEF GateType, Runs, RunPCs
<1>7. manifest' \in Manifests /\ SameReport /\ manifest'.steps = left
  BY <1>1, <1>3 DEF GateType, Manifests, SameReport
<1>8. manifest.overall = "RUNNING" /\ run.exit # "ok"
  BY <1>1 DEF GateInv, Undecided
<1>9. GateType'
  BY <1>1, <1>4, <1>5, <1>6, <1>7 DEF GateType, SameBuilder
<1>10. Undecided'
  BY <1>1, <1>2, <1>5, <1>6, <1>7, <1>8 DEF Undecided, SameReport, GateInv
<1>11. Errors'
  BY <1>1, <1>2, <1>6, <1>7 DEF Errors, SameReport, GateInv
<1>12. Looked'
  BY <1>1, <1>3, <1>6, <1>7 DEF Looked, GateInv
<1>13. Evidence'
  BY <1>1, <1>2, <1>6, <1>7 DEF Evidence, SameReport, GateInv, InAcceptance
<1>14. Builder'
  BY <1>1, <1>2, <1>4, <1>6, <1>7
  DEF Builder, GateInv, SameReport, InAcceptance, UsingBuilder, SameBuilder, SameCourse
<1>15. PassIsEarned' /\ BlockedIsInfra'
  BY <1>7, <1>8 DEF PassIsEarned, BlockedIsInfra, SameReport
<1> QED
  BY <1>9, <1>10, <1>11, <1>12, <1>13, <1>14, <1>15 DEF GateInv

LEMMA KillStep == GateType /\ GateInv /\ Kill => GateType' /\ GateInv'
<1> SUFFICES ASSUME GateType, GateInv, Kill PROVE GateType' /\ GateInv'
  OBVIOUS
<1>1. UNCHANGED <<src, foreign, attest, status, own, manifest, seen>> /\ run.pc # "off"
  BY DEF Kill
<1>2. /\ run' \in Runs /\ run'.pc = "off" /\ run'.exit = "bad" /\ run'.frozen = run.frozen
      /\ run'.attested = run.attested
  BY DEF Kill, GateType, Runs, RunPCs
<1>3. SameBuilder
  BY LockOnly DEF Kill, GateType, Builders
<1>4. manifest.overall = "RUNNING"
  BY <1>1 DEF GateInv, Undecided
<1>5. GateType'
  BY <1>1, <1>2, <1>3 DEF GateType, SameBuilder
<1>6. Undecided' /\ Errors' /\ Looked' /\ Evidence' /\ Builder'
  BY <1>1, <1>2, <1>3
  DEF Undecided, Errors, Looked, Evidence, Builder, GateInv, UsingBuilder, SameBuilder, SameCourse
<1>7. PassIsEarned' /\ BlockedIsInfra'
  BY <1>1, <1>4 DEF PassIsEarned, BlockedIsInfra
<1> QED
  BY <1>5, <1>6, <1>7 DEF GateInv

---------------------------------------------------------------------------
(* Everybody else, and the adapter.                                        *)

\* Nothing of the gate moves: the disk does, or only a bound is used up.
LEMMA StillStep ==
    ASSUME GateType, GateInv, UNCHANGED <<src, foreign, attest, own, builder, run, manifest, status, seen>>
    PROVE  GateType' /\ GateInv'
<1>1. GateType'
  BY DEF GateType
<1>2. Undecided' /\ Errors' /\ Looked' /\ Evidence' /\ Builder' /\ PassIsEarned' /\ BlockedIsInfra'
  BY DEF Undecided, Errors, Looked, Evidence, Builder, PassIsEarned, BlockedIsInfra, GateInv
<1> QED
  BY <1>1, <1>2 DEF GateInv

LEMMA EditStep == GateType /\ GateInv /\ Edit => GateType' /\ GateInv'
<1> SUFFICES ASSUME GateType, GateInv, Edit PROVE GateType' /\ GateInv'
  OBVIOUS
<1>1. UNCHANGED <<foreign, attest, own, builder, run, manifest, status>> /\ src' \in Versions
  BY DEF Edit
<1>2. /\ seen' \in Histories /\ seen'.versions = seen.versions /\ seen'.infra = seen.infra
      /\ seen'.defect = seen.defect /\ seen'.moved = seen.moved
      /\ seen'.removed = seen.removed /\ seen'.stray = seen.stray
      /\ seen'.reverted <=> seen.reverted \/ src' = run.frozen
  <2>1. ASSUME NEW r \in BOOLEAN, seen' = [seen EXCEPT !.reverted = r]
        PROVE  /\ seen' \in Histories /\ seen'.versions = seen.versions /\ seen'.infra = seen.infra
               /\ seen'.defect = seen.defect /\ seen'.moved = seen.moved /\ seen'.reverted = r
               /\ seen'.removed = seen.removed /\ seen'.stray = seen.stray
    BY <2>1 DEF GateType, Histories
  <2>2. /\ seen' = [seen EXCEPT !.reverted = (seen.reverted \/ src' = run.frozen)]
        /\ (seen.reverted \/ src' = run.frozen) \in BOOLEAN
    BY DEF Edit, GateType, Histories
  <2> QED
    BY <2>1, <2>2
<1>3. GateType'
  BY <1>1, <1>2 DEF GateType
<1>4. Undecided' /\ Errors' /\ Evidence' /\ Builder'
  BY <1>1, <1>2
  DEF Undecided, Errors, Evidence, Builder, GateInv, UsingBuilder, SameBuilder, SameCourse
<1>5. Looked'
  BY <1>1, <1>2 DEF Looked, GateInv
<1>6. PassIsEarned' /\ BlockedIsInfra'
  BY <1>1, <1>2 DEF PassIsEarned, BlockedIsInfra, GateInv
<1> QED
  BY <1>3, <1>4, <1>5, <1>6 DEF GateInv

LEMMA OthersStep == GateType /\ GateInv /\ OthersUseDocker => GateType' /\ GateInv'
<1> SUFFICES ASSUME GateType, GateInv, OthersUseDocker PROVE GateType' /\ GateInv'
  OBVIOUS
<1>1. UNCHANGED <<src, attest, status, own, run, manifest, seen>>
  BY DEF OthersUseDocker
<1>2. foreign' \in 0 .. MaxForeign
  BY BoundsAreNaturals DEF OthersUseDocker, GateType
<1>3. SameBuilder
  BY LockOnly DEF OthersUseDocker, GateType
<1>4. GateType'
  BY <1>1, <1>2, <1>3 DEF GateType, SameBuilder
<1>5. Builder'
  BY <1>1, <1>3 DEF Builder, GateInv, SameBuilder
<1>6. Undecided' /\ Errors' /\ Looked' /\ Evidence' /\ PassIsEarned' /\ BlockedIsInfra'
  BY <1>1 DEF Undecided, Errors, Looked, Evidence, PassIsEarned, BlockedIsInfra, GateInv
<1> QED
  BY <1>4, <1>5, <1>6 DEF GateInv

LEMMA RemoveStep == GateType /\ GateInv /\ RemoveBuilder => GateType' /\ GateInv'
<1> SUFFICES ASSUME GateType, GateInv, RemoveBuilder PROVE GateType' /\ GateInv'
  OBVIOUS
<1>1. /\ UNCHANGED <<src, foreign, attest, status, own, run, manifest>>
      /\ run.pc \in {"claim", "build", "building"} /\ builder.id # 0
  BY DEF RemoveBuilder
<1>2. /\ builder' \in Builders /\ builder'.id = 0 /\ builder'.made = builder.made
      /\ builder'.record = builder.record /\ builder'.claimed = builder.claimed
  BY DEF RemoveBuilder, GateType, Builders
<1>3. /\ seen' \in Histories /\ (seen'.removed <=> seen.removed \/ run.pc # "claim")
      /\ seen'.stray = seen.stray /\ seen'.versions = seen.versions /\ seen'.moved = seen.moved
      /\ seen'.reverted = seen.reverted /\ seen'.infra = seen.infra /\ seen'.defect = seen.defect
  BY DEF RemoveBuilder, GateType, Histories
<1>4. GateType'
  BY <1>1, <1>2, <1>3 DEF GateType
<1>5. Builder'
  <2>1. builder.record # "none" /\ builder.claimed <= builder.made /\ builder.made \in Nat
    BY <1>1 DEF GateInv, Builder, GateType, Builders
  <2>2. seen'.stray => seen'.removed /\ builder'.claimed # 0 /\ manifest'.cleanup # "PASS"
    BY <1>1, <1>2, <1>3 DEF GateInv, Builder
  <2> QED
    BY <1>1, <1>2, <1>3, <2>1, <2>2 DEF Builder, UsingBuilder, GateInv
<1>6. Undecided' /\ Errors' /\ Looked' /\ Evidence' /\ PassIsEarned' /\ BlockedIsInfra'
  BY <1>1, <1>3 DEF Undecided, Errors, Looked, Evidence, PassIsEarned, BlockedIsInfra, GateInv
<1> QED
  BY <1>4, <1>5, <1>6 DEF GateInv

LEMMA ReviewStep == GateType /\ GateInv /\ Review => GateType' /\ GateInv'
<1> SUFFICES ASSUME GateType, GateInv, Review PROVE GateType' /\ GateInv'
  OBVIOUS
<1>1. UNCHANGED <<src, foreign, own, builder, run, manifest, status, seen>>
  BY DEF Review
<1>2. attest' \in Attestations
  <2>1. ASSUME NEW v \in Versions, attest' = [of |-> v, rev |-> attest.rev + 1, live |-> TRUE]
        PROVE  attest' \in Attestations
    BY <2>1 DEF GateType, Attestations
  <2>2. CASE attest' = [attest EXCEPT !.live = FALSE]
    BY <2>2 DEF GateType, Attestations
  <2> QED
    BY <2>1, <2>2 DEF Review
<1>3. GateType'
  BY <1>1, <1>2 DEF GateType
<1>4. Undecided' /\ Errors' /\ Looked' /\ Evidence' /\ Builder' /\ PassIsEarned' /\ BlockedIsInfra'
  BY <1>1
  DEF Undecided, Errors, Looked, Evidence, Builder, PassIsEarned, BlockedIsInfra, GateInv
<1> QED
  BY <1>3, <1>4 DEF GateInv

\* A post, whatever becomes of it, leaves the commit and the number of tries
\* below its bound.
LEMMA PostShape ==
    ASSUME status \in Statuses, NEW pc, NEW state \in {"pending", "success", "failed"},
           NEW next \in {"gate", "off"}, Post(pc, state, next)
    PROVE  /\ status' \in Statuses /\ status'.sha = status.sha
           /\ status'.state \in {state, status.state}
<1>1. ASSUME NEW x \in {"off", "pending", "gate", "final"}, NEW y \in {state, status.state},
             NEW n \in 0 .. (Tries - 1), status' = [status EXCEPT !.state = y, !.pc = x, !.tries = n]
      PROVE  /\ status' \in Statuses /\ status'.sha = status.sha
             /\ status'.state \in {state, status.state}
  BY <1>1 DEF Statuses
<1>2. /\ status.tries \in 0 .. (Tries - 1) /\ status.state \in {"none", "pending", "success", "failed"}
      /\ status.pc \in {"off", "pending", "gate", "final"}
  BY DEF Statuses
<1>3. 0 \in 0 .. (Tries - 1)
  BY BoundsAreNaturals
<1>4. (status.tries + 1) % Tries \in 0 .. (Tries - 1)
  BY <1>2, BoundsAreNaturals
<1>5. CASE status' = [status EXCEPT !.state = state, !.pc = next, !.tries = 0]
  BY <1>1, <1>3, <1>5
<1>6. CASE status' = [status EXCEPT !.tries = (@ + 1) % Tries,
                                    !.pc = IF status.tries + 1 = Tries THEN "off" ELSE @]
  <2>1. ASSUME NEW n \in 0 .. (Tries - 1), NEW x \in {"off", "pending", "gate", "final"},
               status' = [status EXCEPT !.tries = n, !.pc = x]
        PROVE  status' \in Statuses /\ status'.sha = status.sha /\ status'.state = status.state
    BY <2>1 DEF Statuses
  <2>2. (IF status.tries + 1 = Tries THEN "off" ELSE status.pc) \in {"off", "pending", "gate", "final"}
    BY <1>2
  <2>3. status' = [status EXCEPT !.tries = (status.tries + 1) % Tries,
                                 !.pc = IF status.tries + 1 = Tries THEN "off" ELSE status.pc]
    BY <1>6 DEF Statuses
  <2> QED
    BY <1>4, <2>1, <2>2, <2>3
<1>7. ASSUME NEW recorded \in {state, status.state},
             status' = [status EXCEPT !.state = recorded, !.pc = "off"]
      PROVE  /\ status' \in Statuses /\ status'.sha = status.sha
             /\ status'.state \in {state, status.state}
  BY <1>2, <1>7 DEF Statuses
<1> QED
  BY <1>5, <1>6, <1>7 DEF Post

\* Only the state of the status, the adapter and its tries change.
LEMMA StatusStep ==
    ASSUME GateType, GateInv, UNCHANGED <<src, foreign, attest, own, builder, run, manifest, seen>>,
           status' \in Statuses, status'.sha = status.sha
    PROVE  GateType' /\ GateInv'
<1>1. GateType'
  BY DEF GateType
<1>2. Undecided' /\ Errors' /\ Looked' /\ Evidence' /\ Builder' /\ PassIsEarned' /\ BlockedIsInfra'
  BY DEF Undecided, Errors, Looked, Evidence, Builder, PassIsEarned, BlockedIsInfra, GateInv
<1> QED
  BY <1>1, <1>2 DEF GateInv

LEMMA AdapterStep == GateType /\ GateInv /\ Adapter => GateType' /\ GateInv'
<1> SUFFICES ASSUME GateType, GateInv, Adapter PROVE GateType' /\ GateInv'
  OBVIOUS
<1>1. CASE AdapterReads
  <2>1. UNCHANGED <<src, foreign, attest, own, builder, manifest, seen>> /\ run.pc = "off"
    BY <1>1 DEF AdapterReads
  <2>2. status' \in Statuses
    BY <1>1, BoundsAreNaturals DEF AdapterReads, GateType, Statuses
  <2>3. /\ run' \in Runs /\ run'.pc = "off" /\ run'.exit = "none" /\ run'.frozen = run.frozen
        /\ run'.attested = run.attested
    BY <1>1 DEF AdapterReads, GateType, Runs
  <2>4. GateType'
    BY <2>1, <2>2, <2>3 DEF GateType
  <2>5. Undecided' /\ Errors' /\ Looked' /\ Evidence' /\ Builder'
    BY <2>1, <2>3
    DEF Undecided, Errors, Looked, Evidence, Builder, GateInv, UsingBuilder, SameBuilder, SameCourse
  <2>6. PassIsEarned' /\ BlockedIsInfra'
    BY <2>1, <2>3 DEF PassIsEarned, BlockedIsInfra, GateInv
  <2> QED
    BY <2>4, <2>5, <2>6 DEF GateInv
<1>2. CASE PostPending \/ PostFinal
  <2>1. UNCHANGED <<src, foreign, attest, own, builder, run, manifest, seen>>
    BY <1>2 DEF PostPending, PostFinal, Post
  <2>2. status' \in Statuses /\ status'.sha = status.sha
    BY <1>2, PostShape DEF PostPending, PostFinal, GateType
  <2> QED
    BY <2>1, <2>2, StatusStep
<1>3. CASE GateReturns
  <2>1. /\ UNCHANGED <<src, foreign, attest, own, builder, run, manifest, seen>>
        /\ status' \in Statuses /\ status'.sha = status.sha
    BY <1>3 DEF GateReturns, GateType, Statuses
  <2> QED
    BY <2>1, StatusStep
<1> QED
  BY <1>1, <1>2, <1>3 DEF Adapter
---------------------------------------------------------------------------
(* Every step keeps the invariant, and what follows from it.               *)

LEMMA GateStep == GateType /\ GateInv /\ GateSteps => GateType' /\ GateInv'
<1> SUFFICES ASSUME GateType, GateInv, GateSteps PROVE GateType' /\ GateInv'
  OBVIOUS
<1>1. CASE Start \/ Baseline \/ Confirm \/ Snapshots \/ ClaimBuilder
  BY <1>1, StartStep, BaselineStep, ConfirmStep, SnapshotsStep, ClaimStep
<1>2. CASE ReserveBuilder \/ CreateBuilder \/ BuilderReady
  BY <1>2, BuilderSteps
<1>3. CASE \/ BeginBuild \/ EndBuild \/ BuilderMissing \/ ScanImages \/ AwaitReview
           \/ EvaluateSources \/ Assess
  BY <1>3, BeginBuildStep, EndBuildStep, MissingStep, ScanImagesStep, ReviewSteps, AssessStep
<1>4. CASE BeginTest \/ EndTest \/ TestsDone \/ Cleanup \/ FinalStep \/ Publish
  BY <1>4, BeginTestStep, EndTestStep, TestsDoneStep, CleanupStep, FinalStepStep, PublishStep
<1>5. CASE \/ Pass("fast", "advisory") \/ Pass("advisory", "sast") \/ Pass("sast", "scan")
           \/ Pass("scan", "snapshots") \/ Pass("review", "final")
  BY <1>5, PassStep
<1>6. ASSUME NEW pc \in {"sast", "scan", "reserve", "create", "build", "tests"}, NEW p,
             NEW h \in {"cleanup", "identity"}, NoCapacity(pc, p, h)
      PROVE  GateType' /\ GateInv'
  BY <1>6, NoCapacityStep
<1>7. ASSUME NEW p, ReclaimCache(p) PROVE GateType' /\ GateInv'
  <2>1. UNCHANGED <<src, foreign, attest, own, builder, run, manifest, status, seen>>
    BY <1>7 DEF ReclaimCache, outside
  <2> QED
    BY <2>1, StillStep
<1> HIDE DEF GateType, GateInv
<1> QED
  BY <1>1, <1>2, <1>3, <1>4, <1>5, <1>6, <1>7 DEF GateSteps

LEMMA FaultStep == GateType /\ GateInv /\ Faults => GateType' /\ GateInv'
<1> SUFFICES ASSUME GateType, GateInv, Faults PROVE GateType' /\ GateInv'
  OBVIOUS
<1>1. CASE SkipTest \/ NoTrivy \/ Interrupt \/ Kill
  BY <1>1, TestsDoneStep, NoTrivyStep, InterruptStep, KillStep
<1>2. ASSUME NEW s \in {"fast", "advisory", "sast", "scan", "review"},
             NEW causes \in SUBSET {"defect", "infra"}, Fail(s, causes)
      PROVE  GateType' /\ GateInv'
  BY <1>2, FailStep
<1> HIDE DEF GateType, GateInv
<1> QED
  BY <1>1, <1>2 DEF Faults

LEMMA EnvironmentStep == GateType /\ GateInv /\ Environment => GateType' /\ GateInv'
<1> SUFFICES ASSUME GateType, GateInv, Environment PROVE GateType' /\ GateInv'
  OBVIOUS
<1>1. CASE DiskMoves
  <2>1. UNCHANGED <<src, foreign, attest, own, builder, run, manifest, status, seen>>
    BY <1>1 DEF DiskMoves, outside
  <2> QED
    BY <2>1, StillStep
<1> QED
  BY <1>1, EditStep, OthersStep, RemoveStep, ReviewStep DEF Environment

LEMMA GateInitial == Init => DiskInv /\ GateType /\ GateInv
<1> SUFFICES ASSUME Init PROVE DiskInv /\ GateType /\ GateInv
  OBVIOUS
<1>1. DiskInv
  BY DiskInitial DEF Init
<1>2. GateType
  BY PhasesAreEstimated, BoundsAreNaturals
  DEF Init, GateType, NoAttest, Attestations, Builders, NoRun, Runs, RunPCs, NoManifest, Manifests,
      Outcomes, NoHistory, Histories, Statuses
<1>3. GateInv
  BY DEF Init, GateInv, Undecided, Errors, Looked, Evidence, Builder, PassIsEarned, BlockedIsInfra,
      NoAttest, NoRun, NoManifest, NoHistory, Required
<1> QED
  BY <1>1, <1>2, <1>3

\* The whole invariant of the gate, its disk and its adapter.
THEOREM GateInvariant == Spec => [](DiskInv /\ GateType /\ GateInv)
<1>1. DiskInv /\ GateType /\ GateInv /\ [Next]_vars => (DiskInv /\ GateType /\ GateInv)'
  <2> SUFFICES ASSUME DiskInv, GateType, GateInv, [Next]_vars
               PROVE  DiskInv' /\ GateType' /\ GateInv'
    OBVIOUS
  <2>1. DiskInv'
    BY GateDisk, DiskStep
  <2>2. CASE UNCHANGED vars
    BY <2>1, <2>2, StillStep DEF vars
  <2>3. CASE Next
    BY <2>1, <2>3, GateStep, FaultStep, EnvironmentStep, AdapterStep DEF Next
  <2> QED
    BY <2>1, <2>2, <2>3
<1> QED
  BY GateInitial, <1>1, PTL DEF Spec

\* VerdictIsEarned holds of every gate, whatever its images, tests and faults:
\* a PASS rests on steps, tests, a review and a cleanup of the frozen tree, and
\* a candidate that fails is never called blocked (cmd_gate, gate_overall_status).
THEOREM VerdictsAreEarned == Spec => []VerdictIsEarned
<1>1. DiskInv /\ GateType /\ GateInv => VerdictIsEarned
  BY TypesAgree DEF DiskInv, GateInv, VerdictIsEarned
<1> QED
  BY GateInvariant, <1>1, PTL

\* LeftoversAreTold: no report calls a run clean that left something behind.
THEOREM ReportsTellLeftovers == Spec => []LeftoversAreTold
<1>1. GateInv => LeftoversAreTold
  BY DEF GateInv, Evidence, LeftoversAreTold
<1> QED
  BY GateInvariant, <1>1, PTL

\* BuilderIsClaimed: images are built with the recorded builder, however often
\* the gate was killed between the record and the container; a container that
\* took the place of one removed during the run never passes the cleanup.
THEOREM BuildersAreClaimed == Spec => []BuilderIsClaimed
<1>1. GateInv => BuilderIsClaimed
  BY DEF GateInv, Builder, BuilderIsClaimed
<1> QED
  BY GateInvariant, <1>1, PTL

\* SuccessIsEarned: the forge hears of a success only from a run that passed on
\* the commit, or on a tree that moved before the run froze it.
THEOREM SuccessesAreEarned == Spec => SuccessIsEarned
<1> DEFINE Told == status'.state = "success" /\ status.state # "success"
           Earned == /\ manifest.overall = "PASS" /\ run.exit = "ok"
                     /\ run.frozen = status.sha \/ seen.moved
<1>1. GateType /\ GateInv /\ [Next]_vars => [Told => Earned]_vars
  <2> SUFFICES ASSUME GateType, GateInv, Next, Told PROVE Earned
    OBVIOUS
  <2>1. CASE PostFinal
    <3>1. run.exit = "ok"
      BY <2>1, PostShape DEF PostFinal, GateType
    <3> QED
      BY <3>1 DEF GateInv, Undecided
  <2>2. CASE PostPending
    <3>1. status'.state \in {"pending", status.state}
      BY <2>2, PostShape DEF PostPending, GateType
    <3> QED
      BY <3>1
  <2>3. CASE AdapterReads \/ GateReturns \/ Interrupt
    BY <2>3 DEF AdapterReads, GateReturns, Interrupt, GateType, Statuses
  <2>4. CASE status' = status
    BY <2>4
  <2>5. CASE GateSteps \/ Environment
    BY <2>4, <2>5
    DEF GateSteps, Start, Baseline, Confirm, Pass, NoCapacity, Snapshots, ClaimBuilder, ReserveBuilder,
        CreateBuilder, BuilderReady, BeginBuild, EndBuild, BuilderMissing, ScanImages, AwaitReview,
        EvaluateSources, Assess, BeginTest, EndTest, TestsDone, ReclaimCache, Cleanup, Removal,
        FinalStep, Publish, outside, Environment, Edit, OthersUseDocker, RemoveBuilder, Review, DiskMoves
  <2>6. CASE Faults
    BY <2>3, <2>4, <2>6 DEF Faults, Fail, NoTrivy, SkipTest, Kill
  <2> QED
    BY <2>1, <2>2, <2>3, <2>5, <2>6 DEF Next, Adapter
<1> QED
  BY GateInvariant, <1>1, PTL DEF Spec, SuccessIsEarned

\* The gate implements the disk guard: with the floor between two polls, the
\* admission and the settlement of every phase (DiskSpec).
THEOREM GateGuardsDisk == Spec => DiskSpec
<1>1. Init => DiskInit
  BY DEF Init
<1> QED
  BY GateInvariant, GateDisk, <1>1, PTL DEF Spec, DiskSpec

\* DiskSafe holds of the disk the gate works on, as it does of the guard alone.
THEOREM GateDiskIsSafe == Spec => []DiskSafe
  BY GateGuardsDisk, DiskIsSafe, PTL
=============================================================================
