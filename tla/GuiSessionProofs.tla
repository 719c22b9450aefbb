-------------------------- MODULE GuiSessionProofs --------------------------
(***************************************************************************)
(* Theorems about GuiSession, for any services, dependencies, limits and   *)
(* bounds.                                                                 *)
(***************************************************************************)
EXTENDS GuiSession, TLAPS

\* Type correctness: containers, supervisors and Compose stay in their ranges,
\* and no container is restarted more often than the policy allows.
THEOREM TypeCorrect == Spec => []TypeOK
<1>1. Init => TypeOK
  <2> SUFFICES ASSUME Init PROVE TypeOK
    OBVIOUS
  <2>1. RestartLimit \in Nat /\ MaxUps \in Nat /\ MaxStops \in Nat /\ MaxFailures \in Nat
    BY BoundAssumption
  <2>2. 0 \in 0..RestartLimit /\ 0 \in 0..MaxUps /\ 0 \in 0..MaxStops /\ 0 \in 0..MaxFailures
    BY <2>1
  <2> QED
    BY <2>2 DEF Init, TypeOK, Off, Containers
<1>2. TypeOK /\ [Next]_vars => TypeOK'
  <2> SUFFICES ASSUME TypeOK, [Next]_vars PROVE TypeOK'
    OBVIOUS
  <2> USE ServiceAssumption, BoundAssumption DEF TypeOK, Off, Containers, KeepServices, Fails, compose, bounds, told
  <2>1. CASE Initialize \/ Serve \/ Probe \/ PublishEnd \/ EntrypointExits
    BY <2>1 DEF Initialize, Serve, Probe, PublishEnd, EntrypointExits
  <2>2. CASE WalletExits \/ BootFails \/ Crash
    BY <2>2 DEF WalletExits, BootFails, Crash
  <2>3. CASE WalletRestarts
    BY <2>3 DEF WalletRestarts, MayRestart
  <2>4. ASSUME NEW s \in Services, Observe(s) \/ GraceEnds(s) \/ Stops(s)
        PROVE  TypeOK'
    BY <2>4 DEF Observe, GraceEnds, Stops, Becomes
  <2>5. ASSUME NEW s \in Services, ServiceRestarts(s) PROVE TypeOK'
    BY <2>5 DEF ServiceRestarts, Becomes, MayRestart
  <2>6. ASSUME NEW s \in Services, ServiceFails(s) PROVE TypeOK'
    BY <2>6 DEF ServiceFails, Becomes
  <2>7. CASE GivesUp \/ StopWallet
    BY <2>7 DEF GivesUp, StopWallet
  <2>8. ASSUME NEW s \in Services, Visit(s) PROVE TypeOK'
    BY <2>8 DEF Visit
  <2>9. ASSUME NEW s \in Services, StopService(s) PROVE TypeOK'
    BY <2>9 DEF StopService
  <2>10. CASE Up
    <3>1. MaxUps \in Nat /\ RestartLimit \in Nat
      BY BoundAssumption
    <3>2. ups' \in 0..MaxUps /\ 0 \in 0..RestartLimit
      BY <2>10, <3>1 DEF Up
    <3>3. /\ wallet' \in {wallet, "boot"} /\ todo' = Services /\ listed' \subseteq Services
          /\ asked' \in BOOLEAN /\ missed' \subseteq Services
          /\ retries' = retries \/ retries' = [retries EXCEPT ![Wallet] = 0]
          /\ UNCHANGED <<phase, status, healthy, service, halt, stops, failures>>
      BY <2>10 DEF Up
    <3>4. retries' \in [Containers -> 0..RestartLimit]
      BY <3>2, <3>3
    <3> QED
      BY <3>2, <3>3, <3>4
  <2>11. CASE Stop
    BY <2>11 DEF Stop
  <2>12. CASE UNCHANGED vars
    BY <2>12 DEF vars
  <2> HIDE DEF TypeOK, Off, Containers, KeepServices, Fails, compose, bounds, told
  <2> QED
    BY <2>1, <2>2, <2>3, <2>4, <2>5, <2>6, <2>7, <2>8, <2>9, <2>10, <2>11, <2>12
       DEF Next, WalletStep, ServiceStep, ComposeStep
<1> QED
  BY <1>1, <1>2, PTL DEF Spec

\* While the end of a session stands and nobody asked for another one, the
\* wallet container is on its way out or off, and Docker has no reason to
\* restart it.
EndStands ==
    phase = "ended" /\ ~asked => wallet \in {"closing", "left"} \cup Off

\* No step of the wallet container takes it back from there.
LEMMA WalletKeepsEnd ==
    ASSUME EndStands, WalletStep \/ BootFails \/ PublishEnd \/ Crash
    PROVE  EndStands'
<1> USE DEF EndStands, Off, told
<1>1. CASE Initialize
  BY <1>1 DEF Initialize
<1>2. CASE BootFails
  BY <1>2 DEF BootFails
<1>3. CASE Serve
  BY <1>3 DEF Serve
<1>4. CASE Probe
  BY <1>4 DEF Probe
<1>5. CASE PublishEnd
  BY <1>5 DEF PublishEnd
<1>6. CASE WalletExits
  BY <1>6 DEF WalletExits
<1>7. CASE Crash
  BY <1>7 DEF Crash
<1>8. CASE EntrypointExits
  BY <1>8 DEF EntrypointExits
<1>9. CASE WalletRestarts
  BY <1>9 DEF WalletRestarts
<1> QED
  BY <1>1, <1>2, <1>3, <1>4, <1>5, <1>6, <1>7, <1>8, <1>9 DEF WalletStep

\* EndStands is an invariant.
THEOREM EndStandsInvariant == Spec => []EndStands
<1>1. Init => EndStands
  BY DEF Init, EndStands
<1>2. EndStands /\ [Next]_vars => EndStands'
  <2> SUFFICES ASSUME EndStands, [Next]_vars PROVE EndStands'
    OBVIOUS
  <2>1. CASE WalletStep \/ BootFails \/ PublishEnd \/ Crash
    BY <2>1, WalletKeepsEnd
  <2>2. CASE \E s \in Services : ServiceStep(s) \/ ServiceFails(s)
    BY <2>2 DEF EndStands, Off, ServiceStep, Observe, GraceEnds, Stops, ServiceRestarts, ServiceFails,
       Becomes
  <2>3. CASE GivesUp \/ StopWallet
    BY <2>3 DEF EndStands, Off, told, GivesUp, StopWallet
  <2>4. CASE \E s \in Services : Visit(s) \/ StopService(s)
    BY <2>4 DEF EndStands, Off, told, Visit, StopService
  <2>5. CASE Up \/ Stop
    BY <2>5 DEF EndStands, Off, told, Up, Stop
  <2>6. CASE UNCHANGED vars
    BY <2>6 DEF EndStands, Off, told, vars
  <2> QED
    BY <2>1, <2>2, <2>3, <2>4, <2>5, <2>6 DEF Next, ComposeStep
<1> QED
  BY <1>1, <1>2, PTL DEF Spec

\* Nothing but docker compose up makes an ended session active again.
THEOREM NoResurrectionHolds == Spec => NoResurrection
<1>1. EndStands /\ [Next]_vars => [phase = "ended" /\ phase' = "active" => asked]_vars
  <2> SUFFICES ASSUME EndStands, Next, phase = "ended", phase' = "active", ~asked
               PROVE  FALSE
    OBVIOUS
  <2>1. wallet # "boot"
    BY DEF EndStands, Off
  <2>2. phase' = phase \/ phase' = "ended"
    BY <2>1 DEF Next, WalletStep, Initialize, BootFails, Serve, Probe, PublishEnd, WalletExits, Crash,
       EntrypointExits, WalletRestarts, ServiceStep, Observe, GraceEnds, Stops, ServiceRestarts,
       ServiceFails, Becomes, ComposeStep, GivesUp, StopWallet, Visit, StopService, Up, Stop
  <2> QED
    BY <2>2
<1> QED
  BY <1>1, EndStandsInvariant, PTL DEF Spec, NoResurrection
=============================================================================
