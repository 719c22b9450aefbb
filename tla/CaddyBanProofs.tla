--------------------------- MODULE CaddyBanProofs ---------------------------
(***************************************************************************)
(* Theorems about CaddyBan and the check that reads it while it runs, for  *)
(* every set of processes and addresses and every bound on failures.       *)
(***************************************************************************)
EXTENDS CaddyBanCheck, TLAPS

\* What a bannable address's record makes of it is a ban list entry.
LEMMA EntryOfIdentity ==
    ASSUME identity \in [Addr -> Record \cup {NoRecord}],
           NEW a \in Addr, Bannable(a)
    PROVE  IdentityOf(a) \in Entry
  BY DEF Bannable, IdentityOf, Entry, Record, NoRecord

\* A command's candidate list consists of entries of the published list and, for
\* a ban, the entry its client's identity record makes.
LEMMA CandidateEntries ==
    ASSUME NEW r \in Requests, NEW e \in Candidate(r)
    PROVE  e \in banState \/ (r.cmd = "ban" /\ e = IdentityOf(r.ip))
  BY DEF Candidate

\* Candidate lists have the type of ban lists.
LEMMA CandidateType ==
    ASSUME TypeOK, NEW r \in Requests, r.cmd = "ban" => Bannable(r.ip)
    PROVE  Candidate(r) \subseteq Entry
<1> SUFFICES ASSUME NEW e \in Candidate(r) PROVE e \in Entry
  OBVIOUS
<1>1. CASE e \in banState
  BY <1>1 DEF TypeOK, DataTypeOK, EnvTypeOK
<1>2. CASE r.cmd = "ban" /\ e = IdentityOf(r.ip)
  <2>1. r.ip \in Addr
    BY <1>2 DEF Requests
  <2> QED
    BY <1>2, <2>1, EntryOfIdentity DEF TypeOK, DataTypeOK, EnvTypeOK
<1> QED
  BY <1>1, <1>2, CandidateEntries

\* The addresses of a ban list, and the peers it drops, are addresses.
LEMMA ListAddresses ==
    ASSUME NEW bans \in SUBSET Entry
    PROVE  /\ Clients(bans) \subseteq Addr
           /\ \A f \in Families : Desired(bans, f) \subseteq Addr
  BY DEF Clients, Desired, Entry

\* Every log line is classified to a record, or to none.
LEMMA ClassifyType ==
    ASSUME NEW line \in LogLines
    PROVE  Classify(line[1], line[2], trusted) \in Record \cup {NoRecord}
  BY AddressAssumption DEF Classify, Record, NoRecord

\* Every step of reconcile_locked and _rollback keeps the types.
LEMMA ReconcileType == TypeOK /\ Reconcile => TypeOK'
<1> SUFFICES ASSUME TypeOK, Reconcile PROVE TypeOK'
  OBVIOUS
<1> USE DEF TypeOK
<1>1. DataTypeOK'
  <2>1. /\ Clients(cand) \subseteq Addr
        /\ \A f \in Families : Desired(Target, f) \subseteq Addr
    BY ListAddresses DEF HolderTypeOK, Target
  <2>2. CASE WriteSnippet
    BY <2>1, <2>2 DEF DataTypeOK, WriteSnippet, Render
  <2>3. CASE FlushChain
    BY <2>1, <2>3 DEF DataTypeOK, FlushChain, FirewallRuns, FirewallFails
  <2>4. CASE InsertRule
    <3>1. family \in Families
      BY DEF HolderTypeOK
    <3> QED
      BY <2>1, <2>4, <3>1 DEF DataTypeOK, InsertRule, FirewallRuns, FirewallFails
  <2>5. CASE LoadCaddyfile
    BY <2>5 DEF DataTypeOK, LoadCaddyfile
  <2>6. CASE Publish \/ RestoreState \/ RestoreSnippet
    BY <2>6 DEF DataTypeOK, HolderTypeOK, Publish, RestoreState, RestoreSnippet
  <2>7. CASE VerifyFirewall
    BY <2>7 DEF DataTypeOK, VerifyFirewall, dataVars
  <2>8. CASE ClearFailure \/ MarkFailure
    BY <2>8 DEF DataTypeOK, ClearFailure, MarkFailure
  <2> QED
    BY <2>2, <2>3, <2>4, <2>5, <2>6, <2>7, <2>8 DEF Reconcile
<1>2. HolderTypeOK'
  <2> USE DEF HolderTypeOK, Families
  <2>1. CASE WriteSnippet \/ Publish \/ VerifyFirewall
    BY <2>1 DEF WriteSnippet, Publish, VerifyFirewall, Goto, Raise
  <2>2. CASE FlushChain \/ InsertRule
    BY <2>2 DEF FlushChain, InsertRule, FirewallRuns, FirewallFails, Raise, Collect
  <2>3. CASE LoadCaddyfile
    BY <2>3 DEF LoadCaddyfile, Goto, Raise, Collect
  <2>4. CASE ClearFailure \/ MarkFailure
    BY <2>4 DEF ClearFailure, MarkFailure, Finish, Release, Raise
  <2>5. CASE RestoreState \/ RestoreSnippet
    BY <2>5 DEF RestoreState, RestoreSnippet, Goto, Collect
  <2> QED
    BY <2>1, <2>2, <2>3, <2>4, <2>5 DEF Reconcile
<1>3. EnvTypeOK' /\ ProcTypeOK'
  <2> USE DEF EnvTypeOK, ProcTypeOK, records
  <2>1. CASE Frame
    BY <2>1 DEF Frame, envVars, procVars
  <2>2. CASE ClearFailure \/ MarkFailure
    <3>1. CASE UNCHANGED <<procVars, envVars>>
      BY <3>1 DEF envVars, procVars
    <3>2. ASSUME NEW how \in {"ok", "failed", "rollback_failed"}, Finish(how)
          PROVE  EnvTypeOK' /\ ProcTypeOK'
      BY <3>2 DEF Finish
    <3> QED
      BY <2>2, <3>1, <3>2 DEF ClearFailure, MarkFailure
  <2> QED
    BY <2>1, <2>2 DEF Reconcile, WriteSnippet, FlushChain, InsertRule, LoadCaddyfile,
       Publish, VerifyFirewall, RestoreState, RestoreSnippet
<1>4. GhostTypeOK'
  <2>1. faults' \in 0..MaxFaults
    BY BoundAssumption DEF GhostTypeOK, Reconcile, WriteSnippet, FlushChain, InsertRule,
       LoadCaddyfile, Publish, VerifyFirewall, ClearFailure, RestoreState, RestoreSnippet,
       MarkFailure, Fault, NoFault, FirewallRuns, FirewallFails
  <2>2. kills' = kills
    BY DEF Reconcile, WriteSnippet, FlushChain, InsertRule, LoadCaddyfile, Publish,
       VerifyFirewall, ClearFailure, RestoreState, RestoreSnippet, MarkFailure, Frame, Finish
  <2>3. tainted' \in BOOLEAN
    BY DEF GhostTypeOK, HolderTypeOK, Reconcile, WriteSnippet, FlushChain, InsertRule,
       LoadCaddyfile, Publish, VerifyFirewall, ClearFailure, RestoreState, RestoreSnippet,
       MarkFailure, Frame
  <2> QED
    BY <2>1, <2>2, <2>3 DEF GhostTypeOK
<1> QED
  BY <1>1, <1>2, <1>3, <1>4

\* Starting, waiting and dying commands, restarts and crashes keep the types.
LEMMA OutsideType ==
    ASSUME TypeOK,
           \/ \E p \in Procs : Start(p) \/ Refuse(p) \/ Kill(p)
           \/ Fail2banRestart \/ StackRestart \/ CaddyCrash \/ CaddyStart
    PROVE  TypeOK'
<1> USE DEF TypeOK
<1>1. CASE \E p \in Procs : Start(p)
  BY <1>1 DEF Start, DataTypeOK, EnvTypeOK, HolderTypeOK, ProcTypeOK, GhostTypeOK,
     dataVars, holderVars, envVars, records, ghostVars
<1>2. CASE \E p \in Procs : Refuse(p)
  BY <1>2 DEF Refuse, DataTypeOK, EnvTypeOK, HolderTypeOK, ProcTypeOK, GhostTypeOK,
     dataVars, holderVars, envVars, records, ghostVars
<1>3. ASSUME NEW p \in Procs, Kill(p) PROVE TypeOK'
  <2>1. DataTypeOK' /\ EnvTypeOK'
    BY <1>3 DEF Kill, DataTypeOK, EnvTypeOK, dataVars, envVars, records
  <2>2. HolderTypeOK'
    BY <1>3 DEF Kill, HolderTypeOK, Release, Families, holderVars
  <2>3. ProcTypeOK'
    BY <1>3 DEF Kill, ProcTypeOK
  <2>4. GhostTypeOK'
    <3>1. tainted' \in BOOLEAN
      BY <1>3 DEF Kill, GhostTypeOK
    <3>2. faults' \in 0..MaxFaults /\ kills' \in 0..MaxKills
      BY <1>3, BoundAssumption DEF Kill, CanKill, GhostTypeOK
    <3> QED
      BY <3>1, <3>2 DEF GhostTypeOK
  <2> QED
    BY <2>1, <2>2, <2>3, <2>4
<1>4. CASE Fail2banRestart \/ StackRestart
  <2>1. DataTypeOK'
    BY <1>4 DEF Fail2banRestart, StackRestart, DataTypeOK
  <2>2. EnvTypeOK'
    BY <1>4 DEF Fail2banRestart, StackRestart, KillAll, EnvTypeOK, records
  <2>3. HolderTypeOK'
    BY <1>4 DEF Fail2banRestart, StackRestart, KillAll, Release, HolderTypeOK, Families
  <2>4. ProcTypeOK'
    BY <1>4 DEF Fail2banRestart, StackRestart, KillAll, ProcTypeOK
  <2>5. GhostTypeOK'
    <3>1. tainted' \in BOOLEAN
      BY <1>4 DEF Fail2banRestart, StackRestart, GhostTypeOK
    <3>2. faults' \in 0..MaxFaults /\ kills' \in 0..MaxKills
      BY <1>4, BoundAssumption DEF Fail2banRestart, StackRestart, KillAll, CanKill, GhostTypeOK
    <3> QED
      BY <3>1, <3>2 DEF GhostTypeOK
  <2> QED
    BY <2>1, <2>2, <2>3, <2>4, <2>5
<1>5. CASE CaddyCrash \/ CaddyStart
  <2>1. DataTypeOK' /\ EnvTypeOK'
    BY <1>5 DEF CaddyCrash, CaddyStart, DataTypeOK, EnvTypeOK, records
  <2>2. HolderTypeOK' /\ ProcTypeOK'
    BY <1>5 DEF CaddyCrash, CaddyStart, HolderTypeOK, ProcTypeOK, holderVars, procVars
  <2>3. GhostTypeOK'
    BY <1>5, BoundAssumption DEF CaddyCrash, CaddyStart, CanKill, GhostTypeOK, ghostVars
  <2> QED
    BY <2>1, <2>2, <2>3
<1> QED
  BY <1>1, <1>2, <1>3, <1>4, <1>5

\* The types hold at the start.
LEMMA TypeInit == Init => TypeOK
<1>1. Init => DataTypeOK /\ EnvTypeOK
  BY DEF Init, DataTypeOK, EnvTypeOK
<1>2. Init => HolderTypeOK /\ ProcTypeOK
  BY DEF Init, HolderTypeOK, ProcTypeOK, Families
<1>3. Init => GhostTypeOK
  <2>1. 0 \in 0..MaxFaults /\ 0 \in 0..MaxKills
    BY BoundAssumption
  <2>2. Init => tainted = FALSE /\ faults = 0 /\ kills = 0
    BY DEF Init
  <2> QED
    BY <2>1, <2>2, Zenon DEF GhostTypeOK
<1> QED
  BY <1>1, <1>2, <1>3 DEF TypeOK

\* Every step keeps the types.
LEMMA TypeStep == TypeOK /\ [Next]_vars => TypeOK'
<1> SUFFICES ASSUME TypeOK, [Next]_vars PROVE TypeOK'
  OBVIOUS
<1>1. CASE Follow
  <2> PICK line \in LogLines : Process(line)
    BY <1>1 DEF Follow
  <2>1. identity' \in [Addr -> Record \cup {NoRecord}]
    BY AddressAssumption, ClassifyType DEF Process, TypeOK, EnvTypeOK
  <2>2. sighted' \subseteq Addr
    BY AddressAssumption DEF Process, TypeOK, EnvTypeOK
  <2> QED
    BY <2>1, <2>2 DEF Process, TypeOK, DataTypeOK, EnvTypeOK, HolderTypeOK, ProcTypeOK,
       GhostTypeOK, dataVars, holderVars, procVars, ghostVars
<1>2. ASSUME NEW p \in Procs, Acquire(p) PROVE TypeOK'
  <2>1. req[p] \in Requests
    BY <1>2 DEF Acquire, TypeOK, ProcTypeOK
  <2>2. Candidate(req[p]) \subseteq Entry
    BY <1>2, <2>1, CandidateType DEF Acquire
  <2> QED
    BY <1>2, <2>2 DEF Acquire, TypeOK, DataTypeOK, EnvTypeOK, HolderTypeOK, ProcTypeOK,
       GhostTypeOK, dataVars, procVars, envVars, records, ghostVars
<1>3. CASE Reconcile
  BY <1>3, ReconcileType
<1>4. CASE UNCHANGED vars
  BY <1>4 DEF TypeOK, DataTypeOK, EnvTypeOK, HolderTypeOK, ProcTypeOK, GhostTypeOK,
     vars, dataVars, holderVars, procVars, envVars, records, ghostVars
<1> QED
  BY <1>1, <1>2, <1>3, <1>4, OutsideType DEF Next

\* Every variable keeps its type: in particular whatever is published, rolled
\* back or left by a kill is a well-formed ban list.
THEOREM TypeCorrect == Spec => []TypeOK
  BY TypeInit, TypeStep, PTL DEF Spec

---------------------------------------------------------------------------
(* Only peers that were themselves seen as clients are packet-dropped, at  *)
(* whatever times the operator changes the trusted proxies.                *)

\* A list drops only sighted peers; neither would a ban made from any record
\* drop another.
SightedList(bans) == \A e \in bans : PacketDrop(e) => e.peer_ip \in sighted
SightedRecords ==
    \A a \in Addr : identity[a].mode = "direct" => identity[a].peer_ip \in sighted
SightedChains == \A f \in Families : chain[f] \subseteq sighted

PeerInv ==
    /\ SightedRecords
    /\ SightedList(banState) /\ SightedList(cand) /\ SightedList(old)
    /\ SightedChains

\* A log line whose record says direct is one that shows its peer to be a client,
\* no proxy by the list of the moment and no gateway.
LEMMA DirectIsSighted ==
    ASSUME NEW line \in LogLines,
           Classify(line[1], line[2], trusted).mode = "direct"
    PROVE  /\ Classify(line[1], line[2], trusted).peer_ip = line[1]
           /\ line[1] = line[2] /\ line[1] \notin trusted \cup Gateways
<1>1. CASE line[1] \in trusted /\ line[2] = line[1]
  BY <1>1 DEF Classify, NoRecord
<1>2. CASE line[1] \notin trusted /\ line[2] # line[1]
  BY <1>2 DEF Classify, NoRecord
<1>3. CASE line[1] \in trusted /\ line[2] # line[1]
  BY <1>3 DEF Classify
<1>4. CASE line[1] \notin trusted /\ line[2] = line[1] /\ line[1] \in Gateways
  BY <1>4 DEF Classify
<1>5. CASE line[1] \notin trusted /\ line[2] = line[1] /\ line[1] \notin Gateways
  <2>1. Classify(line[1], line[2], trusted) = [peer_ip |-> line[1], mode |-> "direct"]
    BY <1>5 DEF Classify
  <2> QED
    BY <2>1, <1>5
<1> QED
  BY <1>1, <1>2, <1>3, <1>4, <1>5

\* No step of a command adds an unsighted peer to a list or to a chain.
LEMMA ReconcilePeers == TypeOK /\ PeerInv /\ Reconcile => PeerInv'
<1> SUFFICES ASSUME TypeOK, PeerInv, Reconcile PROVE PeerInv'
  OBVIOUS
<1>1. sighted' = sighted /\ identity' = identity
  BY DEF Reconcile, WriteSnippet, FlushChain, InsertRule, LoadCaddyfile, Publish, VerifyFirewall,
     ClearFailure, RestoreState, RestoreSnippet, MarkFailure, Frame, Finish, envVars, records
<1>2. /\ banState' \in {banState, cand, old}
      /\ cand' \in {cand, {}} /\ old' \in {old, {}}
  BY DEF Reconcile, WriteSnippet, FlushChain, InsertRule, LoadCaddyfile, Publish, VerifyFirewall,
     ClearFailure, RestoreState, RestoreSnippet, MarkFailure, Finish, Release, Goto, Raise, Collect,
     FirewallRuns, FirewallFails, dataVars
<1>3. SightedList(banState)' /\ SightedList(cand)' /\ SightedList(old)'
  BY <1>1, <1>2 DEF PeerInv, SightedList
<1>4. SightedChains'
  <2>1. Desired(Target, family) \subseteq sighted
    BY DEF PeerInv, Target, SightedList, Desired
  <2>2. CASE FlushChain
    BY <2>2, <1>1 DEF FlushChain, FirewallRuns, FirewallFails, PeerInv, SightedChains,
       TypeOK, DataTypeOK
  <2>3. CASE InsertRule
    <3>1. CASE UNCHANGED chain
      BY <3>1, <1>1 DEF PeerInv, SightedChains
    <3>2. ASSUME NEW a \in Desired(Target, family) \ chain[family],
                 FirewallRuns(chain[family] \cup {a})
          PROVE  SightedChains'
      BY <2>1, <3>2, <1>1 DEF FirewallRuns, PeerInv, SightedChains, TypeOK, DataTypeOK
    <3> QED
      BY <2>3, <3>1, <3>2 DEF InsertRule, FirewallFails
  <2>4. CASE UNCHANGED chain
    BY <2>4, <1>1 DEF PeerInv, SightedChains
  <2> QED
    BY <2>2, <2>3, <2>4 DEF Reconcile, WriteSnippet, LoadCaddyfile, Publish, VerifyFirewall,
       ClearFailure, RestoreState, RestoreSnippet, MarkFailure, dataVars
<1> QED
  BY <1>1, <1>3, <1>4 DEF PeerInv, SightedRecords

\* Every step keeps PeerInv, the changes of the trusted-proxy list included.
LEMMA PeerStep == TypeOK /\ PeerInv /\ [Next]_vars => PeerInv'
<1> SUFFICES ASSUME TypeOK, PeerInv, [Next]_vars PROVE PeerInv'
  OBVIOUS
<1>1. CASE Follow
  <2> PICK line \in LogLines : Process(line)
    BY <1>1 DEF Follow
  <2>1. sighted \subseteq sighted'
    BY DEF Process
  <2>2. ASSUME NEW a \in Addr, identity'[a].mode = "direct"
        PROVE  identity'[a].peer_ip \in sighted'
    <3>1. CASE a = line[2]
      <4>1. identity'[a] = Classify(line[1], line[2], trusted)
        BY <3>1 DEF Process, TypeOK, EnvTypeOK
      <4>2. line[1] \in sighted'
        BY <2>2, <4>1, DirectIsSighted DEF Process
      <4> QED
        BY <2>2, <4>1, <4>2, DirectIsSighted
    <3>2. CASE a # line[2]
      BY <2>1, <2>2, <3>2 DEF Process, PeerInv, SightedRecords, TypeOK, EnvTypeOK
    <3> QED
      BY <3>1, <3>2
  <2> QED
    BY <2>1, <2>2 DEF Process, PeerInv, SightedRecords, SightedList, SightedChains, dataVars,
       holderVars
<1>2. ASSUME NEW p \in Procs, Acquire(p) PROVE PeerInv'
  <2>1. req[p] \in Requests
    BY <1>2 DEF Acquire, TypeOK, ProcTypeOK
  <2>2. ASSUME NEW e \in Candidate(req[p]), PacketDrop(e) PROVE e.peer_ip \in sighted
    <3>1. CASE e \in banState
      BY <3>1, <2>2 DEF PeerInv, SightedList
    <3>2. CASE req[p].cmd = "ban" /\ e = IdentityOf(req[p].ip)
      <4>1. req[p].ip \in Addr
        BY <3>2, <2>1 DEF Requests
      <4> QED
        BY <3>2, <4>1, <2>2 DEF IdentityOf, PacketDrop, PeerInv, SightedRecords
    <3> QED
      BY <3>1, <3>2, <2>1, CandidateEntries
  <2> QED
    BY <1>2, <2>2 DEF Acquire, PeerInv, SightedRecords, SightedList, SightedChains, dataVars,
       envVars, records
<1>3. CASE Reconcile
  BY <1>3, ReconcilePeers
<1>4. CASE StackRestart \/ Fail2banRestart
  BY <1>4 DEF StackRestart, Fail2banRestart, KillAll, Release, PeerInv, SightedRecords, SightedList,
     SightedChains, records
<1>5. ASSUME NEW p \in Procs, Start(p) \/ Refuse(p) \/ Kill(p) PROVE PeerInv'
  BY <1>5 DEF Start, Refuse, Kill, Release, PeerInv, SightedRecords, SightedList, SightedChains,
     dataVars, holderVars, envVars, records
<1>6. CASE CaddyCrash \/ CaddyStart \/ UNCHANGED vars
  BY <1>6 DEF CaddyCrash, CaddyStart, PeerInv, SightedRecords, SightedList, SightedChains, dataVars,
     holderVars, envVars, records, vars
<1> QED
  BY <1>1, <1>2, <1>3, <1>4, <1>5, <1>6 DEF Next

\* Each chain drops addresses of its own family only.
FamilyInv == \A f \in Families : \A a \in chain[f] : FamilyOf(a) = f

\* The chains keep to their families.
LEMMA FamilyStep == TypeOK /\ FamilyInv /\ [Next]_vars => FamilyInv'
<1> SUFFICES ASSUME TypeOK, FamilyInv, [Next]_vars PROVE FamilyInv'
  OBVIOUS
<1>1. chain \in [Families -> SUBSET Addr] /\ family \in Families
  BY DEF TypeOK, DataTypeOK, HolderTypeOK
<1>2. ASSUME NEW rules, FirewallRuns(rules), \A a \in rules : FamilyOf(a) = family
      PROVE  FamilyInv'
  BY <1>1, <1>2 DEF FirewallRuns, FamilyInv, FamilyOf
<1>3. CASE UNCHANGED chain
  BY <1>3 DEF FamilyInv, FamilyOf
<1>4. CASE FlushChain
  BY <1>2, <1>3, <1>4 DEF FlushChain, FirewallFails
<1>5. CASE InsertRule
  <2>1. ASSUME NEW a \in Desired(Target, family), FirewallRuns(chain[family] \cup {a})
        PROVE  FamilyInv'
    <3>1. FamilyOf(a) = family
      BY <2>1 DEF Desired
    <3>2. \A b \in chain[family] \cup {a} : FamilyOf(b) = family
      BY <1>1, <3>1 DEF FamilyInv
    <3> QED
      BY <1>2, <2>1, <3>2
  <2> QED
    BY <1>3, <1>5, <2>1 DEF InsertRule, FirewallFails
<1>6. CASE StackRestart \/ Fail2banRestart
  BY <1>6 DEF StackRestart, Fail2banRestart, FamilyInv, FamilyOf
<1>7. ASSUME ~FlushChain, ~InsertRule, ~StackRestart, ~Fail2banRestart PROVE UNCHANGED chain
  BY <1>7 DEF Next, Follow, Process, Start, Acquire, Refuse, Kill, Reconcile, WriteSnippet,
     LoadCaddyfile, Publish, VerifyFirewall, ClearFailure, RestoreState, RestoreSnippet,
     MarkFailure, CaddyCrash, CaddyStart, dataVars, vars
<1> QED
  BY <1>3, <1>4, <1>5, <1>6, <1>7

\* However often the operator changes the trusted proxies, a peer is dropped only
\* if a log line showed it to be a client that the list of the time did not name:
\* not by a ban, a rollback, a reconcile of whatever a kill left, nor by a record
\* of an earlier line (OnlySightedPeersDropped; caddy_ban.py:4-6, _load_identity,
\* caddy-log-adapter.py process).
THEOREM DroppedPeersWereSighted == Spec => []OnlySightedPeersDropped
<1>1. Init => PeerInv /\ FamilyInv
  BY DEF Init, PeerInv, SightedRecords, SightedList, SightedChains, FamilyInv, NoRecord
<1>2. PeerInv /\ FamilyInv => OnlySightedPeersDropped
  BY DEF PeerInv, SightedChains, FamilyInv, OnlySightedPeersDropped
<1> QED
  BY <1>1, <1>2, PeerStep, FamilyStep, TypeCorrect, PTL DEF Spec

---------------------------------------------------------------------------
(* Under every interleaving, failure, rollback and kill the commands act   *)
(* on the published ban list as BanAuthority's atomic ones do.             *)

\* The mapped list: what was published before the holder began.
Published == IF lock = NoProc THEN banState ELSE old

\* The holder is a running command whose candidate is one of that command's
\* outcomes; what is on disk is the old list until it is published, and is the
\* old list again once the rollback has restored it.
HolderInv ==
    /\ pc = "free" <=> lock = NoProc
    /\ pc = "free" => ~back
    /\ lock # NoProc =>
        /\ lock \in Procs /\ req[lock] # Idle
        /\ cand \in Authority!Outcomes(old, req[lock])
        /\ banState = old \/ banState = cand
        /\ ~back /\ pc \notin {"verify", "clear"} => banState = old
        /\ ~back /\ pc \in {"verify", "clear"} => banState = cand
        /\ back => pc \notin {"snippet", "publish", "verify", "clear"}
        /\ back /\ ~rollbackErrors /\ pc # "restore_state" => banState = old
        /\ pc \in {"restore_state", "restore_snippet", "mark"} => back

\* A candidate built under the lock is an outcome of its command.
LEMMA CandidateOutcome ==
    ASSUME TypeOK, NEW r \in Requests, r.cmd = "ban" => Bannable(r.ip)
    PROVE  Candidate(r) \in Authority!Outcomes(banState, r)
<1> USE DEF Candidate, Authority!Outcomes, Authority!Without
<1>1. CASE r.cmd = "ban"
  <2>1. r.ip \in Addr
    BY <1>1 DEF Requests
  <2>2. IdentityOf(r.ip) \in Authority!Entry /\ IdentityOf(r.ip).client_ip = r.ip
    BY <1>1, <2>1, EntryOfIdentity DEF TypeOK, EnvTypeOK, Entry, Authority!Entry, Authority!Modes,
       IdentityOf
  <2>3. Candidate(r) = {e \in banState : e.client_ip # r.ip} \cup {IdentityOf(r.ip)}
    BY <1>1
  <2>4. Authority!Outcomes(banState, r) =
            {{x \in banState : x.client_ip # r.ip} \cup {e} :
                e \in {x \in Authority!Entry : x.client_ip = r.ip}}
    BY <1>1
  <2> HIDE DEF Candidate, Authority!Outcomes
  <2> QED
    BY <2>2, <2>3, <2>4
<1>2. CASE r.cmd = "unban"
  <2>1. r.cmd # "ban"
    BY <1>2
  <2> QED
    BY <1>2, <2>1
<1>3. CASE r.cmd # "ban" /\ r.cmd # "unban"
  BY <1>3
<1> QED
  BY <1>1, <1>2, <1>3

\* The holder's steps keep HolderInv.
LEMMA ReconcileHolder == TypeOK /\ HolderInv /\ Reconcile => HolderInv'
<1> SUFFICES ASSUME TypeOK, HolderInv, Reconcile PROVE HolderInv'
  OBVIOUS
<1> USE DEF HolderInv
<1>0. NoProc \notin Procs
  BY ProcAssumption
<1>1. CASE WriteSnippet
  BY <1>1 DEF WriteSnippet, Goto, Raise, Frame, procVars
<1>2. CASE FlushChain
  BY <1>2 DEF FlushChain, FirewallRuns, FirewallFails, Raise, Collect, Frame, procVars
<1>3. CASE InsertRule
  BY <1>3 DEF InsertRule, FirewallRuns, FirewallFails, Raise, Collect, Frame, procVars
<1>4. CASE LoadCaddyfile
  BY <1>4 DEF LoadCaddyfile, Goto, Raise, Collect, Frame, procVars
<1>5. CASE Publish
  BY <1>5 DEF Publish, Goto, Raise, Frame, procVars
<1>6. CASE VerifyFirewall
  BY <1>6 DEF VerifyFirewall, Goto, Raise, Frame, procVars, dataVars
<1>7. CASE ClearFailure
  BY <1>7 DEF ClearFailure, Finish, Release, Raise, procVars
<1>8. CASE RestoreState
  BY <1>8 DEF RestoreState, Goto, Collect, Frame, procVars
<1>9. CASE RestoreSnippet
  BY <1>9 DEF RestoreSnippet, Goto, Collect, Frame, procVars
<1>10. CASE MarkFailure
  BY <1>10 DEF MarkFailure, Finish, Release, procVars
<1> QED
  BY <1>1, <1>2, <1>3, <1>4, <1>5, <1>6, <1>7, <1>8, <1>9, <1>10 DEF Reconcile

\* HolderInv holds at the start.
LEMMA HolderInit == Init => HolderInv
  BY DEF Init, HolderInv

\* Every step keeps HolderInv.
LEMMA HolderStep == TypeOK /\ HolderInv /\ [Next]_vars => HolderInv'
<1> SUFFICES ASSUME TypeOK, HolderInv, [Next]_vars PROVE HolderInv'
  OBVIOUS
<1>1. CASE Follow
  BY <1>1 DEF Follow, Process, HolderInv, dataVars, holderVars, procVars
<1>2. ASSUME NEW p \in Procs, Start(p) PROVE HolderInv'
  BY <1>2 DEF Start, HolderInv, TypeOK, ProcTypeOK, dataVars, holderVars
<1>3. ASSUME NEW p \in Procs, Acquire(p) PROVE HolderInv'
  <2>1. req[p] \in Requests
    BY <1>3 DEF Acquire, TypeOK, ProcTypeOK
  <2>2. cand' \in Authority!Outcomes(old', req'[p])
    BY <1>3, <2>1, CandidateOutcome DEF Acquire, procVars
  <2> QED
    BY <1>3, <2>2, ProcAssumption DEF Acquire, HolderInv, dataVars, procVars
<1>4. ASSUME NEW p \in Procs, Refuse(p) PROVE HolderInv'
  BY <1>4 DEF Refuse, HolderInv, dataVars, holderVars
<1>5. ASSUME NEW p \in Procs, Kill(p) PROVE HolderInv'
  BY <1>5 DEF Kill, Release, HolderInv, TypeOK, ProcTypeOK, dataVars, holderVars
<1>6. CASE Reconcile
  BY <1>6, ReconcileHolder
<1>7. CASE Fail2banRestart \/ StackRestart
  BY <1>7 DEF Fail2banRestart, StackRestart, KillAll, Release, HolderInv
<1>8. CASE CaddyCrash \/ CaddyStart \/ UNCHANGED vars
  BY <1>8 DEF CaddyCrash, CaddyStart, HolderInv, holderVars, procVars, dataVars, vars
<1> QED
  BY <1>1, <1>2, <1>3, <1>4, <1>5, <1>6, <1>7, <1>8 DEF Next

\* HolderInv is an invariant.
THEOREM HolderInvariant == Spec => []HolderInv
  BY HolderInit, HolderStep, TypeCorrect, PTL DEF Spec

\* Every caddy-ban command is atomic on the published list, whatever fails or
\* dies in the middle of it (LinearizableBans; reconcile_locked, with_lock).
THEOREM Refinement == Spec => LinearizableBans
<1> DEFINE AVars == <<Published, req, result>>
<1>1. Init => Authority!Init
  BY DEF Init, Authority!Init, Idle, Authority!Idle
<1>2. TypeOK /\ HolderInv /\ [Next]_vars => [Authority!Next]_(Authority!vars)
  <2> SUFFICES ASSUME TypeOK, HolderInv, [Next]_vars
               PROVE  Authority!Next \/ UNCHANGED AVars
    BY DEF Authority!vars, Published
  <2>1. CASE Follow
    BY <2>1 DEF Follow, Process, Published, dataVars, holderVars, procVars
  <2>2. ASSUME NEW p \in Procs, Start(p) PROVE Authority!Next
    BY <2>2 DEF Start, dataVars, holderVars, Requests, Idle, Authority!Next, Authority!Start,
       Authority!Requests, Authority!Idle
  <2>3. ASSUME NEW p \in Procs, Acquire(p) PROVE UNCHANGED AVars
    BY <2>3, ProcAssumption DEF Acquire, Published, dataVars, procVars
  <2>4. ASSUME NEW p \in Procs, Refuse(p) PROVE Authority!Next
    BY <2>4 DEF Refuse, dataVars, holderVars, Idle, Authority!Next, Authority!Fail, Authority!End,
       Authority!Idle
  <2>5. ASSUME NEW p \in Procs, Kill(p) PROVE Authority!Next
    <3>1. Authority!End(p, "killed")
      BY <2>5 DEF Kill, Authority!End, Idle, Authority!Idle
    <3>2. Published' \in {Published} \cup Authority!Outcomes(Published, req[p])
      BY <2>5, ProcAssumption DEF Kill, Release, Published, HolderInv, dataVars, holderVars
    <3> QED
      BY <3>1, <3>2 DEF Published, Authority!Next, Authority!FailUncertain
  <2>6. CASE Reconcile
    <3>1. lock \in Procs /\ lock # NoProc /\ req[lock] # Idle
      BY <2>6 DEF HolderInv, Reconcile, WriteSnippet, FlushChain, InsertRule, LoadCaddyfile,
         Publish, VerifyFirewall, ClearFailure, RestoreState, RestoreSnippet, MarkFailure
    <3>2. CASE Frame /\ UNCHANGED <<lock, old>>
      BY <3>1, <3>2 DEF Frame, procVars, Published
    <3>3. CASE ClearFailure
      <4>1. CASE Raise /\ UNCHANGED procVars
        BY <3>1, <4>1 DEF Raise, procVars, Published
      <4>2. CASE Finish("ok")
        <5>1. Authority!End(lock, "ok")
          BY <3>1, <4>2 DEF Finish, Authority!End, Idle, Authority!Idle
        <5>2. Published' \in Authority!Outcomes(Published, req[lock])
          BY <3>1, <3>3, <4>2 DEF ClearFailure, Finish, Release, HolderInv, Published
        <5> QED
          BY <3>1, <5>1, <5>2 DEF Published, Authority!Next, Authority!Succeed
      <4> QED
        BY <3>3, <4>1, <4>2 DEF ClearFailure
    <3>4. CASE MarkFailure
      <4>1. CASE rollbackErrors
        <5>1. Authority!End(lock, "rollback_failed")
          BY <3>1, <3>4, <4>1 DEF MarkFailure, Finish, Authority!End, Idle, Authority!Idle
        <5>2. Published' \in {Published} \cup Authority!Outcomes(Published, req[lock])
          BY <3>1, <3>4 DEF MarkFailure, Finish, Release, HolderInv, Published
        <5> QED
          BY <3>1, <5>1, <5>2 DEF Published, Authority!Next, Authority!FailUncertain
      <4>2. CASE ~rollbackErrors
        <5>1. Authority!End(lock, "failed")
          BY <3>1, <3>4, <4>2 DEF MarkFailure, Finish, Authority!End, Idle, Authority!Idle
        <5>2. Published' = Published
          BY <3>1, <3>4, <4>2 DEF MarkFailure, Finish, Release, HolderInv, Published
        <5> QED
          BY <3>1, <5>1, <5>2 DEF Published, Authority!Next, Authority!Fail
      <4> QED
        BY <4>1, <4>2
    <3> QED
      BY <2>6, <3>2, <3>3, <3>4 DEF Reconcile, WriteSnippet, FlushChain, InsertRule, LoadCaddyfile,
         Publish, VerifyFirewall, RestoreState, RestoreSnippet, Goto, Raise, Collect,
         FirewallRuns, FirewallFails
  <2>7. CASE Fail2banRestart \/ StackRestart
    <3>1. req' = [p \in Procs |-> Authority!Idle]
      BY <2>7 DEF Fail2banRestart, StackRestart, KillAll, Idle, Authority!Idle
    <3>2. result' = [p \in Procs |-> IF req[p] = Authority!Idle THEN result[p] ELSE "killed"]
      BY <2>7 DEF Fail2banRestart, StackRestart, KillAll, Idle, Authority!Idle
    <3>3. Published' = banState
      BY <2>7 DEF Fail2banRestart, StackRestart, KillAll, Release, dataVars, Published
    <3>4. \/ Published' = Published
          \/ /\ lock \in {q \in Procs : req[q] # Authority!Idle}
             /\ Published' \in Authority!Outcomes(Published, req[lock])
      BY <3>3 DEF HolderInv, Published, Idle, Authority!Idle
    <3>5. Published' \in {Published} \cup
              UNION {Authority!Outcomes(Published, req[p]) :
                        p \in {q \in Procs : req[q] # Authority!Idle}}
      BY <3>4
    <3> QED
      BY <3>1, <3>2, <3>5 DEF Published, Authority!Next, Authority!Restart
  <2>8. CASE CaddyCrash \/ CaddyStart \/ UNCHANGED vars
    BY <2>8 DEF CaddyCrash, CaddyStart, Published, holderVars, procVars, dataVars, vars
  <2> QED
    BY <2>1, <2>2, <2>3, <2>4, <2>5, <2>6, <2>7, <2>8 DEF Next
<1> QED
  BY <1>1, <1>2, TypeCorrect, HolderInvariant, PTL DEF Spec, LinearizableBans, Authority!Spec

---------------------------------------------------------------------------
(* Where the four copies stand at each step of reconcile_locked and of     *)
(* _rollback, and what that says of them when no command runs.             *)

\* Going forward the snippet is written first and Caddy has read it when the
\* list is published.
ForwardInv ==
    lock # NoProc /\ ~back =>
        /\ pc # "snippet" => snippet = Clients(cand)
        /\ pc \in {"publish", "verify", "clear"} /\ caddyUp => caddyConfig = snippet

\* Either way the chains are rebuilt from the target list, IPv4's first.
ChainInv ==
    lock # NoProc =>
        /\ pc \in {"flush", "insert"} /\ family = "v6" => chain["v4"] = Desired(Target, "v4")
        /\ pc = "insert" => chain[family] \subseteq Desired(Target, family)
        /\ pc \in {"load", "publish", "verify", "clear", "mark"} /\ ~rollbackErrors =>
               chain = ChainFor(Target)

\* A rollback without errors has put back what it has passed.
BackInv ==
    back /\ ~rollbackErrors =>
        /\ pc \in {"flush", "insert", "load", "mark"} => snippet = oldSnippet
        /\ pc = "mark" /\ caddyUp => caddyConfig = oldSnippet

\* Since the last kill or failed rollback: the copies agree when the lock is
\* free, and are old or new while it is held.
CleanInv ==
    ~tainted =>
        /\ lock = NoProc \/ pc = "snippet" => Enforced(banState)
        /\ lock # NoProc =>
            /\ oldSnippet = Clients(old)
            /\ snippet \in {Clients(old), Clients(cand)}
            /\ caddyUp => caddyConfig \in {Clients(old), Clients(cand)}

\* How many calls must have failed for a rollback, for one with errors, and for
\* a disagreement that nothing marks.
FaultInv ==
    /\ rollbackErrors => back
    /\ kills = 0 =>
        /\ caddyUp
        /\ tainted => failureFile \/ faults > 2
        /\ back => faults > 0
        /\ rollbackErrors => faults > 1

AgreementInv == ForwardInv /\ ChainInv /\ BackInv /\ CleanInv /\ FaultInv

\* A chain function holds a list's rules when each family's chain does.
LEMMA ChainOfFamilies ==
    ASSUME NEW c \in [Families -> SUBSET Addr], NEW bans,
           c["v4"] = Desired(bans, "v4"), c["v6"] = Desired(bans, "v6")
    PROVE  c = ChainFor(bans)
  BY DEF ChainFor, Families

\* What the verification compares agrees when the chains hold the list's rules.
LEMMA VerificationAgrees ==
    ASSUME chain = ChainFor(cand)
    PROVE  Installed = Expected(cand)
<1>1. ASSUME NEW a
      PROVE  a \in Expected(cand) <=> a \in Desired(cand, "v4") \cup Desired(cand, "v6")
  BY DEF Expected, Desired, FamilyOf
<1>2. ASSUME NEW a
      PROVE  a \in Installed <=> a \in Desired(cand, "v4") \cup Desired(cand, "v6")
  BY DEF Installed, ChainFor, Families
<1> QED
  BY <1>1, <1>2

\* A packet-filter command that leaves "rules" in the chain it works on.
LEMMA RunsChain ==
    ASSUME TypeOK, HolderInv, ChainInv, pc \in {"flush", "insert"},
           NEW rules \in SUBSET Desired(Target, family), FirewallRuns(rules)
    PROVE  ChainInv'
<1>1. /\ lock' = lock /\ back' = back /\ cand' = cand /\ old' = old
      /\ rollbackErrors' = rollbackErrors /\ Target' = Target
  BY DEF FirewallRuns, Target
<1>2. /\ lock # NoProc
      /\ chain \in [Families -> SUBSET Addr] /\ family \in {"v4", "v6"}
  BY DEF HolderInv, TypeOK, DataTypeOK, HolderTypeOK, Families
<1>3. rules \subseteq Addr
  BY ListAddresses DEF TypeOK, HolderTypeOK, Target, Families
<1>4. chain' = [chain EXCEPT ![family] = rules] /\ chain' \in [Families -> SUBSET Addr]
  BY <1>2, <1>3 DEF FirewallRuns
<1>5. CASE ~(Desired(Target, family) \subseteq rules)
  <2>1. pc' = "insert" /\ family' = family
    BY <1>5 DEF FirewallRuns
  <2>2. chain'[family] = rules /\ (family = "v6" => chain'["v4"] = chain["v4"])
    BY <1>2, <1>4 DEF Families
  <2> QED
    BY <1>1, <1>2, <2>1, <2>2 DEF ChainInv
<1>6. CASE Desired(Target, family) \subseteq rules /\ family = "v4"
  <2>1. pc' = "flush" /\ family' = "v6"
    BY <1>6 DEF FirewallRuns
  <2>2. chain'["v4"] = Desired(Target, "v4")
    BY <1>2, <1>4, <1>6 DEF Families
  <2> QED
    BY <1>1, <2>1, <2>2 DEF ChainInv
<1>7. CASE Desired(Target, family) \subseteq rules /\ family = "v6"
  <2>1. pc' = "load" /\ family' = "v4"
    BY <1>7 DEF FirewallRuns
  <2>2. chain'["v4"] = Desired(Target, "v4")
    BY <1>2, <1>4, <1>7 DEF Families, ChainInv
  <2>3. chain'["v6"] = Desired(Target, "v6")
    BY <1>2, <1>4, <1>7 DEF Families
  <2>4. chain' = ChainFor(Target)
    BY <1>4, <2>2, <2>3, ChainOfFamilies
  <2>5. (ChainFor(Target))' = ChainFor(Target)
    BY <1>1 DEF ChainFor
  <2> QED
    BY <1>1, <2>1, <2>4, <2>5 DEF ChainInv
<1> QED
  BY <1>2, <1>5, <1>6, <1>7

\* A step that leaves the chains alone keeps what is known of them, unless it
\* turns to them or past them.
LEMMA ReconcileChain == TypeOK /\ HolderInv /\ AgreementInv /\ Reconcile => ChainInv'
<1> SUFFICES ASSUME TypeOK, HolderInv, AgreementInv, Reconcile PROVE ChainInv'
  OBVIOUS
<1> USE DEF AgreementInv
<1>1. CASE WriteSnippet
  BY <1>1 DEF WriteSnippet, Goto, Raise, Frame, ChainInv
<1>2. CASE FlushChain
  <2>1. CASE FirewallRuns({})
    BY <1>2, <2>1, RunsChain DEF FlushChain
  <2>2. CASE FirewallFails
    BY <2>2 DEF FirewallFails, Raise, Collect, ChainInv
  <2> QED
    BY <1>2, <2>1, <2>2 DEF FlushChain
<1>3. CASE InsertRule
  <2>1. ASSUME NEW a \in Desired(Target, family) \ chain[family],
               FirewallRuns(chain[family] \cup {a})
        PROVE  ChainInv'
    <3>1. lock # NoProc /\ pc = "insert"
      BY <1>3 DEF InsertRule, HolderInv
    <3>2. chain[family] \cup {a} \subseteq Desired(Target, family)
      BY <2>1, <3>1 DEF ChainInv
    <3> QED
      BY <2>1, <3>1, <3>2, RunsChain
  <2>2. CASE FirewallFails
    BY <2>2 DEF FirewallFails, Raise, Collect, ChainInv
  <2> QED
    BY <1>3, <2>1, <2>2 DEF InsertRule
<1>4. CASE LoadCaddyfile
  BY <1>4 DEF LoadCaddyfile, Goto, Raise, Collect, ChainInv, ChainFor, Target, HolderInv
<1>5. CASE Publish
  BY <1>5 DEF Publish, Goto, Raise, ChainInv, ChainFor, Target, HolderInv
<1>6. CASE VerifyFirewall
  BY <1>6 DEF VerifyFirewall, Goto, Raise, dataVars, ChainInv, ChainFor, Target, HolderInv
<1>7. CASE ClearFailure
  BY <1>7 DEF ClearFailure, Finish, Release, Raise, ChainInv
<1>8. CASE RestoreState
  BY <1>8 DEF RestoreState, Goto, Collect, ChainInv
<1>9. CASE RestoreSnippet
  BY <1>9 DEF RestoreSnippet, Goto, Collect, ChainInv
<1>10. CASE MarkFailure
  BY <1>10 DEF MarkFailure, Finish, Release, ChainInv
<1> QED
  BY <1>1, <1>2, <1>3, <1>4, <1>5, <1>6, <1>7, <1>8, <1>9, <1>10 DEF Reconcile

\* The snippet and Caddy's configuration go from old to new and back.
LEMMA ReconcileCopies ==
    TypeOK /\ HolderInv /\ AgreementInv /\ Reconcile => ForwardInv' /\ BackInv' /\ CleanInv'
<1> SUFFICES ASSUME TypeOK, HolderInv, AgreementInv, Reconcile
             PROVE  ForwardInv' /\ BackInv' /\ CleanInv'
  OBVIOUS
<1> USE DEF AgreementInv, ForwardInv, BackInv, CleanInv
<1>0. UNCHANGED caddyUp
  BY DEF Reconcile, WriteSnippet, FlushChain, InsertRule, LoadCaddyfile, Publish, VerifyFirewall,
     ClearFailure, RestoreState, RestoreSnippet, MarkFailure, Frame, Finish, envVars
<1>1. CASE WriteSnippet
  BY <1>0, <1>1 DEF WriteSnippet, Render, Goto, Raise, Frame, HolderInv, Enforced
<1>2. CASE FlushChain \/ InsertRule
  BY <1>0, <1>2 DEF FlushChain, InsertRule, FirewallRuns, FirewallFails, Raise, Collect, Frame, HolderInv
<1>3. CASE LoadCaddyfile
  BY <1>0, <1>3 DEF LoadCaddyfile, Goto, Raise, Collect, Frame, HolderInv
<1>4. CASE Publish
  BY <1>0, <1>4 DEF Publish, Goto, Raise, Frame, HolderInv
<1>5. CASE VerifyFirewall
  BY <1>0, <1>5 DEF VerifyFirewall, Goto, Raise, dataVars, Frame, HolderInv
<1>6. CASE ClearFailure
  BY <1>0, <1>6 DEF ClearFailure, Finish, Release, Raise, HolderInv, Enforced, ChainInv, Target,
     FaultInv, ChainFor
<1>7. CASE RestoreState \/ RestoreSnippet
  BY <1>0, <1>7 DEF RestoreState, RestoreSnippet, Goto, Collect, Frame, HolderInv
<1>8. CASE MarkFailure
  <2>1. lock' = NoProc /\ back' = FALSE /\ UNCHANGED <<banState, snippet, caddyConfig, chain>>
    BY <1>8 DEF MarkFailure, Finish, Release
  <2>2. ASSUME ~tainted' PROVE Enforced(banState)
    <3>1. ~tainted /\ ~rollbackErrors
      BY <1>8, <2>2 DEF MarkFailure
    <3>2. lock # NoProc /\ back /\ banState = old
      BY <1>8, <3>1 DEF MarkFailure, HolderInv
    <3>3. snippet = Clients(old) /\ (caddyUp => caddyConfig = Clients(old))
      BY <1>8, <3>1, <3>2 DEF MarkFailure
    <3>4. chain = ChainFor(old)
      BY <1>8, <3>1, <3>2 DEF MarkFailure, ChainInv, Target
    <3> QED
      BY <3>2, <3>3, <3>4 DEF Enforced
  <2>3. ASSUME ~tainted' PROVE Enforced(banState)'
    BY <1>0, <2>1, <2>2, <2>3 DEF Enforced, ChainFor
  <2> QED
    BY <2>1, <2>3
<1> QED
  BY <1>1, <1>2, <1>3, <1>4, <1>5, <1>6, <1>7, <1>8 DEF Reconcile

\* Each error of a rollback is a failing call of its own, and the one that loses
\* the marker is a third.
LEMMA ReconcileFaults == TypeOK /\ HolderInv /\ AgreementInv /\ Reconcile => FaultInv'
<1> SUFFICES ASSUME TypeOK, HolderInv, AgreementInv, Reconcile PROVE FaultInv'
  OBVIOUS
<1> USE DEF AgreementInv, FaultInv
<1>0. /\ caddyUp' = caddyUp /\ kills' = kills /\ faults \in Nat
      /\ faults' = faults \/ faults' = faults + 1
  <2>1. faults \in Nat
    BY BoundAssumption DEF TypeOK, GhostTypeOK
  <2>2. caddyUp' = caddyUp /\ kills' = kills
    BY DEF Reconcile, WriteSnippet, FlushChain, InsertRule, LoadCaddyfile, Publish, VerifyFirewall,
       ClearFailure, RestoreState, RestoreSnippet, MarkFailure, Frame, Finish, envVars
  <2>3. faults' = faults \/ faults' = faults + 1
    BY DEF Reconcile, WriteSnippet, FlushChain, InsertRule, LoadCaddyfile, Publish, VerifyFirewall,
       ClearFailure, RestoreState, RestoreSnippet, MarkFailure, FirewallRuns, FirewallFails,
       Fault, NoFault
  <2> QED
    BY <2>1, <2>2, <2>3
<1>1. CASE WriteSnippet \/ Publish
  BY <1>0, <1>1 DEF WriteSnippet, Publish, Goto, Raise, Fault, Frame, HolderInv
<1>2. CASE FlushChain \/ InsertRule
  BY <1>0, <1>2 DEF FlushChain, InsertRule, FirewallRuns, FirewallFails, Raise, Collect, Fault, Frame
<1>3. CASE LoadCaddyfile
  BY <1>0, <1>3 DEF LoadCaddyfile, Goto, Raise, Collect, Fault, Frame
<1>4. CASE VerifyFirewall
  <2>1. chain = ChainFor(cand)
    BY <1>4 DEF VerifyFirewall, HolderInv, ChainInv, Target
  <2>2. Installed = Expected(cand)
    BY <2>1, VerificationAgrees
  <2> QED
    BY <1>0, <1>4, <2>2 DEF VerifyFirewall, Goto, Raise, Fault, dataVars, Frame
<1>5. CASE ClearFailure
  BY <1>0, <1>5 DEF ClearFailure, Finish, Release, Raise, Fault, HolderInv
<1>6. CASE RestoreState \/ RestoreSnippet
  BY <1>0, <1>6 DEF RestoreState, RestoreSnippet, Goto, Collect, Fault, Frame, HolderInv
<1>7. CASE MarkFailure
  <2>1. ~rollbackErrors' /\ ~back'
    BY <1>7 DEF MarkFailure, Finish, Release
  <2>2. ASSUME kills = 0, tainted' PROVE failureFile' \/ faults' > 2
    <3>1. tainted \/ rollbackErrors
      BY <1>7, <2>2 DEF MarkFailure
    <3>2. failureFile' \/ (failureFile' = failureFile /\ faults' = faults + 1)
      BY <1>7 DEF MarkFailure, Fault
    <3>3. tainted => failureFile \/ faults > 2
      BY <2>2
    <3>4. rollbackErrors => faults > 1
      BY <2>2
    <3> QED
      BY <1>0, <3>1, <3>2, <3>3, <3>4
  <2> QED
    BY <1>0, <2>1, <2>2
<1> QED
  BY <1>1, <1>2, <1>3, <1>4, <1>5, <1>6, <1>7 DEF Reconcile

\* AgreementInv holds at the start.
LEMMA AgreementInit == Init => AgreementInv
<1> SUFFICES ASSUME Init PROVE AgreementInv
  OBVIOUS
<1>1. lock = NoProc /\ ~back /\ ~rollbackErrors /\ caddyUp /\ ~tainted
  BY DEF Init
<1>2. Enforced(banState)
  BY DEF Init, Enforced, Clients, ChainFor, Desired
<1> QED
  BY <1>1, <1>2 DEF AgreementInv, ForwardInv, ChainInv, BackInv, CleanInv, FaultInv

\* Every step keeps AgreementInv.
LEMMA AgreementStep == TypeOK /\ HolderInv /\ AgreementInv /\ [Next]_vars => AgreementInv'
<1> SUFFICES ASSUME TypeOK, HolderInv, AgreementInv, [Next]_vars PROVE AgreementInv'
  OBVIOUS
<1> USE DEF AgreementInv
<1>1. CASE UNCHANGED <<dataVars, holderVars, caddyUp, ghostVars>>
  BY <1>1 DEF ForwardInv, ChainInv, BackInv, CleanInv, FaultInv, Enforced, ChainFor, Target,
     dataVars, holderVars, ghostVars
<1>2. ASSUME NEW p \in Procs, Acquire(p) PROVE AgreementInv'
  <2>1. /\ lock = NoProc /\ lock' = p /\ p # NoProc /\ pc' = "snippet"
        /\ old' = banState /\ oldSnippet' = snippet
        /\ UNCHANGED <<dataVars, back, family, rollbackErrors, caddyUp, ghostVars>>
    BY <1>2, ProcAssumption DEF Acquire, envVars
  <2>2. ~back /\ ~rollbackErrors
    BY <2>1 DEF HolderInv, FaultInv
  <2>3. ForwardInv' /\ ChainInv' /\ BackInv'
    BY <2>1, <2>2 DEF ForwardInv, ChainInv, BackInv
  <2>4. CleanInv' /\ FaultInv'
    BY <2>1, <2>2 DEF CleanInv, FaultInv, Enforced, ChainFor, dataVars, ghostVars
  <2> QED
    BY <2>3, <2>4
<1>3. CASE Reconcile
  BY <1>3, ReconcileChain, ReconcileCopies, ReconcileFaults
<1>4. ASSUME Release, UNCHANGED dataVars, kills' # 0, caddyUp' => caddyUp,
             tainted' = (tainted \/ MidChange) \/ tainted' = TRUE
      PROVE  AgreementInv'
  <2>1. ForwardInv' /\ ChainInv' /\ BackInv' /\ FaultInv'
    BY <1>4 DEF Release, ForwardInv, ChainInv, BackInv, FaultInv
  <2>2. ASSUME ~tainted' PROVE Enforced(banState)
    BY <1>4, <2>2 DEF MidChange, CleanInv
  <2>3. CleanInv'
    BY <1>4, <2>2 DEF Release, CleanInv, Enforced, ChainFor, dataVars
  <2> QED
    BY <2>1, <2>3
<1>5. kills \in Nat
  BY BoundAssumption DEF TypeOK, GhostTypeOK
<1>6. ASSUME NEW p \in Procs, Kill(p) PROVE AgreementInv'
  <2>1. CASE lock = p
    BY <1>4, <1>5, <1>6, <2>1 DEF Kill, CanKill, envVars
  <2>2. CASE lock # p
    <3>1. UNCHANGED <<dataVars, holderVars, caddyUp, tainted, faults>> /\ kills' = kills + 1
      BY <1>6, <2>2 DEF Kill, CanKill, envVars
    <3> QED
      BY <1>5, <3>1 DEF ForwardInv, ChainInv, BackInv, CleanInv, FaultInv, Enforced, ChainFor,
         Target, dataVars, holderVars
  <2> QED
    BY <2>1, <2>2
<1>7. CASE Fail2banRestart
  <2>1. CASE joined
    <3>1. UNCHANGED dataVars /\ tainted' = (tainted \/ MidChange) /\ (caddyUp' => caddyUp)
      BY <1>7, <2>1 DEF Fail2banRestart, dataVars
    <3>2. Release /\ kills' # 0
      BY <1>5, <1>7 DEF Fail2banRestart, KillAll, CanKill
    <3> QED
      BY <1>4, <3>1, <3>2
  <2>2. CASE ~joined
    <3>1. Release /\ kills' # 0
      BY <1>5, <1>7 DEF Fail2banRestart, KillAll, CanKill
    <3>2. tainted'
      BY <1>7, <2>2, Zenon DEF Fail2banRestart
    <3> QED
      BY <3>1, <3>2 DEF Release, ForwardInv, ChainInv, BackInv, CleanInv, FaultInv
  <2> QED
    BY <2>1, <2>2
<1>8. CASE StackRestart
  BY <1>5, <1>8 DEF StackRestart, KillAll, CanKill, Release, ForwardInv, ChainInv, BackInv,
     CleanInv, FaultInv
<1>9. CASE CaddyCrash
  BY <1>5, <1>9 DEF CaddyCrash, CanKill, holderVars, ForwardInv, ChainInv, BackInv, CleanInv,
     FaultInv, Enforced, ChainFor, Target
<1>10. CASE CaddyStart
  BY <1>10 DEF CaddyStart, holderVars, ghostVars, ForwardInv, ChainInv, BackInv, CleanInv,
     FaultInv, Enforced, ChainFor, Target
<1>11. ASSUME NEW p \in Procs, Start(p) \/ Refuse(p)
       PROVE  UNCHANGED <<dataVars, holderVars, caddyUp, ghostVars>>
  BY <1>11 DEF Start, Refuse, envVars
<1>12. ASSUME Follow \/ UNCHANGED vars
       PROVE  UNCHANGED <<dataVars, holderVars, caddyUp, ghostVars>>
  BY <1>12 DEF Follow, Process, vars, envVars
<1> QED
  BY <1>1, <1>2, <1>3, <1>6, <1>7, <1>8, <1>9, <1>10, <1>11, <1>12 DEF Next

\* AgreementInv is an invariant.
THEOREM AgreementInvariant == Spec => []AgreementInv
  BY AgreementInit, AgreementStep, TypeCorrect, HolderInvariant, PTL DEF Spec

\* No command running, none killed and none half rolled back since the last
\* success: the four copies agree (QuietAgreement; reconcile_locked, _rollback).
THEOREM QuietCopiesAgree == Spec => []QuietAgreement
<1>1. AgreementInv => QuietAgreement
  BY DEF AgreementInv, CleanInv, QuietAgreement
<1> QED
  BY <1>1, AgreementInvariant, PTL

\* A ban that no running command is changing is enforced by Caddy at every
\* instant, under any number of commands, failing calls and lost answers
\* (NoEnforcementGap; reconcile_locked's order of snippet, filter and load).
THEOREM BansHaveNoGap == Spec => []NoEnforcementGap
<1>1. AgreementInv => NoEnforcementGap
  <2> SUFFICES ASSUME AgreementInv, ~tainted, caddyUp, NEW a \in Addr,
                      a \in Clients(banState),
                      lock # NoProc => a \in Clients(old) /\ a \in Clients(cand)
               PROVE  a \in caddyConfig
    BY DEF NoEnforcementGap
  <2> QED
    BY DEF AgreementInv, CleanInv, Enforced
<1> QED
  BY <1>1, AgreementInvariant, PTL

\* A rollback that collected no error has restored all four copies, wherever it
\* was entered from (RolledBack; _rollback).
THEOREM RollbackIsComplete == Spec => []RolledBack
<1>1. HolderInv /\ AgreementInv => RolledBack
  <2> SUFFICES ASSUME HolderInv, AgreementInv, pc = "mark", ~rollbackErrors
               PROVE  /\ banState = old /\ snippet = oldSnippet /\ chain = ChainFor(old)
                      /\ caddyUp => caddyConfig = oldSnippet
    BY DEF RolledBack
  <2>1. lock # NoProc /\ back
    BY DEF HolderInv
  <2> QED
    BY <2>1 DEF HolderInv, AgreementInv, ChainInv, BackInv, Target
<1> QED
  BY <1>1, HolderInvariant, AgreementInvariant, PTL

\* Without kills, a disagreement that no failure marker announces takes a third
\* failing call (DisagreementIsMarked; _mark_failure, _clear_failure).
THEOREM DisagreementNeedsThreeFaults == Spec => []DisagreementIsMarked
<1>1. TypeOK /\ AgreementInv => DisagreementIsMarked
  <2> SUFFICES ASSUME TypeOK, AgreementInv, lock = NoProc, kills = 0, faults <= 2
               PROVE  Enforced(banState) \/ failureFile
    BY DEF DisagreementIsMarked
  <2>1. faults \in Nat
    BY BoundAssumption DEF TypeOK, GhostTypeOK
  <2>2. tainted => failureFile
    BY <2>1 DEF AgreementInv, FaultInv
  <2> QED
    BY <2>2 DEF AgreementInv, CleanInv
<1> QED
  BY <1>1, TypeCorrect, AgreementInvariant, PTL

---------------------------------------------------------------------------
(* The health check.  It takes no lock, so its theorems are about the runs *)
(* of CheckSpec: every step of CaddyBan's, and the reads in between.       *)

\* What CaddyBan's steps keep, whoever is reading meanwhile.
BanInv == TypeOK /\ HolderInv /\ AgreementInv /\ FamilyInv

\* The types of the checks' own variables.
CheckTypes ==
    /\ step \in [Checkers -> {"idle", "marker", "state", "caddy", "v4", "v6"}]
    /\ seen \in [Checkers -> SUBSET Entry]
    /\ installed \in [Checkers -> SUBSET Addr]
    /\ verdict \in [Checkers -> {"none", "pass", "fail"}]
    /\ disturbed \in [Checkers -> BOOLEAN]

\* Under an undisturbed check the lock is free, and what it has read is what is
\* there now.
ReadInv(h) ==
    step[h] # "idle" /\ ~disturbed[h] =>
        /\ lock = NoProc
        /\ step[h] \in {"caddy", "v4", "v6"} => seen[h] = banState
        /\ step[h] = "v6" => installed[h] = chain["v4"]

\* An idle check, or one that has not come to the chains, holds no addresses.
EmptyInv(h) == step[h] # "v6" => installed[h] = {}

CheckInv == BanInv /\ CheckTypes /\ \A h \in Checkers : ReadInv(h) /\ EmptyInv(h)

\* The bans' invariants hold at the start, and every step of CaddyBan keeps them.
LEMMA BanInvInit == Init => BanInv
<1>1. Init => FamilyInv
  BY DEF Init, FamilyInv
<1> QED
  BY <1>1, TypeInit, HolderInit, AgreementInit DEF BanInv

LEMMA BanInvStep == BanInv /\ [Next]_vars => BanInv'
  BY TypeStep, HolderStep, AgreementStep, FamilyStep DEF BanInv

\* A check only reads: of CaddyBan's variables it moves but the count of failing
\* calls, which weakens no invariant.
LEMMA CheckKeepsBans ==
    ASSUME BanInv, NEW h \in Checkers, Check(h)
    PROVE  /\ BanInv'
           /\ UNCHANGED <<dataVars, holderVars, procVars, envVars, tainted, kills>>
<1>1. CASE UNCHANGED vars
  <2>1. BanInv'
    BY <1>1, BanInvStep
  <2> QED
    BY <1>1, <2>1 DEF vars, ghostVars
<1>2. CASE CheckRaises(h)
  <2>1. UNCHANGED <<dataVars, holderVars, procVars, envVars, tainted, kills>>
    BY <1>2 DEF CheckRaises
  <2>2. faults \in Nat /\ faults' = faults + 1 /\ faults' \in 0..MaxFaults
    BY <1>2, BoundAssumption DEF CheckRaises, Fault, BanInv, TypeOK, GhostTypeOK
  <2>3. TypeOK'
    BY <2>1, <2>2 DEF BanInv, TypeOK, DataTypeOK, EnvTypeOK, HolderTypeOK, ProcTypeOK, GhostTypeOK,
       dataVars, holderVars, procVars, envVars, records
  <2>4. HolderInv' /\ FamilyInv'
    BY <2>1 DEF BanInv, HolderInv, FamilyInv, FamilyOf, dataVars, holderVars, procVars
  <2>5. ForwardInv' /\ ChainInv' /\ BackInv' /\ CleanInv'
    BY <2>1 DEF BanInv, AgreementInv, ForwardInv, ChainInv, BackInv, CleanInv, Enforced, ChainFor,
       Target, dataVars, holderVars, envVars
  <2>6. FaultInv'
    BY <2>1, <2>2 DEF BanInv, AgreementInv, FaultInv, dataVars, holderVars, envVars
  <2> QED
    BY <2>1, <2>3, <2>4, <2>5, <2>6 DEF BanInv, AgreementInv
<1> QED
  BY <1>1, <1>2 DEF Check, CheckBegin, CheckMarker, CheckLoadBans, CheckCaddyState, CheckFirewall

\* A check's own step keeps what is known of its reads.
LEMMA CheckReads ==
    ASSUME CheckInv, NEW h \in Checkers, Check(h)
    PROVE  CheckTypes' /\ \A g \in Checkers : ReadInv(g)' /\ EmptyInv(g)'
<1> USE DEF CheckInv, CheckTypes
<1>1. UNCHANGED <<dataVars, holderVars>>
  BY CheckKeepsBans
<1>2. banState \subseteq Entry /\ chain \in [Families -> SUBSET Addr]
  BY DEF BanInv, TypeOK, DataTypeOK
<1> USE <1>1 DEF ReadInv, EmptyInv, Set, Answer, dataVars, holderVars
<1>3. CASE CheckBegin(h)
  BY <1>3 DEF CheckBegin
<1>4. CASE CheckMarker(h)
  BY <1>4 DEF CheckMarker
<1>5. CASE CheckLoadBans(h)
  BY <1>2, <1>5 DEF CheckLoadBans
<1>6. CASE CheckCaddyState(h)
  BY <1>6 DEF CheckCaddyState
<1>7. CASE CheckFirewall(h)
  BY <1>2, <1>7 DEF CheckFirewall, ReadChain, Families
<1>8. CASE CheckRaises(h)
  BY <1>8 DEF CheckRaises
<1> QED
  BY <1>3, <1>4, <1>5, <1>6, <1>7, <1>8 DEF Check

\* Another actor's step disturbs the checks whose reads it outdates.
LEMMA OtherReads ==
    ASSUME CheckInv, Other
    PROVE  CheckTypes' /\ \A h \in Checkers : ReadInv(h)' /\ EmptyInv(h)'
<1> USE DEF CheckInv, CheckTypes, ReadInv, EmptyInv
<1>1. CASE booted' \/ ~booted
  <2>1. /\ UNCHANGED <<step, seen, installed, verdict>>
        /\ disturbed' = [h \in Checkers |->
               disturbed[h] \/ (step[h] # "idle" /\ <<dataVars, caddyUp, lock>>' # <<dataVars, caddyUp, lock>>)]
    BY <1>1 DEF Other
  <2>2. ASSUME NEW h \in Checkers, step[h] # "idle", ~disturbed'[h]
        PROVE  ~disturbed[h] /\ UNCHANGED <<banState, chain, lock>>
    BY <2>1, <2>2 DEF dataVars
  <2> QED
    BY <2>1, <2>2
<1>2. CASE ~(booted' \/ ~booted)
  BY <1>2 DEF Other
<1> QED
  BY <1>1, <1>2

\* Every step of the checks and of what they watch keeps CheckInv.
LEMMA CheckStep == CheckInv /\ [CheckNext]_<<vars, checkVars>> => CheckInv'
<1> SUFFICES ASSUME CheckInv, [CheckNext]_<<vars, checkVars>> PROVE CheckInv'
  OBVIOUS
<1>1. CASE Other
  BY <1>1, OtherReads, BanInvStep DEF Other, CheckInv
<1>2. ASSUME NEW h \in Checkers, Check(h) PROVE CheckInv'
  BY <1>2, CheckReads, CheckKeepsBans DEF CheckInv
<1>3. CASE UNCHANGED <<vars, checkVars>>
  <2>1. BanInv'
    BY <1>3, BanInvStep DEF CheckInv
  <2>2. CheckTypes' /\ \A h \in Checkers : ReadInv(h)' /\ EmptyInv(h)'
    BY <1>3 DEF CheckInv, CheckTypes, ReadInv, EmptyInv, checkVars, vars, dataVars, holderVars
  <2> QED
    BY <2>1, <2>2 DEF CheckInv
<1> QED
  BY <1>1, <1>2, <1>3 DEF CheckNext

\* An undisturbed check holds what is there now, while any commands, failures,
\* kills and other checks run; it is what both verdicts rest on.
THEOREM CheckInvariant == CheckSpec => []CheckInv
<1>1. CheckInit => CheckInv
  BY BanInvInit DEF CheckInit, CheckInv, CheckTypes, ReadInv, EmptyInv
<1> QED
  BY <1>1, CheckStep, PTL DEF CheckSpec

\* What the check asks of an untainted container with a free lock and a running
\* Caddy is there: every client in Caddy, every direct peer in the packet filter.
LEMMA CleanBansPass ==
    ASSUME BanInv, lock = NoProc, ~tainted
    PROVE  /\ caddyUp => \A e \in banState : Mentioned(e.client_ip)
           /\ chain["v4"] \cup chain["v6"] = Expected(banState)
<1>1. Enforced(banState)
  BY DEF BanInv, AgreementInv, CleanInv
<1>2. ASSUME caddyUp, NEW e \in banState PROVE Mentioned(e.client_ip)
  <2>1. e.client_ip \in caddyConfig /\ e.client_ip \in Addr
    BY <1>1, <1>2 DEF Enforced, Clients, BanInv, TypeOK, DataTypeOK, Entry
  <2> QED
    BY <2>1, CheckAssumption DEF Mentioned
<1>3. \A a : a \in Expected(banState) <=> a \in Desired(banState, "v4") \cup Desired(banState, "v6")
  BY DEF Expected, Desired, FamilyOf
<1>4. chain["v4"] = Desired(banState, "v4") /\ chain["v6"] = Desired(banState, "v6")
  BY <1>1 DEF Enforced, ChainFor, Families
<1> QED
  BY <1>2, <1>3, <1>4

\* The health check fails only for a reason: a marker, a Caddy that is down, copies
\* left apart by a kill or a failed rollback, a failing call of its own, or a
\* command that ran under it (AlarmHasCause; command_check).
THEOREM AlarmsHaveCauses == CheckSpec => AlarmHasCause
<1>1. CheckInv /\ [CheckNext]_<<vars, checkVars>> =>
          \A h \in Checkers : Ends(h, "fail") => failureFile \/ ~caddyUp \/ tainted \/ disturbed'[h]
  <2> SUFFICES ASSUME CheckInv, [CheckNext]_<<vars, checkVars>>, NEW h \in Checkers,
                      verdict[h] = "none", verdict'[h] = "fail",
                      ~failureFile, caddyUp, ~tainted, ~disturbed'[h]
               PROVE  FALSE
    BY DEF Ends
  <2> USE DEF CheckInv, CheckTypes
  <2>1. Check(h)
    <3>1. CASE Other
      BY <3>1 DEF Other
    <3>2. ASSUME NEW g \in Checkers, g # h, Check(g) PROVE FALSE
      BY <3>2 DEF Check, CheckBegin, CheckMarker, CheckLoadBans, CheckCaddyState, CheckFirewall,
         CheckRaises, Set, Answer
    <3> QED
      BY <3>1, <3>2 DEF CheckNext, checkVars
  <2>2. CASE CheckCaddyState(h)
    <3>1. lock = NoProc /\ seen[h] = banState
      BY <2>2 DEF CheckCaddyState, ReadInv
    <3>2. \A e \in seen[h] : Mentioned(e.client_ip)
      BY <3>1, CleanBansPass
    <3> QED
      BY <2>2, <3>2 DEF CheckCaddyState
  <2>3. CASE CheckFirewall(h)
    <3>1. step[h] = "v6" /\ ReadChain(h) # Expected(seen[h])
      BY <2>3 DEF CheckFirewall, Families, Set, Answer
    <3>2. lock = NoProc /\ seen[h] = banState /\ installed[h] = chain["v4"]
      BY <2>3, <3>1 DEF CheckFirewall, ReadInv
    <3>3. ReadChain(h) = Expected(seen[h])
      BY <3>1, <3>2, CleanBansPass DEF ReadChain
    <3> QED
      BY <3>1, <3>3
  <2> QED
    BY <2>1, <2>2, <2>3 DEF Check, CheckBegin, CheckMarker, CheckLoadBans, CheckRaises, Set, Answer
<1> QED
  BY <1>1, CheckInvariant, PTL DEF CheckSpec, AlarmHasCause

---------------------------------------------------------------------------
(* What a check that passes vouches for.                                   *)

\* Caddy refuses every published client whose text it could not find elsewhere.
Refused == \A a \in Clients(banState) : a \in caddyConfig \/ TakenForBan(a)

\* Checks run only in a booted container; once past Caddy, an undisturbed one has
\* found every client there.
VouchInv ==
    \A h \in Checkers :
        /\ step[h] # "idle" => booted
        /\ step[h] \in {"v4", "v6"} /\ ~disturbed[h] => Refused

\* Finding a client's text in Caddy's configuration is finding its ban, or one of
\* the places in which the text stands for something else.
LEMMA MentionedClientsAreBanned ==
    ASSUME \A e \in banState : Mentioned(e.client_ip)
    PROVE  Refused
  BY DEF Mentioned, Refused, TakenForBan, Clients

\* Only a restart of both containers changes the trusted proxies.
LEMMA TrustStays == Next /\ booted' => trusted' = trusted
  BY DEF Next, Follow, Process, Start, Acquire, Refuse, Kill, Reconcile, WriteSnippet, FlushChain,
     InsertRule, LoadCaddyfile, Publish, VerifyFirewall, ClearFailure, RestoreState, RestoreSnippet,
     MarkFailure, Frame, Finish, KillAll, Fail2banRestart, StackRestart, CaddyCrash, CaddyStart, envVars

\* Every step keeps what is known of the checks that got past Caddy.
LEMMA VouchStep ==
    ASSUME CheckInv, VouchInv, [CheckNext]_<<vars, checkVars>>
    PROVE  VouchInv'
<1> USE DEF CheckInv, CheckTypes, VouchInv
<1>1. CASE Other
  <2>1. CASE booted' \/ ~booted
    <3>1. /\ UNCHANGED step
          /\ disturbed' = [h \in Checkers |->
                 disturbed[h] \/ (step[h] # "idle" /\ <<dataVars, caddyUp, lock>>' # <<dataVars, caddyUp, lock>>)]
      BY <1>1, <2>1 DEF Other
    <3>2. ASSUME NEW h \in Checkers, step[h] # "idle"
          PROVE  booted' /\ trusted' = trusted
      BY <1>1, <2>1, <3>2, TrustStays DEF Other
    <3>3. ASSUME NEW h \in Checkers, step[h] # "idle", ~disturbed'[h]
          PROVE  ~disturbed[h] /\ UNCHANGED <<banState, caddyConfig>>
      BY <3>1, <3>3 DEF dataVars
    <3> QED
      BY <3>1, <3>2, <3>3 DEF Refused, Clients, TakenForBan
  <2> QED
    BY <1>1, <2>1 DEF Other
<1>2. ASSUME NEW h \in Checkers, Check(h) PROVE VouchInv'
  <2>1. UNCHANGED <<banState, caddyConfig, trusted, booted>>
    BY <1>2, CheckKeepsBans DEF dataVars, envVars
  <2>2. ASSUME CheckCaddyState(h), \A e \in seen[h] : Mentioned(e.client_ip), ~disturbed[h]
        PROVE  Refused
    <3>1. seen[h] = banState
      BY <2>2 DEF CheckCaddyState, ReadInv
    <3> QED
      BY <2>2, <3>1, MentionedClientsAreBanned
  <2>3. Refused' = Refused
    BY <2>1 DEF Refused, Clients, TakenForBan
  <2> QED
    BY <1>2, <2>1, <2>2, <2>3 DEF Check, CheckBegin, CheckMarker, CheckLoadBans, CheckCaddyState,
       CheckFirewall, CheckRaises, Set, Answer, Families
<1>3. CASE UNCHANGED <<vars, checkVars>>
  BY <1>3 DEF vars, dataVars, envVars, checkVars, Refused, Clients, TakenForBan
<1> QED
  BY <1>1, <1>2, <1>3 DEF CheckNext

\* The chains together hold exactly a list's direct peers only if each holds its
\* own family's.
LEMMA ChainsSplitByFamily ==
    ASSUME BanInv, chain["v4"] \cup chain["v6"] = Expected(banState)
    PROVE  chain = ChainFor(banState)
<1>1. chain \in [Families -> SUBSET Addr]
  BY DEF BanInv, TypeOK, DataTypeOK
<1>2. \A a : a \in chain["v4"] \cup chain["v6"] <=>
              a \in Desired(banState, "v4") \cup Desired(banState, "v6")
  BY DEF Expected, Desired, FamilyOf
<1>3. /\ \A a \in chain["v4"] : FamilyOf(a) = "v4"
      /\ \A a \in chain["v6"] : FamilyOf(a) = "v6"
  BY DEF BanInv, FamilyInv, Families
<1>4. /\ \A a \in Desired(banState, "v4") : FamilyOf(a) = "v4"
      /\ \A a \in Desired(banState, "v6") : FamilyOf(a) = "v6"
  BY DEF Desired
<1>5. chain["v4"] = Desired(banState, "v4") /\ chain["v6"] = Desired(banState, "v6")
  BY <1>2, <1>3, <1>4
<1> QED
  BY <1>1, <1>5, ChainOfFamilies

\* Read at five different moments and without the lock, the copies a check passes
\* are those in force when nothing moved: exactly the direct bans in the packet
\* filter, and every published client refused by Caddy unless its text stands in
\* a longer address or in the list of proxies (PassMeansEnforced; command_check,
\* _check_caddy_state, _check_firewall).
THEOREM PassesAreEarned == CheckSpec => PassMeansEnforced
<1>1. CheckInit => VouchInv
  BY DEF CheckInit, VouchInv
<1>2. CheckInv /\ VouchInv /\ [CheckNext]_<<vars, checkVars>> => VouchInv'
  BY VouchStep
<1>3. CheckInv /\ VouchInv /\ [CheckNext]_<<vars, checkVars>> =>
          \A h \in Checkers : Ends(h, "pass") /\ ~disturbed[h] =>
              /\ chain = ChainFor(banState)
              /\ \A a \in Clients(banState) : a \in caddyConfig \/ TakenForBan(a)
  <2> SUFFICES ASSUME CheckInv, VouchInv, [CheckNext]_<<vars, checkVars>>, NEW h \in Checkers,
                      verdict[h] = "none", verdict'[h] = "pass", ~disturbed[h]
               PROVE  chain = ChainFor(banState) /\ Refused
    BY DEF Ends, Refused
  <2> USE DEF CheckInv, CheckTypes
  <2>1. CheckFirewall(h)
    <3>1. CASE Other
      BY <3>1 DEF Other
    <3>2. ASSUME NEW g \in Checkers, Check(g) PROVE CheckFirewall(h)
      BY <3>2 DEF Check, CheckBegin, CheckMarker, CheckLoadBans, CheckCaddyState, CheckFirewall,
         CheckRaises, Set, Answer
    <3> QED
      BY <3>1, <3>2 DEF CheckNext, checkVars
  <2>2. step[h] = "v6" /\ ReadChain(h) = Expected(seen[h])
    BY <2>1 DEF CheckFirewall, Families, Set, Answer
  <2>3. seen[h] = banState /\ installed[h] = chain["v4"]
    BY <2>2 DEF ReadInv
  <2>4. chain["v4"] \cup chain["v6"] = Expected(banState)
    BY <2>2, <2>3 DEF ReadChain
  <2> QED
    BY <2>2, <2>4, ChainsSplitByFamily DEF VouchInv
<1> QED
  BY <1>1, <1>2, <1>3, CheckInvariant, PTL DEF CheckSpec, PassMeansEnforced
=============================================================================
