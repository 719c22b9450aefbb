------------------------------ MODULE CaddyBan ------------------------------
(***************************************************************************)
(* docker/fail2ban/caddy_ban.py: the caddy-ban command keeps four copies   *)
(* of the active bans in step: the authoritative state file, the Caddy     *)
(* snippet, Caddy's running configuration and the namespace packet filter. *)
(* Every mutating command runs under an exclusive flock and, when a step   *)
(* fails, rolls the four copies back; a command, the fail2ban container or *)
(* Caddy may die between any two steps.  The identity map that decides     *)
(* whether a client may be packet-dropped is written, without that lock,   *)
(* by docker/fail2ban/caddy-log-adapter.py.                                *)
(***************************************************************************)
EXTENDS Naturals, FiniteSets

CONSTANTS
    Procs,          \* processes that run ban, unban and reconcile
    Addr,           \* IP addresses
    V6,             \* those of Addr that are IPv6
    Gateways,       \* default gateways of the container's namespace
    TrustSets,      \* trusted-proxy lists an operator may configure
    LogLines,       \* <<remote_ip, client_ip>> of the 401 lines Caddy may log
    NoProc,         \* nobody holds .lock
    MaxFaults,      \* bound: failing files, packet-filter and Caddy calls
    MaxKills        \* bound: killed commands, Caddy and container restarts

ASSUME AddressAssumption ==
    /\ V6 \subseteq Addr
    /\ Gateways \subseteq Addr
    /\ TrustSets # {} /\ \A T \in TrustSets : T \subseteq Addr
    /\ LogLines \subseteq Addr \X Addr
ASSUME ProcAssumption == NoProc \notin Procs
ASSUME BoundAssumption == MaxFaults \in Nat /\ MaxKills \in Nat

VARIABLES
    banState,       \* banlist.json (absent, legacy [] and empty all load as {})
    snippet,        \* banlist.caddy: the client addresses it bans
    caddyConfig,    \* client addresses banned by Caddy's running configuration
    caddyUp,        \* Caddy serves, and its admin socket answers
    chain,          \* ECD_FAIL2BAN in the namespace fail2ban runs in: dropped
                    \* peers, one chain per iptables binary
    joined,         \* that namespace is the one Caddy serves in
    failureFile,    \* protection-error.json exists
    identity,       \* client-identity.json
    trusted,        \* trusted-proxies.txt
    lock,           \* the process that holds .lock
    pc,             \* where the holder is in reconcile_locked
    back,           \* the holder is in _rollback
    family,         \* which iptables binary the holder is working with
    cand, old, oldSnippet,  \* the holder's bans, old_bans and old_snippet
    rollbackErrors, \* _rollback has collected an error
    req,            \* req[p]: the command p runs
    result,         \* result[p]: how p's last command ended
    booted,         \* the fail2ban container finished its initial reconcile
    sighted,        \* history: peers a log line showed to be clients themselves,
                    \* no proxy by the list of the time and no gateway
    tainted,        \* history: a kill or a failed rollback since the last success
    faults, kills   \* history: how much of MaxFaults and MaxKills is used

dataVars   == <<banState, snippet, caddyConfig, chain, failureFile>>
holderVars == <<lock, pc, back, family, cand, old, oldSnippet, rollbackErrors>>
procVars   == <<req, result>>
records    == <<identity, sighted>>
envVars    == <<caddyUp, joined, records, trusted, booted>>
ghostVars  == <<tainted, faults, kills>>
vars == <<dataVars, holderVars, procVars, envVars, ghostVars>>

Authority == INSTANCE BanAuthority WITH Peer <- Addr,
                 bans <- IF lock = NoProc THEN banState ELSE old

Families == {"v4", "v6"}
Entry    == [client_ip : Addr, peer_ip : Addr, mode : {"direct", "trusted_proxy"}]
Record   == [peer_ip : Addr, mode : {"direct", "trusted_proxy", "collapsed"}]
NoRecord == [mode |-> "absent"]
Idle     == [cmd |-> "idle"]
Requests == {[cmd |-> "reconcile"]} \cup [cmd : {"ban", "unban"}, ip : Addr]

Clients(bans) == {e.client_ip : e \in bans}
FamilyOf(a)   == IF a \in V6 THEN "v6" ELSE "v4"

\* The peers a ban list asks to packet-drop with one binary (packet_drop is
\* the same fact as mode = "direct": both loaders refuse any other pairing).
PacketDrop(e)    == e.mode = "direct"
Desired(bans, f) == {e.peer_ip : e \in {x \in bans : PacketDrop(x) /\ FamilyOf(x.peer_ip) = f}}

---------------------------------------------------------------------------
(* caddy-log-adapter.py: the identity that one 401 log line establishes. *)

\* Faulty variant: the trusted-proxy policy is not consulted.
ClassifyAnyPeer(remote, client, proxies) ==
    CASE client # remote                      -> [peer_ip |-> remote, mode |-> "trusted_proxy"]
      [] client = remote /\ remote \in Gateways -> [peer_ip |-> remote, mode |-> "collapsed"]
      [] OTHER                                -> [peer_ip |-> remote, mode |-> "direct"]

Classify(remote, client, proxies) ==
    CASE remote \in proxies /\ client = remote    -> NoRecord
      [] remote \notin proxies /\ client # remote -> NoRecord
      [] client # remote                          -> [peer_ip |-> remote, mode |-> "trusted_proxy"]
      [] client = remote /\ remote \in Gateways   -> [peer_ip |-> remote, mode |-> "collapsed"]
      [] OTHER                                    -> [peer_ip |-> remote, mode |-> "direct"]

\* process(): a line with no usable identity publishes nothing and keeps the
\* record an earlier line may have left.
Process(line) ==
    LET rec == Classify(line[1], line[2], trusted)
    IN  /\ rec # NoRecord
        /\ identity' = [identity EXCEPT ![line[2]] = rec]
        /\ sighted' = sighted \cup {a \in {line[1]} : a = line[2] /\ a \notin trusted \cup Gateways}
        /\ UNCHANGED <<dataVars, holderVars, procVars, caddyUp, joined, trusted, booted, ghostVars>>

\* follow(): the lines Caddy has appended, one after the other; after a rotation
\* of the log, or a restart of the adapter, from the first one of the file again.
Follow == \E line \in LogLines : Process(line)

\* _load_identity: the ban entry for an address, if it may be banned at all.
Bannable(a)   == identity[a].mode \in {"direct", "trusted_proxy"}
IdentityOf(a) == [client_ip |-> a, peer_ip |-> identity[a].peer_ip, mode |-> identity[a].mode]

---------------------------------------------------------------------------
(* Commands wait for .lock, and read the state files once they hold it. *)

\* main, with_lock: fail2ban or an operator starts a command; while the
\* container boots its entrypoint starts nothing but the initial reconcile.
Start(p) ==
    /\ req[p] = Idle
    /\ \E r \in Requests :
        /\ \/ booted
           \/ /\ r.cmd = "reconcile" /\ caddyUp
              /\ \A q \in Procs : req[q] = Idle
        /\ req' = [req EXCEPT ![p] = r]
    /\ result' = [result EXCEPT ![p] = "none"]
    /\ UNCHANGED <<dataVars, holderVars, envVars, ghostVars>>

Candidate(r) ==
    CASE r.cmd = "ban"   -> {e \in banState : e.client_ip # r.ip} \cup {IdentityOf(r.ip)}
      [] r.cmd = "unban" -> {e \in banState : e.client_ip # r.ip}
      [] OTHER           -> banState

\* Faulty variant: the command does not wait for .lock.
AcquireUnlocked(p) ==
    /\ req[p] # Idle
    /\ req[p].cmd = "ban" => Bannable(req[p].ip)
    /\ lock' = p
    /\ pc' = "snippet"
    /\ old' = banState
    /\ oldSnippet' = snippet
    /\ cand' = Candidate(req[p])
    /\ UNCHANGED <<dataVars, back, family, rollbackErrors, procVars, envVars, ghostVars>>

\* flock granted: load_bans, _load_identity and the head of reconcile_locked.
Acquire(p) ==
    /\ req[p] # Idle
    /\ lock = NoProc
    /\ req[p].cmd = "ban" => Bannable(req[p].ip)
    /\ lock' = p
    /\ pc' = "snippet"
    /\ old' = banState
    /\ oldSnippet' = snippet
    /\ cand' = Candidate(req[p])
    /\ UNCHANGED <<dataVars, back, family, rollbackErrors, procVars, envVars, ghostVars>>

\* _load_identity calls fail(): nothing has been touched yet.
Refuse(p) ==
    /\ req[p] # Idle
    /\ lock = NoProc
    /\ req[p].cmd = "ban" /\ ~Bannable(req[p].ip)
    /\ req' = [req EXCEPT ![p] = Idle]
    /\ result' = [result EXCEPT ![p] = "refused"]
    /\ UNCHANGED <<dataVars, holderVars, envVars, ghostVars>>

---------------------------------------------------------------------------
(* reconcile_locked, one action per file, packet-filter or Caddy call.  A  *)
(* call that fails raises: going forward that enters _rollback, inside     *)
(* _rollback it is collected and the next restore is tried all the same.   *)

Target == IF back THEN old ELSE cand

Fault == faults < MaxFaults /\ faults' = faults + 1
NoFault == UNCHANGED faults

Goto(label) ==
    /\ pc' = label
    /\ family' = "v4"
    /\ UNCHANGED <<lock, back, cand, old, oldSnippet, rollbackErrors>>

\* Faulty variant: the rollback forgets the state file.
RaiseKeepingState ==
    /\ pc' = "restore_snippet" /\ back' = TRUE
    /\ family' = "v4"
    /\ UNCHANGED <<lock, cand, old, oldSnippet, rollbackErrors>>

Raise ==
    /\ pc' = "restore_state" /\ back' = TRUE
    /\ family' = "v4"
    /\ UNCHANGED <<lock, cand, old, oldSnippet, rollbackErrors>>

Collect(label) ==
    /\ pc' = label /\ rollbackErrors' = TRUE
    /\ family' = "v4"
    /\ UNCHANGED <<lock, back, cand, old, oldSnippet>>

\* Faulty variant: the lock outlives the command.
ReleaseNothing ==
    /\ UNCHANGED lock /\ pc' = "free" /\ back' = FALSE /\ family' = "v4"
    /\ cand' = {} /\ old' = {} /\ oldSnippet' = {} /\ rollbackErrors' = FALSE

\* The command returns or dies and the kernel drops its flock.
Release ==
    /\ lock' = NoProc /\ pc' = "free" /\ back' = FALSE /\ family' = "v4"
    /\ cand' = {} /\ old' = {} /\ oldSnippet' = {} /\ rollbackErrors' = FALSE

Finish(how) ==
    /\ Release
    /\ req' = [req EXCEPT ![lock] = Idle]
    /\ result' = [result EXCEPT ![lock] = how]
    /\ booted' = (booted \/ how = "ok")
    /\ UNCHANGED <<caddyUp, joined, records, trusted, kills>>

Frame == UNCHANGED <<procVars, envVars, tainted, kills>>

\* Faulty variants: nothing is written when the list is as it was; only the new
\* entries are written.
RenderIfChanged == IF cand = old THEN snippet ELSE Clients(cand)
RenderNew == Clients(cand \ old)

\* render_snippet(bans): the client addresses the snippet makes Caddy refuse.
Render == Clients(cand)

WriteSnippet ==
    /\ pc = "snippet"
    /\ \/ NoFault /\ Goto("flush") /\ snippet' = Render
       \/ Fault /\ Raise /\ UNCHANGED snippet
    /\ UNCHANGED <<banState, caddyConfig, chain, failureFile>> /\ Frame

FirewallFails ==
    /\ Fault
    /\ IF back THEN Collect("load") ELSE Raise
    /\ UNCHANGED chain

\* One binary after the other; rules are (re)inserted one command at a time.
FirewallRuns(rules) ==
    /\ NoFault
    /\ chain' = [chain EXCEPT ![family] = rules]
    /\ IF Desired(Target, family) \subseteq rules
       THEN IF family = "v4" THEN pc' = "flush" /\ family' = "v6"
                             ELSE pc' = "load" /\ family' = "v4"
       ELSE pc' = "insert" /\ UNCHANGED family
    /\ UNCHANGED <<lock, back, cand, old, oldSnippet, rollbackErrors>>

\* _ensure_firewall_chain and -F; an absent chain is an empty one here.
FlushChain ==
    /\ pc = "flush"
    /\ FirewallRuns({}) \/ FirewallFails
    /\ UNCHANGED <<banState, snippet, caddyConfig, failureFile>> /\ Frame

InsertRule ==
    /\ pc = "insert"
    /\ \/ \E a \in Desired(Target, family) \ chain[family] :
              FirewallRuns(chain[family] \cup {a})
       \/ FirewallFails
    /\ UNCHANGED <<banState, snippet, caddyConfig, failureFile>> /\ Frame

\* /adapt then /load: Caddy reads the snippet through the Caddyfile's import.
\* A call that times out may have been carried out all the same.
LoadCaddyfile ==
    /\ pc = "load"
    /\ \/ /\ caddyUp /\ NoFault
          /\ caddyConfig' = snippet
          /\ Goto(IF back THEN "mark" ELSE "publish")
       \/ /\ IF caddyUp THEN Fault /\ caddyConfig' \in {caddyConfig, snippet}
                        ELSE NoFault /\ UNCHANGED caddyConfig
          /\ IF back THEN Collect("mark") ELSE Raise
    /\ UNCHANGED <<banState, snippet, chain, failureFile>> /\ Frame

Publish ==
    /\ pc = "publish"
    /\ \/ NoFault /\ Goto("verify") /\ banState' = cand
       \/ Fault /\ Raise /\ UNCHANGED banState
    /\ UNCHANGED <<snippet, caddyConfig, chain, failureFile>> /\ Frame

\* _check_firewall(bans)
Installed == UNION {chain[f] : f \in Families}
Expected(bans) == {e.peer_ip : e \in {x \in bans : PacketDrop(x)}}

VerifyFirewall ==
    /\ pc = "verify"
    /\ \/ NoFault /\ Installed = Expected(cand) /\ Goto("clear")
       \/ NoFault /\ Installed # Expected(cand) /\ Raise
       \/ Fault /\ Raise
    /\ UNCHANGED dataVars /\ Frame

ClearFailure ==
    /\ pc = "clear"
    /\ \/ NoFault /\ Finish("ok") /\ failureFile' = FALSE /\ tainted' = FALSE
       \/ Fault /\ Raise /\ UNCHANGED <<failureFile, tainted>> /\ UNCHANGED <<procVars, envVars, kills>>
    /\ UNCHANGED <<banState, snippet, caddyConfig, chain>>

RestoreState ==
    /\ pc = "restore_state"
    /\ \/ NoFault /\ Goto("restore_snippet") /\ banState' = old
       \/ Fault /\ Collect("restore_snippet") /\ UNCHANGED banState
    /\ UNCHANGED <<snippet, caddyConfig, chain, failureFile>> /\ Frame

\* Faulty variant: only a snippet that was missing is put right.
RestoreNoSnippet ==
    /\ pc = "restore_snippet"
    /\ NoFault /\ Goto("flush") /\ UNCHANGED dataVars /\ Frame

RestoreSnippet ==
    /\ pc = "restore_snippet"
    /\ \/ NoFault /\ Goto("flush") /\ snippet' = oldSnippet
       \/ Fault /\ Collect("flush") /\ UNCHANGED snippet
    /\ UNCHANGED <<banState, caddyConfig, chain, failureFile>> /\ Frame

\* Faulty variant: a failure whose rollback failed too leaves no marker.
MarkOnlyClean ==
    /\ pc = "mark"
    /\ NoFault /\ failureFile' = (failureFile \/ ~rollbackErrors)
    /\ Finish(IF rollbackErrors THEN "rollback_failed" ELSE "failed")
    /\ tainted' = (tainted \/ rollbackErrors)
    /\ UNCHANGED <<banState, snippet, caddyConfig, chain>>

\* _mark_failure only logs when the marker itself cannot be written.
MarkFailure ==
    /\ pc = "mark"
    /\ \/ NoFault /\ failureFile' = TRUE
       \/ Fault /\ UNCHANGED failureFile
    /\ Finish(IF rollbackErrors THEN "rollback_failed" ELSE "failed")
    /\ tainted' = (tainted \/ rollbackErrors)
    /\ UNCHANGED <<banState, snippet, caddyConfig, chain>>

---------------------------------------------------------------------------
(* What may die between any two of those steps. *)

CanKill == kills < MaxKills /\ kills' = kills + 1

\* The holder has changed something it has not finished changing.
MidChange == lock # NoProc /\ (pc # "snippet" \/ back)

\* fail2ban's action timeout, or a signal: no except clause runs.
Kill(p) ==
    /\ CanKill
    /\ req[p] # Idle
    /\ req' = [req EXCEPT ![p] = Idle]
    /\ result' = [result EXCEPT ![p] = "killed"]
    /\ IF lock = p THEN Release /\ tainted' = (tainted \/ MidChange)
                   ELSE UNCHANGED <<holderVars, tainted>>
    /\ UNCHANGED <<dataVars, envVars, faults>>

KillAll ==
    /\ CanKill
    /\ Release
    /\ req' = [p \in Procs |-> Idle]
    /\ result' = [p \in Procs |-> IF req[p] = Idle THEN result[p] ELSE "killed"]
    /\ booted' = FALSE

\* The fail2ban container restarts and joins the namespace Caddy has now; if
\* that is not the one it left, there are no rules in it.
Fail2banRestart ==
    /\ KillAll
    /\ joined' = TRUE
    /\ chain' = IF joined THEN chain ELSE [f \in Families |-> {}]
    /\ tainted' = (tainted \/ MidChange \/ ~joined)
    /\ UNCHANGED <<banState, snippet, caddyConfig, failureFile, caddyUp, records, trusted, faults>>

\* Both containers are restarted or recreated, perhaps with another trusted-proxy
\* setting (caddy-entrypoint.sh writes trusted-proxies.txt from its environment);
\* a new namespace has no packet filter.
StackRestart ==
    /\ KillAll
    /\ tainted' = TRUE
    /\ caddyUp' = FALSE /\ caddyConfig' = {}
    /\ chain' = [f \in Families |-> {}] /\ joined' = TRUE
    /\ trusted' \in TrustSets
    /\ UNCHANGED <<banState, snippet, failureFile, records, faults>>

\* Docker restarts Caddy's container with a namespace of its own; fail2ban's
\* commands go on in the old one, whose rules stay as they were.
CaddyCrash ==
    /\ CanKill
    /\ caddyUp
    /\ caddyUp' = FALSE /\ caddyConfig' = {} /\ joined' = FALSE
    /\ UNCHANGED <<banState, snippet, chain, failureFile, holderVars, procVars,
                   records, trusted, booted, tainted, faults>>

\* Caddy loads the Caddyfile caddy-entrypoint.sh wrote and the snippet it imports.
CaddyStart ==
    /\ ~caddyUp
    /\ caddyUp' = TRUE
    /\ caddyConfig' = snippet
    /\ UNCHANGED <<banState, snippet, chain, failureFile, holderVars, procVars,
                   joined, records, trusted, booted, ghostVars>>

---------------------------------------------------------------------------
Init ==
    /\ banState = {} /\ snippet = {} /\ caddyConfig = {} /\ failureFile = FALSE
    /\ chain = [f \in Families |-> {}]
    /\ caddyUp = TRUE /\ joined = TRUE /\ sighted = {}
    /\ identity = [a \in Addr |-> NoRecord]
    /\ trusted \in TrustSets
    /\ lock = NoProc /\ pc = "free" /\ back = FALSE /\ family = "v4"
    /\ cand = {} /\ old = {} /\ oldSnippet = {} /\ rollbackErrors = FALSE
    /\ req = [p \in Procs |-> Idle]
    /\ result = [p \in Procs |-> "none"]
    /\ booted = FALSE
    /\ tainted = FALSE /\ faults = 0 /\ kills = 0

Reconcile ==
    \/ WriteSnippet \/ FlushChain \/ InsertRule \/ LoadCaddyfile \/ Publish
    \/ VerifyFirewall \/ ClearFailure \/ RestoreState \/ RestoreSnippet \/ MarkFailure

Next ==
    \/ Follow
    \/ \E p \in Procs : Start(p) \/ Acquire(p) \/ Refuse(p) \/ Kill(p)
    \/ Reconcile
    \/ Fail2banRestart \/ StackRestart \/ CaddyCrash \/ CaddyStart

Spec == Init /\ [][Next]_vars

\* The steps of a command are taken while it lives; a waiting flock is granted;
\* Docker restarts Caddy; the entrypoint starts its reconcile once Caddy is up.
Fairness ==
    /\ WF_vars(Reconcile)
    /\ \A p \in Procs : SF_vars(Acquire(p) \/ Refuse(p))
    /\ WF_vars(CaddyStart)
    /\ WF_vars(~booted /\ \E p \in Procs : Start(p))

FairSpec == Spec /\ Fairness

---------------------------------------------------------------------------
(* Properties.                                                             *)

DataTypeOK ==
    /\ banState \subseteq Entry
    /\ snippet \subseteq Addr /\ caddyConfig \subseteq Addr
    /\ chain \in [Families -> SUBSET Addr]
    /\ failureFile \in BOOLEAN

EnvTypeOK ==
    /\ caddyUp \in BOOLEAN /\ joined \in BOOLEAN /\ booted \in BOOLEAN
    /\ sighted \subseteq Addr
    /\ identity \in [Addr -> Record \cup {NoRecord}]
    /\ trusted \in TrustSets

HolderTypeOK ==
    /\ lock \in Procs \cup {NoProc}
    /\ pc \in {"free", "snippet", "flush", "insert", "load", "publish", "verify",
               "clear", "restore_state", "restore_snippet", "mark"}
    /\ back \in BOOLEAN /\ rollbackErrors \in BOOLEAN
    /\ family \in Families
    /\ cand \subseteq Entry /\ old \subseteq Entry /\ oldSnippet \subseteq Addr

ProcTypeOK ==
    /\ req \in [Procs -> Requests \cup {Idle}]
    /\ result \in [Procs -> {"none", "ok", "refused", "failed", "rollback_failed", "killed"}]

GhostTypeOK ==
    /\ tainted \in BOOLEAN
    /\ faults \in 0..MaxFaults /\ kills \in 0..MaxKills

\* Type invariant of every variable.
TypeOK == DataTypeOK /\ EnvTypeOK /\ HolderTypeOK /\ ProcTypeOK /\ GhostTypeOK

ChainFor(bans) == [f \in Families |-> Desired(bans, f)]

\* The snippet, the packet filter and a running Caddy all enforce "bans".
Enforced(bans) ==
    /\ snippet = Clients(bans)
    /\ chain = ChainFor(bans)
    /\ caddyUp => caddyConfig = Clients(bans)

\* Whenever no command holds the lock and none has been killed, or failed to
\* roll back, since the last success, all four copies of the ban list agree:
\* commands that failed and rolled back, Caddy crashes and lost answers of the
\* admin socket included (reconcile_locked, _rollback).
QuietAgreement == lock = NoProc /\ ~tainted => Enforced(banState)

\* A client whose ban no running command is changing stays banned in Caddy at
\* every instant of every reconcile, while the packet chain is flushed and
\* rebuilt and while a failed command is rolled back.
NoEnforcementGap ==
    ~tainted /\ caddyUp =>
        \A a \in Addr :
            /\ a \in Clients(banState)
            /\ lock # NoProc => a \in Clients(old) /\ a \in Clients(cand)
            => a \in caddyConfig

\* A peer is packet-dropped only if it was itself seen as a client while the
\* proxy list of the time did not name it: no visitor behind a proxy, whatever
\* is banned, rolled back or reconciled later, and under whatever changes of the
\* list, makes a packet DROP of a proxy it came through or of the gateway
\* (_load_identity, _reconcile_firewall; caddy-log-adapter.py, process).
OnlySightedPeersDropped ==
    \A f \in Families : chain[f] \subseteq {a \in sighted : FamilyOf(a) = f}

\* "a proxy visitor can be blocked in Caddy without ever turning a shared proxy
\* peer into a packet DROP" (caddy_ban.py:4-6).
SharedPeerNeverDropped ==
    \A f \in Families : chain[f] \cap (trusted \cup Gateways) = {}

\* A command that reports a failure without rollback errors has put back all
\* four copies as it found them, whatever step failed and even if Caddy carried
\* out the load it did not acknowledge (_rollback).
RolledBack ==
    pc = "mark" /\ ~rollbackErrors =>
        /\ banState = old
        /\ snippet = oldSnippet
        /\ chain = ChainFor(old)
        /\ caddyUp => caddyConfig = oldSnippet

\* Without kills it takes three failing calls (a step, its rollback, and the
\* marker itself) to leave the copies disagreeing with no failure marker for
\* the health check to see (_mark_failure, _clear_failure).
DisagreementIsMarked ==
    lock = NoProc /\ kills = 0 /\ faults <= 2 => Enforced(banState) \/ failureFile

\* Bans, unbans and reconciles are atomic and none is lost, duplicated or
\* half-published, under concurrent commands, failures, rollbacks and kills.
LinearizableBans == Authority!Spec

\* Every command ends: no flock is left behind by a command that failed or was
\* killed, and a rollback terminates whatever it meets.
CommandsEnd == \A p \in Procs : req[p] # Idle ~> req[p] = Idle

\* After any restart the entrypoint's reconcile brings the container back to a
\* state in which all four copies agree, whatever the killed commands left.
BootRepairs == ~booted ~> (lock = NoProc /\ ~tainted /\ Enforced(banState))
=============================================================================
