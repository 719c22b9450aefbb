---------------------------- MODULE BanAuthority ----------------------------
(***************************************************************************)
(* What the caddy-ban command promises: the published ban list is an       *)
(* atomic object.  Each ban, unban or reconcile command that succeeds took *)
(* effect exactly once, one that fails with a completed rollback took no   *)
(* effect, and only a command that was killed, or whose rollback itself    *)
(* reported errors, may have taken effect or not.  No command's effect is  *)
(* ever lost or applied on behalf of another.                              *)
(***************************************************************************)
EXTENDS Naturals

CONSTANTS
    Procs,          \* processes that run caddy-ban
    Addr,           \* client addresses
    Peer            \* peer addresses (a client, or the proxy it came through)

Modes == {"direct", "trusted_proxy"}

\* A published ban (caddy_ban.py _validate_entry); packet_drop is mode = "direct".
Entry == [client_ip : Addr, peer_ip : Peer, mode : Modes]

Idle == [cmd |-> "idle"]
Requests == {[cmd |-> "reconcile"]} \cup [cmd : {"ban", "unban"}, ip : Addr]
Results == {"none", "ok", "refused", "failed", "rollback_failed", "killed"}

VARIABLES
    bans,           \* the authoritative ban list
    req,            \* req[p]: the command p is running
    result          \* result[p]: how p's last command ended

vars == <<bans, req, result>>

Without(list, a) == {e \in list : e.client_ip # a}

\* The lists a command may publish when it finds the list "list".
Outcomes(list, r) ==
    CASE r.cmd = "ban"   -> {Without(list, r.ip) \cup {e} :
                                e \in {x \in Entry : x.client_ip = r.ip}}
      [] r.cmd = "unban" -> {Without(list, r.ip)}
      [] OTHER           -> {list}

Init ==
    /\ bans = {}
    /\ req = [p \in Procs |-> Idle]
    /\ result = [p \in Procs |-> "none"]

Start(p) ==
    /\ req[p] = Idle
    /\ \E r \in Requests : req' = [req EXCEPT ![p] = r]
    /\ result' = [result EXCEPT ![p] = "none"]
    /\ UNCHANGED bans

End(p, how) ==
    /\ req[p] # Idle
    /\ req' = [req EXCEPT ![p] = Idle]
    /\ result' = [result EXCEPT ![p] = how]

Succeed(p) ==
    /\ End(p, "ok")
    /\ bans' \in Outcomes(bans, req[p])

Fail(p) ==
    /\ End(p, "failed") \/ End(p, "refused")
    /\ UNCHANGED bans

FailUncertain(p) ==
    /\ End(p, "rollback_failed") \/ End(p, "killed")
    /\ bans' \in {bans} \cup Outcomes(bans, req[p])

\* The container dies with every command it runs; at most one had begun to act.
Restart ==
    /\ bans' \in {bans} \cup
                 UNION {Outcomes(bans, req[p]) : p \in {q \in Procs : req[q] # Idle}}
    /\ req' = [p \in Procs |-> Idle]
    /\ result' = [p \in Procs |-> IF req[p] = Idle THEN result[p] ELSE "killed"]

Next ==
    \/ \E p \in Procs : Start(p) \/ Succeed(p) \/ Fail(p) \/ FailUncertain(p)
    \/ Restart

Spec == Init /\ [][Next]_vars
=============================================================================
