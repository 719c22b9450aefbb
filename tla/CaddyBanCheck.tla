--------------------------- MODULE CaddyBanCheck ----------------------------
(***************************************************************************)
(* caddy-ban check: the fail2ban container's healthcheck (and fail2ban's   *)
(* actioncheck).  It takes no lock: it reads the failure marker, the state *)
(* file, Caddy's configuration and the two packet-filter chains one after  *)
(* the other while ban, unban and reconcile commands run.                  *)
(***************************************************************************)
EXTENDS CaddyBan

CONSTANTS
    Checkers,       \* processes that run check
    Within          \* <<a, b>>: the text of a occurs inside the text of b

ASSUME CheckAssumption ==
    /\ Within \subseteq Addr \X Addr
    /\ \A a \in Addr : <<a, a>> \in Within

VARIABLES
    step,           \* step[h]: what the check reads next
    seen,           \* seen[h]: the bans it loaded
    installed,      \* installed[h]: the dropped peers it has read so far
    verdict,        \* verdict[h]: how its last run ended
    disturbed       \* history: something changed, or a call failed, under it

checkVars == <<step, seen, installed, verdict, disturbed>>

CheckInit ==
    /\ Init
    /\ step = [h \in Checkers |-> "idle"]
    /\ seen = [h \in Checkers |-> {}]
    /\ installed = [h \in Checkers |-> {}]
    /\ verdict = [h \in Checkers |-> "none"]
    /\ disturbed = [h \in Checkers |-> FALSE]

Set(f, h, v) == f' = [f EXCEPT ![h] = v]

\* The health check first asks fail2ban for its jail, which only a booted
\* container has.
CheckBegin(h) ==
    /\ step[h] = "idle" /\ booted
    /\ Set(step, h, "marker") /\ Set(verdict, h, "none")
    /\ Set(disturbed, h, lock # NoProc)
    /\ UNCHANGED <<vars, seen, installed>>

Answer(h, v) ==
    /\ Set(step, h, "idle") /\ Set(verdict, h, v)
    /\ Set(seen, h, {}) /\ Set(installed, h, {})

\* command_check: a failure marker fails it before anything else is read.
CheckMarker(h) ==
    /\ step[h] = "marker"
    /\ IF failureFile THEN Answer(h, "fail")
                      ELSE Set(step, h, "state") /\ UNCHANGED <<seen, installed, verdict>>
    /\ UNCHANGED <<vars, disturbed>>

CheckLoadBans(h) ==
    /\ step[h] = "state"
    /\ Set(step, h, "caddy") /\ Set(seen, h, banState)
    /\ UNCHANGED <<vars, installed, verdict, disturbed>>

\* Faulty variant: a configuration is as good as any other.
MentionedAny(a) == caddyUp

\* _check_caddy_state looks for the text of each address anywhere in the
\* configuration, which also lists the trusted proxies.
Mentioned(a) == \E b \in caddyConfig \cup trusted : <<a, b>> \in Within

CheckCaddyState(h) ==
    /\ step[h] = "caddy"
    /\ IF caddyUp /\ \A e \in seen[h] : Mentioned(e.client_ip)
       THEN Set(step, h, "v4") /\ UNCHANGED <<seen, installed, verdict>>
       ELSE Answer(h, "fail")
    /\ UNCHANGED <<vars, disturbed>>

\* Faulty variant: the second chain's addresses replace the first's.
ReadChainLast(h) == chain[step[h]]

\* installed.update(_installed_addresses(binary))
ReadChain(h) == installed[h] \cup chain[step[h]]

\* _check_firewall reads one chain after the other, then compares.
CheckFirewall(h) ==
    /\ step[h] \in Families
    /\ LET found == ReadChain(h) IN
       IF step[h] = "v4"
       THEN Set(step, h, "v6") /\ Set(installed, h, found) /\ UNCHANGED <<seen, verdict>>
       ELSE Answer(h, IF found = Expected(seen[h]) THEN "pass" ELSE "fail")
    /\ UNCHANGED <<vars, disturbed>>

\* An unreadable file, a packet-filter command or the admin call fails.
CheckRaises(h) ==
    /\ step[h] \in {"state", "caddy", "v4", "v6"}
    /\ Fault
    /\ Answer(h, "fail") /\ Set(disturbed, h, TRUE)
    /\ UNCHANGED <<dataVars, holderVars, procVars, envVars, tainted, kills>>

Check(h) ==
    \/ CheckBegin(h) \/ CheckMarker(h) \/ CheckLoadBans(h)
    \/ CheckCaddyState(h) \/ CheckFirewall(h) \/ CheckRaises(h)

\* Any other step; one that touches what checks read disturbs those running,
\* and a container restart ends them.
Other ==
    /\ Next
    /\ IF booted' \/ ~booted
       THEN /\ disturbed' = [h \in Checkers |->
                   disturbed[h] \/ (step[h] # "idle" /\ <<dataVars, caddyUp, lock>>' # <<dataVars, caddyUp, lock>>)]
            /\ UNCHANGED <<step, seen, installed, verdict>>
       ELSE /\ step' = [h \in Checkers |-> "idle"]
            /\ seen' = [h \in Checkers |-> {}]
            /\ installed' = [h \in Checkers |-> {}]
            /\ verdict' = [h \in Checkers |-> "none"]
            /\ disturbed' = [h \in Checkers |-> FALSE]

CheckNext == Other \/ \E h \in Checkers : Check(h)

CheckSpec == CheckInit /\ [][CheckNext]_<<vars, checkVars>>

---------------------------------------------------------------------------
(* Properties.                                                             *)

Ends(h, v) == verdict[h] = "none" /\ verdict'[h] = v

\* The healthcheck raises no alarm by itself: it fails only on a failure marker,
\* a Caddy that is down, copies left apart by a kill or a failed rollback, a
\* call of its own that failed, or a command that ran while it was reading.
AlarmHasCause ==
    [][\A h \in Checkers :
        Ends(h, "fail") => failureFile \/ ~caddyUp \/ tainted \/ disturbed'[h]]_<<vars, checkVars>>

\* What else in Caddy's configuration contains the text of a: a longer address,
\* or the list of trusted proxies.
TakenForBan(a) ==
    a \in trusted \/ \E b \in (caddyConfig \cup trusted) \ {a} : <<a, b>> \in Within

\* A check that passes, having read the four copies at five different moments,
\* still vouches for the present if nothing moved: fail2ban's packet filter
\* holds exactly the published direct bans, and Caddy refuses every published
\* client except, perhaps, one whose text it finds in another place ("Caddy
\* configuration is missing ban identity", caddy_ban.py:392).
PassMeansEnforced ==
    [][\A h \in Checkers :
        Ends(h, "pass") /\ ~disturbed[h] =>
            /\ chain = ChainFor(banState)
            /\ \A a \in Clients(banState) : a \in caddyConfig \/ TakenForBan(a)]_<<vars, checkVars>>
=============================================================================
