-------------------------------- MODULE GuiTab ------------------------------
(***************************************************************************)
(* Browser tabs on the noVNC page (docker/novnc-session.js) beside the     *)
(* life of the session: each polls /auth/gui-session (auth-session/        *)
(* server.py), its WebSocket is closed with a reason                       *)
(* (session-websockify.py), and it leaves the page when a new session is   *)
(* ready or the login is no longer valid.  A status answer and a close     *)
(* event travel apart: the tab may apply either one late.                  *)
(***************************************************************************)
EXTENDS Naturals

CONSTANTS
    Tabs,           \* tabs of one browser: they share its cookie
    Prompt,         \* between an end and the next start every page has been
                    \* answered and has seen its close event
    MaxGens,        \* bound: generations of the session
    MaxFailures,    \* bound: crashes, outages and failing status requests
    MaxLogins       \* bound: logins

ASSUME BoundAssumption ==
    {MaxGens, MaxFailures, MaxLogins} \subseteq Nat /\ MaxGens > 0 /\ Prompt \in BOOLEAN

VARIABLES
    gen, phase,     \* the state file: generation, "active" or "ended"
    port,           \* electron-cash:6080 serves
    web,            \* Caddy and auth-session answer
    login,          \* the cookie's session: "none", "temporary", "remembered"
    tab,            \* tab[t]: the page it shows and that page's variables
    failures, logins  \* history: how much of the bounds is used

session == <<gen, phase, port, web>>
bounds  == <<failures, logins>>
vars == <<session, login, tab, bounds>>

Answer == [state : {"active", "ended"}, gen : 1 .. MaxGens, ready : BOOLEAN]
          \cup [state : {"idle", "sent", "denied", "error"}]
Idle == [state |-> "idle"]

Tab == [page : {"vnc", "login", "to vnc", "to login", "unreachable"},
        terminal : BOOLEAN,         \* it knows the session ended
        seen : 0 .. MaxGens,        \* `generation', 0 for null
        unavailable : BOOLEAN,      \* a status request has failed
        conn : 0 .. MaxGens,        \* its WebSocket's generation, 0 for none
        close : {"none", "plain", "ended"},     \* close event on its way
        answer : Answer,            \* status request on its way
        polled : BOOLEAN]           \* history: answered since the last end

Page(where) ==
    [page |-> where, terminal |-> FALSE, seen |-> 0, unavailable |-> FALSE,
     conn |-> 0, close |-> "none", answer |-> Idle, polled |-> FALSE]

Serving == phase = "active" /\ port /\ web
Fails == failures < MaxFailures /\ failures' = failures + 1 /\ UNCHANGED logins

---------------------------------------------------------------------------
(* The session's side.                                                     *)

\* send_close() for every open socket; a frame may be lost on its way.
ClosesAll(reason) ==
    \E why \in [Tabs -> {"plain", reason}] :
        tab' = [t \in Tabs |->
            IF tab[t].conn = 0 THEN tab[t]
            ELSE [tab[t] EXCEPT !.conn = 0, !.close = why[t]]]

\* The last window closes and the wrapper publishes the end.
End ==
    /\ phase = "active" /\ port
    /\ phase' = "ended" /\ tab' = [t \in Tabs |-> [tab[t] EXCEPT !.polled = FALSE]]
    /\ UNCHANGED <<gen, port, web, login, bounds>>

\* The display and the proxy stop after the wallet.
PortCloses ==
    /\ phase = "ended" /\ port
    /\ port' = FALSE /\ ClosesAll("ended")
    /\ UNCHANGED <<gen, phase, web, login, bounds>>

\* The supervisors stop Caddy and auth-session after their window.
WebStops ==
    /\ phase = "ended" /\ ~port /\ web
    /\ web' = FALSE
    /\ UNCHANGED <<gen, phase, port, login, tab, bounds>>

\* docker compose up after everything stopped.
Up ==
    /\ phase = "ended" /\ ~port /\ ~web /\ gen < MaxGens
    /\ Prompt => \A t \in Tabs : tab[t].page = "vnc" =>
           tab[t].polled /\ tab[t].close = "none" /\ tab[t].answer = Idle
    /\ gen' = gen + 1 /\ phase' = "active"
    /\ UNCHANGED <<port, web, login, tab, bounds>>

\* The wallet dies without an end; Docker starts a new generation.
Crash ==
    /\ phase = "active" /\ port /\ gen < MaxGens /\ Fails
    /\ port' = FALSE /\ gen' = gen + 1 /\ ClosesAll("plain")
    /\ UNCHANGED <<phase, web, login>>

\* The edge cannot be reached: it is stopped, or the network is.
Outage ==
    /\ web /\ Fails
    /\ web' = FALSE /\ ClosesAll("plain")
    /\ UNCHANGED <<gen, phase, port, login>>

PortOpens ==
    /\ phase = "active" /\ ~port
    /\ port' = TRUE
    /\ UNCHANGED <<gen, phase, web, login, tab, bounds>>

WebStarts ==
    /\ phase = "active" /\ port /\ ~web
    /\ web' = TRUE
    /\ UNCHANGED <<gen, phase, port, login, tab, bounds>>

\* Its deadline, a logout, a visit of the root page in another tab.
LoginEnds ==
    /\ login # "none" /\ login' = "none"
    /\ UNCHANGED <<session, tab, bounds>>

---------------------------------------------------------------------------
(* The tab.                                                                *)

Here(t) == tab[t].page = "vnc"
Becomes(t, new) == tab' = [tab EXCEPT ![t] = new]
Keep == UNCHANGED <<session, login, bounds>>

\* noVNC connects, and again after reconnect_delay, unless told to stop.
Connect(t) ==
    /\ Here(t) /\ ~tab[t].terminal /\ tab[t].conn = 0 /\ tab[t].close = "none"
    /\ web /\ port /\ login # "none"
    /\ Becomes(t, [tab[t] EXCEPT !.conn = gen]) /\ Keep

\* The close listener of window.WebSocket: endSession for the ended reason.
CloseArrives(t) ==
    /\ Here(t) /\ tab[t].close # "none"
    /\ Becomes(t, [tab[t] EXCEPT !.close = "none",
                                 !.terminal = @ \/ tab[t].close = "ended"])
    /\ Keep

\* observe(), up to its fetch; the timer and wake() both lead here.
Observe(t) ==
    /\ Here(t) /\ tab[t].answer = Idle
    /\ Becomes(t, [tab[t] EXCEPT !.answer = [state |-> "sent"]]) /\ Keep

Answers(t, a) ==
    /\ tab[t].answer.state = "sent" /\ Becomes(t, [tab[t] EXCEPT !.answer = a])
    /\ UNCHANGED <<session, login>>

\* do_GET /auth/gui-session.
Reply(t) ==
    /\ web /\ UNCHANGED bounds
    /\ IF login = "none" THEN Answers(t, [state |-> "denied"])
       ELSE Answers(t, [state |-> phase, gen |-> gen, ready |-> phase = "active" /\ port])

\* Anything but 200 and 401, or nothing within three seconds.
NoReply(t) ==
    /\ Answers(t, [state |-> "error"])
    /\ IF web THEN Fails ELSE UNCHANGED bounds

\* The rest of observe(): what the tab does with each answer.
Failed(t) ==
    /\ Here(t) /\ tab[t].answer.state = "error"
    /\ Becomes(t, [tab[t] EXCEPT !.answer = Idle, !.unavailable = TRUE, !.polled = TRUE])
    /\ Keep

Denied(t) ==
    /\ Here(t) /\ tab[t].answer.state = "denied"
    /\ Becomes(t, Page("to login")) /\ Keep

SeesEnd(t) ==
    /\ Here(t) /\ tab[t].answer.state = "ended"
    /\ Becomes(t, [tab[t] EXCEPT !.answer = Idle, !.seen = tab[t].answer.gen,
                                 !.terminal = TRUE, !.conn = 0, !.polled = TRUE])
    /\ Keep

\* Faulty variant: only another generation than the one seen is new.
IsNewSeen(r) == r.seen # 0 /\ r.answer.gen # r.seen

\* Another generation than the one that ended, or one after an outage.
IsNew(r) == IF r.seen # 0 THEN r.answer.gen # r.seen ELSE r.unavailable

SeesActive(t) ==
    /\ Here(t) /\ tab[t].answer.state = "active"
    /\ LET idle == [tab[t] EXCEPT !.answer = Idle] IN
       Becomes(t,
           IF ~tab[t].terminal THEN [idle EXCEPT !.seen = tab[t].answer.gen]
           ELSE IF IsNew(tab[t]) /\ tab[t].answer.ready THEN Page("to vnc") ELSE idle)
    /\ Keep

\* location.replace: forward_auth for the desktop; the root page redirects a
\* remembered session and revokes a temporary one.
Navigate(t) ==
    /\ \/ /\ ~web /\ tab[t].page \in {"to vnc", "to login"}
          /\ Becomes(t, Page("unreachable")) /\ UNCHANGED login
       \/ /\ web /\ tab[t].page = "to vnc"
          /\ Becomes(t, Page(IF login = "none" THEN "login" ELSE "vnc")) /\ UNCHANGED login
       \/ /\ web /\ tab[t].page = "to login"
          /\ Becomes(t, Page(IF login = "remembered" THEN "vnc" ELSE "login"))
          /\ login' = (IF login = "temporary" THEN "none" ELSE login)
    /\ UNCHANGED <<session, bounds>>

\* The user logs in.
LogIn(t) ==
    /\ tab[t].page = "login" /\ web /\ logins < MaxLogins
    /\ logins' = logins + 1 /\ login' \in {"temporary", "remembered"}
    /\ Becomes(t, Page("to vnc"))
    /\ UNCHANGED <<session, failures>>

---------------------------------------------------------------------------
Init ==
    /\ gen = 1 /\ phase = "active" /\ port = TRUE /\ web = TRUE
    /\ login \in {"temporary", "remembered"}
    /\ tab = [t \in Tabs |-> Page("vnc")]
    /\ failures = 0 /\ logins = 0

ServerStep == PortCloses \/ WebStops \/ PortOpens \/ WebStarts
TabStep(t) ==
    \/ Observe(t) \/ Failed(t) \/ Denied(t) \/ SeesEnd(t) \/ SeesActive(t) \/ Navigate(t)

Next ==
    \/ End \/ Up \/ Crash \/ Outage \/ LoginEnds \/ ServerStep
    \/ \E t \in Tabs :
           \/ TabStep(t) \/ Connect(t) \/ CloseArrives(t)
           \/ Reply(t) \/ NoReply(t) \/ LogIn(t)

Spec == Init /\ [][Next]_vars

\* Started containers become ready and ended ones stop; a tab's timers, fetch
\* and events go on.  Nobody has to close, start, crash or log in.
FairSpec ==
    /\ Spec /\ WF_vars(ServerStep)
    /\ \A t \in Tabs : /\ WF_vars(TabStep(t)) /\ WF_vars(Connect(t))
                      /\ WF_vars(CloseArrives(t)) /\ WF_vars(Reply(t) \/ NoReply(t))

---------------------------------------------------------------------------
(* The variables keep their types; a tab that reports the end has no open  *)
(* desktop, and no desktop outlives the port (stopRfb).                    *)
TypeOK ==
    /\ gen \in 1 .. MaxGens /\ phase \in {"active", "ended"} /\ {port, web} \subseteq BOOLEAN
    /\ login \in {"none", "temporary", "remembered"} /\ tab \in [Tabs -> Tab]
    /\ failures \in 0 .. MaxFailures /\ logins \in 0 .. MaxLogins
    /\ \A t \in Tabs : tab[t].conn # 0 => Here(t) /\ ~tab[t].terminal /\ port

(* "Leave the same tab open: it can recover the desktop automatically      *)
(* while its web cookie and server session remain valid, otherwise it      *)
(* returns to login" (docs/USER-GUIDE.md:234-235): once a session serves   *)
(* for good every tab shows it, or the login page, or a page load that an  *)
(* outage cut short.                                                       *)
TabReturns ==
    \A t \in Tabs :
        <>[]Serving => <>[](\/ tab[t].conn = gen
                           \/ (tab[t].page = "login" /\ (login = "none" \/ logins > 0))
                           \/ tab[t].page = "unreachable")

=============================================================================
