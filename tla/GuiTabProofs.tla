---------------------------- MODULE GuiTabProofs ----------------------------
(***************************************************************************)
(* The types of GuiTab, for any tabs and bounds: among them that a tab     *)
(* that reports the end of the session has no open desktop, and that no    *)
(* desktop outlives the port it came through.                              *)
(***************************************************************************)
EXTENDS GuiTab, TLAPS

\* What TypeOK asks of each tab, and that a close event on its way is of the
\* socket that was: noVNC opens the next one only after it.
TabOK(r) ==
    /\ r \in Tab
    /\ r.conn # 0 => r.page = "vnc" /\ ~r.terminal /\ r.close = "none"

TabInv == TypeOK /\ \A t \in Tabs : tab[t].close # "none" => tab[t].conn = 0

\* Both give the types of the bounds and of one tab.
LEMMA TabTypes ==
  ASSUME TabInv, NEW t \in Tabs
  PROVE  /\ TabOK(tab[t]) /\ (tab[t].conn # 0 => port)
         /\ gen \in 1 .. MaxGens /\ phase \in {"active", "ended"} /\ port \in BOOLEAN
         /\ login \in {"none", "temporary", "remembered"}
  BY DEF TabInv, TypeOK, TabOK, Here

LEMMA BoundsAreNatural == MaxGens \in Nat /\ MaxFailures \in Nat /\ MaxLogins \in Nat
  BY BoundAssumption

LEMMA OneMoreLogin == \A n \in 0 .. MaxLogins : n < MaxLogins => n + 1 \in 0 .. MaxLogins
  <1>1. MaxLogins \in Nat
    BY BoundsAreNatural
  <1> QED
    BY <1>1

\* A generation is a value of seen and conn, and so is none.
LEMMA Generations == 0 \in 0 .. MaxGens /\ \A g \in 1 .. MaxGens : g \in 0 .. MaxGens /\ g # 0
  BY BoundsAreNatural

LEMMA IdleAnswer == Idle \in Answer /\ 0 \in 0 .. MaxGens
  BY Generations DEF Idle, Answer

\* A freshly loaded page is a tab's state.
LEMMA PageIsTab ==
  ASSUME NEW where \in {"vnc", "login", "to vnc", "to login", "unreachable"}
  PROVE  TabOK(Page(where)) /\ Page(where).conn = 0
  BY IdleAnswer DEF Page, Tab, TabOK

\* Replacing one tab by a well-typed one without a desktop, or with one while
\* the port is open, keeps the invariant.
LEMMA OneTab ==
  ASSUME TabInv, NEW t \in Tabs, NEW new, TabOK(new), new.conn # 0 => port,
         Becomes(t, new), UNCHANGED session,
         login' \in {"none", "temporary", "remembered"},
         failures' \in 0 .. MaxFailures, logins' \in 0 .. MaxLogins
  PROVE  TabInv'
  <1>1. tab' \in [Tabs -> Tab]
    BY DEF TabInv, TypeOK, Becomes, TabOK
  <1>2. \A u \in Tabs : tab'[u] = IF u = t THEN new ELSE tab[u]
    BY DEF TabInv, TypeOK, Becomes
  <1>3. \A u \in Tabs : TabOK(tab'[u]) /\ (tab'[u].conn # 0 => port)
    BY <1>2, TabTypes
  <1> QED
    BY <1>1, <1>3 DEF TabInv, TypeOK, TabOK, Here, session

\* Closing every socket leaves no desktop open.
LEMMA AllClosed ==
  ASSUME TabInv, NEW reason \in {"plain", "ended"}, ClosesAll(reason)
  PROVE  tab' \in [Tabs -> Tab] /\ \A t \in Tabs : tab'[t].conn = 0
  <1>1. PICK why \in [Tabs -> {"plain", reason}] :
           tab' = [t \in Tabs |-> IF tab[t].conn = 0 THEN tab[t]
                                  ELSE [tab[t] EXCEPT !.conn = 0, !.close = why[t]]]
    BY DEF ClosesAll
  <1>2. ASSUME NEW t \in Tabs PROVE tab'[t] \in Tab /\ tab'[t].conn = 0
    <2>1. tab[t] \in Tab /\ why[t] \in {"plain", "ended"}
      BY DEF TabInv, TypeOK
    <2>2. [tab[t] EXCEPT !.conn = 0, !.close = why[t]] \in Tab
      BY <2>1, IdleAnswer DEF Tab
    <2> QED
      BY <1>1, <2>1, <2>2 DEF Tab
  <1> QED
    BY <1>1, <1>2

\* The session's steps.
LEMMA SessionInv ==
  ASSUME TabInv, End \/ Up \/ Crash \/ Outage \/ LoginEnds \/ ServerStep
  PROVE  TabInv'
  <1>1. CASE End
    <2>1. \A t \in Tabs : tab'[t] = [tab[t] EXCEPT !.polled = FALSE]
      BY <1>1 DEF End
    <2>2. ASSUME NEW t \in Tabs
          PROVE  /\ tab'[t] \in Tab /\ tab'[t].conn = tab[t].conn /\ tab'[t].close = tab[t].close
                 /\ tab'[t].page = tab[t].page /\ tab'[t].terminal = tab[t].terminal
      BY <2>1 DEF TabInv, TypeOK, Tab
    <2>3. tab' \in [Tabs -> Tab]
      BY <1>1, <2>2 DEF End
    <2> QED
      BY <1>1, <2>2, <2>3 DEF End, TabInv, TypeOK, Here, bounds
  <1>2. CASE PortCloses
    <2>1. tab' \in [Tabs -> Tab] /\ \A t \in Tabs : tab'[t].conn = 0
      BY <1>2, AllClosed DEF PortCloses
    <2> QED
      BY <1>2, <2>1 DEF PortCloses, TabInv, TypeOK, Here, bounds
  <1>3. CASE Up
    <2>1. gen' \in 1 .. MaxGens
      BY <1>3, BoundAssumption DEF Up, TabInv, TypeOK
    <2> QED
      BY <1>3, <2>1 DEF Up, TabInv, TypeOK, Here, bounds
  <1>4. CASE Crash \/ Outage
    <2>1. tab' \in [Tabs -> Tab] /\ \A t \in Tabs : tab'[t].conn = 0
      BY <1>4, AllClosed DEF Crash, Outage
    <2>2. gen' \in 1 .. MaxGens /\ failures' \in 0 .. MaxFailures
      BY <1>4, BoundAssumption DEF Crash, Outage, Fails, TabInv, TypeOK
    <2> QED
      BY <1>4, <2>1, <2>2 DEF Crash, Outage, Fails, TabInv, TypeOK, Here
  <1>5. CASE LoginEnds \/ WebStops \/ PortOpens \/ WebStarts
    <2>1. /\ UNCHANGED <<gen, phase, tab, bounds>> /\ login' \in {login, "none"}
          /\ (port => port') /\ port' \in BOOLEAN /\ web' \in BOOLEAN
      <3>1. port \in BOOLEAN /\ web \in BOOLEAN
        BY DEF TabInv, TypeOK
      <3>2. CASE LoginEnds
        BY <3>1, <3>2 DEF LoginEnds, session
      <3>3. CASE WebStops \/ PortOpens \/ WebStarts
        <4>1. UNCHANGED <<gen, phase, tab, bounds, login>>
          BY <3>3 DEF WebStops, PortOpens, WebStarts
        <4>2. (port => port') /\ port' \in BOOLEAN /\ web' \in BOOLEAN
          BY <3>1, <3>3 DEF WebStops, PortOpens, WebStarts
        <4> QED
          BY <4>1, <4>2
      <3> QED
        BY <1>5, <3>2, <3>3
    <2> QED
      <3>1. \A t \in Tabs : tab[t].conn # 0 => Here(t)' /\ ~tab'[t].terminal /\ port'
        BY <2>1 DEF TabInv, TypeOK, Here
      <3>2. failures' \in 0 .. MaxFailures /\ logins' \in 0 .. MaxLogins
        BY <2>1 DEF TabInv, TypeOK, bounds
      <3> QED
        BY <2>1, <3>1, <3>2 DEF TabInv, TypeOK
  <1> QED
    BY <1>1, <1>2, <1>3, <1>4, <1>5 DEF ServerStep

\* The tab's steps.
LEMMA TabStepInv ==
  ASSUME TabInv, NEW t \in Tabs,
         TabStep(t) \/ Connect(t) \/ CloseArrives(t) \/ Reply(t) \/ NoReply(t) \/ LogIn(t)
  PROVE  TabInv'
  <1>1. /\ TabOK(tab[t]) /\ (tab[t].conn # 0 => port)
        /\ gen \in 1 .. MaxGens /\ phase \in {"active", "ended"} /\ port \in BOOLEAN
        /\ login \in {"none", "temporary", "remembered"}
        /\ failures \in 0 .. MaxFailures /\ logins \in 0 .. MaxLogins
    BY TabTypes DEF TabInv, TypeOK
  <1>2. CASE Connect(t)
    <2>1. TabOK([tab[t] EXCEPT !.conn = gen])
      BY <1>1, <1>2, Generations DEF Connect, Here, Tab, TabOK
    <2> QED
      BY <1>1, <1>2, <2>1, OneTab DEF Connect, Keep, bounds
  <1>3. CASE CloseArrives(t)
    <2> DEFINE new == [tab[t] EXCEPT !.close = "none",
                                     !.terminal = tab[t].terminal \/ tab[t].close = "ended"]
    <2>1. tab[t].conn = 0 /\ Becomes(t, new)
      BY <1>1, <1>3 DEF CloseArrives, TabOK, Becomes
    <2>2. new \in Tab /\ new.conn = 0
      BY <1>1, <2>1 DEF Tab, TabOK
    <2>3. TabOK(new)
      BY <2>2 DEF TabOK
    <2> QED
      BY <1>1, <1>3, <2>1, <2>2, <2>3, OneTab DEF CloseArrives, Keep, bounds
  <1>4. CASE Observe(t)
    <2>1. TabOK([tab[t] EXCEPT !.answer = [state |-> "sent"]])
      BY <1>1 DEF Tab, TabOK, Answer
    <2> QED
      BY <1>1, <1>4, <2>1, OneTab DEF Observe, Keep, bounds, Tab, TabOK
  <1>5. CASE Reply(t) \/ NoReply(t)
    <2>1. PICK a \in Answer : Answers(t, a)
      BY <1>1, <1>5 DEF Reply, NoReply, Answer
    <2>2. TabOK([tab[t] EXCEPT !.answer = a])
      BY <1>1 DEF Tab, TabOK
    <2>3. failures' \in 0 .. MaxFailures /\ logins' \in 0 .. MaxLogins
      BY <1>1, <1>5, BoundAssumption DEF Reply, NoReply, Fails, bounds
    <2> QED
      BY <1>1, <2>1, <2>2, <2>3, OneTab DEF Answers, Tab, TabOK
  <1>6. CASE Failed(t)
    <2>1. TabOK([tab[t] EXCEPT !.answer = Idle, !.unavailable = TRUE, !.polled = TRUE])
      BY <1>1, IdleAnswer DEF Tab, TabOK
    <2> QED
      BY <1>1, <1>6, <2>1, OneTab DEF Failed, Keep, bounds, Tab, TabOK
  <1>7. CASE SeesEnd(t)
    <2> DEFINE new == [tab[t] EXCEPT !.answer = Idle, !.seen = tab[t].answer.gen,
                                     !.terminal = TRUE, !.conn = 0, !.polled = TRUE]
    <2>1. tab[t].answer.gen \in 1 .. MaxGens
      BY <1>1, <1>7 DEF SeesEnd, Tab, TabOK, Answer
    <2>2. TabOK(new) /\ new.conn = 0
      BY <1>1, <2>1, IdleAnswer, Generations DEF Tab, TabOK
    <2> QED
      BY <1>1, <1>7, <2>2, OneTab DEF SeesEnd, Keep, bounds
  <1>8. CASE SeesActive(t)
    <2> DEFINE idle == [tab[t] EXCEPT !.answer = Idle]
               seen == [idle EXCEPT !.seen = tab[t].answer.gen]
    <2>1. tab[t].answer.gen \in 1 .. MaxGens
      BY <1>1, <1>8 DEF SeesActive, Tab, TabOK, Answer
    <2>2. TabOK(idle) /\ idle.conn = tab[t].conn
      BY <1>1, IdleAnswer DEF Tab, TabOK
    <2>3. TabOK(seen) /\ seen.conn = tab[t].conn
      BY <2>1, <2>2, Generations DEF Tab, TabOK
    <2>4. PICK new : Becomes(t, new) /\ new \in {idle, seen, Page("to vnc")}
      BY <1>8 DEF SeesActive
    <2> QED
      BY <1>1, <1>8, <2>2, <2>3, <2>4, PageIsTab, OneTab DEF SeesActive, Keep, bounds
  <1>9. CASE Denied(t) \/ Navigate(t) \/ LogIn(t)
    <2>1. PICK where \in {"vnc", "login", "to vnc", "to login", "unreachable"} :
             Becomes(t, Page(where))
      BY <1>9 DEF Denied, Navigate, LogIn
    <2>2. failures' \in 0 .. MaxFailures /\ logins' \in 0 .. MaxLogins
      <3>1. CASE LogIn(t)
        <4>1. failures' = failures /\ logins' = logins + 1 /\ logins < MaxLogins
          BY <3>1 DEF LogIn
        <4>2. logins \in 0 .. MaxLogins /\ failures \in 0 .. MaxFailures
          BY DEF TabInv, TypeOK
        <4>3. logins + 1 \in 0 .. MaxLogins
          BY <4>1, <4>2, OneMoreLogin
        <4> QED
          BY <4>1, <4>2, <4>3
      <3>2. CASE Denied(t) \/ Navigate(t)
        BY <1>1, <3>2 DEF Denied, Navigate, Keep, bounds
      <3> QED
        BY <1>9, <3>1, <3>2
    <2>3. UNCHANGED session /\ login' \in {"none", "temporary", "remembered"}
      BY <1>1, <1>9 DEF Denied, Navigate, LogIn, Keep
    <2> QED
      BY <2>1, <2>2, <2>3, PageIsTab, OneTab
  <1> QED
    BY <1>2, <1>3, <1>4, <1>5, <1>6, <1>7, <1>8, <1>9 DEF TabStep

\* Type correctness: a tab that reports the end shows no desktop, and no desktop
\* outlives its port (stopRfb, the close listener).
THEOREM TypeCorrect == Spec => []TypeOK
  <1>1. Init => TabInv
    <2>1. Init => TabOK(Page("vnc")) /\ Page("vnc").conn = 0 /\ Page("vnc").close = "none"
      BY PageIsTab DEF Page
    <2> QED
      BY <2>1, BoundAssumption DEF Init, TabInv, TypeOK, TabOK, Here
  <1>2. TabInv /\ [Next]_vars => TabInv'
    <2>1. TabInv /\ UNCHANGED vars => TabInv'
      BY DEF TabInv, TypeOK, Here, vars, session, bounds
    <2> QED
      BY <2>1, SessionInv, TabStepInv DEF Next
  <1>3. TabInv => TypeOK
    BY DEF TabInv
  <1> QED
    BY <1>1, <1>2, <1>3, PTL DEF Spec
=============================================================================
