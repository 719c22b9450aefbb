-------------------------- MODULE AuthSessionProofs -------------------------
(***************************************************************************)
(* Theorems about AuthSession for every number of servers, workers, tokens *)
(* and passwords, any lifetimes and any bounds.  The argument rests on one *)
(* observation: a generation stands for a password.  A server that still   *)
(* has the database's generation therefore has its password, and only such *)
(* a server stores a session.                                              *)
(***************************************************************************)
EXTENDS AuthSession, TLAPS

(* What the file says about the servers: while it is being created there   *)
(* is one server, while it is absent none, and a request belongs to a      *)
(* server that serves.                                                     *)
FileAgrees ==
    /\ file = "absent" => \A s \in Servers : server[s] = Off
    /\ file # "ready" => sessions = {} /\ \A s \in Servers : ~Serving(s)
    /\ \A s \in Servers : server[s].at = "creating" =>
           file = "empty" /\ \A o \in Servers \ {s} : server[o] = Off
    /\ \A w \in Workers : request[w] # Idle => Serving(request[w].server)

(* A generation stands for a password.                                     *)
GenerationsAgree ==
    \A s \in Servers : Serving(s) =>
        /\ server[s].credential.generation <= credential.generation
        /\ Healthy(s) => server[s].credential.password = credential.password

(* A login in flight carries the password of its server.                   *)
LoginsAgree ==
    \A w \in Workers : request[w].at = "login" =>
        request[w].password = server[request[w].server].credential.password

(* A token is stored once and not after it ended; the root page is about   *)
(* to revoke only temporary sessions.                                      *)
TokensAgree ==
    /\ \A x, y \in sessions : x.token = y.token => x = y
    /\ \A x \in sessions : x.token \notin ended
    /\ \A w \in Workers : request[w].at = "root" =>
           \A x \in sessions : x.token = request[w].token => ~x.remember
    /\ \A w \in Workers : request[w].at \in {"root", "logout"} => request[w].token \in used

IInv ==
    /\ TypeOK /\ FileAgrees /\ GenerationsAgree /\ LoginsAgree
    /\ SessionsOfCurrentPassword /\ TokensAgree

USE DEF Off, Idle

LEMMA InitIInv == Init => IInv
  <1> SUFFICES ASSUME Init PROVE IInv
      OBVIOUS
  <1>1. TypeOK
      BY BoundAssumption DEF Init, TypeOK, Credential, Server, Request, TokensOf
  <1>2. FileAgrees /\ GenerationsAgree /\ LoginsAgree
      BY DEF Init, FileAgrees, GenerationsAgree, LoginsAgree, Serving
  <1>3. SessionsOfCurrentPassword /\ TokensAgree
      BY DEF Init, SessionsOfCurrentPassword, TokensAgree
  <1> QED BY <1>1, <1>2, <1>3 DEF IInv

(* The actions that only move a request.                                   *)
LEMMA KeepStorePreserves ==
    ASSUME IInv, NEW w \in Workers, KeepStore,
           NEW r \in Request, Turns(w, r),
           r # Idle => Serving(r.server),
           r.at = "login" => r.password = server[r.server].credential.password,
           r.at = "root" => \A x \in sessions : x.token = r.token => ~x.remember,
           r.at \in {"root", "logout"} => r.token \in used
    PROVE  IInv'
  <1>1. request' = [request EXCEPT ![w] = r] /\ request \in [Workers -> Request]
      BY DEF Turns, IInv, TypeOK
  <1>2. TypeOK'
      BY <1>1 DEF IInv, TypeOK, KeepStore, bounds, TokensOf
  <1>3. FileAgrees' /\ GenerationsAgree' /\ LoginsAgree'
      BY <1>1 DEF IInv, FileAgrees, GenerationsAgree, LoginsAgree, KeepStore, Serving, Healthy
  <1>4. SessionsOfCurrentPassword' /\ TokensAgree'
      BY <1>1 DEF IInv, SessionsOfCurrentPassword, TokensAgree, KeepStore
  <1> QED BY <1>2, <1>3, <1>4 DEF IInv

LEMMA WorkerPreserves ==
    ASSUME IInv, NEW w \in Workers, WorkerStep(w) PROVE IInv'
  <1> USE DEF IInv
  <1>1. ASSUME NEW s \in Servers, NEW p \in Passwords, NEW remember \in BOOLEAN,
               Authenticate(w, s, p, remember)
        PROVE  IInv'
      <2> DEFINE r == [at |-> "login", server |-> s, remember |-> remember, password |-> p]
      <2>1. r \in Request /\ Serving(r.server)
          BY <1>1 DEF Request, Authenticate, Healthy
      <2> QED BY <1>1, <2>1, KeepStorePreserves DEF Authenticate
  <1>2. ASSUME NEW t \in Tokens, Create(w, t) PROVE IInv'
      <2> DEFINE o == request[w].server
                 n == NewSession(w, t)
      <2>1. /\ request[w] \in Request /\ request[w].at = "login"
            /\ o \in Servers /\ request[w].remember \in BOOLEAN /\ request[w].password \in Passwords
          BY <1>2 DEF Create, TypeOK, Request
      <2>2. Serving(o) /\ server[o] \in Server /\ server[o].credential \in Credential
          BY <2>1, <1>2 DEF Create, Healthy, Serving, TypeOK, Server
      <2>3. n \in Session /\ n.token = t /\ n.password = credential.password
            /\ n.expires <= MaxTime + Ttl[n.remember]
          BY <2>1, <2>2, <1>2, TtlAssumption, BoundAssumption
             DEF Create, NewSession, Session, Credential, TypeOK, LoginsAgree, GenerationsAgree
      <2>4. /\ sessions' \subseteq sessions \cup {n} /\ used' = used \cup {t} /\ t \notin used
            /\ request' = [request EXCEPT ![w] = Idle]
            /\ UNCHANGED <<file, credential, server, clock, ended, bounds>>
          BY <1>2 DEF Create, Live, Turns
      <2>5. TypeOK'
          BY <2>3, <2>4 DEF TypeOK, TokensOf, Request, bounds
      <2>6. FileAgrees' /\ GenerationsAgree' /\ LoginsAgree'
          BY <2>1, <2>2, <2>4 DEF FileAgrees, GenerationsAgree, LoginsAgree, Serving, Healthy, TypeOK
      <2>7. SessionsOfCurrentPassword'
          BY <2>3, <2>4 DEF SessionsOfCurrentPassword
      <2>8. TokensAgree'
          <3>1. \A x \in sessions : x.token \in used
              BY DEF TypeOK, TokensOf
          <3>2. t \notin ended
              BY <2>4 DEF TypeOK
          <3> QED BY <2>3, <2>4, <3>1, <3>2 DEF TokensAgree, TypeOK
      <2> QED BY <2>5, <2>6, <2>7, <2>8
  <1>3. ASSUME NEW s \in Servers, NEW t \in Tokens, Logout(w, s, t) PROVE IInv'
      <2> DEFINE r == [at |-> "logout", server |-> s, token |-> t]
      <2>1. r \in Request
          BY DEF Request
      <2> QED BY <1>3, <2>1, KeepStorePreserves DEF Logout
  <1>4. ASSUME NEW s \in Servers, NEW t \in Tokens, Visit(w, s, t) PROVE IInv'
      <2> DEFINE r == [at |-> "root", server |-> s, token |-> t]
      <2>1. r \in Request
          BY DEF Request
      <2>2. PICK x \in sessions : x.token = t /\ Healthy(s) /\ ~x.remember
          BY <1>4 DEF Visit, Accepted, Live
      <2>3. Serving(s) /\ t \in used /\ \A y \in sessions : y.token = t => ~y.remember
          BY <2>2 DEF Healthy, TokensAgree, TypeOK, TokensOf
      <2> QED BY <1>4, <2>1, <2>3, KeepStorePreserves DEF Visit
  <1>5. CASE Revoke(w)
      <2>1. request[w].token \in used
          BY <1>5 DEF Revoke, TokensAgree
      <2>2. /\ sessions' \subseteq sessions /\ \A x \in sessions' : x.token # request[w].token
            /\ ended' = ended \cup {request[w].token}
            /\ request' = [request EXCEPT ![w] = Idle]
            /\ UNCHANGED <<file, credential, server, clock, used, bounds>>
          BY <1>5 DEF Revoke, Turns
      <2>3. TypeOK'
          BY <2>1, <2>2 DEF TypeOK, TokensOf, Request, bounds
      <2>4. FileAgrees' /\ GenerationsAgree' /\ LoginsAgree'
          BY <2>2 DEF FileAgrees, GenerationsAgree, LoginsAgree, Serving, Healthy, TypeOK
      <2>5. SessionsOfCurrentPassword' /\ TokensAgree'
          BY <2>2 DEF SessionsOfCurrentPassword, TokensAgree, TypeOK
      <2> QED BY <2>3, <2>4, <2>5
  <1>6. CASE Unavailable(w)
      BY <1>6, KeepStorePreserves DEF Unavailable, Request
  <1> QED BY <1>1, <1>2, <1>3, <1>4, <1>5, <1>6 DEF WorkerStep

LEMMA ServerPreserves ==
    ASSUME IInv, NEW s \in Servers, ServerStep(s) PROVE IInv'
  <1> USE DEF IInv
  <1>0. \A x \in sessions : x.token \in used
      BY DEF TypeOK, TokensOf
  <1>1. ASSUME NEW p \in Passwords, CreateFile(s, p) PROVE IInv'
      <2>1. TypeOK'
          BY <1>1 DEF CreateFile, Becomes, Starts, TypeOK, Server, TokensOf
      <2>2. FileAgrees' /\ GenerationsAgree' /\ LoginsAgree'
          BY <1>1 DEF CreateFile, Becomes, FileAgrees, GenerationsAgree, LoginsAgree,
                      Serving, Healthy, TypeOK
      <2>3. SessionsOfCurrentPassword' /\ TokensAgree'
          BY <1>1 DEF CreateFile, SessionsOfCurrentPassword, TokensAgree
      <2> QED BY <2>1, <2>2, <2>3
  <1>2. CASE CommitSchema(s)
      <2> DEFINE c == [generation |-> 1, password |-> server[s].password]
      <2>1. c \in Credential /\ server[s].at = "creating"
          BY <1>2 DEF CommitSchema, TypeOK, Server, Credential
      <2>2. /\ file = "empty" /\ file' = "ready" /\ credential' = c /\ sessions' = {}
            /\ server' = [server EXCEPT ![s] = [at |-> "serving", credential |-> c]]
            /\ UNCHANGED <<request, clock, used, ended, bounds>>
          BY <1>2 DEF CommitSchema, Becomes, FileAgrees
      <2>3. TypeOK'
          BY <2>1, <2>2 DEF TypeOK, Server, TokensOf, bounds
      <2>4. FileAgrees' /\ LoginsAgree'
          BY <2>1, <2>2 DEF FileAgrees, LoginsAgree, Serving, TypeOK
      <2>5. GenerationsAgree'
          BY <2>1, <2>2 DEF GenerationsAgree, FileAgrees, Serving, Healthy, TypeOK
      <2>6. SessionsOfCurrentPassword' /\ TokensAgree'
          BY <2>2 DEF SessionsOfCurrentPassword, TokensAgree
      <2> QED BY <2>3, <2>4, <2>5, <2>6
  <1>3. CASE Refuse(s)
      BY <1>3 DEF Refuse, Starts, TypeOK, FileAgrees, GenerationsAgree, LoginsAgree,
                  SessionsOfCurrentPassword, TokensAgree, TokensOf, Serving, Healthy
  <1>4. ASSUME NEW p \in Passwords, Open(s, p) PROVE IInv'
      <2>1. /\ server[s] = Off /\ file = "ready" /\ UNCHANGED <<file, request, clock, used>>
            /\ server' = [server EXCEPT ![s] = [at |-> "serving", credential |-> credential']]
          BY <1>4 DEF Open, Becomes
      <2>2. /\ credential' \in Credential
            /\ \/ credential' = credential /\ sessions' \subseteq sessions /\ ended' = ended
               \/ /\ credential'.generation = credential.generation + 1 /\ sessions' = {}
                  /\ ended' = ended \cup TokensOf(sessions)
          BY <1>4 DEF Open, Renew, Live, Credential, TypeOK
      <2>3. TypeOK'
          BY <1>4, <2>1, <2>2 DEF Open, Starts, TypeOK, Server, TokensOf
      <2>4. FileAgrees' /\ LoginsAgree'
          BY <2>1 DEF FileAgrees, LoginsAgree, Serving, TypeOK
      <2>5. GenerationsAgree'
          BY <2>1, <2>2 DEF GenerationsAgree, Serving, Healthy, TypeOK, Server, Credential
      <2>6. SessionsOfCurrentPassword' /\ TokensAgree'
          BY <2>1, <2>2 DEF SessionsOfCurrentPassword, TokensAgree
      <2> QED BY <2>3, <2>4, <2>5, <2>6
  <1>5. CASE Die(s)
      <2>1. /\ server' = [server EXCEPT ![s] = Off]
            /\ \A w \in Workers : \/ request'[w] = Idle
                                  \/ request'[w] = request[w] /\ request[w].server # s
            /\ UNCHANGED <<file, credential, sessions, clock, used, ended, bounds>>
          BY <1>5 DEF Die, Becomes
      <2>2. TypeOK'
          BY <1>5, <2>1 DEF Die, TypeOK, Server, Request, TokensOf, bounds
      <2>3. FileAgrees' /\ GenerationsAgree'
          BY <2>1 DEF FileAgrees, GenerationsAgree, Serving, Healthy, TypeOK
      <2>4. LoginsAgree'
          BY <2>1 DEF LoginsAgree, TypeOK
      <2>5. SessionsOfCurrentPassword' /\ TokensAgree'
          BY <2>1 DEF SessionsOfCurrentPassword, TokensAgree
      <2> QED BY <2>2, <2>3, <2>4, <2>5
  <1> QED BY <1>1, <1>2, <1>3, <1>4, <1>5 DEF ServerStep

LEMMA RestPreserves ==
    ASSUME IInv, Reset \/ Tick \/ SetBack \/ UNCHANGED vars PROVE IInv'
  <1> USE DEF IInv
  <1>1. CASE Reset
      <2>1. TypeOK'
          BY <1>1 DEF Reset, TypeOK, TokensOf
      <2>2. FileAgrees' /\ GenerationsAgree' /\ LoginsAgree'
          BY <1>1 DEF Reset, FileAgrees, GenerationsAgree, LoginsAgree, Serving
      <2>3. SessionsOfCurrentPassword' /\ TokensAgree'
          BY <1>1 DEF Reset, SessionsOfCurrentPassword, TokensAgree
      <2> QED BY <2>1, <2>2, <2>3
  <1>2. CASE Tick \/ SetBack \/ UNCHANGED vars
      <2>1. KeepAll /\ clock' \in 0 .. MaxTime /\ {backs', starts', resets'} \subseteq Nat
          BY <1>2, BoundAssumption DEF Tick, SetBack, vars, bounds, KeepAll, TypeOK
      <2>2. TypeOK'
          BY <2>1 DEF KeepAll, TypeOK, TokensOf
      <2>3. FileAgrees' /\ GenerationsAgree' /\ LoginsAgree'
          BY <2>1 DEF KeepAll, FileAgrees, GenerationsAgree, LoginsAgree, Serving, Healthy
      <2>4. SessionsOfCurrentPassword' /\ TokensAgree'
          BY <2>1 DEF KeepAll, SessionsOfCurrentPassword, TokensAgree
      <2> QED BY <2>2, <2>3, <2>4
  <1> QED BY <1>1, <1>2

LEMMA StepIInv == IInv /\ [Next]_vars => IInv'
  BY WorkerPreserves, ServerPreserves, RestPreserves DEF Next

LEMMA Invariance == Spec => []IInv
  BY InitIInv, StepIInv, PTL DEF Spec

(* The types and the lifetimes hold always (server.py:81-202).             *)
THEOREM TypeCorrect == Spec => []TypeOK
  <1>1. IInv => TypeOK
      BY DEF IInv
  <1> QED BY <1>1, Invariance, PTL

(* No session of another password is ever stored, for any interleaving of  *)
(* logins and starts of any number of servers (authenticate, create).      *)
THEOREM StaleCannotIssue == Spec => []SessionsOfCurrentPassword
  <1>1. IInv => SessionsOfCurrentPassword
      BY DEF IInv
  <1> QED BY <1>1, Invariance, PTL

(* What was revoked or dropped is accepted by no server ever after, for    *)
(* any moves of the clock and any restarts (revoke, state, __init__).      *)
THEOREM EndedStaysOutHolds == Spec => []EndedStaysOut
  <1>1. IInv => EndedStaysOut
      BY DEF IInv, TokensAgree, EndedStaysOut, Accepted, Live
  <1> QED BY <1>1, Invariance, PTL

(* The health check's generation stands for the password (healthy).        *)
THEOREM HealthyIsCurrentHolds == Spec => []HealthyIsCurrent
  <1>1. IInv => HealthyIsCurrent
      BY DEF IInv, GenerationsAgree, HealthyIsCurrent, Healthy
  <1> QED BY <1>1, Invariance, PTL

(* A step that drops a remembered session is its deadline, a logout that   *)
(* names it, a new password or a removed volume (__init__, do_GET, create, *)
(* revoke).                                                                *)
Excused(x) ==
    \/ ~x.remember \/ x.expires <= clock
    \/ \E w \in Workers : request[w].at = "logout" /\ request[w].token = x.token
    \/ credential'.password # credential.password \/ file' = "absent"

LEMMA DropsAreExcused ==
    ASSUME IInv, [Next]_vars, NEW x \in sessions, x \notin sessions' PROVE Excused(x)
  <1> USE DEF IInv, Excused
  <1>1. x \in Session /\ clock \in Nat
      BY BoundAssumption DEF TypeOK
  <1>2. ASSUME NEW s \in Servers, ServerStep(s) PROVE Excused(x)
      <2>1. ASSUME NEW p \in Passwords, Open(s, p) PROVE Excused(x)
          <3>1. CASE p = credential.password
              BY <2>1, <3>1, <1>1 DEF Open, Renew, Live, Session
          <3>2. CASE p # credential.password
              BY <2>1, <3>2 DEF Open, Renew
          <3> QED BY <3>1, <3>2
      <2>2. CASE CommitSchema(s)
          BY <2>2 DEF CommitSchema, FileAgrees
      <2> QED BY <1>2, <2>1, <2>2 DEF ServerStep, CreateFile, Refuse, Die
  <1>3. ASSUME NEW w \in Workers, WorkerStep(w) PROVE Excused(x)
      <2>1. ASSUME NEW t \in Tokens, Create(w, t) PROVE Excused(x)
          BY <2>1, <1>1 DEF Create, Live, Session
      <2>2. CASE Revoke(w)
          BY <2>2 DEF Revoke, TokensAgree
      <2> QED BY <1>3, <2>1, <2>2
             DEF WorkerStep, Authenticate, Logout, Visit, Unavailable, KeepStore
  <1>4. CASE Reset
      BY <1>4 DEF Reset
  <1> QED BY <1>2, <1>3, <1>4 DEF Next, Tick, SetBack, KeepAll, vars

(* Remembered sessions last (docs/USER-GUIDE.md:797-802).                  *)
THEOREM RememberedSurvivesHolds == Spec => RememberedSurvives
  <1>1. IInv /\ [Next]_vars =>
            [\A x \in sessions \ sessions' : Excused(x)]_vars
      BY DropsAreExcused
  <1> QED BY <1>1, Invariance, PTL DEF Spec, RememberedSurvives, Excused

=============================================================================
