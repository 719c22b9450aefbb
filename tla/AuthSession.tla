----------------------------- MODULE AuthSession ----------------------------
(***************************************************************************)
(* The web login (docker/auth-session/server.py): a threaded server keeps  *)
(* the sessions in one SQLite file on a volume of its own.  A server reads *)
(* the credential generation when it starts and carries it from then on;   *)
(* a server with another password starts a new generation.  A request is   *)
(* several transactions, each atomic: what happens between them is here.   *)
(***************************************************************************)
EXTENDS Naturals

CONSTANTS
    Servers,        \* server processes that may share the volume
    Workers,        \* threads of ThreadingHTTPServer
    Passwords,      \* values of BASIC_AUTH_PASSWORD, typed or configured
    Tokens,         \* results of secrets.token_urlsafe, never twice the same
    Ttl,            \* Ttl[remember]: SESSION_TTL and REMEMBER_TTL
    MaxTime,        \* bound: the wall clock
    MaxBack,        \* bound: times it is set back
    MaxStarts,      \* bound: starts of a server
    MaxResets       \* bound: removals of the volume

ASSUME TtlAssumption == Ttl \in [BOOLEAN -> Nat \ {0}]
ASSUME BoundAssumption == {MaxTime, MaxBack, MaxStarts, MaxResets} \subseteq Nat

VARIABLES
    file,           \* the database: "absent", "empty" (no schema) or "ready"
    credential,     \* its credential row: generation and password
    sessions,       \* its session rows, with the password of their login
    server,         \* server[s]: off, creating the database, or serving
    request,        \* request[w]: what worker w has yet to do
    clock,          \* time.time()
    used,           \* history: tokens ever issued
    ended,          \* history: tokens revoked, or dropped with a password
    backs, starts, resets   \* history: how much of the bounds is used

bounds == <<backs, starts, resets>>
vars == <<file, credential, sessions, server, request, clock, used, ended, bounds>>

Credential == [generation : Nat, password : Passwords]
Session == [token : Tokens, expires : Nat, remember : BOOLEAN,
            generation : Nat, password : Passwords]
Off     == [at |-> "off"]
Idle    == [at |-> "idle"]
Server  == {Off} \cup [at : {"creating"}, password : Passwords]
                 \cup [at : {"serving"}, credential : Credential]
Request == {Idle} \cup [at : {"login"}, server : Servers, remember : BOOLEAN,
                        password : Passwords]
                  \cup [at : {"logout", "root"}, server : Servers, token : Tokens]

Serving(s) == server[s].at = "serving"
Live(rows) == {x \in rows : x.expires > clock}
TokensOf(rows) == {x.token : x \in rows}
Becomes(s, what) == server' = [server EXCEPT ![s] = what]
Turns(w, what) == request' = [request EXCEPT ![w] = what]
Starts == starts < MaxStarts /\ starts' = starts + 1 /\ UNCHANGED <<backs, resets>>

\* healthy(): the database still has the generation this server started with.
Healthy(s) ==
    /\ Serving(s) /\ file = "ready"
    /\ server[s].credential.generation = credential.generation

\* state(): the rows the server accepts for the token.
Accepted(s, t) ==
    {x \in Live(sessions) :
        x.token = t /\ x.generation = credential.generation /\ Healthy(s)}

---------------------------------------------------------------------------
(* SessionStore.__init__.                                                  *)

\* No database: it is created, empty, before the first transaction.
CreateFile(s, p) ==
    /\ server[s] = Off /\ file = "absent" /\ Starts
    /\ file' = "empty" /\ Becomes(s, [at |-> "creating", password |-> p])
    /\ UNCHANGED <<credential, sessions, request, clock, used, ended>>

\* The first transaction: schema, generation 1, user_version.
CommitSchema(s) ==
    /\ server[s].at = "creating"
    /\ LET c == [generation |-> 1, password |-> server[s].password] IN
           /\ credential' = c /\ Becomes(s, [at |-> "serving", credential |-> c])
    /\ file' = "ready" /\ sessions' = {}
    /\ UNCHANGED <<request, clock, used, ended, bounds>>

\* A database without schema is refused: the process exits.
Refuse(s) ==
    /\ server[s] = Off /\ file = "empty" /\ Starts
    /\ UNCHANGED <<file, credential, sessions, server, request, clock, used, ended>>

\* Faulty variant: a new password replaces the verifier and nothing else.
RenewVerifierOnly(p) ==
    /\ credential' = [credential EXCEPT !.password = p]
    /\ sessions' = Live(sessions) /\ UNCHANGED ended

\* The credential row for password p and the sessions that remain under it.
Renew(p) ==
    IF p = credential.password
    THEN /\ sessions' = Live(sessions)
         /\ UNCHANGED <<credential, ended>>
    ELSE /\ sessions' = {}
         /\ credential' = [generation |-> credential.generation + 1, password |-> p]
         /\ ended' = ended \cup TokensOf(sessions)

Open(s, p) ==
    /\ server[s] = Off /\ file = "ready" /\ Starts
    /\ Renew(p)
    /\ Becomes(s, [at |-> "serving", credential |-> credential'])
    /\ UNCHANGED <<file, request, clock, used>>

\* The process ends, at any moment, and its workers with it.
Die(s) ==
    /\ server[s] # Off
    /\ Becomes(s, Off)
    /\ request' = [w \in Workers |->
           IF request[w] # Idle /\ request[w].server = s THEN Idle ELSE request[w]]
    /\ UNCHANGED <<file, credential, sessions, clock, used, ended, bounds>>

\* The documented reset: the volume is removed while no container uses it.
Reset ==
    /\ resets < MaxResets /\ file # "absent" /\ \A s \in Servers : server[s] = Off
    /\ resets' = resets + 1
    /\ file' = "absent" /\ sessions' = {} /\ ended' = used
    /\ UNCHANGED <<credential, server, request, clock, used, backs, starts>>

---------------------------------------------------------------------------
(* The handlers.                                                           *)

KeepStore == UNCHANGED <<file, credential, sessions, server, clock, used, ended, bounds>>

\* _login up to its password check: the server's own copy, then healthy().
Authenticate(w, s, p, remember) ==
    /\ request[w] = Idle /\ Healthy(s) /\ p = server[s].credential.password
    /\ Turns(w, [at |-> "login", server |-> s, remember |-> remember, password |-> p])
    /\ KeepStore

NewSession(w, t) ==
    [token |-> t, expires |-> clock + Ttl[request[w].remember],
     remember |-> request[w].remember, password |-> request[w].password,
     generation |-> server[request[w].server].credential.generation]

\* Faulty variant: the password check of authenticate() is trusted.
CreateUnchecked(w, t) ==
    /\ request[w].at = "login" /\ t \notin used
    /\ sessions' = Live(sessions) \cup {NewSession(w, t)}
    /\ used' = used \cup {t} /\ Turns(w, Idle)
    /\ UNCHANGED <<file, credential, server, clock, ended, bounds>>

\* create(): the generation is compared again inside its transaction.
Create(w, t) ==
    /\ request[w].at = "login" /\ Healthy(request[w].server) /\ t \notin used
    /\ sessions' = Live(sessions) \cup {NewSession(w, t)}
    /\ used' = used \cup {t} /\ Turns(w, Idle)
    /\ UNCHANGED <<file, credential, server, clock, ended, bounds>>

\* _logout: whatever token the cookie holds.
Logout(w, s, t) ==
    /\ request[w] = Idle /\ Serving(s) /\ t \in used
    /\ Turns(w, [at |-> "logout", server |-> s, token |-> t])
    /\ KeepStore

\* Faulty variant: the root page ends every session it is shown.
VisitAny(w, s, t) ==
    /\ request[w] = Idle /\ Accepted(s, t) # {}
    /\ Turns(w, [at |-> "root", server |-> s, token |-> t])
    /\ KeepStore

\* The root page: a temporary session it is shown is to be revoked.
Visit(w, s, t) ==
    /\ request[w] = Idle /\ \E x \in Accepted(s, t) : ~x.remember
    /\ Turns(w, [at |-> "root", server |-> s, token |-> t])
    /\ KeepStore

\* Faulty variant: only a server of the row's generation deletes it.
RevokeOwn(w) ==
    /\ request[w].at \in {"logout", "root"}
    /\ sessions' = {x \in sessions : \/ x.token # request[w].token
                                     \/ ~Healthy(request[w].server)}
    /\ ended' = ended \cup {request[w].token} /\ Turns(w, Idle)
    /\ UNCHANGED <<file, credential, server, clock, used, bounds>>

\* revoke(): no look at the generation.
Revoke(w) ==
    /\ request[w].at \in {"logout", "root"}
    /\ sessions' = {x \in sessions : x.token # request[w].token}
    /\ ended' = ended \cup {request[w].token} /\ Turns(w, Idle)
    /\ UNCHANGED <<file, credential, server, clock, used, bounds>>

\* The database is locked or unwritable, or create() refuses: 503.
Unavailable(w) ==
    /\ request[w] # Idle
    /\ Turns(w, Idle)
    /\ KeepStore

---------------------------------------------------------------------------
KeepAll == UNCHANGED <<file, credential, sessions, server, request, used, ended>>

Tick ==
    /\ clock < MaxTime
    /\ clock' = clock + 1 /\ UNCHANGED bounds /\ KeepAll

SetBack ==
    /\ backs < MaxBack /\ clock > 0
    /\ clock' = clock - 1 /\ backs' = backs + 1 /\ UNCHANGED <<starts, resets>> /\ KeepAll

Init ==
    /\ file = "absent" /\ sessions = {}
    /\ credential \in [generation : {0}, password : Passwords]
    /\ server = [s \in Servers |-> Off] /\ request = [w \in Workers |-> Idle]
    /\ clock = 0 /\ used = {} /\ ended = {}
    /\ backs = 0 /\ starts = 0 /\ resets = 0

ServerStep(s) ==
    \/ \E p \in Passwords : CreateFile(s, p) \/ Open(s, p)
    \/ CommitSchema(s) \/ Refuse(s) \/ Die(s)

WorkerStep(w) ==
    \/ \E s \in Servers, p \in Passwords, remember \in BOOLEAN : Authenticate(w, s, p, remember)
    \/ \E t \in Tokens : Create(w, t) \/ \E s \in Servers : Logout(w, s, t) \/ Visit(w, s, t)
    \/ Revoke(w) \/ Unavailable(w)

Next ==
    \/ \E s \in Servers : ServerStep(s)
    \/ \E w \in Workers : WorkerStep(w)
    \/ Reset \/ Tick \/ SetBack

Spec == Init /\ [][Next]_vars

---------------------------------------------------------------------------
(* The variables keep their types; no session outlasts what its kind       *)
(* allows (create).                                                        *)
TypeOK ==
    /\ file \in {"absent", "empty", "ready"}
    /\ credential \in Credential
    /\ sessions \subseteq Session
    /\ \A x \in sessions : x.expires <= MaxTime + Ttl[x.remember]
    /\ server \in [Servers -> Server]
    /\ request \in [Workers -> Request]
    /\ used \subseteq Tokens /\ ended \subseteq used /\ TokensOf(sessions) \subseteq used
    /\ clock \in 0 .. MaxTime /\ {backs, starts, resets} \subseteq Nat

(* "Stale authorities cannot issue tokens" (SECURITY.md:110): every stored *)
(* session was opened with the password the database has now, also when a  *)
(* server with another password started between a login's password check   *)
(* and its transaction (authenticate, create).                             *)
SessionsOfCurrentPassword ==
    \A x \in sessions : x.password = credential.password

(* A logged-out token, one revoked by the root page, and one of an earlier *)
(* password or volume, is accepted by no server again, whatever is         *)
(* restarted, reconfigured or set back afterwards (revoke, __init__).      *)
EndedStaysOut ==
    \A t \in ended, s \in Servers : Accepted(s, t) = {}

(* A server the health check calls healthy has the current password: the   *)
(* generation it compares stands for the password (healthy, __init__).     *)
HealthyIsCurrent ==
    \A s \in Servers : Healthy(s) => server[s].credential.password = credential.password

(* Only its deadline, a logout, a new password or a removed volume ends a  *)
(* remembered session: restarts and the root page do not                   *)
(* (docs/USER-GUIDE.md:797-802; __init__, do_GET, create).                 *)
RememberedSurvives ==
    [][\A x \in sessions \ sessions' :
           \/ ~x.remember \/ x.expires <= clock
           \/ \E w \in Workers : request[w].at = "logout" /\ request[w].token = x.token
           \/ credential'.password # credential.password \/ file' = "absent"]_vars

=============================================================================
