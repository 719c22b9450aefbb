----------------------------- MODULE GuiSession -----------------------------
(***************************************************************************)
(* The life of the browser project: one state file in a shared volume says *)
(* whether the GUI session is active or has ended on purpose.  The wallet  *)
(* container publishes it (docker/gui_session.py, electroncash-wrapper.py, *)
(* entrypoint.sh); the supervisor of every other service polls it and      *)
(* stops its own service (docker/gui-session.sh); Docker restarts whatever *)
(* exits with an error, and docker compose up and stop (docker-compose.yml *)
(* gives their order) are the user's only other means.                     *)
(***************************************************************************)
EXTENDS Naturals

CONSTANTS
    Services,       \* the supervised services
    Wallet,         \* the electron-cash container
    Needs,          \* Needs[s]: services that s depends_on
    NeedsHealthy,   \* those of them with condition: service_healthy
    NeedsWallet,    \* services that depend on a healthy Wallet
    Notify,         \* services with an ECD_GUI_NOTIFY_GRACE
    RestartLimit,   \* restart: on-failure:<limit>
    MaxUps,         \* bound: docker compose up
    MaxStops,       \* bound: docker compose stop
    MaxFailures     \* bound: processes that fail

Containers == Services \cup {Wallet}

ASSUME ServiceAssumption ==
    /\ Wallet \notin Services /\ Notify \subseteq Services /\ NeedsWallet \subseteq Services
    /\ Needs \in [Services -> SUBSET Services]
    /\ \A s \in Services : NeedsHealthy[s] \subseteq Needs[s]
ASSUME BoundAssumption ==
    {RestartLimit, MaxUps, MaxStops, MaxFailures} \subseteq Nat

VARIABLES
    phase,          \* the state file: "none", "active" or "ended"
    wallet,         \* the wallet container
    status,         \* how the wallet process left: "clean" or "crashed"
    healthy,        \* Docker's health status of the wallet container
    service,        \* service[s]: its container and what its supervisor does
    retries,        \* retries[c]: restarts since c was last started by hand
    todo,           \* services a running docker compose up has yet to visit
    listed,         \* services that ran when it began
    halt,           \* containers a running docker compose stop has yet to stop
    asked,          \* history: docker compose up was run since the last end
    missed,         \* history: services the last docker compose up took for running
                    \* although they were ending, or gave up on
    ups, stops, failures  \* history: how much of the bounds is used

compose == <<todo, listed, halt>>
bounds  == <<ups, stops, failures>>
told    == <<asked, missed>>
vars == <<phase, wallet, status, healthy, service, retries, compose, told, bounds>>

\* "down" exited with 0 or was stopped, "dead" used up its restarts.
Off == {"down", "dead"}
AllDown == wallet \in Off /\ \A s \in Services : service[s] \in Off

Fails == failures < MaxFailures /\ failures' = failures + 1 /\ UNCHANGED <<ups, stops>>

---------------------------------------------------------------------------
(* The wallet container: entrypoint.sh, electroncash-wrapper.py.           *)

KeepServices == UNCHANGED <<service, retries, compose>>

\* gui_session.initialize(), long before anything is served.
Initialize ==
    /\ wallet = "boot"
    /\ wallet' = "starting" /\ phase' = "active"
    /\ UNCHANGED <<status, healthy, told, bounds>> /\ KeepServices

\* Any step of the script before its wait fails; bash exits there.
BootFails ==
    /\ wallet \in {"boot", "starting"} /\ Fails
    /\ wallet' = "failed"
    /\ UNCHANGED <<phase, status, healthy, told>> /\ KeepServices

\* start_novnc: the display, the proxy and the wrapper run.
Serve ==
    /\ wallet = "starting"
    /\ wallet' = "serving"
    /\ UNCHANGED <<phase, status, healthy, told, bounds>> /\ KeepServices

\* healthcheck.py: the wrapper's process and the two ports are there.
Probe ==
    /\ wallet \in {"serving", "closing"} /\ ~healthy
    /\ healthy' = TRUE
    /\ UNCHANGED <<phase, wallet, status, told, bounds>> /\ KeepServices

\* The last window or assistant is closed and nobody asked for a shutdown:
\* session_end, or main() when Qt's event loop never ran.
PublishEnd ==
    /\ wallet = "serving"
    /\ wallet' = "closing" /\ phase' = "ended" /\ asked' = FALSE
    /\ UNCHANGED <<status, healthy, missed, bounds>> /\ KeepServices

\* The process is gone, perhaps only after Qt crashed in its teardown.
WalletExits ==
    /\ wallet = "closing"
    /\ wallet' = "left"
    /\ \/ status' = "clean" /\ UNCHANGED bounds
       \/ status' = "crashed" /\ Fails
    /\ UNCHANGED <<phase, healthy, told>> /\ KeepServices

\* It dies with no end published, or while publishing it fails.
Crash ==
    /\ wallet = "serving" /\ Fails
    /\ wallet' = "left" /\ status' = "crashed"
    /\ UNCHANGED <<phase, healthy, told>> /\ KeepServices

\* Faulty variant: the script exits with the wallet's own status.
ExitsAsWallet ==
    /\ wallet = "left"
    /\ wallet' = (IF status = "clean" THEN "down" ELSE "failed")
    /\ healthy' = FALSE
    /\ UNCHANGED <<phase, status, told, bounds>> /\ KeepServices

\* A published end makes any exit status a success.
EntrypointExits ==
    /\ wallet = "left"
    /\ wallet' = (IF phase = "ended" \/ status = "clean" THEN "down" ELSE "failed")
    /\ healthy' = FALSE
    /\ UNCHANGED <<phase, status, told, bounds>> /\ KeepServices

MayRestart(c) == retries[c] < RestartLimit

WalletRestarts ==
    /\ wallet = "failed"
    /\ IF MayRestart(Wallet)
       THEN wallet' = "boot" /\ retries' = [retries EXCEPT ![Wallet] = @ + 1]
       ELSE wallet' = "dead" /\ UNCHANGED retries
    /\ UNCHANGED <<phase, status, healthy, service, compose, told, bounds>>

WalletStep ==
    \/ Initialize \/ Serve \/ Probe \/ WalletExits \/ EntrypointExits \/ WalletRestarts

---------------------------------------------------------------------------
(* The supervisors: gui-session.sh around each service's own command.      *)

Becomes(s, what) ==
    /\ service' = [service EXCEPT ![s] = what]
    /\ UNCHANGED <<phase, wallet, status, healthy, compose, asked>>

\* Faulty variant: only the services with a notification window look.
ObserveNotified(s) ==
    /\ service[s] = "up" /\ phase = "ended" /\ s \in Notify
    /\ Becomes(s, "grace")
    /\ missed' = IF asked THEN missed \cup {s} ELSE missed
    /\ UNCHANGED <<retries, bounds>>

\* From now on ended=true: the file is not read again, also when docker compose
\* up has found the service running and the wallet is about to overwrite it.
Observe(s) ==
    /\ service[s] = "up" /\ phase = "ended"
    /\ Becomes(s, IF s \in Notify THEN "grace" ELSE "stopping")
    /\ missed' = IF asked THEN missed \cup {s} ELSE missed
    /\ UNCHANGED <<retries, bounds>>

GraceEnds(s) ==
    /\ service[s] = "grace"
    /\ Becomes(s, "stopping")
    /\ UNCHANGED <<retries, missed, bounds>>

\* The service obeys TERM, or KILL eight seconds later; the supervisor exits 0.
Stops(s) ==
    /\ service[s] = "stopping"
    /\ Becomes(s, "down")
    /\ UNCHANGED <<retries, missed, bounds>>

\* A service that dies by itself passes its status on unless the end was seen.
ServiceFails(s) ==
    /\ service[s] \in {"up", "grace"} /\ Fails
    /\ Becomes(s, IF service[s] = "up" THEN "failed" ELSE "down")
    /\ UNCHANGED <<retries, missed>>

ServiceRestarts(s) ==
    /\ service[s] = "failed"
    /\ IF MayRestart(s)
       THEN Becomes(s, "up") /\ retries' = [retries EXCEPT ![s] = @ + 1]
       ELSE Becomes(s, "dead") /\ UNCHANGED retries
    /\ UNCHANGED <<missed, bounds>>

ServiceStep(s) == Observe(s) \/ GraceEnds(s) \/ Stops(s) \/ ServiceRestarts(s)

---------------------------------------------------------------------------
(* docker compose up -d and docker compose stop.                           *)

\* up lists the running containers once, then goes through the services in
\* dependency order; a container that is only waiting to restart is running.
Up ==
    /\ todo = {} /\ halt = {}
    /\ ups < MaxUps /\ ups' = ups + 1
    /\ todo' = Services
    /\ listed' = {s \in Services : service[s] \notin Off}
    /\ IF wallet \in Off
       THEN wallet' = "boot" /\ retries' = [retries EXCEPT ![Wallet] = 0]
       ELSE UNCHANGED <<wallet, retries>>
    /\ asked' = TRUE
    /\ missed' = {s \in Services : service[s] \in {"grace", "stopping"}}
    /\ UNCHANGED <<phase, status, healthy, service, halt, stops, failures>>

Due(s) == s \in todo /\ Needs[s] \cap todo = {}

\* It waits until what s depends on is healthy and starts s, if it must.
Visit(s) ==
    /\ Due(s)
    /\ s \in NeedsWallet => healthy
    /\ \A n \in NeedsHealthy[s] : service[n] \in {"up", "grace"}
    /\ todo' = todo \ {s}
    /\ IF s \notin listed /\ service[s] \in Off
       THEN /\ service' = [service EXCEPT ![s] = "up"]
            /\ retries' = [retries EXCEPT ![s] = 0]
       ELSE UNCHANGED <<service, retries>>
    /\ UNCHANGED <<phase, wallet, status, healthy, listed, halt, told, bounds>>

\* "dependency failed to start": something it waits for has exited.
GivesUp ==
    /\ \E s \in Services :
        /\ Due(s)
        /\ \/ s \in NeedsWallet /\ wallet \in Off
           \/ \E n \in NeedsHealthy[s] : service[n] \in Off
    /\ todo' = {} /\ missed' = missed \cup todo
    /\ UNCHANGED <<phase, wallet, status, healthy, service, retries, listed, halt, asked, bounds>>

Stop ==
    /\ todo = {} /\ halt = {}
    /\ stops < MaxStops /\ stops' = stops + 1
    /\ halt' = Containers
    /\ UNCHANGED <<phase, wallet, status, healthy, service, retries, todo, listed, told,
                   ups, failures>>

\* A stopped container is not restarted; entrypoint.sh's shutdown marker keeps
\* the wrapper from publishing an end.
StopService(s) ==
    /\ s \in halt /\ \A t \in halt \cap Services : s \notin Needs[t]
    /\ halt' = halt \ {s}
    /\ service' = [service EXCEPT ![s] = IF @ = "dead" THEN @ ELSE "down"]
    /\ UNCHANGED <<phase, wallet, status, healthy, retries, todo, listed, told, bounds>>

StopWallet ==
    /\ halt = {Wallet}
    /\ halt' = {}
    /\ wallet' = (IF wallet = "dead" THEN "dead" ELSE "down") /\ healthy' = FALSE
    /\ UNCHANGED <<phase, status, service, retries, todo, listed, told, bounds>>

ComposeStep ==
    \/ GivesUp \/ StopWallet
    \/ \E s \in Services : Visit(s) \/ StopService(s)

---------------------------------------------------------------------------
Init ==
    /\ phase = "none" /\ wallet = "down" /\ status = "clean" /\ healthy = FALSE
    /\ service = [s \in Services |-> "down"]
    /\ retries = [c \in Containers |-> 0]
    /\ todo = {} /\ listed = {} /\ halt = {}
    /\ asked = FALSE /\ missed = {}
    /\ ups = 0 /\ stops = 0 /\ failures = 0

Next ==
    \/ WalletStep \/ BootFails \/ PublishEnd \/ Crash
    \/ \E s \in Services : ServiceStep(s) \/ ServiceFails(s)
    \/ ComposeStep \/ Up \/ Stop

Spec == Init /\ [][Next]_vars

\* Processes, Docker and a running docker compose go on; the user need not act
\* and nothing need fail.
FairSpec ==
    /\ Spec
    /\ WF_vars(WalletStep) /\ WF_vars(ComposeStep)
    /\ \A s \in Services : WF_vars(ServiceStep(s))

---------------------------------------------------------------------------
(* Properties.                                                             *)

\* The type invariant: containers, supervisors and Compose stay in their
\* ranges, and Docker's restart counters within the policy's limit.
TypeOK ==
    /\ phase \in {"none", "active", "ended"} /\ status \in {"clean", "crashed"}
    /\ wallet \in {"boot", "starting", "serving", "closing", "left", "failed"} \cup Off
    /\ healthy \in BOOLEAN /\ asked \in BOOLEAN /\ missed \subseteq Services
    /\ service \in [Services -> {"up", "grace", "stopping", "failed"} \cup Off]
    /\ retries \in [Containers -> 0..RestartLimit]
    /\ todo \subseteq Services /\ listed \subseteq Services /\ halt \subseteq Containers
    /\ ups \in 0..MaxUps /\ stops \in 0..MaxStops /\ failures \in 0..MaxFailures

\* A session that ended on purpose is followed by another only when the user
\* runs docker compose up: neither a crash in the wallet's teardown nor Docker's
\* restarts of any container bring it back ("That already-committed GUI end
\* must not resurrect the session", entrypoint.sh:829).
NoResurrection == [][phase = "ended" /\ phase' = "active" => asked]_vars

\* Whenever the user stops acting and processes stop failing, the project comes
\* to rest, completely down or serving: then every container runs but those that
\* used up their restarts, and those the last docker compose up took for running
\* while they were ending the session before, or gave up on with an error.  No
\* other supervisor misses an end or stops what the user started ("the default
\* browser project stops", "To return, run: docker compose up -d",
\* docs/USER-GUIDE.md:222-232).
Settles ==
    <>[](\/ AllDown
         \/ /\ wallet \in {"serving", "dead"}
            /\ \A s \in Services : service[s] \in {"up", "dead"} \/ s \in missed)
=============================================================================
