# TLA+ models of Electron Cash Docker

Electron Cash Docker runs the Electron Cash wallet in a container, shows its
desktop in a browser through noVNC, and puts a login service, a Caddy edge,
fail2ban and Tor around it. The wallet itself is upstream software; what this
repository adds is orchestration: shell and Python programs that keep several
files, containers and firewall tables in step while anything may fail or be
killed. That is what these modules specify. They are checked with TLC on small
instances, and the central results are proved with TLAPS for all instances.

    tlc -workers 2 -config CaddyBanRace.cfg MCCaddyBan.tla     # check a model
    tlapm CaddyBanProofs.tla                                   # check proofs

`PROJECT.json` lists the components, the runs, the source lines each definition
stands for, the mutants that show each property can fail, and the hazards.

## 1. Inventory

| Component (source) | State | Operations | What is hard, and what makes it correct |
|---|---|---|---|
| Ban enforcement (`docker/fail2ban/caddy_ban.py`, `entrypoint.sh`) | `banlist.json`, `banlist.caddy`, Caddy's running configuration, two iptables chains, `.lock`, `protection-error.json` | `ban`, `unban`, `reconcile`, `check` | Commands race, any call fails, anything dies between two calls, Caddy loses acknowledgements. Bans are atomic; the four copies agree when nothing runs; rollback is exact; no ban lapses during a rebuild; a shared peer is never packet-dropped. |
| Access-log adapter (`caddy-log-adapter.py`) | `client-identity.json`, log offset | classify a 401 line, publish its identity, follow the log | Works without the lock of the ban commands; rotation and restarts re-read lines. Only a client's own address is ever "direct". |
| Caddy edge (`docker/caddy-entrypoint.sh`, `docker/caddy`) | trusted-proxy list, generated Caddyfile | generate, start, crash, reload | Loads what the snippet says at start; shares its network namespace with fail2ban. |
| Wallet backup and restore (`scripts/backup.sh`) | wallet volume, rollback volume, `restore-pending` marker, shell variables, trap | backup, restore, recover, roll back, signal handler | Killed or interrupted between any two commands while its helpers run on. The wallet is always whole or recoverable; restore is atomic; Electron Cash ends up as it was. |
| Backup helper (`docker/backup.sh`, `backup_tool.py`) | volume contents | create, snapshot, replace, restore-snapshot, verify | Dies half-way through a copy. |
| Windows wrapper (`scripts/backup.ps1`) | as `backup.sh` | as `backup.sh` | Must behave as its twin. |
| GUI session (`docker/gui_session.py`, `gui-session.sh`, `electroncash-wrapper.py`, `session-websockify.py`) | the session state file, one supervisor per service, container states | start, serve, end on purpose, crash, notify, stop, restart | Six containers poll one file while Docker and the user restart them. An ended session is not resurrected and the project settles up or down. |
| Browser client (`docker/novnc-session.js`) | terminal flag, generation, backoff | observe, end, navigate | Answers and close frames arrive in any order. A tab finds its way back to a new session or to the login. |
| Web authentication (`docker/auth-session/server.py`) | SQLite sessions and credential generation | login, logout, check, password change, expiry | Threads between two transactions, overlapping servers, restarts, wall clock. A session belongs to the current password; what ended stays out; remembered sessions survive. |
| Wallet startup (`docker/entrypoint.sh`, `electroncash-daemon-wrapper.py`, `healthcheck.py`, `gui_startup.py`) | the wallet volume (marker, configuration, wallet, plugin), processes, the trap | initialise or refuse a volume, five writers of the configuration, install the plugin, start, wait, shut down | Containers are killed between any two steps and recreated with another environment over what was left. A wallet starts only under its deployment's policy; a foreign volume is not written; the user's decisions survive; a signal ends the script. |
| Network selection (`network_selection.py`), CashFusion policy (`cashfusion_*.py`) | configuration | validate, default | Which directory a deployment writes; defaults stored once, never over a user's. |
| X11 authority and relay (`prepare-xauthority.py`, `x11_relay.py`, `mac-gui.sh`) | sockets, children | start, relay, stop | Cleanup of half-started bridges. |
| Docker resource ownership (`scripts/docker_ownership.py`) | claim ledger, event log, one shim per Docker command | reserve, inspect, run, build, remove, clean up, report | Others use the same names on the same daemon between an inspection and the act that follows it; killed shims leave commands that act late. The run touches nothing of others, accepts only what it built, and a clean report is true. |
| CI orchestration (`ci.py`, `platform_runner.py`), release and forge gates (`release_security.py`, `forge/`) | working tree and its frozen identity, manifest, builder record, disk guard, attestation, commit status | check, scan, build, test, review, verify, clean up, publish | The tree, the disk, the builder and the attestation change while it runs; it fails, is interrupted or killed anywhere. A verdict is earned, reported for the right commit, and admits to leftovers; the disk floor holds; every run ends. |
| Compose deployment (`docker-compose.yml`) | containers | up, stop, restart | depends_on and restart policies. |
| Tor, login page and locales, plugin build, policy checks, demo recording | none that changes over time | | Third-party servers, static text, stateless validators, documentation tools. |

How they interact: Caddy writes its access log; the adapter turns 401 lines into
identities; fail2ban runs `caddy-ban`, which writes the snippet and the state,
edits iptables in Caddy's namespace and loads Caddy over its admin socket.
Caddy asks auth-session about every request. The wallet container publishes the
session state in a volume all others mount read-only; their supervisors and the
status endpoint read it, and the browser polls that endpoint. The host's backup
script stops and starts the wallet service through Docker and runs its helpers
on the same volume; the wallet container's entrypoint finds on it whatever
earlier containers, users and restores left. On the developer's side the gate
runs every Docker command of its tests through the ownership shim, supervises
its builds with the disk guard, and the forge adapter publishes its exit status.

## 2. Modules

| Module | Models | Kind |
|---|---|---|
| `CaddyBan` | `caddy_ban.py`, one action per file, packet-filter or Caddy call, with its environment | detailed specification |
| `BanAuthority` | what a ban command promises: one atomic list | abstract specification |
| `CaddyBanCheck` | the lockless `check`, on top of `CaddyBan` | extends it |
| `MCCaddyBan`, `MCCaddyBanCheck` | addresses, trusted proxies and log lines | instances |
| `CaddyBanProofs` | theorems about `CaddyBan`, its refinement included, and `CaddyBanCheck` | proofs |
| `Restore` | `backup.sh` and its helper containers | detailed specification |
| `AtomicRestore` | what a restore promises: all or nothing, and the exit status says which | abstract specification |
| `MCRestore` | wallets, archives, volumes | instance |
| `RestoreProofs` | theorems about `Restore`, its refinement included | proofs |
| `GuiSession` | the state file, wallet container, supervisors, Docker and Compose | specification |
| `MCGuiSession` | the services of `docker-compose.yml` | instance |
| `GuiSessionProofs` | theorems about `GuiSession` | proofs |
| `GuiTab` | `novnc-session.js`, the close reason, the status endpoint, with the session's life as environment | specification |
| `MCGuiTab` | its instance | instance |
| `AuthSession` | the durable session store and the handlers of `server.py` | specification |
| `MCAuthSession` | servers, passwords, tokens, lifetimes | instance |
| `AuthSessionProofs` | theorems about `AuthSession` | proofs |
| `GuiTabProofs` | theorems about `GuiTab` | proofs |
| `Startup` | `entrypoint.sh` on a volume that outlives it | specification |
| `MCStartup` | four environments, one of which must be refused | instance |
| `StartupProofs` | theorems about `Startup` | proofs |
| `DiskGuard` | admission, polling and cancellation of one supervised phase: what the gate's handling of the disk promises | abstract specification |
| `Gate` | the gate of `ci.py` with the security evidence and the GitLab adapter; extends `DiskGuard` | detailed specification |
| `MCGate` | one image, two tests, their estimates | instance |
| `GateProofs` | theorems about `Gate` and the `DiskGuard` it extends | proofs |
| `Ownership` | the claims, the shim and the cleanup of an acceptance run | specification |
| `MCOwnership` | its instance | instance |
| `OwnershipProofs` | theorems about `Ownership` | proofs |

### CaddyBan

`banState`, `snippet`, `caddyConfig`, `chain` and `failureFile` are the four
copies of the ban list and the failure marker; `identity` and `trusted` are the
files of the adapter and of Caddy's entrypoint. A ban list is a set of entries
`[client_ip, peer_ip, mode]`. The field `packet_drop` of the code is the same
fact as `mode = "direct"`, because both loaders refuse any other pairing; ports,
timestamps and the JSON envelope are left out.

`Start` puts a command in a process; `Acquire` is the granted `flock` with all
that is read before the first change (`load_bans`, `_load_identity`, the old
snippet); then `WriteSnippet`, `FlushChain`, `InsertRule`, `LoadCaddyfile`,
`Publish`, `VerifyFirewall` and `ClearFailure` are `reconcile_locked` in its
order, each of which may fail instead. A failure enters `_rollback`
(`RestoreState`, `RestoreSnippet`, then the same packet-filter and Caddy actions
with `back` set, then `MarkFailure`), where a failing step is collected and the
next one tried. A Caddy call that fails may have been carried out. `Kill`,
`Fail2banRestart`, `StackRestart`, `CaddyCrash` may come between any two steps;
a new stack has empty chains and possibly another trusted-proxy list. A Caddy that
crashes is restarted with a network namespace of its own while fail2ban's commands
go on in the old one (`joined`), until fail2ban is restarted too and joins the
new, whose chains are empty. `sighted` is history: the peers a log line showed to be
clients themselves, by the proxy list of the time.

Taken for granted: `flock` and `rename` are what POSIX says; iptables and the
admin socket do one command at a time; the images contain the binaries they
install; a failing iptables command changed nothing. fail2ban's own database is
not part of it.

### Restore

`wallet` and `content[v]` are what a volume holds: a complete wallet, `"empty"`
or `"partial"`; `marker` is the pending file, `owned` the volumes with this
installation's labels. `pc` follows the script; every command that can fail is
an action with its success and its failures. `StopService`, `EnsureVolumeUnused`,
`StartService`, `RestorePriorState` are operators with two continuations, because
the shell functions of those names are called from several places under `if`.
Helpers (`Launch`, `HelperWrites`, ...) are separate processes: they outlive a
killed script, and `docker run` creates a named volume that does not exist.
`docker volume rm` refuses a volume that a helper at work mounts.

Four kinds of trouble are counted apart: `MaxFaults` failing commands,
`MaxMisreads` Docker errors which the script reads as "nothing there" (`docker
compose ps` and `docker ps` in pipelines), `MaxKills` kills and power losses, and
`MaxSignals` trapped signals, which bash handles when the command in the
foreground ends.

Taken for granted: one invocation at a time and nobody else starting or stopping
Electron Cash meanwhile, as the user guide asks; a renamed marker is durable. Of a
Docker command that was in flight when the script was killed, other than a helper
container: it has ended before the next invocation, and before the user starts or
stops Electron Cash, so that it acts just before the kill or not at all (stated
at `Kill` and `Launch`).

### GuiSession

`phase` is the state file; `wallet` follows the wallet container from `boot`
(before `gui_session.py` runs) through `serving`, `closing` (the end is
published, Qt is still tearing down) and `left` to the script's exit;
`service[s]` is a service's container and what its supervisor does with it:
`grace` is the notification window after the end was seen, during which the
supervisor does not read the file again. `Up` is `docker compose up -d`, which
lists the running containers once and then visits the services in dependency
order; it is external and modelled from `depends_on` and the health checks.

Times are not modelled: the six-second window and the eight-second TERM deadline
may take any time. `Up` may come at any moment, also while the session before is
still ending. `missed` is history: the services the last `up` took for running
while they were ending that session, or gave up on with an error. `Settles` names
them as its exception (section 3 tells why), beside containers that have used up
their restarts; everything else has to come up, or everything has to go down.
fail2ban depends on Caddy alone, so an `up` visits it whatever the wallet does.

### GuiTab

`tab[t]` holds the page a tab shows and the variables of that page's script:
`terminal`, `seen` (its `generation`), `unavailable`, the WebSocket, and the two
things that travel apart, the close event and the status answer. `Page` is a
fresh page, so everything a navigation forgets is forgotten in one place. Backoff
and timers are fairness. The session's life is `GuiSession` reduced to what a
browser can see of it: generation, phase, port and edge; the `unavailable` answer
before the first start is left out. The status endpoint reads cookie, file and
port in one step; the answer may then be late by any number of steps.

`Prompt` is the one assumption about time: between an end and the next `docker
compose up` every open page has been answered and has seen its close event. Polls
are at most five seconds apart in a page that has seen the end, requests time out
after three, and the edge is down for longer than that between two sessions. It
is needed: without it a page whose close event arrives late, after it has seen the
next generation, waits for one that does not come.

### AuthSession

`file`, `credential` and `sessions` are the database; `server[s]` carries the
generation and password a server read at its start; `request[w]` is what a worker
has left to do after its first transaction. Each SQLite transaction is one
action, because `BEGIN IMMEDIATE` and the rollback of `with db` make it one; a
lock that cannot be had is `Unavailable`. Two servers on one volume are what
`tests/test_auth_session.py` builds, and the state of a container recreated while
its predecessor is still stopping. A password's PBKDF2 digest is the password,
a token's SHA-256 is the token, and tokens never repeat. Origin and host checks
end a request before it has touched anything and are left out, as are cookies.

### Startup

`root`, `conf[n]`, `wallet[n]`, `keys[n]` and `plugin[n]` are the wallet volume,
one directory for each network; `origin` is what the volume was before the first
container. A configuration is a record of the six fields that the deployment or
the user decides; `Torn` is the file of a wallet that died while it wrote it. `pc`
follows `entrypoint.sh`: one action for each writer of the volume, one for each
process it starts or stops. `Up` starts a container with any environment, so a
deployment finds what another one left; `Kill` may come anywhere.

`term` is the signal of `docker stop`. Before line 381 the script is PID 1
without a handler and the signal is lost; after it the trap runs when the command
in the foreground ends; inside the cleanup, itself run from the EXIT trap, the
trap's `exit 1` ends the script at once. `Reap` allows a child that ignores TERM,
so `kill_gracefully` has to use its deadline. A wallet that is killed, by SIGKILL from
outside, by the cleanup at its deadline, or because a second signal ends PID 1, may
be saving its configuration and leave it cut (`WalletKilled`). A link anywhere on
the volume, the plugin's place included, makes the start refuse it (`Linked`).

Left out: the native GUI mode (one child of the same kind), the session steps
around the wallet (`GuiSession` has them), how long probes wait, and a command
line client that saves the configuration while the daemon does.

### DiskGuard and Gate

`DiskGuard` counts the free space of the fullest file system in units. A phase is
admitted when its estimate and the headroom fit above the floor; from one poll to
the next at most `Burst` units disappear, and a poll at or below the trigger
cancels the phase. `Gate` drives it: every build and test is a supervised phase,
and `DiskSpec` is checked as a property of the gate, so the guard that is proved
is the one the gate runs.

`run` is the gate's process (`pc` the step it is at), `manifest` the file it
leaves, `own` what it has created, `builder` the task's Buildx container with its
durable record and lock, `attest` the reviewer's file, `status` the adapter and
the status the forge shows. `seen` is history: which contents of the tree the run
has used, what failed and why. The steps follow `gate()` and
`acceptance()` in their order; `Fail` says which steps can fail for which cause,
`Interrupt` is Ctrl-C, `Kill` ends the process with no cleanup.

Which failures are the infrastructure's is a choice of the model, open wherever
`acceptance_failure_kind` can say so: advisories, the download of Trivy (`NoTrivy`,
which no step records), the assessment, and the tests in `Classified`. A test that
fails before the test loop leaves its entry at `RUNNING` (`Unpassed`), an
interrupted acceptance step stays as it was begun (`Cleaned`). The builder is removed by
others before the run claims it, or during the builds, where Buildx starts another
container without a word.

Known limits the properties state rather than hide: a tree changed and changed
back between two looks is not noticed (`seen.reverted`), and the adapter reads
the commit before the gate freezes the tree (`seen.moved`).

### Ownership

`volume`, `container` and `image` are the daemon's objects with who made them and
which labels they carry; `ledger`, `events` and `denied` are the files of the run.
`shim` is the Docker command under way, `check` then `act`, and where the code
looks again `verify` or `record`; `late` is the command of a shim that was killed
by a timeout, which runs in a session of its own and acts whenever it likes.
`ci` is the run: reservation, build, tests, removal, images, report. `Others`
create and remove under the same names at any moment.

A late command may be any of them: it starts a container, creates or removes a
volume, removes a container, an image or a whole project, or moves a tag. Others
take any free name, move any tag to their image and back, whenever they like.
`docker build`, `tag`, `load` and `pull` in their short forms pass the shim as they
are and are the command `direct`. `compose down -v` takes the volumes its file
declares, by name. The verification after the cleanup looks at containers, volumes
and names one after the other, and `since` is history: what has appeared behind it.
`stale` is history too: the name a command inspected last was taken by somebody else
before it acts. Two shims at once are not modelled; the tests' commands are
sequential. Parsing of Docker and Compose command lines is reduced to what a
command names.

## 3. Runs

| Run | Instance | Shows |
|---|---|---|
| `ban_faults` | one command and a checker; a client seen directly and behind a proxy, and the proxy, which is on the list or not, also visits by itself, and whose address contains the client's; 2 failures, 1 kill | `QuietAgreement`, `NoEnforcementGap`, `RolledBack`, `DisagreementIsMarked`, `OnlySightedPeersDropped`, `AlarmHasCause`, `PassMeansEnforced` |
| `ban_proxy_list` | one command, the proxy put on the list after it was seen as a client | `SharedPeerNeverDropped` fails (finding) |
| `ban_race` | two concurrent commands, one failure, one kill, fairness | `LinearizableBans` (refinement of `BanAuthority`), `CommandsEnd`, `BootRepairs` |
| `restore_kills` | 2 failing commands, 2 kills or power losses | `DamageIsRecoverable`, `ServiceOnWholeWallet`, `PriorStateKept`, `AtomicRestore` (refinement) |
| `restore_interrupts` | 1 signal, 2 failing commands, 1 misread, fairness | `ServiceOffDuringCopy`, `SignalKeepsPriorState`, `RetriesRecover` |
| `restore_signal` | 1 signal | `DamageIsRecoverable` fails (finding) |
| `gui` | auth-session, Caddy, fail2ban; 2 `up` at any moment, 1 `stop`, 2 failures, fairness | `NoResurrection`, `Settles` |
| `tab` | one tab, 3 generations, 2 failures, 1 login, fairness | `TabReturns` |
| `auth` | 2 servers, 2 workers, 2 passwords, 2 tokens; 4 starts, 1 reset, clock set back once | `SessionsOfCurrentPassword`, `EndedStaysOut`, `HealthyIsCurrent`, `RememberedSurvives` |
| `ownership` | 1 volume, 1 generated name, 2 containers, 1 tag; 4 commands, 1 fault, 2 changes by others | `MountsAreOwn`, `AcceptedImagesWereFrozen`, `CleanReport`, `ForeignUntouched` |
| `gate` | 1 image, 2 tests, 2 runs, 2 edits, 1 foreign change or removed builder, 2 attestations, 1 fault, 3 units of disk above the floor, fairness | `VerdictIsEarned`, `LeftoversAreTold`, `BuilderIsClaimed`, `DiskSafe`, `SuccessIsEarned`, `DiskSpec` (refinement of `DiskGuard`), `GateEnds` |
| `startup` | 2 networks, 4 environments, 6 kinds of volume; 3 containers, 1 kill, 1 edit, fairness | `RefusalIsSafe`, `PolicyInForce`, `ForeignUntouched`, `UserDataKept`, `ShutdownEnds` |

Types: in `Restore`, `Ownership` and `Gate` the type invariant is a conjunct of
`ServiceOnWholeWallet`, `MountsAreOwn` and `VerdictIsEarned`; the other modules'
is not run but proved, as these are (section 4).

Every property of a passing run is falsified by a mutant of the code it is about
(`"mutants"` in `PROJECT.json`; the faulty variants stand next to the definition
they replace).

### Bounds

- Two processes suffice for races under one lock: a third would only wait. One
  is enough where the question is about failures, since commands of one holder
  never overlap.
- Two addresses suffice for each kind of entry the code tells apart: the client
  (IPv4) is seen directly or behind the proxy (IPv6), and the proxy, which the
  operator puts on the list or takes off it, also visits by itself. Each iptables
  binary has a rule to insert in some state. A gateway is classified as a proxy is.
- Two failing calls are a step and its rollback, the case in which only the marker
  can tell (`DisagreementIsMarked`); a third could suppress the marker itself, and
  the property and its theorem say so.
- Two wallets tell old from restored; two rollback volumes let one leak and
  another be used.
- Two restores in a row, an abandoned one and its recovery all fit in the
  failures and kills allowed; the number of invocations is not bounded.
- Two `up` make a session that begins while another ends; a restart limit of one
  and two failures use up a container's restarts. fail2ban has no notification
  window and needs a healthy Caddy; Tor would add nothing to it.
- One tab: other tabs act on it only through the shared login, which `LoginEnds`
  ends at any moment. Three generations let a tab miss one entirely.
- Two servers and two passwords are one stale and one current of each, and four
  starts let a password be changed and changed back with a stale server alive.
  Lifetimes of one and two units in two units of time put every deadline before,
  at and after every other event.
- Three containers are one that leaves a volume half done, one that finds it and
  one more after a change of environment; the four environments differ in every
  policy. One edit can be of any field, file or plugin. Two networks show what a
  deployment leaves in the other's directory.
- Three units of disk above the floor are the trigger, and room for the larger
  estimate or for the smaller one and somebody else. Two gate runs let the second find
  what a killed first one left; two edits let the tree change and change back.
- Four Docker commands build, start, and remove with one to spare; two changes by
  others take a name and move the tag, or move it away and back. Two containers
  allow one of ours beside one of theirs.

### Fairness

- `CaddyBan`: the steps of a command that lives are taken; a waiting `flock` is
  granted to each waiter again and again (strong fairness: Linux queues them);
  Docker restarts Caddy; the entrypoint starts the first reconcile once Caddy
  is up.
- `Restore`: the script and its helpers run on; the user invokes the script
  again (the guide tells him to after an interrupted restore). Failures, kills
  and signals are never fair and are bounded.
- `GuiSession`: processes, Docker and a running `docker compose` go on; the user
  need never act.
- `Gate`: the gate's own process goes on, and a supervised phase ends (its
  process group is killed at the deadline). Editors, reviewers, other users of
  the daemon, faults and the adapter need never act; the waits for them are
  bounded in the code.
- `Startup`: the script goes on. No child has to end, nobody has to stop or kill
  the container. `Ownership` has safety properties only.
- `GuiTab`: containers that were started become ready; a tab's timers, requests
  and events go on. `AuthSession` has safety properties only.

### Findings

`restore_signal`: a signal during `docker volume rm` of a finished restore finds
the marker and `ROLLBACK_VOLUME` still set; the handler restores from a volume
that is gone, which `docker run` creates empty, over the wallet.

`ban_proxy_list`: the packet rules follow the mode recorded when a client was last
seen or banned, and nothing compares it with the trusted-proxy list of the moment.
An address that was recorded, or banned, as a direct client and is then configured
as a trusted proxy is, or stays, packet-dropped, although the opening comment of
`caddy_ban.py` (lines 4-6) excludes it (`SharedPeerNeverDropped` fails). What does
hold, under any changes of the list, is `OnlySightedPeersDropped`: the peer was
itself seen as a client while the list of the time did not name it.

What the properties of the passing runs except, because the code lets it through;
each exception is spelled out in the property and is no wider than the case:

- `Settles` excepts `missed`: a supervisor that has seen an end stops its service
  even when a new session has begun meanwhile. A `docker compose up -d` during
  those seconds finds the service running, does not start it, and leaves the new
  session without it. `docs/USER-GUIDE.md:228-232` and the notice of
  `novnc-session.js:14` say only to run that command again.
- `MountsAreOwn` and `ForeignUntouched` except stale commands: the run's own volume,
  container or tag is removed and its name taken by somebody else between the
  shim's inspection and the moment Docker looks the name up again. The container
  of a killed shim may start long after that inspection.
- `ForeignUntouched` excepts `By("down")`: `compose down -v` removes the volumes its
  file declares, and the shim has inspected those with the project's label or
  mounted by its containers (`docker_ownership.py:508-551`). A volume of somebody
  else under a claimed name that was never mounted goes with them, although the
  shim is there for "enforcing owner-token delete rules" (line 1177).
- It excepts `By("direct")`: `docker build` returns at `docker_ownership.py:1442-1449`,
  before the refusal at 1454-1455 that was meant for it, which is never reached;
  `docker tag`, `load` and `pull` in their short forms go through at line 1526.
- It excepts tags whose recorded image is another's: whatever a tag names when its
  build ends, or when the IDs are read again, is recorded as built here
  (`ci.py:2480`, `3195-3224`) and removed at the end. For the same reason
  `AcceptedImagesWereFrozen` speaks of the recorded image, not of the run's own.
- `PassMeansEnforced` excepts `TakenForBan`: the health check looks for an address's
  bytes anywhere in Caddy's configuration, so a missing ban of 1.1.1.1 passes while
  11.1.1.1 is banned, or while the list of trusted proxies contains it.
- `BuilderIsClaimed` excepts a container that Buildx started in place of one that
  somebody removed during the run; the cleanup then reports it.
- The packet filter vouched for is the one of the namespace fail2ban runs in. After
  a crash of Caddy it is not Caddy's until fail2ban restarts; Caddy's own refusal
  of banned clients is what holds meanwhile (`NoEnforcementGap`).

Found with other instances of the same modules, which have no run of their own:

- `Restore` with `MaxKills = 1` and `MaxSignals = 1`: a signal during the recovery
  of an earlier restore starts Electron Cash on the partly copied wallet, because
  `RESTORE_ACTIVE` is false and `BACKUP_WAS_RUNNING` comes from the marker
  (`ServiceOnWholeWallet` fails).
- `Restore` with `MaxKills = 1`: the rollback volume goes before the marker; a
  kill between the two leaves a marker that every later invocation refuses, while
  `docs/USER-GUIDE.md:468-469` says that the next one recovers.
- With two tabs: both learn that a login has ended; the user logs in again, for a
  temporary session, in the first; the second, whose 401 was still under way,
  then goes to the root page, which revokes the new session. The guide says that
  other tabs' checks do not log anyone out. The window is one request.
- When `docker volume rm` fails after a successful restore, the script still
  removes the marker and reports success (errexit is off in a function whose
  status is tested), although line 543 of `backup.sh` says the marker is
  preserved; `RemoveVolume` models it. It leaks a volume.

## 4. Proofs

All proofs are for every value of the constants that satisfies the assumptions
stated beside them: any number of processes, addresses, services, failures,
kills. The theorems of `Restore` alone have a hypothesis that the code does not
guarantee: `Undisturbed` (section 3 tells what a signal does), and for two theorems
about signals runs without kills (`kills = 0`, `OneMisread`). `HeadroomOutlastsPoll`
is an assumption on the host: nothing in the code bounds what other programs write
between two polls.

### CaddyBan

- `TypeCorrect`: `Spec => []TypeOK`. Lemma by lemma: what a command's candidate
  list and the log classification return, then one step for the holder's actions
  and one for each outside event.
- `DroppedPeersWereSighted`: `Spec => []OnlySightedPeersDropped`, for any changes of
  the trusted-proxy list. The chains are filled from the lists and the lists from
  the identities, so `PeerInv` says of all of them, the lists a command holds
  included, that a "direct" entry's peer was sighted; only then is the chain's
  part inductive, and `FamilyInv` says that each chain holds its own family.
- `Refinement`: `Spec => Authority!Spec`, that is `LinearizableBans`. The abstract
  list is the published one, or, while a command holds the lock, the one it
  found. `HolderInvariant` carries what the step simulation needs: the holder's
  candidate is an outcome of its command, and where the holder is decides which of
  the two lists is on disk. A command takes effect when it ends, a killed one may
  have taken effect or not.
- `QuietCopiesAgree`, `BansHaveNoGap`, `RollbackIsComplete` and
  `DisagreementNeedsThreeFaults`, from `AgreementInvariant`. It says of every step
  of a command where the four copies stand: `ForwardInv` on the way to
  publication, `ChainInv` while a chain is flushed and refilled (it then holds some
  of the target list's rules), `BackInv` during a rollback, where each copy is put
  back in turn unless an error is recorded. `CleanInv` speaks of the time since the
  last kill or failed rollback: the copies agree when the lock is free, and are old
  or new while it is held. `FaultInv` counts: a rollback has taken one fault, a
  rollback error a second, and a disagreement nothing marks a third.

### CaddyBanCheck

`CheckInvariant` is about `CheckSpec`, whose steps are those of `CaddyBan` and the
reads of any number of checks. A check's failing call uses up one of the
faults, so `CheckSpec` does not imply `Spec`, and the invariants above are carried
over step by step (`BanInvStep`, `CheckKeepsBans`). `ReadInv` says that as long as
nothing has moved under a check the lock is free, the bans it loaded are the
published ones and the addresses it collected are the first chain's.

- `AlarmsHaveCauses` (`AlarmHasCause`): with `CleanInv` and a free lock whatever the
  check compares agrees (`CleanBansPass`).
- `PassesAreEarned` (`PassMeansEnforced`): the check compares the union of the two
  chains, so `FamilyInv`, that each chain drops addresses of its own family only,
  is needed to conclude on either. Of Caddy's configuration it concludes that each
  client is refused there or its text stands in another place (`TakenForBan`);
  `VouchInv` carries this from the moment Caddy was read.

### Restore

The theorems down to `RestoreIsAtomic` have the form `Spec /\ []Undisturbed => ...`:
any number of failing commands, kills and power losses, in any invocation, but no
trapped signal and no Docker error that the script takes for an answer. The
finding of section 3 is a signal, so the hypothesis cannot be dropped from
`DamageIsAlwaysRecoverable`.

- `RestoreInvariant` has five parts. `HelpersInv`: a helper still at work copies
  only while Electron Cash is off; one that its script no longer waits for is met
  only where the script has yet to pass `ensure_volume_unused`; what a finished
  helper left is what it was started for. `MarkerInv`: where the marker exists,
  and that it names a complete copy as long as that copy is needed. `ShellInv`:
  the script's variables. `ServiceInv`: Electron Cash is off where helpers work,
  and `BACKUP_WAS_RUNNING` is what it was before. `WalletInv`: recovery would
  leave the old wallet until the rollback volume may be gone; from then on the
  wallet volume is what the script wants.
- `DamageIsAlwaysRecoverable`, `ServiceRunsOnWholeWallet`, `CopiesAreAlone` and
  `ServiceStateIsKept` follow from it: `DamageIsRecoverable`,
  `ServiceOnWholeWallet`, `ServiceOffDuringCopy`, `PriorStateKept`.
- `RestoreIsAtomic`: the refinement of `AtomicRestore`. Every step of the script
  maps to a commit, to the end of the request, or to nothing (`ScriptRefines`);
  the commit is the removal of the rollback volume, or of the marker where that
  removal failed.

Three theorems allow any number of trapped signals:

- `TypeCorrect` (`Spec => []TypeOK`) has no hypothesis at all. `PlaceInv` makes it
  inductive: wherever a signal or a kill leaves the script, it uses
  `ROLLBACK_VOLUME` and the archive only where it has set them, and a helper at
  work keeps its volume from being removed.
- `CopiesAreAloneWithSignals`: `ServiceOffDuringCopy` in runs without kills, with
  any number of failing commands and one misread answer (`OneMisread`).
  `AloneInv`: there is one helper and the script waits for it; where Electron Cash
  runs past `stop_service`, that misread has been spent, so
  `ensure_volume_unused` notices.
- `SignalsKeepPriorState`: `SignalKeepsPriorState` in runs without kills. The
  property is about handlers before which no command failed, so its invariant
  `SignalInv` is about such runs: at every label where a signal can arrive, what
  `RESTORE_ACTIVE`, `ROLLBACK_VOLUME`, `BACKUP_WAS_RUNNING`, the marker and Electron
  Cash say of each other (`SignalMarker`, `SignalPath`, `SignalService`), so that
  the branch `on_signal` takes puts Electron Cash back.

### GuiSession and GuiTab

- `NoResurrectionHolds`: `Spec => NoResurrection`, from `EndStandsInvariant`: while
  an end stands unasked, the wallet container is closing or off, so nothing can
  restart it. It holds whenever the user starts the next session.
- `TypeCorrect` of `GuiSession` and of `GuiTab`. Of a tab it says more than types,
  that one that reports the end has no open desktop and no desktop outlives its
  port. `TabInv` adds what makes it inductive: a socket's successor opens only
  after its close event.

### AuthSession

`TypeCorrect` and all four properties (`StaleCannotIssue`, `EndedStaysOutHolds`,
`HealthyIsCurrentHolds`, `RememberedSurvivesHolds`). The invariant `IInv` rests on
one fact, that a generation stands for a password (`GenerationsAgree`): a server
that still has the database's generation has its password, logins in flight have
their server's, and so only the current password's sessions are stored.
`FileAgrees` keeps a reset, after which generations start again at 1, apart from
servers that are alive.

### Startup

`TypeCorrect`, `PolicyHolds` (`PolicyInForce`), `ForeignHolds`
(`ForeignUntouched`), `CutInitialisationsAreEmpty` (`RefusalIsSafe`) and
`UserDataIsKept` (`UserDataKept`), for any networks, environments, kills and
edits, from `StartupInv`: `Written` says what each writer has put into the
configuration by the time `pc` is past it, `Rooted` how the script comes to write
to a volume at all. One step for each action, the long ones split by conjunct.

### DiskGuard and Gate

- `DiskIsSafe` (with `FloorIsKept` and `AdmittedPhasesFit`), of the guard alone:
  the floor holds and no admitted phase is cancelled for its own estimate, for any
  levels whose headroom outlasts a poll (`HeadroomOutlastsPoll`). `DiskInv` relates
  what a phase and everybody else have used to the free space it was admitted at,
  and what has gone since the last poll to the trigger.
- `GateGuardsDisk`: every step of the gate is a step of the guard or leaves its
  state alone, so that `GateDiskIsSafe` follows.
- `VerdictsAreEarned`, `ReportsTellLeftovers`, `BuildersAreClaimed` and
  `SuccessesAreEarned`, from `GateInvariant`: `Undecided` (a run that
  goes on has no verdict), `Errors` (after an error only cleanup and the end are
  left, and a defect is an error), `Looked` (as long as the tree is the frozen one,
  no other was used), `Evidence` (it is of the frozen tree, and a clean report of a
  run that owns nothing) and `Builder` (the one in use is the recorded one, or it was
  removed during the run and the cleanup will find that out).
  Each action first gets a lemma on its shape, which fields of `run`, `seen` and
  `builder` it changes; the invariant is then preserved shape by shape.

### Ownership

None of them has a hypothesis: any number of commands, of late ones and of
changes by others, tags moved away and back included.

- `OwnershipInvariant` says that a label proves who made a volume or a container
  (`LabelsProve`), that commands run only while images are built and tests go on
  (`CommandsOK`), and that what an inspection found still holds when the command
  it permits acts, unless that command is stale (`CurrentOK`, of the shim's command
  and of the late one; `PlanIsCurrent`, of the cleanup). Steps are reduced to what
  they may do to one volume, one container and one tag; `MountsAreAlwaysOwn` is its
  last conjunct.
- `TestedImagesWereFrozen`: `RanInv`, that what the shim confirmed had the recorded
  ID, which does not change any more once tests run.
- `OthersKeepTheirs`: each way a step can take a name from somebody else is an
  exception of the property, or contradicts `CurrentOK` or `PlanIsCurrent`.
- `CleanReportsAreTrue`: what each part of the verification has looked at is absent
  or in `since`, because whatever appears while it goes on is put there.

### Only model-checked

The liveness properties (`CommandsEnd`, `BootRepairs`, `RetriesRecover`, `Settles`,
`TabReturns`, `GateEnds`, `ShutdownEnds`), which rest on fairness and are beyond
this prover. Every safety property of the runs is proved.

`DamageIsRecoverable`, `ServiceOnWholeWallet`, `PriorStateKept` and `AtomicRestore`
are checked and proved only of runs without signals and misread answers; with a
signal the first fails (section 3).

## 5. Plan

Done: ban enforcement, backup and restore, the GUI session's life, the browser
tab, web authentication, wallet startup, Docker ownership, the gate with its disk
guard and adapter; every safety property of the runs is proved.

Proofs to add: `DamageIsRecoverable` and `ServiceOnWholeWallet` with signals that
come outside the two windows of section 3, from `RestoreInv` and what
`SignalInv` says of the handler.

Models to add: `LogAdapter` (offsets, rotation, duplicates) and `BanLifecycle`
(fail2ban's own database across restarts), composed with `CaddyBan`; the X11
relay; the PowerShell twin of `backup.sh` compared with `Restore`.

## 6. Not modelled

The formats of files, archives and messages; the third-party programs (Electron
Cash, Caddy, fail2ban, Tor, noVNC, Docker) beyond what this repository's code
can observe of them; real time; argument validation that ends a program before
it has changed anything; the components marked `not_modelled` in
`PROJECT.json`, each with its reason. In particular:

- Known behaviour of the modelled programs that no property asks about: fail2ban
  lets no ban expire while it is down; the restore marker is not
  synced to disk; two backups at once take no lock; a failed stop leaves Electron
  Cash off; an authentication database cut at its creation is refused at every
  start.
- A verified image handed over from an earlier run (`CI_VERIFIED_IMAGE_REUSE`,
  `ci.py:3007-3032`), and `scripts/forge/continue_gate.py`.
- The gate: a run killed with SIGKILL or SIGTERM leaves the manifest at `RUNNING`
  and cleans nothing; Ctrl-C after the last step leaves a manifest that says
  `PASS` and an exit status that says otherwise, and the adapter goes by the exit
  status; a status post that was lost for good leaves the forge at `pending`; a
  builder removed between two runs is refused until its record is removed too. The model
  has these behaviours, and they do not contradict what it states.
- `platform_runner.py` runs the same suites on other hosts, `continue_gate.py`
  resumes a recorded run, `compose_guard.py` and the policy checks validate
  files: they add no state that the modelled parts do not have, or none at all.
- `follow()` of the log adapter, the macOS GUI bridge, the PowerShell twin and
  the recording of demonstrations have not been reached.

