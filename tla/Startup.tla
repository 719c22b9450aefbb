------------------------------ MODULE Startup ------------------------------
(***************************************************************************)
(* The wallet container's entrypoint on a persistent volume that outlives  *)
(* it: the checks on the volume, its first initialisation, the writers of  *)
(* the wallet's configuration one after the other, the trusted plugin, the *)
(* processes it starts and the way it stops them.  The volume keeps        *)
(* whatever earlier deployments, users and kills left; a container may be  *)
(* killed between any two steps and recreated with another environment.    *)
(* The GUI session's own state is modelled in GuiSession.                  *)
(***************************************************************************)
EXTENDS Naturals, Sequences

CONSTANTS
  Networks,     \* the networks, each with its own directory on the volume
  Chipnet,      \* the one on which a test wallet may be created
  Deployments,  \* environments: [net, mode, tor, rpc, fusion, create]
  MaxUps,       \* bound: containers started
  MaxKills,     \* bound: containers killed
  MaxEdits      \* bound: changes the user makes

ASSUME StartupAssumption ==
  /\ Chipnet \in Networks
  /\ \A d \in Deployments :
       /\ d.net \in Networks /\ d.mode \in {"novnc", "headless"}
       /\ d.tor \in BOOLEAN /\ d.fusion \in BOOLEAN /\ d.create \in BOOLEAN
       /\ d.rpc \in {"off", "p1", "p2"}

VARIABLES
  origin,    \* what the volume was before the first container
  root,      \* its marker, whether all of it belongs to the wallet's user
  conf,      \* configuration file of each network
  wallet,    \* default wallet file of each network
  keys,      \* that wallet's stored CashFusion preferences
  plugin,    \* file in the place of the trusted plugin
  env,       \* environment of the container
  pc,        \* where the entrypoint is
  children,  \* the processes it has started and that still run
  asked,     \* the child the cleanup is waiting for
  term,      \* SIGTERM: not sent, lost, or waiting for its trap
  ups, kills, edits  \* counted for the bounds

volume == <<root, conf, wallet, keys, plugin>>
process == <<children, asked, term>>
counts == <<ups, kills, edits>>
vars == <<origin, volume, env, pc, process, counts>>

\* The fields of a configuration that the deployment or the user decides.
Configs == [proxy : {"tor", "none", "user"}, rpc : {"unset", "off", "p1", "p2"},
            fusion : {"unset", "on", "off"}, plug : {"unset", "on", "off"},
            lang : {"env", "user"}, last : {"any", "test"}]
\* No file; a file Electron Cash was killed in the middle of writing.
NoConfig == [unreadable |-> FALSE]
Torn == [unreadable |-> TRUE]

\* Before the trap is set the script is PID 1 without a handler.
Untrapped == {"env", "root", "mark", "write", "chown", "owner"}
\* The commands between the trap and the cleanup.
Commands == {"verify", "config", "wallet", "last", "rpc", "fusion", "plugin",
             "install", "enable", "start", "ready", "running"}

TypeOK ==
  /\ origin \in {"new", "used", "unmarked", "marked", "linked", "chowned"}
  /\ root \in [marker : {"none", "empty", "good", "other"},
               traits : SUBSET {"owned", "linked", "others"}]
  /\ conf \in [Networks -> Configs \cup {NoConfig, Torn}]
  /\ wallet \in [Networks -> {"none", "test", "user"}]
  /\ \A n \in Networks : wallet[n] = "test" => n = Chipnet
  /\ keys \in [Networks -> {"none", "env", "user"}]
  /\ \A n \in Networks : keys[n] # "none" => wallet[n] # "none"
  /\ plugin \in [Networks -> {"none", "good", "bad", "link", "directory"}]
  /\ env \in Deployments
  /\ pc \in {"down", "stop"} \cup Untrapped \cup Commands
  /\ children \subseteq {"Xvfb", "openbox", "x11vnc", "websockify", "wallet"}
  /\ pc \notin {"start", "ready", "running", "stop"} => children = {}
  /\ term \in {"no", "lost", "pending"}
  /\ asked # "" => pc = "stop"

----------------------------------------------------------------------------
\* The containers' volume before its first start.

AllNets(x) == [n \in Networks |-> x]
Volume(m, t) == [marker |-> m, traits |-> t]
OldConfig == [proxy |-> "user", rpc |-> "p1", fusion |-> "on", plug |-> "off",
              lang |-> "user", last |-> "any"]

Holdings(used) ==
  /\ conf = AllNets(IF used THEN OldConfig ELSE NoConfig)
  /\ wallet = AllNets(IF used THEN "user" ELSE "none")
  /\ keys = AllNets(IF used THEN "user" ELSE "none")
  /\ plugin = AllNets(IF used THEN "bad" ELSE "none")

Init ==
  /\ \/ origin = "new" /\ root = Volume("none", {}) /\ Holdings(FALSE)
     \/ origin = "used" /\ root = Volume("good", {"owned"}) /\ Holdings(TRUE)
     \/ origin = "unmarked" /\ root = Volume("none", {"others"}) /\ Holdings(FALSE)
     \/ origin = "marked" /\ root = Volume("other", {"owned", "others"}) /\ Holdings(FALSE)
     \/ origin = "linked" /\ root = Volume("good", {"owned", "linked"}) /\ Holdings(TRUE)
     \/ origin = "chowned" /\ root = Volume("good", {}) /\ Holdings(TRUE)
  /\ env \in Deployments
  /\ pc = "down" /\ children = {} /\ asked = "" /\ term = "no"
  /\ ups = 0 /\ kills = 0 /\ edits = 0

\* Owner and mode of the root, of the marker and of everything below.
OwnedByWallet == "owned" \in root.traits
\* Mutant: the marker is proof enough.
OwnerByMarker == root.marker = "good"
\* What both looks at owners and modes, as root and as the wallet's user, accept.
OwnerChecked == OwnedByWallet
\* A link anywhere on the volume, also in the plugin's place.
Linked == "linked" \in root.traits \/ \E n \in Networks : plugin[n] = "link"
HoldsData ==
  \/ "others" \in root.traits
  \/ \E n \in Networks : conf[n] # NoConfig \/ wallet[n] # "none" \/ plugin[n] # "none"

----------------------------------------------------------------------------
\* Between containers.

\* docker compose up with any environment, or Docker's restart of a container
\* that failed (the same environment again).
Up ==
  /\ pc = "down" /\ ups < MaxUps
  /\ ups' = ups + 1
  /\ env' \in Deployments
  /\ pc' = "env" /\ term' = "no"
  /\ UNCHANGED <<origin, volume, children, asked, kills, edits>>

\* A wallet that is killed while it saves its configuration leaves a part of it.
WalletKilled ==
  \/ UNCHANGED conf
  \/ "wallet" \in children /\ conf' = [conf EXCEPT ![env.net] = Torn]

\* SIGKILL, a crash of the host, or the end of Docker's grace period.
Kill ==
  /\ pc # "down" /\ kills < MaxKills
  /\ kills' = kills + 1
  /\ pc' = "down" /\ children' = {} /\ asked' = "" /\ term' = "no"
  /\ WalletKilled
  /\ UNCHANGED <<origin, root, wallet, keys, plugin, env, ups, edits>>

\* docker stop.  PID 1 does not receive a signal it has no handler for; inside
\* the cleanup the trap's "exit 1" ends the script at once, and the kernel
\* kills what still runs.
Term ==
  /\ pc # "down" /\ term = "no"
  /\ IF pc = "stop" THEN /\ pc' = "down" /\ children' = {} /\ asked' = ""
                         /\ WalletKilled /\ UNCHANGED term
     ELSE /\ term' = IF pc \in Untrapped THEN "lost" ELSE "pending"
          /\ UNCHANGED <<conf, pc, children, asked>>
  /\ UNCHANGED <<origin, root, wallet, keys, plugin, env, counts>>

----------------------------------------------------------------------------
\* As root: the environment and the volume.

\* One step of the script from pc = a, which nothing interrupts but a kill; a
\* trapped signal waits for the end of the command.
At(a) == pc = a /\ term # "pending"
Frame == UNCHANGED <<origin, env, process, counts>>
Quit == pc' = "down"
\* exit under set -e: the EXIT trap runs the cleanup.
Exit == pc' = "stop"

Acceptable(e) ==
  /\ e.create => e.net = Chipnet
  /\ e.rpc # "off" => e.mode = "headless"

CheckEnvironment ==
  /\ At("env")
  /\ pc' = IF Acceptable(env) THEN "root" ELSE "down"
  /\ Frame /\ UNCHANGED volume

\* Mutant: any marker, or none, is taken for a volume of ours.
InspectLoosely ==
  /\ At("root")
  /\ pc' = IF root.marker = "good" THEN "owner" ELSE "mark"
  /\ Frame /\ UNCHANGED volume

\* A volume with another marker, or with data and no marker, is not touched.
Inspect ==
  /\ At("root")
  /\ \/ Linked /\ Quit
     \/ ~Linked /\ root.marker = "good" /\ pc' = "owner"
     \/ ~Linked /\ root.marker \in {"empty", "other"} /\ Quit
     \/ ~Linked /\ root.marker = "none" /\ HoldsData /\ Quit
     \/ ~Linked /\ root.marker = "none" /\ ~HoldsData /\ pc' = "mark"
  /\ Frame /\ UNCHANGED volume

\* printf > marker: the file is there before its content.
TruncateMarker ==
  /\ At("mark") /\ pc' = "write"
  /\ root' = [root EXCEPT !.marker = "empty"]
  /\ Frame /\ UNCHANGED <<conf, wallet, keys, plugin>>

WriteMarker ==
  /\ At("write") /\ pc' = "chown"
  /\ root' = [root EXCEPT !.marker = "good"]
  /\ Frame /\ UNCHANGED <<conf, wallet, keys, plugin>>

TakeOver ==
  /\ At("chown") /\ pc' = "owner"
  /\ root' = [root EXCEPT !.traits = @ \cup {"owned"}]
  /\ Frame /\ UNCHANGED <<conf, wallet, keys, plugin>>

\* The ownership checks and the access probe, which may fail for its own
\* reasons; then the script starts again as the wallet's user.
CheckOwner ==
  /\ At("owner")
  /\ \/ OwnerChecked /\ pc' = "verify"
     \/ Quit
  /\ Frame /\ UNCHANGED volume

----------------------------------------------------------------------------
\* As the wallet's user: configuration, test wallet, plugin.

Net == env.net
Config(update) ==
  /\ conf' = [conf EXCEPT ![Net] = update]
  /\ UNCHANGED <<root, wallet, keys, plugin>>

\* The same checks again, by the user the wallet will run as.
VerifyRoot ==
  /\ At("verify")
  /\ pc' = IF ~Linked /\ root.marker = "good" /\ OwnerChecked
           THEN "config" ELSE "stop"
  /\ Frame /\ UNCHANGED volume

NewConfig == [proxy |-> "none", rpc |-> "unset", fusion |-> "unset",
              plug |-> "unset", lang |-> "env", last |-> "any"]
Proxy(e) == IF e.tor THEN "tor" ELSE "none"

\* Mutant: the file is written anew at each start.
EnsureConfigAnew ==
  /\ At("config") /\ pc' = "wallet"
  /\ Config([NewConfig EXCEPT !.proxy = Proxy(env)])
  /\ Frame

\* A file that cannot be read ends the start; the language is the
\* environment's only in a new file.
EnsureConfig ==
  /\ At("config")
  /\ \/ conf[Net] = Torn /\ Exit /\ UNCHANGED volume
     \/ /\ conf[Net] # Torn /\ pc' = "wallet"
        /\ LET old == IF conf[Net] = NoConfig THEN NewConfig ELSE conf[Net]
           IN Config([old EXCEPT !.proxy = Proxy(env)])
  /\ Frame

EnsureTestWallet ==
  /\ At("wallet")
  /\ \/ ~env.create /\ pc' = "rpc" /\ UNCHANGED volume
     \/ env.create /\ wallet[Net] # "none" /\ pc' = "last" /\ UNCHANGED volume
     \/ env.create /\ wallet[Net] = "none" /\ Exit /\ UNCHANGED volume
     \/ /\ env.create /\ wallet[Net] = "none" /\ pc' = "last"
        /\ wallet' = [wallet EXCEPT ![Net] = "test"]
        /\ UNCHANGED <<root, conf, keys, plugin>>
  /\ Frame

SelectTestWallet ==
  /\ At("last") /\ pc' = "rpc"
  /\ Config([conf[Net] EXCEPT !.last = "test"])
  /\ Frame

\* Mutant: a disabled JSON-RPC leaves the file alone.
ConfigureJsonrpcIfEnabled ==
  /\ At("rpc") /\ pc' = "fusion"
  /\ Config([conf[Net] EXCEPT !.rpc = IF env.rpc = "off" THEN @ ELSE env.rpc])
  /\ Frame

\* Disabled, the file keeps no credential of an earlier deployment.
ConfigureJsonrpc ==
  /\ At("rpc") /\ pc' = "fusion"
  /\ Config([conf[Net] EXCEPT !.rpc = env.rpc])
  /\ Frame

ConfigureFusion ==
  /\ At("fusion") /\ pc' = "plugin"
  /\ Config([conf[Net] EXCEPT !.fusion = IF env.fusion THEN "on" ELSE "off"])
  /\ Frame

\* A link, or a file with another digest, is removed; a directory is refused.
InspectPlugin ==
  /\ At("plugin")
  /\ \/ plugin[Net] = "good" /\ pc' = "enable" /\ UNCHANGED volume
     \/ plugin[Net] = "directory" /\ Exit /\ UNCHANGED volume
     \/ /\ plugin[Net] \in {"none", "bad", "link"} /\ pc' = "install"
        /\ plugin' = [plugin EXCEPT ![Net] = "none"]
        /\ UNCHANGED <<root, conf, wallet, keys>>
  /\ Frame

\* Copied beside its place, hashed, and renamed; or the copy fails.
InstallPlugin ==
  /\ At("install")
  /\ \/ Exit /\ UNCHANGED volume
     \/ /\ pc' = "enable" /\ plugin' = [plugin EXCEPT ![Net] = "good"]
        /\ UNCHANGED <<root, conf, wallet, keys>>
  /\ Frame

EnablePlugin ==
  /\ At("enable") /\ pc' = "start"
  /\ Config([conf[Net] EXCEPT !.plug = "on"])
  /\ Frame

----------------------------------------------------------------------------
\* The processes.

Startups == IF env.mode = "headless" THEN <<"wallet">>
            ELSE <<"Xvfb", "openbox", "x11vnc", "websockify", "wallet">>
CleanupOrder == <<"wallet", "x11vnc", "websockify", "Xvfb", "openbox">>

\* Each is awaited before the next one starts; one that is not ready in time
\* ends the script.  The wallet reads its configuration here.
StartNext ==
  /\ At("start")
  /\ \/ \E i \in DOMAIN Startups :
          /\ children = {Startups[j] : j \in 1..(i - 1)}
          /\ children' = children \cup {Startups[i]}
          /\ pc' = IF Startups[i] # "wallet" THEN "start"
                   ELSE IF env.mode = "headless" THEN "ready" ELSE "running"
     \/ children # {} /\ Exit /\ UNCHANGED children
  /\ UNCHANGED <<origin, volume, env, asked, term, counts>>

\* The headless daemon answers and loads its wallet, or not.
DaemonReady ==
  /\ At("ready") /\ pc' \in {"running", "stop"}
  /\ Frame /\ UNCHANGED volume

\* A child ends on its own, or because it was asked to.
ChildEnds(c) ==
  /\ c \in children /\ pc # "start"
  /\ children' = children \ {c}
  /\ UNCHANGED <<origin, volume, env, pc, asked, term, counts>>

WalletEnded ==
  /\ At("running") /\ "wallet" \notin children /\ Exit
  /\ Frame /\ UNCHANGED volume

\* SIGTERM after the command that was running, or at once in wait.
Trapped ==
  /\ pc \in Commands /\ term = "pending" /\ Exit
  /\ Frame /\ UNCHANGED volume

Alive(c) == c \in children

StopNext ==
  /\ pc = "stop" /\ asked = ""
  /\ \E i \in DOMAIN CleanupOrder :
       /\ Alive(CleanupOrder[i])
       /\ \A j \in 1..(i - 1) : ~Alive(CleanupOrder[j])
       /\ asked' = CleanupOrder[i]
  /\ UNCHANGED <<origin, volume, env, pc, children, term, counts>>

\* Mutant: the cleanup waits for the child without a deadline.
ReapEnded ==
  /\ pc = "stop" /\ asked # "" /\ ~Alive(asked)
  /\ asked' = ""
  /\ UNCHANGED <<origin, volume, env, pc, children, term, counts>>

\* The child has ended, or has exceeded its deadline and is killed.
Reap ==
  /\ pc = "stop" /\ asked # ""
  /\ children' = children \ {asked} /\ asked' = ""
  /\ IF asked = "wallet" THEN WalletKilled ELSE UNCHANGED conf
  /\ UNCHANGED <<origin, root, wallet, keys, plugin, env, pc, term, counts>>

CleanedUp ==
  /\ pc = "stop" /\ asked = "" /\ children = {} /\ Quit
  /\ Frame /\ UNCHANGED volume

----------------------------------------------------------------------------
\* The running wallet and its user.

\* A wallet that opens under an enabled CashFusion gets the initial profile
\* where nothing is stored.
OpenWallet ==
  /\ "wallet" \in children /\ env.fusion
  /\ wallet[Net] # "none" /\ keys[Net] = "none"
  /\ keys' = [keys EXCEPT ![Net] = "env"]
  /\ UNCHANGED <<origin, root, conf, wallet, plugin, env, pc, process, counts>>

UserEdits ==
  /\ "wallet" \in children /\ edits < MaxEdits
  /\ edits' = edits + 1
  /\ \/ /\ conf[Net] \in Configs
        /\ \/ Config([conf[Net] EXCEPT !.lang = "user"])
           \/ Config([conf[Net] EXCEPT !.proxy = "user"])
           \/ Config([conf[Net] EXCEPT !.fusion = IF @ = "on" THEN "off" ELSE "on"])
           \/ Config([conf[Net] EXCEPT !.plug = "off"])
     \/ /\ wallet[Net] = "none" /\ wallet' = [wallet EXCEPT ![Net] = "user"]
        /\ UNCHANGED <<root, conf, keys, plugin>>
     \/ /\ wallet[Net] # "none" /\ keys' = [keys EXCEPT ![Net] = "user"]
        /\ UNCHANGED <<root, conf, wallet, plugin>>
     \/ /\ plugin' \in {[plugin EXCEPT ![Net] = p] : p \in {"none", "bad", "link", "directory"}}
        /\ UNCHANGED <<root, conf, wallet, keys>>
  /\ UNCHANGED <<origin, env, pc, process, ups, kills>>

Prepare ==
  \/ CheckEnvironment \/ Inspect \/ TruncateMarker \/ WriteMarker \/ TakeOver
  \/ CheckOwner \/ VerifyRoot \/ EnsureConfig \/ EnsureTestWallet \/ SelectTestWallet
  \/ ConfigureJsonrpc \/ ConfigureFusion \/ InspectPlugin \/ InstallPlugin \/ EnablePlugin
Entrypoint ==
  \/ Prepare \/ StartNext \/ DaemonReady \/ WalletEnded \/ Trapped
  \/ StopNext \/ Reap \/ CleanedUp
Next ==
  \/ Up \/ Kill \/ Term \/ Entrypoint \/ OpenWallet \/ UserEdits
  \/ \E c \in children : ChildEnds(c)

Spec == Init /\ [][Next]_vars
\* The script goes on; no child has to end, nobody has to stop or kill it.
FairSpec == Spec /\ WF_vars(Entrypoint)

----------------------------------------------------------------------------
\* However the volume was left by earlier environments, by the user's edits and
\* by kills between the writers, a wallet starts on a configuration with this
\* container's proxy, credential and plugin switches; a disabled JSON-RPC
\* leaves no credential; and the plugin it will load has the digest of the
\* image's manifest (entrypoint.sh, ensure_config to preload_plugins).
Obeys(c, e) ==
  /\ c.proxy = Proxy(e)
  /\ c.rpc = e.rpc
  /\ c.fusion = IF e.fusion THEN "on" ELSE "off"
  /\ c.plug = "on"
  /\ e.create => c.last = "test"
WalletStarts == "wallet" \notin children /\ "wallet" \in children'
PolicyInForce ==
  [][WalletStarts => conf[Net] \in Configs /\ Obeys(conf[Net], env) /\ plugin[Net] = "good"]_vars

\* A volume that holds data and was not initialised for this wallet, or whose
\* data is another user's or has links, is never changed (initialize_wallet_root).
ForeignUntouched ==
  [][(origin \in {"unmarked", "marked", "linked", "chowned"}) => UNCHANGED volume]_vars

\* An initialisation that was cut makes every later start refuse the volume;
\* such a volume holds nothing that anybody could miss (initialize_wallet_root).
RefusalIsSafe ==
  origin = "new" /\ (root.marker # "good" \/ ~OwnedByWallet) => ~HoldsData

\* What the user decided stays: the language, wallet files, stored CashFusion
\* preferences; a configuration that cannot be read is not replaced either.
Outlives(f, keep) == \A n \in Networks : f[n] \in keep => f'[n] = f[n]
UserDataKept ==
  [][/\ Outlives(wallet, {"test", "user"})
     /\ Outlives(keys, {"user"})
     /\ Outlives(conf, {Torn})
     /\ \A n \in Networks : conf[n] \in Configs /\ conf[n].lang = "user" =>
          conf'[n] = Torn \/ conf'[n].lang = "user"]_vars

\* A signal the script has trapped ends it, also when a child ignores the
\* request to stop.
ShutdownEnds == term = "pending" ~> pc = "down"
============================================================================
