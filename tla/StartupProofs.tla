--------------------------- MODULE StartupProofs ---------------------------
(***************************************************************************)
(* A wallet starts only on the configuration and the plugin its container  *)
(* prescribes, on a volume that is ours, for any networks, any deployments *)
(* and any number of containers, kills and edits.                          *)
(***************************************************************************)
EXTENDS Startup, TLAPS

\* What the entrypoint has written when it has come so far.
Configured == {"wallet", "last", "rpc", "fusion", "plugin", "install", "enable", "start"}
Selected == Configured \ {"wallet", "last"}
Credentialed == Selected \ {"rpc"}
Fused == Credentialed \ {"fusion"}

Written ==
  /\ pc \notin {"down", "env"} => Acceptable(env)
  /\ pc \in Configured => conf[env.net] \in Configs /\ conf[env.net].proxy = Proxy(env)
  /\ pc \in Selected => (env.create => conf[env.net].last = "test")
  /\ pc \in Credentialed => conf[env.net].rpc = env.rpc
  /\ pc \in Fused => conf[env.net].fusion = IF env.fusion THEN "on" ELSE "off"
  /\ pc \in {"enable", "start"} => plugin[env.net] = "good"
  /\ pc = "start" => conf[env.net].plug = "on"

\* A volume the wallet may use, and how the script comes to use one.
Sound == root.marker = "good" /\ OwnedByWallet /\ "linked" \notin root.traits

Rooted ==
  /\ pc \in {"mark", "write", "chown"} => ~HoldsData /\ "linked" \notin root.traits
  /\ pc = "mark" => root.marker = "none"
  /\ pc = "write" => root.marker = "empty"
  /\ pc = "chown" => root.marker = "good"
  /\ pc \in Commands \ {"verify"} => Sound
  /\ "wallet" \in children => Sound /\ pc \in {"ready", "running", "stop"}
  /\ origin = "new" /\ HoldsData => Sound
  /\ origin = "unmarked" => root.marker = "none" /\ "others" \in root.traits
  /\ origin = "marked" => root.marker = "other" /\ "others" \in root.traits
  /\ origin = "linked" => "linked" \in root.traits
  /\ origin = "chowned" => root.marker = "good" /\ ~OwnedByWallet /\ HoldsData

StartupInv == TypeOK /\ Written /\ Rooted

\* One field of a configuration written leaves the others.
LEMMA OneField ==
  ASSUME NEW c \in Configs
  PROVE  /\ \A x \in {"tor", "none", "user"} : [c EXCEPT !.proxy = x] \in Configs
         /\ \A x \in {"unset", "off", "p1", "p2"} : [c EXCEPT !.rpc = x] \in Configs
         /\ \A x \in {"unset", "on", "off"} : [c EXCEPT !.fusion = x] \in Configs
         /\ \A x \in {"unset", "on", "off"} : [c EXCEPT !.plug = x] \in Configs
         /\ \A x \in {"env", "user"} : [c EXCEPT !.lang = x] \in Configs
         /\ \A x \in {"any", "test"} : [c EXCEPT !.last = x] \in Configs
  BY DEF Configs

\* What a writer of the configuration changes.
LEMMA Rewritten ==
  ASSUME TypeOK, NEW c \in Configs, Config(c)
  PROVE  /\ conf' \in [Networks -> Configs \cup {NoConfig, Torn}]
         /\ conf'[env.net] = c /\ c # NoConfig
         /\ root' = root /\ wallet' = wallet /\ keys' = keys /\ plugin' = plugin
  <1>1. env.net \in Networks
    BY StartupAssumption DEF TypeOK
  <1>2. c # NoConfig
    BY DEF Configs, NoConfig
  <1> QED
    BY <1>1, <1>2 DEF TypeOK, Config, Net

\* A volume that is new or was used before.
LEMMA OldVolumes ==
  ASSUME NEW used \in BOOLEAN, Holdings(used)
  PROVE  /\ conf \in [Networks -> Configs \cup {NoConfig, Torn}]
         /\ wallet \in [Networks -> {"none", "test", "user"}]
         /\ \A n \in Networks : wallet[n] # "test"
         /\ keys \in [Networks -> {"none", "env", "user"}]
         /\ \A n \in Networks : keys[n] # "none" => wallet[n] # "none"
         /\ plugin \in [Networks -> {"none", "good", "bad", "link", "directory"}]
         /\ used => wallet[Chipnet] # "none"
         /\ ~used => \A n \in Networks : conf[n] = NoConfig /\ wallet[n] = "none" /\ plugin[n] = "none"
  <1>1. OldConfig \in Configs
    BY DEF OldConfig, Configs
  <1>2. CASE used
    BY <1>1, <1>2, StartupAssumption DEF Holdings, AllNets
  <1>3. CASE ~used
    BY <1>3, StartupAssumption DEF Holdings, AllNets
  <1> QED
    BY <1>2, <1>3

\* What the end of a wallet that is killed may do to its configuration.
LEMMA KilledWallet ==
  ASSUME StartupInv, WalletKilled
  PROVE  /\ conf' \in [Networks -> Configs \cup {NoConfig, Torn}]
         /\ UNCHANGED conf \/ (Sound /\ origin \in {"new", "used"} /\ "wallet" \in children)
  <1>1. "wallet" \in children => Sound /\ origin \in {"new", "used"}
    BY DEF StartupInv, Rooted, Sound, TypeOK
  <1> QED
    BY <1>1 DEF WalletKilled, StartupInv, TypeOK

\* A step that leaves the volume but for what a killed wallet was writing, and
\* the script in its cleanup or after its end.
LEMMA KilledInv ==
  ASSUME StartupInv, WalletKilled, UNCHANGED <<origin, root, wallet, keys, plugin, env>>,
         children' \subseteq children, pc' \in {"stop", "down"}, pc' = "down" => children' = {},
         pc' = "stop" => pc = "stop",
         term' \in {"no", "lost", "pending"}, asked' # "" => pc' = "stop"
  PROVE  StartupInv'
  <1>1. TypeOK'
    BY KilledWallet DEF StartupInv, TypeOK, Untrapped, Commands
  <1>2. Written'
    BY DEF StartupInv, Written, Configured, Selected, Credentialed, Fused
  <1>3. Rooted'
    <2>1. CASE UNCHANGED conf
      <3>1. HoldsData' <=> HoldsData
        BY <2>1 DEF HoldsData
      <3> QED
        BY <2>1, <3>1 DEF StartupInv, Rooted, Sound, OwnedByWallet, Commands
    <2>2. CASE Sound /\ origin \in {"new", "used"}
      BY <2>2 DEF StartupInv, Rooted, Sound, OwnedByWallet, Commands
    <2> QED
      BY <2>1, <2>2, KilledWallet
  <1> QED
    BY <1>1, <1>2, <1>3 DEF StartupInv

\* The invariant holds on every volume before its first container.
LEMMA InitialInv == Init => StartupInv
  <1> SUFFICES ASSUME Init PROVE StartupInv
    OBVIOUS
  <1>1. PICK used \in BOOLEAN :
          /\ Holdings(used)
          /\ \/ origin = "new" /\ ~used /\ root = Volume("none", {})
             \/ origin = "used" /\ root = Volume("good", {"owned"})
             \/ origin = "unmarked" /\ root = Volume("none", {"others"})
             \/ origin = "marked" /\ root = Volume("other", {"owned", "others"})
             \/ origin = "linked" /\ root = Volume("good", {"owned", "linked"})
             \/ origin = "chowned" /\ used /\ root = Volume("good", {})
    <2>1. CASE Holdings(TRUE) /\ origin \in {"used", "linked", "chowned"}
      BY <2>1 DEF Init
    <2>2. CASE Holdings(FALSE) /\ origin \in {"new", "unmarked", "marked"}
      BY <2>2 DEF Init
    <2>3. \/ Holdings(TRUE) /\ origin \in {"used", "linked", "chowned"}
          \/ Holdings(FALSE) /\ origin \in {"new", "unmarked", "marked"}
      BY Zenon DEF Init
    <2> QED
      BY <2>1, <2>2, <2>3
  <1>2. pc = "down" /\ children = {} /\ asked = "" /\ term = "no" /\ env \in Deployments
    BY DEF Init
  <1>3. root \in [marker : {"none", "empty", "good", "other"},
                  traits : SUBSET {"owned", "linked", "others"}]
    BY <1>1 DEF Volume
  <1>4. TypeOK
    BY <1>1, <1>2, <1>3, OldVolumes DEF TypeOK
  <1>5. Written
    BY <1>2 DEF Written, Configured, Selected, Credentialed, Fused
  <1>6. Rooted
    <2>1. /\ origin = "new" => ~HoldsData
          /\ origin = "unmarked" => root.marker = "none" /\ "others" \in root.traits
          /\ origin = "marked" => root.marker = "other" /\ "others" \in root.traits
          /\ origin = "linked" => "linked" \in root.traits
      BY <1>1, OldVolumes DEF Volume, HoldsData, OwnedByWallet
    <2>2. origin = "chowned" => root.marker = "good" /\ ~OwnedByWallet /\ HoldsData
      <3>1. origin = "chowned" => used /\ root.marker = "good" /\ ~OwnedByWallet
        BY <1>1 DEF Volume, OwnedByWallet
      <3>2. used => wallet[Chipnet] # "none" /\ Chipnet \in Networks
        BY <1>1, OldVolumes, StartupAssumption
      <3> QED
        BY <3>1, <3>2 DEF HoldsData
    <2> QED
      BY <1>2, <2>1, <2>2 DEF Rooted, Commands
  <1> QED
    BY <1>4, <1>5, <1>6 DEF StartupInv

\* No step of the script, of Docker, of a child or of the user breaks it.
LEMMA StepInv == StartupInv /\ [Next]_vars => StartupInv'
  <1> SUFFICES ASSUME StartupInv, [Next]_vars PROVE StartupInv'
    OBVIOUS
  <1> USE StartupAssumption
  <1>0. /\ env \in Deployments /\ env.net \in Networks
        /\ wallet \in [Networks -> {"none", "test", "user"}]
        /\ \A n \in Networks : wallet[n] = "test" => n = Chipnet
        /\ keys \in [Networks -> {"none", "env", "user"}]
        /\ \A n \in Networks : keys[n] # "none" => wallet[n] # "none"
        /\ plugin \in [Networks -> {"none", "good", "bad", "link", "directory"}]
    BY DEF StartupInv, TypeOK
  <1>1. ASSUME Up PROVE StartupInv'
    <2>1. TypeOK'
      BY <1>1 DEF Up, volume, StartupInv, TypeOK, Untrapped
    <2>2. Written'
      BY <1>1 DEF Up, StartupInv, Written, Configured, Selected, Credentialed, Fused, volume
    <2>3. Rooted'
      BY <1>1 DEF Up, StartupInv, TypeOK, Rooted, Sound, HoldsData, OwnedByWallet, Linked,
         Commands, volume
    <2> QED
      BY <2>1, <2>2, <2>3 DEF StartupInv
  <1>2. ASSUME Kill PROVE StartupInv'
    BY <1>2, KilledInv DEF Kill
  <1>3. ASSUME Term PROVE StartupInv'
    <2>1. CASE pc = "stop"
      <3>1. term' \in {"no", "lost", "pending"}
        BY <1>3, <2>1 DEF Term, StartupInv, TypeOK
      <3> QED
        BY <1>3, <2>1, <3>1, KilledInv DEF Term
    <2>2. CASE pc # "stop"
      <3>1. /\ UNCHANGED <<origin, root, conf, wallet, keys, plugin, env, pc, children, asked>>
            /\ term' \in {"lost", "pending"}
        BY <1>3, <2>2 DEF Term
      <3>2. TypeOK'
        BY <3>1 DEF StartupInv, TypeOK
      <3>3. Written'
        BY <3>1 DEF StartupInv, Written
      <3>4. Rooted'
        BY <3>1 DEF StartupInv, Rooted, Sound, HoldsData, OwnedByWallet
      <3> QED
        BY <3>2, <3>3, <3>4 DEF StartupInv
    <2> QED
      BY <2>1, <2>2
  <1>4. ASSUME CheckEnvironment PROVE StartupInv'
    <2>1. TypeOK'
      BY <1>4 DEF CheckEnvironment, StartupInv, TypeOK, Untrapped, Commands, volume, process,
         counts, At, Frame
    <2>2. Written'
      BY <1>4 DEF CheckEnvironment, StartupInv, Written, Configured, Selected, Credentialed,
         Fused, volume, process, counts, At, Frame
    <2>3. Rooted'
      BY <1>4 DEF CheckEnvironment, StartupInv, TypeOK, Rooted, Sound, HoldsData, OwnedByWallet,
         Linked, Untrapped, Commands, volume, process, counts, At, Frame
    <2> QED
      BY <2>1, <2>2, <2>3 DEF StartupInv
  <1>5. ASSUME Inspect PROVE StartupInv'
    <2>1. TypeOK'
      BY <1>5 DEF Inspect, StartupInv, TypeOK, Untrapped, Commands, volume, process, counts, At,
         Frame, Quit
    <2>2. Written'
      BY <1>5 DEF Inspect, StartupInv, Written, Configured, Selected, Credentialed, Fused,
         volume, process, counts, At, Frame, Quit
    <2>3. Rooted'
      BY <1>5 DEF Inspect, StartupInv, TypeOK, Rooted, Sound, HoldsData, OwnedByWallet, Linked,
         Untrapped, Commands, volume, process, counts, At, Frame, Quit
    <2> QED
      BY <2>1, <2>2, <2>3 DEF StartupInv
  <1>6. ASSUME TruncateMarker PROVE StartupInv'
    <2>1. TypeOK'
      BY <1>6 DEF TruncateMarker, StartupInv, TypeOK, Untrapped, Commands, process, counts, At,
         Frame
    <2>2. Written'
      BY <1>6 DEF TruncateMarker, StartupInv, Written, Configured, Selected, Credentialed,
         Fused,
         process, counts, At, Frame
    <2>3. Rooted'
      BY <1>6 DEF TruncateMarker, StartupInv, TypeOK, Rooted, Sound, HoldsData, OwnedByWallet,
         Linked, Untrapped, Commands, process, counts, At, Frame
    <2> QED
      BY <2>1, <2>2, <2>3 DEF StartupInv
  <1>7. ASSUME WriteMarker PROVE StartupInv'
    <2>1. TypeOK'
      BY <1>7 DEF WriteMarker, StartupInv, TypeOK, Untrapped, Commands, process, counts, At,
         Frame
    <2>2. Written'
      BY <1>7 DEF WriteMarker, StartupInv, Written, Configured, Selected, Credentialed, Fused,
         process, counts, At, Frame
    <2>3. Rooted'
      BY <1>7 DEF WriteMarker, StartupInv, TypeOK, Rooted, Sound, HoldsData, OwnedByWallet,
         Linked, Untrapped, Commands, process, counts, At, Frame
    <2> QED
      BY <2>1, <2>2, <2>3 DEF StartupInv
  <1>8. ASSUME TakeOver PROVE StartupInv'
    <2>1. TypeOK'
      BY <1>8 DEF TakeOver, StartupInv, TypeOK, Untrapped, Commands, process, counts, At, Frame
    <2>2. Written'
      BY <1>8 DEF TakeOver, StartupInv, Written, Configured, Selected, Credentialed, Fused,
         process, counts, At, Frame
    <2>3. Rooted'
      BY <1>8 DEF TakeOver, StartupInv, TypeOK, Rooted, Sound, HoldsData, OwnedByWallet, Linked,
         Untrapped, Commands, process, counts, At, Frame
    <2> QED
      BY <2>1, <2>2, <2>3 DEF StartupInv
  <1>9. ASSUME CheckOwner PROVE StartupInv'
    <2>1. TypeOK'
      BY <1>9 DEF CheckOwner, OwnerChecked, StartupInv, TypeOK, Untrapped, Commands, volume, process, counts,
         At, Frame, Quit
    <2>2. Written'
      BY <1>9 DEF CheckOwner, OwnerChecked, StartupInv, Written, Configured, Selected, Credentialed, Fused,
         volume, process, counts, At, Frame, Quit
    <2>3. Rooted'
      BY <1>9 DEF CheckOwner, OwnerChecked, StartupInv, TypeOK, Rooted, Sound, HoldsData, OwnedByWallet,
         Linked, Untrapped, Commands, volume, process, counts, At, Frame, Quit
    <2> QED
      BY <2>1, <2>2, <2>3 DEF StartupInv
  <1>10. ASSUME VerifyRoot PROVE StartupInv'
    <2>1. TypeOK'
      BY <1>10 DEF VerifyRoot, OwnerChecked, StartupInv, TypeOK, Untrapped, Commands, volume, process, counts,
         At, Frame
    <2>2. Written'
      BY <1>10 DEF VerifyRoot, OwnerChecked, StartupInv, Written, Configured, Selected, Credentialed, Fused,
         volume, process, counts, At, Frame
    <2>3. Rooted'
      BY <1>10 DEF VerifyRoot, OwnerChecked, StartupInv, TypeOK, Rooted, Sound, HoldsData, OwnedByWallet,
         Linked, Untrapped, Commands, volume, process, counts, At, Frame
    <2> QED
      BY <2>1, <2>2, <2>3 DEF StartupInv
  <1>11. ASSUME EnsureConfig PROVE StartupInv'
    <2>3. Rooted'
      BY <1>11 DEF EnsureConfig, StartupInv, TypeOK, Rooted, Sound, HoldsData, OwnedByWallet,
         Linked, Untrapped, Commands, volume, process, counts, At, Frame, Exit, Net,
         Config
    <2>1. CASE conf[env.net] = Torn /\ pc' = "stop" /\ UNCHANGED volume
      <3>1. TypeOK'
        BY <1>11, <2>1 DEF EnsureConfig, At, Frame, process, volume, StartupInv, TypeOK
      <3>2. Written'
        BY <1>11, <2>1 DEF EnsureConfig, At, Frame, Configured, Selected, Credentialed, Fused,
           StartupInv, Written
      <3> QED
        BY <3>1, <3>2, <2>3 DEF StartupInv
    <2>2. CASE conf[env.net] # Torn /\ pc' = "wallet"
      <3> DEFINE old == IF conf[env.net] = NoConfig THEN NewConfig ELSE conf[env.net]
      <3> DEFINE c == [old EXCEPT !.proxy = Proxy(env)]
      <3>1. old \in Configs
        <4>1. NewConfig \in Configs
          BY DEF NewConfig, Configs
        <4>2. conf[env.net] \in Configs \cup {NoConfig, Torn}
          BY <1>0 DEF StartupInv, TypeOK
        <4> QED
          BY <2>2, <4>1, <4>2
      <3>2. c \in Configs /\ c.proxy = Proxy(env)
        BY <3>1 DEF Configs, Proxy
      <3>3. Config(c) /\ pc = "config"
        BY <1>11, <2>2 DEF EnsureConfig, At, Net
      <3> HIDE DEF c
      <3>4. /\ conf' \in [Networks -> Configs \cup {NoConfig, Torn}]
            /\ conf'[env.net] = c
            /\ root' = root /\ wallet' = wallet /\ keys' = keys /\ plugin' = plugin
        BY <3>2, <3>3, Rewritten DEF StartupInv
      <3>5. UNCHANGED <<origin, env, children, asked, term>>
        BY <1>11 DEF EnsureConfig, Frame, process
      <3>6. TypeOK'
        BY <2>2, <3>3, <3>4, <3>5 DEF StartupInv, TypeOK, Commands
      <3>7. Written'
        BY <2>2, <3>2, <3>3, <3>4, <3>5
           DEF StartupInv, Written, Configured, Selected, Credentialed, Fused, Proxy
      <3> QED
        BY <3>6, <3>7, <2>3 DEF StartupInv
    <2> QED
      BY <1>11, <2>1, <2>2 DEF EnsureConfig, Exit, Net
  <1>12. ASSUME EnsureTestWallet PROVE StartupInv'
    <2>1. TypeOK'
      <3>1. env.create => env.net = Chipnet
        BY <1>12 DEF EnsureTestWallet, At, StartupInv, Written, Acceptable
      <3>2. CASE UNCHANGED volume
        BY <1>12, <3>2 DEF EnsureTestWallet, At, Exit, Frame, process, volume, StartupInv,
           TypeOK, Commands
      <3>3. CASE wallet' = [wallet EXCEPT ![env.net] = "test"] /\ env.create
                 /\ UNCHANGED <<root, conf, keys, plugin>> /\ pc' = "last"
        <4>1. /\ wallet' \in [Networks -> {"none", "test", "user"}]
              /\ \A n \in Networks : wallet'[n] = "test" => n = Chipnet
              /\ \A n \in Networks : keys[n] # "none" => wallet'[n] # "none"
          BY <1>0, <3>1, <3>3
        <4>2. pc = "wallet" /\ UNCHANGED <<origin, env, children, asked, term>>
          BY <1>12 DEF EnsureTestWallet, At, Frame, process
        <4> QED
          BY <3>3, <4>1, <4>2 DEF StartupInv, TypeOK, Commands
      <3> QED
        BY <1>12, <3>2, <3>3 DEF EnsureTestWallet, Net
    <2>2. Written'
      BY <1>12 DEF EnsureTestWallet, StartupInv, Written, Configured, Selected, Credentialed,
         Fused, volume, process, counts, At, Frame, Exit, Net
    <2>3. Rooted'
      BY <1>12 DEF EnsureTestWallet, StartupInv, TypeOK, Rooted, Sound, HoldsData,
         OwnedByWallet,
         Linked, Untrapped, Commands, volume, process, counts, At, Frame, Exit, Net
    <2> QED
      BY <2>1, <2>2, <2>3 DEF StartupInv
  <1>13. ASSUME SelectTestWallet PROVE StartupInv'
    <2> DEFINE c == [conf[env.net] EXCEPT !.last = "test"]
    <2>1. pc = "last" /\ conf[env.net] \in Configs
      BY <1>13 DEF SelectTestWallet, At, StartupInv, Written, Configured, Selected,
         Credentialed, Fused
    <2>2. /\ c \in Configs /\ c.last = "test"
          /\ c.proxy = conf[env.net].proxy
          /\ c.rpc = conf[env.net].rpc /\ c.fusion = conf[env.net].fusion
      BY <2>1, StartupAssumption DEF Configs, Proxy, StartupInv, TypeOK
    <2>3. Config(c) /\ pc' = "rpc"
      BY <1>13 DEF SelectTestWallet, Net
    <2> HIDE DEF c
    <2>4. /\ conf' \in [Networks -> Configs \cup {NoConfig, Torn}]
          /\ conf'[env.net] = c /\ c # NoConfig
          /\ root' = root /\ wallet' = wallet /\ keys' = keys /\ plugin' = plugin
      BY <2>2, <2>3, Rewritten DEF StartupInv
    <2>5. UNCHANGED <<origin, env, children, asked, term>>
      BY <1>13 DEF SelectTestWallet, Frame, process
    <2>6. TypeOK'
      BY <2>1, <2>3, <2>4, <2>5 DEF StartupInv, TypeOK, Untrapped, Commands
    <2>7. Written'
      BY <2>1, <2>2, <2>3, <2>4, <2>5
         DEF StartupInv, Written, Configured, Selected, Credentialed, Fused, Proxy
    <2>8. Rooted'
      BY <2>1, <2>3, <2>4, <2>5 DEF StartupInv, Rooted, Sound, HoldsData, OwnedByWallet,
         Linked, Commands
    <2> QED
      BY <2>6, <2>7, <2>8 DEF StartupInv
  <1>14. ASSUME ConfigureJsonrpc PROVE StartupInv'
    <2> DEFINE c == [conf[env.net] EXCEPT !.rpc = env.rpc]
    <2>1. pc = "rpc" /\ conf[env.net] \in Configs
      BY <1>14 DEF ConfigureJsonrpc, At, StartupInv, Written, Configured, Selected,
         Credentialed, Fused
    <2>2. /\ c \in Configs /\ c.rpc = env.rpc
          /\ c.proxy = conf[env.net].proxy /\ c.last = conf[env.net].last /\ c.fusion = conf[env.net].fusion
      BY <2>1, StartupAssumption DEF Configs, Proxy, StartupInv, TypeOK
    <2>3. Config(c) /\ pc' = "fusion"
      BY <1>14 DEF ConfigureJsonrpc, Net
    <2> HIDE DEF c
    <2>4. /\ conf' \in [Networks -> Configs \cup {NoConfig, Torn}]
          /\ conf'[env.net] = c /\ c # NoConfig
          /\ root' = root /\ wallet' = wallet /\ keys' = keys /\ plugin' = plugin
      BY <2>2, <2>3, Rewritten DEF StartupInv
    <2>5. UNCHANGED <<origin, env, children, asked, term>>
      BY <1>14 DEF ConfigureJsonrpc, Frame, process
    <2>6. TypeOK'
      BY <2>1, <2>3, <2>4, <2>5 DEF StartupInv, TypeOK, Untrapped, Commands
    <2>7. Written'
      BY <2>1, <2>2, <2>3, <2>4, <2>5
         DEF StartupInv, Written, Configured, Selected, Credentialed, Fused, Proxy
    <2>8. Rooted'
      BY <2>1, <2>3, <2>4, <2>5 DEF StartupInv, Rooted, Sound, HoldsData, OwnedByWallet,
         Linked, Commands
    <2> QED
      BY <2>6, <2>7, <2>8 DEF StartupInv
  <1>15. ASSUME ConfigureFusion PROVE StartupInv'
    <2> DEFINE c == [conf[env.net] EXCEPT !.fusion = IF env.fusion THEN "on" ELSE "off"]
    <2>1. pc = "fusion" /\ conf[env.net] \in Configs
      BY <1>15 DEF ConfigureFusion, At, StartupInv, Written, Configured, Selected,
         Credentialed, Fused
    <2>2. /\ c \in Configs /\ c.fusion = IF env.fusion THEN "on" ELSE "off"
          /\ c.proxy = conf[env.net].proxy /\ c.last = conf[env.net].last /\ c.rpc = conf[env.net].rpc
      BY <2>1, StartupAssumption DEF Configs, Proxy, StartupInv, TypeOK
    <2>3. Config(c) /\ pc' = "plugin"
      BY <1>15 DEF ConfigureFusion, Net
    <2> HIDE DEF c
    <2>4. /\ conf' \in [Networks -> Configs \cup {NoConfig, Torn}]
          /\ conf'[env.net] = c /\ c # NoConfig
          /\ root' = root /\ wallet' = wallet /\ keys' = keys /\ plugin' = plugin
      BY <2>2, <2>3, Rewritten DEF StartupInv
    <2>5. UNCHANGED <<origin, env, children, asked, term>>
      BY <1>15 DEF ConfigureFusion, Frame, process
    <2>6. TypeOK'
      BY <2>1, <2>3, <2>4, <2>5 DEF StartupInv, TypeOK, Untrapped, Commands
    <2>7. Written'
      BY <2>1, <2>2, <2>3, <2>4, <2>5
         DEF StartupInv, Written, Configured, Selected, Credentialed, Fused, Proxy
    <2>8. Rooted'
      BY <2>1, <2>3, <2>4, <2>5 DEF StartupInv, Rooted, Sound, HoldsData, OwnedByWallet,
         Linked, Commands
    <2> QED
      BY <2>6, <2>7, <2>8 DEF StartupInv
  <1>16. ASSUME InspectPlugin PROVE StartupInv'
    <2>1. TypeOK'
      <3>1. plugin' \in [Networks -> {"none", "good", "bad", "link", "directory"}]
        BY <1>0, <1>16 DEF InspectPlugin, Net, volume
      <3> QED
        <4>1. /\ pc = "plugin" /\ pc' \in {"stop", "enable", "install"}
              /\ UNCHANGED <<origin, root, conf, wallet, keys, env, children, asked, term>>
          BY <1>16 DEF InspectPlugin, At, Exit, Frame, process, volume
        <4> QED
          BY <3>1, <4>1 DEF StartupInv, TypeOK, Commands
    <2>2. Written'
      BY <1>16 DEF InspectPlugin, StartupInv, Written, Configured, Selected, Credentialed,
         Fused,
         volume, process, counts, At, Frame, Exit, Net
    <2>3. Rooted'
      BY <1>16 DEF InspectPlugin, StartupInv, TypeOK, Rooted, Sound, HoldsData, OwnedByWallet,
         Linked, Untrapped, Commands, volume, process, counts, At, Frame, Exit, Net
    <2> QED
      BY <2>1, <2>2, <2>3 DEF StartupInv
  <1>17. ASSUME InstallPlugin PROVE StartupInv'
    <2>1. TypeOK'
      <3>1. plugin' \in [Networks -> {"none", "good", "bad", "link", "directory"}]
        BY <1>0, <1>17 DEF InstallPlugin, Net, volume
      <3> QED
        <4>1. /\ pc = "install" /\ pc' \in {"stop", "enable"}
              /\ UNCHANGED <<origin, root, conf, wallet, keys, env, children, asked, term>>
          BY <1>17 DEF InstallPlugin, At, Exit, Frame, process, volume
        <4> QED
          BY <3>1, <4>1 DEF StartupInv, TypeOK, Commands
    <2>2. Written'
      <3>1. /\ pc = "install" /\ UNCHANGED <<conf, env>>
            /\ \/ pc' = "stop"
               \/ pc' = "enable" /\ plugin' = [plugin EXCEPT ![env.net] = "good"]
        BY <1>17 DEF InstallPlugin, At, Exit, Frame, volume, Net
      <3>2. pc' = "enable" => plugin'[env.net] = "good"
        BY <1>0, <3>1
      <3> QED
        BY <3>1, <3>2 DEF StartupInv, Written, Configured, Selected, Credentialed, Fused
    <2>3. Rooted'
      BY <1>17 DEF InstallPlugin, StartupInv, TypeOK, Rooted, Sound, HoldsData, OwnedByWallet,
         Linked, Untrapped, Commands, volume, process, counts, At, Frame, Exit, Net
    <2> QED
      BY <2>1, <2>2, <2>3 DEF StartupInv
  <1>18. ASSUME EnablePlugin PROVE StartupInv'
    <2> DEFINE c == [conf[env.net] EXCEPT !.plug = "on"]
    <2>1. pc = "enable" /\ conf[env.net] \in Configs
      BY <1>18 DEF EnablePlugin, At, StartupInv, Written, Configured, Selected, Credentialed,
         Fused
    <2>2. /\ c \in Configs /\ c.plug = "on"
          /\ c.proxy = conf[env.net].proxy /\ c.last = conf[env.net].last
          /\ c.rpc = conf[env.net].rpc /\ c.fusion = conf[env.net].fusion
      BY <2>1, StartupAssumption DEF Configs, Proxy, StartupInv, TypeOK
    <2>3. Config(c) /\ pc' = "start"
      BY <1>18 DEF EnablePlugin, Net
    <2> HIDE DEF c
    <2>4. /\ conf' \in [Networks -> Configs \cup {NoConfig, Torn}]
          /\ conf'[env.net] = c /\ c # NoConfig
          /\ root' = root /\ wallet' = wallet /\ keys' = keys /\ plugin' = plugin
      BY <2>2, <2>3, Rewritten DEF StartupInv
    <2>5. UNCHANGED <<origin, env, children, asked, term>>
      BY <1>18 DEF EnablePlugin, Frame, process
    <2>6. TypeOK'
      BY <2>1, <2>3, <2>4, <2>5 DEF StartupInv, TypeOK, Untrapped, Commands
    <2>7. Written'
      BY <2>1, <2>2, <2>3, <2>4, <2>5
         DEF StartupInv, Written, Configured, Selected, Credentialed, Fused, Proxy
    <2>8. Rooted'
      BY <2>1, <2>3, <2>4, <2>5 DEF StartupInv, Rooted, Sound, HoldsData, OwnedByWallet,
         Linked, Commands
    <2> QED
      BY <2>6, <2>7, <2>8 DEF StartupInv
  <1>19. ASSUME StartNext PROVE StartupInv'
    <2>1. TypeOK'
      <3>1. children' \subseteq {"Xvfb", "openbox", "x11vnc", "websockify", "wallet"}
        <4>1. \A i \in DOMAIN Startups :
                 Startups[i] \in {"Xvfb", "openbox", "x11vnc", "websockify", "wallet"}
          <5>1. CASE env.mode = "headless"
            BY <5>1 DEF Startups
          <5>2. CASE env.mode # "headless"
            BY <5>2 DEF Startups
          <5> QED
            BY <5>1, <5>2
        <4>2. \/ children' = children
              \/ \E i \in DOMAIN Startups : children' = children \cup {Startups[i]}
          BY <1>19 DEF StartNext
        <4> QED
          <5>1. children \subseteq {"Xvfb", "openbox", "x11vnc", "websockify", "wallet"}
            BY DEF StartupInv, TypeOK
          <5>2. CASE children' = children
            BY <5>1, <5>2
          <5>3. ASSUME NEW i \in DOMAIN Startups, children' = children \cup {Startups[i]}
                PROVE  children' \subseteq {"Xvfb", "openbox", "x11vnc", "websockify", "wallet"}
            BY <4>1, <5>1, <5>3
          <5> QED
            BY <4>2, <5>2, <5>3
      <3>2. pc' \in {"start", "ready", "running", "stop"} /\ asked = ""
        BY <1>19 DEF StartNext, At, Exit, StartupInv, TypeOK
      <3> QED
        BY <1>19, <3>1, <3>2 DEF StartNext, volume, counts, StartupInv, TypeOK, Commands
    <2>2. Written'
      BY <1>19 DEF StartNext, StartupInv, Written, Configured, Selected, Credentialed, Fused,
         volume, counts, At, Exit
    <2>3. Rooted'
      BY <1>19 DEF StartNext, StartupInv, TypeOK, Rooted, Sound, HoldsData, OwnedByWallet,
         Linked, Untrapped, Commands, volume, counts, At, Exit
    <2> QED
      BY <2>1, <2>2, <2>3 DEF StartupInv
  <1>20. ASSUME DaemonReady PROVE StartupInv'
    <2>1. TypeOK'
      BY <1>20 DEF DaemonReady, StartupInv, TypeOK, Untrapped, Commands, volume, process,
         counts,
         At, Frame
    <2>2. Written'
      BY <1>20 DEF DaemonReady, StartupInv, Written, Configured, Selected, Credentialed, Fused,
         volume, process, counts, At, Frame
    <2>3. Rooted'
      BY <1>20 DEF DaemonReady, StartupInv, TypeOK, Rooted, Sound, HoldsData, OwnedByWallet,
         Linked, Untrapped, Commands, volume, process, counts, At, Frame
    <2> QED
      BY <2>1, <2>2, <2>3 DEF StartupInv
  <1>21. ASSUME WalletEnded PROVE StartupInv'
    <2>1. TypeOK'
      BY <1>21 DEF WalletEnded, StartupInv, TypeOK, Untrapped, Commands, volume, process,
         counts,
         At, Frame, Exit
    <2>2. Written'
      BY <1>21 DEF WalletEnded, StartupInv, Written, Configured, Selected, Credentialed, Fused,
         volume, process, counts, At, Frame, Exit
    <2>3. Rooted'
      BY <1>21 DEF WalletEnded, StartupInv, TypeOK, Rooted, Sound, HoldsData, OwnedByWallet,
         Linked, Untrapped, Commands, volume, process, counts, At, Frame, Exit
    <2> QED
      BY <2>1, <2>2, <2>3 DEF StartupInv
  <1>22. ASSUME Trapped PROVE StartupInv'
    <2>1. TypeOK'
      BY <1>22 DEF Trapped, StartupInv, TypeOK, Untrapped, Commands, volume, process, counts,
         Frame, Exit
    <2>2. Written'
      BY <1>22 DEF Trapped, StartupInv, TypeOK, Untrapped, Commands, Written, Configured,
         Selected, Credentialed, Fused,
         volume, process, counts, Frame, Exit
    <2>3. Rooted'
      BY <1>22 DEF Trapped, StartupInv, TypeOK, Rooted, Sound, HoldsData, OwnedByWallet, Linked,
         Untrapped, Commands, volume, process, counts, Frame, Exit
    <2> QED
      BY <2>1, <2>2, <2>3 DEF StartupInv
  <1>23. ASSUME StopNext PROVE StartupInv'
    <2>1. TypeOK'
      BY <1>23 DEF StopNext, StartupInv, TypeOK, Untrapped, Commands, volume, counts
    <2>2. Written'
      BY <1>23 DEF StopNext, StartupInv, Written, Configured, Selected, Credentialed, Fused,
         volume, counts
    <2>3. Rooted'
      BY <1>23 DEF StopNext, StartupInv, TypeOK, Rooted, Sound, HoldsData, OwnedByWallet,
         Linked,
         Untrapped, Commands, volume, counts
    <2> QED
      BY <2>1, <2>2, <2>3 DEF StartupInv
  <1>24. ASSUME Reap PROVE StartupInv'
    <2>1. WalletKilled
      BY <1>24 DEF Reap, WalletKilled
    <2>2. term' \in {"no", "lost", "pending"} /\ pc' = "stop" /\ pc = "stop"
      BY <1>24 DEF Reap, StartupInv, TypeOK
    <2> QED
      BY <1>24, <2>1, <2>2, KilledInv DEF Reap
  <1>25. ASSUME CleanedUp PROVE StartupInv'
    <2>1. TypeOK'
      BY <1>25 DEF CleanedUp, StartupInv, TypeOK, Untrapped, Commands, volume, process, counts,
         Frame, Quit
    <2>2. Written'
      BY <1>25 DEF CleanedUp, StartupInv, Written, Configured, Selected, Credentialed, Fused,
         volume, process, counts, Frame, Quit
    <2>3. Rooted'
      BY <1>25 DEF CleanedUp, StartupInv, TypeOK, Rooted, Sound, HoldsData, OwnedByWallet,
         Linked, Untrapped, Commands, volume, process, counts, Frame, Quit
    <2> QED
      BY <2>1, <2>2, <2>3 DEF StartupInv
  <1>26. ASSUME OpenWallet PROVE StartupInv'
    <2>1. TypeOK'
      <3>1. /\ keys' \in [Networks -> {"none", "env", "user"}]
            /\ \A n \in Networks : keys'[n] # "none" => wallet[n] # "none"
        BY <1>0, <1>26 DEF OpenWallet, Net, StartupInv, TypeOK
      <3> QED
        <4>1. UNCHANGED <<origin, root, conf, wallet, plugin, env, pc, children, asked, term>>
          BY <1>26 DEF OpenWallet, process
        <4> QED
          BY <3>1, <4>1 DEF StartupInv, TypeOK
    <2>2. Written'
      BY <1>26 DEF OpenWallet, StartupInv, Written, Configured, Selected, Credentialed, Fused,
         process, counts, Net
    <2>3. Rooted'
      BY <1>26 DEF OpenWallet, StartupInv, TypeOK, Rooted, Sound, HoldsData, OwnedByWallet,
         Linked, Untrapped, Commands, process, counts, Net
    <2> QED
      BY <2>1, <2>2, <2>3 DEF StartupInv
  <1>27. ASSUME UserEdits PROVE StartupInv'
    <2>1. TypeOK'
      <3>1. conf' \in [Networks -> Configs \cup {NoConfig, Torn}]
        <4>1. CASE conf[env.net] \in Configs
          <5>1. \A c \in Configs : Config(c) => conf' \in [Networks -> Configs \cup {NoConfig, Torn}]
            BY Rewritten DEF StartupInv
          <5>2. \/ UNCHANGED conf
                \/ \E c \in Configs : Config(c)
            BY <1>27, <4>1, OneField DEF UserEdits, Net
          <5> QED
            BY <5>1, <5>2 DEF StartupInv, TypeOK
        <4>2. CASE UNCHANGED conf
          BY <4>2 DEF StartupInv, TypeOK
        <4> QED
          BY <1>27, <4>1, <4>2 DEF UserEdits, Net
      <3>2. /\ wallet' \in [Networks -> {"none", "test", "user"}]
            /\ \A n \in Networks : wallet'[n] = "test" => n = Chipnet
            /\ keys' \in [Networks -> {"none", "env", "user"}]
            /\ \A n \in Networks : keys'[n] # "none" => wallet'[n] # "none"
            /\ plugin' \in [Networks -> {"none", "good", "bad", "link", "directory"}]
            /\ root' = root
        <4>1. CASE UNCHANGED <<root, wallet, keys, plugin>>
          BY <1>0, <4>1
        <4>2. CASE wallet[env.net] = "none" /\ wallet' = [wallet EXCEPT ![env.net] = "user"]
                   /\ UNCHANGED <<root, keys, plugin>>
          BY <1>0, <4>2
        <4>3. CASE wallet[env.net] # "none" /\ keys' = [keys EXCEPT ![env.net] = "user"]
                   /\ UNCHANGED <<root, wallet, plugin>>
          BY <1>0, <4>3
        <4>4. CASE /\ \E x \in {"none", "bad", "link", "directory"} :
                        plugin' = [plugin EXCEPT ![env.net] = x]
                   /\ UNCHANGED <<root, wallet, keys>>
          BY <1>0, <4>4
        <4> QED
          BY <1>27, <4>1, <4>2, <4>3, <4>4 DEF UserEdits, Config, Net
      <3> QED
        BY <1>27, <3>1, <3>2 DEF UserEdits, process, StartupInv, TypeOK
    <2>2. Written'
      BY <1>27 DEF UserEdits, StartupInv, Rooted, Written, Configured, Selected, Credentialed,
         Fused, process, Net, Config
    <2>3. Rooted'
      BY <1>27 DEF UserEdits, StartupInv, TypeOK, Rooted, Sound, HoldsData, OwnedByWallet,
         Linked, Untrapped, Commands, process, Net, Config
    <2> QED
      BY <2>1, <2>2, <2>3 DEF StartupInv
  <1>28. ASSUME NEW c \in children, ChildEnds(c) PROVE StartupInv'
    <2>1. TypeOK'
      BY <1>28 DEF ChildEnds, StartupInv, TypeOK, Untrapped, Commands, volume, counts
    <2>2. Written'
      BY <1>28 DEF ChildEnds, StartupInv, Written, Configured, Selected, Credentialed, Fused,
         volume, counts
    <2>3. Rooted'
      BY <1>28 DEF ChildEnds, StartupInv, TypeOK, Rooted, Sound, HoldsData, OwnedByWallet,
         Linked, Untrapped, Commands, volume, counts
    <2> QED
      BY <2>1, <2>2, <2>3 DEF StartupInv
  <1>29. ASSUME UNCHANGED vars PROVE StartupInv'
    <2>1. TypeOK'
      <3>1. UNCHANGED <<origin, root, conf, wallet, keys, plugin, env, pc, children, asked, term>>
        BY <1>29 DEF vars, volume, process
      <3> QED
        BY <3>1, ZenonT(40) DEF StartupInv, TypeOK
    <2>2. Written'
      BY <1>29 DEF vars, StartupInv, Written, Configured, Selected, Credentialed, Fused, volume,
         process, counts
    <2>3. Rooted'
      BY <1>29 DEF vars, StartupInv, TypeOK, Rooted, Sound, HoldsData, OwnedByWallet, Linked,
         Untrapped, Commands, volume, process, counts
    <2> QED
      BY <2>1, <2>2, <2>3 DEF StartupInv
  <1> QED
    BY <1>1, <1>2, <1>3, <1>4, <1>5, <1>6, <1>7, <1>8, <1>9, <1>10, <1>11, <1>12, <1>13,
       <1>14, <1>15, <1>16, <1>17, <1>18, <1>19, <1>20, <1>21, <1>22, <1>23, <1>24, <1>25,
       <1>26, <1>27, <1>28, <1>29
       DEF Next, Entrypoint, Prepare

\* The inductive invariant: what has been written at each point of the script,
\* and on which volumes it gets there.
THEOREM StartupCorrect == Spec => []StartupInv
  BY InitialInv, StepInv, PTL DEF Spec

\* Type correctness: the volume, the script and its processes stay in their sets.
THEOREM TypeCorrect == Spec => []TypeOK
  <1>1. StartupInv => TypeOK
    BY DEF StartupInv
  <1> QED
    BY <1>1, StartupCorrect, PTL

\* A volume whose initialisation was cut holds nothing, for any number of
\* containers and kills (initialize_wallet_root).
THEOREM CutInitialisationsAreEmpty == Spec => []RefusalIsSafe
  <1>1. StartupInv => RefusalIsSafe
    BY DEF StartupInv, Rooted, Sound, RefusalIsSafe
  <1> QED
    BY <1>1, StartupCorrect, PTL

\* Only the entrypoint's last step of starting adds the wallet's process.
LEMMA StartsLast ==
  StartupInv /\ [Next]_vars /\ WalletStarts =>
    pc = "start" /\ UNCHANGED <<conf, plugin, env>>
  BY DEF Next, Entrypoint, Prepare, WalletStarts, Up, Kill, Term, CheckEnvironment, Inspect,
     TruncateMarker, WriteMarker, TakeOver, CheckOwner, VerifyRoot, EnsureConfig, EnsureTestWallet,
     SelectTestWallet, ConfigureJsonrpc, ConfigureFusion, InspectPlugin, InstallPlugin, EnablePlugin,
     StartNext, DaemonReady, WalletEnded, Trapped, StopNext, Reap, CleanedUp, OpenWallet, UserEdits,
     ChildEnds, WalletKilled, Frame, At, volume, process, counts, vars

\* Every wallet starts on its container's policy and with the manifest's plugin,
\* whatever is on the volume.
THEOREM PolicyHolds == Spec => PolicyInForce
  <1>1. StartupInv /\ [Next]_vars =>
          [WalletStarts => conf[Net] \in Configs /\ Obeys(conf[Net], env) /\ plugin[Net] = "good"]_vars
    BY StartsLast DEF StartupInv, Written, Configured, Selected, Credentialed, Fused, Net, Obeys
  <1> QED
    BY <1>1, StartupCorrect, PTL DEF Spec, PolicyInForce

\* Volumes that are not this wallet's are not written (initialize_wallet_root).
THEOREM ForeignHolds == Spec => ForeignUntouched
  <1>1. StartupInv /\ [Next]_vars /\ ~UNCHANGED volume =>
          pc \in {"mark", "write", "chown"} \cup (Commands \ {"verify"}) \/ "wallet" \in children
    BY DEF Next, Entrypoint, Prepare, Up, Kill, Term, CheckEnvironment, Inspect, TruncateMarker,
       WriteMarker, TakeOver, CheckOwner, VerifyRoot, EnsureConfig, EnsureTestWallet,
       SelectTestWallet, ConfigureJsonrpc, ConfigureFusion, InspectPlugin, InstallPlugin,
       EnablePlugin, StartNext, DaemonReady, WalletEnded, Trapped, StopNext, Reap, CleanedUp,
       OpenWallet, UserEdits, ChildEnds, WalletKilled, At, volume, vars, Commands
  <1>2. /\ StartupInv
        /\ pc \in {"mark", "write", "chown"} \cup (Commands \ {"verify"}) \/ "wallet" \in children
        => origin \notin {"unmarked", "marked", "linked", "chowned"}
    BY DEF StartupInv, Rooted, Sound, HoldsData
  <1>3. StartupInv /\ [Next]_vars =>
          [(origin \in {"unmarked", "marked", "linked", "chowned"}) => UNCHANGED volume]_vars
    BY <1>1, <1>2
  <1> QED
    BY <1>3, StartupCorrect, PTL DEF Spec, ForeignUntouched

\* What the user decided, over one step.
Kept ==
  /\ Outlives(wallet, {"test", "user"})
  /\ Outlives(keys, {"user"})
  /\ Outlives(conf, {Torn})
  /\ \A n \in Networks : conf[n] \in Configs /\ conf[n].lang = "user" =>
       conf'[n] = Torn \/ conf'[n].lang = "user"

\* A writer that keeps the language of the configuration it read keeps it all.
LEMMA WriterKeeps ==
  ASSUME TypeOK, NEW c \in Configs, Config(c), conf[Net] # Torn,
         conf[Net] \in Configs /\ conf[Net].lang = "user" => c.lang = "user"
  PROVE  Kept
  <1>1. \A n \in Networks : conf'[n] = IF n = Net THEN c ELSE conf[n]
    BY DEF TypeOK, Config
  <1>2. wallet' = wallet /\ keys' = keys
    BY DEF Config
  <1> QED
    BY <1>1, <1>2 DEF Kept, Outlives

\* A writer that sets one other field of a configuration it can read.
LEMMA FieldWriterKeeps ==
  ASSUME TypeOK, conf[Net] \in Configs, NEW c \in Configs, c.lang = conf[Net].lang, Config(c)
  PROVE  Kept
  <1>1. conf[Net] # Torn
    BY DEF Configs, Torn
  <1>2. conf[Net] \in Configs /\ conf[Net].lang = "user" => c.lang = "user"
    OBVIOUS
  <1> QED
    BY <1>1, <1>2, WriterKeeps

\* UserDataKept: no start under any environment, no kill and no wallet that
\* opens undoes what the user decided (ensure_config and its siblings rewrite
\* single keys of the file they read).
THEOREM UserDataIsKept == Spec => UserDataKept
  <1>1. ASSUME StartupInv, [Next]_vars PROVE Kept
    <2>1. /\ TypeOK /\ Net \in Networks /\ env \in Deployments
          /\ pc \in Configured => conf[Net] \in Configs
      <3>1. TypeOK /\ (pc \in Configured => conf[Net] \in Configs)
        BY <1>1 DEF StartupInv, Written, Net
      <3>2. env \in Deployments
        BY <3>1 DEF TypeOK
      <3> QED
        BY <3>1, <3>2, StartupAssumption DEF Net
    <2>2. CASE UNCHANGED <<conf, wallet, keys>>
      BY <2>2 DEF Kept, Outlives
    <2>3. CASE WalletKilled /\ UNCHANGED <<wallet, keys>>
      <3>1. CASE conf' = [conf EXCEPT ![env.net] = Torn]
        BY <2>1, <2>3, <3>1 DEF Kept, Outlives, TypeOK
      <3> QED
        BY <2>2, <2>3, <3>1 DEF WalletKilled
    <2>4. CASE EnsureConfig
      <3> DEFINE old == IF conf[Net] = NoConfig THEN NewConfig ELSE conf[Net]
      <3>1. CASE UNCHANGED volume
        BY <2>2, <3>1 DEF volume
      <3>2. CASE conf[Net] # Torn /\ Config([old EXCEPT !.proxy = Proxy(env)])
        <4>1. NewConfig \in Configs /\ NewConfig.lang = "env"
          BY DEF NewConfig, Configs
        <4>2. old \in Configs
          BY <2>1, <3>2, <4>1 DEF TypeOK
        <4>3. Proxy(env) \in {"tor", "none"}
          BY DEF Proxy
        <4>4. [old EXCEPT !.proxy = Proxy(env)] \in Configs
          BY <4>2, <4>3, OneField
        <4>5. conf[Net] \in Configs => conf[Net] # NoConfig
          BY DEF Configs, NoConfig
        <4>6. [old EXCEPT !.proxy = Proxy(env)].lang = old.lang
          BY <4>2 DEF Configs
        <4> QED
          BY <2>1, <3>2, <4>4, <4>5, <4>6, WriterKeeps
      <3> QED
        BY <2>4, <3>1, <3>2 DEF EnsureConfig
    <2>5. CASE EnsureTestWallet
      <3>1. CASE UNCHANGED volume
        BY <2>2, <3>1 DEF volume
      <3>2. CASE wallet[Net] = "none" /\ wallet' = [wallet EXCEPT ![Net] = "test"] /\ UNCHANGED <<conf, keys>>
        BY <2>1, <3>2 DEF Kept, Outlives, TypeOK
      <3> QED
        BY <2>5, <3>1, <3>2 DEF EnsureTestWallet
    <2>6. CASE SelectTestWallet
      <3>1. pc \in Configured /\ Config([conf[Net] EXCEPT !.last = "test"])
        BY <2>6 DEF SelectTestWallet, At, Configured
      <3>2. [conf[Net] EXCEPT !.last = "test"].lang = conf[Net].lang
        BY <2>1, <3>1 DEF Configs
      <3> QED
        BY <2>1, <3>1, <3>2, OneField, FieldWriterKeeps
    <2>7. CASE ConfigureJsonrpc
      <3>1. pc \in Configured /\ Config([conf[Net] EXCEPT !.rpc = env.rpc])
        BY <2>7 DEF ConfigureJsonrpc, At, Configured
      <3>2. [conf[Net] EXCEPT !.rpc = env.rpc].lang = conf[Net].lang
        BY <2>1, <3>1 DEF Configs
      <3>3. env.rpc \in {"unset", "off", "p1", "p2"}
        BY <2>1, StartupAssumption
      <3> QED
        BY <2>1, <3>1, <3>2, <3>3, OneField, FieldWriterKeeps
    <2>8. CASE ConfigureFusion
      <3> DEFINE fusion == IF env.fusion THEN "on" ELSE "off"
      <3>1. pc \in Configured /\ Config([conf[Net] EXCEPT !.fusion = fusion])
        BY <2>8 DEF ConfigureFusion, At, Configured
      <3>2. [conf[Net] EXCEPT !.fusion = fusion].lang = conf[Net].lang
        BY <2>1, <3>1 DEF Configs
      <3>3. fusion \in {"unset", "on", "off"}
        OBVIOUS
      <3> HIDE DEF fusion
      <3> QED
        BY <2>1, <3>1, <3>2, <3>3, OneField, FieldWriterKeeps
    <2>9. CASE EnablePlugin
      <3>1. pc \in Configured /\ Config([conf[Net] EXCEPT !.plug = "on"])
        BY <2>9 DEF EnablePlugin, At, Configured
      <3>2. [conf[Net] EXCEPT !.plug = "on"].lang = conf[Net].lang
        BY <2>1, <3>1 DEF Configs
      <3> QED
        BY <2>1, <3>1, <3>2, OneField, FieldWriterKeeps
    <2>10. CASE OpenWallet
      BY <2>1, <2>10 DEF OpenWallet, Kept, Outlives, TypeOK
    <2>11. CASE UserEdits
      <3>1. CASE conf[Net] \in Configs /\ Config([conf[Net] EXCEPT !.lang = "user"])
        <4>1. [conf[Net] EXCEPT !.lang = "user"].lang = "user" /\ conf[Net] # Torn
          BY <3>1 DEF Configs, Torn
        <4> QED
          BY <2>1, <3>1, <4>1, OneField, WriterKeeps
      <3>2. CASE conf[Net] \in Configs /\ Config([conf[Net] EXCEPT !.proxy = "user"])
        <4>1. [conf[Net] EXCEPT !.proxy = "user"].lang = conf[Net].lang
          BY <3>2 DEF Configs
        <4> QED
          BY <2>1, <3>2, <4>1, OneField, FieldWriterKeeps
      <3>3. CASE /\ conf[Net] \in Configs
                 /\ Config([conf[Net] EXCEPT !.fusion = IF @ = "on" THEN "off" ELSE "on"])
        <4> DEFINE fusion == IF conf[Net].fusion = "on" THEN "off" ELSE "on"
        <4>1. [conf[Net] EXCEPT !.fusion = fusion].lang = conf[Net].lang
          BY <3>3 DEF Configs
        <4>2. fusion \in {"unset", "on", "off"}
          OBVIOUS
        <4>3. Config([conf[Net] EXCEPT !.fusion = fusion])
          BY <3>3
        <4> HIDE DEF fusion
        <4> QED
          BY <2>1, <3>3, <4>1, <4>2, <4>3, OneField, FieldWriterKeeps
      <3>4. CASE conf[Net] \in Configs /\ Config([conf[Net] EXCEPT !.plug = "off"])
        <4>1. [conf[Net] EXCEPT !.plug = "off"].lang = conf[Net].lang
          BY <3>4 DEF Configs
        <4> QED
          BY <2>1, <3>4, <4>1, OneField, FieldWriterKeeps
      <3>5. CASE wallet[Net] = "none" /\ wallet' = [wallet EXCEPT ![Net] = "user"] /\ UNCHANGED <<conf, keys>>
        BY <2>1, <3>5 DEF Kept, Outlives, TypeOK
      <3>6. CASE keys' = [keys EXCEPT ![Net] = "user"] /\ UNCHANGED <<conf, wallet>>
        BY <2>1, <3>6 DEF Kept, Outlives, TypeOK
      <3> QED
        BY <2>2, <2>11, <3>1, <3>2, <3>3, <3>4, <3>5, <3>6 DEF UserEdits
    <2>12. CASE Prepare
      BY <2>2, <2>4, <2>5, <2>6, <2>7, <2>8, <2>9, <2>12
      DEF Prepare, CheckEnvironment, Inspect, TruncateMarker, WriteMarker, TakeOver, CheckOwner,
          VerifyRoot, InspectPlugin, InstallPlugin, volume
    <2>13. CASE Kill \/ Term \/ Reap
      BY <2>2, <2>3, <2>13 DEF Kill, Term, Reap
    <2>14. CASE Entrypoint \/ Up \/ \E c \in children : ChildEnds(c)
      BY <2>2, <2>12, <2>13, <2>14
      DEF Entrypoint, Up, ChildEnds, StartNext, DaemonReady, WalletEnded, Trapped, StopNext,
          CleanedUp, volume
    <2> QED
      BY <1>1, <2>2, <2>10, <2>11, <2>13, <2>14 DEF Next, vars, volume
  <1>2. StartupInv /\ [Next]_vars => [Kept]_vars
    BY <1>1
  <1>3. Spec => [][Kept]_vars
    BY <1>2, StartupCorrect, PTL DEF Spec
  <1> QED
    BY <1>3, PTL DEF UserDataKept, Kept

============================================================================
