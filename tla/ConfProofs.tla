----------------------------- MODULE ConfProofs -----------------------------
(***************************************************************************)
(* Proof that a plugin that is used in the foreground keeps its Confs in   *)
(* order (Registry), for any number of sessions and Confs: no instance of  *)
(* psftp.dll uses a Conf that is freed or that another one has made.       *)
(*                                                                         *)
(* Deleting a mapper frees its Confs, so a server that is configured and   *)
(* has no mapper must not point to one: Connect forgets the Conf of the    *)
(* mapper it replaces.  The one exception is a new connection, whose       *)
(* server is offered the Conf of "<edit connections>" to copy.  A server   *)
(* with a mapper may keep a dangling pointer on one side: entering it      *)
(* again reads the side of the plugin, a dialog the side of the DLL, and   *)
(* each of them leaves the other side dangling, which is why the two must  *)
(* not be mixed.                                                           *)
(***************************************************************************)
EXTENDS RegistryProofs

Foreground == "background" \notin habits /\ ~({"reopen", "dialog"} \subseteq habits)

Alone == \A t \in Background : thread[t] = "gone"

(* An instance may use a Conf, if there is one. *)
Mine(own, k, c) == c.conf # Null => c.conf \in DOMAIN own /\ own[c.conf] = k

Here == Current(Main)

(* The server of a new connection, on the way to its mapper. *)
Offering(k) == pc[Main] = "run" /\ op[Main] = "new" /\ k = Here

InstanceInv(k) ==
  /\ k \notin configured => myCfg[k].conf = Null
  /\ k \in configured /\ mapper[k] = "none" => myCfg[k].conf = Null \/ Offering(k)
  /\ IF "dialog" \in habits THEN mapper[k] # "none" => Mine(owner, k, cfg[k])
     ELSE Mine(owner, k, myCfg[k])

(* Functions that connect. *)
Connecting == {"get", "put", "mkdir", "renmov", "new"}

(* Functions that only some users call. *)
HabitInv ==
  /\ op[Main] \in {"new", "properties"} => "dialog" \in habits
  /\ op[Main] = "open" /\ pc[Main] \in {"lock", "run"} /\ "reopen" \notin habits
       => Here \notin configured
  /\ pc[Main] = "find" => op[Main] = "renmov"
  /\ pc[Main] = "lock" => op[Main] # "new"
  /\ pc[Main] \in {"connecting", "command", "stopped"} => op[Main] \in Connecting

(* What the function knows of the Confs it is about to use or to free. *)
PlaceInv ==
  /\ pc[Main] = "new dialog" => mapper[Temp] # "none"
  /\ Offering(Here) /\ mapper[Here] = "none" =>
       myCfg[Here].copyMe /\ Mine(owner, Temp, myCfg[Here])
  /\ pc[Main] = "connecting" =>
       /\ mapper[Here] # "none" /\ Mine(owner, Here, cfg[Here])
       /\ op[Main] # "new" => myCfg[Here].conf = Null
  /\ pc[Main] \in {"command", "stopped"} => mapper[Here] # "none"
  /\ pc[Main] = "loading" =>
       /\ Here \in configured /\ mapper[Here] # "none"
       /\ myCfg[Here].conf # Null /\ Mine(owner, Here, myCfg[Here])
       /\ "dialog" \in habits => cfg[Here].conf # myCfg[Here].conf
  /\ pc[Main] = "dialog" =>
       "dialog" \in habits /\ mapper[Here] # "none" /\ cfg[Here].conf # Null

ConfInv ==
  Foreground =>
    /\ Alone /\ misuse = {}
    /\ HabitInv /\ PlaceInv
    /\ \A k \in Instances : InstanceInv(k)

(* What the lemmas about the actions start from. *)
Setting == IInv /\ ConfTypes /\ Foreground /\ ConfInv /\ UNCHANGED habits

-----------------------------------------------------------------------------
LEMMA SettingTypes ==
  ASSUME Setting
  PROVE  /\ pc \in [Threads -> Places] /\ op \in [Threads -> Ops]
         /\ using \in [Threads -> Seq(Key)] /\ at \in [Threads -> {1, 2}]
         /\ mapper \in [Instances -> {"none", "loaded", "up", "broken"}]
         /\ myCfg \in [Instances -> Config] /\ cfg \in [Instances -> Config]
         /\ configured \subseteq Key /\ servers \subseteq Key
         /\ Main \in Threads /\ Alone /\ misuse = {} /\ HabitInv /\ PlaceInv
BY ThreadIds DEF Setting, IInv, ThreadTypes, ConfTypes, ConfInv

LEMMA HereTypes ==
  ASSUME Setting, ~Away(Main)
  PROVE  Here \in Key /\ Here \in Instances /\ Here # Temp
<1>1. Here \in Key /\ Here[2] = Main
  BY ThreadIds, CurrentIsOwn DEF Setting, Here
<1>. QED BY <1>1, ThreadIds, Types

(* A new Conf is nobody's. *)
LEMMA FreshIsFree ==
  ASSUME NEW n \in Fresh
  PROVE  /\ n \in ConfIds /\ n # Null /\ n \notin DOMAIN owner
         /\ \A k \in Instances : myCfg[k].conf # n /\ cfg[k].conf # n
BY RegistryAssumption DEF Fresh, Free

(* configure, for a Conf that the instance may use or has to copy.         *)
LEMMA DllConfigureMine ==
  ASSUME NEW k \in Instances, NEW c \in Config, NEW own,
         cfg \in [Instances -> Config],
         DOMAIN own \subseteq DOMAIN owner,
         Mine(own, k, c) \/ (c.copyMe /\ c.conf \in DOMAIN own),
         DllConfigure(k, c, own)
  PROVE  /\ misuse' = misuse
         /\ \A j \in Instances \ {k} : cfg'[j] = cfg[j]
         /\ cfg'[k].conf # Null /\ Mine(owner', k, cfg'[k])
         /\ \A d \in DOMAIN own : d \in DOMAIN owner' /\ owner'[d] = own[d]
         /\ cfg'[k].conf \in Fresh \/ cfg'[k].conf = c.conf
<1>1. CASE c.conf = Null
  <2>1. PICK n \in Fresh : /\ cfg' = [cfg EXCEPT ![k] = [c EXCEPT !.conf = n]]
                           /\ owner' = Made(own, n, k) /\ misuse' = misuse
    BY <1>1, Zenon DEF DllConfigure
  <2>2. n \notin DOMAIN own /\ n # Null
    BY FreshIsFree
  <2>3. cfg'[k].conf = n
    BY <2>1 DEF Config
  <2>4. /\ n \in DOMAIN owner' /\ owner'[n] = k
        /\ \A d \in DOMAIN own : d \in DOMAIN owner' /\ owner'[d] = own[d]
    BY <2>1, <2>2 DEF Made
  <2>. QED BY <2>1, <2>2, <2>3, <2>4 DEF Mine
<1>2. CASE c.conf # Null /\ c.copyMe
  <2>1. PICK n \in Fresh :
          /\ cfg' = [cfg EXCEPT ![k] = [conf |-> n, copyMe |-> FALSE]]
          /\ owner' = Made(own, n, k)
          /\ misuse' = misuse \cup (Wrong(own, k, c.conf) \ {"foreign"})
    BY <1>2, Zenon DEF DllConfigure
  <2>2. n \notin DOMAIN own /\ n # Null
    BY FreshIsFree
  <2>3. cfg'[k].conf = n
    BY <2>1
  <2>4. /\ n \in DOMAIN owner' /\ owner'[n] = k
        /\ \A d \in DOMAIN own : d \in DOMAIN owner' /\ owner'[d] = own[d]
    BY <2>1, <2>2 DEF Made
  <2>5. c.conf \in DOMAIN own
    BY <1>2 DEF Mine
  <2>6. misuse' = misuse
    BY <2>1, <2>5 DEF Wrong
  <2>. QED BY <2>1, <2>2, <2>3, <2>4, <2>6 DEF Mine
<1>3. CASE c.conf # Null /\ ~c.copyMe
  <2>1. /\ cfg' = [cfg EXCEPT ![k] = c] /\ owner' = own
        /\ misuse' = misuse \cup Wrong(own, k, c.conf)
    BY <1>3, Zenon DEF DllConfigure
  <2>2. Wrong(own, k, c.conf) = {}
    BY <1>3 DEF Mine, Wrong
  <2>. QED BY <1>3, <2>1, <2>2 DEF Mine
<1>. QED BY <1>1, <1>2, <1>3 DEF Config

(* An action spares all servers but those in ks.                           *)
Spares(ks) ==
  \A j \in Instances \ ks :
    /\ mapper'[j] = mapper[j] /\ myCfg'[j] = myCfg[j] /\ cfg'[j] = cfg[j]
    /\ j \in configured' <=> j \in configured
    /\ \A c \in DOMAIN owner : owner[c] = j => c \in DOMAIN owner' /\ owner'[c] = j

LEMMA SparedKeep ==
  ASSUME Setting, NEW ks, Spares(ks), NEW j \in Instances \ ks,
         Offering(j) => mapper[j] # "none"
  PROVE  InstanceInv(j)'
<1>1. InstanceInv(j)
  BY DEF Setting, ConfInv
<1>2. /\ mapper'[j] = mapper[j] /\ myCfg'[j] = myCfg[j] /\ cfg'[j] = cfg[j]
      /\ j \in configured' <=> j \in configured
  BY DEF Spares
<1>3. \A c : Mine(owner, j, c) => Mine(owner', j, c)
  BY DEF Mine, Spares
<1>. QED BY <1>1, <1>2, <1>3 DEF InstanceInv, Setting

LEMMA Together ==
  ASSUME Setting, NEW ks, Spares(ks), \A j \in Instances \ ks : Offering(j) => mapper[j] # "none",
         \A k \in ks : InstanceInv(k)',
         Alone', misuse' = {}, HabitInv', PlaceInv'
  PROVE  ConfInv'
<1>1. \A k \in Instances : InstanceInv(k)'
  BY SparedKeep
<1>. QED BY <1>1 DEF ConfInv

(* Only the main thread does anything, and no server can be reaped. *)
LEMMA MainStays ==
  ASSUME Setting, UNCHANGED thread
  PROVE  Alone'
BY SettingTypes DEF Alone

LEMMA OnlyMain ==
  ASSUME Setting, NEW t \in Threads, thread[t] = "running"
  PROVE  t = Main
BY SettingTypes DEF Alone, Threads

LEMMA FindServerSpares ==
  ASSUME Setting, thread[Main] = "running", NEW n \in Sessions,
         FindServer(ServerName(n, Main), n, Main)
  PROVE  Spares({}) /\ misuse' = misuse /\ configured' = configured
<1> DEFINE k == ServerName(n, Main)
<1>1. Reapable = {{}}
  <2>1. \A j \in servers : ~HasEnded(j[2])
    BY SettingTypes DEF HasEnded, Alone, Key, Threads
  <2>. QED BY <2>1 DEF Reapable
<1>2. PICK inherits \in BOOLEAN :
        /\ inherits => Main # Main
        /\ configured' = (configured \ {}) \cup { j \in {k} : inherits }
        /\ mapper' = Drop({}, mapper, "none")
        /\ myCfg' = [Drop({}, myCfg, NoConf) EXCEPT
                       ![k] = IF inherits THEN myCfg[<<n, Main>>] ELSE @]
        /\ cfg' = Drop({}, cfg, NoConf)
        /\ owner' = WithoutInstances({})
        /\ UNCHANGED misuse
  BY <1>1, Zenon DEF FindServer
<1> HIDE DEF k
<1>3. configured' = configured
  BY <1>2
<1>4. \A j \in Instances : mapper'[j] = mapper[j] /\ cfg'[j] = cfg[j] /\ myCfg'[j] = myCfg[j]
  BY <1>2, SettingTypes DEF Drop
<1>5. \A c \in DOMAIN owner : c \in DOMAIN owner' /\ owner'[c] = owner[c]
  BY <1>2 DEF WithoutInstances, Without
<1>. QED BY <1>2, <1>3, <1>4, <1>5 DEF Spares

(* Places at which no Conf is about to be used.                            *)
LEMMA NoPlace ==
  ASSUME Setting,
         \/ pc'[Main] = "idle" /\ op'[Main] \in {op[Main], "none"}
         \/ /\ pc'[Main] \in {"command", "stopped"}
            /\ op'[Main] = op[Main] /\ op[Main] \in Connecting
            /\ mapper'[Here'] # "none"
  PROVE  HabitInv' /\ PlaceInv'
<1>1. HabitInv'
  BY SettingTypes DEF HabitInv, Setting
<1>2. PlaceInv'
  BY DEF PlaceInv, Offering
<1>. QED BY <1>1, <1>2

LEMMA QuietSpares ==
  ASSUME UNCHANGED registry
  PROVE  Spares({}) /\ misuse' = misuse
BY DEF registry, Spares

(* The actions of a function that leave the registry as it is.             *)
LEMMA QuietKeeps ==
  ASSUME Setting,
         IsConnected(Main) \/ AskOn(Main) \/ SecondHalf(Main) \/ Fail(Main)
  PROVE  ConfInv'
<1>1. /\ UNCHANGED thread /\ UNCHANGED registry
  BY Zenon DEF IsConnected, AskOn, SecondHalf, Fail, Finish, Release
<1>2. Alone' /\ misuse' = {} /\ Spares({})
  BY <1>1, MainStays, QuietSpares, SettingTypes
<1>3. Offering(Here) => mapper[Here] # "none"
  BY DEF IsConnected, AskOn, SecondHalf, Fail, Offering, Here
<1>4. \A j \in Instances \ {} : Offering(j) => mapper[j] # "none"
  BY <1>3 DEF Offering
<1>5. HabitInv' /\ PlaceInv'
  <2>1. CASE IsConnected(Main) \/ AskOn(Main) \/ Fail(Main)
    <3>1. \/ pc'[Main] = "idle" /\ op'[Main] \in {op[Main], "none"}
          \/ /\ pc'[Main] \in {"command", "stopped"}
             /\ op'[Main] = op[Main] /\ op[Main] \in Connecting
             /\ mapper'[Here'] # "none"
      <4>1. CASE Fail(Main)
        BY <4>1, SettingTypes DEF Fail, Finish, Release, Goto
      <4>2. CASE IsConnected(Main) \/ AskOn(Main)
        <5>1. mapper[Here] # "none" /\ op[Main] \in Connecting
          BY <4>2, SettingTypes DEF IsConnected, AskOn, Here, HabitInv, PlaceInv, Connecting
        <5>2. UNCHANGED <<op, using, at, mapper>>
          BY <4>2, Zenon DEF IsConnected, AskOn, registry
        <5>3. Here' = Here
          BY <5>2 DEF Here, Current
        <5>4. pc'[Main] \in {"command", "stopped"}
          BY <4>2, SettingTypes DEF IsConnected, AskOn, Goto
        <5>. QED BY <5>1, <5>2, <5>3, <5>4
      <4>. QED BY <2>1, <4>1, <4>2
    <3>. QED BY <3>1, NoPlace
  <2>2. CASE SecondHalf(Main)
    <3>1. pc'[Main] = "run" /\ op'[Main] = "renmov"
      BY <2>2, SettingTypes DEF SecondHalf, Goto
    <3>. QED BY <3>1 DEF HabitInv, PlaceInv, Offering
  <2>. QED BY <2>1, <2>2
<1>. QED BY <1>2, <1>4, <1>5, Together

LEMMA LockConfs ==
  ASSUME Setting, Lock(Main)
  PROVE  ConfInv'
<1>1. /\ UNCHANGED thread /\ UNCHANGED registry /\ UNCHANGED <<op, using, at>>
      /\ pc[Main] = "lock" /\ op[Main] # "new"
  BY SettingTypes, Zenon DEF Lock, HabitInv
<1>2. Alone' /\ misuse' = {} /\ Spares({})
  BY <1>1, MainStays, QuietSpares, SettingTypes
<1>3. pc'[Main] \in {"lock", "run"}
  BY SettingTypes DEF Lock, Goto
<1>4. HabitInv'
  <2>1. Here' = Here /\ configured' = configured
    BY <1>1 DEF Here, Current, registry
  <2>. QED BY <1>1, <1>3, <2>1, SettingTypes DEF HabitInv, Setting
<1>5. PlaceInv'
  BY <1>1, <1>3 DEF PlaceInv, Offering
<1>6. \A j \in Instances \ {} : ~Offering(j)
  BY <1>1 DEF Offering
<1>. QED BY <1>2, <1>4, <1>5, <1>6, Together

LEMMA FindSecondConfs ==
  ASSUME Setting, NEW n \in Sessions, FindSecond(Main, n)
  PROVE  ConfInv'
<1>1. /\ UNCHANGED thread /\ op' = op /\ pc[Main] = "find"
      /\ FindServer(ServerName(n, Main), n, Main)
  BY Zenon DEF FindSecond
<1>2. thread[Main] = "running"
  BY <1>1, ThreadIds, RunningThread DEF Setting
<1>3. Alone' /\ misuse' = {} /\ Spares({})
  BY <1>1, <1>2, MainStays, FindServerSpares, SettingTypes
<1>4. pc'[Main] = "lock" /\ op'[Main] = "renmov"
  BY <1>1, SettingTypes DEF FindSecond, Goto, HabitInv
<1>5. HabitInv' /\ PlaceInv'
  BY <1>4 DEF HabitInv, PlaceInv, Offering
<1>6. \A j \in Instances \ {} : ~Offering(j)
  BY <1>1 DEF Offering
<1>. QED BY <1>3, <1>5, <1>6, Together

LEMMA CallConfs ==
  ASSUME Setting, NEW n \in Sessions, NEW f \in Functions(Main), Call(Main, n, f)
  PROVE  ConfInv'
<1> DEFINE k == ServerName(n, Main)
<1>1. /\ thread[Main] = "running" /\ pc[Main] = "idle" /\ UNCHANGED thread
      /\ f = "open" => (IF k \in configured THEN "reopen" ELSE "enter") \in habits
      /\ f = "properties" => "dialog" \in habits
      /\ FindServer(k, n, Main)
      /\ op' = [op EXCEPT ![Main] = f]
      /\ using' = [using EXCEPT ![Main] = <<k>>]
      /\ at' = [at EXCEPT ![Main] = 1]
      /\ Goto(Main, IF f = "renmov" THEN "find" ELSE IF f = "mkdir" THEN "run" ELSE "lock")
  BY Zenon DEF Call, Idle
<1>2. Alone' /\ misuse' = {} /\ Spares({}) /\ configured' = configured
  BY <1>1, MainStays, FindServerSpares, SettingTypes
<1> HIDE DEF k
<1>3. /\ op'[Main] = f /\ Here' = k
      /\ pc'[Main] = IF f = "renmov" THEN "find" ELSE IF f = "mkdir" THEN "run" ELSE "lock"
  BY <1>1, SettingTypes DEF Here, Current, Goto
<1>4. f \in {"get", "put", "mkdir", "renmov", "open", "properties"}
  BY DEF Functions
<1>5. HabitInv'
  BY <1>1, <1>2, <1>3, <1>4 DEF HabitInv, Setting
<1>6. PlaceInv'
  BY <1>3, <1>4 DEF PlaceInv, Offering
<1>7. \A j \in Instances \ {} : ~Offering(j)
  BY <1>1 DEF Offering
<1>. QED BY <1>2, <1>5, <1>6, <1>7, Together

-----------------------------------------------------------------------------
(* Connecting: the Conf of a mapper that is replaced is forgotten, so only *)
(* the one that a new connection is offered is handed to the new mapper.   *)
LEMMA WithoutSpares ==
  ASSUME NEW k
  PROVE  /\ DOMAIN WithoutInstances({k}) \subseteq DOMAIN owner
         /\ \A c \in DOMAIN owner : owner[c] # k =>
              c \in DOMAIN WithoutInstances({k}) /\ WithoutInstances({k})[c] = owner[c]
BY DEF WithoutInstances, Without

LEMMA ConnectConfs ==
  ASSUME Setting, NEW k, k = Here, Connect(Main)
  PROVE  ConfInv'
<1> DEFINE own == WithoutInstances({k})
           kept == IF mapper[k] = "none" THEN myCfg[k] ELSE Forget(myCfg[k])
           given == IF k \in configured THEN kept ELSE NoConf
<1>1. /\ pc[Main] = "run" /\ mapper[k] # "up" /\ op[Main] \in Connecting
      /\ DllConfigure(k, given, own)
      /\ mapper' = [mapper EXCEPT ![k] = "loaded"]
      /\ myCfg' = [myCfg EXCEPT ![k] = kept]
      /\ Goto(Main, "connecting")
      /\ UNCHANGED <<thread, configured, op, using, at>>
  BY Zenon DEF Connect, Here, Connecting
<1>2. k \in Instances /\ k # Temp
  BY <1>1, HereTypes DEF Away
<1>3. InstanceInv(k) /\ misuse = {}
  BY <1>2 DEF Setting, ConfInv
<1>4. myCfg[k] \in Config /\ mapper[k] \in {"none", "loaded", "up", "broken"}
  BY <1>2, SettingTypes
<1>5. kept \in Config /\ given \in Config
  BY <1>4, Types DEF Forget
<1>6. kept.conf = Null \/ (Offering(k) /\ mapper[k] = "none")
  <2>1. CASE mapper[k] # "none"
    BY <1>4, <2>1 DEF Forget, Config
  <2>2. CASE mapper[k] = "none"
    BY <1>3, <2>2 DEF InstanceInv
  <2>. QED BY <2>1, <2>2
<1>7. Mine(own, k, given) \/ (given.copyMe /\ given.conf \in DOMAIN own)
  <2>1. CASE given.conf = Null
    BY <2>1 DEF Mine
  <2>2. CASE given.conf # Null
    <3>1. given = kept /\ kept.conf # Null
      BY <2>2 DEF NoConf
    <3>2. Offering(k) /\ mapper[k] = "none" /\ kept = myCfg[k]
      BY <1>6, <3>1
    <3>3. myCfg[k].copyMe /\ Mine(owner, Temp, myCfg[k])
      BY <3>2, SettingTypes DEF PlaceInv
    <3>4. kept.conf \in DOMAIN owner /\ owner[kept.conf] # k
      BY <1>2, <3>1, <3>2, <3>3 DEF Mine
    <3>. QED BY <3>1, <3>2, <3>3, <3>4, WithoutSpares
  <2>. QED BY <2>1, <2>2
<1>8. DOMAIN own \subseteq DOMAIN owner
  BY WithoutSpares
<1> HIDE DEF own, kept, given
<1>9. /\ misuse' = misuse
      /\ \A j \in Instances \ {k} : cfg'[j] = cfg[j]
      /\ Mine(owner', k, cfg'[k])
      /\ \A d \in DOMAIN own : d \in DOMAIN owner' /\ owner'[d] = own[d]
  BY <1>1, <1>2, <1>5, <1>7, <1>8, SettingTypes, DllConfigureMine
<1>10. Spares({k})
  <2>1. \A j \in Instances \ {k} :
          mapper'[j] = mapper[j] /\ myCfg'[j] = myCfg[j] /\ (j \in configured' <=> j \in configured)
    BY <1>1, SettingTypes
  <2>2. \A c \in DOMAIN owner : owner[c] # k => c \in DOMAIN owner' /\ owner'[c] = owner[c]
    BY <1>9, WithoutSpares DEF own
  <2>. QED BY <1>9, <2>1, <2>2 DEF Spares
<1>11. /\ mapper'[k] = "loaded" /\ myCfg'[k] = kept /\ Here' = k /\ op' = op
       /\ pc'[Main] = "connecting"
  BY <1>1, <1>2, SettingTypes DEF Goto, Here, Current
<1>12. op[Main] # "new" => kept.conf = Null
  BY <1>6 DEF Offering
<1>13. "dialog" \notin habits => op[Main] # "new"
  BY SettingTypes DEF HabitInv
<1>14. InstanceInv(k)'
  <2>1. k \notin configured => kept.conf = Null
    BY <1>3, <1>4 DEF InstanceInv, kept, Forget, Config
  <2>. QED BY <1>1, <1>9, <1>11, <1>12, <1>13, <2>1 DEF InstanceInv, Mine, Setting
<1>15. HabitInv'
  BY <1>1, <1>11, SettingTypes DEF HabitInv, Setting
<1>16. PlaceInv'
  BY <1>9, <1>11, <1>12 DEF PlaceInv, Offering
<1>17. Alone' /\ misuse' = {}
  BY <1>1, <1>3, <1>9, MainStays
<1>18. \A j \in Instances \ {k} : ~Offering(j)
  BY DEF Offering
<1>. QED BY <1>10, <1>14, <1>15, <1>16, <1>17, <1>18, Together

(* The settings of the instance become those of the server. *)
LEMMA ConnectedConfs ==
  ASSUME Setting, NEW k, k = Here, Connected(Main)
  PROVE  ConfInv'
<1>1. /\ pc[Main] = "connecting"
      /\ mapper' = [mapper EXCEPT ![k] = "up"]
      /\ configured' = configured \cup {k}
      /\ myCfg' = [myCfg EXCEPT ![k] = cfg[k]]
      /\ Goto(Main, "command")
      /\ UNCHANGED <<thread, cfg, owner, misuse, op, using, at>>
  BY Zenon DEF Connected, Here
<1>2. k \in Instances /\ Mine(owner, k, cfg[k])
  BY <1>1, HereTypes, SettingTypes DEF Away, PlaceInv
<1>3. Spares({k})
  BY <1>1, SettingTypes DEF Spares
<1>4. InstanceInv(k)'
  <2>1. mapper'[k] = "up" /\ myCfg'[k] = cfg[k] /\ k \in configured'
    BY <1>1, <1>2, SettingTypes
  <2>. QED BY <1>1, <1>2, <2>1 DEF InstanceInv
<1>5. pc'[Main] = "command" /\ op' = op /\ op[Main] \in Connecting
  BY <1>1, SettingTypes DEF Goto, HabitInv
<1>6. HabitInv' /\ PlaceInv'
  <2>1. Here' = k /\ mapper'[k] = "up"
    BY <1>1, <1>2, SettingTypes DEF Here, Current
  <2>. QED BY <1>5, <2>1, NoPlace
<1>7. Alone' /\ misuse' = {}
  BY <1>1, MainStays, SettingTypes
<1>8. \A j \in Instances \ {k} : ~Offering(j)
  BY <1>1 DEF Offering
<1>. QED BY <1>3, <1>4, <1>6, <1>7, <1>8, Together

LEMMA NotConnectedConfs ==
  ASSUME Setting, NEW k, k = Here, NotConnected(Main)
  PROVE  ConfInv'
<1>1. /\ pc[Main] = "connecting" /\ op[Main] # "new"
      /\ mapper' = [mapper EXCEPT ![k] = "none"]
      /\ cfg' = [cfg EXCEPT ![k] = NoConf]
      /\ owner' = WithoutInstances({k})
      /\ UNCHANGED <<configured, myCfg, misuse>>
  BY Zenon DEF NotConnected, Here
<1>2. k \in Instances /\ myCfg[k].conf = Null
  BY <1>1, HereTypes, SettingTypes DEF Away, PlaceInv
<1>3. thread' = thread
      /\ \/ pc'[Main] = "idle" /\ op'[Main] = "none"
         \/ pc'[Main] = "run" /\ op' = op /\ Here' = Here
  BY SettingTypes DEF NotConnected, Release, Goto, Here, Current
<1>4. Spares({k})
  <2>1. \A j \in Instances \ {k} :
          mapper'[j] = mapper[j] /\ cfg'[j] = cfg[j]
    BY <1>1, SettingTypes
  <2>2. \A c \in DOMAIN owner : owner[c] # k => c \in DOMAIN owner' /\ owner'[c] = owner[c]
    BY <1>1, WithoutSpares
  <2>. QED BY <1>1, <2>1, <2>2 DEF Spares
<1>5. InstanceInv(k)'
  <2>1. mapper'[k] = "none" /\ myCfg'[k].conf = Null
    BY <1>1, <1>2, SettingTypes
  <2>. QED BY <2>1 DEF InstanceInv, Mine
<1>6. HabitInv'
  <2>1. CASE pc'[Main] = "idle" /\ op'[Main] = "none"
    BY <2>1 DEF HabitInv
  <2>2. CASE pc'[Main] = "run" /\ op' = op /\ Here' = Here
    <3>1. op[Main] # "open"
      BY <1>1, SettingTypes DEF HabitInv, Connecting
    <3>. QED BY <2>2, <3>1, SettingTypes DEF HabitInv, Setting
  <2>. QED BY <1>3, <2>1, <2>2
<1>7. PlaceInv'
  BY <1>1, <1>3 DEF PlaceInv, Offering
<1>8. Alone' /\ misuse' = {}
  BY <1>1, <1>3, MainStays, SettingTypes
<1>9. \A j \in Instances \ {k} : ~Offering(j)
  BY <1>1 DEF Offering
<1>. QED BY <1>4, <1>5, <1>6, <1>7, <1>8, <1>9, Together

LEMMA LoseConnectionConfs ==
  ASSUME Setting, NEW k, k = Here, LoseConnection(Main)
  PROVE  ConfInv'
<1>1. /\ pc[Main] \in {"command", "stopped"}
      /\ mapper' = [mapper EXCEPT ![k] = "broken"]
      /\ Goto(Main, "run")
      /\ UNCHANGED <<thread, configured, myCfg, cfg, owner, misuse, op, using, at>>
  BY Zenon DEF LoseConnection, Here
<1>2. k \in Instances /\ op[Main] \in Connecting /\ mapper[k] # "none"
  BY <1>1, HereTypes, SettingTypes DEF Away, HabitInv, PlaceInv
<1>3. Spares({k})
  BY <1>1, SettingTypes DEF Spares
<1>4. /\ mapper'[k] = "broken" /\ pc'[Main] = "run" /\ Here' = k
  BY <1>1, <1>2, SettingTypes DEF Goto, Here, Current
<1>5. InstanceInv(k)'
  <2>1. InstanceInv(k)
    BY <1>2 DEF Setting, ConfInv
  <2>. QED BY <1>1, <1>2, <1>4, <2>1 DEF InstanceInv, Mine, Setting
<1>6. HabitInv'
  BY <1>1, <1>2, <1>4, SettingTypes DEF HabitInv, Setting, Connecting
<1>7. PlaceInv'
  BY <1>4 DEF PlaceInv, Offering
<1>8. Alone' /\ misuse' = {}
  BY <1>1, MainStays, SettingTypes
<1>9. \A j \in Instances \ {k} : ~Offering(j)
  BY <1>1 DEF Offering
<1>. QED BY <1>3, <1>5, <1>6, <1>7, <1>8, <1>9, Together

-----------------------------------------------------------------------------
(* Deleting servers.                                                       *)
LEMMA DropConfs ==
  ASSUME Setting, NEW ks, ks \subseteq Instances, DropServers(ks)
  PROVE  Spares(ks) /\ misuse' = {} /\ \A k \in ks : InstanceInv(k)'
<1>1. \A j \in Instances \ ks :
        /\ mapper'[j] = mapper[j] /\ myCfg'[j] = myCfg[j] /\ cfg'[j] = cfg[j]
        /\ j \in configured' <=> j \in configured
  BY SettingTypes DEF DropServers, Drop
<1>2. \A c \in DOMAIN owner : owner[c] \notin ks => c \in DOMAIN owner' /\ owner'[c] = owner[c]
  BY DEF DropServers, WithoutInstances, Without
<1>3. ASSUME NEW k \in ks PROVE InstanceInv(k)'
  <2>1. mapper'[k] = "none" /\ myCfg'[k] = NoConf /\ k \notin configured'
    BY SettingTypes DEF DropServers, Drop
  <2>. QED BY <2>1 DEF InstanceInv, NoConf, Mine
<1>. QED BY <1>1, <1>2, <1>3, SettingTypes DEF Spares, DropServers

LEMMA SucceedConfs ==
  ASSUME Setting, Succeed(Main)
  PROVE  ConfInv'
<1>1. /\ pc[Main] \in {"command", "stopped"} /\ UNCHANGED thread
      /\ op' = [op EXCEPT ![Main] = "none"] /\ Goto(Main, "idle")
      /\ DropServers({Temp}) \/ UNCHANGED registry
  BY Zenon DEF Succeed, Finish, Release
<1>2. Alone'
  BY <1>1, MainStays
<1>3. pc'[Main] = "idle" /\ op'[Main] = "none"
  BY <1>1, SettingTypes DEF Goto
<1>4. HabitInv' /\ PlaceInv'
  BY <1>3, NoPlace
<1>5. \A j : ~Offering(j)
  BY <1>1 DEF Offering
<1>6. CASE DropServers({Temp})
  BY <1>2, <1>4, <1>5, <1>6, DropConfs, Types, Together
<1>7. CASE UNCHANGED registry
  BY <1>2, <1>4, <1>5, <1>7, QuietSpares, SettingTypes, Together
<1>. QED BY <1>1, <1>6, <1>7

(* The main thread is between two functions afterwards. *)
LEMMA CloseConfs ==
  ASSUME Setting,
         CancelNew \/ NewNotConnected \/ \E n \in Sessions : Disconnect(n)
  PROVE  ConfInv'
<1>1. PICK ks \in SUBSET Instances : DropServers(ks)
  <2>1. CASE CancelNew
    BY <2>1, Types DEF CancelNew
  <2>2. CASE NewNotConnected
    <3>1. Here \in Instances /\ DropServers({Here, Temp})
      BY <2>2, HereTypes DEF NewNotConnected, Away, Here
    <3>. QED BY <3>1, Types
  <2>3. ASSUME NEW n \in Sessions, Disconnect(n)
        PROVE  \E ks \in SUBSET Instances : DropServers(ks)
    <3>1. <<n, Main>> \in Instances
      BY ThreadIds, Types DEF Key
    <3>. QED BY <2>3, <3>1 DEF Disconnect
  <2>. QED BY <2>1, <2>2, <2>3
<1>2. /\ UNCHANGED thread /\ pc[Main] \in {"idle", "connecting", "new dialog"}
      /\ pc'[Main] = "idle" /\ op'[Main] \in {op[Main], "none"}
  BY SettingTypes DEF CancelNew, NewNotConnected, Disconnect, Finish, Release, Goto, Idle
<1>3. Alone'
  BY <1>2, MainStays
<1>4. HabitInv' /\ PlaceInv'
  BY <1>2, NoPlace
<1>5. \A j : ~Offering(j)
  BY <1>2 DEF Offering
<1>. QED BY <1>1, <1>3, <1>4, <1>5, DropConfs, Together

-----------------------------------------------------------------------------
(* Entering a session: the Conf that its settings are read into is its     *)
(* own, and nobody else's when it is freed.                                *)
LEMMA LoadConfigConfs ==
  ASSUME Setting, NEW k, k = Here, LoadConfig(Main)
  PROVE  ConfInv'
<1>1. /\ pc[Main] = "run" /\ op[Main] = "open" /\ IsLoaded(k)
      /\ configured' = configured \cup {k}
      /\ \/ /\ myCfg[k].conf = Null
            /\ \E n \in Fresh : /\ myCfg' = [myCfg EXCEPT ![k].conf = n]
                                /\ owner' = Made(owner, n, k)
            /\ UNCHANGED misuse
         \/ /\ myCfg[k].conf # Null
            /\ misuse' = misuse \cup Wrong(owner, k, myCfg[k].conf)
            /\ UNCHANGED <<myCfg, owner>>
      /\ Goto(Main, "loading")
      /\ UNCHANGED <<thread, op, using, at>>
  BY Zenon DEF LoadConfig, Here
<1>2. k \in Instances /\ InstanceInv(k)
  BY <1>1, HereTypes DEF Away, Setting, ConfInv
<1>3. myCfg[k] \in Config /\ cfg[k] \in Config
  BY <1>2, SettingTypes
<1>4. /\ pc'[Main] = "loading" /\ Here' = k /\ op' = op /\ k \in configured'
      /\ mapper'[k] # "none"
  BY <1>1, <1>2, SettingTypes DEF Goto, Here, Current, IsLoaded
<1>5. "dialog" \in habits => k \notin configured /\ myCfg[k].conf = Null
  <2>1. "dialog" \in habits => "reopen" \notin habits
    BY DEF Setting, Foreground
  <2>. QED BY <1>1, <1>2, <2>1, SettingTypes DEF HabitInv, InstanceInv
<1>6. /\ misuse' = {} /\ myCfg'[k].conf # Null /\ Mine(owner', k, myCfg'[k])
      /\ \A j \in Instances \ {k} : myCfg'[j] = myCfg[j]
      /\ \A c \in DOMAIN owner : c \in DOMAIN owner' /\ owner'[c] = owner[c]
      /\ \A j \in Instances : cfg[j].conf # myCfg'[k].conf \/ "dialog" \notin habits
  <2>1. CASE myCfg[k].conf = Null
    <3>1. PICK n \in Fresh : /\ myCfg' = [myCfg EXCEPT ![k].conf = n]
                             /\ owner' = Made(owner, n, k) /\ misuse' = misuse
      BY <1>1, <2>1
    <3>2. /\ n # Null /\ n \notin DOMAIN owner
          /\ \A j \in Instances : cfg[j].conf # n
      BY FreshIsFree
    <3>3. myCfg'[k].conf = n /\ \A j \in Instances \ {k} : myCfg'[j] = myCfg[j]
      BY <1>2, <1>3, <3>1, SettingTypes DEF Config
    <3>4. /\ n \in DOMAIN owner' /\ owner'[n] = k
          /\ \A c \in DOMAIN owner : c \in DOMAIN owner' /\ owner'[c] = owner[c]
      BY <3>1, <3>2 DEF Made
    <3>. QED BY <3>1, <3>2, <3>3, <3>4, SettingTypes DEF Mine
  <2>2. CASE myCfg[k].conf # Null
    <3>1. Mine(owner, k, myCfg[k]) /\ "dialog" \notin habits
      BY <1>2, <1>5, <2>2 DEF InstanceInv
    <3>2. Wrong(owner, k, myCfg[k].conf) = {}
      BY <2>2, <3>1 DEF Mine, Wrong
    <3>. QED BY <1>1, <2>2, <3>1, <3>2, SettingTypes
  <2>. QED BY <2>1, <2>2
<1>7. /\ \A j \in Instances \ {k} : cfg'[j] = cfg[j] /\ mapper'[j] = mapper[j]
      /\ "dialog" \in habits => cfg'[k].conf = Null \/ (mapper[k] # "none" /\ cfg'[k] = cfg[k])
  <2>1. CASE mapper[k] = "none"
    <3>1. cfg' = [cfg EXCEPT ![k] = IF k \in configured THEN myCfg[k] ELSE NoConf]
      BY <1>1, <2>1 DEF IsLoaded
    <3>2. cfg'[k] = IF k \in configured THEN myCfg[k] ELSE NoConf
      BY <1>2, <3>1, SettingTypes
    <3>. QED BY <1>1, <1>5, <3>1, <3>2, SettingTypes DEF NoConf, IsLoaded
  <2>2. CASE mapper[k] # "none"
    BY <1>1, <2>2, SettingTypes DEF IsLoaded
  <2>. QED BY <2>1, <2>2
<1>8. Spares({k})
  BY <1>1, <1>6, <1>7 DEF Spares
<1>9. "dialog" \in habits => Mine(owner', k, cfg'[k]) /\ cfg'[k].conf # myCfg'[k].conf
  BY <1>2, <1>6, <1>7 DEF InstanceInv, Mine
<1>10. InstanceInv(k)'
  BY <1>4, <1>6, <1>9 DEF InstanceInv, Setting
<1>11. HabitInv'
  BY <1>1, <1>4, SettingTypes DEF HabitInv, Setting
<1>12. PlaceInv'
  BY <1>4, <1>6, <1>9 DEF PlaceInv, Offering, Setting
<1>13. Alone'
  BY <1>1, MainStays
<1>14. \A j : ~Offering(j)
  BY <1>1 DEF Offering
<1>. QED BY <1>6, <1>8, <1>10, <1>11, <1>12, <1>13, <1>14, Together

(* conf_free, of a Conf that the instance may free. *)
LEMMA FreeConfMine ==
  ASSUME NEW k, NEW c, c \in DOMAIN owner, owner[c] = k, FreeConf(k, c)
  PROVE  /\ misuse' = misuse
         /\ \A d \in DOMAIN owner : d # c => d \in DOMAIN owner' /\ owner'[d] = owner[d]
BY DEF FreeConf, Without, Wrong

LEMMA ConfigLoadedConfs ==
  ASSUME Setting, NEW k, k = Here, ConfigLoaded(Main)
  PROVE  ConfInv'
<1>1. /\ pc[Main] = "loading"
      /\ FreeConf(k, myCfg[k].conf)
      /\ myCfg' = [myCfg EXCEPT ![k].conf = Null]
      /\ UNCHANGED <<thread, mapper, configured, cfg>>
      /\ op' = [op EXCEPT ![Main] = "none"] /\ Goto(Main, "idle")
  BY Zenon DEF ConfigLoaded, Here, Release
<1>2. k \in Instances /\ InstanceInv(k)
  BY <1>1, HereTypes DEF Away, Setting, ConfInv
<1>3. /\ k \in configured /\ mapper[k] # "none"
      /\ myCfg[k].conf \in DOMAIN owner /\ owner[myCfg[k].conf] = k
      /\ "dialog" \in habits => cfg[k].conf # myCfg[k].conf
  BY <1>1, SettingTypes DEF PlaceInv, Mine
<1>4. /\ misuse' = misuse
      /\ \A d \in DOMAIN owner : d # myCfg[k].conf => d \in DOMAIN owner' /\ owner'[d] = owner[d]
  BY <1>1, <1>3, FreeConfMine
<1>5. myCfg'[k].conf = Null /\ \A j \in Instances \ {k} : myCfg'[j] = myCfg[j]
  <2>1. myCfg[k] \in Config
    BY <1>2, SettingTypes
  <2>. QED BY <1>1, <1>2, <2>1, SettingTypes DEF Config
<1>6. Spares({k})
  BY <1>1, <1>3, <1>4, <1>5 DEF Spares
<1>7. InstanceInv(k)'
  <2>1. "dialog" \in habits => Mine(owner', k, cfg[k])
    BY <1>2, <1>3, <1>4 DEF InstanceInv, Mine
  <2>. QED BY <1>1, <1>3, <1>5, <2>1 DEF InstanceInv, Mine, Setting
<1>8. HabitInv' /\ PlaceInv'
  <2>1. pc'[Main] = "idle" /\ op'[Main] = "none"
    BY <1>1, SettingTypes DEF Goto
  <2>. QED BY <2>1, NoPlace
<1>9. Alone' /\ misuse' = {}
  BY <1>1, <1>4, MainStays, SettingTypes
<1>10. \A j : ~Offering(j)
  BY <1>1 DEF Offering
<1>. QED BY <1>6, <1>7, <1>8, <1>9, <1>10, Together

-----------------------------------------------------------------------------
(* The dialogs. The Conf of the DLL is the one of the instance, unless it  *)
(* is entered again.                                                       *)
LEMMA OpenDialogConfs ==
  ASSUME Setting, NEW k, k = Here, OpenDialog(Main)
  PROVE  ConfInv'
<1> DEFINE given == IF mapper[k] # "none" THEN cfg[k]
                    ELSE IF k \in configured THEN myCfg[k] ELSE NoConf
<1>1. /\ pc[Main] = "run" /\ op[Main] = "properties"
      /\ mapper' = [mapper EXCEPT ![k] = IF @ = "none" THEN "loaded" ELSE @]
      /\ DllConfigure(k, given, owner)
      /\ Goto(Main, "dialog")
      /\ UNCHANGED <<thread, configured, myCfg, op, using, at>>
  BY Zenon DEF OpenDialog, Here
<1>2. k \in Instances /\ InstanceInv(k)
  BY <1>1, HereTypes DEF Away, Setting, ConfInv
<1>3. "dialog" \in habits
  BY <1>1, SettingTypes DEF HabitInv
<1>4. given \in Config
  BY <1>2, SettingTypes, Types
<1>5. Mine(owner, k, given)
  BY <1>1, <1>2, <1>3 DEF InstanceInv, Mine, Offering, NoConf
<1> HIDE DEF given
<1>6. /\ misuse' = misuse
      /\ \A j \in Instances \ {k} : cfg'[j] = cfg[j]
      /\ cfg'[k].conf # Null /\ Mine(owner', k, cfg'[k])
      /\ \A d \in DOMAIN owner : d \in DOMAIN owner' /\ owner'[d] = owner[d]
  BY <1>1, <1>2, <1>4, <1>5, SettingTypes, DllConfigureMine
<1>7. /\ mapper'[k] # "none" /\ pc'[Main] = "dialog" /\ Here' = k
      /\ \A j \in Instances \ {k} : mapper'[j] = mapper[j]
  BY <1>1, <1>2, SettingTypes DEF Goto, Here, Current
<1>8. Spares({k})
  BY <1>1, <1>6, <1>7 DEF Spares
<1>9. InstanceInv(k)'
  BY <1>1, <1>2, <1>3, <1>6, <1>7 DEF InstanceInv, Setting
<1>10. HabitInv' /\ PlaceInv'
  BY <1>1, <1>3, <1>6, <1>7, SettingTypes DEF HabitInv, PlaceInv, Offering, Setting
<1>11. Alone' /\ misuse' = {}
  BY <1>1, <1>6, MainStays, SettingTypes
<1>12. \A j : ~Offering(j)
  BY <1>1 DEF Offering
<1>. QED BY <1>8, <1>9, <1>10, <1>11, <1>12, Together

LEMMA CloseDialogConfs ==
  ASSUME Setting, NEW k, k = Here, ConfirmDialog(Main) \/ CancelDialog(Main)
  PROVE  ConfInv'
<1>1. /\ pc[Main] = "dialog" /\ UNCHANGED <<thread, mapper>>
      /\ op' = [op EXCEPT ![Main] = "none"] /\ Goto(Main, "idle")
  BY Zenon DEF ConfirmDialog, CancelDialog, Release
<1>2. /\ k \in Instances /\ InstanceInv(k)
      /\ "dialog" \in habits /\ mapper[k] # "none" /\ cfg[k].conf # Null
  BY <1>1, HereTypes, SettingTypes DEF Away, Setting, ConfInv, PlaceInv
<1>3. Mine(owner, k, cfg[k])
  BY <1>2 DEF InstanceInv
<1>4. HabitInv' /\ PlaceInv'
  <2>1. pc'[Main] = "idle" /\ op'[Main] = "none"
    BY <1>1, SettingTypes DEF Goto
  <2>. QED BY <2>1, NoPlace
<1>5. Alone' /\ \A j : ~Offering(j)
  BY <1>1, MainStays DEF Offering
<1>6. CASE ConfirmDialog(Main)
  <2>1. /\ configured' = configured \cup {k} /\ myCfg' = [myCfg EXCEPT ![k] = cfg[k]]
        /\ UNCHANGED <<cfg, owner, misuse>>
    BY <1>6, Zenon DEF ConfirmDialog, Here
  <2>2. Spares({k})
    BY <1>1, <2>1, SettingTypes DEF Spares
  <2>3. InstanceInv(k)'
    BY <1>1, <1>2, <1>3, <2>1 DEF InstanceInv, Setting
  <2>. QED BY <1>4, <1>5, <2>1, <2>2, <2>3, SettingTypes, Together
<1>7. CASE CancelDialog(Main)
  <2>1. /\ FreeConf(k, cfg[k].conf) /\ cfg' = [cfg EXCEPT ![k].conf = Null]
        /\ UNCHANGED <<configured, myCfg>>
    BY <1>7, Zenon DEF CancelDialog, Here
  <2>2. cfg[k].conf \in DOMAIN owner /\ owner[cfg[k].conf] = k
    BY <1>2, <1>3 DEF Mine
  <2>3. /\ misuse' = misuse
        /\ \A d \in DOMAIN owner : d # cfg[k].conf => d \in DOMAIN owner' /\ owner'[d] = owner[d]
    BY <2>1, <2>2, FreeConfMine
  <2>4. cfg'[k].conf = Null /\ \A j \in Instances \ {k} : cfg'[j] = cfg[j]
    <3>1. cfg[k] \in Config
      BY <1>2, SettingTypes
    <3>. QED BY <1>2, <2>1, <3>1, SettingTypes DEF Config
  <2>5. Spares({k})
    BY <1>1, <2>1, <2>2, <2>3, <2>4 DEF Spares
  <2>6. InstanceInv(k)'
    BY <1>1, <1>2, <2>1, <2>4 DEF InstanceInv, Mine, Setting
  <2>. QED BY <1>4, <1>5, <2>3, <2>5, <2>6, SettingTypes, Together
<1>. QED BY <1>6, <1>7

LEMMA NewConnectionConfs ==
  ASSUME Setting, NewConnection
  PROVE  ConfInv'
<1>1. /\ pc[Main] = "idle" /\ "dialog" \in habits
      /\ mapper' = [mapper EXCEPT ![Temp] = "loaded"]
      /\ DllConfigure(Temp, NoConf, owner)
      /\ op' = [op EXCEPT ![Main] = "new"]
      /\ Goto(Main, "new dialog")
      /\ UNCHANGED <<thread, configured, myCfg>>
  BY Zenon DEF NewConnection, Idle
<1>2. Temp \in Instances /\ NoConf \in Config /\ Mine(owner, Temp, NoConf)
  BY Types DEF NoConf, Mine
<1>3. /\ misuse' = misuse
      /\ \A j \in Instances \ {Temp} : cfg'[j] = cfg[j]
      /\ Mine(owner', Temp, cfg'[Temp])
      /\ \A d \in DOMAIN owner : d \in DOMAIN owner' /\ owner'[d] = owner[d]
  <2>1. cfg \in [Instances -> Config] /\ DOMAIN owner \subseteq DOMAIN owner
    BY SettingTypes
  <2>2. DllConfigure(Temp, NoConf, owner)
    BY <1>1
  <2>3. \A k \in Instances, c \in Config :
          Mine(owner, k, c) /\ DllConfigure(k, c, owner) =>
            /\ misuse' = misuse
            /\ \A j \in Instances \ {k} : cfg'[j] = cfg[j]
            /\ Mine(owner', k, cfg'[k])
            /\ \A d \in DOMAIN owner : d \in DOMAIN owner' /\ owner'[d] = owner[d]
    BY <2>1, DllConfigureMine
  <2>. QED BY <1>2, <2>2, <2>3, Zenon
<1>4. /\ mapper'[Temp] = "loaded" /\ pc'[Main] = "new dialog" /\ op'[Main] = "new"
      /\ \A j \in Instances \ {Temp} : mapper'[j] = mapper[j]
  BY <1>1, <1>2, SettingTypes DEF Goto
<1>5. Spares({Temp})
  BY <1>1, <1>3, <1>4 DEF Spares
<1>6. InstanceInv(Temp)'
  <2>1. InstanceInv(Temp)
    BY <1>2 DEF Setting, ConfInv
  <2>. QED BY <1>1, <1>3, <1>4, <2>1 DEF InstanceInv, Setting, Temp
<1>7. HabitInv' /\ PlaceInv'
  BY <1>1, <1>4 DEF HabitInv, PlaceInv, Offering, Setting
<1>8. Alone' /\ misuse' = {}
  BY <1>1, <1>3, MainStays, SettingTypes
<1>9. \A j : ~Offering(j)
  BY <1>1 DEF Offering
<1>. QED BY <1>5, <1>6, <1>7, <1>8, <1>9, Together

(* The new server has no mapper, and a Conf to copy. *)
LEMMA OpenNewConfs ==
  ASSUME Setting, NEW n \in Sessions, NEW k, k = ServerName(n, Main), OpenNew(n)
  PROVE  ConfInv'
<1>1. /\ pc[Main] = "new dialog"
      /\ configured' = configured \cup {k}
      /\ mapper' = [mapper EXCEPT ![k] = "none"]
      /\ myCfg' = [myCfg EXCEPT ![k] = Offered(cfg[Temp])]
      /\ cfg' = [cfg EXCEPT ![k] = NoConf]
      /\ owner' = WithoutInstances({k})
      /\ using' = [using EXCEPT ![Main] = <<k>>]
      /\ Goto(Main, "run")
      /\ UNCHANGED <<thread, misuse, op, at>>
  BY Zenon DEF OpenNew
<1>2. k \in Instances /\ k # Temp /\ Temp \in Instances
  BY ThreadIds, Types DEF ServerName, Key
<1>3. op[Main] = "new" /\ at[Main] = 1 /\ "dialog" \in habits
  BY <1>1, SettingTypes DEF Setting, IInv, ThreadInv, Away, HabitInv
<1>4. Mine(owner, Temp, cfg[Temp])
  <2>1. InstanceInv(Temp) /\ mapper[Temp] # "none"
    BY <1>1, <1>2, SettingTypes DEF Setting, ConfInv, PlaceInv
  <2>. QED BY <1>3, <2>1 DEF InstanceInv
<1>5. \A c \in DOMAIN owner : owner[c] # k => c \in DOMAIN owner' /\ owner'[c] = owner[c]
  BY <1>1, WithoutSpares
<1>6. /\ mapper'[k] = "none" /\ pc'[Main] = "run" /\ op' = op /\ Here' = k
      /\ k \in configured' /\ myCfg'[k] = Offered(cfg[Temp])
  <2>1. mapper'[k] = "none" /\ pc'[Main] = "run" /\ k \in configured'
    BY <1>1, <1>2, SettingTypes DEF Goto
  <2>2. myCfg'[k] = Offered(cfg[Temp])
    BY <1>1, <1>2, SettingTypes
  <2>3. using'[Main][at'[Main]] = k
    <3>1. at'[Main] = 1
      BY <1>1, <1>3
    <3>2. using'[Main] = <<k>>
      BY <1>1, SettingTypes
    <3>. QED BY <3>1, <3>2
  <2>. QED BY <1>1, <2>1, <2>2, <2>3 DEF Here, Current
<1>7. myCfg'[k].copyMe /\ Mine(owner', Temp, myCfg'[k])
  <2>1. cfg[Temp] \in Config
    BY <1>2, SettingTypes
  <2>2. Offered(cfg[Temp]).copyMe /\ Offered(cfg[Temp]).conf = cfg[Temp].conf
    BY <2>1 DEF Offered, Config
  <2>3. Mine(owner', Temp, cfg[Temp])
    BY <1>2, <1>4, <1>5 DEF Mine
  <2>. QED BY <1>6, <2>2, <2>3 DEF Mine
<1>8. Spares({k})
  BY <1>1, <1>5, SettingTypes DEF Spares
<1>9. InstanceInv(k)'
  BY <1>3, <1>6 DEF InstanceInv, Offering, Setting
<1>10. HabitInv' /\ PlaceInv'
  <2>1. HabitInv'
    BY <1>3, <1>6 DEF HabitInv, Setting
  <2>2. PlaceInv'
    BY <1>6, <1>7 DEF PlaceInv, Offering
  <2>. QED BY <2>1, <2>2
<1>11. Alone' /\ misuse' = {}
  BY <1>1, MainStays, SettingTypes
<1>12. \A j : ~Offering(j)
  BY <1>1 DEF Offering
<1>. QED BY <1>8, <1>9, <1>10, <1>11, <1>12, Together

-----------------------------------------------------------------------------
LEMMA InitConfInv == Init => ConfInv
<1> SUFFICES ASSUME Init PROVE ConfInv
  OBVIOUS
<1>1. Main \in Threads /\ Background \subseteq Threads \ {Main}
  BY ThreadIds, RegistryAssumption
<1>2. Alone /\ HabitInv /\ PlaceInv
  BY <1>1 DEF Init, Alone, HabitInv, PlaceInv, Offering
<1>3. ASSUME NEW k \in Instances PROVE InstanceInv(k)
  BY <1>3 DEF Init, InstanceInv, NoConf, Mine
<1>. QED BY <1>2, <1>3 DEF Init, ConfInv

LEMMA NextConfInv == IInv /\ ConfTypes /\ ConfInv /\ [Next]_vars => ConfInv'
<1> SUFFICES ASSUME IInv, ConfTypes, ConfInv, [Next]_vars, Foreground'
             PROVE  ConfInv'
  BY DEF ConfInv
<1>1. Setting
  BY HabitsStay DEF Setting, Foreground
<1>2. ASSUME NEW t \in Threads, Step(t) PROVE ConfInv'
  <2>1. pc[t] # "idle"
    BY <1>2, StepIsInside
  <2>2. t = Main
    BY <1>1, <2>1, OnlyMain, RunningThread
  <2>. QED BY <1>1, <1>2, <2>2, FindSecondConfs, LockConfs, QuietKeeps, ConnectConfs,
              ConnectedConfs, NotConnectedConfs, LoseConnectionConfs, SucceedConfs,
              LoadConfigConfs, ConfigLoadedConfs, OpenDialogConfs, CloseDialogConfs, Zenon
              DEF Step, ProgressOfGet, ProgressOfPut
<1>3. ASSUME NEW t \in Threads, NEW n \in Sessions, NEW f \in Functions(t), Call(t, n, f)
      PROVE  ConfInv'
  <2>1. t = Main
    BY <1>1, <1>3, OnlyMain DEF Call, Idle
  <2>. QED BY <1>1, <1>3, <2>1, CallConfs
<1>4. ASSUME NEW t \in Background, ThreadStarts(t) \/ ThreadEnds(t) \/ ThreadIsGone(t)
      PROVE  ConfInv'
  BY <1>1, <1>4, SettingTypes DEF ThreadStarts, ThreadEnds, ThreadIsGone, Alone, Setting,
     Foreground
<1>5. CASE NewConnection \/ CancelNew \/ NewNotConnected
  BY <1>1, <1>5, NewConnectionConfs, CloseConfs
<1>6. ASSUME NEW n \in Sessions, OpenNew(n) \/ Disconnect(n) PROVE ConfInv'
  BY <1>1, <1>6, OpenNewConfs, CloseConfs
<1>7. CASE UNCHANGED vars
  <2>1. UNCHANGED <<habits, thread, servers, mapper, configured, myCfg, cfg, owner, misuse,
                    pc, op, using, at>>
    BY <1>7 DEF vars, registry
  <2>. QED BY <2>1 DEF ConfInv, Foreground, Alone, HabitInv, PlaceInv, InstanceInv, Offering,
           Here, Current
<1>. QED BY <1>2, <1>3, <1>4, <1>5, <1>6, <1>7 DEF Next

(* In the foreground, no instance of psftp.dll uses a Conf that is freed   *)
(* or that belongs to another instance: Guard::connect, getHomeDir, the    *)
(* dialogs and the new connections hand out only living Confs, to those    *)
(* they belong to or to those that copy them.                              *)
THEOREM ConfsAreInOrder == Spec => []ForegroundConfsInOrder
<1>1. Init => ConfTypes
  BY Types DEF Init, ConfTypes
<1>2. ConfInv => ForegroundConfsInOrder
  BY DEF ConfInv, Foreground, ForegroundConfsInOrder, ConfsInOrder
<1>. QED BY <1>1, <1>2, InitConfInv, NextConfInv, NextConfTypes, PointersInOrder, PTL DEF Spec
=============================================================================
