------------------------------ MODULE Registry ------------------------------
(***************************************************************************)
(* Who uses what in the plugin: the map of servers (tc_plugin/server.cpp), *)
(* the threads that Total Commander calls from, the mutexes, the instances *)
(* of psftp.dll and the PuTTY configurations (Conf) they hand around, and  *)
(* the last answer of the progress callback.                               *)
(*                                                                         *)
(* findServer appends the id of the calling thread to the name of a        *)
(* server, except in the main thread, so the key of a server is the        *)
(* session and the thread.  What a server, mapper or Conf contains is left *)
(* to module Session; here they are made, used and deleted.                *)
(***************************************************************************)
EXTENDS Naturals, FiniteSets, Sequences

CONSTANTS
  Main,          \* the thread of FsInit
  Background,    \* the ids of threads that copy in the background
  Sessions,      \* names of saved sessions
  ConfIds,       \* addresses of Conf objects
  HabitSets      \* what the user does, sets of Habits

Habits == {
  "background",  \* files are copied in background threads
  "enter",       \* a session is entered before it is used
  "reopen",      \* a session is entered that is configured already
  "late",        \* copies are cancelled between two progress callbacks
  "dialog",      \* properties and new connections are edited
  "disconnect" } \* sessions are closed

Null == 0

ASSUME RegistryAssumption ==
  /\ Main \notin Background
  /\ Null \notin {Main} \cup Background
  /\ ConfIds \subseteq Nat \ {Null}
  /\ HabitSets \subseteq SUBSET Habits

Threads == {Main} \cup Background
Key == Sessions \X Threads
Temp == <<"~", 0>>             \* the server of "<edit connections>"

Config == [conf : ConfIds \cup {Null}, copyMe : BOOLEAN]
NoConf == [conf |-> Null, copyMe |-> FALSE]

VARIABLES
  habits,        \* what the user does in this behaviour
  thread,        \* "running", "ended", or "gone" when OpenThread finds nothing
  servers,       \* the keys of serverMap
  mapper,        \* currentMapper: "none", "loaded", "up" or "broken"
  configured,    \* the servers whose myCfg is not null
  myCfg,         \* its Conf pointer and copyMe
  cfg,           \* the same in the DLL instance
  owner,         \* the instance that each living Conf belongs to
  misuse,        \* uses of a Conf that is freed, or of another instance
  pc, op,        \* where a thread is, and in which function
  using, at,     \* the servers that it has pointers to, and the current one
  locked,        \* how many of their mutexes it holds, in this order
  lastPPR,       \* what the last progress callback returned
  cancelled,     \* whether the current copy of a thread was told to stop
  reply          \* what the last copy of a thread returned

registry == <<servers, mapper, configured, myCfg, cfg, owner, misuse>>
progress == <<lastPPR, cancelled, reply>>
vars == <<habits, thread, registry, pc, op, using, at, locked, progress>>

Instances == Key \cup {Temp}

Init ==
  /\ habits \in HabitSets
  /\ thread = [t \in Threads |-> IF t = Main THEN "running" ELSE "gone"]
  /\ servers = {}
  /\ mapper = [k \in Instances |-> "none"]
  /\ configured = {}
  /\ myCfg = [k \in Instances |-> NoConf]
  /\ cfg = [k \in Instances |-> NoConf]
  /\ owner = [c \in {} |-> Temp]
  /\ misuse = {}
  /\ pc = [t \in Threads |-> "idle"]
  /\ op = [t \in Threads |-> "none"]
  /\ using = [t \in Threads |-> <<>>]
  /\ at = [t \in Threads |-> 1]
  /\ locked = [t \in Threads |-> 0]
  /\ lastPPR = 0
  /\ cancelled = [t \in Threads |-> FALSE]
  /\ reply = [t \in Threads |-> "none"]

-----------------------------------------------------------------------------
(* Conf objects.  Deleting a mapper unloads its DLL, and with it the Confs *)
(* that it has made.                                                       *)
Without(own, ids) == [c \in DOMAIN own \ ids |-> own[c]]
WithoutInstances(ks) == Without(owner, { c \in DOMAIN owner : owner[c] \in ks })

(* The first address that is free and that no pointer has.                 *)
Free ==
  ConfIds \ (DOMAIN owner \cup { myCfg[k].conf : k \in Instances }
                          \cup { cfg[k].conf : k \in Instances })
Fresh == { n \in Free : \A m \in Free : n <= m }

Made(own, c, k) == [e \in DOMAIN own \cup {c} |-> IF e = c THEN k ELSE own[e]]

(* What is wrong with the instance k using the Conf c.                     *)
Wrong(own, k, c) ==
  IF c \notin DOMAIN own THEN {"freed"}
  ELSE IF own[c] # k THEN {"foreign"} ELSE {}

(* configure in pl_psftp.c: without a Conf, the defaults are loaded into a *)
(* new one; one that belongs to a different DLL is to be copied.           *)
DllConfigure(k, c, own) ==
  \/ /\ c.conf = Null
     /\ \E n \in Fresh :
          /\ cfg' = [cfg EXCEPT ![k] = [c EXCEPT !.conf = n]]
          /\ owner' = Made(own, n, k)
     /\ UNCHANGED misuse
  \/ /\ c.conf # Null /\ c.copyMe
     /\ \E n \in Fresh :
          /\ cfg' = [cfg EXCEPT ![k] = [conf |-> n, copyMe |-> FALSE]]
          /\ owner' = Made(own, n, k)
     /\ misuse' = misuse \cup (Wrong(own, k, c.conf) \ {"foreign"})
  \/ /\ c.conf # Null /\ ~c.copyMe
     /\ cfg' = [cfg EXCEPT ![k] = c]
     /\ owner' = own
     /\ misuse' = misuse \cup Wrong(own, k, c.conf)

(* conf_free. *)
FreeConf(k, c) ==
  /\ owner' = Without(owner, {c})
  /\ misuse' = misuse \cup Wrong(owner, k, c)

-----------------------------------------------------------------------------
(* Servers are deleted with their mapper and configuration.                *)
Drop(ks, f, none) == [k \in DOMAIN f |-> IF k \in ks THEN none ELSE f[k]]

DropServers(ks) ==
  /\ servers' = servers \ ks
  /\ configured' = configured \ ks
  /\ mapper' = Drop(ks, mapper, "none")
  /\ myCfg' = Drop(ks, myCfg, NoConf)
  /\ cfg' = Drop(ks, cfg, NoConf)
  /\ owner' = WithoutInstances(ks)
  /\ UNCHANGED misuse

(* Slip: the thread id is not appended to the name. *)
ServerName_Session(n, t) == <<n, Main>>
ServerName(n, t) == <<n, t>>

(* Slip: the exit code of the thread is not looked at. *)
HasEnded_Exists(t) == thread[t] # "gone"

(* OpenThread finds it, and it is not STILL_ACTIVE. *)
HasEnded(t) == thread[t] = "ended"

(* At most one server is deleted whose thread has ended.                   *)
Reapable ==
  LET dead == { k \in servers : HasEnded(k[2]) }
  IN IF dead = {} THEN {{}} ELSE { {k} : k \in dead }

(* findServer, under the global mutex throughout. A new server of a        *)
(* background thread starts with what the main thread's is configured to.  *)
FindServer(k, n, t) ==
  \E dead \in Reapable :
    LET inherits == /\ k \notin servers \ dead
                    /\ t # Main /\ <<n, Main>> \in configured
    IN /\ servers' = (servers \ dead) \cup {k}
       /\ configured' = (configured \ dead) \cup { j \in {k} : inherits }
       /\ mapper' = Drop(dead, mapper, "none")
       /\ myCfg' = [Drop(dead, myCfg, NoConf) EXCEPT
                      ![k] = IF inherits THEN myCfg[<<n, Main>>] ELSE @]
       /\ cfg' = Drop(dead, cfg, NoConf)
       /\ owner' = WithoutInstances(dead)
       /\ UNCHANGED misuse

-----------------------------------------------------------------------------
(* Threads; the system may give a new thread the id of an old one.         *)
ThreadStarts(t) ==
  /\ "background" \in habits
  /\ thread[t] # "running"
  /\ thread' = [thread EXCEPT ![t] = "running"]
  /\ UNCHANGED <<habits, registry, pc, op, using, at, locked, progress>>

ThreadEnds(t) ==
  /\ thread[t] = "running" /\ pc[t] = "idle"
  /\ thread' = [thread EXCEPT ![t] = "ended"]
  /\ UNCHANGED <<habits, registry, pc, op, using, at, locked, progress>>

ThreadIsGone(t) ==
  /\ thread[t] = "ended"
  /\ thread' = [thread EXCEPT ![t] = "gone"]
  /\ UNCHANGED <<habits, registry, pc, op, using, at, locked, progress>>

Idle(t) == thread[t] = "running" /\ pc[t] = "idle"
Current(t) == using[t][at[t]]

Goto(t, l) == pc' = [pc EXCEPT ![t] = l]

(* A plugin function begins with findServer. FsMkDirW does not keep its    *)
(* lock, and its window needs none.                                        *)
Functions(t) ==
  {"get", "put", "mkdir", "renmov"} \cup IF t = Main THEN {"open", "properties"} ELSE {}

Call(t, n, f) ==
  LET k == ServerName(n, t) IN
  /\ Idle(t)
  /\ f = "open" => (IF k \in configured THEN "reopen" ELSE "enter") \in habits
  /\ f = "properties" => "dialog" \in habits
  /\ FindServer(k, n, t)
  /\ op' = [op EXCEPT ![t] = f]
  /\ using' = [using EXCEPT ![t] = <<k>>]
  /\ at' = [at EXCEPT ![t] = 1]
  /\ cancelled' = [cancelled EXCEPT ![t] = FALSE]
  /\ reply' = [reply EXCEPT ![t] = "none"]
  /\ Goto(t, IF f = "renmov" THEN "find" ELSE IF f = "mkdir" THEN "run" ELSE "lock")
  /\ UNCHANGED <<habits, thread, locked, lastPPR>>

FindSecond(t, n) ==
  LET k == ServerName(n, t) IN
  /\ pc[t] = "find"
  /\ FindServer(k, n, t)
  /\ using' = [using EXCEPT ![t] = Append(@, k)]
  /\ Goto(t, "lock")
  /\ UNCHANGED <<habits, thread, op, at, locked, progress>>

Held(t) == { using[t][i] : i \in 1 .. locked[t] }
Wants(t) == using[t][locked[t] + 1]
WaitsFor(t, u) == t # u /\ pc[t] = "lock" /\ Wants(t) \in Held(u)

Lock(t) ==
  /\ pc[t] = "lock"
  /\ \A u \in Threads : ~WaitsFor(t, u)
  /\ locked' = [locked EXCEPT ![t] = @ + 1]
  /\ Goto(t, IF locked[t] + 1 < Len(using[t]) THEN "lock" ELSE "run")
  /\ UNCHANGED <<habits, thread, registry, op, using, at, progress>>

-----------------------------------------------------------------------------
(* What the functions do with a server.  A function returns and releases   *)
(* its locks; FsExecuteFileW deletes the server of "<edit connections>".   *)
Release(t) ==
  /\ using' = [using EXCEPT ![t] = <<>>]
  /\ at' = [at EXCEPT ![t] = 1]
  /\ locked' = [locked EXCEPT ![t] = 0]
  /\ op' = [op EXCEPT ![t] = "none"]
  /\ Goto(t, "idle")
  /\ UNCHANGED <<habits, thread>>

Finish(t, r) ==
  /\ Release(t)
  /\ reply' = [reply EXCEPT ![t] = r]

Failure == IF lastPPR = 0 THEN "ERROR" ELSE "USERABORT"

IsConnected(t) ==
  /\ pc[t] = "run" /\ op[t] \in {"get", "put", "mkdir", "renmov", "new"}
  /\ mapper[Current(t)] = "up"
  /\ Goto(t, "command")
  /\ UNCHANGED <<habits, thread, registry, op, using, at, locked, progress>>

(* Slip: the pointer into the old instance is kept. *)
Forget_Keeps(c) == c

(* config = 0, for a Conf of a mapper that is deleted. *)
Forget(c) == [c EXCEPT !.conf = Null]

(* Guard::connect with the new mapper; myCfg may be null (see Session).    *)
Connect(t) ==
  LET k == Current(t)
      own == WithoutInstances({k})
      kept == IF mapper[k] = "none" THEN myCfg[k] ELSE Forget(myCfg[k])
  IN
  /\ pc[t] = "run" /\ op[t] \in {"get", "put", "mkdir", "renmov", "new"}
  /\ mapper[k] # "up"
  /\ mapper[k] # "none" => k \in configured
  /\ DllConfigure(k, IF k \in configured THEN kept ELSE NoConf, own)
  /\ mapper' = [mapper EXCEPT ![k] = "loaded"]
  /\ myCfg' = [myCfg EXCEPT ![k] = kept]
  /\ Goto(t, "connecting")
  /\ UNCHANGED <<habits, thread, servers, configured, op, using, at, locked,
                 progress>>

(* myProgressProc asks Total Commander, dispatches messages, and asks once *)
(* more, but keeps only the first answer.  A user who has cancelled a copy *)
(* has cancelled it.                                                       *)
(* Slips: the answers are added up; none is kept.                          *)
Keep_Sum(first, second) == lastPPR' = first + second
Keep_None(first, second) == lastPPR' = lastPPR
Keep(first, second) == lastPPR' = first

Asked(t, stop) ==
  \E first, second \in {0, 1} :
    /\ stop = (first = 1 \/ second = 1)
    /\ first = 1 => second = 1
    /\ first # second => "late" \in habits
    /\ cancelled[t] => first = 1
    /\ Keep(first, second)

Connected(t) ==
  LET k == Current(t) IN
  /\ pc[t] = "connecting"
  /\ Asked(t, FALSE)
  /\ mapper' = [mapper EXCEPT ![k] = "up"]
  /\ configured' = configured \cup {k}
  /\ myCfg' = [myCfg EXCEPT ![k] = cfg[k]]
  /\ Goto(t, "command")
  /\ UNCHANGED <<habits, thread, servers, cfg, owner, misuse, op, using, at, locked,
                 cancelled, reply>>

(* A copy whose setTransferAscii could not connect tries again.            *)
NotConnected(t) ==
  LET k == Current(t) IN
  /\ pc[t] = "connecting" /\ op[t] # "new"
  /\ Asked(t, TRUE) \/ Asked(t, FALSE)
  /\ mapper' = [mapper EXCEPT ![k] = "none"]
  /\ cfg' = [cfg EXCEPT ![k] = NoConf]
  /\ owner' = WithoutInstances({k})
  /\ UNCHANGED <<servers, configured, myCfg, misuse, cancelled>>
  /\ \/ Release(t) /\ reply' = [reply EXCEPT ![t] = Failure']
     \/ /\ op[t] # "mkdir"
        /\ Goto(t, "run")
        /\ UNCHANGED <<habits, thread, op, using, at, locked, reply>>

(* The server of a new connection is removed again.                        *)
NewNotConnected ==
  /\ pc[Main] = "connecting" /\ op[Main] = "new"
  /\ Asked(Main, TRUE) \/ Asked(Main, FALSE)
  /\ DropServers({Current(Main), Temp})
  /\ Finish(Main, "ERROR")
  /\ UNCHANGED cancelled

(* Copying from a server and to one; FsRenMovFileW does both in turn.      *)
Fetches(t) == op[t] = "get" \/ (op[t] = "renmov" /\ at[t] = 1)
Stores(t) == op[t] = "put" \/ (op[t] = "renmov" /\ at[t] = 2)

(* A loop that is told to stop asks on until it has stopped.               *)
AskOn(t) ==
  /\ pc[t] \in {"command", "stopped"}
  /\ \E stop \in BOOLEAN :
       /\ Asked(t, stop)
       /\ cancelled' = [cancelled EXCEPT ![t] = stop]
       /\ IF stop THEN Goto(t, "stopped") ELSE UNCHANGED pc
  /\ UNCHANGED <<habits, thread, registry, op, using, at, locked, reply>>

ProgressOfGet(t) == Fetches(t) /\ AskOn(t)
ProgressOfPut(t) == Stores(t) /\ AskOn(t)

(* doCommand connects again if the command returns without a connection.   *)
(* A download that never does (see Download) keeps its server for ever,    *)
(* one that crashes takes everything with it: neither takes a step.        *)
LoseConnection(t) ==
  /\ pc[t] \in {"command", "stopped"}
  /\ mapper' = [mapper EXCEPT ![Current(t)] = "broken"]
  /\ Goto(t, "run")
  /\ UNCHANGED <<habits, thread, servers, configured, myCfg, cfg, owner, misuse,
                 op, using, at, locked, progress>>

(* On to the second half of a copy between servers. *)
SecondHalf(t) ==
  /\ pc[t] = "command" /\ op[t] = "renmov" /\ at[t] = 1
  /\ at' = [at EXCEPT ![t] = 2]
  /\ Goto(t, "run")
  /\ UNCHANGED <<habits, thread, registry, op, using, locked, progress>>

(* A download that is told to stop has failed.  An upload has not, if its  *)
(* file was read to the end when it was told to and a write was still      *)
(* without an answer: the next good one makes the result 1 again, and the  *)
(* loop ends by its condition.  Nor has one whose next write is refused,   *)
(* as -1 counts as success (see Upload).                                   *)
Succeed(t) ==
  /\ \/ pc[t] = "command" /\ (op[t] = "renmov" => at[t] = 2)
     \/ pc[t] = "stopped" /\ Stores(t)
  /\ IF op[t] = "new" THEN DropServers({Temp}) ELSE UNCHANGED registry
  /\ Finish(t, "OK")
  /\ UNCHANGED <<lastPPR, cancelled>>

Fail(t) ==
  /\ \/ pc[t] = "command" /\ op[t] # "new"
     \/ pc[t] = "stopped"
  /\ Finish(t, Failure)
  /\ UNCHANGED <<registry, lastPPR, cancelled>>

-----------------------------------------------------------------------------
(* getHomeDir: the mapper is loaded, the settings of the session are read  *)
(* into myCfg, and the Conf is freed again.                                *)
IsLoaded(k) ==
  /\ mapper' = [mapper EXCEPT ![k] = IF @ = "none" THEN "loaded" ELSE @]
  /\ cfg' = IF mapper[k] = "none"
            THEN [cfg EXCEPT ![k] = IF k \in configured THEN myCfg[k] ELSE NoConf]
            ELSE cfg

LoadConfig(t) ==
  LET k == Current(t) IN
  /\ pc[t] = "run" /\ op[t] = "open"
  /\ IsLoaded(k)
  /\ configured' = configured \cup {k}
  /\ \/ /\ myCfg[k].conf = Null
        /\ \E n \in Fresh : /\ myCfg' = [myCfg EXCEPT ![k].conf = n]
                            /\ owner' = Made(owner, n, k)
        /\ UNCHANGED misuse
     \/ /\ myCfg[k].conf # Null
        /\ misuse' = misuse \cup Wrong(owner, k, myCfg[k].conf)
        /\ UNCHANGED <<myCfg, owner>>
  /\ Goto(t, "loading")
  /\ UNCHANGED <<habits, thread, servers, op, using, at, locked, progress>>

ConfigLoaded(t) ==
  LET k == Current(t) IN
  /\ pc[t] = "loading"
  /\ FreeConf(k, myCfg[k].conf)
  /\ myCfg' = [myCfg EXCEPT ![k].conf = Null]
  /\ Release(t)
  /\ UNCHANGED <<servers, mapper, configured, cfg, progress>>

-----------------------------------------------------------------------------
(* The dialog for the properties of a session. *)
OpenDialog(t) ==
  LET k == Current(t) IN
  /\ pc[t] = "run" /\ op[t] = "properties"
  /\ mapper' = [mapper EXCEPT ![k] = IF @ = "none" THEN "loaded" ELSE @]
  /\ DllConfigure(k, IF mapper[k] # "none" THEN cfg[k]
                     ELSE IF k \in configured THEN myCfg[k] ELSE NoConf, owner)
  /\ Goto(t, "dialog")
  /\ UNCHANGED <<habits, thread, servers, configured, myCfg, op, using, at, locked,
                 progress>>

ConfirmDialog(t) ==
  LET k == Current(t) IN
  /\ pc[t] = "dialog"
  /\ configured' = configured \cup {k}
  /\ myCfg' = [myCfg EXCEPT ![k] = cfg[k]]
  /\ Release(t)
  /\ UNCHANGED <<servers, mapper, cfg, owner, misuse, progress>>

CancelDialog(t) ==
  LET k == Current(t) IN
  /\ pc[t] = "dialog"
  /\ FreeConf(k, cfg[k].conf)
  /\ cfg' = [cfg EXCEPT ![k].conf = Null]
  /\ Release(t)
  /\ UNCHANGED <<servers, mapper, configured, myCfg, progress>>

(* "<edit connections>": a dialog in a server of its own, ... *)
NewConnection ==
  /\ Idle(Main) /\ "dialog" \in habits
  /\ mapper' = [mapper EXCEPT ![Temp] = "loaded"]
  /\ DllConfigure(Temp, NoConf, owner)
  /\ op' = [op EXCEPT ![Main] = "new"]
  /\ cancelled' = [cancelled EXCEPT ![Main] = FALSE]
  /\ Goto(Main, "new dialog")
  /\ UNCHANGED <<habits, thread, servers, configured, myCfg, using, at, locked,
                 lastPPR, reply>>

CancelNew ==
  /\ pc[Main] = "new dialog"
  /\ DropServers({Temp})
  /\ Release(Main)
  /\ UNCHANGED progress

Offered(c) == [c EXCEPT !.copyMe = TRUE]

(* ... and openConnection, which inserts a server under the chosen name    *)
(* and connects.  serverMap is changed without the global mutex.           *)
OpenNew(n) ==
  LET k == ServerName(n, Main) IN
  /\ pc[Main] = "new dialog"
  /\ servers' = servers \cup {k}
  /\ configured' = configured \cup {k}
  /\ mapper' = [mapper EXCEPT ![k] = "none"]
  /\ myCfg' = [myCfg EXCEPT ![k] = Offered(cfg[Temp])]
  /\ cfg' = [cfg EXCEPT ![k] = NoConf]
  /\ owner' = WithoutInstances({k})
  /\ using' = [using EXCEPT ![Main] = <<k>>]
  /\ Goto(Main, "run")
  /\ UNCHANGED <<habits, thread, misuse, op, at, locked, progress>>

(* FsDisconnectW. *)
Disconnect(n) ==
  /\ Idle(Main) /\ "disconnect" \in habits
  /\ <<n, Main>> \in servers
  /\ DropServers({<<n, Main>>})
  /\ UNCHANGED <<habits, thread, pc, op, using, at, locked, progress>>

-----------------------------------------------------------------------------
Step(t) ==
  \/ \E n \in Sessions : FindSecond(t, n)
  \/ Lock(t) \/ IsConnected(t) \/ Connect(t) \/ Connected(t) \/ NotConnected(t)
  \/ ProgressOfGet(t) \/ ProgressOfPut(t) \/ LoseConnection(t)
  \/ SecondHalf(t) \/ Succeed(t) \/ Fail(t)
  \/ LoadConfig(t) \/ ConfigLoaded(t)
  \/ OpenDialog(t) \/ ConfirmDialog(t) \/ CancelDialog(t)

Next ==
  \/ \E t \in Threads : Step(t)
  \/ \E t \in Threads, n \in Sessions : \E f \in Functions(t) : Call(t, n, f)
  \/ \E t \in Background : ThreadStarts(t) \/ ThreadEnds(t) \/ ThreadIsGone(t)
  \/ NewConnection \/ CancelNew \/ NewNotConnected
  \/ \E n \in Sessions : OpenNew(n) \/ Disconnect(n)

Spec == Init /\ [][Next]_vars

-----------------------------------------------------------------------------
TypeOK ==
  /\ habits \in HabitSets
  /\ thread \in [Threads -> {"running", "ended", "gone"}]
  /\ servers \subseteq Key /\ configured \subseteq Key
  /\ mapper \in [Instances -> {"none", "loaded", "up", "broken"}]
  /\ myCfg \in [Instances -> Config] /\ cfg \in [Instances -> Config]
  /\ DOMAIN owner \subseteq ConfIds
  /\ \A c \in DOMAIN owner : owner[c] \in Instances
  /\ misuse \subseteq {"freed", "foreign"}
  /\ pc \in [Threads -> {"idle", "find", "lock", "run", "connecting", "command",
                         "stopped", "loading", "dialog", "new dialog"}]
  /\ op \in [Threads -> {"none", "get", "put", "mkdir", "renmov", "open",
                         "properties", "new"}]
  /\ using \in [Threads -> Seq(Key)]
  /\ at \in [Threads -> {1, 2}]
  /\ locked \in [Threads -> 0 .. 2]
  /\ lastPPR \in {0, 1}
  /\ cancelled \in [Threads -> BOOLEAN]
  /\ reply \in [Threads -> {"none", "OK", "ERROR", "USERABORT"}]

Uses(t) == { using[t][i] : i \in DOMAIN using[t] }

(* A server that a thread has a pointer to is not deleted, neither when    *)
(* findServer reaps nor when a session is closed or replaced.              *)
NoUseAfterDelete == \A t \in Threads : Uses(t) \subseteq servers

(* No two threads are in the same server, mkdir's unlocked one included.   *)
OneThreadPerServer ==
  \A t, u \in Threads : t # u => Uses(t) \cap Uses(u) = {}

(* FsRenMovFileW locks two servers in argument order, which cannot close a *)
(* cycle: no thread ever waits for a mutex that another one holds.         *)
NobodyWaits == \A t, u \in Threads : ~WaitsFor(t, u)

(* No instance of the DLL uses a Conf that is freed or belongs to another  *)
(* instance.                                                               *)
ConfsInOrder == misuse = {}

(* ... unless sessions are copied to background threads, or entered again  *)
(* while their properties can be edited.                                   *)
ForegroundConfsInOrder ==
  "background" \notin habits /\ ~({"reopen", "dialog"} \subseteq habits)
    => ConfsInOrder

(* A copy that was cancelled is reported as cancelled; an upload may have  *)
(* succeeded, but only if it was not cut off as well.  It never looks like *)
(* an error of the file.                                                   *)
CancelIsReported(t) ==
  \/ reply'[t] = "USERABORT"
  \/ pc[t] = "stopped" /\ Stores(t) /\ reply'[t] = "OK"

Returns(t) == pc[t] # "idle" /\ pc'[t] = "idle"

(* That holds if nobody else copies and the first callback saw the cancel, *)
(* whatever connections are lost and made again on the way.                *)
CancelSeenIsReported ==
  [][habits \cap {"background", "late"} = {} =>
       \A t \in Threads : cancelled[t] /\ Returns(t) => CancelIsReported(t)]_vars
=============================================================================
