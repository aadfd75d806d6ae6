------------------------------ MODULE Session ------------------------------
(***************************************************************************)
(* The sessions of the plugin: one mapper (a private copy of psftp.dll)    *)
(* per server, Guard::connect, which opens it, Server::doCommand, which    *)
(* runs one command line in it and after a broken connection connects      *)
(* again and repeats it (tc_plugin/server.cpp), the commands of the client *)
(* (PuttyLib/putty/psftp.c) as the server carries them out, and the        *)
(* listings that the plugin caches per server.                             *)
(*                                                                         *)
(* A command runs to completion in the calling thread.  Paths are absolute *)
(* except in quoted commands, which rely on the working directory of the   *)
(* session.  What a file or directory holds is a set: {} where there is    *)
(* nothing, {c} for a file with the content c, and a set with Directory in *)
(* it for a directory and what has been moved into it.                     *)
(***************************************************************************)
EXTENDS Naturals, FiniteSets

CONSTANTS
  Sites,         \* servers
  Dirs, Names,   \* directories of a server, names in them
  Home,          \* the directory a session starts in
  Contents,      \* what the files hold at first, all different
  CachingSites,  \* servers configured with cacheFolders
  FaultSets      \* what the environment may do, sets of SessionFaults

SessionFaults == {
  "lost",        \* the connection breaks while a command runs
  "refused",     \* a connection cannot be opened
  "nodll",       \* psftp.dll cannot be copied or loaded
  "denied",      \* the server refuses a command
  "abort",       \* the user cancels a transfer
  "error",       \* a read or write of the data of a transfer fails
  "shortls",     \* reading a directory fails in the middle
  "cancelled" }  \* the properties dialog is closed with cancel

ASSUME SessionAssumption ==
  /\ Home \in Dirs
  /\ CachingSites \subseteq Sites
  /\ FaultSets \subseteq SUBSET SessionFaults
  /\ {"new", "part", "dir"} \cap Contents = {}

Path == Dirs \X Names
New == "new"               \* the content of the local file of an upload
Part == "part"             \* a file cut short
Directory == "dir"
Things == Contents \cup {New, Part, Directory}
NotCached == {"not cached"}
NoCall == [do |-> "nothing"]
NoResult == [ok |-> FALSE, got |-> {}]

Command ==
  [do : {"ls", "cd"}, dir : Dirs]
    \cup [do : {"rm", "rmdir", "mkdir", "get"}, path : Path]
    \cup [do : {"mv"}, path : Path, to : Path]
    \cup [do : {"put"}, path : Path, content : SUBSET Things]
    \cup [do : {"relative"}, name : Names, dir : Dirs]
    \cup [do : {"connect only"}]

Call ==
  [site : Sites, cmd : Command, at : {"connect", "run", "hung"}, tries : 0 .. 2]

VARIABLES
  faults,        \* what the environment may do in this behaviour
  tree,          \* what the servers hold
  mapper,        \* Server::currentMapper: "none", "nodll", "loaded", "up", "broken"
  config,        \* Server::myCfg is not null
  cwd,           \* pwd in the DLL instance
  listed,        \* CurrentDirStruct.names in the DLL instance is not null
  cacheOn,       \* Server::cacheFolders
  cache,         \* Server::dirCache, by server and directory
  call,          \* the command doCommand is running, or NoCall
  ret,           \* whether it succeeded, and what it has read
  crashed        \* a null pointer has been followed

session == <<mapper, config, cwd, listed, cacheOn, cache>>
sessionVars == <<faults, tree, session, call, ret, crashed>>

EmptyCache == [d \in Dirs |-> NotCached]
IsFile(cell) == cell # {} /\ Directory \notin cell
Listing(t, d) == { n \in Names : t[<<d, n>>] # {} }

(* Every content is in one place or in none. *)
Spots == { {} } \cup { {x} : x \in Sites \X Path }

SessionInit ==
  /\ faults \in FaultSets
  /\ \E place \in [Contents -> Spots], dir \in Spots :
       /\ \A c, e \in Contents : c # e => place[c] \cap place[e] = {}
       /\ \A c \in Contents : place[c] \cap dir = {}
       /\ tree = [s \in Sites |-> [p \in Path |->
                    { c \in Contents : <<s, p>> \in place[c] }
                      \cup { x \in {Directory} : <<s, p>> \in dir }]]
  /\ mapper = [s \in Sites |-> "none"]
  /\ config = [s \in Sites |-> FALSE]
  /\ cwd = [s \in Sites |-> Home]
  /\ listed = [s \in Sites |-> FALSE]
  /\ cacheOn = [s \in Sites |-> FALSE]
  /\ cache = [s \in Sites |-> EmptyCache]
  /\ call = NoCall
  /\ ret = NoResult
  /\ crashed = FALSE

-----------------------------------------------------------------------------
(* The commands, as what they may make of the tree t of a server: whether  *)
(* sftp_cmd_... returns 1, and what it has read.                           *)

Outcome(t, ok, got) == [tree |-> t, ok |-> ok, got |-> got]
Refusal(t) == { Outcome(t, FALSE, {}) }

Remove(t, p) ==
  IF IsFile(t[p]) THEN { Outcome([t EXCEPT ![p] = {}], TRUE, {}) } ELSE Refusal(t)

RemoveDir(t, p) ==
  IF t[p] = {Directory} THEN { Outcome([t EXCEPT ![p] = {}], TRUE, {}) }
  ELSE Refusal(t)

MakeDir(t, p) ==
  IF t[p] = {} THEN { Outcome([t EXCEPT ![p] = {Directory}], TRUE, {}) }
  ELSE Refusal(t)

(* check_is_dir: what is moved to a directory is moved into it.            *)
Move(t, p, q) ==
  IF p # q /\ t[p] # {} /\ (t[q] = {} \/ Directory \in t[q])
  THEN { Outcome([t EXCEPT ![p] = {}, ![q] = @ \cup t[p]], TRUE, {}) }
  ELSE Refusal(t)

(* sftp_get_file.  Cancelled, it returns 0 and leaves what it has written.  *)
(* A reply that says that a read has failed, or a write to the local file  *)
(* that fails, sets ret to 0, but the next good reply sets it back to 1:   *)
(* what is left is a part, reported one way or the other.  A file may be   *)
(* resumed, which gives the same.                                          *)
Get(t, p) ==
  IF ~IsFile(t[p]) THEN Refusal(t)
  ELSE { Outcome(t, TRUE, t[p]) }
         \cup (IF "abort" \in faults
               THEN { Outcome(t, FALSE, t[p]), Outcome(t, FALSE, {Part}) } ELSE {})
         \cup (IF "error" \in faults
               THEN { Outcome(t, ok, {Part}) : ok \in BOOLEAN } ELSE {})

(* Slip: a cancel does not set what is returned.                           *)
Put_CancelIsOK(t, p, content) ==
  LET Whole == [t EXCEPT ![p] = content]
      Cut == [t EXCEPT ![p] = {Part}] IN
  IF Directory \in t[p] THEN Refusal(t)
  ELSE { Outcome(Whole, TRUE, {}) }
         \cup (IF faults \cap {"abort", "error"} # {}
               THEN { Outcome(Cut, TRUE, {}) } ELSE {})

(* sftp_put_file.  Cancelled, it returns 0, but 1 if all has been sent and  *)
(* answers are due.  A refused write makes it -1, and so a success for      *)
(* doCommand; so does a local file that cannot be read to its end.         *)
Put(t, p, content) ==
  LET Whole == [t EXCEPT ![p] = content]
      Cut == [t EXCEPT ![p] = {Part}] IN
  IF Directory \in t[p] THEN Refusal(t)
  ELSE { Outcome(Whole, TRUE, {}) }
         \cup (IF "abort" \in faults
               THEN { Outcome(Whole, FALSE, {}), Outcome(Cut, FALSE, {}) } ELSE {})
         \cup (IF "error" \in faults THEN { Outcome(Cut, TRUE, {}) } ELSE {})

(* A READDIR that fails ends the listing; only when it is the first one    *)
(* does cmdLs notice.  No directory is empty, since it holds ".".          *)
List(t, d) ==
  IF "shortls" \in faults
  THEN { Outcome(t, TRUE, names) : names \in SUBSET Listing(t, d) } \cup Refusal(t)
  ELSE { Outcome(t, TRUE, Listing(t, d)) }

Outcomes(s, c) ==
  LET t == tree[s] IN
    (CASE c.do = "ls" -> List(t, c.dir)
       [] c.do = "cd" -> { Outcome(t, TRUE, {}) }
       [] c.do = "rm" -> Remove(t, c.path)
       [] c.do = "rmdir" -> RemoveDir(t, c.path)
       [] c.do = "mkdir" -> MakeDir(t, c.path)
       [] c.do = "mv" -> Move(t, c.path, c.to)
       [] c.do = "get" -> Get(t, c.path)
       [] c.do = "put" -> Put(t, c.path, c.content)
       [] c.do = "relative" -> Remove(t, <<cwd[s], c.name>>))
    \cup (IF "denied" \in faults /\ c.do # "ls" THEN Refusal(t) ELSE {})

(* What a command that loses its connection leaves behind if it returns.   *)
(* A put is cut off with a part.  A get returns only if the connection     *)
(* breaks before the local file is opened, when everything has been        *)
(* answered, or when it stops for a cancel or an error; else it hangs.     *)
CutOff(s, c) ==
  LET t == tree[s] IN
  Refusal(t)
    \cup (IF c.do # "get"
          THEN { Outcome(o.tree, FALSE, o.got) : o \in Outcomes(s, c) } ELSE {})
    \cup (IF c.do = "put" /\ Directory \notin t[c.path]
          THEN { Outcome([t EXCEPT ![c.path] = {Part}], FALSE, {}) } ELSE {})
    \cup (IF c.do = "get" /\ IsFile(t[c.path])
          THEN { Outcome(t, FALSE, got) :
                   got \in { t[c.path] } \cup
                            { {Part} : f \in faults \cap {"abort", "error"} } }
          ELSE {})

(* A get that is cancelled and a put that stops for a failed write do not  *)
(* wait for the answers that are due; the next one is then taken for the   *)
(* answer to CLOSE or FSETSTAT, and the client gives the connection up.    *)
Misread(s, c) ==
  LET t == tree[s] IN
  (IF c.do = "get" /\ "abort" \in faults /\ IsFile(t[c.path])
   THEN { Outcome(t, FALSE, {Part}) } ELSE {})
  \cup (IF c.do = "put" /\ "error" \in faults /\ Directory \notin t[c.path]
        THEN { Outcome([t EXCEPT ![c.path] = {Part}], FALSE, {}) } ELSE {})

Broken(s, c) ==
  Misread(s, c) \cup (IF "lost" \in faults THEN CutOff(s, c) ELSE {})

-----------------------------------------------------------------------------
Returning(ok) ==
  /\ call' = NoCall
  /\ ret' = [ret EXCEPT !.ok = ok]

ConnectOnly == [do |-> "connect only"]

(* doCommand, or Guard::connect alone, with a mapper that is connected or  *)
(* not.                                                                    *)
DoCommand(s, c) ==
  /\ call = NoCall /\ ~crashed
  /\ IF mapper[s] = "up" /\ c = ConnectOnly
     THEN call' = NoCall
     ELSE call' = [site |-> s, cmd |-> c, tries |-> 0,
                   at |-> IF mapper[s] = "up" THEN "run" ELSE "connect"]
  /\ ret' = [NoResult EXCEPT !.ok = mapper[s] = "up" /\ c = ConnectOnly]

(* Slip: the command is run a third time. *)
Proceed_OnceMore ==
  IF call.cmd = ConnectOnly \/ call.tries = 3
  THEN Returning(call.cmd = ConnectOnly)
  ELSE call' = [call EXCEPT !.at = "run"] /\ UNCHANGED ret

(* After a connect: run the command, if there is one and it has not been   *)
(* run twice.                                                              *)
Proceed ==
  IF call.cmd = ConnectOnly \/ call.tries = 2
  THEN Returning(call.cmd = ConnectOnly)
  ELSE call' = [call EXCEPT !.at = "run"] /\ UNCHANGED ret

MustConnect(s) == call # NoCall /\ ~crashed /\ call.at = "connect" /\ call.site = s

(* A mapper that is not connected is deleted, and its configuration is     *)
(* cleared through myCfg, which may be null.                               *)
CanClear(s) == mapper[s] = "none" \/ config[s]

ClearsNullConfig(s) ==
  /\ MustConnect(s)
  /\ ~CanClear(s)
  /\ crashed' = TRUE
  /\ UNCHANGED <<faults, tree, session, call, ret>>

(* Slip: the configuration that the new session has is not kept.           *)
Configure_NotKept(s) ==
  /\ UNCHANGED config
  /\ cacheOn' = [cacheOn EXCEPT ![s] = s \in CachingSites]
  /\ cache' = IF s \in CachingSites THEN cache ELSE [cache EXCEPT ![s] = EmptyCache]

(* Server::configure, called with what the new session is configured to.   *)
Configure(s) ==
  /\ config' = [config EXCEPT ![s] = TRUE]
  /\ cacheOn' = [cacheOn EXCEPT ![s] = s \in CachingSites]
  /\ cache' = IF s \in CachingSites THEN cache ELSE [cache EXCEPT ![s] = EmptyCache]

Connect(s) ==
  /\ MustConnect(s) /\ CanClear(s)
  /\ mapper' = [mapper EXCEPT ![s] = "up"]
  /\ cwd' = [cwd EXCEPT ![s] = Home]
  /\ listed' = [listed EXCEPT ![s] = FALSE]
  /\ Configure(s)
  /\ Proceed
  /\ UNCHANGED <<faults, tree, crashed>>

(* No connection: the mapper is deleted; no DLL: it stays, without one. *)
ConnectFails(s) ==
  /\ MustConnect(s) /\ CanClear(s)
  /\ \E m \in {"none", "nodll"} :
       /\ (IF m = "none" THEN "refused" ELSE "nodll") \in faults
       /\ mapper' = [mapper EXCEPT ![s] = m]
  /\ Returning(FALSE)
  /\ UNCHANGED <<faults, tree, config, cwd, listed, cacheOn, cache, crashed>>

(* The command runs and the connection is still up.  A refused OPENDIR is  *)
(* a success for sftp_cmd_ls, with no names in CurrentDirStruct: cmdLs     *)
(* sees that only as long as no earlier listing has left a pointer there.  *)
Running(s) == call # NoCall /\ ~crashed /\ call.at = "run" /\ call.site = s

(* A get that fails before it opens the local file leaves it as it was.    *)
HasRead(o) == IF call.cmd.do = "get" /\ o.got = {} THEN ret.got ELSE o.got

(* Slip: the command is repeated even if the connection is still up. *)
RunCommand_Repeats(s) ==
  /\ Running(s)
  /\ \E o \in Outcomes(s, call.cmd) :
       /\ tree' = [tree EXCEPT ![s] = o.tree]
       /\ ret' = [ok |-> o.ok, got |-> HasRead(o)]
  /\ call' = IF call.tries = 1 THEN NoCall ELSE [call EXCEPT !.tries = @ + 1]
  /\ UNCHANGED <<faults, mapper, config, cwd, listed, cacheOn, cache, crashed>>

RunCommand(s) ==
  /\ Running(s)
  /\ \E o \in Outcomes(s, call.cmd) :
       /\ tree' = [tree EXCEPT ![s] = o.tree]
       /\ ret' = [ok |-> o.ok, got |-> HasRead(o)]
       /\ cwd' = IF call.cmd.do = "cd" /\ o.ok
                 THEN [cwd EXCEPT ![s] = call.cmd.dir] ELSE cwd
       /\ listed' = IF call.cmd.do = "ls" THEN [listed EXCEPT ![s] = o.ok]
                    ELSE listed
  /\ call' = NoCall
  /\ UNCHANGED <<faults, mapper, config, cacheOn, cache, crashed>>

OpenDirRefused(s) ==
  /\ Running(s)
  /\ call.cmd.do = "ls" /\ "denied" \in faults
  /\ ret' = [ok |-> listed[s], got |-> {}]
  /\ call' = NoCall
  /\ UNCHANGED <<faults, tree, session, crashed>>

(* Slip: the retries are not counted. *)
LoseConnection_NotCounted(s) ==
  /\ Running(s)
  /\ \E o \in Broken(s, call.cmd) :
       /\ tree' = [tree EXCEPT ![s] = o.tree]
       /\ ret' = [ok |-> FALSE, got |-> HasRead(o)]
  /\ mapper' = [mapper EXCEPT ![s] = "broken"]
  /\ call' = [call EXCEPT !.at = "connect"]
  /\ UNCHANGED <<faults, config, cwd, listed, cacheOn, cache, crashed>>

(* The connection is gone when the command returns, whether or not the     *)
(* server has carried it out; doCommand connects again.                    *)
LoseConnection(s) ==
  /\ Running(s)
  /\ \E o \in Broken(s, call.cmd) :
       /\ tree' = [tree EXCEPT ![s] = o.tree]
       /\ ret' = [ok |-> FALSE, got |-> HasRead(o)]
  /\ mapper' = [mapper EXCEPT ![s] = "broken"]
  /\ call' = [call EXCEPT !.at = "connect", !.tries = @ + 1]
  /\ UNCHANGED <<faults, config, cwd, listed, cacheOn, cache, crashed>>

Downloads(s) ==
  Running(s) /\ call.cmd.do = "get" /\ IsFile(tree[s][call.cmd.path])

(* The loop of sftp_get_file is never left: the connection breaks while    *)
(* answers are due, or the last answer due is a failure and the blocks     *)
(* before it stay in the queue.                                            *)
GetHangs(s) ==
  /\ Downloads(s)
  /\ faults \cap {"lost", "error"} # {}
  /\ call' = [call EXCEPT !.at = "hung"]
  /\ UNCHANGED <<faults, tree, session, ret, crashed>>

(* A cancel when all that was asked for has been written and the queue is  *)
(* empty: xfer_tail_complete follows tail.                                 *)
GetCrashes(s) ==
  /\ Downloads(s)
  /\ "abort" \in faults
  /\ crashed' = TRUE
  /\ UNCHANGED <<faults, tree, session, call, ret>>

SessionNext ==
  \E s \in Sites :
    \/ Connect(s) \/ ConnectFails(s)
    \/ RunCommand(s) \/ OpenDirRefused(s) \/ LoseConnection(s)
    \/ GetHangs(s) \/ GetCrashes(s)
    \/ ClearsNullConfig(s)

-----------------------------------------------------------------------------
SessionTypeOK ==
  /\ faults \in FaultSets
  /\ tree \in [Sites -> [Path -> SUBSET Things]]
  /\ mapper \in [Sites -> {"none", "nodll", "loaded", "up", "broken"}]
  /\ config \in [Sites -> BOOLEAN]
  /\ cwd \in [Sites -> Dirs]
  /\ listed \in [Sites -> BOOLEAN]
  /\ cacheOn \in [Sites -> BOOLEAN]
  /\ cache \in [Sites -> [Dirs -> (SUBSET Names) \cup {NotCached}]]
  /\ call \in Call \cup {NoCall}
  /\ ret.ok \in BOOLEAN /\ ret.got \subseteq Names \cup Things
  /\ crashed \in BOOLEAN
=============================================================================
