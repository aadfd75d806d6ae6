------------------------------ MODULE FileOps ------------------------------
(***************************************************************************)
(* What Total Commander asks of the plugin (tc_plugin/fsplugin.cpp): list, *)
(* get, put, rename or move, delete, make a directory, execute a command,  *)
(* over the sessions and listings of module Session.  One operation at a   *)
(* time, as it is for one thread, which has its servers to itself (module  *)
(* Registry).  "local" is the local file of a copy, or the temporary file  *)
(* of a move between servers.  A get may be resumed; resuming a put is the *)
(* subject of module Upload and is left out here.                          *)
(***************************************************************************)
EXTENDS Session

CONSTANT MaxOps          \* bounds the operations of a behaviour

ASSUME FileOpsAssumption ==
  /\ MaxOps \in Nat
  /\ Sites # {} /\ Names # {}      \* of which "op" is something at first

VARIABLES
  op,                    \* the current or last operation
  pc,                    \* where it is, "idle" between operations
  reply,                 \* what it returned
  local,                 \* what the local file holds
  last,                  \* lastServer and lastDir, or {}
  quoted,                \* a quoted command has been sent
  ops                    \* operations begun

opVars == <<op, pc, reply, local, last, quoted, ops>>
vars == <<sessionVars, opVars>>

Kinds == {"list", "get", "put", "ren", "rm", "rmdir", "mkdir", "quote", "other"}
Replies == {"OK", "EXISTS", "NOTFOUND", "FAILED", "ERROR"}

Op == [ kind : Kinds,
        from : Sites, path : Path,      \* the remote source
        to : Sites, dest : Path,        \* the remote target
        move : BOOLEAN,                 \* FS_COPYFLAGS_MOVE
        force : BOOLEAN,                \* FS_COPYFLAGS_OVERWRITE
        exists : BOOLEAN,               \* what remoteFileExists returned
        content : SUBSET Things,        \* what is to be copied
        before : [Path -> SUBSET Things] ]      \* the target server's tree

Init ==
  /\ SessionInit
  /\ LET s == CHOOSE t \in Sites : TRUE
         p == CHOOSE q \in Path : TRUE
     IN op = [ kind |-> "other", from |-> s, path |-> p, to |-> s, dest |-> p,
               move |-> FALSE, force |-> FALSE, exists |-> FALSE,
               content |-> {}, before |-> tree[s] ]
  /\ pc = "idle" /\ reply = "OK"
  /\ local = {} /\ last = {}
  /\ quoted = FALSE /\ ops = 0

-----------------------------------------------------------------------------
Ready == pc = "idle" /\ ~crashed /\ ops < MaxOps

(* Every operation but a listing disables the automatic reload. *)
Begin(kind, s, p, t, q, mv, fc, content, start) ==
  /\ Ready
  /\ op' = [ kind |-> kind, from |-> s, path |-> p, to |-> t, dest |-> q,
             move |-> mv, force |-> fc, exists |-> FALSE,
             content |-> content, before |-> tree[t] ]
  /\ pc' = start
  /\ ops' = ops + 1
  /\ UNCHANGED <<faults, tree, mapper, config, cwd, listed, cacheOn, call, ret,
                 crashed, reply>>

NoReload == last' = {} /\ UNCHANGED cache

(* FsFindFirstW: a directory that is listed twice in a row is read again.  *)
BeginList(s, d) ==
  /\ \E n \in Names :
       Begin("list", s, <<d, n>>, s, <<d, n>>, FALSE, FALSE, {}, "exists")
  /\ last' = {<<s, d>>}
  /\ cache' = IF last = {<<s, d>>} THEN [cache EXCEPT ![s][d] = NotCached] ELSE cache
  /\ UNCHANGED <<local, quoted>>

(* "open" on a path looks for the entry in its directory.                  *)
BeginOpenPath(s, p) ==
  /\ Begin("list", s, p, s, p, FALSE, FALSE, {}, "exists")
  /\ NoReload /\ UNCHANGED <<local, quoted>>

(* FsGetFileW deletes an existing local file if it may overwrite it, and   *)
(* keeps it, a part, if it is to be resumed.                               *)
BeginGet(s, p, mv) ==
  /\ Begin("get", s, p, s, p, mv, TRUE, tree[s][p], "get ascii")
  /\ local' \in {{}, {Part}}
  /\ NoReload /\ UNCHANGED quoted

(* FsPutFileW; the local file of a put may not be readable. *)
BeginPut(t, q, mv, fc) ==
  /\ Begin("put", t, q, t, q, mv, fc, {New}, "exists")
  /\ local' \in {{New}, {}}
  /\ NoReload /\ UNCHANGED quoted

(* FsRenMovFileW; a file is never copied onto itself. *)
BeginRenMov(s, p, t, q, mv, fc) ==
  /\ <<s, p>> # <<t, q>>
  /\ Begin("ren", s, p, t, q, mv, fc, tree[s][p], "exists")
  /\ local' = {}
  /\ NoReload /\ UNCHANGED quoted

(* FsDeleteFileW, FsRemoveDirW, FsMkDirW. *)
BeginOnPath(kind, s, p) ==
  /\ Begin(kind, s, p, s, p, FALSE, FALSE, {}, kind)
  /\ NoReload /\ UNCHANGED <<local, quoted>>

(* FsExecuteFileW, "quote rm name" in a directory; chmod goes the same way. *)
BeginQuote(s, p) ==
  /\ Begin("quote", s, p, s, p, FALSE, FALSE, {}, "quote")
  /\ quoted' = TRUE
  /\ NoReload /\ UNCHANGED local

-----------------------------------------------------------------------------
At(l) == pc = l /\ call = NoCall /\ ~crashed

Step(l) ==
  /\ pc' = l
  /\ UNCHANGED <<op, reply, local, last, quoted, ops>>

Run(s, c, l) ==
  /\ DoCommand(s, c)
  /\ Step(l)
  /\ UNCHANGED <<faults, tree, mapper, config, cwd, listed, cacheOn, crashed>>

(* The operation returns; FsRenMovFileW deletes its temporary file.        *)
Return(r, loc) ==
  /\ pc' = "idle"
  /\ reply' = r
  /\ local' = IF op.kind = "ren" THEN {} ELSE loc
  /\ ret' = NoResult
  /\ UNCHANGED <<faults, tree, mapper, config, cwd, listed, cacheOn, call,
                 crashed, op, last, quoted, ops>>

(* dirCache.erase, for the directory of a path. *)
Erase(c, s, p) == [c EXCEPT ![s][p[1]] = NotCached]
EraseListing(s, p) == cache' = Erase(cache, s, p)

(* removeFile, in the cached listing of the directory. *)
RemoveName(c, s, p) ==
  IF c[s][p[1]] = NotCached THEN c ELSE [c EXCEPT ![s][p[1]] = @ \ {p[2]}]

(* getDirContent and remoteFileExists: the cached listing, or ls.          *)
Found(names) ==
  /\ pc' = "decide"
  /\ op' = [op EXCEPT !.exists = op.dest[2] \in names]
  /\ UNCHANGED <<faults, tree, mapper, config, cwd, listed, cacheOn, call, ret,
                 crashed, reply, local, last, quoted, ops>>

LookInCache ==
  /\ At("exists")
  /\ cacheOn[op.to] /\ cache[op.to][op.dest[1]] # NotCached
  /\ Found(cache[op.to][op.dest[1]])
  /\ UNCHANGED cache

LookOnServer ==
  /\ At("exists")
  /\ ~(cacheOn[op.to] /\ cache[op.to][op.dest[1]] # NotCached)
  /\ Run(op.to, [do |-> "ls", dir |-> op.dest[1]], "listed")
  /\ UNCHANGED cache

UpdateDirCache(s, d, names) ==
  IF cacheOn[s] THEN [cache EXCEPT ![s][d] = names]
  ELSE [cache EXCEPT ![s] = [EmptyCache EXCEPT ![d] = names]]

Listed ==
  /\ At("listed") /\ ret.ok
  /\ cache' = UpdateDirCache(op.to, op.dest[1], ret.got)
  /\ Found(ret.got)

(* Slip: without a listing the file is taken not to exist. *)
NotListed_Absent ==
  /\ At("listed") /\ ~ret.ok
  /\ op.kind # "list"
  /\ Found({})
  /\ UNCHANGED cache

(* Without a listing the file is taken to exist. *)
NotListed ==
  /\ At("listed") /\ ~ret.ok
  /\ op.kind # "list"
  /\ Found(Names)
  /\ UNCHANGED cache

ListDone ==
  /\ \/ At("listed") /\ ~ret.ok /\ op.kind = "list" /\ Return("FAILED", local)
     \/ At("decide") /\ op.kind = "list" /\ Return("OK", local)
  /\ UNCHANGED cache

AskFirst ==
  /\ At("decide") /\ op.kind # "list"
  /\ op.exists /\ ~op.force
  /\ Return("EXISTS", local)
  /\ UNCHANGED cache

MayWrite == At("decide") /\ op.kind # "list" /\ (~op.exists \/ op.force)

(* Slip: the test of FS_COPYFLAGS_MOVE is inverted. *)
ShortWay_Inverted == op.kind = "ren" /\ op.from = op.to /\ ~op.move

(* A rename on the server: same server, and not a copy. *)
ShortWay == op.kind = "ren" /\ op.from = op.to /\ op.move
-----------------------------------------------------------------------------
(* FsRenMovFileW on one server: an existing target is removed first.       *)
RenameDirectly ==
  /\ MayWrite /\ ShortWay /\ ~op.exists
  /\ Run(op.to, [do |-> "mv", path |-> op.path, to |-> op.dest], "moved")
  /\ UNCHANGED cache

RemoveTarget ==
  /\ MayWrite /\ ShortWay /\ op.exists
  /\ Run(op.to, [do |-> "rm", path |-> op.dest], "target gone")
  /\ EraseListing(op.to, op.dest)

(* ... whether or not that worked. *)
RenameAfterRemove ==
  /\ At("target gone")
  /\ Run(op.to, [do |-> "mv", path |-> op.path, to |-> op.dest], "moved")
  /\ UNCHANGED cache

(* Slip: the listing of the target is not touched when the name has been   *)
(* found in the one of the source.                                         *)
MovedListings_SourceOnly ==
  IF cache[op.to][op.path[1]] # NotCached
  THEN RemoveName(cache, op.to, op.path)
  ELSE Erase(cache, op.to, op.dest)

(* cmdMove: removeFile, then insertFile, which erases the listing; or else *)
(* invalidateDirContent.                                                   *)
MovedListings == Erase(RemoveName(cache, op.to, op.path), op.to, op.dest)

Renamed ==
  /\ At("moved")
  /\ Return(IF ret.ok THEN "OK" ELSE "ERROR", local)
  /\ cache' = IF ret.ok THEN MovedListings ELSE cache

(* The slow way: to a temporary file and on to the target. *)
SlowWay ==
  /\ MayWrite /\ op.kind = "ren" /\ ~ShortWay /\ local = {}
  /\ Step("get ascii")
  /\ UNCHANGED <<sessionVars>>

-----------------------------------------------------------------------------
(* setTransferAscii connects; whether that works is not looked at.         *)
GetAscii ==
  /\ At("get ascii")
  /\ Run(op.from, ConnectOnly, "get")
  /\ UNCHANGED cache

StartGet ==
  /\ At("get")
  /\ Run(op.from, [do |-> "get", path |-> op.path], "got")
  /\ UNCHANGED cache

Written == IF ret.got = {} THEN local ELSE ret.got

GetFailed ==
  /\ At("got") /\ ~ret.ok
  /\ Return("FAILED", Written)
  /\ UNCHANGED cache

GotAndRemove ==
  /\ At("got") /\ ret.ok /\ op.move
  /\ DoCommand(op.from, [do |-> "rm", path |-> op.path])
  /\ EraseListing(op.from, op.path)
  /\ local' = Written
  /\ pc' = "source gone"
  /\ UNCHANGED <<faults, tree, mapper, config, cwd, listed, cacheOn, crashed,
                 op, reply, last, quoted, ops>>

(* FsGetFileW has succeeded: a copy between servers goes on with           *)
(* FsPutFileW, which looks for the target once more.                       *)
GetReturns(loc) ==
  IF op.kind = "get" THEN Return("OK", loc) /\ UNCHANGED cache
  ELSE /\ pc' = "exists"
       /\ local' = loc
       /\ UNCHANGED <<sessionVars, op, reply, last, quoted, ops>>

Got == At("got") /\ ret.ok /\ ~op.move /\ GetReturns(Written)

SourceRemoved == At("source gone") /\ ret.ok /\ GetReturns(local)

SourceStays ==
  /\ At("source gone") /\ ~ret.ok
  /\ Return("NOTFOUND", local)
  /\ UNCHANGED cache

-----------------------------------------------------------------------------
PutAscii ==
  /\ MayWrite /\ (op.kind = "put" \/ local # {})
  /\ Run(op.to, ConnectOnly, "put")
  /\ UNCHANGED cache

PutUnreadable ==
  /\ At("put") /\ local = {}
  /\ Return("FAILED", local)
  /\ UNCHANGED cache

(* cmdPut stores the attributes to set through the mapper, which is not    *)
(* there if the connection could not be opened.                            *)
PutNoMapper ==
  /\ At("put") /\ local # {}
  /\ mapper[op.to] # "up"
  /\ crashed' = TRUE
  /\ UNCHANGED <<faults, tree, session, call, ret, opVars>>

StartPut ==
  /\ At("put") /\ local # {}
  /\ mapper[op.to] = "up"
  /\ Run(op.to, [do |-> "put", path |-> op.dest, content |-> local], "stored")
  /\ UNCHANGED cache

Stored ==
  /\ At("stored") /\ ret.ok
  /\ Return("OK", IF op.move THEN {} ELSE local)
  /\ EraseListing(op.to, op.dest)

NotStored ==
  /\ At("stored") /\ ~ret.ok
  /\ Return("FAILED", local)
  /\ UNCHANGED cache

-----------------------------------------------------------------------------
(* cmdRm and cmdRmDir: the listing is erased before the command. *)
StartRemove ==
  /\ \E kind \in {"rm", "rmdir"} :
       At(kind) /\ Run(op.to, [do |-> kind, path |-> op.dest], "done")
  /\ EraseListing(op.to, op.dest)

StartMkDir ==
  /\ At("mkdir")
  /\ Run(op.to, [do |-> "mkdir", path |-> op.dest], "done")
  /\ UNCHANGED cache

Done ==
  /\ At("done")
  /\ Return(IF ret.ok THEN "OK" ELSE "FAILED", local)
  /\ IF op.kind = "mkdir" /\ ret.ok THEN EraseListing(op.to, op.dest)
     ELSE UNCHANGED cache

(* A quoted command: cd, and the command only if that succeeded. *)
ChangeDir ==
  /\ At("quote")
  /\ Run(op.to, [do |-> "cd", dir |-> op.dest[1]], "in dir")
  /\ UNCHANGED cache

RelativeCommand ==
  [do |-> "relative", name |-> op.dest[2], dir |-> op.dest[1]]

(* Slip: without looking at the result of cd. *)
Execute_Anyway ==
  /\ At("in dir")
  /\ Run(op.to, RelativeCommand, "done")
  /\ UNCHANGED cache

Execute ==
  /\ At("in dir") /\ ret.ok
  /\ Run(op.to, RelativeCommand, "done")
  /\ UNCHANGED cache

NotInDir ==
  /\ At("in dir") /\ ~ret.ok
  /\ Return("FAILED", local)
  /\ UNCHANGED cache

-----------------------------------------------------------------------------
(* Entering a connection (verb "open"): getHomeDir loads a mapper and the  *)
(* configuration, but does not connect.                                    *)
Other(s) ==
  /\ Ready
  /\ ops' = ops + 1
  /\ UNCHANGED <<faults, tree, cwd, listed, call, ret, crashed, op, pc, reply,
                 local, quoted>>

IsLoaded(s, m) ==
  IF mapper[s] = "none"
  THEN m \in {"loaded"} \cup (IF "nodll" \in faults THEN {"nodll"} ELSE {})
  ELSE m = mapper[s]

Open(s) ==
  /\ Other(s) /\ last' = {}
  /\ \E m \in {"none", "nodll", "loaded", "up", "broken"} :
       /\ IsLoaded(s, m)
       /\ mapper' = [mapper EXCEPT ![s] = m]
       /\ config' = [config EXCEPT ![s] = @ \/ m # "nodll"]
  /\ UNCHANGED <<cacheOn, cache>>

(* The properties dialog (doSelfConfig): confirmed or cancelled. *)
Properties(s) ==
  /\ Other(s) /\ last' = {}
  /\ \E m \in {"none", "nodll", "loaded", "up", "broken"} :
       /\ IsLoaded(s, m)
       /\ mapper' = [mapper EXCEPT ![s] = m]
       /\ \/ m # "nodll" /\ Configure(s)
          \/ (m = "nodll" \/ "cancelled" \in faults)
               /\ UNCHANGED <<config, cacheOn, cache>>

(* The commands con and coff. *)
SwitchCache(s) ==
  /\ Other(s) /\ last' = {}
  /\ \E on \in BOOLEAN : cacheOn' = [cacheOn EXCEPT ![s] = on]
  /\ cache' = [cache EXCEPT ![s] = EmptyCache]
  /\ UNCHANGED <<mapper, config>>

(* FsDisconnectW deletes the server with its listings.  lastServer stays,  *)
(* and may or may not be the address of the next one.                      *)
Disconnect(s) ==
  /\ Other(s) /\ last' \in {last, {}}
  /\ mapper' = [mapper EXCEPT ![s] = "none"]
  /\ config' = [config EXCEPT ![s] = FALSE]
  /\ cacheOn' = [cacheOn EXCEPT ![s] = FALSE]
  /\ cache' = [cache EXCEPT ![s] = EmptyCache]

-----------------------------------------------------------------------------
Begins ==
  \E s \in Sites, p \in Path :
    \/ BeginList(s, p[1]) \/ BeginOpenPath(s, p)
    \/ \E mv \in BOOLEAN : BeginGet(s, p, mv)
    \/ \E mv, fc \in BOOLEAN : BeginPut(s, p, mv, fc)
    \/ \E t \in Sites, q \in Path, mv, fc \in BOOLEAN : BeginRenMov(s, p, t, q, mv, fc)
    \/ \E kind \in {"rm", "rmdir", "mkdir"} : BeginOnPath(kind, s, p)
    \/ BeginQuote(s, p)
    \/ Open(s) \/ Properties(s) \/ SwitchCache(s) \/ Disconnect(s)

Commands == SessionNext /\ UNCHANGED opVars

Steps ==
  \/ LookInCache \/ LookOnServer \/ Listed \/ NotListed \/ ListDone \/ AskFirst
  \/ RenameDirectly \/ RemoveTarget \/ RenameAfterRemove \/ Renamed \/ SlowWay
  \/ GetAscii \/ StartGet \/ GetFailed \/ GotAndRemove \/ Got
  \/ SourceRemoved \/ SourceStays
  \/ PutAscii \/ PutUnreadable \/ PutNoMapper \/ StartPut \/ Stored \/ NotStored
  \/ StartRemove \/ StartMkDir \/ Done
  \/ ChangeDir \/ Execute \/ NotInDir

(* The thread is in a download whose answers do not come.                  *)
Hung == call # NoCall /\ call.at = "hung"

Finished == (crashed \/ Hung \/ (pc = "idle" /\ ops = MaxOps)) /\ UNCHANGED vars

Next == Begins \/ Commands \/ Steps \/ Finished

Spec == Init /\ [][Next]_vars

(* The thread goes on with what it has begun. *)
FairSpec == Spec /\ WF_vars(Commands \/ Steps)

-----------------------------------------------------------------------------
TypeOK ==
  /\ SessionTypeOK
  /\ op \in Op
  /\ pc \in {"idle", "exists", "listed", "decide", "target gone", "moved",
             "get ascii", "get", "got", "source gone", "put", "stored", "rm",
             "rmdir", "mkdir", "done", "quote", "in dir"}
  /\ reply \in Replies
  /\ local \subseteq Things
  /\ last \in { {} } \cup { {x} : x \in Sites \X Dirs }
  /\ quoted \in BOOLEAN
  /\ ops \in 0 .. MaxOps

Somewhere(content) ==
  \/ content \subseteq local
  \/ \E s \in Sites, p \in Path : content \subseteq tree[s][p]

(* A file that is moved is always somewhere: at its old place, at its new  *)
(* one, or in the temporary file.                                          *)
MovedFileIsSomewhere ==
  op.kind = "ren" /\ op.move /\ IsFile(op.content) => Somewhere(op.content)

(* ... on one server, whatever breaks. *)
RenamedFileIsSomewhere == op.from = op.to => MovedFileIsSomewhere

Returned(r) == pc = "idle" /\ reply = r

Copies == op.kind \in {"get", "put"} \/ (op.kind = "ren" /\ ~ShortWay)

(* FS_FILE_OK is returned only for what has been done, however often the   *)
(* command was repeated and whenever a copy was cancelled.  Of a copy that *)
(* is so only as long as no read or write of its data fails: a refused     *)
(* write counts as a success (server.cpp:444), and a failed read is        *)
(* forgotten (psftp.c:494).                                                *)
OkMeansDone ==
  /\ Returned("OK")
  /\ Copies => "error" \notin faults
  => CASE op.kind \in {"put", "ren"} ->
            /\ op.content \subseteq tree[op.to][op.dest]
            /\ op.kind = "ren" /\ op.move => tree[op.from][op.path] = {}
       [] op.kind = "get" ->
            /\ local = op.content
            /\ op.move => tree[op.from][op.path] = {}
       [] op.kind \in {"rm", "rmdir"} -> tree[op.to][op.dest] = {}
       [] op.kind = "mkdir" -> tree[op.to][op.dest] = {Directory}
       [] OTHER -> TRUE

(* A command that failed has changed nothing, unless the connection broke: *)
(* then the repeated command may fail because the first one was carried    *)
(* out.                                                                    *)
FailureChangesNothing ==
  /\ pc = "idle" /\ reply # "OK" /\ "lost" \notin faults
  /\ op.kind \in {"rm", "rmdir", "mkdir"} \/ (ShortWay /\ ~op.exists)
  => tree[op.to] = op.before

(* Faults that leave the plugin's picture of a directory as it was.        *)
Harmless == faults \subseteq {"refused", "nodll", "cancelled"} /\ ~quoted

(* Between operations the cached listings are the directories of the       *)
(* server, as long as nobody but these operations changes them.            *)
ListingsAreTrue ==
  Harmless /\ pc = "idle" =>
    \A s \in Sites, d \in Dirs :
      cacheOn[s] /\ cache[s][d] # NotCached => cache[s][d] = Listing(tree[s], d)

(* Without leave to overwrite, a put starts only where there is nothing.   *)
NoSilentOverwrite ==
  Harmless /\ ~op.force /\ call # NoCall =>
    (call.cmd.do = "put" => tree[op.to][op.dest] = {})

(* The first run of a quoted command is in the directory it was meant for. *)
QuotedInItsDirectory ==
  call # NoCall => (call.cmd.do = "relative" /\ call.at = "run" =>
                      cwd[call.site] = call.cmd.dir)

FirstRunInItsDirectory ==
  call # NoCall => (call.tries = 0 => QuotedInItsDirectory)

(* A command that is repeated always finds the configuration that its      *)
(* connect clears: the null pointer of server.cpp:64 is met only by the    *)
(* first connect of a command.                                             *)
RetryIsSafe ==
  \A s \in Sites : MustConnect(s) /\ call.tries > 0 => CanClear(s)

(* Every operation returns, unless the plugin is no more or the operation  *)
(* waits in a download for answers that do not come; however often it asks *)
(* the servers, no command is repeated for ever.                           *)
OperationEnds == pc # "idle" ~> pc = "idle" \/ crashed \/ Hung
=============================================================================
