# SFTP4TC in TLA+

SFTP4TC is a file system plugin for Total Commander. A plugin DLL (`tc_plugin`)
presents SFTP servers as directories; for each session it loads a private copy
of a second DLL (`PuttyLib`), a PuTTY whose `psftp` client was turned into a
library. This directory specifies the parts of the program that decide whether
files arrive whole, checks them with TLC and proves the main results with TLAPS.

## 1. The system

| Component | State | Operations | Talks to |
|---|---|---|---|
| SFTP request table (`sftp.c`) | `sftp_requests`: requests by id | allocate, register, match a reply, clean up (left out, see section 5) | every SFTP operation |
| Download (`psftp.c`, `sftp.c`) | `fxp_xfer` and its queue of reads, the local file, `ret`, `userAbort` | queue, receive, write, cancel, close | request table, server, progress callback |
| Upload (`psftp.c`, `sftp.c`) | the same, with a queue of writes; the global `attrs` | fill, receive, FSETSTAT, close | request table, server, progress callback |
| Byte stream (`psftp.c`) | `pending` buffer, `outptr`, `outlen` | `from_backend`, `sftp_recvdata` | SSH |
| SFTP client commands (`psftp.c`) | `pwd`, `homedir` | ls, cd, mkdir, rm, mv, chmod; parsing of the command line | request table |
| Session (`pl_psftp.c`, `sftpmap.cpp`, `server.cpp`) | DLL instance, `disconnected`, configuration | connect, run a command, reconnect, close | plugin, PuTTY |
| Directory cache (`server.cpp`) | `dirCache` per server | list, insert, remove, invalidate, rename | Total Commander's FindFirst and FindNext |
| Text and names (`psftp.c`, `wildcard.c`, `server.cpp`, `fsplugin.cpp`) | `lastIs0D`, the lists of extensions | CR/LF conversion, modes of chmod, canonical names, lists, command lines and wildcards | transfers, configuration |
| Registry and threads (`server.cpp`, `fsplugin.cpp`) | `serverMap`, `global` and per server mutexes, `lastServer`, `lastPPR` | find, create, reap, remove a server | background threads of Total Commander |
| Transfer commands (`server.cpp`, `fsplugin.cpp`) | none of their own | get, put, rename or move, with retry | session, directory cache |
| PuTTY (vendored) | SSH transport, event loop, cryptography, terminal | | |

Total Commander calls the plugin (several threads may), the plugin locks the
server, and `Server::doCommand` hands one command line to the DLL. That runs to
completion in the calling thread: it sends SFTP requests, and `sftp_recv` turns
the event loop until the reply is there. The progress callback runs in the
middle of a transfer and may return "cancel". When a reply does not match the
request waited for, or none comes, `connection_fatal` only sets the flag
`disconnected` and the code goes on; the plugin sees the flag afterwards, loads
a new DLL instance and runs the command again.

What is hard here: replies to pipelined requests in any order, with short and
failed ones between them; a connection that goes on answering "nothing" after it
dropped, since `connection_fatal` does not end the program as it does in PuTTY;
a cancel in the middle of a full pipeline; commands that are repeated over a new
connection; state that lives in a DLL instance which the reconnect unloads;
listings cached over all this, and sessions shared by threads.

`PROJECT.json` lists every hazard at its line, with the property that covers it
or the reason why none does.

## 2. The modules

| Module | What it models |
|---|---|
| `RequestIds` | abstract: an allocator hands out the lowest unused number |
| `RequestTree` | `sftp_alloc_request` with its binary search over a counted tree, `sftp_register`, `sftp_find_request` |
| `RequestTreeProofs` | theorems about `RequestTree` |
| `FileCopy` | abstract: a copy grows piece by piece and succeeds only when whole |
| `Download` | `sftp_get_file` over `xfer_download_*` |
| `DownloadProofs` | theorems about `Download` |
| `Upload` | `sftp_put_file` over `xfer_upload_*`, the server that carries writes out |
| `UploadProofs` | theorems about `Upload` |
| `PutCommand` | composes `Upload` with `doCommand`'s reconnect and retry, `cmdPut` and `FsPutFileW` |
| `PutCommandProofs` | theorems about `PutCommand` |
| `Session` | `Guard::connect`, `doCommand` and the commands as a server carries them out; the state of a session |
| `FileOps` | the functions Total Commander calls, over `Session`: sequences of commands, the directory cache |
| `FileOpsProofs` | theorems about `FileOps` and the `Session` under it |
| `Registry` | threads, servers, mutexes, DLL instances and the Conf objects they hand around, the progress callback |
| `RegistryProofs`, `ConfProofs` | theorems about `Registry` |
| `AsciiUpload` | the CR/LF conversion of an upload, byte by byte and buffer by buffer |
| `Chmod` | the modes of `chmod`, as masks |
| `Paths` | `canonify` on two kinds of server; the lists of extensions |
| `CommandLine` | the command lines the plugin builds, `line2command`, `wildcard_iterate` and `wc_match` |
| `Text`, `MCText` | checks `AsciiUpload`, `Chmod`, `Paths` and `CommandLine` against reference definitions over bounded inputs |
| `TextProofs` | theorems about `Text`, for inputs of any length |

**RequestTree.** `tree` is the sequence that `index234` presents, by index;
`count` is `count234`. `StartSearch`, `Probe` and `AddRequest` are the steps of
the search; `low` starts at -1 as the wrapped unsigned does. Between an
allocation and its `Register` no reply may match the request.

**Download.** One action per step of the loop: `Iterate` (progress, cancel,
`xfer_download_queue`), `ReceiveData`, `ReceiveError`, `ReceiveNothing`
(`xfer_download_gotpkt` and the error handling that follows it), `WriteBlock`,
`WriteFails`, `SkipFailed`, `EndDrain` (the loop around `xfer_download_data`),
then `CloseHandle` and the wait for its reply. Offsets are blocks of 32768
bytes; comparing `furthestdata` with `filesize` in blocks gives the same answer
as in bytes, because a short block ends before the next one starts. The file
holds the pieces written, with their block and length. The variable `faults`,
chosen from the constant `FaultSets` at the start of a behaviour, says what the
server, the network, the disk and the user may do in it: a run names the
combinations it covers, and a property that needs an assumption names it
(`NoErrors`, `Stable`, `Benign`). `crashed` is the null pointer that
`xfer_tail_complete` follows when the queue is empty. `reget` runs the same loop
from another first block and is not distinguished.

**Upload.** `Iterate`, the inner loop (`FillBlock`, `FillEnd`, `FillReadError`,
`StopFilling`), the answer, and the close with its two waits. `ret` keeps the
code's values: 1, 0, -1 for a refused write, `INT_MIN` for an unknown packet.
The server executes a request and answers it in two steps, so a drop may come
between them. FSETSTAT carries `attrs`, and a size in it truncates the file,
which is what an SFTP server does with it.

**PutCommand.** `Reconnect` starts the same command in a new DLL instance, in
which `attrs` is zero; what the server stored stays. `GiveUp` covers a failed
reconnect and the end of the attempts. `DeleteLocal` is the move.

**Session.** A session is the mapper of a server (`none`, `nodll`: a mapper whose
DLL could not be copied or loaded, `loaded`, `up`, `broken`), whether `myCfg` is
set, the working directory and the `names` pointer in the DLL instance, and the
cached listings. `DoCommand` begins what `Server::doCommand` does; `Connect`,
`ConnectFails`, `RunCommand`, `OpenDirRefused` and `LoseConnection` are its
steps; a command runs at most twice. A server's tree is a set of contents per
path: `{}` for nothing, `{c}` for a file, a set with `Directory` in it for a
directory and what has been moved into it (`mv` onto a directory moves into
it). `ClearsNullConfig` is `server->myCfg->config = 0` through a null pointer.

`Get` and `Put` are what `Download` and `Upload` show of the two loops, reduced to
what the caller can tell apart: whether the copy is whole and whether it is
reported as a success. The two do not go together. A failed read is forgotten
(`psftp.c:494`), a refused write is -1 and so a success (`server.cpp:444`), an
upload cancelled after its last write may be either; the faults "abort" (the
user cancels) and "error" (a read or write of data fails) say which of these a
behaviour has. A copy that stops with answers due takes one of them for the
answer to CLOSE or FSETSTAT and gives the connection up (`Misread`), and is repeated.
`LoseConnection` lets the server carry a command out, carry a put out in part, or
do nothing; the command returns and is repeated. A download does so only in the
cases that `CutOff` names: with reads unanswered its loop is never left, which is
`GetHangs`. `GetCrashes` is the cancel that finds the queue empty.

**FileOps.** One operation of Total Commander at a time: `Begin...` is the entry
of the function, then one action per command it sends and per decision, up to
`Return`. `last` is `lastServer` and `lastDir`, which decide whether a listing is
read again. `UpdateDirCache`, `Erase` and `RemoveName` edit the cached listings as
the code does after each command. `PutNoMapper` is `getLastAttr` called without
a mapper. After a crash nothing happens any more, and a download that hangs keeps
its thread (`Hung`). A download may be resumed, which gives the same results; to
resume an upload is `Upload` with `reput`, and left out here.

**Registry.** A server's key is its session and its thread, which is what the name
that `findServer` makes stands for. A thread is somewhere (`pc`) in a function
(`op`), has pointers to one server, or two in `FsRenMovFileW` (`using`), and holds
the mutexes of the first `locked` of them. `FindServer` is one action because the
code holds the `global` mutex for all of it. The Conf pointers of a server
(`myCfg`) and of its DLL instance (`cfg`) are addresses; `owner` says which
instance a living Conf belongs to, and `misuse` collects uses of one that is freed
or of another instance. A new Conf gets the first address that is free and that
no pointer has, so that a use after the free is seen. `Asked` is the progress
callback, with the user's two answers. A copy is a `get` or a `put`, and a renaming
over two servers is both. A download whose cancel was seen fails (`stopped`, then
`Fail`); an upload may succeed all the same, since the loop leaves with the result
of the last reply when the cancel comes after the end of the file (`Stores`). A
download that hangs or crashes is here a thread that takes no further step.

**AsciiUpload, Chmod, Paths, CommandLine, Text.** `AsciiUpload` is the loop of
`sftp_put_file` with its pointers into one buffer. `Chmod` folds the clauses of a
mode over `attrs_clr` and `attrs_xor`, as sets of bits. `Paths` has `canonify`'s two
attempts, over a server that resolves every path (`REALPATH` of BSD) or only what
exists (of glibc), and the two loops that split lists of extensions. `CommandLine`
goes from a name to the files acted on: the line of `rm` (a quoted path) or `chmod`
(a bare name after a `cd`), its words, and for each word the file it names or, with
a `*` or `?`, the files that `wc_match` selects, fragment by fragment as the code
does; `Like` says what a pattern means without an order of search. `Text` picks an
input and applies the operator to it.

## 3. The runs

Passing runs:

| Run | Covers | Shows |
|---|---|---|
| `RequestTree` | up to 6 ids | the search is correct for every set of ids in use, with all gaps; only registered requests are matched |
| `DownloadCopy` | replies in any order; or a cancel | refines `FileCopy` and ends, owes nothing, never waits in vain |
| `DownloadFaults` | reorder, short reads, unknown packets, drop, cancel; and the same with failed reads and local writes | types; queue and outstanding requests agree; no hole, and success is whole, in behaviours without failed reads and writes |
| `UploadCopy` | drop, cancel; and all six. put and reput | put refines `FileCopy` on the remote file where the server works in order; every upload ends |
| `PutCommand` | reorder, cancel; the same and drop; drop, cancel, unknown packets, read errors; all six. put and reput, copy and move | the command ends, whatever fails; in behaviours without refused writes, unknown packets and unreadable local files: success is stored, a move never loses the file, a cancel owes nothing, and what an upload leaves can be resumed; on a connection that holds, success is stamped |
| `FileOps` | any two operations from any tree; connections refused, DLLs missing, dialogs cancelled; refused commands, cancelled and failing transfers, short listings; the same with drops; drops with failing transfers | a rename on one server never loses a file; success is claimed only for what was done, of copies in behaviours in which no read or write of data fails; without a drop a failed command has changed nothing; while only connections, DLLs and dialogs fail (`Harmless`), cached listings are true and nothing is overwritten unasked; the first run of a quoted command is in its directory; a repeated command finds the configuration it clears; every operation returns, crashes, or waits for ever in a download |
| `Registry` | a main and a background thread, six addresses; four sets of habits of the user | no server is deleted or shared while it is used; in the foreground every Conf is used where it belongs; there a cancelled copy is reported as cancelled or, if it is an upload that got to its end, as done, never as an error |
| `Text` | texts up to 6 bytes in buffers of 3, modes of two clauses, paths of three parts, lists of five characters, names of four tokens | text arrives and comes back; a mode sets what it says; both kinds of server give one canonical name; lists are split at their separators; `rm` and `chmod` act on the files that are meant |

Runs that find the code at odds with what it says (the findings in
`PROJECT.json` quote the lines); each allows only the fault it is about:

| Run | Shows |
|---|---|
| `DownloadReadError` | a failed read in the middle of a download is forgotten by the next good reply: a truncated copy is a success |
| `UploadReput` | `reput` sends the old size back in the final FSETSTAT, which cuts the file to what it was |
| `MoveAborted` | a move between servers removes the source before the upload, which may fail: the file is on neither |
| `AsciiUpload` | a CR at the end of a text file is not sent, and one at the end of a buffer is written over the next byte |

The same models show more where their `FaultSets` or `HabitSets` are changed. Each
of these is a definition of its module, or one without its condition, and has no run
of its own; it is why the passing runs' properties are qualified as they are.

| Definition | Fails under | Because |
|---|---|---|
| `Download.LossEndsTransfer` | `{"lost"}` | `sftp_recv` returns NULL at once, which sets `ret` but not `xfer->err`, and the unanswered reads stay in the queue: a download that loses its connection never returns, and `doCommand` cannot connect again |
| `Download.CancelEnds` | `{"lost", "abort"}` | the loop waits for the last request, which is never completed: the user cannot stop it either |
| `Download.TailExists` | `{"abort"}` with short reads | the queue may be empty when a cancel looks at its tail (`GetCrashes` of `Session`) |
| `Download.WaitsForAnswer` | `{"error"}` | a failed read answered last leaves the loop waiting for a reply nobody owes |
| `Download.SuccessIsWhole` | `{"disk"}` | a failed local write is forgotten by the next reply |
| `Download.NothingOwed` | `{"reorder", "abort"}` | a cancel leaves requests unanswered; CLOSE takes a late answer for a broken connection |
| `Upload.SuccessIsStored` | `{"readerror"}` | the result is the last write's |
| `Upload.Resumable` | `{"rejected"}` | writes behind a refused one are stored: `reput` starts after the hole |
| `PutCommand.MoveKeepsFile` | `{"rejected"}` | a refused write is -1 and counts as success (`server.cpp:444`), and the local file is deleted |
| `PutCommand.OkIsStamped` | `{"lost"}` | the time to set was in the DLL instance that the reconnect replaced |
| `FileOps.OkMeansDone` without its clause on `Copies` | `{"error"}` | `FsGetFileW` returns OK for a part, `FsPutFileW` for a part on the server |
| `FileOps.ListingsAreTrue`, `NoSilentOverwrite` without `Harmless` | `{"denied"}` | a refused OPENDIR of a directory leaves the names of the one listed before, which are cached for it |
| `~crashed` in `FileOps` | `{"refused"}`, `{"nodll"}`, `{"abort"}` | `cmdPut` uses the mapper that `setTransferAscii` could not connect (`PutNoMapper`); `ClearsNullConfig`; `GetCrashes` |
| `FileOps.QuotedInItsDirectory` | `{"lost"}` | the repeated command runs in the home directory |
| `Registry.ConfsInOrder` | `{"background"}` | a background server is configured with the Conf of another instance, which may be gone |
| `Registry.ConfsInOrder` | `{"enter", "reopen", "dialog"}` | `__map__load_config` frees the Conf that `cfg` and `myCfg` share |
| `Registry.CancelSeenIsReported` without its condition on `habits` | `{"late"}`, `{"background"}` | the second answer is not kept; `lastPPR` belongs to all threads |
| `Chmod`: `Text.ModeIsAppliedInOrder` | modes such as `u+x,u=r` | `=` does not take back the bit a `+` has put in `attrs_xor` |
| `CommandLine`: `Text.CommandNamesItsFile` | names with `*`, `?` or `"`, for chmod also with a blank | a panel's file name becomes a pattern, loses its quotes, or becomes two names; a pattern that finds nothing is a success |
| `CommandLine`: `Sound` in `Text.CommandFindsItsFiles` | patterns with `[` and no `]`; names of quotes only | a syntax error of `wc_match` counts as a match; three quotes in a row are read as a pair and one |
| `Paths`: `Text.ExecutablesAreSelected` | any name with an extension | the list is kept without dots and searched with them |

**Bounds.** A remote file of four to six full blocks and a partial one against a
window of four to five requests gives a window that fills, slides and runs over
the end of the file, with up to all of its replies out of order; the end is seen
by several requests at once. Two units a block are enough to tell a partial
block from a full one. A "short" file is bounded by `FullBlocks`, beyond which
reads come back short. An upload of three or four blocks against a window of two
or three fills, backs up and drains. Two attempts are the code's own number. Six
ids give every shape of gap before, between and after the ids in use that the
search distinguishes. `FileOps` has one caching site with two directories, the home
directory and another, and one name; two operations (`MaxOps`) are one that leaves
listings, a session and a working directory behind and one that relies on them.
In `Registry` one session, a foreground and a background thread that may come back
under the same id, and six addresses of Confs, more than any behaviour needs at
once. In `Text` a text of six bytes crosses the border of a buffer of three at every
place, two clauses are enough for one to follow another, and three parts give a
path with a link, a missing part and a `..` at every place. Names of four tokens
(letters, `*`, `?`, four classes, an escape, quote, blank, `[`) over files of up to
three letters have two stars with fragments behind them, the last one found too early
included.

**Fairness.** `WF(Client)`: the thread runs the loop to its end whenever it can
take a step. A reply is part of the client's receiving step, so this also says
that a connected server answers, and in `Upload` `WF(Server)` that it carries
requests out. Nothing forces a cancel, a drop, or any other fault, and
nothing is assumed about which of several outstanding requests is answered first.
In `FileOps` `WF(Commands \/ Steps)`: a thread goes on with an operation it has
begun; nothing makes it begin one. `Registry` and `Text` state no liveness and
assume no fairness.

**Deadlock** is checked except in `DownloadFaults` and `DownloadReadError`, where the program may stop (a wait for a reply that never comes, a null pointer), and in
`Registry`, where a thread stops when it connects with a mapper but without
`myCfg`: the null pointer that `Session` follows.

## 4. The proofs

All constants are arbitrary within the assumptions of the modules: any window,
file, number of attempts, servers, names, threads and Confs, and any set of
faults that a theorem does not name. Where a property is true only of some sets of
faults, the condition is part of the property, and the variable that says which
faults a behaviour has never changes (`FaultsFixed`, and the like); so the
inductive invariant need hold only under the condition.

| Module | Theorem | Proves |
|---|---|---|
| `RequestTreeProofs` | `TypeCorrect`, `SearchIsSound`, `AssertNeverFires` | `TypeOK`, `SearchBrackets` with the order of the table, `AssertIdUnused` |
| | `TableKeepsPromise`, `UnregisteredSurvives` | the refinement `LowestIdFirst`; the action property `UnregisteredStays` |
| `DownloadProofs` | `TypeCorrect`, `QueueSafe` | `TypeOK`, `QueueMatchesRequests`, under every fault |
| | `LocalFileHasNoHole`, `SuccessMeansWhole` | `NoHoleUnlessFailed`, `SuccessIsWholeUnlessFailed` |
| | `DownloadImplementsFileCopy` | `Spec /\ Stable => Copy!Spec` |
| | `ReturnsOwingNothing`, `NeverWaitsInVain` | `NothingOwed`, `WaitsForAnswer`, under `Orderly` |
| `UploadProofs` | `UploadCorrect`, `PutImplementsFileCopy` | the invariant of one upload; `Spec /\ PutInOrder => Copy!Spec` |
| `PutCommandProofs` | `CommandTypeCorrect`, `QueueIsOwed`, `PutSucceedsWhole`, `UploadIsResumable`, `CancelIsClean`, `MoveLosesNothing`, `SuccessIsStamped` | every invariant of the run `PutCommand` |
| `FileOpsProofs` | `TypeCorrect`, `RetriesAreSafe`, `OkIsTrue`, `RenameLosesNothing`, `FailureIsHarmless`, `CachedListingsAreTrue`, `NothingOverwritten`, `QuotedWhereMeant` | every invariant of the run `FileOps` |
| `RegistryProofs` | `TypeCorrect`, `PointersInOrder`, `ServersOutliveTheirUse`, `ServersAreNotShared`, `NobodyEverWaits`, `CancelsAreReported` | `TypeOK`, the invariant `IInv`, `NoUseAfterDelete`, `OneThreadPerServer`, `NobodyWaits`, `CancelSeenIsReported` |
| `ConfProofs` | `ConfsAreInOrder` | `ForegroundConfsInOrder` |
| `TextProofs` | `TextInvariant`, `TextUploadCorrect`, `UnreadIsLeftAlone` | the invariant of `Text`, `TextIsKeptInBuffers`, `UnreadIsUntouched` |
| | `ChmodCorrect`, `CanonifyCorrect`, `ListsCorrect` | `ModeIsApplied`, `CanonicalOnAllServers`, `ListsAreSplit` |

**`RequestTreeProofs`.** The inductive invariant `IInv` is the type, strict order of
the ids (hence id >= index + offset), the two sides of the bracket (all of
0..low in place, high out of place), and that a search has room for its request.
It is needed because neither the assertion nor the order is inductive without the
bracket. `TableKeepsPromise` is that a step of the code is a step of `RequestIds`
or a stutter.

**`DownloadProofs`.** `LocalFileHasNoHole` and `SuccessMeansWhole` hold in every
behaviour in which reads are not refused and local writes do not fail
(`NoErrors`; the violation runs show that this is necessary); replies may be
reordered, short, unknown or missing. The invariant says that the pieces written
are exactly the blocks before `head` that brought data, that a block that came
back short bounds all later ones, and that an error other than a cancel forbids
success. The refinement adds that the remote file does not change.

For the replies, `Orderly` is a file that does not change, no failure and
no unknown packet, and no cancel where replies overtake each other; the connection
may drop. Section 3 lists how `NothingOwed` and `WaitsForAnswer` fail without it.
What makes them inductive is `AnsweredInOrder` (a server that works in order has
answered everything before an answered request, so that the loop's wait for its
last request after a cancel is a wait for all of them) and `HeadIsDue` (what the
drain loop leaves in the queue starts with a request without an answer).

**`UploadProofs`.** `Inv` is a conjunction of parts. `QueueInv` and `OwedInv` relate the
queue to the requests without an answer. For what is stored, in an environment that
is `Steady` (no write refused, and a server that works out of order never loses
the connection): everything before the offset is stored or on its way (`CoverInv`);
if the server works in order, so is everything before a pending write (`OrderInv`);
hence what is stored is a prefix (`PrefixInv`). `PutInv` and `ResultInv` say what a
return value that counts as success means, `StampInv` what FSETSTAT has done.
`PutImplementsFileCopy` uses that a set of blocks that is closed downwards is an
initial segment, which takes the least natural that is not in it (from the
library's well-foundedness of the naturals). `PutCommandProofs` shows that
`Reconnect` re-establishes `Inv`, so that all of it holds in every attempt, and adds
`CommandInv`: which result of the command goes with which end of the upload.

**`FileOpsProofs`.** An operation is a sequence of commands, each of which may connect,
be refused, break and be repeated. `StepInv` is the type and, for each place of an
operation, which command is running (`CallInv`), what the operation has already
found out (`KindInv`), and that a command is repeated only after a drop
(`TriesInv`). `CommandEffect` says once what any step of a command does: nothing to
the tree, what a server makes of the command, or that with the connection broken;
the lemmas `LooksOnly`, `OneCell`, `MovesOnly` and `PutsOnly` say it for the commands
at each place. On top of `StepInv`, and independent of each other:

- `CellInv`, for each place of a copy or move where the content is: in the source, in
  the temporary file, or in the target. A repeated `mv` or `rm` that finds its work
  done fails, and so claims nothing. What the content of a copy is, it says only
  where no read or write of data fails (`Exact`), and so does `OkIsTrue`; that some
  place holds a renamed file it says always, and so does `RenameLosesNothing`.
- `FailInv`, that without a drop the target server's tree is still what it was when the
  operation began, until the command has succeeded.
- `CacheInv`, that every listing in the cache is the directory of the server but for
  the one that a command which has just succeeded has changed (`Stale`): all of its
  causes are erased or corrected before the operation returns. `LookedUp` adds that
  what an operation has looked up stays true until it acts on it, and what it is
  about to remove is not cached while it does. From it `CachedListingsAreTrue` and
  `NothingOverwritten`, under `Harmless`: connections may be refused, DLLs missing
  and dialogs cancelled, but commands are not refused, cut off or cut short, and no
  quoted command has been sent.
- `DirInv`, that a quoted command begins in the session in which its `cd` succeeded.
- `ConfigInv`, that a session which has been up has its configuration, and only such
  a session is connected a second time; from it `RetriesAreSafe`. The first connect of a
  command has no such guarantee, which is `ClearsNullConfig`.

One assumption on the constants is there for the proof: there is at least one site and
one name, of which the model's `op` is something before the first operation.

**`RegistryProofs`.** The inductive invariant `IInv` has the types of the threads'
state (`ThreadTypes`) and, for each thread, `ThreadInv`: it is in a function only
while it runs; outside it has no pointers; the servers it has pointers to are
registered, and the thread in their key is its own; the number of locks it holds
fits the place it is at. `NoUseAfterDelete` alone is not inductive: it takes the
thread in the key to see that what another thread inserts, inherits, reaps or
deletes can only be its own server or that of a thread that has ended, and so has
no pointers. The lemma `OneThread` says it once: an action that leaves the state
of the other threads and the servers of the running ones in place needs to be
checked for its own thread only; each action then has a lemma named after it
(`...Keeps`). From `IInv` follow `ServersOutliveTheirUse`,
`ServersAreNotShared` and `NobodyEverWaits`: no thread ever wants a mutex that
another one holds, so the two locks of `FsRenMovFileW` close no cycle.
`TypeCorrect` adds the types of sessions, Confs and progress (`ConfTypes`,
`ProgressTypes`). `CancelsAreReported` adds `CancelInv`: as long as no background
thread exists only the main thread runs, and once it saw a cancel every further
answer is to stop, so that the command only gets to its end or to a new connection,
and the result is read from `lastPPR`; only an upload that gets to its end on the
connection it was cancelled on can still be OK (`ReturnsReported`). One assumption
on the constants is there for the proofs: 0, which stands for no Conf and for the
thread of the temporary server of "<edit connections>", is no thread identifier.

**`ConfProofs`.** In the foreground (`Foreground`: no background thread, and sessions
are not both entered again and edited) only the main thread runs. Its invariant
`ConfInv` says of every server whose are the Confs that its two pointers hold:
deleting a mapper frees its Confs, so a server without a mapper has none, but for the
new connection, which is offered that of "<edit connections>" to copy; a server with a
mapper may hold a dangling pointer on one side: entering it again reads the plugin's
side and leaves that of the DLL dangling, a dialog does it the other way round, which
is why the habits may not be mixed; `PlaceInv` carries this through the places of the
functions that have a pointer in hand.

**`TextProofs`.** The run `Text` bounds its inputs; the theorems do not. The loops over
a sequence are folds in the modules, and the library has no induction that the provers
can use, so the proofs begin with the two things that replace it: `UpTo`, which takes
the least number for which a claim fails, and `RecursionExists`, that a function defined by
recursion exists. From these `FoldRun`: the value of a fold is the last
state of a run, a function of how many elements have been read. Each loop then has
an invariant of its run.

- *Texts.* `AsciiInv` says that all buffers but the last are full (`Borders`), and,
  if no CR that ends no line is the last byte of a buffer or of the file (`Clean`),
  that what has been converted is the text of the bytes that were read but for a CR
  that is held back (`Progress`). The condition is what makes `q < p` when a CR is
  released. Without it, at the start of a buffer, `q = p`, and `psftp.c:830` writes
  the held CR over the byte that it reads next, which is the finding `AsciiUpload`.
  What holds in every file is that nothing behind that byte is touched before it is
  read (`UnreadIsUntouched`, proved as `UnreadIsLeftAlone` and left to that), since `q <= p`
  whenever a byte is to be read. `ThereAndBack` is that the download's conversion is the
  inverse for a file whose only CR and LF are line ends.
- *Modes.* `attrs_xor` lies in `attrs_clr` and in what the clauses so far have added; so
  a clause of `=` takes no bit of an earlier one along unless it reassigns it, and the
  masks so far do what the clauses so far did one after the other.
- *Paths.* `ResolveSteps`: resolving a path is resolving all but its last part and
  entering that. The rest is a case distinction over what `canonify` asks the server.
- *Lists.* `ExeLoop` and `ModeAt`: the words found so far are those that end before the
  start of the current one, and in `ModeAt` the start is the last dot of it. In a
  well-formed list each word begins with a dot, so `start` is never -1 at a blank.

Assumptions on the constants: what exists on a server has a directory that exists, is
made of parts that are names, and none is called like the model's "nowhere"
(`PathsAssumption`).

**Only model-checked.** Liveness, which the provers cannot do: that downloads,
uploads, commands and operations end (the last part of `IsFileCopy`, `CommandEnds`,
`OperationEnds`, which counts a crash and a download that hangs as an end).
`CommandFindsItsFiles`: that `wc_match`, which takes the first place for each
fragment, finds a match if there is one, and how a line is split into words, are
checked on names of four tokens only.

## 5. Not modelled, and why

- *Vendored PuTTY.* Nine tenths of the repository's lines are PuTTY's: the SSH
  transport, cryptography, terminal, dialogs and other programs. The models see a
  connection that delivers in order or drops, and the contract of the 2-3-4
  tree. This is why the share of lines that is modelled is small: what is
  modelled is the plugin and the SFTP client it drives (`src/tc_plugin`, `psftp.c`,
  `sftp.c`).
- *`sftp_cleanup_request`*: it empties the request table, and only psftp's own `close` and
  its end call it. The plugin unloads the DLL instance instead, and the new one starts with
  an empty table.
- *Byte stream* (`from_backend`, `sftp_recvdata`): one buffer below the packets;
  no second reader exists, so the models begin at the packet.
- *Re-entrance*: the progress callback pumps window messages, so a window
  procedure may run in the middle of a transfer. What Total Commander sends then
  is not in this code.
- *FsFindNextW* walks a listing by pointer; what a change of the listing in
  between does depends on the allocator. The listing itself is in `Session`.
- *`serverInfos`, import of sessions, password dialog, preferences*: user
  interface and storage. Who owns the Conf the dialogs fill is in `Registry`.
- *Recursion of `get -r` and `put -r`, several files in one `get` or `put`,
  interactive commands*: the plugin builds its own command lines and uses none of
  these. Wildcards are modelled for `rm`, `rmdir` and `chmod`, in the last part of a
  path; `mv` refuses them unless it moves into a directory.
- *Progress percentages, times, messages, layout*: no property is about them.
- After a drop the old server process might still execute writes it had
  received; they are the same bytes at the same place.

## 6. Plan

1. Proofs: that `Session` alone keeps a command to two runs and a session to one
   configuration for any composition (now proved inside `FileOpsProofs`);
   `CommandFindsItsFiles` for names of any length.
2. `FsFindNextW`: the pointer into the listing, as a version of the listing that a
   later call finds changed.
3. `Stream`: `sftp_recvdata` over `from_backend`, with its pending buffer.
4. `mv` and `ls` with wildcards, and the cached listing after a command that acted on
   other files than the one named.
