------------------------------- MODULE Upload -------------------------------
(***************************************************************************)
(* Copying a local file to a remote one: sftp_put_file (commands put and   *)
(* reput, PuttyLib/putty/psftp.c) over the queue of unanswered write       *)
(* requests that fxp_xfer keeps (xfer_upload_* in PuttyLib/putty/sftp.c),  *)
(* against the server that executes and answers them.                      *)
(*                                                                         *)
(* Offsets are counted in blocks of one write request (4096 bytes).  The   *)
(* requests of a transfer are named by numbers in the order in which they  *)
(* are sent: the blocks, then the final FSETSTAT, then the CLOSE.          *)
(***************************************************************************)
EXTENDS Integers, FiniteSets

CONSTANTS
  NBlocks,       \* blocks of the local file
  Window,        \* writes that fit in the send window: bounds the queue
  Commands,      \* values of the argument "restart": FALSE put, TRUE reput
  FaultSets      \* what the environment may do, sets of FaultKinds

FaultKinds == {
  "reorder",     \* the server executes and answers requests out of order
  "rejected",    \* a write is answered with an error status: disk full, quota
  "junk",        \* a packet arrives that matches no request
  "lost",        \* the connection drops
  "abort",       \* the user cancels
  "readerror" }  \* the local file cannot be read any further

ASSUME UploadAssumption ==
  /\ NBlocks \in Nat
  /\ Window \in Nat \ {0}
  /\ Commands \subseteq BOOLEAN
  /\ FaultSets \subseteq SUBSET FaultKinds

VARIABLES
  pc,            \* where sftp_put_file is
  restart,       \* its argument
  faults,        \* what the environment may do in this behaviour
  pos,           \* xfer->offset: the next block to read and send
  queue,         \* the queue of struct req: writes without an answer
  eof, err,      \* the local variables of these names
  ret,           \* the result
  attrs,         \* the global variable attrs: the size and time flags
  userAbort,     \* the callback has asked to cancel
  disconnected,  \* the flag the plugin reads through disconnected()
  connected,     \* the network's side: replies still arrive
  requests,      \* requests sent that the server has not answered
  executed,      \* those of them that the server has carried out
  stored,        \* the blocks in the remote file
  stamp          \* the remote file's time stamp: "old", "now" or "local"

args == <<restart, faults>>
client == <<args, pos, queue, eof, err, ret, attrs, userAbort>>
remote == <<requests, executed, stored, stamp>>
vars == <<pc, client, disconnected, connected, remote>>

AllBlocks == 0 .. (NBlocks - 1)
Setstat == NBlocks              \* the request SSH_FXP_FSETSTAT
CloseRequest == NBlocks + 1     \* the request SSH_FXP_CLOSE

NotOpened == -1                 \* pos before the remote file is open
NoSize == -1                    \* attrs.flags without SSH_FILEXFER_ATTR_SIZE
IntMin == -2                    \* INT_MIN, another negative result than -1

XferDone == queue = {}          \* xfer_done: xfer->eof is 1 from the start

RemoteSize ==
  CHOOSE n \in 0 .. NBlocks :
    /\ \A b \in stored : b < n
    /\ n = 0 \/ n - 1 \in stored

IsPrefix(s) == \E n \in 0 .. NBlocks : s = 0 .. (n - 1)

(* Without "reorder" the server executes and answers the oldest first. *)
IsOldest(r, waiting) == "reorder" \in faults \/ \A q \in waiting : r <= q

MayAnswer(r) == connected /\ r \in executed /\ IsOldest(r, requests)

(* What cmdPut has prepared: the local file's time is to be set.  The      *)
(* remote file holds what an earlier transfer left of it, if anything.     *)
Init ==
  /\ pc = "open"
  /\ restart \in Commands /\ faults \in FaultSets
  /\ pos = NotOpened /\ queue = {}
  /\ eof = FALSE /\ err = FALSE /\ ret = 0
  /\ attrs = [size |-> NoSize, time |-> "local"]
  /\ userAbort = FALSE /\ disconnected = FALSE /\ connected = TRUE
  /\ requests = {} /\ executed = {}
  /\ stored \in { 0 .. (n - 1) : n \in 0 .. NBlocks }
  /\ stamp = "old"

-----------------------------------------------------------------------------
(* The local file cannot be opened. *)
OpenLocalFails ==
  /\ pc = "open"
  /\ pc' = "done"
  /\ ret' = 0
  /\ UNCHANGED <<args, pos, queue, eof, err, attrs, userAbort,
                 disconnected, connected, remote>>

(* The remote open is refused, or reput cannot read the remote size, and   *)
(* leaves the handle open; or a connection that dropped answers nothing:   *)
(* then the server may have truncated the file all the same.               *)
OpenFails ==
  /\ pc = "open"
  /\ pc' = "done"
  /\ ret' = 0
  /\ disconnected' = (disconnected \/ ~connected)
  /\ stored' \in {stored} \cup (IF connected \/ restart THEN {} ELSE {{}})
  /\ UNCHANGED <<args, pos, queue, eof, err, attrs, userAbort, connected,
                 requests, executed, stamp>>

(* put: the remote file is created or truncated; xfer_upload_init. *)
OpenPut ==
  /\ pc = "open" /\ ~restart /\ connected
  /\ pc' = "loop"
  /\ pos' = 0
  /\ ret' = 1
  /\ stored' = {} /\ stamp' = "now"
  /\ UNCHANGED <<args, queue, eof, err, attrs, userAbort, disconnected,
                 connected, requests, executed>>

(* Slip: the first new block is skipped. *)
OpenReput_SkipsBlock ==
  /\ pc = "open" /\ restart /\ connected
  /\ pc' = "loop"
  /\ pos' = IF RemoteSize < NBlocks THEN RemoteSize + 1 ELSE RemoteSize
  /\ ret' = 1
  /\ attrs' = [size |-> RemoteSize, time |-> stamp]
  /\ UNCHANGED <<args, queue, eof, err, userAbort, disconnected, connected,
                 remote>>

(* reput: the remote file keeps its content; its attributes are read into  *)
(* attrs, and the transfer starts at its size.                             *)
OpenReput ==
  /\ pc = "open" /\ restart /\ connected
  /\ pc' = "loop"
  /\ pos' = RemoteSize
  /\ ret' = 1
  /\ attrs' = [size |-> RemoteSize, time |-> stamp]
  /\ UNCHANGED <<args, queue, eof, err, userAbort, disconnected, connected,
                 remote>>

(* Top of the loop "while (!err && (!eof || !xfer_done))": show the        *)
(* progress, which is where the user may cancel.                           *)
LoopGoes == ~err /\ (~eof \/ ~XferDone)

(* Slip: a cancel leaves the loop at once. *)
Iterate_LeavesAtOnce(cancel) ==
  /\ pc = "loop"
  /\ LoopGoes
  /\ cancel => "abort" \in faults
  /\ userAbort' = (userAbort \/ cancel)
  /\ pc' = IF userAbort' THEN "settle" ELSE "fill"
  /\ ret' = IF userAbort' THEN 0 ELSE ret
  /\ UNCHANGED <<args, pos, queue, eof, err, attrs, disconnected, connected,
                 remote>>

Iterate(cancel) ==
  /\ pc = "loop"
  /\ LoopGoes
  /\ cancel => "abort" \in faults
  /\ userAbort' = (userAbort \/ cancel)
  /\ pc' = "fill"
  /\ UNCHANGED <<args, pos, queue, eof, err, ret, attrs, disconnected,
                 connected, remote>>

(* The inner loop goes on while nothing is left in the send buffer         *)
(* (xfer_upload_ready); with the socket gone the buffer is always empty.   *)
Filling ==
  /\ pc = "fill"
  /\ ~err /\ ~eof /\ ~userAbort
  /\ connected => Cardinality(queue) < Window

(* Slip: the offset grows by the size of the buffer, not by what was read. *)
FillBlock_Skips ==
  /\ Filling
  /\ pos < NBlocks
  /\ pos' = IF pos + 1 < NBlocks THEN pos + 2 ELSE pos + 1
  /\ queue' = queue \cup {pos}
  /\ requests' = IF connected THEN requests \cup {pos} ELSE requests
  /\ UNCHANGED <<pc, args, eof, err, ret, attrs, userAbort, disconnected,
                 connected, executed, stored, stamp>>

FillBlock ==
  /\ Filling
  /\ pos < NBlocks
  /\ pos' = pos + 1
  /\ queue' = queue \cup {pos}
  /\ requests' = IF connected THEN requests \cup {pos} ELSE requests
  /\ UNCHANGED <<pc, args, eof, err, ret, attrs, userAbort, disconnected,
                 connected, executed, stored, stamp>>

FillEnd ==
  /\ Filling
  /\ pos = NBlocks
  /\ eof' = TRUE
  /\ UNCHANGED <<pc, args, pos, queue, err, ret, attrs, userAbort,
                 disconnected, connected, remote>>

FillReadError ==
  /\ Filling
  /\ "readerror" \in faults
  /\ err' = TRUE
  /\ UNCHANGED <<pc, args, pos, queue, eof, ret, attrs, userAbort,
                 disconnected, connected, remote>>

(* The send buffer backs up while answers are due, or the inner loop has   *)
(* no reason to go on.                                                     *)
StopFilling ==
  /\ pc = "fill"
  /\ err \/ eof \/ userAbort \/ (connected /\ ~XferDone)
  /\ pc' = "recv"
  /\ UNCHANGED <<client, disconnected, connected, remote>>

(* Slip: the struct req stays in the queue. *)
ReceiveOK_KeepsEntry(b) ==
  /\ pc = "recv"
  /\ b \in queue
  /\ MayAnswer(b)
  /\ requests' = requests \ {b} /\ executed' = executed \ {b}
  /\ ret' = 1
  /\ pc' = "loop"
  /\ UNCHANGED <<args, pos, queue, eof, err, attrs, userAbort, disconnected,
                 connected, stored, stamp>>

(* xfer_upload_gotpkt: the answer to the write of block b. *)
ReceiveOK(b) ==
  /\ pc = "recv"
  /\ b \in queue
  /\ MayAnswer(b)
  /\ queue' = queue \ {b}
  /\ requests' = requests \ {b} /\ executed' = executed \ {b}
  /\ ret' = 1
  /\ pc' = "loop"
  /\ UNCHANGED <<args, pos, eof, err, attrs, userAbort, disconnected,
                 connected, stored, stamp>>

(* ... an error status: -1, which is not 0. *)
ReceiveRejected(b) ==
  /\ pc = "recv"
  /\ "rejected" \in faults
  /\ b \in queue
  /\ connected /\ b \in requests \ executed /\ IsOldest(b, requests)
  /\ queue' = queue \ {b}
  /\ requests' = requests \ {b}
  /\ ret' = -1
  /\ err' = TRUE
  /\ pc' = "loop"
  /\ UNCHANGED <<args, pos, eof, attrs, userAbort, disconnected, connected,
                 executed, stored, stamp>>

(* A packet sftp_find_request cannot match, or none at all. *)
ReceiveNothing ==
  /\ pc = "recv"
  /\ ~XferDone
  /\ \/ ~connected /\ ret' = 0
     \/ connected /\ "junk" \in faults /\ ret' = IntMin
  /\ err' = TRUE
  /\ pc' = "loop"
  /\ UNCHANGED <<args, pos, queue, eof, attrs, userAbort, disconnected,
                 connected, remote>>

(* Slip: the result of a cancelled transfer is the last answer's. *)
NothingToReceive_KeepsResult ==
  /\ pc = "recv"
  /\ XferDone
  /\ pc' = IF userAbort THEN "settle" ELSE "loop"
  /\ UNCHANGED <<args, pos, queue, eof, err, ret, attrs, userAbort,
                 disconnected, connected, remote>>

(* No answer is due: on to the next round, unless the user has cancelled. *)
NothingToReceive ==
  /\ pc = "recv"
  /\ XferDone
  /\ pc' = IF userAbort THEN "settle" ELSE "loop"
  /\ ret' = IF userAbort THEN 0 ELSE ret
  /\ UNCHANGED <<args, pos, queue, eof, err, attrs, userAbort, disconnected,
                 connected, remote>>

LeaveLoop ==
  /\ pc = "loop"
  /\ ~LoopGoes
  /\ pc' = "settle"
  /\ UNCHANGED <<client, disconnected, connected, remote>>

(* fxp_fsetstat_send, fxp_close_send: one more request each, whatever the  *)
(* server still owes; xfer_cleanup drops the queue in between.             *)
SendRequest(here, r, there) ==
  /\ pc = here
  /\ requests' = IF connected THEN requests \cup {r} ELSE requests
  /\ pc' = there
  /\ UNCHANGED <<disconnected, connected, executed, stored, stamp>>

(* Slip: the attributes are left as they are. *)
SendSetstat_Skipped ==
  /\ pc = "settle"
  /\ pc' = "close"
  /\ UNCHANGED <<client, disconnected, connected, remote>>

SendSetstat == SendRequest("settle", Setstat, "settling") /\ UNCHANGED client

SendClose ==
  /\ SendRequest("close", CloseRequest, "closing")
  /\ queue' = {}
  /\ UNCHANGED <<args, pos, eof, err, ret, attrs, userAbort>>

(* sftp_wait_for_reply: a reply to any request but the one just sent, or   *)
(* none, is taken for a broken connection.                                 *)
Reply(r, expected) ==
  /\ MayAnswer(r)
  /\ requests' = requests \ {r} /\ executed' = executed \ {r}
  /\ disconnected' = (disconnected \/ r # expected)
  /\ UNCHANGED <<stored, stamp>>

NoReply ==
  /\ ~connected \/ "junk" \in faults
  /\ disconnected' = TRUE
  /\ UNCHANGED remote

WaitForReply(here, expected, there) ==
  /\ pc = here
  /\ NoReply \/ \E r \in requests : Reply(r, expected)
  /\ pc' = there
  /\ UNCHANGED <<client, connected>>

SetstatReply == WaitForReply("settling", Setstat, "close")
CloseReply == WaitForReply("closing", CloseRequest, "done")

(* The server carries out a request it was sent.  FSETSTAT with a size     *)
(* truncates the file.                                                     *)
Execute(r) ==
  /\ connected
  /\ r \in requests \ executed
  /\ IsOldest(r, requests \ executed)
  /\ executed' = executed \cup {r}
  /\ stored' = IF r \in AllBlocks THEN stored \cup {r}
               ELSE IF r = Setstat /\ attrs.size # NoSize
               THEN { b \in stored : b < attrs.size }
               ELSE stored
  /\ stamp' = IF r \in AllBlocks THEN "now"
              ELSE IF r = Setstat /\ attrs.time # "none" THEN attrs.time
              ELSE stamp
  /\ UNCHANGED <<pc, client, disconnected, connected, requests>>

(* The connection drops.  It counts as dropped once the replies already    *)
(* received have been read.                                                *)
LoseConnection ==
  /\ "lost" \in faults
  /\ connected
  /\ pc # "done"
  /\ connected' = FALSE
  /\ UNCHANGED <<pc, client, disconnected, remote>>

Open == OpenLocalFails \/ OpenFails \/ OpenPut \/ OpenReput

Fill == FillBlock \/ FillEnd \/ FillReadError \/ StopFilling

Receive ==
  \/ \E b \in queue : ReceiveOK(b) \/ ReceiveRejected(b)
  \/ ReceiveNothing
  \/ NothingToReceive

Close == SendSetstat \/ SetstatReply \/ SendClose \/ CloseReply

Client ==
  Open \/ (\E cancel \in BOOLEAN : Iterate(cancel)) \/ Fill \/ Receive
    \/ LeaveLoop \/ Close

Server == \E r \in requests : Execute(r)

Finished == pc = "done" /\ UNCHANGED vars

Next == Client \/ Server \/ LoseConnection \/ Finished

Spec == Init /\ [][Next]_vars

(* The thread runs whenever it can, and a server that is connected carries *)
(* out and answers every request; nothing makes the user cancel, a write   *)
(* be refused or the connection drop.                                      *)
FairSpec == Spec /\ WF_vars(Client) /\ WF_vars(Server)

-----------------------------------------------------------------------------
TypeOK ==
  /\ pc \in {"open", "loop", "fill", "recv", "settle", "settling", "close",
             "closing", "done"}
  /\ restart \in Commands /\ faults \in FaultSets
  /\ pos \in NotOpened .. NBlocks
  /\ queue \subseteq AllBlocks
  /\ eof \in BOOLEAN /\ err \in BOOLEAN /\ userAbort \in BOOLEAN
  /\ ret \in {IntMin, -1, 0, 1}
  /\ attrs \in [size : NoSize .. NBlocks,
                time : {"none", "old", "now", "local"}]
  /\ disconnected \in BOOLEAN /\ connected \in BOOLEAN
  /\ requests \subseteq AllBlocks \cup {Setstat, CloseRequest}
  /\ executed \subseteq requests
  /\ stored \subseteq AllBlocks
  /\ stamp \in {"old", "now", "local"}

(* While the loop runs on a connection that is up, the writes in the queue *)
(* are exactly those the server owes an answer to: no reply finds a struct *)
(* req that is gone, none is awaited that was never asked for.             *)
QueueMatchesRequests ==
  pc \in {"loop", "fill", "recv"} /\ connected => requests = queue

(* An upload whose result the plugin takes for success ("0 != r" in        *)
(* Server::doCommand, on a connection that is still up) has stored the     *)
(* whole file.                                                             *)
Success == pc = "done" /\ ret # 0 /\ ~disconnected

SuccessIsStored == Success => stored = AllBlocks

(* ... which is true of put as long as no write is refused, no packet is   *)
(* unknown and the local file can be read: replies may come in any order,  *)
(* the connection may drop and the user may cancel.                        *)
Benign == faults \subseteq {"reorder", "lost", "abort"}

PutIsStored == Benign /\ ~restart => SuccessIsStored

(* However an upload ends, the remote file is a prefix of the local one,   *)
(* so that "reput" can go on where the remote file ends.                   *)
Resumable == pc = "done" => IsPrefix(stored)

(* ... which is true if no write is refused and the server works in order, *)
(* or if it does not but the connection holds: after a cancel the loop     *)
(* goes on until the queue is empty.                                       *)
ResumableUnlessRefused ==
  /\ "rejected" \notin faults
  /\ "reorder" \in faults => faults \subseteq {"reorder", "abort"}
  => Resumable

(* When the function returns on a connection that is up, the server owes   *)
(* no answer: the next command's reply will be its own.                    *)
NothingOwed == pc = "done" /\ connected => requests = {} /\ ~disconnected

CancelOwesNothing == Benign => NothingOwed

(* put keeps the promise of FileCopy against a server that works in order, *)
(* whenever the connection drops or the user cancels: the remote file      *)
(* grows by the next block and by nothing else, and success is the whole.  *)
(* An upload of any kind comes to an end.                                  *)
Copy == INSTANCE FileCopy WITH
  Source <- [i \in 1 .. NBlocks |-> i - 1],
  copied <- IF pos = NotOpened THEN << >>
            ELSE [i \in 1 .. RemoteSize |-> i - 1],
  outcome <- IF pc # "done" THEN "running"
             ELSE IF ret # 0 /\ ~disconnected THEN "success" ELSE "failure"

PutInOrder == faults \subseteq {"lost", "abort"} /\ ~restart

IsFileCopy ==
  /\ PutInOrder => Copy!Init
  /\ [][PutInOrder => Copy!Next]_(Copy!vars)
  /\ <>(pc = "done")
=============================================================================
