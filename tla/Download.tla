------------------------------ MODULE Download ------------------------------
(***************************************************************************)
(* Copying a remote file to a local one: the loop of sftp_get_file         *)
(* (PuttyLib/putty/psftp.c) over the queue of overlapping read requests    *)
(* that fxp_xfer keeps (xfer_* in PuttyLib/putty/sftp.c), against an SFTP  *)
(* server that answers the requests and may misbehave.                     *)
(*                                                                         *)
(* Offsets are counted in blocks of one read request (32768 bytes).  The   *)
(* queue xfer->head .. xfer->tail always holds consecutive offsets, because*)
(* xfer_download_queue appends at xfer->offset and xfer_download_data      *)
(* removes from the head: it is the function rr over head .. offset - 1,   *)
(* and head = offset stands for head = tail = NULL.  A request is named by *)
(* its block; that its identifier is unique is the subject of RequestTree. *)
(***************************************************************************)
EXTENDS Integers, Sequences

CONSTANTS
  NPackets,      \* NPACKETS: read requests kept in flight (8 in the code)
  BlockLen,      \* length of a read request, in units of data
  FullBlocks,    \* full blocks of the remote file; bounds a "short" one
  LastLen,       \* units in the partial block that ends the remote file
  FaultSets      \* what the environment may do, sets of FaultKinds

FaultKinds == {
  "reorder",     \* the server answers requests out of order
  "short",       \* reads of any length: the file changes, or is special
  "error",       \* a read is answered with an error status
  "junk",        \* a packet arrives that matches no request
  "lost",        \* the connection drops
  "abort",       \* the user cancels
  "disk" }       \* a local write fails, perhaps after a part

ASSUME DownloadAssumption ==
  /\ NPackets \in Nat \ {0}
  /\ BlockLen \in Nat \ {0}
  /\ FullBlocks \in Nat
  /\ LastLen \in 0 .. (BlockLen - 1)
  /\ FaultSets \subseteq SUBSET FaultKinds

VARIABLES
  pc,            \* where sftp_get_file is
  head, offset,  \* xfer->head's and xfer->offset's block
  rr,            \* the queue of struct req, by block
  eof, err,      \* xfer->eof, xfer->err
  filesize,      \* xfer->filesize: first block that came back short
  furthestdata,  \* xfer->furthestdata: last block that brought data
  requests,      \* the registered requests the server has not answered
  file,          \* the local file: the pieces written to it, in order
  ret,           \* the loop's (and the function's) result variable
  userAbort,     \* the callback has asked to cancel
  disconnected,  \* the flag the plugin reads through disconnected()
  connected,     \* the network's side: replies still arrive
  faults         \* what the environment may do in this behaviour

xfer == <<head, offset, rr, eof, err, filesize, furthestdata>>
vars == <<pc, xfer, requests, file, ret, userAbort,
          disconnected, connected, faults>>

Unknown == -1            \* (ULONG_MAX, ULONG_MAX): no short block seen yet
CloseRequest == -1       \* the SSH_FXP_CLOSE request, not a block

Pending == [complete |-> 0, retlen |-> 0]

QueueEmpty == head = offset
(* Slip: requests still in flight are forgotten. *)
XferDone_EndOnly == eof \/ err

XferDone == (eof \/ err) /\ QueueEmpty

(* Slip: the first request is asked instead of the last. *)
TailComplete_Head == rr[head].complete # 0

TailComplete == rr[offset - 1].complete # 0

(* What the remote file answers to a read of block b: a length, or -1 for  *)
(* the status SSH_FX_EOF; a file that is "short" answers as it likes.      *)
Answer(b) ==
  IF b < FullBlocks THEN BlockLen
  ELSE IF b = FullBlocks /\ LastLen > 0 THEN LastLen ELSE -1

Answers(b) ==
  IF "short" \in faults
  THEN { n \in -1 .. BlockLen : b >= FullBlocks => n < BlockLen }
  ELSE { Answer(b) }

(* Without "reorder" the server answers the oldest request first. *)
IsOldest(r) ==
  IF r = CloseRequest THEN requests = {CloseRequest}
                      ELSE \A q \in requests \ {CloseRequest} : r <= q

MayAnswer(r) ==
  connected /\ r \in requests /\ ("reorder" \in faults \/ IsOldest(r))

Init ==
  /\ pc = "open"
  /\ head = 0 /\ offset = 0 /\ rr = [b \in 0 .. -1 |-> Pending]
  /\ eof = FALSE /\ err = FALSE
  /\ filesize = Unknown /\ furthestdata = 0
  /\ requests = {}
  /\ file = << >>
  /\ ret = 0
  /\ userAbort = FALSE
  /\ disconnected = FALSE
  /\ connected = TRUE
  /\ faults \in FaultSets

-----------------------------------------------------------------------------
(* Append read requests up to block next and send them. *)
QueueReads(next) ==
  /\ offset' = next
  /\ rr' = [b \in head .. (next - 1) |-> IF b < offset THEN rr[b] ELSE Pending]
  /\ requests' = requests \cup (offset .. (next - 1))

(* xfer_download_queue: fill the window, unless the end or an error has    *)
(* been seen.                                                              *)
DownloadQueue ==
  IF eof \/ err \/ offset - head >= NPackets
  THEN UNCHANGED <<offset, rr, requests>>
  ELSE QueueReads(head + NPackets)

(* The remote open is answered by an error, or not at all. *)
OpenRemoteFails ==
  /\ pc = "open"
  /\ ret' = 0
  /\ disconnected' = (disconnected \/ ~connected)
  /\ pc' = "done"
  /\ UNCHANGED <<xfer, requests, file, userAbort, connected, faults>>

(* The remote file is open, the local one cannot be created: close the     *)
(* handle and give up.                                                     *)
OpenLocalFails ==
  /\ pc = "open"
  /\ connected
  /\ ret' = 0
  /\ pc' = "close"
  /\ UNCHANGED <<xfer, requests, file, userAbort,
                 disconnected, connected, faults>>

(* Both files are open: xfer_download_init. *)
StartTransfer ==
  /\ pc = "open"
  /\ connected
  /\ DownloadQueue
  /\ ret' = 1
  /\ pc' = "loop"
  /\ UNCHANGED <<head, eof, err, filesize, furthestdata, file, userAbort,
                 disconnected, connected, faults>>

(* Top of the loop: show the progress, which is where the user may cancel. *)
(* After a cancel no more requests are queued, and the loop is left as     *)
(* soon as the last one queued has been answered; that request is looked   *)
(* up without a check that there is one.                                   *)
Iterate(cancel) ==
  /\ pc = "loop"
  /\ ~XferDone
  /\ cancel => "abort" \in faults
  /\ userAbort' = (userAbort \/ cancel)
  /\ err' = (err \/ cancel)
  /\ \/ /\ userAbort'
        /\ pc' = IF QueueEmpty THEN "crashed"
                 ELSE IF TailComplete THEN "close" ELSE "recv"
        /\ ret' = IF ~QueueEmpty /\ TailComplete THEN 0 ELSE ret
        /\ UNCHANGED <<offset, rr, requests>>
     \/ /\ ~userAbort'
        /\ DownloadQueue
        /\ pc' = "recv"
        /\ UNCHANGED ret
  /\ UNCHANGED <<head, eof, filesize, furthestdata, file,
                 disconnected, connected, faults>>

(* Slip: data beyond a short block is not noticed. *)
ReceiveData_NoGapCheck(b, n) ==
  /\ pc = "recv"
  /\ MayAnswer(b)
  /\ n \in Answers(b)
  /\ requests' = requests \ {b}
  /\ eof' = (eof \/ n <= 0)
  /\ rr' = [rr EXCEPT ![b] = [complete |-> 1, retlen |-> n]]
  /\ ret' = IF userAbort THEN 0 ELSE 1
  /\ pc' = "drain"
  /\ UNCHANGED <<head, offset, err, filesize, furthestdata, file, userAbort,
                 disconnected, connected, faults>>

(* xfer_download_gotpkt for a reply that brings n units of block b, or the *)
(* end of file (n = -1).  A block that came back short bounds the file;    *)
(* data found beyond that bound is an error.                               *)
ReceiveData(b, n) ==
  /\ pc = "recv"
  /\ MayAnswer(b)
  /\ n \in Answers(b)
  /\ requests' = requests \ {b}
  /\ eof' = (eof \/ n <= 0)
  /\ rr' = [rr EXCEPT ![b] = [complete |-> 1, retlen |-> n]]
  /\ furthestdata' = IF n > 0 /\ furthestdata < b THEN b ELSE furthestdata
  /\ filesize' = IF n < BlockLen /\ (filesize = Unknown \/ filesize > b)
                 THEN b ELSE filesize
  /\ LET gap == filesize' # Unknown /\ furthestdata' > filesize' IN
       /\ err' = (err \/ gap)
       /\ ret' = IF gap \/ userAbort THEN 0 ELSE 1
  /\ pc' = "drain"
  /\ UNCHANGED <<head, offset, file, userAbort,
                 disconnected, connected, faults>>

(* Slip: the request is left waiting for its answer. *)
ReceiveError_NotMarked(b) ==
  /\ pc = "recv"
  /\ "error" \in faults
  /\ MayAnswer(b)
  /\ requests' = requests \ {b}
  /\ err' = TRUE
  /\ ret' = 0
  /\ pc' = "drain"
  /\ UNCHANGED <<head, offset, rr, eof, filesize, furthestdata, file, userAbort,
                 disconnected, connected, faults>>

(* xfer_download_gotpkt for a reply with any other status. *)
ReceiveError(b) ==
  /\ pc = "recv"
  /\ "error" \in faults
  /\ MayAnswer(b)
  /\ requests' = requests \ {b}
  /\ rr' = [rr EXCEPT ![b] = [complete |-> -1, retlen |-> -1]]
  /\ err' = TRUE
  /\ ret' = 0
  /\ pc' = "drain"
  /\ UNCHANGED <<head, offset, eof, filesize, furthestdata, file, userAbort,
                 disconnected, connected, faults>>

(* A packet sftp_find_request cannot match (INT_MIN), or none at all       *)
(* because the connection is gone: nothing but the result changes.         *)
ReceiveNothing ==
  /\ pc = "recv"
  /\ ~connected \/ "junk" \in faults
  /\ ret' = 0
  /\ pc' = "drain"
  /\ UNCHANGED <<xfer, requests, file, userAbort,
                 disconnected, connected, faults>>

(* Slip: the block stays in the queue. *)
PopHead_KeepsEntry ==
  /\ head' = head + 1
  /\ UNCHANGED rr

(* xfer_download_data: take the block at the head off the queue. *)
PopHead ==
  /\ head' = head + 1
  /\ rr' = [b \in (head + 1) .. (offset - 1) |-> rr[b]]

(* The drain loop "while (ret && xfer_download_data())" goes on. *)
HeadReady == pc = "drain" /\ ret = 1 /\ ~QueueEmpty /\ rr[head].complete # 0

(* Slip: the length asked for is written, not the length that came. *)
WriteBlock_FullLength ==
  /\ HeadReady
  /\ rr[head].complete = 1
  /\ PopHead
  /\ file' = IF rr[head].retlen > 0
             THEN Append(file, [block |-> head, len |-> BlockLen])
             ELSE file
  /\ UNCHANGED <<pc, offset, eof, err, filesize, furthestdata, requests, ret,
                 userAbort, disconnected, connected, faults>>

(* ... with a block that arrived: write it to the local file. *)
WriteBlock ==
  /\ HeadReady
  /\ rr[head].complete = 1
  /\ PopHead
  /\ file' = IF rr[head].retlen > 0
             THEN Append(file, [block |-> head, len |-> rr[head].retlen])
             ELSE file
  /\ UNCHANGED <<pc, offset, eof, err, filesize, furthestdata, requests, ret,
                 userAbort, disconnected, connected, faults>>

(* ... but only k units of it can be written. *)
WriteFails(k) ==
  /\ HeadReady
  /\ "disk" \in faults
  /\ rr[head].complete = 1
  /\ k < rr[head].retlen
  /\ PopHead
  /\ file' = IF k > 0 THEN Append(file, [block |-> head, len |-> k]) ELSE file
  /\ err' = TRUE
  /\ ret' = 0
  /\ UNCHANGED <<pc, offset, eof, filesize, furthestdata, requests, userAbort,
                 disconnected, connected, faults>>

(* ... past a block whose read failed. *)
SkipFailed ==
  /\ HeadReady
  /\ rr[head].complete = -1
  /\ PopHead
  /\ UNCHANGED <<pc, offset, eof, err, filesize, furthestdata, requests, file,
                 ret, userAbort, disconnected, connected, faults>>

(* Slip: only one block is taken off the queue for each reply. *)
EndDrain_Early ==
  /\ pc = "drain"
  /\ pc' = "loop"
  /\ UNCHANGED <<xfer, requests, file, ret, userAbort,
                 disconnected, connected, faults>>

(* The drain loop ends: an error, an empty queue or an open request. *)
EndDrain ==
  /\ pc = "drain"
  /\ ~HeadReady
  /\ pc' = "loop"
  /\ UNCHANGED <<xfer, requests, file, ret, userAbort,
                 disconnected, connected, faults>>

LeaveLoop ==
  /\ pc = "loop"
  /\ XferDone
  /\ pc' = "close"
  /\ UNCHANGED <<xfer, requests, file, ret, userAbort,
                 disconnected, connected, faults>>

(* xfer_cleanup drops the queue, answered or not; then the handle is       *)
(* closed, which is one more request.                                      *)
CloseHandle ==
  /\ pc = "close"
  /\ head' = offset
  /\ rr' = [b \in offset .. (offset - 1) |-> Pending]
  /\ requests' = requests \cup {CloseRequest}
  /\ pc' = "closing"
  /\ UNCHANGED <<offset, eof, err, filesize, furthestdata, file, ret, userAbort,
                 disconnected, connected, faults>>

(* sftp_wait_for_reply: a reply to any request but this one, or none, is   *)
(* taken for a broken connection.                                          *)
CloseReply(r) ==
  /\ pc = "closing"
  /\ MayAnswer(r)
  /\ requests' = requests \ {r}
  /\ disconnected' = (disconnected \/ r # CloseRequest)
  /\ pc' = "done"
  /\ UNCHANGED <<xfer, file, ret, userAbort, connected, faults>>

CloseNoReply ==
  /\ pc = "closing"
  /\ ~connected \/ "junk" \in faults
  /\ disconnected' = TRUE
  /\ pc' = "done"
  /\ UNCHANGED <<xfer, requests, file, ret, userAbort, connected, faults>>

(* The environment: the connection drops.  It counts as dropped once the   *)
(* replies already received have been read.                                *)
LoseConnection ==
  /\ "lost" \in faults
  /\ connected
  /\ pc \notin {"done", "crashed"}
  /\ connected' = FALSE
  /\ UNCHANGED <<pc, xfer, requests, file, ret, userAbort,
                 disconnected, faults>>

Finished == pc = "done" /\ UNCHANGED vars

Blocks == head .. (offset - 1)

Open == OpenRemoteFails \/ OpenLocalFails \/ StartTransfer

Receive ==
  \/ \E b \in Blocks : ReceiveError(b)
  \/ \E b \in Blocks : \E n \in -1 .. BlockLen : ReceiveData(b, n)
  \/ ReceiveNothing

Drain ==
  WriteBlock \/ SkipFailed \/ EndDrain
    \/ \E k \in 0 .. (BlockLen - 1) : WriteFails(k)

Close ==
  CloseHandle \/ CloseNoReply \/ \E r \in requests : CloseReply(r)

Client ==
  Open \/ (\E cancel \in BOOLEAN : Iterate(cancel)) \/ Receive \/ Drain
    \/ LeaveLoop \/ Close

Next == Client \/ LoseConnection \/ Finished

Spec == Init /\ [][Next]_vars

(* The thread runs the loop whenever it can, and a server that is          *)
(* connected answers every request; nothing makes the user cancel, the     *)
(* disk fail or the connection drop.                                       *)
FairSpec == Spec /\ WF_vars(Client)

-----------------------------------------------------------------------------
Piece == [block : Nat, len : 1 .. BlockLen]

TypeOK ==
  /\ pc \in {"open", "loop", "recv", "drain", "close", "closing", "done",
             "crashed"}
  /\ head \in Nat /\ offset \in Nat /\ head <= offset
  /\ rr \in [Blocks -> [complete : {-1, 0, 1}, retlen : -1 .. BlockLen]]
  /\ eof \in BOOLEAN /\ err \in BOOLEAN
  /\ filesize \in Nat \cup {Unknown} /\ furthestdata \in Nat
  /\ requests \in SUBSET (Nat \cup {CloseRequest})
  /\ file \in Seq(Piece)
  /\ ret \in {0, 1}
  /\ userAbort \in BOOLEAN /\ disconnected \in BOOLEAN /\ connected \in BOOLEAN
  /\ faults \in FaultSets

(* While the loop runs, the requests the server owes an answer to are      *)
(* exactly the queue's entries that wait for one, and there are never more *)
(* than the window allows: no reply finds a struct req that is gone, and   *)
(* none is awaited that was never asked for.                               *)
QueueMatchesRequests ==
  pc \in {"loop", "recv", "drain"} =>
    /\ requests = { b \in Blocks : rr[b].complete = 0 }
    /\ offset - head <= NPackets

(* No read is refused and no local write fails; and the remote file does   *)
(* not change.                                                             *)
NoErrors == faults \cap {"error", "disk"} = {}
Stable == NoErrors /\ "short" \notin faults

(* The local file is a gapless copy: its i-th piece is block i - 1, and    *)
(* only the last piece may be partial.  Replies that overtake each other,  *)
(* reads that come back short, a cancel or a lost connection at any moment *)
(* never put data at the wrong place.                                      *)
NoHole ==
  \A i \in 1 .. Len(file) :
    /\ file[i].block = i - 1
    /\ i < Len(file) => file[i].len = BlockLen

NoHoleUnlessFailed == NoErrors => NoHole

(* A transfer that reports success has seen the end of the file and has    *)
(* written every block before it; when the remote file does not change,    *)
(* the local file is the remote file.                                      *)
RemoteLen == FullBlocks + (IF LastLen > 0 THEN 1 ELSE 0)

RemoteFile ==
  [i \in 1 .. RemoteLen |-> [block |-> i - 1, len |-> Answer(i - 1)]]

EndSeen == filesize # Unknown /\ Len(file) >= filesize

SuccessIsWhole ==
  pc = "done" /\ ret = 1 =>
    /\ EndSeen
    /\ "short" \notin faults => file = RemoteFile

SuccessIsWholeUnlessFailed == NoErrors => SuccessIsWhole

(* When the function returns on a connection that is up, the server owes   *)
(* no answer: the next command's reply will be its own.                    *)
NothingOwed == pc = "done" /\ connected => requests = {} /\ ~disconnected

(* The loop never waits for a reply when every request was answered. *)
WaitsForAnswer == pc = "recv" /\ connected => requests # {}

(* The request the cancel looks up is there. *)
TailExists == pc # "crashed"

(* A transfer that has lost its connection returns, so that the plugin can *)
(* connect again.                                                          *)
LossEndsTransfer == ~connected ~> pc = "done"

(* A cancelled transfer ends. *)
CancelEnds == userAbort ~> pc = "done"

(* The transfer keeps the promise of FileCopy, and it ends. *)
Copy == INSTANCE FileCopy WITH
  Source <- RemoteFile,
  copied <- file,
  outcome <- IF pc # "done" THEN "running"
             ELSE IF ret = 1 THEN "success" ELSE "failure"
IsFileCopy == Copy!FairSpec
=============================================================================
