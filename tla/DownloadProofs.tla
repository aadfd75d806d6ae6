--------------------------- MODULE DownloadProofs ---------------------------
(***************************************************************************)
(* Proofs about Download, for every window, block length, file and number  *)
(* of blocks.  As long as no read is answered with an error status and no  *)
(* local write fails, whatever lengths the server answers, in whatever     *)
(* order, with the connection dropping or the user cancelling at any time: *)
(* the local file has no hole, and success means that the end was seen.    *)
(***************************************************************************)
EXTENDS Download, SequenceTheorems, TLAPS

ReqType == [complete : {-1, 0, 1}, retlen : -1 .. BlockLen]

LEMMA PendingType == Pending \in ReqType
<1>1. 0 \in -1 .. BlockLen
  BY DownloadAssumption
<1>. QED BY <1>1 DEF Pending, ReqType

LEMMA InitTypeOK == Init => TypeOK
<1> SUFFICES ASSUME Init PROVE TypeOK
  OBVIOUS
<1>1. rr \in [Blocks -> ReqType]
  <2>1. Blocks = 0 .. -1
    BY DEF Init, Blocks
  <2>. QED BY <2>1, PendingType DEF Init
<1>2. file \in Seq(Piece)
  BY DEF Init
<1>3. requests \in SUBSET (Nat \cup {CloseRequest}) /\ filesize \in Nat \cup {Unknown}
  BY DEF Init
<1>4. head \in Nat /\ offset \in Nat /\ head <= offset /\ furthestdata \in Nat
  BY DEF Init
<1>. QED BY <1>1, <1>2, <1>3, <1>4 DEF Init, TypeOK, ReqType

(* Queueing more requests keeps the queue a function over its blocks. *)
LEMMA DownloadQueueType ==
  ASSUME TypeOK, DownloadQueue, UNCHANGED head
  PROVE  /\ offset' \in Nat /\ head <= offset' /\ offset <= offset'
         /\ rr' \in [head .. (offset' - 1) -> [complete : {-1, 0, 1}, retlen : -1 .. BlockLen]]
         /\ requests' = requests \cup (offset .. (offset' - 1))
         /\ requests' \in SUBSET (Nat \cup {CloseRequest})
         /\ \A b \in head .. (offset - 1) : rr'[b] = rr[b]
         /\ \A b \in offset .. (offset' - 1) : rr'[b] = Pending
         /\ offset - head <= NPackets => offset' - head <= NPackets
         /\ eof \/ err => offset' = offset
<1>1. CASE UNCHANGED <<offset, rr, requests>>
  BY <1>1, DownloadAssumption DEF TypeOK, Blocks
<1>2. CASE ~(eof \/ err) /\ offset - head < NPackets /\ QueueReads(head + NPackets)
  BY <1>2, DownloadAssumption DEF TypeOK, Blocks, QueueReads, Pending
<1>3. /\ offset' \in Nat /\ head <= offset' /\ offset <= offset'
      /\ rr' \in [head .. (offset' - 1) -> [complete : {-1, 0, 1}, retlen : -1 .. BlockLen]]
      /\ requests' = requests \cup (offset .. (offset' - 1))
      /\ \A b \in head .. (offset - 1) : rr'[b] = rr[b]
      /\ \A b \in offset .. (offset' - 1) : rr'[b] = Pending
      /\ offset - head <= NPackets => offset' - head <= NPackets
      /\ eof \/ err => offset' = offset
  BY <1>1, <1>2, DownloadAssumption DEF DownloadQueue, TypeOK
<1>4. ASSUME NEW b \in offset .. (offset' - 1) PROVE b \in Nat
  BY <1>3 DEF TypeOK
<1>5. requests' \in SUBSET (Nat \cup {CloseRequest})
  BY <1>3, <1>4 DEF TypeOK
<1>. QED BY <1>3, <1>5

(* Taking the head off the queue keeps it a function over its blocks. *)
LEMMA PopHeadType ==
  ASSUME TypeOK, HeadReady, PopHead, UNCHANGED offset
  PROVE  /\ head' = head + 1 /\ head' \in Nat /\ head' <= offset'
         /\ rr' \in [Blocks' -> [complete : {-1, 0, 1}, retlen : -1 .. BlockLen]]
         /\ \A b \in Blocks' : rr'[b] = rr[b] /\ b \in Blocks
         /\ head \in Blocks
BY DEF TypeOK, HeadReady, PopHead, Blocks, QueueEmpty

LEMMA WriteBlockType == TypeOK /\ WriteBlock => TypeOK'
<1> SUFFICES ASSUME TypeOK, WriteBlock PROVE TypeOK'
  OBVIOUS
<1>1. /\ head' \in Nat /\ head' <= offset' /\ head \in Blocks
      /\ rr' \in [Blocks' -> [complete : {-1, 0, 1}, retlen : -1 .. BlockLen]]
  BY PopHeadType DEF WriteBlock
<1>2. file' \in Seq(Piece)
  <2>1. CASE rr[head].retlen > 0
    <3>1. [block |-> head, len |-> rr[head].retlen] \in Piece
      BY <1>1, <2>1, DownloadAssumption DEF TypeOK, Piece
    <3>. QED BY <2>1, <3>1, AppendProperties DEF WriteBlock, TypeOK
  <2>2. CASE ~(rr[head].retlen > 0)
    BY <2>2 DEF WriteBlock, TypeOK
  <2>. QED BY <2>1, <2>2
<1>. QED BY <1>1, <1>2 DEF TypeOK, WriteBlock

LEMMA WriteFailsType ==
  ASSUME TypeOK, NEW k \in 0 .. (BlockLen - 1), WriteFails(k)
  PROVE  TypeOK'
<1>1. /\ head' \in Nat /\ head' <= offset' /\ head \in Blocks
      /\ rr' \in [Blocks' -> [complete : {-1, 0, 1}, retlen : -1 .. BlockLen]]
  BY PopHeadType DEF WriteFails
<1>2. file' \in Seq(Piece)
  <2>1. CASE k > 0
    <3>1. [block |-> head, len |-> k] \in Piece
      BY <1>1, <2>1, DownloadAssumption DEF TypeOK, Piece
    <3>. QED BY <2>1, <3>1, AppendProperties DEF WriteFails, TypeOK
  <2>2. CASE ~(k > 0)
    BY <2>2 DEF WriteFails, TypeOK
  <2>. QED BY <2>1, <2>2
<1>. QED BY <1>1, <1>2 DEF TypeOK, WriteFails

LEMMA ReceiveDataType ==
  ASSUME TypeOK, NEW b \in Blocks, NEW n \in -1 .. BlockLen, ReceiveData(b, n)
  PROVE  TypeOK'
<1>1. b \in Nat
  BY DEF Blocks, TypeOK
<1>2. rr' \in [Blocks' -> [complete : {-1, 0, 1}, retlen : -1 .. BlockLen]]
  BY DEF ReceiveData, TypeOK, Blocks
<1>3. filesize' \in Nat \cup {Unknown} /\ furthestdata' \in Nat
  BY <1>1 DEF ReceiveData, TypeOK
<1>4. ret' \in {0, 1} /\ err' \in BOOLEAN /\ eof' \in BOOLEAN
  BY DEF ReceiveData, TypeOK
<1>. QED BY <1>1, <1>2, <1>3, <1>4 DEF ReceiveData, TypeOK

LEMMA IterateType ==
  ASSUME TypeOK, NEW cancel \in BOOLEAN, Iterate(cancel)
  PROVE  TypeOK'
<1>1. CASE userAbort'
  BY <1>1 DEF Iterate, TypeOK, Blocks
<1>2. CASE ~userAbort'
  <2>1. DownloadQueue /\ UNCHANGED head /\ pc' = "recv" /\ UNCHANGED ret
    BY <1>2 DEF Iterate
  <2>2. offset' \in Nat /\ head <= offset'
        /\ rr' \in [head .. (offset' - 1) -> [complete : {-1, 0, 1}, retlen : -1 .. BlockLen]]
        /\ requests' \in SUBSET (Nat \cup {CloseRequest})
    BY <2>1, DownloadQueueType
  <2>. QED BY <2>1, <2>2 DEF Iterate, TypeOK, Blocks
<1>. QED BY <1>1, <1>2

LEMMA StartTransferType == TypeOK /\ StartTransfer => TypeOK'
<1> SUFFICES ASSUME TypeOK, StartTransfer PROVE TypeOK'
  OBVIOUS
<1>1. DownloadQueue /\ UNCHANGED head
  BY DEF StartTransfer
<1>2. offset' \in Nat /\ head <= offset'
      /\ rr' \in [head .. (offset' - 1) -> [complete : {-1, 0, 1}, retlen : -1 .. BlockLen]]
      /\ requests' \in SUBSET (Nat \cup {CloseRequest})
  BY <1>1, DownloadQueueType
<1>. QED BY <1>1, <1>2 DEF StartTransfer, TypeOK, Blocks

(* Every step keeps the types. *)
LEMMA NextTypeOK == TypeOK /\ [Next]_vars => TypeOK'
<1> SUFFICES ASSUME TypeOK, [Next]_vars PROVE TypeOK'
  OBVIOUS
<1>1. CASE OpenRemoteFails \/ OpenLocalFails
  BY <1>1 DEF OpenRemoteFails, OpenLocalFails, xfer, TypeOK, Blocks
<1>2. CASE StartTransfer
  BY <1>2, StartTransferType
<1>3. ASSUME NEW cancel \in BOOLEAN, Iterate(cancel) PROVE TypeOK'
  BY <1>3, IterateType
<1>4. ASSUME NEW b \in Blocks, NEW n \in -1 .. BlockLen, ReceiveData(b, n) PROVE TypeOK'
  BY <1>4, ReceiveDataType
<1>5. ASSUME NEW b \in Blocks, ReceiveError(b) PROVE TypeOK'
  BY <1>5, DownloadAssumption DEF ReceiveError, TypeOK, Blocks
<1>6. CASE ReceiveNothing
  BY <1>6 DEF ReceiveNothing, xfer, TypeOK, Blocks
<1>7. CASE WriteBlock
  BY <1>7, WriteBlockType
<1>8. ASSUME NEW k \in 0 .. (BlockLen - 1), WriteFails(k) PROVE TypeOK'
  BY <1>8, WriteFailsType
<1>9. CASE SkipFailed
  <2>1. /\ head' \in Nat /\ head' <= offset'
        /\ rr' \in [Blocks' -> [complete : {-1, 0, 1}, retlen : -1 .. BlockLen]]
    BY <1>9, PopHeadType DEF SkipFailed
  <2>. QED BY <1>9, <2>1 DEF SkipFailed, TypeOK
<1>10. CASE EndDrain \/ LeaveLoop
  BY <1>10 DEF EndDrain, LeaveLoop, xfer, TypeOK, Blocks
<1>11. CASE CloseHandle
  <2>1. Blocks' = offset .. (offset - 1)
    BY <1>11 DEF CloseHandle, Blocks
  <2>2. rr' \in [Blocks' -> ReqType]
    BY <1>11, <2>1, PendingType DEF CloseHandle
  <2>3. requests' \in SUBSET (Nat \cup {CloseRequest})
    BY <1>11 DEF CloseHandle, TypeOK
  <2>. QED BY <1>11, <2>2, <2>3 DEF CloseHandle, TypeOK, ReqType
<1>12. ASSUME NEW r \in requests, CloseReply(r) PROVE TypeOK'
  BY <1>12 DEF CloseReply, xfer, TypeOK, Blocks
<1>13. CASE CloseNoReply \/ LoseConnection
  BY <1>13 DEF CloseNoReply, LoseConnection, xfer, TypeOK, Blocks
<1>14. CASE UNCHANGED vars
  BY <1>14 DEF vars, xfer, TypeOK, Blocks
<1>. QED
  BY <1>1, <1>2, <1>3, <1>4, <1>5, <1>6, <1>7, <1>8, <1>9, <1>10, <1>11, <1>12,
     <1>13, <1>14
  DEF Next, Client, Open, Receive, Drain, Close, Finished

(* Every variable keeps its type, under any combination of faults. *)
THEOREM TypeCorrect == Spec => []TypeOK
BY InitTypeOK, NextTypeOK, PTL DEF Spec

-----------------------------------------------------------------------------
(* The queue and the outstanding requests.                                 *)

InLoop == pc \in {"loop", "recv", "drain"}

(* Nothing has been asked for or written before both files are open. *)
FreshAtOpen ==
  pc = "open" =>
    /\ head = 0 /\ offset = 0 /\ file = << >> /\ requests = {}
    /\ ~eof /\ ~err /\ ~userAbort /\ filesize = Unknown /\ furthestdata = 0

QueueInv == TypeOK /\ QueueMatchesRequests /\ FreshAtOpen

LEMMA IntervalSplit ==
  ASSUME NEW p \in Nat, NEW q \in Nat, NEW r \in Nat, p <= q, q <= r
  PROVE  \A b : b \in p .. (r - 1) <=> b \in p .. (q - 1) \/ b \in q .. (r - 1)
OBVIOUS

LEMMA IntervalParts ==
  ASSUME NEW p \in Nat, NEW q \in Nat, NEW r \in Nat, p <= q, q <= r
  PROVE  /\ \A b \in p .. (q - 1) : b \in p .. (r - 1) /\ b \notin q .. (r - 1)
         /\ \A b \in q .. (r - 1) : b \in p .. (r - 1)
OBVIOUS

(* Queueing keeps the correspondence: the new requests are the new entries *)
(* and both wait for an answer.                                            *)
LEMMA DownloadQueueMatches ==
  ASSUME TypeOK, DownloadQueue, UNCHANGED head,
         requests = { b \in Blocks : rr[b].complete = 0 },
         offset - head <= NPackets
  PROVE  /\ requests' = { b \in Blocks' : rr'[b].complete = 0 }
         /\ offset' - head' <= NPackets
<1>1. /\ offset' \in Nat /\ offset <= offset' /\ head \in Nat /\ offset \in Nat
      /\ head <= offset
      /\ requests' = requests \cup (offset .. (offset' - 1))
      /\ \A b \in head .. (offset - 1) : rr'[b] = rr[b]
      /\ \A b \in offset .. (offset' - 1) : rr'[b] = Pending
      /\ offset' - head <= NPackets
  BY DownloadQueueType DEF TypeOK
<1>0. offset' \in Nat /\ offset <= offset' /\ head \in Nat /\ offset \in Nat /\ head <= offset
  BY <1>1
<1>2. Pending.complete = 0
  BY DEF Pending
<1>3. Blocks' = head .. (offset' - 1) /\ Blocks = head .. (offset - 1)
  BY <1>1 DEF Blocks
<1>4. ASSUME NEW b \in Int
      PROVE  b \in requests' <=> b \in Blocks' /\ rr'[b].complete = 0
  <2>1. CASE b \in head .. (offset - 1)
    <3>0. b \in head .. (offset' - 1) /\ b \notin offset .. (offset' - 1)
      BY <1>0, <2>1, IntervalParts
    <3>1. b \in Blocks /\ b \in Blocks' /\ rr'[b] = rr[b]
      BY <1>1, <1>3, <2>1, <3>0
    <3>2. b \in requests <=> rr[b].complete = 0
      BY <3>1
    <3>. QED BY <1>1, <3>0, <3>1, <3>2
  <2>2. CASE b \in offset .. (offset' - 1)
    <3>0. b \in head .. (offset' - 1)
      BY <1>0, <2>2, IntervalParts
    <3>1. b \in Blocks' /\ rr'[b] = Pending
      BY <1>1, <1>3, <2>2, <3>0
    <3>. QED BY <1>1, <1>2, <2>2, <3>1
  <2>3. CASE b \notin head .. (offset - 1) /\ b \notin offset .. (offset' - 1)
    <3>1. b \notin head .. (offset' - 1)
      BY <1>0, <2>3, IntervalSplit
    <3>. QED BY <1>1, <1>3, <2>3, <3>1
  <2>. QED BY <2>1, <2>2, <2>3
<1>5. \A b \in requests' : b \in Int
  BY <1>1, <1>3
<1>6. \A b \in Blocks' : b \in Int
  BY <1>3
<1>. QED BY <1>1, <1>4, <1>5, <1>6

(* Taking an answered entry off the head loses no pending one. *)
LEMMA PopHeadMatches ==
  ASSUME TypeOK, HeadReady, PopHead, UNCHANGED <<offset, requests>>,
         requests = { b \in Blocks : rr[b].complete = 0 },
         offset - head <= NPackets
  PROVE  /\ requests' = { b \in Blocks' : rr'[b].complete = 0 }
         /\ offset' - head' <= NPackets
<1>1. /\ head' = head + 1 /\ head \in Nat /\ offset \in Nat
      /\ \A b \in Blocks' : rr'[b] = rr[b] /\ b \in Blocks
      /\ rr[head].complete # 0
  BY PopHeadType DEF TypeOK, HeadReady
<1>2. ASSUME NEW b \in Blocks, b # head PROVE b \in Blocks'
  BY <1>1, <1>2 DEF Blocks
<1>3. offset' - head' <= NPackets
  BY <1>1, DownloadAssumption
<1>. QED BY <1>1, <1>2, <1>3

LEMMA InitQueueInv == Init => QueueInv
BY InitTypeOK DEF Init, QueueInv, QueueMatchesRequests, FreshAtOpen

LEMMA NextQueueInv == QueueInv /\ [Next]_vars => QueueInv'
<1> SUFFICES ASSUME QueueInv, [Next]_vars PROVE QueueMatchesRequests' /\ FreshAtOpen'
  BY NextTypeOK DEF QueueInv
<1> USE DEF QueueInv
<1>1. CASE OpenRemoteFails \/ OpenLocalFails
  BY <1>1 DEF OpenRemoteFails, OpenLocalFails, QueueMatchesRequests, FreshAtOpen
<1>2. CASE StartTransfer
  <2>1. /\ requests = { b \in Blocks : rr[b].complete = 0 }
        /\ offset - head <= NPackets
    BY <1>2, DownloadAssumption DEF StartTransfer, FreshAtOpen, Blocks
  <2>. QED BY <1>2, <2>1, DownloadQueueMatches
       DEF StartTransfer, QueueMatchesRequests, FreshAtOpen
<1>3. ASSUME NEW cancel \in BOOLEAN, Iterate(cancel)
      PROVE  QueueMatchesRequests' /\ FreshAtOpen'
  <2>1. /\ requests = { b \in Blocks : rr[b].complete = 0 }
        /\ offset - head <= NPackets
    BY <1>3 DEF Iterate, QueueMatchesRequests
  <2>2. CASE userAbort'
    BY <1>3, <2>1, <2>2 DEF Iterate, QueueMatchesRequests, FreshAtOpen, Blocks
  <2>3. CASE ~userAbort'
    <3>1. DownloadQueue /\ UNCHANGED head /\ pc' = "recv"
      BY <1>3, <2>3 DEF Iterate
    <3>. QED BY <2>1, <3>1, DownloadQueueMatches DEF QueueMatchesRequests, FreshAtOpen
  <2>. QED BY <2>2, <2>3
<1>4. ASSUME NEW b \in Blocks, NEW n \in -1 .. BlockLen, ReceiveData(b, n)
      PROVE  QueueMatchesRequests' /\ FreshAtOpen'
  BY <1>4 DEF ReceiveData, QueueMatchesRequests, FreshAtOpen, Blocks, TypeOK
<1>5. ASSUME NEW b \in Blocks, ReceiveError(b)
      PROVE  QueueMatchesRequests' /\ FreshAtOpen'
  BY <1>5 DEF ReceiveError, QueueMatchesRequests, FreshAtOpen, Blocks, TypeOK
<1>6. CASE ReceiveNothing
  BY <1>6 DEF ReceiveNothing, xfer, QueueMatchesRequests, FreshAtOpen, Blocks
<1>7. CASE WriteBlock
  <2>1. HeadReady /\ PopHead /\ UNCHANGED <<pc, offset, requests>> /\ pc = "drain"
    BY <1>7 DEF WriteBlock, HeadReady
  <2>. QED BY <2>1, PopHeadMatches DEF QueueMatchesRequests, FreshAtOpen
<1>8. ASSUME NEW k \in 0 .. (BlockLen - 1), WriteFails(k)
      PROVE  QueueMatchesRequests' /\ FreshAtOpen'
  <2>1. HeadReady /\ PopHead /\ UNCHANGED <<pc, offset, requests>> /\ pc = "drain"
    BY <1>8 DEF WriteFails, HeadReady
  <2>. QED BY <2>1, PopHeadMatches DEF QueueMatchesRequests, FreshAtOpen
<1>9. CASE SkipFailed
  <2>1. HeadReady /\ PopHead /\ UNCHANGED <<pc, offset, requests>> /\ pc = "drain"
    BY <1>9 DEF SkipFailed, HeadReady
  <2>. QED BY <2>1, PopHeadMatches DEF QueueMatchesRequests, FreshAtOpen
<1>10. CASE EndDrain \/ LeaveLoop
  BY <1>10 DEF EndDrain, LeaveLoop, xfer, QueueMatchesRequests, FreshAtOpen, Blocks
<1>11. CASE CloseHandle
  BY <1>11 DEF CloseHandle, QueueMatchesRequests, FreshAtOpen
<1>12. ASSUME NEW r \in requests, CloseReply(r)
       PROVE  QueueMatchesRequests' /\ FreshAtOpen'
  BY <1>12 DEF CloseReply, QueueMatchesRequests, FreshAtOpen
<1>13. CASE CloseNoReply \/ LoseConnection
  BY <1>13 DEF CloseNoReply, LoseConnection, xfer, QueueMatchesRequests, FreshAtOpen, Blocks
<1>14. CASE UNCHANGED vars
  BY <1>14 DEF vars, xfer, QueueMatchesRequests, FreshAtOpen, Blocks
<1>. QED
  BY <1>1, <1>2, <1>3, <1>4, <1>5, <1>6, <1>7, <1>8, <1>9, <1>10, <1>11, <1>12,
     <1>13, <1>14
  DEF Next, Client, Open, Receive, Drain, Close, Finished

(* While the loop runs, the server owes answers to exactly the entries of  *)
(* the queue that wait for one, whatever fails.                            *)
THEOREM QueueSafe == Spec => []QueueMatchesRequests
<1>1. QueueInv => QueueMatchesRequests
  BY DEF QueueInv
<1>. QED BY <1>1, InitQueueInv, NextQueueInv, PTL DEF Spec

(* What the environment may do is settled at the start. *)
LEMMA FaultsFixed == [Next]_vars => UNCHANGED faults
BY DEF Next, Client, Open, Receive, Drain, Close, OpenRemoteFails, OpenLocalFails,
   StartTransfer, Iterate, ReceiveData, ReceiveError, ReceiveNothing, WriteBlock,
   WriteFails, SkipFailed, EndDrain, LeaveLoop, CloseHandle, CloseReply,
   CloseNoReply, LoseConnection, Finished, vars

-----------------------------------------------------------------------------
(* The local file has no hole.  The argument: a block that came back short *)
(* lowers filesize to at most its own offset, a block with data raises     *)
(* furthestdata to at least its own, and the loop stops writing as soon as *)
(* furthestdata passes filesize.  So while it writes, every block before a *)
(* short one is full and nothing follows the short one.                    *)

Consistent == filesize = Unknown \/ furthestdata <= filesize

AllFull == \A i \in 1 .. Len(file) : file[i].len = BlockLen

(* What the queue's entries say is summed up in filesize and furthestdata. *)
EntriesCounted ==
  \A b \in Blocks :
    /\ rr[b].complete # -1
    /\ rr[b].complete = 1 /\ rr[b].retlen > 0 => b <= furthestdata
    /\ rr[b].complete = 1 /\ rr[b].retlen < BlockLen =>
         filesize # Unknown /\ filesize <= b

(* Up to the first short block, the file is the blocks taken off the queue.*)
FileIsPopped ==
  /\ Len(file) <= head
  /\ filesize = Unknown \/ filesize >= head => Len(file) = head /\ AllFull
  /\ filesize # Unknown /\ filesize < head => Len(file) >= filesize

(* The flags: the end was seen only with a short block, an error is a      *)
(* cancel or an inconsistency, and with either nothing more is written.    *)
FlagsCounted ==
  /\ eof => filesize # Unknown
  /\ filesize < offset
  /\ err <=> userAbort \/ ~Consistent
  /\ pc \in {"loop", "drain"} /\ (userAbort \/ ~Consistent) => ret = 0

CopyInv ==
  /\ QueueInv
  /\ NoHole
  /\ InLoop => EntriesCounted /\ FileIsPopped /\ FlagsCounted
  /\ pc \in {"close", "closing", "done"} /\ ret = 1 => EndSeen

(* Filling the window adds entries that wait for an answer. *)
LEMMA DownloadQueueCopy ==
  ASSUME TypeOK, DownloadQueue, UNCHANGED <<head, file, eof, filesize, furthestdata>>,
         EntriesCounted, FileIsPopped, filesize < offset
  PROVE  EntriesCounted' /\ FileIsPopped' /\ filesize' < offset'
<1>1. /\ offset' \in Nat /\ offset <= offset' /\ head \in Nat /\ offset \in Nat
      /\ head <= offset
      /\ \A b \in head .. (offset - 1) : rr'[b] = rr[b]
      /\ \A b \in offset .. (offset' - 1) : rr'[b] = Pending
  BY DownloadQueueType DEF TypeOK
<1>2. Pending.complete = 0
  BY DEF Pending
<1>3. ASSUME NEW b \in Blocks'
      PROVE  \/ b \in Blocks /\ rr'[b] = rr[b]
             \/ rr'[b] = Pending
  BY <1>1, <1>3, IntervalSplit DEF Blocks
<1>4. EntriesCounted'
  BY <1>2, <1>3 DEF EntriesCounted
<1>5. filesize' < offset'
  BY <1>1 DEF TypeOK, Unknown
<1>. QED BY <1>4, <1>5 DEF FileIsPopped, AllFull

LEMMA ReceiveDataCopy ==
  ASSUME CopyInv, NEW b \in Blocks, NEW n \in -1 .. BlockLen, ReceiveData(b, n)
  PROVE  EntriesCounted' /\ FileIsPopped' /\ FlagsCounted'
<1>0. EntriesCounted /\ FileIsPopped /\ FlagsCounted /\ TypeOK
  BY DEF CopyInv, InLoop, ReceiveData, QueueInv
<1>1. /\ head \in Nat /\ offset \in Nat /\ furthestdata \in Nat
      /\ filesize \in Nat \cup {-1} /\ b \in Nat /\ b >= head /\ b < offset
      /\ BlockLen \in Nat \ {0} /\ Len(file) \in Nat
  BY <1>0, DownloadAssumption DEF TypeOK, Blocks, Unknown
<1>2. /\ head' = head /\ offset' = offset /\ file' = file /\ userAbort' = userAbort
      /\ rr' = [rr EXCEPT ![b] = [complete |-> 1, retlen |-> n]]
      /\ furthestdata' = IF n > 0 /\ furthestdata < b THEN b ELSE furthestdata
      /\ filesize' = IF n < BlockLen /\ (filesize = -1 \/ filesize > b)
                     THEN b ELSE filesize
      /\ eof' = (eof \/ n <= 0)
      /\ err' = (err \/ (filesize' # -1 /\ furthestdata' > filesize'))
      /\ ret' = IF (filesize' # -1 /\ furthestdata' > filesize') \/ userAbort THEN 0 ELSE 1
  BY DEF ReceiveData, Unknown
<1>3. EntriesCounted'
  <2> SUFFICES ASSUME NEW c \in Blocks
      PROVE  /\ rr'[c].complete # -1
             /\ rr'[c].complete = 1 /\ rr'[c].retlen > 0 => c <= furthestdata'
             /\ rr'[c].complete = 1 /\ rr'[c].retlen < BlockLen =>
                  filesize' # Unknown /\ filesize' <= c
    BY <1>2 DEF EntriesCounted, Blocks
  <2>1. c \in Nat
    BY <1>1 DEF Blocks
  <2>2. CASE c = b
    <3>1. rr'[c].complete = 1 /\ rr'[c].retlen = n
      BY <1>0, <1>2, <2>2 DEF TypeOK
    <3>. QED BY <1>1, <1>2, <2>2, <3>1 DEF Unknown
  <2>3. CASE c # b
    <3>1. rr'[c] = rr[c]
      BY <1>0, <1>2, <2>3 DEF TypeOK
    <3>2. /\ rr[c].complete # -1
          /\ rr[c].complete = 1 /\ rr[c].retlen > 0 => c <= furthestdata
          /\ rr[c].complete = 1 /\ rr[c].retlen < BlockLen =>
               filesize # -1 /\ filesize <= c
      BY <1>0 DEF EntriesCounted, Unknown
    <3>3. furthestdata <= furthestdata' /\ furthestdata' \in Nat
      BY <1>1, <1>2
    <3>4. filesize # -1 => filesize' # -1 /\ filesize' <= filesize /\ filesize' \in Nat
      BY <1>1, <1>2
    <3>. QED BY <1>1, <2>1, <3>1, <3>2, <3>3, <3>4 DEF Unknown
  <2>. QED BY <2>2, <2>3
<1>4. FileIsPopped'
  <2>1. /\ Len(file) <= head
        /\ filesize = -1 \/ filesize >= head => Len(file) = head /\ AllFull
        /\ filesize # -1 /\ filesize < head => Len(file) >= filesize
    BY <1>0 DEF FileIsPopped, Unknown
  <2>2. AllFull' <=> AllFull
    BY <1>2 DEF AllFull
  <2>3. filesize' = filesize \/ (filesize' = b /\ (filesize = -1 \/ filesize > b))
    BY <1>2
  <2>. QED BY <1>1, <1>2, <2>1, <2>2, <2>3 DEF FileIsPopped, Unknown
<1>5. FlagsCounted'
  <2>1. /\ eof => filesize # -1
        /\ filesize < offset
        /\ err <=> userAbort \/ ~Consistent
    BY <1>0 DEF FlagsCounted, Unknown
  <2>2. Consistent <=> filesize = -1 \/ furthestdata <= filesize
    BY DEF Consistent, Unknown
  <2>3. Consistent' <=> filesize' = -1 \/ furthestdata' <= filesize'
    BY DEF Consistent, Unknown
  <2>4. eof' => filesize' # -1
    <3>1. CASE eof
      BY <1>1, <1>2, <2>1, <3>1
    <3>2. CASE n <= 0
      BY <1>1, <1>2, <3>2
    <3>. QED BY <1>2, <3>1, <3>2
  <2>5. filesize' < offset'
    BY <1>1, <1>2, <2>1
  <2>6. furthestdata' \in Nat /\ filesize' \in Nat \cup {-1} /\ furthestdata' >= furthestdata
    BY <1>1, <1>2
  <2>7. ~Consistent => ~Consistent'
    BY <1>1, <1>2, <2>2, <2>3
  <2>0. ~Consistent' <=> filesize' # -1 /\ furthestdata' > filesize'
    BY <2>3, <2>6
  <2>8. err' <=> userAbort' \/ ~Consistent'
    BY <1>2, <2>0, <2>1, <2>7
  <2>9. userAbort' \/ ~Consistent' => ret' = 0
    BY <1>2, <2>0
  <2>. QED BY <2>4, <2>5, <2>8, <2>9 DEF FlagsCounted, Unknown
<1>. QED BY <1>3, <1>4, <1>5

LEMMA WriteBlockCopy ==
  ASSUME CopyInv, WriteBlock
  PROVE  NoHole' /\ EntriesCounted' /\ FileIsPopped' /\ FlagsCounted'
<1>0. EntriesCounted /\ FileIsPopped /\ FlagsCounted /\ TypeOK /\ NoHole
  BY DEF CopyInv, InLoop, WriteBlock, HeadReady, QueueInv
<1>1. /\ head \in Nat /\ offset \in Nat /\ furthestdata \in Nat
      /\ filesize \in Nat \cup {-1} /\ head < offset
      /\ BlockLen \in Nat \ {0} /\ Len(file) \in Nat /\ file \in Seq(Piece)
  BY <1>0, PopHeadType, DownloadAssumption
  DEF TypeOK, Blocks, Unknown, WriteBlock
<1>2. /\ head' = head + 1
      /\ \A b \in Blocks' : rr'[b] = rr[b] /\ b \in Blocks
      /\ head \in Blocks
      /\ UNCHANGED <<pc, offset, eof, err, filesize, furthestdata, ret, userAbort>>
  BY <1>0, PopHeadType DEF WriteBlock
<1>3. Consistent
  BY <1>0 DEF FlagsCounted, WriteBlock, HeadReady
<1>4. rr[head].complete = 1 /\ rr[head].retlen \in -1 .. BlockLen
  BY <1>0, <1>2 DEF WriteBlock, TypeOK
<1>5. /\ rr[head].retlen > 0 => head <= furthestdata
      /\ rr[head].retlen < BlockLen => filesize # -1 /\ filesize <= head
  BY <1>0, <1>2, <1>4 DEF EntriesCounted, Unknown
<1>6. /\ Len(file) <= head
      /\ filesize = -1 \/ filesize >= head => Len(file) = head /\ AllFull
      /\ filesize # -1 /\ filesize < head => Len(file) >= filesize
  BY <1>0 DEF FileIsPopped, Unknown
<1>7. EntriesCounted'
  BY <1>0, <1>2 DEF EntriesCounted
<1>8. FlagsCounted'
  BY <1>0, <1>2 DEF FlagsCounted, Consistent
<1>9. NoHole' /\ FileIsPopped'
  <2>1. CASE rr[head].retlen > 0
    <3> DEFINE piece == [block |-> head, len |-> rr[head].retlen]
    <3>1. filesize = -1 \/ filesize >= head
      BY <1>1, <1>3, <1>5, <2>1 DEF Consistent, Unknown
    <3>2. Len(file) = head /\ AllFull
      BY <1>6, <3>1
    <3>3. piece \in Piece
      BY <1>1, <1>4, <2>1 DEF Piece
    <3>4. file' = Append(file, piece)
      BY <2>1 DEF WriteBlock
    <3>5. /\ Len(file') = head + 1
          /\ \A i \in 1 .. head : file'[i] = file[i]
          /\ file'[head + 1] = piece
      BY <1>1, <3>2, <3>3, <3>4, AppendProperties
    <3>6. NoHole'
      <4> SUFFICES ASSUME NEW i \in 1 .. (head + 1)
                   PROVE  /\ file'[i].block = i - 1
                          /\ i < head + 1 => file'[i].len = BlockLen
        BY <3>5 DEF NoHole
      <4>1. CASE i = head + 1
        BY <1>1, <3>5, <4>1
      <4>2. CASE i # head + 1
        <5>1. i \in 1 .. head
          BY <1>1, <4>2
        <5>. QED BY <1>0, <3>2, <3>5, <5>1 DEF NoHole, AllFull
      <4>. QED BY <4>1, <4>2
    <3>7. filesize = -1 \/ filesize >= head + 1 => rr[head].retlen = BlockLen
      BY <1>1, <1>4, <1>5
    <3>8. filesize = -1 \/ filesize >= head + 1 => AllFull'
      <4> SUFFICES ASSUME filesize = -1 \/ filesize >= head + 1, NEW i \in 1 .. (head + 1)
                   PROVE  file'[i].len = BlockLen
        BY <3>5 DEF AllFull
      <4>1. CASE i = head + 1
        BY <3>5, <3>7, <4>1
      <4>2. CASE i # head + 1
        <5>1. i \in 1 .. head
          BY <1>1, <4>2
        <5>. QED BY <3>2, <3>5, <5>1 DEF AllFull
      <4>. QED BY <4>1, <4>2
    <3>9. filesize # -1 /\ filesize < head + 1 => head + 1 >= filesize
      BY <1>1
    <3>. QED BY <1>1, <1>2, <3>5, <3>6, <3>8, <3>9 DEF FileIsPopped, Unknown
  <2>2. CASE ~(rr[head].retlen > 0)
    <3>1. file' = file
      BY <2>2 DEF WriteBlock
    <3>2. filesize # -1 /\ filesize <= head
      BY <1>1, <1>4, <1>5, <2>2
    <3>3. NoHole'
      BY <1>0, <3>1 DEF NoHole
    <3>4. Len(file) >= filesize
      BY <1>1, <1>6, <3>2
    <3>. QED BY <1>1, <1>2, <1>6, <3>1, <3>2, <3>3, <3>4 DEF FileIsPopped, Unknown
  <2>. QED BY <2>1, <2>2
<1>. QED BY <1>7, <1>8, <1>9

LEMMA InitCopyInv == Init => CopyInv
BY InitQueueInv DEF Init, CopyInv, NoHole, InLoop

LEMMA NextCopyInv == NoErrors /\ CopyInv /\ [Next]_vars => CopyInv'
<1> SUFFICES ASSUME NoErrors, CopyInv, [Next]_vars
             PROVE  /\ NoHole'
                    /\ InLoop' => EntriesCounted' /\ FileIsPopped' /\ FlagsCounted'
                    /\ pc' \in {"close", "closing", "done"} /\ ret' = 1 => EndSeen'
  BY NextQueueInv DEF CopyInv
<1> DEFINE Goal == /\ NoHole'
                   /\ InLoop' => EntriesCounted' /\ FileIsPopped' /\ FlagsCounted'
                   /\ pc' \in {"close", "closing", "done"} /\ ret' = 1 => EndSeen'
<1>0. TypeOK /\ QueueInv /\ NoHole /\ "error" \notin faults /\ "disk" \notin faults
  BY DEF CopyInv, QueueInv, NoErrors
<1>1. CASE OpenRemoteFails \/ OpenLocalFails
  BY <1>0, <1>1 DEF OpenRemoteFails, OpenLocalFails, InLoop, NoHole
<1>2. CASE StartTransfer
  <2>1. /\ head = 0 /\ offset = 0 /\ file = << >> /\ ~eof /\ ~err /\ ~userAbort
        /\ filesize = Unknown /\ furthestdata = 0 /\ Blocks = 0 .. -1
    BY <1>0, <1>2 DEF StartTransfer, QueueInv, FreshAtOpen, Blocks
  <2>2. EntriesCounted /\ FileIsPopped /\ filesize < offset
    BY <2>1 DEF EntriesCounted, FileIsPopped, AllFull, Unknown
  <2>3. /\ DownloadQueue /\ pc' = "loop"
        /\ UNCHANGED <<head, file, eof, err, filesize, furthestdata, userAbort>>
    BY <1>2 DEF StartTransfer
  <2>4. EntriesCounted' /\ FileIsPopped' /\ filesize' < offset'
    BY <1>0, <2>2, <2>3, DownloadQueueCopy
  <2>5. FlagsCounted'
    BY <2>1, <2>3, <2>4 DEF FlagsCounted, Consistent
  <2>. QED BY <1>0, <2>3, <2>4, <2>5 DEF NoHole
<1>3. ASSUME NEW cancel \in BOOLEAN, Iterate(cancel) PROVE Goal
  <2>1. EntriesCounted /\ FileIsPopped /\ FlagsCounted
    BY <1>3 DEF Iterate, CopyInv, InLoop
  <2>2. /\ UNCHANGED <<head, eof, filesize, furthestdata, file>>
        /\ err' = (err \/ cancel) /\ userAbort' = (userAbort \/ cancel)
        /\ pc' \in {"recv", "close", "crashed"}
        /\ pc' = "close" => ret' = 0
    BY <1>3 DEF Iterate
  <2>3. NoHole' /\ Consistent' = Consistent
    BY <1>0, <2>2 DEF NoHole, Consistent
  <2>4. CASE userAbort'
    <3>1. UNCHANGED <<offset, rr>>
      BY <1>3, <2>4 DEF Iterate
    <3>2. EntriesCounted' /\ FileIsPopped' /\ FlagsCounted'
      BY <2>1, <2>2, <2>3, <3>1
      DEF EntriesCounted, FileIsPopped, FlagsCounted, AllFull, Blocks
    <3>. QED BY <2>2, <2>3, <3>2
  <2>5. CASE ~userAbort'
    <3>1. DownloadQueue
      BY <1>3, <2>5 DEF Iterate
    <3>2. EntriesCounted' /\ FileIsPopped' /\ filesize' < offset'
      BY <1>0, <2>1, <2>2, <3>1, DownloadQueueCopy DEF FlagsCounted
    <3>3. pc' = "recv"
      BY <1>3, <2>5 DEF Iterate
    <3>4. FlagsCounted'
      BY <2>1, <2>2, <2>3, <3>2, <3>3 DEF FlagsCounted
    <3>. QED BY <2>3, <3>2, <3>3, <3>4
  <2>. QED BY <2>4, <2>5
<1>4. ASSUME NEW b \in Blocks, NEW n \in -1 .. BlockLen, ReceiveData(b, n) PROVE Goal
  <2>1. EntriesCounted' /\ FileIsPopped' /\ FlagsCounted'
    BY <1>4, ReceiveDataCopy
  <2>. QED BY <1>0, <1>4, <2>1 DEF ReceiveData, NoHole
<1>5. ASSUME NEW b \in Blocks, ReceiveError(b) PROVE FALSE
  BY <1>0, <1>5 DEF ReceiveError
<1>6. CASE ReceiveNothing
  BY <1>0, <1>6 DEF ReceiveNothing, xfer, CopyInv, InLoop, NoHole, EntriesCounted,
     FileIsPopped, FlagsCounted, Consistent, AllFull, Blocks
<1>7. CASE WriteBlock
  <2>1. pc' = "drain"
    BY <1>7 DEF WriteBlock, HeadReady
  <2>. QED BY <1>7, <2>1, WriteBlockCopy
<1>8. ASSUME NEW k \in 0 .. (BlockLen - 1), WriteFails(k) PROVE FALSE
  BY <1>0, <1>8 DEF WriteFails
<1>9. CASE SkipFailed
  <2>1. head \in Blocks /\ rr[head].complete = -1
    BY <1>0, <1>9, PopHeadType DEF SkipFailed
  <2>. QED BY <1>9, <2>1 DEF SkipFailed, HeadReady, CopyInv, InLoop, EntriesCounted
<1>10. CASE EndDrain
  BY <1>0, <1>10 DEF EndDrain, xfer, CopyInv, InLoop, NoHole, EntriesCounted,
     FileIsPopped, FlagsCounted, Consistent, AllFull, Blocks
<1>11. CASE LeaveLoop
  <2>1. FileIsPopped /\ FlagsCounted /\ pc' = "close" /\ UNCHANGED <<file, filesize, ret>>
    BY <1>11 DEF LeaveLoop, xfer, CopyInv, InLoop
  <2>2. ASSUME ret = 1 PROVE EndSeen
    <3>1. ~userAbort /\ Consistent
      BY <1>11, <2>1, <2>2 DEF LeaveLoop, FlagsCounted
    <3>2. eof /\ head = offset
      BY <1>11, <2>1, <3>1 DEF LeaveLoop, XferDone, QueueEmpty, FlagsCounted
    <3>3. filesize # Unknown /\ filesize < head
      BY <2>1, <3>2 DEF FlagsCounted
    <3>. QED BY <2>1, <3>3 DEF FileIsPopped, EndSeen
  <2>. QED BY <1>0, <2>1, <2>2 DEF NoHole, EndSeen, InLoop
<1>12. CASE CloseHandle
  BY <1>0, <1>12 DEF CloseHandle, CopyInv, InLoop, NoHole, EndSeen
<1>13. ASSUME NEW r \in requests, CloseReply(r) PROVE Goal
  BY <1>0, <1>13 DEF CloseReply, xfer, CopyInv, InLoop, NoHole, EndSeen
<1>14. CASE CloseNoReply
  BY <1>0, <1>14 DEF CloseNoReply, xfer, CopyInv, InLoop, NoHole, EndSeen
<1>15. CASE LoseConnection \/ UNCHANGED vars
  BY <1>0, <1>15 DEF LoseConnection, vars, xfer, CopyInv, InLoop, NoHole, EntriesCounted,
     FileIsPopped, FlagsCounted, Consistent, AllFull, Blocks, EndSeen
<1>. QED
  BY <1>1, <1>2, <1>3, <1>4, <1>5, <1>6, <1>7, <1>8, <1>9, <1>10, <1>11, <1>12,
     <1>13, <1>14, <1>15
  DEF Next, Client, Open, Receive, Drain, Close, Finished

(* Without read errors and failing writes the local file never has a hole, *)
(* whatever the server answers, in whatever order.                         *)
THEOREM LocalFileHasNoHole == Spec => []NoHoleUnlessFailed
<1> DEFINE Inv == NoErrors => CopyInv
<1>1. Init => Inv
  BY InitCopyInv
<1>2. Inv /\ [Next]_vars => Inv'
  BY FaultsFixed, NextCopyInv DEF NoErrors
<1>3. Inv => NoHoleUnlessFailed
  BY DEF CopyInv, NoHoleUnlessFailed
<1>. QED BY <1>1, <1>2, <1>3, PTL DEF Spec

-----------------------------------------------------------------------------
(* Against a remote file that does not change, the transfer keeps the      *)
(* promise of FileCopy.                                                    *)

(* The file is what was taken off the queue, cut at the remote file's end, *)
(* and the end is only seen behind it.                                     *)
MirrorsQueue ==
  /\ Len(file) = IF head <= RemoteLen THEN head ELSE RemoteLen
  /\ \A b \in Blocks : rr[b].complete = 1 => rr[b].retlen = Answer(b)
  /\ eof => offset > RemoteLen

MirrorInv ==
  /\ CopyInv
  /\ Len(file) <= RemoteLen
  /\ \A i \in 1 .. Len(file) : file[i] = RemoteFile[i]
  /\ InLoop => MirrorsQueue
  /\ pc \in {"close", "closing", "done"} /\ ret = 1 => Len(file) = RemoteLen

LEMMA RemoteFileFacts ==
  /\ RemoteLen \in Nat
  /\ RemoteFile \in Seq(Piece)
  /\ Len(RemoteFile) = RemoteLen
  /\ \A b \in Nat : Answer(b) > 0 <=> b < RemoteLen
  /\ \A b \in Nat : b < RemoteLen =>
       RemoteFile[b + 1] = [block |-> b, len |-> Answer(b)]
<1> USE DownloadAssumption
<1>1. RemoteLen \in Nat
  BY DEF RemoteLen
<1>2. \A b \in Nat : Answer(b) > 0 <=> b < RemoteLen
  BY DEF Answer, RemoteLen
<1>3. \A b \in Nat : Answer(b) \in -1 .. BlockLen
  BY DEF Answer
<1>4. ASSUME NEW i \in 1 .. RemoteLen
      PROVE  [block |-> i - 1, len |-> Answer(i - 1)] \in Piece
  <2>1. i - 1 \in Nat /\ i - 1 < RemoteLen
    BY <1>1
  <2>2. Answer(i - 1) \in 1 .. BlockLen
    BY <1>2, <1>3, <2>1
  <2>. QED BY <2>1, <2>2 DEF Piece
<1>5. RemoteFile \in [1 .. RemoteLen -> Piece]
  BY <1>4 DEF RemoteFile
<1>6. RemoteFile \in Seq(Piece) /\ Len(RemoteFile) = RemoteLen
  BY <1>1, <1>5
<1>7. ASSUME NEW b \in Nat, b < RemoteLen
      PROVE  RemoteFile[b + 1] = [block |-> b, len |-> Answer(b)]
  <2>1. b + 1 \in 1 .. RemoteLen /\ (b + 1) - 1 = b
    BY <1>1, <1>7
  <2>. QED BY <2>1 DEF RemoteFile
<1>. QED BY <1>1, <1>2, <1>6, <1>7

(* Writing the head of the queue copies the next piece of the remote file, *)
(* or, behind its end, nothing.                                            *)
LEMMA WriteBlockMirrors ==
  ASSUME MirrorInv, WriteBlock
  PROVE  /\ \/ /\ Len(file) < RemoteLen
               /\ file' = Append(file, RemoteFile[Len(file) + 1])
            \/ file' = file
         /\ Len(file') <= RemoteLen
         /\ \A i \in 1 .. Len(file') : file'[i] = RemoteFile[i]
         /\ MirrorsQueue'
<1>0. MirrorsQueue /\ TypeOK
  BY DEF MirrorInv, CopyInv, QueueInv, InLoop, WriteBlock, HeadReady
<1>1. /\ head \in Nat /\ head \in Blocks /\ head' = head + 1
      /\ \A b \in Blocks' : rr'[b] = rr[b] /\ b \in Blocks
      /\ UNCHANGED <<eof, offset>>
      /\ file \in Seq(Piece) /\ Len(file) \in Nat /\ RemoteLen \in Nat
  BY <1>0, PopHeadType, RemoteFileFacts DEF TypeOK, WriteBlock
<1>2. rr[head].retlen = Answer(head)
  BY <1>0, <1>1 DEF MirrorsQueue, WriteBlock
<1>3. Len(file) = IF head <= RemoteLen THEN head ELSE RemoteLen
  BY <1>0 DEF MirrorsQueue
<1>4. /\ \A b \in Blocks' : rr'[b].complete = 1 => rr'[b].retlen = Answer(b)
      /\ eof' => offset' > RemoteLen
  BY <1>0, <1>1 DEF MirrorsQueue
<1>5. CASE head < RemoteLen
  <2>1. /\ Answer(head) > 0 /\ RemoteFile[head + 1] \in Piece
        /\ RemoteFile[head + 1] = [block |-> head, len |-> Answer(head)]
    BY <1>1, <1>5, RemoteFileFacts
  <2>2. Len(file) = head /\ file' = Append(file, RemoteFile[head + 1])
    BY <1>1, <1>2, <1>3, <1>5, <2>1 DEF WriteBlock
  <2>3. /\ Len(file') = head + 1
        /\ \A i \in 1 .. head : file'[i] = file[i]
        /\ file'[head + 1] = RemoteFile[head + 1]
    BY <1>1, <2>1, <2>2, AppendProperties
  <2>4. ASSUME NEW i \in 1 .. (head + 1) PROVE file'[i] = RemoteFile[i]
    <3>1. i \in 1 .. head \/ i = head + 1
      BY <1>1
    <3>. QED BY <2>2, <2>3, <3>1 DEF MirrorInv
  <2>. QED BY <1>1, <1>4, <1>5, <2>2, <2>3, <2>4 DEF MirrorsQueue
<1>6. CASE ~(head < RemoteLen)
  <2>1. ~(Answer(head) > 0)
    BY <1>1, <1>6, RemoteFileFacts
  <2>2. file' = file
    BY <1>2, <2>1 DEF WriteBlock
  <2>3. Len(file) = RemoteLen
    BY <1>1, <1>3, <1>6
  <2>. QED BY <1>1, <1>4, <1>6, <2>2, <2>3 DEF MirrorsQueue, MirrorInv
<1>. QED BY <1>5, <1>6

LEMMA ReceiveDataMirrors ==
  ASSUME Stable, MirrorInv, NEW b \in Blocks, NEW n \in -1 .. BlockLen, ReceiveData(b, n)
  PROVE  MirrorsQueue'
<1>0. MirrorsQueue /\ TypeOK
  BY DEF MirrorInv, CopyInv, QueueInv, InLoop, ReceiveData
<1>1. n = Answer(b)
  BY DEF ReceiveData, Answers, Stable
<1>2. /\ UNCHANGED <<head, offset, file>>
      /\ rr' = [rr EXCEPT ![b] = [complete |-> 1, retlen |-> n]]
      /\ eof' = (eof \/ n <= 0)
  BY DEF ReceiveData
<1>3. \A c \in Blocks' : rr'[c].complete = 1 => rr'[c].retlen = Answer(c)
  BY <1>0, <1>1, <1>2 DEF MirrorsQueue, TypeOK, Blocks
<1>4. n <= 0 => offset > RemoteLen
  <2>1. b \in Nat /\ b < offset /\ offset \in Nat /\ RemoteLen \in Nat /\ n \in Int
    BY <1>0, RemoteFileFacts DEF Blocks, TypeOK
  <2>2. n <= 0 => ~(b < RemoteLen)
    BY <1>1, <2>1, RemoteFileFacts
  <2>. QED BY <2>1, <2>2
<1>. QED BY <1>0, <1>2, <1>3, <1>4 DEF MirrorsQueue

LEMMA DownloadQueueMirrors ==
  ASSUME TypeOK, MirrorsQueue, DownloadQueue, UNCHANGED <<head, file, eof>>
  PROVE  MirrorsQueue'
<1>1. /\ offset' \in Nat /\ offset <= offset' /\ head \in Nat /\ offset \in Nat
      /\ head <= offset /\ RemoteLen \in Nat
      /\ \A b \in head .. (offset - 1) : rr'[b] = rr[b]
      /\ \A b \in offset .. (offset' - 1) : rr'[b] = Pending
  BY DownloadQueueType, RemoteFileFacts DEF TypeOK
<1>2. Pending.complete = 0
  BY DEF Pending
<1>3. ASSUME NEW b \in Blocks'
      PROVE  \/ b \in Blocks /\ rr'[b] = rr[b]
             \/ rr'[b] = Pending
  BY <1>1, <1>3, IntervalSplit DEF Blocks
<1>4. eof' => offset' > RemoteLen
  BY <1>1 DEF MirrorsQueue
<1>. QED BY <1>2, <1>3, <1>4 DEF MirrorsQueue

LEMMA InitMirrorInv == Init => MirrorInv
BY InitCopyInv, RemoteFileFacts DEF Init, MirrorInv, InLoop

LEMMA NextMirrorInv == Stable /\ MirrorInv /\ [Next]_vars => MirrorInv'
<1> SUFFICES ASSUME Stable, MirrorInv, [Next]_vars
             PROVE  /\ Len(file') <= RemoteLen
                    /\ \A i \in 1 .. Len(file') : file'[i] = RemoteFile[i]
                    /\ InLoop' => MirrorsQueue'
                    /\ pc' \in {"close", "closing", "done"} /\ ret' = 1 => Len(file') = RemoteLen
  BY NextCopyInv DEF MirrorInv, Stable
<1> DEFINE Goal == /\ Len(file') <= RemoteLen
                   /\ \A i \in 1 .. Len(file') : file'[i] = RemoteFile[i]
                   /\ InLoop' => MirrorsQueue'
                   /\ pc' \in {"close", "closing", "done"} /\ ret' = 1 => Len(file') = RemoteLen
<1>0. /\ TypeOK /\ CopyInv /\ "error" \notin faults /\ "disk" \notin faults
      /\ Len(file) <= RemoteLen /\ \A i \in 1 .. Len(file) : file[i] = RemoteFile[i]
  BY DEF MirrorInv, CopyInv, QueueInv, NoErrors, Stable
<1>1. CASE OpenRemoteFails \/ OpenLocalFails
  BY <1>0, <1>1 DEF OpenRemoteFails, OpenLocalFails, InLoop
<1>2. CASE StartTransfer
  <2>1. head = 0 /\ offset = 0 /\ file = << >> /\ ~eof /\ Blocks = 0 .. -1
    BY <1>0, <1>2 DEF StartTransfer, CopyInv, QueueInv, FreshAtOpen, Blocks
  <2>2. MirrorsQueue
    BY <2>1, RemoteFileFacts DEF MirrorsQueue
  <2>3. /\ DownloadQueue /\ pc' = "loop" /\ UNCHANGED <<head, file, eof>>
    BY <1>2 DEF StartTransfer
  <2>. QED BY <1>0, <2>2, <2>3, DownloadQueueMirrors
<1>3. ASSUME NEW cancel \in BOOLEAN, Iterate(cancel) PROVE Goal
  <2>1. MirrorsQueue /\ UNCHANGED <<head, file, eof>>
    BY <1>3 DEF Iterate, MirrorInv, InLoop
  <2>2. CASE userAbort'
    BY <1>0, <1>3, <2>1, <2>2 DEF Iterate, MirrorsQueue, Blocks
  <2>3. CASE ~userAbort'
    BY <1>0, <1>3, <2>1, <2>3, DownloadQueueMirrors DEF Iterate
  <2>. QED BY <2>2, <2>3
<1>4. ASSUME NEW b \in Blocks, NEW n \in -1 .. BlockLen, ReceiveData(b, n) PROVE Goal
  <2>1. MirrorsQueue'
    BY <1>4, ReceiveDataMirrors
  <2>. QED BY <1>0, <1>4, <2>1 DEF ReceiveData
<1>5. ASSUME NEW b \in Blocks, ReceiveError(b) PROVE FALSE
  BY <1>0, <1>5 DEF ReceiveError
<1>6. CASE ReceiveNothing
  BY <1>0, <1>6 DEF ReceiveNothing, xfer, MirrorInv, InLoop, MirrorsQueue, Blocks
<1>7. CASE WriteBlock
  <2>1. pc' = "drain"
    BY <1>7 DEF WriteBlock, HeadReady
  <2>. QED BY <1>7, <2>1, WriteBlockMirrors
<1>8. ASSUME NEW k \in 0 .. (BlockLen - 1), WriteFails(k) PROVE FALSE
  BY <1>0, <1>8 DEF WriteFails
<1>9. CASE SkipFailed
  <2>1. head \in Blocks /\ rr[head].complete = -1
    BY <1>0, <1>9, PopHeadType DEF SkipFailed
  <2>. QED BY <1>0, <1>9, <2>1 DEF SkipFailed, HeadReady, CopyInv, InLoop, EntriesCounted
<1>10. CASE EndDrain
  BY <1>0, <1>10 DEF EndDrain, xfer, MirrorInv, InLoop, MirrorsQueue, Blocks
<1>11. CASE LeaveLoop
  <2>1. FlagsCounted /\ MirrorsQueue /\ pc' = "close" /\ UNCHANGED <<file, ret>>
    BY <1>11 DEF LeaveLoop, xfer, MirrorInv, CopyInv, InLoop
  <2>2. ASSUME ret = 1 PROVE Len(file) = RemoteLen
    <3>1. ~userAbort /\ Consistent
      BY <1>11, <2>1, <2>2 DEF LeaveLoop, FlagsCounted
    <3>2. eof /\ head = offset
      BY <1>11, <2>1, <3>1 DEF LeaveLoop, XferDone, QueueEmpty, FlagsCounted
    <3>. QED BY <1>0, <2>1, <3>2, RemoteFileFacts DEF MirrorsQueue, TypeOK
  <2>. QED BY <1>0, <2>1, <2>2 DEF InLoop
<1>12. CASE CloseHandle
  BY <1>0, <1>12 DEF CloseHandle, MirrorInv, InLoop
<1>13. ASSUME NEW r \in requests, CloseReply(r) PROVE Goal
  BY <1>0, <1>13 DEF CloseReply, xfer, MirrorInv, InLoop
<1>14. CASE CloseNoReply
  BY <1>0, <1>14 DEF CloseNoReply, xfer, MirrorInv, InLoop
<1>15. CASE LoseConnection \/ UNCHANGED vars
  BY <1>0, <1>15 DEF LoseConnection, vars, xfer, MirrorInv, InLoop, MirrorsQueue, Blocks
<1>. QED
  BY <1>1, <1>2, <1>3, <1>4, <1>5, <1>6, <1>7, <1>8, <1>9, <1>10, <1>11, <1>12,
     <1>13, <1>14, <1>15
  DEF Next, Client, Open, Receive, Drain, Close, Finished

LEMMA MirrorIsWhole == MirrorInv /\ Len(file) = RemoteLen => file = RemoteFile
BY RemoteFileFacts, SeqEqual DEF MirrorInv, CopyInv, QueueInv, TypeOK

(* A transfer that reports success has seen the end of the remote file and *)
(* has written every block before it; if the remote file does not change,  *)
(* the local file is a copy of it.                                         *)
THEOREM SuccessMeansWhole == Spec => []SuccessIsWholeUnlessFailed
<1> DEFINE Inv == (NoErrors => CopyInv) /\ (Stable => MirrorInv)
<1>1. Init => Inv
  BY InitCopyInv, InitMirrorInv
<1>2. Inv /\ [Next]_vars => Inv'
  BY FaultsFixed, NextCopyInv, NextMirrorInv DEF NoErrors, Stable
<1>3. Inv => SuccessIsWholeUnlessFailed
  <2> SUFFICES ASSUME Inv, NoErrors PROVE SuccessIsWhole
    BY DEF SuccessIsWholeUnlessFailed
  <2>1. CASE "short" \in faults
    BY <2>1 DEF CopyInv, SuccessIsWhole
  <2>2. CASE "short" \notin faults
    BY <2>2, MirrorIsWhole DEF Stable, MirrorInv, CopyInv, SuccessIsWhole
  <2>. QED BY <2>1, <2>2
<1>. QED BY <1>1, <1>2, <1>3, PTL DEF Spec

(* Every step of the transfer is a step of FileCopy or leaves the copy and *)
(* the outcome alone.                                                      *)
LEMMA NextCopies == Stable /\ MirrorInv /\ [Next]_vars => [Copy!Next]_(Copy!vars)
<1> SUFFICES ASSUME Stable, MirrorInv, [Next]_vars
             PROVE  Copy!Next \/ UNCHANGED Copy!vars
  OBVIOUS
<1> DEFINE outcome == IF pc # "done" THEN "running"
                      ELSE IF ret = 1 THEN "success" ELSE "failure"
<1>0. "error" \notin faults /\ "disk" \notin faults /\ TypeOK
  BY DEF NoErrors, Stable, MirrorInv, CopyInv, QueueInv
<1>1. ASSUME pc # "done", pc' # "done", UNCHANGED file PROVE UNCHANGED Copy!vars
  BY <1>1 DEF Copy!vars
<1>2. ASSUME pc # "done", pc' = "done", UNCHANGED file,
             ret' # 1 \/ (pc = "closing" /\ UNCHANGED ret)
      PROVE  Copy!Next
  <2>1. CASE ret' = 1
    <3>1. file = RemoteFile
      BY <1>2, <2>1, MirrorIsWhole DEF MirrorInv
    <3>. QED BY <1>2, <2>1, <3>1 DEF Copy!Next, Copy!Succeed
  <2>2. CASE ret' # 1
    BY <1>2, <2>2 DEF Copy!Next, Copy!Fail
  <2>. QED BY <2>1, <2>2
<1>3. CASE OpenRemoteFails
  BY <1>2, <1>3 DEF OpenRemoteFails
<1>4. CASE OpenLocalFails \/ StartTransfer \/ LeaveLoop \/ CloseHandle \/ EndDrain
            \/ ReceiveNothing
  BY <1>1, <1>4 DEF OpenLocalFails, StartTransfer, LeaveLoop, CloseHandle, EndDrain,
     ReceiveNothing
<1>5. ASSUME NEW cancel \in BOOLEAN, Iterate(cancel) PROVE UNCHANGED Copy!vars
  BY <1>1, <1>5 DEF Iterate
<1>6. ASSUME NEW b \in Blocks, NEW n \in -1 .. BlockLen, ReceiveData(b, n)
      PROVE  UNCHANGED Copy!vars
  BY <1>1, <1>6 DEF ReceiveData
<1>7. ASSUME NEW b \in Blocks, ReceiveError(b) PROVE FALSE
  BY <1>0, <1>7 DEF ReceiveError
<1>8. CASE WriteBlock
  <2>1. pc = "drain" /\ pc' = "drain"
    BY <1>8 DEF WriteBlock, HeadReady
  <2>2. CASE file' = file
    BY <1>1, <2>1, <2>2
  <2>3. CASE /\ Len(file) < RemoteLen
             /\ file' = Append(file, RemoteFile[Len(file) + 1])
    BY <2>1, <2>3, RemoteFileFacts DEF Copy!Next, Copy!CopyNext
  <2>. QED BY <1>8, <2>2, <2>3, WriteBlockMirrors
<1>9. ASSUME NEW k \in 0 .. (BlockLen - 1), WriteFails(k) PROVE FALSE
  BY <1>0, <1>9 DEF WriteFails
<1>10. CASE SkipFailed
  BY <1>1, <1>10 DEF SkipFailed, HeadReady
<1>11. ASSUME NEW r \in requests, CloseReply(r) PROVE Copy!Next
  BY <1>2, <1>11 DEF CloseReply
<1>12. CASE CloseNoReply
  BY <1>2, <1>12 DEF CloseNoReply
<1>13. CASE LoseConnection \/ UNCHANGED vars
  BY <1>13 DEF LoseConnection, vars, Copy!vars
<1>. QED
  BY <1>3, <1>4, <1>5, <1>6, <1>7, <1>8, <1>9, <1>10, <1>11, <1>12, <1>13
  DEF Next, Client, Open, Receive, Drain, Close, Finished

(* The download of a remote file that does not change implements FileCopy: *)
(* replies in any order, a cancel and a dropped connection included.       *)
THEOREM DownloadImplementsFileCopy == Spec /\ Stable => Copy!Spec
<1> DEFINE Inv == Stable /\ MirrorInv
<1>1. Init => Copy!Init
  BY DEF Init, Copy!Init
<1>2. Init /\ Stable => Inv
  BY InitMirrorInv
<1>3. Inv /\ [Next]_vars => Inv'
  BY FaultsFixed, NextMirrorInv DEF NoErrors, Stable
<1>4. Inv /\ [Next]_vars => [Copy!Next]_(Copy!vars)
  BY NextCopies
<1>. QED BY <1>1, <1>2, <1>3, <1>4, PTL DEF Spec, Copy!Spec

-----------------------------------------------------------------------------
(* The replies, for every window and every file: the loop waits for a      *)
(* reply only when one is due, and when the function returns the server    *)
(* owes nothing.  Both hold as long as the remote file does not change, no *)
(* read or write fails, every packet is known, and the user does not       *)
(* cancel while replies overtake each other; the connection may drop.      *)

Orderly ==
  /\ Stable /\ "junk" \notin faults
  /\ "reorder" \in faults => "abort" \notin faults

(* Short blocks lie at the end of the file, data before it. *)
WithinFile ==
  /\ furthestdata <= FullBlocks
  /\ filesize = Unknown \/ filesize >= FullBlocks

AbortInv == userAbort => "abort" \in faults

(* A server that works in order has answered everything before an answered *)
(* request.                                                                *)
AnsweredInOrder ==
  "reorder" \notin faults /\ InLoop =>
    \A b, c \in Blocks : b < c /\ rr[c].complete # 0 => rr[b].complete # 0

OwesNothing ==
  connected =>
    /\ ~disconnected
    /\ pc \in {"close", "done"} => requests = {}
    /\ pc = "closing" => requests = {CloseRequest}

(* What is left in the queue after the drain loop starts with a request    *)
(* without an answer.                                                      *)
HeadIsDue ==
  connected =>
    /\ pc = "recv" => requests # {}
    /\ pc = "drain" => ret = 1 \/ userAbort
    /\ pc = "loop" /\ ~userAbort /\ ~QueueEmpty => rr[head].complete = 0

ReplyInv ==
  /\ MirrorInv /\ WithinFile /\ AbortInv /\ AnsweredInOrder /\ OwesNothing /\ HeadIsDue

LEMMA OrderlyFaults ==
  Orderly => /\ "short" \notin faults /\ "error" \notin faults /\ "disk" \notin faults
             /\ "junk" \notin faults /\ Stable /\ NoErrors
BY DEF Orderly, Stable, NoErrors

LEMMA InitReplyInv == Init /\ Orderly => ReplyInv
<1> SUFFICES ASSUME Init, Orderly PROVE ReplyInv
  OBVIOUS
<1>1. MirrorInv
  BY InitMirrorInv, OrderlyFaults
<1>2. WithinFile
  BY DownloadAssumption DEF Init, WithinFile
<1>. QED BY <1>1, <1>2 DEF Init, ReplyInv, AbortInv, AnsweredInOrder, InLoop, OwesNothing,
            HeadIsDue

LEMMA NextWithinFile ==
  MirrorInv /\ WithinFile /\ Orderly /\ [Next]_vars => WithinFile'
<1> SUFFICES ASSUME MirrorInv, WithinFile, Orderly, [Next]_vars PROVE WithinFile'
  OBVIOUS
<1>1. ASSUME UNCHANGED <<filesize, furthestdata>> PROVE WithinFile'
  BY <1>1 DEF WithinFile
<1>2. ASSUME NEW b \in Blocks, NEW n \in -1 .. BlockLen, ReceiveData(b, n) PROVE WithinFile'
  <2>1. b \in Nat /\ n = Answer(b) /\ TypeOK
    BY <1>2, OrderlyFaults DEF ReceiveData, Answers, Blocks, MirrorInv, CopyInv, QueueInv,
       TypeOK
  <2>2. n > 0 => b <= FullBlocks
    BY <2>1, DownloadAssumption DEF Answer
  <2>3. n < BlockLen => b >= FullBlocks
    BY <2>1, DownloadAssumption DEF Answer
  <2>4. furthestdata' <= FullBlocks
    BY <1>2, <2>2 DEF ReceiveData, WithinFile
  <2>5. filesize' = Unknown \/ filesize' >= FullBlocks
    BY <1>2, <2>3 DEF ReceiveData, WithinFile
  <2>. QED BY <2>4, <2>5 DEF WithinFile
<1>. QED
  BY <1>1, <1>2 DEF Next, Client, Open, Receive, Drain, Close, OpenRemoteFails,
     OpenLocalFails, StartTransfer, Iterate, ReceiveError, ReceiveNothing, WriteBlock,
     WriteFails, SkipFailed, EndDrain, LeaveLoop, CloseHandle, CloseReply, CloseNoReply,
     LoseConnection, Finished, vars, xfer

LEMMA NextAbortInv == AbortInv /\ [Next]_vars => AbortInv'
<1> SUFFICES ASSUME AbortInv, [Next]_vars, userAbort' PROVE "abort" \in faults
  BY FaultsFixed DEF AbortInv
<1>1. CASE userAbort
  BY <1>1 DEF AbortInv
<1>2. ASSUME NEW cancel \in BOOLEAN, Iterate(cancel) PROVE "abort" \in faults
  BY <1>1, <1>2 DEF Iterate
<1>3. CASE UNCHANGED userAbort
  BY <1>1, <1>3
<1>. QED
  BY <1>2, <1>3 DEF Next, Client, Open, Receive, Drain, Close, OpenRemoteFails,
     OpenLocalFails, StartTransfer, ReceiveData, ReceiveError, ReceiveNothing, WriteBlock,
     WriteFails, SkipFailed, EndDrain, LeaveLoop, CloseHandle, CloseReply, CloseNoReply,
     LoseConnection, Finished, vars

-----------------------------------------------------------------------------
(* More requests at the end of the queue wait for an answer. *)
LEMMA DownloadQueueOrder ==
  ASSUME TypeOK, DownloadQueue, UNCHANGED head,
         \A b, c \in Blocks : b < c /\ rr[c].complete # 0 => rr[b].complete # 0
  PROVE  \A b, c \in Blocks' : b < c /\ rr'[c].complete # 0 => rr'[b].complete # 0
<1> SUFFICES ASSUME NEW b \in Blocks', NEW c \in Blocks', b < c, rr'[c].complete # 0
             PROVE  rr'[b].complete # 0
  OBVIOUS
<1>1. /\ \A d \in head .. (offset - 1) : rr'[d] = rr[d]
      /\ \A d \in offset .. (offset' - 1) : rr'[d] = Pending
  BY DownloadQueueType
<1>2. /\ head \in Nat /\ offset \in Nat /\ offset' \in Nat /\ head <= offset /\ offset <= offset'
      /\ b \in head .. (offset' - 1) /\ c \in head .. (offset' - 1)
  BY DownloadQueueType DEF Blocks, TypeOK
<1>3. c \notin offset .. (offset' - 1)
  BY <1>1 DEF Pending
<1>4. b \in head .. (offset - 1) /\ c \in head .. (offset - 1)
  <2>1. c \in head .. (offset - 1)
    BY <1>2, <1>3, IntervalSplit
  <2>2. b \in Int /\ head <= b /\ b < c
    BY <1>2
  <2>. QED BY <1>2, <2>1, <2>2
<1>. QED BY <1>1, <1>4 DEF Blocks

LEMMA NextAnsweredInOrder ==
  MirrorInv /\ AnsweredInOrder /\ Orderly /\ [Next]_vars => AnsweredInOrder'
<1> SUFFICES ASSUME MirrorInv, AnsweredInOrder, Orderly, [Next]_vars,
                    "reorder" \notin faults
             PROVE  AnsweredInOrder'
  BY FaultsFixed DEF AnsweredInOrder
<1> DEFINE Ordered == \A b, c \in Blocks : b < c /\ rr[c].complete # 0 => rr[b].complete # 0
<1>0. /\ TypeOK /\ "error" \notin faults /\ "disk" \notin faults
      /\ InLoop => requests = { b \in Blocks : rr[b].complete = 0 }
  BY OrderlyFaults DEF MirrorInv, CopyInv, QueueInv, QueueMatchesRequests, InLoop
<1>1. InLoop => Ordered
  BY DEF AnsweredInOrder
<1>2. ASSUME UNCHANGED <<head, offset, rr>>, InLoop PROVE AnsweredInOrder'
  BY <1>1, <1>2 DEF AnsweredInOrder, Blocks
<1>3. ASSUME ~InLoop' PROVE AnsweredInOrder'
  BY <1>3 DEF AnsweredInOrder
<1>4. CASE OpenRemoteFails \/ OpenLocalFails
  BY <1>3, <1>4 DEF OpenRemoteFails, OpenLocalFails, InLoop
<1>5. CASE StartTransfer
  <2>1. Blocks = {}
    BY <1>5 DEF StartTransfer, MirrorInv, CopyInv, QueueInv, FreshAtOpen, Blocks
  <2>2. Ordered'
    BY <1>0, <1>5, <2>1, DownloadQueueOrder DEF StartTransfer
  <2>. QED BY <2>2 DEF AnsweredInOrder
<1>6. ASSUME NEW cancel \in BOOLEAN, Iterate(cancel) PROVE AnsweredInOrder'
  <2>1. InLoop
    BY <1>6 DEF Iterate, InLoop
  <2>2. CASE UNCHANGED <<offset, rr>>
    BY <1>2, <1>6, <2>1, <2>2 DEF Iterate
  <2>3. CASE DownloadQueue /\ UNCHANGED head
    BY <1>0, <1>1, <2>1, <2>3, DownloadQueueOrder DEF AnsweredInOrder
  <2>. QED BY <1>6, <2>2, <2>3 DEF Iterate
<1>7. ASSUME NEW d \in Blocks, NEW n \in -1 .. BlockLen, ReceiveData(d, n)
      PROVE  AnsweredInOrder'
  <2> SUFFICES ASSUME NEW b \in Blocks, NEW c \in Blocks, b < c, rr'[c].complete # 0
               PROVE  rr'[b].complete # 0
    BY <1>7 DEF ReceiveData, AnsweredInOrder, Blocks
  <2>1. InLoop /\ d \in Nat /\ d # CloseRequest
    BY <1>0, <1>7 DEF ReceiveData, InLoop, Blocks, TypeOK, CloseRequest
  <2>2. \A q \in requests \ {CloseRequest} : d <= q
    BY <1>7, <2>1 DEF ReceiveData, MayAnswer, IsOldest
  <2>3. rr' = [rr EXCEPT ![d] = [complete |-> 1, retlen |-> n]] /\ rr \in [Blocks -> ReqType]
    BY <1>0, <1>7 DEF ReceiveData, TypeOK, ReqType
  <2>4. CASE b = d
    BY <2>3, <2>4
  <2>5. CASE c # d /\ b # d
    BY <1>1, <2>1, <2>3, <2>5
  <2>6. CASE c = d /\ b # d
    <3>1. b \in Nat /\ ~ (d <= b) /\ b # CloseRequest
      BY <1>0, <2>1, <2>6 DEF Blocks, TypeOK, CloseRequest
    <3>2. rr[b].complete # 0
      BY <1>0, <2>1, <2>2, <3>1
    <3>. QED BY <2>3, <2>6, <3>2
  <2>. QED BY <2>4, <2>5, <2>6
<1>8. ASSUME NEW b \in Blocks, ReceiveError(b) PROVE FALSE
  BY <1>0, <1>8 DEF ReceiveError
<1>9. CASE ReceiveNothing \/ EndDrain
  BY <1>2, <1>9 DEF ReceiveNothing, EndDrain, xfer, InLoop
<1>10. CASE WriteBlock \/ SkipFailed
  <2>1. InLoop /\ HeadReady /\ PopHead /\ UNCHANGED offset
    BY <1>10 DEF WriteBlock, SkipFailed, HeadReady, InLoop
  <2>2. \A b \in Blocks' : rr'[b] = rr[b] /\ b \in Blocks
    BY <1>0, <2>1, PopHeadType
  <2>. QED BY <1>1, <2>1, <2>2 DEF AnsweredInOrder
<1>11. ASSUME NEW k \in 0 .. (BlockLen - 1), WriteFails(k) PROVE FALSE
  BY <1>0, <1>11 DEF WriteFails
<1>12. CASE LeaveLoop \/ CloseHandle
  BY <1>3, <1>12 DEF LeaveLoop, CloseHandle, InLoop
<1>13. ASSUME NEW r \in requests, CloseReply(r) PROVE AnsweredInOrder'
  BY <1>3, <1>13 DEF CloseReply, InLoop
<1>14. CASE CloseNoReply
  BY <1>3, <1>14 DEF CloseNoReply, InLoop
<1>15. CASE LoseConnection \/ UNCHANGED vars
  BY <1>2, <1>3, <1>15 DEF LoseConnection, vars, xfer, InLoop
<1>. QED
  BY <1>4, <1>5, <1>6, <1>7, <1>8, <1>9, <1>10, <1>11, <1>12, <1>13, <1>14, <1>15
  DEF Next, Client, Open, Receive, Drain, Close, Finished

-----------------------------------------------------------------------------
(* The tail is answered last. *)
LEMMA TailAnsweredMeansAll ==
  ASSUME MirrorInv, AnsweredInOrder, "reorder" \notin faults, InLoop,
         ~QueueEmpty, TailComplete
  PROVE  requests = {}
<1>1. /\ TypeOK /\ requests = { b \in Blocks : rr[b].complete = 0 }
  BY DEF MirrorInv, CopyInv, QueueInv, QueueMatchesRequests, InLoop
<1>2. /\ head \in Nat /\ offset \in Nat /\ head < offset
      /\ offset - 1 \in Blocks
  BY <1>1 DEF TypeOK, QueueEmpty, Blocks
<1>3. ASSUME NEW b \in Blocks PROVE rr[b].complete # 0
  <2>1. b = offset - 1 \/ b < offset - 1
    BY <1>2 DEF Blocks
  <2>. QED BY <1>2, <2>1 DEF AnsweredInOrder, TailComplete
<1>. QED BY <1>1, <1>3

LEMMA EmptyQueueMeansNone ==
  ASSUME MirrorInv, InLoop, QueueEmpty
  PROVE  requests = {}
BY DEF MirrorInv, CopyInv, QueueInv, TypeOK, QueueMatchesRequests, InLoop, QueueEmpty, Blocks

LEMMA NextOwesNothing ==
  /\ MirrorInv /\ AbortInv /\ AnsweredInOrder /\ OwesNothing /\ Orderly /\ [Next]_vars
  => OwesNothing'
<1> SUFFICES ASSUME MirrorInv, AbortInv, AnsweredInOrder, OwesNothing, Orderly,
                    [Next]_vars, connected'
             PROVE  OwesNothing'
  BY DEF OwesNothing
<1>0. /\ "error" \notin faults /\ "disk" \notin faults /\ "junk" \notin faults
      /\ "reorder" \in faults => "abort" \notin faults
  BY OrderlyFaults DEF Orderly
<1>1. ASSUME UNCHANGED disconnected, connected,
             pc' \in {"loop", "recv", "drain", "crashed"}
      PROVE  OwesNothing'
  BY <1>1 DEF OwesNothing
<1>2. pc = "open" => requests = {}
  BY DEF MirrorInv, CopyInv, QueueInv, FreshAtOpen
<1>3. CASE OpenRemoteFails
  BY <1>2, <1>3 DEF OpenRemoteFails, OwesNothing
<1>4. CASE OpenLocalFails
  BY <1>2, <1>4 DEF OpenLocalFails, OwesNothing
<1>5. CASE StartTransfer
  BY <1>1, <1>5 DEF StartTransfer
<1>6. ASSUME NEW cancel \in BOOLEAN, Iterate(cancel) PROVE OwesNothing'
  <2>1. UNCHANGED <<disconnected, connected>> /\ pc = "loop"
    BY <1>6 DEF Iterate
  <2>2. CASE pc' = "close" /\ userAbort' /\ ~QueueEmpty /\ TailComplete /\ UNCHANGED requests
    <3>1. "reorder" \notin faults
      BY <1>0, <1>6, <2>2 DEF Iterate, AbortInv
    <3>2. requests = {}
      BY <2>1, <2>2, <3>1, TailAnsweredMeansAll DEF InLoop
    <3>. QED BY <2>1, <2>2, <3>2 DEF OwesNothing
  <2>3. CASE pc' \in {"recv", "crashed"}
    BY <1>1, <2>1, <2>3
  <2>. QED BY <1>6, <2>2, <2>3 DEF Iterate
<1>7. ASSUME NEW d \in Blocks, NEW n \in -1 .. BlockLen, ReceiveData(d, n)
      PROVE  OwesNothing'
  BY <1>1, <1>7 DEF ReceiveData
<1>8. ASSUME NEW b \in Blocks, ReceiveError(b) PROVE FALSE
  BY <1>0, <1>8 DEF ReceiveError
<1>9. CASE ReceiveNothing \/ EndDrain
  BY <1>1, <1>9 DEF ReceiveNothing, EndDrain
<1>10. CASE WriteBlock \/ SkipFailed
  BY <1>1, <1>10 DEF WriteBlock, SkipFailed, HeadReady
<1>11. ASSUME NEW k \in 0 .. (BlockLen - 1), WriteFails(k) PROVE FALSE
  BY <1>0, <1>11 DEF WriteFails
<1>12. CASE LeaveLoop
  <2>1. requests = {} /\ UNCHANGED requests
    BY <1>12, EmptyQueueMeansNone DEF LeaveLoop, XferDone, InLoop
  <2>. QED BY <1>12, <2>1 DEF LeaveLoop, OwesNothing
<1>13. CASE CloseHandle
  BY <1>13 DEF CloseHandle, OwesNothing
<1>14. ASSUME NEW r \in requests, CloseReply(r) PROVE OwesNothing'
  BY <1>14 DEF CloseReply, OwesNothing
<1>15. CASE CloseNoReply
  BY <1>0, <1>15 DEF CloseNoReply
<1>16. CASE LoseConnection
  BY <1>16 DEF LoseConnection
<1>17. CASE UNCHANGED vars
  BY <1>17 DEF vars, OwesNothing
<1>. QED
  BY <1>3, <1>4, <1>5, <1>6, <1>7, <1>8, <1>9, <1>10, <1>11, <1>12, <1>13, <1>14, <1>15,
     <1>16, <1>17
  DEF Next, Client, Open, Receive, Drain, Close, Finished

LEMMA FirstInRange == \A m, n \in Nat : m < n => m \in m .. (n - 1)
OBVIOUS

(* Filling the window leaves a request that waits for an answer, if the    *)
(* queue was empty or started with one.                                    *)
LEMMA QueuedMeansDue ==
  ASSUME MirrorInv, MirrorInv', InLoop', DownloadQueue, UNCHANGED <<head, eof, err>>,
         TypeOK, ~(eof \/ err) \/ ~QueueEmpty,
         ~QueueEmpty => rr[head].complete = 0
  PROVE  requests' # {} /\ head' < offset' /\ rr'[head'].complete = 0
<1>1. /\ head \in Nat /\ offset \in Nat /\ head <= offset
      /\ requests' = { b \in Blocks' : rr'[b].complete = 0 }
  BY DEF TypeOK, MirrorInv, CopyInv, QueueInv, QueueMatchesRequests, InLoop
<1>2. head < offset' /\ rr'[head].complete = 0
  <2>1. CASE head < offset
    <3>1. offset' >= offset /\ rr'[head] = rr[head] /\ offset' \in Nat
      BY <1>1, <2>1, DownloadQueueType
    <3>. QED BY <1>1, <2>1, <3>1 DEF QueueEmpty
  <2>2. CASE head = offset
    <3>1. offset' = head + NPackets
      BY <1>1, <2>2, DownloadAssumption DEF DownloadQueue, QueueReads, QueueEmpty
    <3>2. head \in offset .. (offset' - 1)
      BY <1>1, <2>2, <3>1, DownloadAssumption
    <3>3. rr'[head] = Pending
      BY <3>2, DownloadQueueType
    <3>. QED BY <1>1, <3>1, <3>3, DownloadAssumption DEF Pending
  <2>. QED BY <1>1, <2>1, <2>2
<1>3. head \in Blocks'
  <2>1. offset' \in Nat /\ head' = head /\ head \in Nat /\ head < offset'
    BY <1>1, <1>2, DownloadQueueType
  <2>2. Blocks' = head .. (offset' - 1)
    BY <2>1 DEF Blocks
  <2>. QED BY <2>1, <2>2, FirstInRange
<1>4. head' = head
  OBVIOUS
<1>5. head \in requests'
  BY <1>1, <1>2, <1>3
<1>. QED BY <1>2, <1>4, <1>5

LEMMA NextHeadIsDue ==
  /\ MirrorInv /\ MirrorInv' /\ WithinFile /\ WithinFile' /\ HeadIsDue
  /\ Orderly /\ [Next]_vars
  => HeadIsDue'
<1> SUFFICES ASSUME MirrorInv, MirrorInv', WithinFile, WithinFile', HeadIsDue, Orderly,
                    [Next]_vars, connected'
             PROVE  HeadIsDue'
  BY DEF HeadIsDue
<1>0. /\ "error" \notin faults /\ "disk" \notin faults /\ "junk" \notin faults
      /\ TypeOK
  BY OrderlyFaults DEF Orderly, MirrorInv, CopyInv, QueueInv
<1>1. ASSUME pc' \notin {"loop", "recv", "drain"} PROVE HeadIsDue'
  BY <1>1 DEF HeadIsDue
<1>2. CASE OpenRemoteFails \/ OpenLocalFails
  BY <1>1, <1>2 DEF OpenRemoteFails, OpenLocalFails
<1>3. CASE StartTransfer
  <2>1. /\ QueueEmpty /\ ~eof /\ ~err /\ InLoop' /\ DownloadQueue
        /\ UNCHANGED <<head, eof, err>> /\ pc' = "loop"
    BY <1>3 DEF StartTransfer, MirrorInv, CopyInv, QueueInv, FreshAtOpen, QueueEmpty, InLoop
  <2>2. rr'[head'].complete = 0
    BY <1>0, <2>1, QueuedMeansDue
  <2>. QED BY <2>1, <2>2 DEF HeadIsDue
<1>4. ASSUME NEW cancel \in BOOLEAN, Iterate(cancel) PROVE HeadIsDue'
  <2>1. pc = "loop" /\ ~XferDone /\ connected /\ UNCHANGED <<head, eof>>
    BY <1>4 DEF Iterate
  <2>2. CASE /\ userAbort' /\ UNCHANGED <<offset, rr, requests>>
             /\ pc' = IF QueueEmpty THEN "crashed"
                      ELSE IF TailComplete THEN "close" ELSE "recv"
    <3>1. CASE ~QueueEmpty /\ ~TailComplete
      <4>1. offset - 1 \in Blocks /\ rr[offset - 1].complete = 0
        BY <1>0, <3>1 DEF TypeOK, QueueEmpty, TailComplete, Blocks
      <4>2. requests # {}
        BY <2>1, <4>1 DEF MirrorInv, CopyInv, QueueInv, QueueMatchesRequests
      <4>. QED BY <2>2, <3>1, <4>2 DEF HeadIsDue
    <3>2. CASE QueueEmpty \/ TailComplete
      BY <1>1, <2>2, <3>2
    <3>. QED BY <3>1, <3>2
  <2>3. CASE ~userAbort' /\ DownloadQueue /\ pc' = "recv"
    <3>1. ~userAbort /\ UNCHANGED err
      BY <1>0, <1>4, <2>3 DEF Iterate, TypeOK
    <3>2. ~QueueEmpty => rr[head].complete = 0
      BY <2>1, <3>1 DEF HeadIsDue
    <3>3. ~(eof \/ err) \/ ~QueueEmpty
      BY <2>1 DEF XferDone
    <3>4. requests' # {}
      BY <1>0, <2>1, <2>3, <3>1, <3>2, <3>3, QueuedMeansDue DEF InLoop
    <3>. QED BY <2>3, <3>4 DEF HeadIsDue
  <2>. QED BY <1>4, <2>2, <2>3 DEF Iterate
<1>5. ASSUME NEW d \in Blocks, NEW n \in -1 .. BlockLen, ReceiveData(d, n)
      PROVE  HeadIsDue'
  <2>1. ~(filesize' # Unknown /\ furthestdata' > filesize')
    <3>1. TypeOK'
      BY DEF MirrorInv, CopyInv, QueueInv
    <3>. QED BY <3>1, DownloadAssumption DEF WithinFile, TypeOK
  <2>2. pc' = "drain" /\ (ret' = 1 \/ userAbort')
    BY <1>5, <2>1 DEF ReceiveData
  <2>. QED BY <2>2 DEF HeadIsDue
<1>6. ASSUME NEW b \in Blocks, ReceiveError(b) PROVE FALSE
  BY <1>0, <1>6 DEF ReceiveError
<1>7. CASE ReceiveNothing
  BY <1>0, <1>7 DEF ReceiveNothing
<1>8. CASE EndDrain
  <2>1. /\ pc = "drain" /\ pc' = "loop" /\ connected /\ ~HeadReady
        /\ UNCHANGED <<head, offset, rr, userAbort>>
    BY <1>8 DEF EndDrain, xfer
  <2>2. ~userAbort /\ ~QueueEmpty => rr[head].complete = 0
    BY <2>1 DEF HeadIsDue, HeadReady
  <2>. QED BY <2>1, <2>2 DEF HeadIsDue, QueueEmpty
<1>9. CASE WriteBlock \/ SkipFailed
  BY <1>9 DEF WriteBlock, SkipFailed, HeadReady, HeadIsDue
<1>10. ASSUME NEW k \in 0 .. (BlockLen - 1), WriteFails(k) PROVE FALSE
  BY <1>0, <1>10 DEF WriteFails
<1>11. CASE LeaveLoop \/ CloseHandle \/ CloseNoReply
  BY <1>1, <1>11 DEF LeaveLoop, CloseHandle, CloseNoReply
<1>12. ASSUME NEW r \in requests, CloseReply(r) PROVE HeadIsDue'
  BY <1>1, <1>12 DEF CloseReply
<1>13. CASE LoseConnection
  BY <1>13 DEF LoseConnection
<1>14. CASE UNCHANGED vars
  BY <1>14 DEF vars, xfer, HeadIsDue, QueueEmpty
<1>. QED
  BY <1>2, <1>3, <1>4, <1>5, <1>6, <1>7, <1>8, <1>9, <1>10, <1>11, <1>12, <1>13, <1>14
  DEF Next, Client, Open, Receive, Drain, Close, Finished

-----------------------------------------------------------------------------
LEMMA OrderlyStays == Orderly /\ [Next]_vars => Orderly'
BY FaultsFixed DEF Orderly, Stable, NoErrors

LEMMA NextReplyInv == Orderly /\ ReplyInv /\ [Next]_vars => ReplyInv'
<1> SUFFICES ASSUME Orderly, ReplyInv, [Next]_vars PROVE ReplyInv'
  OBVIOUS
<1>1. MirrorInv' /\ WithinFile' /\ AbortInv' /\ AnsweredInOrder'
  BY NextMirrorInv, NextWithinFile, NextAbortInv, NextAnsweredInOrder, OrderlyFaults
  DEF ReplyInv
<1>2. OwesNothing'
  BY NextOwesNothing DEF ReplyInv
<1>3. HeadIsDue'
  BY <1>1, NextHeadIsDue DEF ReplyInv
<1>. QED BY <1>1, <1>2, <1>3 DEF ReplyInv

LEMMA OrderlyReplies == Spec /\ Orderly => []ReplyInv
<1>1. Orderly /\ ReplyInv /\ [Next]_vars => (Orderly /\ ReplyInv)'
  BY OrderlyStays, NextReplyInv
<1>. QED BY <1>1, InitReplyInv, PTL DEF Spec

(* A download that returns on a connection that is up leaves no answer to  *)
(* come: after a cancel too, if the server works in order, because the     *)
(* last request is answered last.                                          *)
THEOREM ReturnsOwingNothing == Spec /\ Orderly => []NothingOwed
<1>1. ReplyInv => NothingOwed
  BY DEF ReplyInv, OwesNothing, NothingOwed
<1>. QED BY <1>1, OrderlyReplies, PTL

(* The loop never waits for a reply when none is due, so the transfer does *)
(* not hang on a server that answers.                                      *)
THEOREM NeverWaitsInVain == Spec /\ Orderly => []WaitsForAnswer
<1>1. ReplyInv => WaitsForAnswer
  BY DEF ReplyInv, HeadIsDue, WaitsForAnswer
<1>. QED BY <1>1, OrderlyReplies, PTL
=============================================================================
