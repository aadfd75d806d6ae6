---------------------------- MODULE UploadProofs ----------------------------
(***************************************************************************)
(* Proofs about Upload, for every window and every number of blocks: which *)
(* requests the server owes an answer to, what it has stored when an       *)
(* upload ends, and that put implements FileCopy against a server that     *)
(* works in order.  PutCommandProofs carries them over the reconnects.     *)
(***************************************************************************)
EXTENDS Upload, Sequences, WellFoundedInduction, TLAPS

(* A set of naturals that is not empty has a least element. *)
LEMMA LeastNatural ==
  ASSUME NEW S \in SUBSET Nat, S # {}
  PROVE  \E n \in S : \A m \in S : n <= m
<1> DEFINE R == { ss \in Nat \X Nat : ss[1] < ss[2] }
<1>1. IsWellFoundedOn(R, Nat)
  BY NatLessThanWellFounded DEF OpToRel
<1>2. PICK n \in S : \A m \in S : ~ (<<m, n>> \in R)
  BY <1>1, WFMin
<1>3. ASSUME NEW m \in S PROVE n <= m
  <2>1. m < n => <<m, n>> \in R
    OBVIOUS
  <2>2. m \in Nat /\ n \in Nat /\ ~ (m < n)
    BY <1>2, <2>1
  <2>. HIDE DEF R
  <2>. QED BY <2>2
<1>. QED BY <1>3

(* The block after the last one of a set of blocks.                        *)
SizeOf(blocks) ==
  CHOOSE n \in 0 .. NBlocks :
    /\ \A b \in blocks : b < n
    /\ n = 0 \/ n - 1 \in blocks

LEMMA SizeFacts ==
  ASSUME NEW blocks \in SUBSET AllBlocks
  PROVE  /\ SizeOf(blocks) \in 0 .. NBlocks
         /\ \A b \in blocks : b < SizeOf(blocks)
         /\ SizeOf(blocks) = 0 \/ SizeOf(blocks) - 1 \in blocks
<1> DEFINE Bounds == { n \in 0 .. NBlocks : \A b \in blocks : b < n }
<1>1. NBlocks \in Bounds
  BY UploadAssumption DEF AllBlocks
<1>2. PICK n \in Bounds : \A m \in Bounds : n <= m
  <2>1. Bounds \in SUBSET Nat /\ Bounds # {}
    BY <1>1
  <2>. HIDE DEF Bounds
  <2>. QED BY <2>1, LeastNatural
<1>3. n = 0 \/ n - 1 \in blocks
  <2> SUFFICES ASSUME n # 0, n - 1 \notin blocks PROVE FALSE
    OBVIOUS
  <2>1. n - 1 \in Bounds
    BY UploadAssumption DEF AllBlocks
  <2>. QED BY <1>2, <2>1, UploadAssumption
<1>4. \E m \in 0 .. NBlocks : (\A b \in blocks : b < m) /\ (m = 0 \/ m - 1 \in blocks)
  BY <1>3
<1>. QED BY <1>4 DEF SizeOf

(* Of a prefix it is the length.                                           *)
LEMMA SizeOfPrefix ==
  ASSUME NEW n \in 0 .. NBlocks
  PROVE  SizeOf(0 .. (n - 1)) = n
<1>1. 0 .. (n - 1) \in SUBSET AllBlocks
  BY UploadAssumption DEF AllBlocks
<1> DEFINE m == SizeOf(0 .. (n - 1))
<1>2. /\ m \in 0 .. NBlocks /\ \A b \in 0 .. (n - 1) : b < m
      /\ m = 0 \/ m - 1 \in 0 .. (n - 1)
  BY <1>1, SizeFacts
<1>3. n > 0 => n - 1 < m
  BY <1>2
<1>. HIDE DEF m
<1>4. m = n
  BY <1>2, <1>3, UploadAssumption
<1>. QED BY <1>4 DEF m

LEMMA RemoteSizeFacts ==
  ASSUME stored \subseteq AllBlocks
  PROVE  RemoteSize \in 0 .. NBlocks /\ \A b \in stored : b < RemoteSize
BY SizeFacts DEF RemoteSize, SizeOf

LEMMA RemoteSizeOfPrefix ==
  ASSUME NEW n \in 0 .. NBlocks, stored = 0 .. (n - 1)
  PROVE  RemoteSize = n
BY SizeOfPrefix DEF RemoteSize, SizeOf
-----------------------------------------------------------------------------
Transferring == {"loop", "fill", "recv", "settle"}

(* The offset has a value once both files are open.                        *)
TypeInv == TypeOK /\ (pc \notin {"open", "done"} => pos \in 0 .. NBlocks)

(* Every step keeps the types. *)
LEMMA InitTypeInv == Init => TypeInv
<1> SUFFICES ASSUME Init PROVE TypeInv
  OBVIOUS
<1>1. stored \subseteq AllBlocks
  <2>1. PICK n \in 0 .. NBlocks : stored = 0 .. (n - 1)
    BY DEF Init
  <2>. QED BY <2>1, UploadAssumption DEF AllBlocks
<1>2. attrs \in [size : NoSize .. NBlocks, time : {"none", "old", "now", "local"}]
  BY UploadAssumption DEF Init, NoSize
<1>3. pos \in NotOpened .. NBlocks
  BY UploadAssumption DEF Init, NotOpened
<1>. QED BY <1>1, <1>2, <1>3 DEF Init, TypeOK, TypeInv, Transferring

LEMMA OpenType == TypeInv /\ Open => TypeInv'
<1> SUFFICES ASSUME TypeInv, Open PROVE TypeInv'
  OBVIOUS
<1>1. CASE OpenLocalFails
  BY <1>1 DEF OpenLocalFails, args, remote, TypeOK, TypeInv, Transferring
<1>2. CASE OpenFails
  BY <1>2 DEF OpenFails, args, TypeOK, TypeInv, Transferring
<1>3. CASE OpenPut
  BY <1>3, UploadAssumption DEF OpenPut, args, TypeOK, TypeInv, Transferring, NotOpened
<1>4. CASE OpenReput
  <2>1. RemoteSize \in 0 .. NBlocks
    BY RemoteSizeFacts DEF TypeOK, TypeInv
  <2>2. attrs' \in [size : NoSize .. NBlocks, time : {"none", "old", "now", "local"}]
    BY <1>4, <2>1 DEF OpenReput, TypeOK, TypeInv, Transferring, NoSize
  <2>3. pos' \in NotOpened .. NBlocks
    BY <1>4, <2>1 DEF OpenReput, NotOpened
  <2>. QED BY <1>4, <2>1, <2>2, <2>3 DEF OpenReput, args, remote, TypeOK, TypeInv, Transferring
<1>. QED BY <1>1, <1>2, <1>3, <1>4 DEF Open

LEMMA FillType == TypeInv /\ Fill => TypeInv'
<1> SUFFICES ASSUME TypeInv, Fill PROVE TypeInv'
  OBVIOUS
<1>1. CASE FillBlock
  <2>1. pc = "fill" /\ pos < NBlocks /\ pos' = pos + 1
    BY <1>1 DEF FillBlock, Filling
  <2>2. pos \in 0 .. NBlocks
    BY <2>1 DEF TypeInv, Transferring
  <2>3. pos \in AllBlocks /\ pos' \in NotOpened .. NBlocks /\ pos' \in 0 .. NBlocks
    BY <2>1, <2>2, UploadAssumption DEF AllBlocks, NotOpened
  <2>. QED BY <1>1, <2>3 DEF FillBlock, args, TypeOK, TypeInv, Transferring
<1>2. CASE FillEnd
  <2>1. eof' \in BOOLEAN
    BY <1>2 DEF FillEnd
  <2>. QED BY <1>2, <2>1 DEF FillEnd, args, remote, TypeOK, TypeInv
<1>3. CASE FillReadError
  <2>1. err' \in BOOLEAN /\ UNCHANGED <<restart, faults>>
    BY <1>3 DEF FillReadError, args
  <2>. QED BY <1>3, <2>1 DEF FillReadError, args, remote, TypeOK, TypeInv
<1>4. CASE StopFilling
  BY <1>4 DEF StopFilling, client, args, remote, TypeOK, TypeInv, Transferring
<1>. QED BY <1>1, <1>2, <1>3, <1>4 DEF Fill

LEMMA ReceiveType == TypeInv /\ Receive => TypeInv'
<1> SUFFICES ASSUME TypeInv, Receive PROVE TypeInv'
  OBVIOUS
<1>1. ASSUME NEW b \in queue, ReceiveOK(b) PROVE TypeInv'
  BY <1>1 DEF ReceiveOK, args, TypeOK, TypeInv, Transferring
<1>2. ASSUME NEW b \in queue, ReceiveRejected(b) PROVE TypeInv'
  BY <1>2 DEF ReceiveRejected, args, TypeOK, TypeInv, Transferring
<1>3. CASE ReceiveNothing
  BY <1>3 DEF ReceiveNothing, args, remote, TypeOK, TypeInv, Transferring
<1>4. CASE NothingToReceive
  BY <1>4 DEF NothingToReceive, args, remote, TypeOK, TypeInv, Transferring
<1>. QED BY <1>1, <1>2, <1>3, <1>4 DEF Receive

LEMMA CloseType == TypeInv /\ Close => TypeInv'
<1> SUFFICES ASSUME TypeInv, Close PROVE TypeInv'
  OBVIOUS
<1>1. CASE SendSetstat
  BY <1>1 DEF SendSetstat, SendRequest, client, args, TypeOK, TypeInv, Transferring
<1>2. CASE SendClose
  BY <1>2 DEF SendClose, SendRequest, args, TypeOK, TypeInv, Transferring
<1>3. CASE SetstatReply \/ CloseReply
  BY <1>3 DEF SetstatReply, CloseReply, WaitForReply, NoReply, Reply, client, args,
     remote, TypeOK, TypeInv, Transferring
<1>. QED BY <1>1, <1>2, <1>3 DEF Close

LEMMA ExecuteType == ASSUME TypeInv, NEW r \in requests, Execute(r) PROVE TypeInv'
<1>1. stored' \subseteq AllBlocks
  BY DEF Execute, TypeOK, TypeInv, Transferring
<1>2. stamp' \in {"old", "now", "local"}
  BY DEF Execute, TypeOK, TypeInv, Transferring
<1>3. executed' \subseteq requests'
  BY DEF Execute, TypeOK, TypeInv, Transferring
<1>. QED BY <1>1, <1>2, <1>3 DEF Execute, client, args, TypeOK, TypeInv, Transferring

LEMMA NextTypeInv == TypeInv /\ [Next]_vars => TypeInv'
<1> SUFFICES ASSUME TypeInv, [Next]_vars PROVE TypeInv'
  OBVIOUS
<1>1. ASSUME NEW cancel \in BOOLEAN, Iterate(cancel) PROVE TypeInv'
  BY <1>1 DEF Iterate, args, remote, TypeOK, TypeInv, Transferring
<1>2. CASE LeaveLoop
  BY <1>2 DEF LeaveLoop, client, args, remote, TypeOK, TypeInv, Transferring
<1>3. ASSUME NEW r \in requests, Execute(r) PROVE TypeInv'
  BY <1>3, ExecuteType
<1>4. CASE LoseConnection
  <2>1. connected' \in BOOLEAN
    BY <1>4 DEF LoseConnection
  <2>. QED BY <1>4, <2>1 DEF LoseConnection, client, args, remote, TypeOK, TypeInv
<1>5. CASE UNCHANGED vars
  BY <1>5 DEF vars, client, args, remote, TypeOK, TypeInv, Transferring
<1>. QED
  BY <1>1, <1>2, <1>3, <1>4, <1>5, OpenType, FillType, ReceiveType, CloseType
  DEF Next, Client, Server, Finished

-----------------------------------------------------------------------------
(* The requests the server owes an answer to.                              *)
QueueInv ==
  /\ pc = "open" =>
       /\ pos = NotOpened /\ queue = {} /\ requests = {} /\ executed = {}
       /\ ~eof /\ ~err /\ ~disconnected
  /\ \A b \in queue : b < pos
  /\ eof => pos = NBlocks
  /\ pc \in Transferring /\ connected => requests = queue

LEMMA InitQueueInv == Init => QueueInv
BY DEF Init, QueueInv, Transferring

LEMMA NextQueueInv == TypeInv /\ QueueInv /\ [Next]_vars => QueueInv'
<1> SUFFICES ASSUME TypeInv, QueueInv, [Next]_vars PROVE QueueInv'
  OBVIOUS
<1>1. CASE OpenLocalFails \/ OpenFails
  BY <1>1 DEF OpenLocalFails, OpenFails, args, remote, QueueInv, Transferring
<1>2. CASE OpenPut \/ OpenReput
  BY <1>2 DEF OpenPut, OpenReput, args, remote, QueueInv, Transferring
<1>3. ASSUME NEW cancel \in BOOLEAN, Iterate(cancel) PROVE QueueInv'
  BY <1>3 DEF Iterate, args, remote, QueueInv, Transferring
<1>4. CASE FillBlock
  <2>1. /\ pc = "fill" /\ pc' = "fill" /\ pos < NBlocks /\ pos' = pos + 1
        /\ queue' = queue \cup {pos} /\ UNCHANGED <<eof, connected>> /\ ~eof
        /\ requests' = IF connected THEN requests \cup {pos} ELSE requests
    BY <1>4 DEF FillBlock, Filling
  <2>2. pos \in 0 .. NBlocks
    BY <2>1 DEF TypeInv, Transferring
  <2>3. \A b \in queue' : b < pos'
    BY <2>1, <2>2, UploadAssumption DEF QueueInv, TypeInv, TypeOK, AllBlocks
  <2>. QED BY <2>1, <2>3 DEF QueueInv, Transferring
<1>5. CASE FillEnd
  BY <1>5 DEF FillEnd, Filling, args, remote, QueueInv, Transferring
<1>6. CASE FillReadError
  BY <1>6 DEF FillReadError, Filling, args, remote, QueueInv, Transferring
<1>7. CASE StopFilling
  BY <1>7 DEF StopFilling, client, args, remote, QueueInv, Transferring
<1>8. ASSUME NEW b \in queue, ReceiveOK(b) \/ ReceiveRejected(b) PROVE QueueInv'
  BY <1>8 DEF ReceiveOK, ReceiveRejected, args, QueueInv, Transferring
<1>9. CASE ReceiveNothing \/ NothingToReceive
  BY <1>9 DEF ReceiveNothing, NothingToReceive, args, remote, QueueInv, Transferring
<1>10. CASE LeaveLoop
  BY <1>10 DEF LeaveLoop, client, args, remote, QueueInv, Transferring
<1>11. CASE SendSetstat \/ SendClose
  BY <1>11 DEF SendSetstat, SendClose, SendRequest, client, args, QueueInv, Transferring
<1>12. CASE SetstatReply \/ CloseReply
  BY <1>12 DEF SetstatReply, CloseReply, WaitForReply, client, args, QueueInv, Transferring
<1>13. ASSUME NEW r \in requests, Execute(r) PROVE QueueInv'
  BY <1>13 DEF Execute, client, args, QueueInv, Transferring
<1>14. CASE LoseConnection
  BY <1>14 DEF LoseConnection, client, args, remote, QueueInv, Transferring
<1>15. CASE UNCHANGED vars
  BY <1>15 DEF vars, client, args, remote, QueueInv, Transferring
<1>. QED
  BY <1>1, <1>2, <1>3, <1>4, <1>5, <1>6, <1>7, <1>8, <1>9, <1>10, <1>11, <1>12,
     <1>13, <1>14, <1>15
  DEF Next, Client, Open, Fill, Receive, Close, Server, Finished

-----------------------------------------------------------------------------
(* What the server owes on the way out of the loop. *)
AnswersOwed ==
  /\ ~disconnected /\ ~err
  /\ pc \in {"settle", "close", "done"} => requests = {}
  /\ pc = "settling" => requests = {Setstat}
  /\ pc = "closing" => requests = {CloseRequest}

OwedInv == Benign /\ connected => AnswersOwed

LEMMA FaultsFixed == [Next]_vars => UNCHANGED <<restart, faults>>
BY DEF Next, vars, client, args, Client, Open, OpenLocalFails, OpenFails, OpenPut,
   OpenReput, Iterate, Fill, FillBlock, FillEnd, FillReadError, StopFilling, Receive,
   ReceiveOK, ReceiveRejected, ReceiveNothing, NothingToReceive, LeaveLoop, Close,
   SendSetstat, SetstatReply, SendClose, CloseReply, WaitForReply, Server, Execute,
   LoseConnection, Finished

LEMMA BenignFaults ==
  Benign => "rejected" \notin faults /\ "junk" \notin faults /\ "readerror" \notin faults
BY DEF Benign

LEMMA InitOwedInv == Init => OwedInv
BY DEF Init, OwedInv, AnswersOwed

LEMMA NextOwedInv == TypeInv /\ QueueInv /\ OwedInv /\ [Next]_vars => OwedInv'
<1> SUFFICES ASSUME TypeInv, QueueInv, OwedInv, [Next]_vars, Benign', connected'
             PROVE  AnswersOwed'
  BY DEF OwedInv
<1>0. "rejected" \notin faults /\ "junk" \notin faults /\ "readerror" \notin faults
  BY FaultsFixed, BenignFaults DEF Benign
<1>c. connected
  <2>1. ASSUME UNCHANGED connected PROVE connected
    BY <2>1
  <2>2. ASSUME Next, ~UNCHANGED connected PROVE FALSE
    BY <2>2 DEF Next, vars, client, args, Client, Open, OpenLocalFails, OpenFails, OpenPut,
     OpenReput, Iterate, Fill, FillBlock, FillEnd, FillReadError, StopFilling, Receive,
     ReceiveOK, ReceiveRejected, ReceiveNothing, NothingToReceive, LeaveLoop, Close,
     SendSetstat, SetstatReply, SendClose, CloseReply, SendRequest, WaitForReply, Server,
     Execute, LoseConnection, Finished
  <2>. QED BY <2>1, <2>2 DEF vars
<1>o. AnswersOwed
  BY <1>c, FaultsFixed DEF OwedInv, Benign
<1>1. CASE OpenLocalFails \/ OpenFails
  <2>1. /\ requests' = {} /\ pc' = "done" /\ UNCHANGED err
    BY <1>1 DEF OpenLocalFails, OpenFails, args, remote, QueueInv
  <2>2. ~disconnected'
    BY <1>c, <1>o, <1>1, Zenon DEF OpenLocalFails, OpenFails, AnswersOwed
  <2>. QED BY <1>o, <2>1, <2>2 DEF AnswersOwed
<1>2. CASE OpenPut \/ OpenReput
  <2>1. pc' = "loop" /\ UNCHANGED <<disconnected, err>>
    BY <1>2 DEF OpenPut, OpenReput
  <2>. QED BY <1>o, <2>1 DEF AnswersOwed
<1>3. ASSUME NEW cancel \in BOOLEAN, Iterate(cancel) PROVE AnswersOwed'
  BY <1>o, <1>3 DEF Iterate, args, remote, AnswersOwed
<1>4. CASE FillBlock
  BY <1>o, <1>4 DEF FillBlock, Filling, args, AnswersOwed
<1>5. CASE FillEnd
  BY <1>o, <1>5 DEF FillEnd, Filling, args, remote, AnswersOwed
<1>6. CASE FillReadError
  BY <1>0, <1>6 DEF FillReadError
<1>7. CASE StopFilling
  BY <1>o, <1>7 DEF StopFilling, client, args, remote, AnswersOwed
<1>8. ASSUME NEW b \in queue, ReceiveOK(b) PROVE AnswersOwed'
  BY <1>o, <1>8 DEF ReceiveOK, args, AnswersOwed
<1>9. ASSUME NEW b \in queue, ReceiveRejected(b) PROVE AnswersOwed'
  BY <1>0, <1>9 DEF ReceiveRejected
<1>10. CASE ReceiveNothing
  BY <1>0, <1>c, <1>10 DEF ReceiveNothing
<1>11. CASE NothingToReceive
  BY <1>o, <1>c, <1>11 DEF NothingToReceive, XferDone, args, remote, AnswersOwed, QueueInv,
     Transferring
<1>12. CASE LeaveLoop
  BY <1>o, <1>c, <1>12 DEF LeaveLoop, LoopGoes, XferDone, client, args, remote, AnswersOwed,
     QueueInv, Transferring
<1>13. CASE SendSetstat
  BY <1>o, <1>c, <1>13 DEF SendSetstat, SendRequest, client, args, AnswersOwed
<1>14. CASE SendClose
  BY <1>o, <1>c, <1>14 DEF SendClose, SendRequest, args, AnswersOwed
<1>15. CASE SetstatReply
  BY <1>0, <1>o, <1>c, <1>15 DEF SetstatReply, WaitForReply, NoReply, Reply, client, args,
     AnswersOwed
<1>16. CASE CloseReply
  BY <1>0, <1>o, <1>c, <1>16 DEF CloseReply, WaitForReply, NoReply, Reply, client, args,
     AnswersOwed
<1>17. ASSUME NEW r \in requests, Execute(r) PROVE AnswersOwed'
  BY <1>o, <1>17 DEF Execute, client, args, AnswersOwed
<1>18. CASE LoseConnection
  BY <1>18 DEF LoseConnection
<1>19. CASE UNCHANGED vars
  BY <1>o, <1>19 DEF vars, client, args, remote, AnswersOwed
<1>. QED
  BY <1>1, <1>2, <1>3, <1>4, <1>5, <1>6, <1>7, <1>8, <1>9, <1>10, <1>11, <1>12,
     <1>13, <1>14, <1>15, <1>16, <1>17, <1>18, <1>19
  DEF Next, Client, Open, Fill, Receive, Close, Server, Finished

-----------------------------------------------------------------------------
(* put: what it has read is in the queue or stored, what the server has    *)
(* carried out is stored, and FSETSTAT does not truncate.                  *)
PutInv ==
  ~restart =>
    /\ attrs.size = NoSize
    /\ executed \cap AllBlocks \subseteq stored
    /\ "rejected" \notin faults /\ pc \in Transferring =>
         \A b \in AllBlocks : b < pos => b \in queue \cup stored

LEMMA InitPutInv == Init => PutInv
BY DEF Init, PutInv, Transferring

LEMMA NextPutInv == TypeInv /\ QueueInv /\ PutInv /\ [Next]_vars => PutInv'
<1> SUFFICES ASSUME TypeInv, QueueInv, PutInv, [Next]_vars, ~restart PROVE PutInv'
  BY FaultsFixed DEF PutInv
<1>0. UNCHANGED <<restart, faults>>
  BY FaultsFixed
<1>1. CASE OpenLocalFails \/ OpenFails
  BY <1>0, <1>1 DEF OpenLocalFails, OpenFails, args, remote, QueueInv, PutInv, Transferring
<1>2. CASE OpenPut
  <2>1. \A b \in AllBlocks : ~ (b < pos')
    BY <1>2, UploadAssumption DEF OpenPut, AllBlocks
  <2>. QED BY <1>0, <1>2, <2>1 DEF OpenPut, QueueInv, PutInv
<1>3. CASE OpenReput
  BY <1>3 DEF OpenReput
<1>4. ASSUME NEW cancel \in BOOLEAN, Iterate(cancel) PROVE PutInv'
  BY <1>0, <1>4 DEF Iterate, remote, PutInv, Transferring
<1>5. CASE FillBlock
  <2>1. /\ pc = "fill" /\ pos' = pos + 1 /\ queue' = queue \cup {pos}
        /\ UNCHANGED <<attrs, executed, stored>>
    BY <1>5 DEF FillBlock, Filling
  <2>2. pos \in Nat
    BY <2>1, UploadAssumption DEF TypeInv, Transferring
  <2>3. ASSUME NEW b \in AllBlocks, b < pos' PROVE b < pos \/ b \in queue'
    BY <2>1, <2>2, <2>3, UploadAssumption DEF AllBlocks
  <2>. QED BY <1>0, <2>1, <2>3 DEF PutInv, Transferring
<1>6. CASE FillEnd \/ FillReadError
  BY <1>0, <1>6 DEF FillEnd, FillReadError, remote, PutInv, Transferring
<1>7. CASE StopFilling
  BY <1>0, <1>7 DEF StopFilling, client, remote, PutInv, Transferring
<1>8. ASSUME NEW b \in queue, ReceiveOK(b) PROVE PutInv'
  <2>1. b \in executed \cap AllBlocks
    BY <1>8 DEF ReceiveOK, MayAnswer, TypeInv, TypeOK
  <2>. QED BY <1>0, <1>8, <2>1 DEF ReceiveOK, PutInv, Transferring
<1>9. ASSUME NEW b \in queue, ReceiveRejected(b) PROVE PutInv'
  BY <1>0, <1>9 DEF ReceiveRejected, PutInv, Transferring
<1>10. CASE ReceiveNothing \/ NothingToReceive
  BY <1>0, <1>10 DEF ReceiveNothing, NothingToReceive, remote, PutInv, Transferring
<1>11. CASE LeaveLoop
  BY <1>0, <1>11 DEF LeaveLoop, client, remote, PutInv, Transferring
<1>12. CASE SendSetstat \/ SendClose
  BY <1>0, <1>12 DEF SendSetstat, SendClose, SendRequest, client, PutInv, Transferring
<1>13. CASE SetstatReply \/ CloseReply
  BY <1>0, <1>13 DEF SetstatReply, CloseReply, WaitForReply, Reply, NoReply, client, remote,
     PutInv, Transferring
<1>14. ASSUME NEW r \in requests, Execute(r) PROVE PutInv'
  BY <1>0, <1>14 DEF Execute, client, PutInv, Transferring
<1>15. CASE LoseConnection
  BY <1>0, <1>15 DEF LoseConnection, client, remote, PutInv, Transferring
<1>16. CASE UNCHANGED vars
  BY <1>0, <1>16 DEF vars, client, remote, PutInv, Transferring
<1>. QED
  BY <1>1, <1>2, <1>3, <1>4, <1>5, <1>6, <1>7, <1>8, <1>9, <1>10, <1>11, <1>12,
     <1>13, <1>14, <1>15, <1>16
  DEF Next, Client, Open, Fill, Receive, Close, Server, Finished

(* put, when no write is refused: an error leaves the result at 0, and any *)
(* other result means that every block is stored.                          *)
ResultInv ==
  Benign /\ ~restart =>
    /\ err /\ pc \in Transferring => pc \in {"loop", "settle"} /\ ret = 0
    /\ pc \in {"settle", "settling", "close", "closing", "done"} /\ ret # 0 =>
         stored = AllBlocks

LEMMA InitResultInv == Init => ResultInv
BY DEF Init, ResultInv, Transferring

(* The loop was left without an error: all is stored. *)
LEMMA AllIsStored ==
  ASSUME TypeInv, QueueInv, PutInv, Benign, ~restart, pc \in Transferring, eof, queue = {}
  PROVE  stored = AllBlocks
<1>1. pos = NBlocks /\ stored \subseteq AllBlocks
  BY DEF QueueInv, TypeInv, TypeOK
<1>2. \A b \in AllBlocks : b < pos
  BY <1>1, UploadAssumption DEF AllBlocks
<1>. QED BY <1>1, <1>2, BenignFaults DEF PutInv

LEMMA NextResultInv ==
  TypeInv /\ QueueInv /\ PutInv /\ ResultInv /\ [Next]_vars => ResultInv'
<1> SUFFICES ASSUME TypeInv, QueueInv, PutInv, ResultInv, [Next]_vars, Benign, ~restart
             PROVE  ResultInv'
  BY FaultsFixed DEF ResultInv, Benign
<1>0. "rejected" \notin faults /\ "junk" \notin faults /\ "readerror" \notin faults
  BY BenignFaults
<1>1. CASE OpenLocalFails \/ OpenFails
  BY <1>1 DEF OpenLocalFails, OpenFails, ResultInv, Transferring
<1>2. CASE OpenPut
  BY <1>2 DEF OpenPut, QueueInv, ResultInv, Transferring
<1>3. CASE OpenReput
  BY <1>3 DEF OpenReput
<1>4. ASSUME NEW cancel \in BOOLEAN, Iterate(cancel) PROVE ResultInv'
  BY <1>4 DEF Iterate, LoopGoes, ResultInv, Transferring
<1>5. CASE FillBlock \/ FillEnd
  BY <1>5 DEF FillBlock, FillEnd, Filling, ResultInv, Transferring
<1>6. CASE FillReadError
  BY <1>0, <1>6 DEF FillReadError
<1>7. CASE StopFilling
  BY <1>7 DEF StopFilling, client, ResultInv, Transferring
<1>8. ASSUME NEW b \in queue, ReceiveOK(b) PROVE ResultInv'
  BY <1>8 DEF ReceiveOK, ResultInv, Transferring
<1>9. ASSUME NEW b \in queue, ReceiveRejected(b) PROVE ResultInv'
  BY <1>0, <1>9 DEF ReceiveRejected
<1>10. CASE ReceiveNothing
  BY <1>0, <1>10 DEF ReceiveNothing, ResultInv, Transferring
<1>11. CASE NothingToReceive
  BY <1>11 DEF NothingToReceive, ResultInv, Transferring
<1>12. CASE LeaveLoop
  <2>1. ret # 0 => eof /\ queue = {} /\ pc \in Transferring
    BY <1>12 DEF LeaveLoop, LoopGoes, XferDone, ResultInv, Transferring
  <2>2. ret # 0 => stored = AllBlocks
    BY <2>1, AllIsStored
  <2>. QED BY <1>12, <2>2 DEF LeaveLoop, client, remote, ResultInv, Transferring
<1>13. CASE SendSetstat \/ SendClose
  BY <1>13 DEF SendSetstat, SendClose, SendRequest, client, ResultInv, Transferring
<1>14. CASE SetstatReply \/ CloseReply
  BY <1>14 DEF SetstatReply, CloseReply, WaitForReply, Reply, NoReply, client, remote,
     ResultInv, Transferring
<1>15. ASSUME NEW r \in requests, Execute(r) PROVE ResultInv'
  <2>1. stored \subseteq stored' /\ stored' \subseteq AllBlocks
    BY <1>15, ExecuteType DEF Execute, PutInv, TypeInv, TypeOK
  <2>. QED BY <1>15, <2>1 DEF Execute, client, ResultInv, Transferring
<1>16. CASE LoseConnection
  BY <1>16 DEF LoseConnection, client, remote, ResultInv, Transferring
<1>17. CASE UNCHANGED vars
  BY <1>17 DEF vars, client, remote, ResultInv, Transferring
<1>. QED
  BY <1>1, <1>2, <1>3, <1>4, <1>5, <1>6, <1>7, <1>8, <1>9, <1>10, <1>11, <1>12,
     <1>13, <1>14, <1>15, <1>16, <1>17
  DEF Next, Client, Open, Fill, Receive, Close, Server, Finished

-----------------------------------------------------------------------------
(* An environment in which an upload stays resumable: no write is refused, *)
(* and a server that works out of order never loses the connection.        *)
Calm == faults \subseteq {"reorder", "abort"}

Steady == "rejected" \notin faults /\ ("reorder" \in faults => Calm)

CalmInv == Calm => connected

LEMMA InitCalmInv == Init => CalmInv
BY DEF Init, CalmInv

LEMMA NextCalmInv == CalmInv /\ [Next]_vars => CalmInv'
<1> SUFFICES ASSUME CalmInv, [Next]_vars, Calm PROVE connected'
  BY FaultsFixed DEF CalmInv, Calm
<1>1. connected /\ "lost" \notin faults
  BY DEF CalmInv, Calm
<1>2. CASE UNCHANGED connected
  BY <1>1, <1>2
<1>3. CASE Next
  BY <1>1, <1>3 DEF Next, vars, client, args, Client, Open, OpenLocalFails, OpenFails,
     OpenPut, OpenReput, Iterate, Fill, FillBlock, FillEnd, FillReadError, StopFilling,
     Receive, ReceiveOK, ReceiveRejected, ReceiveNothing, NothingToReceive, LeaveLoop, Close,
     SendSetstat, SetstatReply, SendClose, CloseReply, SendRequest, WaitForReply, Server,
     Execute, LoseConnection, Finished
<1>. QED BY <1>2, <1>3 DEF vars

(* The requests the server has not carried out.                            *)
Pending == requests \ executed

(* Everything before the offset is stored or on its way, ...               *)
CoverInv ==
  Steady /\ pc \in Transferring /\ connected =>
    \A b \in AllBlocks : b < pos => b \in stored \cup Pending

(* ... everything before a pending write, if the server works in order ... *)
OrderInv ==
  Steady /\ "reorder" \notin faults =>
    \A r \in Pending, c \in AllBlocks : r \in AllBlocks /\ c < r => c \in stored \cup Pending

(* ... and what is stored is a prefix, or lies before the offset.          *)
PrefixInv ==
  Steady =>
    /\ "reorder" \notin faults \/ pc \notin Transferring => IsPrefix(stored)
    /\ "reorder" \in faults /\ pc \in Transferring => \A b \in stored : b < pos

LEMMA InitCoverInv == Init => CoverInv
BY DEF Init, CoverInv, Transferring

LEMMA InitOrderInv == Init => OrderInv
BY DEF Init, OrderInv, Pending

LEMMA InitPrefixInv == Init => PrefixInv
BY UploadAssumption DEF Init, PrefixInv, IsPrefix, Transferring

(* Truncating a prefix leaves a prefix.                                    *)
LEMMA TruncatedPrefix ==
  ASSUME NEW n \in 0 .. NBlocks, NEW m \in Int
  PROVE  IsPrefix({ b \in 0 .. (n - 1) : b < m })
<1>1. CASE m < 0
  <2>1. { b \in 0 .. (n - 1) : b < m } = 0 .. (0 - 1)
    BY <1>1
  <2>. QED BY <2>1, UploadAssumption DEF IsPrefix
<1>2. CASE m \in 0 .. n
  <2>1. { b \in 0 .. (n - 1) : b < m } = 0 .. (m - 1)
    BY <1>2
  <2>. QED BY <1>2, <2>1, UploadAssumption DEF IsPrefix
<1>3. CASE m > n
  <2>1. { b \in 0 .. (n - 1) : b < m } = 0 .. (n - 1)
    BY <1>3
  <2>. QED BY <2>1 DEF IsPrefix
<1>. QED BY <1>1, <1>2, <1>3, UploadAssumption

LEMMA EmptyIsPrefix == IsPrefix({})
<1>1. {} = 0 .. (0 - 1)
  OBVIOUS
<1>. QED BY <1>1, UploadAssumption DEF IsPrefix

LEMMA PrefixFacts ==
  ASSUME stored \subseteq AllBlocks, IsPrefix(stored)
  PROVE  RemoteSize \in 0 .. NBlocks /\ stored = 0 .. (RemoteSize - 1)
BY RemoteSizeOfPrefix DEF IsPrefix

(* What carrying out a request does to the pending ones.                   *)
LEMMA ExecutePending ==
  ASSUME NEW r \in requests, Execute(r)
  PROVE  /\ r \in Pending /\ Pending' = Pending \ {r}
         /\ \A q \in Pending : "reorder" \in faults \/ r <= q
         /\ r \in AllBlocks => stored' = stored \cup {r}
         /\ r \notin AllBlocks /\ r # Setstat => stored' = stored
         /\ r = Setstat => \/ stored' = stored
                          \/ stored' = { b \in stored : b < attrs.size }
<1>1. r \in AllBlocks => r # Setstat
  BY UploadAssumption DEF AllBlocks, Setstat
<1>2. /\ r \in Pending /\ Pending' = Pending \ {r}
      /\ \A q \in Pending : "reorder" \in faults \/ r <= q
  BY DEF Execute, Pending, IsOldest
<1>. QED BY <1>1, <1>2 DEF Execute

(* A server that works in order carries out the block that comes next.     *)
LEMMA ExecuteNextBlock ==
  ASSUME TypeInv, OrderInv, PrefixInv, Steady, "reorder" \notin faults,
         NEW r \in requests, Execute(r), r \in AllBlocks
  PROVE  /\ stored = 0 .. (RemoteSize - 1) /\ RemoteSize \in 0 .. NBlocks
         /\ r < RemoteSize => stored' = stored
         /\ r >= RemoteSize => r = RemoteSize /\ stored' = 0 .. r
<1>1. stored = 0 .. (RemoteSize - 1) /\ RemoteSize \in 0 .. NBlocks
  BY PrefixFacts DEF PrefixInv, TypeInv, TypeOK
<1>2. r \in Nat /\ stored' = stored \cup {r}
  BY ExecutePending, UploadAssumption DEF AllBlocks
<1>3. ASSUME NEW c \in AllBlocks, c < r PROVE c \in stored
  <2>1. c \in stored \cup Pending
    BY <1>3, ExecutePending DEF OrderInv
  <2>2. c \notin Pending
    BY <1>2, <1>3, ExecutePending, UploadAssumption DEF AllBlocks
  <2>. QED BY <2>1, <2>2
<1>4. r <= RemoteSize
  <2> SUFFICES ASSUME r > RemoteSize PROVE FALSE
    BY <1>1, <1>2
  <2>1. RemoteSize \in AllBlocks
    BY <1>1, UploadAssumption DEF AllBlocks
  <2>2. RemoteSize \in stored
    BY <1>3, <2>1
  <2>. QED BY <1>1, <2>2
<1>. QED BY <1>1, <1>2, <1>4

(* A reply takes away a request that has been carried out.                 *)
LEMMA ReplyPending ==
  ASSUME SetstatReply \/ CloseReply
  PROVE  UNCHANGED <<Pending, stored, connected>> /\ pc' \notin Transferring
BY DEF SetstatReply, CloseReply, WaitForReply, NoReply, Reply, MayAnswer, remote, Pending,
   Transferring

(* A request that is sent is pending; it is not a block.                   *)
LEMMA SendPending ==
  ASSUME TypeInv, SendSetstat \/ SendClose
  PROVE  /\ Pending \subseteq Pending' /\ Pending' \cap AllBlocks = Pending \cap AllBlocks
         /\ UNCHANGED <<stored, connected>> /\ pc' \notin Transferring
<1>1. Setstat \notin AllBlocks /\ CloseRequest \notin AllBlocks
  BY UploadAssumption DEF AllBlocks, Setstat, CloseRequest
<1>. QED
  BY <1>1 DEF SendSetstat, SendClose, SendRequest, client, Pending, Transferring

LEMMA ReceivePending ==
  ASSUME NEW b \in queue, ReceiveOK(b)
  PROVE  UNCHANGED <<Pending, stored, connected, pos>> /\ pc' = "loop" /\ pc = "recv"
BY DEF ReceiveOK, MayAnswer, Pending

LEMMA FillBlockPending ==
  ASSUME TypeInv, QueueInv, FillBlock
  PROVE  /\ pc = "fill" /\ pc' = "fill" /\ UNCHANGED <<stored, connected>>
         /\ pos \in AllBlocks /\ pos' = pos + 1
         /\ Pending' = IF connected THEN Pending \cup {pos} ELSE Pending
<1>1. pc = "fill" /\ pos < NBlocks
  BY DEF FillBlock, Filling
<1>2. pos \in 0 .. NBlocks
  BY <1>1 DEF TypeInv, Transferring
<1>3. pos \in AllBlocks
  BY <1>1, <1>2, UploadAssumption DEF AllBlocks
<1>4. connected => pos \notin executed
  BY <1>1, <1>2 DEF QueueInv, TypeInv, TypeOK, Transferring
<1>. QED BY <1>1, <1>3, <1>4 DEF FillBlock, Pending

LEMMA NextCoverInv ==
  TypeInv /\ QueueInv /\ PrefixInv /\ CoverInv /\ [Next]_vars => CoverInv'
<1> SUFFICES ASSUME TypeInv, QueueInv, PrefixInv, CoverInv, [Next]_vars, Steady
             PROVE  CoverInv'
  BY FaultsFixed DEF CoverInv, Steady, Calm
<1>0. "rejected" \notin faults
  BY DEF Steady
<1>1. CASE OpenLocalFails \/ OpenFails
  BY <1>1 DEF OpenLocalFails, OpenFails, CoverInv, Transferring
<1>2. CASE OpenPut
  <2>1. \A b \in AllBlocks : ~ (b < pos')
    BY <1>2, UploadAssumption DEF OpenPut, AllBlocks
  <2>. QED BY <2>1 DEF CoverInv
<1>3. CASE OpenReput
  <2>1. stored = 0 .. (RemoteSize - 1) /\ RemoteSize \in 0 .. NBlocks
    BY <1>3, PrefixFacts DEF OpenReput, PrefixInv, TypeInv, TypeOK, Transferring
  <2>2. \A b \in AllBlocks : b < pos' => b \in stored'
    BY <1>3, <2>1, UploadAssumption DEF OpenReput, remote, AllBlocks
  <2>. QED BY <2>2 DEF CoverInv
<1>4. ASSUME NEW cancel \in BOOLEAN, Iterate(cancel) PROVE CoverInv'
  BY <1>4 DEF Iterate, remote, args, CoverInv, Steady, Calm, Pending, Transferring
<1>5. CASE FillBlock
  <2>1. ASSUME NEW b \in AllBlocks, b < pos', connected PROVE b \in stored \cup Pending'
    <3>1. b < pos \/ b = pos
      BY <1>5, <2>1, FillBlockPending, UploadAssumption DEF AllBlocks
    <3>. QED BY <1>5, <2>1, <3>1, FillBlockPending DEF CoverInv, Transferring
  <2>. QED BY <1>5, <2>1, FillBlockPending DEF CoverInv
<1>6. CASE FillEnd \/ FillReadError
  BY <1>6 DEF FillEnd, FillReadError, remote, args, CoverInv, Steady, Calm, Pending,
     Transferring
<1>7. CASE StopFilling
  BY <1>7 DEF StopFilling, client, remote, args, CoverInv, Steady, Calm, Pending, Transferring
<1>8. ASSUME NEW b \in queue, ReceiveOK(b) PROVE CoverInv'
  BY <1>8, ReceivePending DEF CoverInv, Transferring
<1>9. ASSUME NEW b \in queue, ReceiveRejected(b) PROVE CoverInv'
  BY <1>0, <1>9 DEF ReceiveRejected
<1>10. CASE ReceiveNothing \/ NothingToReceive
  BY <1>10 DEF ReceiveNothing, NothingToReceive, remote, args, CoverInv, Steady, Calm,
     Pending, Transferring
<1>11. CASE LeaveLoop
  BY <1>11 DEF LeaveLoop, client, remote, args, CoverInv, Steady, Calm, Pending, Transferring
<1>12. CASE SendSetstat \/ SendClose
  BY <1>12, SendPending DEF CoverInv
<1>13. CASE SetstatReply \/ CloseReply
  BY <1>13, ReplyPending DEF CoverInv
<1>14. ASSUME NEW r \in requests, Execute(r) PROVE CoverInv'
  <2> SUFFICES ASSUME pc \in Transferring, connected,
                      NEW b \in AllBlocks, b < pos
               PROVE  b \in stored' \cup Pending'
    BY <1>14 DEF Execute, client, CoverInv
  <2>1. b \in stored \cup Pending
    BY DEF CoverInv
  <2>2. r \in AllBlocks
    BY DEF QueueInv, TypeInv, TypeOK
  <2>. QED BY <1>14, <2>1, <2>2, ExecutePending
<1>15. CASE LoseConnection
  BY <1>15 DEF LoseConnection, CoverInv
<1>16. CASE UNCHANGED vars
  BY <1>16 DEF vars, client, remote, args, CoverInv, Steady, Calm, Pending, Transferring
<1>. QED
  BY <1>1, <1>2, <1>3, <1>4, <1>5, <1>6, <1>7, <1>8, <1>9, <1>10, <1>11, <1>12,
     <1>13, <1>14, <1>15, <1>16
  DEF Next, Client, Open, Fill, Receive, Close, Server, Finished

LEMMA NextOrderInv ==
  TypeInv /\ QueueInv /\ CoverInv /\ OrderInv /\ [Next]_vars => OrderInv'
<1> SUFFICES ASSUME TypeInv, QueueInv, CoverInv, OrderInv, [Next]_vars,
                    Steady, "reorder" \notin faults
             PROVE  OrderInv'
  BY FaultsFixed DEF OrderInv, Steady, Calm
<1>0. "rejected" \notin faults
  BY DEF Steady
<1>1. ASSUME Pending' \cap AllBlocks = Pending \cap AllBlocks, stored \subseteq stored'
      PROVE  OrderInv'
  BY <1>1 DEF OrderInv
<1>2. CASE Open
  BY <1>2 DEF Open, OpenLocalFails, OpenFails, OpenPut, OpenReput, remote, QueueInv,
     OrderInv, Pending
<1>4. ASSUME NEW cancel \in BOOLEAN, Iterate(cancel) PROVE OrderInv'
  BY <1>1, <1>4 DEF Iterate, remote, Pending
<1>5. CASE FillBlock
  <2> SUFFICES ASSUME NEW r \in Pending', NEW c \in AllBlocks, r \in AllBlocks, c < r
               PROVE  c \in stored' \cup Pending'
    BY DEF OrderInv
  <2>1. CASE r \in Pending
    BY <2>1, <1>5, FillBlockPending DEF OrderInv
  <2>2. CASE r = pos /\ connected
    BY <2>2, <1>5, FillBlockPending DEF CoverInv, Transferring
  <2>. QED BY <1>5, <2>1, <2>2, FillBlockPending
<1>6. CASE FillEnd \/ FillReadError
  BY <1>1, <1>6 DEF FillEnd, FillReadError, remote, Pending
<1>7. CASE StopFilling
  BY <1>1, <1>7 DEF StopFilling, remote, Pending
<1>8. ASSUME NEW b \in queue, ReceiveOK(b) PROVE OrderInv'
  BY <1>1, <1>8, ReceivePending
<1>9. ASSUME NEW b \in queue, ReceiveRejected(b) PROVE OrderInv'
  BY <1>0, <1>9 DEF ReceiveRejected
<1>10. CASE ReceiveNothing \/ NothingToReceive
  BY <1>1, <1>10 DEF ReceiveNothing, NothingToReceive, remote, Pending
<1>11. CASE LeaveLoop \/ LoseConnection
  BY <1>1, <1>11 DEF LeaveLoop, LoseConnection, remote, Pending
<1>12. CASE SendSetstat \/ SendClose
  BY <1>1, <1>12, SendPending
<1>13. CASE SetstatReply \/ CloseReply
  BY <1>1, <1>13, ReplyPending
<1>14. ASSUME NEW r \in requests, Execute(r) PROVE OrderInv'
  <2>1. CASE r \in AllBlocks
    BY <1>14, <2>1, ExecutePending DEF OrderInv
  <2>2. CASE r \notin AllBlocks /\ stored' = stored
    BY <1>1, <1>14, <2>2, ExecutePending
  <2>3. CASE r = Setstat
    <3>1. Pending' \cap AllBlocks = {}
      BY <1>14, <2>3, ExecutePending, UploadAssumption DEF AllBlocks, Setstat
    <3>. QED BY <3>1 DEF OrderInv
  <2>. QED BY <1>14, <2>1, <2>2, <2>3, ExecutePending
<1>16. CASE UNCHANGED vars
  BY <1>1, <1>16 DEF vars, remote, Pending
<1>. QED
  BY <1>2, <1>4, <1>5, <1>6, <1>7, <1>8, <1>9, <1>10, <1>11, <1>12, <1>13, <1>14, <1>16
  DEF Next, Client, Fill, Receive, Close, Server, Finished

LEMMA NextPrefixInv ==
  /\ TypeInv /\ QueueInv /\ OwedInv /\ CalmInv /\ CoverInv /\ OrderInv /\ PrefixInv
  /\ [Next]_vars
  => PrefixInv'
<1> SUFFICES ASSUME TypeInv, QueueInv, OwedInv, CalmInv, CoverInv, OrderInv, PrefixInv,
                    [Next]_vars, Steady
             PROVE  PrefixInv'
  BY FaultsFixed DEF PrefixInv, Steady, Calm
<1>0. "rejected" \notin faults /\ UNCHANGED faults
  BY FaultsFixed DEF Steady
<1>r. "reorder" \in faults => Benign /\ connected
  BY DEF Steady, Calm, CalmInv, Benign
<1>1. ASSUME UNCHANGED <<stored, pos>>,
             pc \in Transferring <=> pc' \in Transferring
      PROVE  PrefixInv'
  BY <1>0, <1>1 DEF PrefixInv, Steady, Calm, IsPrefix
<1>2. ASSUME IsPrefix(stored)', pc' \notin Transferring PROVE PrefixInv'
  BY <1>2 DEF PrefixInv
<1>3. CASE OpenLocalFails \/ OpenFails
  <2>1. IsPrefix(stored) /\ pc' = "done"
    BY <1>3 DEF OpenLocalFails, OpenFails, PrefixInv, Transferring
  <2>2. stored' = stored \/ stored' = {}
    BY <1>3 DEF OpenLocalFails, OpenFails, remote
  <2>3. IsPrefix(stored)'
    BY <2>1, <2>2, EmptyIsPrefix DEF IsPrefix
  <2>. QED BY <1>2, <2>1, <2>3 DEF Transferring
<1>4. CASE OpenPut
  BY <1>4, EmptyIsPrefix DEF OpenPut, PrefixInv, IsPrefix
<1>5. CASE OpenReput
  <2>1. IsPrefix(stored) /\ pos' = RemoteSize /\ UNCHANGED stored
    BY <1>5 DEF OpenReput, remote, PrefixInv, Transferring
  <2>2. \A b \in stored : b < RemoteSize
    BY RemoteSizeFacts DEF TypeInv, TypeOK
  <2>. QED BY <2>1, <2>2 DEF PrefixInv, IsPrefix
<1>6. ASSUME NEW cancel \in BOOLEAN, Iterate(cancel) PROVE PrefixInv'
  BY <1>1, <1>6 DEF Iterate, remote, Transferring
<1>7. CASE FillBlock
  <2>1. pos \in Int /\ pos' = pos + 1 /\ UNCHANGED stored /\ pc = "fill" /\ pc' = "fill"
    BY <1>7, FillBlockPending, UploadAssumption DEF AllBlocks
  <2>2. stored \subseteq Int
    BY UploadAssumption DEF TypeInv, TypeOK, AllBlocks
  <2>3. (\A b \in stored : b < pos) => \A b \in stored : b < pos'
    BY <2>1, <2>2
  <2>. QED BY <1>0, <2>1, <2>3 DEF PrefixInv, Transferring, IsPrefix
<1>8. CASE FillEnd \/ FillReadError
  BY <1>1, <1>8 DEF FillEnd, FillReadError, remote
<1>9. CASE StopFilling
  BY <1>1, <1>9 DEF StopFilling, client, remote, Transferring
<1>10. ASSUME NEW b \in queue, ReceiveOK(b) PROVE PrefixInv'
  BY <1>1, <1>10, ReceivePending DEF Transferring
<1>11. ASSUME NEW b \in queue, ReceiveRejected(b) PROVE PrefixInv'
  BY <1>0, <1>11 DEF ReceiveRejected
<1>12. CASE ReceiveNothing \/ NothingToReceive
  BY <1>1, <1>12 DEF ReceiveNothing, NothingToReceive, remote, Transferring
<1>13. CASE LeaveLoop
  BY <1>1, <1>13 DEF LeaveLoop, client, remote, Transferring
<1>14. CASE SendSetstat
  <2>1. pc = "settle" /\ UNCHANGED stored /\ pc' \notin Transferring
    BY <1>14 DEF SendSetstat, SendRequest, Transferring
  <2>2. CASE "reorder" \in faults
    <3>1. Pending = {}
      BY <1>r, <2>1, <2>2 DEF OwedInv, AnswersOwed, Pending
    <3>2. pos \in 0 .. NBlocks
      BY <2>1 DEF TypeInv, Transferring
    <3>3. \A b \in AllBlocks : b < pos => b \in stored
      BY <1>r, <2>1, <2>2, <3>1 DEF CoverInv, Transferring
    <3>4. \A b \in stored : b < pos /\ b \in AllBlocks
      BY <2>1, <2>2 DEF PrefixInv, Transferring, TypeInv, TypeOK
    <3>5. stored = 0 .. (pos - 1)
      <4>1. ASSUME NEW b \in 0 .. (pos - 1) PROVE b \in stored
        BY <3>2, <3>3, <4>1, UploadAssumption DEF AllBlocks
      <4>2. ASSUME NEW b \in stored PROVE b \in 0 .. (pos - 1)
        BY <3>2, <3>4, <4>2, UploadAssumption DEF AllBlocks
      <4>. QED BY <4>1, <4>2
    <3>. QED BY <1>2, <2>1, <3>2, <3>5 DEF IsPrefix
  <2>3. CASE "reorder" \notin faults
    BY <1>2, <2>1, <2>3 DEF PrefixInv, IsPrefix
  <2>. QED BY <2>2, <2>3
<1>15. CASE SendClose
  <2>1. pc = "close" /\ UNCHANGED stored /\ pc' = "closing"
    BY <1>15 DEF SendClose, SendRequest
  <2>. QED BY <1>2, <2>1 DEF PrefixInv, IsPrefix, Transferring
<1>16. CASE SetstatReply \/ CloseReply
  <2>1. pc \in {"settling", "closing"}
    BY <1>16 DEF SetstatReply, CloseReply, WaitForReply
  <2>2. UNCHANGED stored /\ pc' \notin Transferring
    BY <1>16, ReplyPending
  <2>. QED BY <1>2, <2>1, <2>2 DEF PrefixInv, IsPrefix, Transferring
<1>17. ASSUME NEW r \in requests, Execute(r) PROVE PrefixInv'
  <2>1. UNCHANGED <<pc, pos>> /\ connected /\ attrs.size \in Int
    BY <1>17 DEF Execute, client, TypeInv, TypeOK, NoSize
  <2>2. CASE r \in AllBlocks /\ "reorder" \notin faults
    <3>1. \/ stored' = stored /\ IsPrefix(stored)
          \/ stored' = 0 .. ((r + 1) - 1) /\ r + 1 \in 0 .. NBlocks
      BY <1>17, <2>2, ExecuteNextBlock, UploadAssumption DEF AllBlocks, PrefixInv
    <3>2. IsPrefix(stored)'
      BY <3>1 DEF IsPrefix
    <3>. QED BY <1>0, <2>2, <3>2 DEF PrefixInv
  <2>3. CASE r \in AllBlocks /\ "reorder" \in faults
    <3>1. pc \in Transferring
      BY <1>r, <2>3, UploadAssumption DEF OwedInv, AnswersOwed, QueueInv, TypeInv, TypeOK,
         AllBlocks, Setstat, CloseRequest, Transferring
    <3>2. r < pos
      BY <2>1, <3>1 DEF QueueInv
    <3>3. stored' = stored \cup {r}
      BY <1>17, <2>3, ExecutePending
    <3>. QED BY <1>0, <2>1, <2>3, <3>1, <3>2, <3>3 DEF PrefixInv
  <2>4. CASE r \notin AllBlocks
    <3>1. stored' = stored \/ stored' = { b \in stored : b < attrs.size }
      BY <1>17, <2>4, ExecutePending
    <3>2. IsPrefix(stored) => IsPrefix(stored)'
      BY <2>1, <3>1, TruncatedPrefix DEF IsPrefix
    <3>. QED BY <1>0, <2>1, <3>1, <3>2 DEF PrefixInv
  <2>. QED BY <2>2, <2>3, <2>4
<1>18. CASE LoseConnection
  BY <1>1, <1>18 DEF LoseConnection, client, remote
<1>19. CASE UNCHANGED vars
  BY <1>1, <1>19 DEF vars, client, remote
<1>. QED
  BY <1>3, <1>4, <1>5, <1>6, <1>7, <1>8, <1>9, <1>10, <1>11, <1>12, <1>13, <1>14, <1>15,
     <1>16, <1>17, <1>18, <1>19
  DEF Next, Client, Open, Fill, Receive, Close, Server, Finished

(* put over a connection that holds: once FSETSTAT has been carried out    *)
(* the remote file keeps the local time.                                   *)
StampInv ==
  Calm /\ ~restart =>
    /\ attrs.time = "local"
    /\ \/ pc = "settling" /\ Setstat \in executed
       \/ pc \in {"close", "closing"}
       \/ pc = "done" /\ ret # 0
       => stamp = "local"

LEMMA InitStampInv == Init => StampInv
BY DEF Init, StampInv

LEMMA NextStampInv ==
  TypeInv /\ QueueInv /\ OwedInv /\ CalmInv /\ StampInv /\ [Next]_vars => StampInv'
<1> SUFFICES ASSUME TypeInv, QueueInv, OwedInv, CalmInv, StampInv, [Next]_vars,
                    Calm, ~restart
             PROVE  StampInv'
  BY FaultsFixed DEF StampInv, Calm
<1>0. /\ connected /\ AnswersOwed
      /\ "rejected" \notin faults /\ "junk" \notin faults
  BY DEF CalmInv, OwedInv, Calm, Benign
<1>1. ASSUME UNCHANGED attrs, pc' \in {"loop", "fill", "recv", "settle"} PROVE StampInv'
  BY <1>1 DEF StampInv
<1>2. CASE OpenLocalFails \/ OpenFails
  BY <1>2 DEF OpenLocalFails, OpenFails, StampInv
<1>3. CASE OpenPut
  BY <1>1, <1>3 DEF OpenPut
<1>4. CASE OpenReput
  BY <1>4 DEF OpenReput
<1>5. ASSUME NEW cancel \in BOOLEAN, Iterate(cancel) PROVE StampInv'
  BY <1>1, <1>5 DEF Iterate
<1>6. CASE FillBlock \/ FillEnd \/ FillReadError
  BY <1>1, <1>6 DEF FillBlock, FillEnd, FillReadError, Filling
<1>7. CASE StopFilling
  BY <1>1, <1>7 DEF StopFilling, client
<1>8. ASSUME NEW b \in queue, ReceiveOK(b) \/ ReceiveRejected(b) PROVE StampInv'
  BY <1>1, <1>8 DEF ReceiveOK, ReceiveRejected
<1>9. CASE ReceiveNothing \/ NothingToReceive
  BY <1>1, <1>9 DEF ReceiveNothing, NothingToReceive
<1>10. CASE LeaveLoop
  BY <1>1, <1>10 DEF LeaveLoop, client
<1>11. CASE SendSetstat
  <2>1. Setstat \notin executed
    BY <1>0, <1>11 DEF SendSetstat, SendRequest, AnswersOwed, TypeInv, TypeOK
  <2>. QED BY <1>11, <2>1 DEF SendSetstat, SendRequest, client, StampInv
<1>12. CASE SetstatReply
  <2>1. Setstat \in executed /\ pc = "settling"
    BY <1>0, <1>12 DEF SetstatReply, WaitForReply, NoReply, Reply, MayAnswer, AnswersOwed
  <2>2. UNCHANGED <<attrs, stamp>> /\ pc' = "close"
    BY <1>12 DEF SetstatReply, WaitForReply, NoReply, Reply, client, remote
  <2>. QED BY <2>1, <2>2 DEF StampInv
<1>13. CASE SendClose
  BY <1>13 DEF SendClose, SendRequest, StampInv
<1>14. CASE CloseReply
  BY <1>14 DEF CloseReply, WaitForReply, NoReply, Reply, client, remote, StampInv
<1>15. ASSUME NEW r \in requests, Execute(r) PROVE StampInv'
  <2>1. UNCHANGED <<pc, ret, attrs>> /\ attrs.time = "local"
    BY <1>15 DEF Execute, client, StampInv
  <2>2. CASE pc = "settling"
    <3>1. r = Setstat /\ r \notin AllBlocks
      BY <1>0, <2>2, UploadAssumption DEF AnswersOwed, AllBlocks, Setstat
    <3>2. stamp' = "local"
      BY <1>15, <2>1, <3>1 DEF Execute
    <3>. QED BY <2>1, <3>2 DEF StampInv
  <2>3. CASE pc = "closing"
    <3>1. r = CloseRequest /\ r \notin AllBlocks /\ r # Setstat
      BY <1>0, <2>3, UploadAssumption DEF AnswersOwed, AllBlocks, Setstat, CloseRequest
    <3>2. stamp' = stamp
      BY <1>15, <3>1 DEF Execute
    <3>. QED BY <2>1, <2>3, <3>2 DEF StampInv
  <2>4. CASE pc \notin {"settling", "closing"}
    <3>1. pc \notin {"close", "done"}
      BY <1>0 DEF AnswersOwed
    <3>. QED BY <2>1, <2>4, <3>1 DEF StampInv
  <2>. QED BY <2>2, <2>3, <2>4
<1>16. CASE LoseConnection
  BY <1>16 DEF LoseConnection, client, remote, StampInv
<1>17. CASE UNCHANGED vars
  BY <1>17 DEF vars, client, remote, StampInv
<1>. QED
  BY <1>2, <1>3, <1>4, <1>5, <1>6, <1>7, <1>8, <1>9, <1>10, <1>11, <1>12, <1>13,
     <1>14, <1>15, <1>16, <1>17
  DEF Next, Client, Open, Fill, Receive, Close, Server, Finished

(* All that is kept about the transfer.                                    *)
Inv ==
  /\ TypeInv /\ QueueInv /\ OwedInv /\ PutInv /\ ResultInv
  /\ CalmInv /\ CoverInv /\ OrderInv /\ PrefixInv /\ StampInv

LEMMA InitInv == Init => Inv
BY InitTypeInv, InitQueueInv, InitOwedInv, InitPutInv, InitResultInv, InitCalmInv,
   InitCoverInv, InitOrderInv, InitPrefixInv, InitStampInv DEF Inv

LEMMA NextInv == Inv /\ [Next]_vars => Inv'
BY NextTypeInv, NextQueueInv, NextOwedInv, NextPutInv, NextResultInv, NextCalmInv,
   NextCoverInv, NextOrderInv, NextPrefixInv, NextStampInv DEF Inv

(* What it says about the states a caller can see.                         *)
LEMMA InvImplies ==
  Inv => TypeOK /\ QueueMatchesRequests /\ PutIsStored /\ ResumableUnlessRefused
           /\ CancelOwesNothing
<1> SUFFICES ASSUME Inv
             PROVE  TypeOK /\ QueueMatchesRequests /\ PutIsStored /\ ResumableUnlessRefused
                      /\ CancelOwesNothing
  OBVIOUS
<1>1. TypeOK
  BY DEF Inv, TypeInv
<1>2. QueueMatchesRequests
  BY DEF Inv, QueueInv, QueueMatchesRequests, Transferring
<1>3. PutIsStored
  BY DEF Inv, ResultInv, PutIsStored, SuccessIsStored, Success
<1>4. ResumableUnlessRefused
  BY DEF Inv, PrefixInv, Steady, Calm, ResumableUnlessRefused, Resumable, Transferring
<1>5. CancelOwesNothing
  BY DEF Inv, OwedInv, AnswersOwed, CancelOwesNothing, NothingOwed
<1>. QED BY <1>1, <1>2, <1>3, <1>4, <1>5

(* One run of sftp_put_file keeps the whole invariant.                     *)
THEOREM UploadCorrect == Spec => []Inv
BY InitInv, NextInv, PTL DEF Spec

-----------------------------------------------------------------------------
(* The refinement: put against a server that works in order.               *)
LEMMA PutInOrderFaults ==
  PutInOrder => Benign /\ Steady /\ "reorder" \notin faults /\ ~restart
BY DEF PutInOrder, Benign, Steady, Calm

LEMMA InitCopies == Init => Copy!Init
BY DEF Init, Copy!Init

(* The blocks of a file of n blocks.                                       *)
FirstBlocks(n) == [i \in 1 .. n |-> i - 1]

LEMMA FirstBlocksFacts ==
  ASSUME NEW n \in Nat
  PROVE  /\ FirstBlocks(n) \in Seq(Int) /\ Len(FirstBlocks(n)) = n
         /\ FirstBlocks(n + 1) = Append(FirstBlocks(n), n)
BY DEF FirstBlocks

(* A request that is carried out appends the next block, or nothing.       *)
LEMMA ExecuteCopies ==
  ASSUME Inv, PutInOrder, NEW r \in requests, Execute(r)
  PROVE  [Copy!Next]_(Copy!vars)
<1>1. /\ UNCHANGED <<pc, pos, ret, disconnected>> /\ connected /\ Benign
  BY PutInOrderFaults DEF Execute, client
<1>2. pc # "done"
  BY <1>1 DEF Inv, OwedInv, AnswersOwed
<1>3. CASE stored' = stored \/ pos = NotOpened
  BY <1>1, <1>2, <1>3 DEF Copy!vars, RemoteSize
<1>4. CASE stored' # stored /\ pos # NotOpened
  <2>1. r \in AllBlocks
    BY <1>4, ExecutePending, PutInOrderFaults DEF Inv, PutInv, Execute
  <2>2. /\ stored = 0 .. (RemoteSize - 1) /\ RemoteSize \in 0 .. NBlocks
        /\ r = RemoteSize /\ stored' = 0 .. r
    <3>1. /\ stored = 0 .. (RemoteSize - 1) /\ RemoteSize \in 0 .. NBlocks
          /\ r < RemoteSize => stored' = stored
          /\ r >= RemoteSize => r = RemoteSize /\ stored' = 0 .. r
      BY <2>1, ExecuteNextBlock, PutInOrderFaults DEF Inv
    <3>2. r \in Int
      BY <2>1, UploadAssumption DEF AllBlocks
    <3>. QED BY <1>4, <3>1, <3>2, UploadAssumption
  <2>3. RemoteSize + 1 \in 0 .. NBlocks /\ RemoteSize \in Nat /\ NBlocks \in Nat
        /\ RemoteSize < NBlocks
    BY <2>1, <2>2, UploadAssumption DEF AllBlocks
  <2>4. RemoteSize' = RemoteSize + 1
    <3>1. SizeOf(0 .. ((RemoteSize + 1) - 1)) = RemoteSize + 1
      BY <2>3, SizeOfPrefix
    <3>2. stored' = 0 .. ((RemoteSize + 1) - 1)
      BY <2>2, <2>3
    <3>3. RemoteSize' = SizeOf(stored')
      BY DEF RemoteSize, SizeOf
    <3>. QED BY <3>1, <3>2, <3>3
  <2> DEFINE copied == FirstBlocks(RemoteSize)
  <2>5. copied' = Append(copied, RemoteSize) /\ Len(copied) = RemoteSize
    BY <2>3, <2>4, FirstBlocksFacts
  <2>6. Len(FirstBlocks(NBlocks)) = NBlocks /\ FirstBlocks(NBlocks)[Len(copied) + 1] = RemoteSize
    BY <2>3, <2>5, FirstBlocksFacts DEF FirstBlocks
  <2>7. Copy!Next
    BY <1>1, <1>2, <1>4, <2>3, <2>5, <2>6 DEF Copy!Next, Copy!CopyNext, FirstBlocks
  <2>. QED BY <2>7
<1>. QED BY <1>3, <1>4

(* Every step of put is a step of FileCopy or leaves the copy and the      *)
(* outcome alone.                                                          *)
LEMMA NextCopies == Inv /\ PutInOrder /\ [Next]_vars => [Copy!Next]_(Copy!vars)
<1> SUFFICES ASSUME Inv, PutInOrder, [Next]_vars PROVE [Copy!Next]_(Copy!vars)
  OBVIOUS
<1>0. Benign /\ ~restart /\ "rejected" \notin faults
  BY PutInOrderFaults, BenignFaults
<1>1. ASSUME UNCHANGED <<stored, pos>>, pc # "done", pc' # "done" PROVE UNCHANGED Copy!vars
  BY <1>1 DEF Copy!vars, RemoteSize
<1>2. ASSUME UNCHANGED pos, pos = NotOpened, pc # "done", pc' = "done", ret' = 0
      PROVE  Copy!Next
  BY <1>2 DEF Copy!Next, Copy!Fail
<1>3. CASE OpenLocalFails \/ OpenFails
  BY <1>2, <1>3 DEF OpenLocalFails, OpenFails, Inv, QueueInv
<1>4. CASE OpenPut
  <2>1. pos = NotOpened /\ pos' # NotOpened /\ pc # "done" /\ pc' # "done"
    BY <1>4 DEF OpenPut, NotOpened, Inv, QueueInv
  <2>2. RemoteSize' = 0
    <3>1. stored' = 0 .. (0 - 1)
      BY <1>4 DEF OpenPut
    <3>2. RemoteSize' = SizeOf(stored')
      BY DEF RemoteSize, SizeOf
    <3>. QED BY <3>1, <3>2, SizeOfPrefix, UploadAssumption
  <2>3. [i \in 1 .. RemoteSize' |-> i - 1] = << >>
    BY <2>2
  <2>. QED BY <2>1, <2>3 DEF Copy!vars
<1>5. CASE OpenReput
  BY <1>0, <1>5 DEF OpenReput
<1>6. ASSUME NEW cancel \in BOOLEAN, Iterate(cancel) PROVE UNCHANGED Copy!vars
  BY <1>1, <1>6 DEF Iterate, remote
<1>7. CASE FillBlock
  <2>1. pos # NotOpened /\ pos' # NotOpened
    BY <1>7, FillBlockPending, UploadAssumption DEF AllBlocks, NotOpened, Inv
  <2>2. pc # "done" /\ pc' # "done" /\ UNCHANGED stored
    BY <1>7, FillBlockPending DEF Inv
  <2>. QED BY <2>1, <2>2 DEF Copy!vars, RemoteSize
<1>8. CASE FillEnd \/ FillReadError
  BY <1>1, <1>8 DEF FillEnd, FillReadError, Filling, remote
<1>9. CASE StopFilling \/ LeaveLoop
  BY <1>1, <1>9 DEF StopFilling, LeaveLoop, client, remote
<1>10. ASSUME NEW b \in queue, ReceiveOK(b) PROVE UNCHANGED Copy!vars
  BY <1>1, <1>10, ReceivePending
<1>11. ASSUME NEW b \in queue, ReceiveRejected(b) PROVE FALSE
  BY <1>0, <1>11 DEF ReceiveRejected
<1>12. CASE ReceiveNothing \/ NothingToReceive
  BY <1>1, <1>12 DEF ReceiveNothing, NothingToReceive, remote
<1>13. CASE SendSetstat \/ SendClose
  BY <1>1, <1>13 DEF SendSetstat, SendClose, SendRequest, client
<1>14. CASE SetstatReply
  <2>1. pc = "settling" /\ pc' = "close" /\ UNCHANGED pos
    BY <1>14 DEF SetstatReply, WaitForReply, client
  <2>. QED BY <1>1, <1>14, <2>1, ReplyPending
<1>15. CASE CloseReply
  <2>1. pc = "closing" /\ pc' = "done" /\ UNCHANGED <<pos, ret>>
    BY <1>15 DEF CloseReply, WaitForReply, client
  <2>2. UNCHANGED RemoteSize
    BY <1>15, ReplyPending DEF RemoteSize
  <2>3. CASE ret' # 0 /\ ~disconnected'
    <3>1. pos # NotOpened
      BY <2>1, UploadAssumption DEF Inv, TypeInv, NotOpened
    <3>2. RemoteSize = NBlocks
      <4>1. stored = 0 .. (NBlocks - 1)
        BY <1>0, <2>1, <2>3 DEF Inv, ResultInv, AllBlocks
      <4>. QED BY <4>1, RemoteSizeOfPrefix, UploadAssumption
    <3>. QED BY <2>1, <2>2, <2>3, <3>1, <3>2 DEF Copy!Next, Copy!Succeed
  <2>4. CASE ~ (ret' # 0 /\ ~disconnected')
    BY <2>1, <2>2, <2>4 DEF Copy!Next, Copy!Fail
  <2>. QED BY <2>3, <2>4
<1>16. ASSUME NEW r \in requests, Execute(r) PROVE [Copy!Next]_(Copy!vars)
  BY <1>16, ExecuteCopies
<1>17. CASE LoseConnection
  BY <1>1, <1>17 DEF LoseConnection, client, remote
<1>18. CASE UNCHANGED vars
  BY <1>18 DEF vars, client, remote, Copy!vars, RemoteSize
<1>. QED
  BY <1>3, <1>4, <1>5, <1>6, <1>7, <1>8, <1>9, <1>10, <1>11, <1>12, <1>13, <1>14, <1>15,
     <1>16, <1>17, <1>18
  DEF Next, Client, Open, Fill, Receive, Close, Server, Finished

(* put against a server that works in order implements FileCopy, with the  *)
(* connection dropping and the user cancelling at any time.                *)
THEOREM PutImplementsFileCopy == Spec /\ PutInOrder => Copy!Spec
<1> DEFINE Started == Inv /\ PutInOrder
<1>1. Init => Copy!Init
  BY InitCopies
<1>2. Init /\ PutInOrder => Started
  BY InitInv
<1>3. Started /\ [Next]_vars => Started'
  BY NextInv, FaultsFixed DEF PutInOrder
<1>4. Started /\ [Next]_vars => [Copy!Next]_(Copy!vars)
  BY NextCopies
<1>. QED BY <1>1, <1>2, <1>3, <1>4, PTL DEF Spec, Copy!Spec
=============================================================================
