-------------------------- MODULE PutCommandProofs --------------------------
(***************************************************************************)
(* Proofs about PutCommand, for every number of blocks and attempts: what  *)
(* UploadProofs shows of one upload holds over the reconnects of           *)
(* Server::doCommand, and what FsPutFileW reports and deletes goes by it.  *)
(***************************************************************************)
EXTENDS PutCommand, UploadProofs

(* Before a command is repeated nothing is left of the old connection, and *)
(* the remote file is what the last attempt left.                          *)
LEMMA ReconnectInv == Inv /\ Reconnect => Inv'
<1> SUFFICES ASSUME Inv, Reconnect PROVE Inv'
  OBVIOUS
<1>1. /\ pc = "done" /\ pc' = "open" /\ disconnected
      /\ UNCHANGED <<restart, faults, stored, stamp>>
      /\ pos' = NotOpened /\ queue' = {} /\ requests' = {} /\ executed' = {}
      /\ ret' = 0 /\ attrs' = [size |-> NoSize, time |-> "none"]
      /\ eof' = FALSE /\ err' = FALSE /\ userAbort' = FALSE
      /\ disconnected' = FALSE /\ connected' = TRUE
  BY DEF Reconnect, args
<1>2. TypeInv'
  <2>1. attrs' \in [size : NoSize .. NBlocks, time : {"none", "old", "now", "local"}]
    BY <1>1, UploadAssumption DEF NoSize
  <2>2. pos' \in NotOpened .. NBlocks
    BY <1>1, UploadAssumption DEF NotOpened
  <2>. QED BY <1>1, <2>1, <2>2 DEF Inv, TypeInv, TypeOK
<1>3. QueueInv' /\ PutInv' /\ ResultInv' /\ CoverInv' /\ OrderInv'
  BY <1>1 DEF QueueInv, PutInv, ResultInv, CoverInv, OrderInv, Pending, Transferring
<1>4. OwedInv' /\ CalmInv'
  BY <1>1 DEF OwedInv, AnswersOwed, CalmInv
<1>5. PrefixInv'
  BY <1>1 DEF Inv, PrefixInv, Steady, Calm, IsPrefix, Transferring
<1>6. StampInv'
  <2>1. ~Calm
    BY <1>1 DEF Inv, OwedInv, CalmInv, AnswersOwed, Calm, Benign
  <2>. QED BY <1>1, <2>1 DEF StampInv, Calm
<1>. QED BY <1>2, <1>3, <1>4, <1>5, <1>6 DEF Inv

(* What the command has reported is what its last attempt did.             *)
CommandInv ==
  /\ Inv
  /\ move \in BOOLEAN /\ local \in BOOLEAN
  /\ attempt \in 1 .. Attempts
  /\ result \in {"none", "ok", "failed"}
  /\ result = "ok" => pc = "done" /\ ret # 0 /\ ~disconnected
  /\ local \/ result = "ok"

LEMMA InitCommandInv == CommandInit => CommandInv
BY InitInv, AttemptsAssumption DEF CommandInit, CommandInv

(* Once sftp_put_file has returned, nothing changes its result.            *)
LEMMA ResultStays ==
  ASSUME Client \/ Server \/ LoseConnection, pc = "done"
  PROVE  UNCHANGED <<pc, ret, disconnected>>
<1>1. CASE Client
  BY <1>1 DEF Client, Open, OpenLocalFails, OpenFails, OpenPut, OpenReput, Iterate, Fill,
     FillBlock, FillEnd, FillReadError, Filling, StopFilling, Receive, ReceiveOK,
     ReceiveRejected, ReceiveNothing, NothingToReceive, LeaveLoop, Close, SendSetstat,
     SendClose, SendRequest, SetstatReply, CloseReply, WaitForReply
<1>2. CASE Server
  BY <1>2 DEF Server, Execute, client
<1>3. CASE LoseConnection
  BY <1>3 DEF LoseConnection
<1>. QED BY <1>1, <1>2, <1>3

LEMMA NextCommandInv == CommandInv /\ [CommandNext]_allVars => CommandInv'
<1> SUFFICES ASSUME CommandInv, [CommandNext]_allVars PROVE CommandInv'
  OBVIOUS
<1>1. CASE Transfer
  <2>1. Inv'
    BY <1>1, NextInv DEF Transfer, Next, CommandInv
  <2>2. UNCHANGED <<move, attempt, result, local>>
    BY <1>1 DEF Transfer, command
  <2>3. result = "ok" => UNCHANGED <<pc, ret, disconnected>>
    BY <1>1, ResultStays DEF Transfer, CommandInv
  <2>. QED BY <2>1, <2>2, <2>3 DEF CommandInv
<1>2. ASSUME UNCHANGED vars PROVE Inv' /\ UNCHANGED <<pc, ret, disconnected>>
  BY <1>2, NextInv DEF CommandInv, vars, client
<1>3. CASE Return
  BY <1>2, <1>3 DEF Return, CommandInv
<1>4. CASE Reconnect
  <2>1. Inv' /\ UNCHANGED <<move, result, local>> /\ result = "none"
    BY <1>4, ReconnectInv DEF Reconnect, CommandInv
  <2>2. attempt' \in 1 .. Attempts
    BY <1>4, AttemptsAssumption DEF Reconnect, CommandInv
  <2>. QED BY <2>1, <2>2 DEF CommandInv
<1>5. CASE GiveUp
  BY <1>2, <1>5 DEF GiveUp, CommandInv
<1>6. CASE DeleteLocal
  <2>1. Inv' /\ UNCHANGED <<pc, ret, disconnected, move, attempt, result>>
    BY <1>2, <1>6 DEF DeleteLocal
  <2>2. local' \in BOOLEAN /\ result = "ok"
    BY <1>6 DEF DeleteLocal
  <2>. QED BY <2>1, <2>2 DEF CommandInv
<1>7. CASE UNCHANGED allVars
  <2>1. Inv' /\ UNCHANGED <<pc, ret, disconnected>>
    BY <1>2, <1>7 DEF allVars
  <2>2. UNCHANGED <<move, attempt, result, local>>
    BY <1>7 DEF allVars, command
  <2>. QED BY <2>1, <2>2 DEF CommandInv
<1>. QED BY <1>1, <1>3, <1>4, <1>5, <1>6, <1>7 DEF CommandNext

LEMMA CommandCorrect == CommandSpec => []CommandInv
BY InitCommandInv, NextCommandInv, PTL DEF CommandSpec

LEMMA CommandKeeps == CommandInv => Inv
BY DEF CommandInv

-----------------------------------------------------------------------------
(* Every variable keeps its type, and the command is repeated at most      *)
(* Attempts times.                                                         *)
THEOREM CommandTypeCorrect == CommandSpec => []CommandTypeOK
<1>1. CommandInv => CommandTypeOK
  BY InvImplies DEF CommandInv, CommandTypeOK
<1>. QED BY <1>1, CommandCorrect, PTL

(* In every attempt the queue of fxp_xfer holds exactly the writes without *)
(* an answer while the loop runs on a connection that is up.               *)
THEOREM QueueIsOwed == CommandSpec => []QueueMatchesRequests
BY CommandCorrect, CommandKeeps, InvImplies, PTL

(* put that reports success has stored the whole file: replies may come in *)
(* any order, the user may cancel, the connection may drop.                *)
THEOREM PutSucceedsWhole == CommandSpec => []PutIsStored
BY CommandCorrect, CommandKeeps, InvImplies, PTL

(* However an upload ends, put or reput, the remote file is a prefix of    *)
(* the local one: unless a write is refused, or the connection drops while *)
(* the server works out of order.                                          *)
THEOREM UploadIsResumable == CommandSpec => []ResumableUnlessRefused
BY CommandCorrect, CommandKeeps, InvImplies, PTL

(* An upload that returns on a connection that is up leaves no answer to   *)
(* come, if no write is refused and every packet is known: after a cancel  *)
(* too.                                                                    *)
THEOREM CancelIsClean == CommandSpec => []CancelOwesNothing
BY CommandCorrect, CommandKeeps, InvImplies, PTL

(* A move deletes the local file only when the remote one has all of it,   *)
(* whatever the attempts it took.                                          *)
THEOREM MoveLosesNothing == CommandSpec => []PutMoveKeepsFile
<1>1. CommandInv => PutMoveKeepsFile
  BY DEF CommandInv, Inv, ResultInv, PutMoveKeepsFile, MoveKeepsFile
<1>. QED BY <1>1, CommandCorrect, PTL

(* A put that succeeds over a connection that holds has given the remote   *)
(* file the local file's time.                                             *)
THEOREM SuccessIsStamped == CommandSpec => []OkIsStampedUnlessLost
<1>1. CommandInv => OkIsStampedUnlessLost
  BY DEF CommandInv, Inv, StampInv, Calm, OkIsStampedUnlessLost, OkIsStamped
<1>. QED BY <1>1, CommandCorrect, PTL
=============================================================================
