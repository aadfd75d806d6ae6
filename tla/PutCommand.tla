----------------------------- MODULE PutCommand -----------------------------
(***************************************************************************)
(* One file copied or moved to the server on behalf of Total Commander:    *)
(* FsPutFileW (tc_plugin/fsplugin.cpp) calls Server::cmdPut, which calls   *)
(* Server::doCommand (tc_plugin/server.cpp), which runs sftp_put_file as   *)
(* module Upload has it and, when the connection broke, connects again and *)
(* repeats the command.                                                    *)
(***************************************************************************)
EXTENDS Upload

CONSTANT Attempts        \* how often doCommand runs a command (2 in the code)

ASSUME AttemptsAssumption == Attempts \in Nat \ {0}

VARIABLES
  move,                  \* FS_COPYFLAGS_MOVE was given
  attempt,               \* doCommand's retry counter, from 1
  result,                \* what cmdPut returned: "none" yet, "ok", "failed"
  local                  \* the local file exists

command == <<move, attempt, result, local>>
allVars == <<vars, command>>

CommandInit ==
  /\ Init
  /\ move \in BOOLEAN
  /\ attempt = 1
  /\ result = "none"
  /\ local = TRUE

(* doSftp runs. *)
Transfer == (Client \/ Server \/ LoseConnection) /\ UNCHANGED command

(* doCommand: the command has returned and the connection is up. *)
Return ==
  /\ pc = "done" /\ result = "none"
  /\ ~disconnected
  /\ result' = IF ret # 0 THEN "ok" ELSE "failed"
  /\ UNCHANGED <<vars, move, attempt, local>>

(* Slips: one attempt too many; the attempts are not counted. *)
Reconnect_OneMore ==
  /\ pc = "done" /\ result = "none"
  /\ disconnected
  /\ attempt <= Attempts
  /\ attempt' = attempt + 1
  /\ pc' = "open"
  /\ pos' = NotOpened /\ queue' = {}
  /\ eof' = FALSE /\ err' = FALSE /\ ret' = 0
  /\ attrs' = [size |-> NoSize, time |-> "none"]
  /\ userAbort' = FALSE /\ disconnected' = FALSE /\ connected' = TRUE
  /\ requests' = {} /\ executed' = {}
  /\ UNCHANGED <<args, stored, stamp, move, result, local>>

Reconnect_NotCounted ==
  /\ pc = "done" /\ result = "none"
  /\ disconnected
  /\ attempt < Attempts
  /\ attempt' = attempt
  /\ pc' = "open"
  /\ pos' = NotOpened /\ queue' = {}
  /\ eof' = FALSE /\ err' = FALSE /\ ret' = 0
  /\ attrs' = [size |-> NoSize, time |-> "none"]
  /\ userAbort' = FALSE /\ disconnected' = FALSE /\ connected' = TRUE
  /\ requests' = {} /\ executed' = {}
  /\ UNCHANGED <<args, stored, stamp, move, result, local>>

(* doCommand: the connection is broken, guard.connect() loads a new copy   *)
(* of the DLL, in which attrs is all zeros, and the command is repeated.   *)
Reconnect ==
  /\ pc = "done" /\ result = "none"
  /\ disconnected
  /\ attempt < Attempts
  /\ attempt' = attempt + 1
  /\ pc' = "open"
  /\ pos' = NotOpened /\ queue' = {}
  /\ eof' = FALSE /\ err' = FALSE /\ ret' = 0
  /\ attrs' = [size |-> NoSize, time |-> "none"]
  /\ userAbort' = FALSE /\ disconnected' = FALSE /\ connected' = TRUE
  /\ requests' = {} /\ executed' = {}
  /\ UNCHANGED <<args, stored, stamp, move, result, local>>

(* ... or that fails, or it was the last attempt. *)
GiveUp ==
  /\ pc = "done" /\ result = "none"
  /\ disconnected
  /\ result' = "failed"
  /\ UNCHANGED <<vars, move, attempt, local>>

(* Slip: deleted whatever the result, as FsRenMovFileW does with its own   *)
(* temporary file.                                                         *)
DeleteLocal_Always ==
  /\ result # "none"
  /\ move /\ local
  /\ local' = FALSE
  /\ UNCHANGED <<vars, move, attempt, result>>

(* FsPutFileW: the local file of a move is deleted once the put succeeded. *)
DeleteLocal ==
  /\ result = "ok"
  /\ move /\ local
  /\ local' = FALSE
  /\ UNCHANGED <<vars, move, attempt, result>>

Returned == result # "none" /\ (result = "ok" /\ move => ~local)

CommandNext ==
  Transfer \/ Return \/ Reconnect \/ GiveUp \/ DeleteLocal
    \/ (Returned /\ UNCHANGED allVars)

CommandSpec == CommandInit /\ [][CommandNext]_allVars

(* The thread runs whenever it can; a server that is connected answers. *)
FairCommandSpec ==
  CommandSpec
    /\ WF_allVars(Client /\ UNCHANGED command)
    /\ WF_allVars(Server /\ UNCHANGED command)
    /\ WF_allVars(Return \/ Reconnect \/ GiveUp \/ DeleteLocal)

-----------------------------------------------------------------------------
CommandTypeOK ==
  /\ TypeOK
  /\ move \in BOOLEAN /\ local \in BOOLEAN
  /\ attempt \in 1 .. Attempts
  /\ result \in {"none", "ok", "failed"}

(* A move never loses the file: until it is deleted it is there, and after *)
(* that the remote file has all of it, whatever attempts it took.          *)
MoveKeepsFile == local \/ stored = AllBlocks

PutMoveKeepsFile == Benign /\ ~restart => MoveKeepsFile

(* A copy that succeeded has given the remote file the local time.         *)
OkIsStamped == result = "ok" => stamp = "local"

(* ... which is true of put as long as no reconnect comes in between.      *)
OkIsStampedUnlessLost ==
  faults \subseteq {"reorder", "abort"} /\ ~restart => OkIsStamped

(* The command comes to an end, whatever fails and however often the       *)
(* connection drops.                                                       *)
CommandEnds == <>Returned
=============================================================================
