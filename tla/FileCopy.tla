------------------------------ MODULE FileCopy ------------------------------
(***************************************************************************)
(* What a file transfer promises to whoever asked for it: the copy grows   *)
(* by the next piece of the source and by nothing else, and success is     *)
(* reported only for a copy that is the whole source.  A transfer may fail *)
(* at any moment, leaving the pieces copied so far.                        *)
(***************************************************************************)
EXTENDS Naturals, Sequences

CONSTANT Source          \* the pieces of the file, in order

VARIABLES
  copied,                \* the pieces the copy consists of
  outcome                \* "running", "success" or "failure"

vars == <<copied, outcome>>

Init == copied = << >> /\ outcome = "running"

CopyNext ==
  /\ outcome = "running"
  /\ Len(copied) < Len(Source)
  /\ copied' = Append(copied, Source[Len(copied) + 1])
  /\ UNCHANGED outcome

Succeed ==
  /\ outcome = "running"
  /\ copied = Source
  /\ outcome' = "success"
  /\ UNCHANGED copied

Fail ==
  /\ outcome = "running"
  /\ outcome' = "failure"
  /\ UNCHANGED copied

Next == CopyNext \/ Succeed \/ Fail

Spec == Init /\ [][Next]_vars

(* The transfer does come to an end. *)
FairSpec == Spec /\ WF_vars(Next)
=============================================================================
