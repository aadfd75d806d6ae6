----------------------------- MODULE RequestIds -----------------------------
(***************************************************************************)
(* What the SFTP client promises about request identifiers (sftp.c, the   *)
(* sftp_requests tree): at any moment the identifiers in use are distinct, *)
(* a new request gets the lowest identifier that is not in use, and an     *)
(* identifier is given back only when the reply that carries it is matched *)
(* with its request.  RequestTree is the code that keeps the promise.      *)
(***************************************************************************)
EXTENDS Integers

CONSTANTS
  Offset,        \* REQUEST_ID_OFFSET: the first identifier ever handed out
  MaxRequests    \* bound: how many requests may be outstanding at once

VARIABLE used    \* the identifiers of the requests not yet matched

Ids == Offset .. (Offset + MaxRequests - 1)

TypeOK == used \in SUBSET Ids

Init == used = {}

IsLowestFree(id) ==
  /\ id \notin used
  /\ \A j \in Offset .. (id - 1) : j \in used

(* sftp_alloc_request: "always pick the lowest unused one". *)
Allocate(id) == IsLowestFree(id) /\ used' = used \cup {id}

(* sftp_find_request, when a reply matches a request. *)
Release(id) == id \in used /\ used' = used \ {id}

Next == \E id \in Ids : Allocate(id) \/ Release(id)

Spec == Init /\ [][Next]_used
=============================================================================
