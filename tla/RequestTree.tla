---------------------------- MODULE RequestTree -----------------------------
(***************************************************************************)
(* The table of outstanding SFTP requests (PuttyLib/putty/sftp.c): a       *)
(* counted B-tree of requests sorted by identifier, in which               *)
(* sftp_alloc_request binary-searches for the end of the contiguous run    *)
(* Offset, Offset + 1, ... in order to hand out the lowest free            *)
(* identifier, and from which sftp_find_request deletes the request a      *)
(* reply belongs to.                                                       *)
(*                                                                         *)
(* The tree is what index234 shows of it: a sorted array with indices      *)
(* 0 .. count - 1.  The C variables low, high and mid are unsigned and low *)
(* starts as (unsigned)-1; the differences and the sum the code forms wrap *)
(* to the same values as the integers used here, because count is far      *)
(* below 2^32.                                                             *)
(***************************************************************************)
EXTENDS Integers

CONSTANTS
  Offset,        \* REQUEST_ID_OFFSET
  MaxRequests    \* bound: requests outstanding at once (the code has none)

ASSUME RequestTreeAssumption == Offset \in Nat /\ MaxRequests \in Nat \ {0}

VARIABLES
  pc,            \* "idle", or "search" inside sftp_alloc_request
  count,         \* count234(sftp_requests)
  tree,          \* index234: tree[i] is the id of the i-th request
  registered,    \* the ids whose request has registered = 1
  low, high      \* the bounds of the binary search

vars == <<pc, count, tree, registered, low, high>>

Ids == Offset .. (Offset + MaxRequests - 1)

InTree == { tree[i] : i \in 0 .. (count - 1) }

Init ==
  /\ pc = "idle"
  /\ count = 0
  /\ tree = [i \in 0 .. -1 |-> Offset]
  /\ registered = {}
  /\ low = -1
  /\ high = 0

(* sftp_alloc_request, up to the loop. *)
StartSearch ==
  /\ pc = "idle"
  /\ count < MaxRequests
  /\ pc' = "search"
  /\ low' = -1
  /\ high' = count
  /\ UNCHANGED <<count, tree, registered>>

(* Slip: takes every id at or past its place for a contiguous one. *)
Probe_NotExact ==
  /\ pc = "search"
  /\ high - low > 1
  /\ LET mid == (high + low) \div 2 IN
       \/ tree[mid] >= mid + Offset /\ low' = mid /\ high' = high
       \/ tree[mid] < mid + Offset /\ high' = mid /\ low' = low
  /\ UNCHANGED <<pc, count, tree, registered>>

(* One turn of the search loop. *)
Probe ==
  /\ pc = "search"
  /\ high - low > 1
  /\ LET mid == (high + low) \div 2 IN
       \/ tree[mid] = mid + Offset /\ low' = mid /\ high' = high
       \/ tree[mid] # mid + Offset /\ high' = mid /\ low' = low
  /\ UNCHANGED <<pc, count, tree, registered>>

(* add234: the new element goes between the smaller and the larger ones;   *)
(* an element that compares equal to one in the tree is not added.         *)
Insert(id) ==
  \E p \in 0 .. count :
    /\ \A i \in 0 .. (p - 1) : tree[i] < id
    /\ \A i \in p .. (count - 1) : tree[i] > id
    /\ tree' = [i \in 0 .. count |-> IF i < p THEN tree[i]
                                     ELSE IF i = p THEN id ELSE tree[i - 1]]
    /\ count' = count + 1

(* Slip: counts from high, one past the end of the run. *)
AddRequest_FromHigh ==
  /\ pc = "search"
  /\ high - low <= 1
  /\ Insert(high + 1 + Offset)
  /\ pc' = "idle"
  /\ UNCHANGED <<registered, low, high>>

(* sftp_alloc_request, after the loop: assert that the id is not in the    *)
(* tree, create the request unregistered, add it.                          *)
AddRequest ==
  /\ pc = "search"
  /\ high - low <= 1
  /\ Insert(low + 1 + Offset)
  /\ pc' = "idle"
  /\ UNCHANGED <<registered, low, high>>

(* sftp_register: the caller does this once the packet is sent. *)
Register(id) ==
  /\ pc = "idle"
  /\ id \in InTree
  /\ registered' = registered \cup {id}
  /\ UNCHANGED <<pc, count, tree, low, high>>

(* Slip: matches requests that are not registered yet. *)
FindRequest_AnyRequest(id) ==
  /\ pc = "idle"
  /\ \E k \in 0 .. (count - 1) :
       /\ tree[k] = id
       /\ tree' = [i \in 0 .. (count - 2) |-> IF i < k THEN tree[i] ELSE tree[i + 1]]
  /\ count' = count - 1
  /\ registered' = registered \ {id}
  /\ UNCHANGED <<pc, low, high>>

(* Slip: the count is not maintained. *)
FindRequest_StaleCount(id) ==
  /\ pc = "idle"
  /\ id \in registered
  /\ \E k \in 0 .. (count - 1) :
       /\ tree[k] = id
       /\ tree' = [i \in 0 .. (count - 2) |-> IF i < k THEN tree[i] ELSE tree[i + 1]]
  /\ registered' = registered \ {id}
  /\ UNCHANGED <<pc, count, low, high>>

(* sftp_find_request for a reply that carries id: del234 the request, if   *)
(* it is there and registered; any other reply changes nothing.            *)
FindRequest(id) ==
  /\ pc = "idle"
  /\ id \in registered
  /\ \E k \in 0 .. (count - 1) :
       /\ tree[k] = id
       /\ tree' = [i \in 0 .. (count - 2) |-> IF i < k THEN tree[i] ELSE tree[i + 1]]
  /\ count' = count - 1
  /\ registered' = registered \ {id}
  /\ UNCHANGED <<pc, low, high>>

Next ==
  \/ StartSearch \/ Probe \/ AddRequest
  \/ \E id \in Ids : Register(id) \/ FindRequest(id)

Spec == Init /\ [][Next]_vars

-----------------------------------------------------------------------------
(* Every variable has the type its C counterpart has, within the bound. *)
TypeOK ==
  /\ pc \in {"idle", "search"}
  /\ count \in 0 .. MaxRequests
  /\ tree \in [0 .. (count - 1) -> Ids]
  /\ registered \in SUBSET Ids
  /\ low \in -1 .. (MaxRequests - 1)
  /\ high \in 0 .. MaxRequests

(* The ids grow along the index at least as fast as the index: this is     *)
(* what makes "id = index + Offset" a monotone test, on which the binary   *)
(* search rests.                                                           *)
Sorted ==
  \A i, j \in 0 .. (count - 1) : i < j => tree[j] - tree[i] >= j - i

(* The loop invariant the comment in sftp_alloc_request claims: low is -1  *)
(* or the index of an id inside the initial contiguous run, high is past   *)
(* its end.                                                                *)
SearchBrackets ==
  pc = "search" =>
    /\ low < high /\ high <= count
    /\ low >= 0 => tree[low] = low + Offset
    /\ high < count => tree[high] # high + Offset

(* The assertion in sftp_alloc_request (NULL == find234 of the chosen id)  *)
(* never fires, whatever was allocated and answered before, in whatever    *)
(* order.                                                                  *)
AssertIdUnused ==
  pc = "search" /\ high - low <= 1 => low + 1 + Offset \notin InTree

(* The tree implements the promise of RequestIds: lowest id first, and an  *)
(* id is released only by the reply that carries it.                       *)
Promise == INSTANCE RequestIds WITH used <- InTree
LowestIdFirst == Promise!Spec

(* A request that is still being built (not yet registered) is never       *)
(* dropped from the tree by a stray reply that happens to carry its id.    *)
UnregisteredStays ==
  [][\A id \in InTree \ registered : id \in InTree']_vars
=============================================================================
