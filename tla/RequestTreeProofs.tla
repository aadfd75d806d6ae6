------------------------- MODULE RequestTreeProofs --------------------------
(***************************************************************************)
(* Proofs about the request table: the assertion of sftp_alloc_request     *)
(* never fires, and the table hands out the lowest free identifier, for    *)
(* every offset and every number of outstanding requests.                  *)
(***************************************************************************)
EXTENDS RequestTree, TLAPS

(* While an id is searched for, the bound leaves room for its request. *)
RoomForOne == pc = "search" => count < MaxRequests

(* The inductive invariant.  Sorted is what makes the search sound, and    *)
(* the two bracket conditions are its loop invariant.                      *)
IInv == TypeOK /\ Sorted /\ SearchBrackets /\ RoomForOne

(* The first id of the tree is at least Offset, so the gaps in Sorted put  *)
(* tree[i] at Offset + i or above; and everything below an id that sits at *)
(* its own place sits at its own place too.                                *)
LEMMA RunIsContiguous ==
  ASSUME TypeOK, Sorted
  PROVE  /\ \A i \in 0 .. (count - 1) : tree[i] >= i + Offset
         /\ \A i, j \in 0 .. (count - 1) :
              i <= j /\ tree[j] = j + Offset => tree[i] = i + Offset
<1> USE RequestTreeAssumption
<1>1. ASSUME NEW i \in 0 .. (count - 1)
      PROVE  tree[i] >= i + Offset
  <2>1. tree[0] \in Nat /\ tree[0] >= Offset /\ tree[i] \in Nat
    BY <1>1 DEF TypeOK, Ids
  <2>2. i > 0 => tree[i] - tree[0] >= i - 0
    BY <1>1 DEF Sorted, TypeOK
  <2>. QED BY <1>1, <2>1, <2>2 DEF TypeOK
<1>2. ASSUME NEW i \in 0 .. (count - 1), NEW j \in 0 .. (count - 1),
             i <= j, tree[j] = j + Offset
      PROVE  tree[i] = i + Offset
  <2>1. tree[i] \in Nat /\ tree[i] >= i + Offset
    BY <1>1 DEF TypeOK, Ids
  <2>2. i < j => tree[j] - tree[i] >= j - i
    BY DEF Sorted
  <2>. QED BY <1>2, <2>1, <2>2 DEF TypeOK
<1>. QED BY <1>1, <1>2

(* When the search is over, the chosen id is free and every smaller one is *)
(* in the tree.                                                            *)
LEMMA SearchEndsAtLowestFree ==
  ASSUME IInv, pc = "search", high - low <= 1
  PROVE  /\ low + 1 \in 0 .. count
         /\ \A i \in 0 .. low : tree[i] = i + Offset
         /\ \A i \in (low + 1) .. (count - 1) : tree[i] > low + 1 + Offset
<1> USE RequestTreeAssumption
<1>1. /\ low \in Int /\ high \in Int /\ count \in Nat
      /\ high = low + 1 /\ high <= count /\ low >= -1
  BY DEF IInv, TypeOK, SearchBrackets
<1>2. ASSUME NEW i \in 0 .. low PROVE tree[i] = i + Offset
  BY <1>1, <1>2, RunIsContiguous DEF IInv, SearchBrackets
<1>3. ASSUME NEW i \in (low + 1) .. (count - 1)
      PROVE  tree[i] > low + 1 + Offset
  <2>1. high < count /\ tree[high] # high + Offset /\ tree[high] \in Nat /\ tree[i] \in Nat
    BY <1>1, <1>3 DEF IInv, SearchBrackets, TypeOK, Ids
  <2>2. tree[high] > high + Offset
    BY <1>1, <2>1, RunIsContiguous DEF IInv
  <2>3. i > high => tree[i] - tree[high] >= i - high
    BY <1>1, <1>3, <2>1 DEF IInv, Sorted
  <2>. QED BY <1>1, <1>3, <2>1, <2>2, <2>3
<1>. QED BY <1>1, <1>2, <1>3

LEMMA InitIInv == Init => IInv
BY RequestTreeAssumption DEF Init, IInv, TypeOK, Sorted, SearchBrackets, RoomForOne, Ids

(* Adding the chosen id keeps the order and the bound on the ids. *)
LEMMA AddRequestIInv == IInv /\ AddRequest => IInv'
<1> SUFFICES ASSUME IInv, AddRequest PROVE IInv'
  OBVIOUS
<1> USE RequestTreeAssumption
<1>1. PICK p \in 0 .. count :
        /\ \A i \in 0 .. (p - 1) : tree[i] < low + 1 + Offset
        /\ \A i \in p .. (count - 1) : tree[i] > low + 1 + Offset
        /\ tree' = [i \in 0 .. count |-> IF i < p THEN tree[i]
                       ELSE IF i = p THEN low + 1 + Offset ELSE tree[i - 1]]
        /\ count' = count + 1
  BY DEF AddRequest, Insert
<1>2. /\ low + 1 \in 0 .. count
      /\ \A i \in 0 .. low : tree[i] = i + Offset
      /\ \A i \in (low + 1) .. (count - 1) : tree[i] > low + 1 + Offset
  BY SearchEndsAtLowestFree DEF AddRequest
<1>3. p = low + 1
  <2>1. low \in Int /\ count \in Nat /\ p \in Int /\ Offset \in Int
    BY DEF IInv, TypeOK
  <2>2. ASSUME p < low + 1 PROVE FALSE
    <3>1. p \in 0 .. low /\ p \in p .. (count - 1)
      BY <1>2, <2>1, <2>2
    <3>2. tree[p] = p + Offset /\ tree[p] > low + 1 + Offset
      BY <1>1, <1>2, <3>1
    <3>. QED BY <2>1, <2>2, <3>2
  <2>3. ASSUME p > low + 1 PROVE FALSE
    <3>1. low + 1 \in 0 .. (p - 1) /\ low + 1 \in (low + 1) .. (count - 1)
      BY <1>2, <2>1, <2>3
    <3>2. tree[low + 1] < low + 1 + Offset /\ tree[low + 1] > low + 1 + Offset
      BY <1>1, <1>2, <3>1
    <3>3. tree[low + 1] \in Int
      BY <3>1, <1>2, <2>1 DEF IInv, TypeOK, Ids
    <3>. QED BY <2>1, <3>2, <3>3
  <2>. QED BY <2>1, <2>2, <2>3
<1> DEFINE id == low + 1 + Offset
<1>4. /\ low \in Int /\ count \in Nat /\ Offset \in Nat /\ MaxRequests \in Nat
      /\ tree \in [0 .. (count - 1) -> Ids] /\ id \in Ids
      /\ count + 1 <= MaxRequests
  BY <1>2 DEF IInv, TypeOK, RoomForOne, AddRequest, Ids
<1>5. /\ count' = count + 1 /\ pc' = "idle"
      /\ low' = low /\ high' = high /\ registered' = registered
      /\ DOMAIN tree' = 0 .. count
      /\ \A i \in 0 .. low : tree'[i] = tree[i]
      /\ tree'[low + 1] = id
      /\ \A i \in (low + 2) .. count : tree'[i] = tree[i - 1]
  BY <1>1, <1>2, <1>3, <1>4 DEF AddRequest
<1>6. \A i \in 0 .. count : tree'[i] \in Ids
  <2> SUFFICES ASSUME NEW i \in 0 .. count PROVE tree'[i] \in Ids
    OBVIOUS
  <2>1. CASE i <= low
    BY <1>2, <1>4, <1>5, <2>1
  <2>2. CASE i = low + 1
    BY <1>4, <1>5, <2>2
  <2>3. CASE i > low + 1
    BY <1>2, <1>4, <1>5, <2>3
  <2>. QED BY <1>4, <2>1, <2>2, <2>3
<1>7. TypeOK'
  <2>1. tree' \in [0 .. (count' - 1) -> Ids]
    BY <1>1, <1>4, <1>5, <1>6
  <2>. QED BY <1>4, <1>5, <2>1 DEF IInv, TypeOK
<1>8. Sorted'
  <2> SUFFICES ASSUME NEW i \in 0 .. count, NEW j \in 0 .. count, i < j
               PROVE  tree'[j] - tree'[i] >= j - i
    BY <1>4, <1>5 DEF Sorted
  <2>0. \A k \in 0 .. (count - 1) : tree[k] \in Int
    BY <1>4 DEF Ids
  <2>1. CASE j <= low
    BY <1>2, <1>4, <1>5, <2>0, <2>1 DEF IInv, Sorted
  <2>2. CASE j = low + 1
    BY <1>2, <1>4, <1>5, <2>0, <2>2
  <2>3. CASE i <= low /\ j > low + 1
    <3>1. /\ tree'[i] = i + Offset /\ tree'[j] = tree[j - 1]
          /\ j - 1 \in (low + 1) .. (count - 1) /\ j - 1 \in 0 .. (count - 1)
      BY <1>2, <1>4, <1>5, <2>3
    <3>2. tree[j - 1] > id /\ tree[low + 1] > id /\ tree[low + 1] \in Int
      BY <1>2, <1>4, <2>0, <2>3, <3>1
    <3>3. j - 1 > low + 1 => tree[j - 1] - tree[low + 1] >= (j - 1) - (low + 1)
      BY <1>2, <1>4, <3>1 DEF IInv, Sorted
    <3>. QED BY <1>4, <2>0, <2>3, <3>1, <3>2, <3>3
  <2>4. CASE i = low + 1 /\ j > low + 1
    <3>1. tree[low + 1] > id /\ tree[low + 1] \in Int /\ tree[j - 1] \in Int
      BY <1>2, <1>4, <2>0, <2>4
    <3>2. j - 1 > low + 1 => tree[j - 1] - tree[low + 1] >= (j - 1) - (low + 1)
      BY <1>2, <1>4, <2>4 DEF IInv, Sorted
    <3>3. tree'[j] = tree[j - 1] /\ tree'[i] = id
      BY <1>5, <2>4, <1>4
    <3>. QED BY <1>4, <2>4, <3>1, <3>2, <3>3 DEF Ids
  <2>5. CASE i > low + 1
    <3>1. tree'[j] = tree[j - 1] /\ tree'[i] = tree[i - 1]
      BY <1>4, <1>5, <2>5
    <3>2. tree[j - 1] - tree[i - 1] >= (j - 1) - (i - 1)
      BY <1>2, <1>4, <2>5 DEF IInv, Sorted
    <3>. QED BY <1>2, <1>4, <2>0, <2>5, <3>1, <3>2
  <2>. QED BY <1>4, <2>1, <2>2, <2>3, <2>4, <2>5
<1>9. SearchBrackets' /\ RoomForOne'
  BY <1>5 DEF SearchBrackets, RoomForOne
<1>. QED BY <1>7, <1>8, <1>9 DEF IInv

(* Deleting a request closes the gap by one place, which only widens the   *)
(* distances Sorted asks for.                                              *)
LEMMA FindRequestIInv ==
  ASSUME IInv, NEW id \in Ids, FindRequest(id)
  PROVE  IInv'
<1> USE RequestTreeAssumption
<1>1. PICK k \in 0 .. (count - 1) :
        /\ tree[k] = id
        /\ tree' = [i \in 0 .. (count - 2) |-> IF i < k THEN tree[i] ELSE tree[i + 1]]
  BY DEF FindRequest
<1>2. /\ count' = count - 1 /\ pc' = "idle" /\ low' = low /\ high' = high
      /\ registered' \in SUBSET Ids
  BY DEF FindRequest, IInv, TypeOK
<1>3. /\ count \in 1 .. MaxRequests /\ tree \in [0 .. (count - 1) -> Ids]
      /\ \A i \in 0 .. (count - 1) : tree[i] \in Int
  BY DEF IInv, TypeOK, Ids
<1>4. TypeOK'
  <2>1. tree' \in [0 .. (count' - 1) -> Ids]
    BY <1>1, <1>2, <1>3
  <2>. QED BY <1>2, <1>3, <2>1 DEF IInv, TypeOK
<1>5. Sorted'
  <2> SUFFICES ASSUME NEW i \in 0 .. (count - 2), NEW j \in 0 .. (count - 2), i < j
               PROVE  tree'[j] - tree'[i] >= j - i
    BY <1>2, <1>3 DEF Sorted
  <2>1. PICK a \in 0 .. (count - 1), b \in 0 .. (count - 1) :
          /\ tree'[i] = tree[a] /\ tree'[j] = tree[b]
          /\ a < b /\ b - a >= j - i
    <3>1. CASE j < k
      <4>1. tree'[i] = tree[i] /\ tree'[j] = tree[j]
        BY <1>1, <3>1
      <4>. QED BY <1>3, <3>1, <4>1
    <3>2. CASE i < k /\ j >= k
      <4>1. tree'[i] = tree[i] /\ tree'[j] = tree[j + 1]
        BY <1>1, <3>2
      <4>. QED BY <1>3, <3>2, <4>1
    <3>3. CASE i >= k
      <4>1. tree'[i] = tree[i + 1] /\ tree'[j] = tree[j + 1]
        BY <1>1, <3>3
      <4>. QED BY <1>3, <3>3, <4>1
    <3>. QED BY <1>3, <3>1, <3>2, <3>3
  <2>2. tree[b] - tree[a] >= b - a
    BY <2>1 DEF IInv, Sorted
  <2>. QED BY <1>3, <2>1, <2>2
<1>. QED BY <1>2, <1>4, <1>5 DEF IInv, SearchBrackets, RoomForOne

LEMMA ProbeIInv == IInv /\ Probe => IInv'
<1> SUFFICES ASSUME IInv, Probe PROVE IInv'
  OBVIOUS
<1> USE RequestTreeAssumption
<1> DEFINE mid == (high + low) \div 2
<1>1. /\ low \in Int /\ high \in Int /\ count \in Nat /\ low >= -1
      /\ high - low > 1 /\ high <= count
  BY DEF IInv, TypeOK, SearchBrackets, Probe
<1>2. mid \in Int /\ low < mid /\ mid < high
  BY <1>1
<1> HIDE DEF mid
<1>3. /\ \/ tree[mid] = mid + Offset /\ low' = mid /\ high' = high
         \/ tree[mid] # mid + Offset /\ high' = mid /\ low' = low
      /\ UNCHANGED <<pc, count, tree, registered>>
  BY DEF Probe, mid
<1>4. TypeOK'
  BY <1>1, <1>2, <1>3 DEF IInv, TypeOK, Ids
<1>5. SearchBrackets'
  BY <1>1, <1>2, <1>3 DEF IInv, SearchBrackets
<1>. QED BY <1>3, <1>4, <1>5 DEF IInv, Sorted, RoomForOne

LEMMA NextIInv == IInv /\ [Next]_vars => IInv'
<1> SUFFICES ASSUME IInv, [Next]_vars PROVE IInv'
  OBVIOUS
<1>1. CASE StartSearch
  BY <1>1, RequestTreeAssumption
  DEF IInv, StartSearch, TypeOK, Sorted, SearchBrackets, RoomForOne, Ids
<1>2. CASE Probe
  BY <1>2, ProbeIInv
<1>3. CASE AddRequest
  BY <1>3, AddRequestIInv
<1>4. ASSUME NEW id \in Ids, Register(id) PROVE IInv'
  BY <1>4 DEF IInv, Register, TypeOK, Sorted, SearchBrackets, RoomForOne
<1>5. ASSUME NEW id \in Ids, FindRequest(id) PROVE IInv'
  BY <1>5, FindRequestIInv
<1>6. CASE UNCHANGED vars
  BY <1>6 DEF vars, IInv, TypeOK, Sorted, SearchBrackets, RoomForOne
<1>. QED BY <1>1, <1>2, <1>3, <1>4, <1>5, <1>6 DEF Next

THEOREM SpecIInv == Spec => []IInv
BY InitIInv, NextIInv, PTL DEF Spec

(* The table always has its type: the count is the number of elements, and *)
(* an index never leaves the array.                                        *)
THEOREM TypeCorrect == Spec => []TypeOK
<1>1. IInv => TypeOK
  BY DEF IInv
<1>. QED BY <1>1, SpecIInv, PTL

(* Whatever was allocated and answered before, the ids grow at least as    *)
(* fast as the index, and the binary search encloses the end of the run of *)
(* ids that starts at Offset.                                              *)
THEOREM SearchIsSound == Spec => [](Sorted /\ SearchBrackets)
<1>1. IInv => Sorted /\ SearchBrackets
  BY DEF IInv
<1>. QED BY <1>1, SpecIInv, PTL

(* The assertion in sftp_alloc_request never fires. *)
THEOREM AssertNeverFires == Spec => []AssertIdUnused
<1>1. IInv => AssertIdUnused
  <2> SUFFICES ASSUME IInv, pc = "search", high - low <= 1
               PROVE  low + 1 + Offset \notin InTree
    BY DEF AssertIdUnused
  <2>1. /\ low \in Int /\ count \in Nat /\ Offset \in Nat
        /\ \A i \in 0 .. (count - 1) : tree[i] \in Int
    BY RequestTreeAssumption DEF IInv, TypeOK, Ids
  <2>2. /\ \A i \in 0 .. low : tree[i] = i + Offset
        /\ \A i \in (low + 1) .. (count - 1) : tree[i] > low + 1 + Offset
    BY SearchEndsAtLowestFree
  <2>3. ASSUME NEW i \in 0 .. (count - 1) PROVE tree[i] # low + 1 + Offset
    BY <2>1, <2>2
  <2>. QED BY <2>3 DEF InTree
<1>. QED BY <1>1, SpecIInv, PTL

(* Every step of the table is a step of the promise, or none: only the     *)
(* last line of sftp_alloc_request and the deletion in sftp_find_request   *)
(* change the set of ids, the one by the lowest free id and the other by   *)
(* exactly the id the reply carries.                                       *)
LEMMA AddRequestAllocates ==
  ASSUME IInv, AddRequest
  PROVE  Promise!Next /\ InTree \subseteq InTree'
<1> DEFINE id == low + 1 + Offset
<1>1. /\ low \in Int /\ count \in Nat /\ Offset \in Nat /\ low + 1 \in 0 .. count
      /\ \A i \in 0 .. (count - 1) : tree[i] \in Int
      /\ count < MaxRequests /\ MaxRequests \in Nat
      /\ \A i \in 0 .. low : tree[i] = i + Offset
      /\ \A i \in (low + 1) .. (count - 1) : tree[i] > id
  BY RequestTreeAssumption, SearchEndsAtLowestFree
  DEF IInv, TypeOK, Ids, RoomForOne, AddRequest
<1>2. id \in Promise!Ids
  BY <1>1 DEF Promise!Ids
<1>3. id \notin InTree
  <2>1. ASSUME NEW i \in 0 .. (count - 1) PROVE tree[i] # id
    BY <1>1
  <2>. QED BY <2>1 DEF InTree
<1>4. ASSUME NEW j \in Offset .. (id - 1) PROVE j \in InTree
  <2>1. j - Offset \in 0 .. low /\ j - Offset \in 0 .. (count - 1)
    BY <1>1
  <2>2. tree[j - Offset] = j
    BY <1>1, <2>1
  <2>. QED BY <2>1, <2>2 DEF InTree
<1>5. InTree' = InTree \cup {id}
  <2>1. PICK p \in 0 .. count :
          /\ tree' = [i \in 0 .. count |-> IF i < p THEN tree[i]
                         ELSE IF i = p THEN id ELSE tree[i - 1]]
          /\ count' = count + 1
    BY DEF AddRequest, Insert
  <2>2. ASSUME NEW i \in 0 .. count PROVE tree'[i] \in InTree \cup {id}
    <3>1. CASE i < p
      BY <1>1, <2>1, <3>1 DEF InTree
    <3>2. CASE i = p
      BY <2>1, <3>2
    <3>3. CASE i > p
      <4>1. tree'[i] = tree[i - 1] /\ i - 1 \in 0 .. (count - 1)
        BY <1>1, <2>1, <3>3
      <4>. QED BY <4>1 DEF InTree
    <3>. QED BY <1>1, <3>1, <3>2, <3>3
  <2>3. id \in InTree'
    <3>1. tree'[p] = id /\ p \in 0 .. (count' - 1)
      BY <1>1, <2>1
    <3>. QED BY <3>1 DEF InTree
  <2>4. ASSUME NEW i \in 0 .. (count - 1) PROVE tree[i] \in InTree'
    <3>1. CASE i < p
      <4>1. tree'[i] = tree[i] /\ i \in 0 .. (count' - 1)
        BY <1>1, <2>1, <3>1
      <4>. QED BY <4>1 DEF InTree
    <3>2. CASE i >= p
      <4>1. tree'[i + 1] = tree[i] /\ i + 1 \in 0 .. (count' - 1)
        BY <1>1, <2>1, <3>2
      <4>. QED BY <4>1 DEF InTree
    <3>. QED BY <1>1, <3>1, <3>2
  <2>5. InTree' = { tree'[i] : i \in 0 .. count }
    BY <1>1, <2>1 DEF InTree
  <2>. QED BY <2>2, <2>3, <2>4, <2>5 DEF InTree
<1>6. Promise!Allocate(id)
  BY <1>3, <1>4, <1>5 DEF Promise!Allocate, Promise!IsLowestFree
<1>. QED BY <1>2, <1>5, <1>6 DEF Promise!Next

LEMMA FindRequestReleases ==
  ASSUME IInv, NEW id \in Ids, FindRequest(id)
  PROVE  Promise!Next /\ InTree' = InTree \ {id}
<1>1. PICK k \in 0 .. (count - 1) :
        /\ tree[k] = id
        /\ tree' = [i \in 0 .. (count - 2) |-> IF i < k THEN tree[i] ELSE tree[i + 1]]
  BY DEF FindRequest
<1>2. /\ count \in Nat /\ count' = count - 1
      /\ \A i \in 0 .. (count - 1) : tree[i] \in Int
  BY RequestTreeAssumption DEF FindRequest, IInv, TypeOK, Ids
<1>3. ASSUME NEW i \in 0 .. (count - 1), i # k PROVE tree[i] # id
  <2>1. i < k => tree[k] - tree[i] >= k - i
    BY DEF IInv, Sorted
  <2>2. k < i => tree[i] - tree[k] >= i - k
    BY DEF IInv, Sorted
  <2>. QED BY <1>1, <1>2, <1>3, <2>1, <2>2
<1>4. InTree' = InTree \ {id}
  <2>1. ASSUME NEW i \in 0 .. (count - 2) PROVE tree'[i] \in InTree \ {id}
    <3>1. CASE i < k
      <4>1. tree'[i] = tree[i] /\ i \in 0 .. (count - 1) /\ i # k
        BY <1>1, <1>2, <3>1
      <4>. QED BY <1>3, <4>1 DEF InTree
    <3>2. CASE i >= k
      <4>1. tree'[i] = tree[i + 1] /\ i + 1 \in 0 .. (count - 1) /\ i + 1 # k
        BY <1>1, <1>2, <3>2
      <4>. QED BY <1>3, <4>1 DEF InTree
    <3>. QED BY <1>2, <3>1, <3>2
  <2>2. ASSUME NEW i \in 0 .. (count - 1), tree[i] # id PROVE tree[i] \in InTree'
    <3>1. CASE i < k
      <4>1. tree'[i] = tree[i] /\ i \in 0 .. (count' - 1)
        BY <1>1, <1>2, <3>1
      <4>. QED BY <4>1 DEF InTree
    <3>2. CASE i > k
      <4>1. tree'[i - 1] = tree[i] /\ i - 1 \in 0 .. (count' - 1)
        BY <1>1, <1>2, <3>2
      <4>. QED BY <4>1 DEF InTree
    <3>. QED BY <1>1, <1>2, <2>2, <3>1, <3>2
  <2>3. InTree' = { tree'[i] : i \in 0 .. (count - 2) }
    BY <1>2 DEF InTree
  <2>. QED BY <2>1, <2>2, <2>3 DEF InTree
<1>5. id \in InTree
  BY <1>1 DEF InTree
<1>. QED BY <1>4, <1>5 DEF Promise!Next, Promise!Release, Promise!Ids, Ids

(* The table keeps the promise of RequestIds: whatever the order in which  *)
(* requests are allocated and answered, the id handed out is the lowest    *)
(* free one and no id is lost or shared.                                   *)
THEOREM TableKeepsPromise == Spec => LowestIdFirst
<1>1. Init => Promise!Init
  BY DEF Init, InTree, Promise!Init
<1>2. IInv /\ [Next]_vars => [Promise!Next]_InTree
  <2> SUFFICES ASSUME IInv, [Next]_vars PROVE Promise!Next \/ InTree' = InTree
    OBVIOUS
  <2>1. CASE StartSearch
    BY <2>1 DEF StartSearch, InTree
  <2>2. CASE Probe
    BY <2>2 DEF Probe, InTree
  <2>3. CASE AddRequest
    BY <2>3, AddRequestAllocates
  <2>4. ASSUME NEW id \in Ids, Register(id) PROVE InTree' = InTree
    BY <2>4 DEF Register, InTree
  <2>5. ASSUME NEW id \in Ids, FindRequest(id) PROVE Promise!Next
    BY <2>5, FindRequestReleases
  <2>6. CASE UNCHANGED vars
    BY <2>6 DEF vars, InTree
  <2>. QED BY <2>1, <2>2, <2>3, <2>4, <2>5, <2>6 DEF Next
<1>. QED BY <1>1, <1>2, SpecIInv, PTL DEF Spec, LowestIdFirst, Promise!Spec

(* A reply never removes a request that is still being built, whatever id  *)
(* it carries.                                                             *)
THEOREM UnregisteredSurvives == Spec => UnregisteredStays
<1>1. IInv /\ [Next]_vars => [\A id \in InTree \ registered : id \in InTree']_vars
  <2> SUFFICES ASSUME IInv, Next, NEW id \in InTree \ registered PROVE id \in InTree'
    OBVIOUS
  <2>1. CASE StartSearch \/ Probe
    BY <2>1 DEF StartSearch, Probe, InTree
  <2>2. CASE AddRequest
    BY <2>2, AddRequestAllocates
  <2>3. ASSUME NEW r \in Ids, Register(r) PROVE id \in InTree'
    BY <2>3 DEF Register, InTree
  <2>4. ASSUME NEW r \in Ids, FindRequest(r) PROVE id \in InTree'
    <3>1. r \in registered
      BY <2>4 DEF FindRequest
    <3>. QED BY <2>4, <3>1, FindRequestReleases
  <2>. QED BY <2>1, <2>2, <2>3, <2>4 DEF Next
<1>. QED BY <1>1, SpecIInv, PTL DEF Spec, UnregisteredStays
=============================================================================
