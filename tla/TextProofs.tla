----------------------------- MODULE TextProofs -----------------------------
(***************************************************************************)
(* Proofs about Text: the upload of a text file, the mode of chmod, the    *)
(* paths of canonify and the lists of extensions, for inputs of any        *)
(* length.  Loops over a sequence are folds in the modules; here a fold is *)
(* first shown to be a run, a function of the elements that were read.     *)
(***************************************************************************)
EXTENDS Text, WellFoundedInduction, TLAPS

-----------------------------------------------------------------------------
LEMMA LeastNat ==
  ASSUME NEW S \in SUBSET Nat, S # {}
  PROVE  \E n \in S : \A m \in S : n <= m
<1> DEFINE R == { ss \in Nat \X Nat : ss[1] < ss[2] }
<1>1. IsWellFoundedOn(R, Nat)
  BY NatLessThanWellFounded DEF OpToRel
<1>2. PICK n \in S : \A m \in S : ~ (<<m, n>> \in R)
  BY <1>1, WFMin
<1>3. ASSUME NEW m \in S PROVE n <= m
  <2>1. m < n => <<m, n>> \in R
    OBVIOUS
  <2>2. m \in Nat /\ n \in Nat /\ ~ (m < n)
    BY <1>2, <2>1
  <2>. HIDE DEF R
  <2>. QED BY <2>2
<1>. QED BY <1>3

(* Induction up to n, over the set of the numbers for which a claim holds. *)
LEMMA UpTo ==
  ASSUME NEW n \in Nat, NEW Holds, 0 \in Holds,
         \A i \in 1 .. n : i - 1 \in Holds => i \in Holds
  PROVE  0 .. n \subseteq Holds
<1>. SUFFICES ASSUME ~ (0 .. n \subseteq Holds) PROVE FALSE
  OBVIOUS
<1> DEFINE S == { i \in 0 .. n : i \notin Holds }
<1>1. S # {} /\ S \in SUBSET Nat
  OBVIOUS
<1>2. PICK i \in S : \A m \in S : i <= m
  <2>. HIDE DEF S
  <2>. QED BY <1>1, LeastNat
<1>3. i \in 1 .. n /\ i \notin Holds
  BY <1>2
<1>4. i - 1 \in Holds
  BY <1>2, <1>3
<1>. QED BY <1>3, <1>4

(* A function on D that is defined by recursion: what it is for d, which   *)
(* is F[d, the function], depends on its values of a lower rank only.      *)
Recursion(D, S, F, rank, n) ==
  /\ S # {} /\ n \in Nat
  /\ rank \in [D -> 0 .. n]
  /\ \A d \in D : \A g \in [D -> S] : F[<<d, g>>] \in S
  /\ \A d \in D : \A g \in [D -> S] : \A h \in [D -> S] :
       (\A e \in D : rank[e] < rank[d] => g[e] = h[e])
         => F[<<d, g>>] = F[<<d, h>>]

(* There is such a function.                                               *)
LEMMA RecursionExists ==
  ASSUME NEW D, NEW S, NEW F, NEW rank, NEW n, Recursion(D, S, F, rank, n)
  PROVE  \E g \in [D -> S] : \A d \in D : g[d] = F[<<d, g>>]
<1>. USE DEF Recursion
<1> DEFINE Good(i, g) == \A d \in D : rank[d] < i => g[d] = F[<<d, g>>]
           Holds == { i \in 0 .. n + 1 : \E g \in [D -> S] : Good(i, g) }
<1>1. 0 \in Holds
  <2>1. PICK s \in S : TRUE
    OBVIOUS
  <2>2. [d \in D |-> s] \in [D -> S] /\ Good(0, [d \in D |-> s])
    <3>1. \A d \in D : rank[d] \in 0 .. n
      OBVIOUS
    <3>2. \A d \in D : ~ (rank[d] < 0)
      BY <3>1
    <3>. QED BY <2>1, <3>2
  <2>. HIDE DEF Good
  <2>. QED BY <2>2
<1>2. ASSUME NEW i \in 1 .. n + 1, i - 1 \in Holds PROVE i \in Holds
  <2>1. PICK g \in [D -> S] : Good(i - 1, g)
    BY <1>2
  <2> DEFINE h == [d \in D |-> IF rank[d] = i - 1 THEN F[<<d, g>>] ELSE g[d]]
  <2>2. h \in [D -> S]
    <3>1. \A d \in D : F[<<d, g>>] \in S /\ g[d] \in S
      OBVIOUS
    <3>. QED BY <3>1
  <2>3. ASSUME NEW d \in D, rank[d] < i PROVE h[d] = F[<<d, h>>]
    <3>1. \A e \in D : rank[e] < rank[d] => g[e] = h[e]
      BY <2>3
    <3>2. F[<<d, g>>] = F[<<d, h>>]
      <4>. HIDE DEF h
      <4>. QED BY <2>2, <3>1
    <3>3. h[d] = F[<<d, g>>]
      <4>1. rank[d] \in Nat /\ rank[d] < i
        BY <2>3
      <4>2. rank[d] # i - 1 => rank[d] < i - 1
        BY <4>1
      <4>3. rank[d] # i - 1 => g[d] = F[<<d, g>>]
        BY <4>2, <2>1
      <4>. QED BY <4>3
    <3>. QED BY <3>2, <3>3
  <2>4. Good(i, h)
    BY <2>3
  <2>. HIDE DEF h, Good
  <2>. QED BY <2>2, <2>4
<1>3. n + 1 \in Holds
  <2>. HIDE DEF Holds
  <2>1. 0 .. n + 1 \subseteq Holds
    BY <1>1, <1>2, UpTo
  <2>. QED BY <2>1
<1>4. PICK g \in [D -> S] : Good(n + 1, g)
  BY <1>3
<1>. QED BY <1>4

(* A fold over a sequence is a run from its base, one element after the    *)
(* other: FoldLeft takes the largest index of a set away first.            *)
LEMMA LargestIsMax ==
  ASSUME NEW i \in Nat, NEW s, s \subseteq 1 .. i, i \in s
  PROVE  Max(s) = i
<1>1. \A y \in s : y \in Nat /\ i >= y
  OBVIOUS
<1>2. \A x \in s : (\A y \in s : x >= y) => x = i
  BY <1>1
<1>. QED BY <1>1, <1>2 DEF Max

LEMMA PrefixSets ==
  ASSUME NEW n \in Nat, NEW i \in 1 .. n
  PROVE  /\ 1 .. i \in SUBSET (1 .. n) /\ 1 .. i # {}
         /\ Max(1 .. i) = i
         /\ (1 .. i) \ {i} = 1 .. i - 1
<1>1. Max(1 .. i) = i
  BY LargestIsMax
<1>. QED BY <1>1

LEMMA MaxInSet ==
  ASSUME NEW n \in Nat, NEW s \in SUBSET (1 .. n), s # {}
  PROVE  Max(s) \in s /\ \A i \in s : i <= Max(s)
<1> DEFINE T == { n - i : i \in s }
<1>1. T \in SUBSET Nat /\ T # {}
  <2>1. \A i \in s : n - i \in Nat
    OBVIOUS
  <2>. QED BY <2>1
<1>2. PICK m \in T : \A k \in T : m <= k
  <2>. HIDE DEF T
  <2>. QED BY <1>1, LeastNat
<1>3. PICK i \in s : m = n - i
  BY <1>2
<1>4. \A j \in s : i >= j
  <2>1. \A j \in s : n - j \in T /\ j \in Nat /\ i \in Nat
    OBVIOUS
  <2>2. \A j \in s : n - i <= n - j
    BY <2>1, <1>2, <1>3
  <2>. QED BY <2>1, <2>2
<1>. QED BY <1>4 DEF Max

(* F[i, x] is what the i-th step of a fold makes of x.                     *)
FoldSteps(n, S, base, F) ==
  n \in Nat /\ base \in S /\ \A i \in 1 .. n : \A x \in S : F[<<i, x>>] \in S

FoldGraph(n, S, base, F, g) ==
  /\ g \in [SUBSET (1 .. n) -> S]
  /\ \A s \in SUBSET (1 .. n) :
       g[s] = IF s = {} THEN base ELSE F[<<Max(s), g[s \ {Max(s)}]>>]

(* The function behind a fold over 1 .. n exists.                          *)
LEMMA FoldExists ==
  ASSUME NEW n, NEW S, NEW base, NEW F, FoldSteps(n, S, base, F)
  PROVE  \E g : FoldGraph(n, S, base, F, g)
<1>. USE DEF FoldSteps
<1> DEFINE D == SUBSET (1 .. n)
           rank == [s \in D |-> IF s = {} THEN 0 ELSE Max(s)]
           E(s, g) == IF s = {} THEN base ELSE F[<<Max(s), g[s \ {Max(s)}]>>]
           G == [y \in D \X [D -> S] |-> E(y[1], y[2])]
<1>1. rank \in [D -> 0 .. n]
  <2>1. \A s \in D : s # {} => Max(s) \in 1 .. n
    BY MaxInSet
  <2>2. \A s \in D : (IF s = {} THEN 0 ELSE Max(s)) \in 0 .. n
    BY <2>1
  <2>. QED BY <2>2
<1>2. \A s \in D : \A g \in [D -> S] : G[<<s, g>>] = E(s, g)
  OBVIOUS
<1>3. ASSUME NEW s \in D, NEW g \in [D -> S] PROVE G[<<s, g>>] \in S
  <2>1. CASE s = {}
    BY <2>1, <1>2
  <2>2. CASE s # {}
    <3>1. Max(s) \in 1 .. n /\ s \ {Max(s)} \in D
      BY <2>2, MaxInSet
    <3>2. g[s \ {Max(s)}] \in S
      BY <3>1
    <3>. QED BY <3>1, <3>2, <2>2, <1>2
  <2>. QED BY <2>1, <2>2
<1>4. ASSUME NEW s \in D, NEW g \in [D -> S], NEW h \in [D -> S],
             \A e \in D : rank[e] < rank[s] => g[e] = h[e]
      PROVE  G[<<s, g>>] = G[<<s, h>>]
  <2>1. CASE s = {}
    BY <2>1, <1>2
  <2>2. CASE s # {}
    <3> DEFINE e == s \ {Max(s)}
    <3>1. Max(s) \in s /\ Max(s) \in 1 .. n /\ \A i \in s : i <= Max(s)
      BY <2>2, MaxInSet
    <3>2. e \in D
      OBVIOUS
    <3>3. rank[e] < rank[s]
      <4>1. e = {} \/ (Max(e) \in e /\ Max(e) \in 1 .. n)
        BY <3>2, MaxInSet
      <4>2. e # {} => Max(e) < Max(s)
        BY <4>1, <3>1
      <4>. HIDE DEF e
      <4>. QED BY <2>2, <3>1, <3>2, <4>1, <4>2
    <3>4. g[e] = h[e]
      BY <3>2, <3>3, <1>4
    <3>. QED BY <3>4, <2>2, <1>2
  <2>. QED BY <2>1, <2>2
<1>5. PICK g \in [D -> S] : \A s \in D : g[s] = G[<<s, g>>]
  <2>. HIDE DEF D, rank, G
  <2>1. \A s \in D : \A g \in [D -> S] : G[<<s, g>>] \in S
    BY <1>3
  <2>2. \A s \in D : \A g \in [D -> S] : \A h \in [D -> S] :
          (\A e \in D : rank[e] < rank[s] => g[e] = h[e]) => G[<<s, g>>] = G[<<s, h>>]
    BY <1>4
  <2>3. S # {} /\ n \in Nat
    OBVIOUS
  <2>4. Recursion(D, S, G, rank, n)
    BY <1>1, <2>1, <2>2, <2>3 DEF Recursion
  <2>. QED BY <2>4, RecursionExists
<1>6. \A s \in D : g[s] = E(s, g)
  <2>. HIDE DEF G, E
  <2>. QED BY <1>5, <1>2
<1>. HIDE DEF G
<1>. QED BY <1>6 DEF FoldGraph

(* The function g computes such a fold as MapThenFoldSet does.             *)
ComputesFold(n, S, base, F, g) ==
  /\ g[{}] = base
  /\ \A s \in SUBSET (1 .. n) :
       s # {} /\ g[s \ {Max(s)}] \in S => g[s] = F[<<Max(s), g[s \ {Max(s)}]>>]

RunOf(n, S, base, F, h) ==
  /\ h \in [0 .. n -> S]
  /\ h[0] = base
  /\ \A i \in 1 .. n : h[i] = F[<<i, h[i - 1]>>]

LEMMA FoldRun ==
  ASSUME NEW n, NEW S, NEW base, NEW F, NEW g,
         FoldSteps(n, S, base, F), ComputesFold(n, S, base, F, g)
  PROVE  \E h : RunOf(n, S, base, F, h) /\ h[n] = g[1 .. n]
<1> DEFINE h == [i \in 0 .. n |-> g[1 .. i]]
<1>1. n \in Nat /\ base \in S /\ \A i \in 1 .. n : \A x \in S : F[<<i, x>>] \in S
  BY DEF FoldSteps
<1>2. h[0] = base /\ h[n] = g[1 .. n]
  <2>1. 1 .. 0 = {} /\ 0 \in 0 .. n /\ n \in 0 .. n
    BY <1>1
  <2>2. g[{}] = base
    BY DEF ComputesFold
  <2>. QED BY <2>1, <2>2
<1>3. ASSUME NEW i \in 1 .. n, h[i - 1] \in S
      PROVE  h[i] = F[<<i, h[i - 1]>>] /\ h[i] \in S
  <2>1. /\ 1 .. i \in SUBSET (1 .. n) /\ 1 .. i # {}
        /\ Max(1 .. i) = i /\ (1 .. i) \ {i} = 1 .. i - 1
    BY <1>1, PrefixSets
  <2>2. i \in 0 .. n /\ i - 1 \in 0 .. n
    BY <1>1
  <2>3. h[i] = g[1 .. i] /\ h[i - 1] = g[1 .. i - 1]
    BY <2>2
  <2>. HIDE DEF h
  <2>4. g[1 .. i] = F[<<Max(1 .. i), g[(1 .. i) \ {Max(1 .. i)}]>>]
    BY <2>1, <2>3, <1>3 DEF ComputesFold
  <2>. QED BY <2>1, <2>3, <2>4, <1>1, <1>3
<1>4. \A i \in 0 .. n : h[i] \in S
  <2> DEFINE Holds == { i \in 0 .. n : h[i] \in S }
  <2>1. 0 \in Holds
    <3>1. 0 \in 0 .. n
      BY <1>1
    <3>. HIDE DEF h
    <3>. QED BY <3>1, <1>1, <1>2
  <2>2. ASSUME NEW i \in 1 .. n, i - 1 \in Holds PROVE i \in Holds
    <3>1. i \in 0 .. n
      BY <1>1
    <3>. HIDE DEF h
    <3>2. h[i - 1] \in S
      BY <2>2
    <3>. QED BY <3>1, <3>2, <1>3
  <2>3. 0 .. n \subseteq Holds
    <3>. HIDE DEF Holds
    <3>. QED BY <1>1, <2>1, <2>2, UpTo
  <2>. QED BY <2>3
<1>5. h \in [0 .. n -> S]
  BY <1>4
<1>6. \A i \in 1 .. n : i - 1 \in 0 .. n
  BY <1>1
<1>7. RunOf(n, S, base, F, h)
  <2>. HIDE DEF h
  <2>. QED BY <1>2, <1>3, <1>4, <1>5, <1>6 DEF RunOf
<1>. HIDE DEF h
<1>. QED BY <1>2, <1>7

-----------------------------------------------------------------------------
(* chmod.                                                                  *)

NoMasks == [clr |-> {}, xor |-> {}]
MaskPairs == [clr : SUBSET AllBits, xor : SUBSET AllBits]
EachLetter == {"u", "g", "o", "a"}

(* What a clause names are permissions.                                    *)
LEMMA ClauseBits ==
  ASSUME NEW c \in Clause
  PROVE  Given(c) \subseteq Subset(c) /\ Subset(c) \subseteq AllBits
<1>1. \A who \in EachLetter : Mask(who) \subseteq AllBits
  <2>1. \A who \in {"u", "g", "o"} : Bits(who) \subseteq AllBits
    BY Zenon DEF AllBits
  <2>2. Set("u") \in AllBits /\ Set("g") \in AllBits
    BY Zenon DEF AllBits
  <2>3. /\ Mask("u") = Bits("u") \cup {Set("u")}
        /\ Mask("g") = Bits("g") \cup {Set("g")}
        /\ Mask("o") = Bits("o")
        /\ Mask("a") = AllBits \ {Sticky}
    BY DEF Mask
  <2>4. \A who : who \in EachLetter => who = "u" \/ who = "g" \/ who = "o" \/ who = "a"
    BY DEF EachLetter
  <2>5. Mask("u") \subseteq AllBits /\ Mask("g") \subseteq AllBits
        /\ Mask("o") \subseteq AllBits /\ Mask("a") \subseteq AllBits
    BY Zenon, <2>1, <2>2, <2>3
  <2>. QED BY Zenon, <2>4, <2>5
<1>2. c.who \subseteq EachLetter
  BY ChmodAssumption DEF Clause, EachLetter
<1>3. Whom(c) \subseteq AllBits
  BY <1>1, <1>2 DEF Whom
<1>4. Sticky \in AllBits
  BY Zenon DEF AllBits
<1>5. Subset(c) \subseteq AllBits
  BY <1>3, <1>4 DEF Subset
<1>. QED BY <1>5 DEF Given

LEMMA AddClauseMasks ==
  ASSUME NEW m \in MaskPairs, NEW c \in Clause
  PROVE  /\ AddClause(m, c) \in MaskPairs
         /\ AddClause(m, c).clr =
              m.clr \cup IF c.action = "=" THEN Subset(c) ELSE Given(c)
         /\ AddClause(m, c).xor =
              IF c.action = "-" THEN m.xor \ Given(c) ELSE m.xor \cup Given(c)
<1> DEFINE a == AddClause(m, c)
           C == m.clr \cup IF c.action = "=" THEN Subset(c) ELSE Given(c)
           X == IF c.action = "-" THEN m.xor \ Given(c) ELSE m.xor \cup Given(c)
<1>1. Given(c) \subseteq Subset(c) /\ Subset(c) \subseteq AllBits
  BY ClauseBits
<1>2. m.clr \subseteq AllBits /\ m.xor \subseteq AllBits
      /\ m = [clr |-> m.clr, xor |-> m.xor]
  BY DEF MaskPairs
<1>3. a = [[m EXCEPT !.clr = C] EXCEPT !.xor = X]
  BY DEF AddClause
<1>4. a = [clr |-> C, xor |-> X]
  <2>. HIDE DEF a, C, X
  <2>. QED BY <1>2, <1>3
<1>5. C \subseteq AllBits /\ X \subseteq AllBits
  BY <1>1, <1>2
<1>6. a.clr = C /\ a.xor = X /\ a \in MaskPairs
  <2>. HIDE DEF a, C, X
  <2>. QED BY <1>4, <1>5 DEF MaskPairs
<1>. QED BY <1>6

(* One clause more in the masks is the clause applied to what the masks    *)
(* make of the permissions.                                                *)
LEMMA OneMoreClause ==
  ASSUME NEW old \in SUBSET AllBits, NEW m \in MaskPairs, NEW c \in Clause,
         m.xor \subseteq m.clr,
         c.action = "=" => m.xor \cap (Subset(c) \ Given(c)) = {}
  PROVE  /\ AddClause(m, c) \in MaskPairs
         /\ AddClause(m, c).xor \subseteq AddClause(m, c).clr
         /\ AddClause(m, c).xor \subseteq
              m.xor \cup IF c.action = "-" THEN {} ELSE Given(c)
         /\ NewPerms(old, AddClause(m, c)) = Apply(NewPerms(old, m), c)
<1> DEFINE a == AddClause(m, c)
           G == Given(c)
           S == Subset(c)
<1>1. c.action \in {"+", "-", "="}
  BY DEF Clause
<1>2. G \subseteq S /\ S \subseteq AllBits
  BY ClauseBits
<1>4. /\ a \in MaskPairs
      /\ a.clr = m.clr \cup IF c.action = "=" THEN S ELSE G
      /\ a.xor = IF c.action = "-" THEN m.xor \ G ELSE m.xor \cup G
  BY AddClauseMasks
<1>6. NewPerms(old, a) = Apply(NewPerms(old, m), c)
  <2> DEFINE N == NewPerms(old, m)
  <2>1. \A b : b \in N <=> ((b \in old /\ b \notin m.clr) \/ b \in m.xor)
    BY DEF NewPerms
  <2>2. \A b : b \in NewPerms(old, a) <=> ((b \in old /\ b \notin a.clr) \/ b \in a.xor)
    <3>1. a.xor \subseteq a.clr
      <4>. HIDE DEF a, G, S
      <4>. QED BY <1>2, <1>4
    <3>. HIDE DEF a
    <3>. QED BY <3>1 DEF NewPerms
  <2>3. Apply(N, c) = CASE c.action = "+" -> N \cup G
                        [] c.action = "-" -> N \ G
                        [] c.action = "=" -> (N \ S) \cup G
    BY DEF Apply
  <2>. HIDE DEF a, G, S, N
  <2>4. \A b : b \in Apply(N, c) <=>
                 (b \in N /\ b \notin (IF c.action = "+" THEN {}
                                    ELSE IF c.action = "-" THEN G ELSE S))
                 \/ (c.action # "-" /\ b \in G)
    BY <1>1, <2>3
  <2>5. \A b : b \in NewPerms(old, a) <=> b \in Apply(N, c)
    <3>1. c.action = "=" => \A b \in S \ G : b \notin m.xor
      BY DEF S, G
    <3>. QED BY <1>1, <1>2, <1>4, <2>1, <2>2, <2>4, <3>1
  <2>. QED BY <2>5 DEF N
<1>7. a.xor \subseteq a.clr /\ a.xor \subseteq m.xor \cup IF c.action = "-" THEN {} ELSE G
  <2>. HIDE DEF a, G, S
  <2>. QED BY <1>2, <1>4
<1>. QED BY <1>4, <1>6, <1>7

LEMMA ModesAreSequences ==
  ASSUME NEW mode \in Modes
  PROVE  /\ Len(mode) \in Nat /\ DOMAIN mode = 1 .. Len(mode)
         /\ \A i \in 1 .. Len(mode) : mode[i] \in Clause
<1>1. PICK n \in 1 .. MaxClauses : mode \in [1 .. n -> Clause]
  BY DEF Modes
<1>2. mode \in Seq(Clause) /\ Len(mode) = n
  <2>1. n \in Nat
    BY ChmodAssumption
  <2>. QED BY <1>1, <2>1
<1>. QED BY <1>2

(* The masks of a mode are built clause by clause.                         *)
LEMMA MasksRun ==
  ASSUME NEW mode \in Modes
  PROVE  \E h \in [0 .. Len(mode) -> MaskPairs] :
           /\ h[0] = NoMasks
           /\ \A i \in 1 .. Len(mode) : h[i] = AddClause(h[i - 1], mode[i])
           /\ Masks(mode) = h[Len(mode)]
<1> DEFINE n == Len(mode)
           F == [y \in (1 .. n) \X MaskPairs |-> AddClause(y[2], mode[y[1]])]
           P(g) == g = [s \in SUBSET (1 .. n) |->
                          IF s = {} THEN NoMasks
                          ELSE AddClause(g[s \ {Max(s)}], mode[Max(s)])]
           g == CHOOSE k : P(k)
<1>1. n \in Nat /\ DOMAIN mode = 1 .. n /\ \A i \in 1 .. n : mode[i] \in Clause
  BY ModesAreSequences
<1>2. NoMasks \in MaskPairs
  BY DEF NoMasks, MaskPairs
<1>3. \A i \in 1 .. n : \A x \in MaskPairs :
        F[<<i, x>>] = AddClause(x, mode[i]) /\ F[<<i, x>>] \in MaskPairs
  BY <1>1, AddClauseMasks
<1>4. FoldSteps(n, MaskPairs, NoMasks, F)
  <2>. HIDE DEF F, n
  <2>. QED BY <1>1, <1>2, <1>3 DEF FoldSteps
<1>5. \E k : P(k)
  <2>1. PICK k : FoldGraph(n, MaskPairs, NoMasks, F, k)
    <3>. HIDE DEF F, n
    <3>. QED BY <1>4, FoldExists
  <2>2. ASSUME NEW s \in SUBSET (1 .. n)
        PROVE  k[s] = IF s = {} THEN NoMasks
                      ELSE AddClause(k[s \ {Max(s)}], mode[Max(s)])
    <3>1. s # {} => Max(s) \in 1 .. n /\ k[s \ {Max(s)}] \in MaskPairs
      BY <1>1, <2>1, MaxInSet DEF FoldGraph
    <3>. HIDE DEF F, n
    <3>. QED BY <3>1, <1>3, <2>1 DEF FoldGraph
  <2>3. P(k)
    <3>1. k \in [SUBSET (1 .. n) -> MaskPairs]
      BY <2>1 DEF FoldGraph
    <3>. HIDE DEF n
    <3>. QED BY <2>2, <3>1
  <2>. QED BY <2>3
<1>6. P(g)
  <2>. HIDE DEF P
  <2>. QED BY <1>5
<1>7. Masks(mode) = g[1 .. n]
  BY <1>1, Zenon DEF Masks, FoldLeft, MapThenFoldSet, NoMasks
<1>8. ComputesFold(n, MaskPairs, NoMasks, F, g)
  <2>1. \A s \in SUBSET (1 .. n) :
          g[s] = IF s = {} THEN NoMasks ELSE AddClause(g[s \ {Max(s)}], mode[Max(s)])
    BY <1>6
  <2>2. \A s \in SUBSET (1 .. n) : s # {} => Max(s) \in 1 .. n
    BY <1>1, MaxInSet
  <2>. HIDE DEF g, F, n
  <2>. QED BY <2>1, <2>2, <1>3 DEF ComputesFold
<1>9. PICK h : RunOf(n, MaskPairs, NoMasks, F, h) /\ h[n] = g[1 .. n]
  <2>. HIDE DEF g, F, n
  <2>. QED BY <1>4, <1>8, FoldRun
<1>10. \A i \in 1 .. n : h[i - 1] \in MaskPairs
  BY <1>1, <1>9 DEF RunOf
<1>. HIDE DEF g, F, n
<1>11. h \in [0 .. n -> MaskPairs] /\ h[0] = NoMasks
       /\ \A i \in 1 .. n : h[i] = AddClause(h[i - 1], mode[i])
  BY <1>3, <1>9, <1>10 DEF RunOf
<1>. QED BY <1>7, <1>9, <1>11 DEF n

LEMMA ApplyBits ==
  ASSUME NEW old \in SUBSET AllBits, NEW c \in Clause
  PROVE  Apply(old, c) \in SUBSET AllBits
<1>1. c.action \in {"+", "-", "="}
  BY DEF Clause
<1>2. Apply(old, c) \subseteq old \cup Given(c)
  BY <1>1 DEF Apply
<1>. QED BY <1>2, ClauseBits

(* The clauses one after the other.                                        *)
LEMMA OneByOneRun ==
  ASSUME NEW old \in SUBSET AllBits, NEW mode \in Modes
  PROVE  \E h \in [0 .. Len(mode) -> SUBSET AllBits] :
           /\ h[0] = old
           /\ \A i \in 1 .. Len(mode) : h[i] = Apply(h[i - 1], mode[i])
           /\ OneByOne(old, mode) = h[Len(mode)]
<1> DEFINE n == Len(mode)
           F == [y \in (1 .. n) \X (SUBSET AllBits) |-> Apply(y[2], mode[y[1]])]
           P(g) == g = [s \in SUBSET (1 .. n) |->
                          IF s = {} THEN old
                          ELSE Apply(g[s \ {Max(s)}], mode[Max(s)])]
           g == CHOOSE k : P(k)
<1>1. n \in Nat /\ DOMAIN mode = 1 .. n /\ \A i \in 1 .. n : mode[i] \in Clause
  BY ModesAreSequences
<1>2. old \in SUBSET AllBits
  OBVIOUS
<1>3. \A i \in 1 .. n : \A x \in SUBSET AllBits :
        F[<<i, x>>] = Apply(x, mode[i]) /\ F[<<i, x>>] \in SUBSET AllBits
  BY <1>1, ApplyBits
<1>4. FoldSteps(n, SUBSET AllBits, old, F)
  <2>. HIDE DEF F, n
  <2>. QED BY <1>1, <1>2, <1>3 DEF FoldSteps
<1>5. \E k : P(k)
  <2>1. PICK k : FoldGraph(n, SUBSET AllBits, old, F, k)
    <3>. HIDE DEF F, n
    <3>. QED BY <1>4, FoldExists
  <2>2. ASSUME NEW s \in SUBSET (1 .. n)
        PROVE  k[s] = IF s = {} THEN old
                      ELSE Apply(k[s \ {Max(s)}], mode[Max(s)])
    <3>1. s # {} => Max(s) \in 1 .. n /\ k[s \ {Max(s)}] \in SUBSET AllBits
      BY <1>1, <2>1, MaxInSet DEF FoldGraph
    <3>. HIDE DEF F, n
    <3>. QED BY <3>1, <1>3, <2>1 DEF FoldGraph
  <2>3. P(k)
    <3>1. k \in [SUBSET (1 .. n) -> SUBSET AllBits]
      BY <2>1 DEF FoldGraph
    <3>. HIDE DEF n
    <3>. QED BY <2>2, <3>1
  <2>. QED BY <2>3
<1>6. P(g)
  <2>. HIDE DEF P
  <2>. QED BY <1>5
<1>7. OneByOne(old, mode) = g[1 .. n]
  BY <1>1, Zenon DEF OneByOne, FoldLeft, MapThenFoldSet
<1>8. ComputesFold(n, SUBSET AllBits, old, F, g)
  <2>1. \A s \in SUBSET (1 .. n) :
          g[s] = IF s = {} THEN old ELSE Apply(g[s \ {Max(s)}], mode[Max(s)])
    BY <1>6
  <2>2. \A s \in SUBSET (1 .. n) : s # {} => Max(s) \in 1 .. n
    BY <1>1, MaxInSet
  <2>. HIDE DEF g, F, n
  <2>. QED BY <2>1, <2>2, <1>3 DEF ComputesFold
<1>9. PICK h : RunOf(n, SUBSET AllBits, old, F, h) /\ h[n] = g[1 .. n]
  <2>. HIDE DEF g, F, n
  <2>. QED BY <1>4, <1>8, FoldRun
<1>10. \A i \in 1 .. n : h[i - 1] \in SUBSET AllBits
  BY <1>1, <1>9 DEF RunOf
<1>. HIDE DEF g, F, n
<1>11. h \in [0 .. n -> SUBSET AllBits] /\ h[0] = old
       /\ \A i \in 1 .. n : h[i] = Apply(h[i - 1], mode[i])
  BY <1>3, <1>9, <1>10 DEF RunOf
<1>. QED BY <1>7, <1>9, <1>11 DEF n

(* The masks do to the permissions what the clauses of a mode do one after *)
(* the other, however many they are, unless a clause with = comes after    *)
(* one that sets bits for the same (sftp_cmd_chmod).                       *)
THEOREM MasksApplyTheClauses ==
  ASSUME NEW old \in SUBSET AllBits, NEW mode \in Modes, ~ Reassigns(mode)
  PROVE  NewPerms(old, Masks(mode)) = OneByOne(old, mode)
<1> DEFINE n == Len(mode)
           Adds(i) == IF mode[i].action = "-" THEN {} ELSE Given(mode[i])
<1>1. n \in Nat /\ DOMAIN mode = 1 .. n /\ \A i \in 1 .. n : mode[i] \in Clause
  BY ModesAreSequences
<1>2. PICK m \in [0 .. n -> MaskPairs] :
        /\ m[0] = NoMasks
        /\ \A i \in 1 .. n : m[i] = AddClause(m[i - 1], mode[i])
        /\ Masks(mode) = m[n]
  BY MasksRun
<1>3. PICK o \in [0 .. n -> SUBSET AllBits] :
        /\ o[0] = old
        /\ \A i \in 1 .. n : o[i] = Apply(o[i - 1], mode[i])
        /\ OneByOne(old, mode) = o[n]
  BY OneByOneRun
<1> DEFINE Good(i) == /\ m[i].xor \subseteq m[i].clr
                      /\ m[i].xor \subseteq UNION { Adds(k) : k \in 1 .. i }
                      /\ NewPerms(old, m[i]) = o[i]
           Holds == { i \in 0 .. n : Good(i) }
<1>4. 0 \in Holds
  <2>1. m[0].xor = {} /\ m[0].clr = {}
    BY <1>2 DEF NoMasks
  <2>2. NewPerms(old, m[0]) = old
    BY <2>1 DEF NewPerms
  <2>. QED BY <2>1, <2>2, <1>1, <1>3
<1>5. ASSUME NEW i \in 1 .. n, i - 1 \in Holds PROVE i \in Holds
  <2> DEFINE c == mode[i]
  <2>1. /\ i \in 0 .. n /\ i - 1 \in 0 .. n /\ c \in Clause
        /\ m[i - 1] \in MaskPairs /\ Good(i - 1)
        /\ m[i] = AddClause(m[i - 1], c) /\ o[i] = Apply(o[i - 1], c)
    BY <1>1, <1>2, <1>3, <1>5
  <2>2. ASSUME c.action = "=" PROVE m[i - 1].xor \cap (Subset(c) \ Given(c)) = {}
    <3>1. ASSUME NEW b \in m[i - 1].xor, b \in Subset(c) \ Given(c) PROVE FALSE
      <4>1. PICK k \in 1 .. i - 1 : b \in Adds(k)
        BY <2>1, <3>1
      <4>2. mode[k].action # "-" /\ b \in Given(mode[k])
        BY <4>1
      <4>3. i \in DOMAIN mode /\ mode[i].action = "="
            /\ Given(mode[k]) \cap (Subset(mode[i]) \ Given(mode[i])) # {}
        BY <1>1, <2>2, <3>1, <4>2
      <4>. QED BY <4>1, <4>2, <4>3 DEF Reassigns
    <3>. QED BY <3>1
  <2>3. /\ m[i].xor \subseteq m[i].clr
        /\ m[i].xor \subseteq m[i - 1].xor \cup Adds(i)
        /\ NewPerms(old, m[i]) = Apply(NewPerms(old, m[i - 1]), c)
    <3>1. m[i - 1].xor \subseteq m[i - 1].clr
      BY <2>1
    <3>2. m[i].xor \subseteq m[i - 1].xor \cup IF c.action = "-" THEN {} ELSE Given(c)
      <4>. HIDE DEF c
      <4>. QED BY <2>1, <2>2, <3>1, OneMoreClause
    <3>3. /\ m[i].xor \subseteq m[i].clr
          /\ NewPerms(old, m[i]) = Apply(NewPerms(old, m[i - 1]), c)
      <4>. HIDE DEF c
      <4>. QED BY <2>1, <2>2, <3>1, OneMoreClause
    <3>. QED BY <3>2, <3>3
  <2>4. UNION { Adds(k) : k \in 1 .. i - 1 } \subseteq UNION { Adds(k) : k \in 1 .. i }
        /\ Adds(i) \subseteq UNION { Adds(k) : k \in 1 .. i }
    <3>1. \A k \in 1 .. i - 1 : k \in 1 .. i
      BY <1>1
    <3>2. i \in 1 .. i
      BY <1>1
    <3>. HIDE DEF Adds
    <3>. QED BY <3>1, <3>2
  <2>5. Good(i)
    <3>. HIDE DEF Adds
    <3>. QED BY <2>1, <2>3, <2>4
  <2>. QED BY <2>1, <2>5
<1>6. 0 .. n \subseteq Holds
  <2>. HIDE DEF Holds, n
  <2>. QED BY <1>1, <1>4, <1>5, UpTo
<1>7. Good(n)
  BY <1>1, <1>6
<1>. QED BY <1>2, <1>3, <1>7

-----------------------------------------------------------------------------
(* The texts.                                                              *)

(* FlattenSeq concatenates one sequence after the other.                   *)
LEMMA FlattenRun ==
  ASSUME NEW T, NEW ss \in Seq(Seq(T)), Len(ss) # 0
  PROVE  \E g \in [1 .. Len(ss) -> Seq(T)] :
           /\ g[1] = ss[1]
           /\ \A i \in 2 .. Len(ss) : g[i] = g[i - 1] \o ss[i]
           /\ FlattenSeq(ss) = g[Len(ss)]
<1> DEFINE n == Len(ss)
           E(i, g) == IF i = 1 THEN ss[i] ELSE g[i - 1] \o ss[i]
           P(g) == g = [i \in 1 .. n |-> IF i = 1 THEN ss[i] ELSE g[i - 1] \o ss[i]]
           D == 1 .. n
           S == Seq(T)
           F == [y \in D \X [D -> S] |-> E(y[1], y[2])]
           rank == [i \in D |-> i]
           k == CHOOSE g : P(g)
<1>1. n \in Nat /\ n >= 1 /\ \A i \in 1 .. n : ss[i] \in Seq(T)
  OBVIOUS
<1>2. ASSUME NEW i \in D, NEW g \in [D -> S] PROVE E(i, g) \in S
  <2>1. CASE i = 1
    BY <1>1, <2>1
  <2>2. CASE i # 1
    <3>1. i - 1 \in D
      BY <1>1, <2>2
    <3>2. g[i - 1] \in Seq(T) /\ ss[i] \in Seq(T)
      BY <1>1, <3>1
    <3>3. g[i - 1] \o ss[i] \in Seq(T)
      BY <3>2
    <3>. QED BY <2>2, <3>3
  <2>. QED BY <2>1, <2>2
<1>3. \A i \in D : \A g \in [D -> S] : F[<<i, g>>] = E(i, g)
  OBVIOUS
<1>4. Recursion(D, S, F, rank, n)
  <2>1. rank \in [D -> 0 .. n] /\ \A i \in D : rank[i] = i
    BY <1>1
  <2>2. ASSUME NEW d \in D, NEW g \in [D -> S], NEW h \in [D -> S],
               \A e \in D : rank[e] < rank[d] => g[e] = h[e]
        PROVE  F[<<d, g>>] = F[<<d, h>>]
    <3>1. d # 1 => d - 1 \in D /\ rank[d - 1] < rank[d]
      BY <1>1, <2>1
    <3>2. d # 1 => g[d - 1] = h[d - 1]
      BY <3>1, <2>2
    <3>3. E(d, g) = E(d, h)
      BY <3>2
    <3>. HIDE DEF E, F
    <3>. QED BY <3>3, <1>3
  <2>3. \A i \in D : \A g \in [D -> S] : F[<<i, g>>] \in S
    <3>. HIDE DEF E, F
    <3>. QED BY <1>2, <1>3
  <2>4. S # {}
    <3>1. <<>> \in Seq(T)
      OBVIOUS
    <3>. QED BY <3>1
  <2>5. \A d \in D : \A g \in [D -> S] : \A h \in [D -> S] :
          (\A e \in D : rank[e] < rank[d] => g[e] = h[e]) => F[<<d, g>>] = F[<<d, h>>]
    BY <2>2
  <2>. HIDE DEF F, rank, D, S, n
  <2>. QED BY <1>1, <2>1, <2>3, <2>4, <2>5 DEF Recursion
<1>5. PICK g \in [D -> S] : \A i \in D : g[i] = F[<<i, g>>]
  <2>. HIDE DEF F, rank, D, S, n
  <2>. QED BY <1>4, RecursionExists
<1>6. P(g)
  <2>1. \A i \in D : g[i] = E(i, g)
    <3>. HIDE DEF E, F
    <3>. QED BY <1>3, <1>5
  <2>. QED BY <2>1
<1>7. P(k)
  <2>. HIDE DEF P
  <2>. QED BY <1>6
<1>8. FlattenSeq(ss) = k[n]
  BY <1>1, Zenon DEF FlattenSeq
<1>9. /\ k[1] = ss[1]
      /\ \A i \in 2 .. n : k[i] = k[i - 1] \o ss[i]
  <2>1. \A i \in 1 .. n : k[i] = IF i = 1 THEN ss[i] ELSE k[i - 1] \o ss[i]
    BY <1>7
  <2>2. 1 \in 1 .. n /\ \A i \in 2 .. n : i \in 1 .. n /\ i # 1
    BY <1>1
  <2>. HIDE DEF k, n
  <2>. QED BY <2>1, <2>2
<1>10. \A i \in 1 .. n : k[i] \in Seq(T)
  <2> DEFINE Holds == { i \in 0 .. n : i = 0 \/ k[i] \in Seq(T) }
  <2>1. 0 \in Holds
    BY <1>1
  <2>2. ASSUME NEW i \in 1 .. n, i - 1 \in Holds PROVE i \in Holds
    <3>1. CASE i = 1
      <4>1. k[1] \in Seq(T) /\ 1 \in 0 .. n
        <5>. HIDE DEF k
        <5>. QED BY <1>1, <1>9
      <4>. HIDE DEF k
      <4>. QED BY <3>1, <4>1
    <3>2. CASE i # 1
      <4>1. i \in 2 .. n /\ k[i - 1] \in Seq(T) /\ ss[i] \in Seq(T) /\ i \in 0 .. n
        BY <1>1, <2>2, <3>2
      <4>2. k[i - 1] \o ss[i] \in Seq(T)
        <5>. HIDE DEF k
        <5>. QED BY <4>1
      <4>3. k[i] = k[i - 1] \o ss[i]
        BY <4>1, <1>9
      <4>. HIDE DEF k
      <4>. QED BY <4>1, <4>2, <4>3
    <3>. QED BY <3>1, <3>2
  <2>3. 0 .. n \subseteq Holds
    <3>. HIDE DEF Holds, n
    <3>. QED BY <1>1, <2>1, <2>2, UpTo
  <2>4. \A i \in 1 .. n : i \in Holds /\ i # 0
    <3>1. \A i \in 1 .. n : i \in 0 .. n /\ i # 0
      BY <1>1
    <3>. HIDE DEF Holds, n
    <3>. QED BY <3>1, <2>3
  <2>. HIDE DEF k
  <2>. QED BY <2>4
<1>11. k \in [1 .. n -> Seq(T)]
  <2>1. k = [i \in 1 .. n |-> k[i]]
    <3>. HIDE DEF k
    <3>. QED BY <1>7
  <2>. HIDE DEF k, n
  <2>. QED BY <2>1, <1>10
<1>. HIDE DEF k
<1>. QED BY <1>8, <1>9, <1>11

LEMMA FlattenAppend ==
  ASSUME NEW T, NEW ss \in Seq(Seq(T)), NEW s \in Seq(T)
  PROVE  /\ FlattenSeq(ss) \in Seq(T)
         /\ FlattenSeq(Append(ss, s)) = FlattenSeq(ss) \o s
<1> DEFINE n == Len(ss)
           t == Append(ss, s)
<1>1. n \in Nat /\ t \in Seq(Seq(T)) /\ Len(t) = n + 1 /\ t[n + 1] = s
      /\ \A i \in 1 .. n : t[i] = ss[i]
  OBVIOUS
<1>2. PICK h \in [1 .. n + 1 -> Seq(T)] :
        /\ h[1] = t[1]
        /\ \A i \in 2 .. n + 1 : h[i] = h[i - 1] \o t[i]
        /\ FlattenSeq(t) = h[n + 1]
  <2>1. PICK h \in [1 .. Len(t) -> Seq(T)] :
          /\ h[1] = t[1]
          /\ \A i \in 2 .. Len(t) : h[i] = h[i - 1] \o t[i]
          /\ FlattenSeq(t) = h[Len(t)]
    <3>1. t \in Seq(Seq(T)) /\ Len(t) # 0
      BY <1>1
    <3>. HIDE DEF t
    <3>. QED BY <3>1, FlattenRun
  <2>. HIDE DEF t
  <2>. QED BY <1>1, <2>1
<1>3. CASE n = 0
  <2>1. ss = <<>> /\ <<>> \o s = s
    BY <1>3
  <2>3. FlattenSeq(ss) = ss
    BY <1>3, Zenon DEF FlattenSeq
  <2>2. h[1] = s
    BY <1>1, <1>2, <1>3
  <2>. HIDE DEF t
  <2>4. FlattenSeq(t) = s
    BY <2>2, <1>1, <1>2, <1>3
  <2>5. <<>> \in Seq(T)
    OBVIOUS
  <2>. QED BY <2>1, <2>3, <2>4, <2>5 DEF t
<1>4. CASE n # 0
  <2>1. PICK g \in [1 .. n -> Seq(T)] :
          /\ g[1] = ss[1]
          /\ \A i \in 2 .. n : g[i] = g[i - 1] \o ss[i]
          /\ FlattenSeq(ss) = g[n]
    BY <1>4, FlattenRun
  <2> DEFINE Holds == { i \in 0 .. n : i = 0 \/ h[i] = g[i] }
  <2>. HIDE DEF t, n
  <2>2. 0 \in Holds
    BY <1>1
  <2>3. ASSUME NEW i \in 1 .. n, i - 1 \in Holds PROVE i \in Holds
    <3>1. CASE i = 1
      BY <3>1, <1>1, <1>2, <1>4, <2>1
    <3>2. CASE i # 1
      <4>1. i \in 2 .. n /\ i \in 2 .. n + 1 /\ i \in 0 .. n /\ i \in 1 .. n
            /\ h[i - 1] = g[i - 1]
        BY <1>1, <2>3, <3>2
      <4>2. h[i] = h[i - 1] \o t[i] /\ g[i] = g[i - 1] \o ss[i] /\ t[i] = ss[i]
        BY <4>1, <1>1, <1>2, <2>1
      <4>. QED BY <4>1, <4>2
    <3>. QED BY <3>1, <3>2
  <2>4. 0 .. n \subseteq Holds
    <3>. HIDE DEF Holds
    <3>. QED BY <1>1, <2>2, <2>3, UpTo
  <2>5. h[n] = g[n] /\ n \in 1 .. n
    BY <1>1, <1>4, <2>4
  <2>6. n + 1 \in 2 .. n + 1 /\ (n + 1) - 1 = n
    BY <1>1, <1>4
  <2>7. h[n + 1] = g[n] \o s
    BY <1>1, <1>2, <2>5, <2>6
  <2>. QED BY <1>2, <2>1, <2>5, <2>7 DEF t
<1>. QED BY <1>3, <1>4

LEMMA FlattenEmpty == FlattenSeq(<<>>) = <<>>
<1>1. Len(<<>>) = 0
  OBVIOUS
<1>. QED BY <1>1, Zenon DEF FlattenSeq

(* The text of the first n bytes of a file, seen with the byte after them. *)
KeptOf(f, i) == IF EndsLine(f, i) THEN <<>> ELSE <<f[i]>>
UnixFirst(f, n) == FlattenSeq([i \in 1 .. n |-> KeptOf(f, i)])

LEMMA UnixFirstSteps ==
  ASSUME NEW f \in Seq(Bytes)
  PROVE  /\ UnixFirst(f, 0) = <<>>
         /\ UnixText(f) = UnixFirst(f, Len(f))
         /\ \A n \in 0 .. Len(f) : UnixFirst(f, n) \in Seq(Bytes)
         /\ \A n \in 1 .. Len(f) :
              UnixFirst(f, n) = UnixFirst(f, n - 1) \o KeptOf(f, n)
<1> DEFINE parts(n) == [i \in 1 .. n |-> KeptOf(f, i)]
<1>1. \A i \in 1 .. Len(f) : KeptOf(f, i) \in Seq(Bytes)
  <2>1. \A i \in 1 .. Len(f) : f[i] \in Bytes
    OBVIOUS
  <2>. QED BY <2>1 DEF KeptOf
<1>2. \A n \in 0 .. Len(f) : parts(n) \in Seq(Seq(Bytes))
  <2>1. \A n \in 0 .. Len(f) : n \in Nat /\ \A i \in 1 .. n : i \in 1 .. Len(f)
    OBVIOUS
  <2>. QED BY <1>1, <2>1
<1>3. ASSUME NEW n \in 1 .. Len(f)
      PROVE  UnixFirst(f, n) = UnixFirst(f, n - 1) \o KeptOf(f, n)
  <2>1. parts(n) = Append(parts(n - 1), KeptOf(f, n))
    <3>1. n \in Nat /\ n - 1 \in Nat /\ Len(parts(n - 1)) = n - 1
      OBVIOUS
    <3>. QED BY <3>1
  <2>2. parts(n - 1) \in Seq(Seq(Bytes))
    <3>1. n - 1 \in 0 .. Len(f)
      OBVIOUS
    <3>. HIDE DEF parts
    <3>. QED BY <3>1, <1>2
  <2>3. FlattenSeq(Append(parts(n - 1), KeptOf(f, n))) = FlattenSeq(parts(n - 1)) \o KeptOf(f, n)
    <3>. HIDE DEF parts
    <3>. QED BY <2>2, <1>1, FlattenAppend
  <2>. HIDE DEF parts
  <2>4. FlattenSeq(parts(n)) = FlattenSeq(parts(n - 1)) \o KeptOf(f, n)
    BY <2>1, <2>3
  <2>. QED BY <2>4 DEF UnixFirst, parts
<1>4. UnixFirst(f, 0) = <<>>
  <2>1. parts(0) = <<>>
    OBVIOUS
  <2>. HIDE DEF parts
  <2>2. FlattenSeq(parts(0)) = <<>>
    BY <2>1, FlattenEmpty
  <2>. QED BY <2>2 DEF UnixFirst, parts
<1>5. ASSUME NEW n \in 0 .. Len(f) PROVE UnixFirst(f, n) \in Seq(Bytes)
  <2>1. parts(n) \in Seq(Seq(Bytes)) /\ <<>> \in Seq(Bytes)
    BY <1>2
  <2>2. FlattenSeq(parts(n)) \in Seq(Bytes)
    <3>. HIDE DEF parts
    <3>. QED BY <2>1, FlattenAppend
  <2>. QED BY <2>2 DEF UnixFirst
<1>6. UnixText(f) = UnixFirst(f, Len(f))
  <2>1. DOMAIN f = 1 .. Len(f)
    OBVIOUS
  <2>. QED BY <2>1 DEF UnixText, UnixFirst, KeptOf
<1>. QED BY <1>3, <1>4, <1>5, <1>6

(* What a download writes is found byte by byte.                           *)
DosOf(x) == IF x = LF THEN <<CR, LF>> ELSE <<x>>

LEMMA ToDosAppend ==
  ASSUME NEW s \in Seq(Bytes), NEW x \in Bytes
  PROVE  ToDos(Append(s, x)) = ToDos(s) \o DosOf(x)
<1> DEFINE parts(t) == [i \in DOMAIN t |-> DosOf(t[i])]
<1>1. \A y \in Bytes : DosOf(y) \in Seq(Bytes)
  <2>1. CR \in Bytes /\ LF \in Bytes
    BY DEF Bytes
  <2>2. <<CR, LF>> \in Seq(Bytes) /\ \A y \in Bytes : <<y>> \in Seq(Bytes)
    BY <2>1
  <2>. QED BY <2>2 DEF DosOf
<1>2. parts(s) \in Seq(Seq(Bytes))
  <2>1. Len(s) \in Nat /\ DOMAIN s = 1 .. Len(s) /\ \A i \in 1 .. Len(s) : s[i] \in Bytes
    OBVIOUS
  <2>. QED BY <1>1, <2>1
<1>3. parts(Append(s, x)) = Append(parts(s), DosOf(x))
  <2> DEFINE t == Append(s, x)
  <2>1. /\ Len(s) \in Nat /\ DOMAIN s = 1 .. Len(s) /\ DOMAIN t = 1 .. Len(s) + 1
        /\ \A i \in 1 .. Len(s) : t[i] = s[i]
        /\ t[Len(s) + 1] = x
    OBVIOUS
  <2>2. Len(parts(s)) = Len(s)
    BY <2>1
  <2>. HIDE DEF t
  <2>3. parts(t) = Append(parts(s), DosOf(x))
    BY <2>1, <2>2
  <2>. QED BY <2>3 DEF t
<1>4. FlattenSeq(Append(parts(s), DosOf(x))) = FlattenSeq(parts(s)) \o DosOf(x)
  <2>. HIDE DEF parts
  <2>. QED BY <1>1, <1>2, FlattenAppend
<1>. QED BY <1>3, <1>4 DEF ToDos, DosOf

(* A text whose lines all end in CR LF, with no other CR or LF, is the     *)
(* same after it has been converted there and back.                        *)
LEMMA ThereAndBack ==
  ASSUME NEW f \in Seq(Bytes),
         \A i \in DOMAIN f : ~LoneCR(f, i),
         \A i \in DOMAIN f : f[i] = LF => i > 1 /\ f[i - 1] = CR
  PROVE  ToDos(UnixText(f)) = f
<1> DEFINE n == Len(f)
           Whole(i) == IF i > 0 /\ EndsLine(f, i) THEN i - 1 ELSE i
           Good(i) == ToDos(UnixFirst(f, i)) = SubSeq(f, 1, Whole(i))
           Holds == { i \in 0 .. n : Good(i) }
<1>1. n \in Nat /\ DOMAIN f = 1 .. n /\ \A i \in 1 .. n : f[i] \in Bytes
  OBVIOUS
<1>2. 0 \in Holds
  <2>1. ToDos(<<>>) = <<>>
    <3>1. [i \in DOMAIN <<>> |-> IF <<>>[i] = LF THEN <<CR, LF>> ELSE << <<>>[i] >>] = <<>>
      OBVIOUS
    <3>. QED BY <3>1, FlattenEmpty DEF ToDos
  <2>2. SubSeq(f, 1, 0) = <<>>
    OBVIOUS
  <2>. QED BY <2>1, <2>2, <1>1, UnixFirstSteps
<1>3. ASSUME NEW i \in 1 .. n, i - 1 \in Holds PROVE i \in Holds
  <2> DEFINE U == UnixFirst(f, i - 1)
             x == f[i]
  <2>1. /\ i - 1 \in 0 .. n /\ i \in 0 .. n /\ x \in Bytes /\ U \in Seq(Bytes)
        /\ ToDos(U) = SubSeq(f, 1, Whole(i - 1))
        /\ UnixFirst(f, i) = U \o KeptOf(f, i)
    <3>1. i - 1 \in 0 .. n /\ i \in 0 .. n /\ x \in Bytes
      BY <1>1
    <3>2. Good(i - 1)
      BY <1>3
    <3>. HIDE DEF Whole, n
    <3>. QED BY <3>1, <3>2, UnixFirstSteps DEF n
  <2>2. CASE EndsLine(f, i)
    <3>1. ~ (i - 1 > 0 /\ EndsLine(f, i - 1))
      BY <1>1, <2>1, <2>2 DEF EndsLine, CR, LF
    <3>2. UnixFirst(f, i) = U
      BY <2>1, <2>2 DEF KeptOf
    <3>3. Whole(i) = i - 1 /\ Whole(i - 1) = i - 1
      BY <2>2, <3>1
    <3>. HIDE DEF U, Whole
    <3>. QED BY <2>1, <3>2, <3>3
  <2>3. CASE ~EndsLine(f, i)
    <3>1. UnixFirst(f, i) = Append(U, x)
      <4>1. U \o <<x>> = Append(U, x)
        <5>. HIDE DEF U, x
        <5>. QED BY <2>1
      <4>. QED BY <4>1, <2>1, <2>3 DEF KeptOf
    <3>2. ToDos(UnixFirst(f, i)) = SubSeq(f, 1, Whole(i - 1)) \o DosOf(x)
      <4>. HIDE DEF U, x, Whole
      <4>. QED BY <2>1, <3>1, ToDosAppend
    <3>3. Whole(i) = i
      BY <2>3
    <3>4. CASE x = LF
      <4>1. i > 1 /\ f[i - 1] = CR /\ i - 1 < n /\ (i - 1) + 1 = i
        BY <1>1, <3>4
      <4>2. i > 1 /\ f[i - 1] = CR /\ EndsLine(f, i - 1)
        BY <4>1, <3>4 DEF EndsLine
      <4>3. Whole(i - 1) = i - 2 /\ i - 2 \in Nat
        BY <1>1, <4>2
      <4>4. SubSeq(f, 1, i) = SubSeq(f, 1, i - 2) \o <<CR, LF>>
        <5>1. /\ Len(SubSeq(f, 1, i)) = i
              /\ Len(SubSeq(f, 1, i - 2)) = i - 2
              /\ \A k \in 1 .. i - 2 : SubSeq(f, 1, i - 2)[k] = f[k]
              /\ \A k \in 1 .. i : SubSeq(f, 1, i)[k] = f[k]
          BY <1>1, <4>3
        <5>2. <<CR, LF>> \in Seq({CR, LF}) /\ Len(<<CR, LF>>) = 2 /\ <<CR, LF>>[1] = CR /\ <<CR, LF>>[2] = LF
          OBVIOUS
        <5>3. f[i - 1] = CR /\ f[i] = LF
          BY <4>2, <3>4
        <5>. QED BY <5>1, <5>2, <5>3, <4>2, <4>3, <1>1
      <4>. QED BY <3>2, <3>3, <3>4, <4>3, <4>4 DEF DosOf
    <3>5. CASE x # LF
      <4>1. ~ (i - 1 > 0 /\ EndsLine(f, i - 1))
        BY <1>1, <3>5 DEF EndsLine
      <4>2. Whole(i - 1) = i - 1
        BY <4>1
      <4>3. SubSeq(f, 1, i) = SubSeq(f, 1, i - 1) \o <<f[i]>>
        BY <1>1
      <4>. QED BY <3>2, <3>3, <3>5, <4>2, <4>3 DEF DosOf
    <3>. QED BY <3>4, <3>5
  <2>4. Good(i)
    BY <2>2, <2>3
  <2>. HIDE DEF Good
  <2>. QED BY <2>1, <2>4
<1>4. 0 .. n \subseteq Holds
  <2>. HIDE DEF Holds, n
  <2>. QED BY <1>1, <1>2, <1>3, UpTo
<1>5. Good(n)
  BY <1>1, <1>4
<1>6. Whole(n) = n /\ SubSeq(f, 1, n) = f
  <2>1. ~ EndsLine(f, n)
    BY <1>1 DEF EndsLine
  <2>2. SubSeq(f, 1, n) = f
    BY <1>1
  <2>. QED BY <2>1, <2>2
<1>. HIDE DEF Whole
<1>. QED BY <1>5, <1>6, UnixFirstSteps

-----------------------------------------------------------------------------
(* The upload of a text.                                                   *)

(* The state of the conversion.  In all files q does not pass p, which     *)
(* keeps q - 1 inside the buffer that SendBuffer sends.  With q = p a held *)
(* CR is written over the byte that is read next.                          *)
AsciiType ==
  /\ file \in Seq(Bytes)
  /\ pos \in 0 .. Len(file)
  /\ buffer \in Seq(Bytes)
  /\ p \in 1 .. Len(buffer) + 1
  /\ q \in 1 .. p
  /\ lastIs0D \in BOOLEAN
  /\ sent \in Seq(Bytes)
  /\ state \in {"reading", "converting", "sent"}
  /\ state = "sent" => pos = Len(file)

Before == IF state = "converting" THEN pos - Len(buffer) ELSE pos
Consumed == IF state = "converting" THEN Before + (p - 1) ELSE pos

(* Buffers are full, except the last one.                                  *)
AtBorder(n) == n % BufferSize = 0

Borders ==
  /\ Len(buffer) <= pos
  /\ pos = Len(file) \/ AtBorder(pos)
  /\ state = "converting" => AtBorder(pos - Len(buffer))

(* No CR that ends no line is the last byte of a buffer or of the file.    *)
Clean ==
  \A i \in DOMAIN file : LoneCR(file, i) => i # Len(file) /\ i % BufferSize # 0

Converted ==
  IF state = "converting" THEN sent \o SubSeq(buffer, 1, q - 1) ELSE sent

(* What has been converted is the text of the bytes that were read, but    *)
(* for a CR that is held back.                                             *)
Progress ==
  /\ lastIs0D <=> Consumed > 0 /\ file[Consumed] = CR
  /\ Converted = UnixFirst(file, IF lastIs0D THEN Consumed - 1 ELSE Consumed)
  /\ state = "converting" /\ lastIs0D /\ p > 1 => q < p

AsciiInv == AsciiType /\ Borders /\ UnreadIsUntouched /\ (Clean => Progress)

LEMMA Division == ASSUME NEW n \in Nat, NEW b \in Nat \ {0}
  PROVE  n = b * (n \div b) + (n % b) /\ n % b \in 0 .. b - 1 /\ n \div b \in Int
OBVIOUS

LEMMA NoMultiple == ASSUME NEW b \in Nat \ {0}, NEW d \in Int, NEW r \in 0 .. b - 1, b * d = r PROVE r = 0
<1>1. CASE d >= 1
  <2>1. b * d = b * (d - 1) + b
    OBVIOUS
  <2>2. b * (d - 1) >= 0
    BY <1>1
  <2>. QED BY <2>1, <2>2
<1>2. CASE d <= -1
  <2>1. b * d = b * (d + 1) - b
    OBVIOUS
  <2>2. b * (d + 1) <= 0
    BY <1>2
  <2>. QED BY <2>1, <2>2
<1>3. CASE d = 0
  BY <1>3
<1>. QED BY <1>1, <1>2, <1>3

LEMMA NextBorder==  ASSUME NEW n \in Nat, NEW b \in Nat \ {0}, n % b = 0
  PROVE  (n + b) % b = 0
<1>1. n = b * (n \div b) /\ n \div b \in Int
  BY Division
<1>2. n + b \in Nat
  OBVIOUS
<1>3. n + b = b * ((n + b) \div b) + ((n + b) % b) /\ (n + b) % b \in 0 .. b - 1 /\ (n + b) \div b \in Int
  BY <1>2, Division
<1> DEFINE d1 == n \div b
           d2 == (n + b) \div b
           r == (n + b) % b
<1>4. b * (d1 + 1 - d2) = r /\ d1 + 1 - d2 \in Int
  <2>. HIDE DEF d1, d2, r
  <2>1. d1 \in Int /\ d2 \in Int /\ r \in Int /\ n = b * d1 /\ n + b = b * d2 + r
    BY <1>1, <1>3 DEF d1, d2, r
  <2>2. b * (d1 + 1 - d2) = b * d1 + b - b * d2
    BY <2>1
  <2>. QED BY <2>1, <2>2
<1>. HIDE DEF d1, d2, r
<1>. QED BY <1>3, <1>4, NoMultiple DEF r

LEMMA WritePrefix ==
  ASSUME NEW T, NEW s \in Seq(T), NEW i \in 1 .. Len(s), NEW x \in T
  PROVE  LET t == [s EXCEPT ![i] = x] IN
         /\ t \in Seq(T) /\ Len(t) = Len(s)
         /\ SubSeq(t, 1, i) = SubSeq(s, 1, i - 1) \o <<x>>
         /\ \A k \in 1 .. Len(s) : k # i => t[k] = s[k]
         /\ t[i] = x
<1> DEFINE t == [s EXCEPT ![i] = x]
<1>1. /\ t \in Seq(T) /\ Len(t) = Len(s) /\ t[i] = x
      /\ \A k \in 1 .. Len(s) : k # i => t[k] = s[k]
  OBVIOUS
<1>2. SubSeq(t, 1, i) = SubSeq(s, 1, i - 1) \o <<x>>
  <2>1. /\ i \in Nat /\ Len(s) \in Nat
        /\ Len(SubSeq(t, 1, i)) = i /\ Len(SubSeq(s, 1, i - 1)) = i - 1
        /\ \A k \in 1 .. i : SubSeq(t, 1, i)[k] = t[k]
        /\ \A k \in 1 .. i - 1 : SubSeq(s, 1, i - 1)[k] = s[k]
    <3>. HIDE DEF t
    <3>. QED BY <1>1
  <2>2. SubSeq(t, 1, i) \in Seq(T) /\ SubSeq(s, 1, i - 1) \in Seq(T)
    <3>. HIDE DEF t
    <3>. QED BY <1>1
  <2>. HIDE DEF t
  <2>. QED BY <1>1, <2>1, <2>2
<1>. QED BY <1>1, <1>2

(* To append to the end of what is appended. *)
LEMMA JoinLast ==
  ASSUME NEW T, NEW s \in Seq(T), NEW t \in Seq(T), NEW x \in T
  PROVE  s \o (t \o <<x>>) = (s \o t) \o <<x>>
<1> DEFINE l == s \o (t \o <<x>>)
           r == (s \o t) \o <<x>>
<1>1. l \in Seq(T) /\ r \in Seq(T) /\ Len(l) = Len(r)
  OBVIOUS
<1>2. ASSUME NEW k \in 1 .. Len(l) PROVE l[k] = r[k]
  OBVIOUS
<1>. HIDE DEF l, r
<1>. QED BY <1>1, <1>2

LEMMA SubSeqLaws ==
  ASSUME NEW T, NEW s \in Seq(T), NEW a \in 1 .. Len(s) + 1, NEW b \in a - 1 .. Len(s)
  PROVE  /\ SubSeq(s, a, b) \in Seq(T)
         /\ Len(SubSeq(s, a, b)) = b - a + 1
         /\ \A k \in 1 .. b - a + 1 : SubSeq(s, a, b)[k] = s[a - 1 + k]
  OBVIOUS

LEMMA AsciiInitInv ==
  ASSUME AsciiInit PROVE AsciiInv
<1>1. file \in Seq(Bytes) /\ Len(file) \in Nat
  <2>1. PICK n \in 0 .. MaxLength : file \in [1 .. n -> Bytes]
    BY DEF AsciiInit, Texts
  <2>2. n \in Nat
    BY AsciiAssumption
  <2>. QED BY <2>1, <2>2
<1>2. Len(<<>>) = 0 /\ <<>> \in Seq(Bytes) /\ AtBorder(0)
  BY AsciiAssumption DEF AtBorder
<1>3. AsciiType
  <2>1. 1 \in 1 .. 0 + 1 /\ 1 \in 1 .. 1 /\ 0 \in 0 .. Len(file)
    BY <1>1
  <2>. QED BY <1>1, <1>2, <2>1 DEF AsciiInit, AsciiType
<1>5. Borders
  BY <1>2 DEF AsciiInit, Borders
<1>4. Progress
  BY <1>1, UnixFirstSteps DEF AsciiInit, Progress, Consumed, Before, Converted
<1>. QED BY <1>3, <1>4, <1>5 DEF AsciiInv, AsciiInit, UnreadIsUntouched

LEMMA ReadBufferInv ==
  ASSUME AsciiInv, ReadBuffer PROVE AsciiInv'
<1>. USE AsciiAssumption
<1>1. AsciiType /\ Borders
  BY DEF AsciiInv
<1> DEFINE to == LeastOf(pos + BufferSize, Len(file))
<1>2. /\ state = "reading" /\ pos \in Nat /\ pos < Len(file) /\ Len(file) \in Nat
      /\ to \in Nat /\ pos < to /\ to <= Len(file)
      /\ to = pos + BufferSize \/ to = Len(file)
      /\ AtBorder(pos)
  BY <1>1 DEF ReadBuffer, LeastOf, AsciiType, Borders
<1>3. /\ file' = file /\ p' = 1 /\ q' = 1 /\ sent' = sent /\ lastIs0D' = lastIs0D
      /\ state' = "converting" /\ pos' = to
      /\ buffer' = SubSeq(file, pos + 1, to)
  BY DEF ReadBuffer
<1> DEFINE n == to - pos
<1>. HIDE DEF to
<1>4. /\ buffer' \in Seq(Bytes) /\ Len(buffer') = n /\ n \in Nat \ {0}
      /\ \A k \in 1 .. n : buffer'[k] = file[pos + k]
  <2>1. file \in Seq(Bytes) /\ pos + 1 \in 1 .. Len(file) + 1 /\ to \in (pos + 1) - 1 .. Len(file)
    BY <1>1, <1>2 DEF AsciiType
  <2>2. /\ SubSeq(file, pos + 1, to) \in Seq(Bytes)
        /\ Len(SubSeq(file, pos + 1, to)) = to - (pos + 1) + 1
        /\ \A k \in 1 .. to - (pos + 1) + 1 :
              SubSeq(file, pos + 1, to)[k] = file[(pos + 1) - 1 + k]
    BY <2>1, SubSeqLaws
  <2>3. to - (pos + 1) + 1 = n /\ n \in Nat \ {0}
        /\ \A k \in 1 .. n : (pos + 1) - 1 + k = pos + k
    BY <1>2
  <2>. HIDE DEF n
  <2>. QED BY <1>3, <2>2, <2>3
<1>5. to - n = pos /\ pos + (1 - 1) = pos
  BY <1>2
<1>. HIDE DEF n
<1>6. AsciiType'
  <2>1. 1 \in 1 .. n + 1 /\ 1 \in 1 .. 1 /\ to \in 0 .. Len(file)
    BY <1>2, <1>4
  <2>. QED BY <1>1, <1>3, <1>4, <2>1 DEF AsciiType
<1>7. Borders'
  <2>1. AtBorder(pos + BufferSize)
    BY <1>2, NextBorder DEF AtBorder
  <2>2. n <= to
    BY <1>2, <1>4, <1>5
  <2>3. to = Len(file) \/ AtBorder(to)
    BY <1>2, <2>1
  <2>4. AtBorder(to - n)
    BY <1>2, <1>5
  <2>. QED BY <1>3, <1>4, <2>2, <2>3, <2>4 DEF Borders, AtBorder
<1>8. Clean' => Clean
  BY <1>3 DEF Clean, LoneCR, EndsLine
<1>9. ASSUME Progress PROVE Progress'
  <2>1. Consumed = pos /\ Consumed' = pos
    BY <1>2, <1>3, <1>4, <1>5 DEF Consumed, Before
  <2>2. Converted' = Converted
    <3>1. SubSeq(buffer', 1, 1 - 1) = <<>> /\ sent \o <<>> = sent
      BY <1>1, <1>4 DEF AsciiType
    <3>. QED BY <1>2, <1>3, <3>1 DEF Converted
  <2>4. /\ lastIs0D' <=> Consumed' > 0 /\ file'[Consumed'] = CR
        /\ Converted' = UnixFirst(file', IF lastIs0D' THEN Consumed' - 1 ELSE Consumed')
    BY <1>3, <1>9, <2>1, <2>2 DEF Progress
  <2>. QED BY <1>3, <2>4 DEF Progress, UnixFirst, KeptOf, EndsLine
<1>10. UnreadIsUntouched'
  <2>1. \A k \in 1 .. n : buffer'[k] = file[(to - n) + k]
    BY <1>4, <1>5
  <2>. QED BY <1>3, <1>4, <2>1 DEF UnreadIsUntouched
<1>. QED BY <1>6, <1>7, <1>8, <1>9, <1>10 DEF AsciiInv

(* The byte at p is the next one of the file.                              *)
LEMMA NextByte ==
  ASSUME AsciiInv, MoreBytes
  PROVE  /\ Consumed \in Nat /\ Consumed + 1 \in 1 .. Len(file)
         /\ Consumed = (pos - Len(buffer)) + (p - 1)
         /\ p \in 1 .. Len(buffer) /\ q \in 1 .. Len(buffer)
         /\ pos - Len(buffer) \in Nat
         /\ buffer[p] \in Bytes
         /\ buffer[p] = file[Consumed + 1]
         /\ Clean => Progress
<1>1. AsciiType /\ Borders
  BY DEF AsciiInv
<1>2. /\ pos \in Nat /\ pos <= Len(file) /\ Len(file) \in Nat /\ Len(buffer) \in Nat
      /\ Len(buffer) <= pos /\ p \in Nat /\ 1 <= p /\ p <= Len(buffer)
      /\ q \in Nat /\ 1 <= q /\ q <= p /\ state = "converting"
  BY <1>1 DEF AsciiType, Borders, MoreBytes
<1>3. Consumed = (pos - Len(buffer)) + (p - 1)
  BY <1>2 DEF Consumed, Before
<1>4. /\ (pos - Len(buffer)) + (p - 1) \in Nat
      /\ (pos - Len(buffer)) + (p - 1) + 1 \in 1 .. Len(file)
      /\ p \in 1 .. Len(buffer) /\ q \in 1 .. Len(buffer) /\ pos - Len(buffer) \in Nat
      /\ (pos - Len(buffer)) + (p - 1) + 1 = (pos - Len(buffer)) + p
      /\ p \in p .. Len(buffer)
  BY <1>2
<1>5. buffer[p] \in Bytes
  BY <1>1, <1>4 DEF AsciiType
<1>6. (Clean => Progress) /\ buffer[p] = file[(pos - Len(buffer)) + p]
  BY <1>2, <1>4 DEF AsciiInv, UnreadIsUntouched
<1>. QED BY <1>3, <1>4, <1>5, <1>6

(* A step of the loop over a buffer: what is left of it to show.           *)
LEMMA AdvanceInv ==
  ASSUME AsciiInv, MoreBytes, Advance,
         NEW b \in Seq(Bytes), NEW r \in 1 .. p + 1, NEW held \in BOOLEAN,
         Len(b) = Len(buffer), buffer' = b, q' = r, lastIs0D' = held,
         \A k \in p + 1 .. Len(buffer) : b[k] = buffer[k],
         Clean =>
           /\ held <=> file[Consumed + 1] = CR
           /\ sent \o SubSeq(b, 1, r - 1) =
                UnixFirst(file, IF held THEN Consumed ELSE Consumed + 1)
           /\ held => r < p + 1
  PROVE  AsciiInv'
<1> DEFINE c == (pos - Len(buffer)) + (p - 1)
<1>1. AsciiType /\ Borders
  BY DEF AsciiInv
<1>2. /\ state = "converting" /\ Consumed = c /\ c \in Nat /\ c + 1 \in 1 .. Len(file)
      /\ p \in Nat /\ p \in 1 .. Len(buffer) /\ Len(buffer) \in Nat /\ pos - Len(buffer) \in Nat
  BY <1>1, NextByte DEF MoreBytes, AsciiType
<1>3. /\ p' = p + 1 /\ file' = file /\ pos' = pos /\ sent' = sent /\ state' = "converting"
  BY <1>2 DEF Advance
<1>4. /\ p + 1 \in 1 .. Len(b) + 1
      /\ (pos - Len(buffer)) + ((p + 1) - 1) = c + 1
      /\ (c + 1) - 1 = c /\ c + 1 > 0 /\ (p + 1) > 1
      /\ \A k \in p + 1 .. Len(buffer) : k \in p .. Len(buffer)
  BY <1>2
<1>5. AsciiType'
  BY <1>1, <1>2, <1>3, <1>4 DEF AsciiType
<1>6. Borders'
  BY <1>1, <1>2, <1>3 DEF Borders, AtBorder
<1>7. Clean' => Clean
  BY <1>3 DEF Clean, LoneCR, EndsLine
<1>. HIDE DEF c
<1>8. Consumed' = c + 1
  BY <1>3, <1>4 DEF Consumed, Before
<1>9. ASSUME Clean PROVE Progress'
  <2>1. Progress
    BY <1>9 DEF AsciiInv
  <2>2. /\ held <=> file[c + 1] = CR
        /\ sent \o SubSeq(b, 1, r - 1) = UnixFirst(file, IF held THEN c ELSE c + 1)
        /\ held => r < p + 1
    BY <1>2, <1>9
  <2>3. Converted' = UnixFirst(file, IF held THEN c ELSE c + 1)
    BY <1>3, <2>2 DEF Converted
  <2>4. Converted' = UnixFirst(file', IF lastIs0D' THEN Consumed' - 1 ELSE Consumed')
    BY <1>3, <1>4, <1>8, <2>3 DEF UnixFirst, KeptOf, EndsLine
  <2>5. lastIs0D' <=> Consumed' > 0 /\ file'[Consumed'] = CR
    BY <1>3, <1>4, <1>8, <2>2
  <2>. QED BY <1>3, <1>4, <2>2, <2>4, <2>5 DEF Progress
<1>10. UnreadIsUntouched'
  <2>1. UnreadIsUntouched
    BY DEF AsciiInv
  <2>2. \A k \in p + 1 .. Len(buffer) : b[k] = file[(pos - Len(buffer)) + k]
    BY <1>2, <1>4, <2>1 DEF UnreadIsUntouched
  <2>. QED BY <1>3, <1>4, <2>2 DEF UnreadIsUntouched
<1>. QED BY <1>5, <1>6, <1>7, <1>9, <1>10 DEF AsciiInv

(* In a clean file the byte after a CR that is held back over the border   *)
(* of a buffer is LF, so a CR is written over bytes only that were read.   *)
LEMMA HeldBack ==
  ASSUME AsciiInv, MoreBytes, Clean, lastIs0D
  PROVE  /\ Consumed >= 1 /\ Consumed \in 1 .. Len(file) /\ file[Consumed] = CR
         /\ EndsLine(file, Consumed) <=> buffer[p] = LF
         /\ buffer[p] # LF => q < p
         /\ sent \o SubSeq(buffer, 1, q - 1) = UnixFirst(file, Consumed - 1)
<1>1. AsciiType /\ Borders /\ Progress
  BY DEF AsciiInv
<1>2. /\ Consumed \in Nat /\ Consumed + 1 \in 1 .. Len(file)
      /\ Consumed = (pos - Len(buffer)) + (p - 1)
      /\ buffer[p] = file[Consumed + 1] /\ p \in 1 .. Len(buffer) /\ Len(file) \in Nat
      /\ Len(buffer) \in Nat /\ pos \in Nat /\ pos - Len(buffer) \in Nat
  BY <1>1, NextByte DEF AsciiType
<1>3. state = "converting"
  BY DEF MoreBytes
<1>4. Consumed > 0 /\ file[Consumed] = CR
  BY <1>1 DEF Progress
<1>5. EndsLine(file, Consumed) <=> buffer[p] = LF
  BY <1>2, <1>4 DEF EndsLine
<1>6. ASSUME buffer[p] # LF PROVE q < p
  <2>1. LoneCR(file, Consumed)
    BY <1>4, <1>5, <1>6 DEF LoneCR
  <2>2. Consumed \in DOMAIN file
    BY <1>1, <1>2, <1>4 DEF AsciiType
  <2>3. ~ AtBorder(Consumed)
    BY <2>1, <2>2 DEF Clean, AtBorder
  <2>4. p # 1
    <3>1. p = 1 => Consumed = pos - Len(buffer)
      BY <1>2
    <3>. QED BY <1>1, <1>3, <2>3, <3>1 DEF Borders
  <2>5. p > 1
    BY <1>2, <2>4
  <2>. QED BY <1>1, <1>3, <2>5 DEF Progress
<1>7. sent \o SubSeq(buffer, 1, q - 1) = UnixFirst(file, Consumed - 1)
  BY <1>1, <1>3 DEF Progress, Converted
<1>8. Consumed >= 1 /\ Consumed \in 1 .. Len(file)
  BY <1>2, <1>4
<1>. QED BY Zenon, <1>4, <1>5, <1>6, <1>7, <1>8

LEMMA LineEndInv ==
  ASSUME AsciiInv, LineEnd PROVE AsciiInv'
<1>1. MoreBytes /\ Advance /\ lastIs0D /\ buffer[p] = LF
      /\ buffer' = [buffer EXCEPT ![q] = LF] /\ q' = q + 1 /\ lastIs0D' = FALSE
  BY DEF LineEnd
<1>2. AsciiType
  BY DEF AsciiInv
<1>3. /\ Consumed \in Nat /\ Consumed + 1 \in 1 .. Len(file) /\ Len(file) \in Nat
      /\ p \in 1 .. Len(buffer) /\ q \in 1 .. Len(buffer) /\ Len(buffer) \in Nat
      /\ LF \in Bytes
  BY <1>1, <1>2, NextByte DEF AsciiType, Bytes
<1> DEFINE b == [buffer EXCEPT ![q] = LF]
<1>4. /\ b \in Seq(Bytes) /\ Len(b) = Len(buffer)
      /\ SubSeq(b, 1, q) = SubSeq(buffer, 1, q - 1) \o <<LF>>
      /\ \A k \in 1 .. Len(buffer) : k # q => b[k] = buffer[k]
  <2>1. buffer \in Seq(Bytes)
    BY <1>2 DEF AsciiType
  <2>. QED BY <1>3, <2>1, WritePrefix
<1>5. q + 1 \in 1 .. p + 1 /\ (q + 1) - 1 = q /\ (Consumed + 1) - 1 = Consumed
      /\ \A k \in p + 1 .. Len(buffer) : k \in 1 .. Len(buffer) /\ k # q
  <2>1. q \in Nat /\ q <= p /\ 1 <= q /\ p \in Nat
    BY <1>2, <1>3 DEF AsciiType
  <2>. QED BY <1>3, <2>1
<1>6. ASSUME Clean
      PROVE  /\ FALSE <=> file[Consumed + 1] = CR
             /\ sent \o SubSeq(b, 1, (q + 1) - 1) = UnixFirst(file, Consumed + 1)
  <2>1. file[Consumed + 1] = LF
    BY <1>1, <1>6, NextByte
  <2>2. /\ Consumed \in 1 .. Len(file) /\ EndsLine(file, Consumed)
        /\ sent \o SubSeq(buffer, 1, q - 1) = UnixFirst(file, Consumed - 1)
    BY <1>1, <1>6, HeldBack
  <2>3. ~EndsLine(file, Consumed + 1)
    BY <2>1 DEF EndsLine, CR, LF
  <2>4. file \in Seq(Bytes) /\ sent \in Seq(Bytes) /\ SubSeq(buffer, 1, q - 1) \in Seq(Bytes)
    <3>1. buffer \in Seq(Bytes) /\ q - 1 \in 1 - 1 .. Len(buffer) /\ 1 \in 1 .. Len(buffer) + 1
      BY <1>2, <1>3 DEF AsciiType
    <3>. QED BY <1>2, <3>1, SubSeqLaws DEF AsciiType
  <2>5. /\ UnixFirst(file, Consumed) = UnixFirst(file, Consumed - 1) \o <<>>
        /\ UnixFirst(file, Consumed + 1) = UnixFirst(file, (Consumed + 1) - 1) \o <<LF>>
        /\ UnixFirst(file, Consumed - 1) \in Seq(Bytes)
    <3>1. KeptOf(file, Consumed) = <<>> /\ KeptOf(file, Consumed + 1) = <<LF>>
      BY <2>1, <2>2, <2>3 DEF KeptOf
    <3>2. Consumed - 1 \in 0 .. Len(file)
      BY <2>2, <1>3
    <3>. QED BY <1>3, <2>2, <2>4, <3>1, <3>2, UnixFirstSteps
  <2>6. UnixFirst(file, Consumed + 1) = UnixFirst(file, Consumed - 1) \o <<LF>>
    BY <1>5, <2>5
  <2>7. sent \o (SubSeq(buffer, 1, q - 1) \o <<LF>>) = (sent \o SubSeq(buffer, 1, q - 1)) \o <<LF>>
    BY <2>4, <1>3
  <2>8. FALSE <=> file[Consumed + 1] = CR
    BY <2>1 DEF CR, LF
  <2>. HIDE DEF b
  <2>. QED BY <1>4, <1>5, <2>2, <2>6, <2>7, <2>8
<1>7. \A k \in p + 1 .. Len(buffer) : b[k] = buffer[k]
  <2>. HIDE DEF b
  <2>. QED BY <1>4, <1>5
<1>8. b \in Seq(Bytes) /\ buffer' = b /\ FALSE \in BOOLEAN
  BY <1>1, <1>4
<1>. HIDE DEF b
<1>. QED BY <1>1, <1>4, <1>5, <1>6, <1>7, <1>8, AdvanceInv

(* After a held CR has been written, before the next byte is looked at.    *)
LEMMA ReleasedBytes ==
  ASSUME AsciiInv, MoreBytes, ~(lastIs0D /\ buffer[p] = LF)
  PROVE  /\ Released \in Seq(Bytes) /\ Len(Released) = Len(buffer)
         /\ AfterReleased \in 1 .. p + 1
         /\ Released[p] # CR => AfterReleased \in 1 .. p
         /\ \A k \in p + 1 .. Len(buffer) : Released[k] = buffer[k]
         /\ Clean => /\ Released[p] = file[Consumed + 1]
                     /\ AfterReleased < p + 1
                     /\ sent \o SubSeq(Released, 1, AfterReleased - 1) =
                          UnixFirst(file, Consumed)
<1>1. AsciiType
  BY DEF AsciiInv
<1>2. /\ Consumed \in Nat /\ Consumed + 1 \in 1 .. Len(file) /\ Len(file) \in Nat
      /\ p \in 1 .. Len(buffer) /\ q \in 1 .. Len(buffer) /\ Len(buffer) \in Nat
      /\ CR \in Bytes /\ buffer \in Seq(Bytes) /\ state = "converting"
  BY <1>1, NextByte DEF AsciiType, Bytes, MoreBytes
<1>3. q \in Nat /\ p \in Nat /\ 1 <= q /\ q <= p
  BY <1>1, <1>2 DEF AsciiType
<1>4. CASE ~lastIs0D
  <2>1. Released = buffer /\ AfterReleased = q
    BY <1>4 DEF Released, AfterReleased
  <2>2. q \in 1 .. p + 1 /\ q \in 1 .. p /\ q < p + 1
    BY <1>3
  <2>3. ASSUME Clean PROVE /\ buffer[p] = file[Consumed + 1]
                           /\ sent \o SubSeq(buffer, 1, q - 1) = UnixFirst(file, Consumed)
    <3>1. Progress /\ buffer[p] = file[Consumed + 1]
      BY <2>3, NextByte
    <3>. QED BY <1>2, <1>4, <3>1 DEF Progress, Converted
  <2>. QED BY <1>2, <2>1, <2>2, <2>3
<1>5. CASE lastIs0D
  <2> DEFINE b == [buffer EXCEPT ![q] = CR]
  <2>1. Released = b /\ AfterReleased = q + 1
    BY <1>5 DEF Released, AfterReleased
  <2>2. /\ b \in Seq(Bytes) /\ Len(b) = Len(buffer)
        /\ SubSeq(b, 1, q) = SubSeq(buffer, 1, q - 1) \o <<CR>>
        /\ \A k \in 1 .. Len(buffer) : k # q => b[k] = buffer[k]
        /\ b[q] = CR
    BY <1>2, WritePrefix
  <2>. HIDE DEF b
  <2>3. /\ q + 1 \in 1 .. p + 1 /\ (q + 1) - 1 = q
        /\ q # p => q + 1 \in 1 .. p
        /\ \A k \in p + 1 .. Len(buffer) : k \in 1 .. Len(buffer) /\ k # q
    BY <1>2, <1>3
  <2>4. ASSUME Clean PROVE /\ b[p] = file[Consumed + 1]
                           /\ q + 1 < p + 1
                           /\ sent \o SubSeq(b, 1, q) = UnixFirst(file, Consumed)
    <3>1. /\ Consumed \in 1 .. Len(file) /\ ~EndsLine(file, Consumed)
          /\ file[Consumed] = CR /\ q < p
          /\ sent \o SubSeq(buffer, 1, q - 1) = UnixFirst(file, Consumed - 1)
      BY <1>5, <2>4, HeldBack
    <3>2. buffer[p] = file[Consumed + 1]
      BY <2>4, NextByte
    <3>3. q # p /\ q + 1 < p + 1
      BY <1>3, <3>1
    <3>4. b[p] = buffer[p]
      BY <1>2, <2>2, <3>3
    <3>5. file \in Seq(Bytes) /\ sent \in Seq(Bytes) /\ SubSeq(buffer, 1, q - 1) \in Seq(Bytes)
      <4>1. q - 1 \in 1 - 1 .. Len(buffer) /\ 1 \in 1 .. Len(buffer) + 1
        BY <1>2
      <4>. QED BY <1>1, <1>2, <4>1, SubSeqLaws DEF AsciiType
    <3>6. UnixFirst(file, Consumed) = UnixFirst(file, Consumed - 1) \o <<CR>>
      <4>1. KeptOf(file, Consumed) = <<CR>>
        BY <3>1 DEF KeptOf
      <4>. QED BY <3>1, <3>5, <4>1, UnixFirstSteps
    <3>7. sent \o (SubSeq(buffer, 1, q - 1) \o <<CR>>) = (sent \o SubSeq(buffer, 1, q - 1)) \o <<CR>>
      BY <1>2, <3>5
    <3>. QED BY <2>2, <3>1, <3>2, <3>3, <3>4, <3>6, <3>7
  <2>. QED BY <2>1, <2>2, <2>3, <2>4
<1>. QED BY <1>4, <1>5

LEMMA HoldBackInv ==
  ASSUME AsciiInv, HoldBack PROVE AsciiInv'
<1>1. MoreBytes /\ Advance /\ ~(lastIs0D /\ buffer[p] = LF) /\ Released[p] = CR
      /\ buffer' = Released /\ q' = AfterReleased /\ lastIs0D' = TRUE /\ TRUE \in BOOLEAN
  BY DEF HoldBack
<1> DEFINE b == Released
           r == AfterReleased
<1>2. /\ b \in Seq(Bytes) /\ Len(b) = Len(buffer) /\ r \in 1 .. p + 1
      /\ \A k \in p + 1 .. Len(buffer) : b[k] = buffer[k]
      /\ Clean => /\ b[p] = file[Consumed + 1] /\ r < p + 1
                  /\ sent \o SubSeq(b, 1, r - 1) = UnixFirst(file, Consumed)
  BY <1>1, ReleasedBytes
<1>3. b[p] = CR /\ buffer' = b /\ q' = r
  BY <1>1
<1>. HIDE DEF b, r
<1>. QED BY <1>1, <1>2, <1>3, AdvanceInv

LEMMA CopyByteInv ==
  ASSUME AsciiInv, CopyByte PROVE AsciiInv'
<1>1. MoreBytes /\ Advance /\ ~(lastIs0D /\ buffer[p] = LF) /\ Released[p] # CR
      /\ buffer' = [Released EXCEPT ![AfterReleased] = Released[p]]
      /\ q' = AfterReleased + 1 /\ lastIs0D' = FALSE /\ FALSE \in BOOLEAN
  BY DEF CopyByte
<1> DEFINE a == Released
           s == AfterReleased
           x == a[p]
           b == [a EXCEPT ![s] = x]
<1>2. /\ a \in Seq(Bytes) /\ Len(a) = Len(buffer) /\ s \in 1 .. p
      /\ \A k \in p + 1 .. Len(buffer) : a[k] = buffer[k]
      /\ Clean => /\ x = file[Consumed + 1]
                  /\ sent \o SubSeq(a, 1, s - 1) = UnixFirst(file, Consumed)
  BY <1>1, ReleasedBytes
<1>3. x # CR /\ buffer' = b /\ q' = s + 1
  BY <1>1
<1>4. /\ Consumed \in Nat /\ Consumed + 1 \in 1 .. Len(file) /\ Len(file) \in Nat
      /\ p \in 1 .. Len(buffer) /\ Len(buffer) \in Nat
      /\ file \in Seq(Bytes) /\ sent \in Seq(Bytes)
  <2>1. AsciiType
    BY DEF AsciiInv
  <2>2. /\ file \in Seq(Bytes) /\ sent \in Seq(Bytes)
        /\ Len(file) \in Nat /\ Len(buffer) \in Nat
    BY <2>1 DEF AsciiType
  <2>. HIDE DEF a, s, x, b
  <2>. QED BY <1>1, <2>2, NextByte
<1>. HIDE DEF a, s
<1>5. x \in Bytes /\ s \in 1 .. Len(a)
  BY <1>2, <1>4
<1>. HIDE DEF x
<1>6. /\ b \in Seq(Bytes) /\ Len(b) = Len(a)
      /\ SubSeq(b, 1, s) = SubSeq(a, 1, s - 1) \o <<x>>
      /\ \A k \in 1 .. Len(a) : k # s => b[k] = a[k]
  BY <1>2, <1>5, WritePrefix
<1>. HIDE DEF b
<1>7. /\ s + 1 \in 1 .. p + 1 /\ (s + 1) - 1 = s /\ (Consumed + 1) - 1 = Consumed
      /\ \A k \in p + 1 .. Len(buffer) : k \in 1 .. Len(a) /\ k # s
  BY <1>2, <1>4
<1>8. ASSUME Clean
      PROVE  /\ FALSE <=> file[Consumed + 1] = CR
             /\ sent \o SubSeq(b, 1, (s + 1) - 1) = UnixFirst(file, Consumed + 1)
  <2>1. x = file[Consumed + 1] /\ sent \o SubSeq(a, 1, s - 1) = UnixFirst(file, Consumed)
    BY <1>2, <1>8
  <2>2. KeptOf(file, Consumed + 1) = <<x>>
    BY <1>3, <2>1 DEF KeptOf, EndsLine
  <2>3. UnixFirst(file, Consumed + 1) = UnixFirst(file, Consumed) \o <<x>>
    <3>1. UnixFirst(file, Consumed + 1) = UnixFirst(file, (Consumed + 1) - 1) \o <<x>>
      BY <1>4, <2>2, UnixFirstSteps
    <3>. QED BY <1>7, <3>1
  <2>4. SubSeq(a, 1, s - 1) \in Seq(Bytes)
    <3>1. s - 1 \in 1 - 1 .. Len(a) /\ 1 \in 1 .. Len(a) + 1
      BY <1>5
    <3>. QED BY <1>2, <3>1, SubSeqLaws
  <2>5. sent \o (SubSeq(a, 1, s - 1) \o <<x>>) = (sent \o SubSeq(a, 1, s - 1)) \o <<x>>
    BY <1>4, <1>5, <2>4, JoinLast
  <2>. QED BY <1>3, <1>6, <1>7, <2>1, <2>3, <2>5
<1>9. \A k \in p + 1 .. Len(buffer) : b[k] = buffer[k]
  BY <1>2, <1>6, <1>7
<1>10. Len(b) = Len(buffer)
  BY <1>2, <1>6
<1>. QED BY <1>1, <1>3, <1>6, <1>7, <1>8, <1>9, <1>10, AdvanceInv

LEMMA SendBufferInv ==
  ASSUME AsciiInv, SendBuffer PROVE AsciiInv'
<1>1. AsciiType /\ Borders
  BY DEF AsciiInv
<1>2. /\ state = "converting" /\ p > Len(buffer) /\ state' = "reading"
      /\ sent' = sent \o SubSeq(buffer, 1, q - 1)
      /\ file' = file /\ pos' = pos /\ buffer' = buffer /\ p' = p /\ q' = q
      /\ lastIs0D' = lastIs0D
  BY DEF SendBuffer
<1>3. /\ Len(buffer) \in Nat /\ p = Len(buffer) + 1 /\ q \in 1 .. p
      /\ buffer \in Seq(Bytes) /\ sent \in Seq(Bytes) /\ pos \in Nat
  BY <1>1, <1>2 DEF AsciiType
<1>4. SubSeq(buffer, 1, q - 1) \in Seq(Bytes)
  <2>1. q - 1 \in 1 - 1 .. Len(buffer) /\ 1 \in 1 .. Len(buffer) + 1
    BY <1>3
  <2>. QED BY <1>3, <2>1, SubSeqLaws
<1>5. AsciiType'
  BY <1>1, <1>2, <1>3, <1>4 DEF AsciiType
<1>6. Borders'
  BY <1>1, <1>2 DEF Borders, AtBorder
<1>7. Clean' => Clean
  BY <1>2 DEF Clean, LoneCR, EndsLine
<1>8. Consumed = pos /\ Consumed' = pos
  <2>1. (pos - Len(buffer)) + ((Len(buffer) + 1) - 1) = pos
    BY <1>3
  <2>. QED BY <1>2, <1>3, <2>1 DEF Consumed, Before
<1>9. ASSUME Progress PROVE Progress'
  BY <1>2, <1>8, <1>9 DEF Progress, Converted, UnixFirst, KeptOf, EndsLine
<1>. QED BY <1>2, <1>5, <1>6, <1>7, <1>9 DEF AsciiInv, UnreadIsUntouched

LEMMA ReadEndInv ==
  ASSUME AsciiInv, ReadEnd PROVE AsciiInv'
<1>1. AsciiType /\ Borders
  BY DEF AsciiInv
<1>2. /\ state = "reading" /\ pos = Len(file) /\ lastIs0D' = FALSE
      /\ state' = IF lastIs0D THEN "reading" ELSE "sent"
      /\ file' = file /\ pos' = pos /\ buffer' = buffer /\ p' = p /\ q' = q
      /\ sent' = sent
  BY DEF ReadEnd
<1>3. AsciiType'
  BY <1>1, <1>2 DEF AsciiType
<1>4. Borders'
  BY <1>1, <1>2 DEF Borders, AtBorder
<1>5. Clean' => Clean
  BY <1>2 DEF Clean, LoneCR, EndsLine
<1>6. Consumed = pos /\ Consumed' = pos
  BY <1>2 DEF Consumed, Before
<1>7. ASSUME Clean, Progress PROVE Progress'
  <2>1. ~lastIs0D
    <3>1. SUFFICES ASSUME lastIs0D PROVE FALSE
      OBVIOUS
    <3>2. pos > 0 /\ file[pos] = CR
      BY <1>6, <1>7, <3>1 DEF Progress
    <3>3. pos \in DOMAIN file /\ pos \in Nat
      BY <1>1, <1>2, <3>2 DEF AsciiType
    <3>4. LoneCR(file, pos)
      BY <1>2, <3>2, <3>3 DEF LoneCR, EndsLine
    <3>. QED BY <1>2, <1>7, <3>3, <3>4 DEF Clean
  <2>. QED BY <1>2, <1>6, <1>7, <2>1 DEF Progress, Converted, UnixFirst, KeptOf, EndsLine
<1>8. UnreadIsUntouched'
  BY <1>2 DEF UnreadIsUntouched
<1>. QED BY <1>3, <1>4, <1>5, <1>7, <1>8 DEF AsciiInv

LEMMA AsciiStep ==
  ASSUME AsciiInv, AsciiNext \/ UNCHANGED ascii
  PROVE  AsciiInv'
<1>1. CASE UNCHANGED ascii
  BY <1>1 DEF ascii, AsciiInv, AsciiType, Borders, AtBorder, Clean, LoneCR, EndsLine, Progress,
     UnreadIsUntouched, Consumed, Before, Converted, UnixFirst, KeptOf
<1>. QED BY <1>1, ReadBufferInv, ReadEndInv, LineEndInv, HoldBackInv, CopyByteInv,
        SendBufferInv DEF AsciiNext

LEMMA AsciiInvSuffices ==
  ASSUME AsciiInv PROVE TextIsKeptInBuffers
<1>1. SUFFICES ASSUME Clean PROVE TextIsKept /\ TextComesBack
  BY DEF TextIsKeptInBuffers, Clean
<1>2. file \in Seq(Bytes) /\ Len(file) \in Nat
  BY DEF AsciiInv, AsciiType
<1>3. ASSUME AsciiDone PROVE sent = UnixText(file)
  <2>1. state = "sent" /\ pos = Len(file) /\ Consumed = Len(file) /\ Progress
    BY <1>1, <1>3 DEF AsciiDone, AsciiInv, AsciiType, Consumed
  <2>2. ~lastIs0D
    <3>1. SUFFICES ASSUME lastIs0D PROVE FALSE
      OBVIOUS
    <3>2. Len(file) > 0 /\ file[Len(file)] = CR
      BY <2>1, <3>1 DEF Progress
    <3>3. Len(file) \in DOMAIN file
      BY <1>2, <3>2
    <3>4. LoneCR(file, Len(file))
      BY <1>2, <3>2 DEF LoneCR, EndsLine
    <3>. QED BY <1>1, <3>3, <3>4 DEF Clean
  <2>3. sent = UnixFirst(file, Len(file))
    BY <2>1, <2>2 DEF Progress, Converted
  <2>. QED BY <1>2, <2>3, UnixFirstSteps
<1>4. TextIsKept
  BY <1>3 DEF TextIsKept
<1>5. TextComesBack
  BY <1>2, <1>3, ThereAndBack DEF TextComesBack
<1>. QED BY <1>4, <1>5

-----------------------------------------------------------------------------
(* Paths.                                                                  *)

Spots == Places \cup {Nowhere}
AllParts == Parts \cup {"", "?"}

LEMMA SeqOfMore ==
  ASSUME NEW S, NEW T, S \subseteq T
  PROVE  Seq(S) \subseteq Seq(T)
OBVIOUS

LEMMA OneAndTwo ==
  ASSUME NEW S, NEW x \in S, NEW y \in S
  PROVE  <<>> \in Seq(S) /\ <<x>> \in Seq(S) /\ <<x, y>> \in Seq(S)
OBVIOUS

LEMMA SpotsArePaths == Spots \subseteq Seq(AllParts)
<1>1. "?" \in AllParts /\ Parts \ {"", ".", ".."} \subseteq AllParts
  BY DEF AllParts
<1>2. Places \subseteq Seq(AllParts)
  <2>1. Seq(Parts \ {"", ".", ".."}) \subseteq Seq(AllParts)
    BY <1>1, SeqOfMore
  <2>. QED BY <2>1, PathsAssumption
<1>3. <<"?">> \in Seq(AllParts)
  BY <1>1, OneAndTwo
<1>. QED BY <1>2, <1>3 DEF Spots, Nowhere

LEMMA EnterSpots ==
  ASSUME NEW spot \in Spots, NEW part
  PROVE  Enter(spot, part) \in Spots
<1> DEFINE next == Append(spot, part)
           target == { l[2] : l \in { k \in Links : k[1] = next } }
<1>1. <<>> \in Spots /\ Nowhere \in Spots /\ spot \in Places \cup {Nowhere}
  BY PathsAssumption DEF Spots
<1>2. spot # Nowhere /\ spot # <<>> => Front(spot) \in Spots
  BY PathsAssumption DEF Spots
<1>3. target \subseteq Places
  BY PathsAssumption
<1>4. (IF target # {} THEN CHOOSE t \in target : TRUE
       ELSE IF next \in Places THEN next ELSE Nowhere) \in Spots
  <2>. HIDE DEF target, next
  <2>. QED BY <1>1, <1>3 DEF Spots
<1>. QED BY <1>1, <1>2, <1>4 DEF Enter

(* The server walks a path part by part.                                   *)
LEMMA ResolveRun ==
  ASSUME NEW path \in Seq(AllParts)
  PROVE  \E h \in [0 .. Len(path) -> Spots] :
           /\ h[0] = <<>>
           /\ \A i \in 1 .. Len(path) : h[i] = Enter(h[i - 1], path[i])
           /\ Resolve(path) = h[Len(path)]
<1> DEFINE n == Len(path)
           F == [y \in (1 .. n) \X Spots |-> Enter(y[2], path[y[1]])]
           P(g) == g = [s \in SUBSET (1 .. n) |->
                          IF s = {} THEN <<>>
                          ELSE Enter(g[s \ {Max(s)}], path[Max(s)])]
           g == CHOOSE k : P(k)
<1>1. n \in Nat /\ DOMAIN path = 1 .. n
  OBVIOUS
<1>2. <<>> \in Spots
  BY PathsAssumption DEF Spots
<1>3. \A i \in 1 .. n : \A x \in Spots :
        F[<<i, x>>] = Enter(x, path[i]) /\ F[<<i, x>>] \in Spots
  BY EnterSpots
<1>4. FoldSteps(n, Spots, <<>>, F)
  <2>. HIDE DEF F, n
  <2>. QED BY <1>1, <1>2, <1>3 DEF FoldSteps
<1>5. \E k : P(k)
  <2>1. PICK k : FoldGraph(n, Spots, <<>>, F, k)
    <3>. HIDE DEF F, n
    <3>. QED BY <1>4, FoldExists
  <2>2. ASSUME NEW s \in SUBSET (1 .. n)
        PROVE  k[s] = IF s = {} THEN <<>>
                      ELSE Enter(k[s \ {Max(s)}], path[Max(s)])
    <3>1. s # {} => Max(s) \in 1 .. n /\ k[s \ {Max(s)}] \in Spots
      BY <1>1, <2>1, MaxInSet DEF FoldGraph
    <3>. HIDE DEF F, n
    <3>. QED BY <3>1, <1>3, <2>1 DEF FoldGraph
  <2>3. P(k)
    <3>1. k \in [SUBSET (1 .. n) -> Spots]
      BY <2>1 DEF FoldGraph
    <3>. HIDE DEF n
    <3>. QED BY <2>2, <3>1
  <2>. QED BY <2>3
<1>6. P(g)
  <2>. HIDE DEF P
  <2>. QED BY <1>5
<1>7. Resolve(path) = g[1 .. n]
  BY <1>1, Zenon DEF Resolve, FoldLeft, MapThenFoldSet
<1>8. ComputesFold(n, Spots, <<>>, F, g)
  <2>1. \A s \in SUBSET (1 .. n) :
          g[s] = IF s = {} THEN <<>> ELSE Enter(g[s \ {Max(s)}], path[Max(s)])
    BY <1>6
  <2>2. \A s \in SUBSET (1 .. n) : s # {} => Max(s) \in 1 .. n
    BY <1>1, MaxInSet
  <2>. HIDE DEF g, F, n
  <2>. QED BY <2>1, <2>2, <1>3 DEF ComputesFold
<1>9. PICK h : RunOf(n, Spots, <<>>, F, h) /\ h[n] = g[1 .. n]
  <2>. HIDE DEF g, F, n
  <2>. QED BY <1>4, <1>8, FoldRun
<1>10. \A i \in 1 .. n : h[i - 1] \in Spots
  BY <1>1, <1>9 DEF RunOf
<1>. HIDE DEF g, F, n
<1>11. h \in [0 .. n -> Spots] /\ h[0] = <<>>
       /\ \A i \in 1 .. n : h[i] = Enter(h[i - 1], path[i])
  BY <1>3, <1>9, <1>10 DEF RunOf
<1>. QED BY <1>7, <1>9, <1>11 DEF n

LEMMA FrontFacts ==
  ASSUME NEW S, NEW path \in Seq(S), path # <<>>
  PROVE  /\ Front(path) \in Seq(S)
         /\ Len(path) \in Nat /\ Len(path) # 0
         /\ Len(path) - 1 \in Nat
         /\ Len(Front(path)) = Len(path) - 1
         /\ \A i \in 1 .. Len(path) - 1 : Front(path)[i] = path[i]
         /\ Last(path) = path[Len(path)] /\ Last(path) \in S
<1>1. Len(path) \in Nat /\ Len(path) # 0 /\ Len(path) - 1 \in Nat
  OBVIOUS
<1>2. \A i \in 1 .. Len(path) - 1 : path[i] \in S
  OBVIOUS
<1>3. /\ Front(path) \in Seq(S) /\ Len(Front(path)) = Len(path) - 1
      /\ \A i \in 1 .. Len(path) - 1 : Front(path)[i] = path[i]
  <2> DEFINE n == Len(path)
  <2>1. Front(path) = [i \in 1 .. n - 1 |-> path[i]]
    <3>1. SubSeq(path, 1, n - 1) = [i \in 1 .. n - 1 |-> path[i]]
      BY <1>1, <1>2
    <3>. QED BY <3>1 DEF Front
  <2>. HIDE DEF n
  <2>. QED BY <1>1, <1>2, <2>1 DEF n
<1>4. Last(path) = path[Len(path)] /\ Last(path) \in S
  BY <1>1 DEF Last
<1>. QED BY <1>1, <1>3, <1>4

LEMMA ResolveSteps ==
  ASSUME NEW path \in Seq(AllParts)
  PROVE  /\ Resolve(path) \in Spots
         /\ path = <<>> => Resolve(path) = <<>>
         /\ path # <<>> => Resolve(path) = Enter(Resolve(Front(path)), Last(path))
<1> DEFINE n == Len(path)
<1>1. PICK h \in [0 .. n -> Spots] :
        /\ h[0] = <<>>
        /\ \A i \in 1 .. n : h[i] = Enter(h[i - 1], path[i])
        /\ Resolve(path) = h[n]
  BY ResolveRun
<1>2. n \in Nat
  OBVIOUS
<1>3. ASSUME path # <<>> PROVE Resolve(path) = Enter(Resolve(Front(path)), Last(path))
  <2> DEFINE f == Front(path)
             m == Len(f)
  <2>1. /\ f \in Seq(AllParts) /\ m = n - 1 /\ n - 1 \in Nat /\ n \in 1 .. n
        /\ \A i \in 1 .. m : f[i] = path[i]
    BY <1>3, FrontFacts
  <2>. HIDE DEF f, n
  <2>2. PICK k \in [0 .. m -> Spots] :
          /\ k[0] = <<>>
          /\ \A i \in 1 .. m : k[i] = Enter(k[i - 1], f[i])
          /\ Resolve(f) = k[m]
    BY <2>1, ResolveRun
  <2> DEFINE Holds == { i \in 0 .. m : h[i] = k[i] }
  <2>3. m \in Nat
    BY <2>1
  <2>4. 0 \in Holds
    BY <1>1, <2>2, <2>3
  <2>5. ASSUME NEW i \in 1 .. m, i - 1 \in Holds PROVE i \in Holds
    <3>1. i \in 1 .. n /\ i \in 0 .. m /\ h[i - 1] = k[i - 1]
      BY <1>2, <2>1, <2>5
    <3>2. h[i] = Enter(h[i - 1], path[i]) /\ k[i] = Enter(k[i - 1], f[i]) /\ f[i] = path[i]
      BY <3>1, <1>1, <2>1, <2>2
    <3>. QED BY <3>1, <3>2
  <2>6. 0 .. m \subseteq Holds
    <3>. HIDE DEF Holds, m
    <3>. QED BY <2>3, <2>4, <2>5, UpTo
  <2>7. h[m] = k[m]
    <3>. HIDE DEF m
    <3>. QED BY <2>3, <2>6
  <2>8. h[n] = Enter(h[n - 1], path[n])
    BY <1>1, <2>1
  <2>. QED BY <1>1, <2>1, <2>2, <2>7, <2>8 DEF f, n, Last
<1>4. path = <<>> => n = 0
  OBVIOUS
<1>. HIDE DEF n
<1>. QED BY <1>1, <1>2, <1>3, <1>4

(* A trailing slash changes nothing.                                       *)
LEMMA EnterNothing ==
  ASSUME NEW spot \in Spots
  PROVE  Enter(spot, "") = spot
BY DEF Enter

LEMMA RealpathIsPath ==
  ASSUME NEW path \in Seq(AllParts), NEW lenient \in BOOLEAN
  PROVE  Realpath(path, lenient) \in Seq(AllParts)
<1> DEFINE whole == Resolve(path)
           P == Resolve(Front(path))
           beside == Append(P, Last(path))
           R == Realpath(path, lenient)
<1>1. whole \in Seq(AllParts) /\ Nowhere \in Seq(AllParts)
  <2>1. Nowhere \in Seq(AllParts)
    BY SpotsArePaths DEF Spots
  <2>2. whole \in Spots
    BY ResolveSteps
  <2>. HIDE DEF whole
  <2>. QED BY <2>1, <2>2, SpotsArePaths
<1>2. ASSUME path # <<>> PROVE beside \in Seq(AllParts)
  <2>1. Front(path) \in Seq(AllParts) /\ Last(path) \in AllParts
    BY <1>2, FrontFacts
  <2>2. P \in Spots
    BY <2>1, ResolveSteps
  <2>. HIDE DEF P
  <2>3. P \in Seq(AllParts)
    BY <2>2, SpotsArePaths
  <2>. QED BY <2>1, <2>3
<1>3. R = whole \/ R = Nowhere \/ (path # <<>> /\ R = beside)
  BY Zenon DEF Realpath
<1>4. R \in Seq(AllParts)
  <2>. HIDE DEF R, whole, P, beside
  <2>. QED BY <1>1, <1>2, <1>3
<1>. QED BY <1>4 DEF R

LEMMA OneLong ==
  ASSUME NEW T, NEW s \in Seq(T), Len(s) = 1
  PROVE  s = << s[1] >>
<1>. QED OBVIOUS

LEMMA PlainRoot ==
  Resolve(<<"">>) = <<>> /\ Resolve(<<"", "">>) = <<>>
<1>1. <<>> \in Seq(AllParts) /\ <<"">> \in Seq(AllParts) /\ <<"", "">> \in Seq(AllParts)
  <2>1. "" \in AllParts
    BY DEF AllParts
  <2>. QED BY <2>1, OneAndTwo
<1>2. Resolve(<<>>) = <<>> /\ <<>> \in Spots
  BY <1>1, ResolveSteps
<1>3. <<"">> # <<>> /\ <<"", "">> # <<>>
  OBVIOUS
<1>4. Front(<<"">>) = <<>> /\ Last(<<"">>) = ""
  BY DEF Front, Last
<1>5. Front(<<"", "">>) = <<"">> /\ Last(<<"", "">>) = ""
  <2>1. /\ Front(<<"", "">>) \in Seq(AllParts) /\ Len(Front(<<"", "">>)) = 1
        /\ Front(<<"", "">>)[1] = ""
    <3>1. Len(<<"", "">>) = 2
      OBVIOUS
    <3>2. 1 \in 1 .. 2 - 1 /\ <<"", "">>[1] = "" /\ 2 - 1 = 1
      OBVIOUS
    <3>. QED BY <1>1, <1>3, <3>1, <3>2, FrontFacts
  <2>2. Front(<<"", "">>) = <<"">>
    <3> DEFINE f == Front(<<"", "">>)
    <3>. HIDE DEF f
    <3>1. f \in Seq(AllParts) /\ Len(f) = 1 /\ f[1] = ""
      BY <2>1 DEF f
    <3>2. f = <<"">>
      BY <3>1, OneLong
    <3>. QED BY <3>2 DEF f
  <2>. QED BY <2>2 DEF Last
<1>6. Resolve(<<"">>) = <<>>
  BY <1>1, <1>2, <1>3, <1>4, ResolveSteps, EnterNothing
<1>. QED BY <1>1, <1>2, <1>3, <1>5, <1>6, ResolveSteps, EnterNothing

LEMMA AppendEnds ==
  ASSUME NEW S, NEW s \in Seq(S), NEW x
  PROVE  Last(Append(s, x)) = x
BY DEF Last

(* Whatever the server, canonify yields the canonical name of a path.      *)
LEMMA CanonIsNamed ==
  ASSUME NEW full \in Seq(AllParts), full # <<>>, Last(full) # "?", NEW lenient \in BOOLEAN
  PROVE  Names(CanonName(full, lenient), full)
<1> DEFINE path == Stripped(full)
           P == Resolve(Front(path))
           whole == Realpath(full, lenient)
           parent == Realpath(Front(path), lenient)
           n == CanonName(full, lenient)
<1>1. CASE Resolve(full) # Nowhere
  <2>1. n = Resolve(full)
    BY <1>1 DEF CanonName, Realpath
  <2>. QED BY <1>1, <2>1 DEF Names
<1>2. CASE Resolve(full) = Nowhere
  <2>1. <<>> # Nowhere
    BY DEF Nowhere
  <2>3. full # <<"">> /\ full # <<"", "">>
    BY <1>2, <2>1, PlainRoot
  <2>4. Last(full) = "" => Len(full) > 1
    <3>2. Len(full) \in Nat /\ Len(full) # 0
      BY FrontFacts
    <3>3. Len(full) = 1 /\ Last(full) = "" => full[1] = ""
      BY DEF Last
    <3>4. ASSUME Len(full) = 1, Last(full) = "" PROVE full = <<"">>
      <4>1. full = << full[1] >>
        BY <3>4, OneLong
      <4>. QED BY <3>3, <3>4, <4>1
    <3>5. Last(full) = "" => Len(full) # 1
      BY <2>3, <3>4, Zenon
    <3> DEFINE n0 == Len(full)
    <3>6. n0 \in Nat /\ n0 # 0
      BY <3>2
    <3>7. n0 # 1 => n0 > 1
      <4>. HIDE DEF n0
      <4>. QED BY <3>6
    <3>. QED BY <3>5, <3>7, Zenon
  <2>5. path = IF Last(full) = "" THEN Front(full) ELSE full
    BY <2>3, <2>4 DEF Stripped
  <2>6. path \in Seq(AllParts) /\ path # <<>>
    <3>1. /\ Front(full) \in Seq(AllParts)
          /\ Len(full) \in Nat /\ Len(Front(full)) = Len(full) - 1
      BY FrontFacts
    <3>2. Len(full) > 1 => Front(full) # <<>>
      <4>1. Len(full) > 1 => Len(Front(full)) # 0
        BY <3>1
      <4>2. Len(<<>>) = 0
        OBVIOUS
      <4>. QED BY <4>1, <4>2
    <3>. HIDE DEF path
    <3>. QED BY <2>4, <2>5, <3>1, <3>2
  <2>7. path # <<"">>
    <3>1. Last(full) = "" => Resolve(full) = Resolve(Front(full))
      <4>1. Front(full) \in Seq(AllParts)
        BY FrontFacts
      <4>2. Resolve(Front(full)) \in Spots
        BY <4>1, ResolveSteps
      <4>3. Resolve(full) = Enter(Resolve(Front(full)), Last(full))
        BY ResolveSteps
      <4>. QED BY <4>2, <4>3, EnterNothing
    <3>. HIDE DEF path
    <3>. QED BY <1>2, <2>1, <2>3, <2>5, <3>1, PlainRoot
  <2>8. Front(path) \in Seq(AllParts)
    <3>. HIDE DEF path
    <3>. QED BY <2>6, FrontFacts
  <2>9. P \in Spots
    <3>. HIDE DEF path
    <3>. QED BY <2>8, ResolveSteps
  <2>10. P \in Seq(AllParts)
    <3>. HIDE DEF P
    <3>. QED BY <2>9, SpotsArePaths
  <2>11. Last(Append(P, Last(path))) = Last(path)
    <3>. HIDE DEF P, path
    <3>. QED BY <2>10, AppendEnds
  <2>12. Last(path) # "" \/ Last(full) = ""
    BY <2>5
  <2>13. CASE whole # Nowhere
    <3>1. lenient /\ full # <<>>
      BY <1>2, <2>13 DEF Realpath
    <3>2. Resolve(Front(full)) # Nowhere /\ Last(full) \notin {"", ".", ".."}
      BY <1>2, <2>13, <3>1 DEF Realpath
    <3>3. whole = Append(Resolve(Front(full)), Last(full))
      BY <1>2, <3>1, <3>2 DEF Realpath
    <3>4. path = full
      BY <2>5, <3>2
    <3>5. n = Append(P, Last(path))
      <4>1. n = whole
        BY <2>13 DEF CanonName
      <4>. QED BY <4>1, <3>3, <3>4
    <3>. QED BY <1>2, <3>2, <3>4, <3>5 DEF Names
  <2>14. CASE whole = Nowhere
    <3>1. n = IF Last(path) \in {".", ".."} \/ path = <<"">> \/ parent = Nowhere
              THEN path ELSE Append(parent, Last(path))
      BY <2>14, Zenon DEF CanonName, Rejoined
    <3>2. P # Nowhere => parent = P
      BY DEF Realpath
    <3>3. parent \in Seq(AllParts)
      <4>. HIDE DEF path
      <4>. QED BY <2>8, RealpathIsPath
    <3>4. CASE P # Nowhere /\ Last(path) \notin {".", ".."}
      <4>1. n = Append(P, Last(path))
        <5>. HIDE DEF n, P, parent, path
        <5>. QED BY <2>7, <3>1, <3>2, <3>4, <2>9
      <4>. QED BY <1>2, <3>4, <4>1 DEF Names
    <3>5. CASE ~ (P # Nowhere /\ Last(path) \notin {".", ".."})
      <4>1. Last(n) = Last(path)
        <5>1. Last(Append(parent, Last(path))) = Last(path)
          <6>. HIDE DEF parent, path
          <6>. QED BY <3>3, AppendEnds
        <5>. HIDE DEF n, parent, path
        <5>. QED BY <3>1, <5>1
      <4>. QED BY <1>2, <3>5, <4>1 DEF Names
    <3>. QED BY <3>4, <3>5
  <2>. QED BY <2>13, <2>14
<1>. QED BY <1>1, <1>2

-----------------------------------------------------------------------------
(* The lists of extensions.                                                *)

(* All that is between two characters of a list.                           *)
Pieces(list) == { SubSeq(list, b[1], b[2]) : b \in Nat \X Nat }

LEMMA PieceOf ==
  ASSUME NEW list, NEW a \in Nat, NEW b \in Nat
  PROVE  SubSeq(list, a, b) \in Pieces(list)
<1>1. <<a, b>> \in Nat \X Nat
  OBVIOUS
<1>2. SubSeq(list, <<a, b>>[1], <<a, b>>[2]) \in Pieces(list)
  BY <1>1, Zenon DEF Pieces
<1>. QED BY <1>2

ExeStates(list) == [start : Nat, words : SUBSET Pieces(list)]
ExeSplit(list) ==
  FoldLeftDomain(LAMBDA st, i : SplitExe(list, st, i), [start |-> 1, words |-> {}], list)

LEMMA SplitExeType ==
  ASSUME NEW list, NEW i \in Nat \ {0}, NEW st \in ExeStates(list)
  PROVE  SplitExe(list, st, i) \in ExeStates(list)
<1>1. st.start \in Nat /\ st.words \in SUBSET Pieces(list)
  BY DEF ExeStates
<1>2. i + 1 \in Nat /\ i - 1 \in Nat
  OBVIOUS
<1>3. SubSeq(list, st.start, i - 1) \in Pieces(list)
  BY <1>1, <1>2, PieceOf
<1>4. { SubSeq(list, st.start, i - 1) : n \in {st.start} \cap (1 .. i - 1) } \subseteq Pieces(list)
  BY <1>3
<1>5. [start |-> i + 1, words |-> st.words \cup { SubSeq(list, st.start, i - 1) : n \in {st.start} \cap (1 .. i - 1) }] \in ExeStates(list)
  BY <1>1, <1>2, <1>4 DEF ExeStates
<1>. QED BY <1>5, Zenon DEF SplitExe, NextStart

(* The list of executables is read character by character.                *)
LEMMA ExeRun ==
  ASSUME NEW list \in Seq(Characters)
  PROVE  \E h \in [0 .. Len(list) -> ExeStates(list)] :
           /\ h[0] = [start |-> 1, words |-> {}]
           /\ \A i \in 1 .. Len(list) : h[i] = SplitExe(list, h[i - 1], i)
           /\ ExeSplit(list) = h[Len(list)]
<1> DEFINE n == Len(list)
           F == [y \in (1 .. n) \X ExeStates(list) |-> SplitExe(list, y[2], y[1])]
           d == [i \in DOMAIN list |-> i]
           P(g) == g = [s \in SUBSET (DOMAIN d) |->
                          IF s = {} THEN [start |-> 1, words |-> {}]
                          ELSE SplitExe(list, g[s \ {Max(s)}], d[Max(s)])]
           g == CHOOSE k : P(k)
<1>1. n \in Nat /\ DOMAIN list = 1 .. n /\ DOMAIN d = 1 .. n /\ \A i \in 1 .. n : d[i] = i
  OBVIOUS
<1>2. [start |-> 1, words |-> {}] \in ExeStates(list)
  BY DEF ExeStates
<1>3. \A i \in 1 .. n : \A x \in ExeStates(list) :
        F[<<i, x>>] = SplitExe(list, x, i) /\ F[<<i, x>>] \in ExeStates(list)
  BY <1>1, SplitExeType
<1>4. FoldSteps(n, ExeStates(list), [start |-> 1, words |-> {}], F)
  <2>. HIDE DEF F, n
  <2>. QED BY <1>1, <1>2, <1>3 DEF FoldSteps
<1>5. \E k : P(k)
  <2>1. PICK k : FoldGraph(n, ExeStates(list), [start |-> 1, words |-> {}], F, k)
    <3>. HIDE DEF F, n
    <3>. QED BY <1>4, FoldExists
  <2>2. ASSUME NEW s \in SUBSET (1 .. n)
        PROVE  k[s] = IF s = {} THEN [start |-> 1, words |-> {}]
                      ELSE SplitExe(list, k[s \ {Max(s)}], Max(s))
    <3>1. s # {} => Max(s) \in 1 .. n /\ k[s \ {Max(s)}] \in ExeStates(list)
      BY <1>1, <2>1, MaxInSet DEF FoldGraph
    <3>. HIDE DEF F, n
    <3>. QED BY <3>1, <1>3, <2>1 DEF FoldGraph
  <2>3. P(k)
    <3>1. k \in [SUBSET (1 .. n) -> ExeStates(list)]
      BY <2>1 DEF FoldGraph
    <3>2. \A s \in SUBSET (1 .. n) : s # {} => d[Max(s)] = Max(s)
      BY <1>1, MaxInSet
    <3>. HIDE DEF n, d
    <3>. QED BY <1>1, <2>2, <3>1, <3>2
  <2>. QED BY <2>3
<1>6. P(g)
  <2>. HIDE DEF P
  <2>. QED BY <1>5
<1>7. ExeSplit(list) = g[1 .. n]
  BY <1>1, Zenon DEF ExeSplit, FoldLeftDomain, FoldLeft, MapThenFoldSet
<1>8. ComputesFold(n, ExeStates(list), [start |-> 1, words |-> {}], F, g)
  <2>1. \A s \in SUBSET (1 .. n) :
          g[s] = IF s = {} THEN [start |-> 1, words |-> {}] ELSE SplitExe(list, g[s \ {Max(s)}], Max(s))
    <3>1. \A s \in SUBSET (1 .. n) : s # {} => d[Max(s)] = Max(s)
      BY <1>1, MaxInSet
    <3>2. g = [s \in SUBSET (1 .. n) |->
                 IF s = {} THEN [start |-> 1, words |-> {}]
                 ELSE SplitExe(list, g[s \ {Max(s)}], d[Max(s)])]
      BY <1>6, <1>1
    <3>. HIDE DEF n, d, g
    <3>. QED BY <3>1, <3>2
  <2>2. \A s \in SUBSET (1 .. n) : s # {} => Max(s) \in 1 .. n
    BY <1>1, MaxInSet
  <2>. HIDE DEF g, F, n
  <2>. QED BY <2>1, <2>2, <1>3 DEF ComputesFold
<1>9. PICK h : RunOf(n, ExeStates(list), [start |-> 1, words |-> {}], F, h) /\ h[n] = g[1 .. n]
  <2>. HIDE DEF g, F, n
  <2>. QED BY <1>4, <1>8, FoldRun
<1>10. \A i \in 1 .. n : h[i - 1] \in ExeStates(list)
  BY <1>1, <1>9 DEF RunOf
<1>. HIDE DEF g, F, n
<1>11. h \in [0 .. n -> ExeStates(list)] /\ h[0] = [start |-> 1, words |-> {}]
       /\ \A i \in 1 .. n : h[i] = SplitExe(list, h[i - 1], i)
  BY <1>3, <1>9, <1>10 DEF RunOf
<1>. QED BY <1>7, <1>9, <1>11 DEF n

ModeStates(list) == [start : Nat, words : SUBSET Pieces(list), thrown : BOOLEAN]
ModeSplit(list) ==
  FoldLeftDomain(LAMBDA st, i : SplitMode(list, st, i),
                 [start |-> 0, words |-> {}, thrown |-> FALSE], list)

LEMMA SplitModeType ==
  ASSUME NEW list, NEW i \in Nat \ {0}, NEW st \in ModeStates(list)
  PROVE  SplitMode(list, st, i) \in ModeStates(list)
<1>1. st.start \in Nat /\ st.words \in SUBSET Pieces(list)
  BY DEF ModeStates
<1>2. i \in Nat /\ i - 1 \in Nat
  OBVIOUS
<1>3. SubSeq(list, st.start, i - 1) \in Pieces(list)
  BY <1>1, <1>2, PieceOf
<1>. QED BY <1>1, <1>2, <1>3 DEF SplitMode, ModeStates

(* The list of text files is read character by character.                 *)
LEMMA ModeRun ==
  ASSUME NEW list \in Seq(Characters)
  PROVE  \E h \in [0 .. Len(list) -> ModeStates(list)] :
           /\ h[0] = [start |-> 0, words |-> {}, thrown |-> FALSE]
           /\ \A i \in 1 .. Len(list) : h[i] = SplitMode(list, h[i - 1], i)
           /\ ModeSplit(list) = h[Len(list)]
<1> DEFINE n == Len(list)
           F == [y \in (1 .. n) \X ModeStates(list) |-> SplitMode(list, y[2], y[1])]
           d == [i \in DOMAIN list |-> i]
           P(g) == g = [s \in SUBSET (DOMAIN d) |->
                          IF s = {} THEN [start |-> 0, words |-> {}, thrown |-> FALSE]
                          ELSE SplitMode(list, g[s \ {Max(s)}], d[Max(s)])]
           g == CHOOSE k : P(k)
<1>1. n \in Nat /\ DOMAIN list = 1 .. n /\ DOMAIN d = 1 .. n /\ \A i \in 1 .. n : d[i] = i
  OBVIOUS
<1>2. [start |-> 0, words |-> {}, thrown |-> FALSE] \in ModeStates(list)
  BY DEF ModeStates
<1>3. \A i \in 1 .. n : \A x \in ModeStates(list) :
        F[<<i, x>>] = SplitMode(list, x, i) /\ F[<<i, x>>] \in ModeStates(list)
  BY <1>1, SplitModeType
<1>4. FoldSteps(n, ModeStates(list), [start |-> 0, words |-> {}, thrown |-> FALSE], F)
  <2>. HIDE DEF F, n
  <2>. QED BY <1>1, <1>2, <1>3 DEF FoldSteps
<1>5. \E k : P(k)
  <2>1. PICK k : FoldGraph(n, ModeStates(list), [start |-> 0, words |-> {}, thrown |-> FALSE], F, k)
    <3>. HIDE DEF F, n
    <3>. QED BY <1>4, FoldExists
  <2>2. ASSUME NEW s \in SUBSET (1 .. n)
        PROVE  k[s] = IF s = {} THEN [start |-> 0, words |-> {}, thrown |-> FALSE]
                      ELSE SplitMode(list, k[s \ {Max(s)}], Max(s))
    <3>1. s # {} => Max(s) \in 1 .. n /\ k[s \ {Max(s)}] \in ModeStates(list)
      BY <1>1, <2>1, MaxInSet DEF FoldGraph
    <3>. HIDE DEF F, n
    <3>. QED BY <3>1, <1>3, <2>1 DEF FoldGraph
  <2>3. P(k)
    <3>1. k \in [SUBSET (1 .. n) -> ModeStates(list)]
      BY <2>1 DEF FoldGraph
    <3>2. \A s \in SUBSET (1 .. n) : s # {} => d[Max(s)] = Max(s)
      BY <1>1, MaxInSet
    <3>. HIDE DEF n, d
    <3>. QED BY <1>1, <2>2, <3>1, <3>2
  <2>. QED BY <2>3
<1>6. P(g)
  <2>. HIDE DEF P
  <2>. QED BY <1>5
<1>7. ModeSplit(list) = g[1 .. n]
  BY <1>1, Zenon DEF ModeSplit, FoldLeftDomain, FoldLeft, MapThenFoldSet
<1>8. ComputesFold(n, ModeStates(list), [start |-> 0, words |-> {}, thrown |-> FALSE], F, g)
  <2>1. \A s \in SUBSET (1 .. n) :
          g[s] = IF s = {} THEN [start |-> 0, words |-> {}, thrown |-> FALSE] ELSE SplitMode(list, g[s \ {Max(s)}], Max(s))
    <3>1. \A s \in SUBSET (1 .. n) : s # {} => d[Max(s)] = Max(s)
      BY <1>1, MaxInSet
    <3>2. g = [s \in SUBSET (1 .. n) |->
                 IF s = {} THEN [start |-> 0, words |-> {}, thrown |-> FALSE]
                 ELSE SplitMode(list, g[s \ {Max(s)}], d[Max(s)])]
      BY <1>6, <1>1
    <3>. HIDE DEF n, d, g
    <3>. QED BY <3>1, <3>2
  <2>2. \A s \in SUBSET (1 .. n) : s # {} => Max(s) \in 1 .. n
    BY <1>1, MaxInSet
  <2>. HIDE DEF g, F, n
  <2>. QED BY <2>1, <2>2, <1>3 DEF ComputesFold
<1>9. PICK h : RunOf(n, ModeStates(list), [start |-> 0, words |-> {}, thrown |-> FALSE], F, h) /\ h[n] = g[1 .. n]
  <2>. HIDE DEF g, F, n
  <2>. QED BY <1>4, <1>8, FoldRun
<1>10. \A i \in 1 .. n : h[i - 1] \in ModeStates(list)
  BY <1>1, <1>9 DEF RunOf
<1>. HIDE DEF g, F, n
<1>11. h \in [0 .. n -> ModeStates(list)] /\ h[0] = [start |-> 0, words |-> {}, thrown |-> FALSE]
       /\ \A i \in 1 .. n : h[i] = SplitMode(list, h[i - 1], i)
  BY <1>3, <1>9, <1>10 DEF RunOf
<1>. QED BY <1>7, <1>9, <1>11 DEF n

(* Where the words of a list begin and end.                                *)
Spans(list, separators) ==
  { c \in (DOMAIN list) \X (DOMAIN list) :
      /\ c[1] <= c[2]
      /\ \A k \in c[1] .. c[2] : list[k] \notin separators
      /\ c[1] > 1 => list[c[1] - 1] \in separators
      /\ c[2] < Len(list) => list[c[2] + 1] \in separators }

(* A word begins at first, and there is no separator up to last.           *)
InWord(list, separators, first, last) ==
  /\ \A k \in first .. last : list[k] \notin separators
  /\ first > 1 => list[first - 1] \in separators

LEMMA SpansBefore ==
  ASSUME NEW T, NEW list \in Seq(T), NEW separators,
         NEW first \in 1 .. Len(list), NEW i \in first .. Len(list),
         InWord(list, separators, first, i - 1), list[i] \in separators
  PROVE  { c \in Spans(list, separators) : c[2] < i + 1 }
           = { c \in Spans(list, separators) : c[2] < first }
               \cup (IF first < i THEN {<<first, i - 1>>} ELSE {})
<1> DEFINE n == Len(list)
<1>1. n \in Nat /\ DOMAIN list = 1 .. n /\ first \in 1 .. n /\ i \in first .. n
      /\ i \in Nat /\ first \in Nat
  OBVIOUS
<1>2. ASSUME NEW c \in Spans(list, separators), c[2] < i + 1, ~ (c[2] < first)
      PROVE  first < i /\ c = <<first, i - 1>>
  <2> DEFINE a == c[1]
             b == c[2]
  <2>1. /\ a \in 1 .. n /\ b \in 1 .. n /\ c = <<a, b>> /\ a <= b
        /\ \A k \in a .. b : list[k] \notin separators
        /\ a > 1 => list[a - 1] \in separators
        /\ b < n => list[b + 1] \in separators
    BY <1>1 DEF Spans
  <2>2. b < i + 1 /\ ~ (b < first)
    BY <1>2
  <2>. HIDE DEF a, b, n
  <2>3. b # i
    BY <1>1, <2>1
  <2>4. b < i /\ first <= b
    BY <1>1, <2>1, <2>2, <2>3
  <2>5. ~ (a < first)
    <3>. SUFFICES ASSUME a < first PROVE FALSE
      OBVIOUS
    <3>1. first > 1 /\ first - 1 \in a .. b
      BY <1>1, <2>1, <2>4
    <3>. QED BY <2>1, <3>1 DEF InWord
  <2>6. ~ (first < a)
    <3>. SUFFICES ASSUME first < a PROVE FALSE
      OBVIOUS
    <3>1. a > 1 /\ a - 1 \in first .. i - 1
      BY <1>1, <2>1, <2>4
    <3>. QED BY <2>1, <3>1 DEF InWord
  <2>7. ~ (b < i - 1)
    <3>. SUFFICES ASSUME b < i - 1 PROVE FALSE
      OBVIOUS
    <3>1. b < n /\ b + 1 \in first .. i - 1
      BY <1>1, <2>1, <2>4
    <3>. QED BY <2>1, <3>1 DEF InWord
  <2>8. a = first /\ b = i - 1
    BY <1>1, <2>1, <2>4, <2>5, <2>6, <2>7
  <2>. QED BY <1>1, <2>1, <2>4, <2>8
<1>3. ASSUME first < i
      PROVE  <<first, i - 1>> \in Spans(list, separators) /\ i - 1 < i + 1
  <2>1. i - 1 \in 1 .. n /\ first <= i - 1 /\ (i - 1) + 1 = i
    BY <1>1, <1>3
  <2>2. <<first, i - 1>> \in (DOMAIN list) \X (DOMAIN list)
    BY <1>1, <2>1
  <2>3. /\ <<first, i - 1>>[1] <= <<first, i - 1>>[2]
        /\ \A k \in <<first, i - 1>>[1] .. <<first, i - 1>>[2] : list[k] \notin separators
        /\ <<first, i - 1>>[1] > 1 => list[<<first, i - 1>>[1] - 1] \in separators
        /\ <<first, i - 1>>[2] < Len(list) => list[<<first, i - 1>>[2] + 1] \in separators
    BY <2>1 DEF InWord
  <2>4. <<first, i - 1>> \in Spans(list, separators)
    BY <2>2, <2>3, Zenon DEF Spans
  <2>. QED BY <1>1, <2>4
<1>4. \A c \in Spans(list, separators) : c[2] < first => c[2] < i + 1
  <2>1. \A c \in Spans(list, separators) : c[2] \in 1 .. n
    BY <1>1 DEF Spans
  <2>. QED BY <1>1, <2>1
<1>. HIDE DEF n
<1>5. CASE first < i
  BY <1>2, <1>3, <1>4, <1>5
<1>6. CASE ~ (first < i)
  BY <1>2, <1>4, <1>6
<1>. QED BY <1>5, <1>6

(* ... and at the end of the list.                                         *)
LEMMA SpansAtEnd ==
  ASSUME NEW T, NEW list \in Seq(T), NEW separators, NEW first \in 1 .. Len(list) + 1,
         InWord(list, separators, first, Len(list))
  PROVE  Spans(list, separators)
           = { c \in Spans(list, separators) : c[2] < first }
               \cup (IF first <= Len(list) THEN {<<first, Len(list)>>} ELSE {})
<1> DEFINE n == Len(list)
<1>1. n \in Nat /\ DOMAIN list = 1 .. n /\ first \in 1 .. n + 1 /\ first \in Nat
  OBVIOUS
<1>2. ASSUME NEW c \in Spans(list, separators), ~ (c[2] < first)
      PROVE  first <= n /\ c = <<first, n>>
  <2> DEFINE a == c[1]
             b == c[2]
  <2>1. /\ a \in 1 .. n /\ b \in 1 .. n /\ c = <<a, b>> /\ a <= b
        /\ \A k \in a .. b : list[k] \notin separators
        /\ a > 1 => list[a - 1] \in separators
        /\ b < n => list[b + 1] \in separators
    BY <1>1 DEF Spans
  <2>2. ~ (b < first)
    BY <1>2
  <2>3. \A k \in first .. n : list[k] \notin separators
    BY DEF InWord
  <2>4. first > 1 => list[first - 1] \in separators
    BY DEF InWord
  <2>. HIDE DEF a, b, n
  <2>5. ~ (a < first)
    <3>. SUFFICES ASSUME a < first PROVE FALSE
      OBVIOUS
    <3>1. first > 1 /\ first - 1 \in a .. b
      BY <1>1, <2>1, <2>2
    <3>. QED BY <2>1, <2>4, <3>1
  <2>6. ~ (first < a)
    <3>. SUFFICES ASSUME first < a PROVE FALSE
      OBVIOUS
    <3>1. a > 1 /\ a - 1 \in first .. n
      BY <1>1, <2>1
    <3>. QED BY <2>1, <2>3, <3>1
  <2>7. ~ (b < n)
    <3>. SUFFICES ASSUME b < n PROVE FALSE
      OBVIOUS
    <3>1. b + 1 \in first .. n
      BY <1>1, <2>1, <2>2
    <3>. QED BY <2>1, <2>3, <3>1
  <2>8. a = first /\ b = n
    BY <1>1, <2>1, <2>5, <2>6, <2>7
  <2>. QED BY <1>1, <2>1, <2>8
<1>3. ASSUME first <= n
      PROVE  <<first, n>> \in Spans(list, separators)
  <2>1. <<first, n>> \in (DOMAIN list) \X (DOMAIN list)
    BY <1>1, <1>3
  <2>2. /\ <<first, n>>[1] <= <<first, n>>[2]
        /\ \A k \in <<first, n>>[1] .. <<first, n>>[2] : list[k] \notin separators
        /\ <<first, n>>[1] > 1 => list[<<first, n>>[1] - 1] \in separators
        /\ <<first, n>>[2] < Len(list) => list[<<first, n>>[2] + 1] \in separators
    BY <1>1, <1>3 DEF InWord
  <2>. QED BY <2>1, <2>2, Zenon DEF Spans
<1>. HIDE DEF n
<1>4. CASE first <= n
  BY <1>2, <1>3, <1>4 DEF n
<1>5. CASE ~ (first <= n)
  BY <1>2, <1>5 DEF n
<1>. QED BY <1>4, <1>5

WordsBefore(list, separators, first) ==
  { SubSeq(list, b[1], b[2]) : b \in { c \in Spans(list, separators) : c[2] < first } }

LEMMA WordsAreSpans ==
  ASSUME NEW list, NEW separators
  PROVE  WordsOf(list, separators) = { SubSeq(list, b[1], b[2]) : b \in Spans(list, separators) }
BY Zenon DEF WordsOf, Spans

(* The loop of configure, when it has read i characters.                   *)
ExeLoop(list, st, i) ==
  /\ st.start \in 1 .. i + 1
  /\ InWord(list, Separators, st.start, i)
  /\ st.words = WordsBefore(list, Separators, st.start)

LEMMA ExeLoopStep ==
  ASSUME NEW list \in Seq(Characters), NEW i \in 1 .. Len(list), NEW st \in ExeStates(list),
         ExeLoop(list, st, i - 1)
  PROVE  ExeLoop(list, SplitExe(list, st, i), i)
<1> DEFINE first == st.start
           piece == { SubSeq(list, first, i - 1) : n \in {first} \cap (1 .. i - 1) }
<1>1. /\ first \in Nat /\ first \in 1 .. i /\ i \in Nat /\ first \in 1 .. Len(list)
      /\ i \in first .. Len(list)
      /\ InWord(list, Separators, first, i - 1)
      /\ st.words = WordsBefore(list, Separators, first)
  BY DEF ExeLoop
<1>. HIDE DEF first
<1>2. CASE list[i] \notin Separators
  <2>1. SplitExe(list, st, i) = st
    BY <1>2 DEF SplitExe
  <2>2. \A k \in first .. i : k = i \/ k \in first .. i - 1
    BY <1>1
  <2>3. InWord(list, Separators, first, i)
    BY <1>1, <1>2, <2>2 DEF InWord
  <2>4. first \in 1 .. i + 1
    BY <1>1
  <2>. QED BY <1>1, <2>1, <2>3, <2>4 DEF ExeLoop, first
<1>3. CASE list[i] \in Separators
  <2>1. /\ SplitExe(list, st, i).start = i + 1
        /\ SplitExe(list, st, i).words = st.words \cup piece
    BY <1>3, Zenon DEF SplitExe, NextStart, first
  <2>2. { c \in Spans(list, Separators) : c[2] < i + 1 }
           = { c \in Spans(list, Separators) : c[2] < first }
               \cup (IF first < i THEN {<<first, i - 1>>} ELSE {})
    BY <1>1, <1>3, SpansBefore
  <2>3. piece = IF first < i THEN {SubSeq(list, first, i - 1)} ELSE {}
    BY <1>1
  <2>4. WordsBefore(list, Separators, i + 1) = st.words \cup piece
    <3>1. CASE first < i
      <4>1. SubSeq(list, <<first, i - 1>>[1], <<first, i - 1>>[2]) = SubSeq(list, first, i - 1)
        OBVIOUS
      <4>. HIDE DEF piece
      <4>. QED BY <1>1, <2>2, <2>3, <3>1, <4>1, Zenon DEF WordsBefore
    <3>2. CASE ~ (first < i)
      <4>. HIDE DEF piece
      <4>. QED BY <1>1, <2>2, <2>3, <3>2, Zenon DEF WordsBefore
    <3>. QED BY <3>1, <3>2
  <2>5. InWord(list, Separators, i + 1, i)
    <3>1. (i + 1) - 1 = i /\ ~ \E k \in i + 1 .. i : TRUE
      BY <1>1
    <3>. QED BY <1>3, <3>1 DEF InWord
  <2>6. i + 1 \in 1 .. i + 1
    BY <1>1
  <2>. QED BY <2>1, <2>4, <2>5, <2>6 DEF ExeLoop
<1>. QED BY <1>2, <1>3

(* exeExtensions is split at exactly its separators.                       *)
LEMMA ExeListIsSplit ==
  ASSUME NEW list \in Seq(Characters)
  PROVE  ExeExtensions(list) = WordsOf(list, Separators)
<1> DEFINE n == Len(list)
<1>1. PICK h \in [0 .. n -> ExeStates(list)] :
        /\ h[0] = [start |-> 1, words |-> {}]
        /\ \A i \in 1 .. n : h[i] = SplitExe(list, h[i - 1], i)
        /\ ExeSplit(list) = h[n]
  BY ExeRun
<1>2. n \in Nat /\ n \in 0 .. n
  OBVIOUS
<1> DEFINE Holds == { i \in 0 .. n : ExeLoop(list, h[i], i) }
<1>3. 0 \in Holds
  <2>1. ExeLoop(list, [start |-> 1, words |-> {}], 0)
    <3>1. \A c \in Spans(list, Separators) : ~ (c[2] < 1)
      BY DEF Spans
    <3>2. WordsBefore(list, Separators, 1) = {}
      BY <3>1 DEF WordsBefore
    <3>3. InWord(list, Separators, 1, 0)
      BY DEF InWord
    <3>. QED BY <3>2, <3>3 DEF ExeLoop
  <2>2. 0 \in 0 .. n
    BY <1>2
  <2>3. ExeLoop(list, h[0], 0)
    BY <1>1, <2>1, Zenon
  <2>. QED BY <2>2, <2>3
<1>4. ASSUME NEW i \in 1 .. n, i - 1 \in Holds PROVE i \in Holds
  <2>1. i \in 0 .. n /\ h[i - 1] \in ExeStates(list) /\ ExeLoop(list, h[i - 1], i - 1)
    BY <1>1, <1>2, <1>4
  <2>2. ExeLoop(list, SplitExe(list, h[i - 1], i), i)
    BY <2>1, ExeLoopStep
  <2>. QED BY <1>1, <2>1, <2>2
<1>5. 0 .. n \subseteq Holds
  <2>. HIDE DEF Holds, n
  <2>. QED BY <1>2, <1>3, <1>4, UpTo
<1> DEFINE end == ExeSplit(list)
           first == end.start
           piece == { SubSeq(list, first, n) : x \in {first} \cap (1 .. n) }
<1>6. /\ first \in 1 .. n + 1 /\ InWord(list, Separators, first, n)
      /\ end.words = WordsBefore(list, Separators, first)
  BY <1>1, <1>2, <1>5 DEF ExeLoop
<1>7. ExeExtensions(list) = end.words \cup piece
  BY Zenon DEF ExeExtensions, ExeSplit
<1>8. Spans(list, Separators)
        = { c \in Spans(list, Separators) : c[2] < first }
            \cup (IF first <= n THEN {<<first, n>>} ELSE {})
  <2>. HIDE DEF first
  <2>. QED BY <1>6, SpansAtEnd
<1>9. piece = IF first <= n THEN {SubSeq(list, first, n)} ELSE {}
  <2>. HIDE DEF first, n
  <2>. QED BY <1>2, <1>6
<1>10. WordsOf(list, Separators) = end.words \cup piece
  <2>. HIDE DEF first, n, end
  <2>1. CASE first <= n
    <3>1. SubSeq(list, <<first, n>>[1], <<first, n>>[2]) = SubSeq(list, first, n)
      OBVIOUS
    <3>. HIDE DEF piece
    <3>. QED BY <1>6, <1>8, <1>9, <2>1, <3>1, WordsAreSpans, Zenon DEF WordsBefore
  <2>2. CASE ~ (first <= n)
    <3>. HIDE DEF piece
    <3>. QED BY <1>6, <1>8, <1>9, <2>2, WordsAreSpans, Zenon DEF WordsBefore
  <2>. QED BY <2>1, <2>2
<1>. QED BY <1>7, <1>10

(* The last dot of what is between first and last.                         *)
LastDot(list, first, last, dot) ==
  /\ dot \in first .. last /\ list[dot] = "."
  /\ \A k \in dot + 1 .. last : list[k] # "."

LEMMA PieceOfPiece ==
  ASSUME NEW T, NEW list \in Seq(T), NEW first \in 1 .. Len(list), NEW last \in first .. Len(list),
         NEW dot \in first .. last
  PROVE  SubSeq(SubSeq(list, first, last), dot - first + 1, Len(SubSeq(list, first, last)))
           = SubSeq(list, dot, last)
<1> DEFINE word == SubSeq(list, first, last)
           m == last - first + 1
           d == dot - first + 1
<1>1. word \in Seq(T) /\ Len(word) = m /\ \A k \in 1 .. m : word[k] = list[first - 1 + k]
  BY SubSeqLaws
<1>2. m \in Nat /\ d \in 1 .. m /\ m - d + 1 = last - dot + 1
  OBVIOUS
<1>3. /\ SubSeq(list, dot, last) \in Seq(T)
      /\ Len(SubSeq(list, dot, last)) = last - dot + 1
      /\ \A k \in 1 .. last - dot + 1 : SubSeq(list, dot, last)[k] = list[dot - 1 + k]
  <2>1. dot \in 1 .. Len(list) + 1 /\ last \in dot - 1 .. Len(list)
    OBVIOUS
  <2>. QED BY <2>1, SubSeqLaws
<1>. HIDE DEF word
<1>4. /\ SubSeq(word, d, m) \in Seq(T)
      /\ Len(SubSeq(word, d, m)) = m - d + 1
      /\ \A k \in 1 .. m - d + 1 : SubSeq(word, d, m)[k] = word[d - 1 + k]
  <2>1. d \in 1 .. Len(word) + 1 /\ m \in d - 1 .. Len(word)
    BY <1>1, <1>2
  <2>. HIDE DEF d, m
  <2>. QED BY <1>1, <2>1, SubSeqLaws
<1>5. ASSUME NEW k \in 1 .. last - dot + 1
      PROVE  SubSeq(word, d, m)[k] = SubSeq(list, dot, last)[k]
  <2>1. d - 1 + k \in 1 .. m /\ first - 1 + (d - 1 + k) = dot - 1 + k
    OBVIOUS
  <2>2. SubSeq(word, d, m)[k] = word[d - 1 + k]
    BY <1>2, <1>4
  <2>3. word[d - 1 + k] = list[first - 1 + (d - 1 + k)]
    <3>. HIDE DEF d, m
    <3>. QED BY <1>1, <2>1
  <2>. QED BY <1>3, <2>1, <2>2, <2>3
<1>6. SubSeq(word, d, m) = SubSeq(list, dot, last)
  <2> DEFINE u == SubSeq(word, d, m)
             v == SubSeq(list, dot, last)
             l == last - dot + 1
  <2>1. u \in Seq(T) /\ v \in Seq(T) /\ Len(u) = l /\ Len(v) = l /\ \A k \in 1 .. l : u[k] = v[k]
    BY <1>2, <1>3, <1>4, <1>5
  <2>2. l \in Nat
    OBVIOUS
  <2>. HIDE DEF u, v, l
  <2>3. u = [k \in 1 .. l |-> u[k]] /\ v = [k \in 1 .. l |-> v[k]]
    BY <2>1, <2>2
  <2>4. [k \in 1 .. l |-> u[k]] = [k \in 1 .. l |-> v[k]]
    BY <2>1, Zenon
  <2>5. u = v
    BY <2>3, <2>4, Zenon
  <2>. QED BY <2>5 DEF u, v
<1>. QED BY <1>1, <1>6 DEF word

LEMMA ExtensionOf ==
  ASSUME NEW T, NEW list \in Seq(T), NEW first \in 1 .. Len(list), NEW last \in first .. Len(list),
         NEW dot, LastDot(list, first, last, dot)
  PROVE  Extension(SubSeq(list, first, last)) = {SubSeq(list, dot, last)}
<1> DEFINE word == SubSeq(list, first, last)
           m == last - first + 1
           d == dot - first + 1
           dots == { j \in DOMAIN word : word[j] = "." /\ \A k \in j + 1 .. Len(word) : word[k] # "." }
<1>1. word \in Seq(T) /\ Len(word) = m /\ \A k \in 1 .. m : word[k] = list[first - 1 + k]
  BY SubSeqLaws
<1>2. /\ dot \in first .. last /\ list[dot] = "."
      /\ \A k \in dot + 1 .. last : list[k] # "."
  BY DEF LastDot
<1>3. m \in Nat /\ d \in 1 .. m /\ first - 1 + d = dot
  BY <1>2
<1>4. DOMAIN word = 1 .. m
  BY <1>1
<1>5. \A k \in 1 .. m : word[k] = list[first - 1 + k]
  BY <1>1
<1>. HIDE DEF word
<1>6. d \in dots
  <2>1. word[d] = "."
    BY <1>2, <1>3, <1>5
  <2>2. \A k \in d + 1 .. m : k \in 1 .. m /\ first - 1 + k \in dot + 1 .. last
    BY <1>2, <1>3
  <2>3. \A k \in d + 1 .. m : word[k] # "."
    BY <1>2, <1>5, <2>2
  <2>4. Len(word) = m
    BY <1>1
  <2>. HIDE DEF d, m
  <2>. QED BY <1>3, <1>4, <2>1, <2>3, <2>4
<1>7. ASSUME NEW j \in dots PROVE j = d
  <2>1. j \in 1 .. m /\ word[j] = "." /\ \A k \in j + 1 .. m : word[k] # "."
    BY <1>1, <1>4, Zenon
  <2>2. d \in 1 .. m /\ word[d] = "." /\ \A k \in d + 1 .. m : word[k] # "."
    BY <1>1, <1>4, <1>6, Zenon
  <2>3. ~ (j < d)
    <3>1. j < d => d \in j + 1 .. m
      BY <2>1, <2>2
    <3>. QED BY <2>1, <2>2, <3>1
  <2>4. ~ (d < j)
    <3>1. d < j => j \in d + 1 .. m
      BY <2>1, <2>2
    <3>. QED BY <2>1, <2>2, <3>1
  <2>5. m \in Nat
    BY <1>3
  <2>. HIDE DEF d, m
  <2>. QED BY <2>1, <2>2, <2>3, <2>4, <2>5
<1>8. dots = {d}
  <2>. HIDE DEF dots, d
  <2>. QED BY <1>6, <1>7
<1>9. Extension(word) = {SubSeq(word, d, Len(word))}
  <2>1. Extension(word) = { SubSeq(word, i, Len(word)) : i \in dots }
    BY Zenon DEF Extension
  <2>. HIDE DEF dots, d
  <2>. QED BY <1>8, <2>1
<1>10. SubSeq(word, d, Len(word)) = SubSeq(list, dot, last)
  BY <1>2, PieceOfPiece DEF word
<1>. QED BY <1>9, <1>10 DEF word

EndsWord(list, e) == e = Len(list) \/ list[e + 1] = " "
BeginsWord(list, b) == list[b] # " " /\ (b > 1 => list[b - 1] = " ")

(* In a well-formed list every word begins with a dot.                     *)
LEMMA WordBeginsWithDot ==
  ASSUME NEW list \in Seq(Characters), WellFormed(list), NEW b \in 1 .. Len(list),
         BeginsWord(list, b)
  PROVE  list[b] = "."
<1> DEFINE n == Len(list)
           S == { e \in b .. n : EndsWord(list, e) }
<1>1. n \in Nat /\ b \in 1 .. n /\ DOMAIN list = 1 .. n
  OBVIOUS
<1>. HIDE DEF n
<1>2. S \in SUBSET Nat /\ S # {}
  <2>1. n \in S
    <3>1. EndsWord(list, n)
      BY Zenon DEF EndsWord, n
    <3>2. n \in b .. n
      BY <1>1
    <3>. QED BY <3>1, <3>2
  <2>. QED BY <1>1, <2>1
<1>3. PICK e \in S : \A m \in S : e <= m
  <2>. HIDE DEF S
  <2>. QED BY <1>2, LeastNat
<1>4. e \in b .. n /\ EndsWord(list, e)
  BY <1>3
<1>5. ASSUME NEW k \in b .. e PROVE list[k] # " "
  <2>1. CASE k = b
    BY <2>1 DEF BeginsWord
  <2>2. CASE k # b
    <3>1. k - 1 \in b .. n /\ k - 1 < e /\ (k - 1) + 1 = k /\ k - 1 # n
      BY <1>1, <1>4, <2>2
    <3>2. k - 1 \notin S
      BY <1>1, <1>3, <1>4, <3>1
    <3>3. ~EndsWord(list, k - 1)
      BY <3>1, <3>2
    <3>. QED BY <3>1, <3>3, Zenon DEF EndsWord
  <2>. QED BY <2>1, <2>2
<1>. HIDE DEF S
<1>6. <<b, e>> \in Spans(list, {" "})
  <2>1. <<b, e>> \in (DOMAIN list) \X (DOMAIN list)
    BY <1>1, <1>4
  <2>2. /\ <<b, e>>[1] <= <<b, e>>[2]
        /\ \A k \in <<b, e>>[1] .. <<b, e>>[2] : list[k] \notin {" "}
        /\ <<b, e>>[1] > 1 => list[<<b, e>>[1] - 1] \in {" "}
        /\ <<b, e>>[2] < Len(list) => list[<<b, e>>[2] + 1] \in {" "}
    <3>1. b <= e /\ (e = n => ~ (e < n))
      BY <1>1, <1>4
    <3>2. b > 1 => list[b - 1] = " "
      BY Zenon DEF BeginsWord
    <3>3. e < n => list[e + 1] = " "
      BY <1>4, <3>1, Zenon DEF EndsWord, n
    <3>. QED BY <1>5, <3>1, <3>2, <3>3 DEF n
  <2>. QED BY <2>1, <2>2, Zenon DEF Spans
<1>7. SubSeq(list, b, e) \in WordsOf(list, {" "})
  <2>1. SubSeq(list, <<b, e>>[1], <<b, e>>[2]) = SubSeq(list, b, e)
    OBVIOUS
  <2>. QED BY <1>6, <2>1, WordsAreSpans, Zenon
<1>8. SubSeq(list, b, e)[1] = "."
  BY <1>7 DEF WellFormed
<1>9. SubSeq(list, b, e)[1] = list[b]
  <2>1. b \in 1 .. Len(list) + 1 /\ e \in b - 1 .. Len(list) /\ 1 \in 1 .. e - b + 1 /\ b - 1 + 1 = b
    BY <1>1, <1>4 DEF n
  <2>. QED BY <2>1, SubSeqLaws
<1>. QED BY <1>8, <1>9

Blank == {" "}
ModeWords(list, first) == UNION { Extension(w) : w \in WordsBefore(list, Blank, first) }
IsBlank(list, i) == list[i] = " "

(* The loop of MODE on a well-formed list, when it has read i characters   *)
(* and the current word begins at first.                                   *)
ModeAt(list, st, first, i) ==
  /\ first \in 1 .. i + 1
  /\ InWord(list, Blank, first, i)
  /\ first = i + 1 => st.start = 0
  /\ first < i + 1 => LastDot(list, first, i, st.start)
  /\ st.words = ModeWords(list, first)

ModeLoop(list, st, i) == ~st.thrown /\ \E first \in Nat : ModeAt(list, st, first, i)

LEMMA OneMoreWord ==
  ASSUME NEW S, NEW word
  PROVE  UNION { Extension(w) : w \in S \cup {word} }
           = (UNION { Extension(w) : w \in S }) \cup Extension(word)
OBVIOUS

LEMMA ModeAtChar ==
  ASSUME NEW list \in Seq(Characters), WellFormed(list), NEW i \in 1 .. Len(list),
         NEW st \in ModeStates(list), ~st.thrown, NEW first \in Nat, ModeAt(list, st, first, i - 1),
         ~IsBlank(list, i)
  PROVE  ModeAt(list, SplitMode(list, st, i), first, i) /\ ~SplitMode(list, st, i).thrown
<1> DEFINE next == SplitMode(list, st, i)
<1>1. /\ first \in 1 .. i /\ i \in Nat \ {0} /\ st.start \in Nat
      /\ InWord(list, Blank, first, i - 1)
      /\ first = i => st.start = 0
      /\ first < i => LastDot(list, first, i - 1, st.start)
      /\ st.words = ModeWords(list, first)
  BY DEF ModeAt, ModeStates
<1>2. InWord(list, Blank, first, i)
  <2>1. \A k \in first .. i : k = i \/ k \in first .. i - 1
    BY <1>1
  <2>2. list[i] \notin Blank
    BY Zenon DEF IsBlank, Blank
  <2>. QED BY <1>1, <2>1, <2>2 DEF InWord
<1>3. first = i => list[i] = "."
  <2>. SUFFICES ASSUME first = i PROVE list[i] = "."
    OBVIOUS
  <2>1. BeginsWord(list, i)
    <3>1. list[i] # " "
      BY Zenon DEF IsBlank
    <3>2. i > 1 => list[i - 1] \in Blank
      BY <1>1 DEF InWord
    <3>3. i > 1 => list[i - 1] = " "
      BY <3>2, Zenon DEF Blank
    <3>. QED BY <3>1, <3>3, Zenon DEF BeginsWord
  <2>. QED BY <2>1, WordBeginsWithDot
<1>4. next.words = st.words /\ ~next.thrown
      /\ next.start = IF list[i] = "." THEN i ELSE st.start
  BY DEF SplitMode, ModeStates, IsBlank
<1>. HIDE DEF next
<1>5. LastDot(list, first, i, next.start)
  <2>1. CASE list[i] = "."
    <3>1. next.start = i /\ i \in first .. i /\ ~ \E k \in i + 1 .. i : TRUE
      BY <1>1, <1>4, <2>1
    <3>. QED BY <2>1, <3>1 DEF LastDot
  <2>2. CASE list[i] # "."
    <3>1. first < i
      BY <1>1, <1>3, <2>2
    <3>2. next.start = st.start
      BY <1>4, <2>2
    <3>3. /\ st.start \in first .. i - 1 /\ list[st.start] = "."
          /\ \A k \in st.start + 1 .. i - 1 : list[k] # "."
      BY <1>1, <3>1 DEF LastDot
    <3>4. st.start \in first .. i /\ \A k \in st.start + 1 .. i : k = i \/ k \in st.start + 1 .. i - 1
      BY <1>1, <3>3
    <3>. QED BY <2>2, <3>2, <3>3, <3>4 DEF LastDot
  <2>. QED BY <2>1, <2>2
<1>6. first \in 1 .. i + 1 /\ first # i + 1
  BY <1>1
<1>. QED BY <1>1, <1>2, <1>4, <1>5, <1>6 DEF ModeAt, next

LEMMA ModeAtSpace ==
  ASSUME NEW list \in Seq(Characters), WellFormed(list), NEW i \in 1 .. Len(list),
         NEW st \in ModeStates(list), ~st.thrown, NEW first \in Nat, ModeAt(list, st, first, i - 1),
         IsBlank(list, i)
  PROVE  ModeAt(list, SplitMode(list, st, i), i + 1, i) /\ ~SplitMode(list, st, i).thrown
<1> DEFINE next == SplitMode(list, st, i)
           before == { c \in Spans(list, Blank) : c[2] < first }
           start == st.start
<1>1. /\ first \in 1 .. i /\ i \in Nat \ {0} /\ st.start \in Nat
      /\ InWord(list, Blank, first, i - 1)
      /\ first < i => LastDot(list, first, i - 1, st.start)
      /\ st.words = ModeWords(list, first)
  BY DEF ModeAt, ModeStates
<1>2. i > 1 /\ list[i - 1] # " "
  <2>1. list[i] = " "
    BY Zenon DEF IsBlank
  <2>2. i \in DOMAIN list
    OBVIOUS
  <2>. QED BY <2>1, <2>2, Zenon DEF WellFormed
<1>3. first < i
  <2>1. first = i => list[i - 1] \in Blank
    BY <1>1, <1>2 DEF InWord
  <2>2. list[i - 1] \notin Blank
    BY <1>2, Zenon DEF Blank
  <2>. QED BY <1>1, <2>1, <2>2
<1>4. LastDot(list, first, i - 1, start)
  BY <1>1, <1>3
<1>5. start # 0
  BY <1>1, <1>4 DEF LastDot
<1>6. /\ next.start = 0 /\ ~next.thrown
      /\ next.words = st.words \cup {SubSeq(list, start, i - 1)}
  BY <1>5 DEF SplitMode, ModeStates, IsBlank
<1>. HIDE DEF next, start
<1>7. { c \in Spans(list, Blank) : c[2] < i + 1 } = before \cup {<<first, i - 1>>}
  <2>1. first \in 1 .. Len(list) /\ i \in first .. Len(list)
    BY <1>1
  <2>2. { c \in Spans(list, Blank) : c[2] < i + 1 }
           = before \cup (IF first < i THEN {<<first, i - 1>>} ELSE {})
    <3>1. list[i] \in Blank
      BY Zenon DEF IsBlank, Blank
    <3>. QED BY <1>1, <2>1, <3>1, SpansBefore
  <2>. QED BY <1>3, <2>2, Zenon
<1>8. WordsBefore(list, Blank, i + 1)
        = WordsBefore(list, Blank, first) \cup {SubSeq(list, first, i - 1)}
  <2>1. SubSeq(list, <<first, i - 1>>[1], <<first, i - 1>>[2]) = SubSeq(list, first, i - 1)
    OBVIOUS
  <2>. QED BY <1>7, <2>1, Zenon DEF WordsBefore
<1>9. Extension(SubSeq(list, first, i - 1)) = {SubSeq(list, start, i - 1)}
  <2>1. first \in 1 .. Len(list) /\ i - 1 \in first .. Len(list)
    BY <1>1, <1>3
  <2>. QED BY <1>4, <2>1, ExtensionOf
<1>10. next.words = ModeWords(list, i + 1)
  <2>1. ModeWords(list, i + 1)
          = ModeWords(list, first) \cup Extension(SubSeq(list, first, i - 1))
    BY <1>8, OneMoreWord, Zenon DEF ModeWords
  <2>. QED BY <1>1, <1>6, <1>9, <2>1, Zenon
<1>11. InWord(list, Blank, i + 1, i) /\ i + 1 \in 1 .. i + 1
  <2>1. (i + 1) - 1 = i /\ ~ \E k \in i + 1 .. i : TRUE
    BY <1>1
  <2>2. list[i] \in Blank
    BY Zenon DEF IsBlank, Blank
  <2>. QED BY <1>1, <2>1, <2>2 DEF InWord
<1>12. ~ (i + 1 < i + 1)
  BY <1>1
<1>. QED BY <1>6, <1>10, <1>11, <1>12 DEF ModeAt, next

LEMMA ModeLoopStep ==
  ASSUME NEW list \in Seq(Characters), WellFormed(list), NEW i \in 1 .. Len(list),
         NEW st \in ModeStates(list), ModeLoop(list, st, i - 1)
  PROVE  ModeLoop(list, SplitMode(list, st, i), i)
<1>1. PICK first \in Nat : ModeAt(list, st, first, i - 1)
  BY DEF ModeLoop
<1>2. ~st.thrown
  BY DEF ModeLoop
<1>3. CASE ~IsBlank(list, i)
  <2>1. ModeAt(list, SplitMode(list, st, i), first, i) /\ ~SplitMode(list, st, i).thrown
    BY <1>1, <1>2, <1>3, ModeAtChar
  <2>. QED BY <2>1 DEF ModeLoop
<1>4. CASE IsBlank(list, i)
  <2>1. ModeAt(list, SplitMode(list, st, i), i + 1, i) /\ ~SplitMode(list, st, i).thrown
    BY <1>1, <1>2, <1>4, ModeAtSpace
  <2>2. i + 1 \in Nat
    OBVIOUS
  <2>. QED BY <2>1, <2>2 DEF ModeLoop
<1>. QED BY <1>3, <1>4

(* A well-formed list of text extensions never throws, and is split into   *)
(* what follows the last dot of each of its words.                         *)
LEMMA ModeListIsSplit ==
  ASSUME NEW list \in Seq(Characters), WellFormed(list)
  PROVE  /\ ~ModeExtensions(list).thrown
         /\ ModeExtensions(list).words = UNION { Extension(w) : w \in WordsOf(list, Blank) }
<1> DEFINE n == Len(list)
<1>1. PICK h \in [0 .. n -> ModeStates(list)] :
        /\ h[0] = [start |-> 0, words |-> {}, thrown |-> FALSE]
        /\ \A i \in 1 .. n : h[i] = SplitMode(list, h[i - 1], i)
        /\ ModeSplit(list) = h[n]
  BY ModeRun
<1>2. n \in Nat /\ n \in 0 .. n
  OBVIOUS
<1> DEFINE Holds == { i \in 0 .. n : ModeLoop(list, h[i], i) }
<1>3. 0 \in Holds
  <2>1. ModeLoop(list, [start |-> 0, words |-> {}, thrown |-> FALSE], 0)
    <3>1. \A c \in Spans(list, Blank) : ~ (c[2] < 1)
      BY DEF Spans
    <3>2. WordsBefore(list, Blank, 1) = {}
      BY <3>1 DEF WordsBefore
    <3>3. InWord(list, Blank, 1, 0)
      BY DEF InWord
    <3>4. ModeAt(list, [start |-> 0, words |-> {}, thrown |-> FALSE], 1, 0)
      BY <3>2, <3>3 DEF ModeAt
    <3>5. 1 \in Nat
      OBVIOUS
    <3>. QED BY <3>4, <3>5 DEF ModeLoop
  <2>2. 0 \in 0 .. n
    BY <1>2
  <2>3. ModeLoop(list, h[0], 0)
    BY <1>1, <2>1, Zenon
  <2>. QED BY <2>2, <2>3
<1>4. ASSUME NEW i \in 1 .. n, i - 1 \in Holds PROVE i \in Holds
  <2>1. i \in 0 .. n /\ h[i - 1] \in ModeStates(list) /\ ModeLoop(list, h[i - 1], i - 1)
    BY <1>1, <1>2, <1>4
  <2>2. ModeLoop(list, SplitMode(list, h[i - 1], i), i)
    BY <2>1, ModeLoopStep
  <2>. QED BY <1>1, <2>1, <2>2
<1>5. 0 .. n \subseteq Holds
  <2>. HIDE DEF Holds, n
  <2>. QED BY <1>2, <1>3, <1>4, UpTo
<1> DEFINE end == ModeSplit(list)
<1>6. ModeLoop(list, end, n) /\ end \in ModeStates(list)
  <2>1. ModeLoop(list, h[n], n) /\ h[n] \in ModeStates(list)
    <3>. HIDE DEF n
    <3>. QED BY <1>1, <1>2, <1>5
  <2>. QED BY <1>1, <2>1, Zenon
<1>7. ModeExtensions(list)
        = [end EXCEPT !.words = IF end.thrown \/ end.start = 0 THEN @
                                ELSE @ \cup {SubSeq(list, end.start, Len(list))}]
  BY Zenon DEF ModeExtensions, ModeSplit
<1>. HIDE DEF end
<1>8. /\ ~end.thrown /\ ~ModeExtensions(list).thrown
      /\ ModeExtensions(list).words = IF end.start = 0 THEN end.words
                                      ELSE end.words \cup {SubSeq(list, end.start, n)}
  BY <1>6, <1>7 DEF ModeLoop, ModeStates
<1>9. PICK first \in Nat : ModeAt(list, end, first, n)
  BY <1>6 DEF ModeLoop
<1> DEFINE before == { c \in Spans(list, Blank) : c[2] < first }
<1>10. /\ first \in 1 .. n + 1 /\ InWord(list, Blank, first, n)
       /\ first = n + 1 => end.start = 0
       /\ first < n + 1 => LastDot(list, first, n, end.start)
       /\ end.words = ModeWords(list, first)
  BY <1>9 DEF ModeAt
<1>11. Spans(list, Blank) = before \cup (IF first <= n THEN {<<first, n>>} ELSE {})
  BY <1>10, SpansAtEnd
<1>12. CASE first = n + 1
  <2>1. ~ (first <= n)
    BY <1>2, <1>12
  <2>2. Spans(list, Blank) = before
    <3>. HIDE DEF before, n
    <3>. QED BY <1>11, <2>1
  <2>3. WordsOf(list, Blank) = WordsBefore(list, Blank, first)
    BY <2>2, WordsAreSpans, Zenon DEF WordsBefore
  <2>. QED BY <1>8, <1>10, <1>12, <2>3
<1>13. CASE first < n + 1
  <2>1. first <= n /\ first \in 1 .. n /\ n \in first .. n
    BY <1>2, <1>10, <1>13
  <2>2. Spans(list, Blank) = before \cup {<<first, n>>}
    BY <1>11, <2>1, Zenon
  <2>3. WordsOf(list, Blank) = WordsBefore(list, Blank, first) \cup {SubSeq(list, first, n)}
    <3>1. SubSeq(list, <<first, n>>[1], <<first, n>>[2]) = SubSeq(list, first, n)
      OBVIOUS
    <3>. QED BY <2>2, <3>1, WordsAreSpans, Zenon DEF WordsBefore
  <2>4. LastDot(list, first, n, end.start)
    BY <1>10, <1>13
  <2>5. Extension(SubSeq(list, first, n)) = {SubSeq(list, end.start, n)}
    BY <2>1, <2>4, ExtensionOf
  <2>6. end.start # 0
    BY <2>1, <2>4 DEF LastDot
  <2>7. ModeExtensions(list).words = end.words \cup {SubSeq(list, end.start, n)}
    BY <1>8, <2>6, Zenon
  <2>8. UNION { Extension(w) : w \in WordsOf(list, Blank) }
          = ModeWords(list, first) \cup Extension(SubSeq(list, first, n))
    BY <2>3, OneMoreWord, Zenon DEF ModeWords
  <2>. QED BY <1>8, <1>10, <2>5, <2>7, <2>8, Zenon
<1>14. first = n + 1 \/ first < n + 1
  BY <1>2, <1>10
<1>. QED BY <1>12, <1>13, <1>14

-----------------------------------------------------------------------------
(* The conversions together.                                               *)

LEMMA FullNameIsPath ==
  ASSUME NEW pwd \in Places, NEW absolute \in BOOLEAN, NEW name \in Arguments
  PROVE  LET full == FullName(pwd, absolute, name)
         IN full \in Seq(AllParts) /\ full # <<>> /\ Last(full) # "?"
<1> DEFINE full == FullName(pwd, absolute, name)
<1>1. PICK m \in 1 .. MaxParts : name \in [1 .. m -> Parts]
  BY DEF Arguments
<1>2. MaxParts \in Nat /\ Places \subseteq Seq(AllParts)
  BY PathsAssumption, SpotsArePaths DEF Spots
<1>3. m \in Nat \ {0}
  BY <1>1, <1>2
<1>4. name \in Seq(Parts) /\ Len(name) = m
  BY <1>1, <1>3
<1>5. name \in Seq(AllParts)
  <2>1. Parts \subseteq AllParts
    BY DEF AllParts
  <2>. QED BY <1>4, <2>1, SeqOfMore
<1>6. pwd \in Seq(AllParts)
  BY <1>2
<1>7. /\ pwd \o name \in Seq(AllParts)
      /\ Len(pwd \o name) = Len(pwd) + m
      /\ (pwd \o name)[Len(pwd) + m] = name[m]
  BY <1>3, <1>4, <1>5, <1>6
<1>8. name[m] \in Parts
  BY <1>1, <1>3
<1>9. full \in Seq(AllParts) /\ Len(full) # 0 /\ Last(full) = name[m]
  <2>1. CASE absolute
    BY <1>3, <1>4, <1>5, <2>1 DEF FullName, Last
  <2>2. CASE ~absolute
    <3>1. Len(pwd) + m # 0
      BY <1>3, <1>6
    <3>. QED BY <1>7, <2>2, <3>1 DEF FullName, Last
  <2>. QED BY <2>1, <2>2
<1>10. name[m] # "?"
  BY <1>8, PathsAssumption
<1>11. Len(<<>>) = 0
  OBVIOUS
<1>. HIDE DEF full
<1>12. full \in Seq(AllParts) /\ full # <<>> /\ Last(full) # "?"
  BY <1>9, <1>10, <1>11
<1>. QED BY <1>12 DEF full

(* The fields of an input.                                                 *)
LEMMA InputFields ==
  ASSUME NEW i \in Inputs
  PROVE  /\ i.kind # "text"
         /\ i.kind = "chmod" => i.old \in OldPerms /\ i.mode \in Modes
         /\ i.kind = "path" => /\ i.pwd \in Pwds /\ i.absolute \in BOOLEAN
                               /\ i.name \in Arguments /\ i.lenient \in BOOLEAN
         /\ i.kind = "list" => i.list \in Lists
BY DEF Inputs

(* What the steps of the other conversions leave.                          *)
ResultIs(i, r) ==
  r.done =>
    /\ i.kind = "chmod" =>
         r.value = IF Accepted(i.mode) THEN NewPerms(i.old, Masks(i.mode)) ELSE i.old
    /\ i.kind = "path" =>
         r.value = CanonName(FullName(i.pwd, i.absolute, i.name), i.lenient)
    /\ i.kind = "list" =>
         r.value = [exe |-> ExeExtensions(i.list), text |-> ModeExtensions(i.list)]

IsInput(i) == i.kind = "text" \/ i \in Inputs
TextInv == AsciiInv /\ IsInput(input) /\ ResultIs(input, result)

LEMMA NoTextInv ==
  ASSUME NoText PROVE AsciiInv
<1>1. Len(<<>>) = 0 /\ <<>> \in Seq(Bytes) /\ DOMAIN <<>> = {}
  OBVIOUS
<1>2. AsciiType
  <2>1. 1 \in 1 .. 0 + 1 /\ 1 \in 1 .. 1 /\ 0 \in 0 .. 0
    OBVIOUS
  <2>2. FALSE \in BOOLEAN
    OBVIOUS
  <2>3. /\ file \in Seq(Bytes) /\ buffer \in Seq(Bytes) /\ sent \in Seq(Bytes)
        /\ Len(file) = 0 /\ Len(buffer) = 0 /\ pos = 0 /\ p = 1 /\ q = 1
        /\ lastIs0D \in BOOLEAN
    BY <1>1, <2>2 DEF NoText
  <2>4. pos \in 0 .. Len(file) /\ p \in 1 .. Len(buffer) + 1 /\ q \in 1 .. p /\ pos = Len(file)
    BY <2>1, <2>3
  <2>5. state = "sent"
    BY DEF NoText
  <2>. QED BY <2>3, <2>4, <2>5 DEF AsciiType
<1>3. Borders
  BY <1>1 DEF NoText, Borders
<1>4. Progress
  <2>1. Consumed = 0 /\ Converted = <<>> /\ ~lastIs0D /\ file = <<>> /\ state # "converting"
    BY DEF NoText, Consumed, Before, Converted
  <2>2. UnixFirst(<<>>, 0) = <<>>
    BY <1>1, UnixFirstSteps
  <2>. QED BY <2>1, <2>2 DEF Progress
<1>5. UnreadIsUntouched
  BY DEF NoText, UnreadIsUntouched
<1>. QED BY <1>2, <1>3, <1>4, <1>5 DEF AsciiInv

LEMMA TextInit ==
  ASSUME Init PROVE TextInv
<1>1. AsciiInv
  BY AsciiInitInv, NoTextInv DEF Init
<1>2. IsInput(input)
  BY DEF Init, IsInput
<1>3. ResultIs(input, result)
  BY DEF Init, NoResult, ResultIs
<1>. QED BY <1>1, <1>2, <1>3 DEF TextInv

LEMMA TextStep ==
  ASSUME TextInv, Next \/ UNCHANGED vars
  PROVE  TextInv'
<1>1. AsciiInv /\ IsInput(input) /\ ResultIs(input, result)
  BY DEF TextInv
<1>2. AsciiInv' /\ input' = input
  <2>1. (AsciiNext \/ UNCHANGED ascii) /\ input' = input
    BY DEF Next, Upload, ChangeMode, Canonify, SplitLists, RunCommand, Yields, Done, vars
  <2>. QED BY <1>1, <2>1, AsciiStep
<1>3. ResultIs(input, result')
  <2>1. CASE UNCHANGED result
    BY <1>1, <2>1
  <2>2. CASE ChangeMode
    BY <2>2 DEF ChangeMode, Yields, ResultIs
  <2>3. CASE Canonify
    BY <2>3 DEF Canonify, Yields, ResultIs
  <2>4. CASE SplitLists
    BY <2>4 DEF SplitLists, Yields, ResultIs
  <2>5. CASE RunCommand
    BY <2>5 DEF RunCommand, Yields, ResultIs
  <2>. QED BY <2>1, <2>2, <2>3, <2>4, <2>5 DEF Next, Upload, Done, vars
<1>. QED BY <1>1, <1>2, <1>3 DEF TextInv, IsInput, ResultIs

(* The invariant of all conversions: AsciiInv for a text that is uploaded,  *)
(* and a result that is what the steps make of their input.                *)
THEOREM TextInvariant == Spec => []TextInv
<1>1. Init => TextInv
  BY TextInit
<1>2. TextInv /\ [Next]_vars => TextInv'
  BY TextStep
<1>. QED BY <1>1, <1>2, PTL DEF Spec

(* Of a text of any length, sent in buffers of any size, all bytes but the *)
(* CRs of its line ends arrive in order, and it would come back, if no     *)
(* other CR is the last byte of a buffer or of the file.                   *)
THEOREM TextUploadCorrect == Spec => []TextIsKeptInBuffers
<1>1. TextInv => TextIsKeptInBuffers
  BY AsciiInvSuffices DEF TextInv
<1>. QED BY <1>1, TextInvariant, PTL

(* The two masks of chmod do what the clauses do one after the other, for  *)
(* modes of any number of clauses.                                         *)
THEOREM ChmodCorrect == Spec => []ModeIsApplied
<1>1. ASSUME TextInv PROVE ModeIsApplied
  <2>. SUFFICES ASSUME Has("chmod")
                PROVE  IF ~Accepted(input.mode) THEN result.value = input.old
                       ELSE Reassigns(input.mode) \/ result.value = OneByOne(input.old, input.mode)
    BY DEF ModeIsApplied
  <2>1. input.kind = "chmod" /\ result.done /\ IsInput(input) /\ ResultIs(input, result)
    BY <1>1 DEF TextInv, Has
  <2>2. input.old \in SUBSET AllBits /\ input.mode \in Modes
    <3>1. input \in Inputs
      BY <2>1 DEF IsInput
    <3>. QED BY <2>1, <3>1, InputFields, TextAssumption
  <2>3. result.value = IF Accepted(input.mode) THEN NewPerms(input.old, Masks(input.mode))
                       ELSE input.old
    BY <2>1 DEF ResultIs
  <2>4. Reassigns(input.mode)
          \/ NewPerms(input.old, Masks(input.mode)) = OneByOne(input.old, input.mode)
    BY <2>2, MasksApplyTheClauses
  <2>. QED BY <2>3, <2>4
<1>. QED BY <1>1, TextInvariant, PTL

(* canonify yields the canonical path, for paths of any length, any files  *)
(* and links on the server, and both kinds of servers.                     *)
THEOREM CanonifyCorrect == Spec => []CanonicalOnAllServers
<1>1. ASSUME TextInv PROVE CanonicalOnAllServers
  <2>. SUFFICES ASSUME Has("path")
                PROVE  Names(result.value, FullName(input.pwd, input.absolute, input.name))
    BY DEF CanonicalOnAllServers
  <2>1. input.kind = "path" /\ result.done /\ IsInput(input) /\ ResultIs(input, result)
    BY <1>1 DEF TextInv, Has
  <2>2. /\ input.pwd \in Places /\ input.absolute \in BOOLEAN
        /\ input.name \in Arguments /\ input.lenient \in BOOLEAN
    <3>1. input \in Inputs
      BY <2>1 DEF IsInput
    <3>. QED BY <2>1, <3>1, InputFields, TextAssumption
  <2> DEFINE full == FullName(input.pwd, input.absolute, input.name)
  <2>3. full \in Seq(AllParts) /\ full # <<>> /\ Last(full) # "?"
    BY <2>2, FullNameIsPath
  <2>4. result.value = CanonName(full, input.lenient)
    BY <2>1 DEF ResultIs
  <2>5. Names(CanonName(full, input.lenient), full)
    <3>. HIDE DEF full
    <3>. QED BY <2>2, <2>3, CanonIsNamed
  <2>. QED BY <2>4, <2>5
<1>. QED BY <1>1, TextInvariant, PTL

(* The lists of extensions are split at their separators, and well-formed  *)
(* ones never throw, for lists of any length.                              *)
THEOREM ListsCorrect == Spec => []ListsAreSplit
<1>1. ASSUME TextInv PROVE ListsAreSplit
  <2>. SUFFICES ASSUME Has("list")
                PROVE  /\ result.value.exe = WordsOf(input.list, Separators)
                       /\ WellFormed(input.list) =>
                            /\ ~result.value.text.thrown
                            /\ result.value.text.words =
                                 UNION { Extension(w) : w \in WordsOf(input.list, {" "}) }
    BY DEF ListsAreSplit
  <2>1. input.kind = "list" /\ result.done /\ IsInput(input) /\ ResultIs(input, result)
    BY <1>1 DEF TextInv, Has
  <2>2. input.list \in Seq(Characters)
    <3>1. input \in Inputs
      BY <2>1 DEF IsInput
    <3>2. PICK n \in 0 .. MaxList : input.list \in [1 .. n -> Characters]
      BY <2>1, <3>1, InputFields DEF Lists
    <3>3. n \in Nat
      BY TextAssumption
    <3>. QED BY <3>2, <3>3
  <2>3. /\ result.value.exe = ExeExtensions(input.list)
        /\ result.value.text = ModeExtensions(input.list)
    BY <2>1 DEF ResultIs
  <2>. QED BY <2>2, <2>3, ExeListIsSplit, ModeListIsSplit DEF Blank
<1>. QED BY <1>1, TextInvariant, PTL

(* The conversion of sftp_put_file writes into the buffer that it reads    *)
(* from.  In every file, clean or not, the bytes that it has not come to   *)
(* are still as they were read, in every buffer and up to the byte at p.   *)
THEOREM UnreadIsLeftAlone == AsciiSpec => []UnreadIsUntouched
<1>1. AsciiInit => AsciiInv
  BY AsciiInitInv
<1>2. AsciiInv /\ [AsciiNext \/ (AsciiDone /\ UNCHANGED ascii)]_ascii => AsciiInv'
  BY AsciiStep
<1>3. AsciiInv => UnreadIsUntouched
  BY DEF AsciiInv
<1>. QED BY <1>1, <1>2, <1>3, PTL DEF AsciiSpec
=============================================================================
