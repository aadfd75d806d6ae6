------------------------------- MODULE Chmod -------------------------------
(***************************************************************************)
(* The mode of the command chmod (PuttyLib/putty/psftp.c): a list of       *)
(* clauses, each some of u, g, o, a, one of + - =, and some of r, w, x, s, *)
(* t, becomes two masks, the bits to clear and the bits to set, which are  *)
(* applied to the permissions of each file.  A mask is a set of bits.      *)
(***************************************************************************)
EXTENDS Naturals, Sequences, SequencesExt

CONSTANTS
  Whos, Perms,   \* the sets of letters that clauses are made of
  MaxClauses     \* bounds the clauses of a mode

ASSUME ChmodAssumption ==
  /\ Whos \subseteq SUBSET {"u", "g", "o", "a"}
  /\ Perms \subseteq (SUBSET {"r", "w", "x", "s", "t"}) \ {{}}
  /\ MaxClauses \in Nat

Sticky == <<"all", "t">>
Set(who) == <<who, "s">>
Bits(who) == { <<who, x>> : x \in {"r", "w", "x"} }

AllBits ==
  (UNION { Bits(who) : who \in {"u", "g", "o"} }) \cup {Set("u"), Set("g"), Sticky}

Clause == [who : Whos, action : {"+", "-", "="}, perms : Perms]
Modes == UNION { [1 .. n -> Clause] : n \in 1 .. MaxClauses }

Mask(who) ==
  CASE who = "u" -> Bits("u") \cup {Set("u")}
    [] who = "g" -> Bits("g") \cup {Set("g")}
    [] who = "o" -> Bits("o")
    [] who = "a" -> AllBits \ {Sticky}

Whom(c) == UNION { Mask(who) : who \in c.who }
Subset(c) == Whom(c) \cup { b \in {Sticky} : "t" \in c.perms }
Named(c) == { b \in AllBits : b[2] \in c.perms }

(* s is for exactly u or exactly g; without u, g, o or a only t is allowed. *)
Refused(c) ==
  \/ "s" \in c.perms /\ Whom(c) \notin {Mask("u"), Mask("g")}
  \/ Whom(c) = {} /\ ~(Named(c) \subseteq Subset(c))

Given(c) == Named(c) \cap Subset(c)

(* Slip: = clears only what it sets. *)
AddClause_ClearsLess(m, c) ==
  [m EXCEPT !.clr = @ \cup Given(c),
            !.xor = IF c.action = "-" THEN @ \ Given(c) ELSE @ \cup Given(c)]

AddClause(m, c) ==
  [m EXCEPT !.clr = @ \cup IF c.action = "=" THEN Subset(c) ELSE Given(c),
            !.xor = IF c.action = "-" THEN @ \ Given(c) ELSE @ \cup Given(c)]

Masks(mode) == FoldLeft(AddClause, [clr |-> {}, xor |-> {}], mode)

(* permissions &= ~attrs_clr; permissions ^= attrs_xor *)
NewPerms(old, m) ==
  LET kept == old \ m.clr IN (kept \ m.xor) \cup (m.xor \ kept)

-----------------------------------------------------------------------------
(* What the clauses do one after the other. *)
Apply(old, c) ==
  CASE c.action = "+" -> old \cup Given(c)
    [] c.action = "-" -> old \ Given(c)
    [] c.action = "=" -> (old \ Subset(c)) \cup Given(c)

OneByOne(old, mode) == FoldLeft(Apply, old, mode)

(* A clause with = that comes after one that sets bits for the same. *)
Reassigns(mode) ==
  \E j \in DOMAIN mode : \E i \in 1 .. j - 1 :
    /\ mode[j].action = "="
    /\ mode[i].action # "-"
    /\ Given(mode[i]) \cap (Subset(mode[j]) \ Given(mode[j])) # {}

Accepted(mode) == \A i \in DOMAIN mode : ~Refused(mode[i])
=============================================================================
