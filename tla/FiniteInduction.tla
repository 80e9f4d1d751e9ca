-------------------------- MODULE FiniteInduction --------------------------
(***************************************************************************)
(* Induction over the naturals, stated with a set instead of a predicate   *)
(* so that it can be cited where operators cannot be instantiated: the     *)
(* naturals up to a counterexample would map one to one into those but 0.  *)
(***************************************************************************)
EXTENDS Integers, FiniteSetTheorems, TLAPS

(* A set with 0 and with every successor of its members has every natural. *)
LEMMA SetInduction ==
  ASSUME NEW T, 0 \in T, \A n \in T \cap Nat : n + 1 \in T
  PROVE  Nat \subseteq T
<1>1. SUFFICES ASSUME NEW x \in Nat, x \notin T PROVE FALSE
  OBVIOUS
<1> DEFINE S == {n \in Nat : n <= x /\ n \in T}
           next == [n \in S |-> n + 1]
<1>2. S \in SUBSET Nat /\ \A n \in S : n <= x
  OBVIOUS
<1>3. IsFiniteSet(S)
  BY ONLY <1>1, <1>2, FS_BoundedSetOfNaturals
<1>4. 0 \in S
  BY <1>1
<1>5. next \in [S -> S \ {0}]
  <2>1. ASSUME NEW n \in S PROVE n + 1 \in S \ {0}
    <3>1. n \in Nat /\ n <= x /\ n + 1 \in T /\ n # x
      BY <1>1
    <3>2. n + 1 <= x
      BY <3>1, <1>1
    <3> QED BY <3>1, <3>2
  <2> QED BY <2>1
<1>6. IsFiniteSet(S \ {0}) /\ Cardinality(S \ {0}) = Cardinality(S) - 1
  BY <1>3, <1>4, FS_RemoveElement
<1>7. Cardinality(S) \in Nat
  BY <1>3, FS_CardinalityType
<1>8. Cardinality(S \ {0}) < Cardinality(S)
  BY <1>6, <1>7
<1>9. PICK a \in S, b \in S : a # b /\ next[a] = next[b]
  <2> HIDE DEF S, next
  <2> QED BY <1>3, <1>5, <1>6, <1>8, FS_PigeonHole
<1> QED BY <1>9
=============================================================================
