---------------------------- MODULE SetInduction ----------------------------
(***************************************************************************)
(* Induction over the natural numbers, for a set instead of a predicate.     *)
(***************************************************************************)
EXTENDS Naturals, FiniteSets, FiniteSetTheorems, TLAPS

(* A set that has 0 and with every number the next one has all of them: the  *)
(* members up to a number that is missing would map, each to the next, one   *)
(* to one into themselves without 0.                                         *)
LEMMA NatInductionOverSet ==
  ASSUME NEW T \in SUBSET Nat, 0 \in T, \A k \in T : k + 1 \in T
  PROVE  T = Nat
  <1> SUFFICES ASSUME NEW n \in Nat, n \notin T PROVE FALSE
    OBVIOUS
  <1> DEFINE U == T \cap (0 .. n)
             f == [k \in U |-> k + 1]
  <1>1. 0 \in U /\ U \in SUBSET Nat /\ \A k \in U : k <= n
    OBVIOUS
  <1>2. f \in Injection(U, U \ {0})
    BY DEF Injection, IsInjective
  <1> HIDE DEF U, f
  <1>3. IsFiniteSet(U)
    BY <1>1, FS_BoundedSetOfNaturals
  <1>4. Cardinality(U) \in Nat
    BY <1>3, FS_CardinalityType
  <1>5. IsFiniteSet(U \ {0}) /\ Cardinality(U \ {0}) = Cardinality(U) - 1
    BY <1>1, <1>3, FS_RemoveElement
  <1>6. Cardinality(U) <= Cardinality(U \ {0})
    BY <1>2, <1>5, FS_Injection
  <1> QED  BY <1>4, <1>5, <1>6

=============================================================================
