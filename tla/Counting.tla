------------------------------ MODULE Counting ------------------------------
(* Facts about the sizes of finite sets that the proofs about reference    *)
(* counts (HybridCounts, RwLockProofs) and about the reservations of nodes *)
(* (DebtListProofs) share.                                                 *)
EXTENDS Integers, FiniteSets, FiniteSetTheorems, TLAPS

(* A set that changes at one element changes its size by that element. *)
LEMMA OneChange ==
  ASSUME NEW S, IsFiniteSet(S), NEW P \in SUBSET S, NEW Q \in SUBSET S,
         NEW x \in S, \A y \in S : y # x => (y \in P <=> y \in Q)
  PROVE  /\ Cardinality(P) \in Nat /\ Cardinality(Q) \in Nat
         /\ Cardinality(Q) = Cardinality(P) - (IF x \in P THEN 1 ELSE 0)
                                            + (IF x \in Q THEN 1 ELSE 0)
<1>1. IsFiniteSet(P) /\ IsFiniteSet(Q)
  BY FS_Subset
<1>2. Cardinality(P) \in Nat /\ Cardinality(Q) \in Nat
  BY <1>1, FS_CardinalityType
<1>3. CASE x \in P /\ x \notin Q
  <2>1. Q = P \ {x}
    BY <1>3
  <2> QED BY <1>1, <1>2, <1>3, <2>1, FS_RemoveElement
<1>4. CASE x \notin P /\ x \in Q
  <2>1. P = Q \ {x}
    BY <1>4
  <2> QED BY <1>1, <1>2, <1>4, <2>1, FS_RemoveElement
<1>5. CASE x \in P <=> x \in Q
  <2>1. P = Q
    BY <1>5
  <2> QED BY <1>2, <1>5, <2>1
<1> QED BY <1>3, <1>4, <1>5

(* Tagging the elements of a set does not change its size. *)
LEMMA TaggedCount ==
  ASSUME NEW tag, NEW A, IsFiniteSet(A)
  PROVE  IsFiniteSet({tag} \X A) /\ Cardinality({tag} \X A) = Cardinality(A)
<1>1. IsFiniteSet({tag}) /\ Cardinality({tag}) = 1
  BY FS_Singleton
<1>2. IsFiniteSet({tag} \X A) /\ Cardinality({tag} \X A) = Cardinality({tag}) * Cardinality(A)
  BY <1>1, FS_Product
<1>3. Cardinality(A) \in Nat
  BY FS_CardinalityType
<1> QED BY <1>1, <1>2, <1>3

(* The size of the union of two disjoint sets. *)
LEMMA JoinCount ==
  ASSUME NEW A, NEW B, IsFiniteSet(A), IsFiniteSet(B), A \cap B = {}
  PROVE  /\ IsFiniteSet(A \cup B)
         /\ Cardinality(A \cup B) = Cardinality(A) + Cardinality(B)
         /\ Cardinality(A \cup B) \in Nat /\ Cardinality(A) \in Nat /\ Cardinality(B) \in Nat
<1>1. Cardinality(A \cap B) = 0
  BY FS_EmptySet
<1>2. Cardinality(A) \in Nat /\ Cardinality(B) \in Nat
  BY FS_CardinalityType
<1>3. /\ IsFiniteSet(A \cup B)
      /\ Cardinality(A \cup B) = Cardinality(A) + Cardinality(B) - Cardinality(A \cap B)
  BY FS_Union
<1> QED BY <1>1, <1>2, <1>3
=============================================================================
