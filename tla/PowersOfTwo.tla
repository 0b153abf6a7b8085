----------------------------- MODULE PowersOfTwo -----------------------------
(***************************************************************************)
(* Facts about the powers of two.  2 ^ n is how many subsets 1 .. n has,   *)
(* and what the sizes of a ring need of the powers follows from that by    *)
(* counting, without induction.                                            *)
(***************************************************************************)
EXTENDS Integers, FiniteSets, Functions, FiniteSetTheorems, TLAPS

LEMMA PowerCounts ==
  ASSUME NEW n \in Nat
  PROVE  /\ IsFiniteSet(SUBSET (1 .. n))
         /\ Cardinality(SUBSET (1 .. n)) = 2 ^ n
         /\ 2 ^ n \in Nat
<1>1. IsFiniteSet(1 .. n) /\ Cardinality(1 .. n) = n
  BY FS_Interval
<1>2. IsFiniteSet(SUBSET (1 .. n)) /\ Cardinality(SUBSET (1 .. n)) = 2 ^ n
  BY <1>1, FS_SUBSET
<1> QED BY <1>2, FS_CardinalityType

LEMMA PowerOne == 2 ^ 0 = 1 /\ 2 ^ 1 = 2
<1>1. 2 ^ 0 = 1
  <2>1. SUBSET (1 .. 0) = {{}}
    OBVIOUS
  <2> QED BY <2>1, PowerCounts, FS_Singleton
<1>2. 2 ^ 1 = 2
  <2>1. SUBSET (1 .. 1) = {{}} \cup {{1}}
    OBVIOUS
  <2>2. IsFiniteSet({{}}) /\ Cardinality({{}}) = 1
    BY FS_Singleton
  <2>3. {1} \notin {{}}
    OBVIOUS
  <2>4. Cardinality({{}} \cup {{1}}) = 1 + 1
    BY <2>2, <2>3, FS_AddElement
  <2> QED BY <2>1, <2>4, PowerCounts
<1> QED BY <1>1, <1>2

(* A subset of 1 .. a + b is a subset of 1 .. a and one of what is left.   *)
LEMMA PowerSum ==
  ASSUME NEW a \in Nat, NEW b \in Nat
  PROVE  2 ^ (a + b) = 2 ^ a * 2 ^ b
<1> DEFINE A == 1 .. a
           B == a + 1 .. a + b
           P == SUBSET A
           Q == SUBSET B
           S == SUBSET (1 .. a + b)
           f == [p \in P \X Q |-> p[1] \cup p[2]]
<1>1. A \cap B = {} /\ A \cup B = 1 .. a + b
  OBVIOUS
<1>2. /\ IsFiniteSet(P) /\ Cardinality(P) = 2 ^ a
      /\ IsFiniteSet(Q) /\ Cardinality(Q) = 2 ^ b
      /\ Cardinality(S) = 2 ^ (a + b)
  <2>1. IsFiniteSet(B) /\ Cardinality(B) = b
    BY FS_Interval
  <2>2. IsFiniteSet(Q) /\ Cardinality(Q) = 2 ^ b
    BY <2>1, FS_SUBSET
  <2>3. IsFiniteSet(P) /\ Cardinality(P) = 2 ^ a
    BY PowerCounts
  <2>4. a + b \in Nat
    OBVIOUS
  <2>5. Cardinality(S) = 2 ^ (a + b)
    BY <2>4, PowerCounts
  <2> QED BY <2>2, <2>3, <2>5
<1>3. IsFiniteSet(P \X Q) /\ Cardinality(P \X Q) = 2 ^ a * 2 ^ b
  BY <1>2, FS_Product
<1> HIDE DEF A, B
<1>4. f \in [P \X Q -> S]
  BY <1>1
<1>5. \A T \in S : \E p \in P \X Q : f[p] = T
  <2> SUFFICES ASSUME NEW T \in S PROVE \E p \in P \X Q : f[p] = T
    OBVIOUS
  <2>1. <<T \cap A, T \cap B>> \in P \X Q
    OBVIOUS
  <2>2. (T \cap A) \cup (T \cap B) = T
    BY <1>1
  <2>3. f[<<T \cap A, T \cap B>>] = T
    BY <2>1, <2>2
  <2> QED BY <2>1, <2>3
<1>6. \A p, q \in P \X Q : f[p] = f[q] => p = q
  <2> SUFFICES ASSUME NEW p \in P \X Q, NEW q \in P \X Q, f[p] = f[q] PROVE p = q
    OBVIOUS
  <2>1. p[1] \cup p[2] = q[1] \cup q[2]
    OBVIOUS
  <2>2. p[1] = q[1]
    BY <1>1, <2>1
  <2>3. p[2] = q[2]
    BY <1>1, <2>1
  <2> QED BY <2>2, <2>3
<1> HIDE DEF f, P, Q, S
<1>7. f \in Bijection(P \X Q, S)
  BY <1>4, <1>5, <1>6 DEF Bijection, Injection, Surjection, IsInjective
<1>8. Cardinality(S) = Cardinality(P \X Q)
  BY <1>3, <1>7, FS_Bijection DEF ExistsBijection
<1> QED BY <1>2, <1>3, <1>8

LEMMA PowerNext ==
  ASSUME NEW n \in Nat
  PROVE  2 ^ (n + 1) = 2 ^ n * 2
<1>1. 2 ^ (n + 1) = 2 ^ n * 2 ^ 1
  BY PowerSum
<1> QED BY <1>1, PowerOne

LEMMA PowerLess ==
  ASSUME NEW a \in Nat, NEW b \in Nat
  PROVE  /\ 2 ^ a \in Nat \ {0}
         /\ a < b <=> 2 ^ a < 2 ^ b
         /\ a <= b <=> 2 ^ a <= 2 ^ b
<1>1. \A n \in Nat : 2 ^ n \in Nat \ {0}
  <2> SUFFICES ASSUME NEW n \in Nat PROVE 2 ^ n # 0
    BY PowerCounts
  <2>1. {} \in SUBSET (1 .. n)
    OBVIOUS
  <2> QED BY <2>1, PowerCounts, FS_EmptySet
<1>2. \A m, n \in Nat : m < n => 2 ^ m < 2 ^ n
  <2> SUFFICES ASSUME NEW m \in Nat, NEW n \in Nat, m < n PROVE 2 ^ m < 2 ^ n
    OBVIOUS
  <2>1. SUBSET (1 .. m) \in SUBSET (SUBSET (1 .. n))
    OBVIOUS
  <2>2. {n} \in SUBSET (1 .. n) /\ {n} \notin SUBSET (1 .. m)
    OBVIOUS
  <2>3. /\ Cardinality(SUBSET (1 .. m)) <= Cardinality(SUBSET (1 .. n))
        /\ Cardinality(SUBSET (1 .. m)) # Cardinality(SUBSET (1 .. n))
    BY <2>1, <2>2, PowerCounts, FS_Subset
  <2>4. 2 ^ m \in Nat /\ 2 ^ n \in Nat /\ 2 ^ m <= 2 ^ n /\ 2 ^ m # 2 ^ n
    BY <2>3, PowerCounts
  <2> QED BY <2>4
<1>3. a < b \/ a = b \/ b < a
  OBVIOUS
<1> QED BY <1>1, <1>2, <1>3

(* The larger of two powers is a multiple of the smaller.                  *)
LEMMA PowerDivides ==
  ASSUME NEW a \in Nat, NEW b \in Nat, 2 ^ a <= 2 ^ b
  PROVE  b - a \in Nat /\ 2 ^ b = 2 ^ a * 2 ^ (b - a)
<1>1. a <= b
  BY PowerLess
<1>2. b - a \in Nat /\ a + (b - a) = b
  BY <1>1
<1> QED BY <1>2, PowerSum

=============================================================================
