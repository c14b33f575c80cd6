------------------------------ MODULE NatFacts ------------------------------
(***************************************************************************)
(* Facts about natural numbers that the proofs about the trees rest on:    *)
(* the least-number principle, in a form that mentions no operator         *)
(* parameter (so that the provers can use it for every induction), and     *)
(* division by a number that is not a literal.                             *)
(***************************************************************************)
EXTENDS Integers, FiniteSets, FiniteSetTheorems, WellFoundedInduction, TLAPS

(* Every nonempty set of naturals has a least element: the intervals 0..n  *)
(* are well-founded under strict inclusion.                                *)
LEMMA LeastNat ==
  ASSUME NEW T, T \subseteq Nat, T # {}
  PROVE  \E n \in T : \A m \in T : n <= m
<1> DEFINE TT == {0 .. n : n \in T}
<1>1. TT \subseteq FiniteSubsetsOf(Nat)
  <2>1. \A n \in T : IsFiniteSet(0 .. n)
    BY FS_Interval
  <2>2. \A n \in T : 0 .. n \in FiniteSubsetsOf(Nat)
    BY <2>1 DEF FiniteSubsetsOf
  <2> QED BY <2>2
<1>2. \E x \in TT : \A y \in TT : ~ (<<y, x>> \in StrictSubsetOrdering(Nat))
  <2>1. TT # {}
    OBVIOUS
  <2> HIDE DEF TT
  <2> QED BY <1>1, <2>1, FS_StrictSubsetOrderingWellFounded, WFMin, Zenon
<1>3. PICK x \in T : \A y \in T : ~ (<<0 .. y, 0 .. x>> \in StrictSubsetOrdering(Nat))
  BY <1>2
<1>4. \A y \in T : x <= y
  <2> SUFFICES ASSUME NEW y \in T, y < x PROVE FALSE
    BY <1>3
  <2>1. 0 .. y \subseteq 0 .. x
    BY <1>3
  <2>2. x \in 0 .. x /\ x \notin 0 .. y
    BY <1>3
  <2>3. <<0 .. y, 0 .. x>> \in StrictSubsetOrdering(Nat)
    BY <2>1, <2>2 DEF StrictSubsetOrdering
  <2> QED BY <1>3, <2>3
<1> QED BY <1>4

(* Induction over an initial segment, as a statement about a set of good   *)
(* indices: if it holds 0 and is closed under successor, it holds all.     *)
LEMMA SegmentInduction ==
  ASSUME NEW N \in Nat, NEW Good,
         0 \in Good,
         \A i \in 0 .. N : i > 0 /\ i - 1 \in Good => i \in Good
  PROVE  \A i \in 0 .. N : i \in Good
<1> SUFFICES ASSUME NEW j \in 0 .. N, j \notin Good PROVE FALSE
  OBVIOUS
<1> DEFINE Bad == {i \in 0 .. N : i \notin Good}
<1>1. PICK n \in Bad : \A m \in Bad : n <= m
  <2>1. Bad \subseteq Nat /\ Bad # {}
    OBVIOUS
  <2> HIDE DEF Bad
  <2> QED BY <2>1, LeastNat
<1>2. n > 0 /\ n - 1 \in 0 .. N
  BY <1>1
<1>3. n - 1 \notin Bad
  BY <1>1, <1>2
<1> QED BY <1>1, <1>2, <1>3

(* Quotient and remainder, and that nothing else is.                       *)
LEMMA DivMod ==
  ASSUME NEW a \in Nat \ {0}, NEW n \in Nat
  PROVE  /\ n \div a \in Nat
         /\ n % a \in 0 .. a - 1
         /\ n = a * (n \div a) + (n % a)
  BY Z3

LEMMA DivUnique ==
  ASSUME NEW a \in Nat \ {0}, NEW q \in Nat, NEW r \in 0 .. a - 1
  PROVE  /\ (a * q + r) \div a = q
         /\ (a * q + r) % a = r
  BY Z3

LEMMA MulMonotone ==
  ASSUME NEW a \in Nat, NEW b \in Nat, NEW c \in Nat, a <= b
  PROVE  c * a <= c * b
  BY Z3

LEMMA MulNat ==
  ASSUME NEW a \in Nat, NEW b \in Nat
  PROVE  /\ a * b \in Nat
         /\ a # 0 /\ b # 0 => a * b # 0
  BY Z3

(* Dividing by a and then by b is dividing by b * a.                       *)
LEMMA DivDiv ==
  ASSUME NEW a \in Nat \ {0}, NEW b \in Nat \ {0}, NEW n \in Nat
  PROVE  n \div (b * a) = (n \div a) \div b
<1> DEFINE q == n \div a
           r == n % a
           p == q \div b
           s == q % b
<1>1. q \in Nat /\ r \in 0 .. a - 1 /\ n = a * q + r
  BY DivMod
<1>2. p \in Nat /\ s \in 0 .. b - 1 /\ q = b * p + s
  BY <1>1, DivMod
<1> HIDE DEF q, r, p, s
<1>3. n = (b * a) * p + (a * s + r)
  BY <1>1, <1>2, Z3
<1>4. a * s + r \in 0 .. (b * a) - 1
  <2>1. a * s <= a * (b - 1)
    BY <1>2, MulMonotone
  <2>2. a * s \in Nat /\ a * (b - 1) = b * a - a
    BY <1>2, Z3
  <2> QED BY <2>1, <2>2, <1>1
<1>5. b * a \in Nat \ {0}
  BY MulNat
<1>6. n \div (b * a) = p
  BY <1>3, <1>4, <1>5, <1>2, DivUnique, Zenon
<1> QED BY <1>6 DEF p, q

(* Stepping from n to n + 1 moves the quotient by one exactly when a       *)
(* divides n + 1, and not at all otherwise.                                *)
LEMMA DivSucc ==
  ASSUME NEW a \in Nat \ {0}, NEW n \in Nat
  PROVE  /\ (n + 1) % a = 0 => (n + 1) \div a = (n \div a) + 1
         /\ (n + 1) % a # 0 => (n + 1) \div a = n \div a
<1> DEFINE q == n \div a
           r == n % a
<1>1. q \in Nat /\ r \in 0 .. a - 1 /\ n = a * q + r
  BY DivMod
<1> HIDE DEF q, r
<1>2. CASE r = a - 1
  <2>1. n + 1 = a * (q + 1) + 0
    BY <1>1, <1>2, Z3
  <2>2. (n + 1) \div a = q + 1 /\ (n + 1) % a = 0
    <3> DEFINE q1 == q + 1
    <3>1. q1 \in Nat /\ 0 \in 0 .. a - 1 /\ n + 1 = a * q1 + 0
      BY <1>1, <2>1
    <3> HIDE DEF q1
    <3>2. (a * q1 + 0) \div a = q1 /\ (a * q1 + 0) % a = 0
      BY <3>1, DivUnique
    <3>3. (n + 1) \div a = q1 /\ (n + 1) % a = 0
      BY <3>1, <3>2
    <3> QED BY <3>3 DEF q1
  <2> QED BY <2>2 DEF q
<1>3. CASE r # a - 1
  <2> DEFINE r1 == r + 1
  <2>1. r1 \in 1 .. a - 1 /\ n + 1 = a * q + r1
    BY <1>1, <1>3, Z3
  <2> HIDE DEF r1
  <2>2. (a * q + r1) \div a = q /\ (a * q + r1) % a = r1
    BY <2>1, <1>1, DivUnique
  <2>3. (n + 1) \div a = q /\ (n + 1) % a # 0
    BY <2>1, <2>2
  <2> QED BY <2>3 DEF q
<1> QED BY <1>2, <1>3
=============================================================================
