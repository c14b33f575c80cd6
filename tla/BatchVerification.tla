-------------------------- MODULE BatchVerification --------------------------
(***************************************************************************)
(* bulletproofs/src/r1cs/verifier/batch.rs: verifying several proofs with  *)
(* one multi-exponentiation.  Each proof is a VerificationTuple: points of *)
(* its own with their scalars, and scalars for the generators B,           *)
(* B_blinding, G and H that all proofs share; the proof is valid when      *)
(* everything adds up to the neutral element.  To verify many at once, each*)
(* tuple is multiplied by a random weight and the scalars of a shared      *)
(* generator are added up.                                                 *)
(*                                                                         *)
(* A point is a combination of the generators, and a scalar is a polynomial*)
(* in the randomness: a sum vanishes when all its coefficients do, which is*)
(* what holds except with negligible probability.                          *)
(***************************************************************************)
EXTENDS Integers, Sequences, FiniteSetsExt

CONSTANTS
  Sizes,          \* values of padded_n of the proofs; one twice the capacity comes too
  GensCapacity,   \* gens_capacity of the BulletproofGens
  MaxBatch,       \* bound: tuples in one call
  MaxInChecker,   \* bound: tuples added to the checker
  MaxExponent     \* bound: random weights drawn

ASSUME SizesAssumption == GensCapacity \in Nat \ {0} /\ Sizes \subseteq 1 .. GensCapacity

VARIABLES
  collected,   \* the Vec<VerificationTuple> of the caller's next call
  rmc,         \* the RandomizedMultChecker
  in_rmc,      \* history: how many tuples the checker answers for, and are all valid
  checked,     \* history: were all tuples of the last call valid
  result       \* what the last call returned ("none" while the caller collects for the
               \* next one); Ok of an adding call is "Added"

vars == <<collected, rmc, in_rmc, checked, result>>

-----------------------------------------------------------------------------
(* Scalars: the coefficients of the powers of the randomness.              *)
Exponents == 0 .. MaxExponent
Zero == [e \in Exponents |-> 0]
Constant(x) == [Zero EXCEPT ![0] = x]
Plus(p, q) == [e \in Exponents |-> p[e] + q[e]]

(* A weight is a power of the randomness, or it is zero.                   *)
ZeroWeight == -1
Times(p, weight) ==
  [e \in Exponents |-> IF weight # ZeroWeight /\ e >= weight THEN p[e - weight] ELSE 0]

(* The generators, in the order of fixed_point_scalars.                    *)
B == <<"B", 0>>
B_blinding == <<"B_blinding", 0>>
G(n) == [i \in 1 .. n |-> <<"G", i>>]
H(n) == [i \in 1 .. n |-> <<"H", i>>]
fixed_points(n) == <<B, B_blinding>> \o G(n) \o H(n)

Largest == 2 * GensCapacity
Generators == {fixed_points(Largest)[j] : j \in 1 .. 2 + 2 * Largest}
Neutral == [g \in Generators |-> Zero]
Sum(terms) ==
  [g \in Generators |->
     [e \in Exponents |-> MapThenSumSet(LAMBDA k : terms[k][g][e], DOMAIN terms)]]
Scaled(point, weight) == [g \in Generators |-> Times(point[g], weight)]

(***************************************************************************)
(* VerificationTuple.  What a prover of size n sends: the scalar of the    *)
(* j-th fixed point is j, and the points of the proof (`proof') outweigh   *)
(* it, up to an error on one generator.                                    *)
(***************************************************************************)
ScalarOf(j) == Constant(j)

Tuple(n, at, error) ==
  LET index(g) == CHOOSE j \in 1 .. 2 + 2 * n : fixed_points(n)[j] = g
  IN  [proof |-> [g \in Generators |->
                    IF \E j \in 1 .. 2 + 2 * n : fixed_points(n)[j] = g
                    THEN Constant((IF g = at THEN error ELSE 0) - index(g)) ELSE Zero],
       fixed_point_scalars |-> [j \in 1 .. 2 + 2 * n |-> ScalarOf(j)],
       valid |-> error = 0]

Malformed == [proof |-> Neutral, fixed_point_scalars |-> <<>>, valid |-> FALSE]

Tuples ==
  {Malformed, Tuple(Largest, B, 0)}
    \cup {Tuple(n, at, error) : n \in Sizes, at \in {B, <<"H", 1>>}, error \in {-1, 0, 1}}

IsMalformed(vt) == Len(vt.fixed_point_scalars) < 2
padded_n(vt) == (Len(vt.fixed_point_scalars) - 2) \div 2

(* bases_and_scalars, multiplied out: each fixed point with its scalar.    *)
Msm(vt, n) ==
  LET points == fixed_points(n)
      scalar(g) == LET at == {j \in DOMAIN points : points[j] = g}
                   IN  IF at = {} THEN Zero ELSE vt.fixed_point_scalars[CHOOSE j \in at : TRUE]
  IN  [g \in Generators |-> Plus(vt.proof[g], scalar(g))]

-----------------------------------------------------------------------------
(* The k-th weight when new_randomness_getter is called with the previous  *)
(* one, starting from `start': independent scalars for with_rng, powers of *)
(* the given one otherwise; either way no two are alike, unless all vanish.*)
Weight(randomness, start, k) == IF randomness = "zero" THEN ZeroWeight ELSE start + k

(* Mutant: H is not moved up to where the largest tuple has it.            *)
PlaceIn_unmoved(vt, j, max_padded_n) ==
  IF j <= 2 + 2 * padded_n(vt) THEN j ELSE 0

(* Where the scalar of the combined tuple's j-th fixed point is in a       *)
(* smaller tuple; 0 if it has none.                                        *)
PlaceIn(vt, j, max_padded_n) ==
  LET n == padded_n(vt)
  IN  IF j <= 2 + n THEN j
      ELSE IF j > 2 + max_padded_n /\ j <= 2 + max_padded_n + n THEN j - max_padded_n + n
      ELSE 0

(* combine_verification_tuples                                             *)
combine_verification_tuples(vts, weights) ==
  LET max_padded_n == Max({padded_n(vts[k]) : k \in DOMAIN vts} \cup {0})
      scalar(k, j, e) == LET place == PlaceIn(vts[k], j, max_padded_n)
                         IN  IF place = 0 THEN 0
                             ELSE Times(vts[k].fixed_point_scalars[place], weights[k])[e]
  IN  [proof |-> Sum([k \in DOMAIN vts |-> Scaled(vts[k].proof, weights[k])]),
       fixed_point_scalars |->
         [j \in 1 .. 2 + 2 * max_padded_n |->
            [e \in Exponents |-> MapThenSumSet(LAMBDA k : scalar(k, j, e), DOMAIN vts)]]]

(* msm_check                                                               *)
msm_check(vt, n) ==
  IF GensCapacity < n THEN "InvalidGeneratorsLength"
  ELSE IF Msm(vt, n) = Neutral THEN "Ok" ELSE "VerificationError"

(* batch_verify_core: with equal sizes the first tuple keeps weight one    *)
(* and the scalars are added up in place, which is the same combination.   *)
batch_verify_core(vts, randomness) ==
  IF vts = <<>> THEN "NoVerificationTuple"
  ELSE IF \E k \in DOMAIN vts : IsMalformed(vts[k]) THEN "VerificationErrorWithReason"
  ELSE LET n == padded_n(vts[1])
           same_size == \A k \in DOMAIN vts : padded_n(vts[k]) = n
           weights == [k \in DOMAIN vts |->
                         IF ~ same_size THEN Weight(randomness, 0, k)
                         ELSE IF k = 1 THEN 0 ELSE Weight(randomness, 0, k - 1)]
           combined == combine_verification_tuples(vts, weights)
       IN  msm_check(combined, padded_n(combined))

Collect(vt) ==
  /\ Len(collected) < MaxBatch
  /\ collected' = Append(collected, vt)
  /\ checked' = TRUE
  /\ result' = "none"
  /\ UNCHANGED <<rmc, in_rmc>>

AllValid == \A k \in DOMAIN collected : collected[k].valid

Returned(outcome) ==
  /\ result' = outcome
  /\ checked' = AllValid
  /\ collected' = <<>>

(* batch_verify, batch_verify_with_rng: a scalar that is zero is redrawn.  *)
batch_verify ==
  /\ Returned(batch_verify_core(collected, "nonzero"))
  /\ UNCHANGED <<rmc, in_rmc>>

(* Mutant: any randomness is taken.                                        *)
batch_verify_with_given_randomness_unchecked(randomness) ==
  /\ Returned(batch_verify_core(collected, randomness))
  /\ UNCHANGED <<rmc, in_rmc>>

batch_verify_with_given_randomness(randomness) ==
  /\ Returned(IF randomness = "zero" THEN "BatchVerificationError"
              ELSE batch_verify_core(collected, randomness))
  /\ UNCHANGED <<rmc, in_rmc>>

-----------------------------------------------------------------------------
(* RandomizedMultChecker (of a library): `add' takes a term as it is,      *)
(* `add_many' gives all its terms the current random weight and draws the  *)
(* next.                                                                   *)
NewChecker == [sum |-> Neutral, current_random |-> 0]
add(checker, point) == [checker EXCEPT !.sum = Sum(<<@, point>>)]
update_random(checker) == [checker EXCEPT !.current_random = @ + 1]
(* Mutant: the weight is used again.                                       *)
add_many_keeps_weight(checker, point) == add(checker, Scaled(point, checker.current_random))
add_many(checker, point) == update_random(add(checker, Scaled(point, checker.current_random)))

AddedAll(checker, points) ==
  LET after[k \in 0 .. Len(points)] ==
        IF k = 0 THEN checker ELSE add_many(after[k - 1], points[k])
  IN  after[Len(points)]

Bounded ==
  /\ in_rmc.count + Len(collected) <= MaxInChecker
  /\ rmc.current_random + Len(collected) <= MaxExponent

Answers(outcome, checker) ==
  /\ Returned(outcome)
  /\ rmc' = checker
  /\ in_rmc' = IF outcome = "Added" THEN [count |-> in_rmc.count + Len(collected),
                                          valid |-> in_rmc.valid /\ AllValid]
               ELSE in_rmc

(* add_verification_tuple_to_rmc, of a single tuple.                       *)
add_verification_tuple_to_rmc ==
  /\ Bounded
  /\ Len(collected) = 1
  /\ LET vt == collected[1]
         n  == padded_n(vt)
     IN  IF IsMalformed(vt) THEN Answers("VerificationErrorWithReason", rmc)
         ELSE IF GensCapacity < n THEN Answers("InvalidGeneratorsLength", rmc)
         ELSE Answers("Added", add_many(rmc, Msm(vt, n)))

(* Mutant: the capacity is compared tuple by tuple.                        *)
add_verification_tuples_to_rmc_0_checks_late ==
  LET fits(k) == padded_n(collected[k]) <= GensCapacity
      good == {k \in DOMAIN collected : \A j \in 1 .. k : fits(j)}
      points == [k \in 1 .. Max(good \cup {0}) |-> Msm(collected[k], padded_n(collected[k]))]
  IN  /\ Bounded
      /\ IF collected = <<>> THEN Answers("NoVerificationTuple", rmc)
         ELSE IF \E k \in DOMAIN collected : IsMalformed(collected[k])
         THEN Answers("VerificationErrorWithReason", rmc)
         ELSE Answers(IF good = DOMAIN collected THEN "Added" ELSE "InvalidGeneratorsLength",
                      AddedAll(rmc, points))

(* add_verification_tuples_to_rmc_0: every tuple padded to the largest and *)
(* given to add_many on its own.                                           *)
add_verification_tuples_to_rmc_0 ==
  LET largest == Max({padded_n(collected[k]) : k \in DOMAIN collected} \cup {0})
      padded(vt) == [vt EXCEPT !.fixed_point_scalars =
                       [j \in 1 .. 2 + 2 * largest |->
                          IF PlaceIn(vt, j, largest) = 0 THEN Zero ELSE @[PlaceIn(vt, j, largest)]]]
  IN  /\ Bounded
      /\ IF collected = <<>> THEN Answers("NoVerificationTuple", rmc)
         ELSE IF \E k \in DOMAIN collected : IsMalformed(collected[k])
         THEN Answers("VerificationErrorWithReason", rmc)
         ELSE IF GensCapacity < largest THEN Answers("InvalidGeneratorsLength", rmc)
         ELSE Answers("Added", AddedAll(rmc, [k \in DOMAIN collected |-> Msm(padded(collected[k]), largest)]))

(* add_verification_tuples_to_rmc: the weights are the checker's, drawn    *)
(* before the capacity is known; the combined terms are added as they are. *)
add_verification_tuples_to_rmc ==
  /\ Bounded
  /\ IF \E k \in DOMAIN collected : IsMalformed(collected[k])
     THEN Answers("VerificationErrorWithReason", rmc)
     ELSE LET weights == [k \in DOMAIN collected |-> rmc.current_random + k - 1]
              combined == combine_verification_tuples(collected, weights)
              n == padded_n(combined)
              drawn == [rmc EXCEPT !.current_random = @ + Len(collected)]
          IN  IF GensCapacity < n THEN Answers("InvalidGeneratorsLength", drawn)
              ELSE Answers("Added", add(drawn, Msm(combined, n)))

Init ==
  /\ collected = <<>>
  /\ rmc = NewChecker
  /\ in_rmc = [count |-> 0, valid |-> TRUE]
  /\ checked = TRUE
  /\ result = "none"

Next ==
  \/ \E vt \in Tuples : Collect(vt)
  \/ batch_verify
  \/ \E randomness \in {"zero", "nonzero"} : batch_verify_with_given_randomness(randomness)
  \/ add_verification_tuple_to_rmc
  \/ add_verification_tuples_to_rmc_0
  \/ add_verification_tuples_to_rmc

Spec == Init /\ [][Next]_vars

-----------------------------------------------------------------------------
Refusals ==
  {"NoVerificationTuple", "VerificationErrorWithReason", "InvalidGeneratorsLength",
   "BatchVerificationError"}

(***************************************************************************)
(* TypeOK: a weight that was drawn is never beyond the bound that the      *)
(* polynomials have, so no term was cut off.                               *)
(***************************************************************************)
TypeOK ==
  /\ collected \in Seq(Tuples) /\ Len(collected) <= MaxBatch
  /\ DOMAIN rmc.sum = Generators
  /\ rmc.current_random \in in_rmc.count .. MaxExponent
  /\ in_rmc.count \in 0 .. MaxInChecker
  /\ result \in Refusals \cup {"none", "Ok", "VerificationError", "Added"}

(***************************************************************************)
(* BatchAcceptsExactlyValid: batch_verify and its variants accept a batch  *)
(* if and only if every proof in it is valid on its own: proofs of         *)
(* different sizes share the right generators, and two wrong proofs whose  *)
(* errors are opposite do not make up for one another.                     *)
(***************************************************************************)
BatchAcceptsExactlyValid ==
  result \in {"Ok", "VerificationError"} => (result = "Ok" <=> checked)

(***************************************************************************)
(* CheckerAcceptsExactlyValid: the same of the checker, whichever of the   *)
(* three functions added the proofs, in whatever order, in as many calls.  *)
(***************************************************************************)
CheckerAcceptsExactlyValid == rmc.sum = Neutral <=> in_rmc.valid

(***************************************************************************)
(* RefusedCallAddsNothing: a call that returns an error leaves what the    *)
(* checker has accumulated as it was, however many of its tuples are good. *)
(***************************************************************************)
RefusedCallAddsNothing == [][result' \in Refusals => rmc'.sum = rmc.sum]_vars
=============================================================================
