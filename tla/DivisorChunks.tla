---------------------------- MODULE DivisorChunks ----------------------------
(***************************************************************************)
(* How the witness of a discrete logarithm with a divisor is laid out and  *)
(* cut into vector commitments of equal length: the length is chosen in    *)
(* relations/src/prover.rs, the layout and the verifier's side of it are   *)
(* in ark-dlog-gadget/src/dlog.rs.                                         *)
(***************************************************************************)
EXTENDS Integers, SequencesExt

CONSTANTS
  ScalarBits,      \* bits of a scalar, and coefficients of a divisor
  MIN_CHUNK_LEN    \* shortest commitment the verifier accepts

ASSUME ScalarBitsAssumption == ScalarBits \in Nat \ {0}
ASSUME MinChunkLenAssumption ==
  MIN_CHUNK_LEN \in Nat \ {0} /\ MIN_CHUNK_LEN <= 2 * (ScalarBits + 1)

decomposition_size == ScalarBits + 1

(* Length of the witness of a single point.                                *)
Total == 2 * decomposition_size

Divides(c, n) == n % c = 0

(* Exponents up to MaxExponent: an estimate is the size of a small circuit. *)
MaxExponent == 20
next_power_of_two(n) == Min({p \in {2^k : k \in 0 .. MaxExponent} : p >= n})

(* .max(MIN_CHUNK_LEN).min(total)                                          *)
Clamped(x) ==
  IF x \in MIN_CHUNK_LEN .. Total THEN x ELSE IF x > Total THEN Total ELSE MIN_CHUNK_LEN

(* Mutant: the target itself, whether it divides the witness or not.       *)
estimate_divisor_chunk_len_target(estimated_mult_gates) ==
  Clamped(next_power_of_two(estimated_mult_gates))

(* estimate_divisor_chunk_len                                              *)
estimate_divisor_chunk_len(estimated_mult_gates) ==
  LET target == Clamped(next_power_of_two(estimated_mult_gates))
      below == {c \in MIN_CHUNK_LEN .. target : Divides(c, Total)}
      above == {c \in target + 1 .. Total : Divides(c, Total)}
  IN  IF below # {} THEN Max(below) ELSE IF above # {} THEN Min(above) ELSE Total

(* What commit_witness_chunks_verifier recovers from the number of         *)
(* commitments alone; 0 for InvalidDivisorCommitmentCount and              *)
(* TooManyDivisorCommitments.                                              *)
RecoveredChunkLen(count) ==
  IF count = 0 \/ ~ Divides(count, Total) \/ Total \div count < MIN_CHUNK_LEN THEN 0
  ELSE Total \div count

-----------------------------------------------------------------------------
(***************************************************************************)
(* The witnesses, by the role of each element.                             *)
(***************************************************************************)
Decomposition == [k \in 1 .. ScalarBits |-> <<"bit", k>>]
Coefficients(p) == [k \in 1 .. ScalarBits |-> <<"coefficient", p, k>>]

(* commit_witness_chunks_prover                                            *)
WitnessOfPoint ==
  Decomposition \o <<<<"x", 1>>>> \o Coefficients(1) \o <<<<"y", 1>>>>

expected_vars_len(num_points) == ScalarBits + num_points + num_points * decomposition_size


(* The smallest multiple of chunk_len that is large enough.                *)
padded_vars_len(num_points, chunk_len) ==
  LET expected == expected_vars_len(num_points)
      r == expected % chunk_len
  IN  IF r = 0 THEN expected ELSE expected + chunk_len - r

(* commit_witness_chunks_prover_multi_point                                *)
WitnessOfPoints(num_points, chunk_len) ==
  LET used == Decomposition
              \o [p \in 1 .. num_points |-> <<"x", p>>]
              \o FlattenSeq([p \in 1 .. num_points |-> Append(Coefficients(p), <<"y", p>>)])
  IN  used \o [k \in 1 .. padded_vars_len(num_points, chunk_len) - Len(used) |-> <<"padding">>]

(* PointWithDlog::from_vars, of the two halves of `vars'.                  *)
PointFromVars(vars) ==
  [dlog    |-> SubSeq(vars, 1, ScalarBits),
   point   |-> <<vars[decomposition_size], vars[Total]>>,
   divisor |-> SubSeq(vars, decomposition_size + 1, decomposition_size + ScalarBits)]

(* Mutant: the block of a point leaves out its y-coordinate.               *)
PointsFromVars_short_block(vars, num_points) ==
  LET block(p) == ScalarBits + num_points + (p - 1) * ScalarBits
  IN  [p \in 1 .. num_points |->
         [dlog    |-> SubSeq(vars, 1, ScalarBits),
          point   |-> <<vars[ScalarBits + p], vars[block(p) + decomposition_size]>>,
          divisor |-> SubSeq(vars, block(p) + 1, block(p) + ScalarBits)]]

(* PointsWithDlog::from_vars and into_two: all points share the dlog.      *)
PointsFromVars(vars, num_points) ==
  LET block(p) == ScalarBits + num_points + (p - 1) * decomposition_size
  IN  [p \in 1 .. num_points |->
         [dlog    |-> SubSeq(vars, 1, ScalarBits),
          point   |-> <<vars[ScalarBits + p], vars[block(p) + decomposition_size]>>,
          divisor |-> SubSeq(vars, block(p) + 1, block(p) + ScalarBits)]]
=============================================================================
