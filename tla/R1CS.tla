--------------------------------- MODULE R1CS ---------------------------------
(***************************************************************************)
(* bulletproofs/src/r1cs: a gadget builds the same constraint system twice,*)
(* on the Prover and, given the proof, on the Verifier.  The two are       *)
(* separate code; nothing but the proof and the commitments passes between *)
(* them, and the multiplications are not even in the transcript.  So the   *)
(* verifier's challenges, sizes, variables and constraints have to come    *)
(* out the same by both doing the same bookkeeping: padding, a multiplier  *)
(* left half assigned, the two phases and their callbacks.                 *)
(*                                                                         *)
(* Scalars are abstracted to zero and nonzero, 0 and 1 (products of        *)
(* nonzero scalars are nonzero); points and challenges to their labels: a  *)
(* challenge is determined by the transcript before it.                    *)
(***************************************************************************)
EXTENDS Integers, Sequences, SequencesExt

CONSTANTS
  Dimensions,     \* lengths of the vectors a gadget commits to
  Callbacks,      \* what a gadget may defer to the second phase: sequences of calls
  ProverGens,     \* gens_capacity of the prover's BulletproofGens
  VerifierGens,   \* ... and of the verifier's
  MaxCalls        \* bound on the calls of a gadget in the first phase

ASSUME DimensionsAssumption == Dimensions \subseteq Nat
ASSUME GensAssumption == ProverGens \subseteq Nat /\ VerifierGens \subseteq Nat
ASSUME MaxCallsAssumption == MaxCalls \in Nat

VARIABLES
  prover,         \* the Prover
  verifier,       \* the Verifier
  proof,          \* the R1CSProof; NoProof before there is one
  program,        \* history: the gadget's calls, in order
  prover_gens, verifier_gens

vars == <<prover, verifier, proof, program, prover_gens, verifier_gens>>

NoProof == <<>>
None == -1

-----------------------------------------------------------------------------
(* Variables handed out to the gadget.                                     *)
One == <<"One">>
MultiplierLeft(i) == <<"MultiplierLeft", i>>
MultiplierRight(i) == <<"MultiplierRight", i>>
MultiplierOutput(i) == <<"MultiplierOutput", i>>
Committed(i) == <<"Committed", i>>
VectorCommit(j, i) == <<"VectorCommit", j, i>>

Product(i) == <<MultiplierLeft(i), MultiplierRight(i), MultiplierOutput(i)>>
VectorOf(j, dimension) == [k \in 1 .. dimension |-> VectorCommit(j, k - 1)]

(* The gadget computes with the variable it was given last.                *)
Operand(cs) == IF cs.given = <<>> THEN One ELSE Last(cs.given)

Message(label, data) == <<label, data>>
Challenge(label) == <<"challenge", label>>

-----------------------------------------------------------------------------
(* The Prover's calls.  a_L, a_R, a_O hold the assignments.                *)
NewProver ==
  [a_L |-> <<>>, a_R |-> <<>>, a_O |-> <<>>, v_open |-> 0, vec_open |-> <<>>,
   constraints |-> <<>>, deferred |-> <<>>, pending |-> None,
   transcript |-> <<Message("dom-sep", "r1cs v1")>>,
   given |-> <<>>, committed |-> <<>>, status |-> "building"]

eval(p, var) ==
  CASE var[1] = "MultiplierLeft"   -> p.a_L[var[2] + 1]
    [] var[1] = "MultiplierRight"  -> p.a_R[var[2] + 1]
    [] var[1] = "MultiplierOutput" -> p.a_O[var[2] + 1]
    [] OTHER                       -> 1

(* Mutant: the output is not recorded.                                     *)
prover_push_no_output(p, l, r) == [p EXCEPT !.a_L = Append(@, l), !.a_R = Append(@, r)]

prover_push(p, l, r) ==
  [p EXCEPT !.a_L = Append(@, l), !.a_R = Append(@, r), !.a_O = Append(@, l * r)]

prover_multiply(p) ==
  LET i == Len(p.a_L)
      operand == Operand(p)
  IN  [prover_push(p, eval(p, operand), eval(p, operand)) EXCEPT
         !.constraints = @ \o << <<operand, MultiplierLeft(i)>>, <<operand, MultiplierRight(i)>> >>,
         !.given = @ \o Product(i)]

(* Mutant: the output is not assigned with the right input.                *)
prover_allocate_no_output(p) ==
  IF p.pending = None
  THEN [prover_push(p, 1, 0) EXCEPT !.pending = Len(p.a_L),
                                    !.given = Append(@, MultiplierLeft(Len(p.a_L)))]
  ELSE [p EXCEPT !.pending = None, !.a_R[p.pending + 1] = 1,
                 !.given = Append(@, MultiplierRight(p.pending))]

prover_allocate(p) ==
  IF p.pending = None
  THEN [prover_push(p, 1, 0) EXCEPT !.pending = Len(p.a_L),
                                    !.given = Append(@, MultiplierLeft(Len(p.a_L)))]
  ELSE [p EXCEPT !.pending = None,
                 !.a_R[p.pending + 1] = 1,
                 !.a_O[p.pending + 1] = p.a_L[p.pending + 1],
                 !.given = Append(@, MultiplierRight(p.pending))]

prover_allocate_multiplier(p) ==
  [prover_push(p, 1, 1) EXCEPT !.given = @ \o Product(Len(p.a_L))]

constrain(cs) == [cs EXCEPT !.constraints = Append(@, <<Operand(cs), One>>)]

prover_commit(p) ==
  [p EXCEPT !.v_open = @ + 1,
            !.transcript = Append(@, Message("commitment-point", p.v_open)),
            !.given = Append(@, Committed(p.v_open))]

(* commit_vec and vars_for_committed_vec                                   *)
prover_commit_vec(p, dimension) ==
  LET j == Len(p.vec_open)
  IN  [p EXCEPT !.vec_open = Append(@, dimension),
                !.transcript = Append(@, Message("vector-commitment-point", j)),
                !.given = @ \o VectorOf(j, dimension)]

(* A call on the Prover or, in a callback, on the RandomizingProver.       *)
(* "missing" is an allocate without an assignment: the gadget gives up.    *)
ProverCall(p, call) ==
  CASE p.status # "building"         -> p
    [] call = "multiply"             -> prover_multiply(p)
    [] call = "allocate"             -> prover_allocate(p)
    [] call = "allocate_multiplier"  -> prover_allocate_multiplier(p)
    [] call = "constrain"            -> constrain(p)
    [] call = "challenge_scalar"     -> [p EXCEPT !.transcript = Append(@, Challenge("gadget"))]
    [] call = "commit"               -> prover_commit(p)
    [] call = "missing"              -> [p EXCEPT !.status = "MissingAssignment"]

-----------------------------------------------------------------------------
(* The Verifier's calls: it only counts multipliers.                       *)
NewVerifier ==
  [num_multiplier |-> 0, V |-> 0, vec_comms |-> <<>>,
   constraints |-> <<>>, deferred |-> <<>>, pending |-> None,
   transcript |-> <<Message("dom-sep", "r1cs v1")>>,
   given |-> <<>>, status |-> "waiting"]

verifier_multiply(v) ==
  LET var == v.num_multiplier
      operand == Operand(v)
  IN  [v EXCEPT !.num_multiplier = @ + 1,
                !.constraints = @ \o << <<operand, MultiplierLeft(var)>>,
                                        <<operand, MultiplierRight(var)>> >>,
                !.given = @ \o Product(var)]

(* Mutant: every allocation takes a multiplier of its own.                 *)
verifier_allocate_own(v) ==
  [v EXCEPT !.num_multiplier = @ + 1, !.given = Append(@, MultiplierLeft(v.num_multiplier))]

verifier_allocate(v) ==
  IF v.pending = None
  THEN [v EXCEPT !.num_multiplier = @ + 1, !.pending = v.num_multiplier,
                 !.given = Append(@, MultiplierLeft(v.num_multiplier))]
  ELSE [v EXCEPT !.pending = None, !.given = Append(@, MultiplierRight(v.pending))]

verifier_allocate_multiplier(v) ==
  [v EXCEPT !.num_multiplier = @ + 1, !.given = @ \o Product(v.num_multiplier)]

verifier_commit(v) ==
  [v EXCEPT !.V = @ + 1,
            !.transcript = Append(@, Message("commitment-point", v.V)),
            !.given = Append(@, Committed(v.V))]

verifier_commit_vec(v, dimension) ==
  LET comm_idx == Len(v.vec_comms)
  IN  [v EXCEPT !.transcript = Append(@, Message("vector-commitment-point", comm_idx)),
                !.vec_comms = Append(@, dimension),
                !.given = @ \o VectorOf(comm_idx, dimension)]

VerifierCall(v, call) ==
  CASE call = "multiply"             -> verifier_multiply(v)
    [] call = "allocate"             -> verifier_allocate(v)
    [] call = "allocate_multiplier"  -> verifier_allocate_multiplier(v)
    [] call = "constrain"            -> constrain(v)
    [] call = "challenge_scalar"     -> [v EXCEPT !.transcript = Append(@, Challenge("gadget"))]
    [] call = "commit"               -> verifier_commit(v)

-----------------------------------------------------------------------------
(* What both do when the circuit is complete.                              *)
Largest(dims, n) == FoldLeft(LAMBDA a, b : IF b > a THEN b ELSE a, n, dims)

next_power_of_two(n) == CHOOSE m \in {2^k : k \in 0 .. n} : m >= n /\ (m = 1 \/ m \div 2 < n)

log_2(m) == CHOOSE k \in 0 .. m : 2^k = m

(* One multiplier for every coordinate of the longest vector.              *)
prover_pad(p) ==
  LET zeros == [k \in 1 .. Largest(p.vec_open, Len(p.a_L)) - Len(p.a_L) |-> 0]
  IN  [p EXCEPT !.a_L = @ \o zeros, !.a_R = @ \o zeros, !.a_O = @ \o zeros]

verifier_pad(v) == [v EXCEPT !.num_multiplier = Largest(v.vec_comms, v.num_multiplier)]

LengthSuffix(m, dims) ==
  <<Message("m", m), Message("c", Len(dims))>> \o [k \in DOMAIN dims |-> Message("c_i", dims[k])]

Points(labels, kind) == [k \in DOMAIN labels |-> Message(labels[k], kind)]
FirstPhasePoints == Points(<<"A_I1", "A_O1", "S1">>, "point")
SecondPhasePoints(present) ==
  Points(<<"A_I2", "A_O2", "S2">>, IF present THEN "point" ELSE "identity")

PhaseSeparator(cs) ==
  Message("dom-sep", IF cs.deferred = <<>> THEN "r1cs-1phase" ELSE "r1cs-2phase")

(* Mutant: a multiplier that was half assigned is filled in the second phase. *)
prover_create_randomized_constraints_pending(p) ==
  FoldLeft(ProverCall,
           [p EXCEPT !.deferred = <<>>, !.transcript = Append(@, PhaseSeparator(p))],
           FlattenSeq(p.deferred))

(* Callbacks run in the order they were specified.                         *)
prover_create_randomized_constraints(p) ==
  FoldLeft(ProverCall,
           [p EXCEPT !.pending = None, !.deferred = <<>>,
                     !.transcript = Append(@, PhaseSeparator(p))],
           FlattenSeq(p.deferred))

verifier_create_randomized_constraints(v) ==
  FoldLeft(VerifierCall,
           [v EXCEPT !.pending = None, !.deferred = <<>>,
                     !.transcript = Append(@, PhaseSeparator(v))],
           FlattenSeq(v.deferred))

(* degrees, committed_t_degrees: the coefficients of t(X) that are sent.   *)
inner_product_degree(ncomm) == 2 + 2 * ncomm
t_poly_degree(ncomm) == 2 * (inner_product_degree(ncomm) + 1)
committed_t_degrees(ncomm) ==
  LET mid == inner_product_degree(ncomm) \div 2
      all == [k \in 1 .. t_poly_degree(ncomm) - mid + 1 |-> mid + k - 1]
  IN  SelectSeq(all, LAMBDA d : d # inner_product_degree(ncomm))

TPoints(degrees) ==
  FlattenSeq([k \in DOMAIN degrees |->
                <<Message("t_poly degree", degrees[k]), Message("t_poly", "point")>>])

Evaluations == <<Message("t_x", "scalar"), Message("t_x_blinding", "scalar"),
                 Message("e_blinding", "scalar")>>

InnerProduct(n, rounds) ==
  <<Message("ipp v1", n)>>
    \o FlattenSeq([k \in 1 .. rounds |->
                     <<Message("L", "point"), Message("R", "point"), Challenge("ipp u")>>])

-----------------------------------------------------------------------------
Refused(p, why) == [p EXCEPT !.status = why]

(* What is committed to in A_I1 and A_O1.                                  *)
Assignments(p, n) == <<SubSeq(p.a_L, 1, n), SubSeq(p.a_R, 1, n), SubSeq(p.a_O, 1, n)>>

FirstPhase(p, n1) ==
  prover_create_randomized_constraints(
    [p EXCEPT !.committed  = Assignments(p, n1),
              !.transcript = @ \o LengthSuffix(p.v_open, p.vec_open) \o FirstPhasePoints])

(* Mutant: y and z are drawn before the second phase is committed to.      *)
prover_tail_early_challenges(n, n1, ncomm) ==
  <<Challenge("y"), Challenge("z")>> \o SecondPhasePoints(n > n1)
    \o TPoints(committed_t_degrees(ncomm)) \o <<Challenge("u"), Challenge("x")>>
    \o Evaluations \o <<Challenge("w")>>
    \o InnerProduct(next_power_of_two(n), log_2(next_power_of_two(n)))

prover_tail(n, n1, ncomm) ==
  SecondPhasePoints(n > n1) \o <<Challenge("y"), Challenge("z")>>
    \o TPoints(committed_t_degrees(ncomm)) \o <<Challenge("u"), Challenge("x")>>
    \o Evaluations \o <<Challenge("w")>>
    \o InnerProduct(next_power_of_two(n), log_2(next_power_of_two(n)))

(* prove: the state of the Prover at its end.                              *)
Proved(p, gens_capacity) ==
  LET padded == prover_pad(p)
      n1     == Largest(p.vec_open, Len(padded.a_L))
      second == FirstPhase(padded, n1)
      n      == Largest(p.vec_open, Len(second.a_L))
  IN  IF gens_capacity < n1 THEN Refused(padded, "InvalidGeneratorsLength")
      ELSE IF second.status # "building" THEN second
      ELSE IF gens_capacity < next_power_of_two(n) THEN Refused(second, "InvalidGeneratorsLength")
      ELSE [second EXCEPT !.status = "proved",
                          !.transcript = @ \o prover_tail(n, n1, Len(p.vec_open))]

R1CSProofOf(p) ==
  LET n1 == Len(p.committed[1])
  IN  [second_phase |-> Len(p.a_L) > n1,
       T            |-> Len(committed_t_degrees(Len(p.vec_open))),
       L_vec        |-> log_2(next_power_of_two(Len(p.a_L)))]

(* verification_scalars_and_points_core: the state of the Verifier when    *)
(* the points and scalars are handed to the multiplication.                *)
Scalars(v) ==
  LET padded == verifier_pad(v)
      n1     == Largest(v.vec_comms, padded.num_multiplier)
      comm_t == committed_t_degrees(Len(v.vec_comms))
      second == verifier_create_randomized_constraints(
                  [padded EXCEPT !.transcript = @ \o LengthSuffix(v.V, v.vec_comms)
                                                  \o FirstPhasePoints])
      n      == Largest(v.vec_comms, second.num_multiplier)
      padded_n == next_power_of_two(n)
  IN  IF proof.T # Len(comm_t) \/ padded_n # 2^proof.L_vec
      THEN [second EXCEPT !.status = "VerificationError"]
      ELSE [second EXCEPT !.transcript =
              @ \o SecondPhasePoints(proof.second_phase) \o <<Challenge("y"), Challenge("z")>>
                \o TPoints(comm_t) \o <<Challenge("u"), Challenge("x")>>
                \o Evaluations \o <<Challenge("w")>> \o InnerProduct(padded_n, proof.L_vec)]

(* mega_check: the equation holds when the verifier has every challenge    *)
(* and every constraint the prover had, and the prover's final assignments *)
(* are the ones it committed to before the challenges.                     *)
mega_check(v) ==
  /\ v.transcript = prover.transcript
  /\ v.constraints = prover.constraints
  /\ v.num_multiplier = Len(prover.a_L)
  /\ prover.committed = Assignments(prover, Len(prover.committed[1]))

-----------------------------------------------------------------------------
Init ==
  /\ prover = NewProver
  /\ verifier = NewVerifier
  /\ proof = NoProof
  /\ program = <<>>
  /\ prover_gens \in ProverGens
  /\ verifier_gens \in VerifierGens

Building == prover.status = "building" /\ Len(program) < MaxCalls

Gadget(call) ==
  /\ Building
  /\ prover' = ProverCall(prover, call)
  /\ program' = Append(program, <<call>>)
  /\ UNCHANGED <<verifier, proof, prover_gens, verifier_gens>>

GadgetCommitsVec(dimension) ==
  /\ Building
  /\ prover' = prover_commit_vec(prover, dimension)
  /\ program' = Append(program, <<"commit_vec", dimension>>)
  /\ UNCHANGED <<verifier, proof, prover_gens, verifier_gens>>

specify_randomized_constraints(callback) ==
  /\ Building
  /\ prover' = [prover EXCEPT !.deferred = Append(@, callback)]
  /\ program' = Append(program, <<"specify_randomized_constraints", callback>>)
  /\ UNCHANGED <<verifier, proof, prover_gens, verifier_gens>>

prove ==
  /\ prover.status = "building"
  /\ prover' = Proved(prover, prover_gens)
  /\ IF prover'.status = "proved"
     THEN proof' = R1CSProofOf(prover') /\ verifier' = [verifier EXCEPT !.status = "building"]
     ELSE UNCHANGED <<proof, verifier>>
  /\ UNCHANGED <<program, prover_gens, verifier_gens>>

(* The gadget's next call, made on the Verifier.                           *)
Replay ==
  /\ verifier.status = "building"
  /\ program # <<>>
  /\ program' = Tail(program)
  /\ verifier' =
       LET call == Head(program)
       IN  CASE call[1] = "commit_vec" -> verifier_commit_vec(verifier, call[2])
             [] call[1] = "specify_randomized_constraints" ->
                  [verifier EXCEPT !.deferred = Append(@, call[2])]
             [] OTHER -> VerifierCall(verifier, call[1])
  /\ UNCHANGED <<prover, proof, prover_gens, verifier_gens>>

verify ==
  /\ verifier.status = "building"
  /\ program = <<>>
  /\ LET v == Scalars(verifier)
     IN  verifier' = [v EXCEPT !.status =
                        IF @ = "VerificationError" THEN @
                        ELSE IF verifier_gens < 2^proof.L_vec THEN "InvalidGeneratorsLength"
                        ELSE IF mega_check(v) THEN "Ok" ELSE "VerificationError"]
  /\ UNCHANGED <<prover, proof, program, prover_gens, verifier_gens>>

Next ==
  \/ \E call \in {"multiply", "allocate", "allocate_multiplier", "constrain", "commit", "missing"} :
       Gadget(call)
  \/ \E dimension \in Dimensions : GadgetCommitsVec(dimension)
  \/ \E callback \in Callbacks : specify_randomized_constraints(callback)
  \/ prove
  \/ Replay
  \/ verify

Spec == Init /\ [][Next]_vars

-----------------------------------------------------------------------------
(***************************************************************************)
(* TypeOK: the two keep the shape their code gives them, and there is a    *)
(* proof exactly when the prover finished.                                 *)
(***************************************************************************)
TypeOK ==
  /\ prover.status \in {"building", "proved", "MissingAssignment", "InvalidGeneratorsLength"}
  /\ verifier.status \in {"waiting", "building", "Ok", "VerificationError",
                          "InvalidGeneratorsLength"}
  /\ Len(prover.a_L) = Len(prover.a_R) /\ Len(prover.a_L) = Len(prover.a_O)
  /\ prover.pending \in {None} \cup 0 .. Len(prover.a_L) - 1
  /\ verifier.pending \in {None} \cup 0 .. verifier.num_multiplier - 1
  /\ (proof # NoProof) <=> (prover.status = "proved")

(***************************************************************************)
(* HonestProofVerifies: whatever the gadget, a proof that prove() returned *)
(* is accepted by a verifier that replays the gadget and has no fewer      *)
(* generators: same challenges, same sizes, same constraints, and          *)
(* assignments that were not touched after they were committed to.         *)
(***************************************************************************)
HonestProofVerifies ==
  verifier_gens >= prover_gens => verifier.status \in {"waiting", "building", "Ok"}

(***************************************************************************)
(* SameVariables: at every call the verifier hands the gadget the variable *)
(* the prover did and records the constraint the prover did; and no        *)
(* variable is handed out twice, whatever mixture of single and whole      *)
(* multipliers was allocated, across the phases too: two gadgets never     *)
(* share a wire they believe is their own.                                 *)
(***************************************************************************)
SameVariables ==
  /\ IsPrefix(verifier.given, prover.given)
  /\ IsPrefix(verifier.constraints, prover.constraints)
  /\ IsInjective(prover.given)

(***************************************************************************)
(* GatesHold: every multiplier's output is the product of its inputs, the  *)
(* half assigned and the padding ones included.                            *)
(***************************************************************************)
GatesHold ==
  \A k \in DOMAIN prover.a_L : prover.a_O[k] = prover.a_L[k] * prover.a_R[k]

(***************************************************************************)
(* ChallengesBind: every challenge comes after all the messages it has to  *)
(* bind: a gadget's own after the commitments, their number and the first  *)
(* phase; y and z after the second phase; u and x after the coefficients   *)
(* of t(X); w after its evaluation.                                        *)
(***************************************************************************)
BoundByGadget == {"commitment-point", "vector-commitment-point", "m", "c", "c_i",
                  "A_I1", "A_O1", "S1"}
BoundByY == BoundByGadget \cup {"A_I2", "A_O2", "S2"}
BoundByX == BoundByY \cup {"t_poly degree", "t_poly"}
BoundByW == BoundByX \cup {"t_x", "t_x_blinding", "e_blinding"}

BoundBy(challenge) ==
  CASE challenge = "gadget"     -> BoundByGadget
    [] challenge \in {"y", "z"} -> BoundByY
    [] challenge \in {"u", "x"} -> BoundByX
    [] OTHER                    -> BoundByW

ChallengesBind ==
  \A cs \in {prover, verifier} :
    \A i, j \in DOMAIN cs.transcript :
      /\ i < j
      /\ cs.transcript[i][1] = "challenge"
      => cs.transcript[j][1] \notin BoundBy(cs.transcript[i][2])

(***************************************************************************)
(* CapacityAboveMultipliersSuffices: what the comments on Prover::new and  *)
(* Verifier::verify ask of the generators, "gens_capacity greater than the *)
(* number of multiplication constraints", is enough to prove.              *)
(***************************************************************************)
CapacityAboveMultipliersSuffices ==
  prover.status = "InvalidGeneratorsLength" => prover_gens <= Len(prover.a_L)
=============================================================================
