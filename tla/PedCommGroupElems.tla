-------------------------- MODULE PedCommGroupElems --------------------------
(***************************************************************************)
(* relations/src/ped_comm_group_elems.rs: a proof that a commitment opens  *)
(* to the coordinates of points that were re-randomised.  For the points   *)
(* of shared_dlog_indices the blinding is also shown with a second         *)
(* generator, and their witness has another layout.  Prover and verifier   *)
(* each talk to a constraint system: `calls' are what they ask of it, with *)
(* a variable given as <<commitment, offset>>.                             *)
(***************************************************************************)
EXTENDS DivisorChunks, FiniteSets

CONSTANTS
  MaxPoints,    \* bound: points in the commitment
  Estimates     \* values of a_l_estimate

ASSUME EstimatesAssumption == MaxPoints \in Nat /\ Estimates \subseteq Nat

VARIABLES
  size,       \* number of points
  shared,     \* shared_dlog_indices, known to both
  estimate,   \* a_l_estimate of each side, or None
  identity,   \* is one of the points the identity?
  prover,
  sent,       \* ReRandomizedPoints and the DivisorComms, as far as their shape goes
  verifier

vars == <<size, shared, estimate, identity, prover, sent, verifier>>

None == -1
Sides == {"prover", "verifier"}
NothingSent == [len |-> 0, other_keys |-> {}, comms |-> <<>>, damaged |-> FALSE]

ped_comm_estimated_mult_gates(n, num_shared) == 20 * n + 12 * num_shared

ChunkLen(side, n) ==
  estimate_divisor_chunk_len(
    IF estimate[side] = None THEN ped_comm_estimated_mult_gates(n, Cardinality(shared))
    ELSE estimate[side])

(* The constraint system of a side: the number of vector commitments so    *)
(* far, and what was called.                                               *)
Idle == [status |-> "idle", commitments |-> 0, calls |-> <<>>, blinds |-> <<>>]
Stopped(g, status) == [g EXCEPT !.status = status]
Called(g, call) == [g EXCEPT !.calls = Append(@, call)]
CommitVec(g, length) ==
  [Called(g, <<"commit_vec", length>>) EXCEPT !.commitments = @ + 1]

(* commit_vec of `count' chunks, and the variables they give.              *)
CommitChunks(g, count, chunk_len) ==
  LET after[k \in 0 .. count] == IF k = 0 THEN g ELSE CommitVec(after[k - 1], chunk_len)
  IN  after[count]

ChunkVars(g, count, chunk_len) ==
  [k \in 1 .. count * chunk_len |->
     <<g.commitments + ((k - 1) \div chunk_len), (k - 1) % chunk_len>>]

WithBlinds(g, committed, blinds) == [committed EXCEPT !.blinds = Append(g.blinds, blinds)]

Coords(i) == <<<<0, 2 * i>>, <<0, 2 * i + 1>>>>

(* The constraints for point i.                                            *)
Constrain(g, i, both) ==
  Called(g, <<IF both THEN "discrete_log_blinding_and_dlog" ELSE "discrete_log_blinding",
              i, Coords(i), g.blinds[i + 1]>>)

ConstrainAll(g, n) ==
  LET after[i \in 0 .. n] ==
        IF i = 0 THEN Called(g, <<"discrete_log_challenge">>)
        ELSE Constrain(after[i - 1], i - 1, (i - 1) \in shared)
  IN  [after[n] EXCEPT !.status = "done"]

RerandomizedPoints(n, other_keys) == <<"re_randomized_points", n, other_keys>>

-----------------------------------------------------------------------------
(* The witness of point i, and how the prover's variables are used.        *)
WitnessOf(i, chunk_len) ==
  IF i \in shared THEN WitnessOfPoints(2, chunk_len) ELSE WitnessOfPoint

(* commit_to_witness_chunks                                                *)
ProverCommits(g, i, chunk_len) ==
  LET count == Len(WitnessOf(i, chunk_len)) \div chunk_len
      given == ChunkVars(g, count, chunk_len)
  IN  IF ~ Divides(chunk_len, Len(WitnessOf(i, chunk_len)))
      THEN Stopped(g, "WitnessChunkLengthMismatch")
      ELSE WithBlinds(g, CommitChunks(g, count, chunk_len),
                      IF i \in shared THEN PointsFromVars(given, 2) ELSE <<PointFromVars(given)>>)

prove ==
  LET chunk_len == ChunkLen("prover", size)
      started == Called(CommitVec(Idle, 2 * size), RerandomizedPoints(size, shared))
      committed[i \in 0 .. size] ==
        IF i = 0 THEN started
        ELSE IF committed[i - 1].status # "idle" THEN committed[i - 1]
        ELSE ProverCommits(committed[i - 1], i - 1, chunk_len)
      counts == [i \in 1 .. size |-> Len(WitnessOf(i - 1, chunk_len)) \div chunk_len]
  IN  /\ prover.status = "idle"
      /\ IF identity THEN prover' = Stopped(prover, "PointCantBeZero") /\ UNCHANGED sent
         ELSE IF \E i \in shared : i >= size
         THEN prover' = Stopped(prover, "panicked") /\ UNCHANGED sent
         ELSE IF committed[size].status # "idle"
         THEN prover' = committed[size] /\ UNCHANGED sent
         ELSE /\ prover' = ConstrainAll(committed[size], size)
              /\ sent' = [len |-> size, other_keys |-> shared, comms |-> counts,
                         damaged |-> FALSE]
      /\ UNCHANGED <<size, shared, estimate, identity, verifier>>

(* The message may arrive with another shape: a commitment more or less,   *)
(* in all or for one point, points missing, other keys.                    *)
Counts == 0 .. expected_vars_len(2)
Recounted == {[sent EXCEPT !.comms[i] = n] : i \in DOMAIN sent.comms, n \in Counts}
Longer    == {[sent EXCEPT !.comms = Append(@, n)] : n \in Counts}
Cut(n, m) == [sent EXCEPT !.comms = SubSeq(@, 1, n), !.len = m]
Shorter   == {Cut(n, m) : n \in 0 .. Len(sent.comms), m \in 0 .. sent.len}
Rekeyed   == {[sent EXCEPT !.other_keys = keys] : keys \in SUBSET (0 .. MaxPoints)}
Damaged   == Recounted \cup Longer \cup Shorter \cup Rekeyed

ArrivesDamaged ==
  /\ prover.status = "done" /\ verifier.status = "idle" /\ ~ sent.damaged
  /\ \E message \in Damaged \ {sent} : sent' = [message EXCEPT !.damaged = TRUE]
  /\ UNCHANGED <<size, shared, estimate, identity, prover, verifier>>

-----------------------------------------------------------------------------
(* Mutant: the padding of the last chunk is not expected.                  *)
VerifierCommits_unpadded(g, i, chunk_len) ==
  LET count == sent.comms[i + 1]
      given == ChunkVars(g, count, chunk_len)
      expected == IF i \in shared THEN expected_vars_len(2) ELSE Total
      committed == CommitChunks(g, count, chunk_len)
  IN  IF Len(given) # expected THEN Stopped(committed, "VerifierWitnessVarCountMismatch")
      ELSE WithBlinds(g, committed,
                      IF i \in shared THEN PointsFromVars(given, 2) ELSE <<PointFromVars(given)>>)

(* Mutant: commitments after those the layout needs are passed over.       *)
VerifierCommits_surplus(g, i, chunk_len) ==
  LET expected == IF i \in shared THEN padded_vars_len(2, chunk_len) ELSE Total
      count == Min({sent.comms[i + 1], expected \div chunk_len})
      given == ChunkVars(g, count, chunk_len)
      committed == CommitChunks(g, count, chunk_len)
  IN  IF Len(given) # expected THEN Stopped(committed, "VerifierWitnessVarCountMismatch")
      ELSE WithBlinds(g, committed,
                      IF i \in shared THEN PointsFromVars(given, 2) ELSE <<PointFromVars(given)>>)

(* commit_witness_chunks_verifier_multi_point and                          *)
(* commit_witness_chunks_given_chunk_len_verifier                          *)
VerifierCommits(g, i, chunk_len) ==
  LET count == sent.comms[i + 1]
      given == ChunkVars(g, count, chunk_len)
      expected == IF i \in shared THEN padded_vars_len(2, chunk_len) ELSE Total
      committed == CommitChunks(g, count, chunk_len)
  IN  IF Len(given) # expected THEN Stopped(committed, "VerifierWitnessVarCountMismatch")
      ELSE WithBlinds(g, committed,
                      IF i \in shared THEN PointsFromVars(given, 2) ELSE <<PointFromVars(given)>>)

CommsMatch == Len(sent.comms) = sent.len

(* Mutant: keys besides those of shared_dlog_indices are let through.      *)
KeysMatch_extra ==
  \A i \in shared : i \in sent.other_keys /\ i < sent.len

(* Are the keys of the second points those of shared_dlog_indices?         *)
KeysMatch ==
  /\ Cardinality(sent.other_keys) = Cardinality(shared)
  /\ \A i \in shared : i \in sent.other_keys /\ i < sent.len

verify ==
  LET n == sent.len
      chunk_len == ChunkLen("verifier", n)
      started == Called(CommitVec(Idle, 2 * n), RerandomizedPoints(n, sent.other_keys))
      committed[i \in 0 .. Len(sent.comms)] ==
        IF i = 0 THEN started
        ELSE IF committed[i - 1].status # "idle" THEN committed[i - 1]
        ELSE VerifierCommits(committed[i - 1], i - 1, chunk_len)
  IN  /\ prover.status = "done" /\ verifier.status = "idle"
      /\ verifier' = IF ~ CommsMatch THEN Stopped(Idle, "MismatchedSize")
                     ELSE IF ~ KeysMatch THEN Stopped(Idle, "MalformedProofInput")
                     ELSE IF committed[Len(sent.comms)].status # "idle" THEN committed[Len(sent.comms)]
                     ELSE ConstrainAll(committed[Len(sent.comms)], n)
      /\ UNCHANGED <<size, shared, estimate, identity, prover, sent>>

Init ==
  /\ size \in 0 .. MaxPoints
  /\ shared \in SUBSET (0 .. MaxPoints)
  /\ estimate \in [Sides -> Estimates \cup {None}]
  /\ identity \in BOOLEAN /\ (identity => size > 0)
  /\ prover = Idle
  /\ sent = NothingSent
  /\ verifier = Idle

Next == prove \/ ArrivesDamaged \/ verify

Spec == Init /\ [][Next]_vars

-----------------------------------------------------------------------------
SameChunks == ChunkLen("prover", size) = ChunkLen("verifier", size)

(***************************************************************************)
(* TypeOK.  The prover never stops for WitnessChunkLengthMismatch: no      *)
(* estimate gives it a length its own witness does not divide into.        *)
(***************************************************************************)
TypeOK ==
  /\ prover.status \in {"idle", "PointCantBeZero", "panicked", "done"}
  /\ verifier.status \in {"idle", "MismatchedSize", "MalformedProofInput",
                          "VerifierWitnessVarCountMismatch", "done"}
  /\ sent.len \in 0 .. size /\ sent.other_keys \subseteq 0 .. MaxPoints
  /\ \A g \in {prover, verifier} : Len(g.blinds) <= size

(***************************************************************************)
(* SameCalls: sides that agree on the estimate make the same calls of      *)
(* their constraint systems, with the same variables, for any choice of    *)
(* points whose blinding is shared.                                        *)
(***************************************************************************)
SameCalls ==
  estimate["prover"] = estimate["verifier"] /\ ~ sent.damaged /\ verifier.status # "idle"
    => verifier = prover

(***************************************************************************)
(* RolesFit: behind every variable of a constraint is the element of the   *)
(* witness that the constraint is about, in both layouts and however they  *)
(* are cut.                                                                *)
(***************************************************************************)
RolesFit ==
  prover.status = "done" =>
    LET chunk_len == ChunkLen("prover", size)
        chunks(i) == Len(WitnessOf(i, chunk_len)) \div chunk_len
        first[i \in 0 .. size] == IF i = 0 THEN 1 ELSE first[i - 1] + chunks(i - 1)
        value(i, v) == WitnessOf(i, chunk_len)[(v[1] - first[i]) * chunk_len + v[2] + 1]
    IN  \A i \in 0 .. size - 1 : \A p \in DOMAIN prover.blinds[i + 1] :
          LET b == prover.blinds[i + 1][p]
          IN  /\ [k \in DOMAIN b.dlog |-> value(i, b.dlog[k])] = Decomposition
              /\ [k \in DOMAIN b.divisor |-> value(i, b.divisor[k])] = Coefficients(p)
              /\ value(i, b.point[1]) = <<"x", p>>
              /\ value(i, b.point[2]) = <<"y", p>>

(***************************************************************************)
(* NotMalleable: a message of another shape than the prover's is refused,  *)
(* or the verifier's calls are not the prover's (and so the proof of the   *)
(* circuit is not valid for them).  And sides whose estimates lead to other*)
(* chunk lengths find out before the circuit is verified: no number of     *)
(* chunks of one length makes up the layout of the other.                  *)
(***************************************************************************)
NotMalleable ==
  verifier.status = "done" =>
    /\ sent.damaged => verifier.calls # prover.calls
    /\ ~ sent.damaged /\ size > 0 => SameChunks

(***************************************************************************)
(* KeysAreShared: "Dont allow extra keys in                                *)
(* re_randomized_points.blindings_with_different_gen": after verify the    *)
(* caller may use them.                                                    *)
(***************************************************************************)
KeysAreShared == verifier.status = "done" => sent.other_keys = shared

(***************************************************************************)
(* LayoutRecovered: the membership protocol sends no chunk length.  From   *)
(* the number of commitments alone its verifier recovers the length that   *)
(* the prover chose, for any estimate.                                     *)
(***************************************************************************)
LayoutRecovered ==
  LET chunk_len == ChunkLen("prover", size)
  IN  RecoveredChunkLen(Total \div chunk_len) = chunk_len
=============================================================================
