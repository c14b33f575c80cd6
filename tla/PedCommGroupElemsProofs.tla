------------------------ MODULE PedCommGroupElemsProofs ------------------------
(***************************************************************************)
(* Proofs about the chunk lengths of DivisorChunks and the keys of         *)
(* PedCommGroupElems, for every scalar size, shortest chunk, estimate and  *)
(* number of points.  That the length divides the witness is what lets a   *)
(* verifier that is told no length recover it.                             *)
(***************************************************************************)
EXTENDS PedCommGroupElems, NatFacts

LEMMA TotalType == Total \in Nat \ {0} /\ MIN_CHUNK_LEN \in 1 .. Total
  BY ScalarBitsAssumption, MinChunkLenAssumption DEF Total, decomposition_size

(* A bounded nonempty set of naturals has the Max and the Min of the       *)
(* community modules, which choose them.                                   *)
LEMMA MinInSet ==
  ASSUME NEW T, T \subseteq Nat, T # {}
  PROVE  Min(T) \in T
  BY LeastNat DEF Min

LEMMA MaxInSet ==
  ASSUME NEW n \in Nat, NEW T, T \subseteq 0 .. n, T # {}
  PROVE  Max(T) \in T
<1> DEFINE D == {n - c : c \in T}
<1>1. D \subseteq Nat /\ D # {}
  <2>1. \A c \in T : n - c \in Nat
    OBVIOUS
  <2> QED BY <2>1
<1>2. PICK d \in D : \A m \in D : d <= m
  BY <1>1, LeastNat
<1>3. PICK x \in T : d = n - x
  BY <1>2
<1>4. \A y \in T : x >= y
  <2> SUFFICES ASSUME NEW y \in T PROVE x >= y
    OBVIOUS
  <2>1. n - x <= n - y
    BY <1>2, <1>3
  <2> QED BY <2>1
<1> QED BY <1>4 DEF Max

LEMMA ClampedInRange == \A x \in Int : Clamped(x) \in MIN_CHUNK_LEN .. Total
  BY TotalType DEF Clamped

(* The length estimate_divisor_chunk_len returns is one a verifier accepts *)
(* and divides the witness, whatever the estimate: Total is such a length, *)
(* so one of the two searches of the code finds one.                       *)
THEOREM ChunkLenTheorem ==
  ASSUME NEW e
  PROVE  /\ estimate_divisor_chunk_len(e) \in MIN_CHUNK_LEN .. Total
         /\ Divides(estimate_divisor_chunk_len(e), Total)
<1> DEFINE target == Clamped(next_power_of_two(e))
           below == {c \in MIN_CHUNK_LEN .. target : Divides(c, Total)}
           above == {c \in target + 1 .. Total : Divides(c, Total)}
<1>1. target \in MIN_CHUNK_LEN .. Total
  BY TotalType DEF Clamped
<1>2. CASE below # {}
  <2>1. below \subseteq 0 .. Total
    BY <1>1, TotalType
  <2>2. Max(below) \in below
    BY <1>2, <2>1, TotalType, MaxInSet
  <2>3. estimate_divisor_chunk_len(e) = Max(below)
    BY <1>2 DEF estimate_divisor_chunk_len
  <2> QED BY <1>1, <2>2, <2>3, TotalType
<1>3. CASE below = {} /\ above # {}
  <2>1. above \subseteq Nat
    BY <1>1, TotalType
  <2>2. Min(above) \in above
    BY <1>3, <2>1, MinInSet
  <2>3. estimate_divisor_chunk_len(e) = Min(above)
    BY <1>3 DEF estimate_divisor_chunk_len
  <2> QED BY <1>1, <2>2, <2>3, TotalType
<1>4. CASE below = {} /\ above = {}
  <2>1. estimate_divisor_chunk_len(e) = Total
    BY <1>4 DEF estimate_divisor_chunk_len
  <2>2. Divides(Total, Total)
    BY TotalType, DivUnique, Total = Total * 1 + 0 DEF Divides
  <2> QED BY <2>1, <2>2, TotalType
<1> QED BY <1>2, <1>3, <1>4

(* The number of chunks gives away their length.                           *)
LEMMA CountGivesLen ==
  ASSUME NEW c \in MIN_CHUNK_LEN .. Total, Divides(c, Total)
  PROVE  RecoveredChunkLen(Total \div c) = c
<1> DEFINE q == Total \div c
<1>1. c \in Nat \ {0} /\ Total \in Nat \ {0}
  BY TotalType
<1>2. q \in Nat /\ Total = c * q
  <2>1. q \in Nat /\ Total = c * q + (Total % c)
    BY <1>1, DivMod
  <2>2. Total % c = 0
    BY DEF Divides
  <2>3. c * q \in Nat
    BY <1>1, <2>1, MulNat
  <2> QED BY <2>1, <2>2, <2>3
<1>3. q # 0
  BY <1>1, <1>2
<1>4. Total = q * c + 0
  BY <1>1, <1>2
<1>5. Total % q = 0 /\ Total \div q = c
  BY <1>1, <1>2, <1>3, <1>4, DivUnique
<1>6. ~ (c < MIN_CHUNK_LEN)
  BY TotalType
<1> QED BY <1>3, <1>5, <1>6 DEF RecoveredChunkLen, Divides

(* The chunk length a prover chooses is recovered by a verifier that is    *)
(* told only how many commitments there are, for every constant.           *)
THEOREM LayoutTheorem == Spec => []LayoutRecovered
<1>1. LayoutRecovered
  <2>1. ChunkLen("prover", size) \in MIN_CHUNK_LEN .. Total
        /\ Divides(ChunkLen("prover", size), Total)
    BY ChunkLenTheorem DEF ChunkLen
  <2> QED BY <2>1, CountGivesLen DEF LayoutRecovered
<1> QED BY <1>1, PTL

-----------------------------------------------------------------------------
(***************************************************************************)
(* The keys of the second points: verify compares two counts and checks    *)
(* one inclusion.  That this makes the two sets equal rests on both being  *)
(* finite; that they stay so, on nothing happening to the message once the *)
(* verifier has answered.                                                  *)
(***************************************************************************)
Keys == 0 .. MaxPoints

MessageOK ==
  \E len, other_keys, comms, damaged :
    /\ sent = [len |-> len, other_keys |-> other_keys, comms |-> comms, damaged |-> damaged]
    /\ other_keys \subseteq Keys

KeysInv ==
  /\ shared \subseteq Keys
  /\ MessageOK
  /\ verifier.status # "idle" => prover.status = "done"
  /\ KeysAreShared

LEMMA KeysMatchEqual ==
  ASSUME shared \subseteq Keys, MessageOK, KeysMatch
  PROVE  sent.other_keys = shared
<1>1. PICK len, other_keys, comms, damaged :
        /\ sent = [len |-> len, other_keys |-> other_keys, comms |-> comms, damaged |-> damaged]
        /\ other_keys \subseteq Keys
  BY DEF MessageOK
<1>2. IsFiniteSet(other_keys)
  <2>1. IsFiniteSet(Keys)
    BY EstimatesAssumption, FS_Interval DEF Keys
  <2> QED BY <1>1, <2>1, FS_Subset
<1>3. shared \subseteq other_keys /\ Cardinality(shared) = Cardinality(other_keys)
  BY <1>1 DEF KeysMatch
<1> QED BY <1>1, <1>2, <1>3, FS_Subset

LEMMA KeysInit == Init => KeysInv
<1> SUFFICES ASSUME Init PROVE KeysInv
  OBVIOUS
<1>1. shared \subseteq Keys
  BY DEF Init, Keys
<1>2. MessageOK
  <2>1. sent = [len |-> 0, other_keys |-> {}, comms |-> <<>>, damaged |-> FALSE]
    BY DEF Init, NothingSent
  <2>2. {} \subseteq Keys
    OBVIOUS
  <2>3. \E len, other_keys, comms, damaged :
          sent = [len |-> len, other_keys |-> other_keys, comms |-> comms, damaged |-> damaged]
          /\ other_keys = {}
    BY <2>1
  <2> QED BY <2>2, <2>3 DEF MessageOK
<1>3. verifier.status = "idle"
  BY DEF Init, Idle
<1> QED BY <1>1, <1>2, <1>3 DEF KeysInv, KeysAreShared

LEMMA KeysNext == KeysInv /\ [Next]_vars => KeysInv'
<1> SUFFICES ASSUME KeysInv, [Next]_vars PROVE KeysInv'
  OBVIOUS
<1>1. CASE prove
  <2>1. prover.status = "idle" /\ verifier.status = "idle"
    BY <1>1 DEF prove, KeysInv
  <2>2. UNCHANGED <<shared, verifier>>
    BY <1>1 DEF prove
  <2>3. MessageOK'
    <3>1. CASE UNCHANGED sent
      BY <3>1 DEF MessageOK, KeysInv
    <3>2. CASE \E comms : sent' = [len |-> size, other_keys |-> shared, comms |-> comms,
                                  damaged |-> FALSE]
      BY <3>2, <2>2 DEF MessageOK, KeysInv
    <3>3. UNCHANGED sent \/ \E comms : sent' = [len |-> size, other_keys |-> shared,
                                               comms |-> comms, damaged |-> FALSE]
      BY <1>1 DEF prove
    <3> QED BY <3>1, <3>2, <3>3
  <2> QED BY <2>1, <2>2, <2>3 DEF KeysInv, KeysAreShared
<1>2. CASE ArrivesDamaged
  <2>1. verifier.status = "idle" /\ UNCHANGED <<shared, prover, verifier>>
    BY <1>2 DEF ArrivesDamaged
  <2>2. PICK message \in Damaged : sent' = [message EXCEPT !.damaged = TRUE]
    BY <1>2 DEF ArrivesDamaged
  <2>3. PICK len, other_keys, comms, damaged :
          /\ sent = [len |-> len, other_keys |-> other_keys, comms |-> comms, damaged |-> damaged]
          /\ other_keys \subseteq Keys
    BY DEF KeysInv, MessageOK
  <2>4. \E l, k, c, d : /\ message = [len |-> l, other_keys |-> k, comms |-> c, damaged |-> d]
                        /\ k \subseteq Keys
    <3>1. CASE message \in Recounted
      BY <2>3, <3>1 DEF Recounted
    <3>2. CASE message \in Longer
      BY <2>3, <3>2 DEF Longer
    <3>3. CASE message \in Shorter
      <4>1. PICK n \in 0 .. Len(sent.comms), m \in 0 .. sent.len :
              message = Cut(n, m)
        BY <3>3 DEF Shorter
      <4>2. message = [len |-> m, other_keys |-> other_keys, comms |-> SubSeq(comms, 1, n),
                       damaged |-> damaged]
        BY <2>3, <4>1 DEF Cut
      <4> QED BY <2>3, <4>2, Zenon
    <3>4. CASE message \in Rekeyed
      BY <2>3, <3>4 DEF Keys, Rekeyed
    <3> QED BY <2>2, <3>1, <3>2, <3>3, <3>4, Zenon DEF Damaged
  <2>5. MessageOK'
    <3>1. PICK l, k, c, d : /\ message = [len |-> l, other_keys |-> k, comms |-> c, damaged |-> d]
                            /\ k \subseteq Keys
      BY <2>4
    <3>2. sent' = [len |-> l, other_keys |-> k, comms |-> c, damaged |-> TRUE]
      BY <2>2, <3>1
    <3> QED BY <3>1, <3>2, Zenon DEF MessageOK
  <2> QED BY <2>1, <2>5 DEF KeysInv, KeysAreShared
<1>3. CASE verify
  <2>1. prover.status = "done" /\ UNCHANGED <<shared, prover, sent>>
    BY <1>3 DEF verify
  <2>2. MessageOK'
    BY <2>1 DEF MessageOK, KeysInv
  <2>3. KeysAreShared'
    <3>1. CASE KeysMatch
      BY <2>1, <3>1, KeysMatchEqual DEF KeysInv, KeysAreShared
    <3>2. CASE ~ KeysMatch
      <4>1. verifier' \in {Stopped(Idle, "MismatchedSize"),
                           Stopped(Idle, "MalformedProofInput")}
        BY <1>3, <3>2 DEF verify
      <4>2. verifier'.status # "done"
        BY <4>1 DEF Stopped, Idle
      <4> QED BY <4>2 DEF KeysAreShared
    <3> QED BY <3>1, <3>2
  <2> QED BY <2>1, <2>2, <2>3 DEF KeysInv
<1>4. CASE UNCHANGED vars
  BY <1>4 DEF vars, KeysInv, MessageOK, KeysAreShared
<1> QED BY <1>1, <1>2, <1>3, <1>4 DEF Next

(* After verify has accepted, the keys a caller reads in the message are   *)
(* those it asked for, whatever the message and however many points.       *)
THEOREM KeysTheorem == Spec => []KeysAreShared
<1>1. KeysInv => KeysAreShared
  BY DEF KeysInv
<1> QED BY KeysInit, KeysNext, <1>1, PTL DEF Spec
=============================================================================
