----------------------------- MODULE NativeProofs -----------------------------
(***************************************************************************)
(* Proofs about the native targets, for any curve order and field, and any *)
(* inputs the driver may draw: the curve targets, the consensus targets,   *)
(* and the legacy signature hash.                                          *)
(*                                                                         *)
(* Of the last, first gocoin's walk over the transaction, with and without *)
(* its guard: the two go together until the guarded one runs short.  Then  *)
(* the scripts: a script is a list of whole opcodes and torn bytes behind  *)
(* them, what the loops of the four ports leave at each of its offsets is  *)
(* said in terms of the list, and so is what each module answers.          *)
(***************************************************************************)
EXTENDS CurveTargets, ConsensusAnswers, Sighash, CodecLemmas

(***************************************************************************)
(* The sum of the input keys                                               *)
(***************************************************************************)

\* The sum of one key is that key, in its even-Y form.
LEMMA SumOfOne ==
    ASSUME NEW keys \in Seq(Nat), NEW taproot,
           \A i \in 1..Len(keys) : InRange(keys[i]), keys # <<>>
    PROVE  RunningSums(keys, taproot)[1] # 0
<1> DEFINE n == Len(keys)
           T == [k \in 1..n |-> Summand(keys, taproot, k)]
           Def(f) == f = [k \in 0..n |->
                             IF k = 0 THEN 0
                             ELSE (f[k - 1] + Summand(keys, taproot, k)) % Order]
           r == RunningSums(keys, taproot)
<1>0. n \in Nat /\ Order \in Nat \ {0} /\ 1 \in 1..n
  BY OrderAssumption
<1>1. \A k \in 1..n : Summand(keys, taproot, k) \in 1..(Order - 1)
  BY <1>0 DEF Summand, InRange
<1>2. T \in [1..n -> Nat] /\ T[1] \in 1..(Order - 1)
  BY <1>0, <1>1
<1>3. \A f : AddsUp(f, T, Order, n) <=> Def(f)
  <2>1. \A k \in 0..n : k # 0 => T[k] = Summand(keys, taproot, k)
    BY <1>0
  <2> HIDE DEF T, n
  <2> QED
    BY <2>1 DEF AddsUp
<1>4. /\ \E f : AddsUp(f, T, Order, n)
      /\ \A f : AddsUp(f, T, Order, n) =>
             f[0] = 0 /\ \A k \in 1..n : f[k] = (f[k - 1] + T[k]) % Order
  <2>1. n \in Nat /\ Order \in Nat \ {0} /\ T \in [1..n -> Nat]
    BY <1>0, <1>2
  <2> HIDE DEF T, n
  <2>2. /\ \E f : AddsUp(f, T, Order, n)
        /\ \A f : AddsUp(f, T, Order, n) =>
               /\ f \in [0..n -> 0..(Order - 1)]
               /\ f[0] = 0
               /\ \A k \in 1..n : f[k] = (f[k - 1] + T[k]) % Order
    BY <2>1, ResidueSums, Zenon
  <2> QED
    BY <2>2
<1>5. AddsUp(r, T, Order, n)
  <2>1. r = CHOOSE f : Def(f)
    BY DEF RunningSums
  <2> HIDE DEF Def, T, n, r
  <2> QED
    BY <1>3, <1>4, <2>1
<1>6. r[1] = (0 + T[1]) % Order
  <2> HIDE DEF T, n, r
  <2> QED
    BY <1>0, <1>4, <1>5
<1>7. \A t \in 1..(Order - 1) : (0 + t) % Order = t
  BY <1>0
<1> QED
  BY <1>2, <1>6, <1>7

\* Where the fold of the crates fails, the total is zero or the wrappers drop the
\* input; and a total that is zero makes it fail.
LEMMA FoldFailsOnZero ==
    ASSUME NEW in, in.keys \in Seq(Nat), in.keys # <<>>, ~BadInputKey(in),
           ~DivergesOnIntermediateZeroSum(in)
    PROVE  LibraryFoldFails(in) <=> Total(in) = 0
<1>1. Len(in.keys) \in Nat \ {0}
  OBVIOUS
<1>2. CASE Len(in.keys) = 1
  <2>0. \A i \in 1..Len(in.keys) : InRange(in.keys[i])
    BY DEF BadInputKey
  <2>1. RunningSums(in.keys, in.taproot)[1] # 0
    BY <2>0, SumOfOne
  <2>2. Total(in) # 0
    BY <1>2, <2>1 DEF Total, SumTo
  <2> QED
    BY <1>2, <2>2 DEF LibraryFoldFails
<1>3. CASE Len(in.keys) # 1
  <2>0. \A l \in Nat \ {0} : l # 1 => l \in 2..l
    OBVIOUS
  <2>1. Len(in.keys) \in 2..Len(in.keys)
    BY <1>1, <1>3, <2>0
  <2> QED
    BY <2>1 DEF LibraryFoldFails, DivergesOnIntermediateZeroSum, Total
<1> QED
  BY <1>2, <1>3

(***************************************************************************)
(* The outputs, out of the map by address                                  *)
(***************************************************************************)

\* The recipient that comes n-th at its address stands there n-th.
LEMMA NthAtAddress ==
    ASSUME NEW in, in.scan \in Seq(Nat), NEW i \in Recipients(in)
    PROVE  /\ Nth(in, i) \in 1..Len(RecipientsAt(in, Address(in, i)))
           /\ RecipientsAt(in, Address(in, i))[Nth(in, i)] = i
<1> DEFINE n == Len(in.scan)
           a == Address(in, i)
           P == {j \in 1..n : Address(in, j) = a}
           Def(f) == f = [k \in 0..n |->
                             IF k = 0 THEN <<>>
                             ELSE IF Address(in, k) = a THEN Append(f[k - 1], k) ELSE f[k - 1]]
<1>0. n \in Nat /\ i \in 1..n /\ i \in P
  BY DEF Recipients
<1>1. \A f : Collects(f, P, n) <=> Def(f)
  BY <1>0 DEF Collects
<1>2. /\ \E f : Collects(f, P, n)
      /\ \A f : Collects(f, P, n) =>
             \A k \in 1..n : k \in P => CountTo(P, k) \in 1..Len(f[n]) /\ f[n][CountTo(P, k)] = k
  <2> HIDE DEF P, n
  <2> QED
    BY <1>0, Collection
<1>3. RecipientsAt(in, a) = (CHOOSE f : Def(f))[n]
  BY DEF RecipientsAt
<1>4. Nth(in, i) = CountTo(P, i)
  <2>1. {j \in 1..(i - 1) : Address(in, j) = a} = {j \in 1..(i - 1) : j \in P}
    BY <1>0
  <2>2. Nth(in, i) = 1 + CountTo(P, i - 1)
    BY <2>1 DEF Nth, CountTo
  <2>3. i - 1 \in Nat /\ (i - 1) + 1 = i
    BY <1>0
  <2> HIDE DEF P
  <2> QED
    BY <1>0, <2>2, <2>3, CountStep
<1> HIDE DEF Def, P, n, a
<1>5. Collects(CHOOSE f : Def(f), P, n)
  BY <1>1, <1>2
<1>6. CountTo(P, i) \in 1..Len(RecipientsAt(in, a)) /\ RecipientsAt(in, a)[CountTo(P, i)] = i
  BY <1>0, <1>2, <1>3, <1>5
<1> QED
  BY <1>4, <1>6 DEF a

\* The walk over the recipients takes each its own output.
LEMMA WalkIsOutputs ==
    ASSUME NEW in, in.scan \in Seq(Nat)
    PROVE  InRecipientOrder(in) = Outputs(in)
<1>1. ASSUME NEW i \in Recipients(in)
      PROVE  Payments(in)[Address(in, i)][Nth(in, i)] = Output(in, i, GroupCounter(in, i))
  <2> DEFINE here == RecipientsAt(in, Address(in, i))
  <2>1. Nth(in, i) \in 1..Len(here) /\ here[Nth(in, i)] = i
    BY NthAtAddress
  <2>2. Payments(in)[Address(in, i)] =
            [n \in 1..Len(here) |-> Output(in, here[n], GroupCounter(in, here[n]))]
    BY DEF Payments
  <2> HIDE DEF here
  <2> QED
    BY <2>1, <2>2
<1> QED
  BY <1>1 DEF InRecipientOrder, Outputs

(***************************************************************************)
(* Silent payments: four modules                                           *)
(***************************************************************************)

\* spdk alone rejects a label for the change label it registers before.
ChangeLabelFails(in) ==
    \E i \in Recipients(in) : in.labeled[i] /\ Rejected(in.spend[i], LabelTweak(in.scan[i], 0))

LEMMA SameFaults ==
    ASSUME NEW in, ~ChangeLabelFails(in)
    PROVE  FirstFault(in, LabeledAddressFails) = FirstFault(in, LabelRejected)
<1> DEFINE A == {i \in Recipients(in) : Fault(in, i, LabeledAddressFails) # <<>>}
           B == {i \in Recipients(in) : Fault(in, i, LabelRejected) # <<>>}
<1>1. \A i \in Recipients(in) : Fault(in, i, LabeledAddressFails) = Fault(in, i, LabelRejected)
  BY DEF Fault, LabeledAddressFails, ChangeLabelFails
<1>2. A = B
  BY <1>1
<1>3. B # {} => (CHOOSE i \in B : \A j \in B : i <= j) \in B
  <2>1. B \subseteq Nat
    BY DEF Recipients
  <2> HIDE DEF B
  <2>2. B # {} => \E i \in B : \A j \in B : i <= j
    BY <2>1, LeastElement
  <2> QED
    BY <2>2
<1>4. /\ FirstFault(in, LabeledAddressFails) =
             IF A = {} THEN <<>>
             ELSE Fault(in, CHOOSE i \in A : \A j \in A : i <= j, LabeledAddressFails)
      /\ FirstFault(in, LabelRejected) =
             IF B = {} THEN <<>>
             ELSE Fault(in, CHOOSE i \in B : \A j \in B : i <= j, LabelRejected)
  BY DEF FirstFault
<1>5. \A i \in B : i \in Recipients(in)
  OBVIOUS
<1> HIDE DEF A, B
<1> QED
  BY <1>1, <1>2, <1>3, <1>4, <1>5

\* A fault is one of two words, and without labels only keys are at fault.
LEMMA FaultWords ==
    ASSUME NEW in
    PROVE  /\ FirstFault(in, LabelRejected) \in {<<>>, <<"INVALID_SECKEY">>, <<"LABEL_FAIL">>}
           /\ FirstFault(in, LabeledAddressFails)
                  \in {<<>>, <<"INVALID_SECKEY">>, <<"LABEL_FAIL">>}
<1>1. \A i : Fault(in, i, LabelRejected) \in {<<>>, <<"INVALID_SECKEY">>, <<"LABEL_FAIL">>}
  BY DEF Fault
<1>2. \A i : Fault(in, i, LabeledAddressFails)
                 \in {<<>>, <<"INVALID_SECKEY">>, <<"LABEL_FAIL">>}
  BY DEF Fault
<1> QED
  BY <1>1, <1>2 DEF FirstFault

LEMMA UnlabeledFault ==
    ASSUME NEW in, \A i \in Recipients(in) : ~in.labeled[i]
    PROVE  FirstFault(in, LabelRejected) =
               IF \E i \in Recipients(in) : ~InRange(in.scan[i]) \/ ~InRange(in.spend[i])
               THEN <<"INVALID_SECKEY">> ELSE <<>>
<1> DEFINE Bad(i) == ~InRange(in.scan[i]) \/ ~InRange(in.spend[i])
           B == {i \in Recipients(in) : Fault(in, i, LabelRejected) # <<>>}
<1>1. \A i \in Recipients(in) :
          Fault(in, i, LabelRejected) = IF Bad(i) THEN <<"INVALID_SECKEY">> ELSE <<>>
  BY DEF Fault
<1>2. \A i \in Recipients(in) : i \in B <=> Bad(i)
  BY <1>1
<1>3. B # {} => (CHOOSE i \in B : \A j \in B : i <= j) \in B
  <2>1. B \subseteq Nat
    BY DEF Recipients
  <2> HIDE DEF B
  <2>2. B # {} => \E i \in B : \A j \in B : i <= j
    BY <2>1, LeastElement
  <2> QED
    BY <2>2
<1>4. FirstFault(in, LabelRejected) =
          IF B = {} THEN <<>>
          ELSE Fault(in, CHOOSE i \in B : \A j \in B : i <= j, LabelRejected)
  BY DEF FirstFault
<1>5. \A i \in B : i \in Recipients(in)
  OBVIOUS
<1> HIDE DEF B
<1>6. CASE B = {}
  BY <1>2, <1>4, <1>6
<1>7. CASE B # {}
  <2>1. PICK c \in B : FirstFault(in, LabelRejected) = Fault(in, c, LabelRejected)
    BY <1>3, <1>4, <1>7
  <2>2. Bad(c) /\ c \in Recipients(in)
    BY <1>2, <1>5
  <2> QED
    BY <1>1, <2>1, <2>2
<1> QED
  BY <1>6, <1>7

\* A running sum before the last is zero where the wrappers drop an input.
LEMMA DroppedSum ==
    ASSUME NEW in, in.keys \in Seq(Nat), DivergesOnIntermediateZeroSum(in)
    PROVE  \E n \in 2..(Len(in.keys) - 1) : SumTo(in, n) = 0
<1>1. PICK n \in 2..Len(in.keys) : SumTo(in, n) = 0 /\ Total(in) # 0
  BY DEF DivergesOnIntermediateZeroSum
<1>2. n # Len(in.keys)
  BY <1>1 DEF Total
<1>3. \A l \in Nat : \A k \in 2..l : k # l => k \in 2..(l - 1)
  OBVIOUS
<1> QED
  BY <1>1, <1>2, <1>3

PaymentDrawn(in) ==
    /\ in.keys \in Seq(Nat) /\ in.keys # <<>>
    /\ in.scan \in Seq(Nat)

\* What a module may say of a payment: what libsecp256k1 says, or nothing and
\* for a reason; spdk also what its change label makes it say.
PaymentAnswer(in, m, a) ==
    /\ \/ a = NullOpt
       \/ a = SecpCreateOutputs(in)
       \/ m = "Spdk" /\ ChangeLabelFails(in)
    /\ a = NullOpt =>
           /\ m # "Secp256k1"
           /\ \/ m = "BlueWalletSp" /\ \E i \in Recipients(in) : in.labeled[i]
              \/ \E n \in 2..(Len(in.keys) - 1) : SumTo(in, n) = 0
    /\ a[1] = "outputs" => a[2] = Outputs(in) /\ Total(in) # 0

LEMMA SecpAnswer ==
    ASSUME NEW in
    PROVE  PaymentAnswer(in, "Secp256k1", SecpCreateOutputs(in))
BY FaultWords DEF PaymentAnswer, SecpCreateOutputs, NullOpt

\* The two crates: one fold, one map.
LEMMA CrateAnswers ==
    ASSUME NEW in, PaymentDrawn(in)
    PROVE  PaymentAnswer(in, "Spdk", SpdkCreateOutputs(in)) /\ PaymentAnswer(in, "BdkSp", BdkSpCreateOutputs(in))
<1>1. DivergesOnIntermediateZeroSum(in) => \E n \in 2..(Len(in.keys) - 1) : SumTo(in, n) = 0
  BY DroppedSum DEF PaymentDrawn
<1>2. ~BadInputKey(in) /\ ~DivergesOnIntermediateZeroSum(in) =>
          (LibraryFoldFails(in) <=> Total(in) = 0)
  BY FoldFailsOnZero DEF PaymentDrawn
<1>3. InRecipientOrder(in) = Outputs(in)
  BY WalkIsOutputs DEF PaymentDrawn
<1>4. PaymentAnswer(in, "BdkSp", BdkSpCreateOutputs(in))
  BY <1>1, <1>2, <1>3, FaultWords
     DEF PaymentAnswer, BdkSpCreateOutputs, CrateCreateOutputs, SecpCreateOutputs, NullOpt
<1>5. ~ChangeLabelFails(in) =>
          FirstFault(in, LabeledAddressFails) = FirstFault(in, LabelRejected)
  BY SameFaults
<1>6. PaymentAnswer(in, "Spdk", SpdkCreateOutputs(in))
  BY <1>1, <1>2, <1>3, <1>5, FaultWords
     DEF PaymentAnswer, SpdkCreateOutputs, CrateCreateOutputs, SecpCreateOutputs, NullOpt
<1> QED
  BY <1>4, <1>6

\* The runner's answer, where there are no labels, has the outputs in the order
\* of the recipients to begin with.
LEMMA BlueWalletAnswer ==
    ASSUME NEW in, PaymentDrawn(in)
    PROVE  PaymentAnswer(in, "BlueWalletSp", BlueWalletCreateOutputs(in))
<1>1. CASE \E i \in Recipients(in) : in.labeled[i]
  BY <1>1 DEF PaymentAnswer, BlueWalletCreateOutputs, NullOpt
<1>2. CASE \A i \in Recipients(in) : ~in.labeled[i]
  <2>1. DivergesOnIntermediateZeroSum(in) =>
            \E n \in 2..(Len(in.keys) - 1) : SumTo(in, n) = 0
    BY DroppedSum DEF PaymentDrawn
  <2>2. ~BadInputKey(in) /\ ~DivergesOnIntermediateZeroSum(in) =>
            (LibraryFoldFails(in) <=> Total(in) = 0)
    BY FoldFailsOnZero DEF PaymentDrawn
  <2>3. [i \in Recipients(in) |->
            <<(Total(in) * in.scan[i]) % Order, in.spend[i], GroupCounter(in, i)>>] = Outputs(in)
    BY <1>2 DEF Outputs, Output, SpendPubkey
  <2>4. FirstFault(in, LabelRejected) =
            IF \E i \in Recipients(in) : ~InRange(in.scan[i]) \/ ~InRange(in.spend[i])
            THEN <<"INVALID_SECKEY">> ELSE <<>>
    BY <1>2, UnlabeledFault
  <2>5. BlueWalletCreateOutputs(in) =
            IF CreateOutputs(in) = <<"SKIP_INTERMEDIATE_ZERO_SUM">> THEN NullOpt
            ELSE CreateOutputs(in)
    BY <1>2 DEF BlueWalletCreateOutputs
  <2>6. CASE BadInputKey(in)
    BY <2>5, <2>6 DEF PaymentAnswer, CreateOutputs, SecpCreateOutputs, NullOpt
  <2>7. CASE /\ ~BadInputKey(in)
             /\ \E i \in Recipients(in) : ~InRange(in.scan[i]) \/ ~InRange(in.spend[i])
    BY <2>4, <2>5, <2>7 DEF PaymentAnswer, CreateOutputs, SecpCreateOutputs, NullOpt
  <2>8. CASE /\ ~BadInputKey(in)
             /\ ~\E i \in Recipients(in) : ~InRange(in.scan[i]) \/ ~InRange(in.spend[i])
             /\ DivergesOnIntermediateZeroSum(in)
    BY <2>1, <2>5, <2>8 DEF PaymentAnswer, CreateOutputs, NullOpt
  <2>9. CASE /\ ~BadInputKey(in)
             /\ ~\E i \in Recipients(in) : ~InRange(in.scan[i]) \/ ~InRange(in.spend[i])
             /\ ~DivergesOnIntermediateZeroSum(in)
    <3>1. SecpCreateOutputs(in) =
              IF Total(in) = 0 THEN <<"CREATE_FAIL">> ELSE <<"outputs", Outputs(in)>>
      BY <2>4, <2>9 DEF SecpCreateOutputs
    <3>2. CreateOutputs(in) =
              IF Total(in) = 0 THEN <<"CREATE_FAIL">> ELSE <<"outputs", Outputs(in)>>
      BY <2>2, <2>3, <2>9 DEF CreateOutputs
    <3> QED
      BY <2>5, <3>1, <3>2 DEF PaymentAnswer, NullOpt
  <2> QED
    BY <2>6, <2>7, <2>8, <2>9
<1> QED
  BY <1>1, <1>2

LEMMA PaymentAnswers ==
    ASSUME NEW in, PaymentDrawn(in),
           NEW m \in {"BdkSp", "BlueWalletSp", "Secp256k1", "Spdk"}
    PROVE  PaymentAnswer(in, m, silentpayments_create_outputs(m, in))
BY SecpAnswer, CrateAnswers, BlueWalletAnswer DEF silentpayments_create_outputs

(***************************************************************************)
(* The other targets                                                       *)
(***************************************************************************)

\* Taken from an odd number, a number changes its parity.
LEMMA OddComplement ==
    \A p \in Nat : \A u \in 0..p : p % 2 = 1 => ((p - u) % 2 = 1 <=> u % 2 # 1)
OBVIOUS

\* btcd forces the parity of t to that of Y.
LEMMA ForcedParityHolds ==
    ASSUME NEW t \in 1..(FieldPrime - 1), NEW odd \in BOOLEAN
    PROVE  IsOddField(ForcedParity(t, odd)) = odd
<1>1. FieldPrime \in Nat /\ FieldPrime > 2 /\ FieldPrime % 2 = 1
  BY FieldAssumption
<1>2. \A u \in 1..(FieldPrime - 1) : u % FieldPrime = u
  BY <1>1
<1>3. FieldPrime - t \in 1..(FieldPrime - 1)
  BY <1>1
<1>4. (FieldPrime - t) % 2 = 1 <=> t % 2 # 1
  BY <1>1, OddComplement
<1>5. IsOddField(t) = (t % 2 = 1)
  BY <1>2 DEF IsOddField
<1>6. IsOddField(FieldPrime - t) = ((FieldPrime - t) % 2 = 1)
  BY <1>2, <1>3 DEF IsOddField
<1> QED
  BY <1>4, <1>5, <1>6 DEF ForcedParity

\* The tweaks cross the boundary of the crate unchanged.
LEMMA PackedTweaks ==
    ASSUME NEW tweaks \in Seq([is_xonly : BOOLEAN, tweak : Nat])
    PROVE  Packed(tweaks) = tweaks
<1>1. tweaks = [i \in 1..Len(tweaks) |-> tweaks[i]]
  OBVIOUS
<1>2. \A i \in 1..Len(tweaks) :
          tweaks[i] = [is_xonly |-> tweaks[i].is_xonly, tweak |-> tweaks[i].tweak]
  <2>1. ASSUME NEW R, NEW s \in Seq(R)
        PROVE  \A i \in 1..Len(s) : s[i] \in R
    OBVIOUS
  <2>2. \A i \in 1..Len(tweaks) : tweaks[i] \in [is_xonly : BOOLEAN, tweak : Nat]
    BY <2>1, Zenon
  <2>3. \A t \in [is_xonly : BOOLEAN, tweak : Nat] :
            t = [is_xonly |-> t.is_xonly, tweak |-> t.tweak]
    OBVIOUS
  <2> QED
    BY <2>2, <2>3
<1> QED
  BY <1>1, <1>2 DEF Packed

\* Two modules that are asked give one answer, or one gives none, or they are
\* known to differ.
Agree(in, m, other) ==
    \/ Answer(m, in) = Answer(other, in)
    \/ Answer(m, in) = NullOpt
    \/ Answer(other, in) = NullOpt

LEMMA AnswersMatch ==
    ASSUME input \in CurveInputs,
           NEW m \in ToSet(Modules(input.target)), ~Skipped(m, input), ~KnownToDiffer(m),
           NEW other \in ToSet(Modules(input.target)), ~Skipped(other, input),
           ~KnownToDiffer(other)
    PROVE  Agree(input, m, other)
<1>1. DriverDraws(input)
  BY DrawnAssumption
<1>2. CASE input.target \in {"private_to_public_key", "sign_compact", "sign_der",
                            "decode_ellswift", "musig2_key_agg"}
  BY <1>2 DEF Agree, Answer, private_to_public_key, sign, HashToSign, decode_ellswift,
              musig2_key_agg
<1>3. CASE input.target = "pubkey_parse"
  BY <1>3 DEF Agree, Answer, pubkey_parse, Parses, Skipped
<1>4. CASE input.target = "sign_verify"
  BY <1>4 DEF Agree, Answer, sign_verify
<1>5. CASE input.target = "ecdh"
  BY <1>5 DEF Agree, Answer, ecdh, Parses
<1>6. CASE input.target = "sign_schnorr"
  BY <1>6 DEF Agree, Answer, sign_schnorr
<1>7. CASE input.target = "schnorr_verify"
  <2>1. input.key \in Nat /\ Order \in Nat \ {0}
    BY <1>1, <1>7, OrderAssumption DEF DriverDraws
  <2>2. "Btcd" \in {m, other} => input.key % Order = input.key
    <3>1. "Btcd" \in {m, other} => ~(input.key >= Order)
      BY <1>7 DEF KnownToDiffer
    <3>2. \A k, o \in Nat : ~(k >= o) => k % o = k
      OBVIOUS
    <3> QED
      BY <2>1, <3>1, <3>2
  <2> QED
    BY <1>7, <2>2 DEF Agree, Answer, schnorr_verify
<1>8. CASE input.target = "roundtrip_ellswift"
  <2>1. CASE ~InRange(input.key)
    BY <1>8, <2>1 DEF Agree, Answer, roundtrip_ellswift
  <2>2. CASE InRange(input.key)
    <3>1. Odd(input.key) \in BOOLEAN
      BY <2>2, OrderAssumption DEF InRange
    <3>2. IsOddField(ForcedParity(input.t, Odd(input.key))) = Odd(input.key)
      BY <1>1, <1>8, <3>1, ForcedParityHolds DEF DriverDraws
    <3> QED
      BY <1>8, <2>2, <3>2 DEF Agree, Answer, roundtrip_ellswift
  <2> QED
    BY <2>1, <2>2
<1>9. CASE input.target = "musig2_sign_session"
  <2>1. Packed(input.tweaks) = input.tweaks
    BY <1>1, <1>9, PackedTweaks DEF DriverDraws
  <2>2. ApplyTweaks(m, input) = ApplyTweaks(other, input)
    BY <2>1 DEF ApplyTweaks
  <2> QED
    BY <1>9, <2>2 DEF Agree, Answer, musig2_sign_session
<1>10. CASE input.target = "silentpayments_create_outputs"
  <2>1. ToSet(Modules(input.target)) = {"BdkSp", "BlueWalletSp", "Secp256k1", "Spdk"}
    <3>1. Modules(input.target) = <<"BdkSp", "BlueWalletSp", "Secp256k1", "Spdk">>
      BY <1>10 DEF Modules
    <3>2. ToSet(<<"BdkSp", "BlueWalletSp", "Secp256k1", "Spdk">>) =
              {"BdkSp", "BlueWalletSp", "Secp256k1", "Spdk"}
      BY DEF ToSet
    <3> QED
      BY <3>1, <3>2
  <2>2. PaymentDrawn(input)
    BY <1>1, <1>10 DEF DriverDraws, PaymentDrawn
  <2>3. \A n \in {m, other} :
            PaymentAnswer(input, n, silentpayments_create_outputs(n, input))
    BY <2>1, <2>2, PaymentAnswers
  <2>4. "Spdk" \in {m, other} => ~ChangeLabelFails(input)
    BY <1>10 DEF KnownToDiffer, ChangeLabelFails
  <2>5. \A n \in {m, other} :
            silentpayments_create_outputs(n, input) \in {NullOpt, SecpCreateOutputs(input)}
    BY <2>3, <2>4 DEF PaymentAnswer
  <2> QED
    BY <1>10, <2>5 DEF Agree, Answer
<1> QED
  BY <1>1, <1>2, <1>3, <1>4, <1>5, <1>6, <1>7, <1>8, <1>9, <1>10 DEF DriverDraws

\* A module keeps silent only where SilentFor says so.
LEMMA SilentWithReason ==
    ASSUME input \in CurveInputs, NEW m \in ToSet(Modules(input.target)),
           ~Skipped(m, input), Answer(m, input) = NullOpt
    PROVE  SilentFor(m)
<1>1. DriverDraws(input)
  BY DrawnAssumption
<1>2. CASE input.target \in {"private_to_public_key", "sign_compact", "sign_der",
                            "sign_schnorr", "roundtrip_ellswift"}
  BY <1>2 DEF Answer, NullOpt, SilentFor, private_to_public_key, Compressed, sign, Signature,
              sign_schnorr, SchnorrSignature, roundtrip_ellswift
<1>3. CASE input.target = "pubkey_parse"
  BY <1>3 DEF Answer, NullOpt, SilentFor, pubkey_parse
<1>4. CASE input.target = "sign_verify"
  BY <1>4 DEF Answer, NullOpt, SilentFor, sign_verify
<1>5. CASE input.target = "ecdh"
  BY <1>5 DEF Answer, NullOpt, SilentFor, ecdh, Parses
<1>6. CASE input.target \in {"schnorr_verify", "decode_ellswift"}
  BY <1>6 DEF Answer, NullOpt, SilentFor, schnorr_verify, decode_ellswift
<1>7. CASE input.target \in {"musig2_key_agg", "musig2_sign_session"}
  BY <1>7 DEF Answer, NullOpt, SilentFor, musig2_key_agg, Compressed, musig2_sign_session
<1>8. CASE input.target = "silentpayments_create_outputs"
  <2>1. m \in {"BdkSp", "BlueWalletSp", "Secp256k1", "Spdk"}
    BY <1>8 DEF Modules, ToSet
  <2>2. PaymentAnswer(input, m, silentpayments_create_outputs(m, input))
    BY <1>1, <1>8, <2>1, PaymentAnswers DEF DriverDraws, PaymentDrawn
  <2> QED
    BY <1>8, <2>2 DEF Answer, PaymentAnswer, SilentFor
<1> QED
  BY <1>1, <1>2, <1>3, <1>4, <1>5, <1>6, <1>7, <1>8 DEF DriverDraws

(***************************************************************************)
(* Consensus targets: the amounts of a transaction, counted in three ways  *)
(***************************************************************************)
Words == 0..(WordSize - 1)

IsPaid(f, values) ==
    f = [n \in 0..Len(values) |-> IF n = 0 THEN 0 ELSE f[n - 1] + AsSigned(values[n])]
IsTotalOut(f, values) ==
    f = [n \in 0..Len(values) |-> IF n = 0 THEN 0 ELSE Overspent(f[n - 1], values[n])]
IsSpent(f, values) ==
    f = [n \in 0..Len(values) |-> IF n = 0 THEN 0 ELSE f[n - 1] + values[n]]

LEMMA WordFacts ==
    /\ WordSize \in Nat \ {0} /\ max_money \in Nat /\ 2 * max_money < WordSize
    /\ \A v \in Words : AsSigned(v) \in Int
    /\ \A v \in Words, t \in Int : Overspent(t, v) \in Int
BY ConsensusAssumption DEF AsSigned, Overspent, Words

\* Each count is a function that takes the outputs one by one.
LEMMA PaidSteps ==
    ASSUME NEW values \in Seq(Words)
    PROVE  /\ Paid(values)[0] = 0
           /\ \A n \in 1..Len(values) :
                  Paid(values)[n] = Paid(values)[n - 1] + AsSigned(values[n])
<1> DEFINE l == Len(values)
           F == [p \in (1..l) \X Int |-> p[2] + AsSigned(values[p[1]])]
<1>0. l \in Nat /\ \A n \in 1..l : values[n] \in Words
  OBVIOUS
<1>1. \A n \in 1..l : AsSigned(values[n]) \in Int
  BY <1>0, WordFacts
<1>2. F \in [(1..l) \X Int -> Int]
  BY <1>1
<1>3. \E f : IsPaid(f, values)
  <2>1. PICK g \in [0..l -> Int] : g[0] = 0 /\ \A k \in 1..l : g[k] = F[<<k, g[k - 1]>>]
    <3> HIDE DEF F, l
    <3> QED
      BY <1>0, <1>2, RecursionExists
  <2>2. \A k \in 1..l : g[k] = g[k - 1] + AsSigned(values[k])
    <3> SUFFICES ASSUME NEW k \in 1..l PROVE g[k] = g[k - 1] + AsSigned(values[k])
      OBVIOUS
    <3>1. k - 1 \in 0..l
      BY <1>0
    <3>2. <<k, g[k - 1]>> \in (1..l) \X Int
      BY <2>1, <3>1
    <3> QED
      BY <2>1, <3>2
  <2>3. \A k \in 0..l : g[k] = IF k = 0 THEN 0 ELSE g[k - 1] + AsSigned(values[k])
    BY <1>0, <2>1, <2>2
  <2>4. g = [k \in 0..l |-> IF k = 0 THEN 0 ELSE g[k - 1] + AsSigned(values[k])]
    BY <2>1, <2>3, Zenon
  <2> QED
    BY <2>4 DEF IsPaid
<1>4. IsPaid(Paid(values), values)
  BY <1>3, Zenon DEF Paid, IsPaid
<1>5. \A k \in 0..l : Paid(values)[k] =
          IF k = 0 THEN 0 ELSE Paid(values)[k - 1] + AsSigned(values[k])
  BY <1>4, Zenon DEF IsPaid
<1>6. 0 \in 0..l /\ \A k \in 1..l : k \in 0..l /\ k # 0
  BY <1>0
<1> QED
  BY <1>5, <1>6, Zenon

LEMMA TotalOutSteps ==
    ASSUME NEW values \in Seq(Words)
    PROVE  /\ TotalOut(values)[0] = 0
           /\ \A n \in 1..Len(values) :
                  TotalOut(values)[n] = Overspent(TotalOut(values)[n - 1], values[n])
<1> DEFINE l == Len(values)
           F == [p \in (1..l) \X Int |-> Overspent(p[2], values[p[1]])]
<1>0. l \in Nat /\ \A n \in 1..l : values[n] \in Words
  OBVIOUS
<1>2. F \in [(1..l) \X Int -> Int]
  BY <1>0, WordFacts
<1>3. \E f : IsTotalOut(f, values)
  <2>1. PICK g \in [0..l -> Int] : g[0] = 0 /\ \A k \in 1..l : g[k] = F[<<k, g[k - 1]>>]
    <3> HIDE DEF F, l
    <3> QED
      BY <1>0, <1>2, RecursionExists
  <2>2. \A k \in 1..l : g[k] = Overspent(g[k - 1], values[k])
    <3> SUFFICES ASSUME NEW k \in 1..l PROVE g[k] = Overspent(g[k - 1], values[k])
      OBVIOUS
    <3>1. k - 1 \in 0..l
      BY <1>0
    <3>2. <<k, g[k - 1]>> \in (1..l) \X Int
      BY <2>1, <3>1
    <3> QED
      BY <2>1, <3>2
  <2>3. \A k \in 0..l : g[k] = IF k = 0 THEN 0 ELSE Overspent(g[k - 1], values[k])
    BY <1>0, <2>1, <2>2
  <2>4. g = [k \in 0..l |-> IF k = 0 THEN 0 ELSE Overspent(g[k - 1], values[k])]
    BY <2>1, <2>3, Zenon
  <2> QED
    BY <2>4 DEF IsTotalOut
<1>4. IsTotalOut(TotalOut(values), values)
  BY <1>3, Zenon DEF TotalOut, IsTotalOut
<1>5. \A k \in 0..l : TotalOut(values)[k] =
          IF k = 0 THEN 0 ELSE Overspent(TotalOut(values)[k - 1], values[k])
  BY <1>4, Zenon DEF IsTotalOut
<1>6. 0 \in 0..l /\ \A k \in 1..l : k \in 0..l /\ k # 0
  BY <1>0
<1> QED
  BY <1>5, <1>6, Zenon

\* The count that no limit and no sign bends.
LEMMA SpentSteps ==
    ASSUME NEW values \in Seq(Words)
    PROVE  \E f : /\ SpentInAll(values) = f[Len(values)]
                  /\ f[0] = 0
                  /\ \A n \in 1..Len(values) : f[n] = f[n - 1] + values[n]
<1> DEFINE l == Len(values)
           F == [p \in (1..l) \X Int |-> p[2] + values[p[1]]]
           s == CHOOSE f : IsSpent(f, values)
<1>0. l \in Nat /\ \A n \in 1..l : values[n] \in Int
  <2>1. \A v \in Words : v \in Int
    BY WordFacts DEF Words
  <2>2. \A n \in 1..l : values[n] \in Words
    OBVIOUS
  <2> QED
    BY <2>1, <2>2
<1>2. F \in [(1..l) \X Int -> Int]
  BY <1>0
<1>3. \E f : IsSpent(f, values)
  <2>1. PICK g \in [0..l -> Int] : g[0] = 0 /\ \A k \in 1..l : g[k] = F[<<k, g[k - 1]>>]
    <3> HIDE DEF F, l
    <3> QED
      BY <1>0, <1>2, RecursionExists
  <2>2. \A k \in 1..l : g[k] = g[k - 1] + values[k]
    <3> SUFFICES ASSUME NEW k \in 1..l PROVE g[k] = g[k - 1] + values[k]
      OBVIOUS
    <3>1. k - 1 \in 0..l
      BY <1>0
    <3>2. <<k, g[k - 1]>> \in (1..l) \X Int
      BY <2>1, <3>1
    <3> QED
      BY <2>1, <3>2
  <2>3. \A k \in 0..l : g[k] = IF k = 0 THEN 0 ELSE g[k - 1] + values[k]
    BY <1>0, <2>1, <2>2
  <2>4. g = [k \in 0..l |-> IF k = 0 THEN 0 ELSE g[k - 1] + values[k]]
    BY <2>1, <2>3, Zenon
  <2> QED
    BY <2>4 DEF IsSpent
<1>4. IsSpent(s, values)
  BY <1>3, Zenon
<1>5. \A k \in 0..l : s[k] = IF k = 0 THEN 0 ELSE s[k - 1] + values[k]
  BY <1>4, Zenon DEF IsSpent
<1>6. 0 \in 0..l /\ \A k \in 1..l : k \in 0..l /\ k # 0
  BY <1>0
<1>7. s[0] = 0 /\ \A k \in 1..l : s[k] = s[k - 1] + values[k]
  BY <1>5, <1>6, Zenon
<1>8. SpentInAll(values) = s[Len(values)]
  BY Zenon DEF SpentInAll, IsSpent
<1> QED
  BY <1>7, <1>8, Zenon

\* Core's range checks up to the n-th output.
RangesHold(values, n) ==
    \A i \in 1..n : MoneyRange(AsSigned(values[i])) /\ MoneyRange(Paid(values)[i])

\* One more output: the guard of the wrapper, on unsigned words, refuses exactly
\* what Core's ranges, on signed ones, refuse, and counts right what it does not.
LEMMA OneOutput ==
    ASSUME NEW v \in Words, NEW total \in 0..max_money
    PROVE  /\ Overspent(total, v) # -1 <=>
                  MoneyRange(AsSigned(v)) /\ MoneyRange(total + AsSigned(v))
           /\ Overspent(total, v) # -1 =>
                  /\ Overspent(total, v) = total + v
                  /\ AsSigned(v) = v
                  /\ total + v \in 0..max_money
<1>1. /\ WordSize \in Nat /\ max_money \in Nat /\ 2 * max_money < WordSize
      /\ v \in Nat /\ v < WordSize /\ total \in Nat /\ total <= max_money
  BY WordFacts DEF Words
<1>2. CASE v > max_money
  <2>1. Overspent(total, v) = -1
    BY <1>2 DEF Overspent
  <2>2. ~MoneyRange(AsSigned(v))
    BY <1>1, <1>2 DEF MoneyRange, AsSigned
  <2> QED
    BY <2>1, <2>2
<1>3. CASE v <= max_money
  <2>1. AsSigned(v) = v /\ MoneyRange(AsSigned(v))
    BY <1>1, <1>3 DEF AsSigned, MoneyRange
  <2>2. \A w \in Nat, a \in Nat : a < w => a % w = a /\ (a + w) % w = a
    OBVIOUS
  <2>3. (max_money + WordSize - v) % WordSize = max_money - v
    <3>1. max_money - v \in Nat /\ max_money - v < WordSize
      BY <1>1, <1>3
    <3>2. max_money + WordSize - v = (max_money - v) + WordSize
      BY <1>1
    <3> QED
      BY <1>1, <2>2, <3>1, <3>2
  <2>4. CASE total > max_money - v
    <3>1. Overspent(total, v) = -1
      BY <2>3, <2>4 DEF Overspent
    <3>2. ~MoneyRange(total + AsSigned(v))
      BY <1>1, <1>3, <2>1, <2>4 DEF MoneyRange
    <3> QED
      BY <3>1, <3>2
  <2>5. CASE ~(total > max_money - v)
    <3>1. total + v \in 0..max_money /\ total + v < WordSize /\ total # -1
      BY <1>1, <1>3, <2>5
    <3>2. (total + v) % WordSize = total + v
      BY <1>1, <2>2, <3>1
    <3>5. ~(total > (max_money + WordSize - v) % WordSize) /\ ~(v > max_money)
      BY <1>1, <1>3, <2>3, <2>5
    <3>3. Overspent(total, v) = total + v
      BY <3>1, <3>2, <3>5, Zenon DEF Overspent
    <3>4. MoneyRange(total + AsSigned(v))
      BY <2>1, <3>1 DEF MoneyRange
    <3> QED
      BY <2>1, <3>1, <3>3, <3>4
  <2> QED
    BY <2>4, <2>5
<1> QED
  BY <1>1, <1>2, <1>3

\* The wrapper's guard for CVE-2010-5139 refuses what Core refuses, and what
\* passes it adds up to no more than there is.
LEMMA CountsAgree ==
    ASSUME NEW values \in Seq(Words)
    PROVE  /\ TotalOut(values)[Len(values)] # -1 <=> RangesHold(values, Len(values))
           /\ RangesHold(values, Len(values)) => SpentInAll(values) <= max_money
<1> DEFINE l == Len(values)
           P == Paid(values)
           T == TotalOut(values)
<1>0. l \in Nat /\ \A n \in 1..l : values[n] \in Words
  OBVIOUS
<1>1. PICK s : /\ SpentInAll(values) = s[l]
               /\ s[0] = 0
               /\ \A n \in 1..l : s[n] = s[n - 1] + values[n]
  BY SpentSteps
<1>2. P[0] = 0 /\ \A n \in 1..l : P[n] = P[n - 1] + AsSigned(values[n])
  BY PaidSteps
<1>3. T[0] = 0 /\ \A n \in 1..l : T[n] = Overspent(T[n - 1], values[n])
  BY TotalOutSteps
<1> DEFINE Same(k) == /\ T[k] # -1 <=> RangesHold(values, k)
                      /\ T[k] # -1 => T[k] \in 0..max_money /\ P[k] = T[k] /\ s[k] = T[k]
           Good == {k \in Nat : k <= l => Same(k)}
<1>4. 0 \in Good
  BY <1>1, <1>2, <1>3, WordFacts DEF RangesHold
<1>5. ASSUME NEW k \in Nat, k \in Good PROVE k + 1 \in Good
  <2> SUFFICES ASSUME k + 1 <= l PROVE Same(k + 1)
    OBVIOUS
  <2> DEFINE v == values[k + 1]
  <2>1. k + 1 \in 1..l /\ (k + 1) - 1 = k /\ k <= l
    BY <1>0
  <2>2. Same(k)
    BY <1>5, <2>1
  <2>3. /\ T[k + 1] = Overspent(T[k], v)
        /\ P[k + 1] = P[k] + AsSigned(v)
        /\ s[k + 1] = s[k] + v
        /\ v \in Words
    BY <1>0, <1>1, <1>2, <1>3, <2>1
  <2>4. RangesHold(values, k + 1) <=>
            RangesHold(values, k) /\ MoneyRange(AsSigned(v)) /\ MoneyRange(P[k + 1])
    <3>1. \A i \in 1..(k + 1) : i \in 1..k \/ i = k + 1
      OBVIOUS
    <3>2. 1..k \subseteq 1..(k + 1) /\ k + 1 \in 1..(k + 1)
      OBVIOUS
    <3> HIDE DEF P
    <3> QED
      BY <3>1, <3>2 DEF RangesHold, P
  <2> HIDE DEF P, T, v
  <2>5. CASE T[k] = -1
    <3>1. T[k + 1] = -1
      BY <2>3, <2>5 DEF Overspent
    <3> QED
      BY <2>2, <2>4, <2>5, <3>1
  <2>6. CASE T[k] # -1
    <3>1. T[k] \in 0..max_money /\ P[k] = T[k] /\ s[k] = T[k] /\ RangesHold(values, k)
      BY <2>2, <2>6
    <3>2. /\ T[k + 1] # -1 <=> MoneyRange(AsSigned(v)) /\ MoneyRange(T[k] + AsSigned(v))
          /\ T[k + 1] # -1 => /\ T[k + 1] = T[k] + v
                              /\ AsSigned(v) = v
                              /\ T[k] + v \in 0..max_money
      BY <2>3, <3>1, OneOutput
    <3> QED
      BY <2>3, <2>4, <3>1, <3>2
  <2> QED
    BY <2>5, <2>6
<1>6. Nat \subseteq Good
  <2> HIDE DEF Good
  <2> QED
    BY <1>4, <1>5, SetInduction
<1>7. Same(l)
  <2> HIDE DEF Same
  <2> QED
    BY <1>0, <1>6
<1> HIDE DEF P, T
<1>8. T[l] # -1 => SpentInAll(values) <= max_money
  BY <1>1, <1>7, WordFacts
<1> QED
  BY <1>7, <1>8 DEF T

(***************************************************************************)
(* Consensus targets: what each module says of an input                    *)
(***************************************************************************)

\* Words that cross the wire are judged alike, signed or unsigned.
LEMMA TransactionsJudgedAlike ==
    ASSUME NEW tx, tx.values \in Seq(Words)
    PROVE  CheckTransaction(tx) <=>
               /\ LibbitcoinCheck(tx) /\ Distinct(tx.points)
               /\ TotalOut(tx.values)[Len(tx.values)] # -1
BY CountsAgree DEF CheckTransaction, LibbitcoinCheck, RangesHold

LEMMA AcceptedIsPaidFor ==
    ASSUME NEW tx, tx.values \in Seq(Words), NEW m, transaction_eval(m, tx) # Refused
    PROVE  Distinct(tx.points) /\ SpentInAll(tx.values) <= max_money
<1>1. CheckTransaction(tx)
  BY TransactionsJudgedAlike
     DEF transaction_eval, BitcoinTransactionEval, BtcdTransactionEval, KernelTransactionEval,
         LibbitcoinTransactionEval
<1> QED
  BY <1>1, CountsAgree DEF CheckTransaction, RangesHold

\* The driver's formula and the encoders' count of groups agree, and an address
\* within the limit meets every encoder's own rules.
LEMMA FormulaIsExact ==
    ASSUME NEW p \in 2..40
    PROVE  Bech32DataLength(p) = 1 + GroupsWritten(p)
BY DEF Bech32DataLength, GroupsWritten

LEMMA FittingIsRead ==
    ASSUME NEW in, ConsensusDraws(in), in.target = "bech32_segwit_roundtrip",
           ComparesAddress(in), NEW m
    PROVE  bech32_segwit_roundtrip(m, in) = {Roundtrip(in)}
<1>1. in.program_len \in 2..40 /\ in.hrp_len \in 1..83 /\ ProgramFits(in)
  BY DEF ConsensusDraws, MaxHrp
<1>2. GroupsWritten(in.program_len) \in Nat
  BY <1>1 DEF GroupsWritten
<1>3. AddressLength(in) <= AddressLimit
  BY <1>1, <1>2, FormulaIsExact
     DEF ComparesAddress, AddressLength, AddressLimit, ChecksumSize
<1>4. ~(AddressLength(in) > AddressLimit) /\ ~(in.hrp_len > MaxHrp)
  BY <1>1, <1>2, <1>3 DEF AddressLength, AddressLimit, ChecksumSize, MaxHrp
<1> QED
  BY <1>1, <1>4
     DEF bech32_segwit_roundtrip, BitcoinBech32Roundtrip, BTCDBech32SegwitRoundtrip,
         RustBech32Roundtrip, WallyBech32Roundtrip

(***************************************************************************)
(* Merkle roots: the levels of a tree                                      *)
(***************************************************************************)

AreWidths(f, n) == f = [h \in 0..n |-> IF h = 0 THEN n ELSE (f[h - 1] + 1) \div 2]

AreLevels(f, s, m) ==
    f = [h \in 0..m |-> IF h = 0 THEN s
                        ELSE [i \in 1..LevelWidths(Len(s))[h] |-> NodeOver(f[h - 1], i)]]

AreStates(f, s, m) ==
    f = [n \in 0..m |-> IF n = 0 THEN [hashes |-> s, mutated |-> FALSE]
                        ELSE LevelOf(f[n - 1], n)]

\* The widths halve, rounded up.
LEMMA WidthSteps ==
    ASSUME NEW n \in Nat \ {0}
    PROVE  /\ LevelWidths(n)[0] = n
           /\ \A h \in 1..n : LevelWidths(n)[h] = (LevelWidths(n)[h - 1] + 1) \div 2
<1> DEFINE F == [p \in (1..n) \X Int |-> (p[2] + 1) \div 2]
<1>1. F \in [(1..n) \X Int -> Int]
  OBVIOUS
<1>2. \E f : AreWidths(f, n)
  <2>1. PICK g \in [0..n -> Int] : g[0] = n /\ \A k \in 1..n : g[k] = F[<<k, g[k - 1]>>]
    <3> HIDE DEF F
    <3>1. n \in Nat /\ n \in Int
      OBVIOUS
    <3> QED
      BY <1>1, <3>1, RecursionFrom, Zenon
  <2>2. \A k \in 1..n : g[k] = (g[k - 1] + 1) \div 2
    <3> SUFFICES ASSUME NEW k \in 1..n PROVE g[k] = (g[k - 1] + 1) \div 2
      OBVIOUS
    <3>1. k - 1 \in 0..n
      OBVIOUS
    <3>2. <<k, g[k - 1]>> \in (1..n) \X Int
      BY <2>1, <3>1
    <3> QED
      BY <2>1, <3>2
  <2>3. \A k \in 0..n : g[k] = IF k = 0 THEN n ELSE (g[k - 1] + 1) \div 2
    BY <2>1, <2>2
  <2>4. g = [k \in 0..n |-> IF k = 0 THEN n ELSE (g[k - 1] + 1) \div 2]
    BY <2>1, <2>3, Zenon
  <2> QED
    BY <2>4 DEF AreWidths
<1>3. AreWidths(LevelWidths(n), n)
  BY <1>2, Zenon DEF LevelWidths, AreWidths
<1>4. \A k \in 0..n : LevelWidths(n)[k] = IF k = 0 THEN n ELSE (LevelWidths(n)[k - 1] + 1) \div 2
  BY <1>3, Zenon DEF AreWidths
<1>5. 0 \in 0..n /\ \A k \in 1..n : k \in 0..n /\ k # 0
  OBVIOUS
<1> QED
  BY <1>4, <1>5, Zenon

\* They stay positive and go down to one.
LEMMA WidthBounds ==
    ASSUME NEW n \in Nat \ {0}, NEW h \in 0..n
    PROVE  /\ LevelWidths(n)[h] \in Nat \ {0}
           /\ LevelWidths(n)[h] = 1 \/ LevelWidths(n)[h] <= n - h
<1> DEFINE W == LevelWidths(n)
           P(k) == W[k] \in Nat \ {0} /\ (W[k] = 1 \/ W[k] <= n - k)
           Good == {k \in Nat : k <= n => P(k)}
<1>1. W[0] = n /\ \A k \in 1..n : W[k] = (W[k - 1] + 1) \div 2
  BY WidthSteps
<1> HIDE DEF W
<1>2. 0 \in Good
  BY <1>1
<1>3. ASSUME NEW k \in Nat, k \in Good PROVE k + 1 \in Good
  <2> SUFFICES ASSUME k + 1 <= n PROVE P(k + 1)
    OBVIOUS
  <2>1. k + 1 \in 1..n /\ (k + 1) - 1 = k /\ P(k)
    BY <1>3
  <2>2. W[k + 1] = (W[k] + 1) \div 2
    BY <1>1, <2>1
  <2>3. ASSUME NEW w \in Nat \ {0}, w = 1 \/ w <= n - k
        PROVE  /\ (w + 1) \div 2 \in Nat \ {0}
               /\ (w + 1) \div 2 = 1 \/ (w + 1) \div 2 <= n - (k + 1)
    BY <2>1, <2>3
  <2> QED
    BY <2>1, <2>2, <2>3
<1>4. Nat \subseteq Good
  <2> HIDE DEF Good
  <2> QED
    BY <1>2, <1>3, SetInduction
<1> QED
  BY <1>4 DEF W

\* So there is a height.
LEMMA HeightType ==
    ASSUME NEW n \in Nat \ {0}
    PROVE  /\ Height(n) \in 0..n /\ LevelWidths(n)[Height(n)] = 1
           /\ \A g \in 0..(Height(n) - 1) : LevelWidths(n)[g] > 1
<1> DEFINE W == LevelWidths(n)
           T == {h \in 0..n : W[h] = 1}
<1>1. \A h \in 0..n : W[h] \in Nat \ {0} /\ (W[h] = 1 \/ W[h] <= n - h)
  BY WidthBounds
<1> HIDE DEF W
<1>2. n \in T
  BY <1>1
<1>3. T \subseteq Nat
  OBVIOUS
<1>4. PICK h \in T : \A k \in T : h <= k
  <2> HIDE DEF T
  <2> QED
    BY <1>2, <1>3, LeastElement
<1>5. h \in 0..n /\ W[h] = 1 /\ \A g \in 0..(h - 1) : W[g] > 1
  <2>1. \A g \in 0..(h - 1) : g \in 0..n /\ g \notin T
    BY <1>4
  <2> QED
    BY <1>1, <1>4, <2>1
<1>6. \E x \in 0..n : W[x] = 1 /\ \A g \in 0..(x - 1) : W[g] > 1
  BY <1>5
<1> QED
  BY <1>6, Zenon DEF Height, W

\* The levels of the tree exist up to any height.
LEMMA LevelsExist ==
    ASSUME NEW s, NEW n \in Nat
    PROVE  \E f : AreLevels(f, s, n)
<1> DEFINE Over(b, h) == [i \in 1..LevelWidths(Len(s))[h] |-> NodeOver(b, i)]
           G(m) == \E f : AreLevels(f, s, m)
           Good == {m \in Nat : G(m)}
<1>1. 0 \in Good
  <2> DEFINE f == [h \in 0..0 |-> s]
             g == [h \in 0..0 |-> IF h = 0 THEN s ELSE Over(f[h - 1], h)]
  <2>1. f = g
    OBVIOUS
  <2> HIDE DEF f
  <2>2. AreLevels(f, s, 0)
    BY <2>1, Zenon DEF AreLevels
  <2> QED
    BY <2>2
<1>2. ASSUME NEW m \in Nat, m \in Good PROVE m + 1 \in Good
  <2>1. PICK f : f = [h \in 0..m |-> IF h = 0 THEN s ELSE Over(f[h - 1], h)]
    BY <1>2, Zenon DEF AreLevels
  <2> DEFINE g == [h \in 0..(m + 1) |-> IF h = m + 1 THEN Over(f[m], h) ELSE f[h]]
             e == [h \in 0..(m + 1) |-> IF h = 0 THEN s ELSE Over(g[h - 1], h)]
  <2>2. \A h \in 0..m : f[h] = IF h = 0 THEN s ELSE Over(f[h - 1], h)
    BY <2>1, Zenon
  <2> HIDE DEF Over
  <2>3. ASSUME NEW h \in 0..(m + 1) PROVE g[h] = e[h]
    <3>1. CASE h = m + 1
      <4>1. h - 1 = m /\ m \in 0..(m + 1) /\ m # m + 1 /\ h # 0
        BY <3>1
      <4> QED
        BY <3>1, <4>1
    <3>2. CASE h # m + 1 /\ h = 0
      <4>1. h \in 0..m
        BY <3>2
      <4> QED
        BY <2>2, <3>2, <4>1
    <3>3. CASE h # m + 1 /\ h # 0
      <4>1. h \in 0..m /\ h - 1 \in 0..(m + 1) /\ h - 1 # m + 1
        BY <3>3
      <4>2. g[h - 1] = f[h - 1] /\ g[h] = f[h] /\ f[h] = Over(f[h - 1], h)
        BY <2>2, <3>3, <4>1
      <4> QED
        BY <3>3, <4>1, <4>2
    <3> QED
      BY <3>1, <3>2, <3>3
  <2>4. g = e
    BY <2>3
  <2> HIDE DEF g
  <2>5. AreLevels(g, s, m + 1)
    BY <2>4, Zenon DEF AreLevels, Over
  <2> QED
    BY <2>5
<1>3. Nat \subseteq Good
  <2> HIDE DEF Good
  <2> QED
    BY <1>1, <1>2, SetInduction
<1> QED
  BY <1>3

\* And so do the states of btcd's loop.
LEMMA StatesExist ==
    ASSUME NEW s, NEW n \in Nat
    PROVE  \E f : AreStates(f, s, n)
<1> DEFINE start == [hashes |-> s, mutated |-> FALSE]
           G(m) == \E f : AreStates(f, s, m)
           Good == {m \in Nat : G(m)}
<1>1. 0 \in Good
  <2> DEFINE f == [k \in 0..0 |-> start]
             g == [k \in 0..0 |-> IF k = 0 THEN start ELSE LevelOf(f[k - 1], k)]
  <2>1. f = g
    OBVIOUS
  <2> HIDE DEF f
  <2>2. AreStates(f, s, 0)
    BY <2>1, Zenon DEF AreStates
  <2> QED
    BY <2>2
<1>2. ASSUME NEW m \in Nat, m \in Good PROVE m + 1 \in Good
  <2>1. PICK f : f = [k \in 0..m |-> IF k = 0 THEN start ELSE LevelOf(f[k - 1], k)]
    BY <1>2, Zenon DEF AreStates
  <2> DEFINE g == [k \in 0..(m + 1) |-> IF k = m + 1 THEN LevelOf(f[m], k) ELSE f[k]]
             e == [k \in 0..(m + 1) |-> IF k = 0 THEN start ELSE LevelOf(g[k - 1], k)]
  <2>2. \A k \in 0..m : f[k] = IF k = 0 THEN start ELSE LevelOf(f[k - 1], k)
    BY <2>1, Zenon
  <2> HIDE DEF start
  <2>3. ASSUME NEW k \in 0..(m + 1) PROVE g[k] = e[k]
    <3>1. CASE k = m + 1
      <4>1. k - 1 = m /\ m \in 0..(m + 1) /\ m # m + 1 /\ k # 0
        BY <3>1
      <4> QED
        BY <3>1, <4>1
    <3>2. CASE k # m + 1 /\ k = 0
      <4>1. k \in 0..m
        BY <3>2
      <4> QED
        BY <2>2, <3>2, <4>1
    <3>3. CASE k # m + 1 /\ k # 0
      <4>1. k \in 0..m /\ k - 1 \in 0..(m + 1) /\ k - 1 # m + 1
        BY <3>3
      <4>2. g[k - 1] = f[k - 1] /\ g[k] = f[k] /\ f[k] = LevelOf(f[k - 1], k)
        BY <2>2, <3>3, <4>1
      <4> QED
        BY <3>3, <4>1, <4>2
    <3> QED
      BY <3>1, <3>2, <3>3
  <2>4. g = e
    BY <2>3
  <2> HIDE DEF g
  <2>5. AreStates(g, s, m + 1)
    BY <2>4, Zenon DEF AreStates, start
  <2> QED
    BY <2>5
<1>3. Nat \subseteq Good
  <2> HIDE DEF Good
  <2> QED
    BY <1>1, <1>2, SetInduction
<1> QED
  BY <1>3

\* A list of n values is a sequence.
LEMMA ListIsSequence ==
    ASSUME NEW n \in Nat, NEW f, f = [i \in 1..n |-> f[i]]
    PROVE  f \in Seq({f[i] : i \in 1..n}) /\ Len(f) = n
<1>1. ASSUME NEW A, \A i \in 1..n : f[i] \in A PROVE f \in Seq(A) /\ Len(f) = n
  BY <1>1
<1>2. \A i \in 1..n : f[i] \in {f[j] : j \in 1..n}
  OBVIOUS
<1> QED
  BY <1>1, <1>2, Zenon

\* A list of n entries, and what its entries are.
IsListOf(n, f) == f = [i \in 1..n |-> f[i]]
EntriesOf(n, f) == {f[i] : i \in 1..n}

LEMMA ListsAreSequences == \A n \in Nat : \A f : IsListOf(n, f) => f \in Seq(EntriesOf(n, f))
<1> SUFFICES ASSUME NEW n \in Nat, NEW f, IsListOf(n, f) PROVE f \in Seq(EntriesOf(n, f))
  OBVIOUS
<1>1. f = [i \in 1..n |-> f[i]]
  BY DEF IsListOf
<1>2. f \in Seq({f[i] : i \in 1..n})
  BY <1>1, ListIsSequence
<1> QED
  BY <1>2 DEF EntriesOf

\* The facts about the levels of a list, up to its root.
LEMMA LevelFacts ==
    ASSUME NEW A, NEW s \in Seq(A), s # <<>>
    PROVE  /\ Len(s) \in Nat \ {0}
           /\ TreeLevels(s)[0] = s
           /\ \A h \in 0..Height(Len(s)) :
                  /\ TreeLevels(s)[h] =
                         [i \in 1..LevelWidths(Len(s))[h] |-> TreeLevels(s)[h][i]]
                  /\ Len(TreeLevels(s)[h]) = LevelWidths(Len(s))[h]
           /\ \A h \in 1..Height(Len(s)) : \A i \in 1..LevelWidths(Len(s))[h] :
                  TreeLevels(s)[h][i] = NodeOver(TreeLevels(s)[h - 1], i)
<1> DEFINE n == Len(s)
           H == Height(n)
           W == LevelWidths(n)
           L == TreeLevels(s)
<1>1. n \in Nat \ {0} /\ s = [i \in 1..n |-> s[i]]
  OBVIOUS
<1>2. H \in 0..n /\ \A h \in 0..H : W[h] \in Nat
  <2>1. H \in 0..n
    BY <1>1, HeightType
  <2>2. \A h \in 0..H : h \in 0..n
    BY <2>1
  <2> QED
    BY <1>1, <2>1, <2>2, WidthBounds
<1>3. AreLevels(L, s, H)
  <2>1. \E f : AreLevels(f, s, H)
    <3>1. H \in Nat
      BY <1>2
    <3> QED
      BY <3>1, LevelsExist
  <2> QED
    BY <2>1, Zenon DEF TreeLevels, AreLevels
<1>4. \A h \in 0..H : L[h] = IF h = 0 THEN s ELSE [i \in 1..W[h] |-> NodeOver(L[h - 1], i)]
  BY <1>3, Zenon DEF AreLevels
<1>5. L[0] = s /\ \A h \in 1..H : L[h] = [i \in 1..W[h] |-> NodeOver(L[h - 1], i)]
  <2>1. 0 \in 0..H /\ \A h \in 1..H : h \in 0..H /\ h # 0
    BY <1>2
  <2> QED
    BY <1>4, <2>1, Zenon
<1>6. W[0] = n
  BY <1>1, WidthSteps
<1> HIDE DEF L, W, H, n
<1>7. ASSUME NEW h \in 0..H PROVE L[h] = [i \in 1..W[h] |-> L[h][i]]
  <2>1. CASE h = 0
    BY <1>1, <1>5, <1>6, <2>1, Zenon
  <2>2. CASE h # 0
    <3>1. h \in 1..H
      BY <1>2, <2>2
    <3>2. L[h] = [i \in 1..W[h] |-> NodeOver(L[h - 1], i)]
      BY <1>5, <3>1
    <3> QED
      BY <3>2, Zenon
  <2> QED
    BY <2>1, <2>2
<1>8. \A h \in 0..H : Len(L[h]) = W[h]
  BY <1>2, <1>7, ListIsSequence
<1>9. \A h \in 1..H : \A i \in 1..W[h] : L[h][i] = NodeOver(L[h - 1], i)
  BY <1>5, Zenon
<1> QED
  BY <1>1, <1>5, <1>7, <1>8, <1>9 DEF L, W, H, n

\* A level of btcd's loop: doubling the last hash and hashing in pairs is pairing
\* an only child with itself, and the duplicates it looks for are equal children.
LEMMA LevelsAlike ==
    ASSUME NEW A, NEW s \in Seq(A), s # <<>>
    PROVE  /\ HashedInPairs(Doubled(s)) = [i \in 1..((Len(s) + 1) \div 2) |-> NodeOver(s, i)]
           /\ DuplicatesSeen(s) <=> \E i \in 1..(Len(s) \div 2) : s[2 * i - 1] = s[2 * i]
<1> DEFINE n == Len(s)
<1>1. n \in Nat \ {0} /\ Last(s) = s[n]
  BY DEF Last
<1>2. HashedInPairs(Doubled(s)) = [i \in 1..((n + 1) \div 2) |-> NodeOver(s, i)]
  <2>1. CASE IsOdd(n)
    <3> DEFINE d == Append(s, s[n])
    <3>1. Doubled(s) = d
      BY <1>1, <2>1 DEF Doubled
    <3>2. Len(d) = n + 1 /\ d[n + 1] = s[n] /\ \A i \in 1..n : d[i] = s[i]
      OBVIOUS
    <3>3. ASSUME NEW i \in 1..((n + 1) \div 2)
          PROVE  <<d[2 * i - 1], d[2 * i]>> = NodeOver(s, i)
      <4> HIDE DEF d, n
      <4>1. 2 * i - 1 \in 1..n /\ (2 * i \in 1..n \/ 2 * i = n + 1)
        BY <1>1, <2>1 DEF IsOdd
      <4>2. d[2 * i - 1] = s[2 * i - 1]
        BY <3>2, <4>1
      <4>3. CASE 2 * i <= n
        <5>1. 2 * i \in 1..n
          BY <4>1, <4>3
        <5> QED
          BY <3>2, <4>2, <4>3, <5>1 DEF NodeOver, n
      <4>4. CASE ~(2 * i <= n)
        <5>1. 2 * i = n + 1 /\ 2 * i - 1 = n
          BY <1>1, <4>1, <4>4
        <5> QED
          BY <3>2, <4>2, <4>4, <5>1 DEF NodeOver, n
      <4> QED
        BY <4>3, <4>4
    <3> HIDE DEF d
    <3> QED
      BY <3>1, <3>2, <3>3 DEF HashedInPairs
  <2>2. CASE ~IsOdd(n)
    <3>1. Doubled(s) = s
      BY <2>2 DEF Doubled
    <3>2. n \div 2 = (n + 1) \div 2 /\ \A i \in 1..(n \div 2) : 2 * i <= n
      <4> HIDE DEF n
      <4> QED
        BY <1>1, <2>2 DEF IsOdd
    <3>3. \A i \in 1..(n \div 2) : <<s[2 * i - 1], s[2 * i]>> = NodeOver(s, i)
      BY <3>2 DEF NodeOver
    <3>4. HashedInPairs(s) = [i \in 1..(n \div 2) |-> NodeOver(s, i)]
      BY <3>3 DEF HashedInPairs
    <3> QED
      BY <3>1, <3>2, <3>4
  <2> QED
    BY <2>1, <2>2
<1>3. ASSUME DuplicatesSeen(s) PROVE \E i \in 1..(n \div 2) : s[2 * i - 1] = s[2 * i]
  <2>1. PICK k \in Pairs(s) : s[k] = s[k + 1]
    BY <1>3 DEF DuplicatesSeen
  <2>2. k \in 1..(n - 1) /\ k % 2 = 1
    BY DEF Pairs, IsOdd
  <2> DEFINE i == (k + 1) \div 2
  <2>3. i \in 1..(n \div 2) /\ 2 * i - 1 = k /\ 2 * i = k + 1
    <3> HIDE DEF n
    <3> QED
      BY <1>1, <2>2
  <2> HIDE DEF i
  <2>4. s[2 * i - 1] = s[2 * i]
    BY <2>1, <2>3
  <2> QED
    BY <2>3, <2>4
<1>4. ASSUME NEW i \in 1..(n \div 2), s[2 * i - 1] = s[2 * i] PROVE DuplicatesSeen(s)
  <2>1. 2 * i - 1 \in 1..(n - 1) /\ (2 * i - 1) % 2 = 1 /\ (2 * i - 1) + 1 = 2 * i
    <3> HIDE DEF n
    <3> QED
      BY <1>1
  <2>2. 2 * i - 1 \in Pairs(s)
    BY <2>1 DEF Pairs, IsOdd
  <2> QED
    BY <1>4, <2>1, <2>2 DEF DuplicatesSeen
<1> QED
  BY <1>2, <1>3, <1>4

\* The loop of btcd computes the levels of the tree, and stays at the root.
LEMMA LoopIsTree ==
    ASSUME NEW A, NEW s \in Seq(A), s # <<>>
    PROVE  BTCDMerkleRootCompute(s) = LibraryMerkleRoot(s)
<1> DEFINE n == Len(s)
           H == Height(n)
           W == LevelWidths(n)
           L == TreeLevels(s)
<1> DEFINE B == CHOOSE f : AreStates(f, s, n)
<1>1. n \in Nat \ {0}
  OBVIOUS
<1>2. AreStates(B, s, n)
  <2>1. \E f : AreStates(f, s, n)
    BY <1>1, StatesExist
  <2> QED
    BY <2>1, Zenon
<1>3. BTCDMerkleRootCompute(s) = <<"root", B[n].hashes[1], Says(B[n].mutated)>>
  BY Zenon DEF BTCDMerkleRootCompute, AreStates
<1> HIDE DEF B
<1>4. \A k \in 0..n : B[k] = IF k = 0 THEN [hashes |-> s, mutated |-> FALSE]
                             ELSE LevelOf(B[k - 1], k)
  BY <1>2, Zenon DEF AreStates
<1>5. H \in 0..n /\ W[H] = 1 /\ (\A g \in 0..(H - 1) : W[g] > 1)
  BY <1>1, HeightType
<1>6. /\ L[0] = s
      /\ \A h \in 0..H : /\ L[h] = [i \in 1..W[h] |-> L[h][i]]
                         /\ Len(L[h]) = W[h]
      /\ \A h \in 1..H : \A i \in 1..W[h] : L[h][i] = NodeOver(L[h - 1], i)
  BY LevelFacts
<1>7. \A h \in 1..n : W[h] = (W[h - 1] + 1) \div 2
  BY <1>1, WidthSteps
<1>8. \A h \in 0..n : W[h] \in Nat \ {0}
  BY <1>1, WidthBounds
<1> DEFINE Flagged(h) == \E g \in 0..(h - 1) : \E i \in 1..(W[g] \div 2) :
                             L[g][2 * i - 1] = L[g][2 * i]
           Same(k) == /\ B[k].hashes = L[k]
                      /\ B[k].mutated <=> Flagged(k)
           Good == {k \in Nat : /\ k <= H => Same(k)
                                /\ k >= H /\ k <= n => B[k] = B[H]}
<1> HIDE DEF L, W, H, n
<1>9. Same(0)
  <2>1. B[0] = [hashes |-> s, mutated |-> FALSE]
    <3>1. 0 \in 0..n
      BY <1>1
    <3> QED
      BY <1>4, <3>1, Zenon
  <2>2. ~Flagged(0)
    OBVIOUS
  <2> QED
    BY <1>6, <2>1, <2>2
<1>10. ASSUME NEW k \in Nat, k + 1 <= H, Same(k) PROVE Same(k + 1)
  <2>1. /\ k \in 0..H /\ k \in 0..n /\ k + 1 \in 1..H /\ k + 1 \in 1..n /\ k + 1 \in 0..n
        /\ (k + 1) - 1 = k /\ k + 1 # 0 /\ k \in 0..(H - 1)
    BY <1>1, <1>5, <1>10
  <2>2. /\ W[k] \in Nat \ {0} /\ W[k] > 1 /\ Len(L[k]) = W[k]
        /\ L[k] \in Seq({L[k][i] : i \in 1..W[k]})
    <3>1. W[k] \in Nat \ {0} /\ W[k] > 1 /\ Len(L[k]) = W[k] /\ L[k] = [i \in 1..W[k] |-> L[k][i]]
      BY <1>5, <1>6, <1>8, <2>1
    <3>2. W[k] \in Nat /\ L[k] = [i \in 1..W[k] |-> L[k][i]]
      BY <3>1, Zenon
    <3>4. ASSUME NEW w \in Nat, NEW l, l = [i \in 1..w |-> l[i]]
          PROVE  l \in Seq({l[i] : i \in 1..w})
      BY <3>4, ListIsSequence, Zenon
    <3>3. L[k] \in Seq({L[k][i] : i \in 1..W[k]})
      BY <3>2, <3>4, Zenon
    <3> QED
      BY <3>1, <3>3
  <2>3. L[k] # <<>>
    BY <2>2
  <2>4. /\ HashedInPairs(Doubled(L[k])) = [i \in 1..((W[k] + 1) \div 2) |-> NodeOver(L[k], i)]
        /\ DuplicatesSeen(L[k]) <=> \E i \in 1..(W[k] \div 2) : L[k][2 * i - 1] = L[k][2 * i]
    BY <2>2, <2>3, LevelsAlike
  <2>5. B[k + 1] = LevelOf(B[k], k + 1)
    BY <1>4, <2>1, Zenon
  <2>6. B[k + 1] = [hashes |-> HashedInPairs(Doubled(L[k])),
                    mutated |-> B[k].mutated \/ DuplicatesSeen(L[k])]
    BY <1>10, <2>2, <2>5 DEF LevelOf
  <2>7. L[k + 1] = [i \in 1..W[k + 1] |-> NodeOver(L[k], i)]
    <3>1. L[k + 1] = [i \in 1..W[k + 1] |-> L[k + 1][i]]
      <4>1. k + 1 \in 0..H
        BY <1>1, <1>5, <2>1
      <4> QED
        BY <1>6, <4>1, Zenon
    <3>2. \A i \in 1..W[k + 1] : L[k + 1][i] = NodeOver(L[k], i)
      BY <1>6, <2>1
    <3>3. ASSUME NEW w, NEW l, l = [i \in 1..w |-> l[i]], \A i \in 1..w : l[i] = NodeOver(L[k], i)
          PROVE  l = [i \in 1..w |-> NodeOver(L[k], i)]
      BY <3>3
    <3> QED
      BY <3>1, <3>2, <3>3, Zenon
  <2>8. B[k + 1].hashes = L[k + 1]
    <3>1. W[k + 1] = (W[k] + 1) \div 2
      BY <1>7, <2>1
    <3> QED
      BY <2>4, <2>6, <2>7, <3>1
  <2>9. Flagged(k + 1) <=> Flagged(k) \/ DuplicatesSeen(L[k])
    <3>1. \A g \in 0..((k + 1) - 1) : g \in 0..(k - 1) \/ g = k
      OBVIOUS
    <3>2. 0..(k - 1) \subseteq 0..((k + 1) - 1) /\ k \in 0..((k + 1) - 1)
      OBVIOUS
    <3>3. Flagged(k + 1) => Flagged(k) \/ DuplicatesSeen(L[k])
      BY <2>4, <3>1, Zenon
    <3>4. Flagged(k) => Flagged(k + 1)
      BY <3>2, Zenon
    <3>5. DuplicatesSeen(L[k]) => Flagged(k + 1)
      BY <2>4, <3>2, Zenon
    <3> QED
      BY <3>3, <3>4, <3>5, Zenon
  <2>10. B[k + 1].mutated <=> B[k].mutated \/ DuplicatesSeen(L[k])
    <3>1. \A x, y : [hashes |-> x, mutated |-> y].mutated = y
      OBVIOUS
    <3>2. B[k + 1].mutated = (B[k].mutated \/ DuplicatesSeen(L[k]))
      BY <2>6, <3>1, Zenon
    <3> QED
      BY <3>2, Zenon
  <2> HIDE DEF Flagged
  <2> QED
    BY <1>10, <2>8, <2>9, <2>10, Zenon
<1>11. ASSUME NEW k \in Nat, k >= H, k + 1 <= n, B[k] = B[H], Same(H) PROVE B[k + 1] = B[H]
  <2>1. k + 1 \in 0..n /\ (k + 1) - 1 = k /\ k + 1 # 0
    BY <1>1, <1>11
  <2>2. B[k + 1] = LevelOf(B[k], k + 1)
    BY <1>4, <2>1, Zenon
  <2>3. Len(L[H]) = 1
    <3>1. H \in 0..H
      BY <1>1, <1>5
    <3> QED
      BY <1>5, <1>6, <3>1
  <2>4. Len(B[k].hashes) <= 1
    BY <1>11, <2>3
  <2> QED
    BY <1>11, <2>2, <2>4, Zenon DEF LevelOf
<1> HIDE DEF Same
<1>12. 0 \in Good
  BY <1>1, <1>5, <1>9
<1>13. ASSUME NEW k \in Nat, k \in Good PROVE k + 1 \in Good
  <2>0. H \in Nat /\ n \in Nat
    BY <1>1, <1>5
  <2>1. k + 1 <= H => Same(k + 1)
    BY <1>10, <1>13, <2>0
  <2>2. ASSUME k + 1 >= H, k + 1 <= n PROVE B[k + 1] = B[H]
    <3>1. CASE k + 1 = H
      BY <3>1
    <3>2. CASE k + 1 # H
      <4>1. k >= H /\ k <= n /\ B[k] = B[H]
        BY <1>13, <2>0, <2>2, <3>2
      <4>2. Same(H)
        <5>1. \A j \in Nat : j < H => j + 1 <= H
          BY <2>0
        <5> DEFINE Held == {j \in Nat : j <= H => Same(j)}
        <5>2. 0 \in Held
          BY <1>9
        <5>3. \A j \in Nat : j \in Held => j + 1 \in Held
          BY <1>10, <2>0
        <5>4. Nat \subseteq Held
          <6> HIDE DEF Held
          <6> QED
            BY <5>2, <5>3, SetInduction
        <5> QED
          BY <2>0, <5>4
      <4> QED
        BY <1>11, <2>2, <4>1, <4>2
    <3> QED
      BY <3>1, <3>2
  <2> QED
    BY <2>1, <2>2
<1>14. Nat \subseteq Good
  <2> HIDE DEF Good
  <2> QED
    BY <1>12, <1>13, SetInduction
<1>15. Same(H) /\ B[n] = B[H]
  BY <1>1, <1>5, <1>14
<1>16. B[n].hashes[1] = L[H][1] /\ (B[n].mutated <=> Flagged(H))
  BY <1>15 DEF Same
<1>17. TreeMutated(s) <=> Flagged(H)
  BY Zenon DEF TreeMutated, L, W, H, n
<1>18. LibraryMerkleRoot(s) = <<"root", L[H][1], Says(TreeMutated(s))>>
  BY Zenon DEF LibraryMerkleRoot, L, W, H, n
<1> HIDE DEF Flagged
<1>19. Says(B[n].mutated) = Says(TreeMutated(s))
  BY <1>16, <1>17, Zenon DEF Says
<1> QED
  BY <1>3, <1>16, <1>18, <1>19

\* What any module says of a list: the root of the tree and whether it is
\* flagged, or that it is refused because it is.
LEMMA MerkleAnswers ==
    ASSUME NEW A, NEW s \in Seq(A), s # <<>>, NEW m
    PROVE  /\ DetectedIn(merkle_root_compute(m, s)) <=> TreeMutated(s)
           /\ merkle_root_compute(m, s) # <<"REJECTED">> =>
                  merkle_root_compute(m, s)[2] = LibraryMerkleRoot(s)[2]
           /\ merkle_root_compute(m, s) # Nullopt
<1> DEFINE root == TreeLevels(s)[Height(Len(s))][1]
           r == LibraryMerkleRoot(s)
<1>1. r = <<"root", root, Says(TreeMutated(s))>>
  BY Zenon DEF LibraryMerkleRoot
<1> HIDE DEF r, root
<1>2. r[3] = Says(TreeMutated(s)) /\ r[1] = "root"
  BY <1>1
<1>3. <<"REJECTED">>[1] = "REJECTED" /\ Nullopt[1] = "nullopt"
  BY DEF Nullopt
<1>4. r # <<"REJECTED">> /\ r # Nullopt /\ <<"REJECTED">> # Nullopt
  BY <1>2, <1>3
<1>5. Says(TreeMutated(s)) = <<"true">> <=> TreeMutated(s)
  BY DEF Says
<1>6. DetectedIn(r) <=> TreeMutated(s)
  BY <1>2, <1>4, <1>5, Zenon DEF DetectedIn
<1>7. DetectedIn(<<"REJECTED">>)
  BY Zenon DEF DetectedIn
<1>8. \/ merkle_root_compute(m, s) = r
      \/ merkle_root_compute(m, s) = <<"REJECTED">> /\ TreeMutated(s)
  <2>1. BTCDMerkleRootCompute(s) = r
    BY LoopIsTree DEF r
  <2>2. RustMerkleRoot(s) = IF TreeMutated(s) THEN <<"REJECTED">> ELSE r
    BY Zenon DEF RustMerkleRoot, r
  <2> QED
    BY <2>1, <2>2, Zenon DEF merkle_root_compute, r
<1> QED
  BY <1>4, <1>6, <1>7, <1>8, Zenon DEF r

\* A hash says of which two it is made.
LEMMA PairParts == \A a, b, c, d : <<a, b>> = <<c, d>> => a = c /\ b = d
OBVIOUS

LEMMA LeafIsNoPair == \A l \in Leaves : \A a, b : l # <<a, b>>
BY DEF Leaves

\* Two lists whose roots are one have trees of one height: going down to the
\* first leaf of one, the other is there too.
LEMMA OneHeight ==
    ASSUME NEW s \in Seq(Leaves), s # <<>>, NEW t \in Seq(Leaves), t # <<>>,
           TreeLevels(s)[Height(Len(s))][1] = TreeLevels(t)[Height(Len(t))][1]
    PROVE  ~(Height(Len(s)) < Height(Len(t)))
<1> DEFINE G == Height(Len(s))
           H == Height(Len(t))
           V == LevelWidths(Len(s))
           W == LevelWidths(Len(t))
           K == TreeLevels(s)
           L == TreeLevels(t)
<1>1. /\ Len(s) \in Nat \ {0} /\ K[0] = s
      /\ \A h \in 1..G : \A i \in 1..V[h] : K[h][i] = NodeOver(K[h - 1], i)
  BY LevelFacts
<1>2. /\ Len(t) \in Nat \ {0} /\ L[0] = t
      /\ \A h \in 1..H : \A i \in 1..W[h] : L[h][i] = NodeOver(L[h - 1], i)
  BY LevelFacts
<1>3. /\ G \in 0..Len(s) /\ \A h \in 0..Len(s) : V[h] \in Nat \ {0}
      /\ H \in 0..Len(t) /\ \A h \in 0..Len(t) : W[h] \in Nat \ {0}
  BY <1>1, <1>2, HeightType, WidthBounds
<1>4. s[1] \in Leaves
  BY <1>1
<1>5. K[G][1] = L[H][1]
  OBVIOUS
<1> HIDE DEF G, H, V, W, K, L
<1> SUFFICES ASSUME G < H PROVE FALSE
  BY DEF G, H
<1> DEFINE P(k) == K[G - k][1] = L[H - k][1]
           Good == {k \in Nat : k <= G => P(k)}
<1>6. 0 \in Good
  BY <1>3, <1>5
<1>7. ASSUME NEW k \in Nat, k \in Good PROVE k + 1 \in Good
  <2> SUFFICES ASSUME k + 1 <= G PROVE P(k + 1)
    OBVIOUS
  <2>1. /\ G - k \in 1..G /\ H - k \in 1..H /\ G - k \in 0..Len(s) /\ H - k \in 0..Len(t)
        /\ (G - k) - 1 = G - (k + 1) /\ (H - k) - 1 = H - (k + 1) /\ k <= G
    BY <1>1, <1>2, <1>3
  <2>2. 1 \in 1..V[G - k] /\ 1 \in 1..W[H - k]
    <3>1. V[G - k] \in Nat \ {0} /\ W[H - k] \in Nat \ {0}
      BY <1>3, <2>1, Zenon
    <3>2. \A x \in Nat \ {0} : 1 \in 1..x
      OBVIOUS
    <3> QED
      BY <3>1, <3>2, Zenon
  <2>3. NodeOver(K[G - (k + 1)], 1) = NodeOver(L[H - (k + 1)], 1)
    <3>1. K[G - k][1] = NodeOver(K[(G - k) - 1], 1)
      BY <1>1, <2>1, <2>2
    <3>2. L[H - k][1] = NodeOver(L[(H - k) - 1], 1)
      BY <1>2, <2>1, <2>2
    <3> QED
      BY <1>7, <2>1, <3>1, <3>2
  <2>4. 2 * 1 - 1 = 1
    OBVIOUS
  <2> QED
    BY <2>3, <2>4, PairParts, Zenon DEF NodeOver
<1>8. Nat \subseteq Good
  <2> HIDE DEF Good
  <2> QED
    BY <1>6, <1>7, SetInduction
<1>9. s[1] = L[H - G][1]
  <2>1. G \in Nat /\ G - G = 0 /\ G <= G
    BY <1>1, <1>3
  <2> QED
    BY <1>1, <1>8, <2>1
<1>10. L[H - G][1] = NodeOver(L[H - G - 1], 1)
  <2>1. H - G \in 1..H /\ H - G \in 0..Len(t)
    BY <1>1, <1>2, <1>3
  <2>2. 1 \in 1..W[H - G]
    BY <1>3, <2>1
  <2> QED
    BY <1>2, <2>1, <2>2
<1> QED
  BY <1>4, <1>9, <1>10, LeafIsNoPair, Zenon DEF NodeOver

\* Two levels with no pair of equal children and with the same w parents.
SameParents(k, l, w) ==
    /\ Len(k) \in Nat \ {0} /\ Len(l) \in Nat \ {0}
    /\ w = (Len(k) + 1) \div 2 /\ w = (Len(l) + 1) \div 2
    /\ \A i \in 1..w : NodeOver(k, i) = NodeOver(l, i)
    /\ \A i \in 1..(Len(k) \div 2) : k[2 * i - 1] # k[2 * i]
    /\ \A i \in 1..(Len(l) \div 2) : l[2 * i - 1] # l[2 * i]

\* One level down: two unflagged levels whose parents are the same are the same.
LEMMA LevelBelow ==
    ASSUME NEW A, NEW k \in Seq(A), NEW B, NEW l \in Seq(B), NEW w \in Nat \ {0},
           Len(k) \in Nat \ {0}, Len(l) \in Nat \ {0},
           w = (Len(k) + 1) \div 2, w = (Len(l) + 1) \div 2,
           \A i \in 1..w : NodeOver(k, i) = NodeOver(l, i),
           \A i \in 1..(Len(k) \div 2) : k[2 * i - 1] # k[2 * i],
           \A i \in 1..(Len(l) \div 2) : l[2 * i - 1] # l[2 * i]
    PROVE  k = l
<1> DEFINE v == Len(k)
           u == Len(l)
<1>0. v \in Nat \ {0} /\ u \in Nat \ {0} /\ w = (v + 1) \div 2 /\ w = (u + 1) \div 2
  OBVIOUS
<1>1. \A i \in 1..w : /\ k[2 * i - 1] = l[2 * i - 1]
                      /\ (IF 2 * i <= v THEN k[2 * i] ELSE k[2 * i - 1])
                            = (IF 2 * i <= u THEN l[2 * i] ELSE l[2 * i - 1])
  BY PairParts, Zenon DEF NodeOver
<1>2. v = u
  <2>1. w \in 1..w
    OBVIOUS
  <2>2. ASSUME v < u PROVE FALSE
    <3>1. ~(2 * w <= v) /\ 2 * w <= u /\ w \in 1..(u \div 2)
      <4> HIDE DEF u, v
      <4> QED
        BY <1>0, <2>2
    <3>2. l[2 * w] = k[2 * w - 1] /\ k[2 * w - 1] = l[2 * w - 1]
      BY <1>1, <2>1, <3>1, Zenon
    <3> QED
      BY <3>1, <3>2
  <2>3. ASSUME u < v PROVE FALSE
    <3>1. ~(2 * w <= u) /\ 2 * w <= v /\ w \in 1..(v \div 2)
      <4> HIDE DEF u, v
      <4> QED
        BY <1>0, <2>3
    <3>2. k[2 * w] = l[2 * w - 1] /\ k[2 * w - 1] = l[2 * w - 1]
      BY <1>1, <2>1, <3>1, Zenon
    <3> QED
      BY <3>1, <3>2
  <2> QED
    <3> HIDE DEF u, v
    <3> QED
      BY <1>0, <2>2, <2>3
<1>3. ASSUME NEW j \in 1..v PROVE k[j] = l[j]
  <2> DEFINE i == (j + 1) \div 2
  <2>1. i \in 1..w /\ (j = 2 * i - 1 \/ (j = 2 * i /\ 2 * i <= v))
    <3> HIDE DEF u, v
    <3> QED
      BY <1>0
  <2> HIDE DEF i
  <2>2. CASE j = 2 * i - 1
    BY <1>1, <2>1, <2>2
  <2>3. CASE j = 2 * i /\ 2 * i <= v
    <3>1. 2 * i <= u
      BY <1>2, <2>3
    <3>2. k[2 * i] = l[2 * i]
      BY <1>1, <2>1, <2>3, <3>1, Zenon
    <3> QED
      BY <2>3, <3>2
  <2> QED
    BY <2>1, <2>2, <2>3
<1>4. k = [i \in 1..v |-> k[i]] /\ l = [i \in 1..u |-> l[i]]
  <2>1. \A C : \A x \in Seq(C) : x = [i \in 1..Len(x) |-> x[i]]
    OBVIOUS
  <2> QED
    BY <2>1, Zenon
<1> HIDE DEF v, u
<1>5. [i \in 1..v |-> k[i]] = [i \in 1..v |-> l[i]]
  BY <1>3
<1> QED
  BY <1>2, <1>4, <1>5, Zenon

\* An unflagged root names its list (CVE-2012-2459).
LEMMA RootNamesList ==
    ASSUME NEW s \in Seq(Leaves), s # <<>>, NEW t \in Seq(Leaves), t # <<>>,
           ~TreeMutated(s), ~TreeMutated(t),
           LibraryMerkleRoot(s)[2] = LibraryMerkleRoot(t)[2]
    PROVE  s = t
<1> DEFINE G == Height(Len(s))
           H == Height(Len(t))
           V == LevelWidths(Len(s))
           W == LevelWidths(Len(t))
           K == TreeLevels(s)
           L == TreeLevels(t)
<1>1. K[G][1] = L[H][1]
  <2>1. \A a, b, c : <<a, b, c>>[2] = b
    OBVIOUS
  <2> QED
    BY <2>1, Zenon DEF LibraryMerkleRoot
<1>2. Len(s) \in Nat \ {0} /\ Len(t) \in Nat \ {0}
  OBVIOUS
<1>3. /\ G \in 0..Len(s) /\ V[G] = 1
      /\ H \in 0..Len(t) /\ W[H] = 1
  BY <1>2, HeightType
<1>4. G = H
  <2>1. ~(G < H) /\ ~(H < G)
    BY <1>1, OneHeight
  <2> HIDE DEF G, H
  <2> QED
    BY <1>2, <1>3, <2>1
<1>5. /\ K[0] = s
      /\ \A h \in 0..G : K[h] = [i \in 1..V[h] |-> K[h][i]] /\ Len(K[h]) = V[h]
      /\ \A h \in 1..G : \A i \in 1..V[h] : K[h][i] = NodeOver(K[h - 1], i)
  BY LevelFacts
<1>6. /\ L[0] = t
      /\ \A h \in 0..H : L[h] = [i \in 1..W[h] |-> L[h][i]] /\ Len(L[h]) = W[h]
      /\ \A h \in 1..H : \A i \in 1..W[h] : L[h][i] = NodeOver(L[h - 1], i)
  BY LevelFacts
<1>7. /\ \A h \in 0..Len(s) : V[h] \in Nat \ {0}
      /\ \A h \in 1..Len(s) : V[h] = (V[h - 1] + 1) \div 2
      /\ \A h \in 0..Len(t) : W[h] \in Nat \ {0}
      /\ \A h \in 1..Len(t) : W[h] = (W[h - 1] + 1) \div 2
  BY <1>2, WidthBounds, WidthSteps
<1>8. /\ \A g \in 0..(G - 1) : \A i \in 1..(V[g] \div 2) : K[g][2 * i - 1] # K[g][2 * i]
      /\ \A g \in 0..(H - 1) : \A i \in 1..(W[g] \div 2) : L[g][2 * i - 1] # L[g][2 * i]
  BY Zenon DEF TreeMutated
<1> HIDE DEF G, H, V, W, K, L
<1> DEFINE P(j) == V[G - j] = W[G - j] /\ K[G - j] = L[G - j]
           Good == {j \in Nat : j <= G => P(j)}
<1>9. 0 \in Good
  <2>1. G - 0 = G /\ G \in 0..G /\ H \in 0..H
    BY <1>2, <1>3
  <2>2. K[G] = [i \in 1..1 |-> K[G][i]] /\ L[G] = [i \in 1..1 |-> L[G][i]]
    BY <1>3, <1>4, <1>5, <1>6, <2>1
  <2>3. \A i \in 1..1 : K[G][i] = L[G][i]
    BY <1>1, <1>4
  <2>4. K[G] = L[G]
    <3>1. [i \in 1..1 |-> K[G][i]] = [i \in 1..1 |-> L[G][i]]
      BY <2>3
    <3> QED
      BY <2>2, <3>1, Zenon
  <2> QED
    BY <1>3, <1>4, <2>1, <2>4
<1>10. ASSUME NEW j \in Nat, j \in Good PROVE j + 1 \in Good
  <2> SUFFICES ASSUME j + 1 <= G PROVE P(j + 1)
    OBVIOUS
  <2> DEFINE h == G - j
             g == G - (j + 1)
  <2>1. /\ h \in 1..G /\ h \in 1..H /\ h \in 1..Len(s) /\ h \in 1..Len(t) /\ h - 1 = g
        /\ g \in 0..G /\ g \in 0..H /\ g \in 0..Len(s) /\ g \in 0..Len(t)
        /\ g \in 0..(G - 1) /\ g \in 0..(H - 1) /\ h \in 0..Len(s) /\ j <= G
    BY <1>2, <1>3, <1>4
  <2>2. V[h] = W[h] /\ K[h] = L[h]
    BY <1>10, <2>1
  <2> HIDE DEF h, g
  <2>3. /\ V[g] \in Nat \ {0} /\ W[g] \in Nat \ {0} /\ V[h] \in Nat \ {0}
        /\ V[h] = (V[g] + 1) \div 2 /\ V[h] = (W[g] + 1) \div 2
    BY <1>7, <2>1, <2>2
  <2>4. /\ K[g] = [i \in 1..V[g] |-> K[g][i]] /\ L[g] = [i \in 1..W[g] |-> L[g][i]]
        /\ Len(K[g]) = V[g] /\ Len(L[g]) = W[g]
    BY <1>5, <1>6, <2>1
  <2>5. /\ K[g] \in Seq(EntriesOf(V[g], K[g]))
        /\ L[g] \in Seq(EntriesOf(W[g], L[g]))
    <3>1. V[g] \in Nat /\ W[g] \in Nat
      BY <2>3
    <3>2. IsListOf(V[g], K[g]) /\ IsListOf(W[g], L[g])
      BY <2>4, Zenon DEF IsListOf
    <3> QED
      BY <3>1, <3>2, ListsAreSequences, Zenon
  <2>6. \A i \in 1..V[h] : NodeOver(K[g], i) = NodeOver(L[g], i)
    <3>1. \A i \in 1..V[h] : K[h][i] = NodeOver(K[g], i)
      BY <1>5, <2>1
    <3>2. \A i \in 1..V[h] : L[h][i] = NodeOver(L[g], i)
      BY <1>6, <2>1, <2>2
    <3> QED
      BY <2>2, <3>1, <3>2
  <2>7. /\ \A i \in 1..(V[g] \div 2) : K[g][2 * i - 1] # K[g][2 * i]
        /\ \A i \in 1..(W[g] \div 2) : L[g][2 * i - 1] # L[g][2 * i]
    BY <1>8, <2>1, Zenon
  <2>8. K[g] = L[g]
    <3> DEFINE k == K[g]
               l == L[g]
               w == V[h]
    <3>1. /\ k \in Seq(EntriesOf(V[g], k)) /\ l \in Seq(EntriesOf(W[g], l))
          /\ Len(k) \in Nat \ {0} /\ Len(l) \in Nat \ {0} /\ w \in Nat \ {0}
          /\ w = (Len(k) + 1) \div 2 /\ w = (Len(l) + 1) \div 2
      BY <2>3, <2>4, <2>5, Zenon
    <3>2. /\ \A i \in 1..w : NodeOver(k, i) = NodeOver(l, i)
          /\ \A i \in 1..(Len(k) \div 2) : k[2 * i - 1] # k[2 * i]
          /\ \A i \in 1..(Len(l) \div 2) : l[2 * i - 1] # l[2 * i]
      BY <2>4, <2>6, <2>7, Zenon
    <3> HIDE DEF k, l, w
    <3>3. \A A, B : \A x \in Seq(A) : \A y \in Seq(B) : SameParents(x, y, w) => x = y
      BY <3>1, LevelBelow, Zenon DEF SameParents
    <3>4. SameParents(k, l, w)
      BY <3>1, <3>2, Zenon DEF SameParents
    <3>5. k = l
      BY <3>1, <3>3, <3>4, Zenon
    <3> QED
      BY <3>5, Zenon DEF k, l
  <2>9. V[g] = W[g]
    BY <2>4, <2>8
  <2> QED
    BY <2>8, <2>9 DEF g
<1>11. Nat \subseteq Good
  <2> HIDE DEF Good
  <2> QED
    BY <1>9, <1>10, SetInduction
<1>12. K[0] = L[0]
  <2>1. G \in Nat /\ G - G = 0 /\ G <= G
    BY <1>2, <1>3
  <2> QED
    BY <1>11, <2>1
<1> QED
  BY <1>5, <1>6, <1>12

(***************************************************************************)
(* Consensus targets: the modules that answer are not told apart           *)
(***************************************************************************)

\* Both answer, and alike.
Alike(a, b) == Nullopt \in {a, b} \/ a = b

LEMMA TransactionsAlike ==
    ASSUME NEW tx, tx.values \in Seq(Words), NEW m, NEW o
    PROVE  transaction_eval(m, tx) = transaction_eval(o, tx)
<1>1. CheckTransaction(tx) <=>
               /\ LibbitcoinCheck(tx) /\ Distinct(tx.points)
               /\ TotalOut(tx.values)[Len(tx.values)] # -1
  BY TransactionsJudgedAlike
<1> QED
  BY <1>1, Zenon
     DEF transaction_eval, BitcoinTransactionEval, BtcdTransactionEval, KernelTransactionEval,
         LibbitcoinTransactionEval

\* Rust and Python write the report themselves, and take the selectors apart as
\* the C++ classes do.
LEMMA ReportsAlike ==
    ASSUME NEW buffer, NEW m, NEW o
    PROVE  kernel_block_check(m, buffer) = kernel_block_check(o, buffer)
<1> DEFINE raw == RawBlock(buffer)
           chain == decode_chain_type(Selector(buffer, 1))
           flags == decode_block_check_flags(Selector(buffer, 2))
<1>1. libbitcoinkernel_block_check(buffer) =
          CheckReport(chain, Selector(buffer, 2),
                      IF KernelParses(raw) THEN Verdict(raw, chain, flags) ELSE "err=exception")
  BY Zenon DEF libbitcoinkernel_block_check
<1>2. raw = IF Len(buffer) > 2 THEN SubSeq(buffer, 3, Len(buffer)) ELSE <<>>
  BY Zenon DEF RawBlock
<1>3. chain = chain_types[(Selector(buffer, 1) % 5) + 1]
  <2>1. Len(chain_types) = 5
    BY DEF chain_types
  <2> QED
    BY <2>1, Zenon DEF decode_chain_type
<1>4. rustbitcoinkernel_block_check(buffer) = libbitcoinkernel_block_check(buffer)
  BY <1>1, <1>2, Zenon DEF rustbitcoinkernel_block_check
<1>5. block_check(buffer) = libbitcoinkernel_block_check(buffer)
  BY <1>1, <1>2, <1>3, Zenon DEF block_check
<1> QED
  BY <1>4, <1>5, Zenon DEF kernel_block_check, variant_block_check

\* Some drop what others refuse; of the rest all say the same.
LEMMA BlocksAlike ==
    ASSUME NEW b, NEW m, NEW o
    PROVE  Alike(deserialize_block(m, b), deserialize_block(o, b))
BY DEF Alike, deserialize_block, BitcoinDeserializeBlock, LibbitcoinDeserializeBlock,
       OtherDeserializeBlock, Nullopt, Refused

LEMMA ScriptsAlike ==
    ASSUME NEW s, NEW m, NEW o
    PROVE  /\ script_parse(m, s) = script_parse(o, s)
           /\ Alike(script_eval(m, s), script_eval(o, s))
           /\ Alike(verify_script(m, s), verify_script(o, s))
<1>1. script_parse(m, s) = script_parse(o, s)
  BY DEF script_parse, LibbitcoinScriptParse, BitcoinScriptParse, Unspendable
<1>2. CASE s.starts = "empty"
  <2>1. script_eval(m, s) \in {Nullopt, Says(FALSE)} /\ script_eval(o, s) \in {Nullopt, Says(FALSE)}
    BY <1>2 DEF script_eval, BitcoinScriptEval, LibbitcoinScriptEval, GocoinScriptEval,
                NBitcoinScriptEval, Says
  <2>2. verify_script(m, s) \in {Nullopt, Says(FALSE)} /\ verify_script(o, s) \in {Nullopt, Says(FALSE)}
    BY <1>2 DEF verify_script, BitcoinVerifyScript, LibbitcoinVerifyScript, Says
  <2> QED
    BY <1>1, <2>1, <2>2 DEF Alike
<1>3. CASE s.starts # "empty"
  <2>1. \A n : script_eval(n, s) = Says(Runs(s))
    BY <1>3 DEF script_eval, BitcoinScriptEval, LibbitcoinScriptEval, GocoinScriptEval,
                NBitcoinScriptEval, Says, Runs, LeftByOutputScript
  <2>2. \A n : verify_script(n, s) = Says(Verifies(s))
    BY <1>3 DEF verify_script, BitcoinVerifyScript, LibbitcoinVerifyScript, Says, Verifies, Runs
  <2> QED
    BY <1>1, <2>1, <2>2 DEF Alike
<1> QED
  BY <1>2, <1>3

LEMMA CompactBlocksAlike ==
    ASSUME NEW c, NEW m, NEW o
    PROVE  Alike(cmpctblocks_parse(m, c), cmpctblocks_parse(o, c))
BY DEF Alike, cmpctblocks_parse, BitcoinCmpctblocksParse, RustCmpctblocksParse, Nullopt

LEMMA SeedsAlike ==
    ASSUME NEW in, in.bytes \in Nat, NEW m, NEW o
    PROVE  Alike(bip32_master_keygen(m, in), bip32_master_keygen(o, in))
BY DEF Alike, bip32_master_keygen, Nullopt, InvalidKey, SeedFits

LEMMA ExtendedKeysAlike ==
    ASSUME NEW k, NEW m, NEW o
    PROVE  bip32_deserialize_extended_key(m, k) = bip32_deserialize_extended_key(o, k)
BY DEF bip32_deserialize_extended_key, LibbitcoinExtendedKey, BitcoinExtendedKey, LineageHolds

\* A plaintext that is all padding, the empty one, is what Core's module tells
\* from a failure.
LEMMA CiphersAlike ==
    ASSUME NEW in, in.plain \in Seq(Nat) \ {<<>>}, NEW m, NEW o
    PROVE  aes256_cbc(m, in) = aes256_cbc(o, in)
<1> DEFINE p == in.plain
           l == Len(p)
<1>1. p \in Seq(Nat) /\ l \in Nat \ {0} /\ BlockSize \in Nat \ {0} /\ Last(p) = p[l]
  BY ConsensusAssumption DEF Last
<1>2. CoreEncrypt(in) = <<>> <=> ~in.pad /\ ~WholeBlocks(in)
  BY DEF CoreEncrypt
<1>3. ASSUME WholeBlocks(in), in.pad, PaddingHolds(p)
      PROVE  /\ Unpadded(p) = <<>> <=> FullPadding(in)
             /\ Unpadded(p) \in Seq(Nat)
  <2>1. /\ p[l] \in 1..BlockSize
        /\ \A i \in (l - p[l] + 1)..l : p[i] = p[l]
    BY <1>1, <1>3 DEF PaddingHolds
  <2>2. l % BlockSize = 0
    BY <1>3 DEF WholeBlocks
  <2>3. BlockSize <= l
    <3>1. ASSUME NEW a \in Nat \ {0}, NEW b \in Nat \ {0}, a % b = 0 PROVE b <= a
      <4>1. a < b => a % b = a
        OBVIOUS
      <4> QED
        BY <3>1, <4>1
    <3> QED
      BY <1>1, <2>2, <3>1, Zenon
  <2>4. Unpadded(p) = SubSeq(p, 1, l - p[l]) /\ l - p[l] \in 0..l
    BY <1>1, <2>1, <2>3 DEF Unpadded
  <2>5. Unpadded(p) \in Seq(Nat) /\ Len(Unpadded(p)) = l - p[l]
    <3>1. ASSUME NEW s \in Seq(Nat), NEW n \in 0..Len(s)
          PROVE  SubSeq(s, 1, n) \in Seq(Nat) /\ Len(SubSeq(s, 1, n)) = n
      OBVIOUS
    <3> QED
      BY <1>1, <2>4, <3>1, Zenon
  <2>6. CoreDecrypt(in, FALSE) = p
    BY <1>3 DEF CoreDecrypt
  <2>7. FullPadding(in) <=> l = BlockSize /\ \A i \in 1..BlockSize : p[i] = BlockSize
    BY <1>3, <2>6 DEF FullPadding
  <2>8. Unpadded(p) = <<>> <=> l = p[l]
    BY <1>1, <2>1, <2>5
  <2> HIDE DEF p, l
  <2>9. l = p[l] => l = BlockSize /\ \A i \in 1..BlockSize : p[i] = BlockSize
    BY <1>1, <2>1, <2>3
  <2>10. (l = BlockSize /\ \A i \in 1..BlockSize : p[i] = BlockSize) => l = p[l]
    BY <1>1
  <2> QED
    BY <2>5, <2>7, <2>8, <2>9, <2>10
<1>4. FullPadding(in) => WholeBlocks(in) /\ PaddingHolds(p)
  <2> SUFFICES ASSUME FullPadding(in) PROVE WholeBlocks(in) /\ PaddingHolds(p)
    OBVIOUS
  <2>1. l = BlockSize /\ \A i \in 1..BlockSize : CoreDecrypt(in, FALSE)[i] = BlockSize
    BY DEF FullPadding
  <2>2. BlockSize % BlockSize = 0
    BY <1>1
  <2>3. WholeBlocks(in)
    BY <2>1, <2>2 DEF WholeBlocks
  <2>4. \A i \in 1..l : p[i] = BlockSize
    BY <2>1, <2>3 DEF CoreDecrypt
  <2>5. p[l] = BlockSize /\ Last(p) = BlockSize
    <3> HIDE DEF p, l
    <3>1. l \in 1..l
      BY <1>1
    <3> QED
      BY <1>1, <2>1, <2>4, <3>1
  <2>6. \A i \in (l - BlockSize + 1)..l : p[i] = BlockSize
    <3> HIDE DEF p, l
    <3> QED
      BY <1>1, <2>1, <2>4
  <2>7. BlockSize \in 1..BlockSize
    BY <1>1
  <2> QED
    BY <2>3, <2>5, <2>6, <2>7, Zenon DEF PaddingHolds
<1>5. RustAes256Cbc(in) = BitcoinAes256Cbc(in)
  <2> DEFINE decrypted == IF CoreDecrypt(in, in.pad) # <<>> THEN Hex(CoreDecrypt(in, in.pad))
                          ELSE IF FullPadding(in) THEN Hex(<<>>) ELSE Err
             unpadded == IF ~WholeBlocks(in) THEN Err
                         ELSE IF ~in.pad THEN Hex(in.plain)
                         ELSE IF PaddingHolds(in.plain) THEN Hex(Unpadded(in.plain)) ELSE Err
  <2>1. decrypted = unpadded
    <3>1. CASE ~WholeBlocks(in)
      <4>1. CoreDecrypt(in, in.pad) = <<>> /\ ~FullPadding(in)
        BY <1>4, <3>1, Zenon DEF CoreDecrypt
      <4> QED
        BY <3>1, <4>1, Zenon
    <3>2. CASE WholeBlocks(in) /\ ~in.pad
      <4>1. CoreDecrypt(in, in.pad) = in.plain /\ in.plain # <<>>
        BY <3>2, Zenon DEF CoreDecrypt
      <4> QED
        BY <3>2, <4>1, Zenon
    <3>3. CASE WholeBlocks(in) /\ in.pad /\ PaddingHolds(in.plain)
      <4>1. CoreDecrypt(in, in.pad) = Unpadded(in.plain)
        BY <3>3, Zenon DEF CoreDecrypt
      <4>2. Unpadded(in.plain) = <<>> <=> FullPadding(in)
        BY <1>3, <3>3
      <4> QED
        BY <3>3, <4>1, <4>2, Zenon
    <3>4. CASE WholeBlocks(in) /\ in.pad /\ ~PaddingHolds(in.plain)
      <4>1. CoreDecrypt(in, in.pad) = <<>> /\ ~FullPadding(in)
        BY <1>4, <3>4, Zenon DEF CoreDecrypt
      <4> QED
        BY <3>4, <4>1, Zenon
    <3> QED
      BY <3>1, <3>2, <3>3, <3>4, Zenon
  <2>2. (IF CoreEncrypt(in) = <<>> THEN Err ELSE Hex(CoreEncrypt(in)))
           = IF ~in.pad /\ ~WholeBlocks(in) THEN Err ELSE Hex(<<"cipher", in.plain>>)
    BY <1>2, Zenon DEF CoreEncrypt
  <2> QED
    BY <2>1, <2>2, Zenon DEF RustAes256Cbc, BitcoinAes256Cbc
<1> QED
  BY <1>5, Zenon DEF aes256_cbc

\* What is left over behind the whole groups.
LEMMA RestLength ==
    ASSUME NEW S, NEW b \in Seq(S), NEW t \in {5, 8}
    PROVE  Len(SubSeq(b, (Len(b) \div t) * t + 1, Len(b))) = Len(b) % t
<1>1. \A n \in Nat : /\ n \div 5 \in Nat /\ n % 5 \in Nat /\ n % 5 < 5
                     /\ n = 5 * (n \div 5) + (n % 5)
  OBVIOUS
<1>2. \A n \in Nat : /\ n \div 8 \in Nat /\ n % 8 \in Nat /\ n % 8 < 8
                     /\ n = 8 * (n \div 8) + (n % 8)
  OBVIOUS
<1>3. Len(b) \in Nat
  OBVIOUS
<1>4. CASE t = 5
  BY <1>1, <1>3, <1>4
<1>5. CASE t = 8
  BY <1>2, <1>3, <1>5
<1> QED
  BY <1>4, <1>5

\* Core counts the bits left over against the group it reads, btcd against four:
\* between five and eight bits that is the same.
LEMMA GroupsAlike ==
    ASSUME NEW in, in.groups \in Seq(Nat),
           <<in.from_bits, in.to_bits>> \in {<<5, 8>>, <<8, 5>>}, NEW m, NEW o
    PROVE  bech32_convert_bits(m, in) = bech32_convert_bits(o, in)
<1> DEFINE bits == AllBits(in.groups, in.from_bits)
           rest == RestOf(bits, in.to_bits)
<1>1. Len(in.groups) \in Nat
  OBVIOUS
<1>2. \/ in.from_bits = 5 /\ in.to_bits = 8
      \/ in.from_bits = 8 /\ in.to_bits = 5
  OBVIOUS
<1>3. PICK S : bits \in Seq(S)
  <2> DEFINE g == [i \in 1..Len(in.groups) |-> BitsOf(in.groups[i], in.from_bits)]
             T == UNION {{g[i][j] : j \in 1..in.from_bits} : i \in 1..Len(in.groups)}
  <2>1. ASSUME NEW i \in 1..Len(in.groups) PROVE g[i] \in Seq(T)
    <3>1. \A j \in 1..in.from_bits : g[i][j] \in T
      <4> HIDE DEF g
      <4> SUFFICES ASSUME NEW j \in 1..in.from_bits PROVE g[i][j] \in T
        OBVIOUS
      <4>1. g[i][j] \in {g[i][k] : k \in 1..in.from_bits}
        OBVIOUS
      <4> QED
        BY <2>1, <4>1
    <3>2. g[i] = [j \in 1..in.from_bits |-> g[i][j]]
      BY <2>1 DEF BitsOf
    <3>3. in.from_bits \in Nat
      BY <1>2
    <3>4. ASSUME NEW A, NEW n \in Nat, NEW f, \A j \in 1..n : f[j] \in A,
                 f = [j \in 1..n |-> f[j]]
          PROVE  f \in Seq(A)
      BY <3>4
    <3> HIDE DEF g, T
    <3> QED
      BY <3>1, <3>2, <3>3, <3>4, Zenon
  <2>2. g \in Seq(Seq(T))
    <3>1. g = [i \in 1..Len(in.groups) |-> g[i]]
      BY Zenon
    <3>2. ASSUME NEW A, NEW n \in Nat, NEW f, \A j \in 1..n : f[j] \in A,
                 f = [j \in 1..n |-> f[j]]
          PROVE  f \in Seq(A)
      BY <3>2
    <3> HIDE DEF g, T
    <3> QED
      BY <1>1, <2>1, <3>1, <3>2, Zenon
  <2>3. FlattenSeq(g) \in Seq(T)
    <3> HIDE DEF g, T
    <3> QED
      BY <2>2, FlattenType
  <2> QED
    BY <2>3, Zenon DEF AllBits, bits
<1> HIDE DEF bits
<1>4. Len(rest) = Len(bits) % in.to_bits
  <2>1. rest = SubSeq(bits, (Len(bits) \div in.to_bits) * in.to_bits + 1, Len(bits))
    BY DEF RestOf
  <2>2. in.to_bits \in {5, 8}
    BY <1>2
  <2> QED
    BY <1>3, <2>1, <2>2, RestLength, Zenon
<1>5. Len(rest) \in Nat /\ Len(rest) < in.to_bits
  BY <1>2, <1>3, <1>4
<1>6. Len(rest) >= in.from_bits <=> Len(rest) > 4
  BY <1>2, <1>5
<1>7. BtcdConvertBits(in) = ConvertBits(in)
  BY <1>6, Zenon DEF BtcdConvertBits, ConvertBits, bits
<1> QED
  BY <1>7, Zenon DEF bech32_convert_bits

\* What two modules say of one input, as the driver compares it: for a target
\* other than these three, one of them is silent or they say the same.
LEMMA PlainlyAlike ==
    ASSUME NEW in, ConsensusDraws(in), NEW m, NEW o,
           in.target \notin {"merkle_root_compute", "bech32_segwit_roundtrip"}
    PROVE  Alike(Said(m, in), Said(o, in))
<1>1. \A a : Alike(a, a)
  BY DEF Alike
<1>2. CASE in.target = "transaction_eval"
  <2>1. in.values \in Seq(Words)
    BY <1>2 DEF ConsensusDraws, Words
  <2>2. transaction_eval(m, in) = transaction_eval(o, in)
    BY <2>1, TransactionsAlike
  <2>3. \A n : Said(n, in) = transaction_eval(n, in)
    BY <1>2 DEF Said
  <2> QED
    BY <1>1, <2>2, <2>3
<1>3. CASE in.target = "kernel_block_check"
  <2>1. kernel_block_check(m, in.buffer) = kernel_block_check(o, in.buffer)
    BY ReportsAlike
  <2>2. \A n : Said(n, in) = kernel_block_check(n, in.buffer)
    BY <1>3 DEF Said
  <2> QED
    BY <1>1, <2>1, <2>2
<1>4. CASE in.target \in {"kernel_block", "kernel_transaction"}
  <2>1. \A n : Said(n, in) = kernel_parse(in.target, in.buffer)
    BY <1>4 DEF Said
  <2> QED
    BY <1>1, <2>1
<1>5. CASE in.target = "deserialize_block"
  <2>1. \A n : Said(n, in) = deserialize_block(n, in)
    BY <1>5 DEF Said
  <2> QED
    BY <2>1, BlocksAlike
<1>6. CASE in.target = "script_parse"
  <2>1. \A n : Said(n, in) = script_parse(n, in)
    BY <1>6 DEF Said
  <2> QED
    BY <1>1, <2>1, ScriptsAlike
<1>7. CASE in.target = "script_eval"
  <2>1. \A n : Said(n, in) = script_eval(n, in)
    BY <1>7 DEF Said
  <2> QED
    BY <2>1, ScriptsAlike
<1>8. CASE in.target = "verify_script"
  <2>1. \A n : Said(n, in) = verify_script(n, in)
    BY <1>8 DEF Said
  <2> QED
    BY <2>1, ScriptsAlike
<1>9. CASE in.target = "cmpctblocks_parse"
  <2>1. \A n : Said(n, in) = cmpctblocks_parse(n, in)
    BY <1>9 DEF Said
  <2> QED
    BY <2>1, CompactBlocksAlike
<1>10. CASE in.target = "aes256_cbc"
  <2>1. \A n : Said(n, in) = aes256_cbc(n, in)
    BY <1>10 DEF Said
  <2>2. in.plain \in Seq(Nat) \ {<<>>}
    BY <1>10 DEF ConsensusDraws
  <2> QED
    BY <1>1, <2>1, <2>2, CiphersAlike
<1>11. CASE in.target = "bech32_convert_bits"
  <2>1. \A n : Said(n, in) = bech32_convert_bits(n, in)
    BY <1>11 DEF Said
  <2>2. in.groups \in Seq(Nat) /\ <<in.from_bits, in.to_bits>> \in {<<5, 8>>, <<8, 5>>}
    BY <1>11 DEF ConsensusDraws
  <2>3. bech32_convert_bits(m, in) = bech32_convert_bits(o, in)
    BY <2>2, GroupsAlike
  <2> QED
    BY <1>1, <2>1, <2>3
<1>12. CASE in.target = "bip32_master_keygen"
  <2>1. \A n : Said(n, in) = bip32_master_keygen(n, in)
    BY <1>12 DEF Said
  <2>2. in.bytes \in Nat
    BY <1>12 DEF ConsensusDraws
  <2> QED
    BY <2>1, <2>2, SeedsAlike
<1>13. CASE /\ in.target \notin {"transaction_eval", "kernel_block_check", "kernel_block"}
            /\ in.target \notin {"kernel_transaction", "deserialize_block", "script_parse"}
            /\ in.target \notin {"script_eval", "verify_script", "cmpctblocks_parse"}
            /\ in.target \notin {"aes256_cbc", "bech32_convert_bits", "bip32_master_keygen"}
  <2>1. \A n : Said(n, in) = bip32_deserialize_extended_key(n, in)
    BY <1>13 DEF Said
  <2> QED
    BY <1>1, <2>1, ExtendedKeysAlike
<1> QED
  BY <1>2, <1>3, <1>4, <1>5, <1>6, <1>7, <1>8, <1>9, <1>10, <1>11, <1>12, <1>13

\* ... and for all of them, what the driver compares of two answers is the same.
LEMMA AnswersAlike ==
    ASSUME ConsensusDraws(cinput), NEW m, NEW o,
           NEW a \in AnswersOf(m, cinput), NEW b \in AnswersOf(o, cinput)
    PROVE  Nullopt \in {a, b} \/ SameAnswer(a, b)
<1>1. CASE cinput.target = "merkle_root_compute"
  <2> DEFINE s == cinput.leaves
  <2>1. s \in Seq(Leaves) /\ s # <<>>
    BY <1>1 DEF ConsensusDraws
  <2>2. a = merkle_root_compute(m, s) /\ b = merkle_root_compute(o, s)
    BY <1>1 DEF AnswersOf, Said
  <2>3. /\ DetectedIn(a) <=> TreeMutated(s)
        /\ DetectedIn(b) <=> TreeMutated(s)
        /\ a # <<"REJECTED">> => a[2] = LibraryMerkleRoot(s)[2]
        /\ b # <<"REJECTED">> => b[2] = LibraryMerkleRoot(s)[2]
    <3> HIDE DEF s
    <3> QED
      BY <2>1, <2>2, MerkleAnswers
  <2>4. DetectedIn(a) = DetectedIn(b)
    BY <2>3, Zenon DEF DetectedIn
  <2>5. SameAnswer(a, b) =
            /\ DetectedIn(a) = DetectedIn(b)
            /\ <<"REJECTED">> \notin {a, b} => a[2] = b[2]
    BY <1>1 DEF SameAnswer
  <2> QED
    BY <2>3, <2>4, <2>5, Zenon
<1>2. CASE cinput.target = "bech32_segwit_roundtrip"
  <2>1. ComparesAddress(cinput) => a = Roundtrip(cinput) /\ b = Roundtrip(cinput)
    BY <1>2, FittingIsRead DEF AnswersOf
  <2> QED
    BY <1>2, <2>1 DEF SameAnswer
<1>3. CASE cinput.target \notin {"merkle_root_compute", "bech32_segwit_roundtrip"}
  <2>1. a = Said(m, cinput) /\ b = Said(o, cinput)
    BY <1>3 DEF AnswersOf
  <2>2. Nullopt \in {a, b} \/ a = b
    BY <1>3, <2>1, PlainlyAlike DEF Alike
  <2>3. a = b => SameAnswer(a, b)
    BY <1>3, Zenon DEF SameAnswer
  <2> QED
    BY <2>2, <2>3
<1> QED
  BY <1>1, <1>2, <1>3

(***************************************************************************)
(* The inductive invariants                                                *)
(***************************************************************************)

\* What stands in answers is what the modules say of the input under way.
CurveInv ==
    /\ answers = [m \in DOMAIN answers |-> answers[m]]
    /\ DOMAIN answers # {} => input \in CurveInputs
    /\ DOMAIN answers \subseteq ToSet(Modules(input.target))
    /\ \A m \in DOMAIN answers :
           \/ answers[m] = Unasked
           \/ answers[m] = Answer(m, input) /\ ~Skipped(m, input)

LEMMA CurveInvInit == CurveInit => CurveInv
BY DEF CurveInit, CurveInv, NobodyAsked

LEMMA CurveInvStep == CurveInv /\ [CurveNext]_curveVars => CurveInv'
<1> SUFFICES ASSUME CurveInv, [CurveNext]_curveVars PROVE CurveInv'
  OBVIOUS
<1>1. CASE Draw
  <2>1. /\ input' \in CurveInputs
        /\ answers' = [m \in ToSet(Modules(input'.target)) |-> Unasked]
    BY <1>1 DEF Draw
  <2> QED
    BY <2>1 DEF CurveInv
<1>2. CASE PassOver \/ UNCHANGED curveVars
  BY <1>2 DEF CurveInv, PassOver, curveVars
<1>3. CASE Ask
  <2>1. /\ UNCHANGED input /\ ~Skipped(Head(asking), input)
        /\ answers' = [answers EXCEPT ![Head(asking)] = Answer(Head(asking), input)]
    BY <1>3 DEF Ask
  <2>2. /\ answers' = [m \in DOMAIN answers |-> answers'[m]]
        /\ DOMAIN answers' = DOMAIN answers
        /\ \A m \in DOMAIN answers :
               answers'[m] = IF m = Head(asking) THEN Answer(m, input) ELSE answers[m]
    BY <2>1 DEF CurveInv
  <2> QED
    BY <2>1, <2>2 DEF CurveInv
<1>4. CASE Return
  BY <1>4 DEF CurveInv, Return, NobodyAsked
<1> QED
  BY <1>1, <1>2, <1>3, <1>4 DEF CurveNext

LEMMA CurveInvHolds == CurveSpec => []CurveInv
BY CurveInvInit, CurveInvStep, PTL DEF CurveSpec

\* Whatever stands among the answers, a module says it of the input under way.
AllSaid(in, s) == \A i \in 1..Len(s) : \E m : s[i] \in AnswersOf(m, in)

ConsensusInv ==
    /\ canswers \in Seq({canswers[i] : i \in 1..Len(canswers)})
    /\ AllSaid(cinput, canswers)
    /\ \/ cinput \in ConsensusInputs /\ cinput.target # "none"
       \/ casking = <<>> /\ canswers = <<>>

LEMMA ConsensusInvInit == ConsensusInit => ConsensusInv
BY DEF ConsensusInit, ConsensusInv, AllSaid

LEMMA ConsensusInvStep == ConsensusInv /\ [ConsensusNext]_consensusVars => ConsensusInv'
<1> SUFFICES ASSUME ConsensusInv, [ConsensusNext]_consensusVars PROVE ConsensusInv'
  OBVIOUS
<1>1. CASE DrawConsensus
  <2>1. /\ cinput' \in ConsensusInputs
        /\ canswers' = <<>>
    BY <1>1 DEF DrawConsensus, NoConsensusInput, ConsensusInv
  <2>2. cinput'.target # "none"
    BY <2>1, ConsensusDrawnAssumption DEF ConsensusDraws
  <2> QED
    BY <2>1, <2>2 DEF ConsensusInv, AllSaid
<1>2. CASE AskModule
  <2>1. PICK answer \in AnswersOf(Head(casking), cinput) : canswers' = Append(canswers, answer)
    BY <1>2 DEF AskModule
  <2>2. cinput \in ConsensusInputs /\ cinput.target # "none" /\ UNCHANGED cinput
    BY <1>2 DEF AskModule, ConsensusInv
  <2>3. PICK S : canswers \in Seq(S)
    BY DEF ConsensusInv
  <2>4. /\ Len(canswers') = Len(canswers) + 1 /\ Len(canswers) \in Nat
        /\ \A i \in 1..Len(canswers) : canswers'[i] = canswers[i]
        /\ canswers'[Len(canswers) + 1] = answer
    BY <2>1, <2>3
  <2>8. canswers' = [i \in 1..Len(canswers') |-> canswers'[i]]
    <3>1. ASSUME NEW T, NEW s \in Seq(T) PROVE s = [i \in 1..Len(s) |-> s[i]]
      OBVIOUS
    <3>2. ASSUME NEW T, NEW s \in Seq(T), NEW e PROVE \E U : Append(s, e) \in Seq(U)
      <4>1. Append(s, e) \in Seq(T \cup {e})
        OBVIOUS
      <4> QED
        BY <4>1
    <3>3. PICK U : canswers' \in Seq(U)
      BY <2>1, <2>3, <3>2, Zenon
    <3> QED
      BY <3>1, <3>3, Zenon
  <2>5. \A i \in 1..Len(canswers') : i \in 1..Len(canswers) \/ i = Len(canswers) + 1
    BY <2>4
  <2>6. AllSaid(cinput', canswers')
    BY <2>1, <2>2, <2>4, <2>5 DEF ConsensusInv, AllSaid
  <2>7. canswers' \in Seq({canswers'[i] : i \in 1..Len(canswers')})
    <3>1. \A i \in 1..Len(canswers') : canswers'[i] \in {canswers'[j] : j \in 1..Len(canswers')}
      OBVIOUS
    <3>2. Len(canswers') \in Nat
      BY <2>4
    <3> QED
      BY <2>8, <3>1, <3>2
  <2> QED
    BY <2>2, <2>6, <2>7 DEF ConsensusInv
<1>3. CASE ReturnToFuzzer
  <2>1. casking' = <<>> /\ canswers' = <<>>
    BY <1>3 DEF ReturnToFuzzer
  <2> QED
    BY <2>1 DEF ConsensusInv, AllSaid
<1>4. CASE UNCHANGED consensusVars
  BY <1>4 DEF ConsensusInv, AllSaid, consensusVars
<1> QED
  BY <1>1, <1>2, <1>3, <1>4 DEF ConsensusNext

LEMMA ConsensusInvHolds == ConsensusSpec => []ConsensusInv
BY ConsensusInvInit, ConsensusInvStep, PTL DEF ConsensusSpec

\* Whoever stands in the list of answers, it is a module's about this input.
LEMMA EachAnswerIsAModules ==
    ASSUME ConsensusInv, NEW i \in 1..Len(canswers)
    PROVE  /\ cinput \in ConsensusInputs
           /\ \E m : canswers[i] \in AnswersOf(m, cinput)
<1>1. canswers # <<>>
  OBVIOUS
<1> QED
  BY <1>1 DEF ConsensusInv, AllSaid

(***************************************************************************)
(* The theorems                                                            *)
(***************************************************************************)

\* Two modules over the curve that answer an input give the same answer, for any
\* order of the curve, any field and any inputs: a difference the driver reports
\* is one of the two that are known.
THEOREM CurveAnswersAgree == CurveSpec => []AnswersAgree
<1>1. CurveInv => AnswersAgree
  <2> SUFFICES ASSUME CurveInv, NEW m \in DOMAIN answers, NEW other \in DOMAIN answers,
                      ~KnownToDiffer(m), ~KnownToDiffer(other),
                      {answers[m], answers[other]} \cap {Unasked, NullOpt} = {}
               PROVE  answers[m] = answers[other]
    BY DEF AnswersAgree
  <2>1. /\ input \in CurveInputs
        /\ m \in ToSet(Modules(input.target)) /\ other \in ToSet(Modules(input.target))
        /\ answers[m] = Answer(m, input) /\ ~Skipped(m, input)
        /\ answers[other] = Answer(other, input) /\ ~Skipped(other, input)
    BY DEF CurveInv
  <2>2. Agree(input, m, other)
    BY <2>1, AnswersMatch
  <2> QED
    BY <2>1, <2>2 DEF Agree
<1> QED
  BY <1>1, CurveInvHolds, PTL

\* No wrapper drops out of the comparison but for a reason that SilentFor names.
THEOREM SilenceHasReason == CurveSpec => []NobodyDropped
<1>1. CurveInv => NobodyDropped
  <2> SUFFICES ASSUME CurveInv, NEW m \in DOMAIN answers, answers[m] = NullOpt
               PROVE  SilentFor(m)
    BY DEF NobodyDropped
  <2>1. NullOpt # Unasked
    BY DEF NullOpt, Unasked
  <2>2. /\ input \in CurveInputs /\ m \in ToSet(Modules(input.target))
        /\ answers[m] = Answer(m, input) /\ ~Skipped(m, input)
    BY <2>1 DEF CurveInv
  <2> QED
    BY <2>2, SilentWithReason
<1> QED
  BY <1>1, CurveInvHolds, PTL

\* Whoever answers a payment gives each recipient its own output, in the order of
\* the recipients, however the map by address groups them.
THEOREM PaymentsInOrder == CurveSpec => []OutputsFollowBip352
<1>1. CurveInv => OutputsFollowBip352
  <2> SUFFICES ASSUME CurveInv, NEW m \in DOMAIN answers,
                      input.target = "silentpayments_create_outputs",
                      answers[m][1] = "outputs"
               PROVE  answers[m][2] = Outputs(input) /\ Total(input) # 0
    BY DEF OutputsFollowBip352
  <2>1. answers[m] # Unasked
    BY DEF Unasked
  <2>2. input \in CurveInputs /\ m \in ToSet(Modules(input.target)) /\ answers[m] = Answer(m, input)
    BY <2>1 DEF CurveInv
  <2>3. m \in {"BdkSp", "BlueWalletSp", "Secp256k1", "Spdk"}
    BY <2>2 DEF Modules, ToSet
  <2>4. PaymentDrawn(input)
    BY <2>2, DrawnAssumption DEF DriverDraws, PaymentDrawn
  <2>5. PaymentAnswer(input, m, silentpayments_create_outputs(m, input))
    BY <2>3, <2>4, PaymentAnswers
  <2>6. Answer(m, input) = silentpayments_create_outputs(m, input)
    BY DEF Answer
  <2> QED
    BY <2>2, <2>5, <2>6 DEF PaymentAnswer
<1> QED
  BY <1>1, CurveInvHolds, PTL

\* No module accepts a transaction that spends an outpoint twice or pays more
\* than there is, for every word size and limit with twice the limit in a word:
\* the unsigned guard against CVE-2010-5139 never lets a sum wrap around.
THEOREM NoInflation == ConsensusSpec => []AcceptsNoInflation
<1>1. ConsensusInv => AcceptsNoInflation
  <2> SUFFICES ASSUME ConsensusInv, NEW i \in 1..Len(canswers),
                      cinput.target = "transaction_eval", canswers[i] # Refused
               PROVE  /\ Cardinality({cinput.points[n] : n \in 1..Len(cinput.points)})
                             = Len(cinput.points)
                      /\ SpentInAll(cinput.values) <= max_money
    BY DEF AcceptsNoInflation
  <2>1. PICK m : cinput \in ConsensusInputs /\ canswers[i] \in AnswersOf(m, cinput)
    BY EachAnswerIsAModules
  <2>2. cinput.values \in Seq(Words)
    BY <2>1, ConsensusDrawnAssumption DEF ConsensusDraws, Words
  <2>3. canswers[i] = transaction_eval(m, cinput)
    BY <2>1 DEF AnswersOf, Said
  <2>4. Distinct(cinput.points) /\ SpentInAll(cinput.values) <= max_money
    BY <2>2, <2>3, AcceptedIsPaidFor
  <2>5. ToSet(cinput.points) = {cinput.points[n] : n \in 1..Len(cinput.points)}
    BY DEF ToSet
  <2> QED
    BY <2>4, <2>5 DEF Distinct
<1> QED
  BY <1>1, ConsensusInvHolds, PTL

\* An address the driver compares is one that every module encodes and reads.
THEOREM ComparedIsRead == ConsensusSpec => []ComparedAddressIsRead
<1>1. ConsensusInv => ComparedAddressIsRead
  <2> SUFFICES ASSUME ConsensusInv, NEW i \in 1..Len(canswers),
                      cinput.target = "bech32_segwit_roundtrip", ComparesAddress(cinput)
               PROVE  canswers[i] = Roundtrip(cinput)
    BY DEF ComparedAddressIsRead
  <2>1. PICK m : cinput \in ConsensusInputs /\ canswers[i] \in AnswersOf(m, cinput)
    BY EachAnswerIsAModules
  <2>2. bech32_segwit_roundtrip(m, cinput) = {Roundtrip(cinput)}
    BY <2>1, FittingIsRead, ConsensusDrawnAssumption
  <2> QED
    BY <2>1, <2>2 DEF AnswersOf
<1> QED
  BY <1>1, ConsensusInvHolds, PTL

\* Where Core's rule and a library's differ the modules make it up: no two that
\* answer an input are told apart, for any sizes of words, amounts and blocks and
\* any inputs.  Among them are a loop that goes on past the root and a walk over
\* the tree, and the bits left over counted in two ways.
THEOREM AnswersAreCompatible == ConsensusSpec => []ConsensusAnswersAgree
<1>1. ConsensusInv => ConsensusAnswersAgree
  <2> SUFFICES ASSUME ConsensusInv, NEW i \in 1..Len(canswers), NEW j \in 1..Len(canswers)
               PROVE  Nullopt \in {canswers[i], canswers[j]} \/ SameAnswer(canswers[i], canswers[j])
    BY DEF ConsensusAnswersAgree
  <2>1. PICK m : cinput \in ConsensusInputs /\ canswers[i] \in AnswersOf(m, cinput)
    BY EachAnswerIsAModules
  <2>2. PICK o : canswers[j] \in AnswersOf(o, cinput)
    BY EachAnswerIsAModules
  <2>3. ConsensusDraws(cinput)
    BY <2>1, ConsensusDrawnAssumption
  <2> QED
    BY <2>1, <2>2, <2>3, AnswersAlike
<1> QED
  BY <1>1, ConsensusInvHolds, PTL

\* A root that no module flags names its list of leaves (CVE-2012-2459): another
\* list of any length with that root has equal siblings somewhere in its tree.
THEOREM RootsNameLists == ConsensusSpec => []RootNamesOneList
<1>1. ConsensusInv => RootNamesOneList
  <2> SUFFICES ASSUME ConsensusInv, NEW i \in 1..Len(canswers),
                      cinput.target = "merkle_root_compute", ~DetectedIn(canswers[i]),
                      NEW leaves \in DOMAIN UnflaggedRoots,
                      UnflaggedRoots[leaves] = canswers[i][2]
               PROVE  leaves = cinput.leaves
    BY Zenon DEF RootNamesOneList
  <2> DEFINE s == cinput.leaves
  <2>1. PICK m : cinput \in ConsensusInputs /\ canswers[i] \in AnswersOf(m, cinput)
    BY EachAnswerIsAModules
  <2>2. s \in Seq(Leaves) /\ s # <<>>
    BY <2>1, ConsensusDrawnAssumption DEF ConsensusDraws
  <2>3. canswers[i] = merkle_root_compute(m, s)
    BY <2>1 DEF AnswersOf, Said
  <2>4. /\ leaves \in ListsDrawn /\ ~TreeMutated(leaves)
        /\ UnflaggedRoots[leaves] = LibraryMerkleRoot(leaves)[2]
    <3>1. DOMAIN UnflaggedRoots = {l \in ListsDrawn : ~TreeMutated(l)}
      BY Zenon DEF UnflaggedRoots
    <3> QED
      BY <3>1, Zenon DEF UnflaggedRoots
  <2>5. PICK in \in ConsensusInputs : in.target = "merkle_root_compute" /\ leaves = in.leaves
    BY <2>4, Zenon DEF ListsDrawn
  <2>6. leaves \in Seq(Leaves) /\ leaves # <<>>
    BY <2>5, ConsensusDrawnAssumption DEF ConsensusDraws
  <2>7. ~TreeMutated(s) /\ canswers[i][2] = LibraryMerkleRoot(s)[2]
    <3> HIDE DEF s
    <3>1. canswers[i] # <<"REJECTED">>
      BY Zenon DEF DetectedIn
    <3> QED
      BY <2>2, <2>3, <3>1, MerkleAnswers, Zenon
  <2> HIDE DEF s
  <2>8. leaves = s
    BY <2>2, <2>4, <2>6, <2>7, RootNamesList
  <2> QED
    BY <2>8 DEF s
<1> QED
  BY <1>1, ConsensusInvHolds, PTL

-----------------------------------------------------------------------------
(***************************************************************************)
(* The walk over the transaction                                           *)
(***************************************************************************)

\* Bytes whose count a Go int can be.
Buffer == {b \in Bytes : 2 * Len(b) < EightDigits}

\* Where a walk can stand.
At(b) == [off : Short..Len(b), value : Nat, declared : SUBSET Nat]

\* A number read at off: it is a natural number, and comes from before the end.
NumberFits(r, b, off) ==
    /\ r.bytes \in Nat /\ r.value \in Nat
    /\ r.bytes # 0 => off + r.bytes <= Len(b)

\* A number that the guarded reader gives, gocoin's gives as well.
LEMMA ReadersAgree ==
    ASSUME NEW b \in Buffer, NEW off \in 0..Len(b)
    PROVE  /\ NumberFits(readVlen(b, off), b, off)
           /\ NumberFits(VLen(b, off), b, off)
           /\ readVlen(b, off).bytes # 0 => VLen(b, off) = readVlen(b, off)
<1> DEFINE width == Width(b[off + 1])
           value == Number(b, off + 1, width)
<1>0. b \in Bytes /\ 2 * Len(b) < EightDigits /\ Len(b) \in Nat
  BY DEF Buffer, Bytes
<1>1. NothingRead.bytes = 0 /\ NothingRead.value = 0
  BY DEF NothingRead
<1>2. CASE off >= Len(b)
  BY <1>1, <1>2 DEF readVlen, VLen, NumberFits
<1>3. CASE off < Len(b)
  <2>1. b[off + 1] \in Byte /\ b[off + 1] \in Nat /\ ~(off >= Len(b)) /\ off + 1 <= Len(b)
    BY <1>0, <1>3, BaseAssumption DEF Bytes, Byte
  <2>2. CASE b[off + 1] < Escape
    <3> DEFINE r == [value |-> b[off + 1], bytes |-> 1]
    <3>1. readVlen(b, off) = r /\ VLen(b, off) = r
      BY <2>1, <2>2 DEF readVlen, VLen
    <3>2. r.bytes = 1 /\ r.value = b[off + 1]
      OBVIOUS
    <3> HIDE DEF r
    <3> QED
      BY <2>1, <3>1, <3>2 DEF NumberFits
  <2>3. CASE ~(b[off + 1] < Escape)
    <3>1. width \in {2, 4, 8}
      BY <2>1, <2>3, Announcements, Zenon
    <3>2. /\ readVlen(b, off) = IF off + 1 + width > Len(b) THEN NothingRead
                                ELSE IF width = 8 /\ value > Len(b) THEN NothingRead
                                ELSE [value |-> Signed(value), bytes |-> 1 + width]
          /\ VLen(b, off) = IF off + 1 + width > Len(b) THEN NothingRead
                            ELSE [value |-> value, bytes |-> 1 + width]
      BY <2>1, <2>3 DEF readVlen, VLen
    <3> HIDE DEF width
    <3>3. CASE off + 1 + width > Len(b)
      BY <1>1, <3>2, <3>3 DEF NumberFits
    <3>4. CASE ~(off + 1 + width > Len(b))
      <4>1. value \in Nat /\ value < Count(width)
        <5>1. off + 1 \in Nat /\ (off + 1) + width <= Len(b)
          BY <1>0, <3>1, <3>4
        <5> QED
          BY <1>0, <3>1, <5>1, NumberBound
      <4> HIDE DEF value
      <4>2. width \in {2, 4} => 2 * value < EightDigits
        <5>1. width \in {2, 4} => value < FourDigits
          BY <4>1, CountOrder DEF Count
        <5>2. ASSUME NEW x \in Nat, x >= 2, NEW y \in Nat, y < x PROVE 2 * y < x * x
          <6>1. 2 * y < 2 * x
            BY <5>2
          <6>2. 2 * x <= x * x
            BY <5>2
          <6> QED
            BY <6>1, <6>2
        <5>3. FourDigits \in Nat /\ FourDigits >= 2
          BY CountOrder, BaseAssumption DEF Escape
        <5> QED
          BY <4>1, <5>1, <5>2, <5>3 DEF EightDigits
      <4> DEFINE r == [value |-> value, bytes |-> 1 + width]
      <4>3. VLen(b, off) = r /\ r.value = value /\ r.bytes = 1 + width
        BY <3>2, <3>4
      <4>4. NumberFits(r, b, off)
        BY <1>0, <3>1, <3>4, <4>1 DEF NumberFits
      <4>5. CASE width = 8 /\ value > Len(b)
        <5>1. readVlen(b, off) = NothingRead
          BY <3>2, <3>4, <4>5
        <5> HIDE DEF r
        <5> QED
          BY <1>1, <4>3, <4>4, <5>1 DEF NumberFits
      <4>6. CASE ~(width = 8 /\ value > Len(b))
        <5>1. 2 * value < EightDigits
          BY <1>0, <3>1, <4>1, <4>2, <4>6, CountOrder
        <5>2. Signed(value) = value
          BY <4>1, <5>1, CountOrder DEF Signed
        <5>3. readVlen(b, off) = r
          BY <3>2, <3>4, <4>6, <5>2
        <5> HIDE DEF r
        <5> QED
          BY <4>3, <4>4, <5>3
      <4> QED
        BY <4>5, <4>6
    <3> QED
      BY <3>3, <3>4
  <2> QED
    BY <2>2, <2>3
<1> QED
  BY <1>0, <1>2, <1>3

\* The parts of a place.
LEMMA AtIs ==
    ASSUME NEW b \in Buffer, NEW at \in At(b)
    PROVE  /\ at.off \in Short..Len(b) /\ at.value \in Nat /\ at.declared \in SUBSET Nat
           /\ at.off # Short => at.off \in 0..Len(b)
           /\ Len(b) \in Nat
           /\ [at EXCEPT !.off = Short] \in At(b)
           /\ [at EXCEPT !.off = Short].off = Short
BY DEF At, Short, Buffer, Bytes

\* The guarded walk stands at g, gocoin's at u: they part where the guarded one
\* runs short, and what they have declared so far is c or not more than b has.
Together(b, c, g, u) ==
    /\ g \in At(b) /\ u \in At(b)
    /\ g.off # Short => /\ u = g
                        /\ \A n \in g.declared : n <= Len(b) \/ n = c

\* A number is read by both.
LEMMA ReadTogether ==
    ASSUME NEW b \in Buffer, NEW g \in At(b), NEW u \in At(b), g.off # Short => u = g
    PROVE  LET g1 == ReadNumber(b, g, TRUE)
               u1 == ReadNumber(b, u, FALSE)
           IN  /\ g1 \in At(b) /\ u1 \in At(b)
               /\ g1.off # Short => /\ g.off # Short /\ u1 = g1
                                    /\ g1.off >= g.off + 1
                                    /\ g1.declared = g.declared \cup {g1.value}
<1> DEFINE read(at, r) == IF at.off = Short \/ r.bytes = 0 THEN [at EXCEPT !.off = Short]
                          ELSE [off |-> at.off + r.bytes, value |-> r.value,
                                declared |-> at.declared \cup {r.value}]
           g1 == ReadNumber(b, g, TRUE)
           u1 == ReadNumber(b, u, FALSE)
           rg == readVlen(b, g.off)
           ru == VLen(b, u.off)
<1>1. g1 = read(g, rg) /\ u1 = read(u, ru)
  BY DEF ReadNumber
<1>2. ASSUME NEW at \in At(b), NEW r, at.off # Short => NumberFits(r, b, at.off)
      PROVE  /\ read(at, r) \in At(b)
             /\ read(at, r).off # Short => /\ at.off # Short /\ r.bytes # 0
                                           /\ read(at, r).off >= at.off + 1
                                           /\ read(at, r).declared = at.declared \cup {read(at, r).value}
  <2>1. CASE at.off = Short \/ r.bytes = 0
    BY <2>1, AtIs
  <2>2. CASE ~(at.off = Short \/ r.bytes = 0)
    <3> DEFINE after == [off |-> at.off + r.bytes, value |-> r.value,
                         declared |-> at.declared \cup {r.value}]
    <3>1. read(at, r) = after
      BY <2>2
    <3>2. /\ r.bytes \in Nat \ {0} /\ r.value \in Nat /\ at.off + r.bytes <= Len(b)
          /\ at.off \in 0..Len(b) /\ at.declared \in SUBSET Nat /\ Len(b) \in Nat
      BY <1>2, <2>2, AtIs DEF NumberFits
    <3>3. after \in At(b)
      <4>1. at.off + r.bytes \in Short..Len(b)
        BY <3>2 DEF Short
      <4>2. at.declared \cup {r.value} \in SUBSET Nat
        BY <3>2
      <4> QED
        BY <3>2, <4>1, <4>2 DEF At
    <3>4. after.off >= at.off + 1 /\ after.declared = at.declared \cup {after.value}
      BY <3>2
    <3> HIDE DEF read, after
    <3> QED
      BY <2>2, <3>1, <3>3, <3>4
  <2> QED
    BY <2>1, <2>2
<1>3. g.off # Short => NumberFits(rg, b, g.off)
  BY AtIs, ReadersAgree
<1>4. u.off # Short => NumberFits(ru, b, u.off)
  BY AtIs, ReadersAgree
<1>5. g.off # Short /\ rg.bytes # 0 => ru = rg /\ u = g
  BY AtIs, ReadersAgree
<1> HIDE DEF read, g1, u1, rg, ru
<1>6. g1.off # Short => u1 = g1
  BY <1>1, <1>2, <1>3, <1>5
<1> QED
  BY <1>1, <1>2, <1>3, <1>4, <1>6 DEF g1, u1

\* Bytes are passed over by both.
LEMMA SkipTogether ==
    ASSUME NEW b \in Buffer, NEW at \in At(b), NEW size \in Nat
    PROVE  LET past == Skip(b, at, size)
           IN  /\ past \in At(b)
               /\ past.value = at.value /\ past.declared = at.declared
               /\ past.off # Short => at.off # Short /\ past.off = at.off + size
<1> DEFINE past == Skip(b, at, size)
           to == IF at.off = Short \/ at.off + size \notin 0..Len(b) THEN Short ELSE at.off + size
<1>1. past = [at EXCEPT !.off = to]
  BY DEF Skip
<1>2. to \in Short..Len(b) /\ (to # Short => at.off # Short /\ to = at.off + size)
  BY AtIs DEF Short
<1> HIDE DEF to
<1>3. /\ [at EXCEPT !.off = to] \in At(b)
      /\ [at EXCEPT !.off = to].off = to
      /\ [at EXCEPT !.off = to].value = at.value
      /\ [at EXCEPT !.off = to].declared = at.declared
  BY <1>2 DEF At
<1> HIDE DEF past
<1> QED
  BY <1>1, <1>2, <1>3 DEF past

\* A field is passed over by both.
LEMMA FieldTogether ==
    ASSUME NEW b \in Buffer, NEW c, NEW g, NEW u, Together(b, c, g, u),
           NEW before \in Nat, NEW after \in Nat
    PROVE  LET g1 == Field(b, g, before, after, TRUE)
               u1 == Field(b, u, before, after, FALSE)
           IN  /\ Together(b, c, g1, u1)
               /\ g1.off # Short => g.off # Short /\ g1.off >= g.off + 1
<1> DEFINE gs == Skip(b, g, before)
           us == Skip(b, u, before)
           gl == ReadNumber(b, gs, TRUE)
           ul == ReadNumber(b, us, FALSE)
           g1 == Skip(b, gl, gl.value + after)
           u1 == Skip(b, ul, ul.value + after)
<1>0. /\ g \in At(b) /\ u \in At(b) /\ (g.off # Short => u = g)
      /\ g.off # Short => \A n \in g.declared : n <= Len(b) \/ n = c
  BY DEF Together
<1>1. /\ gs \in At(b) /\ gs.declared = g.declared
      /\ gs.off # Short => g.off # Short /\ gs.off = g.off + before
      /\ us \in At(b) /\ (g.off # Short => us = gs)
  BY <1>0, SkipTogether
<1> HIDE DEF gs, us
<1>2. /\ gl \in At(b) /\ ul \in At(b)
      /\ gl.off # Short => /\ gs.off # Short /\ ul = gl /\ gl.off >= gs.off + 1
                           /\ gl.declared = gs.declared \cup {gl.value}
  BY <1>1, ReadTogether, Zenon
<1>3. /\ Field(b, g, before, after, TRUE) = g1
      /\ Field(b, u, before, after, FALSE) = u1
  BY DEF Field, gs, us
<1> HIDE DEF gl, ul
<1>4. gl.value \in Nat /\ gl.value + after \in Nat /\ ul.value + after \in Nat
  <2>1. gl.value \in Nat /\ ul.value \in Nat
    BY <1>2, AtIs, Zenon
  <2> QED
    BY <2>1
<1>5. /\ g1 \in At(b) /\ g1.declared = gl.declared
      /\ g1.off # Short => gl.off # Short /\ g1.off = gl.off + (gl.value + after)
      /\ u1 \in At(b)
      /\ ul = gl => u1 = g1
  BY <1>2, <1>4, SkipTogether
<1> HIDE DEF g1, u1
<1>6. ASSUME g1.off # Short
      PROVE  /\ u1 = g1 /\ g.off # Short /\ g1.off >= g.off + 1
             /\ \A n \in g1.declared : n <= Len(b) \/ n = c
  <2>1. /\ gl.off # Short /\ gs.off # Short /\ g.off # Short /\ ul = gl /\ u1 = g1
        /\ g1.off = gl.off + (gl.value + after) /\ gl.off >= gs.off + 1
        /\ gs.off = g.off + before
    BY <1>1, <1>2, <1>5, <1>6
  <2>2. /\ g1.off \in 0..Len(b) /\ gl.off \in 0..Len(b) /\ gs.off \in 0..Len(b)
        /\ g.off \in 0..Len(b) /\ Len(b) \in Nat
    BY <1>0, <1>1, <1>2, <1>5, <1>6, <2>1, AtIs
  <2>3. gl.value <= Len(b) /\ g1.off >= g.off + 1
    <3> DEFINE n == Len(b)
               v == gl.value
               x1 == g.off
               x2 == gs.off
               x3 == gl.off
               x4 == g1.off
    <3>1. /\ n \in Nat /\ v \in Nat
          /\ x1 \in 0..n /\ x2 \in 0..n /\ x3 \in 0..n /\ x4 \in 0..n
          /\ x4 = x3 + (v + after) /\ x3 >= x2 + 1 /\ x2 = x1 + before
      BY <1>4, <2>1, <2>2
    <3> HIDE DEF n, v, x1, x2, x3, x4
    <3>2. v <= n /\ x4 >= x1 + 1
      BY <3>1
    <3> QED
      BY <3>2 DEF n, v, x1, x4
  <2>4. \A n \in g.declared : n <= Len(b) \/ n = c
    BY <1>0, <2>1
  <2>5. g1.declared = g.declared \cup {gl.value}
    BY <1>1, <1>2, <1>5, <2>1
  <2> QED
    BY <2>1, <2>3, <2>4, <2>5
<1> QED
  BY <1>3, <1>5, <1>6 DEF Together

\* A number read leads to a place.
LEMMA ReadType ==
    ASSUME NEW b \in Buffer, NEW at \in At(b), NEW guarded \in BOOLEAN
    PROVE  ReadNumber(b, at, guarded) \in At(b)
<1>1. ReadNumber(b, at, TRUE) \in At(b) /\ ReadNumber(b, at, FALSE) \in At(b)
  BY ReadTogether
<1> QED
  BY <1>1

LEMMA FieldType ==
    ASSUME NEW b \in Buffer, NEW at \in At(b), NEW before \in Nat, NEW after \in Nat,
           NEW guarded \in BOOLEAN
    PROVE  Field(b, at, before, after, guarded) \in At(b)
<1> DEFINE gs == Skip(b, at, before)
           gl == ReadNumber(b, gs, guarded)
<1>1. gs \in At(b)
  BY SkipTogether
<1>2. Field(b, at, before, after, guarded) = Skip(b, gl, gl.value + after)
  BY DEF Field
<1> HIDE DEF gs
<1>3. gl \in At(b)
  BY <1>1, ReadType, Zenon
<1> HIDE DEF gl
<1>4. gl.value \in Nat
  BY <1>3, AtIs, Zenon
<1>5. gl.value + after \in Nat
  BY <1>4
<1> QED
  BY <1>2, <1>3, <1>5, SkipTogether

\* What a count is cut to.
LEMMA ClipIs ==
    ASSUME NEW b \in Buffer, NEW count \in Nat
    PROVE  /\ Clip(b, count) \in Nat
           /\ count <= Len(b) => Clip(b, count) = count
           /\ ~(count <= Len(b)) => Clip(b, count) = Len(b) + 1
<1>1. Len(b) \in Nat
  BY AtIs DEF Buffer, Bytes
<1>2. count < 0 \/ (count >= 0 /\ count <= Len(b)) \/ count > Len(b)
  BY <1>1
<1> QED
  BY <1>1, <1>2 DEF Clip

\* f holds the places of the loop over fields.
FieldLoop(f, b, at, n, before, after, guarded) ==
    f = [k \in 0..n |-> IF k = 0 THEN at ELSE Field(b, f[k - 1], before, after, guarded)]

LEMMA FieldLoopExists ==
    ASSUME NEW b \in Buffer, NEW at \in At(b), NEW n \in Nat,
           NEW before \in Nat, NEW after \in Nat, NEW guarded \in BOOLEAN
    PROVE  \E f : FieldLoop(f, b, at, n, before, after, guarded)
<1> DEFINE S == At(b)
           F == [p \in (1..n) \X S |-> Field(b, p[2], before, after, guarded)]
<1>1. F \in [(1..n) \X S -> S]
  <2>1. \A p \in (1..n) \X S : Field(b, p[2], before, after, guarded) \in S
    BY FieldType
  <2> HIDE DEF S
  <2> QED
    BY <2>1
<1>2. at \in S
  OBVIOUS
<1> HIDE DEF F, S
<1>3. Recurses(S, n, at, F)
  BY <1>1, <1>2, RecursionIn
<1>4. PICK f \in [0..n -> S] : f[0] = at /\ \A k \in 1..n : f[k] = F[<<k, f[k - 1]>>]
  BY <1>3 DEF Recurses
<1>5. ASSUME NEW k \in 0..n
      PROVE  f[k] = IF k = 0 THEN at ELSE Field(b, f[k - 1], before, after, guarded)
  <2>1. CASE k = 0
    BY <1>4, <2>1
  <2>2. CASE k # 0
    <3>1. k \in 1..n /\ k - 1 \in 0..n
      BY <2>2
    <3>2. <<k, f[k - 1]>> \in (1..n) \X S
      BY <1>4, <3>1
    <3>3. F[<<k, f[k - 1]>>] = Field(b, <<k, f[k - 1]>>[2], before, after, guarded)
      BY <3>2, Zenon DEF F
    <3>4. <<k, f[k - 1]>>[2] = f[k - 1]
      OBVIOUS
    <3> QED
      BY <1>4, <2>2, <3>1, <3>3, <3>4, Zenon
  <2> QED
    BY <2>1, <2>2
<1>6. f = [k \in 0..n |-> f[k]]
  BY <1>4
<1>7. ASSUME NEW h, h = [k \in 0..n |-> h[k]],
             \A k \in 0..n : h[k] = IF k = 0 THEN at ELSE Field(b, h[k - 1], before, after, guarded)
      PROVE  FieldLoop(h, b, at, n, before, after, guarded)
  BY <1>7, Zenon DEF FieldLoop
<1> QED
  BY <1>5, <1>6, <1>7, Zenon

\* Its values are places.
LEMMA FieldLoopValues ==
    ASSUME NEW b \in Buffer, NEW at \in At(b), NEW n \in Nat,
           NEW before \in Nat, NEW after \in Nat, NEW guarded \in BOOLEAN,
           NEW f, FieldLoop(f, b, at, n, before, after, guarded)
    PROVE  /\ f[0] = at
           /\ \A k \in 1..n : f[k] = Field(b, f[k - 1], before, after, guarded)
           /\ \A k \in 0..n : f[k] \in At(b)
<1>1. \A k \in 0..n : f[k] = IF k = 0 THEN at ELSE Field(b, f[k - 1], before, after, guarded)
  BY Zenon DEF FieldLoop
<1>2. 0 \in 0..n /\ \A k \in 1..n : k \in 0..n /\ k # 0
  OBVIOUS
<1>3. f[0] = at /\ \A k \in 1..n : f[k] = Field(b, f[k - 1], before, after, guarded)
  BY <1>1, <1>2, Zenon
<1>4. \A k \in 0..n : f[k] \in At(b)
  <2> DEFINE P == {k \in 0..n : f[k] \in At(b)}
  <2>1. 0 \in P
    BY <1>2, <1>3
  <2>2. ASSUME NEW k \in 1..n, k - 1 \in P PROVE k \in P
    <3>1. f[k - 1] \in At(b)
      BY <2>2
    <3>2. Field(b, f[k - 1], before, after, guarded) \in At(b)
      BY <3>1, FieldType
    <3> QED
      BY <1>2, <1>3, <3>2
  <2> HIDE DEF P
  <2>3. \A k \in 0..n : k \in P
    BY <2>1, <2>2, RoundByRound
  <2> QED
    BY <2>3 DEF P
<1> QED
  BY <1>3, <1>4

\* The loop over fields, as a function.
LEMMA FieldsIs ==
    ASSUME NEW b \in Buffer, NEW at \in At(b), NEW before \in Nat, NEW after \in Nat,
           NEW guarded \in BOOLEAN
    PROVE  \E f : /\ FieldLoop(f, b, at, Clip(b, at.value), before, after, guarded)
                  /\ Fields(b, at, before, after, guarded) = f[Clip(b, at.value)]
<1>1. at.value \in Nat
  BY AtIs, Zenon
<1> DEFINE n == Clip(b, at.value)
           f == CHOOSE h : FieldLoop(h, b, at, n, before, after, guarded)
<1>2. n \in Nat
  BY <1>1, ClipIs, Zenon
<1>3. Fields(b, at, before, after, guarded) = f[n]
  BY Zenon DEF Fields, FieldLoop
<1> HIDE DEF n
<1>4. \E h : FieldLoop(h, b, at, n, before, after, guarded)
  BY <1>2, FieldLoopExists, Zenon
<1>5. FieldLoop(f, b, at, n, before, after, guarded)
  BY <1>4, Zenon
<1> HIDE DEF f
<1> QED
  BY <1>3, <1>5, Zenon DEF n

LEMMA FieldsType ==
    ASSUME NEW b \in Buffer, NEW at \in At(b), NEW before \in Nat, NEW after \in Nat,
           NEW guarded \in BOOLEAN
    PROVE  Fields(b, at, before, after, guarded) \in At(b)
<1> DEFINE n == Clip(b, at.value)
<1>1. n \in Nat
  BY AtIs, ClipIs
<1>2. PICK f : /\ FieldLoop(f, b, at, n, before, after, guarded)
               /\ Fields(b, at, before, after, guarded) = f[n]
  BY FieldsIs
<1> HIDE DEF n
<1>3. n \in 0..n
  BY <1>1
<1> QED
  BY <1>1, <1>2, <1>3, FieldLoopValues

\* A stretch of fields is passed over by both: then there were not more of them
\* than bytes.
LEMMA FieldsTogether ==
    ASSUME NEW b \in Buffer, NEW g \in At(b), NEW u \in At(b),
           g.off # Short => u = g /\ \A n \in g.declared : n <= Len(b) \/ n = g.value,
           NEW before \in Nat, NEW after \in Nat
    PROVE  LET g1 == Fields(b, g, before, after, TRUE)
               u1 == Fields(b, u, before, after, FALSE)
           IN  /\ Together(b, 0, g1, u1)
               /\ g1.off # Short => g.off # Short /\ g.value <= Len(b)
<1> DEFINE n == Clip(b, g.value)
           g1 == Fields(b, g, before, after, TRUE)
           u1 == Fields(b, u, before, after, FALSE)
<1>0. g.value \in Nat /\ Len(b) \in Nat
  BY AtIs, Zenon
<1>1. n \in Nat /\ (g.value <= Len(b) => n = g.value) /\ (~(g.value <= Len(b)) => n = Len(b) + 1)
  BY <1>0, ClipIs, Zenon
<1>2. PICK f : FieldLoop(f, b, g, n, before, after, TRUE) /\ g1 = f[n]
  BY FieldsIs
<1>3. /\ f[0] = g
      /\ \A k \in 1..n : f[k] = Field(b, f[k - 1], before, after, TRUE)
      /\ \A k \in 0..n : f[k] \in At(b)
  BY <1>1, <1>2, FieldLoopValues, TRUE \in BOOLEAN, Zenon
<1>4. PICK h : /\ FieldLoop(h, b, g, n, before, after, FALSE)
               /\ Fields(b, g, before, after, FALSE) = h[n]
  BY FieldsIs
<1>5. /\ h[0] = g
      /\ \A k \in 1..n : h[k] = Field(b, h[k - 1], before, after, FALSE)
      /\ \A k \in 0..n : h[k] \in At(b)
  BY <1>1, <1>4, FieldLoopValues, FALSE \in BOOLEAN, Zenon
<1>10. g.off # Short => u1 = h[n]
  BY <1>4
<1>6. g1 \in At(b) /\ u1 \in At(b)
  BY FieldsType
<1> HIDE DEF n, g1, u1
<1>7. n \in 0..n /\ 0 \in 0..n /\ \A k \in 1..n : k \in 0..n /\ k - 1 \in 0..n
  BY <1>1
<1>8. CASE g.off = Short
  <2> DEFINE P == {k \in 0..n : f[k].off = Short}
  <2>1. 0 \in P
    BY <1>3, <1>7, <1>8
  <2>2. ASSUME NEW k \in 1..n, k - 1 \in P PROVE k \in P
    <3>1. f[k - 1].off = Short /\ f[k - 1] \in At(b)
      BY <1>3, <1>7, <2>2
    <3>2. Together(b, 0, f[k - 1], f[k - 1])
      BY <3>1 DEF Together
    <3>3. LET x == Field(b, f[k - 1], before, after, TRUE)
              y == Field(b, f[k - 1], before, after, FALSE)
          IN  /\ Together(b, 0, x, y)
              /\ x.off # Short => f[k - 1].off # Short /\ x.off >= f[k - 1].off + 1
      BY <3>2, FieldTogether, Zenon
    <3>4. f[k].off = Short
      <4>1. f[k] = Field(b, f[k - 1], before, after, TRUE)
        BY <1>3
      <4>2. Field(b, f[k - 1], before, after, TRUE).off = Short
        BY <3>1, <3>3, Zenon
      <4> QED
        BY <4>1, <4>2, Zenon
    <3> QED
      BY <1>7, <3>4
  <2> HIDE DEF P
  <2>3. \A k \in 0..n : k \in P
    BY <1>1, <2>1, <2>2, RoundByRound
  <2>4. g1.off = Short
    BY <1>2, <1>7, <2>3 DEF P
  <2> QED
    BY <1>6, <2>4 DEF Together, g1, u1
<1>9. CASE g.off # Short
  <2> DEFINE Ok(k) == /\ Together(b, g.value, f[k], h[k])
                      /\ f[k].off # Short => f[k].off >= k
             P == {k \in 0..n : Ok(k)}
  <2>1. 0 \in P
    <3>1. Together(b, g.value, g, g)
      BY <1>9 DEF Together
    <3>2. g.off >= 0
      <4>1. g.off \in 0..Len(b)
        BY <1>9, AtIs
      <4> QED
        BY <4>1
    <3> QED
      BY <1>3, <1>5, <1>7, <1>9, <3>1, <3>2
  <2>2. ASSUME NEW k \in 1..n, k - 1 \in P PROVE k \in P
    <3>1. Together(b, g.value, f[k - 1], h[k - 1]) /\ (f[k - 1].off # Short => f[k - 1].off >= k - 1)
      BY <2>2
    <3>2. f[k] = Field(b, f[k - 1], before, after, TRUE) /\ h[k] = Field(b, h[k - 1], before, after, FALSE)
      BY <1>3, <1>5, <1>9
    <3>3. /\ Together(b, g.value, f[k], h[k])
          /\ f[k].off # Short => f[k - 1].off # Short /\ f[k].off >= f[k - 1].off + 1
      <4>1. LET x == Field(b, f[k - 1], before, after, TRUE)
                y == Field(b, h[k - 1], before, after, FALSE)
            IN  /\ Together(b, g.value, x, y)
                /\ x.off # Short => f[k - 1].off # Short /\ x.off >= f[k - 1].off + 1
        BY <3>1, FieldTogether, Zenon
      <4> QED
        BY <3>2, <4>1, Zenon
    <3>4. f[k].off # Short => f[k].off >= k
      <4> DEFINE x == f[k - 1].off
                 y == f[k].off
      <4>1. ASSUME y # Short PROVE x >= k - 1 /\ y >= x + 1 /\ x \in 0..Len(b) /\ y \in 0..Len(b)
        <5>1. f[k] \in At(b) /\ f[k - 1] \in At(b)
          BY <1>3, <1>7
        <5> QED
          BY <3>1, <3>3, <4>1, <5>1, AtIs
      <4> HIDE DEF x, y
      <4>2. y # Short => y >= k
        BY <1>0, <1>1, <4>1
      <4> QED
        BY <4>2 DEF y
    <3> QED
      BY <1>7, <3>3, <3>4
  <2> HIDE DEF P
  <2>3. \A k \in 0..n : k \in P
    BY <1>1, <2>1, <2>2, RoundByRound
  <2>4. Together(b, g.value, g1, u1) /\ (g1.off # Short => g1.off >= n)
    <3>1. Ok(n)
      BY <1>7, <2>3 DEF P
    <3> QED
      BY <1>2, <1>9, <1>10, <3>1
  <2>5. g1.off # Short => g.value <= Len(b)
    <3>1. g1.off # Short => g1.off \in 0..Len(b)
      BY <1>6, AtIs
    <3> DEFINE x == g1.off
               v == g.value
    <3>2. x # Short => x >= n /\ x \in 0..Len(b)
      BY <2>4, <3>1
    <3>3. v \in Nat /\ (~(v <= Len(b)) => n = Len(b) + 1)
      BY <1>0, <1>1
    <3> HIDE DEF x, v
    <3>4. x # Short => v <= Len(b)
      BY <1>0, <1>1, <3>2, <3>3
    <3> QED
      BY <3>4 DEF x, v
  <2>6. Together(b, 0, g1, u1)
    BY <2>4, <2>5 DEF Together
  <2> QED
    BY <1>9, <2>5, <2>6 DEF g1, u1
<1> QED
  BY <1>8, <1>9

\* A number and as many fields are passed over by both.
LEMMA CountedTogether ==
    ASSUME NEW b \in Buffer, NEW g, NEW u, Together(b, 0, g, u),
           NEW before \in Nat, NEW after \in Nat
    PROVE  LET gn == ReadNumber(b, g, TRUE)
               un == ReadNumber(b, u, FALSE)
               g1 == Fields(b, gn, before, after, TRUE)
               u1 == Fields(b, un, before, after, FALSE)
           IN  /\ gn \in At(b) /\ un \in At(b)
               /\ Together(b, 0, g1, u1)
               /\ g1.off # Short => g.off # Short /\ un = gn /\ gn.value <= Len(b)
<1> DEFINE gn == ReadNumber(b, g, TRUE)
           un == ReadNumber(b, u, FALSE)
           g1 == Fields(b, gn, before, after, TRUE)
           u1 == Fields(b, un, before, after, FALSE)
<1>1. /\ g \in At(b) /\ u \in At(b) /\ (g.off # Short => u = g)
      /\ g.off # Short => \A n \in g.declared : n <= Len(b) \/ n = 0
  BY DEF Together
<1>2. /\ gn \in At(b) /\ un \in At(b)
      /\ gn.off # Short => /\ g.off # Short /\ un = gn
                           /\ gn.declared = g.declared \cup {gn.value}
  BY <1>1, ReadTogether, Zenon
<1>3. 0 <= Len(b)
  BY DEF Buffer, Bytes
<1> HIDE DEF gn, un
<1>4. gn.off # Short => un = gn /\ \A n \in gn.declared : n <= Len(b) \/ n = gn.value
  BY <1>1, <1>2, <1>3
<1>5. /\ Together(b, 0, g1, u1)
      /\ g1.off # Short => gn.off # Short /\ gn.value <= Len(b)
  BY <1>2, <1>4, FieldsTogether, Zenon
<1> HIDE DEF g1, u1
<1> QED
  BY <1>2, <1>5 DEF g1, u1, gn, un

LEMMA StackTogether ==
    ASSUME NEW b \in Buffer, NEW g, NEW u, Together(b, 0, g, u)
    PROVE  /\ Together(b, 0, Stack(b, g, TRUE), Stack(b, u, FALSE))
           /\ Stack(b, g, TRUE).off # Short => g.off # Short
BY CountedTogether, 0 \in Nat, Zenon DEF Stack

LEMMA StackType ==
    ASSUME NEW b \in Buffer, NEW at \in At(b), NEW guarded \in BOOLEAN
    PROVE  Stack(b, at, guarded) \in At(b)
BY ReadType, FieldsType, 0 \in Nat, Zenon DEF Stack

\* f holds the places of the loop over stacks.
StackLoop(f, b, at, n, guarded) ==
    f = [k \in 0..n |-> IF k = 0 THEN at ELSE Stack(b, f[k - 1], guarded)]

LEMMA StackLoopExists ==
    ASSUME NEW b \in Buffer, NEW at \in At(b), NEW n \in Nat,
           NEW guarded \in BOOLEAN
    PROVE  \E f : StackLoop(f, b, at, n, guarded)
<1> DEFINE S == At(b)
           F == [p \in (1..n) \X S |-> Stack(b, p[2], guarded)]
<1>1. F \in [(1..n) \X S -> S]
  <2>1. \A p \in (1..n) \X S : Stack(b, p[2], guarded) \in S
    BY StackType
  <2> HIDE DEF S
  <2> QED
    BY <2>1
<1>2. at \in S
  OBVIOUS
<1> HIDE DEF F, S
<1>3. Recurses(S, n, at, F)
  BY <1>1, <1>2, RecursionIn
<1>4. PICK f \in [0..n -> S] : f[0] = at /\ \A k \in 1..n : f[k] = F[<<k, f[k - 1]>>]
  BY <1>3 DEF Recurses
<1>5. ASSUME NEW k \in 0..n
      PROVE  f[k] = IF k = 0 THEN at ELSE Stack(b, f[k - 1], guarded)
  <2>1. CASE k = 0
    BY <1>4, <2>1
  <2>2. CASE k # 0
    <3>1. k \in 1..n /\ k - 1 \in 0..n
      BY <2>2
    <3>2. <<k, f[k - 1]>> \in (1..n) \X S
      BY <1>4, <3>1
    <3>3. F[<<k, f[k - 1]>>] = Stack(b, <<k, f[k - 1]>>[2], guarded)
      BY <3>2, Zenon DEF F
    <3>4. <<k, f[k - 1]>>[2] = f[k - 1]
      OBVIOUS
    <3> QED
      BY <1>4, <2>2, <3>1, <3>3, <3>4, Zenon
  <2> QED
    BY <2>1, <2>2
<1>6. f = [k \in 0..n |-> f[k]]
  BY <1>4
<1>7. ASSUME NEW h, h = [k \in 0..n |-> h[k]],
             \A k \in 0..n : h[k] = IF k = 0 THEN at ELSE Stack(b, h[k - 1], guarded)
      PROVE  StackLoop(h, b, at, n, guarded)
  BY <1>7, Zenon DEF StackLoop
<1> QED
  BY <1>5, <1>6, <1>7, Zenon

\* Its values are places.
LEMMA StackLoopValues ==
    ASSUME NEW b \in Buffer, NEW at \in At(b), NEW n \in Nat,
           NEW guarded \in BOOLEAN,
           NEW f, StackLoop(f, b, at, n, guarded)
    PROVE  /\ f[0] = at
           /\ \A k \in 1..n : f[k] = Stack(b, f[k - 1], guarded)
           /\ \A k \in 0..n : f[k] \in At(b)
<1>1. \A k \in 0..n : f[k] = IF k = 0 THEN at ELSE Stack(b, f[k - 1], guarded)
  BY Zenon DEF StackLoop
<1>2. 0 \in 0..n /\ \A k \in 1..n : k \in 0..n /\ k # 0
  OBVIOUS
<1>3. f[0] = at /\ \A k \in 1..n : f[k] = Stack(b, f[k - 1], guarded)
  BY <1>1, <1>2, Zenon
<1>4. \A k \in 0..n : f[k] \in At(b)
  <2> DEFINE P == {k \in 0..n : f[k] \in At(b)}
  <2>1. 0 \in P
    BY <1>2, <1>3
  <2>2. ASSUME NEW k \in 1..n, k - 1 \in P PROVE k \in P
    <3>1. f[k - 1] \in At(b)
      BY <2>2
    <3>2. Stack(b, f[k - 1], guarded) \in At(b)
      BY <3>1, StackType
    <3> QED
      BY <1>2, <1>3, <3>2
  <2> HIDE DEF P
  <2>3. \A k \in 0..n : k \in P
    BY <2>1, <2>2, RoundByRound
  <2> QED
    BY <2>3 DEF P
<1> QED
  BY <1>3, <1>4

\* The loop over stacks, as a function.
LEMMA WitnessesIs ==
    ASSUME NEW b \in Buffer, NEW at \in At(b), NEW count \in Nat, NEW guarded \in BOOLEAN
    PROVE  \E f : /\ StackLoop(f, b, at, Clip(b, count), guarded)
                  /\ Witnesses(b, at, count, guarded) = f[Clip(b, count)]
<1> DEFINE n == Clip(b, count)
           f == CHOOSE h : StackLoop(h, b, at, n, guarded)
<1>2. n \in Nat
  BY ClipIs, Zenon
<1>3. Witnesses(b, at, count, guarded) = f[n]
  BY Zenon DEF Witnesses, StackLoop
<1> HIDE DEF n
<1>4. \E h : StackLoop(h, b, at, n, guarded)
  BY <1>2, StackLoopExists, Zenon
<1>5. StackLoop(f, b, at, n, guarded)
  BY <1>4, Zenon
<1> HIDE DEF f
<1> QED
  BY <1>3, <1>5, Zenon DEF n

LEMMA WitnessesType ==
    ASSUME NEW b \in Buffer, NEW at \in At(b), NEW count \in Nat, NEW guarded \in BOOLEAN
    PROVE  Witnesses(b, at, count, guarded) \in At(b)
<1> DEFINE n == Clip(b, count)
<1>1. n \in Nat
  BY ClipIs
<1>2. PICK f : StackLoop(f, b, at, n, guarded) /\ Witnesses(b, at, count, guarded) = f[n]
  BY WitnessesIs
<1> HIDE DEF n
<1>3. n \in 0..n
  BY <1>1
<1> QED
  BY <1>1, <1>2, <1>3, StackLoopValues

\* The stacks are passed over by both.
LEMMA WitnessesTogether ==
    ASSUME NEW b \in Buffer, NEW g, NEW u, Together(b, 0, g, u), NEW count \in Nat
    PROVE  LET g1 == Witnesses(b, g, count, TRUE)
               u1 == Witnesses(b, u, count, FALSE)
           IN  Together(b, 0, g1, u1) /\ (g1.off # Short => g.off # Short)
<1> DEFINE n == Clip(b, count)
           g1 == Witnesses(b, g, count, TRUE)
           u1 == Witnesses(b, u, count, FALSE)
<1>0. g \in At(b) /\ u \in At(b)
  BY DEF Together
<1>1. n \in Nat
  BY ClipIs, Zenon
<1>2. PICK f : StackLoop(f, b, g, n, TRUE) /\ g1 = f[n]
  BY <1>0, WitnessesIs
<1>3. /\ f[0] = g
      /\ \A k \in 1..n : f[k] = Stack(b, f[k - 1], TRUE)
      /\ \A k \in 0..n : f[k] \in At(b)
  BY <1>0, <1>1, <1>2, StackLoopValues, TRUE \in BOOLEAN, Zenon
<1>4. PICK h : StackLoop(h, b, u, n, FALSE) /\ u1 = h[n]
  BY <1>0, WitnessesIs
<1>5. /\ h[0] = u
      /\ \A k \in 1..n : h[k] = Stack(b, h[k - 1], FALSE)
      /\ \A k \in 0..n : h[k] \in At(b)
  BY <1>0, <1>1, <1>4, StackLoopValues, FALSE \in BOOLEAN, Zenon
<1> HIDE DEF n, g1, u1
<1>7. n \in 0..n /\ 0 \in 0..n /\ \A k \in 1..n : k \in 0..n /\ k - 1 \in 0..n
  BY <1>1
<1> DEFINE Ok(k) == Together(b, 0, f[k], h[k]) /\ (f[k].off # Short => g.off # Short)
           P == {k \in 0..n : Ok(k)}
<1>8. 0 \in P
  BY <1>3, <1>5, <1>7
<1>9. ASSUME NEW k \in 1..n, k - 1 \in P PROVE k \in P
  <2>1. Together(b, 0, f[k - 1], h[k - 1]) /\ (f[k - 1].off # Short => g.off # Short)
    BY <1>9
  <2>2. f[k] = Stack(b, f[k - 1], TRUE) /\ h[k] = Stack(b, h[k - 1], FALSE)
    BY <1>3, <1>5
  <2>3. /\ Together(b, 0, Stack(b, f[k - 1], TRUE), Stack(b, h[k - 1], FALSE))
        /\ Stack(b, f[k - 1], TRUE).off # Short => f[k - 1].off # Short
    BY <2>1, StackTogether, Zenon
  <2>4. Ok(k)
    BY <2>1, <2>2, <2>3
  <2> QED
    BY <1>7, <2>4
<1> HIDE DEF P
<1>10. \A k \in 0..n : k \in P
  BY <1>1, <1>8, <1>9, RoundByRound
<1>11. Ok(n)
  BY <1>7, <1>10 DEF P
<1> QED
  BY <1>2, <1>4, <1>11 DEF g1, u1

\* The whole walk.
LEMMA WalkTogether ==
    ASSUME NEW b \in Buffer, Walk(b, TRUE).off # Short
    PROVE  \A n \in Walk(b, FALSE).declared : n <= Len(b)
<1> DEFINE front == VersionBytes + (IF IsSegwit(b) THEN 2 ELSE 0)
           start == Skip(b, AtTheStart, front)
           gIn == ReadNumber(b, start, TRUE)
           uIn == ReadNumber(b, start, FALSE)
           gIns == Fields(b, gIn, OutpointBytes, SequenceBytes, TRUE)
           uIns == Fields(b, uIn, OutpointBytes, SequenceBytes, FALSE)
           gOut == ReadNumber(b, gIns, TRUE)
           uOut == ReadNumber(b, uIns, FALSE)
           gOuts == Fields(b, gOut, ValueBytes, 0, TRUE)
           uOuts == Fields(b, uOut, ValueBytes, 0, FALSE)
           gCount == IF IsSegwit(b) /\ gOuts.off # Short THEN gIn.value ELSE 0
           uCount == IF IsSegwit(b) /\ uOuts.off # Short THEN uIn.value ELSE 0
           gStacks == Witnesses(b, gOuts, gCount, TRUE)
           uStacks == Witnesses(b, uOuts, uCount, FALSE)
<1>0. /\ front \in Nat /\ OutpointBytes \in Nat /\ SequenceBytes \in Nat /\ ValueBytes \in Nat
      /\ LocktimeBytes \in Nat /\ 0 \in Nat
  BY SighashAssumption
<1>1. Walk(b, TRUE) = Skip(b, gStacks, LocktimeBytes) /\ Walk(b, FALSE) = Skip(b, uStacks, LocktimeBytes)
  BY DEF Walk
<1>2. Together(b, 0, start, start)
  <2>1. AtTheStart \in At(b) /\ AtTheStart.declared = {}
    <3>1. 0 \in Short..Len(b)
      BY DEF Short, Buffer, Bytes
    <3> QED
      BY <3>1 DEF AtTheStart, At
  <2> HIDE DEF front
  <2>2. start \in At(b) /\ start.declared = {}
    BY <1>0, <2>1, SkipTogether
  <2> HIDE DEF start
  <2> QED
    BY <2>2 DEF Together
<1> HIDE DEF front, start
<1>3. /\ gIn \in At(b) /\ uIn \in At(b)
      /\ Together(b, 0, gIns, uIns)
      /\ gIns.off # Short => start.off # Short /\ uIn = gIn /\ gIn.value <= Len(b)
  BY <1>0, <1>2, CountedTogether
<1> HIDE DEF gIn, uIn, gIns, uIns
<1>4. /\ Together(b, 0, gOuts, uOuts)
      /\ gOuts.off # Short => gIns.off # Short
  <2>1. Together(b, 0, gIns, uIns)
    BY <1>3
  <2> QED
    BY <1>0, <2>1, CountedTogether, Zenon
<1> HIDE DEF gOut, uOut, gOuts, uOuts
<1>5. gCount \in Nat /\ uCount \in Nat /\ (gOuts.off # Short => uCount = gCount)
  <2>1. gIn.value \in Nat /\ uIn.value \in Nat
    BY <1>3, AtIs, Zenon
  <2>2. gOuts.off # Short => uIn = gIn
    BY <1>3, <1>4, Zenon
  <2>3. gOuts.off # Short => uOuts = gOuts
    BY <1>4, Zenon DEF Together
  <2> QED
    BY <2>1, <2>2, <2>3
<1> HIDE DEF gCount, uCount
<1>6. gOuts \in At(b) /\ uOuts \in At(b)
  BY <1>4 DEF Together
<1>7. gStacks \in At(b) /\ uStacks \in At(b)
  BY <1>5, <1>6, WitnessesType, TRUE \in BOOLEAN, FALSE \in BOOLEAN, Zenon
<1>8. LET v == Witnesses(b, uOuts, gCount, FALSE)
      IN  Together(b, 0, gStacks, v) /\ (gStacks.off # Short => gOuts.off # Short)
  BY <1>4, <1>5, WitnessesTogether, Zenon
<1>9. Together(b, 0, gStacks, uStacks)
  <2>1. CASE gStacks.off = Short
    <3> HIDE DEF gStacks, uStacks
    <3> QED
      BY <1>7, <2>1 DEF Together
  <2>2. CASE gStacks.off # Short
    <3>1. uCount = gCount
      BY <1>5, <1>8, <2>2, Zenon
    <3> QED
      BY <1>8, <3>1, Zenon
  <2> QED
    BY <2>1, <2>2
<1> HIDE DEF gStacks, uStacks
<1>10. /\ Skip(b, gStacks, LocktimeBytes).off # Short => gStacks.off # Short
       /\ Skip(b, uStacks, LocktimeBytes).declared = uStacks.declared
  BY <1>0, <1>7, SkipTogether, Zenon
<1>11. gStacks.off # Short
  BY <1>1, <1>10, Zenon
<1>12. uStacks = gStacks /\ \A n \in gStacks.declared : n <= Len(b) \/ n = 0
  BY <1>9, <1>11 DEF Together
<1>13. 0 <= Len(b)
  BY DEF Buffer, Bytes
<1> QED
  BY <1>1, <1>10, <1>12, <1>13

(***************************************************************************)
(* Bytes, opcodes and lists of opcodes                                     *)
(***************************************************************************)

\* Scripts, and any piece of one.
Code == Seq(0..255)

\* Concatenation of code.
LEMMA CodeJoin ==
    /\ <<>> \in Code
    /\ \A a, b \in Code : a \o b \in Code /\ Len(a \o b) = Len(a) + Len(b)
    /\ \A a, b, c \in Code : (a \o b) \o c = a \o (b \o c)
    /\ \A a \in Code : a \o <<>> = a /\ <<>> \o a = a
<1> DEFINE B == 0..255
<1> HIDE DEF B
<1>1. <<>> \in Seq(B)
  OBVIOUS
<1>2. \A a, b \in Seq(B) : a \o b \in Seq(B) /\ Len(a \o b) = Len(a) + Len(b)
  OBVIOUS
<1>3. \A a, b, c \in Seq(B) : (a \o b) \o c = a \o (b \o c)
  BY ConcatAssociative
<1>4. \A a \in Seq(B) : a \o <<>> = a /\ <<>> \o a = a
  BY ConcatEmptySeq
<1> QED
  BY <1>1, <1>2, <1>3, <1>4, Zenon DEF Code, B

\* What Remaining flattens.
Sifted(ops, gone) == [k \in DOMAIN ops |-> IF ops[k] \in gone THEN <<>> ELSE ops[k]]

\* It is a list of pieces of code again, as long as the first.
LEMMA SiftedIs ==
    ASSUME NEW ops \in Seq(Code), NEW gone
    PROVE  /\ Sifted(ops, gone) \in Seq(Code)
           /\ Len(Sifted(ops, gone)) = Len(ops)
           /\ \A k \in 1..Len(ops) : Sifted(ops, gone)[k] = IF ops[k] \in gone THEN <<>> ELSE ops[k]
           /\ Remaining(ops, gone) = FlattenSeq(Sifted(ops, gone))
<1>1. <<>> \in Code
  BY DEF Code
<1> HIDE DEF Code
<1>2. DOMAIN ops = 1..Len(ops) /\ \A k \in 1..Len(ops) : ops[k] \in Code
  OBVIOUS
<1>3. Sifted(ops, gone) \in [1..Len(ops) -> Code]
  BY <1>1, <1>2 DEF Sifted
<1> QED
  BY <1>2, <1>3 DEF Sifted, Remaining

\* Sifting takes concatenation to concatenation.
LEMMA SiftedJoin ==
    ASSUME NEW s \in Seq(Code), NEW t \in Seq(Code), NEW gone
    PROVE  Sifted(s \o t, gone) = Sifted(s, gone) \o Sifted(t, gone)
<1> DEFINE u == s \o t
           a == Sifted(s, gone)
           b == Sifted(t, gone)
           c == Sifted(u, gone)
<1>0. u \in Seq(Code) /\ Len(u) = Len(s) + Len(t) /\ Len(s) \in Nat /\ Len(t) \in Nat
  <2> HIDE DEF Code
  <2> QED
    OBVIOUS
<1>1. \A k \in 1..(Len(s) + Len(t)) : u[k] = IF k <= Len(s) THEN s[k] ELSE t[k - Len(s)]
  <2> HIDE DEF Code
  <2> QED
    OBVIOUS
<1> HIDE DEF u, Code
<1>2. /\ a \in Seq(Code) /\ Len(a) = Len(s)
      /\ \A k \in 1..Len(s) : a[k] = IF s[k] \in gone THEN <<>> ELSE s[k]
  BY SiftedIs, Zenon
<1>3. /\ b \in Seq(Code) /\ Len(b) = Len(t)
      /\ \A k \in 1..Len(t) : b[k] = IF t[k] \in gone THEN <<>> ELSE t[k]
  BY SiftedIs, Zenon
<1>4. /\ c \in Seq(Code) /\ Len(c) = Len(u)
      /\ \A k \in 1..Len(u) : c[k] = IF u[k] \in gone THEN <<>> ELSE u[k]
  BY <1>0, SiftedIs, Zenon
<1> HIDE DEF a, b, c
<1>5. /\ a \o b \in Seq(Code) /\ Len(a \o b) = Len(s) + Len(t)
      /\ \A k \in 1..(Len(s) + Len(t)) : (a \o b)[k] = IF k <= Len(s) THEN a[k] ELSE b[k - Len(s)]
  <2>1. /\ a \o b \in Seq(Code) /\ Len(a \o b) = Len(a) + Len(b)
        /\ \A k \in 1..(Len(a) + Len(b)) : (a \o b)[k] = IF k <= Len(a) THEN a[k] ELSE b[k - Len(a)]
    BY <1>2, <1>3, ConcatProperties
  <2> QED
    BY <1>2, <1>3, <2>1, Zenon
<1>6. ASSUME NEW k \in 1..Len(c) PROVE c[k] = (a \o b)[k]
  <2>0. k \in 1..(Len(s) + Len(t))
    BY <1>0, <1>4
  <2>1. c[k] = IF u[k] \in gone THEN <<>> ELSE u[k]
    BY <1>4
  <2>2. CASE k <= Len(s)
    <3>1. k \in 1..Len(s) /\ u[k] = s[k] /\ (a \o b)[k] = a[k]
      BY <1>0, <1>1, <1>5, <2>0, <2>2
    <3> QED
      BY <1>2, <2>1, <3>1
  <2>3. CASE ~(k <= Len(s))
    <3>1. k - Len(s) \in 1..Len(t) /\ u[k] = t[k - Len(s)] /\ (a \o b)[k] = b[k - Len(s)]
      BY <1>0, <1>1, <1>5, <2>0, <2>3
    <3> QED
      BY <1>3, <2>1, <3>1
  <2> QED
    BY <2>2, <2>3
<1>7. c = a \o b
  BY <1>0, <1>4, <1>5, <1>6, SeqEqual
<1> QED
  BY <1>7 DEF a, b, c, u

\* Remaining takes concatenation to concatenation.
LEMMA RemainingIs ==
    ASSUME NEW gone
    PROVE  /\ Remaining(<<>>, gone) = <<>>
           /\ \A s \in Seq(Code) : Remaining(s, gone) \in Code
           /\ \A s, t \in Seq(Code) : Remaining(s \o t, gone) = Remaining(s, gone) \o Remaining(t, gone)
           /\ \A e \in Code : Remaining(<<e>>, gone) = IF e \in gone THEN <<>> ELSE e
<1>1. Remaining(<<>>, gone) = <<>>
  <2>1. <<>> \in Seq(Code)
    OBVIOUS
  <2>2. Len(Sifted(<<>>, gone)) = 0 /\ Sifted(<<>>, gone) \in Seq(Code)
        /\ Remaining(<<>>, gone) = FlattenSeq(Sifted(<<>>, gone))
    BY <2>1, SiftedIs
  <2>3. Sifted(<<>>, gone) = <<>>
    BY <2>2, EmptySeq
  <2>4. FlattenSeq(<<>>) = <<>>
    BY DEF FlattenSeq
  <2> QED
    BY <2>2, <2>3, <2>4
<1>2. ASSUME NEW s \in Seq(Code) PROVE Remaining(s, gone) \in Code
  <2>1. Sifted(s, gone) \in Seq(Code) /\ Remaining(s, gone) = FlattenSeq(Sifted(s, gone))
    BY SiftedIs
  <2>2. FlattenSeq(Sifted(s, gone)) \in Seq(0..255)
    BY <2>1, FlattenType DEF Code
  <2> QED
    BY <2>1, <2>2 DEF Code
<1>3. ASSUME NEW s \in Seq(Code), NEW t \in Seq(Code)
      PROVE  Remaining(s \o t, gone) = Remaining(s, gone) \o Remaining(t, gone)
  <2>1. Sifted(s, gone) \in Seq(Code) /\ Remaining(s, gone) = FlattenSeq(Sifted(s, gone))
    BY SiftedIs
  <2>2. Sifted(t, gone) \in Seq(Code) /\ Remaining(t, gone) = FlattenSeq(Sifted(t, gone))
    BY SiftedIs
  <2>3. s \o t \in Seq(Code)
    <3> HIDE DEF Code
    <3> QED
      OBVIOUS
  <2>4. Remaining(s \o t, gone) = FlattenSeq(Sifted(s \o t, gone))
    BY <2>3, SiftedIs
  <2>5. Sifted(s \o t, gone) = Sifted(s, gone) \o Sifted(t, gone)
    BY SiftedJoin
  <2>6. FlattenSeq(Sifted(s, gone) \o Sifted(t, gone)) =
            FlattenSeq(Sifted(s, gone)) \o FlattenSeq(Sifted(t, gone))
    BY <2>1, <2>2, FlattenJoin DEF Code
  <2> QED
    BY <2>1, <2>2, <2>4, <2>5, <2>6, Zenon
<1>4. ASSUME NEW e \in Code PROVE Remaining(<<e>>, gone) = IF e \in gone THEN <<>> ELSE e
  <2> DEFINE x == IF e \in gone THEN <<>> ELSE e
  <2>0. <<>> \in Code
    BY DEF Code
  <2>1. x \in Code /\ <<e>> \in Seq(Code) /\ Len(<<e>>) = 1 /\ <<e>>[1] = e
    <3> HIDE DEF Code
    <3> QED
      BY <2>0
  <2>2. /\ Sifted(<<e>>, gone) \in Seq(Code) /\ Len(Sifted(<<e>>, gone)) = 1
        /\ Sifted(<<e>>, gone)[1] = x
        /\ Remaining(<<e>>, gone) = FlattenSeq(Sifted(<<e>>, gone))
    BY <2>1, SiftedIs
  <2> HIDE DEF x, Code
  <2>3. <<x>> \in Seq(Code) /\ Len(<<x>>) = 1 /\ <<x>>[1] = x
    BY <2>1
  <2>4. \A i \in 1..Len(<<x>>) : Sifted(<<e>>, gone)[i] = <<x>>[i]
    BY <2>2, <2>3
  <2>5. Sifted(<<e>>, gone) = <<x>>
    BY <2>2, <2>3, <2>4, SeqEqual
  <2>6. FlattenSeq(<<x>>) = x
    BY <2>1, FlattenOne DEF Code
  <2> QED
    BY <2>2, <2>5, <2>6 DEF x
<1> QED
  BY <1>1, <1>2, <1>3, <1>4

(***************************************************************************)
(* Reading one opcode                                                      *)
(***************************************************************************)

\* The bytes of a script.
LEMMA CodeIs ==
    ASSUME NEW s \in Code
    PROVE  Len(s) \in Nat /\ \A i \in 1..Len(s) : s[i] \in 0..255 /\ s[i] \in Nat
<1>1. Len(s) \in Nat /\ \A i \in 1..Len(s) : s[i] \in 0..255
  BY LenProperties, ElementOfSeq, Zenon DEF Code
<1>2. \A b \in 0..255 : b \in Nat
  OBVIOUS
<1> QED
  BY <1>1, <1>2

\* A length is read from its bytes alone.
LEMMA LengthSame ==
    ASSUME NEW s \in Code, NEW v \in Code, NEW p \in Nat, NEW r \in Nat, NEW w \in {1, 2, 4},
           p + w <= Len(s), r + w <= Len(v), \A k \in 1..w : s[p + k] = v[r + k]
    PROVE  LittleEndian(s, p, w) = LittleEndian(v, r, w) /\ LittleEndian(s, p, w) \in Nat
<1>0. Len(s) \in Nat /\ \A i \in 1..Len(s) : s[i] \in Nat
  BY CodeIs
<1>1. \A k \in 1..w : p + k \in 1..Len(s) /\ s[p + k] \in Nat
  BY <1>0
<1>2. 1 \in 1..w /\ (w # 1 => 2 \in 1..w) /\ \A k \in 3..w : k \in 1..w
  OBVIOUS
<1>3. s[p + 1] = v[r + 1] /\ (w # 1 => s[p + 2] = v[r + 2]) /\ \A k \in 3..w : s[p + k] = v[r + k]
  BY <1>2
<1>4. LittleEndian(s, p, w) = LittleEndian(v, r, w)
  BY <1>3 DEF LittleEndian
<1>5. s[p + 1] \in Nat /\ (w # 1 => s[p + 2] \in Nat)
  BY <1>1, <1>2
<1>6. LittleEndian(s, p, w) \in Nat
  BY <1>5 DEF LittleEndian, TooLong
<1> QED
  BY <1>4, <1>6

\* A push opcode has so many bytes of length.
LEMMA LengthBytesIs ==
    ASSUME NEW op \in 0..255, ~(op > OP_PUSHDATA4)
    PROVE  LengthBytes(op) \in {0, 1, 2, 4}
BY DEF LengthBytes, OP_PUSHDATA1, OP_PUSHDATA2, OP_PUSHDATA4

\* The size of the data of a push at pc, whose length takes width bytes.
Size(s, pc, width) == IF width = 0 THEN s[pc + 1] ELSE LittleEndian(s, pc + 1, width)

\* get_op case by case.
OpIs(s, pc) ==
    /\ pc >= Len(s) => get_op(s, pc) = NoOp
    /\ pc < Len(s) /\ s[pc + 1] > OP_PUSHDATA4 => get_op(s, pc) = pc + 1
    /\ pc < Len(s) /\ ~(s[pc + 1] > OP_PUSHDATA4) =>
           LET w == LengthBytes(s[pc + 1])
               body == pc + 1 + w
           IN  /\ w \in {0, 1, 2, 4}
               /\ body > Len(s) => get_op(s, pc) = NoOp
               /\ body <= Len(s) =>
                      /\ Size(s, pc, w) \in Nat
                      /\ get_op(s, pc) = IF body + Size(s, pc, w) > Len(s) THEN NoOp
                                         ELSE body + Size(s, pc, w)

\* The cases hold of every offset.
LEMMA OpCases ==
    ASSUME NEW s \in Code, NEW pc \in Nat
    PROVE  OpIs(s, pc)
<1>0. Len(s) \in Nat
  BY DEF Code
<1>1. CASE pc >= Len(s)
  BY <1>0, <1>1 DEF OpIs, get_op
<1>2. CASE pc < Len(s) /\ s[pc + 1] > OP_PUSHDATA4
  <2>1. ~(pc >= Len(s))
    BY <1>0, <1>2
  <2> QED
    BY <1>2, <2>1, Zenon DEF OpIs, get_op
<1>3. CASE pc < Len(s) /\ ~(s[pc + 1] > OP_PUSHDATA4)
  <2> DEFINE w == LengthBytes(s[pc + 1])
             body == pc + 1 + w
  <2>0. ~(pc >= Len(s))
    BY <1>0, <1>3
  <2>1. s[pc + 1] \in 0..255 /\ s[pc + 1] \in Nat
    <3>1. pc + 1 \in 1..Len(s)
      BY <1>0, <1>3
    <3> QED
      BY <3>1, CodeIs
  <2>2. w \in {0, 1, 2, 4}
    BY <1>3, <2>1, LengthBytesIs
  <2>3. get_op(s, pc) = PastPush(s, pc, w)
    BY <1>3, <2>0, Zenon DEF get_op
  <2>4. PastPush(s, pc, w) = IF body > Len(s) THEN NoOp
                             ELSE IF body + Size(s, pc, w) > Len(s) THEN NoOp
                             ELSE body + Size(s, pc, w)
    BY DEF PastPush, Size
  <2> HIDE DEF w
  <2>5. ASSUME body <= Len(s) PROVE Size(s, pc, w) \in Nat
    <3>1. CASE w = 0
      BY <2>1, <3>1 DEF Size
    <3>2. CASE w # 0
      <4>1. w \in {1, 2, 4} /\ pc + 1 \in Nat /\ (pc + 1) + w <= Len(s)
        BY <2>2, <2>5, <3>2
      <4>2. LittleEndian(s, pc + 1, w) \in Nat
        BY <4>1, LengthSame
      <4> QED
        BY <3>2, <4>2 DEF Size
    <3> QED
      BY <3>1, <3>2
  <2>6. body > Len(s) => get_op(s, pc) = NoOp
    BY <2>3, <2>4
  <2>7. body <= Len(s) => get_op(s, pc) = IF body + Size(s, pc, w) > Len(s) THEN NoOp
                                          ELSE body + Size(s, pc, w)
    <3>1. body <= Len(s) => ~(body > Len(s))
      BY <1>0, <2>2
    <3> QED
      BY <2>3, <2>4, <3>1, Zenon
  <2> QED
    BY <1>3, <2>0, <2>2, <2>5, <2>6, <2>7, Zenon DEF OpIs, w
<1> QED
  BY <1>0, <1>1, <1>2, <1>3

\* An opcode that can be read has a byte, and ends within the script.
LEMMA OpRange ==
    ASSUME NEW s \in Code, NEW pc \in Nat, get_op(s, pc) # NoOp
    PROVE  pc < Len(s) /\ get_op(s, pc) \in (pc + 1)..Len(s)
<1>0. Len(s) \in Nat
  BY DEF Code
<1>1. OpIs(s, pc)
  BY OpCases
<1>2. pc < Len(s)
  BY <1>0, <1>1 DEF OpIs
<1>3. CASE s[pc + 1] > OP_PUSHDATA4
  BY <1>0, <1>1, <1>2, <1>3 DEF OpIs
<1>4. CASE ~(s[pc + 1] > OP_PUSHDATA4)
  <2> DEFINE w == LengthBytes(s[pc + 1])
             z == Size(s, pc, w)
             body == pc + 1 + w
  <2>1. /\ w \in {0, 1, 2, 4}
        /\ body > Len(s) => get_op(s, pc) = NoOp
        /\ body <= Len(s) =>
               /\ z \in Nat
               /\ get_op(s, pc) = IF body + z > Len(s) THEN NoOp ELSE body + z
    BY <1>1, <1>2, <1>4, Zenon DEF OpIs
  <2> HIDE DEF w, z
  <2> QED
    BY <1>0, <1>2, <2>1
<1> QED
  BY <1>2, <1>3, <1>4

\* An opcode is read from its own bytes alone, wherever they stand.
LEMMA SameOp ==
    ASSUME NEW s \in Code, NEW v \in Code, NEW p \in Nat, NEW r \in Nat, NEW m \in Nat,
           p + m <= Len(s), r + m <= Len(v), \A k \in 1..m : s[p + k] = v[r + k],
           get_op(v, r) # NoOp, get_op(v, r) <= r + m
    PROVE  get_op(s, p) = p + (get_op(v, r) - r)
<1> DEFINE q == get_op(v, r)
<1>0. Len(s) \in Nat /\ Len(v) \in Nat
  BY DEF Code
<1>1. r < Len(v) /\ q \in (r + 1)..Len(v) /\ q <= r + m
  BY OpRange
<1>2. OpIs(s, p) /\ OpIs(v, r)
  BY OpCases
<1>3. 1 \in 1..m /\ s[p + 1] = v[r + 1] /\ p < Len(s)
  BY <1>0, <1>1
<1>4. CASE v[r + 1] > OP_PUSHDATA4
  <2>1. q = r + 1 /\ get_op(s, p) = p + 1
    BY <1>1, <1>2, <1>3, <1>4 DEF OpIs
  <2> QED
    BY <2>1
<1>5. CASE ~(v[r + 1] > OP_PUSHDATA4)
  <2> DEFINE w == LengthBytes(v[r + 1])
             z == Size(v, r, w)
             y == Size(s, p, w)
             op == get_op(s, p)
  <2>1. /\ w \in {0, 1, 2, 4}
        /\ r + 1 + w > Len(v) => q = NoOp
        /\ r + 1 + w <= Len(v) =>
               /\ z \in Nat
               /\ q = IF r + 1 + w + z > Len(v) THEN NoOp ELSE r + 1 + w + z
    BY <1>1, <1>2, <1>5, Zenon DEF OpIs
  <2>2. /\ p + 1 + w > Len(s) => op = NoOp
        /\ p + 1 + w <= Len(s) =>
               /\ y \in Nat
               /\ op = IF p + 1 + w + y > Len(s) THEN NoOp ELSE p + 1 + w + y
    BY <1>2, <1>3, <1>5, Zenon DEF OpIs
  <2>3. w \in Nat /\ r + 1 + w <= Len(v) /\ z \in Nat /\ q = r + 1 + w + z
    <3> HIDE DEF w, z
    <3> QED
      BY <1>0, <1>1, <2>1
  <2>4. p + 1 + w <= Len(s) /\ p + 1 + w + z <= Len(s)
    <3> HIDE DEF w, z, q
    <3> QED
      BY <1>0, <1>1, <2>3
  <2>5. y = z
    <3>1. CASE w = 0
      BY <1>3, <3>1 DEF Size
    <3>2. CASE w # 0
      <4>1. w \in {1, 2, 4} /\ 1 + w <= m
        <5> HIDE DEF w, z, q
        <5> QED
          BY <1>0, <1>1, <2>1, <2>3, <3>2
      <4> HIDE DEF w
      <4>2. p + 1 \in Nat /\ r + 1 \in Nat /\ (p + 1) + w <= Len(s) /\ (r + 1) + w <= Len(v)
        BY <2>3, <2>4, <4>1
      <4>3. ASSUME NEW k \in 1..w PROVE s[(p + 1) + k] = v[(r + 1) + k]
        <5>1. 1 + k \in 1..m /\ p + (1 + k) = (p + 1) + k /\ r + (1 + k) = (r + 1) + k
          BY <4>1
        <5>2. s[p + (1 + k)] = v[r + (1 + k)]
          BY <5>1
        <5> QED
          BY <5>1, <5>2
      <4>4. LittleEndian(s, p + 1, w) = LittleEndian(v, r + 1, w)
        <5> DEFINE p1 == p + 1
                   r1 == r + 1
        <5>1. /\ p1 \in Nat /\ r1 \in Nat /\ p1 + w <= Len(s) /\ r1 + w <= Len(v)
              /\ \A k \in 1..w : s[p1 + k] = v[r1 + k]
          BY <4>2, <4>3
        <5> HIDE DEF p1, r1
        <5>2. w \in {1, 2, 4}
          BY <4>1
        <5>3. LittleEndian(s, p1, w) = LittleEndian(v, r1, w)
          BY <5>1, <5>2, LengthSame
        <5> QED
          BY <5>3 DEF p1, r1
      <4> QED
        BY <3>2, <4>4 DEF Size
    <3> QED
      BY <3>1, <3>2
  <2> HIDE DEF w, z, y, q, op
  <2>6. op = p + 1 + w + z
    BY <1>0, <2>2, <2>3, <2>4, <2>5
  <2>7. op = p + (q - r)
    BY <2>3, <2>6
  <2> QED
    BY <2>7 DEF op, q
<1> QED
  BY <1>4, <1>5

\* An opcode with all that it pushes, and bytes where no opcode can be read.
Whole(op) == op \in Code /\ op # <<>> /\ get_op(op, 0) = Len(op)
Torn(u) == u \in Code /\ get_op(u, 0) = NoOp

\* What being whole amounts to.
LEMMA WholeIs ==
    ASSUME NEW op, Whole(op)
    PROVE  /\ op \in Code /\ Len(op) \in Nat \ {0}
           /\ get_op(op, 0) = Len(op) /\ get_op(op, 0) # NoOp
<1>1. op \in Code /\ op # <<>> /\ get_op(op, 0) = Len(op)
  BY DEF Whole
<1>2. Len(op) \in Nat \ {0}
  BY <1>1, EmptySeq DEF Code
<1> QED
  BY <1>1, <1>2 DEF NoOp

\* What stands in s behind offset o, for pieces of s.
Piece(s, o, v) ==
    /\ s \in Code /\ v \in Code
    /\ o \in Nat /\ o + Len(v) <= Len(s)
    /\ \A k \in 1..Len(v) : s[o + k] = v[k]

\* A piece, said with the bytes between two offsets.
LEMMA PieceIsBetween ==
    ASSUME NEW s \in Code, NEW v \in Code, NEW o \in Nat, o + Len(v) <= Len(s)
    PROVE  Piece(s, o, v) <=> Between(s, o, o + Len(v)) = v
<1> DEFINE n == Len(v)
           b == Between(s, o, o + n)
<1>0. n \in Nat /\ Len(s) \in Nat /\ \A i \in 1..Len(s) : s[i] \in 0..255
  BY CodeIs
<1>1. \A k \in 1..n : o + k \in 1..Len(s)
  BY <1>0
<1>2. b \in Seq(0..255) /\ Len(b) = n /\ \A k \in 1..n : b[k] = s[o + k]
  <2>1. o + 1 \in Int /\ o + n \in Int /\ \A i \in (o + 1)..(o + n) : s[i] \in 0..255
    <3>1. \A i \in (o + 1)..(o + n) : i \in 1..Len(s)
      BY <1>0
    <3> QED
      BY <1>0, <3>1
  <2>2. /\ b \in Seq(0..255)
        /\ Len(b) = IF o + 1 <= o + n THEN (o + n) - (o + 1) + 1 ELSE 0
        /\ \A i \in 1..((o + n) - (o + 1) + 1) : b[i] = s[(o + 1) + i - 1]
    BY <2>1, SubSeqProperties DEF Between
  <2> HIDE DEF n, b
  <2>3. (o + n) - (o + 1) + 1 = n /\ \A i \in 1..n : (o + 1) + i - 1 = o + i
    BY <1>0
  <2> QED
    BY <1>0, <2>2, <2>3
<1> HIDE DEF n, b
<1>3. ASSUME b = v PROVE Piece(s, o, v)
  BY <1>0, <1>2, <1>3 DEF Piece, n
<1>4. ASSUME Piece(s, o, v) PROVE b = v
  <2>1. v \in Seq(0..255) /\ Len(v) = n /\ \A k \in 1..n : v[k] = s[o + k]
    BY <1>4 DEF Piece, n, Code
  <2> QED
    BY <1>2, <2>1, SeqEqual
<1> QED
  BY <1>3, <1>4 DEF b, n

\* The middle of a concatenation is a piece of it.
LEMMA PieceOfJoin ==
    ASSUME NEW a \in Code, NEW v \in Code, NEW t \in Code
    PROVE  /\ a \o (v \o t) \in Code /\ a \o v \in Code
           /\ Len(a \o (v \o t)) = Len(a) + Len(v) + Len(t)
           /\ Piece(a \o (v \o t), Len(a), v)
           /\ Piece(a \o v, Len(a), v)
<1> DEFINE B == 0..255
<1>0. a \in Seq(B) /\ v \in Seq(B) /\ t \in Seq(B)
  BY DEF Code
<1>1. Len(a) \in Nat /\ Len(v) \in Nat /\ Len(t) \in Nat
  BY CodeIs
<1> HIDE DEF B
<1>2. Joined(B, v, t) /\ Joined(B, a, v)
  BY <1>0, JoinIs
<1>3. v \o t \in Seq(B) /\ Len(v \o t) = Len(v) + Len(t)
      /\ \A i \in 1..Len(v) : (v \o t)[i] = v[i]
  BY <1>2 DEF Joined
<1>4. Joined(B, a, v \o t)
  BY <1>0, <1>3, JoinIs
<1>5. /\ a \o (v \o t) \in Seq(B) /\ Len(a \o (v \o t)) = Len(a) + Len(v) + Len(t)
      /\ \A i \in 1..(Len(v) + Len(t)) : (a \o (v \o t))[Len(a) + i] = (v \o t)[i]
  BY <1>1, <1>3, <1>4 DEF Joined
<1>6. \A i \in 1..Len(v) : (a \o (v \o t))[Len(a) + i] = v[i]
  <2>1. \A i \in 1..Len(v) : i \in 1..(Len(v) + Len(t))
    BY <1>1
  <2> QED
    BY <1>3, <1>5, <2>1
<1>7. /\ a \o v \in Seq(B) /\ Len(a \o v) = Len(a) + Len(v)
      /\ \A i \in 1..Len(v) : (a \o v)[Len(a) + i] = v[i]
  BY <1>2 DEF Joined
<1>8. a \o (v \o t) \in Code /\ a \o v \in Code
  BY <1>5, <1>7 DEF Code, B
<1> QED
  BY <1>1, <1>5, <1>6, <1>7, <1>8 DEF Piece

\* A whole opcode is read wherever it stands.
LEMMA OpAtPiece ==
    ASSUME NEW s, NEW o, NEW op, Piece(s, o, op), Whole(op)
    PROVE  get_op(s, o) = o + Len(op) /\ get_op(s, o) # NoOp
<1>1. s \in Code /\ op \in Code /\ o \in Nat /\ o + Len(op) <= Len(s)
      /\ \A k \in 1..Len(op) : s[o + k] = op[k]
  BY DEF Piece
<1>2. Len(op) \in Nat \ {0} /\ get_op(op, 0) = Len(op) /\ get_op(op, 0) # NoOp
  BY WholeIs
<1> DEFINE m == Len(op)
           z == 0
<1>3. /\ m \in Nat /\ z \in Nat /\ o + m <= Len(s) /\ z + m <= Len(op)
      /\ \A k \in 1..m : s[o + k] = op[z + k]
      /\ get_op(op, z) # NoOp /\ get_op(op, z) <= z + m
  BY <1>1, <1>2
<1>5. get_op(op, z) - z = m /\ o + m # NoOp
  BY <1>1, <1>2 DEF NoOp
<1> HIDE DEF m, z
<1>4. get_op(s, o) = o + (get_op(op, z) - z)
  BY <1>1, <1>3, SameOp
<1> QED
  BY <1>4, <1>5 DEF m

\* None is read where the torn bytes begin.
LEMMA NoOpAtTorn ==
    ASSUME NEW a \in Code, NEW u, Torn(u)
    PROVE  get_op(a \o u, Len(a)) = NoOp
<1> DEFINE s == a \o u
           p == Len(a)
           q == get_op(s, p)
           z == 0
           m == q - p
<1>0. u \in Code /\ get_op(u, z) = NoOp
  BY DEF Torn
<1>1. Piece(s, p, u) /\ s \in Code /\ p \in Nat /\ Len(u) \in Nat /\ Len(s) = p + Len(u)
  <2>1. Piece(a \o u, Len(a), u) /\ a \o u \in Code
    BY <1>0, PieceOfJoin, EmptySeq
  <2>2. Len(a) \in Nat /\ Len(u) \in Nat
    BY <1>0, CodeIs
  <2>3. Len(a \o u) = Len(a) + Len(u)
    BY <1>0, ConcatProperties DEF Code
  <2> QED
    BY <2>1, <2>2, <2>3
<1>2. SUFFICES ASSUME q # NoOp PROVE FALSE
  OBVIOUS
<1>3. q \in (p + 1)..Len(s)
  BY <1>1, <1>2, OpRange
<1> HIDE DEF s, p, q
<1>4. /\ m \in Nat /\ z \in Nat /\ z + m <= Len(u) /\ p + m <= Len(s) /\ q <= p + m /\ m # NoOp
      /\ \A k \in 1..m : u[z + k] = s[p + k]
  <2>1. m \in Nat /\ m <= Len(u) /\ p + m = q
    BY <1>1, <1>3
  <2>2. \A k \in 1..m : k \in 1..Len(u) /\ 0 + k = k
    BY <1>1, <2>1
  <2>3. \A k \in 1..m : u[0 + k] = s[p + k]
    BY <1>1, <2>2 DEF Piece
  <2> QED
    BY <1>1, <1>3, <2>1, <2>3 DEF NoOp
<1> HIDE DEF m, z
<1>5. get_op(u, z) = z + (get_op(s, p) - p)
  BY <1>0, <1>1, <1>2, <1>4, SameOp DEF q
<1>6. get_op(u, z) = m
  BY <1>1, <1>3, <1>5 DEF m, z, q
<1> QED
  BY <1>0, <1>4, <1>6

\* The first opcode of a script, and the rest of it.
LEMMA FirstOp ==
    ASSUME NEW v \in Code, get_op(v, 0) # NoOp
    PROVE  LET op == SubSeq(v, 1, get_op(v, 0))
               rest == From(v, get_op(v, 0))
           IN  Whole(op) /\ rest \in Code /\ v = op \o rest /\ Len(rest) < Len(v)
<1> DEFINE q == get_op(v, 0)
           op == SubSeq(v, 1, q)
           rest == From(v, q)
           B == 0..255
           z == 0
<1>0. v \in Seq(B) /\ Len(v) \in Nat
  BY CodeIs DEF Code
<1>1. q \in 1..Len(v) /\ q # NoOp
  <2>1. 0 \in Nat /\ 0 + 1 = 1
    OBVIOUS
  <2>2. q \in (0 + 1)..Len(v)
    BY <2>1, OpRange, Zenon
  <2> QED
    BY <2>1, <2>2
<1>9. q = get_op(v, z)
  OBVIOUS
<1> HIDE DEF q, B
<1>2. op \in Seq(B) /\ Len(op) = q /\ \A k \in 1..q : op[k] = v[k]
  BY <1>0, <1>1
<1>3. rest \in Seq(B) /\ Len(rest) = Len(v) - q
  BY <1>0, <1>1 DEF From
<1>4. v = op \o rest
  <2>1. SubSeq(v, 1, q) \o SubSeq(v, q + 1, Len(v)) = SubSeq(v, 1, Len(v))
    <3>1. 1 \in 1..(Len(v) + 1) /\ q \in (1 - 1)..Len(v) /\ Len(v) \in q..Len(v)
      BY <1>0, <1>1
    <3> QED
      BY <1>0, <3>1, ConcatAdjacentSubSeq
  <2>2. SubSeq(v, 1, Len(v)) = v
    BY <1>0, SubSeqFull
  <2> QED
    BY <2>1, <2>2 DEF From
<1>5. Whole(op)
  <2>1. op \in Code /\ op # <<>>
    <3> HIDE DEF op
    <3>1. Len(op) # 0
      BY <1>1, <1>2
    <3>2. Len(<<>>) = 0
      OBVIOUS
    <3>3. op \in Code
      BY <1>2 DEF Code, B
    <3> QED
      BY <3>1, <3>2, <3>3, Zenon
  <2>2. /\ q \in Nat /\ z \in Nat /\ z + q <= Len(op) /\ z + q <= Len(v) /\ q <= z + q
        /\ \A k \in 1..q : op[z + k] = v[z + k]
    BY <1>0, <1>1, <1>2
  <2> HIDE DEF op, z
  <2>3. get_op(op, z) = z + (get_op(v, z) - z)
    BY <1>1, <1>9, <2>1, <2>2, SameOp
  <2>4. get_op(op, z) = Len(op)
    BY <1>1, <1>2, <1>9, <2>3 DEF z
  <2> QED
    BY <2>1, <2>4 DEF Whole, z
<1>6. rest \in Code /\ Len(rest) < Len(v)
  BY <1>0, <1>1, <1>3 DEF Code, B
<1> QED
  BY <1>4, <1>5, <1>6 DEF q

\* The push being deleted lies at an opcode when it is that opcode.
LEMMA PushAtOp ==
    ASSUME NEW s, NEW o, NEW op, Piece(s, o, op), Whole(op), NEW push, Whole(push)
    PROVE  IsAt(s, o, push) <=> op = push
<1>1. /\ s \in Code /\ op \in Code /\ push \in Code /\ o \in Nat
      /\ Len(op) \in Nat /\ Len(push) \in Nat /\ o + Len(op) <= Len(s)
  BY WholeIs, CodeIs DEF Piece
<1>2. ASSUME op = push PROVE IsAt(s, o, push)
  BY <1>1, <1>2, PieceIsBetween DEF IsAt
<1>3. ASSUME IsAt(s, o, push) PROVE op = push
  <2>1. Piece(s, o, push)
    BY <1>1, <1>3, PieceIsBetween DEF IsAt
  <2>2. get_op(s, o) = o + Len(push) /\ get_op(s, o) = o + Len(op)
    BY <2>1, OpAtPiece
  <2>3. Len(push) = Len(op)
    BY <1>1, <2>2
  <2>4. \A k \in 1..Len(op) : op[k] = push[k]
    BY <2>1, <2>3 DEF Piece
  <2> QED
    BY <1>1, <2>3, <2>4, SeqEqual DEF Code
<1> QED
  BY <1>2, <1>3

\* And nowhere where no opcode can be read.
LEMMA PushAtNoOp ==
    ASSUME NEW s \in Code, NEW o \in Nat, get_op(s, o) = NoOp, NEW push, Whole(push)
    PROVE  ~IsAt(s, o, push)
<1>1. push \in Code
  BY WholeIs
<1>2. ASSUME IsAt(s, o, push) PROVE FALSE
  <2>1. Piece(s, o, push)
    BY <1>1, <1>2, PieceIsBetween DEF IsAt
  <2> QED
    BY <2>1, OpAtPiece
<1> QED
  BY <1>2

\* What is behind the first part.
LEMMA FromJoin ==
    ASSUME NEW a \in Code, NEW v \in Code
    PROVE  From(a \o v, Len(a)) = v
<1> DEFINE B == 0..255
<1>0. a \in Seq(B) /\ v \in Seq(B) /\ Len(a) \in Nat /\ Len(v) \in Nat
  BY CodeIs DEF Code
<1> HIDE DEF B
<1>1. Joined(B, a, v)
  BY <1>0, JoinIs
<1> DEFINE s == a \o v
           f == SubSeq(s, Len(a) + 1, Len(s))
<1>2. s \in Seq(B) /\ Len(s) = Len(a) + Len(v) /\ \A i \in 1..Len(v) : s[Len(a) + i] = v[i]
  BY <1>1 DEF Joined
<1> HIDE DEF s
<1>3. f \in Seq(B) /\ Len(f) = Len(v) /\ \A i \in 1..Len(v) : f[i] = s[Len(a) + i]
  BY <1>0, <1>2
<1> HIDE DEF f
<1>4. f = v
  BY <1>0, <1>2, <1>3, SeqEqual
<1> QED
  BY <1>4 DEF f, s, From

(***************************************************************************)
(* Reading a script                                                        *)
(***************************************************************************)

\* A script is opcodes and torn bytes behind them.
ParsesWhole(s, ops, rest) ==
    /\ ops \in Seq(Code) /\ \A k \in 1..Len(ops) : Whole(ops[k])
    /\ Torn(rest)
    /\ s = Remaining(ops, {}) \o rest

\* In one way at least.
LEMMA ParseExists ==
    ASSUME NEW s \in Code
    PROVE  \E ops, rest : ParsesWhole(s, ops, rest)
<1> DEFINE Good == {m \in Nat : \A v \in Code : Len(v) <= m => \E ops, rest : ParsesWhole(v, ops, rest)}
<1>1. ASSUME NEW v \in Code, get_op(v, 0) = NoOp PROVE ParsesWhole(v, <<>>, v)
  <2>1. Remaining(<<>>, {}) = <<>>
    BY RemainingIs
  <2>2. <<>> \in Seq(Code) /\ Len(<<>>) = 0
    BY EmptySeq
  <2>3. <<>> \o v = v
    BY ConcatEmptySeq DEF Code
  <2>4. Torn(v)
    BY <1>1 DEF Torn
  <2>5. \A k \in 1..Len(<<>>) : Whole(<<>>[k])
    BY <2>2
  <2> QED
    BY <2>1, <2>2, <2>3, <2>4, <2>5 DEF ParsesWhole
<1>2. ASSUME NEW v \in Code, get_op(v, 0) # NoOp,
             NEW ops, NEW rest, ParsesWhole(From(v, get_op(v, 0)), ops, rest)
      PROVE  ParsesWhole(v, <<SubSeq(v, 1, get_op(v, 0))>> \o ops, rest)
  <2> DEFINE op == SubSeq(v, 1, get_op(v, 0))
             w == From(v, get_op(v, 0))
             all == <<op>> \o ops
  <2>1. Whole(op) /\ w \in Code /\ v = op \o w
    BY <1>2, FirstOp
  <2>2. ops \in Seq(Code) /\ (\A k \in 1..Len(ops) : Whole(ops[k])) /\ Torn(rest)
        /\ w = Remaining(ops, {}) \o rest
    BY <1>2 DEF ParsesWhole
  <2>3. op \in Code /\ rest \in Code
    BY <2>1, <2>2 DEF Whole, Torn
  <2> HIDE DEF op, w
  <2>4. all \in Seq(Code) /\ <<op>> \in Seq(Code) /\ Len(all) = 1 + Len(ops)
        /\ \A k \in 1..(1 + Len(ops)) : all[k] = IF k = 1 THEN op ELSE ops[k - 1]
    <3> HIDE DEF Code
    <3> QED
      BY <2>2, <2>3
  <2>5. Remaining(<<op>>, {}) = op
    BY <2>3, RemainingIs
  <2>6. Remaining(all, {}) = op \o Remaining(ops, {}) /\ Remaining(ops, {}) \in Code
    <3>1. \A g, h \in Seq(Code) : Remaining(g \o h, {}) = Remaining(g, {}) \o Remaining(h, {})
      BY RemainingIs
    <3>2. Remaining(<<op>> \o ops, {}) = Remaining(<<op>>, {}) \o Remaining(ops, {})
      BY <2>2, <2>4, <3>1, Zenon
    <3>3. Remaining(ops, {}) \in Code
      BY <2>2, RemainingIs
    <3> QED
      BY <2>5, <3>2, <3>3, Zenon
  <2>7. op \o (Remaining(ops, {}) \o rest) = (op \o Remaining(ops, {})) \o rest
    BY <2>3, <2>6, CodeJoin, Zenon
  <2>8. \A k \in 1..Len(all) : Whole(all[k])
    <3>1. \A k \in 1..Len(all) : k = 1 \/ k - 1 \in 1..Len(ops)
      BY <2>2, <2>4
    <3> QED
      BY <2>1, <2>2, <2>4, <3>1
  <2>9. v = Remaining(all, {}) \o rest
    BY <2>1, <2>2, <2>6, <2>7
  <2> QED
    BY <2>2, <2>4, <2>8, <2>9 DEF ParsesWhole, op
<1>3. 0 \in Good
  <2>1. ASSUME NEW v \in Code, Len(v) <= 0 PROVE get_op(v, 0) = NoOp
    <3>1. 0 \in Nat /\ Len(v) \in Nat
      BY CodeIs
    <3>2. ~(0 < Len(v))
      BY <2>1, <3>1
    <3> QED
      BY <3>1, <3>2, OpRange, Zenon
  <2> QED
    BY <1>1, <2>1
<1>4. ASSUME NEW m \in Nat, m \in Good PROVE m + 1 \in Good
  <2> SUFFICES ASSUME NEW v \in Code, Len(v) <= m + 1
               PROVE  \E ops, rest : ParsesWhole(v, ops, rest)
    OBVIOUS
  <2>1. CASE get_op(v, 0) = NoOp
    BY <1>1, <2>1
  <2>2. CASE get_op(v, 0) # NoOp
    <3> DEFINE w == From(v, get_op(v, 0))
    <3>1. w \in Code /\ Len(w) < Len(v)
      BY <2>2, FirstOp
    <3> HIDE DEF w
    <3>2. Len(w) <= m
      BY <3>1, CodeIs
    <3>3. PICK ops, rest : ParsesWhole(w, ops, rest)
      BY <1>4, <3>1, <3>2
    <3> QED
      BY <1>2, <2>2, <3>3 DEF w
  <2> QED
    BY <2>1, <2>2
<1>5. Nat \subseteq Good
  <2> HIDE DEF Good
  <2> QED
    BY <1>3, <1>4, SetInduction
<1>6. Len(s) \in Good
  <2> HIDE DEF Good
  <2> QED
    BY <1>5, CodeIs
<1> QED
  BY <1>6, CodeIs

(***************************************************************************)
(* Where the opcodes of a script stand                                     *)
(***************************************************************************)

\* A list of opcodes in two: the bytes of the first k, and of the others but
\* for some.
Ahead(L, k) == Remaining(SubSeq(L, 1, k), {})
Back(L, k, gone) == Remaining(SubSeq(L, k + 1, Len(L)), gone)

\* Where the k-th opcode ends.
Bound(L, k) == Len(Ahead(L, k))

\* The parts of a list of opcodes.
LEMMA ListIs ==
    ASSUME NEW L \in Seq(Code)
    PROVE  /\ Len(L) \in Nat
           /\ \A k \in 1..Len(L) : L[k] \in Code
           /\ \A k \in 0..Len(L) : SubSeq(L, 1, k) \in Seq(Code) /\ SubSeq(L, k + 1, Len(L)) \in Seq(Code)
<1>1. Len(L) \in Nat /\ \A k \in 1..Len(L) : L[k] \in Code
  BY LenProperties, ElementOfSeq, Zenon
<1>2. ASSUME NEW k \in 0..Len(L) PROVE SubSeq(L, 1, k) \in Seq(Code)
  <2>1. 1 \in Int /\ k \in Int /\ \A i \in 1..k : i \in 1..Len(L)
    BY <1>1
  <2>2. \A i \in 1..k : L[i] \in Code
    BY <1>1, <2>1
  <2> QED
    BY <2>1, <2>2, SubSeqProperties
<1>3. ASSUME NEW k \in 0..Len(L) PROVE SubSeq(L, k + 1, Len(L)) \in Seq(Code)
  <2>1. k + 1 \in Int /\ Len(L) \in Int /\ \A i \in (k + 1)..Len(L) : i \in 1..Len(L)
    BY <1>1
  <2>2. \A i \in (k + 1)..Len(L) : L[i] \in Code
    BY <1>1, <2>1
  <2> DEFINE a == k + 1
  <2> HIDE DEF a
  <2> QED
    BY <2>1, <2>2, SubSeqProperties DEF a
<1> QED
  BY <1>1, <1>2, <1>3

\* The bytes of the later opcodes, one opcode after the other.
LEMMA BackIs ==
    ASSUME NEW L \in Seq(Code), NEW gone
    PROVE  /\ Back(L, Len(L), gone) = <<>>
           /\ Back(L, 0, gone) = Remaining(L, gone)
           /\ \A k \in 0..Len(L) : Back(L, k, gone) \in Code
           /\ \A k \in 1..Len(L) : Back(L, k - 1, gone) =
                  (IF L[k] \in gone THEN <<>> ELSE L[k]) \o Back(L, k, gone)
<1>0. /\ Len(L) \in Nat
      /\ \A k \in 1..Len(L) : L[k] \in Code
      /\ \A k \in 0..Len(L) : SubSeq(L, 1, k) \in Seq(Code) /\ SubSeq(L, k + 1, Len(L)) \in Seq(Code)
  BY ListIs
<1>1. Back(L, Len(L), gone) = <<>>
  <2>1. SubSeq(L, Len(L) + 1, Len(L)) = <<>>
    BY <1>0, SubSeqEmpty
  <2> QED
    BY <2>1, RemainingIs DEF Back
<1>2. Back(L, 0, gone) = Remaining(L, gone)
  <2>1. SubSeq(L, 1, Len(L)) = L /\ 0 + 1 = 1
    BY SubSeqFull
  <2> QED
    BY <2>1 DEF Back
<1>3. ASSUME NEW k \in 0..Len(L) PROVE Back(L, k, gone) \in Code
  <2>1. SubSeq(L, k + 1, Len(L)) \in Seq(Code)
    BY <1>0
  <2>2. \A w \in Seq(Code) : Remaining(w, gone) \in Code
    BY RemainingIs
  <2> QED
    BY <2>1, <2>2, Zenon DEF Back
<1>4. ASSUME NEW k \in 1..Len(L)
      PROVE  Back(L, k - 1, gone) = (IF L[k] \in gone THEN <<>> ELSE L[k]) \o Back(L, k, gone)
  <2>1. SubSeq(L, k, Len(L)) = <<L[k]>> \o SubSeq(L, k + 1, Len(L))
    <3>1. Len(L) \in k..Len(L)
      BY <1>0
    <3> QED
      BY <3>1, SubSeqRecursiveFirst
  <2>2. (k - 1) + 1 = k /\ k \in 0..Len(L) /\ L[k] \in Code
    BY <1>0
  <2>3. <<L[k]>> \in Seq(Code)
    <3> HIDE DEF Code
    <3> QED
      BY <2>2
  <2>4. SubSeq(L, k + 1, Len(L)) \in Seq(Code)
    BY <1>0, <2>2
  <2>5. /\ \A g, h \in Seq(Code) : Remaining(g \o h, gone) = Remaining(g, gone) \o Remaining(h, gone)
        /\ \A e \in Code : Remaining(<<e>>, gone) = IF e \in gone THEN <<>> ELSE e
    BY RemainingIs
  <2>6. Remaining(<<L[k]>> \o SubSeq(L, k + 1, Len(L)), gone) =
            Remaining(<<L[k]>>, gone) \o Remaining(SubSeq(L, k + 1, Len(L)), gone)
    BY <2>3, <2>4, <2>5, Zenon
  <2>7. Remaining(<<L[k]>>, gone) = IF L[k] \in gone THEN <<>> ELSE L[k]
    BY <2>2, <2>5, Zenon
  <2>8. Back(L, k - 1, gone) = Remaining(SubSeq(L, k, Len(L)), gone)
    BY <2>2 DEF Back
  <2> QED
    BY <2>1, <2>6, <2>7, <2>8, Zenon DEF Back
<1> QED
  BY <1>1, <1>2, <1>3, <1>4

\* The bytes of the earlier opcodes, and all of them in two.
LEMMA AheadIs ==
    ASSUME NEW L \in Seq(Code)
    PROVE  /\ Ahead(L, 0) = <<>>
           /\ \A k \in 0..Len(L) : Ahead(L, k) \in Code
           /\ \A k \in 1..Len(L) : Ahead(L, k) = Ahead(L, k - 1) \o L[k]
           /\ \A k \in 0..Len(L) : Remaining(L, {}) = Ahead(L, k) \o Back(L, k, {})
<1>0. /\ Len(L) \in Nat
      /\ \A k \in 1..Len(L) : L[k] \in Code
      /\ \A k \in 0..Len(L) : SubSeq(L, 1, k) \in Seq(Code) /\ SubSeq(L, k + 1, Len(L)) \in Seq(Code)
  BY ListIs
<1>9. /\ \A g, h \in Seq(Code) : Remaining(g \o h, {}) = Remaining(g, {}) \o Remaining(h, {})
      /\ \A e \in Code : Remaining(<<e>>, {}) = e
  BY RemainingIs
<1>1. Ahead(L, 0) = <<>>
  <2>1. SubSeq(L, 1, 0) = <<>>
    BY SubSeqEmpty
  <2> QED
    BY <2>1, RemainingIs DEF Ahead
<1>2. ASSUME NEW k \in 0..Len(L) PROVE Ahead(L, k) \in Code
  <2>1. SubSeq(L, 1, k) \in Seq(Code)
    BY <1>0
  <2>2. \A w \in Seq(Code) : Remaining(w, {}) \in Code
    BY RemainingIs
  <2> QED
    BY <2>1, <2>2, Zenon DEF Ahead
<1>3. ASSUME NEW k \in 1..Len(L) PROVE Ahead(L, k) = Ahead(L, k - 1) \o L[k]
  <2>1. SubSeq(L, 1, k) = SubSeq(L, 1, k - 1) \o <<L[k]>>
    <3>1. 1 \in 1..Len(L) /\ k \in 1..Len(L)
      BY <1>0
    <3> QED
      BY <3>1, SubSeqRecursiveSecond
  <2>2. k - 1 \in 0..Len(L) /\ L[k] \in Code
    BY <1>0
  <2>3. <<L[k]>> \in Seq(Code)
    <3> HIDE DEF Code
    <3> QED
      BY <2>2
  <2>4. SubSeq(L, 1, k - 1) \in Seq(Code)
    BY <1>0, <2>2
  <2>5. Remaining(SubSeq(L, 1, k - 1) \o <<L[k]>>, {}) =
            Remaining(SubSeq(L, 1, k - 1), {}) \o Remaining(<<L[k]>>, {})
    BY <1>9, <2>3, <2>4, Zenon
  <2>6. Remaining(<<L[k]>>, {}) = L[k]
    BY <1>9, <2>2, Zenon
  <2> QED
    BY <2>1, <2>5, <2>6, Zenon DEF Ahead
<1>4. ASSUME NEW k \in 0..Len(L) PROVE Remaining(L, {}) = Ahead(L, k) \o Back(L, k, {})
  <2>1. SubSeq(L, 1, k) \o SubSeq(L, k + 1, Len(L)) = SubSeq(L, 1, Len(L))
    <3>1. 1 \in 1..(Len(L) + 1) /\ k \in (1 - 1)..Len(L) /\ Len(L) \in k..Len(L)
      BY <1>0
    <3> QED
      BY <3>1, ConcatAdjacentSubSeq
  <2>2. SubSeq(L, 1, Len(L)) = L
    BY SubSeqFull
  <2>3. SubSeq(L, 1, k) \in Seq(Code) /\ SubSeq(L, k + 1, Len(L)) \in Seq(Code)
    BY <1>0
  <2>4. Remaining(SubSeq(L, 1, k) \o SubSeq(L, k + 1, Len(L)), {}) =
            Remaining(SubSeq(L, 1, k), {}) \o Remaining(SubSeq(L, k + 1, Len(L)), {})
    BY <1>9, <2>3, Zenon
  <2> QED
    BY <2>1, <2>2, <2>4, Zenon DEF Ahead, Back
<1> QED
  BY <1>1, <1>2, <1>3, <1>4

\* The table of a script that parses as L and u: where its opcodes stand.
Table(s, L, u) ==
    /\ Len(L) \in Nat /\ s \in Code /\ Bound(L, 0) = 0
    /\ \A k \in 0..Len(L) : Bound(L, k) \in 0..Len(s) /\ From(s, Bound(L, k)) = Back(L, k, {}) \o u
    /\ \A k \in 1..Len(L) :
           /\ Piece(s, Bound(L, k - 1), L[k])
           /\ Bound(L, k) = Bound(L, k - 1) + Len(L[k])
           /\ Bound(L, k) \in (Bound(L, k - 1) + 1)..Len(s)
           /\ Between(s, Bound(L, k - 1), Bound(L, k)) = L[k]
           /\ get_op(s, Bound(L, k - 1)) = Bound(L, k)
    /\ get_op(s, Bound(L, Len(L))) = NoOp

\* Every script that parses has its table.
LEMMA TableHolds ==
    ASSUME NEW s, NEW L, NEW u, ParsesWhole(s, L, u)
    PROVE  Table(s, L, u)
<1>0. L \in Seq(Code) /\ (\A k \in 1..Len(L) : Whole(L[k])) /\ Torn(u) /\ u \in Code
      /\ s = Remaining(L, {}) \o u
  BY DEF ParsesWhole, Torn
<1>1. Len(L) \in Nat /\ \A k \in 1..Len(L) : L[k] \in Code
  BY <1>0, ListIs
<1>2. /\ Ahead(L, 0) = <<>>
      /\ \A k \in 0..Len(L) : Ahead(L, k) \in Code
      /\ \A k \in 1..Len(L) : Ahead(L, k) = Ahead(L, k - 1) \o L[k]
      /\ \A k \in 0..Len(L) : Remaining(L, {}) = Ahead(L, k) \o Back(L, k, {})
  BY <1>0, AheadIs
<1>3. /\ Back(L, Len(L), {}) = <<>>
      /\ \A k \in 0..Len(L) : Back(L, k, {}) \in Code
      /\ \A k \in 1..Len(L) : Back(L, k - 1, {}) = L[k] \o Back(L, k, {})
  BY <1>0, BackIs
<1>4. ASSUME NEW k \in 0..Len(L)
      PROVE  /\ s = Ahead(L, k) \o (Back(L, k, {}) \o u)
             /\ Ahead(L, k) \in Code /\ Back(L, k, {}) \o u \in Code
             /\ s \in Code
             /\ Bound(L, k) \in 0..Len(s) /\ From(s, Bound(L, k)) = Back(L, k, {}) \o u
  <2> DEFINE a == Ahead(L, k)
             b == Back(L, k, {})
  <2>1. a \in Code /\ b \in Code
    BY <1>2, <1>3
  <2>2. s = (a \o b) \o u
    BY <1>0, <1>2, Zenon
  <2> HIDE DEF a, b
  <2>3. s = a \o (b \o u)
    BY <1>0, <2>1, <2>2, CodeJoin, Zenon
  <2>4. b \o u \in Code /\ s \in Code /\ Len(s) = Len(a) + Len(b \o u)
    <3>1. b \o u \in Code
      BY <1>0, <2>1, CodeJoin, Zenon
    <3>2. a \o (b \o u) \in Code /\ Len(a \o (b \o u)) = Len(a) + Len(b \o u)
      BY <2>1, <3>1, CodeJoin, Zenon
    <3> QED
      BY <2>3, <3>1, <3>2, Zenon
  <2>5. Len(a) \in Nat /\ Len(b \o u) \in Nat
    BY <2>1, <2>4, CodeIs
  <2>6. Len(a) \in 0..Len(s)
    BY <2>4, <2>5
  <2>7. From(s, Len(a)) = b \o u
    BY <2>1, <2>3, <2>4, FromJoin
  <2> QED
    BY <2>1, <2>3, <2>4, <2>6, <2>7 DEF a, b, Bound
<1>5. ASSUME NEW k \in 1..Len(L)
      PROVE  /\ Piece(s, Bound(L, k - 1), L[k])
             /\ Bound(L, k) = Bound(L, k - 1) + Len(L[k])
             /\ Bound(L, k) \in (Bound(L, k - 1) + 1)..Len(s)
             /\ Between(s, Bound(L, k - 1), Bound(L, k)) = L[k]
             /\ get_op(s, Bound(L, k - 1)) = Bound(L, k)
  <2> DEFINE a == Ahead(L, k - 1)
             b == Back(L, k, {})
             e == L[k]
  <2>0. k - 1 \in 0..Len(L) /\ k \in 0..Len(L)
    BY <1>1
  <2>1. a \in Code /\ b \in Code /\ e \in Code /\ Whole(e) /\ b \o u \in Code
    BY <1>0, <1>1, <1>2, <1>3, <1>4, <2>0
  <2>2. s = a \o ((e \o b) \o u) /\ s \in Code /\ Bound(L, k) \in 0..Len(s)
    BY <1>3, <1>4, <2>0
  <2>3. Ahead(L, k) = a \o e
    BY <1>2
  <2> HIDE DEF a, b, e
  <2>4. (e \o b) \o u = e \o (b \o u)
    BY <1>0, <2>1, CodeJoin, Zenon
  <2>5. Piece(s, Len(a), e)
    BY <2>1, <2>2, <2>4, PieceOfJoin
  <2>6. Len(a \o e) = Len(a) + Len(e) /\ Len(a) \in Nat /\ Len(e) \in Nat \ {0}
    <3>1. Len(a \o e) = Len(a) + Len(e)
      BY <2>1, ConcatProperties DEF Code
    <3> QED
      BY <2>1, <3>1, WholeIs, CodeIs
  <2>7. Len(a) + Len(e) <= Len(s) /\ Len(s) \in Nat
    BY <2>2, <2>5, CodeIs DEF Piece
  <2>8. Between(s, Len(a), Len(a) + Len(e)) = e
    BY <2>1, <2>2, <2>5, <2>6, <2>7, PieceIsBetween
  <2>9. get_op(s, Len(a)) = Len(a) + Len(e)
    BY <2>1, <2>5, OpAtPiece
  <2>10. Bound(L, k) = Len(a) + Len(e) /\ Bound(L, k - 1) = Len(a)
    BY <2>3, <2>6 DEF Bound, a
  <2>11. Len(a) + Len(e) \in (Len(a) + 1)..Len(s)
    BY <2>6, <2>7
  <2> QED
    BY <2>5, <2>8, <2>9, <2>10, <2>11 DEF e
<1>6. get_op(s, Bound(L, Len(L))) = NoOp
  <2>1. Len(L) \in 0..Len(L)
    BY <1>1
  <2>2. s = Ahead(L, Len(L)) \o (<<>> \o u) /\ Ahead(L, Len(L)) \in Code
    BY <1>3, <1>4, <2>1
  <2>3. <<>> \o u = u
    BY <1>0, ConcatEmptySeq DEF Code
  <2> QED
    BY <1>0, <2>2, <2>3, NoOpAtTorn DEF Bound
<1>7. s \in Code /\ Bound(L, 0) = 0
  <2>1. 0 \in 0..Len(L)
    BY <1>1
  <2>2. Len(<<>>) = 0
    OBVIOUS
  <2> QED
    BY <1>2, <1>4, <2>1, <2>2 DEF Bound
<1> QED
  BY <1>1, <1>4, <1>5, <1>6, <1>7 DEF Table

(***************************************************************************)
(* The loop over the opcodes                                               *)
(***************************************************************************)

\* The positions of the separators in a list of opcodes.
Separators(L) == {i \in 1..Len(L) : L[i] = <<OP_CODESEPARATOR>>}

\* An opcode that begins as a separator is one.
LEMMA SeparatorByte ==
    ASSUME NEW op, Whole(op)
    PROVE  op[1] = OP_CODESEPARATOR <=> op = <<OP_CODESEPARATOR>>
<1>1. op \in Code /\ Len(op) \in Nat \ {0} /\ get_op(op, 0) = Len(op)
  BY WholeIs
<1>2. ASSUME op[1] = OP_CODESEPARATOR PROVE op = <<OP_CODESEPARATOR>>
  <2>1. OpIs(op, 0)
    BY <1>1, OpCases
  <2>2. 0 < Len(op) /\ op[0 + 1] > OP_PUSHDATA4
    BY <1>1, <1>2 DEF OP_CODESEPARATOR, OP_PUSHDATA4
  <2>3. Len(op) = 0 + 1
    BY <1>1, <2>1, <2>2, Zenon DEF OpIs
  <2> DEFINE B == 0..255
             v == <<OP_CODESEPARATOR>>
  <2>4. op \in Seq(B) /\ OP_CODESEPARATOR \in B
    BY <1>1 DEF Code, OP_CODESEPARATOR
  <2> HIDE DEF B
  <2>5. v \in Seq(B) /\ Len(v) = 1 /\ v[1] = OP_CODESEPARATOR
    BY <2>4
  <2> HIDE DEF v
  <2>6. Len(op) = Len(v) /\ \A i \in 1..Len(op) : op[i] = v[i]
    BY <1>2, <2>3, <2>5
  <2>7. op = v
    BY <2>4, <2>5, <2>6, SeqEqual
  <2> QED
    BY <2>7 DEF v
<1> QED
  BY <1>2

\* What the loop over opcodes leaves at every offset.
ReadingLoop(f, s, next) ==
    f = [pc \in 0..Len(s) |->
            IF next[pc] = NoOp THEN [ops |-> <<>>, ends |-> <<>>, rest |-> From(s, pc)]
            ELSE ReadOp(s, pc, next[pc], f[next[pc]])]

\* The reader moves on, within the script.
LEMMA ReaderIs ==
    ASSUME NEW s \in Code
    PROVE  \A p \in 0..Len(s) : /\ Reader(s)[p] = get_op(s, p)
                                /\ Reader(s)[p] # NoOp => Reader(s)[p] \in (p + 1)..Len(s)
                                /\ Reader(s)[p] = NoOp => ~(Reader(s)[p] \in (p + 1)..Len(s))
<1> SUFFICES ASSUME NEW p \in 0..Len(s)
             PROVE  /\ Reader(s)[p] = get_op(s, p)
                    /\ Reader(s)[p] # NoOp => Reader(s)[p] \in (p + 1)..Len(s)
                    /\ Reader(s)[p] = NoOp => ~(Reader(s)[p] \in (p + 1)..Len(s))
  OBVIOUS
<1>1. Reader(s)[p] = get_op(s, p)
  BY DEF Reader
<1>2. p \in Nat /\ Len(s) \in Nat
  BY CodeIs
<1>3. get_op(s, p) # NoOp => get_op(s, p) \in (p + 1)..Len(s)
  BY <1>2, OpRange
<1>4. ~(NoOp \in (p + 1)..Len(s))
  BY <1>2 DEF NoOp
<1> QED
  BY <1>1, <1>3, <1>4, Zenon

\* What is cut out of a script is code.
LEMMA PiecesOfCode ==
    ASSUME NEW s \in Code, NEW p \in 0..Len(s)
    PROVE  /\ From(s, p) \in Code
           /\ \A q \in p..Len(s) : Between(s, p, q) \in Code
<1>0. Len(s) \in Nat /\ \A i \in 1..Len(s) : s[i] \in 0..255
  BY CodeIs
<1> DEFINE a == p + 1
<1>1. a \in Int /\ Len(s) \in Int /\ \A i \in a..Len(s) : i \in 1..Len(s)
  BY <1>0
<1>2. \A i \in a..Len(s) : s[i] \in 0..255
  BY <1>0, <1>1
<1>3. From(s, p) \in Code
  <2> HIDE DEF a
  <2>1. SubSeq(s, a, Len(s)) \in Seq(0..255)
    BY <1>1, <1>2, SubSeqProperties
  <2> QED
    BY <2>1 DEF a, From, Code
<1>4. ASSUME NEW q \in p..Len(s) PROVE Between(s, p, q) \in Code
  <2>1. q \in Int /\ \A i \in a..q : i \in 1..Len(s)
    BY <1>0
  <2> HIDE DEF a
  <2>2. \A i \in a..q : s[i] \in 0..255
    BY <1>0, <2>1
  <2>3. SubSeq(s, a, q) \in Seq(0..255)
    BY <1>1, <2>1, <2>2, SubSeqProperties
  <2> QED
    BY <2>3 DEF a, Between, Code
<1> QED
  BY <1>3, <1>4

\* What can be made of a script from some offset on.
Readings == [ops : Seq(Code), ends : Seq(Nat), rest : Code]

\* One opcode more.
LEMMA ReadOpType ==
    ASSUME NEW s \in Code, NEW p \in 0..Len(s), NEW q \in (p + 1)..Len(s), NEW r \in Readings
    PROVE  ReadOp(s, p, q, r) \in Readings
<1>0. Len(s) \in Nat
  BY CodeIs
<1>1. q \in p..Len(s) /\ q \in Nat
  BY <1>0
<1> DEFINE e == Between(s, p, q)
           t == IF s[p + 1] = OP_CODESEPARATOR THEN <<q>> ELSE <<>>
<1>2. e \in Code
  BY <1>1, PiecesOfCode
<1>3. r.ops \in Seq(Code) /\ r.ends \in Seq(Nat) /\ r.rest \in Code
  <2> HIDE DEF Code
  <2> QED
    BY DEF Readings
<1> HIDE DEF e
<1>4. <<e>> \o r.ops \in Seq(Code)
  <2> HIDE DEF Code
  <2> QED
    BY <1>2, <1>3
<1>5. t \o r.ends \in Seq(Nat)
  <2>1. t \in Seq(Nat)
    BY <1>1
  <2> HIDE DEF t
  <2> QED
    BY <1>3, <2>1
<1>6. ReadOp(s, p, q, r) = [ops |-> <<e>> \o r.ops, ends |-> t \o r.ends, rest |-> r.rest]
  BY Zenon DEF ReadOp, e
<1> HIDE DEF t, Code
<1> QED
  BY <1>3, <1>4, <1>5, <1>6 DEF Readings

\* The loop that reads a script ends.
LEMMA ReadingLoopExists ==
    ASSUME NEW s \in Code
    PROVE  \E f : ReadingLoop(f, s, Reader(s))
<1> DEFINE n == Len(s)
           next == Reader(s)
           c == [p \in 0..n |-> [ops |-> <<>>, ends |-> <<>>, rest |-> From(s, p)]]
           F == [t \in (0..n) \X Readings |->
                    IF next[t[1]] \in (t[1] + 1)..n THEN ReadOp(s, t[1], next[t[1]], t[2]) ELSE t[2]]
<1>0. n \in Nat
  BY CodeIs
<1>1. c \in [0..n -> Readings]
  <2>1. ASSUME NEW p \in 0..n PROVE [ops |-> <<>>, ends |-> <<>>, rest |-> From(s, p)] \in Readings
    <3>1. From(s, p) \in Code
      BY PiecesOfCode
    <3>2. <<>> \in Seq(Code) /\ <<>> \in Seq(Nat)
      OBVIOUS
    <3> HIDE DEF Code
    <3> QED
      BY <3>1, <3>2 DEF Readings
  <2> HIDE DEF Readings
  <2> QED
    BY <2>1
<1>2. F \in [(0..n) \X Readings -> Readings]
  <2>1. ASSUME NEW t \in (0..n) \X Readings
        PROVE  (IF next[t[1]] \in (t[1] + 1)..n THEN ReadOp(s, t[1], next[t[1]], t[2]) ELSE t[2])
                   \in Readings
    <3>1. t[1] \in 0..n /\ t[2] \in Readings
      OBVIOUS
    <3>2. next[t[1]] \in (t[1] + 1)..n => ReadOp(s, t[1], next[t[1]], t[2]) \in Readings
      BY <3>1, ReadOpType
    <3> QED
      BY <3>1, <3>2, Zenon
  <2> HIDE DEF Readings
  <2> QED
    BY <2>1
<1> HIDE DEF c, F, n, next
<1>3. Descends(Readings, n, c, next, F)
  BY <1>0, <1>1, <1>2, RecursionDown, Zenon
<1>4. PICK f \in [0..n -> Readings] :
          \A p \in 0..n : f[p] = IF next[p] \in (p + 1)..n THEN F[<<p, f[next[p]]>>] ELSE c[p]
  BY <1>3, Zenon DEF Descends
<1>5. ASSUME NEW p \in 0..n
      PROVE  f[p] = IF next[p] = NoOp THEN [ops |-> <<>>, ends |-> <<>>, rest |-> From(s, p)]
                    ELSE ReadOp(s, p, next[p], f[next[p]])
  <2>1. f[p] = IF next[p] \in (p + 1)..n THEN F[<<p, f[next[p]]>>] ELSE c[p]
    BY <1>4
  <2>2. /\ next[p] # NoOp => next[p] \in (p + 1)..n
        /\ next[p] = NoOp => ~(next[p] \in (p + 1)..n)
    BY ReaderIs DEF next, n
  <2>3. CASE next[p] = NoOp
    <3>1. c[p] = [ops |-> <<>>, ends |-> <<>>, rest |-> From(s, p)]
      BY Zenon DEF c
    <3> QED
      BY <2>1, <2>2, <2>3, <3>1, Zenon
  <2>4. CASE next[p] # NoOp
    <3>1. next[p] \in (p + 1)..n
      BY <2>2, <2>4
    <3>2. next[p] \in 0..n
      BY <3>1, <1>0
    <3>3. f[next[p]] \in Readings
      BY <1>4, <3>2, Zenon
    <3> DEFINE r == f[next[p]]
               t == <<p, r>>
    <3>4. t \in (0..n) \X Readings /\ t[1] = p /\ t[2] = r
      <4> HIDE DEF Readings
      <4> QED
        BY <3>3
    <3> HIDE DEF t
    <3>5. F[t] = IF next[t[1]] \in (t[1] + 1)..n THEN ReadOp(s, t[1], next[t[1]], t[2]) ELSE t[2]
      BY <3>4, Zenon DEF F
    <3>6. F[t] = ReadOp(s, p, next[p], r)
      BY <3>1, <3>4, <3>5, Zenon
    <3> QED
      BY <2>1, <2>4, <3>1, <3>6, Zenon DEF t
  <2> QED
    BY <2>3, <2>4
<1>6. f = [p \in 0..n |-> f[p]]
  BY <1>4
<1>7. f = [pc \in 0..n |->
              IF next[pc] = NoOp THEN [ops |-> <<>>, ends |-> <<>>, rest |-> From(s, pc)]
              ELSE ReadOp(s, pc, next[pc], f[next[pc]])]
  BY <1>5, <1>6, Zenon
<1>8. ReadingLoop(f, s, Reader(s))
  BY <1>7, Zenon DEF ReadingLoop, n, next
<1> QED
  BY <1>8

\* The offsets past the separators behind the first k opcodes.
EndsBehind(ends, L, k) ==
    LET Q == Separators(L)
    IN  /\ ends \in Seq(Nat)
        /\ Len(ends) = CountTo(Q, Len(L)) - CountTo(Q, k)
        /\ \A i \in (k + 1)..Len(L) : i \in Q => ends[CountTo(Q, i) - CountTo(Q, k)] = Bound(L, i)

\* What the loop makes of a script behind its first k opcodes.
ReadBehind(r, L, u, k) ==
    /\ r.ops = SubSeq(L, k + 1, Len(L))
    /\ EndsBehind(r.ends, L, k)
    /\ r.rest = u

\* The separators up to an opcode, counted.
LEMMA CountIs ==
    ASSUME NEW L \in Seq(Code)
    PROVE  /\ CountTo(Separators(L), 0) = 0
           /\ \A k \in 0..Len(L) : CountTo(Separators(L), k) \in 0..CountTo(Separators(L), Len(L))
           /\ \A k \in 0..Len(L) : CountTo(Separators(L), k) \in Nat
           /\ \A k \in 1..Len(L) : CountTo(Separators(L), k) =
                  IF k \in Separators(L) THEN CountTo(Separators(L), k - 1) + 1
                  ELSE CountTo(Separators(L), k - 1)
           /\ \A i \in Separators(L), k \in 0..Len(L) :
                  k < i => CountTo(Separators(L), k) < CountTo(Separators(L), i)
<1> DEFINE Q == Separators(L)
<1>0. Len(L) \in Nat
  BY ListIs
<1>1. CountTo(Q, 0) = 0 /\ \A k \in Nat : CountTo(Q, k) \in Nat
  BY CountStep
<1>2. \A i \in Q : i \in Nat
  BY <1>0 DEF Separators
<1> HIDE DEF Q
<1>3. ASSUME NEW k \in 0..Len(L) PROVE CountTo(Q, k) \in 0..CountTo(Q, Len(L))
  <2>1. CountTo(Q, k) <= CountTo(Q, Len(L))
    BY <1>0, CountGrows
  <2> QED
    BY <1>0, <1>1, <2>1
<1>4. ASSUME NEW k \in 1..Len(L)
      PROVE  CountTo(Q, k) = IF k \in Q THEN CountTo(Q, k - 1) + 1 ELSE CountTo(Q, k - 1)
  <2> DEFINE j == k - 1
  <2>1. j \in Nat /\ j + 1 = k
    BY <1>0
  <2> HIDE DEF j
  <2>2. CountTo(Q, j + 1) = IF j + 1 \in Q THEN CountTo(Q, j) + 1 ELSE CountTo(Q, j)
    BY <2>1, CountStep
  <2> QED
    BY <2>1, <2>2 DEF j
<1>5. ASSUME NEW i \in Q, NEW k \in 0..Len(L), k < i PROVE CountTo(Q, k) < CountTo(Q, i)
  BY <1>0, <1>2, <1>5, CountGrows
<1>6. \A k \in 0..Len(L) : CountTo(Q, k) \in Nat
  BY <1>0, <1>1
<1> QED
  BY <1>1, <1>3, <1>4, <1>5, <1>6 DEF Q

\* One opcode nearer to the front.
LEMMA EndsStep ==
    ASSUME NEW L \in Seq(Code), NEW k \in 1..Len(L), NEW ends, EndsBehind(ends, L, k),
           Bound(L, k) \in Nat
    PROVE  EndsBehind((IF k \in Separators(L) THEN <<Bound(L, k)>> ELSE <<>>) \o ends, L, k - 1)
<1> DEFINE Q == Separators(L)
           n == Len(L)
           t == IF k \in Q THEN <<Bound(L, k)>> ELSE <<>>
           j == k - 1
           all == t \o ends
           C(i) == CountTo(Q, i)
<1>0. n \in Nat /\ j \in 0..n /\ k \in 0..n /\ n \in 0..n /\ j + 1 = k
  BY ListIs
<1>1. /\ \A i \in 0..n : C(i) \in Nat
      /\ C(k) = IF k \in Q THEN C(j) + 1 ELSE C(j)
      /\ \A i \in Q : k < i => C(k) < C(i)
      /\ \A i \in 0..n : C(i) \in 0..C(n)
  <2>1. \A i \in 0..n : C(i) \in Nat
    BY CountIs, Zenon
  <2>2. C(k) = IF k \in Q THEN C(j) + 1 ELSE C(j)
    BY CountIs, Zenon
  <2>3. \A i \in 0..n : C(i) \in 0..C(n)
    BY CountIs, Zenon
  <2>4. \A i \in Q : k < i => C(k) < C(i)
    BY <1>0, CountIs, Zenon
  <2> QED
    BY <2>1, <2>2, <2>3, <2>4
<1>2. /\ ends \in Seq(Nat) /\ Len(ends) = C(n) - C(k)
      /\ \A i \in (k + 1)..n : i \in Q => ends[C(i) - C(k)] = Bound(L, i)
  BY Zenon DEF EndsBehind
<1>3. t \in Seq(Nat) /\ Len(t) = (IF k \in Q THEN 1 ELSE 0) /\ (k \in Q => t[1] = Bound(L, k))
  OBVIOUS
<1> HIDE DEF t, n, Q, C
<1>4. Joined(Nat, t, ends)
  BY <1>2, <1>3, JoinIs
<1>5. /\ all \in Seq(Nat) /\ Len(all) = Len(t) + Len(ends)
      /\ \A i \in 1..Len(t) : all[i] = t[i]
      /\ \A i \in 1..Len(ends) : all[Len(t) + i] = ends[i]
  BY <1>4 DEF Joined
<1> HIDE DEF all, j
<1>6. Len(all) = C(n) - C(j)
  <2>1. C(n) \in Nat /\ C(j) \in Nat /\ C(k) \in Nat
    BY <1>0, <1>1
  <2>2. C(k) = (IF k \in Q THEN C(j) + 1 ELSE C(j)) /\ Len(t) = (IF k \in Q THEN 1 ELSE 0)
    BY <1>1, <1>3
  <2>3. Len(all) = Len(t) + Len(ends) /\ Len(ends) = C(n) - C(k)
    BY <1>2, <1>5
  <2> QED
    BY <2>1, <2>2, <2>3
<1>7. ASSUME NEW i \in (j + 1)..n, i \in Q PROVE all[C(i) - C(j)] = Bound(L, i)
  <2>1. CASE i = k
    <3>1. C(i) - C(j) = 1 /\ 1 \in 1..Len(t)
      BY <1>0, <1>1, <1>3, <1>7, <2>1
    <3>2. all[1] = t[1] /\ t[1] = Bound(L, k)
      BY <1>3, <1>5, <1>7, <2>1, <3>1
    <3> QED
      BY <2>1, <3>1, <3>2
  <2>2. CASE i # k
    <3> DEFINE d == C(i) - C(k)
    <3>1. i \in (k + 1)..n /\ k < i /\ i \in 0..n
      BY <1>0, <2>2
    <3>2. C(k) < C(i) /\ C(i) \in Nat /\ C(k) \in Nat /\ C(j) \in Nat /\ C(n) \in Nat /\ C(i) <= C(n)
      BY <1>0, <1>1, <1>7, <3>1
    <3>3. d \in 1..Len(ends) /\ C(i) - C(j) = Len(t) + d
      <4>1. C(k) = (IF k \in Q THEN C(j) + 1 ELSE C(j)) /\ Len(t) = (IF k \in Q THEN 1 ELSE 0)
        BY <1>1, <1>3
      <4>2. Len(ends) = C(n) - C(k)
        BY <1>2
      <4>3. d \in 1..Len(ends)
        BY <3>2, <4>2
      <4>4. C(i) - C(j) = Len(t) + d
        BY <3>2, <4>1
      <4> QED
        BY <4>3, <4>4
    <3>4. ends[d] = Bound(L, i)
      BY <1>2, <1>7, <3>1
    <3> HIDE DEF d
    <3> QED
      BY <1>5, <3>3, <3>4
  <2> QED
    BY <2>1, <2>2
<1>8. EndsBehind(all, L, j)
  BY <1>5, <1>6, <1>7, Zenon DEF EndsBehind, n, Q, C
<1> QED
  BY <1>8 DEF all, j, t, Q

\* The loop one opcode nearer to the front.
LEMMA ReadBehindStep ==
    ASSUME NEW s, NEW L, NEW u, ParsesWhole(s, L, u), NEW k \in 1..Len(L), NEW r, ReadBehind(r, L, u, k)
    PROVE  ReadBehind(ReadOp(s, Bound(L, k - 1), Bound(L, k), r), L, u, k - 1)
<1> DEFINE p == Bound(L, k - 1)
           q == Bound(L, k)
           t == IF s[p + 1] = OP_CODESEPARATOR THEN <<q>> ELSE <<>>
           w == ReadOp(s, p, q, r)
<1>0. L \in Seq(Code) /\ Whole(L[k])
  BY Zenon DEF ParsesWhole
<1>1. /\ Len(L) \in Nat /\ s \in Code /\ Piece(s, p, L[k]) /\ Between(s, p, q) = L[k]
      /\ q \in (p + 1)..Len(s) /\ p \in 0..Len(s)
  <2>1. Table(s, L, u) /\ Len(L) \in Nat
    BY <1>0, TableHolds, ListIs
  <2>2. k - 1 \in 0..Len(L)
    BY <2>1
  <2> QED
    BY <2>1, <2>2, Zenon DEF Table
<1>2. q \in Nat /\ p + 1 \in Int
  BY <1>1, CodeIs
<1> HIDE DEF p, q
<1>3. w = [ops |-> <<Between(s, p, q)>> \o r.ops, ends |-> t \o r.ends, rest |-> r.rest]
  BY Zenon DEF ReadOp
<1>4. r.ops = SubSeq(L, k + 1, Len(L)) /\ EndsBehind(r.ends, L, k) /\ r.rest = u
  BY Zenon DEF ReadBehind
<1>5. SubSeq(L, (k - 1) + 1, Len(L)) = <<L[k]>> \o SubSeq(L, k + 1, Len(L))
  <2>1. Len(L) \in k..Len(L) /\ (k - 1) + 1 = k
    BY <1>1
  <2> QED
    BY <1>0, <2>1, SubSeqRecursiveFirst
<1>6. s[p + 1] = OP_CODESEPARATOR <=> k \in Separators(L)
  <2>1. s[p + 1] = L[k][1]
    <3>1. 1 \in 1..Len(L[k])
      BY <1>0, WholeIs
    <3> QED
      BY <1>1, <3>1, Zenon DEF Piece
  <2>2. L[k][1] = OP_CODESEPARATOR <=> L[k] = <<OP_CODESEPARATOR>>
    BY <1>0, SeparatorByte
  <2> QED
    BY <2>1, <2>2, Zenon DEF Separators
<1>7. EndsBehind(t \o r.ends, L, k - 1)
  <2>1. t = IF k \in Separators(L) THEN <<Bound(L, k)>> ELSE <<>>
    BY <1>6, Zenon DEF q
  <2>2. Bound(L, k) \in Nat
    BY <1>2 DEF q
  <2> HIDE DEF t
  <2>3. EndsBehind((IF k \in Separators(L) THEN <<Bound(L, k)>> ELSE <<>>) \o r.ends, L, k - 1)
    BY <1>0, <1>4, <2>2, EndsStep
  <2> QED
    BY <2>1, <2>3, Zenon
<1> HIDE DEF t
<1>8. w.ops = <<Between(s, p, q)>> \o r.ops /\ w.ends = t \o r.ends /\ w.rest = r.rest
  BY <1>3
<1> HIDE DEF w
<1>9. ReadBehind(w, L, u, k - 1)
  BY <1>1, <1>4, <1>5, <1>7, <1>8, Zenon DEF ReadBehind
<1> QED
  BY <1>9 DEF w, p, q

\* What a parse is read as.
LEMMA ReadingIs ==
    ASSUME NEW s, NEW L, NEW u, ParsesWhole(s, L, u)
    PROVE  ReadBehind(Reading(s, Reader(s)), L, u, 0)
<1> DEFINE n == Len(L)
           f == CHOOSE h : ReadingLoop(h, s, Reader(s))
<1>0. L \in Seq(Code) /\ Table(s, L, u)
  BY TableHolds, Zenon DEF ParsesWhole
<1>1. n \in Nat /\ s \in Code
  BY <1>0, Zenon DEF Table
<1>2. Reading(s, Reader(s)) = f[0]
  BY Zenon DEF Reading, ReadingLoop
<1>3. ReadingLoop(f, s, Reader(s))
  BY <1>1, ReadingLoopExists, Zenon
<1> HIDE DEF f
<1>4. \A p \in 0..Len(s) : f[p] =
          IF Reader(s)[p] = NoOp THEN [ops |-> <<>>, ends |-> <<>>, rest |-> From(s, p)]
          ELSE ReadOp(s, p, Reader(s)[p], f[Reader(s)[p]])
  BY <1>3, Zenon DEF ReadingLoop
<1>5. \A p \in 0..Len(s) : Reader(s)[p] = get_op(s, p)
  BY <1>1, ReaderIs
<1> DEFINE P == {m \in 0..n : ReadBehind(f[Bound(L, n - m)], L, u, n - m)}
<1>6. ReadBehind(f[Bound(L, n)], L, u, n)
  <2> DEFINE p == Bound(L, n)
             r == [ops |-> <<>>, ends |-> <<>>, rest |-> From(s, p)]
  <2>1. n \in 0..n
    BY <1>1
  <2>2. p \in 0..Len(s) /\ get_op(s, p) = NoOp /\ From(s, p) = Back(L, n, {}) \o u
    BY <1>0, <2>1, Zenon DEF Table
  <2>3. f[p] = r
    BY <1>4, <1>5, <2>2, Zenon
  <2>4. Back(L, n, {}) \o u = u
    <3>1. Back(L, n, {}) = <<>>
      BY <1>0, BackIs, Zenon
    <3>2. u \in Code
      BY Zenon DEF ParsesWhole, Torn
    <3> QED
      BY <3>1, <3>2, CodeJoin, Zenon
  <2>5. SubSeq(L, n + 1, Len(L)) = <<>>
    BY <1>1, SubSeqEmpty
  <2>6. EndsBehind(<<>>, L, n)
    <3> DEFINE Q == Separators(L)
    <3>1. CountTo(Q, n) \in Nat
      BY <1>0, <2>1, CountIs, Zenon
    <3>2. <<>> \in Seq(Nat) /\ Len(<<>>) = 0
      OBVIOUS
    <3>3. \A i \in (n + 1)..n : FALSE
      BY <1>1
    <3> HIDE DEF Q
    <3>4. Len(<<>>) = CountTo(Q, n) - CountTo(Q, n)
      BY <3>1, <3>2
    <3> QED
      BY <3>2, <3>3, <3>4, Zenon DEF EndsBehind, Q
  <2>7. r.ops = <<>> /\ r.ends = <<>> /\ r.rest = From(s, p)
    OBVIOUS
  <2> HIDE DEF p, r
  <2>8. ReadBehind(r, L, u, n)
    BY <2>2, <2>4, <2>5, <2>6, <2>7, Zenon DEF ReadBehind
  <2> QED
    BY <2>3, <2>8 DEF p
<1>7. 0 \in P
  BY <1>1, <1>6
<1>8. ASSUME NEW m \in 1..n, m - 1 \in P PROVE m \in P
  <2> DEFINE k == n - (m - 1)
             p == Bound(L, k - 1)
             q == Bound(L, k)
  <2>1. k \in 1..n /\ k - 1 = n - m /\ m \in 0..n
    BY <1>1
  <2>2. ReadBehind(f[q], L, u, k)
    BY <1>8
  <2> HIDE DEF k
  <2>3. k - 1 \in 0..n /\ k \in 0..n
    BY <1>1, <2>1
  <2>4. p \in 0..Len(s) /\ get_op(s, p) = q /\ q \in (p + 1)..Len(s)
    BY <1>0, <2>1, <2>3, Zenon DEF Table
  <2>5. q # NoOp
    BY <2>4 DEF NoOp
  <2>6. f[p] = ReadOp(s, p, q, f[q])
    BY <1>4, <1>5, <2>4, <2>5, Zenon
  <2>7. ReadBehind(ReadOp(s, p, q, f[q]), L, u, k - 1)
    BY <2>1, <2>2, ReadBehindStep
  <2>8. ReadBehind(f[Bound(L, k - 1)], L, u, k - 1)
    BY <2>6, <2>7
  <2> QED
    BY <2>1, <2>8
<1>9. \A m \in 0..n : m \in P
  <2> HIDE DEF P
  <2> QED
    BY <1>1, <1>7, <1>8, RoundByRound
<1>10. n \in 0..n /\ n - n = 0 /\ Bound(L, 0) = 0
  BY <1>0, <1>1 DEF Table
<1>11. ReadBehind(f[Bound(L, n - n)], L, u, n - n)
  BY <1>9, <1>10
<1> QED
  BY <1>2, <1>10, <1>11, Zenon

\* A script that parses is read as it parses.
LEMMA OpsAre ==
    ASSUME NEW s, NEW L, NEW u, ParsesWhole(s, L, u)
    PROVE  /\ Ops(s) = L /\ Unread(s) = u
           /\ SeparatorEnds(s) \in Seq(Nat)
           /\ Len(SeparatorEnds(s)) = CountTo(Separators(L), Len(L))
           /\ \A i \in Separators(L) :
                  SeparatorEnds(s)[CountTo(Separators(L), i)] = Bound(L, i)
<1> DEFINE r == Reading(s, Reader(s))
           Q == Separators(L)
<1>0. L \in Seq(Code) /\ Len(L) \in Nat
  BY ListIs DEF ParsesWhole
<1>1. ReadBehind(r, L, u, 0)
  BY ReadingIs
<1>2. r.ops = SubSeq(L, 0 + 1, Len(L)) /\ r.rest = u /\ EndsBehind(r.ends, L, 0)
  BY <1>1, Zenon DEF ReadBehind
<1>3. SubSeq(L, 0 + 1, Len(L)) = L
  <2>1. SubSeq(L, 1, Len(L)) = L /\ 0 + 1 = 1
    BY <1>0, SubSeqFull
  <2> QED
    BY <2>1
<1>4. /\ r.ends \in Seq(Nat)
      /\ Len(r.ends) = CountTo(Q, Len(L)) - CountTo(Q, 0)
      /\ \A i \in (0 + 1)..Len(L) : i \in Q => r.ends[CountTo(Q, i) - CountTo(Q, 0)] = Bound(L, i)
  BY <1>2, Zenon DEF EndsBehind
<1>5. \A i \in Q : i \in (0 + 1)..Len(L) /\ i \in 0..Len(L)
  BY <1>0 DEF Separators
<1>6. CountTo(Q, 0) = 0 /\ \A i \in 0..Len(L) : CountTo(Q, i) \in Nat
  BY <1>0, CountIs, Zenon
<1> HIDE DEF r, Q
<1>7. Len(L) \in 0..Len(L)
  BY <1>0
<1>8. Len(r.ends) = CountTo(Q, Len(L))
  BY <1>4, <1>6, <1>7
<1>9. ASSUME NEW i \in Q PROVE r.ends[CountTo(Q, i)] = Bound(L, i)
  <2>1. r.ends[CountTo(Q, i) - CountTo(Q, 0)] = Bound(L, i)
    BY <1>4, <1>5
  <2>2. CountTo(Q, i) - CountTo(Q, 0) = CountTo(Q, i)
    BY <1>5, <1>6
  <2> QED
    BY <2>1, <2>2
<1> QED
  BY <1>2, <1>3, <1>4, <1>8, <1>9, Zenon DEF Ops, Unread, SeparatorEnds, r, Q

\* The gate reads a script as the ports do.
LEMMA GateIs ==
    ASSUME NEW s
    PROVE  ScriptParsesCleanly(s) <=> Unread(s) = <<>>
<1> DEFINE next == [pc \in 0..Len(s) |->
                       IF pc >= Len(s) THEN NoOp
                       ELSE IF s[pc + 1] > OP_PUSHDATA4 THEN pc + 1
                       ELSE PastPush(s, pc, LengthBytes(s[pc + 1]))]
<1>1. next = Reader(s)
  BY Zenon DEF Reader, get_op
<1>2. ScriptParsesCleanly(s) <=> Reading(s, next).rest = <<>>
  BY Zenon DEF ScriptParsesCleanly
<1> HIDE DEF next
<1> QED
  BY <1>1, <1>2, Zenon DEF Unread

(***************************************************************************)
(* Truncation                                                              *)
(***************************************************************************)

\* The place behind the separator chosen, or the front.
Cut(L, c) ==
    LET chosen == {i \in Separators(L) : CountTo(Separators(L), i) <= c}
    IN  IF chosen = {} THEN 0 ELSE CHOOSE i \in chosen : \A j \in chosen : j <= i

\* Which separator the ports stop at.
LEMMA CutIs ==
    ASSUME NEW L \in Seq(Code), NEW c \in Nat
    PROVE  LET N == CountTo(Separators(L), Len(L))
               d == IF N < c THEN N ELSE c
           IN  /\ N \in Nat /\ Cut(L, c) \in 0..Len(L)
               /\ d = 0 => Cut(L, c) = 0
               /\ d # 0 => Cut(L, c) \in Separators(L) /\ CountTo(Separators(L), Cut(L, c)) = d
<1> DEFINE Q == Separators(L)
           n == Len(L)
           N == CountTo(Q, n)
           d == IF N < c THEN N ELSE c
           chosen == {i \in Q : CountTo(Q, i) <= c}
<1>0. n \in Nat /\ Q \subseteq 1..n /\ 0 \in 0..n /\ n \in 0..n
  BY ListIs DEF Separators
<1>1. /\ CountTo(Q, 0) = 0
      /\ \A k \in 0..n : CountTo(Q, k) \in 0..N
      /\ \A k \in 0..n : CountTo(Q, k) \in Nat
      /\ \A i \in Q, k \in 0..n : k < i => CountTo(Q, k) < CountTo(Q, i)
  BY CountIs, Zenon
<1>2. Cut(L, c) = IF chosen = {} THEN 0 ELSE CHOOSE i \in chosen : \A j \in chosen : j <= i
  BY Zenon DEF Cut
<1>3. \A e \in 1..N : \E i \in 1..n : i \in Q /\ CountTo(Q, i) = e
  BY <1>0, CountReaches
<1> HIDE DEF Q, n
<1>4. N \in Nat /\ d \in Nat /\ d <= N /\ d <= c
  BY <1>0, <1>1
<1>5. \A i \in Q : i \in 1..n /\ i \in 0..n
  BY <1>0
<1>6. CASE d = 0
  <2>1. ASSUME NEW i \in chosen PROVE FALSE
    <3>1. i \in Q /\ CountTo(Q, i) <= c /\ 0 < i
      BY <1>0
    <3>2. CountTo(Q, 0) < CountTo(Q, i) /\ CountTo(Q, i) \in 0..N
      BY <1>0, <1>1, <1>5, <3>1
    <3> QED
      BY <1>1, <1>4, <1>6, <3>1, <3>2
  <2>2. Cut(L, c) = 0
    BY <1>2, <2>1
  <2> QED
    BY <1>0, <1>4, <1>6, <2>2 DEF Q, n
<1>7. CASE d # 0
  <2>1. d \in 1..N
    BY <1>4, <1>7
  <2>2. PICK i \in 1..n : i \in Q /\ CountTo(Q, i) = d
    BY <1>3, <2>1
  <2>3. i \in chosen
    BY <1>4, <2>2
  <2>4. ASSUME NEW j \in chosen PROVE j <= i
    <3>1. j \in Q /\ CountTo(Q, j) <= c /\ j \in 0..n /\ i \in 0..n
      BY <1>0, <1>5
    <3>2. CASE i < j
      <4>1. CountTo(Q, i) < CountTo(Q, j) /\ CountTo(Q, j) \in 0..N
        BY <1>1, <3>1, <3>2
      <4> QED
        BY <1>4, <2>2, <3>1, <4>1
    <3> QED
      BY <1>0, <3>1, <3>2
  <2>5. \E x \in chosen : \A j \in chosen : j <= x
    BY <2>3, <2>4
  <2> DEFINE x == CHOOSE x \in chosen : \A j \in chosen : j <= x
  <2>6. x \in chosen /\ \A j \in chosen : j <= x
    BY <2>5
  <2> HIDE DEF x
  <2>7. x = i
    <3>1. x <= i /\ i <= x
      BY <2>3, <2>4, <2>6
    <3>2. x \in Q
      BY <2>6
    <3>3. x \in 1..n
      BY <1>5, <3>2
    <3> QED
      BY <1>0, <2>2, <3>1, <3>3
  <2>8. Cut(L, c) = i
    BY <1>2, <2>3, <2>7 DEF x
  <2> QED
    BY <1>4, <1>5, <1>7, <2>2, <2>8 DEF Q, n
<1> QED
  BY <1>6, <1>7

\* The opcodes behind the separator chosen.
Later(L, c) == SubSeq(L, Cut(L, c) + 1, Len(L))

\* What they and the rest spell.
LEMMA LaterParses ==
    ASSUME NEW s, NEW L, NEW u, ParsesWhole(s, L, u), NEW c \in Nat
    PROVE  /\ ParsesWhole(Remaining(Later(L, c), {}) \o u, Later(L, c), u)
           /\ Cut(L, c) = 0 => Remaining(Later(L, c), {}) \o u = s
           /\ Cut(L, c) # 0 => From(s, Bound(L, Cut(L, c))) = Remaining(Later(L, c), {}) \o u
<1> DEFINE k == Cut(L, c)
           M == Later(L, c)
<1>0. L \in Seq(Code) /\ (\A i \in 1..Len(L) : Whole(L[i])) /\ Torn(u) /\ s = Remaining(L, {}) \o u
  BY Zenon DEF ParsesWhole
<1>1. Len(L) \in Nat
  BY <1>0, ListIs
<1>2. k \in 0..Len(L)
  BY <1>0, CutIs, Zenon
<1>3. Table(s, L, u)
  BY TableHolds
<1>4. From(s, Bound(L, k)) = Back(L, k, {}) \o u
  BY <1>2, <1>3, Zenon DEF Table
<1>5. M = SubSeq(L, k + 1, Len(L)) /\ Back(L, k, {}) = Remaining(M, {})
  BY Zenon DEF Later, Back
<1> HIDE DEF k, M
<1>6. M \in Seq(Code) /\ \A i \in 1..Len(M) : Whole(M[i])
  <2> DEFINE a == k + 1
  <2>1. a \in Int /\ Len(L) \in Int /\ \A i \in a..Len(L) : i \in 1..Len(L)
    BY <1>1, <1>2
  <2>2. \A i \in 1..Len(L) : L[i] \in Code
    BY <1>0, ListIs, Zenon
  <2>3. \A i \in a..Len(L) : L[i] \in Code
    BY <2>1, <2>2
  <2>4. M = SubSeq(L, a, Len(L))
    BY <1>5
  <2> HIDE DEF a
  <2>5. /\ M \in Seq(Code)
        /\ Len(M) = IF a <= Len(L) THEN Len(L) - a + 1 ELSE 0
        /\ \A i \in 1..(Len(L) - a + 1) : M[i] = L[a + i - 1]
    BY <2>1, <2>3, <2>4, SubSeqProperties
  <2>6. ASSUME NEW i \in 1..Len(M) PROVE Whole(M[i])
    <3>1. i \in 1..(Len(L) - a + 1) /\ a + i - 1 \in a..Len(L)
      BY <2>1, <2>5
    <3>2. a + i - 1 \in 1..Len(L)
      BY <2>1, <3>1
    <3> QED
      BY <1>0, <2>5, <3>1, <3>2
  <2> QED
    BY <2>5, <2>6
<1>7. ParsesWhole(Remaining(M, {}) \o u, M, u)
  BY <1>0, <1>6, Zenon DEF ParsesWhole
<1>8. k = 0 => Remaining(M, {}) \o u = s
  <2>1. Back(L, 0, {}) = Remaining(L, {})
    BY <1>0, BackIs, Zenon
  <2> QED
    BY <1>0, <1>5, <2>1, Zenon
<1> QED
  BY <1>4, <1>5, <1>7, <1>8, Zenon DEF k, M

\* The four truncations leave that.
LEMMA TruncationsAre ==
    ASSUME NEW s, NEW L, NEW u, ParsesWhole(s, L, u), NEW c \in Nat
    PROVE  /\ truncate_after_codesep(s, c) = Remaining(Later(L, c), {}) \o u
           /\ BitcoinTruncated(s, c) = Remaining(Later(L, c), {}) \o u
           /\ truncateAfterCodesep(s, c) = Remaining(Later(L, c), {}) \o u
           /\ gocoinTruncateAfterCodesep(s, c) = Remaining(Later(L, c), {}) \o u
<1> DEFINE E == SeparatorEnds(s)
           N == CountTo(Separators(L), Len(L))
           d == IF N < c THEN N ELSE c
           k == Cut(L, c)
           v == Remaining(Later(L, c), {}) \o u
<1>0. L \in Seq(Code) /\ s \in Code
  <2>1. Table(s, L, u)
    BY TableHolds
  <2> QED
    BY <2>1, Zenon DEF ParsesWhole, Table
<1>1. /\ E \in Seq(Nat) /\ Len(E) = N
      /\ \A i \in Separators(L) : E[CountTo(Separators(L), i)] = Bound(L, i)
  BY OpsAre, Zenon
<1>2. /\ N \in Nat
      /\ d = 0 => k = 0
      /\ d # 0 => k \in Separators(L) /\ CountTo(Separators(L), k) = d
  <2> HIDE DEF Code
  <2> QED
    BY <1>0, CutIs, Zenon
<1>3. /\ ParsesWhole(v, Later(L, c), u)
      /\ k = 0 => v = s
      /\ k # 0 => From(s, Bound(L, k)) = v
  <2> HIDE DEF Code
  <2> QED
    BY LaterParses
<1>4. \A i \in Separators(L) : i # 0
  BY <1>0, ListIs DEF Separators
<1>5. Seen(s, c) = SubSeq(E, 1, d) /\ E = SeparatorEnds(s)
  BY <1>1, Zenon DEF Seen
<1> HIDE DEF E, N, k, v
<1>6. CASE d = 0
  <2>1. Seen(s, c) = <<>>
    BY <1>5, <1>6, SubSeqEmpty
  <2>2. v = s
    BY <1>2, <1>3, <1>6
  <2>3. c = 0 \/ E = <<>>
    BY <1>1, <1>2, <1>6
  <2>4. truncate_after_codesep(s, c) = s
    BY <1>5, <2>3, Zenon DEF truncate_after_codesep
  <2>5. BitcoinTruncated(s, c) = s
    BY <2>1, Zenon DEF BitcoinTruncated
  <2>6. truncateAfterCodesep(s, c) = s
    BY <2>1, Zenon DEF truncateAfterCodesep
  <2>7. gocoinTruncateAfterCodesep(s, c) = s
    <3>1. gocoinTruncateAfterCodesep(s, c) = From(s, 0)
      BY <2>1, Zenon DEF gocoinTruncateAfterCodesep
    <3>2. SubSeq(s, 1, Len(s)) = s
      BY <1>0, SubSeqFull DEF Code
    <3>3. From(s, 0) = s
      BY <3>2 DEF From
    <3> QED
      BY <3>1, <3>3
  <2> QED
    BY <2>2, <2>4, <2>5, <2>6, <2>7, Zenon DEF v
<1>7. CASE d # 0
  <2>0. d \in 1..N /\ c # 0 /\ N # 0
    BY <1>2, <1>7
  <2>1. k # 0 /\ E[d] = Bound(L, k)
    BY <1>1, <1>2, <1>4, <1>7
  <2>2. From(s, E[d]) = v
    BY <1>3, <2>1
  <2>3. E # <<>>
    BY <1>1, <2>0
  <2>4. d = IF Len(E) < c THEN Len(E) ELSE c
    BY <1>1
  <2> DEFINE w == Seen(s, c)
  <2>5. w \in Seq(Nat) /\ Len(w) = d /\ w[d] = E[d]
    <3>1. SubSeq(E, 1, d) \in Seq(Nat) /\ Len(SubSeq(E, 1, d)) = d /\ SubSeq(E, 1, d)[d] = E[d]
      <4> HIDE DEF d
      <4> QED
        BY <1>1, <2>0
    <3> QED
      BY <1>5, <3>1
  <2> HIDE DEF w, d
  <2>6. w # <<>> /\ Last(w) = E[d]
    <3>1. Last(w) = w[Len(w)]
      BY Zenon DEF Last
    <3>2. w # <<>>
      BY <1>7, <2>5
    <3> QED
      BY <2>5, <3>1, <3>2
  <2>7. truncate_after_codesep(s, c) = v
    <3>1. ~(c = 0 \/ E = <<>>)
      BY <2>0, <2>3
    <3>2. truncate_after_codesep(s, c) = IF c = 0 \/ E = <<>> THEN s
                                         ELSE From(s, E[IF Len(E) < c THEN Len(E) ELSE c])
      BY <1>5, Zenon DEF truncate_after_codesep
    <3>3. truncate_after_codesep(s, c) = From(s, E[IF Len(E) < c THEN Len(E) ELSE c])
      BY <3>1, <3>2, Zenon
    <3> QED
      BY <2>2, <2>4, <3>3, Zenon
  <2>8. BitcoinTruncated(s, c) = v
    BY <2>2, <2>6, Zenon DEF BitcoinTruncated, w
  <2>9. truncateAfterCodesep(s, c) = v
    BY <2>0, <2>2, <2>6, Zenon DEF truncateAfterCodesep, w
  <2>10. gocoinTruncateAfterCodesep(s, c) = v
    BY <2>2, <2>6, Zenon DEF gocoinTruncateAfterCodesep, w
  <2> QED
    BY <2>7, <2>8, <2>9, <2>10, Zenon DEF v
<1> QED
  BY <1>6, <1>7, Zenon

(***************************************************************************)
(* Deletion                                                                *)
(***************************************************************************)

\* What the loop of every FindAndDelete leaves at every offset.
WithoutLoop(f, s, push, next) ==
    f = [pc \in 0..Len(s) |->
            IF IsAt(s, pc, push) THEN f[pc + Len(push)]
            ELSE IF next[pc] = NoOp THEN From(s, pc)
            ELSE Between(s, pc, next[pc]) \o f[next[pc]]]

\* The loop that deletes ends.
LEMMA WithoutLoopExists ==
    ASSUME NEW s \in Code, NEW push, Whole(push)
    PROVE  \E f : WithoutLoop(f, s, push, Reader(s))
<1> DEFINE n == Len(s)
           next == Reader(s)
           jump == [p \in 0..n |-> IF IsAt(s, p, push) THEN p + Len(push) ELSE next[p]]
           c == [p \in 0..n |-> From(s, p)]
           F == [t \in (0..n) \X Code |->
                    IF IsAt(s, t[1], push) \/ ~(next[t[1]] \in (t[1] + 1)..n) THEN t[2]
                    ELSE Between(s, t[1], next[t[1]]) \o t[2]]
<1>0. n \in Nat /\ Len(push) \in Nat \ {0}
  BY CodeIs, WholeIs
<1>1. c \in [0..n -> Code]
  <2>1. \A p \in 0..n : From(s, p) \in Code
    BY PiecesOfCode
  <2> HIDE DEF Code
  <2> QED
    BY <2>1
<1>2. F \in [(0..n) \X Code -> Code]
  <2>1. ASSUME NEW t \in (0..n) \X Code
        PROVE  (IF IsAt(s, t[1], push) \/ ~(next[t[1]] \in (t[1] + 1)..n) THEN t[2]
                ELSE Between(s, t[1], next[t[1]]) \o t[2]) \in Code
    <3>1. t[1] \in 0..n /\ t[2] \in Code
      <4> HIDE DEF Code
      <4> QED
        OBVIOUS
    <3>2. ASSUME next[t[1]] \in (t[1] + 1)..n PROVE Between(s, t[1], next[t[1]]) \o t[2] \in Code
      <4>1. next[t[1]] \in t[1]..n
        BY <1>0, <3>1, <3>2
      <4>2. Between(s, t[1], next[t[1]]) \in Code
        BY <3>1, <4>1, PiecesOfCode
      <4> QED
        BY <3>1, <4>2, CodeJoin, Zenon
    <3> QED
      BY <3>1, <3>2, Zenon
  <2> HIDE DEF Code
  <2> QED
    BY <2>1
<1>3. ASSUME NEW p \in 0..n
      PROVE  /\ IsAt(s, p, push) => jump[p] = p + Len(push) /\ jump[p] \in (p + 1)..n
             /\ ~IsAt(s, p, push) => jump[p] = next[p]
             /\ next[p] # NoOp => next[p] \in (p + 1)..n
             /\ next[p] = NoOp => ~(next[p] \in (p + 1)..n)
  <2>1. jump[p] = IF IsAt(s, p, push) THEN p + Len(push) ELSE next[p]
    BY Zenon
  <2>2. IsAt(s, p, push) => p + Len(push) \in (p + 1)..n
    <3>1. IsAt(s, p, push) => p + Len(push) <= n
      BY Zenon DEF IsAt
    <3> HIDE DEF n
    <3> QED
      BY <1>0, <3>1
  <2>3. /\ next[p] # NoOp => next[p] \in (p + 1)..n
        /\ next[p] = NoOp => ~(next[p] \in (p + 1)..n)
    BY ReaderIs
  <2> HIDE DEF jump, next, n
  <2> QED
    BY <2>1, <2>2, <2>3, Zenon
<1> HIDE DEF c, F, n, next, jump
<1>4. Descends(Code, n, c, jump, F)
  BY <1>0, <1>1, <1>2, RecursionDown, Zenon
<1>5. PICK f \in [0..n -> Code] :
          \A p \in 0..n : f[p] = IF jump[p] \in (p + 1)..n THEN F[<<p, f[jump[p]]>>] ELSE c[p]
  BY <1>4, Zenon DEF Descends
<1>6. ASSUME NEW p \in 0..n
      PROVE  f[p] = IF IsAt(s, p, push) THEN f[p + Len(push)]
                    ELSE IF next[p] = NoOp THEN From(s, p)
                    ELSE Between(s, p, next[p]) \o f[next[p]]
  <2> DEFINE r == f[jump[p]]
             t == <<p, r>>
  <2>1. f[p] = IF jump[p] \in (p + 1)..n THEN F[t] ELSE c[p]
    BY <1>5, Zenon
  <2>2. ASSUME jump[p] \in (p + 1)..n
        PROVE  f[p] = IF IsAt(s, p, push) \/ ~(next[p] \in (p + 1)..n) THEN r
                      ELSE Between(s, p, next[p]) \o r
    <3>1. jump[p] \in 0..n
      BY <1>0, <2>2
    <3>2. r \in Code
      BY <1>5, <3>1, Zenon
    <3> HIDE DEF r
    <3>3. t \in (0..n) \X Code /\ t[1] = p /\ t[2] = r
      <4> HIDE DEF Code
      <4> QED
        BY <3>2
    <3> HIDE DEF t
    <3>4. F[t] = IF IsAt(s, t[1], push) \/ ~(next[t[1]] \in (t[1] + 1)..n) THEN t[2]
                 ELSE Between(s, t[1], next[t[1]]) \o t[2]
      BY <3>3, Zenon DEF F
    <3>5. f[p] = F[t]
      BY <2>1, <2>2, Zenon
    <3> QED
      BY <3>3, <3>4, <3>5, Zenon
  <2>3. CASE IsAt(s, p, push)
    <3>1. jump[p] = p + Len(push) /\ jump[p] \in (p + 1)..n
      BY <1>3, <2>3
    <3> QED
      BY <2>2, <2>3, <3>1, Zenon
  <2>4. CASE ~IsAt(s, p, push) /\ next[p] = NoOp
    <3>1. jump[p] = next[p] /\ ~(next[p] \in (p + 1)..n)
      BY <1>3, <2>4
    <3>2. c[p] = From(s, p)
      BY Zenon DEF c
    <3> QED
      BY <2>1, <2>4, <3>1, <3>2, Zenon
  <2>5. CASE ~IsAt(s, p, push) /\ next[p] # NoOp
    <3>1. jump[p] = next[p] /\ next[p] \in (p + 1)..n
      BY <1>3, <2>5
    <3> QED
      BY <2>2, <2>5, <3>1, Zenon
  <2> QED
    BY <2>3, <2>4, <2>5, Zenon
<1>7. f = [p \in 0..n |-> f[p]]
  BY <1>5
<1>8. f = [pc \in 0..n |->
              IF IsAt(s, pc, push) THEN f[pc + Len(push)]
              ELSE IF next[pc] = NoOp THEN From(s, pc)
              ELSE Between(s, pc, next[pc]) \o f[next[pc]]]
  BY <1>6, <1>7, Zenon
<1>9. WithoutLoop(f, s, push, Reader(s))
  BY <1>8, Zenon DEF WithoutLoop, n, next
<1> QED
  BY <1>9

\* Deletion takes the pushes out of the list and keeps all else.
LEMMA WithoutIs ==
    ASSUME NEW s, NEW L, NEW u, ParsesWhole(s, L, u), NEW push, Whole(push)
    PROVE  Without(s, push, Reader(s)) = Remaining(L, {push}) \o u
<1> DEFINE n == Len(L)
           f == CHOOSE h : WithoutLoop(h, s, push, Reader(s))
           gone == {push}
<1>0. L \in Seq(Code) /\ Table(s, L, u) /\ (\A k \in 1..n : Whole(L[k])) /\ u \in Code
  BY TableHolds, Zenon DEF ParsesWhole, Torn
<1>1. n \in Nat /\ s \in Code /\ Len(push) \in Nat \ {0} /\ push \in Code
  BY <1>0, WholeIs, Zenon DEF Table
<1>2. Without(s, push, Reader(s)) = f[0]
  BY Zenon DEF Without, WithoutLoop
<1>3. WithoutLoop(f, s, push, Reader(s))
  BY <1>1, WithoutLoopExists, Zenon
<1> HIDE DEF f
<1>4. \A p \in 0..Len(s) : f[p] =
          IF IsAt(s, p, push) THEN f[p + Len(push)]
          ELSE IF Reader(s)[p] = NoOp THEN From(s, p)
          ELSE Between(s, p, Reader(s)[p]) \o f[Reader(s)[p]]
  BY <1>3, Zenon DEF WithoutLoop
<1>5. \A p \in 0..Len(s) : Reader(s)[p] = get_op(s, p)
  BY <1>1, ReaderIs
<1> DEFINE Ok(k) == f[Bound(L, k)] = Back(L, k, gone) \o u
           P == {m \in 0..n : Ok(n - m)}
<1>6. Ok(n)
  <2> DEFINE p == Bound(L, n)
  <2>1. n \in 0..n
    BY <1>1
  <2>2. p \in 0..Len(s) /\ get_op(s, p) = NoOp /\ From(s, p) = Back(L, n, {}) \o u
    BY <1>0, <2>1, Zenon DEF Table
  <2>3. Back(L, n, {}) = <<>> /\ Back(L, n, gone) = <<>>
    BY <1>0, BackIs, Zenon
  <2> HIDE DEF p
  <2>4. p \in Nat
    BY <1>1, <2>2, CodeIs
  <2>5. ~IsAt(s, p, push)
    BY <1>1, <2>2, <2>4, PushAtNoOp
  <2>6. f[p] = From(s, p)
    BY <1>4, <1>5, <2>2, <2>5, Zenon
  <2> QED
    BY <2>2, <2>3, <2>6, Zenon DEF p
<1>7. 0 \in P
  <2>1. 0 \in 0..n /\ n - 0 = n
    BY <1>1
  <2> HIDE DEF Ok
  <2> QED
    BY <1>6, <2>1
<1>8. ASSUME NEW m \in 1..n, m - 1 \in P PROVE m \in P
  <2> DEFINE k == n - (m - 1)
             p == Bound(L, k - 1)
             q == Bound(L, k)
             e == L[k]
             b == Back(L, k, gone)
  <2>1. k \in 1..n /\ k - 1 = n - m /\ m \in 0..n
    BY <1>1
  <2>2. f[q] = b \o u
    BY <1>8
  <2> HIDE DEF k
  <2>3. k - 1 \in 0..n /\ k \in 0..n
    BY <1>1, <2>1
  <2>4. /\ p \in 0..Len(s) /\ get_op(s, p) = q /\ q \in (p + 1)..Len(s)
        /\ Piece(s, p, e) /\ Between(s, p, q) = e /\ q = p + Len(e)
    BY <1>0, <2>1, <2>3, Zenon DEF Table
  <2>5. q # NoOp
    BY <2>4 DEF NoOp
  <2>6. Back(L, k - 1, gone) = (IF e \in gone THEN <<>> ELSE e) \o b
    BY <1>0, <2>1, BackIs, Zenon
  <2>7. e \in Code /\ b \in Code /\ Whole(e)
    <3>1. Whole(e)
      BY <1>0, <2>1
    <3>2. b \in Code
      BY <1>0, <2>3, BackIs, Zenon
    <3> QED
      BY <3>1, <3>2, WholeIs, Zenon
  <2> HIDE DEF p, q, e, b
  <2>8. IsAt(s, p, push) <=> e = push
    BY <2>4, <2>7, PushAtOp
  <2>9. f[p] = Back(L, k - 1, gone) \o u
    <3>1. CASE e = push
      <4>1. f[p] = b \o u
        BY <1>4, <2>2, <2>4, <2>8, <3>1, Zenon
      <4>2. Back(L, k - 1, gone) = b
        <5>1. Back(L, k - 1, gone) = <<>> \o b
          BY <2>6, <3>1
        <5> QED
          BY <2>7, <5>1, CodeJoin, Zenon
      <4> QED
        BY <4>1, <4>2
    <3>2. CASE e # push
      <4>1. f[p] = e \o (b \o u)
        BY <1>4, <1>5, <2>2, <2>4, <2>5, <2>8, <3>2, Zenon
      <4>2. Back(L, k - 1, gone) = e \o b
        BY <2>6, <3>2
      <4>3. (e \o b) \o u = e \o (b \o u)
        BY <1>0, <2>7, CodeJoin, Zenon
      <4> QED
        BY <4>1, <4>2, <4>3, Zenon
    <3> QED
      BY <3>1, <3>2
  <2>10. Ok(k - 1)
    BY <2>9 DEF p
  <2> HIDE DEF Ok
  <2> QED
    BY <2>1, <2>10
<1>9. \A m \in 0..n : m \in P
  <2> HIDE DEF P
  <2> QED
    BY <1>1, <1>7, <1>8, RoundByRound
<1>10. n \in 0..n /\ n - n = 0
  BY <1>1
<1>11. Ok(0)
  <2> HIDE DEF Ok
  <2> QED
    BY <1>9, <1>10
<1>12. Bound(L, 0) = 0 /\ Back(L, 0, gone) = Remaining(L, gone)
  BY <1>0, BackIs, Zenon DEF Table
<1> QED
  BY <1>2, <1>11, <1>12, Zenon

\* btcd's reader is the others'.
LEMMA BtcdReads ==
    ASSUME NEW s \in Code
    PROVE  [pc \in 0..Len(s) |-> nextOpOffset(s, pc)] = Reader(s)
<1>1. ASSUME NEW pc \in 0..Len(s) PROVE nextOpOffset(s, pc) = get_op(s, pc)
  <2>0. pc \in Nat /\ Len(s) \in Nat
    BY CodeIs
  <2>1. CASE pc >= Len(s)
    <3>1. ~(pc < Len(s))
      BY <2>0, <2>1
    <3> QED
      BY <2>1, <3>1, Zenon DEF nextOpOffset, get_op
  <2>2. CASE pc < Len(s)
    <3>0. ~(pc >= Len(s)) /\ pc + 1 \in 1..Len(s)
      BY <2>0, <2>2
    <3>1. s[pc + 1] \in Nat
      BY <3>0, CodeIs
    <3>2. s[pc + 1] > OP_PUSHDATA4 <=> ~(s[pc + 1] <= OP_PUSHDATA4)
      BY <3>1 DEF OP_PUSHDATA4
    <3>3. CASE s[pc + 1] > OP_PUSHDATA4
      BY <2>2, <3>0, <3>2, <3>3, Zenon DEF nextOpOffset, get_op
    <3>4. CASE ~(s[pc + 1] > OP_PUSHDATA4)
      BY <2>2, <3>0, <3>2, <3>4, Zenon DEF nextOpOffset, get_op
    <3> QED
      BY <3>3, <3>4
  <2> QED
    BY <2>0, <2>1, <2>2
<1> QED
  BY <1>1, Zenon DEF Reader

\* A signature's push is one opcode, and the same in all ports.
LEMMA PushIs ==
    ASSUME NEW sig \in Code, sig # <<>>, Len(sig) <= 100
    PROVE  /\ Whole(push_encode(sig))
           /\ pushEncode(sig) = push_encode(sig) /\ gocoinPushEncode(sig) = push_encode(sig)
           /\ push_encode(sig) =
                  (IF Len(sig) < OP_PUSHDATA1 THEN <<Len(sig)>> ELSE <<OP_PUSHDATA1, Len(sig)>>) \o sig
<1> DEFINE n == Len(sig)
           h == IF n < OP_PUSHDATA1 THEN <<n>> ELSE <<OP_PUSHDATA1, n>>
           B == 0..255
           v == h \o sig
<1>0. n \in Nat \ {0} /\ n <= 100 /\ sig \in Seq(B)
  <2>1. n \in Nat /\ n # 0
    BY EmptySeq DEF Code
  <2> QED
    BY <2>1 DEF Code
<1>1. push_encode(sig) = v /\ pushEncode(sig) = v /\ gocoinPushEncode(sig) = v
  <2>1. n < OP_PUSHDATA1 \/ (n >= OP_PUSHDATA1 /\ n < 256 /\ n <= 255 /\ ~(n < OP_PUSHDATA1))
    BY <1>0 DEF OP_PUSHDATA1
  <2>2. n < OP_PUSHDATA1 => ~(n >= OP_PUSHDATA1) /\ ~(n >= 256)
    BY <1>0 DEF OP_PUSHDATA1
  <2>3. push_encode(sig) = v
    BY <1>0, <2>1, <2>2 DEF push_encode
  <2>4. pushEncode(sig) = v
    BY <2>1, <2>2, Zenon DEF pushEncode
  <2>5. gocoinPushEncode(sig) = v
    BY <2>1, <2>2, Zenon DEF gocoinPushEncode
  <2> QED
    BY <2>3, <2>4, <2>5
<1>2. /\ h \in Seq(B) /\ Len(h) = (IF n < OP_PUSHDATA1 THEN 1 ELSE 2)
      /\ h[1] = (IF n < OP_PUSHDATA1 THEN n ELSE OP_PUSHDATA1)
      /\ n >= OP_PUSHDATA1 => h[2] = n
  <2>1. n \in B /\ OP_PUSHDATA1 \in B /\ OP_PUSHDATA1 \in Nat
    <3>1. n \in Nat /\ n <= 100
      BY <1>0
    <3> HIDE DEF n, h, v
    <3> QED
      BY <3>1 DEF OP_PUSHDATA1
  <2> HIDE DEF n, B
  <2>2. CASE n < OP_PUSHDATA1
    <3>1. h = <<n>> /\ ~(n >= OP_PUSHDATA1)
      <4>1. h = <<n>>
        BY <2>2, Zenon
      <4>2. n \in Nat
        BY <1>0
      <4> HIDE DEF h
      <4> QED
        BY <2>1, <2>2, <4>1, <4>2
    <3> HIDE DEF h
    <3> QED
      BY <2>1, <2>2, <3>1
  <2>3. CASE ~(n < OP_PUSHDATA1)
    <3>1. h = <<OP_PUSHDATA1, n>>
      BY <2>3
    <3> HIDE DEF h
    <3> QED
      BY <2>1, <2>3, <3>1
  <2> QED
    BY <2>2, <2>3
<1> HIDE DEF h, n, B
<1>3. Joined(B, h, sig)
  BY <1>0, <1>2, JoinIs
<1>4. /\ v \in Seq(B) /\ Len(v) = Len(h) + n
      /\ \A i \in 1..Len(h) : v[i] = h[i]
  BY <1>3 DEF Joined, n
<1> HIDE DEF v
<1>5. v \in Code
  BY <1>4 DEF Code, B
<1>6. OpIs(v, 0)
  BY <1>5, OpCases
<1>7. Len(v) \in Nat \ {0} /\ 0 < Len(v) /\ v[0 + 1] = h[1] /\ h[1] \in Nat
  <2>1. 1 \in 1..Len(h) /\ 0 + 1 = 1
    BY <1>2
  <2> QED
    BY <1>0, <1>2, <1>4, <2>1 DEF OP_PUSHDATA1
<1>8. ~(v[0 + 1] > OP_PUSHDATA4)
  BY <1>0, <1>2, <1>7 DEF OP_PUSHDATA1, OP_PUSHDATA4
<1>9. get_op(v, 0) = Len(v)
  <2> DEFINE w == LengthBytes(v[0 + 1])
             z == Size(v, 0, w)
             body == 0 + 1 + w
  <2>1. /\ w \in {0, 1, 2, 4}
        /\ body <= Len(v) =>
               /\ z \in Nat
               /\ get_op(v, 0) = IF body + z > Len(v) THEN NoOp ELSE body + z
    BY <1>6, <1>7, <1>8, Zenon DEF OpIs
  <2>2. w = (IF n < OP_PUSHDATA1 THEN 0 ELSE 1)
    <3>1. CASE n < OP_PUSHDATA1
      <4>1. v[0 + 1] = n
        BY <1>2, <1>7, <3>1
      <4>2. LengthBytes(n) = 0
        BY <1>0, <3>1 DEF LengthBytes, OP_PUSHDATA1, OP_PUSHDATA2, OP_PUSHDATA4
      <4> QED
        BY <3>1, <4>1, <4>2
    <3>2. CASE ~(n < OP_PUSHDATA1)
      <4>1. v[0 + 1] = OP_PUSHDATA1
        BY <1>2, <1>7, <3>2
      <4>2. LengthBytes(OP_PUSHDATA1) = 1
        BY DEF LengthBytes, OP_PUSHDATA1, OP_PUSHDATA2, OP_PUSHDATA4
      <4> QED
        BY <3>2, <4>1, <4>2
    <3> QED
      BY <3>1, <3>2
  <2>3. z = n
    <3>1. CASE n < OP_PUSHDATA1
      BY <1>2, <1>7, <2>2, <3>1 DEF Size
    <3>2. CASE ~(n < OP_PUSHDATA1)
      <4>1. w = 1 /\ n >= OP_PUSHDATA1 /\ 2 \in 1..Len(h)
        BY <1>0, <1>2, <2>2, <3>2 DEF OP_PUSHDATA1
      <4>2. v[2] = n
        BY <1>2, <1>4, <4>1
      <4>3. LittleEndian(v, 0 + 1, 1) = v[2]
        <5>1. ~(\E k \in 3..1 : v[(0 + 1) + k] # 0)
          OBVIOUS
        <5>2. LittleEndian(v, 0 + 1, 1) = v[(0 + 1) + 1] + 0
          BY <5>1 DEF LittleEndian
        <5>3. v[(0 + 1) + 1] = n
          BY <4>2
        <5> QED
          BY <1>0, <4>2, <5>2, <5>3
      <4> HIDE DEF w
      <4> QED
        BY <4>1, <4>2, <4>3 DEF Size
    <3> QED
      BY <3>1, <3>2
  <2> HIDE DEF w, z
  <2>4. body + z = Len(v)
    BY <1>0, <1>2, <1>4, <2>2, <2>3
  <2>5. body <= Len(v) /\ ~(body + z > Len(v))
    BY <1>0, <1>7, <2>1, <2>3, <2>4
  <2> QED
    BY <2>1, <2>4, <2>5
<1>10. v # <<>>
  BY <1>7
<1>11. Whole(v)
  BY <1>5, <1>9, <1>10 DEF Whole
<1> QED
  BY <1>1, <1>11 DEF v, h, n

\* What deletion removes: nothing without a signature.
Gone(sig) == IF sig = <<>> THEN {} ELSE {push_encode(sig)}

\* The empty script has no opcode.
LEMMA EmptyParse ==
    ASSUME NEW L, NEW u, ParsesWhole(<<>>, L, u)
    PROVE  L = <<>> /\ u = <<>>
<1>0. L \in Seq(Code) /\ Table(<<>>, L, u) /\ Len(L) \in Nat /\ u \in Code /\ <<>> = Remaining(L, {}) \o u
  BY TableHolds, ListIs DEF ParsesWhole, Torn
<1>1. L = <<>>
  <2> SUFFICES ASSUME L # <<>> PROVE FALSE
    OBVIOUS
  <2>1. Len(L) \in Nat \ {0}
    BY <1>0, EmptySeq
  <2>2. 1 \in 1..Len(L)
    BY <2>1
  <2>3. Bound(L, 1) \in (Bound(L, 1 - 1) + 1)..Len(<<>>)
    BY <1>0, <2>2, Zenon DEF Table
  <2>4. Bound(L, 1 - 1) = 0 /\ Len(<<>>) = 0
    BY <1>0 DEF Table
  <2> QED
    BY <2>3, <2>4
<1>2. u = <<>>
  <2>1. Remaining(<<>>, {}) = <<>>
    BY RemainingIs
  <2> QED
    BY <1>0, <1>1, <2>1, CodeJoin, Zenon
<1> QED
  BY <1>1, <1>2

\* The four deletions remove the pushes of the signature and nothing else.
LEMMA DeletionsAre ==
    ASSUME NEW s, NEW L, NEW u, ParsesWhole(s, L, u), NEW sig \in Code, Len(sig) <= 100
    PROVE  /\ find_and_delete(s, sig) = Remaining(L, Gone(sig)) \o u
           /\ findAndDelete(s, sig) = Remaining(L, Gone(sig)) \o u
           /\ gocoinFindAndDelete(s, sig) = Remaining(L, Gone(sig)) \o u
           /\ (IF sig = <<>> THEN s ELSE FindAndDelete(s, sig)) = Remaining(L, Gone(sig)) \o u
<1> DEFINE v == Remaining(L, Gone(sig)) \o u
           push == push_encode(sig)
<1>0. s \in Code /\ s = Remaining(L, {}) \o u
  <2>1. Table(s, L, u)
    BY TableHolds
  <2> QED
    BY <2>1, Zenon DEF ParsesWhole, Table
<1>1. CASE sig = <<>>
  <2>1. v = s
    BY <1>0, <1>1, Zenon DEF Gone
  <2> QED
    BY <1>1, <2>1, Zenon DEF find_and_delete, findAndDelete, gocoinFindAndDelete
<1>2. CASE sig # <<>>
  <2>1. Whole(push) /\ pushEncode(sig) = push /\ gocoinPushEncode(sig) = push
    BY <1>2, PushIs
  <2>2. Gone(sig) = {push}
    BY <1>2, Zenon DEF Gone
  <2>3. Without(s, push, Reader(s)) = v
    <3> HIDE DEF push
    <3>1. Whole(push)
      BY <2>1
    <3>3. ASSUME NEW p, Whole(p) PROVE Without(s, p, Reader(s)) = Remaining(L, {p}) \o u
      BY ONLY ParsesWhole(s, L, u), <3>3, WithoutIs
    <3>2. Without(s, push, Reader(s)) = Remaining(L, {push}) \o u
      BY <3>1, <3>3, Zenon
    <3> QED
      BY <2>2, <3>2, Zenon
  <2>4. [pc \in 0..Len(s) |-> nextOpOffset(s, pc)] = Reader(s)
    BY <1>0, BtcdReads, Zenon
  <2>5. s = <<>> => v = s
    <3> SUFFICES ASSUME s = <<>> PROVE v = <<>>
      OBVIOUS
    <3>1. L = <<>> /\ u = <<>>
      BY EmptyParse
    <3>2. Remaining(<<>>, Gone(sig)) = <<>> /\ <<>> \o <<>> = <<>>
      BY RemainingIs, CodeJoin, Zenon
    <3> QED
      BY <3>1, <3>2
  <2> HIDE DEF v, push
  <2>6. find_and_delete(s, sig) = v
    BY <1>2, <2>3, <2>5, Zenon DEF find_and_delete, push
  <2>7. findAndDelete(s, sig) = v
    BY <1>2, <2>1, <2>3, <2>4, <2>5, Zenon DEF findAndDelete
  <2>8. gocoinFindAndDelete(s, sig) = v
    BY <1>2, <2>1, <2>3, <2>5, Zenon DEF gocoinFindAndDelete
  <2>9. FindAndDelete(s, sig) = v
    BY <2>3, Zenon DEF FindAndDelete, push
  <2> QED
    BY <1>2, <2>6, <2>7, <2>8, <2>9, Zenon DEF v
<1> QED
  BY <1>1, <1>2

\* What is left of a list of opcodes is a list of opcodes.
Sieved(L, gone, more) ==
    \E M \in Seq(Code) : /\ \A k \in 1..Len(M) : Whole(M[k])
                         /\ Remaining(M, {}) = Remaining(L, gone)
                         /\ Remaining(M, more) = Remaining(L, gone \cup more)

\* That list exists.
LEMMA SieveExists ==
    ASSUME NEW L \in Seq(Code), \A k \in 1..Len(L) : Whole(L[k]), NEW gone, NEW more
    PROVE  Sieved(L, gone, more)
<1> DEFINE AllWhole(M) == \A k \in 1..Len(M) : Whole(M[k])
           G == {M \in Seq(Code) : AllWhole(M) => Sieved(M, gone, more)}
<1>0. \A g : /\ Remaining(<<>>, g) = <<>>
             /\ \A a, b \in Seq(Code) : Remaining(a \o b, g) = Remaining(a, g) \o Remaining(b, g)
             /\ \A e \in Code : Remaining(<<e>>, g) = IF e \in g THEN <<>> ELSE e
             /\ \A a \in Seq(Code) : Remaining(a, g) \in Code
  BY RemainingIs
<1>1. <<>> \in G
  <2>1. <<>> \in Seq(Code) /\ Len(<<>>) = 0
    OBVIOUS
  <2>2. \A k \in 1..Len(<<>>) : Whole(<<>>[k])
    BY <2>1
  <2>3. Sieved(<<>>, gone, more)
    BY <1>0, <2>1, <2>2, Zenon DEF Sieved
  <2> QED
    BY <2>1, <2>3
<1>2. ASSUME NEW M \in Seq(Code), NEW e \in Code, M \in G PROVE Append(M, e) \in G
  <2> DEFINE A == Append(M, e)
  <2>0. A = M \o <<e>> /\ A \in Seq(Code) /\ <<e>> \in Seq(Code)
        /\ Len(A) = Len(M) + 1 /\ A[Len(M) + 1] = e /\ \A k \in 1..Len(M) : A[k] = M[k]
    <3> HIDE DEF Code
    <3> QED
      BY AppendProperties, AppendIsConcat
  <2>1. Len(M) \in Nat
    BY ListIs
  <2> HIDE DEF A
  <2> SUFFICES ASSUME AllWhole(A) PROVE Sieved(A, gone, more)
    BY <2>0 DEF A
  <2>2. Whole(e) /\ AllWhole(M)
    <3>1. Len(M) + 1 \in 1..Len(A) /\ \A k \in 1..Len(M) : k \in 1..Len(A)
      BY <2>0, <2>1
    <3> QED
      BY <2>0, <3>1, Zenon
  <2>3. PICK R \in Seq(Code) : /\ AllWhole(R)
                               /\ Remaining(R, {}) = Remaining(M, gone)
                               /\ Remaining(R, more) = Remaining(M, gone \cup more)
    BY <1>2, <2>2, Zenon DEF Sieved
  <2>4. \A g : Remaining(A, g) = Remaining(M, g) \o (IF e \in g THEN <<>> ELSE e)
    <3> TAKE g
    <3>1. Remaining(M \o <<e>>, g) = Remaining(M, g) \o Remaining(<<e>>, g)
      <4>1. \A a, b \in Seq(Code) : Remaining(a \o b, g) = Remaining(a, g) \o Remaining(b, g)
        BY RemainingIs
      <4>2. <<e>> \in Seq(Code)
        BY <2>0
      <4> QED
        BY <4>1, <4>2, Zenon
    <3>2. Remaining(<<e>>, g) = IF e \in g THEN <<>> ELSE e
      BY <1>0, Zenon
    <3> QED
      BY <2>0, <3>1, <3>2, Zenon
  <2>5. CASE e \in gone
    <3>1. e \in gone \cup more
      BY <2>5
    <3>2. Remaining(M, gone) \in Code /\ Remaining(M, gone \cup more) \in Code
      BY <1>0, Zenon
    <3>3. Remaining(A, gone) = Remaining(M, gone) \o <<>>
      BY <2>4, <2>5, Zenon
    <3>4. Remaining(A, gone \cup more) = Remaining(M, gone \cup more) \o <<>>
      BY <2>4, <3>1, Zenon
    <3>5. Remaining(A, gone) = Remaining(R, {}) /\ Remaining(A, gone \cup more) = Remaining(R, more)
      BY <2>3, <3>2, <3>3, <3>4, CodeJoin, Zenon
    <3> QED
      BY <2>3, <3>5, Zenon DEF Sieved
  <2>6. CASE e \notin gone
    <3> DEFINE T == Append(R, e)
    <3>0. /\ T = R \o <<e>> /\ T \in Seq(Code) /\ Len(T) = Len(R) + 1 /\ Len(R) \in Nat
          /\ T[Len(R) + 1] = e /\ \A k \in 1..Len(R) : T[k] = R[k]
      <4>1. Len(R) \in Nat
        BY ListIs
      <4> HIDE DEF Code
      <4> QED
        BY <4>1, AppendProperties, AppendIsConcat
    <3> HIDE DEF T
    <3>1. AllWhole(T)
      <4>1. \A k \in 1..Len(T) : k \in 1..Len(R) \/ k = Len(R) + 1
        BY <3>0
      <4> QED
        BY <2>2, <2>3, <3>0, <4>1, Zenon
    <3>2. \A g : Remaining(T, g) = Remaining(R, g) \o (IF e \in g THEN <<>> ELSE e)
      <4> TAKE g
      <4>1. Remaining(R \o <<e>>, g) = Remaining(R, g) \o Remaining(<<e>>, g)
        <5>1. \A a, b \in Seq(Code) : Remaining(a \o b, g) = Remaining(a, g) \o Remaining(b, g)
          BY RemainingIs
        <5>2. <<e>> \in Seq(Code)
          BY <2>0
        <5> QED
          BY <5>1, <5>2, Zenon
      <4>2. Remaining(<<e>>, g) = IF e \in g THEN <<>> ELSE e
        BY <1>0, Zenon
      <4> QED
        BY <3>0, <4>1, <4>2, Zenon
    <3>3. Remaining(T, {}) = Remaining(A, gone)
      <4>1. Remaining(T, {}) = Remaining(R, {}) \o e
        <5>1. ~(e \in {})
          OBVIOUS
        <5> QED
          BY <3>2, <5>1, Zenon
      <4>2. Remaining(A, gone) = Remaining(M, gone) \o e
        BY <2>4, <2>6, Zenon
      <4> QED
        BY <2>3, <4>1, <4>2
    <3>4. Remaining(T, more) = Remaining(A, gone \cup more)
      <4>1. e \in gone \cup more <=> e \in more
        BY <2>6
      <4>2. Remaining(A, gone \cup more) = Remaining(M, gone \cup more) \o (IF e \in more THEN <<>> ELSE e)
        BY <2>4, <4>1, Zenon
      <4>3. Remaining(T, more) = Remaining(R, more) \o (IF e \in more THEN <<>> ELSE e)
        BY <3>2, Zenon
      <4> QED
        BY <2>3, <4>2, <4>3
    <3> QED
      BY <3>0, <3>1, <3>3, <3>4, Zenon DEF Sieved
  <2> QED
    BY <2>5, <2>6
<1>3. \A M \in Seq(Code) : M \in G
  <2> HIDE DEF G
  <2> QED
    BY <1>1, <1>2, SequenceInduction
<1> QED
  BY <1>3

\* The serializers drop the separators, once all can be read.
LEMMA SerializedAre ==
    ASSUME NEW t, NEW L \in Seq(Code), \A k \in 1..Len(L) : Whole(L[k]), NEW gone,
           t = Remaining(L, gone) \o <<>>
    PROVE  LET code == Remaining(L, gone \cup {<<OP_CODESEPARATOR>>})
           IN  /\ CoreSerialized(t) = code
               /\ GocoinSerialized(t) = code
               /\ BtcdSerialized(t) = {code}
               /\ strip_codeseps(t) = code
<1> DEFINE more == {<<OP_CODESEPARATOR>>}
           code == Remaining(L, gone \cup more)
<1>1. Sieved(L, gone, more)
  BY SieveExists
<1>2. PICK M \in Seq(Code) : /\ \A k \in 1..Len(M) : Whole(M[k])
                             /\ Remaining(M, {}) = Remaining(L, gone)
                             /\ Remaining(M, more) = code
  BY <1>1, Zenon DEF Sieved
<1>3. Torn(<<>>)
  <2>1. <<>> \in Code /\ Len(<<>>) = 0
    BY CodeJoin
  <2>2. get_op(<<>>, 0) = NoOp
    <3>1. 0 >= Len(<<>>)
      BY <2>1
    <3> QED
      BY <3>1, Zenon DEF get_op
  <2> QED
    BY <2>1, <2>2, Zenon DEF Torn
<1>4. ParsesWhole(t, M, <<>>)
  BY <1>2, <1>3, Zenon DEF ParsesWhole
<1>5. Ops(t) = M /\ Unread(t) = <<>>
  BY <1>4, OpsAre
<1> HIDE DEF code, more
<1>6. WithoutSeparators(M) = code /\ code \in Code
  <2>1. WithoutSeparators(M) = Remaining(M, more)
    BY Zenon DEF WithoutSeparators, more
  <2>2. Remaining(M, more) \in Code
    BY <1>2, RemainingIs
  <2> QED
    BY <1>2, <2>1, <2>2
<1>7. code \o <<>> = code
  BY <1>6, CodeJoin, Zenon
<1>8. CoreSerialized(t) = code
  <2>1. ~(0 > Len(<<>>)) /\ SubSeq(<<>>, 1, 0) = <<>>
    BY SubSeqEmpty
  <2>2. CoreSerialized(t) = WithoutSeparators(M) \o SubSeq(<<>>, 1, IF 0 > Len(<<>>) THEN 1 ELSE 0)
    BY <1>5, Zenon DEF CoreSerialized
  <2>3. SubSeq(<<>>, 1, IF 0 > Len(<<>>) THEN 1 ELSE 0) = <<>>
    BY <2>1, Zenon
  <2> QED
    BY <1>6, <1>7, <2>2, <2>3, Zenon
<1>9. GocoinSerialized(t) = code
  BY <1>5, <1>6, Zenon DEF GocoinSerialized
<1>10. BtcdSerialized(t) = {code}
  BY <1>5, <1>6, Zenon DEF BtcdSerialized
<1>11. strip_codeseps(t) = code
  BY <1>5, <1>6, <1>7, Zenon DEF strip_codeseps
<1> QED
  BY <1>8, <1>9, <1>10, <1>11 DEF code, more

(***************************************************************************)
(* The modules' answers                                                    *)
(***************************************************************************)

\* An input as the modules are handed it.
InputFits(i) ==
    /\ i.script \in Code /\ i.sig_to_delete \in Code /\ Len(i.sig_to_delete) <= 100
    /\ i.n_codesep \in Nat

\* What a hash commits to, of a script that parses as L and u.
Committed(i, L, u) ==
    IF i.is_segwit_v0 THEN Remaining(Later(L, i.n_codesep), {}) \o u
    ELSE Remaining(Later(L, i.n_codesep), Uncommitted(i.sig_to_delete))

\* Every module hashes what is committed to; btcd answers to a legacy script.
LEMMA AnswersAre ==
    ASSUME NEW i, InputFits(i), NEW L, NEW u, ParsesWhole(i.script, L, u),
           i.is_segwit_v0 \/ u = <<>>
    PROVE  /\ \A m \in SighashModules : \A code \in sighash_compute(m, i) : code = Committed(i, L, u)
           /\ ~i.is_segwit_v0 => BTCDSighashCompute(i) # {}
<1> DEFINE s == i.script
           c == i.n_codesep
           sig == i.sig_to_delete
           M == Later(L, c)
           t == Remaining(M, {}) \o u
           v == Remaining(M, Uncommitted(sig))
           d == Remaining(M, Gone(sig)) \o u
<1>1. s \in Code /\ c \in Nat /\ sig \in Code /\ Len(sig) <= 100
  BY Zenon DEF InputFits
<1>2. ParsesWhole(s, L, u)
  OBVIOUS
<1> HIDE DEF s, c, sig
<1>3. /\ truncate_after_codesep(s, c) = t
      /\ BitcoinTruncated(s, c) = t
      /\ truncateAfterCodesep(s, c) = t
      /\ gocoinTruncateAfterCodesep(s, c) = t
  <2> HIDE DEF Code
  <2> QED
    BY <1>1, <1>2, TruncationsAre
<1>4. ParsesWhole(t, M, u)
  <2>1. /\ ParsesWhole(t, M, u)
        /\ Cut(L, c) = 0 => t = s
        /\ Cut(L, c) # 0 => From(s, Bound(L, Cut(L, c))) = t
    <3> HIDE DEF Code
    <3> QED
      BY <1>1, <1>2, LaterParses
  <2> QED
    BY <2>1
<1> HIDE DEF M, t
<1>5. /\ find_and_delete(t, sig) = d
      /\ findAndDelete(t, sig) = d
      /\ gocoinFindAndDelete(t, sig) = d
      /\ (IF sig = <<>> THEN t ELSE FindAndDelete(t, sig)) = d
  <2> HIDE DEF Code
  <2> QED
    BY <1>1, <1>4, DeletionsAre
<1>6. M \in Seq(Code) /\ \A k \in 1..Len(M) : Whole(M[k])
  BY <1>4, Zenon DEF ParsesWhole
<1>7. Uncommitted(sig) = Gone(sig) \cup {<<OP_CODESEPARATOR>>}
  BY DEF Uncommitted, Gone
<1>8. ASSUME u = <<>>
      PROVE  /\ CoreSerialized(d) = v
             /\ GocoinSerialized(d) = v
             /\ BtcdSerialized(d) = {v}
             /\ strip_codeseps(d) = v
  <2> DEFINE g == Gone(sig)
             code == Remaining(M, g \cup {<<OP_CODESEPARATOR>>})
  <2>1. d = Remaining(M, g) \o <<>>
    BY <1>8
  <2>2. v = code
    BY <1>7
  <2> HIDE DEF d, v, g
  <2>3. /\ CoreSerialized(d) = code
        /\ GocoinSerialized(d) = code
        /\ BtcdSerialized(d) = {code}
        /\ strip_codeseps(d) = code
    BY <1>6, <2>1, SerializedAre, Zenon
  <2> QED
    BY <2>2, <2>3, Zenon
<1>9. Committed(i, L, u) = IF i.is_segwit_v0 THEN t ELSE v
  BY Zenon DEF Committed, s, c, sig, M, t
<1> HIDE DEF d, v
<1>10. \A code \in BitcoinSighashCompute(i) : code = Committed(i, L, u)
  <2>1. CASE i.is_segwit_v0
    <3>1. BitcoinSighashCompute(i) = {t}
      BY <1>3, <2>1, Zenon DEF BitcoinSighashCompute, s, c
    <3> QED
      BY <1>9, <2>1, <3>1
  <2>2. CASE ~i.is_segwit_v0
    <3>1. BitcoinSighashCompute(i) = {CoreSerialized(d)}
      BY <1>3, <1>5, <2>2, Zenon DEF BitcoinSighashCompute, s, c, sig
    <3> QED
      BY <1>8, <1>9, <2>2, <3>1
  <2> QED
    BY <2>1, <2>2
<1>11. /\ \A code \in BTCDSighashCompute(i) : code = Committed(i, L, u)
       /\ ~i.is_segwit_v0 => BTCDSighashCompute(i) # {}
  <2>1. CASE i.is_segwit_v0
    <3>1. BTCDSighashCompute(i) = {t}
      BY <1>3, <2>1, Zenon DEF BTCDSighashCompute, s, c
    <3> QED
      BY <1>9, <2>1, <3>1
  <2>2. CASE ~i.is_segwit_v0
    <3>1. BTCDSighashCompute(i) = BtcdSerialized(d)
      BY <1>3, <1>5, <2>2, Zenon DEF BTCDSighashCompute, s, c, sig
    <3> QED
      BY <1>8, <1>9, <2>2, <3>1
  <2> QED
    BY <2>1, <2>2
<1>12. \A code \in GocoinSighashCompute(i) : code = Committed(i, L, u)
  <2> SUFFICES ASSUME NEW code \in GocoinSighashCompute(i) PROVE code = Committed(i, L, u)
    OBVIOUS
  <2>0. preflightTx(i.tx_bytes)
    BY DEF GocoinSighashCompute
  <2>1. CASE i.is_segwit_v0
    <3>1. GocoinSighashCompute(i) = {t}
      BY <1>3, <2>0, <2>1, Zenon DEF GocoinSighashCompute, s, c
    <3> QED
      BY <1>9, <2>1, <3>1
  <2>2. CASE ~i.is_segwit_v0
    <3>1. GocoinSighashCompute(i) = {GocoinSerialized(d)}
      BY <1>3, <1>5, <2>0, <2>2, Zenon DEF GocoinSighashCompute, s, c, sig
    <3> QED
      BY <1>8, <1>9, <2>2, <3>1
  <2> QED
    BY <2>1, <2>2
<1>13. \A code \in rust_bitcoin_sighash_compute(i) : code = Committed(i, L, u)
  <2>1. CASE i.is_segwit_v0
    <3>1. rust_bitcoin_sighash_compute(i) \subseteq {t}
      <4>1. rust_bitcoin_sighash_compute(i) = IF i.standard /\ i.in_money_range THEN {t} ELSE {}
        BY <1>3, <2>1, Zenon DEF rust_bitcoin_sighash_compute, s, c
      <4> QED
        BY <4>1
    <3> QED
      BY <1>9, <2>1, <3>1
  <2>2. CASE ~i.is_segwit_v0
    <3>1. rust_bitcoin_sighash_compute(i) = {strip_codeseps(d)}
      BY <1>3, <1>5, <2>2, Zenon DEF rust_bitcoin_sighash_compute, s, c, sig
    <3> QED
      BY <1>8, <1>9, <2>2, <3>1
  <2> QED
    BY <2>1, <2>2
<1>14. ASSUME NEW m \in SighashModules PROVE m \in {"Bitcoin", "Btcd", "Gocoin", "Rustbitcoin"}
  BY <1>14 DEF SighashModules, ModuleOrder, ToSet
<1>15. ASSUME NEW m \in SighashModules, NEW code \in sighash_compute(m, i)
       PROVE  code = Committed(i, L, u)
  <2>1. CASE m = "Bitcoin"
    BY <1>10, <1>15, <2>1 DEF sighash_compute
  <2>2. CASE m = "Btcd"
    BY <1>11, <1>15, <2>2 DEF sighash_compute
  <2>3. CASE m = "Gocoin"
    BY <1>12, <1>15, <2>3 DEF sighash_compute
  <2>4. CASE m = "Rustbitcoin"
    BY <1>13, <1>15, <2>4 DEF sighash_compute
  <2> QED
    BY <1>14, <2>1, <2>2, <2>3, <2>4
<1> QED
  BY <1>11, <1>15

(***************************************************************************)
(* The invariant                                                           *)
(***************************************************************************)

\* What the modules are handed is what was drawn, with the splice done.
InputIsDrawn ==
    \/ drawn = NoSighashInput /\ sighash_input = NoSighashInput
    \/ /\ drawn \in SighashInputs
       /\ sighash_input = [drawn EXCEPT !.script = Embedded(drawn)]

\* The splice leaves the transaction alone.
LEMMA TransactionIsDrawn ==
    ASSUME InputIsDrawn
    PROVE  sighash_input.tx_bytes \in Buffer
<1>1. CASE sighash_input = NoSighashInput
  <2>1. sighash_input.tx_bytes = <<>>
    BY <1>1 DEF NoSighashInput
  <2>2. <<>> \in Bytes /\ Len(<<>>) = 0
    BY DEF Bytes
  <2>3. EightDigits \in Nat /\ 0 < EightDigits
    BY DigitsType, BaseAssumption DEF TwoDigits, FourDigits, EightDigits
  <2> QED
    BY <2>1, <2>2, <2>3 DEF Buffer
<1>2. CASE /\ drawn \in SighashInputs
           /\ sighash_input = [drawn EXCEPT !.script = Embedded(drawn)]
  <2>1. SighashDraws(drawn)
    BY <1>2, SighashAssumption
  <2>2. sighash_input.tx_bytes = drawn.tx_bytes
    BY <1>2, <2>1 DEF SighashDraws
  <2> QED
    BY <2>1, <2>2 DEF SighashDraws, Buffer
<1> QED
  BY <1>1, <1>2 DEF InputIsDrawn

\* What has been answered is what the ports compute of the input at hand.
AnswersAreComputed ==
    /\ DOMAIN hashed = SighashModules
    /\ \A m \in SighashModules : hashed[m] = {} \/ hashed[m] = sighash_compute(m, sighash_input)

\* Nobody is asked, and nobody has answered, about a legacy script that the gate rejects.
GateHolds ==
    sighash_asking # <<>> \/ (\E m \in SighashModules : hashed[m] # {}) =>
        sighash_input.is_segwit_v0 \/ ScriptParsesCleanly(sighash_input.script)

SighashInv == InputIsDrawn /\ AnswersAreComputed /\ GateHolds

\* The answers before anybody is asked.
LEMMA NobodyIs == /\ DOMAIN NobodyAnswered = SighashModules
                  /\ \A m \in SighashModules : NobodyAnswered[m] = {}
BY DEF NobodyAnswered

\* The invariant holds in every call.
LEMMA SighashInvariant == SighashSpec => []SighashInv
<1>1. SighashInit => SighashInv
  BY NobodyIs DEF SighashInit, SighashInv, InputIsDrawn, AnswersAreComputed, GateHolds
<1>2. SighashInv /\ [SighashNext]_sighashVars => SighashInv'
  <2> SUFFICES ASSUME SighashInv, [SighashNext]_sighashVars
               PROVE  SighashInv'
    OBVIOUS
  <2>1. CASE DrawSighash
    <3>1. InputIsDrawn'
      BY <2>1 DEF DrawSighash, InputIsDrawn
    <3>2. hashed' = NobodyAnswered
      BY <2>1 DEF DrawSighash
    <3>3. AnswersAreComputed'
      BY <3>2, NobodyIs DEF AnswersAreComputed
    <3>4. GateHolds'
      <4>1. sighash_asking' # <<>> =>
                sighash_input'.is_segwit_v0 \/ ScriptParsesCleanly(sighash_input'.script)
        BY <2>1, Zenon DEF DrawSighash
      <4> QED
        BY <3>2, <4>1, NobodyIs, Zenon DEF GateHolds
    <3> QED
      BY <3>1, <3>3, <3>4 DEF SighashInv
  <2>2. CASE AskSighash
    <3>1. drawn' = drawn /\ sighash_input' = sighash_input /\ sighash_asking # <<>>
      BY <2>2, Zenon DEF AskSighash
    <3>2. InputIsDrawn'
      BY <3>1 DEF SighashInv, InputIsDrawn
    <3> DEFINE h == Head(sighash_asking)
    <3>3. PICK answer : /\ answer = {} \/ answer = sighash_compute(h, sighash_input)
                        /\ hashed' = [hashed EXCEPT ![h] = answer]
      BY <2>2 DEF AskSighash
    <3> HIDE DEF h
    <3>4. AnswersAreComputed'
      <4>1. DOMAIN hashed' = SighashModules
        BY <3>3 DEF SighashInv, AnswersAreComputed
      <4>2. ASSUME NEW m \in SighashModules
            PROVE  hashed'[m] = {} \/ hashed'[m] = sighash_compute(m, sighash_input)
        <5>1. hashed'[m] = IF m = h THEN answer ELSE hashed[m]
          BY <3>3 DEF SighashInv, AnswersAreComputed
        <5>2. hashed[m] = {} \/ hashed[m] = sighash_compute(m, sighash_input)
          BY DEF SighashInv, AnswersAreComputed
        <5> QED
          BY <3>3, <5>1, <5>2, Zenon
      <4> QED
        BY <3>1, <4>1, <4>2, Zenon DEF AnswersAreComputed
    <3>5. GateHolds'
      BY <3>1, Zenon DEF SighashInv, GateHolds
    <3> QED
      BY <3>2, <3>4, <3>5 DEF SighashInv
  <2>3. CASE ReturnSighash
    <3>1. InputIsDrawn'
      BY <2>3 DEF ReturnSighash, InputIsDrawn
    <3>2. hashed' = NobodyAnswered /\ sighash_asking' = <<>>
      BY <2>3 DEF ReturnSighash
    <3> QED
      BY <3>1, <3>2, NobodyIs DEF SighashInv, AnswersAreComputed, GateHolds
  <2>4. CASE UNCHANGED sighashVars
    BY <2>4 DEF sighashVars, SighashInv, InputIsDrawn, AnswersAreComputed, GateHolds
  <2> QED
    BY <2>1, <2>2, <2>3, <2>4 DEF SighashNext
<1> QED
  BY <1>1, <1>2, PTL DEF SighashSpec

\* Whatever the transaction: once the preflight walk has accepted it, no count
\* and no length that gocoin's NewTx reads is beyond the bytes at hand
\* (preflightTx, wrapper.go).
THEOREM NewTxIsBounded == SighashSpec => []PreflightBoundsNewTx
<1>1. SighashInv => PreflightBoundsNewTx
  BY TransactionIsDrawn, WalkTogether
     DEF SighashInv, PreflightBoundsNewTx, preflightTx, NewTxAllocates
<1> QED
  BY <1>1, SighashInvariant, PTL

(***************************************************************************)
(* The splice and the answers                                              *)
(***************************************************************************)

\* Where the splice goes, and what it puts there.
Place(i) == IF i.embed_pos < Len(i.script) THEN i.embed_pos ELSE Len(i.script)

\* What the driver hands over is code, with the push of the signature in its place.
LEMMA EmbeddedIs ==
    ASSUME NEW i, SighashDraws(i)
    PROVE  /\ Embedded(i) \in Code
           /\ i.embed_sig /\ i.sig_to_delete # <<>> =>
                  Embedded(i) = Between(i.script, 0, Place(i)) \o push_encode(i.sig_to_delete)
                                    \o From(i.script, Place(i))
<1> DEFINE s == i.script
           sig == i.sig_to_delete
           n == Len(sig)
           p == Place(i)
           push == (IF n < OP_PUSHDATA1 THEN <<n>> ELSE <<OP_PUSHDATA1, n>>) \o sig
           v == Between(s, 0, p) \o push \o From(s, p)
<1>1. s \in Code /\ sig \in Code /\ n <= 100 /\ i.embed_pos \in Nat
  BY DEF SighashDraws, Code
<1>2. Len(s) \in Nat /\ n \in Nat
  BY <1>1, CodeIs
<1>3. Embedded(i) = IF i.embed_sig /\ n > 0 THEN v ELSE s
  BY Zenon DEF Embedded, Place
<1>4. p \in 0..Len(s)
  BY <1>1, <1>2 DEF Place
<1>5. n > 0 <=> sig # <<>>
  <2>1. sig # <<>> => n # 0
    BY <1>1, EmptySeq DEF Code
  <2>2. sig = <<>> => n = 0
    OBVIOUS
  <2> HIDE DEF sig, n
  <2> QED
    BY <1>2, <2>1, <2>2
<1> HIDE DEF s, sig, p
<1>6. ASSUME sig # <<>> PROVE push = push_encode(sig) /\ push \in Code
  <2>1. /\ Whole(push_encode(sig))
        /\ push_encode(sig) = push
    BY <1>1, <1>6, PushIs
  <2> QED
    BY <2>1, WholeIs, Zenon
<1>7. Between(s, 0, p) \in Code /\ From(s, p) \in Code
  <2>1. 0 \in 0..Len(s) /\ p \in 0..Len(s)
    BY <1>2, <1>4
  <2> QED
    BY <1>1, <1>4, <2>1, PiecesOfCode
<1>8. ASSUME sig # <<>> PROVE v \in Code
  <2>1. push \in Code
    BY <1>6, <1>8
  <2>2. Between(s, 0, p) \o push \in Code
    BY <1>7, <2>1, CodeJoin, Zenon
  <2> HIDE DEF push
  <2> QED
    BY <1>7, <2>2, CodeJoin, Zenon
<1>9. Embedded(i) \in Code
  BY <1>1, <1>3, <1>5, <1>8, Zenon
<1>10. i.embed_sig /\ sig # <<>> => Embedded(i) = Between(s, 0, p) \o push_encode(sig) \o From(s, p)
  BY <1>3, <1>5, <1>6, Zenon
<1> QED
  BY <1>9, <1>10 DEF s, sig, p

\* The modules are handed an input that fits.
LEMMA InputIsFit ==
    ASSUME InputIsDrawn
    PROVE  InputFits(sighash_input)
<1>1. CASE sighash_input = NoSighashInput
  <2>1. <<>> \in Code /\ Len(<<>>) = 0
    BY CodeJoin
  <2> HIDE DEF Code
  <2> QED
    BY <1>1, <2>1 DEF NoSighashInput, InputFits
<1>2. CASE /\ drawn \in SighashInputs
           /\ sighash_input = [drawn EXCEPT !.script = Embedded(drawn)]
  <2>1. SighashDraws(drawn)
    BY <1>2, SighashAssumption
  <2>2. Embedded(drawn) \in Code
    BY <2>1, EmbeddedIs
  <2>3. sighash_input.script = Embedded(drawn)
        /\ sighash_input.sig_to_delete = drawn.sig_to_delete
        /\ sighash_input.n_codesep = drawn.n_codesep
    BY <1>2, <2>1 DEF SighashDraws
  <2>4. drawn.sig_to_delete \in Code /\ Len(drawn.sig_to_delete) <= 100 /\ drawn.n_codesep \in Nat
    BY <2>1 DEF SighashDraws, Code
  <2> QED
    BY <2>2, <2>3, <2>4, Zenon DEF InputFits
<1> QED
  BY <1>1, <1>2 DEF InputIsDrawn

\* What the invariant says of an answer: the script parses, under legacy to its end.
LEMMA AnsweredParses ==
    ASSUME SighashInv,
           sighash_asking # <<>> \/ \E m \in SighashModules : hashed[m] # {}
    PROVE  \E L, u : /\ ParsesWhole(sighash_input.script, L, u)
                     /\ sighash_input.is_segwit_v0 \/ u = <<>>
<1>1. sighash_input.script \in Code
  BY InputIsFit DEF SighashInv, InputFits
<1>2. PICK L, u : ParsesWhole(sighash_input.script, L, u)
  BY <1>1, ParseExists
<1>3. Unread(sighash_input.script) = u
  BY <1>2, OpsAre
<1>4. sighash_input.is_segwit_v0 \/ ScriptParsesCleanly(sighash_input.script)
  BY Zenon DEF SighashInv, GateHolds
<1>5. sighash_input.is_segwit_v0 \/ u = <<>>
  BY <1>3, <1>4, GateIs, Zenon
<1> QED
  BY <1>2, <1>5

\* The answers, then.
LEMMA AnsweredIs ==
    ASSUME SighashInv, NEW m \in SighashModules, NEW code \in hashed[m]
    PROVE  \E L, u : /\ ParsesWhole(sighash_input.script, L, u)
                     /\ sighash_input.is_segwit_v0 \/ u = <<>>
                     /\ code = Committed(sighash_input, L, u)
<1>1. hashed[m] # {}
  OBVIOUS
<1>2. PICK L, u : /\ ParsesWhole(sighash_input.script, L, u)
                  /\ sighash_input.is_segwit_v0 \/ u = <<>>
  BY <1>1, AnsweredParses
<1>3. code \in sighash_compute(m, sighash_input)
  BY <1>1, Zenon DEF SighashInv, AnswersAreComputed
<1>4. InputFits(sighash_input)
  BY InputIsFit DEF SighashInv
<1>5. code = Committed(sighash_input, L, u)
  BY <1>2, <1>3, <1>4, AnswersAre
<1> QED
  BY <1>2, <1>5

\* All that answer hash the opcodes behind the chosen separator, but for the separators
\* and the pushes of the signature, or under segwit the rest of the script verbatim:
\* for any script, any splice and any number of separators.
THEOREM TheRemainderIsHashed == SighashSpec => []RemainderIsHashed
<1>1. SighashInv => RemainderIsHashed
  <2> SUFFICES ASSUME SighashInv PROVE RemainderIsHashed
    OBVIOUS
  <2> DEFINE s       == sighash_input.script
             c       == sighash_input.n_codesep
             ops     == Ops(s)
             seps    == {i \in 1..Len(ops) : ops[i] = <<OP_CODESEPARATOR>>}
             Upto(i) == Cardinality({j \in 1..i : j \in seps})
             chosen  == {i \in seps : Upto(i) <= c}
             from    == IF chosen = {} THEN 1
                        ELSE 1 + (CHOOSE i \in chosen : \A j \in chosen : j <= i)
             rest    == SubSeq(ops, from, Len(ops))
             Right(code) == code = IF sighash_input.is_segwit_v0
                                   THEN Remaining(rest, {}) \o Unread(s)
                                   ELSE Remaining(rest, Uncommitted(sighash_input.sig_to_delete))
  <2>1. ASSUME NEW m \in SighashModules, NEW code \in hashed[m] PROVE Right(code)
    <3>1. PICK L, u : ParsesWhole(s, L, u) /\ code = Committed(sighash_input, L, u)
      BY AnsweredIs, <2>1
    <3>2. ops = L /\ Unread(s) = u
      BY <3>1, OpsAre
    <3>3. seps = Separators(L) /\ \A i : Upto(i) = CountTo(seps, i)
      BY <3>2, Zenon DEF Separators, CountTo
    <3>4. L \in Seq(Code) /\ c \in Nat
      BY <3>1, InputIsFit DEF ParsesWhole, SighashInv, InputFits
    <3>5. Cut(L, c) \in 0..Len(L) /\ Len(L) \in Nat
      <4>1. Len(L) \in Nat
        BY <3>4, ListIs
      <4>2. Cut(L, c) \in 0..Len(L)
        <5> DEFINE k == Cut(L, c)
        <5> HIDE DEF Code
        <5> QED
          BY <3>4, CutIs
      <4> QED
        BY <4>1, <4>2
    <3>6. from = Cut(L, c) + 1
      <4> DEFINE Q == Separators(L)
                 elect == {i \in Q : CountTo(Q, i) <= c}
                 Most(S) == CHOOSE i \in S : \A j \in S : j <= i
                 best == Most(elect)
      <4>1. chosen = elect
        <5>1. seps = Q
          BY <3>3
        <5>2. \A i : Upto(i) = CountTo(Q, i)
          BY <3>3, <5>1
        <5> HIDE DEF seps, Q, Upto
        <5>3. chosen \subseteq elect /\ elect \subseteq chosen
          BY <5>1, <5>2, Zenon
        <5> QED
          BY <5>3
      <4>2. Cut(L, c) = IF elect = {} THEN 0 ELSE best
        BY Zenon DEF Cut
      <4>3. from = IF elect = {} THEN 1 ELSE 1 + best
        <5>1. from = IF chosen = {} THEN 1 ELSE 1 + Most(chosen)
          BY Zenon
        <5> HIDE DEF from, chosen, elect, Most
        <5> QED
          BY <4>1, <5>1, Zenon
      <4> HIDE DEF elect, best, from
      <4>4. CASE elect = {}
        BY <4>2, <4>3, <4>4
      <4>5. CASE elect # {}
        BY <3>5, <4>2, <4>3, <4>5
      <4> QED
        BY <4>4, <4>5
    <3> HIDE DEF from
    <3>7. rest = Later(L, c)
      BY <3>2, <3>6, Zenon DEF Later
    <3> HIDE DEF rest
    <3> QED
      BY <3>1, <3>2, <3>7, Zenon DEF Committed
  <2>2. RemainderIsHashed <=> \A m \in SighashModules : \A code \in hashed[m] : Right(code)
    BY Zenon DEF RemainderIsHashed
  <2> QED
    BY <2>1, <2>2, Zenon
<1> QED
  BY <1>1, SighashInvariant, PTL

\* The opcodes with one put in behind the first k.
Spliced(L, k, push) == SubSeq(L, 1, k) \o <<push>> \o SubSeq(L, k + 1, Len(L))

\* A push put between two opcodes is one opcode more.
LEMMA SplicedIs ==
    ASSUME NEW s, NEW L, NEW u, ParsesWhole(s, L, u), NEW k \in 0..Len(L), NEW push, Whole(push)
    PROVE  /\ ParsesWhole(Between(s, 0, Bound(L, k)) \o push \o From(s, Bound(L, k)), Spliced(L, k, push), u)
           /\ \A g : push \in g => Remaining(Spliced(L, k, push), g) = Remaining(L, g)
<1> DEFINE a == SubSeq(L, 1, k)
           b == SubSeq(L, k + 1, Len(L))
           M == (a \o <<push>>) \o b
           W == {e \in Code : Whole(e)}
           x == Ahead(L, k)
           y == Back(L, k, {})
<1>1. L \in Seq(Code) /\ (\A i \in 1..Len(L) : Whole(L[i])) /\ Torn(u) /\ u \in Code
      /\ s = Remaining(L, {}) \o u
  BY Zenon DEF ParsesWhole, Torn
<1>2. Len(L) \in Nat /\ a \in Seq(Code) /\ b \in Seq(Code) /\ \A i \in 1..Len(L) : L[i] \in Code
  BY <1>1, ListIs, Zenon
<1>3. push \in Code /\ <<push>> \in Seq(Code)
  <2>1. push \in Code
    BY WholeIs
  <2> HIDE DEF Code
  <2> QED
    BY <2>1
<1>4. M \in Seq(Code) /\ \A i \in 1..Len(M) : Whole(M[i])
  <2>1. L \in Seq(W)
    <3>1. \A i \in 1..Len(L) : L[i] \in W
      BY <1>1, <1>2
    <3> HIDE DEF W, Code
    <3> QED
      BY <1>1, <1>2, <3>1
  <2>2. push \in W
    BY <1>3
  <2> HIDE DEF W
  <2>3. a \in Seq(W) /\ b \in Seq(W)
    <3>1. \A i \in 1..k : i \in 1..Len(L)
      BY <1>2
    <3>2. \A i \in (k + 1)..Len(L) : i \in 1..Len(L)
      BY <1>2
    <3>3. \A i \in 1..Len(L) : L[i] \in W
      BY <2>1, ElementOfSeq, Zenon
    <3>4. a \in Seq(W)
      BY <1>2, <3>1, <3>3, SubSeqProperties
    <3>5. b \in Seq(W)
      <4> DEFINE c == k + 1
      <4>1. c \in Int /\ Len(L) \in Int /\ \A i \in c..Len(L) : L[i] \in W
        BY <1>2, <3>2, <3>3
      <4> HIDE DEF c
      <4>2. SubSeq(L, c, Len(L)) \in Seq(W)
        BY <4>1, SubSeqProperties
      <4> QED
        BY <4>2 DEF c
    <3> QED
      BY <3>4, <3>5
  <2> HIDE DEF a, b
  <2>4. M \in Seq(W)
    BY <2>2, <2>3
  <2> HIDE DEF M
  <2>5. \A i \in 1..Len(M) : M[i] \in W
    BY <2>4, ElementOfSeq, Zenon
  <2>6. M \in Seq(Code)
    <3>1. W \subseteq Code
      BY DEF W
    <3> HIDE DEF Code
    <3> QED
      BY <2>4, <3>1, SeqMonotonic
  <2> QED
    BY <2>5, <2>6 DEF W
<1>5. ASSUME NEW g
      PROVE  Remaining(M, g) = (Remaining(a, g) \o (IF push \in g THEN <<>> ELSE push)) \o Remaining(b, g)
  <2> HIDE DEF a, b
  <2>1. /\ \A e, f \in Seq(Code) : Remaining(e \o f, g) = Remaining(e, g) \o Remaining(f, g)
        /\ \A e \in Code : Remaining(<<e>>, g) = IF e \in g THEN <<>> ELSE e
    BY RemainingIs
  <2>2. a \o <<push>> \in Seq(Code)
    <3> HIDE DEF Code
    <3> QED
      BY <1>2, <1>3
  <2>3. Remaining(M, g) = Remaining(a \o <<push>>, g) \o Remaining(b, g)
    BY <1>2, <2>1, <2>2, Zenon
  <2>4. Remaining(a \o <<push>>, g) = Remaining(a, g) \o Remaining(<<push>>, g)
    BY <1>2, <1>3, <2>1, Zenon
  <2>5. Remaining(<<push>>, g) = IF push \in g THEN <<>> ELSE push
    BY <1>3, <2>1, Zenon
  <2> QED
    BY <2>3, <2>4, <2>5, Zenon
<1>6. ASSUME NEW g, push \in g PROVE Remaining(M, g) = Remaining(L, g)
  <2>1. Remaining(M, g) = (Remaining(a, g) \o <<>>) \o Remaining(b, g)
    BY <1>5, <1>6, Zenon
  <2>2. a \o b = L
    <3>1. 1 \in 1..(Len(L) + 1) /\ k \in (1 - 1)..Len(L) /\ Len(L) \in k..Len(L)
      BY <1>2
    <3>2. SubSeq(L, 1, k) \o SubSeq(L, k + 1, Len(L)) = SubSeq(L, 1, Len(L))
      BY <1>1, <3>1, ConcatAdjacentSubSeq
    <3>3. SubSeq(L, 1, Len(L)) = L
      BY <1>1, SubSeqFull
    <3> QED
      BY <3>2, <3>3
  <2> HIDE DEF a, b
  <2>3. /\ \A e, f \in Seq(Code) : Remaining(e \o f, g) = Remaining(e, g) \o Remaining(f, g)
        /\ \A e \in Seq(Code) : Remaining(e, g) \in Code
    BY RemainingIs
  <2>4. Remaining(a \o b, g) = Remaining(a, g) \o Remaining(b, g) /\ Remaining(a, g) \in Code
    BY <1>2, <2>3, Zenon
  <2>5. Remaining(a, g) \o <<>> = Remaining(a, g)
    BY <2>4, CodeJoin, Zenon
  <2> QED
    BY <2>1, <2>2, <2>4, <2>5, Zenon
<1>7. Between(s, 0, Bound(L, k)) \o push \o From(s, Bound(L, k)) = Remaining(M, {}) \o u
  <2>1. Table(s, L, u)
    BY TableHolds
  <2>2. s \in Code /\ Bound(L, k) \in 0..Len(s) /\ From(s, Bound(L, k)) = y \o u
    BY <2>1, Zenon DEF Table
  <2>3. x \in Code /\ y \in Code
    BY <1>1, AheadIs, BackIs, Zenon
  <2>4. s = x \o (y \o u)
    <3>1. Remaining(L, {}) = x \o y
      BY <1>1, AheadIs, Zenon
    <3> HIDE DEF x, y
    <3>2. (x \o y) \o u = x \o (y \o u)
      BY <1>1, <2>3, CodeJoin, Zenon
    <3> QED
      BY <1>1, <3>1, <3>2, Zenon
  <2>5. Remaining(M, {}) = (x \o push) \o y
    <3>1. ~(push \in {})
      OBVIOUS
    <3>2. Remaining(M, {}) = (Remaining(a, {}) \o push) \o Remaining(b, {})
      BY <1>5, <3>1, Zenon
    <3> QED
      BY <3>2 DEF Ahead, Back
  <2>6. Bound(L, k) = Len(x)
    BY DEF Bound
  <2> HIDE DEF x, y, M
  <2>7. Between(s, 0, Len(x)) = x
    <3> DEFINE o == 0
               e == <<>>
               v == y \o u
    <3>1. e \in Code /\ v \in Code /\ e \o (x \o v) = x \o v /\ Len(e) = o
      <4>1. v \in Code /\ e \in Code
        BY <1>1, <2>3, CodeJoin, Zenon
      <4>2. x \o v \in Code
        BY <2>3, <4>1, CodeJoin, Zenon
      <4>3. e \o (x \o v) = x \o v
        BY <4>2, CodeJoin, Zenon
      <4> HIDE DEF v
      <4> QED
        BY <4>1, <4>3
    <3>2. s = e \o (x \o v)
      BY <2>4, <3>1, Zenon
    <3> HIDE DEF e, v
    <3>3. Piece(e \o (x \o v), Len(e), x)
      BY <2>3, <3>1, PieceOfJoin
    <3>4. Piece(s, o, x)
      BY <3>1, <3>2, <3>3
    <3> HIDE DEF o
    <3>5. Between(s, o, o + Len(x)) = x
      <4>1. o \in Nat /\ o + Len(x) <= Len(s) /\ s \in Code
        BY <3>4 DEF Piece
      <4> QED
        BY <2>3, <3>4, <4>1, PieceIsBetween
    <3>6. Len(x) \in Nat
      BY <2>3, CodeIs
    <3>7. o + Len(x) = Len(x)
      BY <3>6 DEF o
    <3> QED
      BY <3>5, <3>7 DEF o
  <2>8. (x \o push) \o (y \o u) = ((x \o push) \o y) \o u
    <3>1. x \o push \in Code
      BY <1>3, <2>3, CodeJoin, Zenon
    <3> QED
      BY <1>1, <2>3, <3>1, CodeJoin, Zenon
  <2> QED
    BY <2>2, <2>5, <2>6, <2>7, <2>8, Zenon
<1>8. ParsesWhole(Remaining(M, {}) \o u, M, u)
  BY <1>1, <1>4, Zenon DEF ParsesWhole
<1>9. M = Spliced(L, k, push)
  BY Zenon DEF Spliced
<1> HIDE DEF M
<1> QED
  BY <1>6, <1>7, <1>8, <1>9, Zenon

\* The driver's two steps do what they are for, whatever the script and wherever
\* it is spliced.
THEOREM TheSpliceLeavesNoTrace == SighashSpec => []GateAndSplice
<1>1. ASSUME SighashInv PROVE SpliceLeavesNoTrace
  <2> DEFINE ops == Ops(drawn.script)
             boundary == {Len(Remaining(SubSeq(ops, 1, k), {})) : k \in 0..Len(ops)}
             sig == drawn.sig_to_delete
             g == Uncommitted(sig)
             push == push_encode(sig)
  <2>1. ASSUME ~sighash_input.is_segwit_v0, sighash_input.n_codesep = 0,
               drawn.embed_sig, sig # <<>>, drawn.embed_pos \in boundary,
               NEW m \in SighashModules, NEW code \in hashed[m]
        PROVE  code = Remaining(ops, g)
    <3>1. drawn \in SighashInputs /\ sighash_input = [drawn EXCEPT !.script = Embedded(drawn)]
      BY <1>1, <2>1 DEF SighashInv, InputIsDrawn, NoSighashInput
    <3>2. SighashDraws(drawn)
      BY <3>1, SighashAssumption
    <3>3. /\ sighash_input.script = Embedded(drawn)
          /\ sighash_input.sig_to_delete = sig
      BY <3>1, <3>2 DEF SighashDraws
    <3>4. drawn.script \in Code /\ sig \in Code /\ Len(sig) <= 100
      BY <3>2 DEF SighashDraws, Code
    <3>5. PICK L, u : ParsesWhole(drawn.script, L, u)
      BY <3>4, ParseExists
    <3>6. ops = L
      BY <3>5, OpsAre
    <3>7. PICK k \in 0..Len(L) : drawn.embed_pos = Bound(L, k)
      BY <2>1, <3>6 DEF Bound, Ahead
    <3>8. Bound(L, k) \in 0..Len(drawn.script) /\ Len(drawn.script) \in Nat
      <4>1. Table(drawn.script, L, u)
        BY <3>5, TableHolds
      <4> QED
        BY <3>4, <4>1, CodeIs, Zenon DEF Table
    <3>9. Place(drawn) = Bound(L, k)
      BY <3>7, <3>8 DEF Place
    <3> DEFINE t == Embedded(drawn)
               M == Spliced(L, k, push)
    <3>10. t = Between(drawn.script, 0, Bound(L, k)) \o push \o From(drawn.script, Bound(L, k))
      BY <2>1, <3>2, <3>9, EmbeddedIs
    <3>11. Whole(push)
      BY <2>1, <3>4, PushIs
    <3>12. ParsesWhole(t, M, u) /\ Remaining(M, g) = Remaining(L, g)
      <4>1. push \in g
        BY <2>1 DEF Uncommitted
      <4> HIDE DEF push, g
      <4> QED
        BY <3>5, <3>10, <3>11, <4>1, SplicedIs
    <3> HIDE DEF t, M, push, g, sig, ops, boundary
    <3>13. PICK K, w : ParsesWhole(t, K, w) /\ w = <<>> /\ code = Committed(sighash_input, K, w)
      BY <1>1, <2>1, <3>3, AnsweredIs DEF t
    <3>14. K = M
      BY <3>12, <3>13, OpsAre
    <3>15. code = Remaining(Later(M, 0), g)
      BY <2>1, <3>3, <3>13, <3>14, Zenon DEF Committed, g
    <3>16. Later(M, 0) = M
      <4>1. M \in Seq(Code)
        BY <3>12, Zenon DEF ParsesWhole
      <4>2. Cut(M, 0) = 0
        <5> DEFINE N == CountTo(Separators(M), Len(M))
                   d == IF N < 0 THEN N ELSE 0
        <5>1. N \in Nat /\ (d = 0 => Cut(M, 0) = 0)
          <6> HIDE DEF Code
          <6> QED
            BY <4>1, CutIs
        <5> HIDE DEF N
        <5> QED
          BY <5>1
      <4>3. SubSeq(M, 1, Len(M)) = M /\ 0 + 1 = 1
        BY <4>1, SubSeqFull
      <4> QED
        BY <4>2, <4>3, Zenon DEF Later
    <3> QED
      BY <3>6, <3>12, <3>15, <3>16, Zenon
  <2> QED
    BY <2>1, Zenon DEF SpliceLeavesNoTrace
<1>2. ASSUME SighashInv PROVE GateSuffices
  <2> SUFFICES ASSUME sighash_asking # <<>>, ~sighash_input.is_segwit_v0
               PROVE  BTCDSighashCompute(sighash_input) # {}
    BY DEF GateSuffices
  <2>1. PICK L, u : /\ ParsesWhole(sighash_input.script, L, u)
                    /\ sighash_input.is_segwit_v0 \/ u = <<>>
    BY <1>2, AnsweredParses
  <2>2. InputFits(sighash_input)
    BY <1>2, InputIsFit DEF SighashInv
  <2> QED
    BY <2>1, <2>2, AnswersAre
<1>3. SighashInv => GateAndSplice
  BY <1>1, <1>2 DEF GateAndSplice
<1> QED
  BY <1>3, SighashInvariant, PTL
===============================================================================
