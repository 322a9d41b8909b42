--------------------------- MODULE SilentPayments ---------------------------
(***************************************************************************)
(* The target silentpayments_create_outputs, as four modules answer it:    *)
(* secp256k1 (the protocol code of libsecp256k1), spdk and bdksp (two Rust *)
(* crates), bluewalletsp (TypeScript in a Node process, see NodeRunner).   *)
(* All derive the keys from scalars, and all must reject and accept alike: *)
(* a rejection is an answer that the driver compares.                      *)
(*                                                                         *)
(* The curve is the group Z_Order with generator 1, so that a secret key   *)
(* and its public key are the same number; a 32-byte string is a number    *)
(* that may be Order or above.                                             *)
(***************************************************************************)
EXTENDS Integers, Sequences, FiniteSets, SequencesExt

CONSTANTS
    Order,              \* the curve order
    Odd(_),             \* the public key of this scalar has an odd Y
    LabelTweak(_, _)    \* hash of a scan key and a label; >= Order: out of range

ASSUME OrderAssumption ==
    /\ Order \in Nat \ {0, 1}
    /\ \A k \in 1..(Order - 1) : Odd(k) \in BOOLEAN
    /\ \A k \in 1..(Order - 1) : k # Order - k => Odd(k) # Odd(Order - k)

NullOpt == <<"nullopt">>

-----------------------------------------------------------------------------
(***************************************************************************)
(* The sum of the input keys                                               *)
(***************************************************************************)

\* secp256k1_ec_seckey_verify, SecretKey::from_slice, ecc.isPrivate.
InRange(k) == k \in 1..(Order - 1)

\* A taproot key moves to its even-Y form.
Summand(keys, taproot, i) ==
    IF taproot[i] /\ Odd(keys[i]) THEN Order - keys[i] ELSE keys[i]

\* The running sums, from that of no key on.
RunningSums(keys, taproot) ==
    LET sums[n \in 0..Len(keys)] ==
            IF n = 0 THEN 0 ELSE (sums[n - 1] + Summand(keys, taproot, n)) % Order
    IN  sums

SumTo(in, n) == RunningSums(in.keys, in.taproot)[n]

Total(in) == SumTo(in, Len(in.keys))

\* The fold of three of the libraries ends at the first sum that is zero.
LibraryFoldFails(in) == \E n \in 2..Len(in.keys) : SumTo(in, n) = 0

\* Slip: the running sum is asked, the total is not.
DivergesOnAnyZero(in) == \E n \in 2..Len(in.keys) : SumTo(in, n) = 0

DivergesOnIntermediateZeroSum(in) ==
    /\ \E n \in 2..Len(in.keys) : SumTo(in, n) = 0
    /\ Total(in) # 0

-----------------------------------------------------------------------------
(***************************************************************************)
(* Recipients: rejections and labels                                       *)
(***************************************************************************)
Recipients(in) == 1..Len(in.scan)

\* A label whose hash is out of range, or that negates the spend key.
Rejected(spend, tweak) == tweak >= Order \/ (spend + tweak) % Order = 0

\* ..._recipient_create_labeled_spend_pubkey; SilentPaymentCode::add_label.
LabelRejected(in, i) == Rejected(in.spend[i], LabelTweak(in.scan[i], in.labels[i]))

\* spdk registers the change label, m = 0, before the wanted one.
LabeledAddressFails(in, i) ==
    LabelRejected(in, i) \/ Rejected(in.spend[i], LabelTweak(in.scan[i], 0))

\* What a recipient is rejected with, given what becomes of its label.
Fault(in, i, LabelFails(_, _)) ==
    IF ~InRange(in.scan[i]) \/ ~InRange(in.spend[i]) THEN <<"INVALID_SECKEY">>
    ELSE IF in.labeled[i] /\ LabelFails(in, i) THEN <<"LABEL_FAIL">>
    ELSE <<>>

\* The first recipient at fault, in the order of the recipients.
FirstFault(in, LabelFails(_, _)) ==
    LET faults == {i \in Recipients(in) : Fault(in, i, LabelFails) # <<>>}
    IN  IF faults = {} THEN <<>>
        ELSE Fault(in, CHOOSE i \in faults : \A j \in faults : i <= j, LabelFails)

BadInputKey(in) == \E i \in 1..Len(in.keys) : ~InRange(in.keys[i])

\* The spend public key of a recipient, labeled or not.
SpendPubkey(in, i) ==
    IF in.labeled[i] THEN (in.spend[i] + LabelTweak(in.scan[i], in.labels[i])) % Order
    ELSE in.spend[i]

\* Output number k of a group: a function of the shared secret, k and the key.
Output(in, i, k) == <<(Total(in) * in.scan[i]) % Order, SpendPubkey(in, i), k>>

\* BIP-352: k counts the outputs of the recipients that share a scan key.
GroupCounter(in, i) == Cardinality({j \in 1..(i - 1) : in.scan[j] = in.scan[i]})

\* What the protocol asks for: one output per recipient, in their order.
Outputs(in) == [i \in Recipients(in) |-> Output(in, i, GroupCounter(in, i))]

-----------------------------------------------------------------------------
(***************************************************************************)
(* The answers                                                             *)
(***************************************************************************)

\* libsecp256k1 sums every key, taproot first, and asks the total alone; its
\* outputs stay in the order of the recipients.
SecpCreateOutputs(in) ==
    IF BadInputKey(in) THEN <<"INVALID_SECKEY">>
    ELSE IF FirstFault(in, LabelRejected) # <<>> THEN FirstFault(in, LabelRejected)
    ELSE IF Total(in) = 0 THEN <<"CREATE_FAIL">>
    ELSE <<"outputs", Outputs(in)>>

Address(in, i) == <<in.scan[i], SpendPubkey(in, i)>>

\* The recipients behind an address, in their order: one push each.
RecipientsAt(in, a) ==
    LET of[n \in 0..Len(in.scan)] ==
            IF n = 0 THEN <<>>
            ELSE IF Address(in, n) = a THEN Append(of[n - 1], n) ELSE of[n - 1]
    IN  of[Len(in.scan)]

\* The map both crates return: address to its outputs, in recipient order.
Payments(in) ==
    [a \in {Address(in, i) : i \in Recipients(in)} |->
        [n \in 1..Len(RecipientsAt(in, a)) |->
            Output(in, RecipientsAt(in, a)[n], GroupCounter(in, RecipientsAt(in, a)[n]))]]

\* Slip: the counter of an address is not advanced.
AlwaysFirst(in, i) == 1

\* seen_per_address, seen_per_code: how often the address has come up.
Nth(in, i) == 1 + Cardinality({j \in 1..(i - 1) : Address(in, j) = Address(in, i)})

\* The walk over the recipients, the n-th output of their address each.
InRecipientOrder(in) ==
    [i \in Recipients(in) |-> Payments(in)[Address(in, i)][Nth(in, i)]]

\* The two crates, and their wrappers, which drop the one known divergence.
CrateCreateOutputs(in, LabelFails(_, _)) ==
    IF BadInputKey(in) THEN <<"INVALID_SECKEY">>
    ELSE IF FirstFault(in, LabelFails) # <<>> THEN FirstFault(in, LabelFails)
    ELSE IF DivergesOnIntermediateZeroSum(in) THEN NullOpt
    ELSE IF LibraryFoldFails(in) THEN <<"CREATE_FAIL">>
    ELSE <<"outputs", InRecipientOrder(in)>>

SpdkCreateOutputs(in) == CrateCreateOutputs(in, LabeledAddressFails)

BdkSpCreateOutputs(in) == CrateCreateOutputs(in, LabelRejected)

\* The answer of index.ts to one request; there are no labels in it.
CreateOutputs(in) ==
    IF BadInputKey(in) THEN <<"INVALID_SECKEY">>
    ELSE IF \E i \in Recipients(in) : ~InRange(in.scan[i]) \/ ~InRange(in.spend[i])
         THEN <<"INVALID_SECKEY">>
    ELSE IF DivergesOnIntermediateZeroSum(in) THEN <<"SKIP_INTERMEDIATE_ZERO_SUM">>
    ELSE IF LibraryFoldFails(in) THEN <<"CREATE_FAIL">>
    ELSE <<"outputs", [i \in Recipients(in) |->
            <<(Total(in) * in.scan[i]) % Order, in.spend[i], GroupCounter(in, i)>>]>>
=============================================================================
