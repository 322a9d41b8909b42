---------------------------- MODULE CurveTargets ----------------------------
(***************************************************************************)
(* The targets over secp256k1 and what each native module answers: keys,   *)
(* ECDSA, ECDH, Schnorr, ElligatorSwift, MuSig2 and silent payments, from  *)
(* secp256k1/module.cpp and the wrappers of k256, decred, NBitcoin, btcd,  *)
(* rust-bitcoin and musig2.  The libraries do the arithmetic; the wrappers *)
(* decide what is refused, in which order and how it is said, and they     *)
(* bend their library to the others' habits (a hash reduced beforehand, a  *)
(* parity forced).  A 32-byte string is a number that may be Order or      *)
(* above, and a public key is its secret key.                              *)
(***************************************************************************)
EXTENDS SilentPayments

CONSTANTS
    FieldPrime,     \* the field of the ElligatorSwift coordinates
    CurveInputs          \* what the driver may draw, for all targets

ASSUME FieldAssumption == FieldPrime \in Nat \ {0, 1, 2} /\ FieldPrime % 2 = 1

VARIABLES
    input,      \* what the driver has drawn; NoInput between two calls
    asking,     \* the modules still to be asked
    answers     \* module -> its answer, or Unasked

curveVars == <<input, asking, answers>>

\* std::map<std::string, ...>: the modules of a target by name.
Modules(target) ==
    CASE target \in {"private_to_public_key", "sign_compact", "sign_der",
                     "sign_verify", "ecdh"} ->
            <<"Decred_secp256k1", "K256", "NBitcoin_secp256k1", "Secp256k1">>
      [] target = "pubkey_parse"   -> <<"Decred_secp256k1", "K256", "Secp256k1">>
      [] target = "sign_schnorr"   -> <<"Btcd", "K256", "NBitcoin", "Secp256k1">>
      [] target = "schnorr_verify" -> <<"Btcd", "NBitcoin_secp256k1", "Secp256k1">>
      [] target \in {"decode_ellswift", "roundtrip_ellswift"} ->
            <<"Btcd", "Rustbitcoin", "Secp256k1">>
      [] target \in {"musig2_key_agg", "musig2_sign_session"} ->
            <<"RustMusig2", "Secp256k1">>
      [] OTHER -> <<"BdkSp", "BlueWalletSp", "Secp256k1", "Spdk">>

-----------------------------------------------------------------------------
(***************************************************************************)
(* Keys and public keys                                                    *)
(***************************************************************************)

\* Compressed: a parity and an X that a key shares with its negation.
Compressed(k) == <<"point", {k, Order - k}, Odd(k)>>

\* A secret key out of range answers null everywhere: the driver skips it.
private_to_public_key(m, in) == IF InRange(in.key) THEN Compressed(in.key) ELSE NullOpt

\* A SEC1 string: its tag and, where a point of the curve is behind it, a key.
Parses(m, sec1) ==
    /\ sec1.on_curve
    /\ IF m = "K256" THEN sec1.tag \in {"compressed", "uncompressed", "compact"}
       ELSE sec1.tag \in {"compressed", "uncompressed", "hybrid"}

\* Slip: a rejection is null.
ParsedOrNull(m, in) ==
    IF Parses(m, in.sec1) THEN <<"OK", Compressed(in.sec1.key)>> ELSE NullOpt

\* A rejection is an answer, so that acceptance itself is compared.
pubkey_parse(m, in) ==
    IF Parses(m, in.sec1) THEN <<"OK", Compressed(in.sec1.key)>> ELSE <<"ERR">>

\* Encodings on which K256 is known to differ: the driver does not ask it.
Skipped(m, in) ==
    m = "K256" /\ in.target = "pubkey_parse" /\ in.sec1.tag \in {"hybrid", "compact"}

\* secp256k1_ecdh and its three reconstructions: SHA-256 of the shared point.
ecdh(m, in) ==
    IF InRange(in.key) /\ in.sec1.tag \in {"compressed", "compact"} /\ Parses(m, in.sec1)
    THEN <<"sha256", Compressed((in.key * in.sec1.key) % Order)>>
    ELSE NullOpt

-----------------------------------------------------------------------------
(***************************************************************************)
(* ECDSA                                                                   *)
(***************************************************************************)

\* RFC 6979: the nonce depends on the bytes of the hash, the rest of the
\* signature on the hash modulo the order.
Signature(key, bytes) == <<"ecdsa", key, bytes, bytes % Order>>

\* Slip: k256 gets the hash as it was drawn.
HashAsDrawn(m, hash) == IF m = "K256" THEN hash ELSE hash % Order

\* libsecp256k1 reduces the hash itself; the wrappers do it for the others
\* (NormalizeHashToCurveOrder, Scalar::reduce).
HashToSign(m, hash) == hash % Order

\* sign_compact and sign_der, which differ in the encoding alone.
sign(m, in) ==
    IF InRange(in.key) THEN Signature(in.key, HashToSign(m, in.hash)) ELSE NullOpt

\* A bad key is false to all but libsecp256k1, which skips it; a string that is
\* no DER signature is false.
sign_verify(m, in) ==
    IF ~InRange(in.key) /\ m = "Secp256k1" THEN NullOpt
    ELSE IF /\ InRange(in.key) /\ in.sig[1] = "ecdsa"
            /\ in.sig[2] = in.key /\ in.sig[4] = in.hash % Order
         THEN <<"true">> ELSE <<"false">>

-----------------------------------------------------------------------------
(***************************************************************************)
(* Schnorr                                                                 *)
(***************************************************************************)

\* BIP-340: signed for the even-Y form, that is for the X alone.
SchnorrSignature(key, hash, aux) == <<"schnorr", {key, Order - key}, hash, aux>>

SchnorrVerifies(key, hash, sig) ==
    sig[1] = "schnorr" /\ sig[2] = {key, Order - key} /\ sig[3] = hash

\* btcec.PrivKeyFromBytes reduces the key and accepts every one; the library
\* refuses to sign with zero.
sign_schnorr(m, in) ==
    IF InRange(in.key) THEN SchnorrSignature(in.key, in.hash, in.aux)
    ELSE IF m # "Btcd" THEN NullOpt
    ELSE IF in.key % Order = 0 THEN <<"">>
    ELSE SchnorrSignature(in.key % Order, in.hash, in.aux)

\* Here a bad key is an answer: INVALID, except for btcd, which reduces it.
schnorr_verify(m, in) ==
    LET key == IF m = "Btcd" THEN in.key % Order ELSE in.key
    IN  IF InRange(key) /\ SchnorrVerifies(key, in.hash, in.sig)
        THEN <<"VALID">> ELSE <<"INVALID">>

-----------------------------------------------------------------------------
(***************************************************************************)
(* ElligatorSwift                                                          *)
(***************************************************************************)

\* XSwiftEC is even in t; both coordinates are reduced into the field.
XSwiftEC(u, t) == <<u % FieldPrime, {t % FieldPrime, (FieldPrime - t) % FieldPrime}>>

IsOddField(t) == (t % FieldPrime) % 2 = 1

\* The X decoded, and the parity of t.
decode_ellswift(m, in) == <<"point", XSwiftEC(in.u, in.t), IsOddField(in.t)>>

\* BTCDRoundtripEllswift: t is negated where its parity is not that of Y.
ForcedParity(t, odd) == IF IsOddField(t) # odd THEN FieldPrime - t ELSE t

\* Encoded and decoded again: the point has the X of the key.  XElligatorSwift
\* picks t # 0; create and from_seckey encode Y themselves.
roundtrip_ellswift(m, in) ==
    IF ~InRange(in.key) THEN NullOpt
    ELSE <<"point", {in.key, Order - in.key},
           IF m = "Btcd" THEN IsOddField(ForcedParity(in.t, Odd(in.key))) ELSE Odd(in.key)>>

-----------------------------------------------------------------------------
(***************************************************************************)
(* MuSig2                                                                  *)
(***************************************************************************)

\* BIP-327 aggregation, which depends on the order of the keys.
KeyAgg(keys) == FoldLeft(LAMBDA sum, i : (sum + i * keys[i]) % Order, 0,
                         [i \in 1..Len(keys) |-> i])

BadSigner(in) == \E i \in 1..Len(in.keys) : ~InRange(in.keys[i])

musig2_key_agg(m, in) ==
    IF BadSigner(in) THEN NullOpt
    ELSE IF KeyAgg(in.keys) = 0 THEN <<"AGG_FAIL">>
    ELSE Compressed(KeyAgg(in.keys))

\* The key with a tweak added: to its even-Y form for an x-only tweak.  A
\* failure, a tweak out of range or a sum that is zero, lasts.
Tweaked(key, tweak) ==
    LET base == IF tweak.is_xonly /\ key # 0 /\ Odd(key) THEN Order - key ELSE key
    IN  IF key = 0 \/ tweak.tweak >= Order THEN 0 ELSE (base + tweak.tweak) % Order

\* RustMusig2: the tweaks as they cross the FFI boundary.
Packed(tweaks) == [i \in 1..Len(tweaks) |-> [is_xonly |-> tweaks[i].is_xonly,
                                             tweak |-> tweaks[i].tweak]]

\* The key after the tweaks of the session; 0 where one has failed.
ApplyTweaks(m, in) ==
    FoldLeft(Tweaked, KeyAgg(in.keys),
             IF m = "RustMusig2" THEN Packed(in.tweaks) ELSE in.tweaks)

\* Nonces: against the key before any tweak, and no extra input hashes like an
\* empty one.
Nonces(in) == [i \in 1..Len(in.keys) |->
                  <<in.seeds[i], in.keys[i], KeyAgg(in.keys), in.msg, in.extra>>]

\* The steps in the order both sides keep: aggregation, nonces, tweaks, then
\* the signatures, on which honest signers do not fail.
musig2_sign_session(m, in) ==
    IF BadSigner(in) THEN NullOpt
    ELSE IF KeyAgg(in.keys) = 0 THEN <<"AGG_FAIL">>
    ELSE IF \E i \in 1..Len(in.seeds) : in.seeds[i] = 0 THEN <<"NONCE_GEN_FAIL">>
    ELSE IF ApplyTweaks(m, in) = 0 THEN <<"TWEAK_FAIL">>
    ELSE <<"session", Nonces(in), ApplyTweaks(m, in)>>

-----------------------------------------------------------------------------
(***************************************************************************)
(* Silent payments: the wrappers                                           *)
(***************************************************************************)

\* bluewalletsp asks its runner for unlabeled recipients only and drops the one
\* known divergence.
BlueWalletCreateOutputs(in) ==
    IF \E i \in Recipients(in) : in.labeled[i] THEN NullOpt
    ELSE IF CreateOutputs(in) = <<"SKIP_INTERMEDIATE_ZERO_SUM">> THEN NullOpt
    ELSE CreateOutputs(in)

silentpayments_create_outputs(m, in) ==
    CASE m = "Secp256k1"    -> SecpCreateOutputs(in)
      [] m = "Spdk"         -> SpdkCreateOutputs(in)
      [] m = "BdkSp"        -> BdkSpCreateOutputs(in)
      [] m = "BlueWalletSp" -> BlueWalletCreateOutputs(in)

-----------------------------------------------------------------------------
(***************************************************************************)
(* One input of the driver                                                 *)
(***************************************************************************)
NoInput == [target |-> "none"]

Unasked == <<"unasked">>

Answer(m, in) ==
    CASE in.target = "private_to_public_key"      -> private_to_public_key(m, in)
      [] in.target = "pubkey_parse"               -> pubkey_parse(m, in)
      [] in.target \in {"sign_compact", "sign_der"} -> sign(m, in)
      [] in.target = "sign_verify"                -> sign_verify(m, in)
      [] in.target = "ecdh"                       -> ecdh(m, in)
      [] in.target = "sign_schnorr"               -> sign_schnorr(m, in)
      [] in.target = "schnorr_verify"             -> schnorr_verify(m, in)
      [] in.target = "decode_ellswift"            -> decode_ellswift(m, in)
      [] in.target = "roundtrip_ellswift"         -> roundtrip_ellswift(m, in)
      [] in.target = "musig2_key_agg"             -> musig2_key_agg(m, in)
      [] in.target = "musig2_sign_session"        -> musig2_sign_session(m, in)
      [] OTHER                                    -> silentpayments_create_outputs(m, in)

\* What the driver draws: strings of 32 bytes, at least one input key, a spend
\* key and a label for each scan key; t is what the library encodes a key with.
DriverDraws(in) ==
    /\ in.target \in {"private_to_public_key", "pubkey_parse", "sign_compact", "sign_der",
                      "sign_verify", "ecdh", "sign_schnorr", "schnorr_verify",
                      "decode_ellswift", "roundtrip_ellswift", "musig2_key_agg",
                      "musig2_sign_session", "silentpayments_create_outputs"}
    /\ in.target = "schnorr_verify" => in.key \in Nat
    /\ in.target = "roundtrip_ellswift" => in.t \in 1..(FieldPrime - 1)
    /\ in.target = "musig2_sign_session" =>
           in.tweaks \in Seq([is_xonly : BOOLEAN, tweak : Nat])
    /\ in.target = "silentpayments_create_outputs" =>
           /\ in.keys \in Seq(Nat) /\ in.keys # <<>>
           /\ in.scan \in Seq(Nat)
           /\ in.spend \in [Recipients(in) -> Nat]
           /\ in.labeled \in [Recipients(in) -> BOOLEAN]

ASSUME DrawnAssumption == \A in \in CurveInputs : DriverDraws(in)

NobodyAsked == [m \in {} |-> Unasked]

CurveInit == input = NoInput /\ asking = <<>> /\ answers = NobodyAsked

Draw ==
    /\ input = NoInput
    /\ input' \in CurveInputs
    /\ asking' = Modules(input'.target)
    /\ answers' = [m \in ToSet(asking') |-> Unasked]

\* The continue of the loop over the modules.
PassOver ==
    /\ asking # <<>> /\ Skipped(Head(asking), input)
    /\ asking' = Tail(asking)
    /\ UNCHANGED <<input, answers>>

Ask ==
    /\ asking # <<>> /\ ~Skipped(Head(asking), input)
    /\ answers' = [answers EXCEPT ![Head(asking)] = Answer(Head(asking), input)]
    /\ asking' = Tail(asking)
    /\ UNCHANGED input

Return ==
    /\ input # NoInput /\ asking = <<>>
    /\ input' = NoInput
    /\ answers' = NobodyAsked
    /\ UNCHANGED asking

CurveNext == Draw \/ PassOver \/ Ask \/ Return

CurveSpec == CurveInit /\ [][CurveNext]_curveVars

-----------------------------------------------------------------------------
(***************************************************************************)
(* Properties                                                              *)
(***************************************************************************)

\* Two divergences the code leaves open: btcd verifies for a key it has
\* reduced, and spdk registers a change label, which may fail on its own.
KnownToDiffer(m) ==
    \/ input.target = "schnorr_verify" /\ m = "Btcd" /\ input.key >= Order
    \/ /\ input.target = "silentpayments_create_outputs" /\ m = "Spdk"
       /\ \E i \in Recipients(input) :
              input.labeled[i] /\ Rejected(input.spend[i], LabelTweak(input.scan[i], 0))

\* The driver stops at the first difference it sees, so the wrappers have to
\* make their libraries agree on every input, hashes and keys beyond the curve
\* order, odd encodings, chained tweaks and running sums through zero included:
\* any two modules that answer give the same answer.
AnswersAgree ==
    \A m, other \in DOMAIN answers :
        \/ answers[m] = answers[other]
        \/ {answers[m], answers[other]} \cap {Unasked, NullOpt} # {}
        \/ KnownToDiffer(m) \/ KnownToDiffer(other)

\* Who is left to compare: a null answer reads as "not implemented" and drops
\* the module (comment at K256::pubkey_parse).  A module keeps silent only for a
\* key or a point that all of them refuse, for labels it has no API for, or for
\* the running sum through zero.
SilentFor(m) ==
    CASE input.target \in {"private_to_public_key", "sign_compact", "sign_der",
                           "sign_schnorr", "roundtrip_ellswift"} -> ~InRange(input.key)
      [] input.target = "sign_verify" -> m = "Secp256k1" /\ ~InRange(input.key)
      [] input.target = "ecdh" ->
            ~InRange(input.key) \/ ~input.sec1.on_curve \/ input.sec1.tag # "compressed"
      [] input.target \in {"musig2_key_agg", "musig2_sign_session"} -> BadSigner(input)
      [] input.target = "silentpayments_create_outputs" ->
            /\ m # "Secp256k1"
            /\ \/ m = "BlueWalletSp" /\ \E i \in Recipients(input) : input.labeled[i]
               \/ \E n \in 2..(Len(input.keys) - 1) : SumTo(input, n) = 0
      [] OTHER -> FALSE

NobodyDropped ==
    \A m \in DOMAIN answers : answers[m] = NullOpt => SilentFor(m)

\* BIP-352, said once without the maps: every module that answers with outputs
\* gives each recipient, in the order they were asked for, the output of its
\* own key under the next counter of its group, however addresses repeat and
\* groups interleave.
OutputsFollowBip352 ==
    \A m \in DOMAIN answers :
        input.target = "silentpayments_create_outputs" /\ answers[m][1] = "outputs"
        => answers[m][2] = Outputs(input) /\ Total(input) # 0
=============================================================================
