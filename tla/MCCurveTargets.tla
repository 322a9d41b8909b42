--------------------------- MODULE MCCurveTargets ---------------------------
(* A curve of order 5 and a field of 7: keys, hashes and tweaks from zero to *)
(* beyond the order, up to three input keys and three recipients.            *)
EXTENDS CurveTargets

MCOdd(k) == k \in {2, 4}

\* Labels in range, out of range, and one that negates a spend key.
MCLabelTweak(scan, m) == IF m = 0 THEN (IF scan = 2 THEN 1 ELSE 2) ELSE IF m = 1 THEN 3 ELSE 5

Scalars == 0..(Order + 1)

Sec1 == [tag : {"compressed", "uncompressed", "hybrid", "compact", "other"},
         on_curve : BOOLEAN, key : {1, 2}]

Tweaks == [is_xonly : BOOLEAN, tweak : {0, 1, 4, 5}]

UpTo(n, S) == UNION {[1..k -> S] : k \in 0..n}

KeyInputs == [target : {"private_to_public_key", "roundtrip_ellswift"}, key : Scalars, t : 1..6]

SignInputs == [target : {"sign_compact", "sign_der", "sign_schnorr"}, key : Scalars,
               hash : Scalars, aux : {0}]

VerifyInputs ==
    [target : {"sign_verify"}, key : Scalars, hash : Scalars,
     sig : {<<"junk">>} \cup {Signature(k, h) : k \in {1, 2}, h \in 0..(Order - 1)}]
    \cup
    [target : {"schnorr_verify"}, key : Scalars, hash : Scalars,
     sig : {<<"junk">>} \cup {SchnorrSignature(k, h, 0) : k \in {1, 2}, h \in Scalars}]

PointInputs == [target : {"pubkey_parse", "ecdh"}, key : Scalars, sec1 : Sec1]

EllswiftInputs == [target : {"decode_ellswift"}, u : 0..8, t : 0..8]

MusigInputs ==
    UNION {[target : {"musig2_key_agg", "musig2_sign_session"}, keys : [1..n -> {0, 1, 2, 3}],
            seeds : [1..n -> {0, 1}], msg : {0}, extra : {<<>>, <<0>>},
            tweaks : UpTo(2, Tweaks)] : n \in 1..2}

SpKeys == [keys : [1..3 -> {1, 2, 4}] \cup [1..2 -> {0, 1, 4, 5}], taproot : [1..3 -> BOOLEAN]]

SpRecipients ==
    UNION {[scan : [1..n -> {1, 2}], spend : [1..n -> {1, 2}],
            labeled : [1..n -> BOOLEAN], labels : [1..n -> {0, 1}]] : n \in {3}}
    \cup [scan : [1..2 -> {1, 5}], spend : [1..2 -> {0, 1}],
          labeled : [1..2 -> BOOLEAN], labels : [1..2 -> {1, 2}]]

Payment(keys, recipients) ==
    [target |-> "silentpayments_create_outputs", keys |-> keys.keys, taproot |-> keys.taproot,
     scan |-> recipients.scan, spend |-> recipients.spend,
     labeled |-> recipients.labeled, labels |-> recipients.labels]

\* Every set of keys with two recipients, every set of recipients with two keys.
SpInputs ==
    {Payment(k, [scan |-> <<1, 2>>, spend |-> <<1, 1>>, labeled |-> <<FALSE, FALSE>>,
                 labels |-> <<0, 0>>]) : k \in SpKeys}
    \cup {Payment([keys |-> <<1, 2>>, taproot |-> <<TRUE, FALSE>>], r) : r \in SpRecipients}
    \cup {Payment([keys |-> <<1, 4, 2>>, taproot |-> <<FALSE, FALSE, FALSE>>], r) : r \in SpRecipients}

MCCurveInputs == KeyInputs \cup SignInputs \cup VerifyInputs \cup PointInputs
            \cup EllswiftInputs \cup MusigInputs \cup SpInputs
=============================================================================
