---------------------------- MODULE FixedFormats ----------------------------
(***************************************************************************)
(* The custom mutators of fixed formats: custommutator/mutators/           *)
(* extended_key.h, p2p_message.h, p2p_lightning_message.h,                 *)
(* schnorr_signature.h and secp256k1_signature.h.  A fuzzer is built with  *)
(* one of them.  LLVMFuzzerMutate, the digest and the two signers are      *)
(* parameters; bytes are numbers below 256.                                *)
(***************************************************************************)
EXTENDS Base58, FiniteSets

CONSTANTS
    LLVMFuzzerMutate(_, _),  \* (data, max_size): what libFuzzer's mutator may leave
    SchnorrSign(_, _),       \* (privkey, hash): 64 bytes, or <<>> for a bad key
    EcdsaSign(_, _),         \* (privkey, hash): a DER signature, or <<>>
    Corpus,                  \* inputs the fuzzer starts from
    OutputSizes,             \* values of max_size
    BIP32_PAYLOAD_LEN        \* 78

VERSION_PREFIX_LEN == 4

ASSUME PayloadAssumption ==
    BIP32_PAYLOAD_LEN \in Nat /\ BIP32_PAYLOAD_LEN >= VERSION_PREFIX_LEN

VARIABLES
    mutator,     \* the mutator of this build
    env,         \* EXTKEYTYPE or P2P_LIGHTNING_MESSAGE_TYPE, "" when not set
    max_size,
    data,        \* the input
    ctx,         \* secp256k1_ctx: has it been created
    repaired,    \* the last step went through to the repair of its format
    made         \* the payload behind the last extended key

fixedVars == <<mutator, env, max_size, data, ctx, repaired, made>>

Mutators == {"extended_key", "p2p_message", "p2p_lightning_message",
             "schnorr_signature", "secp256k1_signature"}

\* VERSION_PREFIXES
xpub == <<4, 136, 178, 30>>
xprv == <<4, 136, 173, 228>>
tpub == <<4, 53, 135, 207>>
tprv == <<4, 53, 131, 148>>

GetVersionBytes(key_type) ==
    CASE key_type = "xprv" -> xprv
      [] key_type = "tpub" -> tpub
      [] key_type = "tprv" -> tprv
      [] OTHER -> xpub

\* The version a mutation writes: EXTKEYTYPE's, else any, picked by the seed.
Versions == IF env # "" THEN {GetVersionBytes(env)} ELSE {xpub, xprv, tpub, tprv}

message_types ==
    [warning |-> 1, init |-> 16, error |-> 17, ping |-> 18, pong |-> 19,
     funding_created |-> 34, open_channel |-> 32, funding_signed |-> 35,
     channel_ready |-> 36, shutdown |-> 38, closing_signed |-> 39,
     closing_complete |-> 40, update_add_htlc |-> 128,
     update_fulfill_htlc |-> 130, update_fail_htlc |-> 131,
     update_fail_malformed_htlc |-> 135]

\* The type a mutation writes: the one asked for, else any of the table.
MessageTypes ==
    IF env \in DOMAIN message_types THEN {message_types[env]} ELSE Range(message_types)

BITCOIN_HEADER_SIZE   == 24
PAYLOAD_LENGTH_OFFSET == 16
CHECKSUM_OFFSET       == 20

MIN_BUFFER_SIZE == 64

\* Bytes from..to-1 of a buffer, counted from 0 as in the code.
Bytes(d, from, to) == SubSeq(d, from + 1, to)

\* memcpy(d + at, bytes).
Overwrite(d, at, bytes) ==
    [i \in 1..Max({Len(d), at + Len(bytes)}) |->
        IF i \in at + 1..at + Len(bytes) THEN bytes[i - at] ELSE d[i]]

\* The first n bytes, in an array of n zeroes.
InZeroes(bytes, n) == SubSeq(bytes \o Zeroes(n), 1, n)

Shorter(a, b) == Min({a, b})

TypeBytes(type) == <<type \div 256, type % 256>>

-----------------------------------------------------------------------------
(***************************************************************************)
(* extended_key.h                                                          *)
(***************************************************************************)
\* What libFuzzer's mutator is handed: the payload of a text that decodes,
\* else the raw bytes, in BIP32_PAYLOAD_LEN bytes.
PayloadOf(d) ==
    LET Payload(decoded) == IF decoded.status = "ok" THEN decoded.vch ELSE d
    IN  InZeroes(Payload(DecodeBase58Check(d, max_size)), BIP32_PAYLOAD_LEN)

\* A mutated payload under a version.
Versioned(mutated, version) == Overwrite(InZeroes(mutated, BIP32_PAYLOAD_LEN), 0, version)

MutateExtendedKey ==
    /\ mutator = "extended_key"
    /\ \E mutated \in LLVMFuzzerMutate(PayloadOf(data), BIP32_PAYLOAD_LEN), version \in Versions :
          LET payload == Versioned(mutated, version)
              encoded == EncodeBase58Check(payload)
          IN  /\ made' = payload
              /\ data' = SubSeq(encoded, 1, Shorter(Len(encoded), max_size))
              /\ repaired' = (Len(encoded) <= max_size)
    /\ UNCHANGED <<mutator, env, max_size, ctx>>

-----------------------------------------------------------------------------
(***************************************************************************)
(* p2p_message.h, p2p_lightning_message.h                                  *)
(***************************************************************************)
\* The little-endian length in a header.  Its upper bytes are kept apart: a
\* length of 2^16 or more is longer than any input.
PayloadLength(d) ==
    LET f == Bytes(d, PAYLOAD_LENGTH_OFFSET, PAYLOAD_LENGTH_OFFSET + 4)
    IN  IF f[3] # 0 \/ f[4] # 0 THEN 65536 ELSE f[1] + 256 * f[2]

\* The input holds a header and all the payload that the header announces.
HoldsMessage(d) ==
    /\ Len(d) >= BITCOIN_HEADER_SIZE
    /\ Len(d) >= BITCOIN_HEADER_SIZE + PayloadLength(d)

\* The checksum of the payload that the header announces.
ChecksumOf(d) == Hash4(Bytes(d, BITCOIN_HEADER_SIZE, BITCOIN_HEADER_SIZE + PayloadLength(d)))

fix_bitcoin_checksum(d) ==
    IF HoldsMessage(d) THEN Overwrite(d, CHECKSUM_OFFSET, ChecksumOf(d)) ELSE d

MutateP2PMessage ==
    /\ mutator = "p2p_message"
    /\ \E new \in LLVMFuzzerMutate(data, max_size) :
          data' = fix_bitcoin_checksum(new) /\ repaired' = TRUE
    /\ UNCHANGED <<mutator, env, max_size, ctx, made>>

\* An input of less than two bytes is extended when the buffer has room.
MutateLightningMessage ==
    /\ mutator = "p2p_lightning_message"
    /\ \E new \in LLVMFuzzerMutate(data, max_size), type \in MessageTypes :
          LET room == Len(new) >= 2 \/ max_size >= 2
          IN  /\ data' = IF room THEN Overwrite(new, 0, TypeBytes(type)) ELSE new
              /\ repaired' = room
    /\ UNCHANGED <<mutator, env, max_size, ctx, made>>

-----------------------------------------------------------------------------
(***************************************************************************)
(* schnorr_signature.h, secp256k1_signature.h                              *)
(***************************************************************************)
PrivKey(d) == Bytes(d, 0, 32)
MsgHash(d) == Bytes(d, 32, 64)

\* The mutator gives libFuzzer's input as it is.
Raw(new) == data' = new /\ repaired' = FALSE

\* Slip: what stood behind the signature is left there.
WrittenOver(d, signature) == Overwrite(d, MIN_BUFFER_SIZE, signature)

\* The signature goes behind the key and the hash, and the rest is dropped.
WithSignature(d, signature) == Bytes(d, 0, MIN_BUFFER_SIZE) \o signature

\* The signature fits, or the input stays raw.
SignOrRaw(new, signature) ==
    IF signature # <<>> /\ MIN_BUFFER_SIZE + Len(signature) <= max_size
    THEN data' = WithSignature(new, signature) /\ repaired' = TRUE
    ELSE Raw(new)

\* get_secp256k1_context: created once, and tried again after a failure.
Context(then, new) ==
    \E created \in {ctx} \cup {TRUE, FALSE} :
        /\ ctx => created
        /\ ctx' = created
        /\ IF created THEN then ELSE Raw(new)

MutateSchnorr ==
    /\ mutator = "schnorr_signature"
    /\ \E new \in LLVMFuzzerMutate(data, max_size) :
          \/ /\ Raw(new)                      \* short, or half of the seeds
             /\ UNCHANGED ctx
          \/ /\ Len(new) >= MIN_BUFFER_SIZE
             /\ Context(SignOrRaw(new, SchnorrSign(PrivKey(new), MsgHash(new))), new)
    /\ UNCHANGED <<mutator, env, max_size, made>>

MutateEcdsa ==
    /\ mutator = "secp256k1_signature"
    /\ \E new \in LLVMFuzzerMutate(data, max_size) :
          IF Len(new) < MIN_BUFFER_SIZE
          THEN Raw(new) /\ UNCHANGED ctx
          ELSE Context(SignOrRaw(new, EcdsaSign(PrivKey(new), MsgHash(new))), new)
    /\ UNCHANGED <<mutator, env, max_size, made>>

-----------------------------------------------------------------------------
Envs == [m \in Mutators |->
            CASE m = "extended_key" -> {"", "xprv", "tpub", "tprv", "xpub"}
              [] m = "p2p_lightning_message" -> {"", "ping", "update_add_htlc", "unknown"}
              [] OTHER -> {""}]

FixedInit ==
    /\ mutator \in Mutators
    /\ env \in Envs[mutator]
    /\ max_size \in OutputSizes
    /\ data \in {d \in Corpus : Len(d) <= max_size}
    /\ ctx = FALSE
    /\ repaired = FALSE
    /\ made = <<>>

FixedNext == MutateExtendedKey \/ MutateP2PMessage \/ MutateLightningMessage
        \/ MutateSchnorr \/ MutateEcdsa

FixedSpec == FixedInit /\ [][FixedNext]_fixedVars

-----------------------------------------------------------------------------
\* The input never outgrows the buffer libFuzzer gave.
FixedTypeOK ==
    /\ mutator \in Mutators
    /\ env \in Envs[mutator]
    /\ max_size \in OutputSizes
    /\ data \in Seq(0..255) /\ Len(data) <= max_size
    /\ ctx \in BOOLEAN /\ repaired \in BOOLEAN
    /\ made = <<>> \/ Len(made) = BIP32_PAYLOAD_LEN

\* base58.cpp:67,112 assert that the array computed from the length of the
\* text is large enough for its number, and a decoder is told how much its
\* caller can take.  Whatever text a fuzzer carries, no assertion fails, a
\* result is no longer than the bound, and the text of the result is the text
\* without its spaces.
Base58ReadsBack ==
    mutator = "extended_key" => \A max_ret_len \in {0, 2, Len(data)} :
        LET got   == DecodeBase58(data, max_ret_len)
            again == EncodeBase58(got.vch)
        IN  /\ got.status # "asserts" /\ EncodeBase58(data).status # "asserts"
            /\ got.status = "ok" =>
                  /\ Len(got.vch) <= max_ret_len
                  /\ again.status = "ok"
                  /\ again.str = SelectSeq(data, LAMBDA c : c \notin Space)
            /\ DecodeBase58(EncodeBase58(data).str, max_ret_len) =
                  IF Len(data) <= max_ret_len THEN [status |-> "ok", vch |-> data] ELSE Refused

\* extended_key.h:39: a text this mutator made, unless it was cut at the end of
\* the buffer, is read back as the payload behind it by the next mutation, with
\* a version that was asked for; otherwise fuzzing would start over from the
\* text's characters.
ExtendedKeyReadsBack ==
    (mutator = "extended_key" /\ repaired) =>
        /\ PayloadOf(data) = made
        /\ Bytes(made, 0, VERSION_PREFIX_LEN) \in Versions

\* p2p_message.h:9, p2p_lightning_message.h:11 and the two signature mutators
\* exist so that targets get past the first check: the message an input holds
\* has its checksum, a Lightning message its type, and the signature is over
\* the hash, by the key, that the target reads from the same input, with
\* nothing behind it.
FormatHolds ==
    /\ (mutator = "p2p_message" /\ repaired /\ Len(data) >= 24
          /\ Len(data) - 24 >= PayloadLength(data)) =>
          Bytes(data, CHECKSUM_OFFSET, BITCOIN_HEADER_SIZE) = ChecksumOf(data)
    /\ (mutator = "p2p_lightning_message" /\ repaired) =>
          \E type \in MessageTypes : Bytes(data, 0, 2) = TypeBytes(type)
    /\ (mutator = "schnorr_signature" /\ repaired) =>
          Bytes(data, MIN_BUFFER_SIZE, Len(data)) = SchnorrSign(PrivKey(data), MsgHash(data))
    /\ (mutator = "secp256k1_signature" /\ repaired) =>
          Bytes(data, MIN_BUFFER_SIZE, Len(data)) = EcdsaSign(PrivKey(data), MsgHash(data))
=============================================================================
