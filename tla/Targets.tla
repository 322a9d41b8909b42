------------------------------ MODULE Targets ------------------------------
(***************************************************************************)
(* What each fuzz target of driver.cpp does around its comparison loop:    *)
(* which inputs it hands to the modules at all, which modules it leaves    *)
(* out of an input, and which part of a module's answer it compares.       *)
(*                                                                         *)
(* An input is abstracted to the features the handlers test, an answer to  *)
(* the class the handlers tell apart (tag) and its remaining text (body).  *)
(* The compile-time guards (#ifdef BTCD, ...) need no constant: every one  *)
(* of them encloses a test of the module's own name, and a module can only *)
(* be loaded when its flag was compiled.                                   *)
(***************************************************************************)
EXTENDS Integers, Sequences, FiniteSets

CONSTANTS
    Names,      \* module names, BaseModule::name
    Bodies      \* texts an answer can carry

Blank == "-"

ASSUME BodiesAssumption == Bodies \subseteq STRING /\ Blank \notin Bodies

(***************************************************************************)
(* Inputs                                                                  *)
(***************************************************************************)

\* Opcodes the skip lists look for: OP_CHECKSIG .. OP_CHECKMULTISIGVERIFY, OP_CSV.
CHECKSIG == 172
CHECKSIGVERIFY == 173
CHECKMULTISIG == 174
CHECKMULTISIGVERIFY == 175
CSV == 178

\* "trivial_miniscript": the text up to its first NUL is "0" or "1".
\* "incomplete": fewer bytes than the structured fields need.  "segwit_v0",
\* "truncated_push": is_segwit_v0, and a script that does not parse cleanly.
Traits == {"trivial_miniscript", "incomplete", "segwit_v0", "truncated_push"}

Input == [size    : Nat,                \* length of the buffer
          first   : 0..255,             \* its first byte
          ops     : SUBSET (0..255),    \* bytes that occur in its scripts
          traits  : SUBSET Traits,
          hrp     : Nat,                \* bech32_roundtrip: HRP length
          program : Nat]                \* bech32_roundtrip: program length

(***************************************************************************)
(* Answers: std::optional<...> returned by a module                        *)
(***************************************************************************)
NullOpt == [tag |-> "nullopt", body |-> Blank]
Unasked == [tag |-> "unasked", body |-> Blank]

PsbtTargets == {"psbt_v0_parse", "psbt_v2_parse"}

\* Classes of answer a target tells apart.
AnswerTags(t) ==
    CASE t = "address_parse"       -> {"plain", "unk", "witness_unknown"}
      [] t \in PsbtTargets         -> {"plain", "void"}
      [] t = "addrv2"              -> {"plain", "i2p", "cjdns"}
      [] t = "cmpctblocks_parse"   -> {"plain", "err"}
      [] t = "merkle_root_compute" -> {"intact", "mutated", "rejected", "malformed"}
      [] OTHER                     -> {"plain"}

Answers(t) == {NullOpt} \cup [tag : AnswerTags(t), body : Bodies]

(***************************************************************************)
(* Which inputs a handler hands to the modules                             *)
(***************************************************************************)

\* Handlers that return when the buffer is shorter than this.
MinBytes ==
    [private_to_public_key |-> 32, sign_compact |-> 64, sign_der |-> 64,
     sign_verify |-> 72, ecdh |-> 65, sign_schnorr |-> 96,
     aes256_cbc |-> 50, merkle_root_compute |-> 32]

\* Handlers that return unless the buffer has exactly this length.
ExactBytes ==
    [decode_ellswift |-> 64, roundtrip_ellswift |-> 32, schnorr_verify |-> 128]

\* Handlers that read fixed-size fields, as many as they have drawn, and return
\* when the buffer runs dry.
Musig2Targets == {"musig2_key_agg", "musig2_sign_session"}
SilentPaymentsTargets == {"silentpayments_create_outputs"}
StructuredTargets == Musig2Targets \cup SilentPaymentsTargets

\* Handlers that hand the buffer on as a text, as it is, or in pieces drawn
\* from it, and compare on every input.
TextTargets ==
    {"descriptor_parse", "miniscript_parse", "deserialize_invoice",
     "address_parse", "deserialize_offer"}

BufferTargets ==
    {"script", "deserialize_block", "addrv2", "cmpctblocks_parse",
     "parse_p2p_message", "parse_p2p_lightning_message", "transaction_eval",
     "bip32_master_keygen", "kernel_block", "kernel_transaction",
     "kernel_block_check", "pubkey_parse", "bip32_deserialize_extended_key",
     "decode_onion", "partial_merkle_tree", "bip32_derive_from_path"}

DrawnTargets ==
    {"script_eval", "verify_script", "stump_modify_add", "sighash_compute",
     "bech32_roundtrip", "bech32_convert_bits"}

OpenTargets == TextTargets \cup BufferTargets \cup DrawnTargets

\* The names Driver::Run dispatches on; any other name is an assertion failure.
KnownTargets ==
    OpenTargets \cup PsbtTargets \cup StructuredTargets
        \cup DOMAIN MinBytes \cup DOMAIN ExactBytes

\* A legacy sighash is only compared over a script that parses cleanly.
SighashComparable(in) ==
    "segwit_v0" \in in.traits \/ "truncated_push" \notin in.traits

\* The handler reaches its comparison loop.
Accepts(t, in) ==
    /\ t \in DOMAIN MinBytes => in.size >= MinBytes[t]
    /\ t \in DOMAIN ExactBytes => in.size = ExactBytes[t]
    /\ t \in StructuredTargets => "incomplete" \notin in.traits
    /\ t = "miniscript_parse" => "trivial_miniscript" \notin in.traits
    /\ t = "sighash_compute" => SighashComparable(in)

(***************************************************************************)
(* Which modules a handler leaves out of an input                          *)
(***************************************************************************)
SkippedInScriptEval(m, in) ==
    \/ m = "Btcd" /\ in.ops \cap {CHECKSIG, CHECKMULTISIG, CHECKMULTISIGVERIFY} # {}
    \/ m = "NBitcoin" /\ CSV \in in.ops

SkippedInVerifyScript(m, in) ==
    /\ m \in {"Btcd", "Gocoin"}
    /\ in.ops \cap (CHECKSIG..CHECKMULTISIGVERIFY) # {}

SkippedInPubkeyParse(m, in) ==
    /\ m = "K256"
    /\ \/ in.size = 65 /\ in.first \in {6, 7}
       \/ in.size = 33 /\ in.first = 5

SkipsModule(t, m, in) ==
    \/ t = "script_eval" /\ SkippedInScriptEval(m, in)
    \/ t = "verify_script" /\ SkippedInVerifyScript(m, in)
    \/ t = "pubkey_parse" /\ SkippedInPubkeyParse(m, in)

(***************************************************************************)
(* Bech32 lengths                                                          *)
(***************************************************************************)

\* 5-bit groups in the data part: the version, plus the padded program.
Bech32DataLength(programLen) == 1 + (programLen * 8 + 4) \div 5

\* Longest HRP that still fits under the 90 characters of BIP-173.
MaxFittingHrpLen(programLen) == 90 - 1 - Bech32DataLength(programLen) - 6

OverCap(in) == in.hrp + 1 + Bech32DataLength(in.program) + 6 > 90

(***************************************************************************)
(* Which part of an answer is compared, and in which chain                 *)
(***************************************************************************)
Lanes == {"main", "side"}

None == [tag |-> "none", body |-> Blank]

\* Slip: the "WITNESS_UNKNOWN:" answers of one module meet the addresses of another.
OneAddressChain(a, lane) ==
    IF lane = "main" /\ a.tag # "unk" THEN a ELSE None

\* AddressParseTarget: "UNK:" is dropped, "WITNESS_UNKNOWN:" has its own chain.
AddressValue(a, lane) ==
    IF a.tag = (IF lane = "main" THEN "plain" ELSE "witness_unknown") THEN a ELSE None

\* MerkleRootComputeTarget: the main chain compares roots, the side chain
\* whether the module detected a mutated list.
MerkleRoot(a) ==
    IF a.tag = "rejected" THEN None ELSE [tag |-> "root", body |-> a.body]

MerkleDetection(a) ==
    [tag |-> IF a.tag \in {"mutated", "rejected"} THEN "detected" ELSE "clean",
     body |-> Blank]

\* CompactBlocksTarget: every "ERR:<reason>" becomes "ERR".
CompactBlocksValue(a) ==
    IF a.tag = "err" THEN [tag |-> "err", body |-> Blank] ELSE a

\* PSBTParseCompare: empty, no inputs or no outputs is not a meaningful parse.
PsbtValue(a) == IF a.tag = "void" THEN None ELSE a

\* Bech32RoundtripTarget: asked, but not compared, over the length cap.
Bech32Value(in, a) == IF OverCap(in) THEN None ELSE a

MainValue(t, in, a) ==
    CASE t = "address_parse"       -> AddressValue(a, "main")
      [] t = "merkle_root_compute" -> MerkleRoot(a)
      [] t = "cmpctblocks_parse"   -> CompactBlocksValue(a)
      [] t \in PsbtTargets         -> PsbtValue(a)
      [] t = "bech32_roundtrip"    -> Bech32Value(in, a)
      [] OTHER                     -> a

SideValue(t, a) ==
    CASE t = "address_parse"       -> AddressValue(a, "side")
      [] t = "merkle_root_compute" -> MerkleDetection(a)
      [] OTHER                     -> None

\* Slip: the loop body without "if (!res.has_value()) continue".
ComparedWithoutValue(t, in, a, lane) ==
    IF a = Unasked THEN None
    ELSE IF lane = "main" THEN MainValue(t, in, a) ELSE SideValue(t, a)

\* The value of answer a that chain lane compares, None when it takes no part.
Compared(t, in, a, lane) ==
    IF a \in {NullOpt, Unasked} THEN None
    ELSE IF lane = "main" THEN MainValue(t, in, a) ELSE SideValue(t, a)

\* Slip: the exemption without the test of the two module names.
ToleratedForAnyone(t, m, a, lastModule, lastAnswer) ==
    /\ t = "addrv2"
    /\ lastModule # m
    /\ {a.tag, lastAnswer.tag} \cap {"i2p", "cjdns"} # {}

\* AddrV2Target goes on past a mismatch next to Btcd over i2p or cjdns.
Tolerated(t, m, a, lastModule, lastAnswer) ==
    /\ t = "addrv2"
    /\ "Btcd" \in {m, lastModule}
    /\ {a.tag, lastAnswer.tag} \cap {"i2p", "cjdns"} # {}

\* A merkle answer that is neither REJECTED nor "<root>;mutated=<0|1>" is asserted away.
Malformed(t, a) == t = "merkle_root_compute" /\ a.tag = "malformed"
=============================================================================
