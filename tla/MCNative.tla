------------------------------ MODULE MCNative ------------------------------
(***************************************************************************)
(* The native targets, one input at a time: foreign strings, consensus     *)
(* answers, targets over the curve and signature hashes.  The driver has   *)
(* one thread: while one target runs, nothing of another does.             *)
(***************************************************************************)
EXTENDS ForeignStrings, ConsensusAnswers, MCCurveTargets, MCSighash

AllTargets == UNION {DOMAIN Wrappers[m] : m \in DOMAIN Wrappers}
MCForeignInputs == [target : AllTargets, class : InputClasses]

Upto(S, n) == UNION {[1..k -> S] : k \in 0..n}

Transactions ==
    [target : {"transaction_eval"}, decodes : {TRUE}, coinbase_script : BOOLEAN,
     points : Upto({"null", "p", "q"}, 2), values : Upto({0, 1, 2, 3, 4, 8, 14, 15}, 3)]
    \union [target : {"transaction_eval"}, decodes : {FALSE}, coinbase_script : {FALSE},
            points : {<<>>}, values : {<<>>}]

KernelBuffers ==
    [target : {"kernel_block_check"},
     buffer : Upto({0, 1, 4, 7}, 2) \union [1..3 -> {0, 1, 2, 3, 4, 5, 7}] \union [1..4 -> {1, 3}]]
    \union [target : {"kernel_block", "kernel_transaction"}, buffer : Upto({0, 1}, 2)]

Blocks ==
    {b \in [target : {"deserialize_block"}, parses : BOOLEAN, rebuilds : BOOLEAN,
            checks : BOOLEAN, mutated : BOOLEAN, unrepresentable : BOOLEAN] :
        b.rebuilds => b.parses}

Scripts ==
    [target : {"script_parse", "script_eval", "verify_script"}, executes : BOOLEAN,
     leaves_true : BOOLEAN,
     starts : {"empty", "cut", "op_return", "reserved", "oversized", "other"}]

\* Eight leaves: a list of six, whose last pair of the next level is doubled,
\* and the list that spells the doubling out.
Lists ==
    [target : {"merkle_root_compute"},
     leaves : (Upto({<<"a">>, <<"b">>}, 8) \union Upto({<<"a">>, <<"b">>, <<"c">>}, 4)) \ {<<>>}]

CompactBlocks ==
    {c \in [target : {"cmpctblocks_parse"}, parses : BOOLEAN, superfluous_witness : BOOLEAN,
            trailing : BOOLEAN, prefilled_checks : BOOLEAN, prefilled_inputs : BOOLEAN] :
        /\ c.superfluous_witness => ~c.parses
        /\ c.prefilled_checks => c.prefilled_inputs}

Ciphers == [target : {"aes256_cbc"}, pad : BOOLEAN, plain : Upto(0..3, 4) \ {<<>>}]

Groups ==
    [target : {"bech32_convert_bits"}, from_bits : {5}, to_bits : {8}, pad : BOOLEAN,
     groups : Upto({0, 1, 8, 16, 31}, 4)]
    \union [target : {"bech32_convert_bits"}, from_bits : {8}, to_bits : {5}, pad : BOOLEAN,
            groups : Upto({0, 1, 4, 128, 255}, 3)]

Keys ==
    [target : {"bip32_master_keygen"}, bytes : {0, 15, 16, 17, 32, 63, 64, 65}]
    \union [target : {"bip32_deserialize_extended_key"}, letter : {"", "x", "t", "y"},
            kind : {"none", "private", "public"}, depth : {0, 1}, has_parent : BOOLEAN,
            key_valid : BOOLEAN]

MCConsensusInputs ==
    Transactions \union KernelBuffers \union Blocks \union Scripts \union Lists
    \union CompactBlocks \union Ciphers \union AddressInputs({0, 1, 16}) \union Groups \union Keys

NativeInit == ForeignInit /\ ConsensusInit /\ CurveInit /\ SighashInit

ForeignIdle   == fcall = NoCall
ConsensusIdle == cinput = NoConsensusInput
CurveIdle     == input = NoInput
SighashIdle   == drawn = NoSighashInput

NativeNext ==
    \/ /\ ConsensusIdle /\ CurveIdle /\ SighashIdle
       /\ ForeignNext
       /\ UNCHANGED <<consensusVars, curveVars, sighashVars>>
    \/ /\ ForeignIdle /\ CurveIdle /\ SighashIdle
       /\ ConsensusNext
       /\ UNCHANGED <<foreignVars, curveVars, sighashVars>>
    \/ /\ ForeignIdle /\ ConsensusIdle /\ SighashIdle
       /\ CurveNext
       /\ UNCHANGED <<foreignVars, consensusVars, sighashVars>>
    \/ /\ ForeignIdle /\ ConsensusIdle /\ CurveIdle
       /\ SighashNext
       /\ UNCHANGED <<foreignVars, consensusVars, curveVars>>

NativeSpec == NativeInit /\ [][NativeNext]_<<foreignVars, consensusVars, curveVars, sighashVars>>
=============================================================================
