------------------------------ MODULE MCDriver ------------------------------
(***************************************************************************)
(* Small instances of Driver.  Module names are the ones the handlers test *)
(* for; the inputs sit on the boundaries the handlers test.                *)
(***************************************************************************)
EXTENDS Driver

MCNames == {"Bitcoin", "Btcd", "K256", "NBitcoin"}
MCOrder == <<"Bitcoin", "Btcd", "K256", "NBitcoin">>

MCBodies == {"x", "y"}

\* One target of every kind of comparison, and one that does not exist.
MCTargets ==
    {"script_eval", "verify_script", "pubkey_parse", "address_parse",
     "psbt_v2_parse", "cmpctblocks_parse", "merkle_root_compute",
     "sighash_compute", "bech32_roundtrip", "decode_ellswift",
     "sign_compact", "musig2_key_agg", "miniscript_parse", "no_such_target"}

MCInputs ==
    {[size |-> 64, first |-> 4, ops |-> {}, traits |-> {}, hrp |-> 30, program |-> 32],
     [size |-> 33, first |-> 5, ops |-> {CHECKMULTISIG, CSV},
      traits |-> {"trivial_miniscript", "incomplete", "truncated_push"},
      hrp |-> 31, program |-> 32],
     [size |-> 65, first |-> 6, ops |-> {CHECKSIGVERIFY},
      traits |-> {"segwit_v0", "truncated_push"}, hrp |-> 18, program |-> 40]}

\* One input, and the target whose handler forgives.
AddrV2Targets == {"addrv2"}
AddrV2Inputs == {CHOOSE in \in MCInputs : in.size = 64}
AddrV2Names == {"Bitcoin", "Btcd", "Gocoin", "Rustbitcoin"}
AddrV2Order == <<"Bitcoin", "Btcd", "Gocoin", "Rustbitcoin">>
=============================================================================
