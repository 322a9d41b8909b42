--------------------------- MODULE ForeignStrings ---------------------------
(***************************************************************************)
(* The wrappers around the Go, Rust, C# and kernel libraries: each calls   *)
(* into its library, gets a char* that the library has allocated, copies   *)
(* it into a std::string and gives it back to the deallocator of the same  *)
(* library.  A null pointer is std::nullopt, "this module does not answer",*)
(* and a word such as "INVALID" is a refusal that the driver compares; the *)
(* wrappers and libraries of one target have to use the same one.          *)
(* One table per wrapper says, per target, how its string is handled.      *)
(***************************************************************************)
EXTENDS TLC

CONSTANTS
    ForeignInputs   \* the inputs: a target and what the libraries make of it

\* What a library may be handed: an input all of them accept, one all of them
\* refuse, or one on which they (or their bridges) are known to part.
InputClasses == {"accepted", "refused", "apart"}

VARIABLES
    fcall,      \* the input under way, or NoCall
    fasking,    \* the modules not yet asked
    fstep,      \* where the wrapper under way stands
    held,       \* what the library has returned to it: a text, or Null
    live,       \* the strings allocated and not yet released, by allocator
    fanswers,   \* module -> text, for the modules asked so far
    fault       \* undefined behaviour or a failed assertion, if any

foreignVars == <<fcall, fasking, fstep, held, live, fanswers, fault>>

NoCall == [target |-> "none", class |-> "none"]
Null   == "nullptr"     \* and std::nullopt, which wrappers make of it
Text   == "text"        \* what the library says of an input it accepts

-----------------------------------------------------------------------------
(***************************************************************************)
(* Entries of the tables                                                   *)
(***************************************************************************)

\* A string from `allocator`, given back through `release`; `refused` is what
\* comes for a refused input, and null becomes std::nullopt.
Owned(allocator, release, refused) ==
    [allocator |-> allocator, release |-> release, refusal |-> refused,
     onNull |-> "nullopt", apart |-> {}, skips |-> {}, declines |-> FALSE]

\* std::string result(pointer) without a test of the pointer.
Unchecked(e) == [e EXCEPT !.onNull = "read"]
\* assert(pointer).
Asserted(e) == [e EXCEPT !.onNull = "assert"]
\* The library may also return these where the libraries part.
MayReturn(e, texts) == [e EXCEPT !.apart = texts]
\* The wrapper turns these texts into std::nullopt after the release.
Skipping(e, texts) == [e EXCEPT !.skips = texts, !.apart = texts]
\* The wrapper does not call the library on such an input.
Declining(e) == [e EXCEPT !.declines = TRUE]

\* A bool or an int in place of a string.
Value == Owned("none", "none", "false")

\* The release functions and the allocators they belong to: each crate's
\* CString::from_raw takes back its own into_raw; Go's C.CString, strdup and
\* the unmanaged heap of .NET are malloc's.
AllocatorOf ==
    [free |-> "malloc", BTCDFreeString |-> "malloc", GocoinFreeString |-> "malloc",
     nbitcoin_free_c_string |-> "malloc", nbitcoinsecp256k1_free_c_string |-> "malloc",
     nlightning_free_string |-> "malloc",
     free_c_string |-> "rust_bitcoin_lib", ldk_free_string |-> "ldk_lib",
     rust_psbt_free_c_string |-> "rust_psbt_lib", kernel_free_c_string |-> "rust_kernel_lib",
     rustcrypto_aes_free_string |-> "rustcrypto_aes_lib",
     rustreexo_free_string |-> "rustreexo_lib", k256_free_string |-> "rust_k256_lib",
     musig2_free_string |-> "rust_musig2_lib", spdk_free_string |-> "spdk_lib",
     bdk_sp_free_string |-> "bdk_sp_lib", none |-> "none"]

-----------------------------------------------------------------------------
(***************************************************************************)
(* One table per module.cpp: its targets                                   *)
(***************************************************************************)

RustbitcoinString(refused) == Owned("rust_bitcoin_lib", "free_c_string", refused)

Rustbitcoin ==
    [script_parse        |-> Unchecked(RustbitcoinString("0")),
     deserialize_block   |-> Skipping(Unchecked(RustbitcoinString("0")), {"skip error"}),
     address_parse       |-> RustbitcoinString("INVALID"),
     addrv2_parse        |-> MayReturn(RustbitcoinString("[]"), {Null}),
     cmpctblocks_parse   |-> MayReturn(RustbitcoinString("ERR:parse"),
                                     {Null, "ERR:trailing_bytes"}),
     parse_p2p_message   |-> RustbitcoinString("0"),
     bip32_master_keygen |-> RustbitcoinString(Null),
     bip32_deserialize_extended_key |-> RustbitcoinString("INVALID"),
     bip32_derive_from_path |-> MayReturn(RustbitcoinString("INVALID"), {Null}),
     decode_ellswift     |-> RustbitcoinString(Null),
     roundtrip_ellswift  |-> RustbitcoinString(Null),
     merkle_root_compute |-> RustbitcoinString("REJECTED")]

RustbitcoinLater ==
    [partial_merkle_tree |-> MayReturn(RustbitcoinString("REJECT"), {"PARSE_ERR"}),
     bech32_segwit_roundtrip |-> RustbitcoinString("ENC:FAIL"),
     sighash_compute     |-> MayReturn(RustbitcoinString(Null), {"ERR"})]

\* Slip: the Go side reports every error as the empty string.
BtcdSaysNothing(refused) ==
    Owned("malloc", "BTCDFreeString", IF refused = Null THEN Null ELSE "")

\* C.CString never returns null: the tests of the pointer catch Go's nil.
BtcdString(refused) == Owned("malloc", "BTCDFreeString", refused)

Btcd ==
    [verify_script       |-> Value,
     parse_p2p_message   |-> Skipping(Owned("malloc", "free", "0"), {""}),
     deserialize_block   |-> Skipping(Unchecked(BtcdString("0")),
                                      {"unsupported segwit version"}),
     addrv2_parse        |-> MayReturn(BtcdString("[]"), {Null}),
     psbt_v0_parse       |-> BtcdString("INVALID"),
     address_parse       |-> BtcdString("INVALID"),
     transaction_eval    |-> Unchecked(BtcdString("0")),
     merkle_root_compute |-> BtcdString(Null),
     sighash_compute     |-> BtcdString(Null)]

BtcdKeys ==
    [bip32_master_keygen |-> MayReturn(BtcdString(Null), {""}),
     sign_schnorr        |-> BtcdString(""),
     roundtrip_ellswift  |-> MayReturn(BtcdString(Null), {""}),
     decode_ellswift     |-> BtcdString(Null),
     schnorr_verify      |-> BtcdString("INVALID"),
     bip32_deserialize_extended_key |-> BtcdString("INVALID"),
     bech32_segwit_roundtrip |-> BtcdString("ENC:FAIL"),
     bech32_convert_bits |-> BtcdString("ERR")]

\* GocoinEvalScript: 1 true, 2 false, anything else std::nullopt.
Gocoin ==
    [verify_script       |-> Value,
     script_eval         |-> MayReturn(Value, {Null}),
     merkle_root_compute |-> Owned("malloc", "GocoinFreeString", Null),
     sighash_compute     |-> Owned("malloc", "GocoinFreeString", Null)]

K256String(refused) == Owned("rust_k256_lib", "k256_free_string", refused)

K256 ==
    [private_to_public_key |-> K256String(Null),
     pubkey_parse |-> Asserted(K256String("ERR")),
     sign_compact |-> MayReturn(K256String(Null), {""}),
     sign_der     |-> MayReturn(K256String(Null), {""}),
     sign_verify  |-> Value,
     ecdh         |-> K256String(Null),
     sign_schnorr |-> MayReturn(K256String(Null), {""})]

DecredString(refused) == Owned("malloc", "free", refused)

Decred_secp256k1 ==
    [private_to_public_key |-> DecredString(Null),
     sign_compact |-> DecredString(Null),
     sign_der     |-> DecredString(Null),
     sign_verify  |-> Value,
     ecdh         |-> DecredString(Null),
     pubkey_parse |-> Asserted(DecredString("ERR"))]

NBitcoinString(refused) == Owned("malloc", "nbitcoin_free_c_string", refused)

NBitcoin ==
    [miniscript_parse    |-> Value,
     verify_script       |-> Value,
     script_eval         |-> Value,
     bip32_master_keygen |-> NBitcoinString(Null),
     psbt_v0_parse       |-> MayReturn(NBitcoinString("INVALID"), {Null, ""}),
     psbt_v2_parse       |-> MayReturn(NBitcoinString("INVALID"), {Null, ""}),
     bip32_deserialize_extended_key |-> NBitcoinString("INVALID"),
     sign_schnorr        |-> NBitcoinString(Null),
     bip32_derive_from_path |-> MayReturn(NBitcoinString("INVALID"), {Null})]

NBitcoinSecpString(refused) == Owned("malloc", "nbitcoinsecp256k1_free_c_string", refused)

NBitcoin_secp256k1 ==
    [private_to_public_key |-> NBitcoinSecpString(Null),
     sign_compact   |-> NBitcoinSecpString(Null),
     sign_der       |-> NBitcoinSecpString(Null),
     sign_verify    |-> Value,
     ecdh           |-> NBitcoinSecpString(Null),
     schnorr_verify |-> NBitcoinSecpString("INVALID")]

LdkString(refused) == MayReturn(Owned("ldk_lib", "ldk_free_string", refused), {Null})

\* Invoices without a payment secret, or with several hashes, are null.
Ldk ==
    [deserialize_invoice |-> LdkString(""), deserialize_offer |-> LdkString(""),
     parse_p2p_lightning_message |-> LdkString(""), decode_onion |-> LdkString("")]

LndString(refused) == MayReturn(Owned("malloc", "free", refused), {Null})

\* The invoice has no null path in Go and no test in C++.
Lnd ==
    [deserialize_invoice |-> Unchecked(Owned("malloc", "free", "")),
     deserialize_offer   |-> LndString(""),
     parse_p2p_lightning_message |-> LndString(""), decode_onion |-> LndString("")]

NLightning == [deserialize_invoice |-> Owned("malloc", "nlightning_free_string", "")]

Musig2String == MayReturn(Owned("rust_musig2_lib", "musig2_free_string", Null), {"AGG_FAIL"})

RustMusig2 == [musig2_key_agg |-> Musig2String, musig2_sign_session |-> Musig2String]

\* The two silent-payment crates: a sentinel is dropped after the release.
Spdk  == [silentpayments |-> Skipping(Owned("spdk_lib", "spdk_free_string", Null), {"SKIP"})]
BdkSp == [silentpayments |-> Skipping(Owned("bdk_sp_lib", "bdk_sp_free_string", Null), {"SKIP"})]

RustCryptoAes ==
    [aes256_cbc |-> Owned("rustcrypto_aes_lib", "rustcrypto_aes_free_string", Null)]

Utreexo   == [stump_modify_add |-> Owned("malloc", "free", "")]
Rustreexo == [stump_modify_add |-> Owned("rustreexo_lib", "rustreexo_free_string", "")]

RustPsbtString == MayReturn(Owned("rust_psbt_lib", "rust_psbt_free_c_string", "INVALID"), {Null})

RustPsbt == [psbt_v0_parse |-> RustPsbtString, psbt_v2_parse |-> RustPsbtString]

RustKernelString(refused) == Owned("rust_kernel_lib", "kernel_free_c_string", refused)

Rustbitcoinkernel ==
    [kernel_transaction |-> RustKernelString("0"), kernel_block |-> RustKernelString("0"),
     kernel_block_check |-> RustKernelString("err=exception")]

\* strdup of the text that the functions above the class have put together.
StrdupString(refused) == Owned("malloc", "free", refused)

BitcoinKernel ==
    [kernel_transaction |-> StrdupString("0"), kernel_block |-> StrdupString("0"),
     kernel_block_check |-> StrdupString("err=exception"),
     transaction_eval |-> StrdupString("0")]

BitcoinKernelVariant ==
    [kernel_transaction |-> StrdupString("0"), kernel_block |-> StrdupString("0"),
     kernel_block_check |-> StrdupString("err=exception"),
     transaction_eval |-> StrdupString("0")]

\* Descriptors that mention raw or combo are not put to the library.
Rustminiscript == [descriptor_parse |-> Declining(Value), miniscript_parse |-> Value]
Tinyminiscript == [descriptor_parse |-> Value]

Wrappers ==
    [Rustbitcoin |-> Rustbitcoin @@ RustbitcoinLater, Btcd |-> Btcd @@ BtcdKeys,
     Gocoin |-> Gocoin, K256 |-> K256, Decred_secp256k1 |-> Decred_secp256k1,
     NBitcoin |-> NBitcoin, NBitcoin_secp256k1 |-> NBitcoin_secp256k1, Ldk |-> Ldk,
     Lnd |-> Lnd, NLightning |-> NLightning, RustMusig2 |-> RustMusig2, Spdk |-> Spdk,
     BdkSp |-> BdkSp, RustCryptoAes |-> RustCryptoAes, Utreexo |-> Utreexo,
     Rustreexo |-> Rustreexo, RustPsbt |-> RustPsbt,
     Rustbitcoinkernel |-> Rustbitcoinkernel, BitcoinKernel |-> BitcoinKernel,
     BitcoinKernelVariant |-> BitcoinKernelVariant,
     Rustminiscript |-> Rustminiscript, Tinyminiscript |-> Tinyminiscript]

Asked(target) == {m \in DOMAIN Wrappers : target \in DOMAIN Wrappers[m]}

-----------------------------------------------------------------------------
(***************************************************************************)
(* One wrapper after the other                                             *)
(***************************************************************************)

\* The one whose turn it is, and its entry: in some order, the wrappers know
\* nothing of each other.
Turn  == CHOOSE m \in fasking : TRUE
Entry == Wrappers[Turn][fcall.target]

Outcomes(e, class) ==
    CASE class = "accepted" -> {Text}
      [] class = "refused"  -> {e.refusal}
      [] OTHER              -> {Text, e.refusal} \union e.apart

ForeignInit ==
    /\ fcall = NoCall /\ fasking = {} /\ fstep = "idle" /\ held = Null
    /\ live = {} /\ fanswers = << >> /\ fault = "none"

DrawForeign ==
    /\ fstep = "idle" /\ fault = "none"
    /\ fcall' \in ForeignInputs
    /\ fasking' = Asked(fcall'.target)
    /\ fstep' = "ask"
    /\ UNCHANGED <<held, live, fanswers, fault>>

AnswerAs(text) ==
    /\ fanswers' = (Turn :> text) @@ fanswers
    /\ fasking' = fasking \ {Turn}
    /\ fstep' = "ask"
    /\ held' = Null

\* The library allocates a string, or returns null or a value.
CallLibrary ==
    /\ fstep = "ask" /\ fasking # {}
    /\ IF Entry.declines /\ fcall.class = "apart"
       THEN AnswerAs(Null) /\ UNCHANGED live
       ELSE /\ held' \in Outcomes(Entry, fcall.class)
            /\ live' = IF held' = Null \/ Entry.allocator = "none" THEN live
                       ELSE live \union {Entry.allocator}
            /\ fstep' = "returned"
            /\ UNCHANGED <<fasking, fanswers>>
    /\ UNCHANGED <<fcall, fault>>

TakeNull ==
    /\ fstep = "returned" /\ held = Null
    /\ IF Entry.onNull = "nullopt" THEN AnswerAs(Null) /\ UNCHANGED fault
       ELSE fault' = Entry.onNull /\ UNCHANGED <<fasking, fstep, held, fanswers>>
    /\ UNCHANGED <<fcall, live>>

\* std::string result(pointer).
CopyText ==
    /\ fstep = "returned" /\ held # Null
    /\ fault' = IF Entry.allocator \in live \union {"none"} THEN fault ELSE "read after free"
    /\ fstep' = "copied"
    /\ UNCHANGED <<fcall, fasking, held, live, fanswers>>

\* Slip: a text to be dropped returns before the release.
ReleasesUnlessSkipped(e, text) == text \notin e.skips

\* Every path that has a string releases it, the dropped texts' included.
Releases(e, text) == TRUE

Release ==
    /\ fstep = "copied"
    /\ LET allocator == AllocatorOf[Entry.release] IN
       IF ~Releases(Entry, held) THEN UNCHANGED <<live, fault>>
       ELSE /\ live' = live \ {allocator}
            /\ fault' = IF allocator = Entry.allocator THEN fault ELSE "foreign release"
    /\ fstep' = "released"
    /\ UNCHANGED <<fcall, fasking, held, fanswers>>

ReturnText ==
    /\ fstep = "released"
    /\ AnswerAs(IF held \in Entry.skips THEN Null ELSE held)
    /\ UNCHANGED <<fcall, live, fault>>

EndCall ==
    /\ fstep = "ask" /\ fasking = {}
    /\ fcall' = NoCall /\ fanswers' = << >> /\ fstep' = "idle"
    /\ UNCHANGED <<fasking, held, live, fault>>

ForeignNext ==
    \/ DrawForeign \/ CallLibrary \/ TakeNull \/ CopyText \/ Release
    \/ ReturnText \/ EndCall

ForeignSpec == ForeignInit /\ [][ForeignNext]_foreignVars

-----------------------------------------------------------------------------
(***************************************************************************)
(* Properties                                                              *)
(***************************************************************************)

\* When a wrapper has answered, every string of its library has been released,
\* on the paths that drop the text too: a campaign calls them millions of times.
NothingLeaks == fstep \in {"idle", "ask"} => live = {}

\* No wrapper reads a null pointer or fails its assertion, whatever its library
\* may answer, and none gives a string to another allocator: what a wrapper
\* leaves untested its library never returns.
NoFault == fault = "none"

\* Every string a library hands out is released by who owns it, once, and no
\* wrapper touches a string it does not hold.
StringsAreOwned == NothingLeaks /\ NoFault

\* On an input all libraries refuse, those that answer use one word, so that a
\* refusal is never reported as a difference; on one all accept, none is dropped.
OneWordForRefusal ==
    \A m1, m2 \in DOMAIN fanswers :
        /\ fcall.class = "refused" =>
               \/ fanswers[m1] = Null \/ fanswers[m2] = Null
               \/ fanswers[m1] = fanswers[m2]
        /\ fcall.class = "accepted" => fanswers[m1] = Text
=============================================================================
