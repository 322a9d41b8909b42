-------------------------- MODULE ConsensusAnswers --------------------------
(***************************************************************************)
(* What the native modules answer where Bitcoin Core's rules are at stake: *)
(* transactions, blocks seen through libbitcoinkernel and its bindings,    *)
(* blocks and scripts, merkle roots, compact blocks, AES-CBC, segwit       *)
(* addresses and BIP-32 seeds.  The libraries are external; the modules    *)
(* add the rules their library leaves out, drop the inputs it cannot judge *)
(* and bring every refusal to one form.                                    *)
(***************************************************************************)
EXTENDS Integers, Sequences, SequencesExt, FiniteSets

CONSTANTS
    WordSize,           \* 2^w of the unsigned amounts: 64 bits in the code
    max_money,          \* the largest amount, below half of WordSize
    BlockSize,          \* AES_BLOCKSIZE
    ConsensusInputs     \* what the driver may draw, for all targets

ASSUME ConsensusAssumption ==
    /\ WordSize \in Nat \ {0} /\ WordSize % 2 = 0
    /\ max_money \in Nat /\ 2 * max_money < WordSize
    /\ BlockSize \in Nat \ {0}

VARIABLES
    cinput,     \* what the driver has drawn; NoConsensusInput between two calls
    casking,    \* the modules still to be asked
    canswers    \* the answers so far, in the order of the modules

consensusVars == <<cinput, casking, canswers>>

NoConsensusInput == [target |-> "none"]

\* std::nullopt and the sentinels, as sequences like every other answer.
Nullopt == <<"nullopt">>
Refused == <<"0">>
InvalidKey == <<"INVALID">>
Says(b) == IF b THEN <<"true">> ELSE <<"false">>

\* The modules of a target, in the order of std::map.
ConsensusModules(target) ==
    CASE target = "transaction_eval" ->
            <<"Bitcoin", "BitcoinKernel", "BitcoinKernelVariant", "Btcd", "LibbitcoinSystem">>
      [] target \in {"kernel_block_check", "kernel_block", "kernel_transaction"} ->
            <<"BitcoinKernel", "BitcoinKernelVariant", "PyBitcoinKernel", "Rustbitcoinkernel">>
      [] target = "deserialize_block" -> <<"Bitcoin", "Btcd", "LibbitcoinSystem", "Rustbitcoin">>
      [] target = "script_parse"  -> <<"Bitcoin", "LibbitcoinSystem", "Rustbitcoin">>
      [] target = "script_eval"   -> <<"Bitcoin", "Gocoin", "LibbitcoinSystem", "NBitcoin">>
      [] target = "verify_script" ->
            <<"Bitcoin", "Btcd", "Gocoin", "LibbitcoinSystem", "NBitcoin">>
      [] target = "merkle_root_compute" -> <<"Bitcoin", "Btcd", "Gocoin", "Rustbitcoin">>
      [] target = "cmpctblocks_parse"   -> <<"Bitcoin", "Rustbitcoin">>
      [] target = "aes256_cbc"          -> <<"Bitcoin", "RustCryptoAes">>
      [] target = "bech32_segwit_roundtrip" ->
            <<"Bitcoin", "Btcd", "LibwallyCore", "Rustbitcoin">>
      [] target = "bech32_convert_bits" -> <<"Bitcoin", "Btcd">>
      [] OTHER -> <<"Bitcoin", "Btcd", "LibbitcoinSystem", "LibwallyCore", "NBitcoin",
                    "Rustbitcoin">>

-----------------------------------------------------------------------------
(***************************************************************************)
(* Transactions.  An amount is a word on the wire: Core and btcd read it   *)
(* signed, libbitcoin unsigned.                                            *)
(***************************************************************************)

AsSigned(word) == IF 2 * word >= WordSize THEN word - WordSize ELSE word

Distinct(points) == Cardinality(ToSet(points)) = Len(points)

\* A null point is for the coinbase, which has one input.
PointsAreNull(tx) == \E i \in 1..Len(tx.points) : tx.points[i] = "null"
CoinbaseHolds(tx) == PointsAreNull(tx) => Len(tx.points) = 1 /\ tx.coinbase_script

\* nValueOut after the first n outputs.
Paid(values) ==
    LET paid[n \in 0..Len(values)] == IF n = 0 THEN 0 ELSE paid[n - 1] + AsSigned(values[n])
    IN  paid

MoneyRange(amount) == 0 <= amount /\ amount <= max_money

\* CheckTransaction, of Core, of the kernel, and CheckTransactionSanity.
CheckTransaction(tx) ==
    /\ tx.points # <<>> /\ tx.values # <<>>
    /\ \A i \in 1..Len(tx.values) :
           MoneyRange(AsSigned(tx.values[i])) /\ MoneyRange(Paid(tx.values)[i])
    /\ Distinct(tx.points)
    /\ CoinbaseHolds(tx)

\* transaction::check() of libbitcoin: neither double spends nor amounts.
LibbitcoinCheck(tx) == tx.points # <<>> /\ tx.values # <<>> /\ CoinbaseHolds(tx)

\* Slip: only the running total is held against the limit.
TotalAlone(total, value) ==
    IF total > (max_money + WordSize - value) % WordSize THEN -1
    ELSE (total + value) % WordSize

\* CVE-2010-5139 as the wrapper guards it, on unsigned words; -1 once refused.
Overspent(total, value) ==
    IF total = -1 \/ value > max_money THEN -1
    ELSE IF total > (max_money + WordSize - value) % WordSize THEN -1
    ELSE (total + value) % WordSize

\* total_out after the first n outputs.
TotalOut(values) ==
    LET total[n \in 0..Len(values)] == IF n = 0 THEN 0 ELSE Overspent(total[n - 1], values[n])
    IN  total

LibbitcoinTransactionEval(tx) ==
    IF /\ tx.decodes /\ LibbitcoinCheck(tx) /\ Distinct(tx.points)
       /\ TotalOut(tx.values)[Len(tx.values)] # -1
    THEN <<"wtxid and size">> ELSE Refused

BitcoinTransactionEval(tx) ==
    IF tx.decodes /\ CheckTransaction(tx) THEN <<"wtxid and size">> ELSE Refused

KernelTransactionEval(tx) ==
    IF tx.decodes /\ CheckTransaction(tx) THEN <<"wtxid and size">> ELSE Refused

BtcdTransactionEval(tx) ==
    IF tx.decodes /\ CheckTransaction(tx) THEN <<"wtxid and size">> ELSE Refused

transaction_eval(m, tx) ==
    CASE m = "Bitcoin"          -> BitcoinTransactionEval(tx)
      [] m = "Btcd"             -> BtcdTransactionEval(tx)
      [] m = "LibbitcoinSystem" -> LibbitcoinTransactionEval(tx)
      [] OTHER                  -> KernelTransactionEval(tx)

-----------------------------------------------------------------------------
(***************************************************************************)
(* libbitcoinkernel and its bindings.  A serialized block or transaction   *)
(* is a byte of facts, 1 it parses, 2 its proof of work holds, 4 its       *)
(* merkle root; any other string of bytes does not parse.                  *)
(***************************************************************************)

Has(byte, fact) == (byte \div fact) % 2 = 1
KernelParses(raw) == Len(raw) = 1 /\ Has(raw[1], 1)

chain_types == <<"mainnet", "testnet", "testnet4", "signet", "regtest">>
decode_chain_type(byte) == chain_types[(byte % Len(chain_types)) + 1]
decode_block_check_flags(byte) ==
    {f \in {"POW", "MERKLE"} : Has(byte, IF f = "POW" THEN 1 ELSE 2)}

\* Two selectors that are 0 where the buffer is short, then the block.
Selector(buffer, n) == IF Len(buffer) >= n THEN buffer[n] ELSE 0
RawBlock(buffer)    == IF Len(buffer) > 2 THEN SubSeq(buffer, 3, Len(buffer)) ELSE <<>>

\* Block::Check: regtest takes any proof of work.
BlockChecks(raw, chain, flags) ==
    /\ "POW" \in flags => Has(raw[1], 2) \/ chain = "regtest"
    /\ "MERKLE" \in flags => Has(raw[1], 4)

Verdict(raw, chain, flags) == IF BlockChecks(raw, chain, flags) THEN "valid" ELSE "invalid"

CheckReport(chain, flag_selector, result) == <<chain, flag_selector % 4, result>>

\* The parse is inside the try block: an exception ends the report there.
libbitcoinkernel_block_check(buffer) ==
    LET chain == decode_chain_type(Selector(buffer, 1))
        flags == decode_block_check_flags(Selector(buffer, 2))
        raw   == RawBlock(buffer)
    IN  CheckReport(chain, Selector(buffer, 2),
                    IF KernelParses(raw) THEN Verdict(raw, chain, flags) ELSE "err=exception")

\* The same program in the copy that is linked under a symbol prefix.
variant_block_check(buffer) == libbitcoinkernel_block_check(buffer)

\* The crate parses before it makes the chain parameters, and it writes mode
\* and result of a valid block itself.
rustbitcoinkernel_block_check(buffer) ==
    LET raw == IF Len(buffer) > 2 THEN SubSeq(buffer, 3, Len(buffer)) ELSE <<>>
    IN  CheckReport(decode_chain_type(Selector(buffer, 1)), Selector(buffer, 2),
                    IF ~KernelParses(raw) THEN "err=exception"
                    ELSE Verdict(raw, decode_chain_type(Selector(buffer, 1)),
                                 decode_block_check_flags(Selector(buffer, 2))))

\* Python reads "ok" off the validation mode.
block_check(buffer) ==
    LET raw == IF Len(buffer) > 2 THEN SubSeq(buffer, 3, Len(buffer)) ELSE <<>>
        chain == chain_types[(Selector(buffer, 1) % 5) + 1]
    IN  CheckReport(chain, Selector(buffer, 2),
                    IF KernelParses(raw)
                    THEN Verdict(raw, chain, decode_block_check_flags(Selector(buffer, 2)))
                    ELSE "err=exception")

kernel_block_check(m, buffer) ==
    CASE m = "BitcoinKernel"        -> libbitcoinkernel_block_check(buffer)
      [] m = "BitcoinKernelVariant" -> variant_block_check(buffer)
      [] m = "PyBitcoinKernel"      -> block_check(buffer)
      [] OTHER                      -> rustbitcoinkernel_block_check(buffer)

\* The identifiers, outpoints and amounts of what parses, else "0".
libbitcoinkernel_transaction(buffer) ==
    IF KernelParses(buffer) THEN <<"txid, outpoints and outputs", buffer>> ELSE Refused

libbitcoinkernel_block(buffer) ==
    IF KernelParses(buffer) THEN <<"block hash and txids", buffer>> ELSE Refused

kernel_parse(target, buffer) ==
    IF target = "kernel_block" THEN libbitcoinkernel_block(buffer)
    ELSE libbitcoinkernel_transaction(buffer)

-----------------------------------------------------------------------------
(***************************************************************************)
(* Blocks, scripts and compact blocks, by the facts the code branches on   *)
(***************************************************************************)

\* Core and libbitcoin drop what they cannot parse; Core then checks without
\* proof of work, and for malleation.
BitcoinDeserializeBlock(b) ==
    IF ~b.parses THEN Nullopt
    ELSE IF ~b.checks \/ b.mutated THEN Refused ELSE <<"block hash">>

\* libbitcoin first identifies (merkle root, witness commitment), and only then
\* builds the whole block, which may fail on its own.
LibbitcoinDeserializeBlock(b) ==
    IF ~b.parses THEN Nullopt
    ELSE IF b.mutated THEN Refused
    ELSE IF ~b.rebuilds THEN Nullopt
    ELSE IF ~b.checks THEN Refused ELSE <<"block hash">>

\* btcd and rust-bitcoin refuse what does not parse, but for what Core reads and
\* rust-bitcoin cannot represent: "skip error".
OtherDeserializeBlock(m, b) ==
    IF m = "Rustbitcoin" /\ b.unrepresentable THEN Nullopt
    ELSE IF b.parses /\ b.checks /\ ~b.mutated THEN <<"block hash">> ELSE Refused

deserialize_block(m, b) ==
    CASE m = "Bitcoin"          -> BitcoinDeserializeBlock(b)
      [] m = "LibbitcoinSystem" -> LibbitcoinDeserializeBlock(b)
      [] OTHER                  -> OtherDeserializeBlock(m, b)

ScriptReport(s) == <<"sigops, witness program, push only", s.starts, s.executes>>

\* IsUnspendable: OP_RETURN first, or too large.
BitcoinScriptParse(s) ==
    IF s.starts = "cut" \/ s.starts \in {"op_return", "oversized"} THEN Refused
    ELSE ScriptReport(s)

\* The first opcode alone, "to match Core's IsUnspendable()".
Unspendable(s) == s.starts \in {"op_return", "oversized"}

LibbitcoinScriptParse(s) ==
    IF s.starts = "cut" \/ Unspendable(s) THEN Refused ELSE ScriptReport(s)

script_parse(m, s) ==
    IF m = "LibbitcoinSystem" THEN LibbitcoinScriptParse(s) ELSE BitcoinScriptParse(s)

\* EvalScript alone: whether it runs, not what it leaves; an empty script is
\* not judged, nor a script cut in a push run.
Runs(s) == s.starts # "cut" /\ s.executes

BitcoinScriptEval(s) ==
    IF s.starts = "empty" THEN Nullopt ELSE Says(Runs(s))

\* connect() wants a true value on the stack: OP_1, the output script, leaves it.
LeftByOutputScript(s) == TRUE

LibbitcoinScriptEval(s) ==
    IF s.starts = "empty" THEN Nullopt
    ELSE IF s.starts = "cut" THEN Says(FALSE)
    ELSE Says(s.executes /\ LeftByOutputScript(s))

\* GocoinEvalScript: 0 for an empty script, which is std::nullopt.
GocoinScriptEval(s) == IF s.starts = "empty" THEN Nullopt ELSE Says(Runs(s))

\* NBitcoin says false of an empty script, and there is nobody to compare it to.
NBitcoinScriptEval(s) == Says(s.starts # "empty" /\ Runs(s))

script_eval(m, s) ==
    CASE m = "Bitcoin"          -> BitcoinScriptEval(s)
      [] m = "LibbitcoinSystem" -> LibbitcoinScriptEval(s)
      [] m = "Gocoin"           -> GocoinScriptEval(s)
      [] OTHER                  -> NBitcoinScriptEval(s)

\* Both scripts run and a true value is left.
Verifies(s) == Runs(s) /\ s.leaves_true

\* With one of the scripts empty Core and libbitcoin keep silent ...
BitcoinVerifyScript(s)    == IF s.starts = "empty" THEN Nullopt ELSE Says(Verifies(s))
LibbitcoinVerifyScript(s) == IF s.starts = "empty" THEN Nullopt
                             ELSE IF s.starts = "cut" THEN Says(FALSE) ELSE Says(Verifies(s))

\* ... and btcd, gocoin and NBitcoin say false.
verify_script(m, s) ==
    CASE m = "Bitcoin"          -> BitcoinVerifyScript(s)
      [] m = "LibbitcoinSystem" -> LibbitcoinVerifyScript(s)
      [] OTHER                  -> Says(s.starts # "empty" /\ Verifies(s))

\* A prefilled transaction that Core's CheckTransaction refuses, or a witness
\* that is superfluous, is dropped before anything is said of the rest.
BitcoinCmpctblocksParse(c) ==
    IF c.parses /\ ~c.prefilled_checks THEN Nullopt
    ELSE IF c.superfluous_witness THEN Nullopt
    ELSE IF ~c.parses THEN <<"ERR:parse">>
    ELSE IF c.trailing THEN <<"ERR:trailing_bytes">>
    ELSE <<"OK">>

RustCmpctblocksParse(c) ==
    IF c.superfluous_witness THEN Nullopt
    ELSE IF ~c.parses THEN <<"ERR:parse">>
    ELSE IF c.trailing THEN <<"ERR:trailing_bytes">>
    ELSE IF ~c.prefilled_inputs THEN Nullopt
    ELSE <<"OK">>

cmpctblocks_parse(m, c) ==
    IF m = "Bitcoin" THEN BitcoinCmpctblocksParse(c) ELSE RustCmpctblocksParse(c)

-----------------------------------------------------------------------------
(***************************************************************************)
(* Merkle roots over a list of leaves; a hash is the pair it is made of    *)
(***************************************************************************)

IsOdd(n) == n % 2 = 1
Pairs(hashes) == {i \in 1..(Len(hashes) - 1) : IsOdd(i)}

\* The next level: the last hash is doubled where the level is odd.
Doubled(hashes) == IF IsOdd(Len(hashes)) THEN Append(hashes, Last(hashes)) ELSE hashes
HashedInPairs(hashes) == [i \in 1..(Len(hashes) \div 2) |-> <<hashes[2 * i - 1], hashes[2 * i]>>]

\* CVE-2012-2459: equal neighbours at even offsets, before the last is doubled.
DuplicatesSeen(hashes) == \E i \in Pairs(hashes) : hashes[i] = hashes[i + 1]

\* Slip: duplicates are looked for among the leaves only.
LeavesAlone(state, n) ==
    IF Len(state.hashes) <= 1 THEN state
    ELSE [hashes |-> HashedInPairs(Doubled(state.hashes)),
          mutated |-> state.mutated \/ (n = 1 /\ DuplicatesSeen(state.hashes))]

\* BTCDMerkleRootCompute: a level at a time, up to the root.
LevelOf(state, n) ==
    IF Len(state.hashes) <= 1 THEN state
    ELSE [hashes |-> HashedInPairs(Doubled(state.hashes)),
          mutated |-> state.mutated \/ DuplicatesSeen(state.hashes)]

BTCDMerkleRootCompute(leaves) ==
    LET level[n \in 0..Len(leaves)] ==
            IF n = 0 THEN [hashes |-> leaves, mutated |-> FALSE] ELSE LevelOf(level[n - 1], n)
        done == level[Len(leaves)]
    IN  <<"root", done.hashes[1], Says(done.mutated)>>

\* ComputeMerkleRoot of Core and CalcMerkle of gocoin: the node at a height is
\* the pair of its children, or of its only child with itself.
LevelWidths(n) ==
    LET width[h \in 0..n] == IF h = 0 THEN n ELSE (width[h - 1] + 1) \div 2
    IN  width

Height(n) == CHOOSE h \in 0..n : LevelWidths(n)[h] = 1 /\ \A g \in 0..(h - 1) : LevelWidths(n)[g] > 1

NodeOver(below, i) ==
    <<below[2 * i - 1], IF 2 * i <= Len(below) THEN below[2 * i] ELSE below[2 * i - 1]>>

TreeLevels(leaves) ==
    LET level[h \in 0..Height(Len(leaves))] ==
            IF h = 0 THEN leaves
            ELSE [i \in 1..LevelWidths(Len(leaves))[h] |-> NodeOver(level[h - 1], i)]
    IN  level

TreeMutated(leaves) ==
    \E h \in 0..(Height(Len(leaves)) - 1) : \E i \in 1..(LevelWidths(Len(leaves))[h] \div 2) :
        TreeLevels(leaves)[h][2 * i - 1] = TreeLevels(leaves)[h][2 * i]

LibraryMerkleRoot(leaves) ==
    <<"root", TreeLevels(leaves)[Height(Len(leaves))][1], Says(TreeMutated(leaves))>>

\* rust-bitcoin computes no root for such a list, and refuses.
RustMerkleRoot(leaves) ==
    IF TreeMutated(leaves) THEN <<"REJECTED">> ELSE LibraryMerkleRoot(leaves)

\* The leaves have 32 bytes each: no wrapper returns for another size.
merkle_root_compute(m, leaves) ==
    CASE m = "Btcd"        -> BTCDMerkleRootCompute(leaves)
      [] m = "Rustbitcoin" -> RustMerkleRoot(leaves)
      [] OTHER             -> LibraryMerkleRoot(leaves)

\* What the driver makes of an answer: REJECTED is a detection without a root.
DetectedIn(answer) == answer = <<"REJECTED">> \/ answer[3] = <<"true">>

-----------------------------------------------------------------------------
(***************************************************************************)
(* AES-256-CBC.  The input is encrypted, and decrypted as if it were a     *)
(* ciphertext; in.plain is what the cipher makes of it block by block.     *)
(***************************************************************************)

WholeBlocks(in) == Len(in.plain) % BlockSize = 0

\* PKCS#7: the last byte says how many are padding, and they all say so.
PaddingHolds(bytes) ==
    /\ Last(bytes) \in 1..BlockSize
    /\ \A i \in (Len(bytes) - Last(bytes) + 1)..Len(bytes) : bytes[i] = Last(bytes)

Unpadded(bytes) == SubSeq(bytes, 1, Len(bytes) - Last(bytes))

\* CBCEncrypt and CBCDecrypt of Core: the bytes written, none on a failure.
CoreEncrypt(in) == IF in.pad \/ WholeBlocks(in) THEN <<"cipher", in.plain>> ELSE <<>>
CoreDecrypt(in, pad) ==
    IF ~WholeBlocks(in) THEN <<>>
    ELSE IF ~pad THEN in.plain
    ELSE IF PaddingHolds(in.plain) THEN Unpadded(in.plain) ELSE <<>>

Hex(bytes) == <<"hex", bytes>>
Err == <<"ERR">>

\* Slip: a first block of full padding is taken for an empty plaintext whatever
\* follows it.
FullPaddingFirst(in) ==
    in.pad /\ Len(in.plain) >= BlockSize /\ \A i \in 1..BlockSize : in.plain[i] = BlockSize

\* Nothing written may also be an empty plaintext: one block, decrypted again
\* without padding, that is all padding.
FullPadding(in) ==
    /\ in.pad /\ Len(in.plain) = BlockSize
    /\ \A i \in 1..BlockSize : CoreDecrypt(in, FALSE)[i] = BlockSize

BitcoinAes256Cbc(in) ==
    <<IF CoreEncrypt(in) = <<>> THEN Err ELSE Hex(CoreEncrypt(in)),
      IF CoreDecrypt(in, in.pad) # <<>> THEN Hex(CoreDecrypt(in, in.pad))
      ELSE IF FullPadding(in) THEN Hex(<<>>) ELSE Err>>

\* cbc_encrypt and cbc_decrypt test the sizes Core tests; Pkcs7 tells an empty
\* plaintext from an error.
RustAes256Cbc(in) ==
    <<IF ~in.pad /\ ~WholeBlocks(in) THEN Err ELSE Hex(<<"cipher", in.plain>>),
      IF ~WholeBlocks(in) THEN Err
      ELSE IF ~in.pad THEN Hex(in.plain)
      ELSE IF PaddingHolds(in.plain) THEN Hex(Unpadded(in.plain)) ELSE Err>>

aes256_cbc(m, in) == IF m = "Bitcoin" THEN BitcoinAes256Cbc(in) ELSE RustAes256Cbc(in)

-----------------------------------------------------------------------------
(***************************************************************************)
(* Segwit addresses, of which only the lengths and the version matter      *)
(***************************************************************************)

AddressLimit   == 90    \* CharLimit::BECH32
ChecksumSize   == 6
MaxHrp         == 83

\* Slip: an incomplete last group is not counted.
WholeGroups(program_len) == 1 + (program_len * 8) \div 5

\* The groups of the data part, as the driver counts them: the version, and
\* five bits each of the program.
Bech32DataLength(program_len) == 1 + (program_len * 8 + 4) \div 5

\* ConvertBits<8, 5, true>: the length of what it writes, a last group for the
\* bits that are left.
GroupsWritten(program_len) ==
    (program_len * 8) \div 5 + (IF (program_len * 8) % 5 = 0 THEN 0 ELSE 1)

AddressLength(in) == in.hrp_len + 1 + 1 + GroupsWritten(in.program_len) + ChecksumSize

\* BIP-141: what a program may be long.
ProgramFits(in) ==
    IF in.witver = 0 THEN in.program_len \in {20, 32} ELSE in.program_len \in 2..40

EncFail    == <<"ENC:FAIL">>
DecFail    == <<"ENC", "DEC:FAIL">>
Roundtrip(in) == <<"ENC", in.witver, in.program_len>>

\* The bare codecs of Core and btcd know no limit: the module applies it.
BitcoinBech32Roundtrip(in) ==
    IF AddressLength(in) > AddressLimit THEN EncFail ELSE Roundtrip(in)

BTCDBech32SegwitRoundtrip(in) ==
    IF AddressLength(in) > AddressLimit THEN EncFail ELSE Roundtrip(in)

\* segwit::encode and Hrp::parse have their own rules.
RustBech32Roundtrip(in) ==
    IF in.hrp_len > MaxHrp \/ ~ProgramFits(in) \/ AddressLength(in) > AddressLimit
    THEN EncFail ELSE Roundtrip(in)

\* libwally takes a scriptPubKey; over the limit it may also write an address
\* that it does not read.
WallyBech32Roundtrip(in) ==
    IF ~ProgramFits(in) THEN {EncFail}
    ELSE IF AddressLength(in) > AddressLimit THEN {EncFail, DecFail} ELSE {Roundtrip(in)}

bech32_segwit_roundtrip(m, in) ==
    CASE m = "Bitcoin"     -> {BitcoinBech32Roundtrip(in)}
      [] m = "Btcd"        -> {BTCDBech32SegwitRoundtrip(in)}
      [] m = "Rustbitcoin" -> {RustBech32Roundtrip(in)}
      [] OTHER             -> WallyBech32Roundtrip(in)

\* Addresses over the limit are put to every module and not compared.
ComparesAddress(in) ==
    in.hrp_len + 1 + Bech32DataLength(in.program_len) + ChecksumSize <= AddressLimit

\* The lengths the driver draws: an HRP that fits, with two characters past it,
\* or any.
HrpLengths(program_len) ==
    LET fitting == AddressLimit - 1 - Bech32DataLength(program_len) - ChecksumSize
    IN  {n \in 1..MaxHrp : n <= fitting + 2} \union {MaxHrp}

AddressInputs(versions) ==
    {in \in [target : {"bech32_segwit_roundtrip"}, witver : versions,
             program_len : 2..40, hrp_len : 1..MaxHrp] :
        /\ in.witver = 0 => in.program_len \in {20, 32}
        /\ in.hrp_len \in HrpLengths(in.program_len)}

-----------------------------------------------------------------------------
(***************************************************************************)
(* Regrouping bits                                                         *)
(***************************************************************************)

\* The bits of a group, highest first.
BitsOf(group, n) == [i \in 1..n |-> (group \div 2 ^ (n - i)) % 2]
NumberOf(bits) == FoldLeft(LAMBDA acc, b : 2 * acc + b, 0, bits)
AllBits(groups, n) == FlattenSeq([i \in 1..Len(groups) |-> BitsOf(groups[i], n)])

WholeOut(bits, n) == [i \in 1..(Len(bits) \div n) |-> NumberOf(SubSeq(bits, (i - 1) * n + 1, i * n))]
RestOf(bits, n)   == SubSeq(bits, (Len(bits) \div n) * n + 1, Len(bits))

WithRest(bits, n) ==
    LET rest == RestOf(bits, n)
    IN  IF rest = <<>> THEN WholeOut(bits, n)
        ELSE Append(WholeOut(bits, n), NumberOf(rest) * 2 ^ (n - Len(rest)))

\* ConvertBits of Core: what is left over must be padding, shorter than a group.
ConvertBits(in) ==
    LET bits == AllBits(in.groups, in.from_bits)
        rest == RestOf(bits, in.to_bits)
    IN  IF in.pad THEN <<"OK", WithRest(bits, in.to_bits)>>
        ELSE IF Len(rest) >= in.from_bits \/ NumberOf(rest) # 0 THEN Err
        ELSE <<"OK", WholeOut(bits, in.to_bits)>>

\* bech32.ConvertBits of btcd: at most four bits left over.
BtcdConvertBits(in) ==
    LET bits == AllBits(in.groups, in.from_bits)
        rest == RestOf(bits, in.to_bits)
    IN  IF in.pad THEN <<"OK", WithRest(bits, in.to_bits)>>
        ELSE IF Len(rest) > 4 \/ NumberOf(rest) # 0 THEN Err
        ELSE <<"OK", WholeOut(bits, in.to_bits)>>

bech32_convert_bits(m, in) == IF m = "Btcd" THEN BtcdConvertBits(in) ELSE ConvertBits(in)

-----------------------------------------------------------------------------
(***************************************************************************)
(* BIP-32 seeds and extended keys                                          *)
(***************************************************************************)

SeedFits(bytes) == bytes \in 16..64

\* CExtKey::SetSeed asserts the length: outside of it Core is not asked, and the
\* others that could not agree keep silent too.  libwally takes three lengths,
\* and libbitcoin has no other lower bound.
bip32_master_keygen(m, in) ==
    CASE m = "LibwallyCore"     -> IF in.bytes \in {16, 32, 64} THEN <<"xprv">> ELSE Nullopt
      [] m = "LibbitcoinSystem" -> IF in.bytes >= 16 THEN <<"xprv">> ELSE InvalidKey
      [] OTHER                  -> IF SeedFits(in.bytes) THEN <<"xprv">> ELSE Nullopt

\* Core on an extended key: the first letter names the network, a private key is
\* tried before a public one, and DecodeExtKey refuses a root with a parent.
BitcoinExtendedKey(k) ==
    IF k.letter \notin {"x", "t"} \/ k.kind = "none" THEN InvalidKey
    ELSE IF k.depth = 0 /\ k.has_parent THEN InvalidKey
    ELSE IF ~k.key_valid THEN InvalidKey
    ELSE <<"depth, fp, child, chaincode, key", k.kind>>

\* hd_private and hd_public of libbitcoin let a root have a parent: the module
\* checks the lineage, and the key, by itself.
LineageHolds(k) == ~(k.depth = 0 /\ k.has_parent)

LibbitcoinExtendedKey(k) ==
    IF k.letter = "" \/ k.letter \notin {"x", "t"} \/ k.kind = "none" THEN InvalidKey
    ELSE IF ~LineageHolds(k) \/ ~k.key_valid THEN InvalidKey
    ELSE <<"depth, fp, child, chaincode, key", k.kind>>

bip32_deserialize_extended_key(m, k) ==
    IF m = "LibbitcoinSystem" THEN LibbitcoinExtendedKey(k) ELSE BitcoinExtendedKey(k)

-----------------------------------------------------------------------------
(***************************************************************************)
(* One input of the driver                                                 *)
(***************************************************************************)

Said(m, in) ==
    CASE in.target = "transaction_eval"    -> transaction_eval(m, in)
      [] in.target = "kernel_block_check"  -> kernel_block_check(m, in.buffer)
      [] in.target \in {"kernel_block", "kernel_transaction"} ->
             kernel_parse(in.target, in.buffer)
      [] in.target = "deserialize_block"   -> deserialize_block(m, in)
      [] in.target = "script_parse"        -> script_parse(m, in)
      [] in.target = "script_eval"         -> script_eval(m, in)
      [] in.target = "verify_script"       -> verify_script(m, in)
      [] in.target = "merkle_root_compute" -> merkle_root_compute(m, in.leaves)
      [] in.target = "cmpctblocks_parse"   -> cmpctblocks_parse(m, in)
      [] in.target = "aes256_cbc"          -> aes256_cbc(m, in)
      [] in.target = "bech32_convert_bits" -> bech32_convert_bits(m, in)
      [] in.target = "bip32_master_keygen" -> bip32_master_keygen(m, in)
      [] OTHER                             -> bip32_deserialize_extended_key(m, in)

AnswersOf(m, in) ==
    IF in.target = "bech32_segwit_roundtrip" THEN bech32_segwit_roundtrip(m, in)
    ELSE {Said(m, in)}

\* A leaf has 32 bytes, whatever they are; it is no pair of hashes.
Leaves == [1..1 -> STRING]

\* What the driver draws where sizes and numbers matter: words on the wire,
\* leaves, a ciphertext, groups of bits, a seed, and a program of a length that
\* BIP-141 allows.
ConsensusDraws(in) ==
    /\ in.target # "none"
    /\ in.target = "transaction_eval" => in.values \in Seq(0..(WordSize - 1))
    /\ in.target = "merkle_root_compute" => in.leaves \in Seq(Leaves) \ {<<>>}
    /\ in.target = "aes256_cbc" => in.plain \in Seq(Nat) \ {<<>>}
    /\ in.target = "bech32_convert_bits" =>
           in.groups \in Seq(Nat) /\ <<in.from_bits, in.to_bits>> \in {<<5, 8>>, <<8, 5>>}
    /\ in.target = "bip32_master_keygen" => in.bytes \in Nat
    /\ in.target = "bech32_segwit_roundtrip" =>
           in.program_len \in 2..40 /\ ProgramFits(in) /\ in.hrp_len \in 1..MaxHrp

ASSUME ConsensusDrawnAssumption == \A in \in ConsensusInputs : ConsensusDraws(in)

ConsensusInit == cinput = NoConsensusInput /\ casking = <<>> /\ canswers = <<>>

DrawConsensus ==
    /\ cinput = NoConsensusInput
    /\ cinput' \in ConsensusInputs
    /\ casking' = ConsensusModules(cinput'.target)
    /\ UNCHANGED canswers

AskModule ==
    /\ casking # <<>>
    /\ \E answer \in AnswersOf(Head(casking), cinput) : canswers' = Append(canswers, answer)
    /\ casking' = Tail(casking)
    /\ UNCHANGED cinput

ReturnToFuzzer ==
    /\ cinput # NoConsensusInput /\ casking = <<>>
    /\ cinput' = NoConsensusInput /\ canswers' = <<>>
    /\ UNCHANGED casking

ConsensusNext == DrawConsensus \/ AskModule \/ ReturnToFuzzer

ConsensusSpec == ConsensusInit /\ [][ConsensusNext]_consensusVars

-----------------------------------------------------------------------------
(***************************************************************************)
(* Properties                                                              *)
(***************************************************************************)

\* How the driver compares two answers of one target: refusals of a compact
\* block are one, a merkle root is compared apart from the detection, and an
\* address only within the limit.
SameAnswer(a, b) ==
    CASE cinput.target = "cmpctblocks_parse" ->
             a = b \/ {a, b} \subseteq {<<"ERR:parse">>, <<"ERR:trailing_bytes">>}
      [] cinput.target = "merkle_root_compute" ->
             /\ DetectedIn(a) = DetectedIn(b)
             /\ <<"REJECTED">> \notin {a, b} => a[2] = b[2]
      [] cinput.target = "bech32_segwit_roundtrip" -> ComparesAddress(cinput) => a = b
      [] OTHER -> a = b

\* Where Core's rule and a library's differ, the modules make it up: words read
\* signed and unsigned, rules that a library keeps for blocks, selectors past
\* the end of the buffer, an empty plaintext, the first opcode, the truth left
\* on the stack, a root with a parent: no two modules that answer are told apart.
ConsensusAnswersAgree ==
    \A i, j \in 1..Len(canswers) :
        Nullopt \in {canswers[i], canswers[j]} \/ SameAnswer(canswers[i], canswers[j])

\* The outputs counted without a limit and without a sign.
SpentInAll(values) ==
    LET sum[n \in 0..Len(values)] == IF n = 0 THEN 0 ELSE sum[n - 1] + values[n]
    IN  sum[Len(values)]

\* No module accepts a transaction that spends an outpoint twice or pays more
\* than there can be, counted without wrapping around.
AcceptsNoInflation ==
    \A i \in 1..Len(canswers) :
        cinput.target = "transaction_eval" /\ canswers[i] # Refused
        => /\ Cardinality({cinput.points[n] : n \in 1..Len(cinput.points)}) = Len(cinput.points)
           /\ SpentInAll(cinput.values) <= max_money

\* The lists drawn that no detection flags, with the root of each.
ListsDrawn == {in.leaves : in \in {i \in ConsensusInputs : i.target = "merkle_root_compute"}}
UnflaggedRoots == [leaves \in {l \in ListsDrawn : ~TreeMutated(l)} |-> LibraryMerkleRoot(leaves)[2]]

\* Two lists of leaves with one root are never both free of a detected mutation
\* (CVE-2012-2459): within the lists drawn, an unflagged root names its list.
RootNamesOneList ==
    \A i \in 1..Len(canswers) :
        cinput.target = "merkle_root_compute" /\ ~DetectedIn(canswers[i])
        => \A leaves \in DOMAIN UnflaggedRoots :
               UnflaggedRoots[leaves] = canswers[i][2] => leaves = cinput.leaves

\* The driver's formula for the length agrees with what the encoders write: an
\* address that is compared is encoded by every module, and read back whole.
ComparedAddressIsRead ==
    \A i \in 1..Len(canswers) :
        cinput.target = "bech32_segwit_roundtrip" /\ ComparesAddress(cinput)
        => canswers[i] = Roundtrip(cinput)
=============================================================================
