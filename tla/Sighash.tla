------------------------------- MODULE Sighash -------------------------------
(***************************************************************************)
(* The sighash_compute target (src/driver.cpp, SighashComputeTarget) and   *)
(* the four modules that answer it.  A signature hash commits to a part of *)
(* the script: what follows the n-th OP_CODESEPARATOR and, for a legacy    *)
(* hash, without the signature being checked and without the separators.   *)
(* Bitcoin Core does that in its interpreter; the wrappers around btcd,    *)
(* gocoin and rust-bitcoin each carry a port of it.  The hash itself is    *)
(* abstracted to the code it commits to: two modules agree when they hash  *)
(* the same code.                                                          *)
(*                                                                         *)
(* Scripts and signatures are sequences of bytes, with offsets from 0 as   *)
(* in the code.  The transaction matters to gocoin alone, whose wrapper    *)
(* walks it before its library does; its integers are CompactSize numbers  *)
(* over the digits of the module of that name, and its fixed fields have   *)
(* the sizes of the constants.                                             *)
(***************************************************************************)
EXTENDS CompactSize, SequencesExt, FiniteSets

CONSTANTS SighashInputs,          \* what the driver may draw from the fuzzer's bytes
          VersionBytes,    \* the fixed fields of a transaction: 4
          OutpointBytes,   \* 36
          SequenceBytes,   \* 4
          ValueBytes,      \* 8
          LocktimeBytes    \* 4

\* What can be drawn: the script and the signature have at most as many bytes as
\* the driver asks for, and the length of the rest is a Go int.
SighashDraws(i) ==
    /\ i \in [tx_bytes : Bytes, script : Seq(0..255), sig_to_delete : Seq(0..255),
              n_codesep : Nat, embed_sig : BOOLEAN, embed_pos : Nat,
              is_segwit_v0 : BOOLEAN, standard : BOOLEAN, in_money_range : BOOLEAN]
    /\ Len(i.script) <= 4096 /\ Len(i.sig_to_delete) <= 100
    /\ 2 * Len(i.tx_bytes) < EightDigits

ASSUME SighashAssumption ==
    /\ {VersionBytes, OutpointBytes, SequenceBytes, ValueBytes, LocktimeBytes} \subseteq Nat
    /\ \A i \in SighashInputs : SighashDraws(i)

VARIABLES drawn,   \* what the driver drew
          sighash_input,   \* what it hands to every module
          sighash_asking,  \* the modules it has yet to ask, in the map's order
          hashed   \* per module, the code its answer commits to: {} for nullopt

sighashVars == <<drawn, sighash_input, sighash_asking, hashed>>

ModuleOrder == <<"Bitcoin", "Btcd", "Gocoin", "Rustbitcoin">>

SighashModules == ToSet(ModuleOrder)

OP_PUSHDATA1 == 76
OP_PUSHDATA2 == 77
OP_PUSHDATA4 == 78
OP_CODESEPARATOR == 171

From(s, offset) == SubSeq(s, offset + 1, Len(s))
Between(s, first, last) == SubSeq(s, first + 1, last)

(***************************************************************************)
(* Reading one opcode                                                      *)
(***************************************************************************)

\* No opcode can be read there.
NoOp == -1

\* Longer than any script: what a length with one of its upper bytes set means.
TooLong == 65536

LittleEndian(s, offset, width) ==
    IF \E k \in 3..width : s[offset + k] # 0 THEN TooLong
    ELSE s[offset + 1] + (IF width = 1 THEN 0 ELSE 256 * s[offset + 2])

\* The offset past the push at pc whose length takes width bytes of its own
\* (none when the opcode is the length).
PastPush(s, pc, width) ==
    LET body == pc + 1 + width
        size == IF width = 0 THEN s[pc + 1] ELSE LittleEndian(s, pc + 1, width)
    IN  IF body > Len(s) THEN NoOp
        ELSE IF body + size > Len(s) THEN NoOp
        ELSE body + size

\* How many bytes of length follow a push opcode.
LengthBytes(op) == CASE op < OP_PUSHDATA1 -> 0
                     [] op = OP_PUSHDATA1 -> 1
                     [] op = OP_PUSHDATA2 -> 2
                     [] op = OP_PUSHDATA4 -> 4

\* rust-bitcoin's wrapper; Core's GetOp, gocoin's GetOpcode and btcd's
\* tokenizer, which the other wrappers call, read opcodes the same way.
get_op(s, pc) ==
    IF pc >= Len(s) THEN NoOp
    ELSE IF s[pc + 1] > OP_PUSHDATA4 THEN pc + 1
    ELSE PastPush(s, pc, LengthBytes(s[pc + 1]))

\* btcd's wrapper, in its deletion.
nextOpOffset(s, pc) ==
    CASE pc >= Len(s)                                   -> NoOp
      [] pc < Len(s) /\ s[pc + 1] > OP_PUSHDATA4        -> pc + 1
      [] pc < Len(s) /\ s[pc + 1] <= OP_PUSHDATA4       ->
             PastPush(s, pc, LengthBytes(s[pc + 1]))

\* What a loop over opcodes makes of a script from pc on, where it reads one that
\* ends at end: the opcodes with the bytes they push, the offsets past the
\* separators, and the bytes it cannot read.
ReadOp(s, pc, end, later) ==
    [ops  |-> <<Between(s, pc, end)>> \o later.ops,
     ends |-> (IF s[pc + 1] = OP_CODESEPARATOR THEN <<end>> ELSE <<>>) \o later.ends,
     rest |-> later.rest]

\* The whole loop, when next says where the opcode at each offset ends.
Reading(s, next) ==
    LET from[pc \in 0..Len(s)] ==
            IF next[pc] = NoOp THEN [ops |-> <<>>, ends |-> <<>>, rest |-> From(s, pc)]
            ELSE ReadOp(s, pc, next[pc], from[next[pc]])
    IN  from[0]

Reader(s) == [pc \in 0..Len(s) |-> get_op(s, pc)]

\* The opcodes of a script, and what follows them.
Ops(s) == Reading(s, Reader(s)).ops
Unread(s) == Reading(s, Reader(s)).rest

\* The offsets past the separators among the opcodes that can be read.
SeparatorEnds(s) == Reading(s, Reader(s)).ends

\* The bytes of a list of opcodes but for some of them.
Remaining(ops, gone) ==
    FlattenSeq([k \in DOMAIN ops |-> IF ops[k] \in gone THEN <<>> ELSE ops[k]])

(***************************************************************************)
(* The script code, module by module                                       *)
(***************************************************************************)

\* What follows the n-th separator, or the last one when there are fewer.
truncate_after_codesep(s, n) ==
    LET ends == SeparatorEnds(s)
    IN  IF n = 0 \/ ends = <<>> THEN s
        ELSE From(s, ends[IF Len(ends) < n THEN Len(ends) ELSE n])

\* The other three wrappers: the same loop over their library's reader, with
\* the separators seen until the n-th.
Seen(s, n) ==
    LET ends == SeparatorEnds(s)
    IN  SubSeq(ends, 1, IF Len(ends) < n THEN Len(ends) ELSE n)

BitcoinTruncated(s, n) == IF Seen(s, n) = <<>> THEN s ELSE From(s, Last(Seen(s, n)))

truncateAfterCodesep(s, n) ==
    IF n = 0 \/ Seen(s, n) = <<>> THEN s ELSE From(s, Last(Seen(s, n)))

gocoinTruncateAfterCodesep(s, n) ==
    From(s, IF Seen(s, n) = <<>> THEN 0 ELSE Last(Seen(s, n)))

\* Two bytes of a length, the lower one first.
Low(n) == n % 256
High(n) == n \div 256

\* The shortest push of data, in three ports: signatures have at most 100 bytes here, and the
\* form with four bytes of length is left out.
push_encode(data) ==
    LET n == Len(data)
    IN  CASE n < OP_PUSHDATA1              -> <<n>> \o data
          [] n >= OP_PUSHDATA1 /\ n < 256  -> <<OP_PUSHDATA1, n>> \o data
          [] n >= 256                      -> <<OP_PUSHDATA2, Low(n), High(n)>> \o data

pushEncode(data) ==
    LET n == Len(data)
    IN  (IF n < OP_PUSHDATA1 THEN <<n>>
         ELSE IF n <= 255 THEN <<OP_PUSHDATA1, n>>
         ELSE <<OP_PUSHDATA2, Low(n), High(n)>>) \o data

gocoinPushEncode(data) ==
    LET n == Len(data)
    IN  (IF n < OP_PUSHDATA1 THEN <<n>>
         ELSE IF n <= 255 THEN <<OP_PUSHDATA1, n>>
         ELSE <<OP_PUSHDATA2, Low(n), High(n)>>) \o data

IsAt(s, pc, push) ==
    pc + Len(push) <= Len(s) /\ Between(s, pc, pc + Len(push)) = push

\* The loop of every FindAndDelete: as many pushes as lie at pc go, then one
\* opcode stays; where no opcode can be read the rest stays.
Without(s, push, next) ==
    LET from[pc \in 0..Len(s)] ==
            IF IsAt(s, pc, push) THEN from[pc + Len(push)]
            ELSE IF next[pc] = NoOp THEN From(s, pc)
            ELSE Between(s, pc, next[pc]) \o from[next[pc]]
    IN  from[0]

find_and_delete(s, sig) ==
    IF sig = <<>> \/ s = <<>> THEN s
    ELSE Without(s, push_encode(sig), Reader(s))

findAndDelete(s, sig) ==
    IF sig = <<>> \/ s = <<>> THEN s
    ELSE Without(s, pushEncode(sig),
                 [pc \in 0..Len(s) |-> nextOpOffset(s, pc)])

gocoinFindAndDelete(s, sig) ==
    IF sig = <<>> \/ s = <<>> THEN s
    ELSE Without(s, gocoinPushEncode(sig), Reader(s))

\* Core's own FindAndDelete, of CScript() << sig.
FindAndDelete(s, sig) ==
    Without(s, push_encode(sig), Reader(s))

WithoutSeparators(ops) == Remaining(ops, {<<OP_CODESEPARATOR>>})

\* Slip: every byte of the separator's value goes, pushed data included.
StripEveryByte(s) == LET Other(b) == b # OP_CODESEPARATOR IN SelectSeq(s, Other)

\* rust-bitcoin's wrapper keeps what cannot be read.
strip_codeseps(s) == WithoutSeparators(Ops(s)) \o Unread(s)

\* The libraries' own serializers.  Of a push that runs beyond the script
\* Core's emits the opcode and its length bytes, gocoin's nothing; btcd's
\* refuses the script.
CoreSerialized(s) ==
    LET rest == Unread(s)
        header == IF rest = <<>> THEN 0 ELSE 1 + LengthBytes(rest[1])
    IN  WithoutSeparators(Ops(s)) \o
            SubSeq(rest, 1, IF header > Len(rest) THEN 1 ELSE header)

GocoinSerialized(s) == WithoutSeparators(Ops(s))

BtcdSerialized(s) == IF Unread(s) # <<>> THEN {} ELSE {WithoutSeparators(Ops(s))}

(***************************************************************************)
(* Gocoin's walk over the transaction                                      *)
(***************************************************************************)

\* Where the walk stands, the last number it has read and all that it has read;
\* off is Short when the bytes do not reach.
Short == -1

AtTheStart == [off |-> 0, value |-> 0, declared |-> {}]

\* A Go int is signed: the upper half of the widest numbers reads negative.
Signed(value) == IF 2 * value >= EightDigits THEN value - EightDigits ELSE value

NothingRead == [value |-> 0, bytes |-> 0]

\* Slip: the widest form is not held against the buffer.
ReadVlenUnguarded(b, off) ==
    IF off >= Len(b) THEN NothingRead
    ELSE IF b[off + 1] < Escape THEN [value |-> b[off + 1], bytes |-> 1]
    ELSE LET width == Width(b[off + 1])
         IN  IF off + 1 + width > Len(b) THEN NothingRead
             ELSE [value |-> Signed(Number(b, off + 1, width)), bytes |-> 1 + width]

\* readVlen: bytes is 0 when the number cannot be read.
readVlen(b, off) ==
    IF off >= Len(b) THEN NothingRead
    ELSE IF b[off + 1] < Escape THEN [value |-> b[off + 1], bytes |-> 1]
    ELSE LET width == Width(b[off + 1])
             value == Number(b, off + 1, width)
         IN  IF off + 1 + width > Len(b) THEN NothingRead
             ELSE IF width = 8 /\ value > Len(b) THEN NothingRead
             ELSE [value |-> Signed(value), bytes |-> 1 + width]

\* VLen, gocoin's own reader: no bound.
VLen(b, off) ==
    IF off >= Len(b) THEN NothingRead
    ELSE IF b[off + 1] < Escape THEN [value |-> b[off + 1], bytes |-> 1]
    ELSE LET width == Width(b[off + 1])
         IN  IF off + 1 + width > Len(b) THEN NothingRead
             ELSE [value |-> Number(b, off + 1, width), bytes |-> 1 + width]

\* The next number.
ReadNumber(b, at, guarded) ==
    LET number == IF guarded THEN readVlen(b, at.off) ELSE VLen(b, at.off)
    IN  IF at.off = Short \/ number.bytes = 0 THEN [at EXCEPT !.off = Short]
        ELSE [off      |-> at.off + number.bytes,
              value    |-> number.value,
              declared |-> at.declared \cup {number.value}]

\* The next bytes, so many.
Skip(b, at, size) ==
    [at EXCEPT !.off = IF @ = Short \/ @ + size \notin 0..Len(b) THEN Short ELSE @ + size]

\* Every one of the things counted takes a byte at least: with more of them
\* than bytes the walk runs short as it does with one more than bytes.
Clip(b, count) ==
    CASE count < 0                        -> 0
      [] count >= 0 /\ count <= Len(b)    -> count
      [] count > Len(b)                   -> Len(b) + 1

\* A field: before bytes, a length, that many bytes and after more.
Field(b, at, before, after, guarded) ==
    LET length == ReadNumber(b, Skip(b, at, before), guarded)
    IN  Skip(b, length, length.value + after)

\* As many fields as the number just read.
Fields(b, at, before, after, guarded) ==
    LET walked[k \in 0..Clip(b, at.value)] ==
            IF k = 0 THEN at ELSE Field(b, walked[k - 1], before, after, guarded)
    IN  walked[Clip(b, at.value)]

\* A number of fields, for each input.
Stack(b, at, guarded) == Fields(b, ReadNumber(b, at, guarded), 0, 0, guarded)

Witnesses(b, at, count, guarded) ==
    LET walked[k \in 0..Clip(b, count)] ==
            IF k = 0 THEN at ELSE Stack(b, walked[k - 1], guarded)
    IN  walked[Clip(b, count)]

IsSegwit(b) == /\ Len(b) >= VersionBytes + 2
               /\ b[VersionBytes + 1] = 0 /\ b[VersionBytes + 2] = 1

Walk(b, guarded) ==
    LET front  == VersionBytes + (IF IsSegwit(b) THEN 2 ELSE 0)
        nIn    == ReadNumber(b, Skip(b, AtTheStart, front), guarded)
        ins    == Fields(b, nIn, OutpointBytes, SequenceBytes, guarded)
        nOut   == ReadNumber(b, ins, guarded)
        outs   == Fields(b, nOut, ValueBytes, 0, guarded)
        stacks == Witnesses(b, outs, IF IsSegwit(b) /\ outs.off # Short THEN nIn.value ELSE 0, guarded)
    IN  Skip(b, stacks, LocktimeBytes)

preflightTx(b) == Walk(b, TRUE).off # Short

\* The counts and lengths gocoin's NewTx reads, and allocates for.
NewTxAllocates(b) == Walk(b, FALSE).declared

(***************************************************************************)
(* The modules' answers, once their library has a transaction with inputs  *)
(***************************************************************************)
BitcoinSighashCompute(i) ==
    LET code == BitcoinTruncated(i.script, i.n_codesep)
    IN  IF i.is_segwit_v0 THEN {code}
        ELSE {CoreSerialized(IF i.sig_to_delete = <<>> THEN code
                             ELSE FindAndDelete(code, i.sig_to_delete))}

BTCDSighashCompute(i) ==
    LET code == truncateAfterCodesep(i.script, i.n_codesep)
    IN  IF i.is_segwit_v0 THEN {code}
        ELSE BtcdSerialized(findAndDelete(code, i.sig_to_delete))

GocoinSighashCompute(i) ==
    LET code == gocoinTruncateAfterCodesep(i.script, i.n_codesep)
    IN  IF ~preflightTx(i.tx_bytes) THEN {}
        ELSE IF i.is_segwit_v0 THEN {code}
        ELSE {GocoinSerialized(gocoinFindAndDelete(code, i.sig_to_delete))}

\* Under segwit the library takes a typed hash type and a bounded amount.
rust_bitcoin_sighash_compute(i) ==
    LET code == truncate_after_codesep(i.script, i.n_codesep)
    IN  IF ~i.is_segwit_v0
        THEN {strip_codeseps(find_and_delete(code, i.sig_to_delete))}
        ELSE IF i.standard /\ i.in_money_range THEN {code} ELSE {}

sighash_compute(m, i) ==
    CASE m = "Bitcoin"     -> BitcoinSighashCompute(i)
      [] m = "Btcd"        -> BTCDSighashCompute(i)
      [] m = "Gocoin"      -> GocoinSighashCompute(i)
      [] m = "Rustbitcoin" -> rust_bitcoin_sighash_compute(i)

(***************************************************************************)
(* The driver                                                              *)
(***************************************************************************)

\* The gate on legacy scripts: every push lies within the script.
ScriptParsesCleanly(s) ==
    LET next == [pc \in 0..Len(s) |->
                    IF pc >= Len(s) THEN NoOp
                    ELSE IF s[pc + 1] > OP_PUSHDATA4 THEN pc + 1
                    ELSE PastPush(s, pc, LengthBytes(s[pc + 1]))]
    IN  Reading(s, next).rest = <<>>

\* Slip: the splice keeps the short form for 76 bytes.
EmbeddedInclusive(i) ==
    LET size == Len(i.sig_to_delete)
        push == (IF size <= OP_PUSHDATA1 THEN <<size>> ELSE <<OP_PUSHDATA1, size>>)
                    \o i.sig_to_delete
        pos  == IF i.embed_pos < Len(i.script) THEN i.embed_pos ELSE Len(i.script)
    IN  IF i.embed_sig /\ size > 0
        THEN Between(i.script, 0, pos) \o push \o From(i.script, pos)
        ELSE i.script

\* The script with a push of the signature spliced in where the fuzzer says.
Embedded(i) ==
    LET size == Len(i.sig_to_delete)
        push == (IF size < OP_PUSHDATA1 THEN <<size>> ELSE <<OP_PUSHDATA1, size>>)
                    \o i.sig_to_delete
        pos  == IF i.embed_pos < Len(i.script) THEN i.embed_pos ELSE Len(i.script)
    IN  IF i.embed_sig /\ size > 0
        THEN Between(i.script, 0, pos) \o push \o From(i.script, pos)
        ELSE i.script

NobodyAnswered == [m \in SighashModules |-> {}]

\* Between two calls there is no input.
NoSighashInput == [tx_bytes |-> <<>>, script |-> <<>>, sig_to_delete |-> <<>>,
            n_codesep |-> 0, embed_sig |-> FALSE, embed_pos |-> 0,
            is_segwit_v0 |-> FALSE, standard |-> FALSE, in_money_range |-> FALSE]

SighashInit == /\ drawn = NoSighashInput /\ sighash_input = NoSighashInput
               /\ sighash_asking = <<>>
               /\ hashed = NobodyAnswered

\* An input is drawn; a legacy one whose script does not parse is dropped.
DrawSighash ==
    /\ sighash_asking = <<>> /\ drawn = NoSighashInput
    /\ drawn' \in SighashInputs
    /\ sighash_input' = [drawn' EXCEPT !.script = Embedded(drawn')]
    /\ sighash_asking' = IF sighash_input'.is_segwit_v0 \/ ScriptParsesCleanly(sighash_input'.script)
                 THEN ModuleOrder ELSE <<>>
    /\ hashed' = NobodyAnswered

\* The next module is asked; its library makes what it makes of the bytes of
\* the transaction.
AskSighash ==
    /\ sighash_asking # <<>>
    /\ \E transaction \in {"undecodable", "without inputs", "decoded"} :
           hashed' = [hashed EXCEPT ![Head(sighash_asking)] =
               IF transaction = "decoded" THEN sighash_compute(Head(sighash_asking), sighash_input)
               ELSE {}]
    /\ sighash_asking' = Tail(sighash_asking)
    /\ UNCHANGED <<drawn, sighash_input>>

\* The call ends and its locals with it.
ReturnSighash ==
    /\ sighash_asking = <<>> /\ drawn # NoSighashInput
    /\ drawn' = NoSighashInput /\ sighash_input' = NoSighashInput
    /\ hashed' = NobodyAnswered
    /\ UNCHANGED sighash_asking

SighashNext == DrawSighash \/ AskSighash \/ ReturnSighash

SighashSpec == SighashInit /\ [][SighashNext]_sighashVars

(***************************************************************************)
(* Properties                                                              *)
(***************************************************************************)

\* The opcodes a legacy hash does not commit to: the separators, and the pushes
\* of the signature being checked when there is one.
Uncommitted(sig) ==
    {<<OP_CODESEPARATOR>>} \cup (IF sig = <<>> THEN {} ELSE {push_encode(sig)})

\* All modules that answer hash the same code, whatever the script, its
\* separators, its pushes and the place of the splice: the four ports of
\* truncation, deletion and stripping agree (module.cpp of bitcoin, the wrappers
\* of btcd, gocoin and rust-bitcoin).  What they hash, said once without any of
\* them: a legacy hash commits to the opcodes after the chosen separator that
\* neither are separators nor push the signature; a segwit one to the rest of
\* the script verbatim, from right behind a separator when one is asked for and
\* there is one.
RemainderIsHashed ==
    LET ops     == Ops(sighash_input.script)
        seps    == {i \in 1..Len(ops) : ops[i] = <<OP_CODESEPARATOR>>}
        Upto(i) == Cardinality({j \in 1..i : j \in seps})
        chosen  == {i \in seps : Upto(i) <= sighash_input.n_codesep}
        from    == IF chosen = {} THEN 1
                   ELSE 1 + (CHOOSE i \in chosen : \A j \in chosen : j <= i)
        rest    == SubSeq(ops, from, Len(ops))
    IN  \A m \in SighashModules : \A code \in hashed[m] :
            code = IF sighash_input.is_segwit_v0
                   THEN Remaining(rest, {}) \o Unread(sighash_input.script)
                   ELSE Remaining(rest, Uncommitted(sighash_input.sig_to_delete))

\* A push of the signature that the driver splices between two opcodes of a
\* legacy script leaves no trace: no answer depends on it (the splice builds the
\* push that every deletion looks for).
SpliceLeavesNoTrace ==
    LET ops      == Ops(drawn.script)
        boundary == {Len(Remaining(SubSeq(ops, 1, k), {})) : k \in 0..Len(ops)}
    IN  /\ ~sighash_input.is_segwit_v0 /\ sighash_input.n_codesep = 0
        /\ drawn.embed_sig /\ drawn.sig_to_delete # <<>>
        /\ drawn.embed_pos \in boundary
        => \A m \in SighashModules : \A code \in hashed[m] :
               code = Remaining(ops, Uncommitted(drawn.sig_to_delete))

\* No script that passes the gate makes btcd bow out: deletion and truncation
\* keep it parseable, so a legacy script is left uncompared by btcd only for
\* its transaction (comment at BTCDSighashCompute).
GateSuffices ==
    sighash_asking # <<>> /\ ~sighash_input.is_segwit_v0 => BTCDSighashCompute(sighash_input) # {}

\* The driver's two steps before the modules are asked do what they are for:
\* the splice leaves no trace and the gate keeps every script readable.
GateAndSplice == SpliceLeavesNoTrace /\ GateSuffices

\* A transaction the preflight walk accepts makes gocoin's NewTx allocate for
\* no count and no length beyond the bytes at hand (comment at preflightTx).
PreflightBoundsNewTx ==
    preflightTx(sighash_input.tx_bytes) =>
        \A n \in NewTxAllocates(sighash_input.tx_bytes) : n <= Len(sighash_input.tx_bytes)
=============================================================================
