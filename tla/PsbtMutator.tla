---------------------------- MODULE PsbtMutator ----------------------------
(***************************************************************************)
(* The custom mutator of the PSBT targets (custommutator/mutators/psbt.h): *)
(* the buffer libFuzzer hands over is parsed into maps of records, one to  *)
(* three mutations change the maps, and the maps are written back.  A      *)
(* buffer without a single complete map is replaced by a template.  What   *)
(* the mutator returned may come back to it, alone or after libFuzzer took *)
(* another input from its corpus.                                          *)
(*                                                                         *)
(* LLVMFuzzerMutate is libFuzzer's: it may write any bytes into the space  *)
(* it is given, at least one of them.                                      *)
(***************************************************************************)
EXTENDS CompactSize, SequencesExt

CONSTANTS
    Magic,          \* PSBT_MAGIC
    Template,       \* the maps of build_template
    KnownRecords,   \* what make_known_record can return for this version
    Scribbles,      \* byte strings LLVMFuzzerMutate writes
    Growth,         \* bytes a value may grow by in one mutation (16)
    MutationCounts, \* num_mutations (1 to 3)
    Corpus,         \* buffers libFuzzer has
    MaxSizes,       \* values of max_size
    MaxCalls        \* bound on the calls of the mutator

Record == [key : Bytes, value : Bytes]
Map == Seq(Record)

ASSUME MagicAssumption == Magic \in Bytes

\* A record whose key is not the end of its map, and whose lengths, with what
\* three mutations add to them, are still a size_t.
Writable(r) ==
    /\ r.key # <<>>
    /\ Len(r.key) < EightDigits
    /\ Len(r.value) + 3 * Growth < EightDigits

ASSUME TemplateAssumption ==
    /\ Template # <<>>
    /\ Template \in Seq(Map)
    /\ \A i \in DOMAIN Template : \A j \in DOMAIN Template[i] : Writable(Template[i][j])

ASSUME KnownRecordsAssumption == \A r \in KnownRecords : r \in Record /\ Writable(r)

ASSUME ScribblesAssumption == \A s \in Scribbles : s \in Bytes

ASSUME CorpusAssumption == Corpus # {} /\ \A b \in Corpus : b \in Bytes

ASSUME BoundsAssumption ==
    /\ Growth \in Nat
    /\ MutationCounts \subseteq 1..3
    /\ MaxSizes \subseteq Nat
    /\ \A n \in MaxSizes : n + 3 * Growth < EightDigits
    /\ MaxCalls \in Nat

VARIABLES
    buf,        \* fuzz_data[0 .. size)
    phase,      \* "idle", "parse", "parsed", "mutate"
    offset,     \* where parse_map reads next
    maps,       \* the complete maps
    current,    \* the records of the map being read
    left,       \* mutations still to apply
    maxSize,    \* max_size of the call
    made,       \* history: the maps written into buf, <<>> when it came
                \* from the corpus
    cut,        \* history: the last output met max_size
    calls       \* history: calls of the mutator, bounded by MaxCalls

vars == <<buf, phase, offset, maps, current, left, maxSize, made, cut, calls>>

TypeOK ==
    /\ buf \in Bytes
    /\ phase \in {"idle", "parse", "parsed", "mutate"}
    /\ offset \in Nat \ {0}
    /\ maps \in Seq(Map)
    /\ current \in Map
    /\ left \in 0..3
    /\ maxSize \in MaxSizes \cup {0}
    /\ made \in Seq(Map)
    /\ cut \in BOOLEAN
    /\ calls \in 0..MaxCalls

Init ==
    /\ buf \in Corpus
    /\ phase = "idle"
    /\ offset = 1
    /\ maps = <<>>
    /\ current = <<>>
    /\ left = 0
    /\ maxSize = 0
    /\ made = <<>>
    /\ cut = FALSE
    /\ calls = 0

(***************************************************************************)
(* serialize_psbt                                                          *)
(***************************************************************************)
SerializeRecord(r) ==
    Encode(Len(r.key)) \o r.key \o Encode(Len(r.value)) \o r.value

SerializeRecords(m) == FlattenSeq([i \in DOMAIN m |-> SerializeRecord(m[i])])

Separator == Encode(0)

SerializeMap(m) == SerializeRecords(m) \o Separator

Serialize(ms) == Magic \o FlattenSeq([i \in DOMAIN ms |-> SerializeMap(ms[i])])

Fitted(out) == IF Len(out) > maxSize THEN SubSeq(out, 1, maxSize) ELSE out

(***************************************************************************)
(* parse_psbt, one record at a time                                        *)
(***************************************************************************)

\* The corpus gives the next input, instead of the output.
PickInput ==
    /\ phase = "idle"
    /\ made # <<>>
    /\ calls < MaxCalls
    /\ buf' \in Corpus
    /\ made' = <<>>
    /\ cut' = FALSE
    /\ UNCHANGED <<phase, offset, maps, current, left, maxSize, calls>>

HasMagic == IsPrefix(Magic, buf)

\* libFuzzer calls with size <= max_size.  Without the magic parse_psbt
\* returns no maps.
BeginCall ==
    /\ phase = "idle"
    /\ calls < MaxCalls
    /\ maxSize' \in {n \in MaxSizes : Len(buf) <= n}
    /\ phase' = IF HasMagic THEN "parse" ELSE "parsed"
    /\ offset' = Len(Magic) + 1
    /\ maps' = <<>>
    /\ current' = <<>>
    /\ calls' = calls + 1
    /\ UNCHANGED <<buf, left, made, cut>>

KeyLength == Decode(buf, offset)
KeyStart == offset + KeyLength.bytes_read
ValueLength == Decode(buf, KeyStart + KeyLength.value)
ValueStart == KeyStart + KeyLength.value + ValueLength.bytes_read

\* value bytes from start on are still in the buffer.
Available(start, value) == value <= Len(buf) - start + 1

AtSeparator == KeyLength.valid /\ KeyLength.value = 0

AtRecord ==
    /\ KeyLength.valid
    /\ KeyLength.value # 0
    /\ Available(KeyStart, KeyLength.value)
    /\ ValueLength.valid
    /\ Available(ValueStart, ValueLength.value)

\* The loop of parse_map: a key, a value, one more record.
ReadRecord ==
    /\ phase = "parse"
    /\ AtRecord
    /\ current' = Append(current,
           [key   |-> SubSeq(buf, KeyStart, KeyStart + KeyLength.value - 1),
            value |-> SubSeq(buf, ValueStart, ValueStart + ValueLength.value - 1)])
    /\ offset' = ValueStart + ValueLength.value
    /\ UNCHANGED <<buf, phase, maps, left, maxSize, made, cut, calls>>

\* A zero-length key ends the map.
CloseMap ==
    /\ phase = "parse"
    /\ AtSeparator
    /\ maps' = Append(maps, current)
    /\ current' = <<>>
    /\ offset' = KeyStart
    /\ UNCHANGED <<buf, phase, left, maxSize, made, cut, calls>>

\* The buffer is used up, or parse_map failed and its map is dropped.
StopParsing ==
    /\ phase = "parse"
    /\ ~AtSeparator
    /\ ~AtRecord
    /\ phase' = "parsed"
    /\ UNCHANGED <<buf, offset, maps, current, left, maxSize, made, cut, calls>>

(***************************************************************************)
(* LLVMFuzzerCustomMutator                                                 *)
(***************************************************************************)
ReturnBuffer(ms) ==
    /\ buf' = Fitted(Serialize(ms))
    /\ made' = ms
    /\ cut' = (Len(Serialize(ms)) > maxSize)
    /\ phase' = "idle"

\* Slip: memcpy of the whole template.
UseWholeTemplate ==
    /\ phase = "parsed"
    /\ maps = <<>>
    /\ buf' = Serialize(Template)
    /\ made' = Template
    /\ cut' = FALSE
    /\ phase' = "idle"
    /\ UNCHANGED <<offset, maps, current, left, maxSize, calls>>

UseTemplate ==
    /\ phase = "parsed"
    /\ maps = <<>>
    /\ ReturnBuffer(Template)
    /\ UNCHANGED <<offset, maps, current, left, maxSize, calls>>

BeginMutations ==
    /\ phase = "parsed"
    /\ maps # <<>>
    /\ left' \in MutationCounts
    /\ phase' = "mutate"
    /\ UNCHANGED <<buf, offset, maps, current, maxSize, made, cut, calls>>

Finish ==
    /\ phase = "mutate"
    /\ left = 0
    /\ ReturnBuffer(maps)
    /\ UNCHANGED <<offset, maps, current, left, maxSize, calls>>

(***************************************************************************)
(* mutate_maps: one of six cases on one map                                *)
(***************************************************************************)
\* One round of the loop over num_mutations.
Mutates ==
    /\ phase = "mutate"
    /\ left > 0
    /\ left' = left - 1
    /\ UNCHANGED <<buf, phase, offset, current, maxSize, made, cut, calls>>

\* LLVMFuzzerMutate with room for so many bytes.
Mutated(room) == {s \in Scribbles : Len(s) \in 1..room}

\* 0: the value is rewritten and takes the returned size.
MutateValue(i, j) ==
    /\ Mutates
    /\ \E s \in Mutated(Len(maps[i][j].value) + Growth) :
           maps' = [maps EXCEPT ![i][j].value = s]

\* Slip: the key takes the returned size too, and a cleared one is empty.
MutateKeyResizing(i, j) ==
    /\ Mutates
    /\ \E s \in Mutated(Len(maps[i][j].key)) :
           maps' = [maps EXCEPT ![i][j].key = Tail(s)]

\* 1: the key is rewritten in place and keeps its size.
MutateKey(i, j) ==
    /\ Mutates
    /\ \E s \in Mutated(Len(maps[i][j].key)) :
           maps' = [maps EXCEPT ![i][j].key =
                        [k \in DOMAIN @ |-> IF k <= Len(s) THEN s[k] ELSE @[k]]]

\* 2
RemoveRecord(i, j) ==
    /\ Mutates
    /\ maps' = [maps EXCEPT ![i] = RemoveAt(@, j)]

\* 3
DuplicateRecord(i, j) ==
    /\ Mutates
    /\ maps' = [maps EXCEPT ![i] = Append(@, @[j])]

\* 0 to 3 on a map without records: nothing.
MutateNothing(i) ==
    /\ Mutates
    /\ maps[i] = <<>>
    /\ UNCHANGED maps

\* 4
InsertKnown(i) ==
    /\ Mutates
    /\ \E r \in KnownRecords : maps' = [maps EXCEPT ![i] = Append(@, r)]

\* 5, grow
AddMap ==
    /\ Mutates
    /\ maps' = Append(maps, <<>>)

\* 5, shrink: one map stays.
RemoveMap(i) ==
    /\ Mutates
    /\ Len(maps) > 1
    /\ maps' = RemoveAt(maps, i)

Next ==
    \/ PickInput
    \/ BeginCall
    \/ ReadRecord
    \/ CloseMap
    \/ StopParsing
    \/ UseTemplate
    \/ BeginMutations
    \/ Finish
    \/ AddMap
    \/ \E i \in DOMAIN maps :
        \/ MutateNothing(i)
        \/ InsertKnown(i)
        \/ RemoveMap(i)
        \/ \E j \in DOMAIN maps[i] :
            \/ MutateValue(i, j)
            \/ MutateKey(i, j)
            \/ RemoveRecord(i, j)
            \/ DuplicateRecord(i, j)

Spec == Init /\ [][Next]_vars

-----------------------------------------------------------------------------
(***************************************************************************)
(* Properties                                                              *)
(***************************************************************************)

\* mutate_maps never meets an empty vector of maps, and no mutation leaves a
\* record that would be written as the end of its map: the records of map i
\* stay between the separators i-1 and i.
Structured ==
    /\ phase = "mutate" => maps # <<>>
    /\ \A i \in DOMAIN maps : \A j \in DOMAIN maps[i] : maps[i][j].key # <<>>

\* Loop invariant of the parser: what it has read so far, written again, is
\* the very text it has read.  Only a canonical length is accepted, and no
\* byte beyond the buffer is.
ReadsCanonically ==
    phase = "parse" =>
        /\ offset <= Len(buf) + 1
        /\ Serialize(maps) \o SerializeRecords(current) = SubSeq(buf, 1, offset - 1)

\* The mutator reads back what it wrote, all of it, or the complete maps
\* before the place where max_size cut the output.
ReadsBackItsOutput ==
    phase = "parsed" /\ made # <<>> =>
        IF cut THEN IsPrefix(maps, made) ELSE maps = made

\* What is returned fits the buffer libFuzzer gave, and nothing is lost that
\* would have fitted.
OutputFits ==
    phase = "idle" /\ made # <<>> =>
        /\ Len(buf) <= maxSize
        /\ Len(buf) < Len(Serialize(made)) => Len(buf) = maxSize
=============================================================================
