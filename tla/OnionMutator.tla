---------------------------- MODULE OnionMutator ----------------------------
(***************************************************************************)
(* custommutator/mutators/onion.h: the mutator of Lightning onion packets. *)
(* A packet is opened with the keys it carries, its payload is mutated as  *)
(* bytes or as a stream of TLV records, and it is encrypted and sealed     *)
(* again.  The cipher is kept as what it was keyed with and what it hides; *)
(* opened with another key, it gives any bytes.  A byte has Base values,   *)
(* as in CompactSize; a BigSize is a CompactSize with its digits reversed. *)
(***************************************************************************)
EXTENDS CompactSize, SequencesExt

CONSTANTS
    HOP_PAYLOADS_SIZE,
    Keys, PublicKeys,
    Secret(_, _),           \* (private key, public key): ECDH, or NoSecret
    NoSecret,
    Plaintexts,             \* what opening with the wrong key, or libFuzzer, may give
    COMMON_TLV_TYPES,
    RandomTypes,            \* what generate_random_tlv_type may give
    KnownValues,            \* generate_value_for_type: what a known type may get
    OtherValues,            \* and what any other type may
    Scribbles,              \* byte strings LLVMFuzzerMutate writes
    Growth,                 \* bytes a value may grow by in one mutation (32)
    MaxMutations,           \* 3: mutations of a stream, and records added to a new one
    MaxCalls                \* bound: calls that open a packet

ASSUME OnionAssumption ==
    /\ HOP_PAYLOADS_SIZE \in Nat \ {0} /\ MaxMutations \in 1..3 /\ MaxCalls \in Nat
    /\ \A p \in Plaintexts : p \in Bytes /\ Len(p) = HOP_PAYLOADS_SIZE

\* What libFuzzer and rand() put into a record is a type and bytes.
ASSUME RecordsAssumption ==
    /\ COMMON_TLV_TYPES \cup RandomTypes \subseteq 0..(EightDigits - 1)
    /\ \A t \in DOMAIN KnownValues : \A v \in KnownValues[t] : v \in Bytes
    /\ \A v \in OtherValues \cup Scribbles : v \in Bytes
    /\ Growth \in Nat

\* There is room for the two numbers that come first, however long, and what a
\* value holds, with what three mutations add to it, is still a size_t.
HasSize(value) == Len(value) + 3 * Growth < EightDigits

ASSUME SizesAssumption ==
    /\ HOP_PAYLOADS_SIZE >= 18 /\ HOP_PAYLOADS_SIZE + 3 * Growth < EightDigits
    /\ \A t \in DOMAIN KnownValues : \A v \in KnownValues[t] : HasSize(v)
    /\ \A v \in OtherValues : HasSize(v)

VARIABLES
    fits,       \* size >= PACKET_SIZE: the input holds a packet
    key, pub,   \* the private key and the ephemeral public key
    hop,        \* the hop payloads: [under, plain]
    hmac,       \* [under, over]: the key and the bytes it was calculated with
    phase,      \* "idle" between calls, then "opened", "mutating" or "generating"
    records,    \* TLVHopPayload::records
    left,       \* mutations or records still to do
    calls,      \* calls that opened the packet, to bound them
    by          \* what made the packet: the "input", the "template", a "raw",
                \* "parsed" or "generated" payload, or a call that "failed"

vars == <<fits, key, pub, hop, hmac, phase, records, left, calls, by>>
packet == <<fits, key, pub, hop, hmac>>

Record == [type : Nat, value : Bytes]

\* uint64_t
Word(n) == n % EightDigits

-----------------------------------------------------------------------------
(***************************************************************************)
(* BigSize and the TLV stream                                              *)
(***************************************************************************)
\* A BigSize and the CompactSize of the same number.
SwapDigits(bytes) == <<Head(bytes)>> \o Reverse(Tail(bytes))

encode_bigsize(value) == SwapDigits(Encode(value))

\* The BigSize at offset o (1 is the first byte) of data, read up to end - 1.
decode_bigsize(data, o, end) ==
    IF o >= end THEN Invalid
    ELSE LET bytes == SubSeq(data, o, end - 1)
             width == IF bytes[1] < Escape THEN 0 ELSE Width(bytes[1])
         IN  IF Len(bytes) < 1 + width THEN Invalid
             ELSE Decode(SwapDigits(SubSeq(bytes, 1, 1 + width)), 1)

\* A type that is not above the one before it.
OutOfOrder(type, records_) == records_ # <<>> /\ type <= Last(records_).type

\* One turn of the loop: a record at s.o is read, or the loop ends.
ReadRecord(data, end, s) ==
    LET type  == decode_bigsize(data, s.o, end)
        o     == s.o + type.bytes_read
        len   == decode_bigsize(data, o, end)
        start == o + len.bytes_read
    IN  IF \/ ~s.more \/ ~type.valid
           \/ OutOfOrder(type.value, s.records)
           \/ ~len.valid
           \/ len.value > end - start
        THEN [s EXCEPT !.more = FALSE]
        ELSE [o       |-> start + len.value,
              more    |-> TRUE,
              records |-> Append(s.records,
                              [type |-> type.value,
                               value |-> SubSeq(data, start, start + len.value - 1)])]

\* Where the stream ends: total_length behind its prefix, in the arithmetic of
\* size_t, and not behind the data.
StreamEnd(data, prefix) ==
    LET end == Word(prefix.bytes_read + prefix.value)
    IN  IF end > Len(data) THEN Len(data) + 1 ELSE end + 1

\* The records of parse_tlv_hop_payload: none is an invalid payload.
parse_tlv_hop_payload(data) ==
    LET prefix == decode_bigsize(data, 1, Len(data) + 1)
        read[n \in 0..Len(data)] ==
            IF n = 0 THEN [o |-> 1 + prefix.bytes_read, more |-> TRUE, records |-> <<>>]
            ELSE ReadRecord(data, StreamEnd(data, prefix), read[n - 1])
    IN  IF ~prefix.valid \/ prefix.value = 0 THEN <<>> ELSE read[Len(data)].records

encoded_size(record) ==
    Len(encode_bigsize(record.type)) + Len(encode_bigsize(Len(record.value))) + Len(record.value)

StreamSize(recs) ==
    LET size[n \in 0..Len(recs)] == IF n = 0 THEN 0 ELSE size[n - 1] + encoded_size(recs[n])
    IN  size[Len(recs)]

\* Slip: the length that goes first counts the values only.
SumOfValues(recs) ==
    LET size[n \in 0..Len(recs)] == IF n = 0 THEN 0 ELSE size[n - 1] + Len(recs[n].value)
    IN  size[Len(recs)]

tlv_stream_size(recs) == StreamSize(recs)

\* What fits in the payload.
Cut(bytes) == SubSeq(bytes, 1, IF Len(bytes) < HOP_PAYLOADS_SIZE THEN Len(bytes)
                               ELSE HOP_PAYLOADS_SIZE)

\* A record is written up to where a part of it does not fit: a type or a
\* length that does not is left out, a value is cut.
WriteRecord(s, record) ==
    LET type == s.bytes \o encode_bigsize(record.type)
        len  == type \o encode_bigsize(Len(record.value))
        all  == len \o record.value
    IN  IF s.full THEN s
        ELSE IF Len(type) > HOP_PAYLOADS_SIZE THEN [s EXCEPT !.full = TRUE]
        ELSE IF Len(len) > HOP_PAYLOADS_SIZE THEN [bytes |-> type, full |-> TRUE]
        ELSE [bytes |-> Cut(all), full |-> Len(all) >= HOP_PAYLOADS_SIZE]

\* The buffer was filled with zeroes.
Padded(bytes) == bytes \o [i \in 1..(HOP_PAYLOADS_SIZE - Len(bytes)) |-> 0]

serialize_tlv_hop_payload(recs) ==
    LET prefix == encode_bigsize(tlv_stream_size(recs))
        written[n \in 0..Len(recs)] ==
            IF n = 0 THEN [bytes |-> prefix, full |-> FALSE]
            ELSE WriteRecord(written[n - 1], recs[n])
    IN  Padded(IF Len(prefix) >= HOP_PAYLOADS_SIZE THEN <<>> ELSE written[Len(recs)].bytes)

-----------------------------------------------------------------------------
(***************************************************************************)
(* The mutations of a stream: each is the set of its results               *)
(***************************************************************************)
\* The first record of this type or a higher one, or the end.
Place(recs, type) ==
    CHOOSE at \in 1..(Len(recs) + 1) :
        /\ \A i \in 1..(at - 1) : recs[i].type < type
        /\ at <= Len(recs) => recs[at].type >= type

\* Slip: a record goes in behind the first one of a higher or equal type.
InsertedBehind(recs, record) ==
    LET at == Place(recs, record.type)
    IN  InsertAt(recs, IF at <= Len(recs) THEN at + 1 ELSE at, record)

\* A record goes in before the first one of its type or a higher one.
Inserted(recs, record) == InsertAt(recs, Place(recs, record.type), record)

ValuesFor(type) == IF type \in DOMAIN KnownValues THEN KnownValues[type] ELSE OtherValues

\* A value as libFuzzer leaves it in its buffer.
Resized(value) == {v \in Scribbles : Len(v) <= Len(value) + Growth}

add_tlv_record(recs) ==
    UNION {{Inserted(recs, [type |-> t, value |-> v]) : v \in ValuesFor(t)} :
           t \in COMMON_TLV_TYPES \cup RandomTypes}

mutate_tlv_value(recs) ==
    UNION {{[recs EXCEPT ![i].value = v] :
                v \in ValuesFor(recs[i].type) \cup Resized(recs[i].value)} :
           i \in DOMAIN recs}

remove_tlv_record(recs) ==
    IF Len(recs) > 1 THEN {RemoveAt(recs, i) : i \in DOMAIN recs} ELSE {recs}

mutate_tlv_type(recs) ==
    UNION {{[recs EXCEPT ![i].type = t] :
                t \in COMMON_TLV_TYPES \cup RandomTypes
                      \cup {Word(recs[i].type + 1), Word(recs[i].type + EightDigits - 1)}} :
           i \in DOMAIN recs}

\* std::unique: a record with the type of the last one kept goes.
Keep(kept, record) ==
    IF kept # <<>> /\ Last(kept).type = record.type THEN kept ELSE Append(kept, record)

Unique(recs) ==
    LET kept[n \in 0..Len(recs)] == IF n = 0 THEN <<>> ELSE Keep(kept[n - 1], recs[n])
    IN  kept[Len(recs)]

-----------------------------------------------------------------------------
(***************************************************************************)
(* The call                                                                *)
(***************************************************************************)
\* ECDH of the private key and the public key the packet carries.  All other
\* keys are derived from it.
compute_shared_secret(private_key, public_key) == Secret(private_key, public_key)

\* default_onion: a packet that opens with its own keys, whose payload is a TLV
\* stream, and whose seal is good.
DefaultOnion(k, p, payload) ==
    /\ compute_shared_secret(k, p) # NoSecret
    /\ parse_tlv_hop_payload(payload) # <<>>
    /\ key' = k /\ pub' = p
    /\ hop' = [under |-> compute_shared_secret(k, p), plain |-> payload]
    /\ hmac' = [under |-> compute_shared_secret(k, p), over |-> hop']

\* An input too short for a packet becomes the template, or stays empty when
\* the buffer is too small.
Template ==
    /\ phase = "idle" /\ ~fits
    /\ \E k \in Keys, p \in PublicKeys, payload \in Plaintexts : DefaultOnion(k, p, payload)
    /\ fits' = TRUE /\ by' = "template"
    /\ UNCHANGED <<phase, records, left, calls>>

NoRoomForTemplate ==
    /\ phase = "idle" /\ ~fits
    /\ UNCHANGED vars

\* What the hop payloads look like when they are opened with secret.
Opened(secret) == IF hop.under = secret THEN {hop.plain} ELSE Plaintexts

\* One time in a hundred the bytes of the keys are mutated where they are.
\* Without a shared secret the call gives up and leaves the rest as it was.
Open ==
    /\ phase = "idle" /\ fits
    /\ calls < MaxCalls /\ calls' = calls + 1
    /\ \/ UNCHANGED <<key, pub>>
       \/ key' \in Keys /\ pub' \in PublicKeys
    /\ LET secret == compute_shared_secret(key', pub')
       IN  IF secret = NoSecret
           THEN by' = "failed" /\ UNCHANGED <<hop, phase>>
           ELSE /\ \E plain \in Opened(secret) : hop' = [under |-> secret, plain |-> plain]
                /\ phase' = "opened" /\ UNCHANGED by
    /\ UNCHANGED <<fits, hmac, records, left>>

\* Slip: the seal is calculated before the payload is encrypted again.
SealedBefore(plain) ==
    /\ hop' = [hop EXCEPT !.plain = plain]
    /\ hmac' = [under |-> hop.under, over |-> hop]

\* Encrypted again with the same stream and sealed.
Sealed(plain) ==
    /\ hop' = [hop EXCEPT !.plain = plain]
    /\ hmac' = [under |-> hop.under, over |-> hop']

Close(plain, how) ==
    /\ Sealed(plain)
    /\ by' = how /\ phase' = "idle" /\ left' = 0
    /\ UNCHANGED <<fits, key, pub, calls>>

MutateRaw ==
    /\ phase = "opened"
    /\ \E plain \in Plaintexts : Close(plain, "raw")
    /\ UNCHANGED records

\* The payload parses: one to three mutations.
BeginMutations ==
    /\ phase = "opened" /\ parse_tlv_hop_payload(hop.plain) # <<>>
    /\ records' = parse_tlv_hop_payload(hop.plain)
    /\ left' \in 1..MaxMutations
    /\ phase' = "mutating"
    /\ UNCHANGED <<packet, calls, by>>

MutateOnce ==
    /\ phase = "mutating" /\ left > 0
    /\ records' \in mutate_tlv_value(records) \cup add_tlv_record(records)
                    \cup remove_tlv_record(records) \cup mutate_tlv_type(records)
    /\ left' = left - 1
    /\ UNCHANGED <<packet, phase, calls, by>>

\* It does not: a new payload of two to five records.
BeginGenerated ==
    /\ phase = "opened" /\ parse_tlv_hop_payload(hop.plain) = <<>>
    /\ \E amt \in ValuesFor(2), cltv \in ValuesFor(4) :
          records' = <<[type |-> 2, value |-> amt], [type |-> 4, value |-> cltv]>>
    /\ left' \in 0..MaxMutations
    /\ phase' = "generating"
    /\ UNCHANGED <<packet, calls, by>>

AddGenerated ==
    /\ phase = "generating" /\ left > 0
    /\ records' \in add_tlv_record(records)
    /\ left' = left - 1
    /\ UNCHANGED <<packet, phase, calls, by>>

CloseMutated ==
    /\ phase = "mutating" /\ left = 0
    /\ Close(serialize_tlv_hop_payload(records), "parsed")
    /\ UNCHANGED records

CloseGenerated ==
    /\ phase = "generating" /\ left = 0
    /\ records' = Unique(records)
    /\ Close(serialize_tlv_hop_payload(records'), "generated")

Init ==
    /\ fits \in BOOLEAN
    /\ key \in Keys /\ pub \in PublicKeys
    /\ hop \in [under : {NoSecret}, plain : Plaintexts]
    /\ hmac = [under |-> NoSecret, over |-> hop]
    /\ phase = "idle" /\ records = <<>> /\ left = 0 /\ calls = 0 /\ by = "input"

Next ==
    \/ Template \/ NoRoomForTemplate \/ Open \/ MutateRaw
    \/ BeginMutations \/ MutateOnce \/ CloseMutated
    \/ BeginGenerated \/ AddGenerated \/ CloseGenerated

Spec == Init /\ [][Next]_vars

-----------------------------------------------------------------------------
TypeOK ==
    /\ fits \in BOOLEAN /\ key \in Keys /\ pub \in PublicKeys
    /\ hop.plain \in Bytes /\ Len(hop.plain) = HOP_PAYLOADS_SIZE
    /\ phase \in {"idle", "opened", "mutating", "generating"}
    /\ records \in Seq(Record)
    /\ calls \in 0..MaxCalls /\ left \in 0..MaxMutations
    /\ by \in {"input", "template", "raw", "parsed", "generated", "failed"}

\* onion.h:59-63: a packet the mutator went through with opens with the keys it
\* carries, those of the same call, and its seal is over the bytes it carries;
\* else every target stops at the HMAC.  Every variable is in its type: the
\* payload has its size in particular.
PacketIsSealed ==
    /\ TypeOK
    /\ (phase = "idle" /\ by \notin {"input", "failed"}) =>
          /\ hop.under = Secret(key, pub)
          /\ hmac = [under |-> hop.under, over |-> hop]

Ascending(recs, n) == \A i \in 2..n : recs[i - 1].type < recs[i].type

\* How many records come before the first one that is out of order.
OrderedUpTo(recs) ==
    CHOOSE n \in 0..Len(recs) :
        Ascending(recs, n) /\ (n < Len(recs) => ~Ascending(recs, n + 1))

\* The records before the first one that is out of order.
InOrder(recs) == SubSeq(recs, 1, OrderedUpTo(recs))

\* The whole stream of the records is in the payload.
AllWritten(recs) ==
    Len(encode_bigsize(StreamSize(recs))) + StreamSize(recs) <= HOP_PAYLOADS_SIZE

\* onion.h:53-57: the next call mutates what the last one left.  What was
\* written whole is read back, up to the first record that the mutations put
\* out of order; of what was cut, at most one record comes back otherwise: it
\* has its type and the value it had lost.
ReadsBackItsOutput ==
    (phase = "idle" /\ by \in {"parsed", "generated"}) =>
        LET got  == parse_tlv_hop_payload(hop.plain)
            meant == InOrder(records)
        IN  IF AllWritten(records) THEN got = meant
            ELSE /\ Len(got) <= Len(meant)
                 /\ \A i \in DOMAIN got :
                       \/ got[i] = meant[i]
                       \/ i = Len(got) /\ got[i] = [meant[i] EXCEPT !.value = <<>>]

\* onion.h:724-757: a generated payload has the two types a forwarding payload
\* needs, and no type twice or out of order, wherever the additions went.
GeneratedIsForwarding ==
    (phase = "idle" /\ by = "generated") =>
        /\ Ascending(records, Len(records))
        /\ {2, 4} \subseteq {records[i].type : i \in DOMAIN records}
=============================================================================
