-------------------------- MODULE PsbtMutatorProofs --------------------------
(***************************************************************************)
(* Proofs about PsbtMutator, for any corpus, any max_size, any bytes that  *)
(* LLVMFuzzerMutate writes, and any number of calls.                       *)
(***************************************************************************)
EXTENDS PsbtMutator, CodecLemmas

(***************************************************************************)
(* The container                                                           *)
(***************************************************************************)

\* What is written of a record is bytes.
LEMMA SerializeRecordType ==
    ASSUME NEW r \in Record
    PROVE  SerializeRecord(r) \in Bytes
<1>1. r.key \in Bytes /\ r.value \in Bytes
  BY DEF Record
<1>2. Len(r.key) \in Nat /\ Len(r.value) \in Nat
  BY <1>1 DEF Bytes
<1>3. Encode(Len(r.key)) \in Bytes /\ Encode(Len(r.value)) \in Bytes
  BY <1>2, EncodeType
<1>4. \A s, t \in Bytes : s \o t \in Bytes
  BY DEF Bytes
<1>5. Encode(Len(r.key)) \o r.key \in Bytes
  BY <1>1, <1>3, <1>4, Zenon
<1>6. Encode(Len(r.key)) \o r.key \o Encode(Len(r.value)) \in Bytes
  BY <1>3, <1>4, <1>5, Zenon
<1> QED
  BY <1>1, <1>4, <1>6, Zenon DEF SerializeRecord

\* And of a map, record by record.
LEMMA SerializeMapType ==
    ASSUME NEW m \in Map
    PROVE  /\ [i \in DOMAIN m |-> SerializeRecord(m[i])] \in Seq(Bytes)
           /\ SerializeRecords(m) \in Bytes
           /\ SerializeMap(m) = SerializeRecords(m) \o Separator
           /\ SerializeMap(m) \in Bytes
<1>1. [i \in DOMAIN m |-> SerializeRecord(m[i])] \in Seq(Bytes)
  <2>1. Len(m) \in Nat /\ DOMAIN m = 1..Len(m)
    BY DEF Map
  <2>2. \A i \in 1..Len(m) : SerializeRecord(m[i]) \in Bytes
    <3>1. \A i \in 1..Len(m) : m[i] \in Record
      BY DEF Map
    <3> QED
      BY <3>1, SerializeRecordType
  <2>3. [i \in 1..Len(m) |-> SerializeRecord(m[i])] \in [1..Len(m) -> Bytes]
    BY <2>2, Zenon
  <2>4. \A n \in Nat : \A f \in [1..n -> Bytes] : f \in Seq(Bytes)
    OBVIOUS
  <2> QED
    BY <2>1, <2>3, <2>4, Zenon
<1>2. SerializeRecords(m) \in Bytes
  BY <1>1, FlattenType DEF SerializeRecords, Bytes
<1>3. Separator \in Bytes
  BY EncodeType DEF Separator
<1>4. SerializeMap(m) \in Bytes
  BY <1>2, <1>3 DEF SerializeMap, Bytes
<1> QED
  BY <1>1, <1>2, <1>4 DEF SerializeMap

\* And of all maps.
LEMMA SerializeType ==
    ASSUME NEW ms \in Seq(Map)
    PROVE  /\ [i \in DOMAIN ms |-> SerializeMap(ms[i])] \in Seq(Bytes)
           /\ Serialize(ms) \in Bytes
<1>1. [i \in DOMAIN ms |-> SerializeMap(ms[i])] \in Seq(Bytes)
  <2>1. Len(ms) \in Nat /\ DOMAIN ms = 1..Len(ms) /\ \A i \in 1..Len(ms) : ms[i] \in Map
    OBVIOUS
  <2>2. \A i \in 1..Len(ms) : SerializeMap(ms[i]) \in Bytes
    BY <2>1, SerializeMapType
  <2>3. [i \in 1..Len(ms) |-> SerializeMap(ms[i])] \in [1..Len(ms) -> Bytes]
    BY <2>2, Zenon
  <2>4. \A n \in Nat : \A f \in [1..n -> Bytes] : f \in Seq(Bytes)
    OBVIOUS
  <2> QED
    BY <2>1, <2>3, <2>4, Zenon
<1>2. FlattenSeq([i \in DOMAIN ms |-> SerializeMap(ms[i])]) \in Bytes
  BY <1>1, FlattenType DEF Bytes
<1> QED
  BY <1>1, <1>2, MagicAssumption DEF Serialize, Bytes

\* The element-wise image of a sequence with one element more.
LEMMA ImageAppend ==
    ASSUME NEW S, NEW s \in Seq(S), NEW e \in S, NEW G,
           G = [x \in S |-> G[x]]
    PROVE  [i \in DOMAIN Append(s, e) |-> G[Append(s, e)[i]]]
               = Append([i \in DOMAIN s |-> G[s[i]]], G[e])
OBVIOUS

\* One record more.
LEMMA SerializeRecordsAppend ==
    ASSUME NEW m \in Map, NEW r \in Record
    PROVE  SerializeRecords(Append(m, r)) = SerializeRecords(m) \o SerializeRecord(r)
<1> DEFINE G == [x \in Record |-> SerializeRecord(x)]
           s == [i \in DOMAIN m |-> SerializeRecord(m[i])]
           t == [i \in DOMAIN Append(m, r) |-> SerializeRecord(Append(m, r)[i])]
<1>1. t = Append(s, SerializeRecord(r))
  <2>1. m \in Seq(Record) /\ Append(m, r) \in Seq(Record)
    BY DEF Map
  <2>2. \A i \in DOMAIN m : m[i] \in Record
    BY <2>1
  <2>3. \A i \in DOMAIN Append(m, r) : Append(m, r)[i] \in Record
    BY <2>1
  <2>4. \A x \in Record : G[x] = SerializeRecord(x)
    OBVIOUS
  <2>5. G = [x \in Record |-> G[x]]
    OBVIOUS
  <2> HIDE DEF G
  <2>6. [i \in DOMAIN Append(m, r) |-> G[Append(m, r)[i]]]
            = Append([i \in DOMAIN m |-> G[m[i]]], G[r])
    BY <2>1, <2>5, ImageAppend
  <2>7. [i \in DOMAIN Append(m, r) |-> G[Append(m, r)[i]]] = t
    BY <2>3, <2>4, Zenon
  <2>8. [i \in DOMAIN m |-> G[m[i]]] = s
    BY <2>2, <2>4, Zenon
  <2> QED
    BY <2>4, <2>6, <2>7, <2>8, Zenon
<1>2. s \in Seq(Bytes) /\ SerializeRecord(r) \in Bytes
  BY SerializeMapType, SerializeRecordType
<1> HIDE DEF s, t
<1>3. FlattenSeq(Append(s, SerializeRecord(r))) = FlattenSeq(s) \o SerializeRecord(r)
  BY <1>2, FlattenAppend DEF Bytes
<1> QED
  BY <1>1, <1>3, Zenon DEF SerializeRecords, s, t

\* One map more.
LEMMA SerializeAppend ==
    ASSUME NEW ms \in Seq(Map), NEW m \in Map
    PROVE  Serialize(Append(ms, m)) = Serialize(ms) \o SerializeMap(m)
<1> DEFINE G == [x \in Map |-> SerializeMap(x)]
           s == [i \in DOMAIN ms |-> SerializeMap(ms[i])]
           t == [i \in DOMAIN Append(ms, m) |-> SerializeMap(Append(ms, m)[i])]
<1>1. t = Append(s, SerializeMap(m))
  <2>1. Append(ms, m) \in Seq(Map)
    OBVIOUS
  <2>2. \A i \in DOMAIN ms : ms[i] \in Map
    OBVIOUS
  <2>3. \A i \in DOMAIN Append(ms, m) : Append(ms, m)[i] \in Map
    BY <2>1
  <2>4. \A x \in Map : G[x] = SerializeMap(x)
    OBVIOUS
  <2>5. G = [x \in Map |-> G[x]]
    OBVIOUS
  <2> HIDE DEF G
  <2>6. [i \in DOMAIN Append(ms, m) |-> G[Append(ms, m)[i]]]
            = Append([i \in DOMAIN ms |-> G[ms[i]]], G[m])
    BY <2>5, ImageAppend
  <2>7. [i \in DOMAIN Append(ms, m) |-> G[Append(ms, m)[i]]] = t
    BY <2>3, <2>4, Zenon
  <2>8. [i \in DOMAIN ms |-> G[ms[i]]] = s
    BY <2>2, <2>4, Zenon
  <2> QED
    BY <2>4, <2>6, <2>7, <2>8, Zenon
<1>2. s \in Seq(Bytes) /\ SerializeMap(m) \in Bytes
  BY SerializeMapType, SerializeType
<1> HIDE DEF s, t
<1>3. FlattenSeq(Append(s, SerializeMap(m))) = FlattenSeq(s) \o SerializeMap(m)
  BY <1>2, FlattenAppend DEF Bytes
<1>4. FlattenSeq(s) \in Bytes
  BY <1>2, FlattenType DEF Bytes
<1>5. Magic \o (FlattenSeq(s) \o SerializeMap(m)) = (Magic \o FlattenSeq(s)) \o SerializeMap(m)
  <2>1. ASSUME NEW x \in Bytes, NEW y \in Bytes, NEW z \in Bytes
        PROVE  x \o (y \o z) = (x \o y) \o z
    BY DEF Bytes
  <2> QED
    BY <1>2, <1>4, <2>1, MagicAssumption, Zenon
<1> QED
  BY <1>1, <1>3, <1>5, Zenon DEF Serialize, s, t

\* Nothing but the magic, and nothing.
LEMMA SerializeEmpty ==
    SerializeRecords(<<>>) = <<>> /\ Serialize(<<>>) = Magic
<1>1. [i \in DOMAIN <<>> |-> SerializeRecord(<<>>[i])] = <<>>
  OBVIOUS
<1>2. [i \in DOMAIN <<>> |-> SerializeMap(<<>>[i])] = <<>>
  OBVIOUS
<1>3. FlattenSeq(<<>>) = <<>>
  BY DEF FlattenSeq
<1>4. Magic \o <<>> = Magic
  BY MagicAssumption DEF Bytes
<1> QED
  BY <1>1, <1>2, <1>3, <1>4 DEF SerializeRecords, Serialize

\* The text of a map starts with that of its first records.
LEMMA RecordsPrefix ==
    ASSUME NEW m \in Map, NEW k \in 0..Len(m)
    PROVE  \E rest \in Bytes : SerializeRecords(m) = SerializeRecords(SubSeq(m, 1, k)) \o rest
<1> DEFINE s == [i \in DOMAIN m |-> SerializeRecord(m[i])]
           p == SubSeq(m, 1, k)
<1>1. s \in Seq(Bytes) /\ Len(s) = Len(m) /\ \A i \in 1..Len(m) : s[i] = SerializeRecord(m[i])
  <2>1. s \in Seq(Bytes)
    BY SerializeMapType
  <2> QED
    BY <2>1 DEF Map
<1>2. p \in Map /\ Len(p) = k /\ \A i \in 1..k : p[i] = m[i]
  BY DEF Map
<1>3. SubSeq(s, 1, k) = [i \in DOMAIN p |-> SerializeRecord(p[i])]
  <2> HIDE DEF s, p
  <2>1. DOMAIN p = 1..k /\ k \in Nat /\ k <= Len(s)
    BY <1>1, <1>2 DEF Map
  <2>2. SubSeq(s, 1, k) = [i \in 1..k |-> s[i]]
    BY <1>1, <2>1
  <2>3. \A i \in 1..k : i \in 1..Len(m) /\ s[i] = SerializeRecord(p[i])
    BY <1>1, <1>2, <2>1
  <2> QED
    BY <2>1, <2>2, <2>3
<1> HIDE DEF s, p
<1>4. \E rest \in Bytes : FlattenSeq(s) = FlattenSeq(SubSeq(s, 1, k)) \o rest
  <2>1. k \in 0..Len(s)
    BY <1>1
  <2> QED
    BY <1>1, <2>1, FlattenPrefix DEF Bytes
<1> QED
  BY <1>3, <1>4, Zenon DEF SerializeRecords, s, p

\* The text of a container starts with that of its first maps.
LEMMA MapsPrefix ==
    ASSUME NEW ms \in Seq(Map), NEW k \in 0..Len(ms)
    PROVE  \E rest \in Bytes : Serialize(ms) = Serialize(SubSeq(ms, 1, k)) \o rest
<1> DEFINE s == [i \in DOMAIN ms |-> SerializeMap(ms[i])]
           p == SubSeq(ms, 1, k)
<1>1. s \in Seq(Bytes) /\ Len(s) = Len(ms) /\ \A i \in 1..Len(ms) : s[i] = SerializeMap(ms[i])
  <2>1. s \in Seq(Bytes)
    BY SerializeType
  <2> QED
    BY <2>1
<1>2. p \in Seq(Map) /\ Len(p) = k /\ \A i \in 1..k : p[i] = ms[i]
  OBVIOUS
<1>3. SubSeq(s, 1, k) = [i \in DOMAIN p |-> SerializeMap(p[i])]
  <2> HIDE DEF s, p
  <2>1. DOMAIN p = 1..k /\ k \in Nat /\ k <= Len(s)
    BY <1>1, <1>2
  <2>2. SubSeq(s, 1, k) = [i \in 1..k |-> s[i]]
    BY <1>1, <2>1
  <2>3. \A i \in 1..k : i \in 1..Len(ms) /\ s[i] = SerializeMap(p[i])
    BY <1>1, <1>2, <2>1
  <2> QED
    BY <2>1, <2>2, <2>3
<1> HIDE DEF s, p
<1>4. PICK rest \in Bytes : FlattenSeq(s) = FlattenSeq(SubSeq(s, 1, k)) \o rest
  <2>1. k \in 0..Len(s)
    BY <1>1
  <2> QED
    BY <1>1, <2>1, FlattenPrefix DEF Bytes
<1>5. FlattenSeq(SubSeq(s, 1, k)) \in Bytes
  <2>1. SubSeq(s, 1, k) \in Seq(Seq(Byte))
    BY <1>1, <1>2 DEF Bytes
  <2> QED
    BY <2>1, FlattenType DEF Bytes
<1>6. Magic \o (FlattenSeq(SubSeq(s, 1, k)) \o rest) = (Magic \o FlattenSeq(SubSeq(s, 1, k))) \o rest
  <2>1. ASSUME NEW x \in Bytes, NEW y \in Bytes, NEW z \in Bytes
        PROVE  x \o (y \o z) = (x \o y) \o z
    BY DEF Bytes
  <2> QED
    BY <1>5, <2>1, MagicAssumption, Zenon
<1> QED
  BY <1>3, <1>4, <1>6, Zenon DEF Serialize, s, p

\* And what is left of it after max_size: all of it, or its first bytes.
LEMMA FittedType ==
    ASSUME NEW out \in Bytes, maxSize \in Nat
    PROVE  /\ Fitted(out) \in Bytes
           /\ Len(Fitted(out)) = IF Len(out) > maxSize THEN maxSize ELSE Len(out)
           /\ \A i \in 1..Len(Fitted(out)) : Fitted(out)[i] = out[i]
           /\ ~(Len(out) > maxSize) => Fitted(out) = out
<1>1. CASE Len(out) > maxSize
  <2>1. Fitted(out) = SubSeq(out, 1, maxSize)
    BY <1>1 DEF Fitted
  <2>2. /\ SubSeq(out, 1, maxSize) \in Bytes
        /\ Len(SubSeq(out, 1, maxSize)) = maxSize
        /\ \A i \in 1..maxSize : SubSeq(out, 1, maxSize)[i] = out[i]
    BY <1>1 DEF Bytes
  <2> QED
    BY <1>1, <2>1, <2>2
<1>2. CASE ~(Len(out) > maxSize)
  BY <1>2 DEF Fitted
<1> QED
  BY <1>1, <1>2

(***************************************************************************)
(* The inductive invariant: types, with every record in hand keyed, and    *)
(* its lengths below what eight digits hold, with room for what the        *)
(* mutations still to come may add.                                        *)
(***************************************************************************)
Sized(n) ==
    {r \in Record : /\ r.key # <<>>
                    /\ Len(r.key) < EightDigits
                    /\ Len(r.value) + n * Growth < EightDigits}

Reading == phase \in {"parse", "parsed"}

ToCome == IF Reading THEN 3 ELSE left

IInv ==
    /\ buf \in Bytes
    /\ phase \in {"idle", "parse", "parsed", "mutate"}
    /\ offset \in Nat \ {0}
    /\ maps \in Seq(Seq(Sized(ToCome)))
    /\ current \in Seq(Sized(3))
    /\ left \in 0..3
    /\ maxSize \in MaxSizes \cup {0}
    /\ made \in Seq(Seq(Sized(0)))
    /\ cut \in BOOLEAN
    /\ calls \in 0..MaxCalls
    /\ phase = "mutate" => maps # <<>>
    /\ Reading => maxSize \in MaxSizes /\ Len(buf) <= maxSize
    /\ OutputFits

\* Room for more mutations is room for fewer, and sized records are records.
LEMMA SizedMaps ==
    ASSUME NEW n \in Nat, NEW k \in 0..n
    PROVE  /\ Sized(n) \subseteq Sized(k)
           /\ Seq(Sized(n)) \subseteq Seq(Sized(k))
           /\ Seq(Seq(Sized(n))) \subseteq Seq(Seq(Sized(k)))
           /\ Seq(Sized(n)) \subseteq Map
           /\ Seq(Seq(Sized(n))) \subseteq Seq(Map)
<1>1. Sized(n) \subseteq Sized(k)
  <2>1. k * Growth <= n * Growth /\ k * Growth \in Nat /\ n * Growth \in Nat
    <3>1. ASSUME NEW g \in Nat, NEW d \in Nat
          PROVE  (k + d) * g = k * g + d * g /\ k * g \in Nat /\ d * g \in Nat
      OBVIOUS
    <3>2. n - k \in Nat /\ k + (n - k) = n /\ Growth \in Nat
      BY BoundsAssumption
    <3>3. n * Growth = k * Growth + (n - k) * Growth /\ k * Growth \in Nat /\ (n - k) * Growth \in Nat
      BY <3>1, <3>2, Zenon
    <3> QED
      BY <3>3
  <2>2. ASSUME NEW r \in Record PROVE Len(r.value) \in Nat
    BY DEF Record, Bytes
  <2> QED
    BY <2>1, <2>2, CountOrder DEF Sized
<1>2. Sized(n) \subseteq Record
  BY DEF Sized
<1>3. \A S, T : S \subseteq T => Seq(S) \subseteq Seq(T)
  OBVIOUS
<1>4. Seq(Sized(n)) \subseteq Seq(Sized(k)) /\ Seq(Sized(n)) \subseteq Map
  BY <1>1, <1>2, <1>3, Zenon DEF Map
<1> QED
  BY <1>1, <1>3, <1>4, Zenon

\* The constants' records are sized.
LEMMA WritableSized ==
    ASSUME NEW r \in Record, Writable(r)
    PROVE  r \in Sized(3)
BY DEF Writable, Sized

LEMMA TemplateSized == Template \in Seq(Seq(Sized(3)))
<1>1. ASSUME NEW i \in 1..Len(Template)
      PROVE  Template[i] \in Seq(Sized(3))
  <2>1. Template[i] \in Seq(Record)
    BY TemplateAssumption DEF Map
  <2>2. ASSUME NEW j \in 1..Len(Template[i]) PROVE Template[i][j] \in Sized(3)
    <3>1. Template[i][j] \in Record
      BY <2>1
    <3>2. i \in DOMAIN Template /\ j \in DOMAIN Template[i]
      BY <2>1, TemplateAssumption
    <3>3. Writable(Template[i][j])
      BY <3>2, TemplateAssumption, Zenon
    <3> QED
      BY <3>1, <3>3, WritableSized
  <2> QED
    BY <2>1, <2>2
<1> QED
  BY <1>1, TemplateAssumption

\* The invariant implies the two that the runs check.
LEMMA IInvImplies == IInv => TypeOK /\ Structured
<1> SUFFICES ASSUME IInv PROVE TypeOK /\ Structured
  OBVIOUS
<1>0. ToCome \in Nat /\ 0 \in 0..ToCome
  BY DEF ToCome, IInv
<1>1. maps \in Seq(Map) /\ current \in Map /\ made \in Seq(Map)
  <2>1. Seq(Seq(Sized(ToCome))) \subseteq Seq(Map)
    BY <1>0, SizedMaps
  <2>2. Seq(Seq(Sized(0))) \subseteq Seq(Map) /\ Seq(Sized(3)) \subseteq Map
    BY 0 \in Nat, 0 \in 0..0, 3 \in Nat, 3 \in 0..3, SizedMaps
  <2> QED
    BY <2>1, <2>2 DEF IInv
<1>2. \A i \in DOMAIN maps : \A j \in DOMAIN maps[i] : maps[i][j].key # <<>>
  <2>1. ASSUME NEW i \in DOMAIN maps, NEW j \in DOMAIN maps[i]
        PROVE  maps[i][j] \in Sized(ToCome)
    <3>1. maps[i] \in Seq(Sized(ToCome))
      BY DEF IInv
    <3> QED
      BY <3>1
  <2> QED
    BY <2>1 DEF Sized
<1> QED
  BY <1>1, <1>2 DEF IInv, TypeOK, Structured

\* What the mutator returns is bytes, no more than max_size of them.
LEMMA ReturnedFits ==
    ASSUME NEW ms \in Seq(Map), maxSize \in Nat, ReturnBuffer(ms), UNCHANGED maxSize
    PROVE  buf' \in Bytes /\ cut' \in BOOLEAN /\ OutputFits'
<1>1. Serialize(ms) \in Bytes
  BY SerializeType
<1>2. /\ Fitted(Serialize(ms)) \in Bytes
      /\ Len(Fitted(Serialize(ms))) =
             IF Len(Serialize(ms)) > maxSize THEN maxSize ELSE Len(Serialize(ms))
  BY <1>1, FittedType
<1>3. Len(Serialize(ms)) \in Nat
  BY <1>1 DEF Bytes
<1>4. buf' = Fitted(Serialize(ms)) /\ made' = ms /\ maxSize' = maxSize /\ cut' \in BOOLEAN
  BY DEF ReturnBuffer
<1>5. Serialize(made)' = Serialize(ms)
  BY <1>4 DEF Serialize
<1>6. Len(buf)' <= maxSize' /\ (Len(buf)' < Len(Serialize(made))' => Len(buf)' = maxSize')
  BY <1>2, <1>3, <1>4, <1>5
<1> QED
  BY <1>2, <1>4, <1>6 DEF OutputFits

\* Taking an element out of a sequence.
LEMMA RemoveAtType ==
    ASSUME NEW S, NEW s \in Seq(S), NEW i \in DOMAIN s
    PROVE  RemoveAt(s, i) \in Seq(S) /\ Len(RemoveAt(s, i)) = Len(s) - 1
BY DEF RemoveAt

\* Reading n elements from position i on.
LEMMA SubSeqType ==
    ASSUME NEW S, NEW s \in Seq(S), NEW i \in Nat \ {0}, NEW n \in Nat,
           i + n <= Len(s) + 1
    PROVE  SubSeq(s, i, i + n - 1) \in Seq(S) /\ Len(SubSeq(s, i, i + n - 1)) = n
OBVIOUS

\* The maps with one of them replaced.
LEMMA ReplaceMap ==
    ASSUME NEW S, NEW s \in Seq(S), NEW i \in DOMAIN s, NEW x \in S
    PROVE  [s EXCEPT ![i] = x] \in Seq(S) /\ Len([s EXCEPT ![i] = x]) = Len(s)
OBVIOUS

\* It holds at the start.
LEMMA InitIInv == Init => IInv
<1> SUFFICES ASSUME Init PROVE IInv
  OBVIOUS
<1>1. buf \in Bytes
  BY CorpusAssumption DEF Init
<1>2. maps \in Seq(Seq(Sized(ToCome))) /\ current \in Seq(Sized(3)) /\ made \in Seq(Seq(Sized(0)))
  BY DEF Init
<1>3. 0 \in 0..MaxCalls /\ calls = 0
  BY BoundsAssumption DEF Init
<1>4. OutputFits
  BY DEF Init, OutputFits
<1>5. cut \in BOOLEAN
  BY DEF Init
<1>6. /\ phase \in {"idle", "parse", "parsed", "mutate"}
      /\ phase # "mutate"
      /\ ~Reading
      /\ offset \in Nat \ {0}
      /\ left \in 0..3
      /\ maxSize \in MaxSizes \cup {0}
  BY DEF Init, Reading
<1> QED
  BY <1>1, <1>2, <1>3, <1>4, <1>5, <1>6 DEF IInv

\* A mutation that leaves sequences of records sized for one mutation less,
\* at least one of them, keeps the invariant.
LEMMA MutationStep ==
    ASSUME IInv, Mutates, maps' \in Seq(Seq(Sized(left - 1))), maps' # <<>>
    PROVE  IInv'
<1>1. left' \in 0..3 /\ left' = left - 1 /\ phase = "mutate" /\ phase' = "mutate"
  BY DEF IInv, Mutates
<1>2. OutputFits'
  BY DEF Mutates, OutputFits
<1>3. ~Reading' /\ ToCome' = left - 1
  BY <1>1 DEF Reading, ToCome
<1>4. maps' \in Seq(Seq(Sized(ToCome')))
  BY <1>3
<1> QED
  BY <1>1, <1>2, <1>3, <1>4 DEF IInv, Mutates

\* Where the parser is, and what it reads there.
Here ==
    [key   |-> SubSeq(buf, KeyStart, KeyStart + KeyLength.value - 1),
     value |-> SubSeq(buf, ValueStart, ValueStart + ValueLength.value - 1)]

LEMMA RecordRead ==
    ASSUME IInv, Reading, AtRecord
    PROVE  /\ KeyStart \in Nat \ {0} /\ ValueStart \in Nat \ {0}
           /\ KeyLength.value \in Nat \ {0} /\ ValueLength.value \in Nat
           /\ KeyStart + KeyLength.value <= Len(buf) + 1
           /\ ValueStart + ValueLength.value <= Len(buf) + 1
           /\ Here \in Sized(3)
           /\ Len(Here.key) = KeyLength.value /\ Len(Here.value) = ValueLength.value
<1>0. /\ KeyLength.value # 0
      /\ KeyLength.value <= Len(buf) - KeyStart + 1
      /\ ValueLength.value <= Len(buf) - ValueStart + 1
  BY DEF AtRecord, Available
<1>1. /\ KeyLength.value \in Nat \ {0}
      /\ KeyStart \in Nat \ {0}
      /\ KeyStart + KeyLength.value <= Len(buf) + 1
  <2>1. offset \in Nat \ {0} /\ buf \in Bytes /\ Len(buf) \in Nat
    BY DEF IInv, Bytes
  <2>2. KeyLength.value \in Nat /\ KeyLength.bytes_read \in Nat
    BY <2>1, DecodeType DEF KeyLength
  <2> QED
    BY <1>0, <2>1, <2>2 DEF KeyStart
<1>2. /\ ValueLength.value \in Nat
      /\ ValueStart \in Nat \ {0}
      /\ ValueStart + ValueLength.value <= Len(buf) + 1
  <2>1. KeyStart + KeyLength.value \in Nat \ {0} /\ buf \in Bytes /\ Len(buf) \in Nat
    BY <1>1 DEF IInv, Bytes
  <2>2. ValueLength.value \in Nat /\ ValueLength.bytes_read \in Nat
    BY <2>1, DecodeType DEF ValueLength
  <2>3. ASSUME NEW k \in Nat \ {0}, NEW v \in Nat, NEW r \in Nat, NEW l \in Nat,
               v <= l - (k + r) + 1
        PROVE  k + r \in Nat \ {0} /\ (k + r) + v <= l + 1
    BY <2>3
  <2>4. ValueStart = (KeyStart + KeyLength.value) + ValueLength.bytes_read
    BY DEF ValueStart
  <2>5. ValueLength.value <=
            Len(buf) - ((KeyStart + KeyLength.value) + ValueLength.bytes_read) + 1
    BY <1>0, <2>4
  <2> QED
    BY <2>1, <2>2, <2>3, <2>4, <2>5
<1> DEFINE key == SubSeq(buf, KeyStart, KeyStart + KeyLength.value - 1)
           value == SubSeq(buf, ValueStart, ValueStart + ValueLength.value - 1)
<1>3. buf \in Seq(Byte) /\ Len(buf) \in Nat
  BY DEF IInv, Bytes
<1>4. key \in Bytes /\ Len(key) = KeyLength.value
  BY <1>1, <1>3, SubSeqType DEF Bytes
<1>5. value \in Bytes /\ Len(value) = ValueLength.value
  BY <1>2, <1>3, SubSeqType DEF Bytes
<1>6. Len(buf) + 3 * Growth < EightDigits
  <2>1. maxSize \in Nat /\ Len(buf) <= maxSize /\ maxSize + 3 * Growth < EightDigits
    BY BoundsAssumption DEF IInv
  <2> QED
    BY <1>3, <2>1, BoundsAssumption, CountOrder
<1>7. KeyLength.value <= Len(buf) /\ ValueLength.value <= Len(buf)
  BY <1>1, <1>2, <1>3
<1>8. KeyLength.value < EightDigits /\ ValueLength.value + 3 * Growth < EightDigits
  BY <1>1, <1>2, <1>3, <1>6, <1>7, BoundsAssumption, CountOrder
<1> HIDE DEF key, value
<1>9. key # <<>>
  BY <1>1, <1>4
<1>10. [key |-> key, value |-> value] \in Sized(3)
  BY <1>4, <1>5, <1>8, <1>9 DEF Sized, Record
<1>11. Here = [key |-> key, value |-> value]
  BY DEF Here, key, value
<1> QED
  BY <1>1, <1>2, <1>4, <1>5, <1>10, <1>11

\* Each step of parsing and returning keeps it.
LEMMA ParsingStep ==
    ASSUME IInv,
           \/ PickInput \/ BeginCall \/ ReadRecord \/ CloseMap \/ StopParsing
           \/ UseTemplate \/ BeginMutations \/ Finish
    PROVE  IInv'
<1>0. maxSize \in Nat /\ maps \in Seq(Map)
  BY BoundsAssumption, IInvImplies DEF IInv, TypeOK
<1>1. CASE PickInput
  <2>1. buf' \in Bytes
    BY <1>1, CorpusAssumption DEF PickInput
  <2>2. made' = <<>> /\ cut' \in BOOLEAN
    BY <1>1 DEF PickInput
  <2>3. OutputFits'
    BY <2>2 DEF OutputFits
  <2>4. made' \in Seq(Seq(Sized(0)))
    BY <2>2
  <2>5. ~Reading /\ ~Reading' /\ ToCome' = ToCome
    BY <1>1 DEF PickInput, Reading, ToCome
  <2>6. maps' \in Seq(Seq(Sized(ToCome')))
    BY <1>1, <2>5 DEF PickInput, IInv
  <2> QED
    BY <1>1, <2>1, <2>2, <2>3, <2>4, <2>5, <2>6 DEF PickInput, IInv
<1>2. CASE BeginCall
  <2>1. maxSize' \in MaxSizes /\ buf' = buf /\ Len(buf) <= maxSize'
    BY <1>2 DEF BeginCall
  <2>2. calls' \in 0..MaxCalls
    BY <1>2, BoundsAssumption DEF BeginCall, IInv
  <2>3. phase' \in {"parse", "parsed"}
    BY <1>2 DEF BeginCall
  <2>4. OutputFits'
    BY <2>3 DEF OutputFits
  <2>5. offset' \in Nat \ {0}
    BY <1>2, MagicAssumption DEF BeginCall, Bytes
  <2>6. maps' \in Seq(Seq(Sized(ToCome'))) /\ current' \in Seq(Sized(3))
    BY <1>2 DEF BeginCall
  <2> QED
    BY <1>2, <2>1, <2>2, <2>3, <2>4, <2>5, <2>6 DEF BeginCall, IInv
<1>3. CASE ReadRecord
  <2>1. Reading /\ Reading' /\ ToCome' = ToCome /\ AtRecord
    BY <1>3 DEF ReadRecord, Reading, ToCome
  <2>2. /\ Here \in Sized(3)
        /\ ValueStart \in Nat \ {0} /\ ValueLength.value \in Nat
    BY <2>1, RecordRead
  <2>3. current' = Append(current, Here) /\ offset' = ValueStart + ValueLength.value
    BY <1>3 DEF ReadRecord, Here
  <2>4. current' \in Seq(Sized(3))
    BY <2>2, <2>3 DEF IInv
  <2>5. offset' \in Nat \ {0}
    BY <2>2, <2>3
  <2>6. OutputFits'
    BY <1>3 DEF ReadRecord, OutputFits
  <2>7. maps' \in Seq(Seq(Sized(ToCome')))
    BY <1>3, <2>1 DEF ReadRecord, IInv
  <2> QED
    BY <1>3, <2>1, <2>4, <2>5, <2>6, <2>7 DEF ReadRecord, IInv
<1>4. CASE CloseMap
  <2>1. offset' \in Nat \ {0}
    <3>1. offset \in Nat \ {0} /\ buf \in Bytes
      BY DEF IInv
    <3>2. KeyLength.bytes_read \in Nat
      BY <3>1, DecodeType DEF KeyLength
    <3> QED
      BY <1>4, <3>1, <3>2 DEF CloseMap, KeyStart
  <2>2. Reading /\ Reading' /\ ToCome = 3 /\ ToCome' = 3
    BY <1>4 DEF CloseMap, Reading, ToCome
  <2>3. maps' \in Seq(Seq(Sized(3))) /\ current' \in Seq(Sized(3))
    <3>1. maps \in Seq(Seq(Sized(3))) /\ current \in Seq(Sized(3))
      BY <2>2 DEF IInv
    <3> QED
      BY <1>4, <3>1 DEF CloseMap
  <2>4. OutputFits'
    BY <1>4 DEF CloseMap, OutputFits
  <2>5. maps' \in Seq(Seq(Sized(ToCome')))
    BY <2>2, <2>3
  <2> QED
    BY <1>4, <2>1, <2>2, <2>3, <2>4, <2>5 DEF CloseMap, IInv
<1>5. CASE StopParsing
  <2>1. Reading /\ Reading' /\ ToCome' = ToCome
    BY <1>5 DEF StopParsing, Reading, ToCome
  <2>2. OutputFits'
    BY <1>5 DEF StopParsing, OutputFits
  <2>3. maps' \in Seq(Seq(Sized(ToCome')))
    BY <1>5, <2>1 DEF StopParsing, IInv
  <2> QED
    BY <1>5, <2>1, <2>2, <2>3 DEF StopParsing, IInv
<1>6. CASE UseTemplate
  <2>1. buf' \in Bytes /\ cut' \in BOOLEAN /\ OutputFits'
    BY <1>0, <1>6, ReturnedFits, TemplateAssumption DEF UseTemplate
  <2>2. made' = Template /\ phase' = "idle" /\ maps' = <<>>
    BY <1>6 DEF UseTemplate, ReturnBuffer
  <2>3. made' \in Seq(Seq(Sized(0)))
    <3>1. Seq(Seq(Sized(3))) \subseteq Seq(Seq(Sized(0)))
      BY 3 \in Nat, 0 \in 0..3, SizedMaps
    <3> QED
      BY <2>2, <3>1, TemplateSized
  <2>4. maps' \in Seq(Seq(Sized(ToCome')))
    BY <2>2
  <2>5. ~Reading'
    BY <2>2 DEF Reading
  <2> QED
    BY <1>6, <2>1, <2>2, <2>3, <2>4, <2>5 DEF UseTemplate, IInv
<1>7. CASE BeginMutations
  <2>1. left' \in 0..3
    BY <1>7, BoundsAssumption DEF BeginMutations
  <2>2. OutputFits'
    BY <1>7 DEF BeginMutations, OutputFits
  <2>3. ~Reading' /\ ToCome' = left' /\ ToCome = 3
    BY <1>7 DEF BeginMutations, Reading, ToCome
  <2>4. maps' \in Seq(Seq(Sized(ToCome')))
    <3>1. Seq(Seq(Sized(3))) \subseteq Seq(Seq(Sized(left')))
      BY <2>1, 3 \in Nat, SizedMaps
    <3> QED
      BY <1>7, <2>3, <3>1 DEF BeginMutations, IInv
  <2> QED
    BY <1>7, <2>1, <2>2, <2>3, <2>4 DEF BeginMutations, IInv
<1>8. CASE Finish
  <2>1. buf' \in Bytes /\ cut' \in BOOLEAN /\ OutputFits'
    BY <1>0, <1>8, ReturnedFits DEF Finish
  <2>2. made' = maps /\ phase' = "idle" /\ maps' = maps /\ left' = 0 /\ phase = "mutate" /\ left = 0
    BY <1>8 DEF Finish, ReturnBuffer
  <2>3. ~Reading' /\ ToCome = 0 /\ ToCome' = 0
    BY <2>2 DEF Reading, ToCome
  <2>4. maps' \in Seq(Seq(Sized(ToCome'))) /\ made' \in Seq(Seq(Sized(0)))
    BY <2>2, <2>3 DEF IInv
  <2> QED
    BY <1>8, <2>1, <2>2, <2>3, <2>4 DEF Finish, IInv
<1> QED
  BY <1>1, <1>2, <1>3, <1>4, <1>5, <1>6, <1>7, <1>8

\* A map with a record in place of one of its records.
LEMMA ReplacedRecord ==
    ASSUME NEW S, NEW ms \in Seq(Seq(S)), NEW i \in DOMAIN ms, NEW j \in DOMAIN ms[i], NEW r \in S
    PROVE  LET new == [ms EXCEPT ![i] = [ms[i] EXCEPT ![j] = r]]
           IN  new \in Seq(Seq(S)) /\ Len(new) = Len(ms)
<1>1. ms[i] \in Seq(S)
  OBVIOUS
<1>2. [ms[i] EXCEPT ![j] = r] \in Seq(S)
  BY <1>1, ReplaceMap
<1> QED
  BY <1>2, ReplaceMap

\* Each mutation keeps the invariant.
LEMMA MutatingStep ==
    ASSUME IInv, NEW i \in DOMAIN maps,
           \/ MutateNothing(i) \/ InsertKnown(i) \/ RemoveMap(i)
           \/ \E j \in DOMAIN maps[i] :
                  \/ MutateValue(i, j) \/ MutateKey(i, j)
                  \/ RemoveRecord(i, j) \/ DuplicateRecord(i, j)
    PROVE  IInv'
<1>0. Mutates
  BY DEF MutateNothing, InsertKnown, RemoveMap, MutateValue, MutateKey, RemoveRecord, DuplicateRecord
<1> DEFINE S == Sized(left - 1)
<1>1. /\ maps \in Seq(Seq(S)) /\ maps # <<>> /\ maps[i] \in Seq(S)
      /\ maps \in Seq(Seq(Sized(left))) /\ maps[i] \in Seq(Sized(left))
      /\ left \in 1..3 /\ Sized(3) \subseteq S
  <2>1. left \in 1..3 /\ phase = "mutate" /\ ToCome = left
    BY <1>0 DEF Mutates, IInv, ToCome, Reading
  <2>2. left \in Nat /\ left - 1 \in 0..left /\ 3 \in Nat /\ left - 1 \in 0..3
    BY <2>1
  <2>3. maps \in Seq(Seq(Sized(left))) /\ maps # <<>>
    BY <2>1 DEF IInv
  <2>4. Seq(Seq(Sized(left))) \subseteq Seq(Seq(S)) /\ Sized(3) \subseteq S
    BY <2>2, SizedMaps
  <2> HIDE DEF S
  <2>5. maps \in Seq(Seq(S))
    BY <2>3, <2>4
  <2> QED
    BY <2>1, <2>3, <2>4, <2>5
<1> HIDE DEF S
<1>2. ASSUME NEW m \in Seq(S), maps' = [maps EXCEPT ![i] = m]
      PROVE  maps' \in Seq(Seq(S)) /\ maps' # <<>>
  <2>1. maps' \in Seq(Seq(S)) /\ Len(maps') = Len(maps)
    BY <1>1, <1>2, ReplaceMap
  <2> QED
    BY <1>1, <2>1
<1>3. ASSUME NEW j \in DOMAIN maps[i], NEW r \in S,
             maps' = [maps EXCEPT ![i] = [maps[i] EXCEPT ![j] = r]]
      PROVE  maps' \in Seq(Seq(S)) /\ maps' # <<>>
  <2>1. maps' \in Seq(Seq(S)) /\ Len(maps') = Len(maps)
    BY <1>1, <1>3, ReplacedRecord
  <2> QED
    BY <1>1, <2>1
<1>4. ASSUME maps' \in Seq(Seq(S)), maps' # <<>> PROVE IInv'
  BY <1>0, <1>4, MutationStep DEF S
<1>5. CASE MutateNothing(i)
  BY <1>1, <1>4, <1>5 DEF MutateNothing
<1>6. CASE InsertKnown(i)
  <2>1. PICK r \in KnownRecords : maps' = [maps EXCEPT ![i] = Append(@, r)]
    BY <1>6 DEF InsertKnown
  <2>2. r \in S
    BY <1>1, KnownRecordsAssumption, WritableSized
  <2>3. Append(maps[i], r) \in Seq(S)
    BY <1>1, <2>2
  <2>4. maps' = [maps EXCEPT ![i] = Append(maps[i], r)]
    BY <2>1
  <2> QED
    BY <1>2, <1>4, <2>3, <2>4
<1>7. CASE RemoveMap(i)
  <2>1. maps' = RemoveAt(maps, i) /\ Len(maps) > 1
    BY <1>7 DEF RemoveMap
  <2>2. maps' \in Seq(Seq(S)) /\ Len(maps') = Len(maps) - 1
    BY <1>1, <2>1, RemoveAtType
  <2>3. maps' # <<>>
    BY <1>1, <2>1, <2>2
  <2> QED
    BY <1>4, <2>2, <2>3
<1>8. ASSUME NEW j \in DOMAIN maps[i], MutateValue(i, j) PROVE IInv'
  <2>1. PICK s \in Mutated(Len(maps[i][j].value) + Growth) :
            maps' = [maps EXCEPT ![i][j].value = s]
    BY <1>8 DEF MutateValue
  <2>2. s \in Bytes /\ Len(s) \in 1..(Len(maps[i][j].value) + Growth)
    BY ScribblesAssumption DEF Mutated
  <2>3. maps[i][j] \in Sized(left)
    BY <1>1
  <2>4. [maps[i][j] EXCEPT !.value = s] \in S
    <3>1. Len(s) + (left - 1) * Growth < EightDigits
      <4>1. ASSUME NEW n \in 1..3, NEW g \in Nat
            PROVE  n * g = (n - 1) * g + g /\ (n - 1) * g \in Nat
        OBVIOUS
      <4>2. left * Growth = (left - 1) * Growth + Growth /\ (left - 1) * Growth \in Nat
        BY <1>1, <4>1, BoundsAssumption
      <4>3. Len(maps[i][j].value) + left * Growth < EightDigits /\ Len(maps[i][j].value) \in Nat
        BY <2>3 DEF Sized, Record, Bytes
      <4>4. Len(s) \in Nat /\ Len(s) <= Len(maps[i][j].value) + Growth
        BY <2>2, <4>3, BoundsAssumption
      <4> QED
        BY <4>2, <4>3, <4>4, BoundsAssumption, CountOrder
    <3> QED
      BY <2>2, <2>3, <3>1 DEF Sized, Record, S
  <2>5. maps' = [maps EXCEPT ![i] = [maps[i] EXCEPT ![j] = [maps[i][j] EXCEPT !.value = s]]]
    BY <2>1
  <2> QED
    BY <1>3, <1>4, <2>4, <2>5
<1>9. ASSUME NEW j \in DOMAIN maps[i], MutateKey(i, j) PROVE IInv'
  <2>1. PICK s \in Mutated(Len(maps[i][j].key)) :
            maps' = [maps EXCEPT ![i][j].key =
                         [k \in DOMAIN @ |-> IF k <= Len(s) THEN s[k] ELSE @[k]]]
    BY <1>9 DEF MutateKey
  <2>2. s \in Bytes
    BY ScribblesAssumption DEF Mutated
  <2>3. maps[i][j] \in S /\ maps[i][j].key \in Bytes /\ maps[i][j].key # <<>>
    <3>1. maps[i][j] \in S
      BY <1>1
    <3> QED
      BY <3>1 DEF Sized, Record, S
  <2> DEFINE key == [k \in DOMAIN maps[i][j].key |->
                         IF k <= Len(s) THEN s[k] ELSE maps[i][j].key[k]]
  <2>4. key \in Bytes /\ key # <<>> /\ Len(key) = Len(maps[i][j].key)
    <3>1. ASSUME NEW old \in Bytes, old # <<>>
          PROVE  LET new == [k \in DOMAIN old |-> IF k <= Len(s) THEN s[k] ELSE old[k]]
                 IN  new \in Bytes /\ new # <<>> /\ Len(new) = Len(old)
      <4>1. ASSUME NEW k \in DOMAIN old
            PROVE  (IF k <= Len(s) THEN s[k] ELSE old[k]) \in Byte
        BY <2>2, <3>1 DEF Bytes
      <4>2. DOMAIN old = 1..Len(old) /\ Len(old) \in Nat \ {0}
        BY <3>1 DEF Bytes
      <4> QED
        BY <4>1, <4>2 DEF Bytes
    <3> QED
      BY <2>3, <3>1
  <2>5. [maps[i][j] EXCEPT !.key = key] \in S
    <3> HIDE DEF key
    <3> QED
      BY <2>3, <2>4 DEF Sized, Record, S
  <2>6. maps' = [maps EXCEPT ![i] = [maps[i] EXCEPT ![j] = [maps[i][j] EXCEPT !.key = key]]]
    BY <2>1
  <2> HIDE DEF key
  <2> QED
    BY <1>3, <1>4, <2>5, <2>6
<1>10. ASSUME NEW j \in DOMAIN maps[i], RemoveRecord(i, j) PROVE IInv'
  <2>1. maps' = [maps EXCEPT ![i] = RemoveAt(maps[i], j)]
    BY <1>10 DEF RemoveRecord
  <2>2. RemoveAt(maps[i], j) \in Seq(S)
    BY <1>1, RemoveAtType
  <2> QED
    BY <1>2, <1>4, <2>1, <2>2
<1>11. ASSUME NEW j \in DOMAIN maps[i], DuplicateRecord(i, j) PROVE IInv'
  <2>1. maps' = [maps EXCEPT ![i] = Append(maps[i], maps[i][j])]
    BY <1>11 DEF DuplicateRecord
  <2>2. Append(maps[i], maps[i][j]) \in Seq(S)
    BY <1>1
  <2> QED
    BY <1>2, <1>4, <2>1, <2>2
<1> QED
  BY <1>5, <1>6, <1>7, <1>8, <1>9, <1>10, <1>11

\* Every step keeps the invariant.
LEMMA NextIInv == IInv /\ [Next]_vars => IInv'
<1> SUFFICES ASSUME IInv, [Next]_vars PROVE IInv'
  OBVIOUS
<1>1. CASE UNCHANGED vars
  BY <1>1 DEF vars, IInv, OutputFits, Reading, ToCome
<1>2. CASE AddMap
  <2>1. left \in 1..3 /\ maps \in Seq(Seq(Sized(left)))
    BY <1>2 DEF AddMap, Mutates, IInv, ToCome, Reading
  <2>2. Seq(Seq(Sized(left))) \subseteq Seq(Seq(Sized(left - 1)))
    <3>1. left \in Nat /\ left - 1 \in 0..left
      BY <2>1
    <3> QED
      BY <3>1, SizedMaps
  <2>3. maps \in Seq(Seq(Sized(left - 1))) /\ maps' = Append(maps, <<>>)
    BY <1>2, <2>1, <2>2 DEF AddMap
  <2>4. maps' \in Seq(Seq(Sized(left - 1))) /\ maps' # <<>>
    BY <2>3
  <2> QED
    BY <1>2, <2>4, MutationStep DEF AddMap
<1> QED
  BY <1>1, <1>2, ParsingStep, MutatingStep DEF Next

\* The invariant always holds.
LEMMA AlwaysIInv == Spec => []IInv
BY InitIInv, NextIInv, PTL DEF Spec

(***************************************************************************)
(* The parser reads a canonical text                                       *)
(***************************************************************************)

\* What was read so far, written again.
Text == Serialize(maps) \o SerializeRecords(current)

\* It stands at the start of the buffer, and the parser is right behind it.
Canonical ==
    phase = "parse" => offset = Len(Text) + 1 /\ Stands(Text, buf, 1)

LEMMA TextType ==
    ASSUME IInv
    PROVE  /\ maps \in Seq(Map) /\ current \in Map
           /\ Serialize(maps) \in Bytes /\ SerializeRecords(current) \in Bytes
           /\ Text \in Bytes /\ Len(Text) \in Nat
<1>1. maps \in Seq(Map) /\ current \in Map
  BY IInvImplies DEF TypeOK
<1>2. Serialize(maps) \in Bytes /\ SerializeRecords(current) \in Bytes
  BY <1>1, SerializeType, SerializeMapType
<1>3. \A s, t \in Bytes : s \o t \in Bytes /\ Len(s \o t) \in Nat
  BY DEF Bytes
<1> QED
  BY <1>1, <1>2, <1>3, Zenon DEF Text

\* Four texts one after the other.
LEMMA ConcatBytes ==
    ASSUME NEW x \in Bytes, NEW y \in Bytes, NEW z \in Bytes
    PROVE  /\ x \o y \in Bytes
           /\ (x \o y) \o z = x \o (y \o z)
           /\ Len(x \o y) = Len(x) + Len(y)
           /\ Len(x) \in Nat
BY DEF Bytes

\* A record stands where its two lengths, its key and its value do.
LEMMA RecordParts ==
    ASSUME NEW b \in Bytes, NEW o \in Nat \ {0}, NEW r \in Record
    PROVE  LET E == Encode(Len(r.key))
               F == Encode(Len(r.value))
           IN  /\ Stands(SerializeRecord(r), b, o) <=>
                      /\ Stands(E, b, o)
                      /\ Stands(r.key, b, o + Len(E))
                      /\ Stands(F, b, o + Len(E) + Len(r.key))
                      /\ Stands(r.value, b, o + Len(E) + Len(r.key) + Len(F))
               /\ Len(SerializeRecord(r)) = Len(E) + Len(r.key) + Len(F) + Len(r.value)
               /\ Len(E) \in Nat /\ Len(F) \in Nat
               /\ Len(r.key) \in Nat /\ Len(r.value) \in Nat
               /\ r.key \in Bytes /\ r.value \in Bytes
<1> DEFINE E == Encode(Len(r.key))
           F == Encode(Len(r.value))
           k == r.key
           v == r.value
<1>1. /\ E \in Bytes /\ F \in Bytes /\ k \in Bytes /\ v \in Bytes
      /\ Len(E) \in Nat /\ Len(F) \in Nat /\ Len(k) \in Nat /\ Len(v) \in Nat
  <2>1. k \in Bytes /\ v \in Bytes
    BY DEF Record
  <2>2. Len(k) \in Nat /\ Len(v) \in Nat
    BY <2>1 DEF Bytes
  <2> QED
    BY <2>1, <2>2, EncodeType
<1>2. SerializeRecord(r) = ((E \o k) \o F) \o v
  BY DEF SerializeRecord
<1> HIDE DEF E, F, k, v
<1>3. E \o k \in Bytes /\ Len(E \o k) = Len(E) + Len(k)
  BY <1>1, ConcatBytes
<1>4. (E \o k) \o F \in Bytes /\ Len((E \o k) \o F) = Len(E) + Len(k) + Len(F)
  BY <1>1, <1>3, ConcatBytes
<1>5. Len(((E \o k) \o F) \o v) = Len(E) + Len(k) + Len(F) + Len(v)
  BY <1>1, <1>4, ConcatBytes
<1>6. Stands(E \o k, b, o) <=> Stands(E, b, o) /\ Stands(k, b, o + Len(E))
  BY <1>1, StandsConcat
<1>7. Stands((E \o k) \o F, b, o) <=> Stands(E \o k, b, o) /\ Stands(F, b, o + Len(E) + Len(k))
  <2>1. o + Len(E \o k) = o + Len(E) + Len(k)
    BY <1>1, <1>3
  <2> QED
    BY <1>1, <1>3, <2>1, StandsConcat
<1>8. Stands(((E \o k) \o F) \o v, b, o) <=>
          Stands((E \o k) \o F, b, o) /\ Stands(v, b, o + Len(E) + Len(k) + Len(F))
  <2>1. o + Len((E \o k) \o F) = o + Len(E) + Len(k) + Len(F)
    BY <1>1, <1>4
  <2> QED
    BY <1>1, <1>4, <2>1, StandsConcat
<1> QED
  BY <1>1, <1>2, <1>5, <1>6, <1>7, <1>8, Zenon DEF E, F, k, v

\* A record that is accepted, written again, is the text it was read from.
LEMMA RecordStands ==
    ASSUME IInv, Reading, AtRecord
    PROVE  /\ Stands(SerializeRecord(Here), buf, offset)
           /\ ValueStart + ValueLength.value = offset + Len(SerializeRecord(Here))
<1> DEFINE E == Encode(KeyLength.value)
           F == Encode(ValueLength.value)
           k == Here.key
           v == Here.value
<1>1. /\ offset \in Nat \ {0} /\ buf \in Bytes /\ Len(buf) \in Nat
      /\ KeyLength.valid /\ ValueLength.valid
  BY DEF IInv, Bytes, AtRecord
<1>2. /\ KeyStart \in Nat \ {0} /\ ValueStart \in Nat \ {0}
      /\ KeyLength.value \in Nat \ {0} /\ ValueLength.value \in Nat
      /\ KeyStart + KeyLength.value <= Len(buf) + 1
      /\ ValueStart + ValueLength.value <= Len(buf) + 1
      /\ Here \in Sized(3)
      /\ Len(k) = KeyLength.value /\ Len(v) = ValueLength.value
  BY RecordRead
<1>3. E \in Bytes /\ F \in Bytes /\ k \in Bytes /\ v \in Bytes
  BY <1>2, EncodeType DEF Sized, Record
<1>4. Stands(E, buf, offset) /\ KeyStart = offset + Len(E)
  BY <1>1, DecodeCanonical DEF KeyLength, KeyStart
<1>5. /\ Stands(F, buf, KeyStart + KeyLength.value)
      /\ ValueStart = KeyStart + KeyLength.value + Len(F)
  <2>1. KeyStart + KeyLength.value \in Nat \ {0}
    BY <1>2
  <2> QED
    BY <1>1, <2>1, DecodeCanonical DEF ValueLength, ValueStart
<1>6. Stands(k, buf, KeyStart)
  <2>1. k = SubSeq(buf, KeyStart, KeyStart + KeyLength.value - 1)
    BY DEF Here
  <2>2. ASSUME NEW i \in 1..KeyLength.value PROVE k[i] = buf[KeyStart + i - 1]
    BY <1>1, <1>2, <2>1 DEF Bytes
  <2> HIDE DEF k
  <2> QED
    BY <1>2, <2>2 DEF Stands
<1>7. Stands(v, buf, ValueStart)
  <2>1. v = SubSeq(buf, ValueStart, ValueStart + ValueLength.value - 1)
    BY DEF Here
  <2>2. ASSUME NEW i \in 1..ValueLength.value PROVE v[i] = buf[ValueStart + i - 1]
    BY <1>1, <1>2, <2>1 DEF Bytes
  <2> HIDE DEF v
  <2> QED
    BY <1>2, <2>2 DEF Stands
<1>8. Stands(SerializeRecord(Here), buf, offset)
  <2>1. Here \in Record
    BY <1>2 DEF Sized
  <2>2. /\ Stands(k, buf, offset + Len(E))
        /\ Stands(F, buf, offset + Len(E) + Len(k))
        /\ Stands(v, buf, offset + Len(E) + Len(k) + Len(F))
    BY <1>2, <1>4, <1>5, <1>6, <1>7
  <2>3. E = Encode(Len(Here.key)) /\ F = Encode(Len(Here.value))
    BY <1>2
  <2> HIDE DEF E, F
  <2> QED
    BY <1>1, <1>4, <2>1, <2>2, <2>3, RecordParts
<1>9. ValueStart + ValueLength.value = offset + Len(SerializeRecord(Here))
  <2>1. Here \in Record
    BY <1>2 DEF Sized
  <2>2. E = Encode(Len(Here.key)) /\ F = Encode(Len(Here.value))
    BY <1>2
  <2> HIDE DEF E, F
  <2>3. /\ Len(SerializeRecord(Here)) = Len(E) + Len(k) + Len(F) + Len(v)
        /\ Len(E) \in Nat /\ Len(F) \in Nat /\ Len(k) \in Nat /\ Len(v) \in Nat
    BY <1>1, <2>1, <2>2, RecordParts
  <2> HIDE DEF k, v
  <2>4. ValueStart = ((offset + Len(E)) + Len(k)) + Len(F) /\ ValueLength.value = Len(v)
    BY <1>2, <1>4, <1>5
  <2> QED
    BY <1>1, <2>3, <2>4
<1> QED
  BY <1>8, <1>9

\* Each step keeps it.
LEMMA CanonicalStep ==
    ASSUME IInv, Canonical, [Next]_vars
    PROVE  Canonical'
<1>0. Text \in Bytes /\ buf \in Bytes /\ Len(Text) \in Nat /\ offset \in Nat \ {0}
  BY TextType DEF IInv
<1>1. CASE BeginCall
  <2> SUFFICES ASSUME phase' = "parse" PROVE offset' = Len(Text') + 1 /\ Stands(Text', buf', 1)
    BY DEF Canonical
  <2>1. HasMagic /\ buf' = buf /\ offset' = Len(Magic) + 1
    BY <1>1 DEF BeginCall
  <2>2. Text' = Magic
    <3>1. maps' = <<>> /\ current' = <<>>
      BY <1>1 DEF BeginCall
    <3>2. Text' = Serialize(<<>>) \o SerializeRecords(<<>>)
      BY <3>1 DEF Text, Serialize, SerializeRecords
    <3> QED
      BY <3>2, SerializeEmpty, MagicAssumption DEF Bytes
  <2>3. Len(Magic) <= Len(buf) /\ SubSeq(Magic, 1, Len(Magic)) = SubSeq(buf, 1, Len(Magic))
    BY <2>1 DEF HasMagic, IsPrefix
  <2>4. ASSUME NEW i \in 1..Len(Magic) PROVE buf[i] = Magic[i]
    <3>1. SubSeq(Magic, 1, Len(Magic))[i] = Magic[i] /\ SubSeq(buf, 1, Len(Magic))[i] = buf[i]
      BY <1>0, <2>3, MagicAssumption DEF Bytes
    <3> QED
      BY <2>3, <3>1
  <2>5. Stands(Magic, buf, 1)
    BY <1>0, <2>3, <2>4, MagicAssumption DEF Stands, Bytes
  <2> QED
    BY <2>1, <2>2, <2>5
<1>2. CASE ReadRecord
  <2>1. Reading /\ AtRecord /\ phase = "parse"
    BY <1>2 DEF ReadRecord, Reading
  <2>2. /\ Stands(SerializeRecord(Here), buf, offset)
        /\ ValueStart + ValueLength.value = offset + Len(SerializeRecord(Here))
        /\ Here \in Record /\ SerializeRecord(Here) \in Bytes
    BY <2>1, RecordStands, RecordRead, SerializeRecordType DEF Sized
  <2>3. /\ current' = Append(current, Here) /\ maps' = maps /\ buf' = buf
        /\ offset' = ValueStart + ValueLength.value
    BY <1>2 DEF ReadRecord, Here
  <2>4. Text' = Text \o SerializeRecord(Here)
    <3>1. SerializeRecords(Append(current, Here)) = SerializeRecords(current) \o SerializeRecord(Here)
      BY <2>2, TextType, SerializeRecordsAppend
    <3>2. Text' = Serialize(maps) \o SerializeRecords(Append(current, Here))
      BY <2>3 DEF Text, Serialize, SerializeRecords
    <3>3. (Serialize(maps) \o SerializeRecords(current)) \o SerializeRecord(Here)
             = Serialize(maps) \o (SerializeRecords(current) \o SerializeRecord(Here))
      <4>1. Serialize(maps) \in Bytes /\ SerializeRecords(current) \in Bytes
        BY TextType
      <4> QED
        BY <2>2, <4>1, ConcatBytes
    <3> QED
      BY <3>1, <3>2, <3>3 DEF Text
  <2>5. Stands(Text \o SerializeRecord(Here), buf, 1) /\ offset = Len(Text) + 1
    <3>1. Stands(Text, buf, 1) /\ offset = 1 + Len(Text) /\ offset = Len(Text) + 1
      BY <1>0, <2>1 DEF Canonical
    <3> QED
      BY <1>0, <2>2, <3>1, StandsConcat
  <2>6. offset' = Len(Text \o SerializeRecord(Here)) + 1
    <3>1. /\ Len(Text \o SerializeRecord(Here)) = Len(Text) + Len(SerializeRecord(Here))
          /\ Len(SerializeRecord(Here)) \in Nat
      BY <1>0, <2>2, ConcatBytes
    <3> QED
      BY <1>0, <2>2, <2>3, <2>5, <3>1
  <2> QED
    BY <2>3, <2>4, <2>5, <2>6 DEF Canonical
<1>3. CASE CloseMap
  <2>1. phase = "parse" /\ AtSeparator
    BY <1>3 DEF CloseMap
  <2>2. Stands(Separator, buf, offset) /\ KeyStart = offset + Len(Separator) /\ Separator \in Bytes
    <3>1. Stands(Encode(0), buf, offset) /\ KeyLength.bytes_read = Len(Encode(0))
      BY <1>0, <2>1, DecodeCanonical DEF AtSeparator, KeyLength
    <3> QED
      BY <3>1, EncodeType DEF KeyStart, Separator
  <2>3. maps' = Append(maps, current) /\ current' = <<>> /\ buf' = buf /\ offset' = KeyStart
    BY <1>3 DEF CloseMap
  <2>4. Text' = Text \o Separator
    <3>1. Serialize(Append(maps, current)) = Serialize(maps) \o SerializeMap(current)
      BY TextType, SerializeAppend
    <3>2. SerializeMap(current) = SerializeRecords(current) \o Separator
      BY TextType, SerializeMapType
    <3>3. (Serialize(maps) \o SerializeRecords(current)) \o Separator
             = Serialize(maps) \o (SerializeRecords(current) \o Separator)
      <4>1. Serialize(maps) \in Bytes /\ SerializeRecords(current) \in Bytes
        BY TextType
      <4> QED
        BY <2>2, <4>1, ConcatBytes
    <3>4. Text' = Serialize(Append(maps, current)) \o SerializeRecords(<<>>)
      BY <2>3 DEF Text, Serialize, SerializeRecords
    <3>5. Text' = (Text \o Separator) \o <<>>
      BY <3>1, <3>2, <3>3, <3>4, SerializeEmpty DEF Text
    <3>6. Text \o Separator \in Bytes
      BY <1>0, <2>2, ConcatBytes
    <3>7. \A s \in Bytes : s \o <<>> = s
      BY DEF Bytes
    <3> QED
      BY <3>5, <3>6, <3>7, Zenon
  <2>5. Stands(Text \o Separator, buf, 1) /\ offset = Len(Text) + 1
    <3>1. Stands(Text, buf, 1) /\ offset = 1 + Len(Text) /\ offset = Len(Text) + 1
      BY <1>0, <2>1 DEF Canonical
    <3> QED
      BY <1>0, <2>2, <3>1, StandsConcat
  <2>6. offset' = Len(Text \o Separator) + 1
    <3>1. Len(Text \o Separator) = Len(Text) + Len(Separator) /\ Len(Separator) \in Nat
      BY <1>0, <2>2, ConcatBytes
    <3> QED
      BY <1>0, <2>2, <2>3, <2>5, <3>1
  <2> QED
    BY <2>3, <2>4, <2>5, <2>6 DEF Canonical
<1>4. CASE UNCHANGED vars
  BY <1>4 DEF vars, Canonical, Text, Serialize, SerializeRecords, Stands
<1>5. ASSUME phase' # "parse" PROVE Canonical'
  BY <1>5 DEF Canonical
<1>6. CASE \/ PickInput \/ StopParsing \/ UseTemplate \/ BeginMutations \/ Finish \/ AddMap
  BY <1>5, <1>6 DEF PickInput, StopParsing, UseTemplate, BeginMutations, Finish, AddMap,
                    ReturnBuffer, Mutates
<1>7. ASSUME NEW i \in DOMAIN maps,
             \/ MutateNothing(i) \/ InsertKnown(i) \/ RemoveMap(i)
             \/ \E j \in DOMAIN maps[i] :
                    \/ MutateValue(i, j) \/ MutateKey(i, j)
                    \/ RemoveRecord(i, j) \/ DuplicateRecord(i, j)
      PROVE  Canonical'
  <2>1. Mutates
    BY <1>7 DEF MutateNothing, InsertKnown, RemoveMap, MutateValue, MutateKey, RemoveRecord,
                DuplicateRecord
  <2> QED
    BY <1>5, <2>1 DEF Mutates
<1> QED
  BY <1>1, <1>2, <1>3, <1>4, <1>6, <1>7 DEF Next

\* It is the loop invariant the runs check.
LEMMA CanonicalImplies == IInv /\ Canonical => ReadsCanonically
<1> SUFFICES ASSUME IInv, Canonical, phase = "parse"
             PROVE  offset <= Len(buf) + 1 /\ Text = SubSeq(buf, 1, offset - 1)
  BY DEF ReadsCanonically, Text
<1>1. Text \in Bytes /\ buf \in Bytes /\ Len(Text) \in Nat /\ Len(buf) \in Nat
  BY TextType DEF IInv, Bytes
<1>2. offset = Len(Text) + 1 /\ Stands(Text, buf, 1)
  BY DEF Canonical
<1>3. Len(Text) <= Len(buf) /\ \A i \in 1..Len(Text) : buf[i] = Text[i]
  BY <1>1, <1>2 DEF Stands
<1>4. offset - 1 = Len(Text)
  BY <1>1, <1>2
<1>5. ASSUME NEW n \in Nat, n <= Len(buf), Len(Text) = n PROVE Text = SubSeq(buf, 1, n)
  <2>1. SubSeq(buf, 1, n) \in Seq(Byte) /\ Len(SubSeq(buf, 1, n)) = n /\ Text \in Seq(Byte)
    BY <1>1, <1>5 DEF Bytes
  <2>2. \A i \in 1..n : SubSeq(buf, 1, n)[i] = Text[i]
    BY <1>1, <1>3, <1>5 DEF Bytes
  <2> QED
    BY <1>5, <2>1, <2>2, SeqEqual
<1>6. offset <= Len(buf) + 1
  BY <1>1, <1>2, <1>3
<1>7. Text = SubSeq(buf, 1, Len(Text))
  BY <1>1, <1>3, <1>5
<1> QED
  BY <1>4, <1>6, <1>7

\* At the start nothing is being read.
LEMMA InitCanonical == Init => Canonical
BY DEF Init, Canonical

(***************************************************************************)
(* The mutator reads back what it wrote                                    *)
(***************************************************************************)

\* s is the first of t, element by element.
FirstOf(s, t) == Len(s) <= Len(t) /\ \A i \in 1..Len(s) : s[i] = t[i]

LEMMA FirstIsPrefix ==
    ASSUME NEW S, NEW s \in Seq(S), NEW t \in Seq(S), FirstOf(s, t)
    PROVE  IsPrefix(s, t) /\ (Len(s) = Len(t) => s = t)
<1>1. Len(s) \in Nat /\ Len(t) \in Nat /\ Len(s) <= Len(t) /\ \A i \in 1..Len(s) : s[i] = t[i]
  BY DEF FirstOf
<1>2. SubSeq(t, 1, Len(s)) \in Seq(S) /\ Len(SubSeq(t, 1, Len(s))) = Len(s)
  BY <1>1
<1>3. ASSUME NEW i \in 1..Len(s) PROVE s[i] = SubSeq(t, 1, Len(s))[i]
  BY <1>1
<1>4. s = SubSeq(t, 1, Len(s))
  BY <1>2, <1>3, SeqEqual
<1>5. SubSeq(s, 1, Len(s)) = s
  OBVIOUS
<1>6. Len(s) = Len(t) => s = t
  <2> SUFFICES ASSUME Len(s) = Len(t) PROVE s = t
    OBVIOUS
  <2> QED
    BY <1>1, SeqEqual
<1> QED
  BY <1>1, <1>4, <1>5, <1>6 DEF IsPrefix

\* The first k elements and the next.
LEMMA FirstAndNext ==
    ASSUME NEW S, NEW s \in Seq(S), NEW t \in Seq(S), FirstOf(s, t), Len(s) < Len(t)
    PROVE  /\ Len(s) + 1 \in 1..Len(t)
           /\ SubSeq(t, 1, Len(s) + 1) = Append(s, t[Len(s) + 1])
           /\ FirstOf(Append(s, t[Len(s) + 1]), t)
<1> DEFINE n == Len(s) + 1
<1>1. /\ Len(s) \in Nat /\ Len(t) \in Nat /\ n \in 1..Len(t)
      /\ \A i \in 1..Len(s) : s[i] = t[i]
  BY DEF FirstOf
<1>2. t[n] \in S
  BY <1>1
<1>3. /\ Append(s, t[n]) \in Seq(S) /\ Len(Append(s, t[n])) = n
      /\ \A i \in 1..Len(s) : Append(s, t[n])[i] = s[i]
      /\ Append(s, t[n])[n] = t[n]
  BY <1>1, <1>2
<1>4. /\ SubSeq(t, 1, n) \in Seq(S) /\ Len(SubSeq(t, 1, n)) = n
      /\ \A i \in 1..n : SubSeq(t, 1, n)[i] = t[i]
  BY <1>1
<1>5. \A i \in 1..n : i \in 1..Len(s) \/ i = n
  BY <1>1
<1> HIDE DEF n
<1>6. \A i \in 1..n : Append(s, t[n])[i] = t[i]
  BY <1>1, <1>3, <1>5
<1>7. SubSeq(t, 1, n) = Append(s, t[n])
  <2>1. Len(SubSeq(t, 1, n)) = Len(Append(s, t[n]))
    BY <1>3, <1>4
  <2>2. \A i \in 1..Len(SubSeq(t, 1, n)) : SubSeq(t, 1, n)[i] = Append(s, t[n])[i]
    BY <1>4, <1>6
  <2> QED
    BY <1>3, <1>4, <2>1, <2>2, SeqEqual
<1>8. FirstOf(Append(s, t[n]), t)
  BY <1>1, <1>3, <1>6 DEF FirstOf
<1> QED
  BY <1>1, <1>7, <1>8 DEF n

\* A buffer that starts with another has what the other has.
LEMMA StandsInLonger ==
    ASSUME NEW b \in Bytes, NEW c \in Bytes, NEW s \in Bytes, NEW o \in Nat \ {0},
           Stands(b, c, 1), Stands(s, b, o)
    PROVE  Stands(s, c, o)
<1>1. Len(b) \in Nat /\ Len(c) \in Nat /\ Len(s) \in Nat
  BY DEF Bytes
<1>2. Len(b) <= Len(c) /\ o + Len(s) <= Len(b) + 1
  BY <1>1 DEF Stands
<1>3. ASSUME NEW i \in 1..Len(b) PROVE c[i] = b[i]
  <2>1. c[1 + i - 1] = b[i] /\ 1 + i - 1 = i
    BY <1>1 DEF Stands
  <2> QED
    BY <2>1
<1>4. ASSUME NEW i \in 1..Len(s) PROVE c[o + i - 1] = s[i]
  <2>1. o + i - 1 \in 1..Len(b)
    BY <1>1, <1>2
  <2>2. b[o + i - 1] = s[i]
    BY DEF Stands
  <2> QED
    BY <1>3, <2>1, <2>2
<1> QED
  BY <1>1, <1>2, <1>4 DEF Stands

\* Two texts of one length that stand in one place are one.
LEMMA StandsOnce ==
    ASSUME NEW b \in Bytes, NEW s \in Bytes, NEW t \in Bytes, NEW o \in Nat \ {0},
           Stands(s, b, o), Stands(t, b, o), Len(s) = Len(t)
    PROVE  s = t
<1>1. \A i \in 1..Len(s) : s[i] = t[i]
  BY DEF Stands
<1> QED
  BY <1>1, SeqEqual DEF Bytes

\* Only one length stands in a place.
LEMMA LengthOnce ==
    ASSUME NEW b \in Bytes, NEW o \in Nat \ {0},
           NEW v \in Nat, v < EightDigits, Stands(Encode(v), b, o),
           NEW w \in Nat, w < EightDigits, Stands(Encode(w), b, o)
    PROVE  v = w
<1>1. Decode(b, o) = [valid |-> TRUE, value |-> v, bytes_read |-> Len(Encode(v))]
  BY DecodeEncoded
<1>2. Decode(b, o) = [valid |-> TRUE, value |-> w, bytes_read |-> Len(Encode(w))]
  BY DecodeEncoded
<1>3. Decode(b, o).value = v
  BY <1>1
<1>4. Decode(b, o).value = w
  BY <1>2
<1> QED
  BY <1>3, <1>4

\* What comes behind a length and a text is at a place.
LEMMA PositionAfter ==
    ASSUME NEW o \in Nat \ {0}, NEW i \in Nat, NEW j \in Nat
    PROVE  o + i + j \in Nat \ {0}
OBVIOUS

\* Only one record.
LEMMA RecordOnce ==
    ASSUME NEW b \in Bytes, NEW o \in Nat \ {0},
           NEW r \in Sized(0), Stands(SerializeRecord(r), b, o),
           NEW s \in Sized(0), Stands(SerializeRecord(s), b, o)
    PROVE  r = s
<1>1. /\ r \in Record /\ s \in Record
      /\ Len(r.key) < EightDigits /\ Len(s.key) < EightDigits
      /\ Len(r.value) < EightDigits /\ Len(s.value) < EightDigits
  <2>1. 0 * Growth = 0
    BY BoundsAssumption
  <2>2. \A x \in Record : Len(x.value) \in Nat
    BY DEF Record, Bytes
  <2> QED
    BY <2>1, <2>2 DEF Sized
<1>2. /\ Stands(Encode(Len(r.key)), b, o)
      /\ Stands(r.key, b, o + Len(Encode(Len(r.key))))
      /\ Stands(Encode(Len(r.value)), b, o + Len(Encode(Len(r.key))) + Len(r.key))
      /\ Stands(r.value, b, o + Len(Encode(Len(r.key))) + Len(r.key) + Len(Encode(Len(r.value))))
      /\ Len(Encode(Len(r.key))) \in Nat /\ Len(Encode(Len(r.value))) \in Nat
      /\ Len(r.key) \in Nat /\ Len(r.value) \in Nat /\ r.key \in Bytes /\ r.value \in Bytes
  BY <1>1, RecordParts
<1>3. /\ Stands(Encode(Len(s.key)), b, o)
      /\ Stands(s.key, b, o + Len(Encode(Len(s.key))))
      /\ Stands(Encode(Len(s.value)), b, o + Len(Encode(Len(s.key))) + Len(s.key))
      /\ Stands(s.value, b, o + Len(Encode(Len(s.key))) + Len(s.key) + Len(Encode(Len(s.value))))
      /\ Len(s.key) \in Nat /\ Len(s.value) \in Nat /\ s.key \in Bytes /\ s.value \in Bytes
  BY <1>1, RecordParts
<1>4. Len(r.key) = Len(s.key)
  BY <1>1, <1>2, <1>3, LengthOnce
<1>5. r.key = s.key
  <2>1. o + Len(Encode(Len(r.key))) \in Nat \ {0}
    BY <1>2
  <2> QED
    BY <1>2, <1>3, <1>4, <2>1, StandsOnce
<1>6. Len(r.value) = Len(s.value)
  <2>1. o + Len(Encode(Len(r.key))) + Len(r.key) \in Nat \ {0}
    BY <1>2, PositionAfter, Zenon
  <2>2. Stands(Encode(Len(s.value)), b, o + Len(Encode(Len(r.key))) + Len(r.key))
    BY <1>3, <1>4
  <2>3. ASSUME NEW p \in Nat \ {0}, Stands(Encode(Len(r.value)), b, p), Stands(Encode(Len(s.value)), b, p)
        PROVE  Len(r.value) = Len(s.value)
    <3>1. Len(r.value) \in Nat /\ Len(s.value) \in Nat
      BY <1>2, <1>3
    <3> QED
      BY <1>1, <2>3, <3>1, LengthOnce
  <2> QED
    BY <1>2, <2>1, <2>2, <2>3, Zenon
<1>7. r.value = s.value
  <2>1. o + Len(Encode(Len(r.key))) + Len(r.key) + Len(Encode(Len(r.value))) \in Nat \ {0}
    BY <1>2
  <2>2. Stands(s.value, b, o + Len(Encode(Len(r.key))) + Len(r.key) + Len(Encode(Len(r.value))))
    BY <1>3, <1>4, <1>6
  <2> QED
    BY <1>2, <1>3, <1>6, <2>1, <2>2, StandsOnce
<1> QED
  BY <1>1, <1>5, <1>7 DEF Record

\* A record that stands where the parser is is accepted.
LEMMA RecordAccepted ==
    ASSUME IInv, NEW r \in Sized(0), Stands(SerializeRecord(r), buf, offset)
    PROVE  AtRecord
<1> DEFINE E == Encode(Len(r.key))
           F == Encode(Len(r.value))
<1>1. /\ r \in Record /\ Len(r.key) < EightDigits /\ Len(r.value) < EightDigits /\ r.key # <<>>
      /\ buf \in Bytes /\ offset \in Nat \ {0} /\ Len(buf) \in Nat
  <2>1. 0 * Growth = 0
    BY BoundsAssumption
  <2>2. \A x \in Record : Len(x.value) \in Nat
    BY DEF Record, Bytes
  <2> QED
    BY <2>1, <2>2 DEF Sized, IInv, Bytes
<1>2. /\ Stands(E, buf, offset)
      /\ Stands(r.key, buf, offset + Len(E))
      /\ Stands(F, buf, offset + Len(E) + Len(r.key))
      /\ Stands(r.value, buf, offset + Len(E) + Len(r.key) + Len(F))
      /\ Len(E) \in Nat /\ Len(F) \in Nat
      /\ Len(r.key) \in Nat /\ Len(r.value) \in Nat /\ r.key \in Bytes
  BY <1>1, RecordParts
<1>3. KeyLength = [valid |-> TRUE, value |-> Len(r.key), bytes_read |-> Len(E)]
  BY <1>1, <1>2, DecodeEncoded DEF KeyLength
<1> HIDE DEF E
<1>4. KeyStart = offset + Len(E) /\ KeyLength.value = Len(r.key) /\ KeyLength.valid
  BY <1>3 DEF KeyStart
<1>5. ValueLength = [valid |-> TRUE, value |-> Len(r.value), bytes_read |-> Len(F)]
  <2>1. offset + Len(E) + Len(r.key) \in Nat \ {0}
    <3>1. \A x, y \in Nat : offset + x + y \in Nat \ {0}
      BY <1>1
    <3> QED
      BY <1>2, <3>1, Zenon
  <2> QED
    BY <1>1, <1>2, <1>4, <2>1, DecodeEncoded DEF ValueLength
<1> HIDE DEF F
<1>6. /\ ValueStart = offset + Len(E) + Len(r.key) + Len(F)
      /\ ValueLength.value = Len(r.value) /\ ValueLength.valid
  BY <1>4, <1>5 DEF ValueStart
<1>7. Available(KeyStart, KeyLength.value)
  <2>1. (offset + Len(E)) + Len(r.key) <= Len(buf) + 1
    BY <1>2, Zenon DEF Stands
  <2>2. ASSUME NEW x \in Nat, NEW y \in Nat, (offset + x) + y <= Len(buf) + 1
        PROVE  y <= Len(buf) - (offset + x) + 1
    BY <1>1, <2>2
  <2>3. Len(r.key) <= Len(buf) - (offset + Len(E)) + 1
    BY <1>2, <2>1, <2>2, Zenon
  <2> QED
    BY <1>4, <2>3, Zenon DEF Available
<1>8. Available(ValueStart, ValueLength.value)
  <2>1. (offset + Len(E) + Len(r.key) + Len(F)) + Len(r.value) <= Len(buf) + 1
    BY <1>2, Zenon DEF Stands
  <2>2. ASSUME NEW w \in Nat, NEW x \in Nat, NEW y \in Nat, NEW z \in Nat,
               (offset + w + x + y) + z <= Len(buf) + 1
        PROVE  z <= Len(buf) - (offset + w + x + y) + 1
    BY <1>1, <2>2
  <2>3. Len(r.value) <= Len(buf) - (offset + Len(E) + Len(r.key) + Len(F)) + 1
    BY <1>2, <2>1, <2>2, Zenon
  <2> QED
    BY <1>6, <2>3, Zenon DEF Available
<1>9. KeyLength.value # 0
  <2>1. \A k \in Bytes : Len(k) = 0 => k = <<>>
    BY DEF Bytes
  <2> QED
    BY <1>1, <1>2, <1>4, <2>1
<1> QED
  BY <1>4, <1>6, <1>7, <1>8, <1>9 DEF AtRecord

\* So is the end of a map.
LEMMA SeparatorAccepted ==
    ASSUME IInv, Stands(Separator, buf, offset)
    PROVE  AtSeparator
<1>1. buf \in Bytes /\ offset \in Nat \ {0} /\ 0 < EightDigits
  BY CountOrder DEF IInv
<1>2. KeyLength = [valid |-> TRUE, value |-> 0, bytes_read |-> Len(Encode(0))]
  BY <1>1, DecodeEncoded DEF KeyLength, Separator
<1> QED
  BY <1>2 DEF AtSeparator

\* The buffer is what the container in made was written as, or its first
\* bytes.
Written ==
    made # <<>> =>
        /\ Stands(buf, Serialize(made), 1)
        /\ ~cut => buf = Serialize(made)

\* While it is read, the maps in hand are its first maps, and the records in
\* hand the first records of the next one.
InOrder ==
    Reading /\ made # <<>> =>
        /\ FirstOf(maps, made)
        /\ phase = "parse" =>
               IF Len(maps) < Len(made) THEN FirstOf(current, made[Len(maps) + 1])
                                        ELSE current = <<>>
        /\ phase = "parsed" /\ ~cut => maps = made

BackInv == IInv /\ Canonical /\ Written /\ InOrder

\* What comes next in the container: nothing, the end of a map, or a record.
LEMMA WhatIsNext ==
    ASSUME BackInv, phase = "parse", made # <<>>
    PROVE  /\ FirstOf(maps, made)
           /\ \/ maps = made /\ offset = Len(Serialize(made)) + 1
              \/ /\ Len(maps) < Len(made)
                 /\ current = made[Len(maps) + 1]
                 /\ Stands(Separator, Serialize(made), offset)
              \/ /\ Len(maps) < Len(made)
                 /\ FirstOf(current, made[Len(maps) + 1])
                 /\ Len(current) < Len(made[Len(maps) + 1])
                 /\ Stands(SerializeRecord(made[Len(maps) + 1][Len(current) + 1]),
                           Serialize(made), offset)
<1> DEFINE S == Serialize(made)
           m == made[Len(maps) + 1]
<1>1. /\ maps \in Seq(Map) /\ current \in Map /\ made \in Seq(Map)
      /\ Serialize(maps) \in Bytes /\ SerializeRecords(current) \in Bytes
      /\ S \in Bytes /\ Len(S) \in Nat /\ Len(maps) \in Nat /\ Len(made) \in Nat
  <2>1. IInv /\ made \in Seq(Map)
    BY IInvImplies DEF BackInv, TypeOK
  <2>2. S \in Bytes
    BY <2>1, SerializeType
  <2> QED
    BY <2>1, <2>2, TextType DEF Bytes
<1>2. /\ offset = Len(Text) + 1
      /\ Text = Serialize(maps) \o SerializeRecords(current)
      /\ Len(Text) = Len(Serialize(maps)) + Len(SerializeRecords(current))
      /\ Len(Serialize(maps)) \in Nat /\ Len(SerializeRecords(current)) \in Nat
  BY <1>1, ConcatBytes DEF BackInv, Canonical, Text, Bytes
<1>3. /\ FirstOf(maps, made)
      /\ Len(maps) < Len(made) => FirstOf(current, m)
      /\ ~(Len(maps) < Len(made)) => current = <<>>
  BY DEF BackInv, InOrder, Reading
<1>4. CASE ~(Len(maps) < Len(made))
  <2>1. Len(maps) = Len(made)
    BY <1>1, <1>3, <1>4 DEF FirstOf
  <2>2. maps = made
    BY <1>1, <1>3, <2>1, FirstIsPrefix
  <2>3. Len(SerializeRecords(current)) = 0
    BY <1>3, <1>4, SerializeEmpty
  <2> QED
    BY <1>2, <1>3, <2>2, <2>3
<1>5. CASE Len(maps) < Len(made)
  <2> DEFINE o == 1 + Len(Serialize(maps))
  <2>1. /\ Len(maps) + 1 \in 1..Len(made) /\ SubSeq(made, 1, Len(maps) + 1) = Append(maps, m)
    BY <1>1, <1>3, <1>5, FirstAndNext
  <2>2. m \in Map
    BY <1>1, <2>1
  <2>3. PICK rest \in Bytes : S = Serialize(Append(maps, m)) \o rest
    <3>1. Len(maps) + 1 \in 0..Len(made)
      BY <2>1
    <3> QED
      BY <1>1, <2>1, <3>1, MapsPrefix
  <2>4. /\ Serialize(Append(maps, m)) = Serialize(maps) \o SerializeMap(m)
        /\ SerializeMap(m) = SerializeRecords(m) \o Separator
        /\ SerializeMap(m) \in Bytes /\ SerializeRecords(m) \in Bytes /\ Separator \in Bytes
    <3>1. Separator \in Bytes
      BY EncodeType DEF Separator
    <3> QED
      BY <1>1, <2>2, <3>1, SerializeAppend, SerializeMapType
  <2>5. Stands(S, S, 1)
    <3>1. \A i \in 1..Len(S) : 1 + i - 1 = i
      OBVIOUS
    <3> HIDE DEF S
    <3> QED
      BY <1>1, <3>1 DEF Stands
  <2> HIDE DEF S, m
  <2>6. Stands(Serialize(maps) \o SerializeMap(m), S, 1)
    <3>1. Serialize(maps) \o SerializeMap(m) \in Bytes
      BY <1>1, <2>4, ConcatBytes
    <3>2. Stands((Serialize(maps) \o SerializeMap(m)) \o rest, S, 1)
      BY <2>3, <2>4, <2>5
    <3> QED
      BY <1>1, <3>1, <3>2, StandsConcat
  <2>7. Stands(SerializeRecords(m) \o Separator, S, o) /\ o \in Nat \ {0}
    BY <1>1, <1>2, <2>4, <2>6, StandsConcat
  <2>8. Stands(SerializeRecords(m), S, o) /\ Stands(Separator, S, o + Len(SerializeRecords(m)))
    BY <1>1, <2>4, <2>7, StandsConcat
  <2>9. offset = o + Len(SerializeRecords(current))
    BY <1>2
  <2> HIDE DEF o
  <2>10. CASE Len(current) = Len(m)
    <3>1. current = m
      BY <1>1, <1>3, <1>5, <2>2, <2>10, FirstIsPrefix DEF Map
    <3>2. Stands(Separator, S, offset)
      BY <2>8, <2>9, <3>1
    <3> QED
      BY <1>3, <1>5, <3>1, <3>2 DEF S, m
  <2>11. CASE Len(current) # Len(m)
    <3> DEFINE r == m[Len(current) + 1]
    <3>1. Len(current) < Len(m)
      BY <1>1, <1>3, <1>5, <2>2, <2>11 DEF FirstOf, Map
    <3>2. /\ Len(current) + 1 \in 1..Len(m)
          /\ SubSeq(m, 1, Len(current) + 1) = Append(current, r)
      BY <1>1, <1>3, <1>5, <2>2, <3>1, FirstAndNext DEF Map
    <3>3. r \in Record
      BY <2>2, <3>2 DEF Map
    <3>4. PICK tail \in Bytes : SerializeRecords(m) = SerializeRecords(Append(current, r)) \o tail
      <4>1. Len(current) + 1 \in 0..Len(m)
        BY <3>2
      <4> QED
        BY <2>2, <3>2, <4>1, RecordsPrefix
    <3>5. /\ SerializeRecords(Append(current, r)) = SerializeRecords(current) \o SerializeRecord(r)
          /\ SerializeRecord(r) \in Bytes
      BY <1>1, <3>3, SerializeRecordsAppend, SerializeRecordType
    <3> HIDE DEF r
    <3>6. SerializeRecords(current) \o SerializeRecord(r) \in Bytes
      BY <1>1, <3>5, ConcatBytes
    <3>7. Stands(SerializeRecords(current) \o SerializeRecord(r), S, o)
      <4>1. Stands((SerializeRecords(current) \o SerializeRecord(r)) \o tail, S, o)
        BY <2>8, <3>4, <3>5
      <4> QED
        BY <1>1, <2>7, <3>6, <4>1, StandsConcat
    <3>8. Stands(SerializeRecord(r), S, offset)
      BY <1>1, <2>7, <2>9, <3>5, <3>7, StandsConcat
    <3> QED
      BY <1>3, <1>5, <3>1, <3>8 DEF S, m, r
  <2> QED
    BY <2>10, <2>11
<1> QED
  BY <1>4, <1>5

\* What is returned is written.
LEMMA ReturnedWritten ==
    ASSUME NEW ms \in Seq(Map), maxSize \in Nat, ReturnBuffer(ms)
    PROVE  Written'
<1>1. Serialize(ms) \in Bytes /\ Len(Serialize(ms)) \in Nat
  <2>1. Serialize(ms) \in Bytes
    BY SerializeType
  <2> QED
    BY <2>1 DEF Bytes
<1>2. /\ buf' = Fitted(Serialize(ms)) /\ made' = ms
      /\ cut' = (Len(Serialize(ms)) > maxSize)
  BY DEF ReturnBuffer
<1>3. Serialize(made)' = Serialize(ms)
  BY <1>2 DEF Serialize
<1>4. /\ Fitted(Serialize(ms)) \in Bytes
      /\ Len(Fitted(Serialize(ms))) <= Len(Serialize(ms))
      /\ \A i \in 1..Len(Fitted(Serialize(ms))) : Fitted(Serialize(ms))[i] = Serialize(ms)[i]
      /\ ~(Len(Serialize(ms)) > maxSize) => Fitted(Serialize(ms)) = Serialize(ms)
  BY <1>1, FittedType
<1>5. Stands(Fitted(Serialize(ms)), Serialize(ms), 1)
  <2> DEFINE f == Fitted(Serialize(ms))
             s == Serialize(ms)
  <2>1. f \in Bytes /\ Len(f) \in Nat /\ Len(s) \in Nat /\ Len(f) <= Len(s)
        /\ \A i \in 1..Len(f) : f[i] = s[i]
    BY <1>1, <1>4 DEF Bytes
  <2> HIDE DEF f, s
  <2>2. \A i \in 1..Len(f) : s[1 + i - 1] = f[i]
    BY <2>1
  <2>3. Stands(f, s, 1)
    BY <2>1, <2>2 DEF Stands
  <2> QED
    BY <2>3 DEF f, s
<1>6. Stands(buf', Serialize(made'), 1)
  BY <1>2, <1>5
<1>7. ~cut' => buf' = Serialize(made')
  BY <1>2, <1>4
<1> QED
  BY <1>6, <1>7 DEF Written

\* Only returning writes, and only taking another input forgets.
LEMMA WrittenStep ==
    ASSUME IInv, Written, [Next]_vars
    PROVE  Written'
<1>0. maxSize \in Nat /\ maps \in Seq(Map)
  BY BoundsAssumption, IInvImplies DEF IInv, TypeOK
<1>1. CASE PickInput
  BY <1>1 DEF PickInput, Written
<1>2. CASE UseTemplate
  BY <1>0, <1>2, ReturnedWritten, TemplateAssumption DEF UseTemplate
<1>3. CASE Finish
  BY <1>0, <1>3, ReturnedWritten DEF Finish
<1>4. CASE \/ BeginCall \/ ReadRecord \/ CloseMap \/ StopParsing \/ BeginMutations \/ AddMap
           \/ UNCHANGED vars
  <2>1. UNCHANGED <<buf, made, cut>>
    BY <1>4 DEF BeginCall, ReadRecord, CloseMap, StopParsing, BeginMutations, AddMap, Mutates, vars
  <2> QED
    BY <2>1 DEF Written, Serialize, Stands
<1>5. ASSUME NEW i \in DOMAIN maps,
             \/ MutateNothing(i) \/ InsertKnown(i) \/ RemoveMap(i)
             \/ \E j \in DOMAIN maps[i] :
                    \/ MutateValue(i, j) \/ MutateKey(i, j)
                    \/ RemoveRecord(i, j) \/ DuplicateRecord(i, j)
      PROVE  Written'
  <2>1. UNCHANGED <<buf, made, cut>>
    BY <1>5 DEF MutateNothing, InsertKnown, RemoveMap, MutateValue, MutateKey, RemoveRecord,
                DuplicateRecord, Mutates
  <2> QED
    BY <2>1 DEF Written, Serialize, Stands
<1> QED
  BY <1>1, <1>2, <1>3, <1>4, <1>5 DEF Next

\* The types of what the read-back lemmas speak of.
LEMMA ReadBackTypes ==
    ASSUME BackInv, made # <<>>
    PROVE  /\ buf \in Bytes /\ offset \in Nat \ {0} /\ Len(buf) \in Nat
           /\ Serialize(made) \in Bytes /\ Len(Serialize(made)) \in Nat
           /\ maps \in Seq(Map) /\ current \in Map /\ made \in Seq(Map)
           /\ Stands(buf, Serialize(made), 1) /\ Len(buf) <= Len(Serialize(made))
           /\ \A n \in 1..Len(made) : made[n] \in Seq(Sized(0)) /\ made[n] \in Map
<1>1. IInv /\ made \in Seq(Map) /\ maps \in Seq(Map) /\ current \in Map
  BY IInvImplies DEF BackInv, TypeOK
<1>2. Serialize(made) \in Bytes /\ buf \in Bytes /\ offset \in Nat \ {0}
  BY <1>1, SerializeType DEF IInv
<1>3. Len(Serialize(made)) \in Nat /\ Len(buf) \in Nat
  BY <1>2 DEF Bytes
<1>4. Stands(buf, Serialize(made), 1)
  BY DEF BackInv, Written
<1>5. 1 + Len(buf) <= Len(Serialize(made)) + 1
  BY <1>4 DEF Stands
<1>6. Len(buf) <= Len(Serialize(made))
  BY <1>3, <1>5
<1>7. \A n \in 1..Len(made) : made[n] \in Seq(Sized(0)) /\ made[n] \in Map
  BY <1>1 DEF IInv
<1> QED
  BY <1>1, <1>2, <1>3, <1>4, <1>6, <1>7

\* Behind the last map there is no length to read.
LEMMA NothingBehind ==
    ASSUME BackInv, made # <<>>, offset = Len(Serialize(made)) + 1
    PROVE  ~KeyLength.valid
<1> SUFFICES ASSUME KeyLength.valid PROVE FALSE
  OBVIOUS
<1>1. /\ buf \in Bytes /\ offset \in Nat \ {0} /\ Len(buf) \in Nat
      /\ Len(Serialize(made)) \in Nat /\ Len(buf) <= Len(Serialize(made))
  BY ReadBackTypes
<1>2. KeyLength.value \in Nat /\ Stands(Encode(KeyLength.value), buf, offset)
  BY <1>1, DecodeCanonical DEF KeyLength
<1>3. Len(Encode(KeyLength.value)) \in Nat \ {0}
  BY <1>2, EncodeType
<1>4. offset + Len(Encode(KeyLength.value)) <= Len(buf) + 1
  BY <1>2 DEF Stands
<1> QED
  BY <1>1, <1>3, <1>4

\* A length that stands in the container where the parser is is the one it
\* reads.
LEMMA LengthOfNext ==
    ASSUME BackInv, made # <<>>, KeyLength.valid,
           NEW v \in Nat, v < EightDigits, Stands(Encode(v), Serialize(made), offset)
    PROVE  KeyLength.value = v
<1>1. /\ buf \in Bytes /\ offset \in Nat \ {0} /\ Serialize(made) \in Bytes
      /\ Stands(buf, Serialize(made), 1)
  BY ReadBackTypes
<1>2. /\ KeyLength.value \in Nat /\ KeyLength.value < EightDigits
      /\ Stands(Encode(KeyLength.value), buf, offset)
  BY <1>1, DecodeCanonical DEF KeyLength
<1>3. Encode(KeyLength.value) \in Bytes
  BY <1>2, EncodeType
<1>4. Stands(Encode(KeyLength.value), Serialize(made), offset)
  BY <1>1, <1>2, <1>3, StandsInLonger
<1> QED
  BY <1>1, <1>2, <1>4, LengthOnce

\* A record that stands in the container where the parser is starts with the
\* length of its key, which is not zero.
LEMMA KeyOfNext ==
    ASSUME BackInv, made # <<>>, KeyLength.valid,
           NEW r \in Sized(0), Stands(SerializeRecord(r), Serialize(made), offset)
    PROVE  KeyLength.value # 0
<1>1. /\ r \in Record /\ Len(r.key) < EightDigits /\ r.key # <<>> /\ r.key \in Bytes
  BY DEF Sized, Record
<1>2. offset \in Nat \ {0} /\ Serialize(made) \in Bytes
  BY ReadBackTypes
<1>3. Stands(Encode(Len(r.key)), Serialize(made), offset)
  BY <1>1, <1>2, RecordParts
<1>4. Len(r.key) \in Nat /\ Len(r.key) # 0
  BY <1>1 DEF Bytes
<1> QED
  BY <1>1, <1>3, <1>4, LengthOfNext

\* The parser closes a map where the container closes it.
LEMMA ClosesInOrder ==
    ASSUME BackInv, phase = "parse", made # <<>>, AtSeparator
    PROVE  Len(maps) < Len(made) /\ current = made[Len(maps) + 1]
<1>1. KeyLength.valid /\ KeyLength.value = 0
  BY DEF AtSeparator
<1>2. ~(maps = made /\ offset = Len(Serialize(made)) + 1)
  BY <1>1, NothingBehind
<1>3. ASSUME Len(maps) < Len(made), Len(current) < Len(made[Len(maps) + 1])
      PROVE  ~Stands(SerializeRecord(made[Len(maps) + 1][Len(current) + 1]),
                     Serialize(made), offset)
  <2>1. /\ maps \in Seq(Map) /\ current \in Map /\ made \in Seq(Map)
        /\ \A n \in 1..Len(made) : made[n] \in Seq(Sized(0))
    BY ReadBackTypes
  <2>2. Len(maps) + 1 \in 1..Len(made)
    BY <1>3, <2>1
  <2>3. made[Len(maps) + 1] \in Seq(Sized(0))
    BY <2>1, <2>2
  <2>4. made[Len(maps) + 1][Len(current) + 1] \in Sized(0)
    BY <1>3, <2>1, <2>3 DEF Map
  <2> QED
    BY <1>1, <2>4, KeyOfNext
<1> QED
  BY <1>2, <1>3, WhatIsNext, Zenon

\* The record it reads is the container's next one.
LEMMA ReadsInOrder ==
    ASSUME BackInv, phase = "parse", made # <<>>, AtRecord
    PROVE  /\ Len(maps) < Len(made)
           /\ FirstOf(Append(current, Here), made[Len(maps) + 1])
<1> DEFINE m == made[Len(maps) + 1]
           r == m[Len(current) + 1]
<1>1. /\ KeyLength.valid /\ KeyLength.value # 0 /\ IInv /\ Reading
  BY DEF AtRecord, BackInv, Reading
<1>2. ~(maps = made /\ offset = Len(Serialize(made)) + 1)
  BY <1>1, NothingBehind
<1>3. ~Stands(Separator, Serialize(made), offset)
  <2>1. 0 \in Nat /\ 0 < EightDigits
    BY CountOrder
  <2> QED
    BY <1>1, <2>1, LengthOfNext DEF Separator
<1>4. /\ Len(maps) < Len(made) /\ FirstOf(current, m) /\ Len(current) < Len(m)
      /\ Stands(SerializeRecord(r), Serialize(made), offset)
  BY <1>2, <1>3, WhatIsNext, Zenon
<1>5. /\ buf \in Bytes /\ offset \in Nat \ {0} /\ Serialize(made) \in Bytes
      /\ Stands(buf, Serialize(made), 1)
      /\ maps \in Seq(Map) /\ current \in Map /\ made \in Seq(Map)
      /\ \A n \in 1..Len(made) : made[n] \in Seq(Sized(0)) /\ made[n] \in Map
  BY ReadBackTypes
<1>6. Len(maps) + 1 \in 1..Len(made)
  BY <1>4, <1>5
<1>7. m \in Seq(Sized(0)) /\ m \in Map
  BY <1>5, <1>6
<1>8. r \in Sized(0)
  <2> HIDE DEF m
  <2> QED
    BY <1>4, <1>5, <1>7 DEF Map
<1>9. Here \in Sized(0) /\ Here \in Record
  <2>1. Here \in Sized(3)
    BY <1>1, RecordRead
  <2>2. Sized(3) \subseteq Sized(0)
    BY 3 \in Nat, 0 \in 0..3, SizedMaps
  <2> QED
    BY <2>1, <2>2 DEF Sized
<1>10. Stands(SerializeRecord(Here), Serialize(made), offset)
  <2>1. Stands(SerializeRecord(Here), buf, offset)
    BY <1>1, RecordStands
  <2>2. SerializeRecord(Here) \in Bytes
    BY <1>9, SerializeRecordType
  <2> QED
    BY <1>5, <2>1, <2>2, StandsInLonger
<1>11. Here = r
  BY <1>4, <1>5, <1>8, <1>9, <1>10, RecordOnce
<1>12. FirstOf(Append(current, r), m)
  <2> HIDE DEF m
  <2> QED
    BY <1>4, <1>5, <1>7, FirstAndNext DEF Map
<1> QED
  BY <1>4, <1>11, <1>12

\* When it stops and nothing was cut, it has read every map.
LEMMA StopsAtTheEnd ==
    ASSUME BackInv, phase = "parse", made # <<>>, ~AtSeparator, ~AtRecord, ~cut
    PROVE  maps = made
<1>1. buf = Serialize(made) /\ IInv
  BY DEF BackInv, Written
<1>2. ~Stands(Separator, Serialize(made), offset)
  BY <1>1, SeparatorAccepted
<1>3. ASSUME Len(maps) < Len(made), Len(current) < Len(made[Len(maps) + 1])
      PROVE  ~Stands(SerializeRecord(made[Len(maps) + 1][Len(current) + 1]),
                     Serialize(made), offset)
  <2>1. /\ maps \in Seq(Map) /\ current \in Map /\ made \in Seq(Map)
        /\ \A n \in 1..Len(made) : made[n] \in Seq(Sized(0))
    BY ReadBackTypes
  <2>2. Len(maps) + 1 \in 1..Len(made)
    BY <1>3, <2>1
  <2>3. made[Len(maps) + 1] \in Seq(Sized(0))
    BY <2>1, <2>2
  <2>4. made[Len(maps) + 1][Len(current) + 1] \in Sized(0)
    BY <1>3, <2>1, <2>3 DEF Map
  <2> QED
    BY <1>1, <2>4, RecordAccepted
<1> QED
  BY <1>2, <1>3, WhatIsNext, Zenon

\* A container that was not cut starts with the magic.
LEMMA MagicIsBack ==
    ASSUME BackInv, made # <<>>, ~cut
    PROVE  HasMagic
<1>1. buf = Serialize(made) /\ made \in Seq(Map) /\ buf \in Bytes
  BY ReadBackTypes DEF BackInv, Written
<1>2. Magic \in Bytes /\ IsPrefix(Magic, Magic)
  <2>1. Magic \in Seq(Byte) /\ FirstOf(Magic, Magic)
    BY MagicAssumption DEF FirstOf, Bytes
  <2> QED
    BY <2>1, FirstIsPrefix DEF Bytes
<1>3. PICK rest \in Bytes : Serialize(made) = Magic \o rest
  <2>1. 0 \in 0..Len(made) /\ SubSeq(made, 1, 0) = <<>>
    BY <1>1
  <2>2. Serialize(SubSeq(made, 1, 0)) = Magic
    BY <2>1, SerializeEmpty
  <2> QED
    BY <1>1, <2>1, <2>2, MapsPrefix
<1>4. FirstOf(Magic, Magic \o rest)
  BY <1>2 DEF FirstOf, Bytes
<1>5. Magic \in Seq(Byte) /\ Magic \o rest \in Seq(Byte)
  BY <1>2 DEF Bytes
<1> QED
  BY <1>1, <1>3, <1>4, <1>5, FirstIsPrefix DEF HasMagic

\* Nothing is the first of everything.
LEMMA NothingFirst == \A S : \A t \in Seq(S) : FirstOf(<<>>, t)
BY DEF FirstOf

\* Each step of the parser goes on in order.
LEMMA InOrderStep ==
    ASSUME BackInv, [Next]_vars
    PROVE  InOrder'
<1>0. IInv
  BY DEF BackInv
<1>1. CASE BeginCall
  <2> SUFFICES ASSUME made' # <<>> PROVE InOrder'
    BY DEF InOrder
  <2>1. /\ maps' = <<>> /\ current' = <<>> /\ made' = made /\ cut' = cut
        /\ phase' = IF HasMagic THEN "parse" ELSE "parsed"
    BY <1>1 DEF BeginCall
  <2>2. /\ made \in Seq(Map) /\ Len(made) \in Nat \ {0} /\ made[1] \in Map
    BY <2>1, ReadBackTypes
  <2>3. FirstOf(<<>>, made) /\ FirstOf(<<>>, made[1])
    BY <2>2, NothingFirst DEF Map
  <2>4. phase' = "parsed" => cut'
    BY <2>1, MagicIsBack
  <2>5. FirstOf(maps, made)'
    BY <2>1, <2>3 DEF FirstOf
  <2>6. Len(maps') = 0 /\ Len(maps') + 1 = 1
    BY <2>1
  <2>7. FirstOf(current', made'[Len(maps') + 1])
    BY <2>1, <2>3, <2>6
  <2> QED
    BY <2>1, <2>4, <2>5, <2>7 DEF InOrder, FirstOf
<1>2. CASE ReadRecord
  <2> SUFFICES ASSUME made' # <<>> PROVE InOrder'
    BY DEF InOrder
  <2>1. /\ phase = "parse" /\ AtRecord /\ phase' = "parse" /\ made' = made /\ maps' = maps
        /\ current' = Append(current, Here)
    BY <1>2 DEF ReadRecord, Here
  <2>2. Len(maps) < Len(made) /\ FirstOf(Append(current, Here), made[Len(maps) + 1])
    BY <2>1, ReadsInOrder
  <2>3. FirstOf(maps, made)
    BY <2>1 DEF BackInv, InOrder, Reading
  <2> QED
    BY <2>1, <2>2, <2>3 DEF InOrder, FirstOf
<1>3. CASE CloseMap
  <2> SUFFICES ASSUME made' # <<>> PROVE InOrder'
    BY DEF InOrder
  <2>1. /\ phase = "parse" /\ AtSeparator /\ phase' = "parse" /\ made' = made
        /\ maps' = Append(maps, current) /\ current' = <<>>
    BY <1>3 DEF CloseMap
  <2>2. Len(maps) < Len(made) /\ current = made[Len(maps) + 1]
    BY <2>1, ClosesInOrder
  <2>3. FirstOf(maps, made) /\ maps \in Seq(Map) /\ made \in Seq(Map)
    BY <2>1, ReadBackTypes DEF BackInv, InOrder, Reading
  <2>4. FirstOf(Append(maps, current), made)
    BY <2>2, <2>3, FirstAndNext
  <2>5. Len(maps') = Len(maps) + 1 /\ Len(maps) \in Nat /\ Len(made) \in Nat
    BY <2>1, <2>3
  <2>6. ASSUME Len(maps') < Len(made) PROVE FirstOf(<<>>, made[Len(maps') + 1])
    <3>1. Len(maps') + 1 \in 1..Len(made)
      BY <2>5, <2>6
    <3>2. made[Len(maps') + 1] \in Map
      BY <2>3, <3>1
    <3> QED
      BY <3>2, NothingFirst DEF Map
  <2>7. Len(maps') < Len(made) => FirstOf(current', made'[Len(maps') + 1])
    BY <2>1, <2>6
  <2>8. FirstOf(maps', made')
    BY <2>1, <2>4
  <2> QED
    BY <2>1, <2>7, <2>8 DEF InOrder, FirstOf
<1>4. CASE StopParsing
  <2> SUFFICES ASSUME made' # <<>> PROVE InOrder'
    BY DEF InOrder
  <2>1. /\ phase = "parse" /\ ~AtSeparator /\ ~AtRecord /\ phase' = "parsed"
        /\ made' = made /\ maps' = maps /\ cut' = cut
    BY <1>4 DEF StopParsing
  <2>2. ~cut => maps = made
    BY <2>1, StopsAtTheEnd
  <2>3. FirstOf(maps, made)
    BY <2>1 DEF BackInv, InOrder, Reading
  <2> QED
    BY <2>1, <2>2, <2>3 DEF InOrder, FirstOf
<1>5. CASE UNCHANGED vars
  BY <1>5 DEF vars, BackInv, InOrder, Reading, FirstOf
<1>6. CASE PickInput
  BY <1>6 DEF PickInput, InOrder
<1>7. ASSUME phase' \in {"idle", "mutate"} PROVE InOrder'
  BY <1>7 DEF InOrder, Reading
<1>8. CASE UseTemplate \/ BeginMutations \/ Finish \/ AddMap
  <2>1. phase' \in {"idle", "mutate"}
    BY <1>8 DEF UseTemplate, BeginMutations, Finish, AddMap, ReturnBuffer, Mutates
  <2> QED
    BY <1>7, <2>1
<1>9. ASSUME NEW i \in DOMAIN maps,
             \/ MutateNothing(i) \/ InsertKnown(i) \/ RemoveMap(i)
             \/ \E j \in DOMAIN maps[i] :
                    \/ MutateValue(i, j) \/ MutateKey(i, j)
                    \/ RemoveRecord(i, j) \/ DuplicateRecord(i, j)
      PROVE  InOrder'
  <2>1. Mutates
    BY <1>9 DEF MutateNothing, InsertKnown, RemoveMap, MutateValue, MutateKey, RemoveRecord,
                DuplicateRecord
  <2> QED
    BY <1>7, <2>1 DEF Mutates
<1> QED
  BY <1>1, <1>2, <1>3, <1>4, <1>5, <1>6, <1>8, <1>9 DEF Next

\* At the start nothing was written and nothing is read.
LEMMA InitBack == Init => Written /\ InOrder
BY DEF Init, Written, InOrder

\* It implies what the runs check.
LEMMA BackImplies == BackInv => ReadsBackItsOutput
<1> SUFFICES ASSUME BackInv, phase = "parsed", made # <<>>
             PROVE  IF cut THEN IsPrefix(maps, made) ELSE maps = made
  BY DEF ReadsBackItsOutput
<1>1. FirstOf(maps, made) /\ (~cut => maps = made)
  BY DEF BackInv, InOrder, Reading
<1>2. maps \in Seq(Map) /\ made \in Seq(Map)
  BY ReadBackTypes
<1> QED
  BY <1>1, <1>2, FirstIsPrefix

(***************************************************************************)
(* The theorems                                                            *)
(***************************************************************************)

\* The state is what its declaration says, the buffer always bytes, whatever
\* LLVMFuzzerMutate wrote and wherever max_size cut.
THEOREM TypeCorrect == Spec => []TypeOK
BY AlwaysIInv, IInvImplies, PTL

\* mutate_maps is never called without maps, and no record with an empty key,
\* which would end its map, is ever in hand, after any number of calls.
THEOREM StructureKept == Spec => []Structured
BY AlwaysIInv, IInvImplies, PTL

\* The returned buffer fits max_size, and is only shorter than the container
\* when it fills max_size.
THEOREM OutputAlwaysFits == Spec => []OutputFits
<1>1. IInv => OutputFits
  BY DEF IInv
<1> QED
  BY <1>1, AlwaysIInv, PTL

\* Loop invariant of parse_psbt, for any buffer: what was read so far is the
\* text that the maps in hand are written as, byte for byte, so a length that
\* is not canonical, or that points beyond the buffer, was never followed.
THEOREM OnlyCanonicalIsRead == Spec => []ReadsCanonically
<1>1. IInv /\ Canonical /\ [Next]_vars => IInv' /\ Canonical'
  BY NextIInv, CanonicalStep
<1>2. Init => IInv /\ Canonical
  BY InitIInv, InitCanonical
<1> QED
  BY <1>1, <1>2, CanonicalImplies, PTL DEF Spec

\* The mutator reads back what it wrote, for any buffer, any mutations and any
\* max_size: every map of it, or, when max_size cut the output, the complete
\* maps before the cut.
THEOREM OutputIsReadBack == Spec => []ReadsBackItsOutput
<1>1. BackInv /\ [Next]_vars => BackInv'
  BY NextIInv, CanonicalStep, WrittenStep, InOrderStep DEF BackInv
<1>2. Init => BackInv
  BY InitIInv, InitCanonical, InitBack DEF BackInv
<1> QED
  BY <1>1, <1>2, BackImplies, PTL DEF Spec
=============================================================================
