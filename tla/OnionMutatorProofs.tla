------------------------- MODULE OnionMutatorProofs -------------------------
(***************************************************************************)
(* Proofs about OnionMutator, for any base, any size of the payload, any   *)
(* keys, any bytes that LLVMFuzzerMutate writes and any number of calls.   *)
(***************************************************************************)
EXTENDS OnionMutator, CodecLemmas

(***************************************************************************)
(* The codec                                                               *)
(***************************************************************************)

\* The first byte stays where it is, and the digits behind it are swapped.
LEMMA SwapDigitsIs ==
    ASSUME NEW b \in Bytes, b # <<>>
    PROVE  /\ SwapDigits(b) \in Bytes
           /\ Len(SwapDigits(b)) = Len(b)
           /\ SwapDigits(b)[1] = b[1]
           /\ \A i \in 2..Len(b) : SwapDigits(b)[i] = b[Len(b) + 2 - i]
<1> DEFINE t == Tail(b)
           r == Reverse(t)
<1>1. /\ Head(b) = b[1] /\ b[1] \in Byte /\ Len(b) \in Nat \ {0}
      /\ t \in Seq(Byte) /\ Len(t) = Len(b) - 1
      /\ \A i \in 1..(Len(b) - 1) : t[i] = b[i + 1]
  BY DEF Bytes
<1> HIDE DEF t
<1>2. r = [i \in 1..Len(t) |-> t[(Len(t) - i) + 1]]
  BY DEF Reverse
<1>3. ASSUME NEW i \in 1..Len(t) PROVE r[i] = t[(Len(t) - i) + 1] /\ r[i] \in Byte
  <2>1. (Len(t) - i) + 1 \in 1..Len(t)
    BY <1>1
  <2> QED
    BY <1>1, <1>2, <2>1
<1>4. r \in Seq(Byte) /\ Len(r) = Len(t)
  <2>1. Len(t) \in Nat
    BY <1>1
  <2> HIDE DEF r
  <2> QED
    BY <1>2, <1>3, <2>1
<1> HIDE DEF r
<1>5. SwapDigits(b) = <<b[1]>> \o r
  BY <1>1 DEF SwapDigits, r, t
<1>6. <<b[1]>> \in Seq(Byte) /\ Len(<<b[1]>>) = 1 /\ <<b[1]>>[1] = b[1]
  BY <1>1
<1>7. ASSUME NEW s \in Seq(Byte), Len(s) = 1
      PROVE  /\ s \o r \in Seq(Byte) /\ Len(s \o r) = Len(b) /\ (s \o r)[1] = s[1]
             /\ \A i \in 2..Len(b) : (s \o r)[i] = r[i - 1]
  <2>1. Joined(Byte, s, r)
    BY <1>4, JoinIs
  <2>2. ASSUME NEW i \in 2..Len(b) PROVE (s \o r)[i] = r[i - 1]
    <3>1. i - 1 \in 1..Len(r) /\ 1 + (i - 1) = i
      BY <1>1, <1>4
    <3> QED
      BY <1>7, <2>1, <3>1, Zenon DEF Joined
  <2>3. 1 \in 1..Len(s) /\ Len(s) + Len(r) = Len(b)
    BY <1>1, <1>4, <1>7
  <2> QED
    BY <2>1, <2>2, <2>3, Zenon DEF Joined
<1>8. ASSUME NEW i \in 2..Len(b) PROVE r[i - 1] = b[Len(b) + 2 - i]
  <2>1. /\ i - 1 \in 1..Len(t) /\ (Len(t) - (i - 1)) + 1 \in 1..(Len(b) - 1)
        /\ ((Len(t) - (i - 1)) + 1) + 1 = Len(b) + 2 - i
    BY <1>1
  <2> QED
    BY <1>1, <1>3, <2>1
<1>9. \A i \in 2..Len(b) : (<<b[1]>> \o r)[i] = b[Len(b) + 2 - i]
  BY <1>6, <1>7, <1>8, Zenon
<1> DEFINE u == <<b[1]>> \o r
<1>10. u \in Seq(Byte) /\ Len(u) = Len(b) /\ u[1] = b[1]
  BY <1>6, <1>7, Zenon
<1>11. \A i \in 2..Len(b) : u[i] = b[Len(b) + 2 - i]
  BY <1>9
<1>12. SwapDigits(b) = u
  BY <1>5
<1> HIDE DEF u
<1> QED
  BY <1>10, <1>11, <1>12, Zenon DEF Bytes

\* A BigSize is bytes, as many as the CompactSize.
LEMMA BigSizeType ==
    ASSUME NEW value \in Nat
    PROVE  /\ encode_bigsize(value) \in Bytes
           /\ Len(encode_bigsize(value)) = Len(Encode(value))
           /\ Len(encode_bigsize(value)) \in Nat \ {0}
<1>1. Encode(value) \in Bytes /\ Len(Encode(value)) \in Nat \ {0}
  BY EncodeType
<1>2. Encode(value) # <<>>
  BY <1>1 DEF Bytes
<1> QED
  BY <1>1, <1>2, SwapDigitsIs DEF encode_bigsize

\* The width that a first byte announces.
LEMMA WidthType ==
    ASSUME NEW first \in Byte
    PROVE  (IF first < Escape THEN 0 ELSE Width(first)) \in {0, 2, 4, 8}
<1>1. first \in Nat
  BY BaseAssumption DEF Byte
<1> QED
  BY <1>1, Announcements

\* What is read comes from before the end.
ReadsWithin(r, o, end) ==
    /\ r.valid \in BOOLEAN
    /\ r.value \in Nat
    /\ r.bytes_read \in Nat
    /\ r.valid => r.bytes_read # 0 /\ o + r.bytes_read <= end

LEMMA DecodeBigSizeType ==
    ASSUME NEW data \in Bytes, NEW o \in Nat \ {0}, NEW end \in Nat, end <= Len(data) + 1
    PROVE  ReadsWithin(decode_bigsize(data, o, end), o, end)
<1>1. ReadsWithin(Invalid, o, end)
  BY DEF ReadsWithin, Invalid
<1>2. CASE o >= end
  BY <1>1, <1>2 DEF decode_bigsize
<1>3. CASE ~(o >= end)
  <2> DEFINE bytes == SubSeq(data, o, end - 1)
             width == IF bytes[1] < Escape THEN 0 ELSE Width(bytes[1])
             front == SubSeq(bytes, 1, 1 + width)
  <2>1. bytes \in Seq(Byte) /\ Len(bytes) = end - o /\ end - o \in Nat \ {0}
    BY <1>3 DEF Bytes
  <2>2. bytes[1] \in Byte
    BY <2>1
  <2>3. width \in {0, 2, 4, 8}
    BY <2>2, WidthType, Zenon
  <2> HIDE DEF bytes, width
  <2>4. decode_bigsize(data, o, end) =
            IF Len(bytes) < 1 + width THEN Invalid ELSE Decode(SwapDigits(front), 1)
    BY <1>3, Zenon DEF decode_bigsize, bytes, width
  <2>5. CASE Len(bytes) < 1 + width
    BY <1>1, <2>4, <2>5
  <2>6. CASE ~(Len(bytes) < 1 + width)
    <3>1. front \in Bytes /\ Len(front) = 1 + width /\ front # <<>> /\ 1 + width <= end - o
      BY <2>1, <2>3, <2>6 DEF Bytes
    <3> HIDE DEF front
    <3>2. SwapDigits(front) \in Bytes /\ Len(SwapDigits(front)) = 1 + width
      BY <3>1, SwapDigitsIs
    <3> DEFINE r == Decode(SwapDigits(front), 1)
    <3>3. /\ r.valid \in BOOLEAN /\ r.value \in Nat /\ r.bytes_read \in Nat
          /\ r.valid => r.bytes_read # 0 /\ 1 + r.bytes_read <= Len(SwapDigits(front)) + 1
      BY <3>2, DecodeType
    <3>4. decode_bigsize(data, o, end) = r
      BY <2>4, <2>6
    <3> HIDE DEF r
    <3>5. r.valid => o + r.bytes_read <= end
      BY <2>3, <3>1, <3>2, <3>3
    <3> QED
      BY <3>3, <3>4, <3>5 DEF ReadsWithin
  <2> QED
    BY <2>5, <2>6
<1> QED
  BY <1>2, <1>3

(***************************************************************************)
(* The parser                                                              *)
(***************************************************************************)

\* Where the parser stands, and what it has read.
Reading == [o : Nat \ {0}, more : BOOLEAN, records : Seq(Record)]

\* A round of the loop reads a type and bytes, from before the end.
LEMMA ReadRecordType ==
    ASSUME NEW data \in Bytes, NEW end \in Nat, end <= Len(data) + 1, NEW s \in Reading
    PROVE  ReadRecord(data, end, s) \in Reading
<1> DEFINE type  == decode_bigsize(data, s.o, end)
           o     == s.o + type.bytes_read
           len   == decode_bigsize(data, o, end)
           start == o + len.bytes_read
           value == SubSeq(data, start, start + len.value - 1)
           stops == \/ ~s.more \/ ~type.valid
                    \/ OutOfOrder(type.value, s.records)
                    \/ ~len.valid
                    \/ len.value > end - start
           goes  == [o       |-> start + len.value,
                     more    |-> TRUE,
                     records |-> Append(s.records, [type |-> type.value, value |-> value])]
<1>1. ReadRecord(data, end, s) = IF stops THEN [s EXCEPT !.more = FALSE] ELSE goes
  BY DEF ReadRecord
<1>2. s.o \in Nat \ {0} /\ s.records \in Seq(Record)
  BY DEF Reading
<1>3. ReadsWithin(type, s.o, end)
  BY <1>2, DecodeBigSizeType
<1> HIDE DEF type
<1>4. o \in Nat \ {0}
  BY <1>2, <1>3 DEF ReadsWithin
<1> HIDE DEF o
<1>5. ReadsWithin(len, o, end)
  BY <1>4, DecodeBigSizeType
<1> HIDE DEF len
<1>6. start \in Nat \ {0} /\ start + len.value \in Nat \ {0}
  BY <1>4, <1>5 DEF ReadsWithin
<1>7. CASE stops
  <2>1. [s EXCEPT !.more = FALSE] \in Reading
    BY DEF Reading
  <2> QED
    BY <1>1, <1>7, <2>1, Zenon
<1>8. CASE ~stops
  <2>1. len.valid /\ ~(len.value > end - start) /\ len.value \in Nat
    BY <1>5, <1>8 DEF ReadsWithin
  <2> HIDE DEF start
  <2>2. value \in Bytes
    <3>1. start + len.value - 1 <= Len(data)
      BY <1>6, <2>1 DEF Bytes
    <3> QED
      BY <1>6, <2>1, <3>1 DEF Bytes
  <2> HIDE DEF value
  <2>3. [type |-> type.value, value |-> value] \in Record
    BY <1>3, <2>2 DEF Record, ReadsWithin
  <2>4. Append(s.records, [type |-> type.value, value |-> value]) \in Seq(Record)
    BY <1>2, <2>3, AppendIs, Zenon DEF Appended
  <2>5. goes \in Reading
    BY <1>6, <2>4 DEF Reading
  <2> QED
    BY <1>1, <1>8, <2>5, Zenon
<1> QED
  BY <1>7, <1>8

\* f holds the states of the loop, from first on.
Reads(f, data, end, first, n) ==
    f = [k \in 0..n |-> IF k = 0 THEN first ELSE ReadRecord(data, end, f[k - 1])]

\* There is such a function.
LEMMA ReadsExist ==
    ASSUME NEW data \in Bytes, NEW end \in Nat, end <= Len(data) + 1,
           NEW first \in Reading, NEW n \in Nat
    PROVE  \E f : Reads(f, data, end, first, n)
<1> DEFINE F == [p \in (1..n) \X Reading |-> ReadRecord(data, end, p[2])]
<1>1. F \in [(1..n) \X Reading -> Reading]
  BY ReadRecordType
<1> HIDE DEF F
<1>2. Recurses(Reading, n, first, F)
  BY <1>1, RecursionIn
<1>3. PICK f \in [0..n -> Reading] : f[0] = first /\ \A k \in 1..n : f[k] = F[<<k, f[k - 1]>>]
  BY <1>2 DEF Recurses
<1>4. ASSUME NEW k \in 0..n
      PROVE  f[k] = IF k = 0 THEN first ELSE ReadRecord(data, end, f[k - 1])
  <2>1. CASE k = 0
    BY <1>3, <2>1
  <2>2. CASE k # 0
    <3>1. k \in 1..n /\ k - 1 \in 0..n
      BY <2>2
    <3>2. <<k, f[k - 1]>> \in (1..n) \X Reading
      BY <1>3, <3>1
    <3>3. F[<<k, f[k - 1]>>] = ReadRecord(data, end, <<k, f[k - 1]>>[2])
      BY <3>2, Zenon DEF F
    <3>4. <<k, f[k - 1]>>[2] = f[k - 1]
      OBVIOUS
    <3> QED
      BY <1>3, <2>2, <3>1, <3>3, <3>4, Zenon
  <2> QED
    BY <2>1, <2>2
<1>5. f = [k \in 0..n |-> f[k]]
  BY <1>3
<1>6. ASSUME NEW g, g = [k \in 0..n |-> g[k]],
             \A k \in 0..n : g[k] = IF k = 0 THEN first ELSE ReadRecord(data, end, g[k - 1])
      PROVE  Reads(g, data, end, first, n)
  BY <1>6, Zenon DEF Reads
<1> QED
  BY <1>4, <1>5, <1>6, Zenon

\* Its values.
LEMMA ReadsValues ==
    ASSUME NEW data \in Bytes, NEW end \in Nat, end <= Len(data) + 1,
           NEW first \in Reading, NEW n \in Nat, NEW f, Reads(f, data, end, first, n)
    PROVE  /\ f[0] = first
           /\ \A k \in 1..n : f[k] = ReadRecord(data, end, f[k - 1])
           /\ \A k \in 0..n : f[k] \in Reading
<1>1. \A k \in 0..n : f[k] = IF k = 0 THEN first ELSE ReadRecord(data, end, f[k - 1])
  BY Zenon DEF Reads
<1>2. f[0] = first
  <2>1. 0 \in 0..n
    OBVIOUS
  <2> QED
    BY <1>1, <2>1, Zenon
<1>3. ASSUME NEW k \in 1..n PROVE f[k] = ReadRecord(data, end, f[k - 1])
  <2>1. k \in 0..n /\ k # 0
    OBVIOUS
  <2> QED
    BY <1>1, <2>1, Zenon
<1>4. \A k \in 0..n : f[k] \in Reading
  <2> DEFINE P == {k \in 0..n : f[k] \in Reading}
  <2>1. 0 \in P
    BY <1>2
  <2>2. \A k \in 1..n : k - 1 \in P => k \in P
    BY <1>3, ReadRecordType
  <2> HIDE DEF P
  <2>3. \A k \in 0..n : k \in P
    BY <2>1, <2>2, RoundByRound, Zenon
  <2> QED
    BY <2>3 DEF P
<1> QED
  BY <1>2, <1>3, <1>4

\* The end is behind no byte.
LEMMA StreamEndType ==
    ASSUME NEW data \in Bytes, NEW prefix, prefix.bytes_read \in Nat, prefix.value \in Nat
    PROVE  StreamEnd(data, prefix) \in Nat /\ StreamEnd(data, prefix) <= Len(data) + 1
<1>1. \A a \in Nat, m \in Nat : m # 0 => (a % m) \in Nat
  OBVIOUS
<1>2. prefix.bytes_read + prefix.value \in Nat /\ EightDigits \in Nat /\ EightDigits # 0
  BY CountOrder
<1> DEFINE end == Word(prefix.bytes_read + prefix.value)
<1>3. end \in Nat
  BY <1>1, <1>2 DEF Word
<1>4. Len(data) \in Nat
  BY DEF Bytes
<1>5. StreamEnd(data, prefix) = IF end > Len(data) THEN Len(data) + 1 ELSE end + 1
  BY DEF StreamEnd
<1> HIDE DEF end
<1> QED
  BY <1>3, <1>4, <1>5

\* What is parsed of bytes is records.
LEMMA ParseType ==
    ASSUME NEW data \in Bytes
    PROVE  parse_tlv_hop_payload(data) \in Seq(Record)
<1> DEFINE prefix == decode_bigsize(data, 1, Len(data) + 1)
           end    == StreamEnd(data, prefix)
           first  == [o |-> 1 + prefix.bytes_read, more |-> TRUE, records |-> <<>>]
           read   == CHOOSE f : Reads(f, data, end, first, Len(data))
<1>1. Len(data) \in Nat /\ Len(data) + 1 \in Nat
  BY DEF Bytes
<1>2. prefix.bytes_read \in Nat /\ prefix.value \in Nat
  BY <1>1, DecodeBigSizeType DEF ReadsWithin
<1>3. parse_tlv_hop_payload(data) =
          IF ~prefix.valid \/ prefix.value = 0 THEN <<>> ELSE read[Len(data)].records
  BY Zenon DEF parse_tlv_hop_payload, Reads
<1> HIDE DEF prefix
<1>4. end \in Nat /\ end <= Len(data) + 1
  BY <1>2, StreamEndType
<1>5. first \in Reading
  BY <1>2 DEF Reading
<1> HIDE DEF end, first
<1>6. Reads(read, data, end, first, Len(data))
  <2>1. \E f : Reads(f, data, end, first, Len(data))
    BY <1>1, <1>4, <1>5, ReadsExist
  <2> QED
    BY <2>1, Zenon
<1> HIDE DEF read
<1>7. read[Len(data)] \in Reading
  <2>1. Len(data) \in 0..Len(data)
    BY <1>1
  <2> QED
    BY <1>1, <1>4, <1>5, <1>6, <2>1, ReadsValues
<1>8. read[Len(data)].records \in Seq(Record)
  BY <1>7 DEF Reading
<1>9. <<>> \in Seq(Record)
  OBVIOUS
<1> QED
  BY <1>3, <1>8, <1>9, Zenon

(***************************************************************************)
(* The serializer                                                          *)
(***************************************************************************)

\* A record takes a number of bytes.
LEMMA EncodedSizeType ==
    ASSUME NEW record \in Record
    PROVE  encoded_size(record) \in Nat
<1>1. record.type \in Nat /\ Len(record.value) \in Nat
  BY DEF Record, Bytes
<1>2. /\ Len(encode_bigsize(record.type)) \in Nat
      /\ Len(encode_bigsize(Len(record.value))) \in Nat
  BY <1>1, BigSizeType, Zenon
<1>3. \A a, b, c \in Nat : a + b + c \in Nat
  OBVIOUS
<1> QED
  BY <1>1, <1>2, <1>3, Zenon DEF encoded_size

\* f adds up the sizes of the records.
SizesOf(f, recs, n) ==
    f = [k \in 0..n |-> IF k = 0 THEN 0 ELSE f[k - 1] + encoded_size(recs[k])]

LEMMA StreamSizeType ==
    ASSUME NEW recs \in Seq(Record)
    PROVE  StreamSize(recs) \in Nat
<1> DEFINE n == Len(recs)
           F == [p \in (1..n) \X Nat |-> p[2] + encoded_size(recs[p[1]])]
<1>0. n \in Nat /\ \A k \in 1..n : recs[k] \in Record
  OBVIOUS
<1> HIDE DEF n
<1>1. F \in [(1..n) \X Nat -> Nat]
  <2>1. \A p \in (1..n) \X Nat : p[2] + encoded_size(recs[p[1]]) \in Nat
    BY <1>0, EncodedSizeType
  <2> QED
    BY <2>1
<1> HIDE DEF F
<1>2. Recurses(Nat, n, 0, F)
  BY <1>0, <1>1, RecursionIn
<1>3. PICK f \in [0..n -> Nat] : f[0] = 0 /\ \A k \in 1..n : f[k] = F[<<k, f[k - 1]>>]
  BY <1>2 DEF Recurses
<1>4. ASSUME NEW k \in 0..n
      PROVE  f[k] = IF k = 0 THEN 0 ELSE f[k - 1] + encoded_size(recs[k])
  <2>1. CASE k = 0
    BY <1>3, <2>1
  <2>2. CASE k # 0
    <3>1. k \in 1..n /\ k - 1 \in 0..n
      BY <1>0, <2>2
    <3>2. <<k, f[k - 1]>> \in (1..n) \X Nat
      BY <1>3, <3>1
    <3>3. F[<<k, f[k - 1]>>] = <<k, f[k - 1]>>[2] + encoded_size(recs[<<k, f[k - 1]>>[1]])
      BY <3>2, Zenon DEF F
    <3>4. <<k, f[k - 1]>>[2] = f[k - 1] /\ <<k, f[k - 1]>>[1] = k
      OBVIOUS
    <3> QED
      BY <1>3, <2>2, <3>1, <3>3, <3>4, Zenon
  <2> QED
    BY <2>1, <2>2
<1>5. f = [k \in 0..n |-> f[k]]
  BY <1>3
<1>6. \E g : SizesOf(g, recs, n)
  <2>1. ASSUME NEW g, g = [k \in 0..n |-> g[k]],
               \A k \in 0..n : g[k] = IF k = 0 THEN 0 ELSE g[k - 1] + encoded_size(recs[k])
        PROVE  SizesOf(g, recs, n)
    BY <2>1, Zenon DEF SizesOf
  <2> QED
    BY <1>4, <1>5, <2>1, Zenon
<1> DEFINE size == CHOOSE g : SizesOf(g, recs, n)
<1>7. SizesOf(size, recs, n)
  BY <1>6, Zenon
<1>8. StreamSize(recs) = size[n]
  BY Zenon DEF StreamSize, SizesOf, n
<1> HIDE DEF size
<1>9. \A k \in 0..n : size[k] = IF k = 0 THEN 0 ELSE size[k - 1] + encoded_size(recs[k])
  BY <1>7, Zenon DEF SizesOf
<1>10. \A k \in 0..n : size[k] \in Nat
  <2> DEFINE P == {k \in 0..n : size[k] \in Nat}
  <2>1. 0 \in P
    BY <1>0, <1>9
  <2>2. ASSUME NEW k \in 1..n, k - 1 \in P PROVE k \in P
    <3>1. k \in 0..n /\ k # 0
      BY <1>0
    <3>2. size[k] = size[k - 1] + encoded_size(recs[k])
      BY <1>9, <3>1, Zenon
    <3>3. encoded_size(recs[k]) \in Nat /\ size[k - 1] \in Nat
      BY <1>0, <2>2, EncodedSizeType
    <3>4. \A a, b \in Nat : a + b \in Nat
      OBVIOUS
    <3> QED
      BY <3>1, <3>2, <3>3, <3>4, Zenon
  <2> HIDE DEF P
  <2>3. \A k \in 0..n : k \in P
    BY <1>0, <2>1, <2>2, RoundByRound, Zenon
  <2> QED
    BY <2>3 DEF P
<1> QED
  BY <1>0, <1>8, <1>10

\* Bytes that fit, and whether there is room behind them.
Writing == [bytes : {b \in Bytes : Len(b) <= HOP_PAYLOADS_SIZE}, full : BOOLEAN]

\* What follows bytes is bytes.
LEMMA Behind ==
    ASSUME NEW s \in Bytes, NEW t \in Bytes
    PROVE  s \o t \in Bytes /\ Len(s \o t) = Len(s) + Len(t)
BY DEF Bytes

\* What is cut fits.
LEMMA CutType ==
    ASSUME NEW b \in Bytes
    PROVE  Cut(b) \in Bytes /\ Len(Cut(b)) <= HOP_PAYLOADS_SIZE
<1>1. HOP_PAYLOADS_SIZE \in Nat
  BY OnionAssumption
<1>2. ASSUME NEW n \in Nat, n <= Len(b) PROVE SubSeq(b, 1, n) \in Bytes /\ Len(SubSeq(b, 1, n)) = n
  BY <1>2 DEF Bytes
<1>3. Len(b) \in Nat
  BY DEF Bytes
<1> DEFINE n == IF Len(b) < HOP_PAYLOADS_SIZE THEN Len(b) ELSE HOP_PAYLOADS_SIZE
<1>4. n \in Nat /\ n <= Len(b) /\ n <= HOP_PAYLOADS_SIZE
  BY <1>1, <1>3
<1>5. Cut(b) = SubSeq(b, 1, n)
  BY DEF Cut
<1> HIDE DEF n
<1> QED
  BY <1>2, <1>4, <1>5

\* A record leaves bytes that fit.
LEMMA WriteRecordType ==
    ASSUME NEW s \in Writing, NEW record \in Record
    PROVE  WriteRecord(s, record) \in Writing
<1> DEFINE type == s.bytes \o encode_bigsize(record.type)
           len  == type \o encode_bigsize(Len(record.value))
           all  == len \o record.value
<1>0. HOP_PAYLOADS_SIZE \in Nat
  BY OnionAssumption
<1>1. s.bytes \in Bytes /\ record.type \in Nat /\ record.value \in Bytes
  BY DEF Writing, Record
<1>2. Len(record.value) \in Nat
  BY <1>1 DEF Bytes
<1>3. type \in Bytes
  BY <1>1, BigSizeType, Behind
<1>4. WriteRecord(s, record) =
        IF s.full THEN s
        ELSE IF Len(type) > HOP_PAYLOADS_SIZE THEN [s EXCEPT !.full = TRUE]
        ELSE IF Len(len) > HOP_PAYLOADS_SIZE THEN [bytes |-> type, full |-> TRUE]
        ELSE [bytes |-> Cut(all), full |-> Len(all) >= HOP_PAYLOADS_SIZE]
  BY DEF WriteRecord
<1> HIDE DEF type
<1>5. len \in Bytes
  BY <1>2, <1>3, BigSizeType, Behind
<1> HIDE DEF len
<1>6. all \in Bytes
  BY <1>1, <1>5, Behind
<1> HIDE DEF all
<1>7. Len(type) \in Nat
  BY <1>3 DEF Bytes
<1>8. [s EXCEPT !.full = TRUE] \in Writing
  BY DEF Writing
<1>9. Len(type) <= HOP_PAYLOADS_SIZE => [bytes |-> type, full |-> TRUE] \in Writing
  BY <1>3 DEF Writing
<1>10. [bytes |-> Cut(all), full |-> Len(all) >= HOP_PAYLOADS_SIZE] \in Writing
  BY <1>6, CutType DEF Writing
<1>11. Len(type) > HOP_PAYLOADS_SIZE \/ Len(type) <= HOP_PAYLOADS_SIZE
  BY <1>0, <1>7
<1> QED
  BY <1>4, <1>8, <1>9, <1>10, <1>11, Zenon

\* Zeroes fill the buffer up.
LEMMA PaddedType ==
    ASSUME NEW b \in Bytes, Len(b) <= HOP_PAYLOADS_SIZE
    PROVE  Padded(b) \in Bytes /\ Len(Padded(b)) = HOP_PAYLOADS_SIZE
<1> DEFINE n == HOP_PAYLOADS_SIZE - Len(b)
           zeroes == [i \in 1..n |-> 0]
<1>1. n \in Nat /\ Len(b) + n = HOP_PAYLOADS_SIZE
  BY OnionAssumption DEF Bytes
<1>2. 0 \in Byte
  BY BaseAssumption DEF Byte
<1>3. zeroes \in Bytes /\ Len(zeroes) = n
  <2> HIDE DEF n
  <2> QED
    BY <1>1, <1>2 DEF Bytes
<1>4. Padded(b) = b \o zeroes
  BY DEF Padded
<1> HIDE DEF zeroes, n
<1> QED
  BY <1>1, <1>3, <1>4, Behind

\* f holds what is written, record by record.
Writes(f, recs, first, n) ==
    f = [k \in 0..n |-> IF k = 0 THEN first ELSE WriteRecord(f[k - 1], recs[k])]

LEMMA WritesExist ==
    ASSUME NEW recs \in Seq(Record), NEW first \in Writing
    PROVE  \E f : Writes(f, recs, first, Len(recs))
<1> DEFINE n == Len(recs)
           F == [p \in (1..n) \X Writing |-> WriteRecord(p[2], recs[p[1]])]
<1>0. n \in Nat /\ \A k \in 1..n : recs[k] \in Record
  OBVIOUS
<1> HIDE DEF n
<1>1. F \in [(1..n) \X Writing -> Writing]
  <2>1. \A p \in (1..n) \X Writing : WriteRecord(p[2], recs[p[1]]) \in Writing
    BY <1>0, WriteRecordType
  <2> QED
    BY <2>1
<1> HIDE DEF F
<1>2. Recurses(Writing, n, first, F)
  BY <1>0, <1>1, RecursionIn
<1>3. PICK f \in [0..n -> Writing] : f[0] = first /\ \A k \in 1..n : f[k] = F[<<k, f[k - 1]>>]
  BY <1>2 DEF Recurses
<1>4. ASSUME NEW k \in 0..n
      PROVE  f[k] = IF k = 0 THEN first ELSE WriteRecord(f[k - 1], recs[k])
  <2>1. CASE k = 0
    BY <1>3, <2>1
  <2>2. CASE k # 0
    <3>1. k \in 1..n /\ k - 1 \in 0..n
      BY <1>0, <2>2
    <3>2. <<k, f[k - 1]>> \in (1..n) \X Writing
      BY <1>3, <3>1
    <3>3. F[<<k, f[k - 1]>>] = WriteRecord(<<k, f[k - 1]>>[2], recs[<<k, f[k - 1]>>[1]])
      BY <3>2, Zenon DEF F
    <3>4. <<k, f[k - 1]>>[2] = f[k - 1] /\ <<k, f[k - 1]>>[1] = k
      OBVIOUS
    <3> QED
      BY <1>3, <2>2, <3>1, <3>3, <3>4, Zenon
  <2> QED
    BY <2>1, <2>2
<1>5. f = [k \in 0..n |-> f[k]]
  BY <1>3
<1>6. ASSUME NEW g, g = [k \in 0..n |-> g[k]],
             \A k \in 0..n : g[k] = IF k = 0 THEN first ELSE WriteRecord(g[k - 1], recs[k])
      PROVE  Writes(g, recs, first, n)
  BY <1>6, Zenon DEF Writes
<1> QED
  BY <1>4, <1>5, <1>6, Zenon DEF n

LEMMA WritesValues ==
    ASSUME NEW recs \in Seq(Record), NEW first \in Writing,
           NEW f, Writes(f, recs, first, Len(recs))
    PROVE  /\ f[0] = first
           /\ \A k \in 1..Len(recs) : f[k] = WriteRecord(f[k - 1], recs[k])
           /\ \A k \in 0..Len(recs) : f[k] \in Writing
<1> DEFINE n == Len(recs)
<1>0. n \in Nat /\ \A k \in 1..n : recs[k] \in Record
  OBVIOUS
<1>1. \A k \in 0..n : f[k] = IF k = 0 THEN first ELSE WriteRecord(f[k - 1], recs[k])
  BY Zenon DEF Writes
<1> HIDE DEF n
<1>2. f[0] = first
  <2>1. 0 \in 0..n
    BY <1>0
  <2> QED
    BY <1>1, <2>1, Zenon
<1>3. ASSUME NEW k \in 1..n PROVE f[k] = WriteRecord(f[k - 1], recs[k])
  <2>1. k \in 0..n /\ k # 0
    BY <1>0
  <2> QED
    BY <1>1, <2>1, Zenon
<1>4. \A k \in 0..n : f[k] \in Writing
  <2> DEFINE P == {k \in 0..n : f[k] \in Writing}
  <2>1. 0 \in P
    BY <1>0, <1>2
  <2>2. \A k \in 1..n : k - 1 \in P => k \in P
    BY <1>0, <1>3, WriteRecordType
  <2> HIDE DEF P
  <2>3. \A k \in 0..n : k \in P
    BY <1>0, <2>1, <2>2, RoundByRound, Zenon
  <2> QED
    BY <2>3 DEF P
<1> QED
  BY <1>2, <1>3, <1>4 DEF n

\* A payload is made that has its size.
LEMMA SerializeType ==
    ASSUME NEW recs \in Seq(Record)
    PROVE  /\ serialize_tlv_hop_payload(recs) \in Bytes
           /\ Len(serialize_tlv_hop_payload(recs)) = HOP_PAYLOADS_SIZE
<1> DEFINE prefix == encode_bigsize(tlv_stream_size(recs))
           first == [bytes |-> prefix, full |-> FALSE]
           written == CHOOSE f : Writes(f, recs, first, Len(recs))
           made == IF Len(prefix) >= HOP_PAYLOADS_SIZE THEN <<>> ELSE written[Len(recs)].bytes
<1>1. serialize_tlv_hop_payload(recs) = Padded(made)
  BY Zenon DEF serialize_tlv_hop_payload, Writes
<1>2. prefix \in Bytes /\ Len(prefix) \in Nat
  BY StreamSizeType, BigSizeType DEF tlv_stream_size
<1> HIDE DEF prefix
<1>3. HOP_PAYLOADS_SIZE \in Nat
  BY OnionAssumption
<1>4. CASE Len(prefix) >= HOP_PAYLOADS_SIZE
  <2>1. <<>> \in Bytes /\ Len(<<>>) <= HOP_PAYLOADS_SIZE
    BY <1>3 DEF Bytes
  <2>2. made = <<>>
    BY <1>4
  <2> HIDE DEF made
  <2> QED
    BY <1>1, <2>1, <2>2, PaddedType
<1>5. CASE ~(Len(prefix) >= HOP_PAYLOADS_SIZE)
  <2>1. first \in Writing
    BY <1>2, <1>3, <1>5 DEF Writing
  <2> HIDE DEF first
  <2>2. Writes(written, recs, first, Len(recs))
    <3>1. \E f : Writes(f, recs, first, Len(recs))
      BY <2>1, WritesExist
    <3> QED
      BY <3>1, Zenon
  <2>3. made = written[Len(recs)].bytes
    BY <1>5
  <2> HIDE DEF written, made
  <2>4. written[Len(recs)] \in Writing
    <3>1. Len(recs) \in 0..Len(recs)
      OBVIOUS
    <3> QED
      BY <2>1, <2>2, <3>1, WritesValues, Zenon
  <2>5. made \in Bytes /\ Len(made) <= HOP_PAYLOADS_SIZE
    BY <2>3, <2>4 DEF Writing
  <2> QED
    BY <1>1, <2>5, PaddedType
<1> QED
  BY <1>4, <1>5

(***************************************************************************)
(* The mutations of a stream                                               *)
(***************************************************************************)

\* No record has a lower type than the one before it.
Sorted(recs) == \A i \in 2..Len(recs) : recs[i - 1].type <= recs[i].type

\* Some record has the type.
Has(recs, type) == \E i \in 1..Len(recs) : recs[i].type = type

\* The parts of a record.
LEMMA RecordIs ==
    ASSUME NEW record \in Record
    PROVE  record.type \in Nat /\ record.value \in Bytes
BY DEF Record

\* The types in a sequence of records.
LEMMA RecordsOf ==
    ASSUME NEW recs \in Seq(Record)
    PROVE  /\ Len(recs) \in Nat
           /\ \A i \in 1..Len(recs) : recs[i] \in Record
           /\ \A i \in 1..Len(recs) : recs[i].type \in Nat
<1>1. \A i \in 1..Len(recs) : recs[i] \in Record
  OBVIOUS
<1> QED
  BY <1>1, RecordIs

\* There is a place for every type.
LEMMA PlaceIs ==
    ASSUME NEW recs \in Seq(Record), NEW type \in Nat
    PROVE  /\ Place(recs, type) \in 1..(Len(recs) + 1)
           /\ \A i \in 1..(Place(recs, type) - 1) : recs[i].type < type
           /\ Place(recs, type) <= Len(recs) => recs[Place(recs, type)].type >= type
<1> DEFINE T == {n \in 1..(Len(recs) + 1) : n <= Len(recs) => recs[n].type >= type}
<1>1. Len(recs) \in Nat /\ \A i \in 1..Len(recs) : recs[i].type \in Nat
  BY RecordsOf
<1>2. Len(recs) + 1 \in T
  BY <1>1
<1>3. PICK n \in T : \A k \in T : n <= k
  <2>1. T \subseteq Nat /\ T # {}
    BY <1>1, <1>2
  <2> HIDE DEF T
  <2> QED
    BY <2>1, LeastElement
<1>4. n \in 1..(Len(recs) + 1) /\ (n <= Len(recs) => recs[n].type >= type)
  OBVIOUS
<1>5. ASSUME NEW i \in 1..(n - 1) PROVE recs[i].type < type
  <2>1. i \in 1..Len(recs) /\ ~(n <= i)
    BY <1>1, <1>4
  <2>2. i \notin T
    BY <1>3, <2>1
  <2> QED
    BY <1>1, <2>1, <2>2
<1> QED
  BY <1>4, <1>5, Zenon DEF Place

\* What an insertion makes.
LEMMA InsertIs ==
    ASSUME NEW recs \in Seq(Record), NEW at \in 1..(Len(recs) + 1), NEW record \in Record
    PROVE  /\ InsertAt(recs, at, record) \in Seq(Record)
           /\ Len(InsertAt(recs, at, record)) = Len(recs) + 1
           /\ \A i \in 1..(at - 1) : InsertAt(recs, at, record)[i] = recs[i]
           /\ InsertAt(recs, at, record)[at] = record
           /\ \A i \in (at + 1)..(Len(recs) + 1) : InsertAt(recs, at, record)[i] = recs[i - 1]
<1> DEFINE front == SubSeq(recs, 1, at - 1)
           back  == SubSeq(recs, at, Len(recs))
           one   == <<record>>
<1>0. Len(recs) \in Nat
  OBVIOUS
<1>1. /\ front \in Seq(Record) /\ Len(front) = at - 1
      /\ \A i \in 1..(at - 1) : front[i] = recs[i]
  OBVIOUS
<1>2. /\ back \in Seq(Record) /\ Len(back) = Len(recs) + 1 - at
      /\ \A i \in 1..(Len(recs) + 1 - at) : back[i] = recs[at + i - 1]
  OBVIOUS
<1>3. one \in Seq(Record) /\ Len(one) = 1 /\ one[1] = record
  OBVIOUS
<1>4. InsertAt(recs, at, record) = (front \o one) \o back
  BY DEF InsertAt
<1> HIDE DEF front, back, one
<1> DEFINE u == front \o one
           v == u \o back
<1>5. Joined(Record, front, one)
  BY <1>1, <1>3, JoinIs
<1>6. /\ u \in Seq(Record) /\ Len(u) = at
      /\ \A i \in 1..(at - 1) : u[i] = recs[i]
      /\ u[at] = record
  <2>1. Len(front) + Len(one) = at /\ Len(front) + 1 = at /\ 1 \in 1..Len(one)
    BY <1>0, <1>1, <1>3
  <2> QED
    BY <1>1, <1>3, <1>5, <2>1, Zenon DEF Joined
<1> HIDE DEF u
<1>7. Joined(Record, u, back)
  BY <1>2, <1>6, JoinIs
<1>8. v \in Seq(Record) /\ Len(v) = Len(recs) + 1
  <2>1. Len(u) + Len(back) = Len(recs) + 1
    BY <1>0, <1>2, <1>6
  <2> QED
    BY <1>7, <2>1, Zenon DEF Joined
<1>9. \A i \in 1..at : v[i] = u[i]
  BY <1>6, <1>7, Zenon DEF Joined
<1>10. ASSUME NEW i \in (at + 1)..(Len(recs) + 1) PROVE v[i] = recs[i - 1]
  <2>1. /\ i - at \in 1..(Len(recs) + 1 - at) /\ at + (i - at) = i
        /\ at + (i - at) - 1 = i - 1
    BY <1>0
  <2>2. v[at + (i - at)] = back[i - at]
    BY <1>2, <1>6, <1>7, <2>1, Zenon DEF Joined
  <2>3. back[i - at] = recs[at + (i - at) - 1]
    BY <1>2, <2>1, Zenon
  <2> QED
    BY <2>1, <2>2, <2>3, Zenon
<1>11. InsertAt(recs, at, record) = v
  BY <1>4 DEF u
<1>12. at \in 1..at /\ \A i \in 1..(at - 1) : i \in 1..at
  BY <1>0
<1> HIDE DEF v
<1> QED
  BY <1>6, <1>8, <1>9, <1>10, <1>11, <1>12

\* An insertion keeps the order and the types, and adds one.
LEMMA InsertedKeeps ==
    ASSUME NEW recs \in Seq(Record), NEW record \in Record
    PROVE  /\ Inserted(recs, record) \in Seq(Record)
           /\ Sorted(recs) => Sorted(Inserted(recs, record))
           /\ \A type : Has(recs, type) => Has(Inserted(recs, record), type)
<1> DEFINE at == Place(recs, record.type)
           u == InsertAt(recs, at, record)
           n == Len(recs)
<1>1. record.type \in Nat /\ n \in Nat /\ \A i \in 1..n : recs[i].type \in Nat
  BY RecordIs, RecordsOf
<1>2. /\ at \in 1..(n + 1)
      /\ \A i \in 1..(at - 1) : recs[i].type < record.type
      /\ at <= n => recs[at].type >= record.type
  BY <1>1, PlaceIs, Zenon
<1>3. Inserted(recs, record) = u
  BY DEF Inserted
<1> HIDE DEF at
<1>4. /\ u \in Seq(Record)
      /\ Len(u) = n + 1
      /\ \A i \in 1..(at - 1) : u[i] = recs[i]
      /\ u[at] = record
      /\ \A i \in (at + 1)..(n + 1) : u[i] = recs[i - 1]
  BY <1>2, InsertIs, Zenon
<1> HIDE DEF u
<1>5. ASSUME Sorted(recs) PROVE Sorted(u)
  <2>1. \A i \in 2..n : recs[i - 1].type <= recs[i].type
    BY <1>5, Zenon DEF Sorted, n
  <2> HIDE DEF n
  <2>2. ASSUME NEW i \in 2..(n + 1) PROVE u[i - 1].type <= u[i].type
    <3>1. CASE i < at
      <4>1. i \in 1..(at - 1) /\ i - 1 \in 1..(at - 1) /\ i \in 2..n
        BY <1>1, <1>2, <3>1
      <4> QED
        BY <1>4, <2>1, <4>1
    <3>2. CASE i = at
      <4>1. i - 1 \in 1..(at - 1) /\ i - 1 \in 1..n
        BY <1>1, <1>2, <3>2
      <4>2. u[i - 1] = recs[i - 1] /\ u[i] = record /\ recs[i - 1].type < record.type
        BY <1>2, <1>4, <3>2, <4>1, Zenon
      <4>3. recs[i - 1].type \in Nat
        BY <1>1, <4>1
      <4> QED
        BY <1>1, <4>2, <4>3
    <3>3. CASE i = at + 1
      <4>1. i \in (at + 1)..(n + 1) /\ i - 1 = at /\ at <= n /\ at \in 1..n
        BY <1>1, <1>2, <3>3
      <4>2. u[i] = recs[at] /\ u[i - 1] = record /\ recs[at].type >= record.type
        BY <1>2, <1>4, <4>1, Zenon
      <4>3. recs[at].type \in Nat
        BY <1>1, <4>1
      <4> QED
        BY <1>1, <4>2, <4>3
    <3>4. CASE i > at + 1
      <4>1. i \in (at + 1)..(n + 1) /\ i - 1 \in (at + 1)..(n + 1) /\ i - 1 \in 2..n
        BY <1>1, <1>2, <3>4
      <4>2. u[i] = recs[i - 1] /\ u[i - 1] = recs[(i - 1) - 1]
        BY <1>4, <4>1, Zenon
      <4>3. recs[(i - 1) - 1].type <= recs[i - 1].type
        BY <2>1, <4>1, Zenon
      <4> QED
        BY <4>2, <4>3, Zenon
    <3>5. i < at \/ i = at \/ i = at + 1 \/ i > at + 1
      BY <1>1, <1>2
    <3> QED
      BY <3>1, <3>2, <3>3, <3>4, <3>5
  <2> QED
    BY <1>4, <2>2, Zenon DEF Sorted
<1>6. ASSUME NEW type, Has(recs, type) PROVE Has(u, type)
  <2>1. PICK i \in 1..n : recs[i].type = type
    BY <1>6, Zenon DEF Has, n
  <2> HIDE DEF n
  <2>2. CASE i < at
    <3>1. i \in 1..(at - 1) /\ i \in 1..(n + 1)
      BY <1>1, <1>2, <2>2
    <3> QED
      BY <1>4, <2>1, <3>1, Zenon DEF Has
  <2>3. CASE ~(i < at)
    <3>1. i + 1 \in (at + 1)..(n + 1) /\ i + 1 \in 1..(n + 1) /\ (i + 1) - 1 = i
      BY <1>1, <1>2, <2>3
    <3>2. u[i + 1].type = type
      BY <1>4, <2>1, <3>1, Zenon
    <3> QED
      BY <1>4, <3>1, <3>2, Zenon DEF Has
  <2> QED
    BY <2>2, <2>3
<1> QED
  BY <1>3, <1>4, <1>5, <1>6

\* The records kept so far, when the next one does not go down.
KeptUpTo(kept, type) ==
    /\ kept \in Seq(Record)
    /\ Ascending(kept, Len(kept))
    /\ kept # <<>>
    /\ Last(kept).type = type

LEMMA KeepIs ==
    ASSUME NEW kept \in Seq(Record), NEW record \in Record,
           Ascending(kept, Len(kept)), kept # <<>> => Last(kept).type <= record.type
    PROVE  /\ KeptUpTo(Keep(kept, record), record.type)
           /\ \A type : Has(kept, type) => Has(Keep(kept, record), type)
<1> DEFINE u == Append(kept, record)
           n == Len(kept)
<1>1. n \in Nat /\ record.type \in Nat
  BY RecordIs
<1>2. CASE kept # <<>> /\ Last(kept).type = record.type
  <2>1. Keep(kept, record) = kept
    BY <1>2 DEF Keep
  <2> QED
    BY <1>2, <2>1 DEF KeptUpTo
<1>3. CASE kept = <<>> \/ Last(kept).type # record.type
  <2>1. Keep(kept, record) = u
    BY <1>3 DEF Keep
  <2>2. Appended(Record, kept, record)
    BY AppendIs
  <2>3. u \in Seq(Record) /\ Len(u) = n + 1 /\ \A i \in 1..(n + 1) : u[i] = IF i = n + 1 THEN record ELSE kept[i]
    BY <2>2, Zenon DEF Appended
  <2>4. Last(u) = u[Len(u)] /\ Last(kept) = kept[n]
    BY DEF Last
  <2>5. \A i \in 2..n : kept[i - 1].type < kept[i].type
    BY Zenon DEF Ascending
  <2>6. n # 0 => kept[n].type < record.type
    <3>1. n # 0 => kept # <<>>
      OBVIOUS
    <3>2. n # 0 => kept[n].type \in Nat
      BY <1>1, RecordsOf
    <3> HIDE DEF n
    <3> QED
      BY <1>1, <1>3, <2>4, <3>1, <3>2
  <2> HIDE DEF u, n
  <2>7. u[n + 1] = record /\ n + 1 \in 1..(n + 1)
    BY <1>1, <2>3
  <2>8. ASSUME NEW i \in 2..(n + 1) PROVE u[i - 1].type < u[i].type
    <3>1. CASE i = n + 1
      <4>1. i - 1 = n /\ n \in 1..(n + 1) /\ n # n + 1 /\ n # 0
        BY <1>1, <3>1
      <4>2. u[i - 1] = kept[n] /\ u[i] = record
        BY <2>3, <2>7, <3>1, <4>1
      <4> QED
        BY <2>6, <4>1, <4>2, Zenon
    <3>2. CASE i # n + 1
      <4>1. i - 1 \in 1..(n + 1) /\ i - 1 # n + 1 /\ i \in 2..n /\ i \in 1..(n + 1)
        BY <1>1, <3>2
      <4>2. u[i - 1] = kept[i - 1] /\ u[i] = kept[i]
        BY <2>3, <3>2, <4>1, Zenon
      <4> QED
        BY <2>5, <4>1, <4>2, Zenon
    <3> QED
      BY <3>1, <3>2
  <2>9. Ascending(u, Len(u))
    BY <2>3, <2>8, Zenon DEF Ascending
  <2>10. u # <<>>
    <3>1. Len(u) # 0
      BY <1>1, <2>3
    <3> QED
      BY <3>1
  <2>11. ASSUME NEW type, Has(kept, type) PROVE Has(u, type)
    <3>1. PICK i \in 1..n : kept[i].type = type
      BY <2>11, Zenon DEF Has, n
    <3>2. i \in 1..(n + 1) /\ i # n + 1
      BY <1>1
    <3> QED
      BY <2>3, <3>1, <3>2, Zenon DEF Has
  <2>12. Last(u).type = record.type
    BY <2>3, <2>4, <2>7, Zenon
  <2> QED
    BY <2>1, <2>3, <2>9, <2>10, <2>11, <2>12, Zenon DEF KeptUpTo
<1> QED
  BY <1>2, <1>3

\* Its last type is the one just kept.
LEMMA KeptHas ==
    ASSUME NEW kept, NEW type, KeptUpTo(kept, type)
    PROVE  Has(kept, type)
<1>1. kept \in Seq(Record) /\ kept # <<>> /\ Last(kept).type = type
  BY DEF KeptUpTo
<1>2. Len(kept) \in 1..Len(kept) /\ kept[Len(kept)].type = type
  BY <1>1 DEF Last
<1> QED
  BY <1>2, Zenon DEF Has

\* f holds what std::unique has kept, record by record.
Keeps(f, recs, n) ==
    f = [k \in 0..n |-> IF k = 0 THEN <<>> ELSE Keep(f[k - 1], recs[k])]

LEMMA KeepsExist ==
    ASSUME NEW recs \in Seq(Record)
    PROVE  \E f : Keeps(f, recs, Len(recs))
<1> DEFINE n == Len(recs)
           S == Seq(Record)
           F == [p \in (1..n) \X S |-> Keep(p[2], recs[p[1]])]
<1>0. n \in Nat /\ \A k \in 1..n : recs[k] \in Record
  BY RecordsOf
<1> HIDE DEF n
<1>1. F \in [(1..n) \X S -> S]
  <2>1. \A p \in (1..n) \X S : Append(p[2], recs[p[1]]) \in S
    BY <1>0
  <2>2. \A p \in (1..n) \X S : Keep(p[2], recs[p[1]]) \in S
    BY <2>1 DEF Keep
  <2> HIDE DEF S
  <2> QED
    BY <2>2
<1>2. <<>> \in S
  OBVIOUS
<1> HIDE DEF F, S
<1>3. Recurses(S, n, <<>>, F)
  BY <1>0, <1>1, <1>2, RecursionIn
<1>4. PICK f \in [0..n -> S] : f[0] = <<>> /\ \A k \in 1..n : f[k] = F[<<k, f[k - 1]>>]
  BY <1>3 DEF Recurses
<1>5. ASSUME NEW k \in 0..n
      PROVE  f[k] = IF k = 0 THEN <<>> ELSE Keep(f[k - 1], recs[k])
  <2>1. CASE k = 0
    BY <1>4, <2>1
  <2>2. CASE k # 0
    <3>1. k \in 1..n /\ k - 1 \in 0..n
      BY <1>0, <2>2
    <3>2. <<k, f[k - 1]>> \in (1..n) \X S
      BY <1>4, <3>1
    <3>3. F[<<k, f[k - 1]>>] = Keep(<<k, f[k - 1]>>[2], recs[<<k, f[k - 1]>>[1]])
      BY <3>2, Zenon DEF F
    <3>4. <<k, f[k - 1]>>[2] = f[k - 1] /\ <<k, f[k - 1]>>[1] = k
      OBVIOUS
    <3> QED
      BY <1>4, <2>2, <3>1, <3>3, <3>4, Zenon
  <2> QED
    BY <2>1, <2>2
<1>6. f = [k \in 0..n |-> f[k]]
  BY <1>4
<1>7. ASSUME NEW g, g = [k \in 0..n |-> g[k]],
             \A k \in 0..n : g[k] = IF k = 0 THEN <<>> ELSE Keep(g[k - 1], recs[k])
      PROVE  Keeps(g, recs, n)
  BY <1>7, Zenon DEF Keeps
<1> QED
  BY <1>5, <1>6, <1>7, Zenon DEF n

\* No record goes down: what is kept goes up, and has all the types.
LEMMA UniqueIs ==
    ASSUME NEW recs \in Seq(Record), Sorted(recs)
    PROVE  /\ Unique(recs) \in Seq(Record)
           /\ Ascending(Unique(recs), Len(Unique(recs)))
           /\ \A type : Has(recs, type) => Has(Unique(recs), type)
<1> DEFINE n == Len(recs)
           f == CHOOSE g : Keeps(g, recs, n)
<1>0. n \in Nat /\ (\A k \in 1..n : recs[k] \in Record) /\ \A k \in 1..n : recs[k].type \in Nat
  BY RecordsOf
<1>1. \A k \in 2..n : recs[k - 1].type <= recs[k].type
  BY DEF Sorted
<1>2. Keeps(f, recs, n)
  <2>1. \E g : Keeps(g, recs, n)
    BY KeepsExist
  <2> QED
    BY <2>1, Zenon
<1>3. Unique(recs) = f[n]
  BY Zenon DEF Unique, Keeps
<1>4. \A type : Has(recs, type) => \E i \in 1..n : recs[i].type = type
  BY DEF Has
<1> HIDE DEF f, n
<1>5. \A k \in 0..n : f[k] = IF k = 0 THEN <<>> ELSE Keep(f[k - 1], recs[k])
  BY <1>2, Zenon DEF Keeps
<1>6. f[0] = <<>> /\ \A k \in 1..n : f[k] = Keep(f[k - 1], recs[k])
  <2>1. 0 \in 0..n /\ \A k \in 1..n : k \in 0..n /\ k # 0
    BY <1>0
  <2> QED
    BY <1>5, <2>1, Zenon
<1> DEFINE All(k) == \A i \in 1..k : Has(f[k], recs[i].type)
           P == {k \in 0..n : k # 0 => KeptUpTo(f[k], recs[k].type) /\ All(k)}
<1>7. ASSUME NEW k \in 1..n, k - 1 \in P PROVE k \in P
  <2> DEFINE before == f[k - 1]
  <2>1. k \in 0..n /\ k - 1 \in 0..n /\ (k # 1 => k \in 2..n /\ k - 1 # 0 /\ k - 1 \in 1..n)
    BY <1>0
  <2>2. /\ before \in Seq(Record)
        /\ Ascending(before, Len(before))
        /\ before # <<>> => Last(before).type <= recs[k].type
    <3>1. CASE k = 1
      <4>1. before = <<>>
        BY <1>6, <3>1
      <4> HIDE DEF before
      <4> QED
        BY <4>1 DEF Ascending
    <3>2. CASE k # 1
      <4>1. KeptUpTo(before, recs[k - 1].type) /\ recs[k - 1].type <= recs[k].type
        BY <1>1, <1>7, <2>1, <3>2
      <4> HIDE DEF before
      <4> QED
        BY <4>1, Zenon DEF KeptUpTo
    <3> QED
      BY <3>1, <3>2
  <2>3. f[k] = Keep(before, recs[k]) /\ recs[k] \in Record
    BY <1>0, <1>6
  <2> HIDE DEF before
  <2>4. /\ KeptUpTo(f[k], recs[k].type)
        /\ \A type : Has(before, type) => Has(f[k], type)
    BY <2>2, <2>3, KeepIs
  <2>5. ASSUME NEW i \in 1..k PROVE Has(f[k], recs[i].type)
    <3>1. CASE i = k
      BY <2>4, <3>1, KeptHas
    <3>2. CASE i # k
      <4>1. i \in 1..(k - 1) /\ k - 1 # 0
        BY <1>0, <3>2
      <4>2. Has(before, recs[i].type)
        BY <1>7, <4>1 DEF before
      <4> QED
        BY <2>4, <4>2, Zenon
    <3> QED
      BY <3>1, <3>2
  <2> QED
    BY <2>1, <2>4, <2>5
<1>8. 0 \in P
  BY <1>0
<1>9. n \in P
  <2> HIDE DEF P
  <2>1. \A k \in 0..n : k \in P
    BY <1>0, <1>7, <1>8, RoundByRound
  <2> QED
    BY <1>0, <2>1
<1>10. CASE n = 0
  <2>1. f[n] = <<>>
    BY <1>6, <1>10
  <2>2. 1..n = {} /\ 2..Len(<<>>) = {}
    BY <1>10
  <2> QED
    BY <1>3, <1>4, <2>1, <2>2 DEF Ascending
<1>11. CASE n # 0
  <2>1. KeptUpTo(f[n], recs[n].type) /\ \A i \in 1..n : Has(f[n], recs[i].type)
    BY <1>9, <1>11
  <2> HIDE DEF P, All
  <2> QED
    BY <1>3, <1>4, <2>1, Zenon DEF KeptUpTo
<1> QED
  BY <1>10, <1>11

\* What a record may get is a type and bytes.
LEMMA DrawsAre ==
    /\ \A t \in COMMON_TLV_TYPES \cup RandomTypes : t \in Nat
    /\ \A t : \A v \in ValuesFor(t) : v \in Bytes
    /\ \A value : \A v \in Resized(value) : v \in Bytes
<1>1. EightDigits \in Nat
  BY CountOrder
<1>2. COMMON_TLV_TYPES \cup RandomTypes \subseteq 0..(EightDigits - 1)
  BY RecordsAssumption
<1>3. \A n \in Nat : \A t \in 0..(n - 1) : t \in Nat
  OBVIOUS
<1>4. \A t \in COMMON_TLV_TYPES \cup RandomTypes : t \in Nat
  BY <1>1, <1>2, <1>3, Zenon
<1>5. \A t : \A v \in ValuesFor(t) : v \in Bytes
  BY RecordsAssumption, Zenon DEF ValuesFor
<1>6. \A value : \A v \in Resized(value) : v \in Bytes
  BY RecordsAssumption, Zenon DEF Resized
<1> QED
  BY <1>4, <1>5, <1>6

\* What is left of a number in a word is one.
LEMMA WordType ==
    ASSUME NEW n \in Nat
    PROVE  Word(n) \in Nat
<1>1. \A a \in Nat, m \in Nat : m # 0 => (a % m) \in Nat
  OBVIOUS
<1>2. EightDigits \in Nat /\ EightDigits # 0
  BY CountOrder
<1> QED
  BY <1>1, <1>2 DEF Word

\* A record in the place of another one.
LEMMA ReplacedType ==
    ASSUME NEW recs \in Seq(Record), NEW i \in DOMAIN recs
    PROVE  /\ \A v \in Bytes : [recs EXCEPT ![i].value = v] \in Seq(Record)
           /\ \A t \in Nat : [recs EXCEPT ![i].type = t] \in Seq(Record)
<1>0. i \in 1..Len(recs) /\ recs[i] \in Record /\ DOMAIN recs = 1..Len(recs)
  OBVIOUS
<1>1. ASSUME NEW r \in Record PROVE [recs EXCEPT ![i] = r] \in Seq(Record)
  BY <1>0
<1>2. ASSUME NEW v \in Bytes PROVE [recs[i] EXCEPT !.value = v] \in Record
  BY <1>0 DEF Record
<1>3. ASSUME NEW t \in Nat PROVE [recs[i] EXCEPT !.type = t] \in Record
  BY <1>0 DEF Record
<1>4. ASSUME NEW v \in Bytes PROVE [recs EXCEPT ![i].value = v] \in Seq(Record)
  <2>1. [recs EXCEPT ![i].value = v] = [recs EXCEPT ![i] = [recs[i] EXCEPT !.value = v]]
    OBVIOUS
  <2> QED
    BY <1>1, <1>2, <2>1
<1>5. ASSUME NEW t \in Nat PROVE [recs EXCEPT ![i].type = t] \in Seq(Record)
  <2>1. [recs EXCEPT ![i].type = t] = [recs EXCEPT ![i] = [recs[i] EXCEPT !.type = t]]
    OBVIOUS
  <2> QED
    BY <1>1, <1>3, <2>1
<1> QED
  BY <1>4, <1>5

\* Every mutation makes records of records.
LEMMA MutationsType ==
    ASSUME NEW recs \in Seq(Record)
    PROVE  /\ add_tlv_record(recs) \subseteq Seq(Record)
           /\ mutate_tlv_value(recs) \subseteq Seq(Record)
           /\ remove_tlv_record(recs) \subseteq Seq(Record)
           /\ mutate_tlv_type(recs) \subseteq Seq(Record)
<1>1. ASSUME NEW r \in add_tlv_record(recs) PROVE r \in Seq(Record)
  <2>1. PICK t \in COMMON_TLV_TYPES \cup RandomTypes :
            \E v \in ValuesFor(t) : r = Inserted(recs, [type |-> t, value |-> v])
    BY <1>1 DEF add_tlv_record
  <2>2. PICK v \in ValuesFor(t) : r = Inserted(recs, [type |-> t, value |-> v])
    BY <2>1
  <2>3. t \in Nat /\ v \in Bytes
    BY DrawsAre
  <2>4. [type |-> t, value |-> v] \in Record
    BY <2>3 DEF Record
  <2> QED
    BY <2>2, <2>4, InsertedKeeps
<1>2. ASSUME NEW r \in mutate_tlv_value(recs) PROVE r \in Seq(Record)
  <2>1. PICK i \in DOMAIN recs :
            \E v \in ValuesFor(recs[i].type) \cup Resized(recs[i].value) :
                r = [recs EXCEPT ![i].value = v]
    BY <1>2 DEF mutate_tlv_value
  <2>2. PICK v \in ValuesFor(recs[i].type) \cup Resized(recs[i].value) :
            r = [recs EXCEPT ![i].value = v]
    BY <2>1
  <2>3. v \in Bytes
    BY <2>2, DrawsAre
  <2> QED
    BY <2>2, <2>3, ReplacedType
<1>3. ASSUME NEW r \in remove_tlv_record(recs) PROVE r \in Seq(Record)
  <2>1. ASSUME NEW i \in DOMAIN recs PROVE RemoveAt(recs, i) \in Seq(Record)
    <3>1. i \in 1..Len(recs) /\ Len(recs) \in Nat
      OBVIOUS
    <3>2. SubSeq(recs, 1, i - 1) \in Seq(Record) /\ SubSeq(recs, i + 1, Len(recs)) \in Seq(Record)
      BY <3>1
    <3> QED
      BY <3>2, JoinIs, Zenon DEF RemoveAt, Joined
  <2> QED
    BY <1>3, <2>1 DEF remove_tlv_record
<1>4. ASSUME NEW r \in mutate_tlv_type(recs) PROVE r \in Seq(Record)
  <2> DEFINE Types(i) == COMMON_TLV_TYPES \cup RandomTypes
                           \cup {Word(recs[i].type + 1), Word(recs[i].type + EightDigits - 1)}
  <2>1. PICK i \in DOMAIN recs : \E t \in Types(i) : r = [recs EXCEPT ![i].type = t]
    BY <1>4 DEF mutate_tlv_type
  <2>2. PICK t \in Types(i) : r = [recs EXCEPT ![i].type = t]
    BY <2>1
  <2>3. t \in Nat
    <3>1. recs[i].type \in Nat
      BY RecordsOf
    <3>2. EightDigits \in Nat /\ EightDigits > 0
      BY CountOrder
    <3>3. recs[i].type + 1 \in Nat /\ recs[i].type + EightDigits - 1 \in Nat
      BY <3>1, <3>2
    <3>4. Word(recs[i].type + 1) \in Nat /\ Word(recs[i].type + EightDigits - 1) \in Nat
      BY <3>3, WordType
    <3> QED
      BY <3>4, DrawsAre
  <2> QED
    BY <2>2, <2>3, ReplacedType
<1> QED
  BY <1>1, <1>2, <1>3, <1>4

\* An addition keeps the order and the types.
LEMMA AdditionKeeps ==
    ASSUME NEW recs \in Seq(Record), NEW r \in add_tlv_record(recs)
    PROVE  /\ Sorted(recs) => Sorted(r)
           /\ \A type : Has(recs, type) => Has(r, type)
<1>1. PICK t \in COMMON_TLV_TYPES \cup RandomTypes :
          \E v \in ValuesFor(t) : r = Inserted(recs, [type |-> t, value |-> v])
  BY DEF add_tlv_record
<1>2. PICK v \in ValuesFor(t) : r = Inserted(recs, [type |-> t, value |-> v])
  BY <1>1
<1>3. [type |-> t, value |-> v] \in Record
  BY DrawsAre DEF Record
<1> QED
  BY <1>2, <1>3, InsertedKeeps

(***************************************************************************)
(* What is written is read back: a BigSize                                 *)
(***************************************************************************)

\* A BigSize has as many digits as its first byte announces, at most eight.
LEMMA EncodeLength ==
    ASSUME NEW value \in Nat
    PROVE  /\ Encode(value)[1] \in Byte
           /\ Len(Encode(value)) =
                1 + (IF Encode(value)[1] < Escape THEN 0 ELSE Width(Encode(value)[1]))
           /\ Len(Encode(value)) <= 9
<1>1. CASE value < Escape
  <2>1. Encode(value) = <<value>> /\ value \in Byte
    BY <1>1, EncodeForm, BaseAssumption DEF Escape, Byte
  <2> QED
    BY <1>1, <2>1
<1>2. CASE ~(value < Escape)
  <2>1. PICK f \in Announcing : Encode(value) = <<f>> \o Digits(value, Width(f))
    BY <1>2, EncodeForm, Zenon
  <2>2. f \in Byte /\ Width(f) \in {2, 4, 8} /\ Width(f) \in Nat /\ ~(f < Escape)
    BY Announcements
  <2>3. Digits(value, Width(f)) \in Seq(Byte) /\ Len(Digits(value, Width(f))) = Width(f)
    BY <2>2, DigitsType DEF Bytes
  <2>4. ASSUME NEW d \in Seq(Byte)
        PROVE  Len(<<f>> \o d) = 1 + Len(d) /\ (<<f>> \o d)[1] = f
    BY <2>2
  <2>5. Len(Encode(value)) = 1 + Width(f) /\ Encode(value)[1] = f
    BY <2>1, <2>3, <2>4
  <2>6. 1 + Width(f) <= 9
    BY <2>2
  <2> QED
    BY <2>2, <2>5, <2>6
<1> QED
  BY <1>1, <1>2

\* What is accepted has as many digits as the first byte announces.
LEMMA DecodeLength ==
    ASSUME NEW b \in Bytes, NEW o \in Nat \ {0}, Decode(b, o).valid
    PROVE  Decode(b, o).bytes_read = 1 + (IF b[o] < Escape THEN 0 ELSE Width(b[o]))
<1>1. ~(o > Len(b))
  BY DEF Decode, Invalid
<1>2. CASE b[o] < Escape
  BY <1>1, <1>2 DEF Decode
<1>3. CASE ~(b[o] < Escape)
  BY <1>1, <1>3 DEF Decode, Invalid
<1> QED
  BY <1>2, <1>3

\* Swapped twice, the digits are where they were.
LEMMA SwapTwice ==
    ASSUME NEW b \in Bytes, b # <<>>
    PROVE  SwapDigits(SwapDigits(b)) = b
<1> DEFINE c == SwapDigits(b)
           d == SwapDigits(c)
<1>1. Len(b) \in Nat \ {0} /\ b \in Seq(Byte)
  BY DEF Bytes
<1>2. /\ c \in Bytes /\ Len(c) = Len(b) /\ c[1] = b[1]
      /\ \A i \in 2..Len(b) : c[i] = b[Len(b) + 2 - i]
  BY SwapDigitsIs
<1> HIDE DEF c
<1>3. c # <<>>
  BY <1>1, <1>2
<1>4. /\ d \in Bytes /\ Len(d) = Len(b) /\ d[1] = b[1]
      /\ \A i \in 2..Len(b) : d[i] = c[Len(b) + 2 - i]
  BY <1>2, <1>3, SwapDigitsIs
<1> HIDE DEF d
<1>5. ASSUME NEW i \in 1..Len(b) PROVE d[i] = b[i]
  <2>1. CASE i = 1
    BY <1>4, <2>1
  <2>2. CASE i # 1
    <3>1. i \in 2..Len(b) /\ Len(b) + 2 - i \in 2..Len(b) /\ Len(b) + 2 - (Len(b) + 2 - i) = i
      BY <1>1, <2>2
    <3> QED
      BY <1>2, <1>4, <3>1
  <2> QED
    BY <2>1, <2>2
<1>6. d = b
  BY <1>1, <1>4, <1>5 DEF Bytes
<1> QED
  BY <1>6 DEF d, c

\* A BigSize has at most nine bytes, and the first of them says how many.
LEMMA BigSizeLength ==
    ASSUME NEW value \in Nat
    PROVE  /\ encode_bigsize(value)[1] = Encode(value)[1]
           /\ Len(encode_bigsize(value)) = Len(Encode(value))
           /\ Len(encode_bigsize(value)) <= 9
           /\ SwapDigits(encode_bigsize(value)) = Encode(value)
<1>1. Encode(value) \in Bytes /\ Len(Encode(value)) \in Nat \ {0}
  BY EncodeType
<1>2. Encode(value) # <<>>
  BY <1>1 DEF Bytes
<1> QED
  BY <1>1, <1>2, SwapDigitsIs, SwapTwice, EncodeLength DEF encode_bigsize

\* A number that stands in data is read back when it ends before end; nothing
\* longer or shorter is read in its place.
LEMMA BigSizeReadBack ==
    ASSUME NEW data \in Bytes, NEW o \in Nat \ {0}, NEW end \in Nat, end <= Len(data) + 1,
           NEW value \in Nat, Stands(encode_bigsize(value), data, o)
    PROVE  /\ decode_bigsize(data, o, end).valid =>
                  /\ decode_bigsize(data, o, end).bytes_read = Len(encode_bigsize(value))
                  /\ o + Len(encode_bigsize(value)) <= end
                  /\ value < EightDigits => decode_bigsize(data, o, end).value = value
           /\ value < EightDigits /\ o + Len(encode_bigsize(value)) <= end =>
                  decode_bigsize(data, o, end).valid
<1> DEFINE e == Encode(value)
           s == encode_bigsize(value)
           r == decode_bigsize(data, o, end)
           n == Len(s)
<1>1. /\ s \in Bytes /\ n \in Nat \ {0} /\ Len(e) = n /\ e \in Bytes
      /\ SwapDigits(s) = e /\ s[1] = e[1]
      /\ e[1] \in Byte
      /\ n = 1 + (IF e[1] < Escape THEN 0 ELSE Width(e[1]))
  BY BigSizeType, BigSizeLength, EncodeLength, EncodeType
<1>2. Len(data) \in Nat /\ data \in Seq(Byte)
  BY DEF Bytes
<1>3. o + n <= Len(data) + 1 /\ \A i \in 1..n : data[o + i - 1] = s[i]
  BY DEF Stands
<1>4. Stands(e, e, 1)
  BY <1>1 DEF Stands, Bytes
<1>5. value < EightDigits =>
          Decode(e, 1) = [valid |-> TRUE, value |-> value, bytes_read |-> n]
  <2>1. ASSUME value < EightDigits
        PROVE  Decode(e, 1) = [valid |-> TRUE, value |-> value, bytes_read |-> Len(e)]
    <3>1. 1 \in Nat \ {0}
      OBVIOUS
    <3> QED
      BY <1>1, <1>4, <2>1, <3>1, DecodeEncoded, Zenon
  <2> QED
    BY <1>1, <2>1, Zenon
<1>6. Decode(e, 1).valid => Decode(e, 1).bytes_read = n
  BY <1>1, DecodeLength
<1> HIDE DEF e, s, n
<1>7. data[o] = s[1]
  <2>1. 1 \in 1..n /\ o + 1 - 1 = o
    BY <1>1
  <2> QED
    BY <1>3, <2>1
<1>8. CASE o >= end
  <2>1. r = Invalid /\ ~(o + n <= end)
    BY <1>1, <1>8 DEF decode_bigsize
  <2> QED
    BY <2>1 DEF Invalid, n, s
<1>9. CASE ~(o >= end)
  <2> DEFINE bytes == SubSeq(data, o, end - 1)
             width == IF bytes[1] < Escape THEN 0 ELSE Width(bytes[1])
             front == SubSeq(bytes, 1, 1 + width)
  <2>1. /\ bytes \in Seq(Byte) /\ Len(bytes) = end - o /\ end - o \in Nat \ {0}
        /\ \A i \in 1..(end - o) : bytes[i] = data[o + i - 1]
    BY <1>2, <1>9
  <2>2. bytes[1] = e[1]
    BY <1>1, <1>7, <2>1
  <2> HIDE DEF bytes
  <2>3. n = 1 + width
    BY <1>1, <2>2
  <2>4. r = IF Len(bytes) < 1 + width THEN Invalid ELSE Decode(SwapDigits(front), 1)
    BY <1>9, Zenon DEF decode_bigsize, bytes
  <2> HIDE DEF width
  <2>5. CASE end - o < n
    <3>1. r = Invalid /\ ~(o + n <= end)
      BY <1>1, <2>1, <2>3, <2>4, <2>5
    <3> QED
      BY <3>1 DEF Invalid, n, s
  <2>6. CASE ~(end - o < n)
    <3>1. o + n <= end
      BY <1>1, <2>1, <2>6
    <3>2. front = s
      <4>1. front \in Seq(Byte) /\ Len(front) = n /\ \A i \in 1..n : front[i] = bytes[i]
        BY <1>1, <2>1, <2>3, <2>6
      <4>2. \A i \in 1..n : front[i] = s[i]
        <5>1. \A i \in 1..n : bytes[i] = data[o + i - 1]
          <6>1. 1..n \subseteq 1..(end - o)
            BY <1>1, <2>1, <2>6
          <6> QED
            BY <2>1, <6>1
        <5> HIDE DEF front
        <5> QED
          BY <1>3, <4>1, <5>1, Zenon
      <4>3. s \in Seq(Byte) /\ Len(s) = n
        BY <1>1 DEF Bytes, n
      <4> HIDE DEF front
      <4> QED
        BY <4>1, <4>2, <4>3
    <3>3. r = Decode(e, 1)
      BY <1>1, <2>1, <2>3, <2>4, <2>6, <3>2
    <3> HIDE DEF r
    <3> QED
      BY <1>5, <1>6, <3>1, <3>3 DEF n, s, r
  <2> QED
    BY <2>5, <2>6
<1> QED
  BY <1>8, <1>9

\* From o on there are only zeroes.
Blank(b, o) == \A i \in o..Len(b) : b[i] = 0

\* A zero is read as one.
LEMMA ZeroReadBack ==
    ASSUME NEW data \in Bytes, NEW o \in Nat \ {0}, NEW end \in Nat, end <= Len(data) + 1,
           Blank(data, o), decode_bigsize(data, o, end).valid
    PROVE  decode_bigsize(data, o, end).value = 0 /\ decode_bigsize(data, o, end).bytes_read = 1
<1>1. o < end
  BY DEF decode_bigsize, Invalid
<1>2. Len(data) \in Nat
  BY DEF Bytes
<1>3. data[o] = 0
  BY <1>1, <1>2 DEF Blank
<1>4. 0 < Escape
  BY BaseAssumption DEF Escape
<1>5. Encode(0) = <<0>> /\ Len(Encode(0)) = 1 /\ Encode(0)[1] = 0
  <2>1. Encode(0) = <<0>>
    BY <1>4, EncodeForm
  <2> QED
    BY <2>1
<1>6. Len(encode_bigsize(0)) = 1 /\ encode_bigsize(0)[1] = 0
  BY <1>5, BigSizeLength
<1>7. Stands(encode_bigsize(0), data, o)
  <2>1. ASSUME NEW i \in 1..1 PROVE data[o + i - 1] = encode_bigsize(0)[i]
    <3>1. i = 1 /\ o + i - 1 = o
      OBVIOUS
    <3> QED
      BY <1>3, <1>6, <3>1
  <2>2. o + 1 <= Len(data) + 1
    BY <1>1, <1>2
  <2> DEFINE s == encode_bigsize(0)
  <2>3. Len(s) = 1 /\ \A i \in 1..1 : data[o + i - 1] = s[i]
    BY <1>6, <2>1
  <2> HIDE DEF s
  <2>4. Stands(s, data, o)
    BY <2>2, <2>3, Zenon DEF Stands
  <2> QED
    BY <2>4 DEF s
<1>8. 0 < EightDigits
  BY CountOrder
<1>9. 0 \in Nat
  OBVIOUS
<1>10. decode_bigsize(data, o, end).valid =>
           /\ decode_bigsize(data, o, end).bytes_read = Len(encode_bigsize(0))
           /\ o + Len(encode_bigsize(0)) <= end
           /\ 0 < EightDigits => decode_bigsize(data, o, end).value = 0
  BY <1>7, <1>9, BigSizeReadBack, Zenon
<1> QED
  BY <1>6, <1>8, <1>10

(***************************************************************************)
(* The sizes of the records                                                *)
(***************************************************************************)

\* size adds up the sizes of the records.
SizesAdd(size, recs) ==
    /\ size[0] = 0
    /\ \A k \in 1..Len(recs) : size[k] = size[k - 1] + encoded_size(recs[k])
    /\ \A k \in 0..Len(recs) : size[k] \in Nat

LEMMA SizesAre ==
    ASSUME NEW recs \in Seq(Record)
    PROVE  \E size : SizesAdd(size, recs) /\ StreamSize(recs) = size[Len(recs)]
<1> DEFINE n == Len(recs)
           F == [p \in (1..n) \X Nat |-> p[2] + encoded_size(recs[p[1]])]
<1>0. n \in Nat /\ \A k \in 1..n : recs[k] \in Record
  OBVIOUS
<1> HIDE DEF n
<1>1. F \in [(1..n) \X Nat -> Nat]
  <2>1. \A p \in (1..n) \X Nat : p[2] + encoded_size(recs[p[1]]) \in Nat
    BY <1>0, EncodedSizeType
  <2> QED
    BY <2>1
<1> HIDE DEF F
<1>2. Recurses(Nat, n, 0, F)
  BY <1>0, <1>1, RecursionIn
<1>3. PICK f \in [0..n -> Nat] : f[0] = 0 /\ \A k \in 1..n : f[k] = F[<<k, f[k - 1]>>]
  BY <1>2 DEF Recurses
<1>4. ASSUME NEW k \in 0..n
      PROVE  f[k] = IF k = 0 THEN 0 ELSE f[k - 1] + encoded_size(recs[k])
  <2>1. CASE k = 0
    BY <1>3, <2>1
  <2>2. CASE k # 0
    <3>1. k \in 1..n /\ k - 1 \in 0..n
      BY <1>0, <2>2
    <3>2. <<k, f[k - 1]>> \in (1..n) \X Nat
      BY <1>3, <3>1
    <3>3. F[<<k, f[k - 1]>>] = <<k, f[k - 1]>>[2] + encoded_size(recs[<<k, f[k - 1]>>[1]])
      BY <3>2, Zenon DEF F
    <3>4. <<k, f[k - 1]>>[2] = f[k - 1] /\ <<k, f[k - 1]>>[1] = k
      OBVIOUS
    <3> QED
      BY <1>3, <2>2, <3>1, <3>3, <3>4, Zenon
  <2> QED
    BY <2>1, <2>2
<1>5. f = [k \in 0..n |-> f[k]]
  BY <1>3
<1>6. \E g : SizesOf(g, recs, n)
  <2>1. ASSUME NEW g, g = [k \in 0..n |-> g[k]],
               \A k \in 0..n : g[k] = IF k = 0 THEN 0 ELSE g[k - 1] + encoded_size(recs[k])
        PROVE  SizesOf(g, recs, n)
    BY <2>1, Zenon DEF SizesOf
  <2> QED
    BY <1>4, <1>5, <2>1, Zenon
<1> DEFINE size == CHOOSE g : SizesOf(g, recs, n)
<1>7. SizesOf(size, recs, n)
  BY <1>6, Zenon
<1>8. StreamSize(recs) = size[n]
  BY Zenon DEF StreamSize, SizesOf, n
<1> HIDE DEF size
<1>9. \A k \in 0..n : size[k] = IF k = 0 THEN 0 ELSE size[k - 1] + encoded_size(recs[k])
  BY <1>7, Zenon DEF SizesOf
<1>10. ASSUME NEW k \in 1..n PROVE size[k] = size[k - 1] + encoded_size(recs[k])
  <2>1. k \in 0..n /\ k # 0
    BY <1>0
  <2> QED
    BY <1>9, <2>1, Zenon
<1>11. size[0] = 0
  BY <1>0, <1>9
<1>12. \A k \in 0..n : size[k] \in Nat
  <2> DEFINE P == {k \in 0..n : size[k] \in Nat}
  <2>1. 0 \in P
    BY <1>0, <1>11
  <2>2. ASSUME NEW k \in 1..n, k - 1 \in P PROVE k \in P
    <3>1. k \in 0..n
      BY <1>0
    <3>2. encoded_size(recs[k]) \in Nat /\ size[k - 1] \in Nat
      BY <1>0, <2>2, EncodedSizeType
    <3>3. \A a, b \in Nat : a + b \in Nat
      OBVIOUS
    <3> QED
      BY <1>10, <3>1, <3>2, <3>3, Zenon
  <2> HIDE DEF P
  <2>3. \A k \in 0..n : k \in P
    BY <1>0, <2>1, <2>2, RoundByRound, Zenon
  <2> QED
    BY <2>3 DEF P
<1>13. SizesAdd(size, recs)
  BY <1>10, <1>11, <1>12, Zenon DEF SizesAdd, n
<1> QED
  BY <1>8, <1>13, Zenon DEF n

\* Every record takes two bytes at least.
LEMMA SizesGrow ==
    ASSUME NEW recs \in Seq(Record), NEW size, SizesAdd(size, recs)
    PROVE  \A k \in 0..Len(recs) : 2 * k <= size[k] /\ \A i \in 0..k : size[i] <= size[k]
<1> DEFINE n == Len(recs)
           P == {k \in 0..n : 2 * k <= size[k] /\ \A i \in 0..k : size[i] <= size[k]}
<1>0. n \in Nat /\ \A k \in 1..n : recs[k] \in Record
  OBVIOUS
<1>1. /\ size[0] = 0
      /\ \A k \in 1..n : size[k] = size[k - 1] + encoded_size(recs[k])
      /\ \A k \in 0..n : size[k] \in Nat
  BY DEF SizesAdd
<1> HIDE DEF n
<1>2. ASSUME NEW r \in Record PROVE encoded_size(r) \in Nat /\ encoded_size(r) >= 2
  <2>1. r.type \in Nat /\ Len(r.value) \in Nat
    BY DEF Record, Bytes
  <2>2. /\ Len(encode_bigsize(r.type)) \in Nat \ {0}
        /\ Len(encode_bigsize(Len(r.value))) \in Nat \ {0}
    BY <2>1, BigSizeType, Zenon
  <2>3. \A a, b \in Nat \ {0} : \A c \in Nat : a + b + c \in Nat /\ a + b + c >= 2
    OBVIOUS
  <2> QED
    BY <2>1, <2>2, <2>3, Zenon DEF encoded_size
<1>3. 0 \in P
  BY <1>0, <1>1
<1>4. ASSUME NEW k \in 1..n, k - 1 \in P PROVE k \in P
  <2>1. /\ k \in 0..n /\ k - 1 \in 0..n
        /\ 2 * (k - 1) <= size[k - 1] /\ \A i \in 0..(k - 1) : size[i] <= size[k - 1]
    BY <1>0, <1>4
  <2>2. encoded_size(recs[k]) \in Nat /\ encoded_size(recs[k]) >= 2
    BY <1>0, <1>2
  <2>3. size[k] = size[k - 1] + encoded_size(recs[k]) /\ size[k] \in Nat /\ size[k - 1] \in Nat
    BY <1>1, <2>1
  <2>4. 2 * k <= size[k] /\ size[k - 1] <= size[k]
    BY <2>1, <2>2, <2>3
  <2>5. ASSUME NEW i \in 0..k PROVE size[i] <= size[k]
    <3>1. CASE i = k
      BY <2>3, <3>1
    <3>2. CASE i # k
      <4>1. i \in 0..(k - 1) /\ i \in 0..n
        BY <1>0, <3>2
      <4>2. size[i] <= size[k - 1] /\ size[i] \in Nat
        BY <1>1, <2>1, <4>1
      <4> QED
        BY <2>3, <2>4, <4>2
    <3> QED
      BY <3>1, <3>2
  <2> QED
    BY <2>1, <2>4, <2>5
<1> HIDE DEF P
<1>5. \A k \in 0..n : k \in P
  BY <1>0, <1>3, <1>4, RoundByRound, Zenon
<1> QED
  BY <1>5 DEF P, n

(***************************************************************************)
(* Where the records stand in a payload                                    *)
(***************************************************************************)

\* What stands in the first bytes stands in all of them.
LEMMA StandsAhead ==
    ASSUME NEW s \in Bytes, NEW b \in Bytes, NEW c \in Bytes, NEW o \in Nat \ {0},
           Stands(s, b, o), Stands(b, c, 1)
    PROVE  Stands(s, c, o)
<1>1. Len(s) \in Nat /\ Len(b) \in Nat /\ Len(c) \in Nat
  BY DEF Bytes
<1>2. /\ o + Len(s) <= Len(b) + 1
      /\ \A i \in 1..Len(s) : b[o + i - 1] = s[i]
  BY DEF Stands
<1>3. /\ 1 + Len(b) <= Len(c) + 1
      /\ \A i \in 1..Len(b) : c[1 + i - 1] = b[i]
  BY DEF Stands
<1>4. ASSUME NEW i \in 1..Len(s) PROVE c[o + i - 1] = s[i]
  <2>1. o + i - 1 \in 1..Len(b) /\ 1 + (o + i - 1) - 1 = o + i - 1
    BY <1>1, <1>2
  <2> QED
    BY <1>2, <1>3, <2>1
<1>5. o + Len(s) <= Len(c) + 1
  BY <1>1, <1>2, <1>3
<1> QED
  BY <1>4, <1>5 DEF Stands

\* The type, the length and the value of a record lie at o, as far as there is
\* room: a type or a length for which there is none gives way to zeroes.
Lies(b, o, t, l, v) ==
    LET end == HOP_PAYLOADS_SIZE + 1
    IN  /\ o + Len(t) > end => Blank(b, o)
        /\ o + Len(t) <= end => Stands(t, b, o)
        /\ o + Len(t) <= end /\ o + Len(t) + Len(l) > end => Blank(b, o + Len(t))
        /\ o + Len(t) + Len(l) <= end => Stands(l, b, o + Len(t))
        /\ o + (Len(t) + Len(l) + Len(v)) <= end => Stands(v, b, o + Len(t) + Len(l))

LiesRecord(b, o, r) ==
    Lies(b, o, encode_bigsize(r.type), encode_bigsize(Len(r.value)), r.value)

\* A record that is there to its last byte stays when bytes are added.
LEMMA LiesWhole ==
    ASSUME NEW b \in Bytes, NEW c \in Bytes, NEW o \in Nat \ {0},
           NEW t \in Bytes, NEW l \in Bytes, NEW v \in Bytes,
           Lies(b, o, t, l, v), Stands(b, c, 1),
           o + (Len(t) + Len(l) + Len(v)) <= HOP_PAYLOADS_SIZE + 1
    PROVE  Lies(c, o, t, l, v)
<1>1. Len(t) \in Nat /\ Len(l) \in Nat /\ Len(v) \in Nat /\ HOP_PAYLOADS_SIZE \in Nat
  BY OnionAssumption DEF Bytes
<1>2. /\ o + Len(t) <= HOP_PAYLOADS_SIZE + 1
      /\ o + Len(t) + Len(l) <= HOP_PAYLOADS_SIZE + 1
      /\ ~(o + Len(t) > HOP_PAYLOADS_SIZE + 1)
      /\ ~(o + Len(t) + Len(l) > HOP_PAYLOADS_SIZE + 1)
      /\ o + Len(t) \in Nat \ {0} /\ o + Len(t) + Len(l) \in Nat \ {0}
  BY <1>1
<1>3. Stands(t, b, o) /\ Stands(l, b, o + Len(t)) /\ Stands(v, b, o + Len(t) + Len(l))
  BY <1>2, Zenon DEF Lies
<1>4. Stands(t, c, o)
  BY <1>3, StandsAhead
<1>5. Stands(l, c, o + Len(t))
  BY <1>2, <1>3, StandsAhead
<1>6. Stands(v, c, o + Len(t) + Len(l))
  BY <1>2, <1>3, StandsAhead
<1> QED
  BY <1>2, <1>4, <1>5, <1>6, Zenon DEF Lies

\* Padding leaves what is there and adds zeroes.
LEMMA PaddedIs ==
    ASSUME NEW b \in Bytes, Len(b) <= HOP_PAYLOADS_SIZE
    PROVE  /\ Stands(b, Padded(b), 1)
           /\ \A o \in Nat \ {0} : Blank(b, o) => Blank(Padded(b), o)
<1> DEFINE n == HOP_PAYLOADS_SIZE - Len(b)
           zeroes == [i \in 1..n |-> 0]
           p == b \o zeroes
<1>1. n \in Nat /\ Len(b) + n = HOP_PAYLOADS_SIZE /\ Len(b) \in Nat
  BY OnionAssumption DEF Bytes
<1>2. 0 \in Byte
  BY BaseAssumption DEF Byte
<1>3. zeroes \in Seq(Byte) /\ Len(zeroes) = n /\ \A i \in 1..n : zeroes[i] = 0
  <2> HIDE DEF n
  <2> QED
    BY <1>1, <1>2
<1>4. Padded(b) = p
  BY DEF Padded
<1> HIDE DEF zeroes, n
<1>5. Joined(Byte, b, zeroes)
  BY <1>3, JoinIs DEF Bytes
<1>6. /\ Len(p) = Len(b) + n
      /\ \A i \in 1..Len(b) : p[i] = b[i]
      /\ \A i \in 1..n : p[Len(b) + i] = 0
  BY <1>3, <1>5 DEF Joined
<1> HIDE DEF p
<1>7. Stands(b, p, 1)
  <2>1. ASSUME NEW i \in 1..Len(b) PROVE p[1 + i - 1] = b[i]
    <3>1. 1 + i - 1 = i
      BY <1>1
    <3> QED
      BY <1>6, <3>1
  <2>2. 1 + Len(b) <= Len(p) + 1
    BY <1>1, <1>6
  <2> QED
    BY <2>1, <2>2 DEF Stands
<1>8. ASSUME NEW o \in Nat \ {0}, Blank(b, o) PROVE Blank(p, o)
  <2>1. ASSUME NEW i \in o..Len(p) PROVE p[i] = 0
    <3>1. CASE i <= Len(b)
      <4>1. i \in o..Len(b) /\ i \in 1..Len(b)
        BY <1>1, <3>1
      <4> QED
        BY <1>6, <1>8, <4>1 DEF Blank
    <3>2. CASE ~(i <= Len(b))
      <4>1. i - Len(b) \in 1..n /\ Len(b) + (i - Len(b)) = i
        BY <1>1, <1>6, <3>2
      <4> QED
        BY <1>6, <4>1
    <3> QED
      BY <3>1, <3>2
  <2> QED
    BY <2>1 DEF Blank
<1> QED
  BY <1>4, <1>7, <1>8

LEMMA LiesPadded ==
    ASSUME NEW b \in Bytes, Len(b) <= HOP_PAYLOADS_SIZE, NEW o \in Nat \ {0},
           NEW t \in Bytes, NEW l \in Bytes, NEW v \in Bytes, Lies(b, o, t, l, v)
    PROVE  Lies(Padded(b), o, t, l, v)
<1>1. Len(t) \in Nat /\ Len(l) \in Nat /\ Len(v) \in Nat
  BY DEF Bytes
<1>2. o + Len(t) \in Nat \ {0} /\ o + Len(t) + Len(l) \in Nat \ {0}
  BY <1>1
<1> DEFINE c == Padded(b)
<1>3. c \in Bytes /\ Stands(b, c, 1) /\ \A k \in Nat \ {0} : Blank(b, k) => Blank(c, k)
  BY PaddedIs, PaddedType
<1> HIDE DEF c
<1>4. Stands(t, b, o) => Stands(t, c, o)
  BY <1>3, StandsAhead
<1>5. Stands(l, b, o + Len(t)) => Stands(l, c, o + Len(t))
  BY <1>2, <1>3, StandsAhead
<1>6. Stands(v, b, o + Len(t) + Len(l)) => Stands(v, c, o + Len(t) + Len(l))
  BY <1>2, <1>3, StandsAhead
<1>7. Blank(b, o) => Blank(c, o)
  BY <1>3
<1>8. Blank(b, o + Len(t)) => Blank(c, o + Len(t))
  BY <1>2, <1>3
<1>9. Lies(c, o, t, l, v)
  BY <1>4, <1>5, <1>6, <1>7, <1>8, Zenon DEF Lies
<1> QED
  BY <1>9 DEF c

\* What ends in time is not cut.
LEMMA StandsInCut ==
    ASSUME NEW s \in Bytes, NEW b \in Bytes, NEW o \in Nat \ {0}, Stands(s, b, o),
           o + Len(s) <= HOP_PAYLOADS_SIZE + 1
    PROVE  Stands(s, Cut(b), o)
<1> DEFINE n == IF Len(b) < HOP_PAYLOADS_SIZE THEN Len(b) ELSE HOP_PAYLOADS_SIZE
           c == SubSeq(b, 1, n)
<1>1. HOP_PAYLOADS_SIZE \in Nat /\ Len(b) \in Nat /\ b \in Seq(Byte) /\ Len(s) \in Nat
  BY OnionAssumption DEF Bytes
<1>2. n \in Nat /\ n <= Len(b) /\ (n = Len(b) \/ n = HOP_PAYLOADS_SIZE)
  BY <1>1
<1>3. Cut(b) = c
  BY DEF Cut
<1> HIDE DEF n
<1>4. Len(c) = n /\ \A i \in 1..n : c[i] = b[i]
  BY <1>1, <1>2
<1> HIDE DEF c
<1>5. o + Len(s) <= Len(b) + 1 /\ \A i \in 1..Len(s) : b[o + i - 1] = s[i]
  BY DEF Stands
<1>6. o + Len(s) <= n + 1
  BY <1>2, <1>5
<1>7. ASSUME NEW i \in 1..Len(s) PROVE c[o + i - 1] = s[i]
  <2>1. o + i - 1 \in 1..n
    BY <1>1, <1>2, <1>6
  <2> QED
    BY <1>4, <1>5, <2>1
<1>8. Stands(s, c, o)
  BY <1>4, <1>6, <1>7 DEF Stands
<1> QED
  BY <1>3, <1>8

\* The parts of a concatenation stand in it.
LEMMA JoinStands ==
    ASSUME NEW s \in Bytes, NEW t \in Bytes
    PROVE  /\ Stands(s, s \o t, 1) /\ Stands(t, s \o t, Len(s) + 1)
           /\ s \o t \in Bytes /\ Len(s \o t) = Len(s) + Len(t)
<1> DEFINE u == s \o t
<1>1. Joined(Byte, s, t)
  BY JoinIs DEF Bytes
<1>2. /\ u \in Seq(Byte) /\ Len(u) = Len(s) + Len(t)
      /\ \A i \in 1..Len(s) : u[i] = s[i]
      /\ \A i \in 1..Len(t) : u[Len(s) + i] = t[i]
  BY <1>1 DEF Joined
<1> HIDE DEF u
<1>3. Len(s) \in Nat /\ Len(t) \in Nat
  BY DEF Bytes
<1>4. Stands(s, u, 1)
  <2>1. ASSUME NEW i \in 1..Len(s) PROVE u[1 + i - 1] = s[i]
    <3>1. 1 + i - 1 = i
      BY <1>3
    <3> QED
      BY <1>2, <3>1
  <2>2. 1 + Len(s) <= Len(u) + 1
    BY <1>2, <1>3
  <2> QED
    BY <2>1, <2>2 DEF Stands
<1>5. Stands(t, u, Len(s) + 1)
  <2>1. ASSUME NEW i \in 1..Len(t) PROVE u[Len(s) + 1 + i - 1] = t[i]
    <3>1. Len(s) + 1 + i - 1 = Len(s) + i
      BY <1>3
    <3> QED
      BY <1>2, <3>1
  <2>2. Len(s) + 1 + Len(t) <= Len(u) + 1
    BY <1>2, <1>3
  <2> QED
    BY <2>1, <2>2 DEF Stands
<1> QED
  BY <1>2, <1>4, <1>5 DEF u, Bytes

\* Behind the end nothing stands, so that it is blank.
LEMMA BlankBehind ==
    ASSUME NEW b \in Bytes, NEW o \in Nat, o > Len(b)
    PROVE  Blank(b, o)
<1>1. Len(b) \in Nat
  BY DEF Bytes
<1>2. ~(\E i : i \in o..Len(b))
  BY <1>1
<1> QED
  BY <1>2 DEF Blank

\* A record lies behind what was written before, and nothing is full unless it
\* has filled the payload.
LEMMA WriteLies ==
    ASSUME NEW s \in Writing, ~s.full, Len(s.bytes) < HOP_PAYLOADS_SIZE, NEW r \in Record
    PROVE  /\ LiesRecord(WriteRecord(s, r).bytes, Len(s.bytes) + 1, r)
           /\ Stands(s.bytes, WriteRecord(s, r).bytes, 1)
           /\ Len(s.bytes) + encoded_size(r) < HOP_PAYLOADS_SIZE =>
                  /\ ~WriteRecord(s, r).full
                  /\ Len(WriteRecord(s, r).bytes) = Len(s.bytes) + encoded_size(r)
           /\ Len(s.bytes) + encoded_size(r) >= HOP_PAYLOADS_SIZE => WriteRecord(s, r).full
<1> DEFINE b == s.bytes
           o == Len(b) + 1
           t == encode_bigsize(r.type)
           l == encode_bigsize(Len(r.value))
           v == r.value
           bt == b \o t
           btl == bt \o l
           btlv == btl \o v
           w == WriteRecord(s, r)
           end == HOP_PAYLOADS_SIZE + 1
<1>0. HOP_PAYLOADS_SIZE \in Nat
  BY OnionAssumption
<1>1. b \in Bytes /\ Len(b) \in Nat /\ r.type \in Nat /\ v \in Bytes /\ Len(v) \in Nat
  BY DEF Writing, Record, Bytes
<1>2. t \in Bytes /\ Len(t) \in Nat \ {0} /\ l \in Bytes /\ Len(l) \in Nat \ {0}
  BY <1>1, BigSizeType
<1>3. encoded_size(r) = Len(t) + Len(l) + Len(v)
  BY DEF encoded_size
<1>4. w = IF Len(bt) > HOP_PAYLOADS_SIZE THEN [s EXCEPT !.full = TRUE]
          ELSE IF Len(btl) > HOP_PAYLOADS_SIZE THEN [bytes |-> bt, full |-> TRUE]
          ELSE [bytes |-> Cut(btlv), full |-> Len(btlv) >= HOP_PAYLOADS_SIZE]
  BY DEF WriteRecord
<1> HIDE DEF t, l, v, w
<1>5. /\ Stands(b, bt, 1) /\ Stands(t, bt, o)
      /\ bt \in Bytes /\ Len(bt) = Len(b) + Len(t)
  BY <1>1, <1>2, JoinStands
<1> HIDE DEF bt
<1>6. /\ Stands(bt, btl, 1) /\ Stands(l, btl, Len(bt) + 1)
      /\ btl \in Bytes /\ Len(btl) = Len(bt) + Len(l)
  BY <1>2, <1>5, JoinStands
<1> HIDE DEF btl
<1>7. /\ Stands(btl, btlv, 1) /\ Stands(v, btlv, Len(btl) + 1)
      /\ btlv \in Bytes /\ Len(btlv) = Len(btl) + Len(v)
  BY <1>1, <1>6, JoinStands
<1> HIDE DEF btlv
<1>8. LiesRecord(w.bytes, o, r) <=> Lies(w.bytes, o, t, l, v)
  BY Zenon DEF LiesRecord, t, l, v
<1>9. /\ o \in Nat \ {0} /\ o + Len(t) \in Nat \ {0} /\ o + Len(t) + Len(l) \in Nat \ {0}
      /\ Len(bt) + 1 = o + Len(t) /\ Len(btl) + 1 = o + Len(t) + Len(l)
      /\ Len(btlv) + 1 = o + (Len(t) + Len(l) + Len(v))
      /\ Len(b) + encoded_size(r) = Len(btlv)
  <2>1. /\ Len(bt) = Len(b) + Len(t) /\ Len(btl) = Len(bt) + Len(l)
        /\ Len(btlv) = Len(btl) + Len(v)
    BY <1>5, <1>6, <1>7, Zenon
  <2>2. Len(b) \in Nat /\ Len(v) \in Nat /\ Len(t) \in Nat /\ Len(l) \in Nat
    BY <1>1, <1>2
  <2> HIDE DEF b, btlv
  <2> QED
    BY <1>3, <2>1, <2>2
<1>20. ASSUME NEW B \in Nat, NEW T \in Nat, NEW L \in Nat, NEW V \in Nat, NEW H \in Nat
       PROVE  /\ B + T > H =>
                     /\ B + 1 + T > H + 1 /\ ~(B + 1 + T <= H + 1)
                     /\ ~(B + 1 + T + L <= H + 1) /\ ~(B + 1 + (T + L + V) <= H + 1)
                     /\ ~(B + (T + L + V) < H)
              /\ B + T + L > H =>
                     /\ ~(B + 1 + T + L <= H + 1) /\ ~(B + 1 + (T + L + V) <= H + 1)
                     /\ ~(B + (T + L + V) < H)
              /\ ~(B + T > H) => ~(B + 1 + T > H + 1)
              /\ B + 1 + (T + L + V) <= H + 1 => B + 1 + T + L + V <= H + 1
  OBVIOUS
<1>21. /\ Len(bt) = Len(b) + Len(t) /\ Len(btl) = Len(b) + Len(t) + Len(l)
       /\ Len(b) \in Nat /\ Len(v) \in Nat /\ Len(t) \in Nat /\ Len(l) \in Nat
  BY <1>1, <1>2, <1>5, <1>6, Zenon
<1>22. /\ Len(b) + Len(t) > HOP_PAYLOADS_SIZE =>
              /\ o + Len(t) > end /\ ~(o + Len(t) <= end)
              /\ ~(o + Len(t) + Len(l) <= end) /\ ~(o + (Len(t) + Len(l) + Len(v)) <= end)
              /\ ~(Len(b) + (Len(t) + Len(l) + Len(v)) < HOP_PAYLOADS_SIZE)
       /\ Len(b) + Len(t) + Len(l) > HOP_PAYLOADS_SIZE =>
              /\ ~(o + Len(t) + Len(l) <= end) /\ ~(o + (Len(t) + Len(l) + Len(v)) <= end)
              /\ ~(Len(b) + (Len(t) + Len(l) + Len(v)) < HOP_PAYLOADS_SIZE)
       /\ ~(Len(b) + Len(t) > HOP_PAYLOADS_SIZE) => ~(o + Len(t) > end)
       /\ o + (Len(t) + Len(l) + Len(v)) <= end => o + Len(t) + Len(l) + Len(v) <= end
  <2> HIDE DEF b
  <2> QED
    BY <1>0, <1>20, <1>21, Zenon
<1>10. CASE Len(bt) > HOP_PAYLOADS_SIZE
  <2>1. w = [s EXCEPT !.full = TRUE]
    BY <1>4, <1>10
  <2>2. w.bytes = b /\ w.full
    BY <2>1 DEF Writing
  <2>3. /\ o + Len(t) > end /\ ~(o + Len(t) <= end)
        /\ ~(o + Len(t) + Len(l) <= end) /\ ~(o + (Len(t) + Len(l) + Len(v)) <= end)
        /\ ~(Len(b) + encoded_size(r) < HOP_PAYLOADS_SIZE)
    BY <1>3, <1>10, <1>21, <1>22, Zenon
  <2>4. Blank(b, o)
    BY <1>1, BlankBehind
  <2>5. Lies(b, o, t, l, v)
    BY <2>3, <2>4, Zenon DEF Lies
  <2>6. Stands(b, b, 1)
    <3>1. ASSUME NEW i \in 1..Len(b) PROVE b[1 + i - 1] = b[i]
      <4>1. 1 + i - 1 = i
        BY <1>1
      <4> QED
        BY <4>1
    <3> HIDE DEF b
    <3> QED
      BY <1>1, <3>1 DEF Stands
  <2> QED
    BY <1>8, <2>2, <2>3, <2>5, <2>6 DEF w
<1>11. CASE ~(Len(bt) > HOP_PAYLOADS_SIZE) /\ Len(btl) > HOP_PAYLOADS_SIZE
  <2>1. w = [bytes |-> bt, full |-> TRUE]
    BY <1>4, <1>11
  <2>2. w.bytes = bt /\ w.full
    BY <2>1
  <2>3. /\ ~(o + Len(t) > end)
        /\ ~(o + Len(t) + Len(l) <= end) /\ ~(o + (Len(t) + Len(l) + Len(v)) <= end)
        /\ ~(Len(b) + encoded_size(r) < HOP_PAYLOADS_SIZE)
    BY <1>3, <1>11, <1>21, <1>22, Zenon
  <2>4. Blank(bt, o + Len(t))
    BY <1>5, <1>9, BlankBehind
  <2>5. Lies(bt, o, t, l, v)
    BY <1>5, <2>3, <2>4, Zenon DEF Lies
  <2> QED
    BY <1>5, <1>8, <2>2, <2>3, <2>5 DEF w
<1>12. CASE ~(Len(bt) > HOP_PAYLOADS_SIZE) /\ ~(Len(btl) > HOP_PAYLOADS_SIZE)
  <2> DEFINE c == Cut(btlv)
  <2>1. w = [bytes |-> c, full |-> Len(btlv) >= HOP_PAYLOADS_SIZE]
    BY <1>4, <1>12
  <2>2. w.bytes = c /\ w.full = (Len(btlv) >= HOP_PAYLOADS_SIZE)
    BY <2>1
  <2>3. /\ ~(o + Len(t) > end) /\ ~(o + Len(t) + Len(l) > end)
        /\ o + Len(t) <= end /\ o + Len(t) + Len(l) <= end /\ 1 + Len(b) <= end
    BY <1>0, <1>1, <1>2, <1>5, <1>6, <1>9, <1>12
  <2>4. Stands(b, btlv, 1) /\ Stands(t, btlv, o) /\ Stands(l, btlv, o + Len(t))
    <3>1. Stands(bt, btlv, 1)
      BY <1>5, <1>6, <1>7, StandsAhead
    <3>2. Stands(b, btlv, 1) /\ Stands(t, btlv, o)
      BY <1>1, <1>2, <1>5, <1>7, <1>9, <3>1, StandsAhead
    <3>3. Stands(l, btlv, o + Len(t))
      BY <1>2, <1>6, <1>7, <1>9, StandsAhead
    <3> QED
      BY <3>2, <3>3
  <2>5. Stands(b, c, 1)
    BY <1>1, <1>7, <2>3, <2>4, StandsInCut
  <2>6. Stands(t, c, o)
    BY <1>2, <1>7, <1>9, <2>3, <2>4, StandsInCut
  <2>7. Stands(l, c, o + Len(t))
    BY <1>2, <1>7, <1>9, <2>3, <2>4, StandsInCut
  <2>8. ASSUME o + (Len(t) + Len(l) + Len(v)) <= end PROVE Stands(v, c, o + Len(t) + Len(l))
    <3>1. o + Len(t) + Len(l) + Len(v) <= end
      BY <1>22, <2>8, Zenon
    <3>2. Stands(v, btlv, o + Len(t) + Len(l))
      BY <1>7, <1>9, Zenon
    <3> QED
      BY <1>1, <1>7, <1>9, <3>1, <3>2, StandsInCut
  <2>9. Lies(c, o, t, l, v)
    BY <2>3, <2>6, <2>7, <2>8, Zenon DEF Lies
  <2>10. ASSUME Len(btlv) < HOP_PAYLOADS_SIZE PROVE Len(c) = Len(btlv)
    <3>1. btlv \in Seq(Byte) /\ Len(btlv) \in Nat
      BY <1>7 DEF Bytes
    <3>2. c = SubSeq(btlv, 1, Len(btlv))
      BY <2>10 DEF Cut
    <3> QED
      BY <3>1, <3>2
  <2>11. Len(btlv) \in Nat /\ (Len(btlv) < HOP_PAYLOADS_SIZE => ~(Len(btlv) >= HOP_PAYLOADS_SIZE))
    BY <1>0, <1>7 DEF Bytes
  <2> HIDE DEF c
  <2> QED
    BY <1>8, <1>9, <2>2, <2>5, <2>9, <2>10, <2>11 DEF w
<1> QED
  BY <1>10, <1>11, <1>12

\* What has been written after n records: the number that goes first, and the
\* records one behind the other as far as there is room.
Laid(b, full, recs, prefix, size, n) ==
    /\ Stands(prefix, b, 1)
    /\ \A k \in 1..n :
           Len(prefix) + size[k - 1] <= HOP_PAYLOADS_SIZE =>
               LiesRecord(b, Len(prefix) + size[k - 1] + 1, recs[k])
    /\ IF full THEN Len(prefix) + size[n] >= HOP_PAYLOADS_SIZE
       ELSE /\ Len(prefix) + size[n] < HOP_PAYLOADS_SIZE
            /\ Len(b) = Len(prefix) + size[n]

\* One more record.
LEMMA LaidStep ==
    ASSUME NEW recs \in Seq(Record), NEW size, SizesAdd(size, recs),
           NEW prefix \in Bytes, NEW n \in 1..Len(recs), NEW s \in Writing,
           Laid(s.bytes, s.full, recs, prefix, size, n - 1)
    PROVE  LET w == WriteRecord(s, recs[n]) IN Laid(w.bytes, w.full, recs, prefix, size, n)
<1> DEFINE w == WriteRecord(s, recs[n])
           p == Len(prefix)
<1>0. HOP_PAYLOADS_SIZE \in Nat /\ p \in Nat /\ Len(recs) \in Nat
  BY OnionAssumption DEF Bytes
<1>1. /\ recs[n] \in Record /\ n \in 0..Len(recs) /\ n - 1 \in 0..Len(recs) /\ n \in Nat
      /\ \A k \in 1..n : k \in 1..Len(recs) /\ k - 1 \in 0..Len(recs) /\ recs[k] \in Record
  BY <1>0
<1>2. /\ \A k \in 0..Len(recs) : size[k] \in Nat
      /\ size[n] = size[n - 1] + encoded_size(recs[n])
      /\ encoded_size(recs[n]) \in Nat
  BY <1>1, EncodedSizeType DEF SizesAdd
<1>3. \A k \in 0..(n - 1) : size[k] <= size[n - 1]
  BY <1>1, SizesGrow
<1>4. s.bytes \in Bytes /\ Len(s.bytes) <= HOP_PAYLOADS_SIZE /\ s.full \in BOOLEAN
  BY DEF Writing
<1>5. w \in Writing /\ w.bytes \in Bytes
  BY <1>1, WriteRecordType DEF Writing
<1>6. CASE s.full
  <2>1. w = s
    BY <1>6 DEF WriteRecord
  <2>2. p + size[n - 1] >= HOP_PAYLOADS_SIZE
    BY <1>6 DEF Laid
  <2>3. p + size[n] >= HOP_PAYLOADS_SIZE
    BY <1>0, <1>1, <1>2, <2>2
  <2>4. ASSUME NEW k \in 1..n, p + size[k - 1] <= HOP_PAYLOADS_SIZE
        PROVE  LiesRecord(s.bytes, p + size[k - 1] + 1, recs[k])
    <3>1. CASE k # n
      <4>1. k \in 1..(n - 1)
        BY <1>1, <3>1
      <4> QED
        BY <2>4, <4>1 DEF Laid
    <3>2. CASE k = n
      <4> DEFINE o == p + size[n - 1] + 1
                 t == encode_bigsize(recs[n].type)
                 l == encode_bigsize(Len(recs[n].value))
                 v == recs[n].value
                 end == HOP_PAYLOADS_SIZE + 1
      <4>1. o \in Nat /\ o = end
        <5>1. size[n - 1] \in Nat
          BY <1>1, <1>2
        <5>2. p + size[n - 1] >= HOP_PAYLOADS_SIZE /\ p + size[n - 1] <= HOP_PAYLOADS_SIZE
          BY <2>2, <2>4, <3>2
        <5> HIDE DEF p
        <5> QED
          BY <1>0, <5>1, <5>2
      <4>2. recs[n].type \in Nat /\ Len(v) \in Nat
        BY <1>1 DEF Record, Bytes
      <4>3. Len(t) \in Nat \ {0} /\ Len(l) \in Nat \ {0}
        BY <4>2, BigSizeType
      <4> HIDE DEF t, l, v, o
      <4>4. /\ o > Len(s.bytes)
            /\ ~(o + Len(t) <= end) /\ ~(o + Len(t) + Len(l) <= end)
            /\ ~(o + (Len(t) + Len(l) + Len(v)) <= end)
        BY <1>0, <1>4, <4>1, <4>2, <4>3 DEF Bytes
      <4>5. Blank(s.bytes, o)
        BY <1>4, <4>1, <4>4, BlankBehind
      <4>6. Lies(s.bytes, o, t, l, v)
        BY <4>4, <4>5, Zenon DEF Lies
      <4> QED
        BY <3>2, <4>6, Zenon DEF LiesRecord, t, l, v, o
    <3> QED
      BY <3>1, <3>2
  <2>5. Stands(prefix, s.bytes, 1)
    BY DEF Laid
  <2>6. Laid(s.bytes, s.full, recs, prefix, size, n)
    BY <1>6, <2>3, <2>4, <2>5, Zenon DEF Laid
  <2> QED
    BY <2>1, <2>6
<1>7. CASE ~s.full
  <2>1. p + size[n - 1] < HOP_PAYLOADS_SIZE /\ Len(s.bytes) = p + size[n - 1]
    BY <1>7 DEF Laid
  <2>2. /\ LiesRecord(w.bytes, Len(s.bytes) + 1, recs[n])
        /\ Stands(s.bytes, w.bytes, 1)
        /\ Len(s.bytes) + encoded_size(recs[n]) < HOP_PAYLOADS_SIZE =>
               ~w.full /\ Len(w.bytes) = Len(s.bytes) + encoded_size(recs[n])
        /\ Len(s.bytes) + encoded_size(recs[n]) >= HOP_PAYLOADS_SIZE => w.full
    BY <1>1, <1>7, <2>1, WriteLies
  <2>3. p + size[n] = Len(s.bytes) + encoded_size(recs[n])
    BY <1>0, <1>1, <1>2, <2>1
  <2>4. p + size[n] \in Nat
    BY <1>0, <1>1, <1>2
  <2>5. IF w.full THEN p + size[n] >= HOP_PAYLOADS_SIZE
        ELSE p + size[n] < HOP_PAYLOADS_SIZE /\ Len(w.bytes) = p + size[n]
    BY <1>0, <2>2, <2>3, <2>4
  <2>6. Stands(prefix, w.bytes, 1)
    <3>1. Stands(prefix, s.bytes, 1)
      BY DEF Laid
    <3> QED
      BY <1>4, <1>5, <2>2, <3>1, StandsAhead
  <2>7. ASSUME NEW k \in 1..n, p + size[k - 1] <= HOP_PAYLOADS_SIZE
        PROVE  LiesRecord(w.bytes, p + size[k - 1] + 1, recs[k])
    <3>1. CASE k = n
      BY <2>1, <2>2, <3>1
    <3>2. CASE k # n
      <4> DEFINE o == p + size[k - 1] + 1
                 t == encode_bigsize(recs[k].type)
                 l == encode_bigsize(Len(recs[k].value))
                 v == recs[k].value
      <4>1. k \in 1..(n - 1) /\ k \in 0..(n - 1) /\ k \in 1..Len(recs)
        BY <1>1, <3>2
      <4>2. LiesRecord(s.bytes, o, recs[k])
        BY <2>7, <4>1 DEF Laid
      <4>3. size[k] = size[k - 1] + encoded_size(recs[k]) /\ size[k] <= size[n - 1]
        BY <1>3, <4>1 DEF SizesAdd
      <4>4. recs[k].type \in Nat /\ v \in Bytes /\ Len(v) \in Nat
        BY <1>1 DEF Record, Bytes
      <4>5. t \in Bytes /\ l \in Bytes /\ Len(t) \in Nat /\ Len(l) \in Nat
        BY <4>4, BigSizeType
      <4>6. encoded_size(recs[k]) = Len(t) + Len(l) + Len(v)
        BY DEF encoded_size
      <4>7. Lies(s.bytes, o, t, l, v)
        BY <4>2, Zenon DEF LiesRecord
      <4>8. o \in Nat \ {0} /\ size[k - 1] \in Nat /\ size[k] \in Nat /\ size[n - 1] \in Nat
        BY <1>0, <1>1, <1>2
      <4> HIDE DEF t, l, v
      <4>9. o + (Len(t) + Len(l) + Len(v)) <= HOP_PAYLOADS_SIZE + 1
        <5> DEFINE e == Len(t) + Len(l) + Len(v)
        <5>1. /\ size[k] = size[k - 1] + e /\ size[k] <= size[n - 1]
              /\ p + size[n - 1] < HOP_PAYLOADS_SIZE /\ o = p + size[k - 1] + 1
          BY <2>1, <4>3, <4>6
        <5>2. e \in Nat
          BY <4>4, <4>5
        <5> HIDE DEF e, o, p
        <5>3. ASSUME NEW a \in Nat, NEW x \in Nat, NEW y \in Nat, NEW z \in Nat,
                     NEW d \in Nat, NEW h \in Nat, y = x + d, y <= z, a + z < h
              PROVE  (a + x + 1) + d <= h + 1
          BY <5>3
        <5>4. o + e <= HOP_PAYLOADS_SIZE + 1
          BY <1>0, <4>8, <5>1, <5>2, <5>3, Zenon
        <5> QED
          BY <5>4 DEF e
      <4> HIDE DEF o
      <4>10. Lies(w.bytes, o, t, l, v)
        BY <1>4, <1>5, <2>2, <4>4, <4>5, <4>7, <4>8, <4>9, LiesWhole
      <4> QED
        BY <4>10, Zenon DEF LiesRecord, t, l, v, o
    <3> QED
      BY <3>1, <3>2
  <2> HIDE DEF w
  <2>8. Laid(w.bytes, w.full, recs, prefix, size, n)
    BY <2>5, <2>6, <2>7, Zenon DEF Laid
  <2> QED
    BY <2>8 DEF w
<1> QED
  BY <1>4, <1>6, <1>7

\* What is padded: the number that goes first, and what is written behind it.
Made(recs, prefix) ==
    IF Len(prefix) >= HOP_PAYLOADS_SIZE THEN <<>>
    ELSE (CHOOSE f : Writes(f, recs, [bytes |-> prefix, full |-> FALSE], Len(recs)))[Len(recs)].bytes

\* What the serializer makes: the number of bytes the records take, and the
\* records behind it as far as there is room.
LEMMA SerializedLies ==
    ASSUME NEW recs \in Seq(Record), NEW size, SizesAdd(size, recs),
           StreamSize(recs) = size[Len(recs)],
           NEW prefix, prefix = encode_bigsize(StreamSize(recs)),
           NEW data, data = serialize_tlv_hop_payload(recs)
    PROVE  /\ Stands(prefix, data, 1)
           /\ \A k \in 1..Len(recs) :
                  Len(prefix) + size[k - 1] <= HOP_PAYLOADS_SIZE =>
                      LiesRecord(data, Len(prefix) + size[k - 1] + 1, recs[k])
<1> DEFINE n == Len(recs)
           first == [bytes |-> prefix, full |-> FALSE]
           written == CHOOSE f : Writes(f, recs, first, Len(recs))
           made == IF Len(prefix) >= HOP_PAYLOADS_SIZE THEN <<>> ELSE written[Len(recs)].bytes
           P == {k \in 0..n : Laid(written[k].bytes, written[k].full, recs, prefix, size, k)}
<1>1. data = Padded(made)
  <2>1. data = Padded(Made(recs, encode_bigsize(StreamSize(recs))))
    BY Zenon DEF serialize_tlv_hop_payload, Made, Writes, tlv_stream_size
  <2>2. data = Padded(Made(recs, prefix))
    BY <2>1, Zenon
  <2> QED
    BY <2>2, Zenon DEF Made
<1>2. prefix \in Bytes /\ Len(prefix) \in Nat /\ Len(prefix) <= 9
  <2>1. StreamSize(recs) \in Nat
    BY StreamSizeType
  <2>2. ASSUME NEW m \in Nat
        PROVE  /\ encode_bigsize(m) \in Bytes /\ Len(encode_bigsize(m)) \in Nat
               /\ Len(encode_bigsize(m)) <= 9
    BY BigSizeType, BigSizeLength
  <2> QED
    BY <2>1, <2>2, Zenon
<1>3. HOP_PAYLOADS_SIZE \in Nat /\ Len(prefix) < HOP_PAYLOADS_SIZE
  <2>1. HOP_PAYLOADS_SIZE \in Nat /\ HOP_PAYLOADS_SIZE >= 18
    BY OnionAssumption, SizesAssumption
  <2>2. \A x, y \in Nat : x <= 9 /\ y >= 18 => x < y
    OBVIOUS
  <2> QED
    BY <1>2, <2>1, <2>2, Zenon
<1>4. first \in Writing
  BY <1>2, <1>3 DEF Writing
<1>5. first.bytes = prefix /\ first.full = FALSE
  OBVIOUS
<1> HIDE DEF first
<1>6. Writes(written, recs, first, Len(recs))
  <2>1. \E f : Writes(f, recs, first, Len(recs))
    BY <1>4, WritesExist
  <2> QED
    BY <2>1, Zenon
<1>7. made = written[n].bytes
  BY <1>2, <1>3
<1> HIDE DEF written, made
<1>8. /\ written[0] = first
      /\ \A k \in 1..n : written[k] = WriteRecord(written[k - 1], recs[k])
      /\ \A k \in 0..n : written[k] \in Writing
  BY <1>4, <1>6, WritesValues, Zenon
<1>9. n \in Nat
  OBVIOUS
<1>10. 0 \in P
  <2>1. size[0] = 0
    BY DEF SizesAdd
  <2>2. Stands(prefix, prefix, 1)
    <3>1. ASSUME NEW i \in 1..Len(prefix) PROVE prefix[1 + i - 1] = prefix[i]
      <4>1. 1 + i - 1 = i
        BY <1>2
      <4> QED
        BY <4>1
    <3> QED
      BY <1>2, <3>1 DEF Stands
  <2>3. ~(\E k : k \in 1..0)
    OBVIOUS
  <2>4. Len(prefix) + size[0] = Len(prefix)
    BY <1>2, <2>1
  <2>5. Laid(prefix, FALSE, recs, prefix, size, 0)
    BY <1>3, <2>2, <2>3, <2>4, Zenon DEF Laid
  <2>6. written[0].bytes = prefix /\ written[0].full = FALSE
    BY <1>5, <1>8
  <2>7. Laid(written[0].bytes, written[0].full, recs, prefix, size, 0)
    BY <2>5, <2>6, Zenon
  <2>8. 0 \in 0..n
    BY <1>9
  <2> QED
    BY <2>7, <2>8
<1>11. ASSUME NEW k \in 1..n, k - 1 \in P PROVE k \in P
  <2>1. k - 1 \in 0..n /\ k \in 0..n
    BY <1>9
  <2>2. Laid(written[k - 1].bytes, written[k - 1].full, recs, prefix, size, k - 1)
    BY <1>11
  <2>3. written[k - 1] \in Writing
    BY <1>8, <2>1
  <2>4. k \in 1..Len(recs)
    OBVIOUS
  <2>5. LET w == WriteRecord(written[k - 1], recs[k])
        IN  Laid(w.bytes, w.full, recs, prefix, size, k)
    <3> HIDE DEF n
    <3> QED
      BY <1>2, <2>2, <2>3, <2>4, LaidStep
  <2> QED
    BY <1>8, <2>1, <2>5
<1> HIDE DEF P
<1>12. n \in P
  <2>1. \A k \in 0..n : k \in P
    BY <1>9, <1>10, <1>11, RoundByRound, Zenon
  <2> QED
    BY <1>9, <2>1
<1>13. Laid(made, written[n].full, recs, prefix, size, n)
  BY <1>7, <1>12 DEF P
<1>14. made \in Bytes /\ Len(made) <= HOP_PAYLOADS_SIZE
  BY <1>7, <1>8, <1>9 DEF Writing
<1>15. Stands(prefix, data, 1)
  <2>1. Stands(prefix, made, 1)
    BY <1>13 DEF Laid
  <2> QED
    BY <1>1, <1>2, <1>14, <2>1, PaddedIs, PaddedType, StandsAhead
<1>16. ASSUME NEW k \in 1..n, Len(prefix) + size[k - 1] <= HOP_PAYLOADS_SIZE
       PROVE  LiesRecord(data, Len(prefix) + size[k - 1] + 1, recs[k])
  <2> DEFINE o == Len(prefix) + size[k - 1] + 1
             t == encode_bigsize(recs[k].type)
             l == encode_bigsize(Len(recs[k].value))
             v == recs[k].value
  <2>1. LiesRecord(made, o, recs[k])
    BY <1>13, <1>16 DEF Laid
  <2>2. size[k - 1] \in Nat
    BY <1>9 DEF SizesAdd
  <2>3. o \in Nat \ {0}
    BY <1>2, <2>2
  <2>4. recs[k] \in Record
    OBVIOUS
  <2>5. recs[k].type \in Nat /\ v \in Bytes /\ Len(v) \in Nat
    BY <2>4 DEF Record, Bytes
  <2>6. t \in Bytes /\ l \in Bytes
    BY <2>5, BigSizeType
  <2>7. Lies(made, o, t, l, v)
    BY <2>1, Zenon DEF LiesRecord
  <2> HIDE DEF o, t, l, v
  <2>8. Lies(data, o, t, l, v)
    BY <1>1, <1>14, <2>3, <2>5, <2>6, <2>7, LiesPadded
  <2> QED
    BY <2>8, Zenon DEF LiesRecord, o, t, l, v
<1> QED
  BY <1>15, <1>16 DEF n

(***************************************************************************)
(* The order of the records                                                *)
(***************************************************************************)

\* Records before which there is an order are as many as there can be.
LEMMA OrderIs ==
    ASSUME NEW recs \in Seq(Record)
    PROVE  /\ OrderedUpTo(recs) \in 0..Len(recs)
           /\ Ascending(recs, OrderedUpTo(recs))
           /\ OrderedUpTo(recs) < Len(recs) => ~Ascending(recs, OrderedUpTo(recs) + 1)
<1> DEFINE T == {n \in 0..Len(recs) : n < Len(recs) => ~Ascending(recs, n + 1)}
<1>1. Len(recs) \in Nat
  OBVIOUS
<1>2. Len(recs) \in T
  BY <1>1
<1>3. PICK n \in T : \A k \in T : n <= k
  <2>1. T \subseteq Nat /\ T # {}
    BY <1>1, <1>2
  <2> HIDE DEF T
  <2> QED
    BY <2>1, LeastElement
<1>4. n \in 0..Len(recs) /\ (n < Len(recs) => ~Ascending(recs, n + 1))
  OBVIOUS
<1>5. Ascending(recs, n)
  <2>1. CASE n = 0
    <3>1. ~(\E i : i \in 2..n)
      BY <2>1
    <3> QED
      BY <3>1, Zenon DEF Ascending
  <2>2. CASE n # 0
    <3>1. n - 1 \in 0..Len(recs) /\ n - 1 < Len(recs) /\ ~(n <= n - 1) /\ (n - 1) + 1 = n
      BY <1>1, <1>4, <2>2
    <3>2. n - 1 \notin T
      BY <1>3, <3>1
    <3> QED
      BY <3>1, <3>2
  <2> QED
    BY <2>1, <2>2
<1> QED
  BY <1>4, <1>5 DEF OrderedUpTo

\* It reaches as far as the records ascend.
LEMMA OrderReaches ==
    ASSUME NEW recs \in Seq(Record), NEW k \in 0..Len(recs), Ascending(recs, k)
    PROVE  k <= OrderedUpTo(recs)
<1> DEFINE u == OrderedUpTo(recs)
<1>1. u \in 0..Len(recs) /\ (u < Len(recs) => ~Ascending(recs, u + 1)) /\ Len(recs) \in Nat
  BY OrderIs
<1> HIDE DEF u
<1>2. ASSUME ~(k <= u) PROVE FALSE
  <2>1. u < Len(recs) /\ u + 1 <= k
    BY <1>1, <1>2
  <2>2. \A i \in 2..(u + 1) : i \in 2..k
    BY <1>1, <2>1
  <2>3. Ascending(recs, u + 1)
    BY <2>2, Zenon DEF Ascending
  <2> QED
    BY <1>1, <2>1, <2>3
<1> QED
  BY <1>2 DEF u

LEMMA InOrderIs ==
    ASSUME NEW recs \in Seq(Record)
    PROVE  /\ Len(InOrder(recs)) = OrderedUpTo(recs)
           /\ \A i \in 1..OrderedUpTo(recs) : InOrder(recs)[i] = recs[i]
<1>1. OrderedUpTo(recs) \in 0..Len(recs) /\ Len(recs) \in Nat
  BY OrderIs
<1> DEFINE u == OrderedUpTo(recs)
<1> HIDE DEF u
<1>2. u \in 0..Len(recs)
  BY <1>1 DEF u
<1>3. Len(SubSeq(recs, 1, u)) = u /\ \A i \in 1..u : SubSeq(recs, 1, u)[i] = recs[i]
  BY <1>1, <1>2
<1> QED
  BY <1>3 DEF InOrder, u

\* After k records in order the next one is out of order, or in order too.
LEMMA NextInOrder ==
    ASSUME NEW recs \in Seq(Record), NEW k \in 0..(Len(recs) - 1), Ascending(recs, k)
    PROVE  /\ OutOfOrder(recs[k + 1].type, SubSeq(recs, 1, k)) => OrderedUpTo(recs) = k
           /\ ~OutOfOrder(recs[k + 1].type, SubSeq(recs, 1, k)) => Ascending(recs, k + 1)
<1> DEFINE sofar == SubSeq(recs, 1, k)
<1>1. Len(recs) \in Nat /\ k \in 0..Len(recs) /\ k + 1 \in 1..Len(recs) /\ k < Len(recs)
  OBVIOUS
<1>2. \A i \in 1..Len(recs) : recs[i].type \in Nat
  BY RecordsOf
<1>3. /\ sofar \in Seq(Record) /\ Len(sofar) = k
      /\ k # 0 => sofar # <<>> /\ Last(sofar) = recs[k]
      /\ k = 0 => sofar = <<>>
  <2>1. sofar \in Seq(Record) /\ Len(sofar) = k /\ \A i \in 1..k : sofar[i] = recs[i]
    BY <1>1
  <2> HIDE DEF sofar
  <2> QED
    BY <1>1, <2>1 DEF Last
<1>4. OutOfOrder(recs[k + 1].type, sofar) <=> k # 0 /\ recs[k + 1].type <= recs[k].type
  <2> HIDE DEF sofar
  <2> QED
    BY <1>1, <1>3 DEF OutOfOrder
<1> HIDE DEF sofar
<1>5. ASSUME k # 0, recs[k + 1].type <= recs[k].type PROVE OrderedUpTo(recs) = k
  <2> DEFINE u == OrderedUpTo(recs)
  <2>1. u \in 0..Len(recs) /\ Ascending(recs, u) /\ k <= u
    BY <1>1, OrderIs, OrderReaches
  <2> HIDE DEF u
  <2>2. ASSUME k < u PROVE FALSE
    <3>1. k + 1 \in 2..u /\ (k + 1) - 1 = k /\ k \in 1..Len(recs)
      BY <1>1, <1>5, <2>1, <2>2
    <3>2. recs[(k + 1) - 1].type < recs[k + 1].type
      BY <2>1, <3>1, Zenon DEF Ascending
    <3>3. recs[k].type < recs[k + 1].type /\ recs[k].type \in Nat /\ recs[k + 1].type \in Nat
      BY <1>1, <1>2, <3>1, <3>2
    <3> QED
      BY <1>5, <3>3
  <2>3. u = k
    BY <1>1, <2>1, <2>2
  <2> QED
    BY <2>3 DEF u
<1>6. ASSUME k = 0 \/ ~(recs[k + 1].type <= recs[k].type) PROVE Ascending(recs, k + 1)
  <2>1. ASSUME NEW i \in 2..(k + 1) PROVE recs[i - 1].type < recs[i].type
    <3>1. CASE i = k + 1
      <4>1. k # 0 /\ i - 1 = k /\ k \in 1..Len(recs)
        BY <1>1, <3>1
      <4>2. recs[k].type \in Nat /\ recs[k + 1].type \in Nat
        BY <1>1, <1>2, <4>1
      <4> QED
        BY <1>6, <3>1, <4>1, <4>2
    <3>2. CASE i # k + 1
      <4>1. i \in 2..k
        BY <1>1, <3>2
      <4> QED
        BY <4>1, Zenon DEF Ascending
    <3> QED
      BY <3>1, <3>2
  <2> QED
    BY <2>1 DEF Ascending
<1> QED
  BY <1>4, <1>5, <1>6 DEF sofar

(***************************************************************************)
(* A record that lies somewhere is read                                    *)
(***************************************************************************)

\* What stands somewhere is read from there.
LEMMA StandsRead ==
    ASSUME NEW v \in Bytes, NEW b \in Bytes, NEW o \in Nat \ {0}, Stands(v, b, o)
    PROVE  SubSeq(b, o, o + Len(v) - 1) = v
<1> DEFINE n == Len(v)
           c == SubSeq(b, o, o + n - 1)
<1>1. n \in Nat /\ Len(b) \in Nat /\ b \in Seq(Byte) /\ v \in Seq(Byte)
  BY DEF Bytes
<1>2. o + n <= Len(b) + 1 /\ \A i \in 1..n : b[o + i - 1] = v[i]
  BY DEF Stands
<1> HIDE DEF n
<1>3. c \in Seq(Byte) /\ Len(c) = n /\ \A i \in 1..n : c[i] = b[o + i - 1]
  <2>1. o + n - 1 <= Len(b)
    BY <1>1, <1>2
  <2>3. ASSUME NEW m \in Nat, m <= Len(b), m + 1 = o + n
        PROVE  /\ SubSeq(b, o, m) \in Seq(Byte) /\ Len(SubSeq(b, o, m)) = n
               /\ \A i \in 1..n : SubSeq(b, o, m)[i] = b[o + i - 1]
    <3>1. Len(SubSeq(b, o, m)) = n
      BY <1>1, <2>3
    <3>2. SubSeq(b, o, m) \in Seq(Byte)
      BY <1>1, <2>3
    <3>3. \A i \in 1..n : SubSeq(b, o, m)[i] = b[o + i - 1]
      BY <1>1, <2>3
    <3> QED
      BY <3>1, <3>2, <3>3
  <2>4. o + n - 1 \in Nat /\ (o + n - 1) + 1 = o + n
    BY <1>1
  <2> QED
    BY <2>1, <2>3, <2>4
<1>4. Len(v) = n
  BY DEF n
<1> HIDE DEF c
<1>5. c = v
  BY <1>1, <1>2, <1>3, <1>4
<1> QED
  BY <1>5 DEF c, n

\* The loop ends where it stands.
Stopped(s) == [s EXCEPT !.more = FALSE]

\* Behind the first record, zeroes end the loop: a type of zero is out of order.
LEMMA StopsAtBlank ==
    ASSUME NEW data \in Bytes, NEW end \in Nat, end <= Len(data) + 1,
           NEW s \in Reading, s.records # <<>>, Blank(data, s.o)
    PROVE  ReadRecord(data, end, s) = Stopped(s)
<1> DEFINE type == decode_bigsize(data, s.o, end)
<1>1. s.o \in Nat \ {0} /\ s.records \in Seq(Record)
  BY DEF Reading
<1>2. Last(s.records).type \in Nat
  <2>1. Len(s.records) \in 1..Len(s.records)
    BY <1>1
  <2> QED
    BY <1>1, <2>1, RecordsOf DEF Last
<1>3. type.valid => type.value = 0
  BY <1>1, ZeroReadBack
<1> HIDE DEF type
<1>4. ~type.valid \/ OutOfOrder(type.value, s.records)
  BY <1>2, <1>3 DEF OutOfOrder
<1> QED
  BY <1>4, Zenon DEF ReadRecord, Stopped, type

\* A record is read to its last byte, or with its type and no value.
Whole(s, r) ==
    [o |-> s.o + encoded_size(r), more |-> TRUE, records |-> Append(s.records, r)]

Emptied(s, r, o) ==
    [o |-> o, more |-> TRUE, records |-> Append(s.records, [r EXCEPT !.value = <<>>])]

\* The loop ends at r, or it reads r whole, or, when its length gave way to
\* zeroes, without its value and with only zeroes behind it.  When r ends in
\* time, only its type can keep it from being read.
ReadingIs(data, end, s, r) ==
    LET got  == ReadRecord(data, end, s)
        late == OutOfOrder(r.type, s.records)
        whole == s.o + encoded_size(r) <= end
    IN  /\ \/ got = Stopped(s)
           \/ ~late /\ whole /\ got = Whole(s, r)
           \/ ~late /\ \E o \in Nat \ {0} : Blank(data, o) /\ got = Emptied(s, r, o)
        /\ whole => got = IF late THEN Stopped(s) ELSE Whole(s, r)

\* So it is where a record lies.
LEMMA ReadLies ==
    ASSUME NEW data \in Bytes, Len(data) = HOP_PAYLOADS_SIZE,
           NEW end \in Nat, end <= HOP_PAYLOADS_SIZE + 1,
           NEW s \in Reading, s.more, NEW r \in Record, LiesRecord(data, s.o, r),
           r.type < EightDigits, Len(r.value) < EightDigits,
           s.records = <<>> => s.o + Len(encode_bigsize(r.type)) <= HOP_PAYLOADS_SIZE + 1
    PROVE  ReadingIs(data, end, s, r)
<1> DEFINE T == Len(encode_bigsize(r.type))
           L == Len(encode_bigsize(Len(r.value)))
           V == Len(r.value)
           type  == decode_bigsize(data, s.o, end)
           o     == s.o + type.bytes_read
           len   == decode_bigsize(data, o, end)
           start == o + len.bytes_read
           value == SubSeq(data, start, start + len.value - 1)
           stops == \/ ~s.more \/ ~type.valid
                    \/ OutOfOrder(type.value, s.records)
                    \/ ~len.valid
                    \/ len.value > end - start
           goes  == [o       |-> start + len.value,
                     more    |-> TRUE,
                     records |-> Append(s.records, [type |-> type.value, value |-> value])]
           got == ReadRecord(data, end, s)
           e == encoded_size(r)
           late == OutOfOrder(r.type, s.records)
<1>1. got = IF stops THEN Stopped(s) ELSE goes
  BY Zenon DEF ReadRecord, Stopped
<1>2. s.o \in Nat \ {0} /\ s.records \in Seq(Record)
  BY DEF Reading
<1>3. r.type \in Nat /\ r.value \in Bytes /\ V \in Nat /\ HOP_PAYLOADS_SIZE \in Nat
  BY OnionAssumption DEF Record, Bytes
<1>4. T \in Nat \ {0} /\ L \in Nat \ {0}
  BY <1>3, BigSizeType
<1>5. e = T + L + V /\ e \in Nat
  <2>1. e = T + L + V
    BY DEF encoded_size
  <2> HIDE DEF e, T, L, V
  <2> QED
    BY <1>3, <1>4, <2>1
<1>6. Lies(data, s.o, encode_bigsize(r.type), encode_bigsize(Len(r.value)), r.value)
  BY Zenon DEF LiesRecord
<1>7. end <= Len(data) + 1
  OBVIOUS
<1>8. ReadsWithin(type, s.o, end)
  BY <1>2, <1>7, DecodeBigSizeType
<1> HIDE DEF e, got, T, L, V
<1>9. CASE s.o + T > HOP_PAYLOADS_SIZE + 1
  <2>1. Blank(data, s.o) /\ s.records # <<>>
    BY <1>2, <1>3, <1>4, <1>6, <1>9 DEF Lies, T
  <2>2. got = Stopped(s)
    BY <1>7, <2>1, StopsAtBlank DEF got
  <2>3. ~(s.o + e <= end)
    BY <1>2, <1>3, <1>4, <1>5, <1>9
  <2> QED
    BY <2>2, <2>3 DEF got, e, ReadingIs
<1>10. CASE ~(s.o + T > HOP_PAYLOADS_SIZE + 1)
  <2>1. Stands(encode_bigsize(r.type), data, s.o)
    BY <1>2, <1>3, <1>4, <1>6, <1>10 DEF Lies, T
  <2>2. /\ type.valid => type.bytes_read = T /\ s.o + T <= end /\ type.value = r.type
        /\ s.o + T <= end => type.valid
    <3>1. /\ decode_bigsize(data, s.o, end).valid =>
                  /\ decode_bigsize(data, s.o, end).bytes_read = Len(encode_bigsize(r.type))
                  /\ s.o + Len(encode_bigsize(r.type)) <= end
                  /\ r.type < EightDigits => decode_bigsize(data, s.o, end).value = r.type
          /\ r.type < EightDigits /\ s.o + Len(encode_bigsize(r.type)) <= end =>
                  decode_bigsize(data, s.o, end).valid
      BY <1>2, <1>3, <1>7, <2>1, BigSizeReadBack, Zenon
    <3> QED
      BY <3>1, Zenon DEF T, type
  <2>3. s.o + e <= end => s.o + T <= end
    BY <1>2, <1>3, <1>4, <1>5
  <2> HIDE DEF type
  <2>4. CASE ~type.valid
    BY <1>1, <2>2, <2>3, <2>4, Zenon DEF got, e, ReadingIs
  <2>5. CASE type.valid /\ late
    <3>1. got = Stopped(s)
      BY <1>1, <2>2, <2>5, Zenon
    <3> QED
      BY <2>5, <3>1, Zenon DEF got, e, ReadingIs
  <2>6. CASE type.valid /\ ~late
    <3>1. o = s.o + T /\ type.value = r.type /\ o \in Nat \ {0}
      BY <1>2, <1>4, <2>2, <2>6
    <3>2. ReadsWithin(len, o, end)
      BY <1>7, <3>1, DecodeBigSizeType
    <3> HIDE DEF o
    <3>3. CASE o + L > HOP_PAYLOADS_SIZE + 1
      <4>1. Blank(data, o)
        BY <1>2, <1>3, <1>4, <1>6, <1>10, <3>1, <3>3 DEF Lies, T, L
      <4>2. ~(s.o + e <= end)
        BY <1>2, <1>3, <1>4, <1>5, <3>1, <3>3
      <4>3. CASE ~len.valid
        <5>1. got = Stopped(s)
          BY <1>1, <4>3, Zenon
        <5> QED
          BY <4>2, <5>1, Zenon DEF got, e, ReadingIs
      <4>4. CASE len.valid
        <5>1. len.value = 0 /\ len.bytes_read = 1
          BY <1>7, <3>1, <4>1, <4>4, ZeroReadBack
        <5> HIDE DEF len
        <5>2. start = o + 1 /\ start \in Nat \ {0} /\ start <= end
          BY <3>1, <3>2, <4>4, <5>1 DEF ReadsWithin
        <5> HIDE DEF start
        <5>3. ~(len.value > end - start)
          BY <5>1, <5>2
        <5>4. ~stops
          BY <2>2, <2>6, <3>1, <4>4, <5>3, Zenon
        <5>5. value = <<>>
          <6>1. start + len.value - 1 = start - 1
            BY <5>1, <5>2
          <6>2. value = SubSeq(data, start, start - 1)
            BY <6>1
          <6>3. ASSUME NEW x \in Nat \ {0} PROVE SubSeq(data, x, x - 1) = <<>>
            OBVIOUS
          <6> QED
            BY <5>2, <6>2, <6>3
        <5> HIDE DEF value, stops
        <5>6. goes = Emptied(s, r, start)
          <6>1. [r EXCEPT !.value = <<>>] = [type |-> r.type, value |-> <<>>]
            BY DEF Record
          <6>2. start + len.value = start
            BY <5>1, <5>2
          <6> QED
            BY <3>1, <5>5, <6>1, <6>2, Zenon DEF Emptied
        <5>7. Blank(data, start)
          <6>1. \A i \in start..Len(data) : i \in o..Len(data)
            BY <3>1, <5>2 DEF Bytes
          <6> QED
            BY <4>1, <6>1, Zenon DEF Blank
        <5>8. got = Emptied(s, r, start)
          BY <1>1, <5>4, <5>6, Zenon
        <5> QED
          BY <2>6, <4>2, <5>2, <5>7, <5>8, Zenon DEF got, e, ReadingIs
      <4> QED
        BY <4>3, <4>4
    <3>4. CASE ~(o + L > HOP_PAYLOADS_SIZE + 1)
      <4>1. Stands(encode_bigsize(Len(r.value)), data, o)
        BY <1>2, <1>3, <1>4, <1>6, <3>1, <3>4 DEF Lies, T, L
      <4>2. /\ len.valid => len.bytes_read = L /\ o + L <= end /\ len.value = V
            /\ o + L <= end => len.valid
        <5>1. /\ decode_bigsize(data, o, end).valid =>
                  /\ decode_bigsize(data, o, end).bytes_read =
                        Len(encode_bigsize(Len(r.value)))
                  /\ o + Len(encode_bigsize(Len(r.value))) <= end
                  /\ Len(r.value) < EightDigits =>
                         decode_bigsize(data, o, end).value = Len(r.value)
              /\ Len(r.value) < EightDigits
                 /\ o + Len(encode_bigsize(Len(r.value))) <= end =>
                     decode_bigsize(data, o, end).valid
          <6>1. Len(r.value) \in Nat
            BY <1>3 DEF V
          <6> QED
            BY <1>7, <3>1, <4>1, <6>1, BigSizeReadBack, Zenon
        <5> QED
          BY <5>1, Zenon DEF L, V, len
      <4>3. s.o + e <= end => o + L <= end
        BY <1>2, <1>3, <1>4, <1>5, <3>1
      <4> HIDE DEF len
      <4>4. CASE ~len.valid
        <5>1. got = Stopped(s)
          BY <1>1, <4>4, Zenon
        <5> QED
          BY <4>2, <4>3, <4>4, <5>1, Zenon DEF got, e, ReadingIs
      <4>5. CASE len.valid
        <5>1. start = o + L /\ start \in Nat \ {0} /\ len.value = V /\ start + V = s.o + e
          <6>1. start = o + L /\ len.value = V
            BY <4>2, <4>5
          <6>3. s.o \in Nat /\ T \in Nat /\ L \in Nat
            BY <1>2, <1>4
          <6> HIDE DEF start
          <6>4. start + V = s.o + e
            <7>1. ((s.o + T) + L) + V = s.o + (T + L + V)
              BY <1>3, <6>3
            <7>2. start = (s.o + T) + L
              BY <3>1, <6>1, Zenon
            <7> QED
              BY <1>5, <7>1, <7>2, Zenon
          <6>5. start \in Nat \ {0}
            BY <3>1, <6>1, <6>3
          <6> QED
            BY <6>1, <6>4, <6>5
        <5> HIDE DEF start
        <5>2. len.value > end - start <=> ~(s.o + e <= end)
          BY <1>3, <5>1
        <5>3. CASE len.value > end - start
          <6>1. got = Stopped(s)
            BY <1>1, <5>3, Zenon
          <6> QED
            BY <5>2, <5>3, <6>1, Zenon DEF got, e, ReadingIs
        <5>4. CASE ~(len.value > end - start)
          <6>1. ~stops
            BY <2>2, <2>6, <3>1, <4>5, <5>4, Zenon
          <6>2. s.o + e <= HOP_PAYLOADS_SIZE + 1
            BY <1>2, <1>3, <1>5, <5>2, <5>4
          <6>3. Stands(r.value, data, start)
            BY <1>5, <1>6, <3>1, <5>1, <6>2 DEF Lies, T, L, V
          <6>4. value = r.value
            <7>1. SubSeq(data, start, start + Len(r.value) - 1) = r.value
              BY <1>3, <5>1, <6>3, StandsRead, Zenon
            <7> QED
              BY <5>1, <7>1, Zenon DEF V
          <6> HIDE DEF value, stops
          <6>5. goes = Whole(s, r)
            <7>1. r = [type |-> r.type, value |-> r.value]
              BY DEF Record
            <7>2. start + len.value = s.o + encoded_size(r)
              BY <5>1 DEF e
            <7> QED
              BY <3>1, <6>4, <7>1, <7>2, Zenon DEF Whole
          <6>6. got = Whole(s, r)
            BY <1>1, <6>1, <6>5, Zenon
          <6> QED
            BY <2>6, <5>2, <5>4, <6>6, Zenon DEF got, e, ReadingIs
        <5> QED
          BY <5>3, <5>4
      <4> QED
        BY <4>4, <4>5
    <3> QED
      BY <3>3, <3>4
  <2> QED
    BY <2>4, <2>5, <2>6
<1> QED
  BY <1>9, <1>10

\* What may be read back of a stream that is not there to its end.
ReadBackInPart(recs, got) ==
    LET meant == InOrder(recs)
    IN  /\ Len(got) <= Len(meant)
        /\ \A i \in DOMAIN got :
              \/ got[i] = meant[i]
              \/ i = Len(got) /\ got[i] = [meant[i] EXCEPT !.value = <<>>]

\* The first records, and one record more.
LEMMA FirstRecords ==
    ASSUME NEW recs \in Seq(Record), NEW k \in 0..Len(recs)
    PROVE  /\ SubSeq(recs, 1, k) \in Seq(Record) /\ Len(SubSeq(recs, 1, k)) = k
           /\ \A i \in 1..k : SubSeq(recs, 1, k)[i] = recs[i]
           /\ k < Len(recs) => SubSeq(recs, 1, k + 1) = Append(SubSeq(recs, 1, k), recs[k + 1])
           /\ SubSeq(recs, 1, k) = <<>> <=> k = 0
<1>1. /\ SubSeq(recs, 1, k) \in Seq(Record) /\ Len(SubSeq(recs, 1, k)) = k
      /\ \A i \in 1..k : SubSeq(recs, 1, k)[i] = recs[i]
  OBVIOUS
<1>2. ASSUME k < Len(recs)
      PROVE  SubSeq(recs, 1, k + 1) = Append(SubSeq(recs, 1, k), recs[k + 1])
  <2> DEFINE u == SubSeq(recs, 1, k)
             v == SubSeq(recs, 1, k + 1)
             w == Append(u, recs[k + 1])
  <2>1. recs[k + 1] \in Record /\ k + 1 \in 1..Len(recs) /\ k \in Nat
    BY <1>2
  <2>2. v \in Seq(Record) /\ Len(v) = k + 1 /\ \A i \in 1..(k + 1) : v[i] = recs[i]
    BY <1>2
  <2> HIDE DEF u, v
  <2>3. u \in Seq(Record) /\ Len(u) = k /\ \A i \in 1..k : u[i] = recs[i]
    BY <1>1 DEF u
  <2>4. Appended(Record, u, recs[k + 1])
    BY <2>1, <2>3, AppendIs
  <2>5. /\ w \in Seq(Record) /\ Len(w) = k + 1
        /\ \A i \in 1..(k + 1) : w[i] = IF i = k + 1 THEN recs[k + 1] ELSE u[i]
    BY <2>3, <2>4, Zenon DEF Appended
  <2> HIDE DEF w
  <2>6. ASSUME NEW i \in 1..(k + 1) PROVE v[i] = w[i]
    <3>1. CASE i = k + 1
      BY <2>2, <2>5, <3>1
    <3>2. CASE i # k + 1
      <4>1. i \in 1..k
        BY <2>1, <3>2
      <4> QED
        BY <2>2, <2>3, <2>5, <3>2, <4>1
    <3> QED
      BY <3>1, <3>2
  <2>7. v = w
    BY <2>2, <2>5, <2>6
  <2> QED
    BY <2>7 DEF u, v, w
<1>3. SubSeq(recs, 1, k) = <<>> <=> k = 0
  <2> DEFINE u == SubSeq(recs, 1, k)
  <2>1. u \in Seq(Record) /\ Len(u) = k
    BY <1>1
  <2> HIDE DEF u
  <2>2. u = <<>> <=> k = 0
    BY <2>1
  <2> QED
    BY <2>2 DEF u
<1> QED
  BY <1>1, <1>2, <1>3

\* Records that ascend are read back in part.
LEMMA PartOfOrder ==
    ASSUME NEW recs \in Seq(Record), NEW k \in 0..Len(recs), Ascending(recs, k),
           NEW got \in Seq(Record), Len(got) = k,
           \A i \in 1..k :
               got[i] = recs[i] \/ (i = k /\ got[i] = [recs[i] EXCEPT !.value = <<>>])
    PROVE  ReadBackInPart(recs, got)
<1> DEFINE u == OrderedUpTo(recs)
<1>1. k <= u /\ u \in 0..Len(recs)
  BY OrderReaches, OrderIs
<1>2. Len(InOrder(recs)) = u /\ \A i \in 1..u : InOrder(recs)[i] = recs[i]
  BY InOrderIs
<1> HIDE DEF u
<1>3. \A i \in 1..k : InOrder(recs)[i] = recs[i]
  BY <1>1, <1>2
<1>4. DOMAIN got = 1..k
  OBVIOUS
<1> QED
  BY <1>1, <1>2, <1>3, <1>4, Zenon DEF ReadBackInPart

\* After k rounds k records have been read whole, in order.
InStep(s, recs, prefix, size, k) ==
    /\ s.more /\ k <= Len(recs)
    /\ s.o = 1 + Len(prefix) + size[k] /\ s.o <= HOP_PAYLOADS_SIZE + 1
    /\ s.records = SubSeq(recs, 1, k) /\ Ascending(recs, k)

\* The loop is over, or at its next turn it will be.
Over(s, data) == ~s.more \/ (s.records # <<>> /\ Blank(data, s.o))

LEMMA OverStays ==
    ASSUME NEW data \in Bytes, NEW end \in Nat, end <= Len(data) + 1, NEW s \in Reading,
           Over(s, data)
    PROVE  /\ ReadRecord(data, end, s).records = s.records
           /\ ~ReadRecord(data, end, s).more
<1>1. ReadRecord(data, end, s) = Stopped(s)
  <2>1. CASE ~s.more
    BY <2>1, Zenon DEF ReadRecord, Stopped
  <2>2. CASE s.more
    BY <2>2, StopsAtBlank DEF Over
  <2> QED
    BY <2>1, <2>2
<1> QED
  BY <1>1 DEF Stopped, Reading

(***************************************************************************)
(* The payload that was written is read                                    *)
(***************************************************************************)

\* Types and lengths are 64-bit words.
Sized(recs) == \A i \in 1..Len(recs) : recs[i].type < EightDigits /\ Len(recs[i].value) < EightDigits

\* The records lie one behind the other, as far as there is room.
AllLie(data, recs, prefix, size) ==
    \A k \in 1..Len(recs) :
        Len(prefix) + size[k - 1] <= HOP_PAYLOADS_SIZE =>
            LiesRecord(data, Len(prefix) + size[k - 1] + 1, recs[k])

LEMMA InStepReads ==
    ASSUME NEW recs \in Seq(Record), Sized(recs), NEW size, SizesAdd(size, recs),
           NEW prefix \in Bytes, Len(prefix) <= 9,
           NEW data \in Bytes, Len(data) = HOP_PAYLOADS_SIZE, AllLie(data, recs, prefix, size),
           NEW end \in Nat, end <= HOP_PAYLOADS_SIZE + 1, NEW s \in Reading,
           NEW k \in 0..(Len(recs) - 1), InStep(s, recs, prefix, size, k)
    PROVE  LET got == ReadRecord(data, end, s)
           IN  /\ \/ InStep(got, recs, prefix, size, k + 1)
                  \/ Over(got, data) /\ ReadBackInPart(recs, got.records)
               /\ 1 + Len(prefix) + size[k + 1] <= end =>
                      \/ InStep(got, recs, prefix, size, k + 1)
                      \/ ~got.more /\ got.records = InOrder(recs)
<1> DEFINE got == ReadRecord(data, end, s)
           r == recs[k + 1]
           p == Len(prefix)
           e == encoded_size(r)
           first == SubSeq(recs, 1, k)
           late == OutOfOrder(r.type, first)
<1>1. /\ s.more /\ s.o = 1 + p + size[k] /\ s.o <= HOP_PAYLOADS_SIZE + 1
      /\ s.records = first /\ Ascending(recs, k)
  BY DEF InStep
<1>2. /\ Len(recs) \in Nat /\ k \in Nat /\ k \in 0..Len(recs) /\ k + 1 \in 1..Len(recs)
      /\ k + 1 \in 0..Len(recs) /\ k < Len(recs) /\ (k + 1) - 1 = k /\ k + 1 <= Len(recs)
      /\ r \in Record
  OBVIOUS
<1>3. HOP_PAYLOADS_SIZE \in Nat /\ HOP_PAYLOADS_SIZE >= 18 /\ p \in Nat
  BY OnionAssumption, SizesAssumption DEF Bytes
<1>4. /\ size[k] \in Nat /\ size[k + 1] \in Nat /\ e \in Nat
      /\ size[k + 1] = size[k] + e /\ size[0] = 0
  <2>1. size[k + 1] = size[(k + 1) - 1] + e
    BY <1>2, Zenon DEF SizesAdd
  <2>2. size[k] \in Nat /\ size[k + 1] \in Nat /\ e \in Nat /\ size[0] = 0
    BY <1>2, EncodedSizeType DEF SizesAdd
  <2> QED
    BY <1>2, <2>1, <2>2
<1> HIDE DEF e
<1>5. LiesRecord(data, s.o, r)
  <2>1. p + size[k] <= HOP_PAYLOADS_SIZE /\ p + size[k] + 1 = s.o
    <3>1. \A x, y, h \in Nat : 1 + x + y <= h + 1 => x + y <= h /\ x + y + 1 = 1 + x + y
      OBVIOUS
    <3> HIDE DEF p
    <3> QED
      <4>1. p \in Nat /\ size[k] \in Nat /\ HOP_PAYLOADS_SIZE \in Nat
        BY <1>3, <1>4
      <4>2. s.o = 1 + p + size[k] /\ s.o <= HOP_PAYLOADS_SIZE + 1
        BY <1>1
      <4>3. 1 + p + size[k] <= HOP_PAYLOADS_SIZE + 1
        BY <4>2, Zenon
      <4>4. p + size[k] <= HOP_PAYLOADS_SIZE /\ p + size[k] + 1 = 1 + p + size[k]
        BY <3>1, <4>1, <4>3, Zenon
      <4> QED
        BY <4>2, <4>4, Zenon
  <2>2. p + size[(k + 1) - 1] <= HOP_PAYLOADS_SIZE =>
            LiesRecord(data, p + size[(k + 1) - 1] + 1, r)
    BY <1>2, Zenon DEF AllLie
  <2> QED
    BY <1>2, <2>1, <2>2
<1>6. r.type < EightDigits /\ Len(r.value) < EightDigits
  BY <1>2 DEF Sized
<1>7. /\ first \in Seq(Record) /\ Len(first) = k /\ \A i \in 1..k : first[i] = recs[i]
      /\ SubSeq(recs, 1, k + 1) = Append(first, r)
      /\ first = <<>> <=> k = 0
  BY <1>2, FirstRecords
<1>8. s.records = <<>> => s.o + Len(encode_bigsize(r.type)) <= HOP_PAYLOADS_SIZE + 1
  <2> DEFINE T == Len(encode_bigsize(r.type))
  <2>1. T \in Nat /\ T <= 9
    <3>1. r.type \in Nat
      BY <1>2, RecordIs
    <3> QED
      BY <3>1, BigSizeType, BigSizeLength
  <2> HIDE DEF T, p
  <2>2. ASSUME s.records = <<>> PROVE s.o + T <= HOP_PAYLOADS_SIZE + 1
    <3>1. size[k] = 0
      BY <1>1, <1>4, <1>7, <2>2
    <3>2. s.o = 1 + p
      BY <1>1, <1>3, <3>1
    <3>3. p <= 9
      BY DEF p
    <3> QED
      BY <1>3, <2>1, <3>2, <3>3
  <2> QED
    BY <2>2 DEF T
<1>9. /\ late => OrderedUpTo(recs) = k
      /\ ~late => Ascending(recs, k + 1)
  BY <1>1, NextInOrder
<1> HIDE DEF first, late
<1>10. /\ \/ got = Stopped(s)
          \/ ~late /\ s.o + e <= end /\ got = Whole(s, r)
          \/ ~late /\ \E o \in Nat \ {0} : Blank(data, o) /\ got = Emptied(s, r, o)
       /\ s.o + e <= end => got = IF late THEN Stopped(s) ELSE Whole(s, r)
  <2> DEFINE new == OutOfOrder(r.type, s.records)
  <2>1. new <=> late
    BY <1>1 DEF late
  <2>2. /\ \/ got = Stopped(s)
           \/ ~new /\ s.o + e <= end /\ got = Whole(s, r)
           \/ ~new /\ \E o \in Nat \ {0} : Blank(data, o) /\ got = Emptied(s, r, o)
        /\ s.o + e <= end => got = IF new THEN Stopped(s) ELSE Whole(s, r)
    <3>1. s.more
      BY <1>1
    <3> HIDE DEF r, p
    <3>2. r \in Record
      BY <1>2
    <3> QED
      <4>1. ReadingIs(data, end, s, r)
        BY <1>5, <1>6, <1>8, <3>1, <3>2, ReadLies, Zenon
      <4> QED
        BY <4>1, Zenon DEF ReadingIs, e
  <2> HIDE DEF new, got
  <2> QED
    BY <2>1, <2>2, Zenon
<1>11. Stopped(s).records = first /\ ~Stopped(s).more
  BY <1>1 DEF Stopped, Reading
<1>12. ReadBackInPart(recs, first)
  <2>1. \A i \in 1..k :
            first[i] = recs[i] \/ (i = k /\ first[i] = [recs[i] EXCEPT !.value = <<>>])
    BY <1>7, Zenon
  <2>2. first \in Seq(Record) /\ Len(first) = k
    BY <1>7, Zenon
  <2>3. k \in 0..Len(recs) /\ Ascending(recs, k)
    BY <1>1, <1>2, Zenon
  <2> QED
    BY <2>1, <2>2, <2>3, PartOfOrder, Zenon
<1>13. ASSUME ~late, s.o + e <= end PROVE InStep(Whole(s, r), recs, prefix, size, k + 1)
  <2> DEFINE w == Whole(s, r)
  <2>1. w.more /\ w.o = s.o + e /\ w.records = Append(s.records, r)
    BY DEF Whole, e
  <2> HIDE DEF w
  <2>2. w.records = SubSeq(recs, 1, k + 1) /\ Ascending(recs, k + 1)
    BY <1>1, <1>7, <1>9, <1>13, <2>1
  <2>3. s.o + e = 1 + p + size[k + 1] /\ s.o + e <= HOP_PAYLOADS_SIZE + 1
    <3> HIDE DEF e, p
    <3>1. s.o + e = 1 + p + size[k + 1]
      BY <1>1, <1>3, <1>4
    <3>2. s.o + e \in Nat
      BY <1>3, <1>4, <3>1
    <3> QED
      BY <1>3, <1>13, <3>1, <3>2
  <2>4. InStep(w, recs, prefix, size, k + 1)
    BY <1>2, <2>1, <2>2, <2>3 DEF InStep
  <2> QED
    BY <2>4 DEF w
<1>14. ASSUME ~late, NEW o \in Nat \ {0}, Blank(data, o), got = Emptied(s, r, o)
       PROVE  Over(got, data) /\ ReadBackInPart(recs, got.records)
  <2> DEFINE v == [r EXCEPT !.value = <<>>]
             u == Append(first, v)
  <2>1. v \in Record
    <3> HIDE DEF r
    <3>1. r \in Record
      BY <1>2
    <3>2. <<>> \in Bytes
      BY DEF Bytes
    <3> QED
      BY <3>1, <3>2 DEF Record
  <2>2. got.o = o /\ got.records = u
    BY <1>1, <1>14 DEF Emptied
  <2> HIDE DEF v, got
  <2>3. Appended(Record, first, v)
    BY <1>7, <2>1, AppendIs
  <2>4. /\ u \in Seq(Record) /\ Len(u) = k + 1
        /\ \A i \in 1..(k + 1) : u[i] = IF i = k + 1 THEN v ELSE first[i]
    BY <1>7, <2>3, Zenon DEF Appended
  <2> HIDE DEF u
  <2>5. ASSUME NEW i \in 1..(k + 1)
        PROVE  u[i] = recs[i] \/ (i = k + 1 /\ u[i] = [recs[i] EXCEPT !.value = <<>>])
    <3>1. CASE i = k + 1
      BY <2>4, <3>1 DEF v
    <3>2. CASE i # k + 1
      <4>1. i \in 1..k
        BY <1>2, <3>2
      <4> QED
        BY <1>7, <2>4, <3>2, <4>1, Zenon
    <3> QED
      BY <3>1, <3>2
  <2>6. ReadBackInPart(recs, u)
    BY <1>2, <1>9, <1>14, <2>4, <2>5, PartOfOrder
  <2>7. u # <<>>
    BY <1>2, <2>4
  <2> QED
    BY <1>14, <2>2, <2>6, <2>7 DEF Over
<1>15. /\ \/ InStep(got, recs, prefix, size, k + 1)
          \/ Over(got, data) /\ ReadBackInPart(recs, got.records)
  <2> HIDE DEF got
  <2>1. CASE got = Stopped(s)
    <3>1. ~got.more /\ got.records = first
      BY <1>11, <2>1
    <3> QED
      BY <1>12, <3>1, Zenon DEF Over
  <2> QED
    BY <1>10, <1>13, <1>14, <2>1, Zenon
<1>16. ASSUME 1 + p + size[k + 1] <= end
       PROVE  \/ InStep(got, recs, prefix, size, k + 1)
              \/ ~got.more /\ got.records = InOrder(recs)
  <2>1. s.o + e <= end
    <3> HIDE DEF e, p
    <3> QED
      BY <1>1, <1>3, <1>4, <1>16
  <2> HIDE DEF got
  <2>2. got = IF late THEN Stopped(s) ELSE Whole(s, r)
    BY <1>10, <2>1, Zenon
  <2>3. CASE late
    <3>1. InOrder(recs) = first
      BY <1>9, <2>3, Zenon DEF InOrder, first
    <3> QED
      BY <1>11, <2>2, <2>3, <3>1, Zenon
  <2>4. CASE ~late
    BY <1>13, <2>1, <2>2, <2>4, Zenon
  <2> QED
    BY <2>3, <2>4
<1> QED
  BY <1>15, <1>16

\* The states of the loop, one for each byte.
Loop(read, data, end) ==
    /\ \A k \in 0..HOP_PAYLOADS_SIZE : read[k] \in Reading
    /\ \A k \in 1..HOP_PAYLOADS_SIZE : read[k] = ReadRecord(data, end, read[k - 1])

\* The loop makes as many turns as there are bytes, more than there can be
\* records: what it has read then is what it reads.
LEMMA LoopReads ==
    ASSUME NEW recs \in Seq(Record), Sized(recs), NEW size, SizesAdd(size, recs),
           NEW prefix \in Bytes, Len(prefix) <= 9,
           NEW data \in Bytes, Len(data) = HOP_PAYLOADS_SIZE, AllLie(data, recs, prefix, size),
           NEW end \in Nat, end <= HOP_PAYLOADS_SIZE + 1,
           NEW read, InStep(read[0], recs, prefix, size, 0),
           Loop(read, data, end)
    PROVE  /\ Len(prefix) + size[Len(recs)] > HOP_PAYLOADS_SIZE =>
                  ReadBackInPart(recs, read[HOP_PAYLOADS_SIZE].records)
           /\ end = 1 + Len(prefix) + size[Len(recs)] =>
                  read[HOP_PAYLOADS_SIZE].records = InOrder(recs)
<1> DEFINE n == HOP_PAYLOADS_SIZE
           p == Len(prefix)
           Step(k) == InStep(read[k], recs, prefix, size, k)
<1>0. /\ \A k \in 0..n : read[k] \in Reading
      /\ \A k \in 1..n : read[k] = ReadRecord(data, end, read[k - 1])
  BY Zenon DEF Loop
<1>1. n \in Nat /\ n >= 18 /\ p \in Nat /\ Len(recs) \in Nat
  BY OnionAssumption, SizesAssumption DEF Bytes
<1>2. /\ \A k \in 0..Len(recs) : size[k] \in Nat
      /\ \A k \in 0..Len(recs) : 2 * k <= size[k] /\ \A i \in 0..k : size[i] <= size[k]
  BY SizesGrow DEF SizesAdd
<1> HIDE DEF p
<1>3. ASSUME NEW k \in 1..n, Step(k - 1), k - 1 # Len(recs)
      PROVE  /\ \/ Step(k)
                \/ Over(read[k], data) /\ ReadBackInPart(recs, read[k].records)
             /\ 1 + p + size[k] <= end =>
                    Step(k) \/ (~read[k].more /\ read[k].records = InOrder(recs))
  <2>1. k - 1 <= Len(recs) /\ k - 1 \in Nat
    BY <1>1, <1>3 DEF InStep
  <2>2. k - 1 \in 0..(Len(recs) - 1) /\ k - 1 \in 0..n /\ (k - 1) + 1 = k
    <3>1. \A m \in Nat : \A i \in 1..n : i - 1 <= m /\ i - 1 # m =>
              i - 1 \in 0..(m - 1) /\ i - 1 \in 0..n /\ (i - 1) + 1 = i
      BY <1>1
    <3> QED
      BY <1>1, <1>3, <2>1, <3>1, Zenon
  <2>3. read[k - 1] \in Reading /\ read[k] = ReadRecord(data, end, read[k - 1])
    BY <1>0, <2>2
  <2> DEFINE j == k - 1
             got == ReadRecord(data, end, read[j])
  <2>4. /\ \/ InStep(got, recs, prefix, size, j + 1)
           \/ Over(got, data) /\ ReadBackInPart(recs, got.records)
        /\ 1 + Len(prefix) + size[j + 1] <= end =>
               \/ InStep(got, recs, prefix, size, j + 1)
               \/ ~got.more /\ got.records = InOrder(recs)
    <3> HIDE DEF j
    <3>1. j \in 0..(Len(recs) - 1) /\ read[j] \in Reading /\ InStep(read[j], recs, prefix, size, j)
      BY <1>3, <2>2, <2>3 DEF j
    <3> QED
      BY <3>1, InStepReads
  <2> HIDE DEF got
  <2>5. j + 1 = k /\ got = read[k]
    BY <2>2, <2>3 DEF got
  <2> HIDE DEF j
  <2> QED
    BY <2>4, <2>5, Zenon DEF p
<1>4. ASSUME Step(n) PROVE FALSE
  <2>1. n <= Len(recs) /\ read[n].o = 1 + p + size[n] /\ read[n].o <= n + 1
    BY <1>4 DEF InStep, p
  <2>2. 2 * n <= size[n] /\ size[n] \in Nat
    BY <1>1, <1>2, <2>1
  <2> QED
    BY <1>1, <2>1, <2>2
<1>5. 0 \in 0..n /\ n \in 0..n /\ \A k \in 1..n : k \in 0..n /\ k - 1 \in 0..n
  BY <1>1
<1>6. ASSUME p + size[Len(recs)] > n PROVE ReadBackInPart(recs, read[n].records)
  <2> DEFINE Done(k) == Over(read[k], data) /\ ReadBackInPart(recs, read[k].records)
             P == {k \in 0..n : Step(k) \/ Done(k)}
  <2>1. 0 \in P
    BY <1>5
  <2>2. ASSUME NEW k \in 1..n, k - 1 \in P PROVE k \in P
    <3>1. CASE Step(k - 1)
      <4>1. ASSUME k - 1 = Len(recs) PROVE FALSE
        <5>1. read[k - 1].o = 1 + p + size[k - 1] /\ read[k - 1].o <= n + 1
          BY <3>1 DEF InStep, p
        <5>2. size[k - 1] \in Nat /\ p + size[k - 1] > n
          BY <1>1, <1>2, <1>6, <4>1
        <5> QED
          BY <1>1, <5>1, <5>2
      <4> QED
        BY <1>3, <1>5, <3>1, <4>1
    <3>2. CASE Done(k - 1)
      <4>1. read[k - 1] \in Reading /\ read[k] = ReadRecord(data, end, read[k - 1])
        BY <1>0, <1>5
      <4>2. end <= Len(data) + 1
        OBVIOUS
      <4>3. /\ ReadRecord(data, end, read[k - 1]).records = read[k - 1].records
            /\ ~ReadRecord(data, end, read[k - 1]).more
        BY <3>2, <4>1, <4>2, OverStays
      <4> QED
        BY <1>5, <3>2, <4>1, <4>3 DEF Over
    <3> QED
      BY <2>2, <3>1, <3>2
  <2> HIDE DEF P
  <2>3. \A k \in 0..n : k \in P
    BY <1>1, <2>1, <2>2, RoundByRound, Zenon
  <2>4. n \in P
    BY <1>5, <2>3
  <2> QED
    BY <1>4, <2>4 DEF P
<1>7. ASSUME end = 1 + p + size[Len(recs)] PROVE read[n].records = InOrder(recs)
  <2> DEFINE Done(k) == ~read[k].more /\ read[k].records = InOrder(recs)
             P == {k \in 0..n : Step(k) \/ Done(k)}
  <2>1. 0 \in P
    BY <1>5
  <2>2. ASSUME NEW k \in 1..n, k - 1 \in P PROVE k \in P
    <3>0. read[k - 1] \in Reading /\ read[k] = ReadRecord(data, end, read[k - 1])
      BY <1>0, <1>5
    <3>1. CASE Step(k - 1) /\ k - 1 # Len(recs)
      <4>1. k \in 0..Len(recs) /\ Len(recs) \in 0..Len(recs)
        <5>1. k - 1 <= Len(recs)
          BY <3>1 DEF InStep
        <5>2. \A m \in Nat : \A i \in 1..n : i - 1 <= m /\ i - 1 # m => i \in 0..m /\ m \in 0..m
          BY <1>1
        <5> QED
          BY <1>1, <3>1, <5>1, <5>2, Zenon
      <4>2. size[k] <= size[Len(recs)] /\ size[k] \in Nat /\ size[Len(recs)] \in Nat
        BY <1>2, <4>1
      <4>3. 1 + p + size[k] <= end
        <5>1. \A x, y, z \in Nat : y <= z => 1 + x + y <= 1 + x + z
          OBVIOUS
        <5>2. 1 + p + size[k] <= 1 + p + size[Len(recs)]
          BY <1>1, <4>2, <5>1, Zenon
        <5> QED
          BY <1>7, <5>2, Zenon
      <4> QED
        BY <1>3, <1>5, <3>1, <4>3
    <3>2. CASE Step(k - 1) /\ k - 1 = Len(recs)
      <4> DEFINE s == read[k - 1]
      <4>1. /\ s.o = 1 + p + size[Len(recs)] /\ s.records = SubSeq(recs, 1, Len(recs))
            /\ Ascending(recs, Len(recs))
        BY <3>2 DEF InStep, p
      <4>2. OrderedUpTo(recs) = Len(recs)
        <5>1. Len(recs) \in 0..Len(recs)
          BY <1>1
        <5>2. Len(recs) <= OrderedUpTo(recs) /\ OrderedUpTo(recs) \in 0..Len(recs)
          BY <4>1, <5>1, OrderReaches, OrderIs
        <5> QED
          BY <1>1, <5>2
      <4>3. s.records = InOrder(recs)
        BY <4>1, <4>2 DEF InOrder
      <4>4. ~decode_bigsize(data, s.o, end).valid
        <5>1. s.o >= end
          BY <1>7, <4>1
        <5> QED
          BY <5>1 DEF decode_bigsize, Invalid
      <4>5. ReadRecord(data, end, s) = Stopped(s)
        BY <4>4, Zenon DEF ReadRecord, Stopped
      <4>6. ~read[k].more /\ read[k].records = s.records
        BY <3>0, <4>5 DEF Stopped, Reading
      <4> QED
        BY <1>5, <4>3, <4>6
    <3>3. CASE Done(k - 1)
      <4>1. /\ ReadRecord(data, end, read[k - 1]).records = read[k - 1].records
            /\ ~ReadRecord(data, end, read[k - 1]).more
        <5>1. end <= Len(data) + 1 /\ Over(read[k - 1], data)
          BY <3>3 DEF Over
        <5> QED
          BY <3>0, <5>1, OverStays
      <4> QED
        BY <1>5, <3>0, <3>3, <4>1
    <3> QED
      BY <2>2, <3>1, <3>2, <3>3
  <2> HIDE DEF P
  <2>3. \A k \in 0..n : k \in P
    BY <1>1, <2>1, <2>2, RoundByRound, Zenon
  <2>4. n \in P
    BY <1>5, <2>3
  <2> QED
    BY <1>4, <2>4 DEF P
<1> QED
  BY <1>6, <1>7 DEF p

\* How a stream is read back.
ReadBack(recs, got) ==
    IF AllWritten(recs) THEN got = InOrder(recs) ELSE ReadBackInPart(recs, got)

\* Nothing is read where nothing is in order.
LEMMA NothingRead ==
    ASSUME NEW recs \in Seq(Record), AllWritten(recs) => Len(recs) = 0
    PROVE  ReadBack(recs, <<>>)
<1>1. CASE AllWritten(recs)
  <2>1. Len(InOrder(recs)) = OrderedUpTo(recs) /\ OrderedUpTo(recs) \in 0..Len(recs)
    BY InOrderIs, OrderIs
  <2>2. OrderedUpTo(recs) = 0
    BY <1>1, <2>1
  <2>3. InOrder(recs) = SubSeq(recs, 1, 0)
    BY <2>2 DEF InOrder
  <2>4. SubSeq(recs, 1, 0) = <<>>
    <3>1. 0 \in 0..Len(recs)
      OBVIOUS
    <3> QED
      BY <3>1, FirstRecords
  <2> QED
    BY <1>1, <2>3, <2>4, Zenon DEF ReadBack
<1>2. CASE ~AllWritten(recs)
  <2>1. Ascending(recs, 0) /\ 0 \in 0..Len(recs)
    <3>1. ~(\E i : i \in 2..0)
      OBVIOUS
    <3> QED
      BY <3>1 DEF Ascending
  <2>2. <<>> \in Seq(Record) /\ Len(<<>>) = 0 /\ ~(\E i : i \in 1..0)
    OBVIOUS
  <2>3. ReadBackInPart(recs, <<>>)
    <3> DEFINE none == <<>>
    <3>1. none \in Seq(Record) /\ Len(none) = 0
      BY <2>2
    <3> HIDE DEF none
    <3>2. ReadBackInPart(recs, none)
      BY <2>1, <2>2, <3>1, PartOfOrder
    <3> QED
      BY <3>2 DEF none
  <2> QED
    BY <1>2, <2>3, Zenon DEF ReadBack
<1> QED
  BY <1>1, <1>2

\* What the serializer makes is read back.
LEMMA SerializedReadsBack ==
    ASSUME NEW recs \in Seq(Record), Sized(recs)
    PROVE  ReadBack(recs, parse_tlv_hop_payload(serialize_tlv_hop_payload(recs)))
<1> DEFINE n == HOP_PAYLOADS_SIZE
           total == StreamSize(recs)
           prefix == encode_bigsize(total)
           p == Len(prefix)
           data == serialize_tlv_hop_payload(recs)
           d == decode_bigsize(data, 1, Len(data) + 1)
           end == StreamEnd(data, d)
           first == [o |-> 1 + d.bytes_read, more |-> TRUE, records |-> <<>>]
           read == CHOOSE f : Reads(f, data, end, first, Len(data))
           got == parse_tlv_hop_payload(data)
<1>1. PICK size : SizesAdd(size, recs) /\ total = size[Len(recs)]
  BY SizesAre
<1>2. total \in Nat /\ Len(recs) \in Nat
  BY StreamSizeType
<1>3. data \in Bytes /\ Len(data) = n /\ n \in Nat /\ n >= 18 /\ n < EightDigits
  <2>1. data \in Bytes /\ Len(data) = n /\ n \in Nat
    BY SerializeType, OnionAssumption
  <2>2. n >= 18 /\ n + 3 * Growth < EightDigits /\ Growth \in Nat /\ EightDigits \in Nat
    BY SizesAssumption, RecordsAssumption, CountOrder
  <2> HIDE DEF data
  <2> QED
    BY <2>1, <2>2
<1>4. prefix \in Bytes /\ p \in Nat \ {0} /\ p <= 9
  <2> HIDE DEF total
  <2> QED
    BY <1>2, BigSizeType, BigSizeLength
<1>5. Stands(prefix, data, 1) /\ AllLie(data, recs, prefix, size)
  <2>1. /\ Stands(prefix, data, 1)
        /\ \A k \in 1..Len(recs) :
               Len(prefix) + size[k - 1] <= HOP_PAYLOADS_SIZE =>
                   LiesRecord(data, Len(prefix) + size[k - 1] + 1, recs[k])
    BY <1>1, SerializedLies, Zenon
  <2> QED
    BY <2>1, Zenon DEF AllLie
<1>6. got = IF ~d.valid \/ d.value = 0 THEN <<>> ELSE read[Len(data)].records
  BY Zenon DEF parse_tlv_hop_payload, Reads
<1> HIDE DEF data, total, got
<1>7. /\ d.valid => d.bytes_read = p /\ 1 + p <= n + 1
      /\ d.valid /\ total < EightDigits => d.value = total
      /\ total < EightDigits => d.valid
  <2>1. 1 \in Nat \ {0} /\ Len(data) + 1 \in Nat /\ Len(data) + 1 <= Len(data) + 1
    BY <1>3
  <2>2. /\ d.valid =>
              /\ d.bytes_read = Len(encode_bigsize(total))
              /\ 1 + Len(encode_bigsize(total)) <= Len(data) + 1
              /\ total < EightDigits => d.value = total
        /\ total < EightDigits /\ 1 + Len(encode_bigsize(total)) <= Len(data) + 1 => d.valid
    BY <1>2, <1>3, <1>5, <2>1, BigSizeReadBack, Zenon
  <2>3. 1 + p <= Len(data) + 1
    <3> HIDE DEF p
    <3> QED
      BY <1>3, <1>4
  <2> HIDE DEF d
  <2> QED
    BY <1>3, <2>2, <2>3, Zenon
<1>8. AllWritten(recs) <=> p + total <= n
  BY DEF AllWritten, total
<1> HIDE DEF prefix, p
<1>9. AllWritten(recs) => total < EightDigits
  <2>1. EightDigits \in Nat
    BY CountOrder
  <2> QED
    BY <1>2, <1>3, <1>4, <1>8, <2>1
<1>10. d.bytes_read \in Nat /\ d.value \in Nat
  <2>1. 1 \in Nat \ {0} /\ Len(data) + 1 \in Nat /\ Len(data) + 1 <= Len(data) + 1
    BY <1>3
  <2> QED
    BY <1>3, <2>1, DecodeBigSizeType DEF ReadsWithin
<1> HIDE DEF d
<1>11. CASE ~d.valid \/ d.value = 0
  <2>1. got = <<>>
    BY <1>6, <1>11
  <2>2. AllWritten(recs) => Len(recs) = 0
    <3>1. ASSUME AllWritten(recs) PROVE Len(recs) = 0
      <4>1. total = 0
        BY <1>7, <1>9, <1>11, <3>1
      <4>2. Len(recs) \in 0..Len(recs)
        BY <1>2
      <4>3. 2 * Len(recs) <= size[Len(recs)]
        BY <1>1, <4>2, SizesGrow
      <4> QED
        BY <1>1, <1>2, <4>1, <4>3
    <3> QED
      BY <3>1
  <2>3. ReadBack(recs, <<>>)
    BY <2>2, NothingRead
  <2> QED
    BY <2>1, <2>3 DEF got, data
<1>12. CASE ~(~d.valid \/ d.value = 0)
  <2>1. end \in Nat /\ end <= Len(data) + 1
    BY <1>3, <1>10, StreamEndType
  <2>2. AllWritten(recs) => end = 1 + p + total
    <3>1. ASSUME AllWritten(recs) PROVE end = 1 + p + total
      <4>1. d.bytes_read = p /\ d.value = total /\ p + total <= n
        BY <1>7, <1>8, <1>9, <1>12, <3>1
      <4>2. Word(d.bytes_read + d.value) = p + total
        <5>1. \A x, m \in Nat : x < m => (x % m) = x
          OBVIOUS
        <5>2. p + total \in Nat /\ EightDigits \in Nat /\ p + total < EightDigits
          BY <1>2, <1>3, <1>4, <4>1, CountOrder
        <5> QED
          BY <4>1, <5>1, <5>2, Zenon DEF Word
      <4>3. end = IF p + total > Len(data) THEN Len(data) + 1 ELSE (p + total) + 1
        BY <4>2, Zenon DEF StreamEnd
      <4> HIDE DEF end
      <4> QED
        BY <1>2, <1>3, <1>4, <4>1, <4>3
    <3> QED
      BY <3>1
  <2> HIDE DEF end
  <2>3. first \in Reading
    <3>1. 1 + d.bytes_read \in Nat \ {0}
      BY <1>10
    <3> QED
      BY <3>1 DEF Reading
  <2>4. first.o = 1 + p /\ first.more /\ first.records = <<>>
    BY <1>7, <1>12
  <2> HIDE DEF first
  <2>5. Reads(read, data, end, first, Len(data))
    <3>1. \E f : Reads(f, data, end, first, Len(data))
      BY <1>3, <2>1, <2>3, ReadsExist
    <3> QED
      BY <3>1, Zenon
  <2> HIDE DEF read
  <2>6. /\ read[0] = first
        /\ \A k \in 1..n : read[k] = ReadRecord(data, end, read[k - 1])
        /\ \A k \in 0..n : read[k] \in Reading
    BY <1>3, <2>1, <2>3, <2>5, ReadsValues
  <2>7. InStep(read[0], recs, prefix, size, 0)
    <3>1. 1 + Len(prefix) + size[0] = 1 + p /\ size[0] = 0
      <4>1. size[0] = 0
        BY <1>1 DEF SizesAdd
      <4>2. 1 + p + 0 = 1 + p
        BY <1>4
      <4> QED
        BY <4>1, <4>2 DEF p
    <3>2. 1 + p <= n + 1 /\ 0 <= Len(recs)
      BY <1>2, <1>7, <1>12
    <3>3. Ascending(recs, 0)
      <4>1. ~(\E i : i \in 2..0)
        OBVIOUS
      <4> QED
        BY <4>1 DEF Ascending
    <3>4. SubSeq(recs, 1, 0) = <<>>
      <4>1. 0 \in 0..Len(recs)
        OBVIOUS
      <4> QED
        BY <4>1, FirstRecords
    <3> QED
      BY <2>4, <2>6, <3>1, <3>2, <3>3, <3>4, Zenon DEF InStep
  <2>8. got = read[n].records
    BY <1>3, <1>6, <1>12
  <2>9. /\ p + total > n => ReadBackInPart(recs, read[n].records)
        /\ end = 1 + p + total => read[n].records = InOrder(recs)
    <3>1. end <= n + 1 /\ Len(prefix) <= 9
      BY <1>3, <1>4, <2>1 DEF p
    <3>2. /\ Len(prefix) + size[Len(recs)] > n => ReadBackInPart(recs, read[n].records)
          /\ end = 1 + Len(prefix) + size[Len(recs)] => read[n].records = InOrder(recs)
      <4>1. /\ SizesAdd(size, recs) /\ prefix \in Bytes /\ data \in Bytes
            /\ Len(data) = HOP_PAYLOADS_SIZE /\ AllLie(data, recs, prefix, size)
            /\ end \in Nat /\ end <= HOP_PAYLOADS_SIZE + 1
        BY <1>1, <1>3, <1>4, <1>5, <2>1, <3>1, Zenon
      <4> QED
        <5>1. Loop(read, data, end)
          BY <2>6, Zenon DEF Loop
        <5> QED
          BY <2>7, <3>1, <4>1, <5>1, LoopReads
    <3> QED
      BY <1>1, <3>2 DEF p
  <2>10. ~AllWritten(recs) => p + total > n
    BY <1>2, <1>3, <1>4, <1>8
  <2>11. ReadBack(recs, got)
    BY <2>2, <2>8, <2>9, <2>10, Zenon DEF ReadBack
  <2> QED
    BY <2>11 DEF got, data
<1> QED
  BY <1>11, <1>12

(***************************************************************************)
(* Values stay what size_t can count                                       *)
(***************************************************************************)

\* Records whose value is a size_t, and will be when it has grown by n bytes.
Fit(n) == {r \in Record : r.type < EightDigits /\ Len(r.value) + n < EightDigits}

LEMMA FitIs ==
    ASSUME NEW n \in Nat, NEW t \in Nat, t < EightDigits, NEW v \in Bytes, Len(v) + n < EightDigits
    PROVE  [type |-> t, value |-> v] \in Fit(n)
<1>1. [type |-> t, value |-> v] \in Record
  BY DEF Record
<1> QED
  BY <1>1 DEF Fit

\* Records of a sequence that fit are in a sequence of records that fit, with
\* less room too.
LEMMA AllFit ==
    ASSUME NEW n \in Nat, NEW recs \in Seq(Record)
    PROVE  recs \in Seq(Fit(n)) <=> \A i \in 1..Len(recs) : recs[i] \in Fit(n)
OBVIOUS

LEMMA FitLess ==
    ASSUME NEW m \in Nat, NEW n \in Nat, n <= m, NEW recs \in Seq(Fit(m))
    PROVE  recs \in Seq(Fit(n)) /\ recs \in Seq(Record)
<1>1. EightDigits \in Nat
  BY CountOrder
<1>2. ASSUME NEW r \in Fit(m) PROVE r \in Fit(n)
  <2>1. r \in Record /\ r.type < EightDigits /\ Len(r.value) + m < EightDigits
    BY DEF Fit
  <2>2. Len(r.value) \in Nat
    BY <2>1 DEF Record, Bytes
  <2>3. Len(r.value) + n < EightDigits
    BY <1>1, <2>1, <2>2
  <2> QED
    BY <2>1, <2>3 DEF Fit
<1>3. Fit(m) \subseteq Fit(n) /\ Fit(m) \subseteq Record
  BY <1>2 DEF Fit
<1> QED
  BY <1>3

\* What is read is a 64-bit word.
LEMMA BigSizeWord ==
    ASSUME NEW data \in Bytes, NEW o \in Nat \ {0}, NEW end \in Nat, end <= Len(data) + 1,
           decode_bigsize(data, o, end).valid
    PROVE  decode_bigsize(data, o, end).value < EightDigits
<1>1. ~(o >= end)
  BY DEF decode_bigsize, Invalid
<1> DEFINE bytes == SubSeq(data, o, end - 1)
           width == IF bytes[1] < Escape THEN 0 ELSE Width(bytes[1])
           front == SubSeq(bytes, 1, 1 + width)
<1>2. bytes \in Seq(Byte) /\ Len(bytes) = end - o /\ end - o \in Nat \ {0}
  BY <1>1 DEF Bytes
<1>3. bytes[1] \in Byte
  BY <1>2
<1>4. width \in {0, 2, 4, 8}
  BY <1>3, WidthType, Zenon
<1> HIDE DEF bytes, width
<1>5. decode_bigsize(data, o, end) =
          IF Len(bytes) < 1 + width THEN Invalid ELSE Decode(SwapDigits(front), 1)
  BY <1>1, Zenon DEF decode_bigsize, bytes, width
<1>6. ~(Len(bytes) < 1 + width)
  BY <1>5 DEF Invalid
<1>7. front \in Bytes /\ front # <<>>
  BY <1>2, <1>4, <1>6 DEF Bytes
<1> HIDE DEF front
<1> DEFINE b == SwapDigits(front)
<1>8. b \in Bytes
  BY <1>7, SwapDigitsIs
<1>9. decode_bigsize(data, o, end) = Decode(b, 1)
  BY <1>5, <1>6
<1> HIDE DEF b
<1>10. Decode(b, 1).valid /\ 1 \in Nat \ {0}
  BY <1>9
<1>11. Decode(b, 1).value < EightDigits
  BY <1>8, <1>10, DecodeCanonical, Zenon
<1> QED
  BY <1>9, <1>11

\* What is read of a payload fits, however the mutations let it grow.
LEMMA ReadRecordFits ==
    ASSUME NEW data \in Bytes, Len(data) = HOP_PAYLOADS_SIZE,
           NEW end \in Nat, end <= HOP_PAYLOADS_SIZE + 1, NEW s \in Reading,
           s.records \in Seq(Fit(3 * Growth))
    PROVE  ReadRecord(data, end, s).records \in Seq(Fit(3 * Growth))
<1> DEFINE type  == decode_bigsize(data, s.o, end)
           o     == s.o + type.bytes_read
           len   == decode_bigsize(data, o, end)
           start == o + len.bytes_read
           value == SubSeq(data, start, start + len.value - 1)
           record == [type |-> type.value, value |-> value]
           stops == \/ ~s.more \/ ~type.valid
                    \/ OutOfOrder(type.value, s.records)
                    \/ ~len.valid
                    \/ len.value > end - start
           goes  == [o       |-> start + len.value,
                     more    |-> TRUE,
                     records |-> Append(s.records, record)]
           n == 3 * Growth
<1>1. ReadRecord(data, end, s) = IF stops THEN [s EXCEPT !.more = FALSE] ELSE goes
  BY DEF ReadRecord
<1>2. s.o \in Nat \ {0} /\ end <= Len(data) + 1
  BY DEF Reading
<1>3. /\ HOP_PAYLOADS_SIZE \in Nat /\ n \in Nat /\ EightDigits \in Nat
      /\ HOP_PAYLOADS_SIZE + n < EightDigits
  BY OnionAssumption, RecordsAssumption, SizesAssumption, CountOrder
<1> HIDE DEF n
<1>4. ReadsWithin(type, s.o, end) /\ (type.valid => type.value < EightDigits)
  BY <1>2, DecodeBigSizeType, BigSizeWord
<1> HIDE DEF type
<1>5. o \in Nat \ {0}
  BY <1>2, <1>4 DEF ReadsWithin
<1> HIDE DEF o
<1>6. ReadsWithin(len, o, end)
  BY <1>2, <1>5, DecodeBigSizeType
<1> HIDE DEF len
<1>7. start \in Nat \ {0}
  BY <1>5, <1>6 DEF ReadsWithin
<1>8. CASE stops
  <2>1. [s EXCEPT !.more = FALSE].records = s.records
    BY DEF Reading
  <2> HIDE DEF stops, goes
  <2> QED
    BY <1>1, <1>8, <2>1 DEF n
<1>9. CASE ~stops
  <2>1. type.valid /\ len.valid /\ ~(len.value > end - start) /\ len.value \in Nat
    BY <1>6, <1>9 DEF ReadsWithin
  <2> HIDE DEF start
  <2>2. value \in Bytes /\ Len(value) <= HOP_PAYLOADS_SIZE
    <3>1. start + len.value - 1 <= Len(data) /\ len.value <= HOP_PAYLOADS_SIZE
      BY <1>2, <1>3, <1>7, <2>1 DEF Bytes
    <3>2. value \in Seq(Byte) /\ Len(value) = len.value
      BY <1>7, <2>1, <3>1 DEF Bytes
    <3> QED
      BY <3>1, <3>2 DEF Bytes
  <2> HIDE DEF value
  <2>3. Len(value) + n < EightDigits
    <3>1. Len(value) \in Nat
      BY <2>2 DEF Bytes
    <3> QED
      BY <1>3, <2>2, <3>1
  <2>4. type.value \in Nat /\ type.value < EightDigits
    BY <1>4, <2>1 DEF ReadsWithin
  <2>5. record \in Fit(n)
    BY <1>3, <2>2, <2>3, <2>4, FitIs
  <2> HIDE DEF record
  <2>6. Append(s.records, record) \in Seq(Fit(n))
    <3>1. s.records \in Seq(Fit(n))
      BY DEF n
    <3> QED
      BY <2>5, <3>1, AppendIs, Zenon DEF Appended
  <2>7. goes.records \in Seq(Fit(n))
    BY <2>6
  <2> HIDE DEF goes, stops
  <2> QED
    BY <1>1, <1>9, <2>7 DEF n
<1> QED
  BY <1>8, <1>9

LEMMA ParseFits ==
    ASSUME NEW data \in Bytes, Len(data) = HOP_PAYLOADS_SIZE
    PROVE  parse_tlv_hop_payload(data) \in Seq(Fit(3 * Growth))
<1> DEFINE prefix == decode_bigsize(data, 1, Len(data) + 1)
           end    == StreamEnd(data, prefix)
           first  == [o |-> 1 + prefix.bytes_read, more |-> TRUE, records |-> <<>>]
           n      == HOP_PAYLOADS_SIZE
           read   == CHOOSE f : Reads(f, data, end, first, Len(data))
           S      == Seq(Fit(3 * Growth))
<1>1. Len(data) = n /\ n \in Nat /\ Len(data) + 1 \in Nat /\ 1 \in Nat \ {0}
  BY OnionAssumption
<1>2. prefix.bytes_read \in Nat /\ prefix.value \in Nat
  BY <1>1, DecodeBigSizeType DEF ReadsWithin
<1>3. parse_tlv_hop_payload(data) =
          IF ~prefix.valid \/ prefix.value = 0 THEN <<>> ELSE read[Len(data)].records
  BY Zenon DEF parse_tlv_hop_payload, Reads
<1> HIDE DEF prefix
<1>4. end \in Nat /\ end <= Len(data) + 1
  BY <1>2, StreamEndType
<1>5. first \in Reading /\ first.records = <<>>
  BY <1>2 DEF Reading
<1> HIDE DEF end, first
<1>6. Reads(read, data, end, first, Len(data))
  <2>1. \E f : Reads(f, data, end, first, Len(data))
    BY <1>1, <1>4, <1>5, ReadsExist
  <2> QED
    BY <2>1, Zenon
<1> HIDE DEF read
<1>7. /\ read[0] = first
      /\ \A k \in 1..n : read[k] = ReadRecord(data, end, read[k - 1])
      /\ \A k \in 0..n : read[k] \in Reading
  BY <1>1, <1>4, <1>5, <1>6, ReadsValues
<1> DEFINE P == {k \in 0..n : read[k].records \in S}
<1>8. <<>> \in S
  OBVIOUS
<1> HIDE DEF S
<1>9. 0 \in P
  BY <1>1, <1>5, <1>7, <1>8
<1>10. ASSUME NEW k \in 1..n, k - 1 \in P PROVE k \in P
  <2>1. k \in 0..n /\ k - 1 \in 0..n
    BY <1>1
  <2>2. read[k - 1] \in Reading /\ read[k - 1].records \in S
    BY <1>7, <1>10, <2>1
  <2>3. end <= HOP_PAYLOADS_SIZE + 1
    BY <1>1, <1>4
  <2>4. ReadRecord(data, end, read[k - 1]).records \in S
    BY <1>1, <1>4, <2>2, <2>3, ReadRecordFits, Zenon DEF S
  <2> QED
    BY <1>7, <2>1, <2>4
<1> HIDE DEF P
<1>11. \A k \in 0..n : k \in P
  BY <1>1, <1>9, <1>10, RoundByRound, Zenon
<1>12. read[Len(data)].records \in S
  <2>1. n \in 0..n
    BY <1>1
  <2>2. n \in P
    BY <1>11, <2>1
  <2> QED
    BY <1>1, <2>2 DEF P
<1> QED
  BY <1>3, <1>8, <1>12, Zenon DEF S

\* What is kept was there.
LEMMA UniqueFits ==
    ASSUME NEW recs \in Seq(Fit(0))
    PROVE  Unique(recs) \in Seq(Fit(0))
<1> DEFINE n == Len(recs)
           S == Seq(Fit(0))
           f == CHOOSE g : Keeps(g, recs, n)
           P == {k \in 0..n : f[k] \in S}
<1>1. recs \in Seq(Record) /\ n \in Nat /\ \A k \in 1..n : recs[k] \in Fit(0)
  <2>1. 0 \in Nat /\ 0 <= 0
    OBVIOUS
  <2>2. recs \in Seq(Record)
    BY <2>1, FitLess, Zenon
  <2> QED
    BY <2>2
<1>2. Keeps(f, recs, n)
  <2>1. \E g : Keeps(g, recs, n)
    BY <1>1, KeepsExist
  <2> QED
    BY <2>1, Zenon
<1>3. Unique(recs) = f[n]
  BY Zenon DEF Unique, Keeps
<1> HIDE DEF f, n
<1>4. \A k \in 0..n : f[k] = IF k = 0 THEN <<>> ELSE Keep(f[k - 1], recs[k])
  BY <1>2, Zenon DEF Keeps
<1>5. f[0] = <<>> /\ \A k \in 1..n : f[k] = Keep(f[k - 1], recs[k])
  <2>1. 0 \in 0..n /\ \A k \in 1..n : k \in 0..n /\ k # 0
    BY <1>1
  <2> QED
    BY <1>4, <2>1, Zenon
<1>6. <<>> \in S
  OBVIOUS
<1>7. 0 \in P
  <2>1. 0 \in 0..n
    BY <1>1
  <2>2. f[0] \in S
    BY <1>5, <1>6, Zenon
  <2> QED
    BY <2>1, <2>2
<1>8. ASSUME NEW k \in 1..n, k - 1 \in P PROVE k \in P
  <2>1. f[k - 1] \in S /\ recs[k] \in Fit(0) /\ k \in 0..n
    BY <1>1, <1>8
  <2>2. Append(f[k - 1], recs[k]) \in S
    BY <2>1, AppendIs, Zenon DEF Appended
  <2>3. Keep(f[k - 1], recs[k]) \in S
    BY <2>1, <2>2, Zenon DEF Keep
  <2> QED
    BY <1>5, <2>1, <2>3
<1> HIDE DEF P
<1>9. n \in P
  <2>1. \A k \in 0..n : k \in P
    BY <1>1, <1>7, <1>8, RoundByRound, Zenon
  <2> QED
    BY <1>1, <2>1
<1> QED
  BY <1>3, <1>9 DEF P

\* A value that is drawn has room to grow.
LEMMA DrawsFit ==
    ASSUME NEW n \in Nat, n <= 3 * Growth
    PROVE  /\ \A t : \A v \in ValuesFor(t) : v \in Bytes /\ Len(v) + n < EightDigits
           /\ \A t \in COMMON_TLV_TYPES \cup RandomTypes : t \in Nat /\ t < EightDigits
<1>1. EightDigits \in Nat /\ Growth \in Nat
  BY CountOrder, RecordsAssumption
<1>2. ASSUME NEW t, NEW v \in ValuesFor(t) PROVE v \in Bytes /\ Len(v) + n < EightDigits
  <2>1. v \in Bytes
    BY DrawsAre
  <2>2. HasSize(v)
    BY SizesAssumption, Zenon DEF ValuesFor
  <2>3. Len(v) + 3 * Growth < EightDigits /\ Len(v) \in Nat
    BY <2>1, <2>2 DEF HasSize, Bytes
  <2>4. Len(v) + n < EightDigits
    BY <1>1, <2>3
  <2> QED
    BY <2>1, <2>4
<1>3. ASSUME NEW t \in COMMON_TLV_TYPES \cup RandomTypes PROVE t \in Nat /\ t < EightDigits
  <2>1. t \in 0..(EightDigits - 1)
    BY RecordsAssumption
  <2> QED
    BY <1>1, <2>1
<1> QED
  BY <1>2, <1>3

\* Every mutation takes up the room for one mutation.
LEMMA MutationsFit ==
    ASSUME NEW n \in Nat, n + Growth <= 3 * Growth, NEW recs \in Seq(Fit(n + Growth))
    PROVE  /\ add_tlv_record(recs) \subseteq Seq(Fit(n))
           /\ mutate_tlv_value(recs) \subseteq Seq(Fit(n))
           /\ remove_tlv_record(recs) \subseteq Seq(Fit(n))
           /\ mutate_tlv_type(recs) \subseteq Seq(Fit(n))
<1>0. EightDigits \in Nat /\ EightDigits > 0 /\ Growth \in Nat /\ n <= 3 * Growth
  <2>1. EightDigits \in Nat /\ EightDigits > 0 /\ Growth \in Nat
    BY CountOrder, RecordsAssumption
  <2> QED
    BY <2>1
<1>1. /\ recs \in Seq(Fit(n)) /\ recs \in Seq(Record)
      /\ Len(recs) \in Nat /\ DOMAIN recs = 1..Len(recs)
      /\ \A i \in 1..Len(recs) : recs[i] \in Fit(n) /\ recs[i] \in Fit(n + Growth)
  <2>1. n + Growth \in Nat /\ n <= n + Growth
    BY <1>0
  <2>2. recs \in Seq(Fit(n)) /\ recs \in Seq(Record)
    BY <2>1, FitLess
  <2> QED
    BY <2>2
<1>2. ASSUME NEW r \in add_tlv_record(recs) PROVE r \in Seq(Fit(n))
  <2>1. PICK t \in COMMON_TLV_TYPES \cup RandomTypes :
            \E v \in ValuesFor(t) : r = Inserted(recs, [type |-> t, value |-> v])
    BY <1>2 DEF add_tlv_record
  <2>2. PICK v \in ValuesFor(t) : r = Inserted(recs, [type |-> t, value |-> v])
    BY <2>1
  <2> DEFINE record == [type |-> t, value |-> v]
             at == Place(recs, t)
             u == InsertAt(recs, at, record)
  <2>3. t \in Nat /\ t < EightDigits /\ v \in Bytes /\ Len(v) + n < EightDigits
    BY <1>0, DrawsFit
  <2>4. record \in Fit(n) /\ record.type = t
    BY <2>3, FitIs
  <2>5. at \in 1..(Len(recs) + 1)
    BY <1>1, <2>3, PlaceIs
  <2> HIDE DEF record, at
  <2>6. record \in Record
    BY <2>4 DEF Fit
  <2>7. /\ u \in Seq(Record) /\ Len(u) = Len(recs) + 1
        /\ \A i \in 1..(at - 1) : u[i] = recs[i]
        /\ u[at] = record
        /\ \A i \in (at + 1)..(Len(recs) + 1) : u[i] = recs[i - 1]
    BY <1>1, <2>5, <2>6, InsertIs
  <2>8. r = u
    BY <2>2, <2>4 DEF Inserted, record, at
  <2> HIDE DEF u
  <2>9. ASSUME NEW i \in 1..Len(u) PROVE u[i] \in Fit(n)
    <3>1. CASE i < at
      <4>1. i \in 1..(at - 1) /\ i \in 1..Len(recs)
        BY <1>1, <2>5, <2>7, <3>1
      <4> QED
        BY <1>1, <2>7, <4>1
    <3>2. CASE i = at
      BY <2>4, <2>7, <3>2
    <3>3. CASE i > at
      <4>1. i \in (at + 1)..(Len(recs) + 1) /\ i - 1 \in 1..Len(recs)
        BY <1>1, <2>5, <2>7, <3>3
      <4> QED
        BY <1>1, <2>7, <4>1
    <3> QED
      BY <2>5, <2>7, <3>1, <3>2, <3>3
  <2> QED
    BY <2>7, <2>8, <2>9, AllFit
<1>3. ASSUME NEW i \in 1..Len(recs), NEW x \in Fit(n) PROVE [recs EXCEPT ![i] = x] \in Seq(Fit(n))
  BY <1>1
<1>4. ASSUME NEW r \in mutate_tlv_value(recs) PROVE r \in Seq(Fit(n))
  <2>1. PICK i \in DOMAIN recs :
            \E v \in ValuesFor(recs[i].type) \cup Resized(recs[i].value) :
                r = [recs EXCEPT ![i].value = v]
    BY <1>4 DEF mutate_tlv_value
  <2>2. PICK v \in ValuesFor(recs[i].type) \cup Resized(recs[i].value) :
            r = [recs EXCEPT ![i].value = v]
    BY <2>1
  <2>3. i \in 1..Len(recs) /\ recs[i] \in Fit(n + Growth)
    BY <1>1
  <2>4. /\ recs[i] \in Record /\ recs[i].type < EightDigits
        /\ Len(recs[i].value) + (n + Growth) < EightDigits
    BY <2>3, Zenon DEF Fit
  <2>5. v \in Bytes /\ Len(v) + n < EightDigits
    <3>1. CASE v \in ValuesFor(recs[i].type)
      BY <1>0, <3>1, DrawsFit, Zenon
    <3>2. CASE v \in Resized(recs[i].value)
      <4>1. v \in Bytes /\ Len(v) <= Len(recs[i].value) + Growth
        BY <3>2, DrawsAre DEF Resized
      <4>2. Len(v) \in Nat /\ Len(recs[i].value) \in Nat
        BY <2>4, <4>1 DEF Record, Bytes
      <4>3. \A a, b, c, g, e \in Nat : a <= b + g /\ b + (c + g) < e => a + c < e
        OBVIOUS
      <4> QED
        BY <1>0, <2>4, <4>1, <4>2, <4>3, Zenon
    <3> QED
      BY <3>1, <3>2
  <2> DEFINE y == recs[i]
             x == [y EXCEPT !.value = v]
  <2>6. x \in Fit(n)
    <3> HIDE DEF y
    <3>1. y \in Record /\ y.type < EightDigits
      BY <2>4 DEF y
    <3>2. x \in Record /\ x.type = y.type /\ x.value = v
      BY <2>5, <3>1 DEF Record
    <3> HIDE DEF x
    <3> QED
      BY <2>5, <3>1, <3>2 DEF Fit
  <2>7. r = [recs EXCEPT ![i] = x]
    BY <1>1, <2>2
  <2> HIDE DEF x
  <2> QED
    BY <1>3, <2>3, <2>6, <2>7
<1>5. ASSUME NEW r \in remove_tlv_record(recs) PROVE r \in Seq(Fit(n))
  <2>1. ASSUME NEW i \in DOMAIN recs PROVE RemoveAt(recs, i) \in Seq(Fit(n))
    <3>1. i \in 1..Len(recs) /\ Len(recs) \in Nat
      BY <1>1
    <3>2. SubSeq(recs, 1, i - 1) \in Seq(Fit(n)) /\ SubSeq(recs, i + 1, Len(recs)) \in Seq(Fit(n))
      BY <1>1, <3>1
    <3> QED
      BY <3>2, JoinIs, Zenon DEF RemoveAt, Joined
  <2> QED
    BY <1>1, <1>5, <2>1 DEF remove_tlv_record
<1>6. ASSUME NEW r \in mutate_tlv_type(recs) PROVE r \in Seq(Fit(n))
  <2> DEFINE Types(i) == COMMON_TLV_TYPES \cup RandomTypes
                           \cup {Word(recs[i].type + 1), Word(recs[i].type + EightDigits - 1)}
  <2>1. PICK i \in DOMAIN recs : \E t \in Types(i) : r = [recs EXCEPT ![i].type = t]
    BY <1>6 DEF mutate_tlv_type
  <2>2. PICK t \in Types(i) : r = [recs EXCEPT ![i].type = t]
    BY <2>1
  <2>3. i \in 1..Len(recs) /\ recs[i] \in Fit(n)
    BY <1>1
  <2>4. recs[i] \in Record /\ Len(recs[i].value) + n < EightDigits /\ recs[i].type \in Nat
    BY <2>3 DEF Fit, Record
  <2>5. t \in Nat /\ t < EightDigits
    <3>1. recs[i].type + 1 \in Nat /\ recs[i].type + EightDigits - 1 \in Nat
      BY <1>0, <2>4
    <3>2. \A a \in Nat, m \in Nat : m > 0 => (a % m) \in Nat /\ (a % m) < m
      OBVIOUS
    <3>3. \A a \in Nat : Word(a) \in Nat /\ Word(a) < EightDigits
      BY <1>0, <3>2, Zenon DEF Word
    <3>4. \A x \in COMMON_TLV_TYPES \cup RandomTypes : x \in Nat /\ x < EightDigits
      BY <1>0, DrawsFit, Zenon
    <3> QED
      BY <3>1, <3>3, <3>4
  <2> DEFINE y == recs[i]
             x == [y EXCEPT !.type = t]
  <2>6. x \in Fit(n)
    <3> HIDE DEF y
    <3>1. y \in Record /\ Len(y.value) + n < EightDigits
      BY <2>4 DEF y
    <3>2. x \in Record /\ x.type = t /\ x.value = y.value
      BY <2>5, <3>1 DEF Record
    <3> HIDE DEF x
    <3> QED
      BY <2>5, <3>1, <3>2 DEF Fit
  <2>7. r = [recs EXCEPT ![i] = x]
    BY <1>1, <2>2
  <2> HIDE DEF x
  <2> QED
    BY <1>3, <2>3, <2>6, <2>7
<1> QED
  BY <1>2, <1>4, <1>5, <1>6

(***************************************************************************)
(* The calls                                                               *)
(***************************************************************************)

\* The hop payloads have two parts.
HopIs == hop = [under |-> hop.under, plain |-> hop.plain]

\* While a call goes on, they are open with the keys it goes by.
OpensWithItsKeys == phase # "idle" => hop.under = Secret(key, pub)

\* A payload that is being made stays in order, and keeps the two types.
Generating ==
    phase = "generating" => Sorted(records) /\ Has(records, 2) /\ Has(records, 4)

\* The values have room for the mutations that are left.
RecordsFit ==
    phase \in {"mutating", "generating"} => records \in Seq(Fit(left * Growth))

\* Between calls the payload is what was written of the records.
PayloadIsWritten ==
    (phase = "idle" /\ by \in {"parsed", "generated"}) =>
        hop.plain = serialize_tlv_hop_payload(records) /\ records \in Seq(Fit(0))

IInv ==
    /\ PacketIsSealed /\ HopIs /\ OpensWithItsKeys
    /\ Generating /\ GeneratedIsForwarding
    /\ RecordsFit /\ PayloadIsWritten

\* The room for the mutations that are left, and for one less.
LEMMA RoomIs ==
    ASSUME NEW n \in 0..MaxMutations
    PROVE  /\ n * Growth \in Nat /\ n * Growth <= 3 * Growth
           /\ n > 0 => (n - 1) * Growth + Growth = n * Growth
<1>1. n \in {0, 1, 2, 3} /\ Growth \in Nat
  BY OnionAssumption, RecordsAssumption
<1>2. /\ 0 * Growth = 0 /\ 1 * Growth = Growth
      /\ 2 * Growth = Growth + Growth /\ 3 * Growth = Growth + Growth + Growth
  BY <1>1
<1>3. CASE n = 0
  BY <1>1, <1>2, <1>3
<1>4. CASE n = 1
  BY <1>1, <1>2, <1>4
<1>5. CASE n = 2
  BY <1>1, <1>2, <1>5
<1>6. CASE n = 3
  BY <1>1, <1>2, <1>6
<1> QED
  BY <1>1, <1>3, <1>4, <1>5, <1>6

\* The two types, as GeneratedIsForwarding has them.
LEMMA HasTypes ==
    ASSUME NEW recs \in Seq(Record)
    PROVE  Has(recs, 2) /\ Has(recs, 4) <=> {2, 4} \subseteq {recs[i].type : i \in DOMAIN recs}
<1>1. DOMAIN recs = 1..Len(recs)
  OBVIOUS
<1> QED
  BY <1>1, Zenon DEF Has

LEMMA InitInvariant == Init => IInv
<1> SUFFICES ASSUME Init PROVE IInv
  OBVIOUS
<1>1. TypeOK
  <2>1. <<>> \in Seq(Record)
    OBVIOUS
  <2>2. hop.plain \in Plaintexts
    BY DEF Init
  <2> QED
    BY <2>1, <2>2, OnionAssumption DEF Init, TypeOK
<1>2. HopIs
  BY DEF Init, HopIs
<1>3. RecordsFit /\ PayloadIsWritten
  BY DEF Init, RecordsFit, PayloadIsWritten
<1> QED
  BY <1>1, <1>2, <1>3
  DEF Init, IInv, PacketIsSealed, OpensWithItsKeys, Generating, GeneratedIsForwarding

\* A call that ends has sealed what it leaves.
LEMMA CloseKeeps ==
    ASSUME IInv, phase # "idle", NEW plain \in Bytes, Len(plain) = HOP_PAYLOADS_SIZE,
           NEW how \in {"raw", "parsed", "generated"}, Close(plain, how),
           records' \in Seq(Record),
           how # "raw" =>
               plain = serialize_tlv_hop_payload(records') /\ records' \in Seq(Fit(0))
    PROVE  /\ PacketIsSealed' /\ HopIs' /\ OpensWithItsKeys' /\ Generating'
           /\ RecordsFit' /\ PayloadIsWritten'
<1>1. /\ hop' = [hop EXCEPT !.plain = plain]
      /\ hmac' = [under |-> hop.under, over |-> hop']
      /\ by' = how /\ phase' = "idle" /\ left' = 0
      /\ UNCHANGED <<fits, key, pub, calls>>
  BY DEF Close, Sealed
<1>2. TypeOK /\ HopIs /\ hop.under = Secret(key, pub)
  BY DEF IInv, PacketIsSealed, OpensWithItsKeys
<1>3. hop' = [under |-> hop.under, plain |-> plain]
  BY <1>1, <1>2 DEF HopIs
<1>4. hop'.under = hop.under /\ hop'.plain = plain
  BY <1>3
<1>5. 0 \in 0..MaxMutations
  BY OnionAssumption
<1>6. TypeOK'
  BY <1>1, <1>2, <1>4, <1>5 DEF TypeOK
<1>7. HopIs'
  BY <1>3, <1>4 DEF HopIs
<1>8. hop'.under = Secret(key', pub') /\ hmac' = [under |-> hop'.under, over |-> hop']
  BY <1>1, <1>2, <1>4
<1>9. RecordsFit'
  BY <1>1 DEF RecordsFit
<1>10. PayloadIsWritten'
  <2>1. by' \in {"parsed", "generated"} => how # "raw"
    BY <1>1
  <2> QED
    BY <1>4, <2>1 DEF PayloadIsWritten
<1> QED
  BY <1>1, <1>6, <1>7, <1>8, <1>9, <1>10 DEF PacketIsSealed, OpensWithItsKeys, Generating

\* A call that opened the packet and goes on leaves it as it is.
LEMMA GoingOnKeeps ==
    ASSUME IInv, phase # "idle", UNCHANGED <<packet, calls, by>>,
           phase' \in {"mutating", "generating"},
           records' \in Seq(Fit(left' * Growth)), left' \in 0..MaxMutations,
           phase' = "generating" => Sorted(records') /\ Has(records', 2) /\ Has(records', 4)
    PROVE  IInv'
<1>0. records' \in Seq(Record)
  <2>1. left' * Growth \in Nat /\ left' * Growth <= left' * Growth
    BY RoomIs
  <2> QED
    BY <2>1, FitLess
<1>1. TypeOK'
  BY <1>0 DEF IInv, PacketIsSealed, TypeOK, packet
<1>2. HopIs' /\ OpensWithItsKeys'
  BY DEF IInv, HopIs, OpensWithItsKeys, packet
<1>3. PacketIsSealed' /\ Generating' /\ GeneratedIsForwarding'
  BY <1>1 DEF PacketIsSealed, Generating, GeneratedIsForwarding
<1>4. RecordsFit' /\ PayloadIsWritten'
  BY DEF RecordsFit, PayloadIsWritten
<1> QED
  BY <1>2, <1>3, <1>4 DEF IInv

\* Every step keeps the invariant.
LEMMA StepInvariant == IInv /\ [Next]_vars => IInv'
<1> SUFFICES ASSUME IInv, [Next]_vars PROVE IInv'
  OBVIOUS
<1>0. /\ TypeOK /\ HopIs /\ records \in Seq(Record) /\ left \in 0..MaxMutations
      /\ MaxMutations \in Nat
  BY OnionAssumption DEF IInv, PacketIsSealed, TypeOK
<1>11. ASSUME phase \in {"mutating", "generating"}, left > 0, left' = left - 1
       PROVE  /\ left' * Growth \in Nat
              /\ add_tlv_record(records) \subseteq Seq(Fit(left' * Growth))
              /\ mutate_tlv_value(records) \subseteq Seq(Fit(left' * Growth))
              /\ remove_tlv_record(records) \subseteq Seq(Fit(left' * Growth))
              /\ mutate_tlv_type(records) \subseteq Seq(Fit(left' * Growth))
  <2> DEFINE n == left' * Growth
  <2>1. left' \in 0..MaxMutations
    BY <1>0, <1>11
  <2>2. n \in Nat
    BY <2>1, RoomIs
  <2>3. n + Growth = left * Growth /\ left * Growth <= 3 * Growth
    BY <1>0, <1>11, RoomIs
  <2>4. records \in Seq(Fit(left * Growth))
    BY <1>11 DEF IInv, RecordsFit
  <2> HIDE DEF n
  <2>5. n + Growth <= 3 * Growth /\ records \in Seq(Fit(n + Growth))
    BY <2>3, <2>4
  <2> QED
    BY <2>2, <2>5, MutationsFit DEF n
<1>1. CASE Template
  <2>1. PICK k \in Keys, p \in PublicKeys, payload \in Plaintexts : DefaultOnion(k, p, payload)
    BY <1>1 DEF Template
  <2>2. /\ phase = "idle" /\ fits' = TRUE /\ by' = "template"
        /\ UNCHANGED <<phase, records, left, calls>>
    BY <1>1 DEF Template
  <2>3. /\ key' = k /\ pub' = p
        /\ hop' = [under |-> Secret(k, p), plain |-> payload]
        /\ hmac' = [under |-> Secret(k, p), over |-> hop']
    BY <2>1 DEF DefaultOnion, compute_shared_secret
  <2>4. hop'.under = Secret(k, p) /\ hop'.plain = payload
    BY <2>3
  <2>5. payload \in Bytes /\ Len(payload) = HOP_PAYLOADS_SIZE
    BY OnionAssumption
  <2>6. TypeOK'
    BY <1>0, <2>2, <2>3, <2>4, <2>5 DEF TypeOK
  <2>7. HopIs'
    BY <2>3, <2>4 DEF HopIs
  <2>8. PacketIsSealed' /\ OpensWithItsKeys' /\ Generating' /\ GeneratedIsForwarding'
    BY <2>2, <2>3, <2>4, <2>6
    DEF PacketIsSealed, OpensWithItsKeys, Generating, GeneratedIsForwarding
  <2>9. RecordsFit' /\ PayloadIsWritten'
    BY <2>2 DEF RecordsFit, PayloadIsWritten
  <2> QED
    BY <2>7, <2>8, <2>9 DEF IInv
<1>2. CASE NoRoomForTemplate \/ UNCHANGED vars
  <2>1. UNCHANGED vars
    BY <1>2 DEF NoRoomForTemplate
  <2>2. TypeOK'
    BY <1>0, <2>1 DEF TypeOK, vars
  <2>3. HopIs' /\ OpensWithItsKeys' /\ Generating'
    BY <2>1 DEF IInv, HopIs, OpensWithItsKeys, Generating, vars
  <2>4. PacketIsSealed' /\ GeneratedIsForwarding'
    BY <2>1, <2>2 DEF IInv, PacketIsSealed, GeneratedIsForwarding, vars
  <2>5. RecordsFit' /\ PayloadIsWritten'
    BY <2>1 DEF IInv, RecordsFit, PayloadIsWritten, vars
  <2> QED
    BY <2>3, <2>4, <2>5 DEF IInv
<1>3. CASE Open
  <2> DEFINE secret == Secret(key', pub')
  <2>1. /\ phase = "idle" /\ fits
        /\ calls < MaxCalls /\ calls' = calls + 1
        /\ key' \in Keys /\ pub' \in PublicKeys
        /\ UNCHANGED <<fits, hmac, records, left>>
    BY <1>0, <1>3 DEF Open, TypeOK
  <2>2. calls' \in 0..MaxCalls
    BY <1>0, <2>1, OnionAssumption DEF TypeOK
  <2>3. \/ secret = NoSecret /\ by' = "failed" /\ UNCHANGED <<hop, phase>>
        \/ /\ \E plain \in Opened(secret) : hop' = [under |-> secret, plain |-> plain]
           /\ phase' = "opened" /\ UNCHANGED by
    BY <1>3 DEF Open, compute_shared_secret
  <2>4. CASE secret = NoSecret /\ by' = "failed" /\ UNCHANGED <<hop, phase>>
    <3>1. TypeOK'
      BY <1>0, <2>1, <2>2, <2>4 DEF TypeOK
    <3>2. HopIs'
      BY <1>0, <2>4 DEF HopIs
    <3>3. PacketIsSealed' /\ OpensWithItsKeys' /\ Generating' /\ GeneratedIsForwarding'
      BY <2>1, <2>4, <3>1
      DEF PacketIsSealed, OpensWithItsKeys, Generating, GeneratedIsForwarding
    <3>4. RecordsFit' /\ PayloadIsWritten'
      BY <2>1, <2>4 DEF RecordsFit, PayloadIsWritten
    <3> QED
      BY <3>2, <3>3, <3>4 DEF IInv
  <2>5. CASE /\ \E plain \in Opened(secret) : hop' = [under |-> secret, plain |-> plain]
             /\ phase' = "opened" /\ UNCHANGED by
    <3>1. PICK plain \in Opened(secret) : hop' = [under |-> secret, plain |-> plain]
      BY <2>5
    <3>2. plain \in Bytes /\ Len(plain) = HOP_PAYLOADS_SIZE
      <4>1. plain = hop.plain \/ plain \in Plaintexts
        BY <3>1 DEF Opened
      <4> QED
        BY <1>0, <4>1, OnionAssumption DEF TypeOK
    <3>3. hop'.under = secret /\ hop'.plain = plain
      BY <3>1
    <3>4. TypeOK'
      BY <1>0, <2>1, <2>2, <2>5, <3>2, <3>3 DEF TypeOK
    <3>5. HopIs'
      BY <3>1, <3>3 DEF HopIs
    <3>6. PacketIsSealed' /\ OpensWithItsKeys' /\ Generating' /\ GeneratedIsForwarding'
      BY <2>5, <3>3, <3>4
      DEF PacketIsSealed, OpensWithItsKeys, Generating, GeneratedIsForwarding
    <3>7. RecordsFit' /\ PayloadIsWritten'
      BY <2>5 DEF RecordsFit, PayloadIsWritten
    <3> QED
      BY <3>5, <3>6, <3>7 DEF IInv
  <2> QED
    BY <2>3, <2>4, <2>5
<1>4. CASE MutateRaw
  <2>1. PICK plain \in Plaintexts : Close(plain, "raw")
    BY <1>4 DEF MutateRaw
  <2>2. phase = "opened" /\ records' = records
    BY <1>4 DEF MutateRaw
  <2>3. plain \in Bytes /\ Len(plain) = HOP_PAYLOADS_SIZE
    BY OnionAssumption
  <2>4. /\ PacketIsSealed' /\ HopIs' /\ OpensWithItsKeys' /\ Generating'
        /\ RecordsFit' /\ PayloadIsWritten'
    BY <1>0, <2>1, <2>2, <2>3, CloseKeeps
  <2>5. GeneratedIsForwarding'
    BY <2>1 DEF Close, GeneratedIsForwarding
  <2> QED
    BY <2>4, <2>5 DEF IInv
<1>5. CASE BeginMutations
  <2>1. /\ phase = "opened" /\ phase' = "mutating"
        /\ records' = parse_tlv_hop_payload(hop.plain)
        /\ left' \in 1..MaxMutations
        /\ UNCHANGED <<packet, calls, by>>
    BY <1>5 DEF BeginMutations
  <2>2. hop.plain \in Bytes /\ Len(hop.plain) = HOP_PAYLOADS_SIZE
    BY <1>0 DEF TypeOK
  <2>4. left' \in 0..MaxMutations
    BY <1>0, <2>1
  <2>3. records' \in Seq(Fit(left' * Growth))
    <3>1. records' \in Seq(Fit(3 * Growth))
      BY <2>1, <2>2, ParseFits
    <3>2. /\ left' * Growth \in Nat /\ left' * Growth <= 3 * Growth
      BY <2>4, RoomIs
    <3>3. 3 * Growth \in Nat
      BY RecordsAssumption
    <3> QED
      BY <3>1, <3>2, <3>3, FitLess
  <2> QED
    BY <2>1, <2>3, <2>4, GoingOnKeeps
<1>6. CASE MutateOnce
  <2>1. /\ phase = "mutating" /\ left > 0
        /\ records' \in mutate_tlv_value(records) \cup add_tlv_record(records)
                          \cup remove_tlv_record(records) \cup mutate_tlv_type(records)
        /\ left' = left - 1
        /\ UNCHANGED <<packet, phase, calls, by>>
    BY <1>6 DEF MutateOnce
  <2>2. left' \in 0..MaxMutations
    BY <1>0, <2>1
  <2>3. records' \in Seq(Fit(left' * Growth))
    BY <1>0, <1>11, <2>1, <2>2
  <2> QED
    BY <2>1, <2>2, <2>3, GoingOnKeeps
<1>7. CASE BeginGenerated
  <2>1. PICK amt \in ValuesFor(2), cltv \in ValuesFor(4) :
            records' = <<[type |-> 2, value |-> amt], [type |-> 4, value |-> cltv]>>
    BY <1>7 DEF BeginGenerated
  <2>2. phase = "opened" /\ left' \in 0..MaxMutations /\ phase' = "generating"
        /\ UNCHANGED <<packet, calls, by>>
    BY <1>7 DEF BeginGenerated
  <2>3. [type |-> 2, value |-> amt] \in Record /\ [type |-> 4, value |-> cltv] \in Record
    BY DrawsAre DEF Record
  <2>4. records' \in Seq(Record) /\ Len(records') = 2
    BY <2>1, <2>3
  <2>5. records'[1].type = 2 /\ records'[2].type = 4
    BY <2>1
  <2>6. Sorted(records')
    <3>1. \A i \in 2..2 : i = 2 /\ i - 1 = 1
      OBVIOUS
    <3> QED
      BY <2>4, <2>5, <3>1 DEF Sorted
  <2>7. Has(records', 2) /\ Has(records', 4)
    <3>1. 1 \in 1..2 /\ 2 \in 1..2
      OBVIOUS
    <3> QED
      BY <2>4, <2>5, <3>1, Zenon DEF Has
  <2>8. records' \in Seq(Fit(left' * Growth))
    <3> DEFINE n == left' * Growth
               first == [type |-> 2, value |-> amt]
               second == [type |-> 4, value |-> cltv]
    <3>1. n \in Nat /\ n <= 3 * Growth
      BY <2>2, RoomIs
    <3> HIDE DEF n
    <3>2. 2 \in Nat /\ 4 \in Nat /\ 2 < EightDigits /\ 4 < EightDigits
      <4>1. Escape >= 2
        BY BaseAssumption DEF Escape
      <4>2. /\ Escape \in Nat /\ TwoDigits \in Nat
            /\ FourDigits \in Nat /\ EightDigits \in Nat
            /\ Escape < TwoDigits /\ TwoDigits < FourDigits
            /\ FourDigits < EightDigits
        BY CountOrder
      <4>3. EightDigits > 4
        BY <4>1, <4>2
      <4> QED
        BY <4>2, <4>3
    <3>3. first \in Fit(n)
      BY <3>1, <3>2, DrawsFit, FitIs
    <3>4. second \in Fit(n)
      BY <3>1, <3>2, DrawsFit, FitIs
    <3>5. records' = <<first, second>>
      BY <2>1
    <3> HIDE DEF first, second
    <3> QED
      BY <3>3, <3>4, <3>5 DEF n
  <2> QED
    BY <2>2, <2>4, <2>6, <2>7, <2>8, GoingOnKeeps
<1>8. CASE AddGenerated
  <2>1. /\ phase = "generating" /\ left > 0
        /\ records' \in add_tlv_record(records)
        /\ left' = left - 1
        /\ UNCHANGED <<packet, phase, calls, by>>
    BY <1>8 DEF AddGenerated
  <2>2. left' \in 0..MaxMutations
    BY <1>0, <2>1
  <2>3. records' \in Seq(Fit(left' * Growth))
    BY <1>0, <1>11, <2>1, <2>2
  <2>4. Sorted(records) /\ Has(records, 2) /\ Has(records, 4)
    BY <2>1 DEF IInv, Generating
  <2>5. Sorted(records') /\ Has(records', 2) /\ Has(records', 4)
    BY <1>0, <2>1, <2>4, AdditionKeeps
  <2> QED
    BY <2>1, <2>2, <2>3, <2>5, GoingOnKeeps
<1>9. CASE CloseMutated
  <2>1. /\ phase = "mutating" /\ records' = records
        /\ Close(serialize_tlv_hop_payload(records), "parsed")
    BY <1>9 DEF CloseMutated
  <2>4. records' \in Seq(Fit(0))
    <3>1. left = 0 /\ records \in Seq(Fit(left * Growth))
      BY <1>9 DEF CloseMutated, IInv, RecordsFit
    <3>2. 0 * Growth = 0
      BY RecordsAssumption
    <3> QED
      BY <2>1, <3>1, <3>2
  <2>2. /\ PacketIsSealed' /\ HopIs' /\ OpensWithItsKeys' /\ Generating'
        /\ RecordsFit' /\ PayloadIsWritten'
    BY <1>0, <2>1, <2>4, SerializeType, CloseKeeps
  <2>3. GeneratedIsForwarding'
    BY <2>1 DEF Close, GeneratedIsForwarding
  <2> QED
    BY <2>2, <2>3 DEF IInv
<1>10. CASE CloseGenerated
  <2>1. /\ phase = "generating" /\ records' = Unique(records)
        /\ Close(serialize_tlv_hop_payload(records'), "generated")
    BY <1>10 DEF CloseGenerated
  <2>2. Sorted(records) /\ Has(records, 2) /\ Has(records, 4)
    BY <2>1 DEF IInv, Generating
  <2>3. /\ records' \in Seq(Record)
        /\ Ascending(records', Len(records'))
        /\ Has(records', 2) /\ Has(records', 4)
    BY <1>0, <2>1, <2>2, UniqueIs
  <2>6. records' \in Seq(Fit(0))
    <3>1. left = 0 /\ records \in Seq(Fit(left * Growth))
      BY <1>10 DEF CloseGenerated, IInv, RecordsFit
    <3>2. 0 * Growth = 0
      BY RecordsAssumption
    <3>3. records \in Seq(Fit(0))
      BY <3>1, <3>2
    <3> QED
      BY <2>1, <3>3, UniqueFits
  <2>4. /\ PacketIsSealed' /\ HopIs' /\ OpensWithItsKeys' /\ Generating'
        /\ RecordsFit' /\ PayloadIsWritten'
    BY <2>1, <2>3, <2>6, SerializeType, CloseKeeps
  <2>5. GeneratedIsForwarding'
    BY <2>3, HasTypes DEF GeneratedIsForwarding
  <2> QED
    BY <2>4, <2>5 DEF IInv
<1> QED
  BY <1>1, <1>2, <1>3, <1>4, <1>5, <1>6, <1>7, <1>8, <1>9, <1>10 DEF Next

LEMMA Invariant == Spec => []IInv
BY InitInvariant, StepInvariant, PTL DEF Spec

\* A packet that a call of the mutator has gone through with opens with the
\* keys it carries, and its seal is over the bytes it carries, whatever the
\* call did to them.
THEOREM EveryPacketIsSealed == Spec => []PacketIsSealed
<1>1. IInv => PacketIsSealed
  BY DEF IInv
<1> QED
  BY <1>1, Invariant, PTL

\* A payload that is made anew has the two types of a forwarding payload and no
\* type twice, wherever the records that were added to it went.
THEOREM EveryGeneratedForwards == Spec => []GeneratedIsForwarding
<1>1. IInv => GeneratedIsForwarding
  BY DEF IInv
<1> QED
  BY <1>1, Invariant, PTL

\* The payload that a call leaves is read back by the next one: all the records
\* that were put in order, when there was room, and of a stream that was cut
\* the records that are whole, and at most one more, without its value.
THEOREM EveryOutputIsReadBack == Spec => []ReadsBackItsOutput
<1>1. IInv => ReadsBackItsOutput
  <2> SUFFICES ASSUME IInv, phase = "idle", by \in {"parsed", "generated"}
               PROVE  ReadsBackItsOutput
    BY DEF ReadsBackItsOutput
  <2>1. hop.plain = serialize_tlv_hop_payload(records) /\ records \in Seq(Fit(0))
    BY DEF IInv, PayloadIsWritten
  <2>2. records \in Seq(Record) /\ Sized(records)
    <3>1. 0 \in Nat /\ 0 <= 0
      OBVIOUS
    <3>2. records \in Seq(Record)
      BY <2>1, <3>1, FitLess, Zenon
    <3>3. \A i \in 1..Len(records) : records[i] \in Fit(0)
      BY <2>1
    <3>4. ASSUME NEW r \in Fit(0) PROVE r.type < EightDigits /\ Len(r.value) < EightDigits
      <4>1. r \in Record /\ r.type < EightDigits /\ Len(r.value) + 0 < EightDigits
        BY DEF Fit
      <4>2. Len(r.value) \in Nat
        BY <4>1 DEF Record, Bytes
      <4> QED
        BY <4>1, <4>2
    <3> QED
      BY <3>2, <3>3, <3>4 DEF Sized
  <2>3. ReadBack(records, parse_tlv_hop_payload(hop.plain))
    BY <2>1, <2>2, SerializedReadsBack
  <2> QED
    BY <2>3, Zenon DEF ReadBack, ReadBackInPart, ReadsBackItsOutput
<1> QED
  BY <1>1, Invariant, PTL
=============================================================================
