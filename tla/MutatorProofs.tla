---------------------------- MODULE MutatorProofs ----------------------------
(***************************************************************************)
(* Proofs about the mutators of text and of fixed formats, for any corpus, *)
(* any sizes and any bytes that libFuzzer puts into a buffer.  What an     *)
(* encoder writes its decoder reads: the sum of GF(32) is an exclusive or, *)
(* so that six values behind the others move the state of the checksum by  *)
(* themselves and by nothing else, whatever the others are.                *)
(***************************************************************************)
EXTENDS TextMutators, FixedFormats, SequenceLemmas

(***************************************************************************)
(* What libFuzzer gives and the fixed formats read and write               *)
(***************************************************************************)
Octet == 0..255
Octets == Seq(Octet)

\* What libFuzzer's mutator, the digest and the signers give is bytes.
FixedSurroundings ==
    /\ Corpus \subseteq Octets
    /\ \A d \in Octets, n \in OutputSizes : LLVMFuzzerMutate(d, n) \subseteq Octets
    /\ \A d \in Octets : Hash4(d) \in Octets /\ Len(Hash4(d)) = 4
    /\ \A k, h \in Octets : SchnorrSign(k, h) \in Octets /\ EcdsaSign(k, h) \in Octets

\* The maximum of two.
LEMMA MaxIs ==
    ASSUME NEW a \in Nat, NEW b \in Nat
    PROVE  Max({a, b}) = IF a <= b THEN b ELSE a
<1>1. \E x \in {a, b} : \A y \in {a, b} : x >= y
  OBVIOUS
<1>2. PICK x \in {a, b} : x = Max({a, b}) /\ \A y \in {a, b} : x >= y
  BY <1>1 DEF Max
<1> QED
  BY <1>2

\* A buffer with bytes written over it from some place on.
Overwritten(d, at, b, o) ==
    /\ o \in Octets
    /\ Len(o) = IF Len(d) <= at + Len(b) THEN at + Len(b) ELSE Len(d)
    /\ \A i \in 1..Len(b) : o[at + i] = b[i]
    /\ \A i \in 1..Len(d) : i <= at \/ i > at + Len(b) => o[i] = d[i]

\* memcpy.
LEMMA OverwriteIs ==
    ASSUME NEW d \in Octets, NEW at \in Nat, NEW b \in Octets, at <= Len(d)
    PROVE  Overwritten(d, at, b, Overwrite(d, at, b))
<1> DEFINE n == IF Len(d) <= at + Len(b) THEN at + Len(b) ELSE Len(d)
           o == Overwrite(d, at, b)
           e(i) == IF i \in (at + 1)..(at + Len(b)) THEN b[i - at] ELSE d[i]
<1>0. /\ Len(d) \in Nat /\ at + Len(b) \in Nat /\ Len(b) \in Nat
      /\ \A i \in 1..Len(d) : d[i] \in Octet
      /\ \A i \in 1..Len(b) : b[i] \in Octet
  BY DEF Octets
<1>1. n \in Nat
  BY <1>0
<1>2. o = [i \in 1..n |-> e(i)]
  BY <1>0, MaxIs DEF Overwrite
<1>3. \A i \in 1..n : e(i) \in Octet
  <2> SUFFICES ASSUME NEW i \in 1..n PROVE e(i) \in Octet
    OBVIOUS
  <2>1. CASE i \in (at + 1)..(at + Len(b))
    <3>1. i - at \in 1..Len(b)
      BY <1>0, <2>1
    <3>2. e(i) = b[i - at]
      BY <2>1
    <3> HIDE DEF e
    <3> QED
      BY <1>0, <3>1, <3>2
  <2>2. CASE i \notin (at + 1)..(at + Len(b))
    <3>1. i \in 1..Len(d)
      BY <1>0, <2>2
    <3>2. e(i) = d[i]
      BY <2>2
    <3> HIDE DEF e
    <3> QED
      BY <1>0, <3>1, <3>2
  <2> QED
    BY <2>1, <2>2
<1>10. \A i \in 1..Len(b) : at + i \in 1..n /\ at + i \in (at + 1)..(at + Len(b)) /\ (at + i) - at = i
  BY <1>0
<1>11. \A i \in 1..Len(d) : i \in 1..n /\ (i <= at \/ i > at + Len(b) => i \notin (at + 1)..(at + Len(b)))
  BY <1>0
<1> HIDE DEF n, o
<1>20. \A i : i \in (at + 1)..(at + Len(b)) => e(i) = b[i - at]
  OBVIOUS
<1>21. \A i : i \notin (at + 1)..(at + Len(b)) => e(i) = d[i]
  OBVIOUS
<1> HIDE DEF e
<1>4. o \in Seq(Octet) /\ Len(o) = n /\ \A i \in 1..n : o[i] = e(i)
  BY <1>1, <1>2, <1>3
<1>5. ASSUME NEW i \in 1..Len(b) PROVE o[at + i] = b[i]
  BY <1>4, <1>10, <1>20
<1>6. ASSUME NEW i \in 1..Len(d), i <= at \/ i > at + Len(b) PROVE o[i] = d[i]
  BY <1>4, <1>6, <1>11, <1>21
<1> QED
  BY <1>4, <1>5, <1>6 DEF n, o, Octets, Overwritten

\* The bytes of p are those of d between two places.
IsPart(p, d, from, to) ==
    p \in Octets /\ Len(p) = to - from /\ \A i \in 1..(to - from) : p[i] = d[from + i]

\* A part of a buffer.
LEMMA PartIs ==
    ASSUME NEW d \in Octets, NEW from \in Nat, NEW to \in Nat, from <= to, to <= Len(d)
    PROVE  IsPart(Bytes(d, from, to), d, from, to)
<1> DEFINE p == SubSeq(d, from + 1, to)
<1>1. p \in Seq(Octet) /\ Len(p) = to - from /\ \A i \in 1..(to - from) : p[i] = d[from + i]
  BY DEF Octets
<1>2. Bytes(d, from, to) = p
  BY DEF Bytes
<1> QED
  BY <1>1, <1>2 DEF IsPart, Octets

\* Two buffers that have the same bytes there have the same part.
LEMMA SamePart ==
    ASSUME NEW d \in Octets, NEW e \in Octets, NEW from \in Nat, NEW to \in Nat,
           from <= to, to <= Len(d), to <= Len(e), \A i \in 1..(to - from) : d[from + i] = e[from + i]
    PROVE  Bytes(d, from, to) = Bytes(e, from, to)
<1> DEFINE p == Bytes(d, from, to)
           q == Bytes(e, from, to)
<1>1. IsPart(p, d, from, to) /\ IsPart(q, e, from, to)
  BY PartIs
<1>2. /\ p \in Seq(Octet) /\ Len(p) = to - from /\ q \in Seq(Octet) /\ Len(q) = to - from
      /\ \A i \in 1..(to - from) : p[i] = q[i]
  BY <1>1 DEF IsPart, Octets
<1> HIDE DEF p, q
<1>3. p = q
  BY <1>2
<1> QED
  BY <1>3 DEF p, q

\* The bytes written are what is read from their place.
LEMMA ReadOver ==
    ASSUME NEW d \in Octets, NEW at \in Nat, NEW b \in Octets, at <= Len(d)
    PROVE  Bytes(Overwrite(d, at, b), at, at + Len(b)) = b
<1> DEFINE o == Overwrite(d, at, b)
           p == Bytes(o, at, at + Len(b))
<1>1. Overwritten(d, at, b, o)
  BY OverwriteIs
<1>2. /\ o \in Octets /\ Len(o) \in Nat /\ Len(b) \in Nat /\ at + Len(b) <= Len(o)
      /\ \A i \in 1..Len(b) : o[at + i] = b[i]
  BY <1>1 DEF Overwritten, Octets
<1> HIDE DEF o
<1>3. IsPart(p, o, at, at + Len(b))
  BY <1>2, PartIs
<1> HIDE DEF p
<1>4. p \in Seq(Octet) /\ Len(p) = Len(b) /\ \A i \in 1..Len(b) : p[i] = b[i]
  BY <1>2, <1>3 DEF IsPart, Octets
<1>5. p = b
  BY <1>4 DEF Octets
<1> QED
  BY <1>5 DEF p, o

\* The length in a header is a number.
LEMMA PayloadLengthType ==
    ASSUME NEW d \in Octets, Len(d) >= 20
    PROVE  PayloadLength(d) \in Nat
<1> DEFINE f == Bytes(d, 16, 20)
<1>1. Len(d) \in Nat
  BY DEF Octets
<1>2. IsPart(f, d, 16, 20)
  BY <1>1, PartIs
<1> HIDE DEF f
<1>3. f \in Seq(Octet) /\ Len(f) = 4
  BY <1>2 DEF IsPart, Octets
<1>12. \A s \in Seq(Octet) : \A i \in 1..Len(s) : s[i] \in Octet
  OBVIOUS
<1>11. \A i \in 1..Len(f) : f[i] \in Octet
  BY <1>3, <1>12, Zenon
<1>4. \A i \in 1..4 : f[i] \in Octet
  BY <1>3, <1>11
<1>5. f[1] \in Octet /\ f[2] \in Octet
  BY <1>4
<1>6. \A a, b \in Octet : a + 256 * b \in Nat
  BY DEF Octet
<1>7. f[1] + 256 * f[2] \in Nat
  BY <1>5, <1>6
<1>8. PAYLOAD_LENGTH_OFFSET = 16 /\ PAYLOAD_LENGTH_OFFSET + 4 = 20
  BY DEF PAYLOAD_LENGTH_OFFSET
<1>9. PayloadLength(d) = IF f[3] # 0 \/ f[4] # 0 THEN 65536 ELSE f[1] + 256 * f[2]
  BY <1>8 DEF PayloadLength, f
<1>10. 65536 \in Nat
  OBVIOUS
<1> QED
  BY <1>7, <1>9, <1>10

\* A message repaired has the checksum of its payload.
LEMMA ChecksumHolds ==
    ASSUME FixedSurroundings, NEW new \in Octets, NEW d, d = fix_bitcoin_checksum(new)
    PROVE  /\ d \in Octets
           /\ Len(d) >= 24 /\ Len(d) - 24 >= PayloadLength(d) => Bytes(d, 20, 24) = ChecksumOf(d)
<1> DEFINE sum == ChecksumOf(new)
           n == PayloadLength(new)
<1>1. Len(new) \in Nat
  BY DEF Octets
<1>3. CASE ~HoldsMessage(new)
  <2>1. d = new
    BY <1>3 DEF fix_bitcoin_checksum
  <2>2. ASSUME Len(d) >= 24, Len(d) - 24 >= PayloadLength(d) PROVE FALSE
    <3>1. PayloadLength(new) \in Nat
      BY <1>1, <2>1, <2>2, PayloadLengthType
    <3>2. HoldsMessage(new)
      BY <1>1, <2>1, <2>2, <3>1 DEF HoldsMessage, BITCOIN_HEADER_SIZE
    <3> QED
      BY <1>3, <3>2
  <2> QED
    BY <2>1, <2>2
<1>4. CASE HoldsMessage(new)
  <2>1. Len(new) >= 24 /\ Len(new) >= 24 + n
    BY <1>4 DEF HoldsMessage, BITCOIN_HEADER_SIZE
  <2>2. n \in Nat
    BY <1>1, <2>1, PayloadLengthType
  <2> HIDE DEF n
  <2>14. 24 \in Nat /\ 24 + n \in Nat /\ 24 <= 24 + n /\ 24 + n <= Len(new)
    BY <2>1, <2>2
  <2>15. IsPart(Bytes(new, 24, 24 + n), new, 24, 24 + n)
    BY <2>14, PartIs, Zenon
  <2>16. Bytes(new, 24, 24 + n) \in Octets
    BY <2>15 DEF IsPart
  <2>17. sum = Hash4(Bytes(new, 24, 24 + n))
    BY DEF ChecksumOf, n, BITCOIN_HEADER_SIZE
  <2>18. sum \in Octets /\ Len(sum) = 4
    BY <2>16, <2>17, Zenon DEF FixedSurroundings
  <2> HIDE DEF sum
  <2>3. d = Overwrite(new, 20, sum)
    BY <1>4 DEF fix_bitcoin_checksum, CHECKSUM_OFFSET, sum
  <2>4. Overwritten(new, 20, sum, d)
    BY <1>1, <2>18, <2>1, <2>3, OverwriteIs
  <2>11. /\ d \in Octets
         /\ Len(d) = IF Len(new) <= 20 + Len(sum) THEN 20 + Len(sum) ELSE Len(new)
         /\ \A i \in 1..Len(new) : i <= 20 \/ i > 20 + Len(sum) => d[i] = new[i]
    BY <2>4 DEF Overwritten
  <2>12. 20 + Len(sum) = 24
    BY <2>18
  <2>5. /\ d \in Octets /\ Len(d) = Len(new)
        /\ \A i \in 1..Len(new) : i <= 20 \/ i > 24 => d[i] = new[i]
    BY <1>1, <2>1, <2>11, <2>12
  <2>6. Bytes(d, 16, 20) = Bytes(new, 16, 20)
    <3>1. \A i \in 1..4 : 16 + i \in 1..Len(new) /\ 16 + i <= 20
      BY <1>1, <2>1
    <3>2. \A i \in 1..4 : d[16 + i] = new[16 + i]
      BY <2>5, <3>1
    <3>3. 20 <= Len(new) /\ 20 <= Len(d) /\ 20 - 16 = 4 /\ 16 <= 20 /\ 16 \in Nat /\ 20 \in Nat
      BY <1>1, <2>1, <2>5
    <3>4. \A i \in 1..(20 - 16) : d[16 + i] = new[16 + i]
      BY <3>2, <3>3
    <3> QED
      BY <2>5, <3>3, <3>4, SamePart, Zenon
  <2>7. PayloadLength(d) = n
    BY <2>6 DEF PayloadLength, PAYLOAD_LENGTH_OFFSET, n
  <2>8. Bytes(d, 24, 24 + n) = Bytes(new, 24, 24 + n)
    <3>1. \A i \in 1..n : 24 + i \in 1..Len(new) /\ 24 + i > 24
      BY <1>1, <2>1, <2>2
    <3>2. \A i \in 1..n : d[24 + i] = new[24 + i]
      BY <2>5, <3>1
    <3>3. 24 + n <= Len(new) /\ 24 + n <= Len(d) /\ (24 + n) - 24 = n /\ 24 <= 24 + n /\ 24 + n \in Nat
      BY <1>1, <2>1, <2>2, <2>5
    <3>4. \A i \in 1..((24 + n) - 24) : d[24 + i] = new[24 + i]
      BY <3>2, <3>3
    <3>5. 24 \in Nat
      OBVIOUS
    <3> QED
      BY <2>5, <3>3, <3>4, <3>5, SamePart, Zenon
  <2>9. ChecksumOf(d) = sum
    BY <2>7, <2>8 DEF ChecksumOf, sum, n, BITCOIN_HEADER_SIZE
  <2>13. 20 \in Nat /\ 20 <= Len(new)
    BY <1>1, <2>1
  <2>10. Bytes(d, 20, 20 + Len(sum)) = sum
    BY <2>18, <2>3, <2>13, ReadOver, Zenon
  <2> QED
    BY <2>5, <2>9, <2>10, <2>12
<1> QED
  BY <1>3, <1>4

\* The numbers of the message types fit in two bytes.
Words == 0..65535

\* The types of the table are two bytes.
LEMMA TypesFit == MessageTypes \subseteq Words
<1>1. DOMAIN message_types =
        {"warning", "init", "error", "ping", "pong", "funding_created", "open_channel",
         "funding_signed", "channel_ready", "shutdown", "closing_signed", "closing_complete",
         "update_add_htlc", "update_fulfill_htlc", "update_fail_htlc", "update_fail_malformed_htlc"}
  BY DEF message_types
<1>2. /\ message_types["warning"] = 1
      /\ message_types["init"] = 16
      /\ message_types["error"] = 17
      /\ message_types["ping"] = 18
      /\ message_types["pong"] = 19
      /\ message_types["funding_created"] = 34
      /\ message_types["open_channel"] = 32
      /\ message_types["funding_signed"] = 35
      /\ message_types["channel_ready"] = 36
      /\ message_types["shutdown"] = 38
      /\ message_types["closing_signed"] = 39
      /\ message_types["closing_complete"] = 40
      /\ message_types["update_add_htlc"] = 128
      /\ message_types["update_fulfill_htlc"] = 130
      /\ message_types["update_fail_htlc"] = 131
      /\ message_types["update_fail_malformed_htlc"] = 135
  BY DEF message_types
<1>3. /\ message_types["warning"] \in Words
      /\ message_types["init"] \in Words
      /\ message_types["error"] \in Words
      /\ message_types["ping"] \in Words
      /\ message_types["pong"] \in Words
      /\ message_types["funding_created"] \in Words
      /\ message_types["open_channel"] \in Words
      /\ message_types["funding_signed"] \in Words
      /\ message_types["channel_ready"] \in Words
      /\ message_types["shutdown"] \in Words
      /\ message_types["closing_signed"] \in Words
      /\ message_types["closing_complete"] \in Words
      /\ message_types["update_add_htlc"] \in Words
      /\ message_types["update_fulfill_htlc"] \in Words
      /\ message_types["update_fail_htlc"] \in Words
      /\ message_types["update_fail_malformed_htlc"] \in Words
  BY <1>2 DEF Words
<1>4. ASSUME NEW t \in DOMAIN message_types PROVE message_types[t] \in Words
  BY <1>1, <1>3, Zenon
<1>5. Range(message_types) \subseteq Words
  BY <1>4 DEF Range
<1>6. CASE env \in DOMAIN message_types
  <2>1. MessageTypes = {message_types[env]}
    BY <1>6, Zenon DEF MessageTypes
  <2> QED
    BY <1>4, <1>6, <2>1, Zenon
<1>7. CASE env \notin DOMAIN message_types
  <2>1. MessageTypes = Range(message_types)
    BY <1>7, Zenon DEF MessageTypes
  <2> QED
    BY <1>5, <2>1, Zenon
<1> QED
  BY <1>6, <1>7

\* A type in two bytes.
LEMMA TypeBytesIs ==
    ASSUME NEW type \in Words
    PROVE  TypeBytes(type) \in Octets /\ Len(TypeBytes(type)) = 2
<1>6. type \in Int /\ 0 <= type /\ type <= 65535
  BY DEF Words
<1>7. 0 <= type \div 256 /\ type \div 256 <= 255 /\ type \div 256 \in Int
  BY <1>6
<1>1. type \div 256 \in Octet
  BY <1>7 DEF Octet
<1>2. (type % 256) \in Octet
  BY <1>6 DEF Octet
<1> DEFINE h == type \div 256
           l == type % 256
<1> HIDE DEF h, l
<1>3. h \in Octet /\ l \in Octet
  BY <1>1, <1>2 DEF h, l
<1>4. <<h, l>> \in Seq(Octet) /\ Len(<<h, l>>) = 2
  BY <1>3
<1>5. TypeBytes(type) = <<h, l>>
  BY DEF TypeBytes, h, l
<1> QED
  BY <1>4, <1>5 DEF Octets

\* What stands behind the key and the hash is the signature, and they are what
\* they were.
LEMMA SignatureIs ==
    ASSUME NEW new \in Octets, Len(new) >= 64, NEW sig \in Octets
    PROVE  LET d == WithSignature(new, sig)
           IN  /\ d \in Octets
               /\ Bytes(d, 64, Len(d)) = sig
               /\ PrivKey(d) = PrivKey(new)
               /\ MsgHash(d) = MsgHash(new)
<1> DEFINE d == WithSignature(new, sig)
           h == Bytes(new, 0, 64)
<1>1. Len(new) \in Nat /\ Len(sig) \in Nat /\ sig \in Seq(Octet)
  BY DEF Octets
<1>2. IsPart(h, new, 0, 64)
  BY <1>1, PartIs
<1>3. h \in Seq(Octet) /\ Len(h) = 64 /\ \A i \in 1..64 : h[i] = new[i]
  BY <1>2 DEF IsPart, Octets
<1>4. d = h \o sig
  BY DEF WithSignature, MIN_BUFFER_SIZE
<1> HIDE DEF h, d
<1>5. Joined(Octet, h, sig)
  BY <1>1, <1>3, JoinIs
<1>6. /\ d \in Octets /\ Len(d) = 64 + Len(sig) /\ \A i \in 1..64 : d[i] = new[i]
      /\ \A i \in 1..Len(sig) : d[64 + i] = sig[i]
  BY <1>3, <1>4, <1>5 DEF Joined, Octets
<1>7. Bytes(d, 64, Len(d)) = sig
  <2> DEFINE p == Bytes(d, 64, Len(d))
  <2>5. 64 \in Nat /\ Len(d) \in Nat /\ 64 <= Len(d) /\ Len(d) <= Len(d)
    BY <1>1, <1>6
  <2>1. IsPart(p, d, 64, Len(d))
    BY <1>6, <2>5, PartIs, Zenon
  <2> HIDE DEF p
  <2>2. p \in Seq(Octet) /\ Len(p) = Len(sig) /\ \A i \in 1..Len(sig) : p[i] = sig[i]
    BY <1>1, <1>6, <2>1 DEF IsPart, Octets
  <2>3. p = sig
    BY <1>1, <2>2
  <2> QED
    BY <2>3 DEF p
<1>8. \A i \in 1..32 : d[0 + i] = new[0 + i] /\ d[32 + i] = new[32 + i]
  <2>1. \A i \in 1..32 : 0 + i \in 1..64 /\ 32 + i \in 1..64
    OBVIOUS
  <2> QED
    BY <1>6, <2>1
<1>9. Bytes(d, 0, 32) = Bytes(new, 0, 32) /\ Bytes(d, 32, 64) = Bytes(new, 32, 64)
  <2>6. \A x, y, z \in Nat : x = 64 + y /\ z >= 64 =>
            /\ 32 <= x /\ 64 <= x /\ 32 <= z /\ 64 <= z /\ 0 <= 32 /\ 32 <= 64
            /\ 0 \in Nat /\ 32 \in Nat /\ 64 \in Nat
    OBVIOUS
  <2>7. Len(d) \in Nat
    BY <1>6 DEF Octets
  <2>1. /\ 32 <= Len(d) /\ 64 <= Len(d) /\ 32 <= Len(new) /\ 64 <= Len(new) /\ 0 <= 32 /\ 32 <= 64
        /\ 0 \in Nat /\ 32 \in Nat /\ 64 \in Nat
    BY <1>1, <1>6, <2>6, <2>7, Zenon
  <2>2. 32 - 0 = 32 /\ 64 - 32 = 32
    OBVIOUS
  <2>3. /\ \A i \in 1..(32 - 0) : d[0 + i] = new[0 + i]
        /\ \A i \in 1..(64 - 32) : d[32 + i] = new[32 + i]
    BY <1>8, <2>2
  <2>4. Bytes(d, 0, 32) = Bytes(new, 0, 32)
    BY <1>6, <2>1, <2>3, SamePart, Zenon
  <2>5. Bytes(d, 32, 64) = Bytes(new, 32, 64)
    BY <1>6, <2>1, <2>3, SamePart, Zenon
  <2> QED
    BY <2>4, <2>5
<1> QED
  BY <1>6, <1>7, <1>9 DEF PrivKey, MsgHash, d

\* The key and the hash are bytes.
LEMMA KeyAndHash ==
    ASSUME NEW new \in Octets, Len(new) >= 64
    PROVE  PrivKey(new) \in Octets /\ MsgHash(new) \in Octets
<1>1. /\ 0 \in Nat /\ 32 \in Nat /\ 64 \in Nat /\ 0 <= 32 /\ 32 <= 64
      /\ 32 <= Len(new) /\ 64 <= Len(new)
  BY DEF Octets
<1>2. IsPart(Bytes(new, 0, 32), new, 0, 32)
  BY <1>1, PartIs, Zenon
<1>3. IsPart(Bytes(new, 32, 64), new, 32, 64)
  BY <1>1, PartIs, Zenon
<1> QED
  BY <1>2, <1>3 DEF PrivKey, MsgHash, IsPart

\* What the mutators leave has the format of their targets.
FixedInv ==
    /\ max_size \in OutputSizes
    /\ mutator # "extended_key" => data \in Octets
    /\ FormatHolds

\* A call works on bytes.
LEMMA Offered ==
    ASSUME FixedSurroundings, FixedInv, mutator # "extended_key",
           NEW new \in LLVMFuzzerMutate(data, max_size)
    PROVE  new \in Octets
BY DEF FixedSurroundings, FixedInv

\* A call leaves the input as it is, or what stands behind the key and the hash
\* is the signature.
LEMMA SignatureHolds ==
    ASSUME NEW new \in Octets, NEW sig, NEW d, NEW done,
           \/ d = new /\ done = FALSE
           \/ sig \in Octets /\ Len(new) >= 64 /\ d = WithSignature(new, sig)
    PROVE  /\ d \in Octets
           /\ done = TRUE => /\ Bytes(d, 64, Len(d)) = sig
                             /\ PrivKey(d) = PrivKey(new) /\ MsgHash(d) = MsgHash(new)
<1>1. CASE d = new /\ done = FALSE
  BY <1>1
<1>2. CASE sig \in Octets /\ Len(new) >= 64 /\ d = WithSignature(new, sig)
  BY <1>2, SignatureIs
<1> QED
  BY <1>1, <1>2

\* Every call keeps the invariant.
LEMMA RepairStep ==
    ASSUME FixedSurroundings, FixedInv, [FixedNext]_fixedVars PROVE FixedInv'
<1>1. CASE MutateExtendedKey
  BY <1>1 DEF MutateExtendedKey, FormatHolds, FixedInv
<1>2. CASE MutateP2PMessage
  <2>1. PICK new \in LLVMFuzzerMutate(data, max_size) : data' = fix_bitcoin_checksum(new)
    BY <1>2 DEF MutateP2PMessage
  <2>3. /\ mutator = "p2p_message" /\ mutator' = "p2p_message" /\ max_size' = max_size
        /\ mutator # "extended_key"
    BY <1>2 DEF MutateP2PMessage
  <2>2. new \in Octets
    BY <2>1, <2>3, Offered
  <2>4. /\ data' \in Octets
        /\ Len(data') >= 24 /\ Len(data') - 24 >= PayloadLength(data') =>
              Bytes(data', 20, 24) = ChecksumOf(data')
    BY <2>1, <2>2, ChecksumHolds
  <2>5. FormatHolds'
    BY <2>3, <2>4, Zenon DEF FormatHolds, CHECKSUM_OFFSET, BITCOIN_HEADER_SIZE
  <2> QED
    BY <2>3, <2>4, <2>5 DEF FixedInv
<1>3. CASE MutateLightningMessage
  <2>1. PICK new \in LLVMFuzzerMutate(data, max_size), type \in MessageTypes :
            /\ data' = IF Len(new) >= 2 \/ max_size >= 2 THEN Overwrite(new, 0, TypeBytes(type)) ELSE new
            /\ repaired' = (Len(new) >= 2 \/ max_size >= 2)
    BY <1>3 DEF MutateLightningMessage
  <2>3. /\ mutator = "p2p_lightning_message" /\ mutator' = "p2p_lightning_message"
        /\ MessageTypes' = MessageTypes /\ max_size' = max_size /\ mutator # "extended_key"
    BY <1>3 DEF MutateLightningMessage, MessageTypes
  <2>2. new \in Octets /\ type \in Words
    BY <2>1, <2>3, Offered, TypesFit
  <2>4. TypeBytes(type) \in Octets /\ Len(TypeBytes(type)) = 2
    BY <2>2, TypeBytesIs
  <2>5. 0 \in Nat /\ 0 <= Len(new)
    BY <2>2 DEF Octets
  <2> DEFINE o == Overwrite(new, 0, TypeBytes(type))
  <2>9. o \in Octets
    BY <2>2, <2>4, <2>5, OverwriteIs, Zenon DEF Overwritten
  <2>6. Bytes(o, 0, 0 + Len(TypeBytes(type))) = TypeBytes(type)
    BY <2>2, <2>4, <2>5, ReadOver, Zenon
  <2> HIDE DEF o
  <2>7. 0 + Len(TypeBytes(type)) = 2
    BY <2>4
  <2>8. repaired' => Bytes(data', 0, 2) = TypeBytes(type)
    BY <2>1, <2>6, <2>7 DEF o
  <2>10. data' \in Octets
    BY <2>1, <2>2, <2>9 DEF o
  <2>11. FormatHolds'
    BY <2>1, <2>3, <2>8, Zenon DEF FormatHolds
  <2> QED
    BY <2>3, <2>10, <2>11 DEF FixedInv
<1>4. CASE MutateSchnorr
  <2>1. PICK new \in LLVMFuzzerMutate(data, max_size) :
            \/ Raw(new)
            \/ Len(new) >= 64 /\ SignOrRaw(new, SchnorrSign(PrivKey(new), MsgHash(new)))
    BY <1>4 DEF MutateSchnorr, Context, MIN_BUFFER_SIZE
  <2>2. /\ mutator = "schnorr_signature" /\ mutator' = "schnorr_signature" /\ max_size' = max_size
        /\ mutator # "extended_key"
    BY <1>4 DEF MutateSchnorr
  <2>3. new \in Octets /\ Len(new) \in Nat
    BY <2>1, <2>2, Offered DEF Octets
  <2> DEFINE sig == SchnorrSign(PrivKey(new), MsgHash(new))
  <2>4. \/ data' = new /\ repaired' = FALSE
        \/ Len(new) >= 64 /\ data' = WithSignature(new, sig)
    BY <2>1, <2>3 DEF Raw, SignOrRaw
  <2>5. Len(new) >= 64 => sig \in Octets
    BY <2>3, KeyAndHash DEF FixedSurroundings
  <2> HIDE DEF sig
  <2>6. /\ data' \in Octets
        /\ repaired' = TRUE => /\ Bytes(data', 64, Len(data')) = sig
                               /\ PrivKey(data') = PrivKey(new) /\ MsgHash(data') = MsgHash(new)
    BY <2>3, <2>4, <2>5, SignatureHolds
  <2>8. repaired' = TRUE => Bytes(data', 64, Len(data')) = SchnorrSign(PrivKey(data'), MsgHash(data'))
    BY <2>6 DEF sig
  <2>7. FormatHolds'
    BY <2>2, <2>8, Zenon DEF FormatHolds, MIN_BUFFER_SIZE
  <2> QED
    BY <2>2, <2>6, <2>7 DEF FixedInv
<1>5. CASE MutateEcdsa
  <2>1. PICK new \in LLVMFuzzerMutate(data, max_size) :
            IF Len(new) < MIN_BUFFER_SIZE THEN Raw(new)
            ELSE Context(SignOrRaw(new, EcdsaSign(PrivKey(new), MsgHash(new))), new)
    BY <1>5 DEF MutateEcdsa
  <2>2. /\ mutator = "secp256k1_signature" /\ mutator' = "secp256k1_signature" /\ max_size' = max_size
        /\ mutator # "extended_key"
    BY <1>5 DEF MutateEcdsa
  <2>3. new \in Octets /\ Len(new) \in Nat
    BY <2>1, <2>2, Offered DEF Octets
  <2> DEFINE sig == EcdsaSign(PrivKey(new), MsgHash(new))
  <2>4. \/ data' = new /\ repaired' = FALSE
        \/ Len(new) >= 64 /\ data' = WithSignature(new, sig)
    <3>1. CASE Len(new) < MIN_BUFFER_SIZE
      BY <2>1, <3>1 DEF Raw
    <3>2. CASE ~(Len(new) < MIN_BUFFER_SIZE)
      <4>1. Len(new) >= 64
        BY <2>3, <3>2 DEF MIN_BUFFER_SIZE
      <4>2. Context(SignOrRaw(new, sig), new)
        BY <2>1, <3>2
      <4>3. SignOrRaw(new, sig) \/ Raw(new)
        BY <4>2 DEF Context
      <4> QED
        BY <4>1, <4>3 DEF Raw, SignOrRaw
    <3> QED
      BY <3>1, <3>2
  <2>5. Len(new) >= 64 => sig \in Octets
    BY <2>3, KeyAndHash DEF FixedSurroundings
  <2> HIDE DEF sig
  <2>6. /\ data' \in Octets
        /\ repaired' = TRUE => /\ Bytes(data', 64, Len(data')) = sig
                               /\ PrivKey(data') = PrivKey(new) /\ MsgHash(data') = MsgHash(new)
    BY <2>3, <2>4, <2>5, SignatureHolds
  <2>8. repaired' = TRUE => Bytes(data', 64, Len(data')) = EcdsaSign(PrivKey(data'), MsgHash(data'))
    BY <2>6 DEF sig
  <2>7. FormatHolds'
    BY <2>2, <2>8, Zenon DEF FormatHolds, MIN_BUFFER_SIZE
  <2> QED
    BY <2>2, <2>6, <2>7 DEF FixedInv
<1>6. CASE UNCHANGED fixedVars
  <2>1. /\ mutator' = mutator /\ env' = env /\ max_size' = max_size /\ data' = data /\ repaired' = repaired
    BY <1>6 DEF fixedVars
  <2>2. MessageTypes' = MessageTypes
    BY <2>1, Zenon DEF MessageTypes
  <2>3. FormatHolds'
    BY <2>1, <2>2, Zenon DEF FormatHolds, FixedInv
  <2> QED
    BY <2>1, <2>3, Zenon DEF FixedInv
<1> QED
  BY <1>1, <1>2, <1>3, <1>4, <1>5, <1>6 DEF FixedNext

\* p2p_message.h, p2p_lightning_message.h, schnorr_signature.h and
\* secp256k1_signature.h: what these mutators leave has the checksum, the type
\* or the signature that its target asks for, whatever bytes libFuzzer put into
\* it, and whatever the digest and the signers give for them.
THEOREM EveryRepairHolds ==
    ASSUME FixedSurroundings PROVE FixedSpec => []FormatHolds
<1>1. FixedInit => FixedInv
  BY DEF FixedInit, FixedInv, FormatHolds, FixedSurroundings
<1>2. FixedInv /\ [FixedNext]_fixedVars => FixedInv'
  BY RepairStep
<1>3. FixedInv => FormatHolds
  BY DEF FixedInv
<1> QED
  BY <1>1, <1>2, <1>3, PTL DEF FixedSpec

(***************************************************************************)
(* The alphabet of Bech32                                                  *)
(***************************************************************************)
\* Lower-case letters and digits but the separator.
Plain == (97..122) \cup (48..57)

Five == 0..31

\* The entries of the alphabet.
LEMMA CharsetIs ==
    /\ Len(CHARSET) = 32
    /\ CHARSET[1] = 113 /\ CHARSET[2] = 112 /\ CHARSET[3] = 122 /\ CHARSET[4] = 114
    /\ CHARSET[5] = 121 /\ CHARSET[6] = 57 /\ CHARSET[7] = 120 /\ CHARSET[8] = 56
    /\ CHARSET[9] = 103 /\ CHARSET[10] = 102 /\ CHARSET[11] = 50 /\ CHARSET[12] = 116
    /\ CHARSET[13] = 118 /\ CHARSET[14] = 100 /\ CHARSET[15] = 119 /\ CHARSET[16] = 48
    /\ CHARSET[17] = 115 /\ CHARSET[18] = 51 /\ CHARSET[19] = 106 /\ CHARSET[20] = 110
    /\ CHARSET[21] = 53 /\ CHARSET[22] = 52 /\ CHARSET[23] = 107 /\ CHARSET[24] = 104
    /\ CHARSET[25] = 99 /\ CHARSET[26] = 101 /\ CHARSET[27] = 54 /\ CHARSET[28] = 109
    /\ CHARSET[29] = 117 /\ CHARSET[30] = 97 /\ CHARSET[31] = 55 /\ CHARSET[32] = 108
BY DEF CHARSET

\* None of them is a capital or the separator.
LEMMA CharsetPlain == \A i \in 1..32 : CHARSET[i] \in Plain /\ CHARSET[i] # 49
<1> DEFINE S == Plain \ {49}
<1>1. /\ 113 \in S /\ 112 \in S /\ 122 \in S /\ 114 \in S /\ 121 \in S /\ 57 \in S /\ 120 \in S /\ 56 \in S
      /\ 103 \in S /\ 102 \in S /\ 50 \in S /\ 116 \in S /\ 118 \in S /\ 100 \in S /\ 119 \in S /\ 48 \in S
      /\ 115 \in S /\ 51 \in S /\ 106 \in S /\ 110 \in S /\ 53 \in S /\ 52 \in S /\ 107 \in S /\ 104 \in S
      /\ 99 \in S /\ 101 \in S /\ 54 \in S /\ 109 \in S /\ 117 \in S /\ 97 \in S /\ 55 \in S /\ 108 \in S
  BY DEF Plain
<1> HIDE DEF S
<1>2. /\ CHARSET[1] \in S /\ CHARSET[2] \in S /\ CHARSET[3] \in S /\ CHARSET[4] \in S
      /\ CHARSET[5] \in S /\ CHARSET[6] \in S /\ CHARSET[7] \in S /\ CHARSET[8] \in S
      /\ CHARSET[9] \in S /\ CHARSET[10] \in S /\ CHARSET[11] \in S /\ CHARSET[12] \in S
      /\ CHARSET[13] \in S /\ CHARSET[14] \in S /\ CHARSET[15] \in S /\ CHARSET[16] \in S
      /\ CHARSET[17] \in S /\ CHARSET[18] \in S /\ CHARSET[19] \in S /\ CHARSET[20] \in S
      /\ CHARSET[21] \in S /\ CHARSET[22] \in S /\ CHARSET[23] \in S /\ CHARSET[24] \in S
      /\ CHARSET[25] \in S /\ CHARSET[26] \in S /\ CHARSET[27] \in S /\ CHARSET[28] \in S
      /\ CHARSET[29] \in S /\ CHARSET[30] \in S /\ CHARSET[31] \in S /\ CHARSET[32] \in S
  BY <1>1, CharsetIs
<1>3. 1..32 = {1, 2, 3, 4, 5, 6, 7, 8, 9, 10, 11, 12, 13, 14, 15, 16,
               17, 18, 19, 20, 21, 22, 23, 24, 25, 26, 27, 28, 29, 30, 31, 32}
  OBVIOUS
<1>4. \A i \in 1..32 : CHARSET[i] \in S
  BY <1>2, <1>3, Zenon
<1> QED
  BY <1>4, Zenon DEF S

\* Where a character of the set stands.
PlaceOf(c) ==
    CASE c = 113 -> 1 [] c = 112 -> 2 [] c = 122 -> 3 [] c = 114 -> 4
      [] c = 121 -> 5 [] c = 57 -> 6 [] c = 120 -> 7 [] c = 56 -> 8
      [] c = 103 -> 9 [] c = 102 -> 10 [] c = 50 -> 11 [] c = 116 -> 12
      [] c = 118 -> 13 [] c = 100 -> 14 [] c = 119 -> 15 [] c = 48 -> 16
      [] c = 115 -> 17 [] c = 51 -> 18 [] c = 106 -> 19 [] c = 110 -> 20
      [] c = 53 -> 21 [] c = 52 -> 22 [] c = 107 -> 23 [] c = 104 -> 24
      [] c = 99 -> 25 [] c = 101 -> 26 [] c = 54 -> 27 [] c = 109 -> 28
      [] c = 117 -> 29 [] c = 97 -> 30 [] c = 55 -> 31 [] c = 108 -> 32

\* None occurs twice.
LEMMA CharsetOnce == \A i, j \in 1..32 : CHARSET[i] = CHARSET[j] => i = j
<1>1. /\ PlaceOf(113) = 1 /\ PlaceOf(112) = 2 /\ PlaceOf(122) = 3 /\ PlaceOf(114) = 4
      /\ PlaceOf(121) = 5 /\ PlaceOf(57) = 6 /\ PlaceOf(120) = 7 /\ PlaceOf(56) = 8
      /\ PlaceOf(103) = 9 /\ PlaceOf(102) = 10 /\ PlaceOf(50) = 11 /\ PlaceOf(116) = 12
      /\ PlaceOf(118) = 13 /\ PlaceOf(100) = 14 /\ PlaceOf(119) = 15 /\ PlaceOf(48) = 16
      /\ PlaceOf(115) = 17 /\ PlaceOf(51) = 18 /\ PlaceOf(106) = 19 /\ PlaceOf(110) = 20
      /\ PlaceOf(53) = 21 /\ PlaceOf(52) = 22 /\ PlaceOf(107) = 23 /\ PlaceOf(104) = 24
      /\ PlaceOf(99) = 25 /\ PlaceOf(101) = 26 /\ PlaceOf(54) = 27 /\ PlaceOf(109) = 28
      /\ PlaceOf(117) = 29 /\ PlaceOf(97) = 30 /\ PlaceOf(55) = 31 /\ PlaceOf(108) = 32
  BY DEF PlaceOf
<1>2. /\ PlaceOf(CHARSET[1]) = 1 /\ PlaceOf(CHARSET[2]) = 2 /\ PlaceOf(CHARSET[3]) = 3 /\ PlaceOf(CHARSET[4]) = 4
      /\ PlaceOf(CHARSET[5]) = 5 /\ PlaceOf(CHARSET[6]) = 6 /\ PlaceOf(CHARSET[7]) = 7 /\ PlaceOf(CHARSET[8]) = 8
      /\ PlaceOf(CHARSET[9]) = 9 /\ PlaceOf(CHARSET[10]) = 10 /\ PlaceOf(CHARSET[11]) = 11 /\ PlaceOf(CHARSET[12]) = 12
      /\ PlaceOf(CHARSET[13]) = 13 /\ PlaceOf(CHARSET[14]) = 14 /\ PlaceOf(CHARSET[15]) = 15 /\ PlaceOf(CHARSET[16]) = 16
      /\ PlaceOf(CHARSET[17]) = 17 /\ PlaceOf(CHARSET[18]) = 18 /\ PlaceOf(CHARSET[19]) = 19 /\ PlaceOf(CHARSET[20]) = 20
      /\ PlaceOf(CHARSET[21]) = 21 /\ PlaceOf(CHARSET[22]) = 22 /\ PlaceOf(CHARSET[23]) = 23 /\ PlaceOf(CHARSET[24]) = 24
      /\ PlaceOf(CHARSET[25]) = 25 /\ PlaceOf(CHARSET[26]) = 26 /\ PlaceOf(CHARSET[27]) = 27 /\ PlaceOf(CHARSET[28]) = 28
      /\ PlaceOf(CHARSET[29]) = 29 /\ PlaceOf(CHARSET[30]) = 30 /\ PlaceOf(CHARSET[31]) = 31 /\ PlaceOf(CHARSET[32]) = 32
  BY <1>1, CharsetIs
<1>3. 1..32 = {1, 2, 3, 4, 5, 6, 7, 8, 9, 10, 11, 12, 13, 14, 15, 16,
               17, 18, 19, 20, 21, 22, 23, 24, 25, 26, 27, 28, 29, 30, 31, 32}
  OBVIOUS
<1>4. \A i \in 1..32 : PlaceOf(CHARSET[i]) = i
  BY <1>2, <1>3, Zenon
<1> QED
  BY <1>4, Zenon

\* They are in lower case.
LEMMA LowerOfPlain ==
    ASSUME NEW c \in Plain PROVE LowerCase(c) = c
BY DEF Plain, LowerCase, IsUpper

\* The place of a lower-case character, from zero.
RevOfLower(l) ==
    IF Contains(CHARSET, l) THEN (CHOOSE i \in 1..32 : CHARSET[i] = l) - 1 ELSE -1

\* The reverse table looks a character up in lower case.
LEMMA RevByLower == \A c \in 0..127 : CHARSET_REV[c] = RevOfLower(LowerCase(c))
<1>1. CHARSET_REV = [c \in 0..127 |-> RevOfLower(LowerCase(c))]
  BY DEF CHARSET_REV, RevOfLower
<1> QED
  BY <1>1

\* What the table says of a character.
LEMMA RevIs ==
    ASSUME NEW c \in 0..127
    PROVE  /\ CHARSET_REV[c] \in (-1)..31
           /\ CHARSET_REV[c] # -1 => CHARSET[CHARSET_REV[c] + 1] = LowerCase(c)
           /\ (\E i \in 1..32 : CHARSET[i] = LowerCase(c)) => CHARSET_REV[c] # -1
<1> DEFINE l == LowerCase(c)
           r == CHARSET_REV[c]
<1>1. r = IF \E i \in 1..32 : CHARSET[i] = l THEN (CHOOSE i \in 1..32 : CHARSET[i] = l) - 1 ELSE -1
  <2>1. r = RevOfLower(l)
    BY RevByLower
  <2>2. Contains(CHARSET, l) <=> \E i \in 1..32 : CHARSET[i] = l
    BY CharsetIs, Zenon DEF Contains
  <2> HIDE DEF r, l
  <2> QED
    BY <2>1, <2>2, Zenon DEF RevOfLower
<1> HIDE DEF r, l
<1>2. CASE \E i \in 1..32 : CHARSET[i] = l
  <2>1. PICK i \in 1..32 : i = (CHOOSE j \in 1..32 : CHARSET[j] = l) /\ CHARSET[i] = l
    BY <1>2
  <2>2. r = i - 1
    BY <1>1, <1>2, <2>1
  <2>3. r \in (-1)..31 /\ r # -1 /\ r + 1 = i
    BY <2>2
  <2>4. CHARSET[r + 1] = l
    BY <2>1, <2>3
  <2> QED
    BY <2>3, <2>4 DEF r, l
<1>3. CASE ~(\E i \in 1..32 : CHARSET[i] = l)
  <2>1. r = -1
    BY <1>1, <1>3
  <2> QED
    BY <1>3, <2>1 DEF r, l
<1> QED
  BY <1>2, <1>3

\* It inverts the set,
LEMMA RevOf ==
    ASSUME NEW v \in Five
    PROVE  CHARSET[v + 1] \in 0..127 /\ CHARSET_REV[CHARSET[v + 1]] = v
<1> DEFINE c == CHARSET[v + 1]
<1>1. v + 1 \in 1..32 /\ v \in Int
  BY DEF Five
<1>2. c \in Plain
  BY <1>1, CharsetPlain
<1>3. c \in 0..127
  BY <1>2 DEF Plain
<1>4. LowerCase(c) = c
  BY <1>2, LowerOfPlain
<1>5. CHARSET_REV[c] # -1 /\ CHARSET_REV[c] \in (-1)..31 /\ CHARSET[CHARSET_REV[c] + 1] = c
  <2>1. \E i \in 1..32 : CHARSET[i] = LowerCase(c)
    BY <1>1, <1>4
  <2> HIDE DEF c
  <2> QED
    BY <1>3, <1>4, <2>1, RevIs
<1> DEFINE r == CHARSET_REV[c]
<1>6. r + 1 \in 1..32 /\ r \in Int
  <2> HIDE DEF r
  <2> QED
    BY <1>5 DEF r
<1>7. r + 1 = v + 1
  BY <1>1, <1>5, <1>6, CharsetOnce
<1> HIDE DEF r
<1>8. r = v
  BY <1>1, <1>6, <1>7
<1> QED
  BY <1>3, <1>8 DEF r

\* and reads either case alike.
LEMMA RevEitherCase ==
    ASSUME NEW c \in 0..127, NEW d \in 0..127, LowerCase(c) = LowerCase(d)
    PROVE  CHARSET_REV[c] = CHARSET_REV[d]
BY RevByLower

(***************************************************************************)
(* GF(32): sums                                                            *)
(***************************************************************************)
\* A function whose equation asks, at one level, only for values of the levels
\* below, exists.
ByLevels(D, S, G, n, L) ==
    /\ L[0] = {} /\ L[n] = D
    /\ \A k \in 0..(n - 1) : \A g, h \in [D -> S] :
           (\A x \in L[k] : g[x] = h[x]) => \A x \in L[k + 1] : G[g][x] = G[h][x]

FixedPoint(D, S, G) == \E f \in [D -> S] : f = G[f]

\* A recursion that descends level by level has a fixed point.
LEMMA RecursionByLevels ==
    ASSUME NEW D, NEW S, NEW s \in S, NEW G \in [[D -> S] -> [D -> S]], NEW n \in Nat, NEW L,
           ByLevels(D, S, G, n, L)
    PROVE  FixedPoint(D, S, G)
<1> USE DEF ByLevels
<1> DEFINE T == [D -> S]
           F == [p \in (1..(n + 1)) \X T |-> G[p[2]]]
           c == [x \in D |-> s]
<1>1. F \in [(1..(n + 1)) \X T -> T] /\ c \in T /\ n + 1 \in Nat
  OBVIOUS
<1>2. \A k \in 1..(n + 1), g \in T : F[<<k, g>>] = G[g]
  OBVIOUS
<1>3. \A g, h \in T : (\A x \in D : g[x] = h[x]) => g = h
  OBVIOUS
<1>4. \A g \in T : G[g] \in T
  OBVIOUS
<1>5. \A k \in 0..(n - 1) : \A g, h \in T :
          (\A x \in L[k] : g[x] = h[x]) => \A x \in L[k + 1] : G[g][x] = G[h][x]
  OBVIOUS
<1> HIDE DEF T, F, c
<1>6. Recurses(T, n + 1, c, F)
  BY <1>1, RecursionIn, Zenon
<1>7. PICK q \in [0..(n + 1) -> T] : q[0] = c /\ \A k \in 1..(n + 1) : q[k] = F[<<k, q[k - 1]>>]
  BY <1>6, Zenon DEF Recurses
<1>8. \A k \in 0..n : q[k] \in T /\ q[k + 1] \in T /\ q[k + 1] = G[q[k]]
  <2> SUFFICES ASSUME NEW k \in 0..n PROVE q[k] \in T /\ q[k + 1] \in T /\ q[k + 1] = G[q[k]]
    OBVIOUS
  <2>1. k + 1 \in 1..(n + 1) /\ k \in 0..(n + 1) /\ k + 1 \in 0..(n + 1) /\ (k + 1) - 1 = k
    OBVIOUS
  <2>2. q[k] \in T /\ q[k + 1] \in T
    BY <2>1
  <2>3. q[k + 1] = F[<<k + 1, q[k]>>]
    BY <1>7, <2>1
  <2> QED
    BY <1>2, <2>1, <2>2, <2>3
<1> DEFINE P == {k \in 0..n : \A x \in L[k] : q[k][x] = q[k + 1][x]}
<1>9. 0 \in P
  OBVIOUS
<1>10. ASSUME NEW k \in 1..n, k - 1 \in P PROVE k \in P
  <2>1. k - 1 \in 0..(n - 1) /\ (k - 1) + 1 = k /\ k - 1 \in 0..n /\ k \in 0..n
    OBVIOUS
  <2>2. \A x \in L[k - 1] : q[k - 1][x] = q[k][x]
    BY <1>10, <2>1
  <2>3. q[k - 1] \in T /\ q[k] \in T /\ q[k] = G[q[k - 1]] /\ q[k + 1] = G[q[k]]
    BY <1>8, <2>1
  <2>4. \A x \in L[k] : G[q[k - 1]][x] = G[q[k]][x]
    BY <1>5, <2>1, <2>2, <2>3
  <2>5. \A x \in L[k] : q[k][x] = q[k + 1][x]
    BY <2>3, <2>4
  <2> QED
    BY <2>1, <2>5
<1> HIDE DEF P
<1>11. \A k \in 0..n : k \in P
  BY <1>9, <1>10, RoundByRound
<1>12. n \in P /\ n \in 0..n
  BY <1>11
<1>13. \A x \in D : q[n][x] = q[n + 1][x]
  BY <1>12 DEF P
<1>14. q[n] = G[q[n]]
  BY <1>3, <1>8, <1>12, <1>13
<1> QED
  BY <1>8, <1>12, <1>14 DEF T, FixedPoint

Pairs32 == Five \X Five

\* The equation of the exclusive or.
XorBody(f) ==
    [p \in Pairs32 |->
        IF p[1] + p[2] = 0 THEN 0 ELSE 2 * f[<<p[1] \div 2, p[2] \div 2>>] + ((p[1] + p[2]) % 2)]

\* Half of a value is a value.
LEMMA Halves ==
    ASSUME NEW a \in Five
    PROVE  /\ a \div 2 \in Five /\ a % 2 \in 0..1 /\ a = 2 * (a \div 2) + (a % 2)
           /\ a > 0 => a \div 2 < a
BY DEF Five

\* The recursion of the exclusive or has a fixed point of values.
LEMMA XorExists ==
    \E x \in [Pairs32 -> Int] : x = XorBody(x)
<1> DEFINE G == [h \in [Pairs32 -> Int] |-> XorBody(h)]
           L == [k \in 0..63 |-> {p \in Pairs32 : p[1] + p[2] < k}]
<1>1. \A a, b \in Five : a \div 2 \in Five /\ b \div 2 \in Five /\ <<a \div 2, b \div 2>> \in Pairs32
  BY Halves DEF Pairs32
<1>2. ASSUME NEW h \in [Pairs32 -> Int] PROVE XorBody(h) \in [Pairs32 -> Int]
  <2>1. ASSUME NEW p \in Pairs32
        PROVE  (IF p[1] + p[2] = 0 THEN 0 ELSE 2 * h[<<p[1] \div 2, p[2] \div 2>>] + ((p[1] + p[2]) % 2)) \in Int
    <3>1. p[1] \in Five /\ p[2] \in Five
      BY DEF Pairs32
    <3>2. h[<<p[1] \div 2, p[2] \div 2>>] \in Int
      BY <1>1, <3>1
    <3>3. p[1] \in Int /\ p[2] \in Int
      BY <3>1 DEF Five
    <3> QED
      BY <3>2, <3>3
  <2> QED
    BY <2>1 DEF XorBody
<1>3. G \in [[Pairs32 -> Int] -> [Pairs32 -> Int]]
  BY <1>2
<1>4. L[0] = {} /\ L[63] = Pairs32
  <2>1. \A p \in Pairs32 : p[1] + p[2] \in 0..62
    BY DEF Pairs32, Five
  <2> QED
    BY <2>1
<1>5. ASSUME NEW k \in 0..62, NEW g \in [Pairs32 -> Int], NEW h \in [Pairs32 -> Int],
             \A x \in L[k] : g[x] = h[x],
             NEW x \in L[k + 1]
      PROVE  G[g][x] = G[h][x]
  <2>1. x \in Pairs32 /\ x[1] + x[2] < k + 1 /\ x[1] \in Five /\ x[2] \in Five
    BY DEF Pairs32
  <2>2. G[g][x] = IF x[1] + x[2] = 0 THEN 0 ELSE 2 * g[<<x[1] \div 2, x[2] \div 2>>] + ((x[1] + x[2]) % 2)
    BY <2>1 DEF XorBody
  <2>3. G[h][x] = IF x[1] + x[2] = 0 THEN 0 ELSE 2 * h[<<x[1] \div 2, x[2] \div 2>>] + ((x[1] + x[2]) % 2)
    BY <2>1 DEF XorBody
  <2>4. x[1] + x[2] # 0 => <<x[1] \div 2, x[2] \div 2>> \in L[k]
    <3> DEFINE y == <<x[1] \div 2, x[2] \div 2>>
    <3>1. y \in Pairs32 /\ y[1] = x[1] \div 2 /\ y[2] = x[2] \div 2
      BY <1>1, <2>1
    <3>2. x[1] + x[2] # 0 => (x[1] \div 2) + (x[2] \div 2) < x[1] + x[2]
      BY <2>1 DEF Five
    <3>3. x[1] + x[2] # 0 => (x[1] \div 2) + (x[2] \div 2) < k
      BY <2>1, <3>2 DEF Five
    <3> HIDE DEF y
    <3>4. x[1] + x[2] # 0 => y[1] + y[2] < k
      BY <3>1, <3>3
    <3> QED
      BY <3>1, <3>4 DEF y
  <2> HIDE DEF G, L
  <2> QED
    BY <1>5, <2>2, <2>3, <2>4
<1> HIDE DEF G, L
<1>6. ByLevels(Pairs32, Int, G, 63, L)
  <2>1. \A k \in 0..(63 - 1) : \A g, h \in [Pairs32 -> Int] :
            (\A x \in L[k] : g[x] = h[x]) => \A x \in L[k + 1] : G[g][x] = G[h][x]
    BY <1>5
  <2> QED
    BY <1>4, <2>1, Zenon DEF ByLevels
<1>8. 0 \in Int /\ 63 \in Nat
  OBVIOUS
<1>7. FixedPoint(Pairs32, Int, G)
  BY <1>3, <1>6, <1>8, RecursionByLevels, Zenon
<1> QED
  BY <1>7 DEF G, FixedPoint

\* The entry of a table for a pair.
TableOf(f) == Table([i \in 1..1024 |-> f[<<(i - 1) \div 32, (i - 1) % 32>>]])

\* What stands in a table made from such a function.
LEMMA TableIs ==
    ASSUME NEW f, NEW a \in Five, NEW b \in Five
    PROVE  TableOf(f)[32 * a + b + 1] = f[<<a, b>>]
<1> DEFINE e(i) == f[<<(i - 1) \div 32, (i - 1) % 32>>]
           t == [i \in 1..1024 |-> e(i)]
           S == {e(i) : i \in 1..1024}
           k == 32 * a + b + 1
<1>1. k \in 1..1024
  BY DEF Five
<1>2. (k - 1) \div 32 = a
  BY DEF Five
<1>3. (k - 1) % 32 = b
  BY DEF Five
<1>4. e(k) = f[<<a, b>>]
  BY <1>2, <1>3
<1> HIDE DEF e, k
<1>5. t \in Seq(S) /\ Len(t) = 1024
  BY 1024 \in Nat
<1>6. t[k] = e(k)
  BY <1>1
<1> HIDE DEF t, S
<1>8. \A s \in Seq(S) : \A i \in 1..Len(s) : SubSeq(s, 1, Len(s))[i] = s[i]
  OBVIOUS
<1>7. Table(t)[k] = t[k]
  <2>1. k \in 1..Len(t)
    BY <1>1, <1>5
  <2>2. SubSeq(t, 1, Len(t))[k] = t[k]
    BY <1>5, <1>8, <2>1
  <2> QED
    BY <2>2, Zenon DEF Table
<1>9. TableOf(f) = Table(t)
  BY DEF TableOf, t, e
<1> QED
  BY <1>4, <1>6, <1>7, <1>9 DEF k

\* The sum by binary digits.
LEMMA SumDigits ==
    /\ Add32(0, 0) = 0
    /\ \A a, b \in Five : /\ Add32(a, b) \in Int
                          /\ Add32(a, b) = 2 * Add32(a \div 2, b \div 2) + ((a + b) % 2)
<1> DEFINE xor == CHOOSE f : f = XorBody(f)
<1>1. xor = XorBody(xor)
  BY XorExists, Zenon
<1>2. GF32_SUM = TableOf(xor)
  BY Zenon DEF GF32_SUM, TableOf, XorBody, Pairs32, Five
<1>3. \A p \in Pairs32 :
          xor[p] = IF p[1] + p[2] = 0 THEN 0
                   ELSE 2 * xor[<<p[1] \div 2, p[2] \div 2>>] + ((p[1] + p[2]) % 2)
  <2> HIDE DEF xor
  <2> QED
    BY <1>1 DEF XorBody
<1> HIDE DEF xor
<1>4. ASSUME NEW a \in Five, NEW b \in Five
      PROVE  xor[<<a, b>>] = IF a + b = 0 THEN 0 ELSE 2 * xor[<<a \div 2, b \div 2>>] + ((a + b) % 2)
  BY <1>3 DEF Pairs32
<1>5. \A a, b \in Five : Add32(a, b) = xor[<<a, b>>]
  <2> SUFFICES ASSUME NEW a \in Five, NEW b \in Five PROVE Add32(a, b) = xor[<<a, b>>]
    OBVIOUS
  <2>1. TableOf(xor)[32 * a + b + 1] = xor[<<a, b>>]
    BY TableIs
  <2>2. GF32_SUM[32 * a + b + 1] = xor[<<a, b>>]
    BY <1>2, <2>1
  <2> QED
    BY <2>2 DEF Add32
<1>6. \A a, b \in Five : xor[<<a, b>>] \in Int
  <2> DEFINE Good == {k \in Nat : \A a, b \in Five : a + b < k => xor[<<a, b>>] \in Int}
  <2>1. 0 \in Good
    BY DEF Five
  <2>2. ASSUME NEW k \in Nat, k \in Good PROVE k + 1 \in Good
    <3> SUFFICES ASSUME NEW a \in Five, NEW b \in Five, a + b < k + 1 PROVE xor[<<a, b>>] \in Int
      OBVIOUS
    <3>1. CASE a + b = 0
      <4>1. xor[<<a, b>>] = 0
        BY <1>4, <3>1
      <4> QED
        BY <4>1
    <3>2. CASE a + b # 0
      <4>1. a \div 2 \in Five /\ b \div 2 \in Five /\ (a \div 2) + (b \div 2) < k
        BY <3>2 DEF Five
      <4>2. xor[<<a \div 2, b \div 2>>] \in Int
        BY <2>2, <4>1
      <4>3. (a + b) % 2 \in Int
        BY DEF Five
      <4>4. xor[<<a, b>>] = 2 * xor[<<a \div 2, b \div 2>>] + ((a + b) % 2)
        BY <1>4, <3>2
      <4> QED
        BY <4>2, <4>3, <4>4
    <3> QED
      BY <3>1, <3>2
  <2> HIDE DEF Good
  <2>3. Nat \subseteq Good
    BY <2>1, <2>2, SetInduction
  <2>4. 63 \in Good /\ \A a, b \in Five : a + b < 63
    BY <2>3 DEF Five
  <2> QED
    BY <2>4 DEF Good
<1>7. 0 \in Five
  BY DEF Five
<1>8. xor[<<0, 0>>] = 0
  BY <1>4, <1>7
<1>9. ASSUME NEW a \in Five, NEW b \in Five
      PROVE  xor[<<a, b>>] = 2 * xor[<<a \div 2, b \div 2>>] + ((a + b) % 2)
  <2>1. CASE a + b = 0
    <3>1. a = 0 /\ b = 0
      BY <2>1 DEF Five
    <3>2. a \div 2 = 0 /\ b \div 2 = 0 /\ (a + b) % 2 = 0
      BY <3>1
    <3> QED
      BY <1>8, <3>1, <3>2
  <2>2. CASE a + b # 0
    BY <1>4, <2>2
  <2> QED
    BY <2>1, <2>2
<1> QED
  <2>1. Add32(0, 0) = 0
    BY <1>5, <1>7, <1>8
  <2>2. ASSUME NEW a \in Five, NEW b \in Five
        PROVE  /\ Add32(a, b) \in Int
               /\ Add32(a, b) = 2 * Add32(a \div 2, b \div 2) + ((a + b) % 2)
    BY <1>5, <1>6, <1>9, Halves
  <2> QED
    BY <2>1, <2>2

\* The sum of numbers below m, a power of two, is below m.
Closed(m) == \A a, b \in 0..(m - 1) : Add32(a, b) \in 0..(m - 1)

\* The laws hold of every pair of values.
LEMMA ClosedTwice ==
    ASSUME NEW m \in 1..16, Closed(m) PROVE Closed(2 * m)
<1> SUFFICES ASSUME NEW a \in 0..(2 * m - 1), NEW b \in 0..(2 * m - 1)
             PROVE  Add32(a, b) \in 0..(2 * m - 1)
  BY DEF Closed
<1>1. a \in Five /\ b \in Five /\ a \div 2 \in 0..(m - 1) /\ b \div 2 \in 0..(m - 1)
  BY DEF Five
<1> DEFINE h == Add32(a \div 2, b \div 2)
<1>2. h \in 0..(m - 1)
  BY <1>1 DEF Closed
<1>3. Add32(a, b) = 2 * h + ((a + b) % 2)
  BY <1>1, SumDigits
<1>4. (a + b) % 2 \in 0..1
  OBVIOUS
<1> HIDE DEF h
<1> QED
  BY <1>2, <1>3, <1>4

\* The sum of two values is a value.
LEMMA SumType == \A a, b \in Five : Add32(a, b) \in Five
<1>1. Closed(1)
  BY SumDigits DEF Closed
<1>2. Closed(2)
  BY <1>1, ClosedTwice
<1>3. Closed(4)
  BY <1>2, ClosedTwice
<1>4. Closed(8)
  BY <1>3, ClosedTwice
<1>5. Closed(16)
  BY <1>4, ClosedTwice
<1>6. Closed(32)
  BY <1>5, ClosedTwice
<1> QED
  BY <1>6 DEF Closed, Five

\* The digits of a sum.
LEMMA SumHalves ==
    ASSUME NEW a \in Five, NEW b \in Five
    PROVE  /\ Add32(a, b) \div 2 = Add32(a \div 2, b \div 2)
           /\ Add32(a, b) % 2 = (a + b) % 2
<1> DEFINE h == Add32(a \div 2, b \div 2)
           d == (a + b) % 2
<1>1. h \in Five
  BY Halves, SumType
<1>2. Add32(a, b) = 2 * h + d
  BY SumDigits
<1>3. d \in 0..1
  BY DEF Five
<1> HIDE DEF h, d
<1>4. (2 * h + d) \div 2 = h
  BY <1>1, <1>3 DEF Five
<1>5. (2 * h + d) % 2 = d
  BY <1>1, <1>3 DEF Five
<1> QED
  BY <1>2, <1>4, <1>5 DEF h, d

\* A number is given by its digits.
LEMMA SameDigits ==
    ASSUME NEW a \in Five, NEW b \in Five, a \div 2 = b \div 2, a % 2 = b % 2
    PROVE  a = b
BY Halves DEF Five

\* The laws of the sum, for triples of a sum below k.
Laws(a, b, c) ==
    /\ Add32(a, b) = Add32(b, a)
    /\ Add32(a, a) = 0
    /\ Add32(a, 0) = a
    /\ Add32(Add32(a, b), c) = Add32(a, Add32(b, c))

\* The sum is commutative, associative and its own inverse, and 0 is neutral.
LEMMA SumLaws == \A a, b, c \in Five : Laws(a, b, c)
<1> DEFINE Good == {k \in Nat : \A a, b, c \in Five : a + b + c < k => Laws(a, b, c)}
<1>1. 0 \in Good
  BY DEF Five
<1>2. ASSUME NEW k \in Nat, k \in Good PROVE k + 1 \in Good
  <2> SUFFICES ASSUME NEW a \in Five, NEW b \in Five, NEW c \in Five, a + b + c < k + 1
               PROVE  Laws(a, b, c)
    OBVIOUS
  <2>1. CASE a + b + c = 0
    <3>1. a = 0 /\ b = 0 /\ c = 0
      BY <2>1 DEF Five
    <3> QED
      BY <3>1, SumDigits DEF Laws
  <2>2. CASE a + b + c # 0
    <3> DEFINE x == a \div 2
               y == b \div 2
               z == c \div 2
    <3>1. x \in Five /\ y \in Five /\ z \in Five
      BY Halves
    <3>2. x + y + z < k
      BY <2>2 DEF Five
    <3>3. Laws(x, y, z)
      BY <1>2, <3>1, <3>2
    <3>4. 0 \in Five /\ 0 \div 2 = 0 /\ 0 % 2 = 0
      BY DEF Five
    <3>5. Add32(a, b) = Add32(b, a)
      <4>1. Add32(a, b) \in Five /\ Add32(b, a) \in Five
        BY SumType
      <4>2. Add32(a, b) \div 2 = Add32(b, a) \div 2
        BY <3>3, SumHalves DEF Laws
      <4>3. (a + b) % 2 = (b + a) % 2
        BY DEF Five
      <4>4. Add32(a, b) % 2 = Add32(b, a) % 2
        BY <4>3, SumHalves
      <4> QED
        BY <4>1, <4>2, <4>4, SameDigits
    <3>6. Add32(a, a) = 0
      <4>1. Add32(a, a) \in Five
        BY SumType
      <4>2. Add32(a, a) \div 2 = 0
        BY <3>3, SumHalves DEF Laws
      <4>3. (a + a) % 2 = 0
        BY DEF Five
      <4>4. Add32(a, a) % 2 = 0
        BY <4>3, SumHalves
      <4> QED
        BY <3>4, <4>1, <4>2, <4>4, SameDigits
    <3>7. Add32(a, 0) = a
      <4>1. Add32(a, 0) \in Five
        BY <3>4, SumType
      <4>2. Add32(a, 0) \div 2 = a \div 2
        BY <3>3, <3>4, SumHalves DEF Laws
      <4>3. (a + 0) % 2 = a % 2
        BY DEF Five
      <4>4. Add32(a, 0) % 2 = a % 2
        BY <3>4, <4>3, SumHalves
      <4> QED
        BY <4>1, <4>2, <4>4, SameDigits
    <3>8. Add32(Add32(a, b), c) = Add32(a, Add32(b, c))
      <4> DEFINE p == Add32(a, b)
                 q == Add32(b, c)
      <4>1. p \in Five /\ q \in Five
        BY SumType
      <4>2. /\ p \div 2 = Add32(x, y) /\ p % 2 = (a + b) % 2
            /\ q \div 2 = Add32(y, z) /\ q % 2 = (b + c) % 2
        BY SumHalves
      <4> HIDE DEF p, q
      <4>3. Add32(p, c) \in Five /\ Add32(a, q) \in Five
        BY <4>1, SumType
      <4>4. /\ Add32(p, c) \div 2 = Add32(p \div 2, z) /\ Add32(a, q) \div 2 = Add32(x, q \div 2)
            /\ Add32(p, c) % 2 = (p + c) % 2 /\ Add32(a, q) % 2 = (a + q) % 2
        BY <4>1, SumHalves
      <4>5. Add32(p, c) \div 2 = Add32(a, q) \div 2
        BY <3>3, <4>2, <4>4 DEF Laws
      <4>6. (p + c) % 2 = (a + q) % 2
        <5>1. \A u, v \in Five : (u + v) % 2 = ((u % 2) + v) % 2 /\ (u + v) % 2 = (u + (v % 2)) % 2
          BY DEF Five
        <5>2. \A u, v \in 0..62 : (u + v) % 2 = ((u % 2) + v) % 2 /\ (u + v) % 2 = (u + (v % 2)) % 2
          OBVIOUS
        <5>3. (p + c) % 2 = (((a + b) % 2) + c) % 2 /\ (a + q) % 2 = (a + ((b + c) % 2)) % 2
          BY <4>1, <4>2, <5>1
        <5>4. a \in 0..62 /\ c \in 0..62 /\ a + b \in 0..62 /\ b + c \in 0..62 /\ (a + b) + c = a + (b + c)
          BY DEF Five
        <5>5. (((a + b) % 2) + c) % 2 = ((a + b) + c) % 2 /\ (a + ((b + c) % 2)) % 2 = (a + (b + c)) % 2
          BY <5>2, <5>4
        <5> QED
          BY <5>3, <5>4, <5>5
      <4>7. Add32(p, c) % 2 = Add32(a, q) % 2
        BY <4>4, <4>6
      <4>8. Add32(p, c) = Add32(a, q)
        BY <4>3, <4>5, <4>7, SameDigits
      <4> QED
        BY <4>8 DEF p, q
    <3> QED
      BY <3>5, <3>6, <3>7, <3>8 DEF Laws
  <2> QED
    BY <2>1, <2>2
<1> HIDE DEF Good
<1>3. Nat \subseteq Good
  BY <1>1, <1>2, SetInduction
<1>4. 94 \in Good
  BY <1>3
<1>5. \A a, b, c \in Five : a + b + c < 94
  BY DEF Five
<1> QED
  BY <1>4, <1>5 DEF Good

(***************************************************************************)
(* GF(32): products                                                        *)
(***************************************************************************)
\* The equation of the product.
TimesX(v) == IF v >= 16 THEN Add32(2 * v - 32, 9) ELSE 2 * v

TimesBody(f) ==
    [p \in Pairs32 |->
        IF p[1] = 0 THEN 0
        ELSE Add32(IF p[1] % 2 = 1 THEN p[2] ELSE 0, f[<<p[1] \div 2, TimesX(p[2])>>])]

\* x times a value is a value.
LEMMA TimesXType == \A v \in Five : TimesX(v) \in Five
<1> SUFFICES ASSUME NEW v \in Five PROVE TimesX(v) \in Five
  OBVIOUS
<1>1. CASE v >= 16
  <2>1. 2 * v - 32 \in Five /\ 9 \in Five
    BY <1>1 DEF Five
  <2> QED
    BY <1>1, <2>1, SumType DEF TimesX
<1>2. CASE ~(v >= 16)
  BY <1>2 DEF TimesX, Five
<1> QED
  BY <1>1, <1>2

\* The recursion of the product has a fixed point of values.
LEMMA TimesExists ==
    \E x : x = TimesBody(x)
<1> DEFINE T == [Pairs32 -> Five]
           G == [h \in T |-> TimesBody(h)]
           L == [k \in 0..32 |-> {p \in Pairs32 : p[1] < k}]
<1>1. \A a, b \in Five : a \div 2 \in Five /\ TimesX(b) \in Five /\ <<a \div 2, TimesX(b)>> \in Pairs32
  BY Halves, TimesXType DEF Pairs32
<1>2. ASSUME NEW h \in T PROVE TimesBody(h) \in T
  <2>1. ASSUME NEW p \in Pairs32
        PROVE  (IF p[1] = 0 THEN 0
                ELSE Add32(IF p[1] % 2 = 1 THEN p[2] ELSE 0, h[<<p[1] \div 2, TimesX(p[2])>>])) \in Five
    <3>1. p[1] \in Five /\ p[2] \in Five /\ 0 \in Five
      BY DEF Pairs32, Five
    <3>2. h[<<p[1] \div 2, TimesX(p[2])>>] \in Five
      BY <1>1, <3>1
    <3>3. (IF p[1] % 2 = 1 THEN p[2] ELSE 0) \in Five
      BY <3>1
    <3>4. Add32(IF p[1] % 2 = 1 THEN p[2] ELSE 0, h[<<p[1] \div 2, TimesX(p[2])>>]) \in Five
      BY <3>2, <3>3, SumType
    <3> QED
      BY <3>1, <3>4
  <2> QED
    BY <2>1 DEF TimesBody
<1>3. G \in [T -> T]
  BY <1>2
<1>4. L[0] = {} /\ L[32] = Pairs32
  <2>1. \A p \in Pairs32 : p[1] \in 0..31
    BY DEF Pairs32, Five
  <2> QED
    BY <2>1
<1>5. ASSUME NEW k \in 0..31, NEW g \in T, NEW h \in T,
             \A x \in L[k] : g[x] = h[x],
             NEW x \in L[k + 1]
      PROVE  G[g][x] = G[h][x]
  <2>1. x \in Pairs32 /\ x[1] < k + 1 /\ x[1] \in Five /\ x[2] \in Five
    BY DEF Pairs32
  <2> DEFINE y == <<x[1] \div 2, TimesX(x[2])>>
             d == IF x[1] % 2 = 1 THEN x[2] ELSE 0
  <2>2. G[g][x] = IF x[1] = 0 THEN 0 ELSE Add32(d, g[y])
    BY <2>1 DEF TimesBody
  <2>3. G[h][x] = IF x[1] = 0 THEN 0 ELSE Add32(d, h[y])
    BY <2>1 DEF TimesBody
  <2>4. x[1] # 0 => y \in L[k]
    <3>1. y \in Pairs32 /\ y[1] = x[1] \div 2
      BY <1>1, <2>1
    <3>2. x[1] # 0 => x[1] \div 2 < k
      BY <2>1 DEF Five
    <3> HIDE DEF y
    <3>3. x[1] # 0 => y[1] < k
      BY <3>1, <3>2
    <3> QED
      BY <3>1, <3>3
  <2> HIDE DEF G, L, y, d
  <2> QED
    BY <1>5, <2>2, <2>3, <2>4
<1> HIDE DEF G, L
<1>6. ByLevels(Pairs32, Five, G, 32, L)
  <2>1. \A k \in 0..(32 - 1) : \A g, h \in T :
            (\A x \in L[k] : g[x] = h[x]) => \A x \in L[k + 1] : G[g][x] = G[h][x]
    BY <1>5
  <2> QED
    BY <1>4, <2>1, Zenon DEF ByLevels
<1>8. 0 \in Five /\ 32 \in Nat
  BY DEF Five
<1>7. FixedPoint(Pairs32, Five, G)
  BY <1>3, <1>6, <1>8, RecursionByLevels, Zenon
<1> QED
  BY <1>7 DEF G, FixedPoint

\* Products are elements.
LEMMA TimesType == \A a, b \in Five : Times32(a, b) \in Five
<1> DEFINE times == CHOOSE f : f = TimesBody(f)
<1>1. times = TimesBody(times)
  BY TimesExists, Zenon
<1>2. GF32_PRODUCT = TableOf(times)
  BY Zenon DEF GF32_PRODUCT, TableOf, TimesBody, TimesX, Pairs32, Five
<1> HIDE DEF times
<1>4. ASSUME NEW a \in Five, NEW b \in Five
      PROVE  times[<<a, b>>] = IF a = 0 THEN 0
                               ELSE Add32(IF a % 2 = 1 THEN b ELSE 0, times[<<a \div 2, TimesX(b)>>])
  <2>1. <<a, b>> \in Pairs32
    BY DEF Pairs32
  <2>2. TimesBody(times)[<<a, b>>] =
            IF a = 0 THEN 0 ELSE Add32(IF a % 2 = 1 THEN b ELSE 0, times[<<a \div 2, TimesX(b)>>])
    BY <2>1 DEF TimesBody
  <2> QED
    BY <1>1, <2>2
<1>5. \A a, b \in Five : Times32(a, b) = times[<<a, b>>]
  <2> SUFFICES ASSUME NEW a \in Five, NEW b \in Five PROVE Times32(a, b) = times[<<a, b>>]
    OBVIOUS
  <2>1. TableOf(times)[32 * a + b + 1] = times[<<a, b>>]
    BY TableIs
  <2>2. GF32_PRODUCT[32 * a + b + 1] = times[<<a, b>>]
    BY <1>2, <2>1
  <2> QED
    BY <2>2 DEF Times32
<1>6. \A a, b \in Five : times[<<a, b>>] \in Five
  <2> DEFINE Good == {k \in Nat : \A a, b \in Five : a < k => times[<<a, b>>] \in Five}
  <2>1. 0 \in Good
    BY DEF Five
  <2>2. ASSUME NEW k \in Nat, k \in Good PROVE k + 1 \in Good
    <3> SUFFICES ASSUME NEW a \in Five, NEW b \in Five, a < k + 1 PROVE times[<<a, b>>] \in Five
      OBVIOUS
    <3>3. 0 \in Five
      BY DEF Five
    <3>1. CASE a = 0
      <4>1. times[<<a, b>>] = 0
        BY <1>4, <3>1
      <4> QED
        BY <4>1, <3>3
    <3>2. CASE a # 0
      <4>1. a \div 2 \in Five /\ TimesX(b) \in Five /\ a \div 2 < k
        BY <3>2, TimesXType DEF Five
      <4>2. times[<<a \div 2, TimesX(b)>>] \in Five
        BY <2>2, <4>1
      <4>3. (IF a % 2 = 1 THEN b ELSE 0) \in Five
        BY <3>3
      <4>4. times[<<a, b>>] = Add32(IF a % 2 = 1 THEN b ELSE 0, times[<<a \div 2, TimesX(b)>>])
        BY <1>4, <3>2
      <4> QED
        BY <4>2, <4>3, <4>4, SumType
    <3> QED
      BY <3>1, <3>2
  <2> HIDE DEF Good
  <2>3. Nat \subseteq Good
    BY <2>1, <2>2, SetInduction
  <2>4. 32 \in Good /\ \A a \in Five : a < 32
    BY <2>3 DEF Five
  <2> QED
    BY <2>4 DEF Good
<1> QED
  BY <1>5, <1>6

(***************************************************************************)
(* Checksums                                                               *)
(***************************************************************************)
\* States of the checksum, and values.
States == [1..6 -> Five]
Fives == Seq(Five)

\* The factor of g(x) at a place.
Feedback(c, j) == Times32(c[1], Generator[j])

\* The coefficients of g(x) are values.
LEMMA GeneratorIn == \A j \in 1..6 : Generator[j] \in Five
<1>1. /\ Generator[1] \in Five /\ Generator[2] \in Five /\ Generator[3] \in Five
      /\ Generator[4] \in Five /\ Generator[5] \in Five /\ Generator[6] \in Five
  BY DEF Generator, Five
<1>2. 1..6 = {1, 2, 3, 4, 5, 6}
  OBVIOUS
<1> QED
  BY <1>1, <1>2, Zenon

\* What a round makes of a state.
LEMMA StepIs ==
    ASSUME NEW c \in States, NEW v \in Five
    PROVE  /\ PolyStep(c, v) \in States
           /\ \A j \in 1..6 : Feedback(c, j) \in Five
           /\ \A j \in 1..5 : PolyStep(c, v)[j] = Add32(c[j + 1], Feedback(c, j))
           /\ PolyStep(c, v)[6] = Add32(v, Feedback(c, 6))
<1> DEFINE d == PolyStep(c, v)
           a(j) == Add32(c[j + 1], Feedback(c, j))
           z == Add32(v, Feedback(c, 6))
<1>1. /\ c[1] \in Five /\ c[2] \in Five /\ c[3] \in Five /\ c[4] \in Five /\ c[5] \in Five /\ c[6] \in Five
  BY DEF States
<1>2. \A j \in 1..6 : Feedback(c, j) \in Five
  BY <1>1, GeneratorIn, TimesType DEF Feedback
<1>3. /\ a(1) = Add32(c[2], Feedback(c, 1)) /\ a(2) = Add32(c[3], Feedback(c, 2))
      /\ a(3) = Add32(c[4], Feedback(c, 3)) /\ a(4) = Add32(c[5], Feedback(c, 4))
      /\ a(5) = Add32(c[6], Feedback(c, 5))
  OBVIOUS
<1>4. d = <<Add32(c[2], Feedback(c, 1)), Add32(c[3], Feedback(c, 2)), Add32(c[4], Feedback(c, 3)),
            Add32(c[5], Feedback(c, 4)), Add32(c[6], Feedback(c, 5)), z>>
  BY DEF PolyStep, Feedback
<1> HIDE DEF a, d, z
<1>5. d = <<a(1), a(2), a(3), a(4), a(5), z>>
  BY <1>3, <1>4
<1>6. /\ d[1] = a(1) /\ d[2] = a(2) /\ d[3] = a(3) /\ d[4] = a(4) /\ d[5] = a(5) /\ d[6] = z
  BY <1>5
<1>7. 1..5 = {1, 2, 3, 4, 5}
  OBVIOUS
<1>8. \A j \in 1..5 : d[j] = a(j)
  BY <1>6, <1>7, Zenon
<1>9. a(1) \in Five /\ a(2) \in Five /\ a(3) \in Five /\ a(4) \in Five /\ a(5) \in Five /\ z \in Five
  BY <1>1, <1>2, <1>3, SumType DEF z
<1>10. d \in States
  BY <1>5, <1>9 DEF States
<1> QED
  BY <1>2, <1>8, <1>6, <1>10 DEF a, d, z

StartState == <<0, 0, 0, 0, 0, 1>>

\* The states of the rounds over t, from c.
Rounds(f, c, t) ==
    /\ f \in [0..Len(t) -> States] /\ f[0] = c
    /\ \A k \in 1..Len(t) : f[k] = PolyStep(f[k - 1], t[k])

\* The state that the checksum starts from.
LEMMA StartIn == StartState \in States
<1>1. 0 \in Five /\ 1 \in Five
  BY DEF Five
<1> QED
  BY <1>1 DEF StartState, States

\* The polynomial of a sequence is the last of its rounds.
LEMMA PolyModIs ==
    ASSUME NEW s \in Fives
    PROVE  \E f : Rounds(f, StartState, s) /\ PolyMod(s) = f[Len(s)]
<1> DEFINE n == Len(s)
           Body(g) == [i \in 0..n |-> IF i = 0 THEN StartState ELSE PolyStep(g[i - 1], s[i])]
           round == CHOOSE g : g = Body(g)
           F == [p \in (1..n) \X States |-> PolyStep(p[2], s[p[1]])]
<1>1. n \in Nat /\ \A k \in 1..n : s[k] \in Five
  BY DEF Fives
<1>2. PolyMod(s) = round[n]
  BY Zenon DEF PolyMod, StartState
<1> HIDE DEF n
<1>3. F \in [(1..n) \X States -> States]
  BY <1>1, StepIs
<1>4. \A k \in 1..n, c \in States : F[<<k, c>>] = PolyStep(c, s[k])
  OBVIOUS
<1> HIDE DEF F
<1>5. Recurses(States, n, StartState, F)
  BY <1>1, <1>3, StartIn, RecursionIn, Zenon
<1>6. PICK f \in [0..n -> States] : f[0] = StartState /\ \A k \in 1..n : f[k] = F[<<k, f[k - 1]>>]
  BY <1>5, Zenon DEF Recurses
<1>7. f = Body(f)
  <2>1. ASSUME NEW i \in 0..n PROVE f[i] = IF i = 0 THEN StartState ELSE PolyStep(f[i - 1], s[i])
    <3>1. CASE i = 0
      BY <1>6, <3>1
    <3>2. CASE i # 0
      <4>1. i \in 1..n /\ i - 1 \in 0..n
        BY <1>1, <3>2
      <4>2. f[i - 1] \in States
        BY <1>6, <4>1
      <4> QED
        BY <1>4, <1>6, <3>2, <4>1, <4>2
    <3> QED
      BY <3>1, <3>2
  <2> QED
    BY <1>6, <2>1
<1> HIDE DEF Body
<1>8. round = Body(round)
  BY <1>7, Zenon
<1> HIDE DEF round
<1>9. \A i \in 0..n : round[i] = IF i = 0 THEN StartState ELSE PolyStep(round[i - 1], s[i])
  BY <1>8 DEF Body
<1> DEFINE P == {k \in 0..n : round[k] = f[k]}
<1>10. 0 \in P
  BY <1>1, <1>6, <1>9
<1>11. ASSUME NEW k \in 1..n, k - 1 \in P PROVE k \in P
  <2>1. k \in 0..n /\ k - 1 \in 0..n /\ k # 0
    BY <1>1
  <2>2. f[k - 1] \in States
    BY <1>6, <2>1
  <2>3. round[k - 1] = f[k - 1]
    BY <1>11
  <2>4. round[k] = PolyStep(f[k - 1], s[k])
    BY <1>9, <2>1, <2>3
  <2>5. f[k] = PolyStep(f[k - 1], s[k])
    BY <1>4, <1>6, <2>2
  <2> QED
    BY <2>1, <2>4, <2>5
<1> HIDE DEF P
<1>12. \A k \in 0..n : k \in P
  BY <1>1, <1>10, <1>11, RoundByRound
<1>13. round[n] = f[n]
  BY <1>1, <1>12 DEF P
<1>14. \A k \in 1..n : f[k] = PolyStep(f[k - 1], s[k])
  <2> SUFFICES ASSUME NEW k \in 1..n PROVE f[k] = PolyStep(f[k - 1], s[k])
    OBVIOUS
  <2>1. k - 1 \in 0..n
    BY <1>1
  <2> QED
    BY <1>4, <1>6, <2>1
<1>15. Rounds(f, StartState, s)
  BY <1>6, <1>14 DEF Rounds, n
<1> QED
  BY <1>2, <1>13, <1>15 DEF n

\* The checksum of a concatenation goes on from that of its first part.
LEMMA PolyModJoin ==
    ASSUME NEW s \in Fives, NEW t \in Fives
    PROVE  \E f : Rounds(f, PolyMod(s), t) /\ PolyMod(s \o t) = f[Len(t)]
<1> DEFINE u == s \o t
           m == Len(s)
           n == Len(t)
<1>1. /\ u \in Fives /\ Len(u) = m + n /\ m \in Nat /\ n \in Nat
      /\ \A i \in 1..m : u[i] = s[i]
      /\ \A i \in 1..n : u[m + i] = t[i]
  <2>1. s \in Seq(Five) /\ t \in Seq(Five)
    BY DEF Fives
  <2>2. Joined(Five, s, t)
    BY <2>1, JoinIs
  <2> QED
    BY <2>1, <2>2 DEF Joined, Fives
<1> HIDE DEF u
<1>2. PICK g : Rounds(g, StartState, u) /\ PolyMod(u) = g[Len(u)]
  BY <1>1, PolyModIs
<1>3. PICK h : Rounds(h, StartState, s) /\ PolyMod(s) = h[m]
  BY PolyModIs
<1> HIDE DEF m, n
<1>4. /\ g \in [0..(m + n) -> States] /\ g[0] = StartState
      /\ \A k \in 1..(m + n) : g[k] = PolyStep(g[k - 1], u[k])
  BY <1>1, <1>2 DEF Rounds
<1>5. /\ h[0] = StartState /\ \A k \in 1..m : h[k] = PolyStep(h[k - 1], s[k])
  BY <1>3 DEF Rounds, m
<1> DEFINE P == {k \in 0..m : g[k] = h[k]}
<1>6. 0 \in P
  BY <1>1, <1>4, <1>5
<1>7. ASSUME NEW k \in 1..m, k - 1 \in P PROVE k \in P
  <2>1. k \in 0..m /\ k \in 1..(m + n)
    BY <1>1
  <2>2. g[k] = PolyStep(g[k - 1], u[k]) /\ h[k] = PolyStep(h[k - 1], s[k])
    BY <1>4, <1>5, <2>1
  <2>3. g[k - 1] = h[k - 1] /\ u[k] = s[k]
    BY <1>1, <1>7
  <2> QED
    BY <2>1, <2>2, <2>3
<1> HIDE DEF P
<1>8. \A k \in 0..m : k \in P
  BY <1>1, <1>6, <1>7, RoundByRound
<1>9. g[m] = PolyMod(s)
  BY <1>1, <1>3, <1>8 DEF P
<1> DEFINE f == [k \in 0..n |-> g[m + k]]
<1>10. f \in [0..n -> States] /\ f[0] = PolyMod(s) /\ f[n] = g[m + n]
  <2>1. \A k \in 0..n : m + k \in 0..(m + n)
    BY <1>1
  <2>2. 0 \in 0..n /\ n \in 0..n /\ m + 0 = m
    BY <1>1
  <2> QED
    BY <1>4, <1>9, <2>1, <2>2
<1>11. ASSUME NEW k \in 1..n PROVE f[k] = PolyStep(f[k - 1], t[k])
  <2>1. k \in 0..n /\ k - 1 \in 0..n /\ m + k \in 1..(m + n) /\ (m + k) - 1 = m + (k - 1)
    BY <1>1
  <2>2. g[m + k] = PolyStep(g[m + (k - 1)], u[m + k])
    BY <1>4, <2>1
  <2>3. f[k] = g[m + k] /\ f[k - 1] = g[m + (k - 1)]
    BY <2>1
  <2> HIDE DEF f
  <2> QED
    BY <1>1, <2>2, <2>3
<1> HIDE DEF f
<1>12. Rounds(f, PolyMod(s), t)
  BY <1>10, <1>11 DEF Rounds, n
<1>13. PolyMod(u) = f[n]
  BY <1>1, <1>2, <1>10
<1> QED
  BY <1>12, <1>13 DEF u, n

\* The laws as the rounds use them.
LEMMA SumSwap ==
    ASSUME NEW a \in Five, NEW b \in Five, NEW c \in Five
    PROVE  /\ Add32(Add32(a, b), c) = Add32(Add32(a, c), b)
           /\ Add32(a, b) = Add32(b, a)
           /\ Add32(0, a) = a
           /\ Add32(a, Add32(a, b)) = b
<1>1. Laws(a, b, c) /\ Laws(a, c, b) /\ Laws(b, c, a) /\ Laws(a, a, b) /\ Laws(b, a, a)
  BY SumLaws
<1>2. 0 \in Five
  BY DEF Five
<1>3. Laws(0, a, b) /\ Laws(a, 0, b) /\ Laws(0, b, a) /\ Laws(b, 0, a)
  BY <1>2, SumLaws
<1>4. Add32(0, a) = a /\ Add32(0, b) = b
  BY <1>3, Zenon DEF Laws
<1>5. Add32(a, b) = Add32(b, a)
  BY <1>1, Zenon DEF Laws
<1>6. Add32(Add32(a, b), c) = Add32(Add32(a, c), b)
  <2>1. Add32(Add32(a, b), c) = Add32(a, Add32(b, c)) /\ Add32(Add32(a, c), b) = Add32(a, Add32(c, b))
    BY <1>1, Zenon DEF Laws
  <2>2. Add32(b, c) = Add32(c, b)
    BY <1>1, Zenon DEF Laws
  <2> QED
    BY <2>1, <2>2
<1>7. Add32(a, Add32(a, b)) = b
  <2>1. Add32(Add32(a, a), b) = Add32(a, Add32(a, b)) /\ Add32(a, a) = 0
    BY <1>1, Zenon DEF Laws
  <2> QED
    BY <1>4, <2>1
<1> QED
  BY <1>4, <1>5, <1>6, <1>7

\* Two states whose last k places differ by the first k values of u.
Differ(c, e, u, k) ==
    /\ c \in States /\ e \in States
    /\ \A j \in 1..(6 - k) : c[j] = e[j]
    /\ \A i \in 1..k : c[(6 - k) + i] = Add32(e[(6 - k) + i], u[i])

\* A round keeps the difference of two states, and shifts it by one place.
LEMMA DifferStep ==
    ASSUME NEW c, NEW e, NEW u \in States, NEW k \in 0..5, Differ(c, e, u, k)
    PROVE  Differ(PolyStep(c, u[k + 1]), PolyStep(e, 0), u, k + 1)
<1> DEFINE d == PolyStep(c, u[k + 1])
           h == PolyStep(e, 0)
           b(j) == Feedback(e, j)
<1>1. /\ c \in States /\ e \in States
      /\ \A j \in 1..(6 - k) : c[j] = e[j]
      /\ \A i \in 1..k : c[(6 - k) + i] = Add32(e[(6 - k) + i], u[i])
  BY DEF Differ
<1>2. 0 \in Five /\ k + 1 \in 1..6 /\ u[k + 1] \in Five /\ 1 \in 1..(6 - k)
  BY DEF Five, States
<1>3. c[1] = e[1]
  BY <1>1, <1>2
<1>4. \A j \in 1..6 : Feedback(c, j) = b(j)
  BY <1>3 DEF Feedback
<1>5. /\ h \in States /\ \A j \in 1..6 : b(j) \in Five
      /\ \A j \in 1..5 : h[j] = Add32(e[j + 1], b(j))
      /\ h[6] = Add32(0, b(6))
  BY <1>1, <1>2, StepIs
<1>6. /\ d \in States
      /\ \A j \in 1..5 : d[j] = Add32(c[j + 1], Feedback(c, j))
      /\ d[6] = Add32(u[k + 1], Feedback(c, 6))
  BY <1>1, <1>2, StepIs
<1>7. /\ \A j \in 1..5 : d[j] = Add32(c[j + 1], b(j))
      /\ d[6] = Add32(u[k + 1], b(6))
  BY <1>4, <1>6
<1> HIDE DEF d, h, b
<1>8. ASSUME NEW j \in 1..(6 - (k + 1)) PROVE d[j] = h[j]
  <2>1. j \in 1..5 /\ j + 1 \in 1..(6 - k)
    OBVIOUS
  <2> QED
    BY <1>1, <1>5, <1>7, <2>1
<1>9. ASSUME NEW i \in 1..(k + 1) PROVE d[(6 - (k + 1)) + i] = Add32(h[(6 - (k + 1)) + i], u[i])
  <2> DEFINE j == (6 - (k + 1)) + i
  <2>1. CASE i = k + 1
    <3>1. j = 6
      BY <2>1
    <3>2. b(6) \in Five
      BY <1>5
    <3>3. d[6] = Add32(u[k + 1], b(6)) /\ h[6] = b(6)
      BY <1>2, <1>5, <1>7, <3>2, SumSwap
    <3>4. Add32(u[k + 1], b(6)) = Add32(b(6), u[k + 1])
      BY <1>2, <3>2, SumSwap
    <3> HIDE DEF j
    <3> QED
      BY <2>1, <3>1, <3>3, <3>4 DEF j
  <2>2. CASE i # k + 1
    <3>1. i \in 1..k /\ j \in 1..5 /\ j + 1 = (6 - k) + i /\ j + 1 \in 1..6 /\ i \in 1..6
      BY <2>2
    <3> HIDE DEF j
    <3>2. e[j + 1] \in Five /\ u[i] \in Five /\ b(j) \in Five
      BY <1>1, <1>5, <3>1 DEF States
    <3>3. d[j] = Add32(Add32(e[j + 1], u[i]), b(j))
      BY <1>1, <1>7, <3>1
    <3>4. h[j] = Add32(e[j + 1], b(j))
      BY <1>5, <3>1
    <3>5. d[j] = Add32(h[j], u[i])
      BY <3>2, <3>3, <3>4, SumSwap
    <3> QED
      BY <3>5 DEF j
  <2> QED
    BY <2>1, <2>2
<1> QED
  BY <1>5, <1>6, <1>8, <1>9 DEF Differ, d, h

Zeros == <<0, 0, 0, 0, 0, 0>>

\* Six zeroes.
LEMMA ZerosIn == Zeros \in Fives /\ Len(Zeros) = 6 /\ \A k \in 1..6 : Zeros[k] = 0
<1>1. 0 \in Five
  BY DEF Five
<1>2. 1..6 = {1, 2, 3, 4, 5, 6}
  OBVIOUS
<1>3. /\ Zeros[1] = 0 /\ Zeros[2] = 0 /\ Zeros[3] = 0 /\ Zeros[4] = 0 /\ Zeros[5] = 0 /\ Zeros[6] = 0
  BY DEF Zeros
<1>4. \A k \in 1..6 : Zeros[k] = 0
  BY <1>2, <1>3, Zenon
<1>5. Zeros \in Seq(Five) /\ Len(Zeros) = 6
  BY <1>1 DEF Zeros
<1> QED
  BY <1>4, <1>5 DEF Fives

\* Six more values are added to what six zeroes make.
LEMMA SixMore ==
    ASSUME NEW s \in Fives, NEW u \in Fives, Len(u) = 6
    PROVE  /\ PolyMod(s \o Zeros) \in States
           /\ PolyMod(s \o u) = Difference(PolyMod(s \o Zeros), u)
<1>1. PICK f : Rounds(f, PolyMod(s), u) /\ PolyMod(s \o u) = f[Len(u)]
  BY PolyModJoin
<1>2. PICK g : Rounds(g, PolyMod(s), Zeros) /\ PolyMod(s \o Zeros) = g[Len(Zeros)]
  BY ZerosIn, PolyModJoin
<1>3. /\ f \in [0..6 -> States] /\ f[0] = PolyMod(s) /\ \A k \in 1..6 : f[k] = PolyStep(f[k - 1], u[k])
  BY <1>1 DEF Rounds
<1>4. /\ g \in [0..6 -> States] /\ g[0] = PolyMod(s) /\ \A k \in 1..6 : g[k] = PolyStep(g[k - 1], 0)
  BY <1>2, ZerosIn DEF Rounds
<1>5. u \in States
  <2>1. \A v \in Seq(Five) : v \in [1..Len(v) -> Five]
    OBVIOUS
  <2> QED
    BY <2>1 DEF Fives, States
<1> DEFINE P == {k \in 0..6 : Differ(f[k], g[k], u, k)}
<1>6. 0 \in P
  <2>1. f[0] \in States /\ g[0] \in States /\ f[0] = g[0]
    BY <1>3, <1>4
  <2> QED
    BY <2>1 DEF Differ
<1>7. ASSUME NEW k \in 1..6, k - 1 \in P PROVE k \in P
  <2>1. k - 1 \in 0..5 /\ (k - 1) + 1 = k /\ k \in 0..6
    OBVIOUS
  <2>2. Differ(f[k - 1], g[k - 1], u, k - 1)
    BY <1>7
  <2>3. Differ(PolyStep(f[k - 1], u[k]), PolyStep(g[k - 1], 0), u, k)
    BY <1>5, <2>1, <2>2, DifferStep
  <2>4. f[k] = PolyStep(f[k - 1], u[k]) /\ g[k] = PolyStep(g[k - 1], 0)
    BY <1>3, <1>4
  <2>5. Differ(f[k], g[k], u, k)
    BY <2>3, <2>4
  <2> QED
    BY <2>1, <2>5
<1> HIDE DEF P
<1>8. \A k \in 0..6 : k \in P
  BY <1>6, <1>7, RoundByRound, 6 \in Nat
<1>9. Differ(f[6], g[6], u, 6)
  BY <1>8 DEF P
<1>10. f[6] \in States /\ g[6] \in States /\ \A i \in 1..6 : f[6][i] = Add32(g[6][i], u[i])
  <2>1. \A i \in 1..6 : (6 - 6) + i = i
    OBVIOUS
  <2> QED
    BY <1>9, <2>1 DEF Differ
<1>11. PolyMod(s \o u) = f[6] /\ PolyMod(s \o Zeros) = g[6]
  BY <1>1, <1>2, ZerosIn
<1> DEFINE x == f[6]
           y == g[6]
<1> HIDE DEF x, y
<1>12. x \in States /\ y \in States /\ \A i \in 1..6 : x[i] = Add32(y[i], u[i])
  BY <1>10 DEF x, y
<1>13. x = [i \in 1..6 |-> Add32(y[i], u[i])]
  BY <1>12 DEF States
<1> QED
  BY <1>11, <1>12, <1>13 DEF x, y, Difference

\* The difference of two states is a state, and taken twice it is the other.
LEMMA DifferenceIs ==
    ASSUME NEW c \in States, NEW d \in States
    PROVE  /\ Difference(c, d) \in States
           /\ \A i \in 1..6 : Difference(c, d)[i] = Add32(c[i], d[i])
           /\ Difference(c, Difference(c, d)) = d
<1> DEFINE x == Difference(c, d)
<1>1. \A i \in 1..6 : c[i] \in Five /\ d[i] \in Five
  BY DEF States
<1>2. \A i \in 1..6 : Add32(c[i], d[i]) \in Five
  BY <1>1, SumType
<1>3. x \in States /\ \A i \in 1..6 : x[i] = Add32(c[i], d[i])
  BY <1>2 DEF Difference, States
<1> HIDE DEF x
<1>4. \A i \in 1..6 : Add32(c[i], x[i]) = d[i]
  BY <1>1, <1>3, SumSwap
<1>5. Difference(c, x) = [i \in 1..6 |-> d[i]]
  BY <1>4 DEF Difference
<1>6. [i \in 1..6 |-> d[i]] = d
  BY DEF States
<1> QED
  BY <1>3, <1>5, <1>6 DEF x

\* The states that stand for the encodings.
LEMMA ConstantsIn ==
    /\ \A encoding : EncodingConstant(encoding) \in States
    /\ EncodingConstant(BECH32) # EncodingConstant(BECH32M)
<1>1. \A x \in {0, 1, 3, 5, 12, 16, 21, 28} : x \in Five
  BY DEF Five
<1>2. <<0, 0, 0, 0, 0, 1>> \in States /\ <<21, 28, 16, 12, 5, 3>> \in States
  BY <1>1 DEF States
<1>3. <<0, 0, 0, 0, 0, 1>> # <<21, 28, 16, 12, 5, 3>>
  OBVIOUS
<1>4. BECH32 # BECH32M
  BY DEF BECH32, BECH32M
<1> QED
  BY <1>2, <1>3, <1>4, Zenon DEF EncodingConstant

\* What a checksum is of.
Of(hrp, values) == PreparePolynomialCoefficients(hrp, values)

Expanded(hrp) == [i \in DOMAIN hrp |-> hrp[i] \div 32] \o <<0>> \o [i \in DOMAIN hrp |-> hrp[i] % 32]

\* The expanded prefix consists of values.
LEMMA ExpandedIn ==
    ASSUME NEW hrp \in Octets
    PROVE  Expanded(hrp) \in Fives
<1> DEFINE a(i) == hrp[i] \div 32
           b(i) == hrp[i] % 32
           n == Len(hrp)
           x == [i \in 1..n |-> a(i)]
           y == [i \in 1..n |-> b(i)]
<1>1. n \in Nat /\ \A i \in 1..n : hrp[i] \in Octet
  BY DEF Octets
<1>2. \A o \in Octet : o \div 32 \in Five /\ o % 32 \in Five
  BY DEF Octet, Five
<1>3. \A i \in 1..n : a(i) \in Five /\ b(i) \in Five
  BY <1>1, <1>2
<1> HIDE DEF a, b, n
<1>4. x \in Fives /\ y \in Fives
  BY <1>1, <1>3 DEF Fives
<1>5. <<0>> \in Fives
  BY DEF Fives, Five
<1> HIDE DEF x, y
<1>6. x \o <<0>> \o y \in Fives
  BY <1>4, <1>5 DEF Fives
<1>7. DOMAIN hrp = 1..n
  BY DEF Octets, n
<1> QED
  BY <1>6, <1>7 DEF Expanded, x, y, a, b

\* What is checked of a prefix and values.
LEMMA OfJoin ==
    ASSUME NEW hrp \in Octets, NEW values \in Fives, NEW u \in Fives
    PROVE  /\ Of(hrp, values) \in Fives
           /\ Of(hrp, values \o u) = Of(hrp, values) \o u
<1> DEFINE x == Expanded(hrp)
<1>1. x \in Fives /\ \A v : Of(hrp, v) = x \o v
  BY ExpandedIn DEF Of, PreparePolynomialCoefficients, Expanded
<1> HIDE DEF x
<1>2. x \o (values \o u) = (x \o values) \o u
  <2>1. x \in Seq(Five) /\ values \in Seq(Five) /\ u \in Seq(Five)
    BY <1>1 DEF Fives
  <2>2. (x \o values) \o u = x \o (values \o u)
    BY <2>1, ConcatAssociative
  <2> QED
    BY <2>2
<1>3. x \o values \in Fives
  BY <1>1 DEF Fives
<1> QED
  BY <1>1, <1>2, <1>3

\* The checksum written is the one that is accepted,
LEMMA ChecksumAccepted ==
    ASSUME NEW hrp \in Octets, NEW values \in Fives, NEW encoding \in {BECH32, BECH32M}
    PROVE  /\ CreateChecksum(encoding, hrp, values) \in Fives
           /\ Len(CreateChecksum(encoding, hrp, values)) = 6
           /\ VerifyChecksum(hrp, values \o CreateChecksum(encoding, hrp, values)) = encoding
<1> DEFINE s == Of(hrp, values)
           c == PolyMod(s \o Zeros)
           k == EncodingConstant(encoding)
           u == Difference(c, k)
<1>1. CreateChecksum(encoding, hrp, values) = u
  BY DEF CreateChecksum, Of, Zeros
<1>2. s \in Fives /\ k \in States
  BY OfJoin, ConstantsIn, ZerosIn
<1>3. c \in States
  BY <1>2, SixMore, ZerosIn
<1> HIDE DEF s, c, k
<1>4. u \in States /\ Difference(c, u) = k
  BY <1>2, <1>3, DifferenceIs
<1> HIDE DEF u
<1>5. u \in Fives /\ Len(u) = 6
  <2>1. \A n \in Nat : \A v \in [1..n -> Five] : v \in Seq(Five) /\ Len(v) = n
    OBVIOUS
  <2>2. 6 \in Nat
    OBVIOUS
  <2> QED
    BY <1>4, <2>1, <2>2, Zenon DEF States, Fives
<1>6. PolyMod(Of(hrp, values \o u)) = k
  <2>1. Of(hrp, values \o u) = s \o u
    BY <1>5, OfJoin DEF s
  <2>2. PolyMod(s \o u) = Difference(c, u)
    BY <1>2, <1>5, SixMore DEF c
  <2> QED
    BY <1>4, <2>1, <2>2
<1>7. VerifyChecksum(hrp, values \o u) =
          IF k = EncodingConstant(BECH32) THEN BECH32
          ELSE IF k = EncodingConstant(BECH32M) THEN BECH32M ELSE INVALID
  BY <1>6 DEF VerifyChecksum, Of
<1>8. VerifyChecksum(hrp, values \o u) = encoding
  BY <1>7, ConstantsIn DEF k
<1> QED
  BY <1>1, <1>5, <1>8

\* and the only one.
LEMMA ChecksumOnly ==
    ASSUME NEW hrp \in Octets, NEW values \in Fives, NEW u \in Fives, Len(u) = 6,
           NEW encoding, encoding = VerifyChecksum(hrp, values \o u), encoding # INVALID
    PROVE  u = CreateChecksum(encoding, hrp, values)
<1> DEFINE s == Of(hrp, values)
           c == PolyMod(s \o Zeros)
           k == EncodingConstant(encoding)
<1>1. CreateChecksum(encoding, hrp, values) = Difference(c, k)
  BY DEF CreateChecksum, Of, Zeros
<1>2. s \in Fives /\ k \in States
  BY OfJoin, ConstantsIn
<1>3. c \in States /\ PolyMod(s \o u) = Difference(c, u)
  BY <1>2, SixMore
<1>4. PolyMod(Of(hrp, values \o u)) = Difference(c, u)
  <2>1. Of(hrp, values \o u) = s \o u
    BY OfJoin
  <2> QED
    BY <1>3, <2>1
<1> HIDE DEF s, c
<1>5. Difference(c, u) = k
  <2> DEFINE x == Difference(c, u)
  <2>1. encoding = IF x = EncodingConstant(BECH32) THEN BECH32
                   ELSE IF x = EncodingConstant(BECH32M) THEN BECH32M ELSE INVALID
    BY <1>4 DEF VerifyChecksum, Of
  <2> HIDE DEF x
  <2>2. x = EncodingConstant(encoding)
    BY <2>1
  <2> QED
    BY <2>2 DEF x
<1>6. u \in States
  <2>1. \A v \in Seq(Five) : v \in [1..Len(v) -> Five]
    OBVIOUS
  <2> QED
    BY <2>1 DEF Fives, States
<1>7. Difference(c, k) = u
  BY <1>3, <1>5, <1>6, DifferenceIs
<1> QED
  BY <1>1, <1>7

(***************************************************************************)
(* Lines: a human readable part, the separator, and characters of values   *)
(***************************************************************************)
\* A character that stands in a human readable part.
Prefix == (33..126) \ (65..90)

IsHrp(h) == h \in Octets /\ Len(h) >= 1 /\ \A i \in 1..Len(h) : h[i] \in Prefix

\* The separator can stand in a prefix.
LEMMA SeparatorIs == Separator = 49 /\ 49 \in Prefix /\ 49 \in Octet
BY DEF Separator, Prefix, Octet

\* The characters of values, and the values of those characters.
LEMMA CharsIs ==
    ASSUME NEW w \in Fives
    PROVE  /\ Chars(w) \in Octets /\ Len(Chars(w)) = Len(w)
           /\ \A i \in 1..Len(w) : /\ Chars(w)[i] = CHARSET[w[i] + 1]
                                   /\ Chars(w)[i] \in Prefix /\ Chars(w)[i] # 49
           /\ Values(Chars(w)) = w
<1> DEFINE n == Len(w)
           e(i) == CHARSET[w[i] + 1]
           x == [i \in 1..n |-> e(i)]
<1>1. n \in Nat /\ DOMAIN w = 1..n /\ \A i \in 1..n : w[i] \in Five
  BY DEF Fives
<1>2. \A v \in Five : /\ CHARSET[v + 1] \in Octet /\ CHARSET[v + 1] \in Prefix
                      /\ CHARSET[v + 1] # 49 /\ CHARSET_REV[CHARSET[v + 1]] = v
  <2> SUFFICES ASSUME NEW v \in Five
               PROVE  /\ CHARSET[v + 1] \in Octet /\ CHARSET[v + 1] \in Prefix
                      /\ CHARSET[v + 1] # 49 /\ CHARSET_REV[CHARSET[v + 1]] = v
    OBVIOUS
  <2>1. v + 1 \in 1..32
    BY DEF Five
  <2>2. CHARSET[v + 1] \in Plain /\ CHARSET[v + 1] # 49
    BY <2>1, CharsetPlain
  <2>3. \A c \in Plain : c \in Octet /\ c \in Prefix
    BY DEF Plain, Octet, Prefix
  <2> QED
    BY <2>2, <2>3, RevOf
<1>3. \A i \in 1..n : e(i) \in Octet /\ e(i) \in Prefix /\ e(i) # 49 /\ CHARSET_REV[e(i)] = w[i]
  BY <1>1, <1>2
<1>4. Chars(w) = x
  BY <1>1 DEF Chars
<1> HIDE DEF n, e
<1>5. x \in Seq(Octet) /\ Len(x) = n /\ DOMAIN x = 1..n /\ \A i \in 1..n : x[i] = e(i)
  BY <1>1, <1>3
<1> HIDE DEF x
<1>6. Values(x) = [i \in 1..n |-> w[i]]
  BY <1>3, <1>5 DEF Values
<1>7. [i \in 1..n |-> w[i]] = w
  BY DEF Fives, n
<1> QED
  BY <1>3, <1>4, <1>5, <1>6, <1>7 DEF Octets, n, e

\* A string with a human readable part and values.
Line(h, w) == h \o <<Separator>> \o Chars(w)

\* The characters of a line.
LEMMA LineIs ==
    ASSUME NEW h \in Octets, NEW w \in Fives
    PROVE  /\ Line(h, w) \in Octets /\ Len(Line(h, w)) = Len(h) + 1 + Len(w)
           /\ \A i \in 1..Len(h) : Line(h, w)[i] = h[i]
           /\ Line(h, w)[Len(h) + 1] = 49
           /\ \A i \in 1..Len(w) : Line(h, w)[Len(h) + 1 + i] = Chars(w)[i]
<1> DEFINE x == Chars(w)
           y == h \o <<49>>
           z == y \o x
<1>1. x \in Seq(Octet) /\ Len(x) = Len(w) /\ h \in Seq(Octet) /\ <<49>> \in Seq(Octet)
  BY CharsIs, SeparatorIs DEF Octets
<1>2. Len(w) \in Nat /\ Len(h) \in Nat
  BY DEF Fives, Octets
<1>3. z = Line(h, w)
  BY SeparatorIs DEF Line
<1> HIDE DEF x
<1>4. Joined(Octet, h, <<49>>)
  BY <1>1, JoinIs
<1>5. Len(<<49>>) = 1 /\ <<49>>[1] = 49 /\ 1 \in 1..1
  OBVIOUS
<1>6. y \in Seq(Octet) /\ Len(y) = Len(h) + 1 /\ (\A i \in 1..Len(h) : y[i] = h[i]) /\ y[Len(h) + 1] = 49
  BY <1>4, <1>5 DEF Joined
<1> HIDE DEF y
<1>7. Joined(Octet, y, x)
  BY <1>1, <1>6, JoinIs
<1>8. /\ z \in Seq(Octet) /\ Len(z) = Len(y) + Len(x)
      /\ \A i \in 1..Len(y) : z[i] = y[i]
      /\ \A i \in 1..Len(x) : z[Len(y) + i] = x[i]
  BY <1>7 DEF Joined
<1> HIDE DEF z
<1>9. \A i \in 1..Len(h) : i \in 1..Len(y) /\ z[i] = h[i]
  BY <1>2, <1>6, <1>8
<1>10. z[Len(h) + 1] = 49
  BY <1>2, <1>6, <1>8
<1>11. z \in Octets /\ Len(z) = Len(h) + 1 + Len(w) /\ \A i \in 1..Len(w) : z[Len(h) + 1 + i] = x[i]
  BY <1>1, <1>6, <1>8 DEF Octets
<1> QED
  BY <1>3, <1>9, <1>10, <1>11 DEF x

\* What the decoders find in a string.
Found(str, h, w) ==
    /\ CheckCharacters(str) /\ LastSeparator(str) = Len(h) + 1
    /\ HrpOf(str) = h /\ DataOf(str) = w

\* The last separator is where there is one and none behind it.
LEMMA LastSeparatorIs ==
    ASSUME NEW str \in Octets, NEW m \in 1..Len(str), str[m] = 49,
           \A j \in (m + 1)..Len(str) : str[j] # 49
    PROVE  LastSeparator(str) = m
<1> DEFINE P(i) == /\ i = 0 \/ str[i] = Separator
                   /\ \A j \in (i + 1)..Len(str) : str[j] # Separator
<1>1. Len(str) \in Nat
  BY DEF Octets
<1>2. m \in 0..Len(str) /\ P(m)
  BY <1>1, SeparatorIs
<1>3. \A i \in 0..Len(str) : P(i) => i = m
  <2> SUFFICES ASSUME NEW i \in 0..Len(str), P(i), i # m PROVE FALSE
    OBVIOUS
  <2>1. CASE i < m
    <3>1. m \in (i + 1)..Len(str)
      BY <1>1, <2>1
    <3> QED
      BY <3>1, SeparatorIs
  <2>2. CASE i > m
    <3>1. i \in (m + 1)..Len(str) /\ i # 0
      BY <1>1, <2>2
    <3> QED
      BY <3>1, SeparatorIs
  <2> QED
    BY <1>1, <2>1, <2>2
<1>4. LastSeparator(str) = CHOOSE i \in 0..Len(str) : P(i)
  BY DEF LastSeparator
<1> HIDE DEF P
<1> QED
  BY <1>2, <1>3, <1>4

\* A string without capitals in the range of characters is sound.
LEMMA SoundCharacters ==
    ASSUME NEW str \in Octets, \A i \in 1..Len(str) : str[i] \in Prefix
    PROVE  CheckCharacters(str)
<1>1. DOMAIN str = 1..Len(str) /\ Len(str) \in Nat
  BY DEF Octets
<1>2. \A c \in Prefix : ~(c < 33) /\ ~(c > 126) /\ ~IsUpper(c)
  BY DEF Prefix, IsUpper
<1>3. ASSUME NEW i \in DOMAIN str PROVE i \notin BadCharacters(str)
  <2>1. str[i] \in Prefix /\ \A j \in 1..(i - 1) : str[j] \in Prefix
    BY <1>1
  <2> QED
    BY <1>2, <2>1 DEF BadCharacters
<1>4. BadCharacters(str) \subseteq DOMAIN str
  BY DEF BadCharacters
<1> QED
  BY <1>3, <1>4 DEF CheckCharacters

\* A prefix is in lower case.
LEMMA LowerOfPrefix ==
    ASSUME NEW c \in Prefix PROVE LowerCase(c) = c
BY DEF Prefix, LowerCase, IsUpper

\* What is written is found.
LEMMA LineFound ==
    ASSUME NEW h, IsHrp(h), NEW w \in Fives
    PROVE  Found(Line(h, w), h, w)
<1> DEFINE str == Line(h, w)
           n == Len(h)
           m == n + 1
<1>1. h \in Octets /\ n \in Nat /\ n >= 1 /\ \A i \in 1..n : h[i] \in Prefix
  BY DEF IsHrp, Octets
<1>2. Len(w) \in Nat
  BY DEF Fives
<1>3. /\ str \in Octets /\ Len(str) = n + 1 + Len(w)
      /\ \A i \in 1..n : str[i] = h[i]
      /\ str[n + 1] = 49
      /\ \A i \in 1..Len(w) : str[n + 1 + i] = Chars(w)[i]
  BY <1>1, LineIs
<1>4. /\ Chars(w) \in Octets /\ Len(Chars(w)) = Len(w) /\ Values(Chars(w)) = w
      /\ \A i \in 1..Len(w) : Chars(w)[i] \in Prefix /\ Chars(w)[i] # 49
  BY CharsIs
<1> HIDE DEF str, n
<1>5. \A i \in 1..Len(str) : i \in 1..n \/ i = n + 1 \/ (i - (n + 1) \in 1..Len(w) /\ n + 1 + (i - (n + 1)) = i)
  BY <1>1, <1>2, <1>3
<1>6. \A i \in 1..Len(str) : str[i] \in Prefix
  <2> SUFFICES ASSUME NEW i \in 1..Len(str) PROVE str[i] \in Prefix
    OBVIOUS
  <2>1. CASE i \in 1..n
    BY <1>1, <1>3, <2>1
  <2>2. CASE i = n + 1
    BY <1>3, <2>2, SeparatorIs
  <2>3. CASE i - (n + 1) \in 1..Len(w) /\ n + 1 + (i - (n + 1)) = i
    BY <1>3, <1>4, <2>3
  <2> QED
    BY <1>5, <2>1, <2>2, <2>3
<1>7. CheckCharacters(str)
  BY <1>3, <1>6, SoundCharacters
<1>8. m \in 1..Len(str) /\ \A j \in (m + 1)..Len(str) : str[j] # 49
  <2>1. m \in 1..Len(str)
    BY <1>1, <1>2, <1>3
  <2>2. \A j \in (m + 1)..Len(str) : j - (n + 1) \in 1..Len(w) /\ n + 1 + (j - (n + 1)) = j
    BY <1>1, <1>2, <1>3
  <2>3. ASSUME NEW j \in (m + 1)..Len(str) PROVE str[j] # 49
    BY <1>3, <1>4, <2>2
  <2> QED
    BY <2>1, <2>3
<1>9. LastSeparator(str) = n + 1
  BY <1>3, <1>8, LastSeparatorIs
<1>10. HrpOf(str) = h
  <2>1. SubSeq(str, 1, n) = h
    <3>1. str \in Seq(Octet) /\ h \in Seq(Octet) /\ n = Len(h) /\ n <= Len(str) /\ Len(str) \in Nat
      BY <1>1, <1>2, <1>3 DEF n, Octets
    <3> DEFINE p == SubSeq(str, 1, n)
    <3>2. p \in Seq(Octet) /\ Len(p) = n /\ \A i \in 1..n : p[i] = str[i]
      BY <1>1, <3>1
    <3> HIDE DEF p
    <3>3. p = h
      BY <1>1, <1>3, <3>1, <3>2
    <3> QED
      BY <3>3 DEF p
  <2>2. (n + 1) - 1 = n
    BY <1>1
  <2>3. HrpOf(str) = LowerCased(h)
    BY <1>9, <2>1, <2>2 DEF HrpOf
  <2>4. DOMAIN h = 1..n
    BY <1>1 DEF Octets, n
  <2>5. \A i \in 1..n : LowerCase(h[i]) = h[i]
    BY <1>1, LowerOfPrefix
  <2>6. LowerCased(h) = [i \in 1..n |-> h[i]]
    BY <2>4, <2>5 DEF LowerCased
  <2>7. [i \in 1..n |-> h[i]] = h
    BY <1>1 DEF Octets, n
  <2> QED
    BY <2>3, <2>6, <2>7
<1>11. DataOf(str) = w
  <2>1. SubSeq(str, n + 1 + 1, Len(str)) = Chars(w)
    <3> DEFINE p == SubSeq(str, n + 1 + 1, Len(str))
               x == Chars(w)
    <3>1. str \in Seq(Octet) /\ x \in Seq(Octet) /\ Len(x) = Len(w)
      BY <1>3, <1>4 DEF Octets
    <3>2. n + 1 + 1 \in 1..(Len(str) + 1) /\ Len(str) - (n + 1) = Len(w) /\ Len(str) \in Nat
      BY <1>1, <1>2, <1>3
    <3> HIDE DEF x
    <3>3. p \in Seq(Octet) /\ Len(p) = Len(w) /\ \A i \in 1..Len(w) : p[i] = str[n + 1 + i]
      BY <1>1, <1>2, <3>1, <3>2
    <3> HIDE DEF p
    <3>4. \A i \in 1..Len(w) : p[i] = x[i]
      BY <1>3, <3>3 DEF x
    <3>5. p = x
      BY <3>1, <3>3, <3>4
    <3> QED
      BY <3>5 DEF p, x
  <2> QED
    BY <1>4, <1>9, <2>1 DEF DataOf
<1> QED
  BY <1>7, <1>9, <1>10, <1>11 DEF Found, n, str

\* The characters of two runs of values.
LEMMA CharsJoin ==
    ASSUME NEW v \in Fives, NEW c \in Fives
    PROVE  v \o c \in Fives /\ Len(v \o c) = Len(v) + Len(c) /\ Chars(v \o c) = Chars(v) \o Chars(c)
<1> DEFINE w == v \o c
           x == Chars(v)
           y == Chars(c)
           z == Chars(w)
           t == x \o y
<1>1. Joined(Five, v, c)
  BY JoinIs DEF Fives
<1>2. /\ w \in Fives /\ Len(w) = Len(v) + Len(c)
      /\ \A i \in 1..Len(v) : w[i] = v[i]
      /\ \A i \in 1..Len(c) : w[Len(v) + i] = c[i]
  BY <1>1 DEF Joined, Fives
<1> HIDE DEF w
<1>3. /\ x \in Octets /\ Len(x) = Len(v) /\ \A i \in 1..Len(v) : x[i] = CHARSET[v[i] + 1]
      /\ y \in Octets /\ Len(y) = Len(c) /\ \A i \in 1..Len(c) : y[i] = CHARSET[c[i] + 1]
      /\ z \in Octets /\ Len(z) = Len(w) /\ \A i \in 1..Len(w) : z[i] = CHARSET[w[i] + 1]
  BY <1>2, CharsIs
<1> HIDE DEF x, y, z
<1>4. Joined(Octet, x, y)
  BY <1>3, JoinIs DEF Octets
<1>5. /\ t \in Octets /\ Len(t) = Len(v) + Len(c)
      /\ \A i \in 1..Len(v) : t[i] = x[i]
      /\ \A i \in 1..Len(c) : t[Len(v) + i] = y[i]
  BY <1>3, <1>4 DEF Joined, Octets
<1> HIDE DEF t
<1>6. Len(v) \in Nat /\ Len(c) \in Nat
  BY DEF Fives
<1>7. \A i \in 1..Len(v) : i \in 1..Len(w)
  BY <1>2, <1>6
<1>8. \A i \in 1..Len(c) : Len(v) + i \in 1..Len(w)
  BY <1>2, <1>6
<1>9. \A i \in 1..Len(w) : i \in 1..Len(v) \/ (i - Len(v) \in 1..Len(c) /\ Len(v) + (i - Len(v)) = i)
  BY <1>2, <1>6
<1>10. \A i \in 1..Len(v) : z[i] = t[i]
  BY <1>2, <1>3, <1>5, <1>7
<1>11. \A i \in 1..Len(c) : z[Len(v) + i] = t[Len(v) + i]
  BY <1>2, <1>3, <1>5, <1>8
<1>12. \A i \in 1..Len(w) : z[i] = t[i]
  BY <1>9, <1>10, <1>11
<1>13. z = t
  BY <1>2, <1>3, <1>5, <1>12 DEF Octets
<1> QED
  BY <1>2, <1>13 DEF w, x, y, z, t

\* The checksum stands behind the values.
WithChecksum(encoding, h, v) == v \o CreateChecksum(encoding, h, v)

\* A string with a checksum is a line.
LEMMA EncodeIs ==
    ASSUME NEW encoding \in {BECH32, BECH32M}, NEW h \in Octets, NEW v \in Fives
    PROVE  /\ Encode(encoding, h, v) = Line(h, WithChecksum(encoding, h, v))
           /\ WithChecksum(encoding, h, v) \in Fives
           /\ Len(WithChecksum(encoding, h, v)) = Len(v) + 6
           /\ VerifyChecksum(h, WithChecksum(encoding, h, v)) = encoding
           /\ SubSeq(WithChecksum(encoding, h, v), 1, Len(v)) = v
<1> DEFINE c == CreateChecksum(encoding, h, v)
           w == v \o c
           b == h \o <<Separator>>
<1>1. c \in Fives /\ Len(c) = 6 /\ VerifyChecksum(h, w) = encoding
  BY ChecksumAccepted
<1>2. Encode(encoding, h, v) = h \o <<Separator>> \o Chars(v) \o Chars(c)
  BY DEF Encode
<1>3. WithChecksum(encoding, h, v) = w
  BY DEF WithChecksum
<1> HIDE DEF c
<1>4. w \in Fives /\ Len(w) = Len(v) + 6 /\ Chars(w) = Chars(v) \o Chars(c)
  BY <1>1, CharsJoin
<1>5. b \in Seq(Octet) /\ Chars(v) \in Seq(Octet) /\ Chars(c) \in Seq(Octet)
  BY <1>1, CharsIs, SeparatorIs DEF Octets
<1> HIDE DEF b
<1>6. (b \o Chars(v)) \o Chars(c) = b \o (Chars(v) \o Chars(c))
  BY <1>5
<1>7. Encode(encoding, h, v) = Line(h, w)
  BY <1>2, <1>4, <1>6 DEF Line, b
<1>8. SubSeq(w, 1, Len(v)) = v
  <2> DEFINE p == SubSeq(w, 1, Len(v))
  <2>0. Joined(Five, v, c)
    BY <1>1, JoinIs DEF Fives
  <2>1. /\ w \in Seq(Five) /\ v \in Seq(Five) /\ Len(v) \in Nat /\ Len(v) <= Len(w)
        /\ \A i \in 1..Len(v) : w[i] = v[i]
    BY <1>4, <2>0 DEF Fives, Joined
  <2> HIDE DEF w
  <2>2. p \in Seq(Five) /\ Len(p) = Len(v) /\ \A i \in 1..Len(v) : p[i] = w[i]
    BY <2>1
  <2> HIDE DEF p
  <2>3. p = v
    BY <2>1, <2>2
  <2> QED
    BY <2>3 DEF p
<1> QED
  BY <1>1, <1>3, <1>4, <1>7, <1>8

\* What is written within the limit can be read.
LEMMA LineReadable ==
    ASSUME NEW h, IsHrp(h), NEW w \in Fives, NEW limit \in Nat, NEW n \in Nat,
           Len(h) + 1 + Len(w) <= limit, n <= Len(w)
    PROVE  Readable(Line(h, w), limit, n)
<1> DEFINE s == Line(h, w)
<1>1. Found(s, h, w)
  BY LineFound
<1>2. Len(s) = Len(h) + 1 + Len(w) /\ Len(h) \in Nat /\ Len(h) >= 1 /\ Len(w) \in Nat
  BY LineIs DEF IsHrp, Octets, Fives
<1>3. \A i \in DOMAIN w : w[i] # -1
  <2>1. \A i \in DOMAIN w : w[i] \in Five
    BY DEF Fives
  <2>2. \A x \in Five : x # -1
    BY DEF Five
  <2> QED
    BY <2>1, <2>2, Zenon
<1> HIDE DEF s
<1>4. /\ CheckCharacters(s) /\ LastSeparator(s) = Len(h) + 1 /\ DataOf(s) = w
  BY <1>1 DEF Found
<1>5. Len(s) <= limit /\ LastSeparator(s) > 1 /\ LastSeparator(s) + n <= Len(s)
  BY <1>2, <1>4
<1>6. Readable(s, limit, n)
  BY <1>3, <1>4, <1>5, Zenon DEF Readable
<1> QED
  BY <1>6 DEF s

\* A string that is read as h and v.
ReadsAs(str, encoding, h, v) ==
    Decode(str, CUSTOM_MUTATOR) = [encoding |-> encoding, hrp |-> h, data |-> v]

\* What Encode writes, Decode reads.
LEMMA EncodeReads ==
    ASSUME NEW encoding \in {BECH32, BECH32M}, NEW h, IsHrp(h), NEW v \in Fives,
           Len(Encode(encoding, h, v)) <= CUSTOM_MUTATOR
    PROVE  ReadsAs(Encode(encoding, h, v), encoding, h, v)
<1> DEFINE w == WithChecksum(encoding, h, v)
           s == Line(h, w)
<1>1. /\ Encode(encoding, h, v) = s /\ w \in Fives /\ Len(w) = Len(v) + 6
      /\ VerifyChecksum(h, w) = encoding /\ SubSeq(w, 1, Len(v)) = v
  BY EncodeIs DEF IsHrp
<1> HIDE DEF w
<1>2. Len(s) = Len(h) + 1 + Len(w) /\ Len(h) \in Nat /\ Len(v) \in Nat
  <2>1. h \in Octets
    BY DEF IsHrp
  <2>2. Len(s) = Len(h) + 1 + Len(w)
    BY <1>1, <2>1, LineIs
  <2> QED
    BY <2>1, <2>2 DEF Octets, Fives
<1>3. Found(s, h, w)
  BY <1>1, LineFound
<1>4. 6 <= Len(w) /\ Len(h) + 1 + Len(w) <= CUSTOM_MUTATOR
  <2>1. 6 <= Len(w)
    BY <1>1, <1>2
  <2>2. Len(s) <= CUSTOM_MUTATOR
    BY <1>1
  <2> QED
    BY <1>2, <2>1, <2>2
<1>5. Readable(s, CUSTOM_MUTATOR, 6)
  <2>1. 6 \in Nat /\ CUSTOM_MUTATOR \in Nat
    BY DEF CUSTOM_MUTATOR
  <2> QED
    BY <1>1, <1>4, <2>1, LineReadable
<1> HIDE DEF s
<1>6. HrpOf(s) = h /\ DataOf(s) = w
  BY <1>3 DEF Found
<1>7. encoding # INVALID
  BY DEF BECH32, BECH32M, INVALID
<1>8. Len(w) - 6 = Len(v)
  BY <1>1, <1>2
<1>9. Decode(s, CUSTOM_MUTATOR) = [encoding |-> encoding, hrp |-> h, data |-> v]
  BY <1>1, <1>5, <1>6, <1>7, <1>8 DEF Decode, CHECKSUM_SIZE
<1> QED
  BY <1>1, <1>9 DEF ReadsAs

\* What EncodeNoChecksum writes, DecodeNoChecksum reads.
LEMMA PlainReads ==
    ASSUME NEW h, IsHrp(h), NEW v \in Fives, Len(EncodeNoChecksum(h, v)) <= CUSTOM_MUTATOR
    PROVE  DecodeNoChecksum(EncodeNoChecksum(h, v), CUSTOM_MUTATOR) =
               [encoding |-> BECH32, hrp |-> h, data |-> v]
<1> DEFINE s == Line(h, v)
<1>1. EncodeNoChecksum(h, v) = s
  BY DEF Line, EncodeNoChecksum
<1>2. Len(s) = Len(h) + 1 + Len(v)
  BY LineIs DEF IsHrp
<1>3. Len(v) \in Nat /\ 0 \in Nat /\ 0 <= Len(v) /\ CUSTOM_MUTATOR \in Nat
  BY DEF CUSTOM_MUTATOR, Fives
<1>4. Readable(s, CUSTOM_MUTATOR, 0)
  BY <1>1, <1>2, <1>3, LineReadable
<1>5. Found(s, h, v)
  BY LineFound
<1> HIDE DEF s
<1> QED
  BY <1>1, <1>4, <1>5 DEF DecodeNoChecksum, Found

\* What the search from behind finds.
IsLast(str, m) ==
    /\ m \in 0..Len(str)
    /\ m = 0 \/ str[m] = Separator
    /\ \A j \in (m + 1)..Len(str) : str[j] # Separator

\* The search for the separator finds the last one.
LEMMA SearchFinds ==
    ASSUME NEW str \in Octets
    PROVE  IsLast(str, LastSeparator(str))
<1> DEFINE n == Len(str)
           P(i, k) == /\ i = 0 \/ str[i] = Separator
                      /\ \A j \in (i + 1)..k : str[j] # Separator
           G(k) == \E i \in 0..k : P(i, k)
           Good == {k \in Nat : G(k)}
<1>1. n \in Nat
  BY DEF Octets
<1>2. 0 \in Good
  OBVIOUS
<1>3. \A k \in Nat : k \in Good => k + 1 \in Good
  <2> SUFFICES ASSUME NEW k \in Nat, k \in Good PROVE k + 1 \in Good
    OBVIOUS
  <2>1. PICK i \in 0..k : P(i, k)
    OBVIOUS
  <2>2. CASE str[k + 1] = Separator
    <3>1. P(k + 1, k + 1) /\ k + 1 \in 0..(k + 1)
      BY <2>2
    <3> QED
      BY <3>1
  <2>3. CASE str[k + 1] # Separator
    <3>1. \A j \in (i + 1)..(k + 1) : j \in (i + 1)..k \/ j = k + 1
      OBVIOUS
    <3>2. P(i, k + 1) /\ i \in 0..(k + 1)
      BY <2>1, <2>3, <3>1
    <3> QED
      BY <3>2
  <2> QED
    BY <2>2, <2>3
<1> HIDE DEF Good
<1>4. Nat \subseteq Good
  BY <1>2, <1>3, SetInduction
<1>5. G(n)
  BY <1>1, <1>4 DEF Good
<1>6. LastSeparator(str) = CHOOSE i \in 0..n : P(i, n)
  BY DEF LastSeparator
<1> HIDE DEF P, n
<1>7. LastSeparator(str) \in 0..n /\ P(LastSeparator(str), n)
  BY <1>5, <1>6
<1> QED
  BY <1>7 DEF IsLast, P, n

Visible == 33..126

\* The characters of a sound string are in range.
LEMMA InRange ==
    ASSUME NEW str \in Octets, CheckCharacters(str)
    PROVE  \A i \in 1..Len(str) : str[i] \in Visible
<1> SUFFICES ASSUME NEW i \in 1..Len(str) PROVE str[i] \in Visible
  OBVIOUS
<1>1. i \in DOMAIN str /\ str[i] \in Octet
  BY DEF Octets
<1>2. i \notin BadCharacters(str)
  BY DEF CheckCharacters
<1>3. ~(str[i] < 33) /\ ~(str[i] > 126)
  BY <1>1, <1>2, Zenon DEF BadCharacters
<1> QED
  <2>1. \A c \in Octet : ~(c < 33) /\ ~(c > 126) => c \in Visible
    BY DEF Octet, Visible
  <2> QED
    BY <1>1, <1>3, <2>1, Zenon

\* What is read of a string, and what a reader of it has to know.
IsRead(str, h, w, n) ==
    /\ IsHrp(h) /\ w \in Fives
    /\ HrpOf(str) = h /\ DataOf(str) = w
    /\ Len(w) >= n
    /\ Len(str) = Len(h) + 1 + Len(w)
    /\ LowerCased(str) = Line(h, w)

\* What a string consists of that a decoder can read.
LEMMA ReadableIs ==
    ASSUME NEW str \in Octets, NEW limit, NEW n \in Nat, Readable(str, limit, n)
    PROVE  IsRead(str, HrpOf(str), DataOf(str), n)
<1> DEFINE m == LastSeparator(str)
           h == HrpOf(str)
           w == DataOf(str)
           k == m - 1
           t == Len(str) - m
           a == SubSeq(str, 1, m - 1)
           b == SubSeq(str, m + 1, Len(str))
<1>1. /\ CheckCharacters(str) /\ m > 1 /\ m + n <= Len(str)
      /\ \A i \in DOMAIN w : w[i] # -1
  BY DEF Readable
<1>2. Len(str) \in Nat /\ str \in Seq(Octet)
  BY DEF Octets
<1>3. IsLast(str, m)
  BY SearchFinds
<1>4. \A i \in 1..Len(str) : str[i] \in Visible
  BY <1>1, InRange
<1>5. h = LowerCased(a) /\ w = Values(b)
  BY DEF HrpOf, DataOf
<1> HIDE DEF m, h, w
<1>6. m \in Nat /\ m >= 2 /\ m <= Len(str) /\ str[m] = 49
  BY <1>1, <1>2, <1>3, SeparatorIs DEF IsLast
<1>7. k \in Nat /\ t \in Nat /\ k >= 1 /\ t >= n /\ Len(str) = k + 1 + t /\ m = k + 1
  BY <1>1, <1>2, <1>6
<1> HIDE DEF k, t
<1>8. a \in Seq(Octet) /\ Len(a) = k /\ \A i \in 1..k : a[i] = str[i]
  <2>1. m - 1 = k /\ k <= Len(str) /\ 1 \in 1..(Len(str) + 1)
    BY <1>2, <1>7
  <2> QED
    BY <1>2, <1>7, <2>1
<1>9. b \in Seq(Octet) /\ Len(b) = t /\ \A i \in 1..t : b[i] = str[m + i]
  <2>1. m + 1 = k + 2 /\ k + 2 \in 1..(Len(str) + 1) /\ Len(str) - (k + 2) + 1 = t
    BY <1>2, <1>7
  <2> QED
    BY <1>2, <1>7, <2>1
<1> HIDE DEF a, b
<1>10. \A i \in 1..k : i \in 1..Len(str) /\ a[i] \in Visible
  <2>1. \A i \in 1..k : i \in 1..Len(str)
    BY <1>7
  <2> QED
    BY <2>1, <1>4, <1>8, Zenon
<1>11. \A i \in 1..t : m + i \in 1..Len(str) /\ b[i] \in Visible
  <2>1. \A i \in 1..t : m + i \in 1..Len(str)
    BY <1>7
  <2> QED
    BY <2>1, <1>4, <1>9, Zenon
<1>12. \A c \in Visible : LowerCase(c) \in Octet /\ LowerCase(c) \in Prefix /\ c \in 0..127
  BY DEF LowerCase, IsUpper, Octet, Prefix, Visible
<1>13. h = [i \in 1..k |-> LowerCase(a[i])]
  BY <1>5, <1>8 DEF LowerCased
<1>14. h \in Seq(Octet) /\ Len(h) = k /\ \A i \in 1..k : h[i] = LowerCase(a[i]) /\ h[i] \in Prefix
  <2> DEFINE e(i) == LowerCase(a[i])
  <2>1. \A i \in 1..k : e(i) \in Octet /\ e(i) \in Prefix
    BY <1>10, <1>12, Zenon
  <2> HIDE DEF e
  <2>2. h = [i \in 1..k |-> e(i)]
    BY <1>13 DEF e
  <2>3. h \in Seq(Octet) /\ Len(h) = k /\ \A i \in 1..k : h[i] = e(i) /\ h[i] \in Prefix
    BY <1>7, <2>1, <2>2
  <2> QED
    BY <2>3 DEF e
<1>15. w = [i \in 1..t |-> CHARSET_REV[b[i]]]
  BY <1>5, <1>9 DEF Values
<1>16. \A i \in 1..t : /\ CHARSET_REV[b[i]] \in (-1)..31
                       /\ CHARSET_REV[b[i]] # -1 => CHARSET[CHARSET_REV[b[i]] + 1] = LowerCase(b[i])
  BY <1>11, <1>12, RevIs
<1>17. \A i \in 1..t : w[i] # -1 /\ w[i] = CHARSET_REV[b[i]]
  BY <1>1, <1>15
<1>18. \A x \in (-1)..31 : x # -1 => x \in Five
  BY DEF Five
<1>19. \A i \in 1..t : w[i] \in Five /\ CHARSET[w[i] + 1] = LowerCase(b[i])
  BY <1>16, <1>17, <1>18
<1>20. w \in Seq(Five) /\ Len(w) = t
  <2>1. w = [i \in 1..t |-> w[i]]
    BY <1>15
  <2> QED
    BY <1>7, <1>19, <2>1
<1>21. IsHrp(h) /\ w \in Fives /\ Len(w) >= n /\ Len(str) = Len(h) + 1 + Len(w)
  BY <1>7, <1>14, <1>20 DEF IsHrp, Octets, Fives
<1>22. LowerCased(str) = Line(h, w)
  <2> DEFINE z == Line(h, w)
             l == [i \in 1..Len(str) |-> LowerCase(str[i])]
  <2>1. /\ z \in Octets /\ Len(z) = Len(h) + 1 + Len(w)
        /\ \A i \in 1..Len(h) : z[i] = h[i]
        /\ z[Len(h) + 1] = 49
        /\ \A i \in 1..Len(w) : z[Len(h) + 1 + i] = Chars(w)[i]
    BY <1>21, LineIs DEF IsHrp
  <2>2. \A i \in 1..Len(w) : Chars(w)[i] = CHARSET[w[i] + 1]
    BY <1>21, CharsIs
  <2> HIDE DEF z
  <2>3. \A i \in 1..k : z[i] = LowerCase(str[i])
    BY <2>1, <1>8, <1>14
  <2>4. z[m] = LowerCase(str[m])
    <3>1. z[m] = 49
      BY <2>1, <1>7, <1>14
    <3> QED
      BY <3>1, <1>6 DEF LowerCase, IsUpper
  <2>5. \A i \in 1..t : z[m + i] = LowerCase(str[m + i])
    <3>1. \A i \in 1..t : z[m + i] = Chars(w)[i]
      BY <2>1, <1>7, <1>14, <1>20
    <3>2. \A i \in 1..t : Chars(w)[i] = LowerCase(b[i])
      BY <2>2, <1>19, <1>20
    <3> QED
      BY <3>1, <3>2, <1>9
  <2>6. \A i \in 1..Len(str) : i \in 1..k \/ i = m \/ (i - m \in 1..t /\ m + (i - m) = i)
    BY <1>2, <1>7
  <2>7. \A i \in 1..Len(str) : z[i] = LowerCase(str[i])
    BY <2>3, <2>4, <2>5, <2>6
  <2>8. LowerCased(str) = l
    BY <1>2 DEF LowerCased
  <2>9. z = [i \in 1..Len(str) |-> z[i]]
    BY <2>1, <1>21 DEF Octets
  <2>10. z = l
    BY <2>7, <2>9
  <2> QED
    BY <2>8, <2>10 DEF z
<1> QED
  BY <1>21, <1>22 DEF IsRead, h, w

\* What a decoder gives of a string with a checksum.
IsDecoded(str, limit, d) ==
    /\ d.encoding \in {BECH32, BECH32M}
    /\ IsHrp(d.hrp) /\ d.data \in Fives
    /\ Len(str) = Len(d.hrp) + Len(d.data) + 7
    /\ Len(str) <= limit /\ Readable(str, limit, 6)
    /\ Encode(d.encoding, d.hrp, d.data) = LowerCased(str)

\* A string that decodes is the one that Encode writes, in lower case.
LEMMA DecodeIs ==
    ASSUME NEW str \in Octets, NEW limit, Decode(str, limit).encoding # INVALID
    PROVE  IsDecoded(str, limit, Decode(str, limit))
<1> DEFINE h == HrpOf(str)
           w == DataOf(str)
           n == Len(w) - 6
           v == SubSeq(w, 1, n)
           u == SubSeq(w, n + 1, Len(w))
           e == VerifyChecksum(h, w)
<1>1. Readable(str, limit, 6)
  BY DEF Decode, Undecoded, CHECKSUM_SIZE
<1>2. Decode(str, limit) = IF e = INVALID THEN Undecoded ELSE [encoding |-> e, hrp |-> h, data |-> v]
  BY <1>1 DEF Decode, CHECKSUM_SIZE
<1>3. e # INVALID /\ Decode(str, limit) = [encoding |-> e, hrp |-> h, data |-> v]
  BY <1>2 DEF Undecoded
<1>4. IsRead(str, h, w, 6)
  <2>1. 6 \in Nat
    OBVIOUS
  <2> QED
    BY <1>1, <2>1, ReadableIs
<1>5. e \in {BECH32, BECH32M}
  BY <1>3 DEF VerifyChecksum
<1> HIDE DEF e, h, w
<1>6. /\ IsHrp(h) /\ h \in Octets /\ w \in Seq(Five) /\ Len(w) \in Nat /\ Len(w) >= 6 /\ Len(h) \in Nat
      /\ Len(str) = Len(h) + 1 + Len(w) /\ LowerCased(str) = Line(h, w)
  BY <1>4 DEF IsRead, IsHrp, Octets, Fives
<1>7. n \in Nat /\ n <= Len(w) /\ Len(w) = n + 6
  BY <1>6
<1> HIDE DEF n
<1>8. v \in Seq(Five) /\ Len(v) = n /\ \A i \in 1..n : v[i] = w[i]
  BY <1>6, <1>7
<1>9. u \in Seq(Five) /\ Len(u) = 6 /\ \A i \in 1..6 : u[i] = w[n + i]
  BY <1>6, <1>7
<1> HIDE DEF v, u
<1>10. v \o u = w
  <2> DEFINE z == v \o u
  <2>1. Joined(Five, v, u)
    BY <1>8, <1>9, JoinIs
  <2>2. /\ z \in Seq(Five) /\ Len(z) = n + 6
        /\ \A i \in 1..n : z[i] = v[i]
        /\ \A i \in 1..6 : z[n + i] = u[i]
    BY <1>8, <1>9, <2>1 DEF Joined
  <2> HIDE DEF z
  <2>3. \A i \in 1..Len(w) : i \in 1..n \/ (i - n \in 1..6 /\ n + (i - n) = i)
    BY <1>7
  <2>4. \A i \in 1..n : z[i] = w[i]
    BY <2>2, <1>8
  <2>5. \A i \in 1..6 : z[n + i] = w[n + i]
    BY <2>2, <1>9
  <2>6. \A i \in 1..Len(w) : z[i] = w[i]
    BY <2>3, <2>4, <2>5
  <2>7. z = w
    BY <2>2, <2>6, <1>6, <1>7
  <2> QED
    BY <2>7 DEF z
<1>11. u = CreateChecksum(e, h, v)
  <2>1. VerifyChecksum(h, v \o u) = e
    BY <1>10 DEF e
  <2> QED
    BY <2>1, <1>3, <1>6, <1>8, <1>9, ChecksumOnly DEF Fives
<1>12. Encode(e, h, v) = Line(h, w)
  <2>1. v \in Fives
    BY <1>8 DEF Fives
  <2>2. Encode(e, h, v) = Line(h, WithChecksum(e, h, v))
    BY <2>1, <1>5, <1>6, EncodeIs
  <2> QED
    BY <2>2, <1>10, <1>11 DEF WithChecksum
<1>13. Len(str) = Len(h) + Len(v) + 7
  BY <1>6, <1>7, <1>8
<1> DEFINE d == Decode(str, limit)
<1>14. d.encoding = e /\ d.hrp = h /\ d.data = v
  BY <1>3
<1> HIDE DEF d
<1>15. Len(str) <= limit
  BY <1>1 DEF Readable
<1> QED
  BY <1>1, <1>5, <1>6, <1>8, <1>12, <1>13, <1>14, <1>15 DEF IsDecoded, d, Fives

\* What either decoder gives, of a string it can read or not.
LEMMA DecodedIn ==
    ASSUME NEW str \in Octets, NEW limit
    PROVE  /\ Decode(str, limit).hrp \in Octets /\ Decode(str, limit).data \in Fives
           /\ DecodeNoChecksum(str, limit).hrp \in Octets
           /\ DecodeNoChecksum(str, limit).data \in Fives
<1>1. <<>> \in Octets /\ <<>> \in Fives
  BY DEF Octets, Fives
<1>2. Decode(str, limit).hrp \in Octets /\ Decode(str, limit).data \in Fives
  <2>1. CASE Decode(str, limit).encoding # INVALID
    BY <2>1, DecodeIs DEF IsDecoded, IsHrp
  <2>2. CASE Decode(str, limit).encoding = INVALID
    <3>1. Decode(str, limit) = Undecoded
      BY <2>2 DEF Decode
    <3> QED
      BY <3>1, <1>1 DEF Undecoded
  <2> QED
    BY <2>1, <2>2
<1>3. DecodeNoChecksum(str, limit).hrp \in Octets /\ DecodeNoChecksum(str, limit).data \in Fives
  <2>1. CASE Readable(str, limit, 0)
    <3>1. 0 \in Nat
      OBVIOUS
    <3>2. IsRead(str, HrpOf(str), DataOf(str), 0)
      BY <2>1, <3>1, ReadableIs
    <3>3. DecodeNoChecksum(str, limit) = [encoding |-> BECH32, hrp |-> HrpOf(str), data |-> DataOf(str)]
      BY <2>1 DEF DecodeNoChecksum
    <3> QED
      BY <3>2, <3>3 DEF IsRead, IsHrp
  <2>2. CASE ~Readable(str, limit, 0)
    BY <2>2, <1>1 DEF DecodeNoChecksum, Undecoded
  <2> QED
    BY <2>1, <2>2
<1> QED
  BY <1>2, <1>3

\* A character and its capital.
LEMMA CapitalOf ==
    ASSUME NEW c \in Visible, NEW u, u = IF IsLower(c) THEN c - 32 ELSE c
    PROVE  /\ u \in Visible /\ LowerCase(u) = LowerCase(c) /\ (u = 49 <=> c = 49)
           /\ CHARSET_REV[u] = CHARSET_REV[c]
<1>1. u \in Visible /\ LowerCase(u) = LowerCase(c) /\ (u = 49 <=> c = 49)
  BY DEF Visible, IsLower, LowerCase, IsUpper
<1>2. u \in 0..127 /\ c \in 0..127
  BY <1>1 DEF Visible
<1> QED
  BY <1>1, <1>2, RevEitherCase

\* The parts that the decoders look at.
SameParts(str, u) ==
    /\ Len(u) = Len(str) /\ LastSeparator(u) = LastSeparator(str)
    /\ LastSeparator(str) > 1 => HrpOf(u) = HrpOf(str) /\ DataOf(u) = DataOf(str)

\* They are those of the upper-case form.
LEMMA UpperCaseAlike ==
    ASSUME NEW str \in Octets, CheckCharacters(str)
    PROVE  SameParts(str, UpperCased(str))
<1> DEFINE n == Len(str)
           cap(i) == IF IsLower(str[i]) THEN str[i] - 32 ELSE str[i]
           u == UpperCased(str)
           m == LastSeparator(str)
<1>1. n \in Nat /\ DOMAIN str = 1..n /\ str \in Seq(Octet)
  BY DEF Octets
<1>2. \A i \in 1..n : str[i] \in Visible
  BY InRange
<1>3. u = [i \in 1..n |-> cap(i)]
  BY <1>1 DEF UpperCased
<1>4. \A i \in 1..n : /\ cap(i) \in Visible /\ LowerCase(cap(i)) = LowerCase(str[i])
                      /\ (cap(i) = 49 <=> str[i] = 49) /\ CHARSET_REV[cap(i)] = CHARSET_REV[str[i]]
  BY <1>2, CapitalOf
<1> HIDE DEF cap, u
<1>5. \A x \in Visible : x \in Octet
  BY DEF Visible, Octet
<1>6. u \in Octets /\ Len(u) = n /\ \A i \in 1..n : u[i] = cap(i)
  BY <1>1, <1>3, <1>4, <1>5 DEF Octets
<1>7. IsLast(str, m) /\ IsLast(u, LastSeparator(u))
  BY <1>6, SearchFinds
<1> HIDE DEF n, m
<1>8. /\ m \in 0..n /\ LastSeparator(u) \in 0..n
      /\ m = 0 \/ str[m] = 49
      /\ LastSeparator(u) = 0 \/ u[LastSeparator(u)] = 49
      /\ \A j \in (m + 1)..n : str[j] # 49
      /\ \A j \in (LastSeparator(u) + 1)..n : u[j] # 49
  BY <1>6, <1>7, SeparatorIs DEF IsLast, n
<1>9. \A j \in 1..n : u[j] = 49 <=> str[j] = 49
  BY <1>4, <1>6
<1>10. LastSeparator(u) = m
  <2> DEFINE k == LastSeparator(u)
  <2> HIDE DEF k
  <2>1. CASE k < m
    <3>1. m \in (k + 1)..n /\ m \in 1..n /\ m # 0
      BY <2>1, <1>1, <1>8 DEF k
    <3> QED
      BY <3>1, <1>8, <1>9 DEF k
  <2>2. CASE k > m
    <3>1. k \in (m + 1)..n /\ k \in 1..n /\ k # 0
      BY <2>2, <1>1, <1>8 DEF k
    <3> QED
      BY <3>1, <1>8, <1>9 DEF k
  <2> QED
    BY <1>8, <2>1, <2>2 DEF k
<1> DEFINE a == SubSeq(str, 1, m - 1)
           b == SubSeq(u, 1, m - 1)
           c == SubSeq(str, m + 1, n)
           d == SubSeq(u, m + 1, n)
<1> SUFFICES ASSUME m > 1 PROVE HrpOf(u) = HrpOf(str) /\ DataOf(u) = DataOf(str)
  BY <1>6, <1>10 DEF SameParts, u, m, n
<1> DEFINE k == m - 1
           t == n - m
<1>18. k \in Nat /\ t \in Nat /\ m = k + 1 /\ n = k + 1 + t
  BY <1>1, <1>8
<1> HIDE DEF k, t
<1>11. a = [i \in 1..k |-> str[i]] /\ b = [i \in 1..k |-> u[i]]
  <2>1. m - 1 = k /\ k <= n /\ 1 \in 1..(n + 1)
    BY <1>18
  <2>2. /\ a \in Seq(Octet) /\ Len(a) = k /\ \A i \in 1..k : a[i] = str[i]
        /\ b \in Seq(Octet) /\ Len(b) = k /\ \A i \in 1..k : b[i] = u[i]
    BY <1>1, <1>6, <1>18, <2>1 DEF n, Octets
  <2> HIDE DEF a, b
  <2> QED
    BY <2>2
<1>12. c = [i \in 1..t |-> str[m + i]] /\ d = [i \in 1..t |-> u[m + i]]
  <2>1. m + 1 = k + 2 /\ k + 2 \in 1..(n + 1) /\ n - (k + 2) + 1 = t
    BY <1>18
  <2>2. /\ c \in Seq(Octet) /\ Len(c) = t /\ \A i \in 1..t : c[i] = str[m + i]
        /\ d \in Seq(Octet) /\ Len(d) = t /\ \A i \in 1..t : d[i] = u[m + i]
    BY <1>1, <1>6, <1>18, <2>1 DEF n, Octets
  <2> HIDE DEF c, d
  <2> QED
    BY <2>2
<1>13. /\ \A i \in 1..k : i \in 1..n
       /\ \A i \in 1..t : m + i \in 1..n
  BY <1>18
<1> HIDE DEF a, b, c, d
<1>14. LowerCased(a) = LowerCased(b)
  <2>1. LowerCased(a) = [i \in 1..k |-> LowerCase(str[i])] /\ LowerCased(b) = [i \in 1..k |-> LowerCase(u[i])]
    BY <1>11 DEF LowerCased
  <2>2. \A i \in 1..k : LowerCase(str[i]) = LowerCase(u[i])
    BY <1>4, <1>6, <1>13
  <2> QED
    BY <2>1, <2>2
<1>15. Values(c) = Values(d)
  <2>1. Values(c) = [i \in 1..t |-> CHARSET_REV[str[m + i]]] /\ Values(d) = [i \in 1..t |-> CHARSET_REV[u[m + i]]]
    BY <1>12 DEF Values
  <2>2. \A i \in 1..t : CHARSET_REV[str[m + i]] = CHARSET_REV[u[m + i]]
    BY <1>4, <1>6, <1>13
  <2> QED
    BY <2>1, <2>2
<1>16. HrpOf(u) = HrpOf(str) /\ DataOf(u) = DataOf(str)
  BY <1>6, <1>10, <1>14, <1>15 DEF HrpOf, DataOf, a, b, c, d, m, n
<1> QED
  BY <1>16

\* Both cases are decoded alike.
LEMMA UpperCaseDecodes ==
    ASSUME NEW str \in Octets, NEW limit, CheckCharacters(str), CheckCharacters(UpperCased(str))
    PROVE  Decode(UpperCased(str), limit) = Decode(str, limit)
<1>1. SameParts(str, UpperCased(str))
  BY UpperCaseAlike
<1>2. Readable(UpperCased(str), limit, CHECKSUM_SIZE) = Readable(str, limit, CHECKSUM_SIZE)
  BY <1>1 DEF SameParts, Readable
<1>3. CASE LastSeparator(str) > 1
  BY <1>1, <1>2, <1>3 DEF Decode, SameParts
<1>4. CASE ~(LastSeparator(str) > 1)
  BY <1>2, <1>4 DEF Decode, Readable
<1> QED
  BY <1>3, <1>4

(***************************************************************************)
(* The mutators of text                                                    *)
(***************************************************************************)
\* What the text mutators are given.
LEMMA Corpora ==
    /\ DOMAIN Seeds = {"bolt11", "bolt12"}
    /\ Seeds["bolt11"] \subseteq Octets /\ Seeds["bolt12"] \subseteq Octets
    /\ \A c \in Corrupted : c.text \in Octets
    /\ DummyInvoice \in Octets /\ Decode(DummyInvoice, CUSTOM_MUTATOR).encoding = BECH32
    /\ MaxSizes \subseteq 0..CUSTOM_MUTATOR
    /\ SIZE_MAX \in Nat /\ SIZE_MAX >= 2 * CUSTOM_MUTATOR
    /\ MaxSteps \in Nat
BY TextAssumption DEF Octets, Octet

\* The difference of two sizes is a size, and wraps around only below zero.
LEMMA MinusIs ==
    ASSUME NEW a \in Nat, NEW b \in Nat
    PROVE  Minus(a, b) \in Int /\ (b <= a => Minus(a, b) = a - b)
BY Corpora DEF Minus

\* What libFuzzer makes of bytes is bytes.
MutantsAreBytes == \A d \in Octets : Mutants(d) \subseteq Octets

\* A sequence up to a length.
LEMMA CutIs ==
    ASSUME NEW S, NEW s \in Seq(S), NEW n \in Int
    PROVE  /\ Cut(s, n) \in Seq(S) /\ Len(Cut(s, n)) <= Len(s)
           /\ 0 <= n => Len(Cut(s, n)) <= n
           /\ Len(s) <= n => Cut(s, n) = s
<1>1. Len(s) \in Nat
  OBVIOUS
<1>2. CASE 0 <= n
  <2> DEFINE k == IF Len(s) < n THEN Len(s) ELSE n
             p == SubSeq(s, 1, k)
  <2>1. k \in Nat /\ k <= Len(s) /\ k <= n /\ (Len(s) <= n => k = Len(s))
    BY <1>1, <1>2
  <2> HIDE DEF k
  <2>2. p \in Seq(S) /\ Len(p) = k /\ \A i \in 1..k : p[i] = s[i]
    BY <1>1, <2>1
  <2>3. Cut(s, n) = p
    BY DEF Cut, k
  <2> HIDE DEF p
  <2>4. Len(s) <= n => p = s
    BY <2>1, <2>2
  <2> QED
    BY <2>1, <2>2, <2>3, <2>4
<1>3. CASE n < 0
  <2>1. Cut(s, n) = SubSeq(s, 1, n)
    BY <1>1, <1>3 DEF Cut
  <2>2. SubSeq(s, 1, n) = <<>>
    BY <1>3
  <2> QED
    BY <1>1, <1>3, <2>1, <2>2
<1> QED
  BY <1>2, <1>3

\* A part of a sequence.
LEMMA PartsIn ==
    ASSUME NEW S, NEW s \in Seq(S), NEW n \in Nat
    PROVE  Parts(s, n) \subseteq Seq(S)
<1> SUFFICES ASSUME NEW i \in 0..(Len(s) - n) PROVE SubSeq(s, i + 1, i + n) \in Seq(S)
  BY DEF Parts
<1>1. i \in Nat /\ i + n <= Len(s) /\ Len(s) \in Nat
  OBVIOUS
<1> QED
  BY <1>1

\* A splice of three.
LEMMA SpliceIn ==
    ASSUME NEW S, NEW a \in Seq(S), NEW b \in Seq(S), NEW c \in Seq(S)
    PROVE  a \o b \o c \in Seq(S)
OBVIOUS

\* A cross-over is made of what the two consist of.
LEMMA CrossIn ==
    ASSUME NEW S, NEW in1 \in Seq(S), NEW in2 \in Seq(S), NEW max \in Int
    PROVE  cross_over(in1, in2, max) \subseteq Seq(S)
<1>1. <<>> \in Seq(S)
  OBVIOUS
<1>2. insert_part(in1, in2, max) \subseteq Seq(S)
  <2>1. CASE Len(in1) >= max \/ in1 = <<>> \/ in2 = <<>>
    <3> DEFINE rest ==
                   UNION {{SubSeq(in1, 1, begin) \o part \o SubSeq(in1, begin + 1, Len(in1)) :
                              part \in Parts(in2, size)} :
                              begin \in 0..(Len(in1) - 1), size \in 1..LowerOf(max - Len(in1), Len(in2))}
    <3>2. insert_part(in1, in2, max) =
              IF Len(in1) >= max \/ in1 = <<>> \/ in2 = <<>> THEN {<<>>} ELSE rest
      BY DEF insert_part
    <3> HIDE DEF rest
    <3>1. insert_part(in1, in2, max) = {<<>>}
      BY <2>1, <3>2
    <3> QED
      BY <1>1, <3>1, Zenon
  <2>2. CASE ~(Len(in1) >= max \/ in1 = <<>> \/ in2 = <<>>)
    <3> DEFINE splice(begin, part) == SubSeq(in1, 1, begin) \o part \o SubSeq(in1, begin + 1, Len(in1))
               begins == 0..(Len(in1) - 1)
               sizes == 1..LowerOf(max - Len(in1), Len(in2))
    <3>0. insert_part(in1, in2, max) =
              UNION {{splice(begin, part) : part \in Parts(in2, size)} : begin \in begins, size \in sizes}
      BY <2>2 DEF insert_part
    <3> HIDE DEF splice, begins, sizes
    <3>00. ASSUME NEW x \in insert_part(in1, in2, max)
           PROVE  \E begin \in begins, size \in sizes : \E part \in Parts(in2, size) : x = splice(begin, part)
      BY <3>0
    <3> SUFFICES ASSUME NEW begin \in begins, NEW size \in sizes, NEW part \in Parts(in2, size)
                 PROVE  splice(begin, part) \in Seq(S)
      BY <3>00, Zenon
    <3> USE DEF splice, begins, sizes
    <3>1. size \in Nat /\ begin \in Nat /\ begin <= Len(in1) /\ Len(in1) \in Nat
      BY DEF LowerOf
    <3>2. part \in Seq(S)
      BY <3>1, PartsIn
    <3>3. SubSeq(in1, 1, begin) \in Seq(S) /\ SubSeq(in1, begin + 1, Len(in1)) \in Seq(S)
      BY <3>1
    <3> QED
      BY <3>2, <3>3, SpliceIn
  <2> QED
    BY <2>1, <2>2
<1>3. overwrite_part(in1, in2, max) \subseteq Seq(S)
  <2> DEFINE out == Cut(in1, max)
  <2>1. out \in Seq(S) /\ Len(out) \in Nat
    BY CutIs
  <2>0. CASE ~Reservable(max)
    <3>1. overwrite_part(in1, in2, max) = {}
      BY <2>0, Zenon DEF overwrite_part
    <3> QED
      BY <3>1, Zenon
  <2>2. CASE Reservable(max) /\ (out = <<>> \/ in2 = <<>>)
    <3>1. overwrite_part(in1, in2, max) = {<<>>}
      BY <2>2 DEF overwrite_part
    <3> QED
      BY <1>1, <3>1, Zenon
  <2>3. CASE Reservable(max) /\ ~(out = <<>> \/ in2 = <<>>)
    <3> DEFINE splice(pos, size, part) ==
                   SubSeq(out, 1, pos) \o part \o SubSeq(out, pos + size + 1, Len(out))
               places == 0..(Len(out) - 1)
               sizes(pos) == 1..LowerOf(Len(in2), Len(out) - pos)
    <3>0. overwrite_part(in1, in2, max) =
              UNION {UNION {{splice(pos, size, part) : part \in Parts(in2, size)} : size \in sizes(pos)} :
                         pos \in places}
      BY <2>3 DEF overwrite_part
    <3> HIDE DEF splice, places, sizes, out
    <3>00. ASSUME NEW x \in overwrite_part(in1, in2, max)
           PROVE  \E pos \in places : \E size \in sizes(pos) : \E part \in Parts(in2, size) :
                      x = splice(pos, size, part)
      BY <3>0
    <3> SUFFICES ASSUME NEW pos \in places, NEW size \in sizes(pos), NEW part \in Parts(in2, size)
                 PROVE  splice(pos, size, part) \in Seq(S)
      BY <3>00
    <3> USE DEF splice, places, sizes
    <3>1. Len(in2) \in Nat
      OBVIOUS
    <3>2. size \in Nat /\ pos \in Nat /\ pos + size <= Len(out)
      BY <2>1, <3>1 DEF LowerOf
    <3>3. part \in Seq(S)
      BY <3>2, PartsIn
    <3>4. SubSeq(out, 1, pos) \in Seq(S) /\ SubSeq(out, pos + size + 1, Len(out)) \in Seq(S)
      BY <2>1, <3>2
    <3> QED
      BY <3>3, <3>4, SpliceIn
  <2> QED
    BY <2>0, <2>2, <2>3
<1> QED
  BY <1>2, <1>3 DEF cross_over

\* What libFuzzer makes of a buffer.
LEMMA MutatedIn ==
    ASSUME MutantsAreBytes, NEW d \in Octets, NEW max \in Int
    PROVE  \A m \in Mutated(d, max) : m \in Octets /\ Len(m) >= 1 /\ Len(m) <= max
<1>1. Mutants(d) \subseteq Octets
  BY DEF MutantsAreBytes
<1> QED
  BY <1>1 DEF Mutated, Octets

\* Values are bytes.
LEMMA FivesAreOctets == Fives \subseteq Octets
<1>1. \A x \in Five : x \in Octet
  BY DEF Five, Octet
<1> SUFFICES ASSUME NEW v \in Fives PROVE v \in Octets
  OBVIOUS
<1>2. v \in [1..Len(v) -> Five] /\ Len(v) \in Nat
  BY DEF Fives
<1>3. v \in [1..Len(v) -> Octet]
  BY <1>1, <1>2
<1> QED
  BY <1>2, <1>3 DEF Octets

\* A byte modulo 32 is a value.
LEMMA MaskedIn ==
    /\ \A b \in Octet : b % 32 \in Five
    /\ \A m \in Octets : Masked(m) \in Fives /\ Len(Masked(m)) = Len(m)
<1>1. \A b \in Octet : b % 32 \in Five
  BY DEF Octet, Five
<1>2. ASSUME NEW m \in Octets PROVE Masked(m) \in Fives /\ Len(Masked(m)) = Len(m)
  <2> DEFINE n == Len(m)
             e(i) == m[i] % 32
  <2>1. n \in Nat /\ DOMAIN m = 1..n /\ \A i \in 1..n : m[i] \in Octet
    BY DEF Octets
  <2>2. \A i \in 1..n : e(i) \in Five
    BY <1>1, <2>1
  <2>3. Masked(m) = [i \in 1..n |-> e(i)]
    BY <2>1 DEF Masked
  <2> HIDE DEF e, n
  <2>4. Masked(m) \in Seq(Five) /\ Len(Masked(m)) = n
    BY <2>1, <2>2, <2>3
  <2> QED
    BY <2>4 DEF Fives, n
<1> QED
  BY <1>1, <1>2

\* The buffer that the mutator of invoices encodes consists of values.
LEMMA DataBufferIn ==
    ASSUME NEW m \in Octets, NEW rest \in Fives, NEW max \in Nat
    PROVE  DataBuffer(m, rest, max) \in Fives
<1> DEFINE b(i) == IF i <= Len(m) THEN m[i] ELSE IF i <= Len(rest) THEN rest[i] ELSE 0
           e(i) == b(i) % 32
<1>1. /\ Len(m) \in Nat /\ \A i \in 1..Len(m) : m[i] \in Octet
      /\ Len(rest) \in Nat /\ \A i \in 1..Len(rest) : rest[i] \in Octet
  BY FivesAreOctets DEF Octets
<1>2. 0 \in Octet
  BY DEF Octet
<1>3. \A i \in 1..max : b(i) \in Octet
  <2> SUFFICES ASSUME NEW i \in 1..max PROVE b(i) \in Octet
    OBVIOUS
  <2>1. i \in Nat /\ i >= 1
    OBVIOUS
  <2>2. /\ i <= Len(m) => i \in 1..Len(m)
        /\ i <= Len(rest) => i \in 1..Len(rest)
    BY <1>1, <2>1
  <2> QED
    BY <1>1, <1>2, <2>2
<1> HIDE DEF b
<1>4. \A i \in 1..max : e(i) \in Five
  BY <1>3, MaskedIn
<1>5. DataBuffer(m, rest, max) = [i \in 1..max |-> e(i)]
  BY DEF DataBuffer, b
<1> HIDE DEF e
<1> QED
  BY <1>4, <1>5 DEF Fives

\* A sanitized prefix is visible.
LEMMA SanitizeIn == \A b \in Octet : Sanitize(b) \in Visible
<1> SUFFICES ASSUME NEW b \in Octet PROVE Sanitize(b) \in Visible
  OBVIOUS
<1>1. b \in Int /\ 0 <= b /\ b <= 255
  BY DEF Octet
<1>2. CASE b > 127
  <2>1. Signed(b) = b - 256 /\ Signed(b) < 0
    BY <1>1, <1>2 DEF Signed
  <2> DEFINE r == (-(b - 256)) % 26
  <2>2. -(b - 256) \in Int
    BY <1>1
  <2>4. r \in 0..25
    BY <2>2
  <2>3. Sanitize(b) = 97 + (-r)
    <3>1. Signed(b) < 33
      BY <1>1, <2>1
    <3>2. Remainder(Signed(b), 26) = -r
      BY <2>1 DEF Remainder
    <3> HIDE DEF r
    <3> QED
      BY <3>1, <3>2 DEF Sanitize
  <2> HIDE DEF r
  <2> QED
    BY <2>4, <2>3 DEF Visible
<1>3. CASE b <= 127
  <2>1. Signed(b) = b
    BY <1>1, <1>3 DEF Signed
  <2>2. CASE b < 33 \/ b > 126
    <3> DEFINE r == b % 26
    <3>1. r \in 0..25
      BY <1>1
    <3>2. Sanitize(b) = 97 + r
      BY <1>1, <2>1, <2>2 DEF Sanitize, Remainder
    <3> HIDE DEF r
    <3> QED
      BY <3>1, <3>2 DEF Visible
  <2>3. CASE ~(b < 33 \/ b > 126)
    <3>1. Sanitize(b) = LowerCase(b)
      BY <2>1, <2>3 DEF Sanitize
    <3> QED
      BY <1>1, <2>3, <3>1 DEF LowerCase, IsUpper, Visible
  <2> QED
    BY <2>2, <2>3
<1> QED
  BY <1>1, <1>2, <1>3

Sizes == 0..CUSTOM_MUTATOR

\* Sizes are numbers that the decoder takes.
LEMMA SizesIn == \A n \in Sizes : n \in Nat /\ n <= CUSTOM_MUTATOR
BY DEF Sizes, CUSTOM_MUTATOR

\* What is left when nothing else can be.
LEMMA InitialInvoiceIs ==
    ASSUME NEW max \in Sizes
    PROVE  /\ InitialInvoice(max) \in Octets /\ Len(InitialInvoice(max)) <= max
           /\ Len(DummyInvoice) <= max => InitialInvoice(max) = DummyInvoice
<1>1. max \in Int /\ 0 <= max
  BY SizesIn
<1>2. DummyInvoice \in Seq(Octet)
  BY Corpora DEF Octets
<1> QED
  BY <1>1, <1>2, CutIs DEF InitialInvoice, Octets

\* A string of the offers' prefix.
IsOffer(s) ==
    /\ DecodeNoChecksum(s, CUSTOM_MUTATOR).encoding = BECH32
    /\ DecodeNoChecksum(s, CUSTOM_MUTATOR).hrp = bech32_hrp

\* The prefix of offers is one.
LEMMA OfferPrefix == IsHrp(bech32_hrp)
<1>1. 108 \in Prefix /\ 110 \in Prefix /\ 111 \in Prefix /\ 108 \in Octet /\ 110 \in Octet /\ 111 \in Octet
  BY DEF Prefix, Octet
<1>2. bech32_hrp \in Octets /\ Len(bech32_hrp) = 3
  BY <1>1 DEF bech32_hrp, Octets
<1>3. bech32_hrp[1] = 108 /\ bech32_hrp[2] = 110 /\ bech32_hrp[3] = 111 /\ 1..3 = {1, 2, 3}
  BY DEF bech32_hrp
<1>4. \A i \in 1..3 : bech32_hrp[i] \in Prefix
  BY <1>1, <1>3
<1> QED
  BY <1>2, <1>4 DEF IsHrp

\* An offer within the limit is read as one.
LEMMA OfferIs ==
    ASSUME NEW v \in Fives
    PROVE  /\ EncodeNoChecksum(bech32_hrp, v) \in Octets
           /\ Len(EncodeNoChecksum(bech32_hrp, v)) <= CUSTOM_MUTATOR =>
                  IsOffer(EncodeNoChecksum(bech32_hrp, v))
<1>1. IsHrp(bech32_hrp)
  BY OfferPrefix
<1>2. EncodeNoChecksum(bech32_hrp, v) = Line(bech32_hrp, v)
  BY DEF EncodeNoChecksum, Line
<1>3. EncodeNoChecksum(bech32_hrp, v) \in Octets
  BY <1>1, <1>2, LineIs DEF IsHrp
<1> HIDE DEF EncodeNoChecksum, bech32_hrp
<1>4. ASSUME Len(EncodeNoChecksum(bech32_hrp, v)) <= CUSTOM_MUTATOR
      PROVE  IsOffer(EncodeNoChecksum(bech32_hrp, v))
  <2>1. DecodeNoChecksum(EncodeNoChecksum(bech32_hrp, v), CUSTOM_MUTATOR) =
            [encoding |-> BECH32, hrp |-> bech32_hrp, data |-> v]
    BY <1>1, <1>4, PlainReads
  <2> QED
    BY <2>1 DEF IsOffer
<1> QED
  BY <1>3, <1>4

\* The offer that is left when nothing else can be.
LEMMA InitialOfferIs ==
    ASSUME NEW max \in Sizes
    PROVE  /\ InitialOffer(max) \in Octets /\ Len(InitialOffer(max)) <= max
           /\ Len(dummy_initial_input) <= max => IsOffer(InitialOffer(max))
<1> DEFINE none == EncodeNoChecksum(bech32_hrp, <<>>)
<1>1. max \in Int /\ 0 <= max /\ max <= CUSTOM_MUTATOR
  BY SizesIn
<1>2. <<>> \in Fives /\ Chars(<<>>) = <<>>
  BY DEF Fives, Chars
<1>3. none \in Seq(Octet) /\ (Len(none) <= CUSTOM_MUTATOR => IsOffer(none))
  BY <1>2, OfferIs DEF Octets
<1>4. dummy_initial_input = none
  <2> DEFINE b == bech32_hrp \o <<Separator>>
  <2>1. b \in Octets
    BY SeparatorIs, OfferPrefix DEF IsHrp, Octets
  <2>2. none = b \o Chars(<<>>) /\ dummy_initial_input = b
    BY DEF dummy_initial_input, EncodeNoChecksum
  <2> HIDE DEF b, none
  <2>3. b \o <<>> = b
    BY <2>1 DEF Octets
  <2> QED
    BY <1>2, <2>2, <2>3
<1> HIDE DEF none
<1>5. InitialOffer(max) = Cut(none, max)
  BY <1>4 DEF InitialOffer
<1>6. Cut(none, max) \in Octets /\ Len(Cut(none, max)) <= max /\ (Len(none) <= max => Cut(none, max) = none)
  BY <1>1, <1>3, CutIs DEF Octets
<1>7. Len(none) <= max => Len(none) <= CUSTOM_MUTATOR
  <2>1. Len(none) \in Nat /\ max \in Nat /\ CUSTOM_MUTATOR \in Nat
    BY <1>1, <1>3 DEF CUSTOM_MUTATOR
  <2> QED
    BY <1>1, <2>1
<1> QED
  BY <1>3, <1>4, <1>5, <1>6, <1>7

\* A string is what it is left, or read as it was meant.
LEMMA InvoiceIs ==
    ASSUME NEW max \in Sizes, NEW v \in Fives,
           NEW h \in Octets, Len(h) >= 1, \A i \in 1..Len(h) : h[i] \in Visible
    PROVE  /\ Invoice(h, v, max) \in Octets /\ Len(Invoice(h, v, max)) <= max
           /\ \/ Invoice(h, v, max) = InitialInvoice(max)
              \/ ReadsAs(Invoice(h, v, max), BECH32, h, v)
<1> DEFINE s == Encode(BECH32, h, v)
           bad == (\E i \in DOMAIN h : IsUpper(h[i])) \/ Len(s) > max
<1>1. Invoice(h, v, max) = IF bad THEN InitialInvoice(max) ELSE s
  BY DEF Invoice
<1>2. s \in Octets
  BY EncodeIs, LineIs DEF BECH32
<1>3. CASE bad
  BY <1>1, <1>3, InitialInvoiceIs
<1>4. CASE ~bad
  <2>1. DOMAIN h = 1..Len(h)
    BY DEF Octets
  <2>2. \A c \in Visible : ~IsUpper(c) => c \in Prefix
    BY DEF Visible, Prefix, IsUpper
  <2>3. \A i \in 1..Len(h) : h[i] \in Prefix
    BY <1>4, <2>1, <2>2
  <2>4. IsHrp(h)
    BY <2>3 DEF IsHrp
  <2>5. Len(s) \in Nat /\ max \in Nat /\ max <= CUSTOM_MUTATOR /\ ~(Len(s) > max) /\ CUSTOM_MUTATOR \in Nat
    BY <1>2, <1>4, SizesIn DEF Octets, CUSTOM_MUTATOR
  <2> HIDE DEF s
  <2>6. Len(s) <= CUSTOM_MUTATOR /\ Len(s) <= max
    BY <2>5
  <2>7. BECH32 \in {BECH32, BECH32M}
    OBVIOUS
  <2>8. ReadsAs(s, BECH32, h, v)
    BY <2>4, <2>6, <2>7, EncodeReads DEF s
  <2>9. Invoice(h, v, max) = s
    BY <1>1, <1>4
  <2> QED
    BY <1>2, <2>6, <2>8, <2>9
<1> QED
  BY <1>3, <1>4

\* What the mutator of bolt11.h leaves of an input.
Invoice11(input, x, max) ==
    /\ x \in Octets /\ Len(x) <= max
    /\ \/ x = InitialInvoice(max)
       \/ /\ Decode(x, CUSTOM_MUTATOR).encoding = BECH32
          /\ \/ Decode(x, CUSTOM_MUTATOR).hrp = Decode(input, CUSTOM_MUTATOR).hrp
             \/ Decode(x, CUSTOM_MUTATOR).data = Decode(input, CUSTOM_MUTATOR).data

\* The mutator of invoices leaves nothing else.
LEMMA Bolt11MutatorIs ==
    ASSUME MutantsAreBytes, NEW input \in Octets, NEW max \in Sizes, NEW x \in Bolt11Mutator(input, max)
    PROVE  Invoice11(input, x, max)
<1> DEFINE d == Decode(input, CUSTOM_MUTATOR)
           h == d.hrp
           v == d.data
           p == Len(input) - 6
           q == Len(input) - 8
<1>1. CASE ~IsInvoice(input)
  <2>1. x = InitialInvoice(max)
    BY <1>1 DEF Bolt11Mutator
  <2> QED
    BY <2>1, InitialInvoiceIs DEF Invoice11
<1>2. CASE IsInvoice(input)
  <2>1. d.encoding # INVALID /\ Len(input) >= 9
    BY <1>2 DEF IsInvoice, BECH32, INVALID
  <2>2. IsDecoded(input, CUSTOM_MUTATOR, d)
    BY <2>1, DecodeIs
  <2>3. h \in Octets /\ v \in Fives /\ v \in Octets /\ Len(h) >= 1 /\ \A i \in 1..Len(h) : h[i] \in Visible
    <3>1. \A c \in Prefix : c \in Visible
      BY DEF Prefix, Visible
    <3>2. IsHrp(h) /\ v \in Fives
      BY <2>2 DEF IsDecoded
    <3> QED
      BY <3>1, <3>2, FivesAreOctets DEF IsHrp
  <2>4. p \in Int /\ q \in Nat
    <3>1. Len(input) \in Nat
      BY DEF Octets
    <3> QED
      BY <2>1, <3>1
  <2>5. \/ \E m \in Mutated(h, p) : x = Invoice([i \in DOMAIN m |-> Sanitize(m[i])], v, max)
        \/ \E m \in Mutated(v, q) : x = Invoice(h, DataBuffer(m, v, q), max)
    BY <1>2, Zenon DEF Bolt11Mutator, MutatedInvoices
  <2> HIDE DEF d, p, q
  <2>6. CASE \E m \in Mutated(h, p) : x = Invoice([i \in DOMAIN m |-> Sanitize(m[i])], v, max)
    <3>1. PICK m \in Mutated(h, p) : x = Invoice([i \in DOMAIN m |-> Sanitize(m[i])], v, max)
      BY <2>6
    <3>2. m \in Octets /\ Len(m) >= 1
      BY <2>3, <2>4, MutatedIn
    <3> DEFINE n == Len(m)
               e(i) == Sanitize(m[i])
               g == [i \in 1..n |-> e(i)]
    <3>3. n \in Nat /\ DOMAIN m = 1..n /\ \A i \in 1..n : m[i] \in Octet
      BY <3>2 DEF Octets
    <3>4. \A i \in 1..n : e(i) \in Visible
      BY <3>3, SanitizeIn
    <3>5. x = Invoice(g, v, max)
      BY <3>1, <3>3
    <3>6. \A c \in Visible : c \in Octet
      BY DEF Visible, Octet
    <3> HIDE DEF e
    <3>7. g \in Seq(Octet) /\ Len(g) = n /\ \A i \in 1..n : g[i] \in Visible
      BY <3>3, <3>4, <3>6
    <3> HIDE DEF g
    <3>8. g \in Octets /\ Len(g) >= 1 /\ \A i \in 1..Len(g) : g[i] \in Visible
      BY <3>2, <3>7 DEF Octets
    <3>9. /\ x \in Octets /\ Len(x) <= max
          /\ x = InitialInvoice(max) \/ ReadsAs(x, BECH32, g, v)
      BY <2>3, <3>5, <3>8, InvoiceIs
    <3> QED
      BY <3>9 DEF Invoice11, ReadsAs, d
  <2>7. CASE \E m \in Mutated(v, q) : x = Invoice(h, DataBuffer(m, v, q), max)
    <3>1. PICK m \in Mutated(v, q) : x = Invoice(h, DataBuffer(m, v, q), max)
      BY <2>7
    <3>2. m \in Octets
      BY <2>3, <2>4, MutatedIn
    <3> DEFINE w == DataBuffer(m, v, q)
    <3>3. w \in Fives
      BY <2>3, <2>4, <3>2, DataBufferIn
    <3> HIDE DEF w
    <3>4. x = Invoice(h, w, max)
      BY <3>1 DEF w
    <3>5. /\ x \in Octets /\ Len(x) <= max
          /\ x = InitialInvoice(max) \/ ReadsAs(x, BECH32, h, w)
      BY <2>3, <3>3, <3>4, InvoiceIs
    <3> QED
      BY <3>5 DEF Invoice11, ReadsAs, d
  <2> QED
    BY <2>5, <2>6, <2>7
<1> QED
  BY <1>1, <1>2

\* What the cross-over of bolt11.h leaves: bytes that fit.
LEMMA Bolt11CrossOverIs ==
    ASSUME NEW in1 \in Octets, NEW in2 \in Octets, NEW max \in Sizes,
           NEW x \in Bolt11CrossOver(in1, in2, max)
    PROVE  x \in Octets /\ Len(x) <= max
<1> DEFINE d1 == Decode(in1, CUSTOM_MUTATOR)
           d2 == Decode(in2, CUSTOM_MUTATOR)
           a == RoomForHrp(d1, max)
           b == RoomForData(d1, max)
<1>1. /\ d1.hrp \in Octets /\ d1.data \in Fives /\ d2.hrp \in Octets /\ d2.data \in Fives
  BY DecodedIn
<1>2. a \in Int /\ b \in Int
  <2>1. max \in Nat /\ Len(d1.data) + 8 \in Nat /\ Len(d1.hrp) + 8 \in Nat
    BY <1>1, SizesIn DEF Octets, Fives
  <2> QED
    BY <2>1, MinusIs DEF RoomForHrp, RoomForData
<1>3. /\ Len(x) <= max
      /\ \/ \E h \in cross_over(d1.hrp, d2.hrp, a) : x = Encode(BECH32, h, d1.data)
         \/ \E d \in cross_over(d1.data, d2.data, b) : x = Encode(BECH32, d1.hrp, d)
  BY Zenon DEF Bolt11CrossOver
<1> HIDE DEF d1, d2, a, b
<1>4. \A h \in Octets, v \in Fives : Encode(BECH32, h, v) \in Octets
  BY EncodeIs, LineIs DEF BECH32
<1>5. cross_over(d1.hrp, d2.hrp, a) \subseteq Octets
  BY <1>1, <1>2, CrossIn DEF Octets
<1>6. cross_over(d1.data, d2.data, b) \subseteq Fives
  BY <1>1, <1>2, CrossIn DEF Fives
<1> QED
  BY <1>1, <1>3, <1>4, <1>5, <1>6

\* An invoice that has no data and fills the buffer.
FullWithoutData(str, max) == Decode(str, CUSTOM_MUTATOR).data = <<>> /\ Len(str) = max

\* The room for a prefix never wraps around, and the room for data only when
\* such an invoice is crossed.
LEMMA RoomIs ==
    ASSUME NEW str \in Octets, NEW max \in Sizes, Len(str) <= max, IsInvoice(str)
    PROVE  LET d == Decode(str, CUSTOM_MUTATOR)
           IN  /\ Reservable(RoomForHrp(d, max))
               /\ Reservable(RoomForData(d, max)) \/ FullWithoutData(str, max)
<1> DEFINE d == Decode(str, CUSTOM_MUTATOR)
           h == Len(d.hrp)
           v == Len(d.data)
<1>1. IsDecoded(str, CUSTOM_MUTATOR, d)
  <2>1. d.encoding # INVALID
    BY DEF IsInvoice, BECH32, INVALID
  <2> QED
    BY <2>1, DecodeIs
<1>2. /\ h \in Nat /\ h >= 1 /\ v \in Nat /\ (v = 0 => d.data = <<>>)
      /\ Len(str) = h + v + 7
  BY <1>1 DEF IsDecoded, IsHrp, Octets, Fives
<1>3. /\ max \in Nat /\ max <= CUSTOM_MUTATOR /\ CUSTOM_MUTATOR \in Nat
      /\ SIZE_MAX \in Nat /\ 2 * CUSTOM_MUTATOR <= SIZE_MAX
  <2>1. CUSTOM_MUTATOR \in Nat
    BY DEF CUSTOM_MUTATOR
  <2>2. max \in Nat /\ max <= CUSTOM_MUTATOR
    BY SizesIn
  <2>3. SIZE_MAX \in Nat /\ SIZE_MAX >= 2 * CUSTOM_MUTATOR
    BY Corpora, Zenon
  <2> QED
    BY <2>1, <2>2, <2>3
<1> HIDE DEF d, h, v
<1>4. ASSUME NEW n \in Nat, n <= max PROVE Reservable(Minus(max, n))
  <2>1. Minus(max, n) = max - n
    BY <1>3, <1>4, MinusIs
  <2>2. 2 * (max - n) <= SIZE_MAX
    BY <1>3, <1>4
  <2> QED
    BY <2>1, <2>2 DEF Reservable
<1>5. Reservable(RoomForHrp(d, max))
  <2>1. v + 8 \in Nat /\ v + 8 <= max
    BY <1>2, <1>3
  <2> QED
    BY <1>4, <2>1 DEF RoomForHrp, v
<1>6. CASE h + 8 <= max
  <2>1. Reservable(RoomForData(d, max))
    BY <1>2, <1>4, <1>6 DEF RoomForData, h
  <2> QED
    BY <1>5, <2>1 DEF d
<1>7. CASE h + 8 > max
  <2>1. v = 0 /\ Len(str) = max
    BY <1>2, <1>3, <1>7
  <2> QED
    BY <1>2, <1>5, <2>1 DEF FullWithoutData, d
<1> QED
  BY <1>2, <1>3, <1>6, <1>7

\* What the mutator and the cross-over of bolt12_offer.h leave.
Offer12(x, max) ==
    /\ x \in Octets /\ Len(x) <= max
    /\ Len(dummy_initial_input) <= max => IsOffer(x)

\* An offer that fits.
LEMMA FittingOffer ==
    ASSUME NEW v \in Fives, NEW max \in Sizes, Len(EncodeNoChecksum(bech32_hrp, v)) <= max
    PROVE  Offer12(EncodeNoChecksum(bech32_hrp, v), max)
<1> DEFINE s == EncodeNoChecksum(bech32_hrp, v)
<1>1. s \in Octets /\ (Len(s) <= CUSTOM_MUTATOR => IsOffer(s))
  BY OfferIs
<1>2. Len(s) \in Nat /\ max \in Nat /\ max <= CUSTOM_MUTATOR /\ CUSTOM_MUTATOR \in Nat
  BY <1>1, SizesIn DEF Octets, CUSTOM_MUTATOR
<1> HIDE DEF s
<1>3. Len(s) <= max
  BY DEF s
<1>4. Len(s) <= CUSTOM_MUTATOR
  BY <1>2, <1>3
<1> QED
  BY <1>1, <1>3, <1>4 DEF Offer12, s

\* The mutator of offers leaves nothing else.
LEMMA Bolt12MutatorIs ==
    ASSUME MutantsAreBytes, NEW input \in Octets, NEW max \in Sizes, NEW x \in Bolt12Mutator(input, max)
    PROVE  Offer12(x, max)
<1> DEFINE v == DecodeNoChecksum(input, CUSTOM_MUTATOR).data
<1>1. v \in Octets
  BY DecodedIn, FivesAreOctets
<1>2. \/ x = InitialOffer(max)
      \/ \E m \in Mutated(v, max) : /\ x = EncodeNoChecksum(bech32_hrp, Masked(m))
                                    /\ Fits(EncodeNoChecksum(bech32_hrp, Masked(m)), max)
  BY Zenon DEF Bolt12Mutator
<1> HIDE DEF v
<1>3. CASE x = InitialOffer(max)
  BY <1>3, InitialOfferIs DEF Offer12
<1>4. CASE \E m \in Mutated(v, max) : /\ x = EncodeNoChecksum(bech32_hrp, Masked(m))
                                      /\ Fits(EncodeNoChecksum(bech32_hrp, Masked(m)), max)
  <2>1. PICK m \in Mutated(v, max) : /\ x = EncodeNoChecksum(bech32_hrp, Masked(m))
                                     /\ Fits(EncodeNoChecksum(bech32_hrp, Masked(m)), max)
    BY <1>4
  <2>2. max \in Int
    BY SizesIn
  <2>3. Masked(m) \in Fives
    BY <1>1, <2>2, MutatedIn, MaskedIn
  <2>4. Len(EncodeNoChecksum(bech32_hrp, Masked(m))) <= max
    BY <2>1 DEF Fits
  <2> QED
    BY <2>1, <2>3, <2>4, FittingOffer
<1> QED
  BY <1>2, <1>3, <1>4

\* Nor does their cross-over.
LEMMA Bolt12CrossOverIs ==
    ASSUME NEW in1 \in Octets, NEW in2 \in Octets, NEW max \in Sizes,
           NEW x \in Bolt12CrossOver(in1, in2, max)
    PROVE  Offer12(x, max)
<1> DEFINE a == DecodeNoChecksum(in1, CUSTOM_MUTATOR).data
           b == DecodeNoChecksum(in2, CUSTOM_MUTATOR).data
<1>1. a \in Fives /\ b \in Fives /\ max \in Int
  BY DecodedIn, SizesIn
<1>2. \E d \in cross_over(a, b, max) : x = EncodeNoChecksum(bech32_hrp, d) /\ Fits(x, max)
  BY Zenon DEF Bolt12CrossOver
<1> HIDE DEF a, b
<1>3. cross_over(a, b, max) \subseteq Fives
  BY <1>1, CrossIn DEF Fives
<1> QED
  BY <1>2, <1>3, FittingOffer DEF Fits

(***************************************************************************)
(* The theorems about text                                                 *)
(***************************************************************************)
\* The invariant: what the text is and what the last call was.
TextInv ==
    /\ format \in {"bolt11", "bolt12"} /\ text \in Octets /\ steps \in 0..MaxSteps
    /\ thrown \in BOOLEAN
    /\ thrown => format = "bolt11" /\ last.op = "cross" /\ FullWithoutData(text, last.max)
    /\ \/ last = [op |-> "none"]
       \/ \E op \in {"mutate", "cross"}, from \in Octets, max \in Sizes :
              /\ last = [op |-> op, from |-> from, max |-> max]
              /\ Len(text) <= max
              /\ format = "bolt11" /\ op = "mutate" => Invoice11(from, text, max)
              /\ format = "bolt12" => Offer12(text, max)

\* It holds initially.
LEMMA TextInvInit == ASSUME TextInit PROVE TextInv
<1>1. /\ format \in {"bolt11", "bolt12"} /\ last = [op |-> "none"] /\ steps = 0 /\ 0 \in 0..MaxSteps
      /\ thrown = FALSE
  BY Corpora DEF TextInit
<1>2. text \in Octets
  <2>1. CASE text \in Seeds[format]
    <3>1. Seeds["bolt11"] \subseteq Octets /\ Seeds["bolt12"] \subseteq Octets
      BY Corpora
    <3>2. format = "bolt11" \/ format = "bolt12"
      BY <1>1
    <3> QED
      BY <2>1, <3>1, <3>2
  <2>2. CASE \E c \in Corrupted : text = c.text
    BY <2>2, Corpora
  <2> QED
    BY <2>1, <2>2 DEF TextInit
<1> QED
  BY <1>1, <1>2 DEF TextInv

\* Every call keeps it.
LEMMA TextInvNext == ASSUME MutantsAreBytes, TextInv, [TextNext]_textVars PROVE TextInv'
<1>1. format \in {"bolt11", "bolt12"} /\ text \in Octets /\ steps \in 0..MaxSteps
  BY DEF TextInv
<1>0. thrown \in BOOLEAN
  BY DEF TextInv
<1>2. /\ \A max \in MaxSizes : max \in Sizes
      /\ \A f \in {"bolt11", "bolt12"} : Seeds[f] \subseteq Octets
      /\ MaxSteps \in Nat
  <2>1. MaxSizes \subseteq Sizes
    BY Corpora, Zenon DEF Sizes
  <2>2. Seeds["bolt11"] \subseteq Octets /\ Seeds["bolt12"] \subseteq Octets /\ MaxSteps \in Nat
    BY Corpora
  <2> QED
    BY <2>1, <2>2
<1>3. steps < MaxSteps => steps + 1 \in 0..MaxSteps
  BY <1>1, <1>2
<1>4. CASE UNCHANGED textVars
  BY <1>4 DEF textVars, TextInv
<1>5. ASSUME NEW max \in MaxSizes, Mutate(max) PROVE TextInv'
  <2>1. /\ format' = format /\ steps' \in 0..MaxSteps /\ thrown' = FALSE
        /\ last' = [op |-> "mutate", from |-> text, max |-> max]
    BY <1>0, <1>3, <1>5 DEF Mutate
  <2>2. /\ format = "bolt11" => text' \in Bolt11Mutator(text, max)
        /\ format = "bolt12" => text' \in Bolt12Mutator(text, max)
    BY <1>5 DEF Mutate
  <2>3. max \in Sizes
    BY <1>2
  <2>4. format = "bolt11" => Invoice11(text, text', max)
    BY <1>1, <2>2, <2>3, Bolt11MutatorIs
  <2>5. format = "bolt12" => Offer12(text', max)
    BY <1>1, <2>2, <2>3, Bolt12MutatorIs
  <2>6. text' \in Octets /\ Len(text') <= max
    BY <1>1, <2>4, <2>5 DEF Invoice11, Offer12
  <2>7. "mutate" \in {"mutate", "cross"}
    OBVIOUS
  <2> QED
    BY <1>1, <2>1, <2>3, <2>4, <2>5, <2>6, <2>7, Zenon DEF TextInv
<1>6. ASSUME NEW max \in MaxSizes, NEW with \in Seeds[format], CrossOver(with, max) PROVE TextInv'
  <2>1. /\ format' = format /\ steps' \in 0..MaxSteps /\ thrown' = FALSE
        /\ last' = [op |-> "cross", from |-> text, max |-> max]
    BY <1>0, <1>3, <1>6 DEF CrossOver
  <2>2. /\ format = "bolt11" => text' \in Bolt11CrossOver(text, with, max)
        /\ format = "bolt12" => text' \in Bolt12CrossOver(text, with, max)
    BY <1>6 DEF CrossOver
  <2>3. max \in Sizes /\ with \in Octets
    BY <1>1, <1>2
  <2>4. format = "bolt11" => text' \in Octets /\ Len(text') <= max
    BY <1>1, <2>2, <2>3, Bolt11CrossOverIs
  <2>5. format = "bolt12" => Offer12(text', max)
    BY <1>1, <2>2, <2>3, Bolt12CrossOverIs
  <2>6. text' \in Octets /\ Len(text') <= max
    BY <1>1, <2>4, <2>5 DEF Offer12
  <2>7. "cross" \in {"mutate", "cross"} /\ "cross" # "mutate"
    OBVIOUS
  <2> QED
    BY <1>1, <2>1, <2>3, <2>5, <2>6, <2>7, Zenon DEF TextInv
<1>7. ASSUME NEW max \in MaxSizes, NEW with \in Seeds[format], ReserveThrows(with, max) PROVE TextInv'
  <2>1. /\ format' = format /\ text' = text /\ steps' \in 0..MaxSteps /\ thrown' = TRUE
        /\ last' = [op |-> "cross", from |-> text, max |-> max]
        /\ format = "bolt11" /\ Len(text) <= max
    BY <1>3, <1>7 DEF ReserveThrows
  <2>2. max \in Sizes
    BY <1>2
  <2>3. FullWithoutData(text, max)
    BY <1>1, <1>7, <2>1, <2>2, RoomIs DEF ReserveThrows
  <2>4. last'.op = "cross" /\ last'.max = max
    BY <2>1
  <2>5. "cross" \in {"mutate", "cross"} /\ "cross" # "mutate" /\ "bolt11" # "bolt12"
    OBVIOUS
  <2>6. thrown' => format' = "bolt11" /\ last'.op = "cross" /\ FullWithoutData(text', last'.max)
    BY <2>1, <2>3, <2>4
  <2> QED
    BY <1>1, <2>1, <2>2, <2>5, <2>6, Zenon DEF TextInv
<1> QED
  BY <1>4, <1>5, <1>6, <1>7 DEF TextNext

\* What the invariant says of a text that a call left.
LEMMA TextInvSays ==
    ASSUME TextInv
    PROVE  TextTypeOK /\ MutatorKeepsBech32 /\ OnePartChanges /\ OfferDecodes
<1>1. /\ format \in {"bolt11", "bolt12"} /\ text \in Octets /\ steps \in 0..MaxSteps
      /\ thrown \in BOOLEAN
  BY DEF TextInv
<1>2. format \in DOMAIN Seeds /\ \A i \in DOMAIN text : text[i] \in 0..255
  <2>1. DOMAIN Seeds = {"bolt11", "bolt12"}
    BY Corpora
  <2>2. \A i \in DOMAIN text : text[i] \in Octet
    BY <1>1 DEF Octets
  <2> QED
    BY <1>1, <2>1, <2>2, Zenon DEF Octet
<1>3. CASE last = [op |-> "none"]
  <2>1. last.op = "none"
    BY <1>3
  <2> QED
    BY <1>1, <1>2, <2>1 DEF TextTypeOK, MutatorKeepsBech32, OnePartChanges, OfferDecodes
<1>4. CASE last # [op |-> "none"]
  <2>1. PICK op \in {"mutate", "cross"}, from \in Octets, max \in Sizes :
              /\ last = [op |-> op, from |-> from, max |-> max]
              /\ Len(text) <= max
              /\ format = "bolt11" /\ op = "mutate" => Invoice11(from, text, max)
              /\ format = "bolt12" => Offer12(text, max)
    BY <1>4 DEF TextInv
  <2>2. last.op = op /\ last.from = from /\ last.max = max
    BY <2>1
  <2>3. TextTypeOK
    BY <1>1, <1>2, <2>1, <2>2 DEF TextTypeOK
  <2>4. MutatorKeepsBech32
    <3> SUFFICES ASSUME format = "bolt11", op = "mutate", max >= Len(DummyInvoice)
                 PROVE  Decode(text, CUSTOM_MUTATOR).encoding = BECH32
      BY <2>2 DEF MutatorKeepsBech32, Decoded
    <3>1. text = InitialInvoice(max) \/ Decode(text, CUSTOM_MUTATOR).encoding = BECH32
      BY <2>1 DEF Invoice11
    <3>2. max \in Nat /\ Len(DummyInvoice) \in Nat
      BY SizesIn, Corpora DEF Octets
    <3>3. Len(DummyInvoice) <= max
      BY <3>2
    <3>4. InitialInvoice(max) = DummyInvoice
      BY <3>3, InitialInvoiceIs
    <3> QED
      BY <3>1, <3>4, Corpora
  <2>5. OnePartChanges
    <3> SUFFICES ASSUME format = "bolt11", op = "mutate", text # InitialInvoice(max)
                 PROVE  \/ Decode(text, CUSTOM_MUTATOR).hrp = Decode(from, CUSTOM_MUTATOR).hrp
                        \/ Decode(text, CUSTOM_MUTATOR).data = Decode(from, CUSTOM_MUTATOR).data
      BY <2>2 DEF OnePartChanges, Decoded
    <3> QED
      BY <2>1 DEF Invoice11
  <2>6. OfferDecodes
    <3> SUFFICES ASSUME format = "bolt12", max >= Len(dummy_initial_input)
                 PROVE  IsOffer(text)
      BY <2>2 DEF OfferDecodes, IsOffer
    <3>1. max \in Nat /\ Len(dummy_initial_input) \in Nat
      BY SizesIn DEF dummy_initial_input, bech32_hrp
    <3>2. Len(dummy_initial_input) <= max
      BY <3>1
    <3> QED
      BY <2>1, <3>2 DEF Offer12
  <2> QED
    BY <2>3, <2>4, <2>5, <2>6
<1> QED
  BY <1>3, <1>4

\* So it holds of every text.
LEMMA TextStays == ASSUME MutantsAreBytes PROVE TextSpec => []TextInv
<1>1. TextInit => TextInv
  BY TextInvInit
<1>2. TextInv /\ [TextNext]_textVars => TextInv'
  BY TextInvNext
<1> QED
  BY <1>1, <1>2, PTL DEF TextSpec

\* bolt11.h, bolt12_offer.h: what the mutators and the cross-overs leave is
\* bytes, and never more of them than max_size, for any corpus and any bytes
\* that libFuzzer puts into a part, also where the room for data has wrapped
\* around: the invoice is encoded as it was, or the process ends with the text
\* untouched (OnlyFullBuffersThrow says when).
THEOREM NothingBeyondMaxSize ==
    ASSUME MutantsAreBytes PROVE TextSpec => []TextTypeOK
<1>1. TextInv => TextTypeOK
  BY TextInvSays
<1> QED
  BY <1>1, TextStays, PTL

\* bolt11.h:14: whatever libFuzzer makes of the prefix or of the data of any
\* string, the mutator of invoices leaves one that decodes with the checksum
\* of Bech32, when the dummy fits.
THEOREM EveryMutantDecodes ==
    ASSUME MutantsAreBytes PROVE TextSpec => []MutatorKeepsBech32
<1>1. TextInv => MutatorKeepsBech32
  BY TextInvSays
<1> QED
  BY <1>1, TextStays, PTL

\* bolt11.h:24: the mutator of invoices changes the prefix or the data and
\* leaves the other as it was decoded, or both are those of the dummy.
THEOREM OnePartIsKept ==
    ASSUME MutantsAreBytes PROVE TextSpec => []OnePartChanges
<1>1. TextInv => OnePartChanges
  BY TextInvSays
<1> QED
  BY <1>1, TextStays, PTL

\* bolt12_offer.h: whatever the mutator and the cross-over of offers are
\* given, they leave a string of the prefix "lno" that decodes.
THEOREM EveryOfferDecodes ==
    ASSUME MutantsAreBytes PROVE TextSpec => []OfferDecodes
<1>1. TextInv => OfferDecodes
  BY TextInvSays
<1> QED
  BY <1>1, TextStays, PTL

\* bech32.cpp: what Decode accepts, in lower, upper or as far as the checks of
\* the characters let it mixed case, Encode writes in lower case from the
\* parts, and its upper-case form is decoded alike.
THEOREM DecodingIsInverse ==
    ASSUME MutantsAreBytes PROVE TextSpec => []DecodeInvertsEncode
<1>1. ASSUME TextInv PROVE DecodeInvertsEncode
  <2> SUFFICES ASSUME Decoded.encoding # INVALID
               PROVE  /\ Encode(Decoded.encoding, Decoded.hrp, Decoded.data) = LowerCased(text)
                      /\ \/ CheckCharacters(UpperCased(text)) = FALSE
                         \/ Decode(UpperCased(text), CUSTOM_MUTATOR) = Decoded
    BY DEF DecodeInvertsEncode
  <2>1. text \in Octets
    BY <1>1 DEF TextInv
  <2>2. IsDecoded(text, CUSTOM_MUTATOR, Decoded)
    BY <2>1, DecodeIs DEF Decoded
  <2>3. CheckCharacters(text)
    BY <2>2 DEF IsDecoded, Readable
  <2>4. CheckCharacters(UpperCased(text)) => Decode(UpperCased(text), CUSTOM_MUTATOR) = Decoded
    BY <2>1, <2>3, UpperCaseDecodes DEF Decoded
  <2>5. CheckCharacters(UpperCased(text)) \in BOOLEAN
    BY DEF CheckCharacters
  <2> QED
    BY <2>2, <2>4, <2>5 DEF IsDecoded
<1> QED
  BY <1>1, TextStays, PTL

\* bolt11.h:175, :187: in the unsigned arithmetic of the cross-over the room for
\* a prefix never wraps around, for any buffer and any two invoices, and the
\* room for data does so, which ends the process, only when the first invoice
\* has no data and fills the buffer.
THEOREM OnlyFullBuffersThrow ==
    ASSUME MutantsAreBytes PROVE TextSpec => []ThrowsOnlyWhenFull
<1>1. TextInv => ThrowsOnlyWhenFull
  BY DEF TextInv, ThrowsOnlyWhenFull, FullWithoutData, Decoded
<1> QED
  BY <1>1, TextStays, PTL

\* bolt11.h, bolt12_offer.h: the five together, what the run on small strings
\* checks of the text mutators.
THEOREM TextMutatorsAreSound ==
    ASSUME MutantsAreBytes PROVE TextSpec => []TextMutatorsHold
<1>1. MutatorKeepsBech32 /\ OnePartChanges /\ OfferDecodes /\ DecodeInvertsEncode /\ ThrowsOnlyWhenFull
         => TextMutatorsHold
  BY DEF TextMutatorsHold
<1> QED
  BY <1>1, EveryMutantDecodes, OnePartIsKept, EveryOfferDecodes, DecodingIsInverse,
     OnlyFullBuffersThrow, PTL
==============================================================================
