----------------------------- MODULE CodecLemmas -----------------------------
(***************************************************************************)
(* Facts about CompactSize, for every base: what is encoded is read back   *)
(* where it stands, and only what is encoded is accepted.                  *)
(***************************************************************************)
EXTENDS CompactSize, SequenceLemmas

\* The table of digits that Digits reads off.
LEMMA DigitsTable ==
    ASSUME NEW value \in Nat, NEW width \in Nat
    PROVE  \E q \in [0..width -> Nat] :
               /\ q[0] = value
               /\ \A k \in 1..width : q[k] = q[k - 1] \div Base
               /\ Digits(value, width) = [i \in 1..width |-> q[i - 1] % Base]
<1> DEFINE F == [p \in (1..width) \X Int |-> IF p[2] \in Nat THEN p[2] \div Base ELSE 0]
           Table(f) == f = [k \in 0..width |-> IF k = 0 THEN value ELSE f[k - 1] \div Base]
<1>1. \A n \in Nat : n \div Base \in Nat
  BY BaseAssumption
<1>2. F \in [(1..width) \X Int -> Int]
  BY <1>1
<1>3. PICK f \in [0..width -> Int] :
          f[0] = value /\ \A k \in 1..width : f[k] = F[<<k, f[k - 1]>>]
  <2> HIDE DEF F
  <2> QED
    BY <1>2, RecursionFrom, value \in Int, Zenon
<1>4. ASSUME NEW k \in 1..width, f[k - 1] \in Nat
      PROVE  f[k] = f[k - 1] \div Base /\ f[k] \in Nat
  <2>1. f[k] = F[<<k, f[k - 1]>>] /\ <<k, f[k - 1]>> \in (1..width) \X Int
    <3> HIDE DEF F
    <3> QED
      BY <1>3
  <2> QED
    BY <1>1, <1>4, <2>1
<1> HIDE DEF F
<1>5. \A k \in 0..width : f[k] \in Nat
  <2> DEFINE Good == {k \in Nat : k <= width => f[k] \in Nat}
  <2>1. 0 \in Good
    BY <1>3
  <2>2. ASSUME NEW k \in Nat, k \in Good PROVE k + 1 \in Good
    <3>1. ASSUME k + 1 <= width PROVE f[k + 1] \in Nat
      <4>1. k + 1 \in 1..width /\ (k + 1) - 1 = k /\ f[k] \in Nat
        BY <2>2, <3>1
      <4> QED
        BY <1>4, <4>1
    <3> QED
      BY <3>1
  <2>3. Nat \subseteq Good
    <3> HIDE DEF Good
    <3> QED
      BY <2>1, <2>2, SetInduction
  <2> QED
    BY <2>3
<1>6. \A k \in 1..width : f[k] = f[k - 1] \div Base
  <2>1. \A k \in 1..width : k - 1 \in 0..width
    OBVIOUS
  <2> QED
    BY <1>4, <1>5, <2>1
<1>7. Table(f)
  <2> DEFINE h == [k \in 0..width |-> IF k = 0 THEN value ELSE f[k - 1] \div Base]
  <2>1. ASSUME NEW k \in 0..width PROVE f[k] = h[k]
    BY <1>3, <1>6
  <2>2. f = [k \in 0..width |-> f[k]] /\ h = [k \in 0..width |-> h[k]]
    BY <1>3
  <2> HIDE DEF h
  <2>3. f = h
    BY <2>1, <2>2
  <2> QED
    BY <2>3 DEF h
<1>8. PICK g : /\ Table(g)
               /\ Digits(value, width) = [i \in 1..width |-> g[i - 1] % Base]
  BY <1>7 DEF Digits
<1>9. g \in [0..width -> Nat] /\ g[0] = value /\ \A k \in 1..width : g[k] = g[k - 1] \div Base
  <2>0. 0 \in 0..width /\ \A k \in 1..width : k \in 0..width /\ k # 0
    OBVIOUS
  <2>1. g[0] = value
    BY <1>8, <2>0, Zenon
  <2>2. \A k \in 1..width : g[k] = g[k - 1] \div Base
    BY <1>8, <2>0, Zenon
  <2> DEFINE Good == {k \in Nat : k <= width => g[k] \in Nat}
  <2>3. 0 \in Good
    BY <2>1
  <2>4. ASSUME NEW k \in Nat, k \in Good PROVE k + 1 \in Good
    <3>1. ASSUME k + 1 <= width PROVE g[k + 1] \in Nat
      <4>1. k + 1 \in 1..width /\ (k + 1) - 1 = k /\ g[k] \in Nat
        BY <2>4, <3>1
      <4> HIDE DEF Table
      <4> QED
        BY <1>1, <2>2, <4>1
    <3> QED
      BY <3>1
  <2>5. Nat \subseteq Good
    <3> HIDE DEF Good
    <3> QED
      BY <2>3, <2>4, SetInduction
  <2>6. \A k \in 0..width : g[k] \in Nat
    BY <2>5
  <2>7. g = [k \in 0..width |-> g[k]]
    BY <1>8
  <2> HIDE DEF Good, Table
  <2>8. g \in [0..width -> Nat]
    BY <2>6, <2>7
  <2> QED
    BY <2>1, <2>2, <2>8
<1> QED
  BY <1>8, <1>9

\* The table by which Number reads digits, from the last one on.
LEMMA NumberTable ==
    ASSUME NEW b \in Bytes, NEW o \in Nat, NEW width \in Nat, o + width <= Len(b)
    PROVE  \E r \in [0..width -> Nat] :
               /\ r[0] = 0
               /\ \A k \in 1..width : r[k] = r[k - 1] * Base + b[o + width + 1 - k]
               /\ Number(b, o, width) = r[width]
<1> DEFINE F == [p \in (1..width) \X Int |->
                     IF p[2] \in Nat THEN p[2] * Base + b[o + width + 1 - p[1]] ELSE 0]
           Reads(f) == f = [k \in 0..width |->
                                IF k = 0 THEN 0 ELSE f[k - 1] * Base + b[o + width + 1 - k]]
<1>1. \A k \in 1..width : b[o + width + 1 - k] \in Nat
  <2>1. \A k \in 1..width : o + width + 1 - k \in 1..Len(b)
    OBVIOUS
  <2>2. \A i \in 1..Len(b) : b[i] \in Byte
    BY DEF Bytes
  <2> QED
    BY <2>1, <2>2, BaseAssumption DEF Byte
<1>2. F \in [(1..width) \X Int -> Nat]
  <2>1. ASSUME NEW p \in (1..width) \X Int, p[2] \in Nat
        PROVE  p[2] * Base + b[o + width + 1 - p[1]] \in Nat
    <3>1. b[o + width + 1 - p[1]] \in Nat
      BY <1>1
    <3>2. \A m, n, c \in Nat : m * n + c \in Nat
      OBVIOUS
    <3> QED
      BY <2>1, <3>1, <3>2, BaseAssumption
  <2> QED
    BY <2>1
<1>3. PICK f \in [0..width -> Nat] :
          f[0] = 0 /\ \A k \in 1..width : f[k] = F[<<k, f[k - 1]>>]
  <2> HIDE DEF F
  <2>1. F \in [(1..width) \X Int -> Int]
    BY <1>2
  <2>2. PICK f \in [0..width -> Int] :
            f[0] = 0 /\ \A k \in 1..width : f[k] = F[<<k, f[k - 1]>>]
    BY <2>1, RecursionExists, Zenon
  <2>3. ASSUME NEW k \in 0..width PROVE f[k] \in Nat
    <3>1. CASE k = 0
      BY <2>2, <3>1
    <3>2. CASE k # 0
      <4>1. k \in 1..width /\ k - 1 \in 0..width
        BY <3>2
      <4>2. f[k] = F[<<k, f[k - 1]>>] /\ <<k, f[k - 1]>> \in (1..width) \X Int
        BY <2>2, <4>1
      <4> QED
        BY <1>2, <4>2
    <3> QED
      BY <3>1, <3>2
  <2>4. f \in [0..width -> Nat]
    BY <2>3
  <2> QED
    BY <2>2, <2>4
<1>4. Reads(f)
  <2> DEFINE h == [k \in 0..width |->
                       IF k = 0 THEN 0 ELSE f[k - 1] * Base + b[o + width + 1 - k]]
  <2>1. ASSUME NEW k \in 1..width
        PROVE  f[k] = f[k - 1] * Base + b[o + width + 1 - k]
    <3>1. <<k, f[k - 1]>> \in (1..width) \X Int /\ f[k - 1] \in Nat
      OBVIOUS
    <3>2. f[k] = F[<<k, f[k - 1]>>]
      BY <1>3
    <3> QED
      BY <3>1, <3>2
  <2>2. ASSUME NEW k \in 0..width PROVE f[k] = h[k]
    <3>1. CASE k = 0
      BY <1>3, <3>1
    <3>2. CASE k # 0
      <4>1. k \in 1..width
        BY <3>2
      <4> HIDE DEF F
      <4> QED
        BY <2>1, <4>1, <3>2
    <3> QED
      BY <3>1, <3>2
  <2>3. f = [k \in 0..width |-> f[k]]
    OBVIOUS
  <2>4. f = h
    <3> HIDE DEF h
    <3>1. h = [k \in 0..width |-> h[k]]
      BY DEF h
    <3> QED
      BY <2>2, <2>3, <3>1
  <2> QED
    BY <2>4
<1> HIDE DEF F
<1>5. PICK g : Reads(g) /\ Number(b, o, width) = g[width]
  BY <1>4 DEF Number
<1>6. /\ g \in [0..width -> Nat]
      /\ g[0] = 0
      /\ \A k \in 1..width : g[k] = g[k - 1] * Base + b[o + width + 1 - k]
  <2>0. 0 \in 0..width /\ \A k \in 1..width : k \in 0..width /\ k # 0
    OBVIOUS
  <2>1. g[0] = 0
    BY <1>5, <2>0, Zenon
  <2>2. \A k \in 1..width : g[k] = g[k - 1] * Base + b[o + width + 1 - k]
    BY <1>5, <2>0, Zenon
  <2>3. g = [k \in 0..width |-> g[k]]
    BY <1>5
  <2> HIDE DEF Reads
  <2> DEFINE Good == {k \in Nat : k <= width => g[k] \in Nat}
  <2>4. 0 \in Good
    BY <2>1
  <2>5. ASSUME NEW k \in Nat, k \in Good PROVE k + 1 \in Good
    <3>1. ASSUME k + 1 <= width PROVE g[k + 1] \in Nat
      <4>1. k + 1 \in 1..width /\ (k + 1) - 1 = k /\ g[k] \in Nat
        BY <2>5, <3>1
      <4>2. g[k + 1] = g[k] * Base + b[o + width + 1 - (k + 1)]
        BY <2>2, <4>1
      <4>3. b[o + width + 1 - (k + 1)] \in Nat
        BY <1>1, <4>1
      <4>4. g[k] * Base \in Nat
        BY <4>1, BaseAssumption
      <4> QED
        BY <4>2, <4>3, <4>4
    <3> QED
      BY <3>1
  <2>6. Nat \subseteq Good
    <3> HIDE DEF Good
    <3> QED
      BY <2>4, <2>5, SetInduction
  <2>7. \A k \in 0..width : g[k] \in Nat
    BY <2>6
  <2> HIDE DEF Good
  <2>8. g \in [0..width -> Nat]
    BY <2>3, <2>7
  <2> QED
    BY <2>1, <2>2, <2>8
<1> QED
  BY <1>5, <1>6

\* A digit appended to a number, and taken off again.
LEMMA AppendDigit ==
    ASSUME NEW x \in Nat, NEW d \in Byte
    PROVE  /\ (x * Base + d) % Base = d
           /\ (x * Base + d) \div Base = x
           /\ x * Base + d \in Nat
<1>1. ASSUME NEW B \in Nat, B >= 5, NEW y \in Nat, NEW e \in 0..(B - 1)
      PROVE  (y * B + e) % B = e /\ (y * B + e) \div B = y /\ y * B + e \in Nat
  BY <1>1
<1> QED
  BY <1>1, BaseAssumption DEF Byte

\* It stays below a bound that has one digit more.
LEMMA AppendDigitBound ==
    ASSUME NEW x \in Nat, NEW d \in Byte, NEW c \in Nat, x < c
    PROVE  x * Base + d < c * Base
<1>1. ASSUME NEW B \in Nat, B >= 5, NEW y \in Nat, NEW e \in 0..(B - 1), NEW c0 \in Nat, y < c0
      PROVE  y * B + e < c0 * B
  <2>1. (y + 1) * B <= c0 * B
    BY <1>1
  <2>2. (y + 1) * B = y * B + B
    BY <1>1
  <2> QED
    BY <1>1, <2>1, <2>2
<1> QED
  BY <1>1, BaseAssumption DEF Byte

\* The last digit of a number and the others.
LEMMA SplitDigit ==
    ASSUME NEW x \in Nat
    PROVE  /\ x \div Base \in Nat
           /\ x % Base \in Byte
           /\ (x \div Base) * Base + (x % Base) = x
<1>1. ASSUME NEW B \in Nat, B >= 5, NEW y \in Nat
      PROVE  y \div B \in Nat /\ y % B \in 0..(B - 1) /\ (y \div B) * B + (y % B) = y
  BY <1>1
<1> QED
  BY <1>1, BaseAssumption DEF Byte

\* The others stay below a bound that has one digit less.
LEMMA SplitDigitBound ==
    ASSUME NEW x \in Nat, NEW c \in Nat, x < c * Base
    PROVE  x \div Base < c
<1>1. ASSUME NEW B \in Nat, B >= 5, NEW y \in Nat, NEW c0 \in Nat, y < c0 * B
      PROVE  y \div B < c0
  BY <1>1
<1> QED
  BY <1>1, BaseAssumption

\* How many values up to eight digits have.
LEMMA DigitCounts ==
    \E c \in [0..8 -> Nat] :
        /\ c[0] = 1
        /\ \A k \in 1..8 : c[k] = c[k - 1] * Base
        /\ c[2] = TwoDigits
        /\ c[4] = FourDigits
        /\ c[8] = EightDigits
<1> DEFINE F == [p \in (1..8) \X Int |-> p[2] * Base]
<1>1. F \in [(1..8) \X Int -> Int]
  BY BaseAssumption
<1>2. PICK c \in [0..8 -> Int] : c[0] = 1 /\ \A k \in 1..8 : c[k] = F[<<k, c[k - 1]>>]
  <2> HIDE DEF F
  <2> QED
    BY <1>1, RecursionFrom, 1 \in Int, 8 \in Nat, Zenon
<1>3. \A k \in 1..8 : c[k] = c[k - 1] * Base
  <2>1. \A k \in 1..8 : <<k, c[k - 1]>> \in (1..8) \X Int
    OBVIOUS
  <2>2. \A p \in (1..8) \X Int : F[p] = p[2] * Base
    OBVIOUS
  <2> HIDE DEF F
  <2>3. ASSUME NEW k \in 1..8 PROVE c[k] = c[k - 1] * Base
    <3>1. c[k] = F[<<k, c[k - 1]>>] /\ F[<<k, c[k - 1]>>] = <<k, c[k - 1]>>[2] * Base
      BY <1>2, <2>1, <2>2
    <3> QED
      BY <3>1
  <2> QED
    BY <2>3
<1> HIDE DEF F
<1>4. /\ c[1] = Base
      /\ c[2] = c[1] * Base /\ c[3] = c[2] * Base /\ c[4] = c[3] * Base /\ c[5] = c[4] * Base
      /\ c[6] = c[5] * Base /\ c[7] = c[6] * Base /\ c[8] = c[7] * Base
  BY <1>2, <1>3, BaseAssumption
<1>5. c[2] = TwoDigits
  BY <1>4 DEF TwoDigits
<1>6. c[4] = FourDigits /\ c[8] = EightDigits
  <2>1. \A B, x \in Int : (x * B) * B = x * (B * B)
    OBVIOUS
  <2>2. \A B, x \in Int : (((x * B) * B) * B) * B = x * ((B * B) * (B * B))
    OBVIOUS
  <2>3. \A m \in 1..8 : c[m] \in Int
    OBVIOUS
  <2>4. c[4] = c[2] * (Base * Base)
    BY <1>4, <2>1, <2>3, BaseAssumption
  <2>5. c[8] = c[4] * ((Base * Base) * (Base * Base))
    BY <1>4, <2>2, <2>3, BaseAssumption
  <2> QED
    BY <1>5, <2>4, <2>5, Zenon DEF TwoDigits, FourDigits, EightDigits
<1>7. \A k \in 0..8 : c[k] \in Nat
  <2>1. \A n \in Nat : n * Base \in Nat
    BY BaseAssumption
  <2>2. c[1] \in Nat /\ c[2] \in Nat /\ c[3] \in Nat /\ c[4] \in Nat
    BY <1>4, <2>1, BaseAssumption, Zenon
  <2>3. c[5] \in Nat /\ c[6] \in Nat /\ c[7] \in Nat /\ c[8] \in Nat
    BY <1>4, <2>1, <2>2, Zenon
  <2> QED
    BY <1>2, <2>2, <2>3
<1>8. c \in [0..8 -> Nat]
  BY <1>7
<1> QED
  BY <1>2, <1>3, <1>5, <1>6, <1>8

\* A number read from digits has those digits.
LEMMA DigitsOfNumber ==
    ASSUME NEW b \in Bytes, NEW o \in Nat, NEW width \in Nat, o + width <= Len(b)
    PROVE  Digits(Number(b, o, width), width) = [i \in 1..width |-> b[o + i]]
<1>1. PICK r \in [0..width -> Nat] :
          /\ r[0] = 0
          /\ \A k \in 1..width : r[k] = r[k - 1] * Base + b[o + width + 1 - k]
          /\ Number(b, o, width) = r[width]
  BY NumberTable
<1>2. r[width] \in Nat
  OBVIOUS
<1>3. PICK q \in [0..width -> Nat] :
          /\ q[0] = r[width]
          /\ \A k \in 1..width : q[k] = q[k - 1] \div Base
          /\ Digits(r[width], width) = [i \in 1..width |-> q[i - 1] % Base]
  BY <1>2, DigitsTable
<1>4. \A i \in 1..Len(b) : b[i] \in Byte
  BY DEF Bytes
<1>5. ASSUME NEW k \in 1..width
      PROVE  r[k] % Base = b[o + width + 1 - k] /\ r[k] \div Base = r[k - 1]
  <2>1. o + width + 1 - k \in 1..Len(b) /\ k - 1 \in 0..width
    BY DEF Bytes
  <2>2. b[o + width + 1 - k] \in Byte /\ r[k - 1] \in Nat
    BY <1>4, <2>1
  <2>3. r[k] = r[k - 1] * Base + b[o + width + 1 - k]
    BY <1>1
  <2>4. /\ (r[k - 1] * Base + b[o + width + 1 - k]) % Base = b[o + width + 1 - k]
        /\ (r[k - 1] * Base + b[o + width + 1 - k]) \div Base = r[k - 1]
    BY <2>2, AppendDigit, Zenon
  <2> QED
    BY <2>3, <2>4
<1>6. \A k \in 0..width : q[k] = r[width - k]
  <2> DEFINE Good == {k \in Nat : k <= width => q[k] = r[width - k]}
  <2>1. 0 \in Good
    BY <1>3
  <2>2. ASSUME NEW k \in Nat, k \in Good PROVE k + 1 \in Good
    <3>1. ASSUME k + 1 <= width PROVE q[k + 1] = r[width - (k + 1)]
      <4>1. k + 1 \in 1..width /\ (k + 1) - 1 = k /\ q[k] = r[width - k]
        BY <2>2, <3>1
      <4>2. width - k \in 1..width /\ (width - k) - 1 = width - (k + 1)
        BY <3>1
      <4>3. q[k + 1] = q[k] \div Base
        BY <1>3, <4>1
      <4> QED
        BY <1>5, <4>1, <4>2, <4>3
    <3> QED
      BY <3>1
  <2>3. Nat \subseteq Good
    <3> HIDE DEF Good
    <3> QED
      BY <2>1, <2>2, SetInduction
  <2> QED
    BY <2>3
<1>7. ASSUME NEW i \in 1..width PROVE q[i - 1] % Base = b[o + i]
  <2>1. i - 1 \in 0..width /\ width - (i - 1) \in 1..width
    OBVIOUS
  <2>2. o + width + 1 - (width - (i - 1)) = o + i
    OBVIOUS
  <2> QED
    BY <1>5, <1>6, <2>1, <2>2
<1> QED
  BY <1>1, <1>3, <1>7

\* How many values width digits have.
Count(width) == CASE width = 2 -> TwoDigits
                  [] width = 4 -> FourDigits
                  [] width = 8 -> EightDigits

\* A table of powers has the count at the width.
LEMMA CountAt ==
    ASSUME NEW c, c[2] = TwoDigits, c[4] = FourDigits, c[8] = EightDigits,
           NEW width \in {2, 4, 8}
    PROVE  c[width] = Count(width)
BY DEF Count

\* The places of the next power in two tables.
LEMMA NextPower ==
    ASSUME NEW width \in Nat, width <= 8, NEW k \in Nat, k + 1 <= width
    PROVE  /\ k + 1 \in 1..width /\ k + 1 \in 1..8 /\ (k + 1) - 1 = k
           /\ k \in 0..width /\ k \in 0..8
OBVIOUS

\* A number is less than the count of those that have so many digits.
LEMMA NumberBound ==
    ASSUME NEW b \in Bytes, NEW o \in Nat, NEW width \in {2, 4, 8}, o + width <= Len(b)
    PROVE  Number(b, o, width) \in Nat /\ Number(b, o, width) < Count(width)
<1>0. width \in Nat /\ width \in 0..width /\ width <= 8
  OBVIOUS
<1>3. \A i \in 1..Len(b) : b[i] \in Byte
  BY DEF Bytes
<1>1. PICK r \in [0..width -> Nat] :
          /\ r[0] = 0
          /\ \A k \in 1..width : r[k] = r[k - 1] * Base + b[o + width + 1 - k]
          /\ Number(b, o, width) = r[width]
  BY <1>0, NumberTable, Zenon
<1>2. PICK c \in [0..8 -> Nat] :
          /\ c[0] = 1
          /\ \A k \in 1..8 : c[k] = c[k - 1] * Base
          /\ c[2] = TwoDigits /\ c[4] = FourDigits /\ c[8] = EightDigits
  BY DigitCounts, Zenon
<1>4. \A k \in 0..width : r[k] < c[k]
  <2> DEFINE Good == {k \in Nat : k <= width => r[k] < c[k]}
  <2>1. 0 \in Good
    BY <1>1, <1>2
  <2>2. ASSUME NEW k \in Nat, k \in Good PROVE k + 1 \in Good
    <3>1. ASSUME k + 1 <= width PROVE r[k + 1] < c[k + 1]
      <4>1. /\ k + 1 \in 1..width /\ k + 1 \in 1..8 /\ (k + 1) - 1 = k
            /\ k \in 0..width /\ k \in 0..8
        BY <1>0, <3>1, NextPower, Zenon
      <4>6. r[k] < c[k]
        BY <2>2, <3>1
      <4>2. o + width + 1 - (k + 1) \in 1..Len(b)
        BY <1>0, <4>1 DEF Bytes
      <4>3. b[o + width + 1 - (k + 1)] \in Byte /\ r[k] \in Nat /\ c[k] \in Nat
        BY <1>3, <4>1, <4>2
      <4>4. r[k] * Base + b[o + width + 1 - (k + 1)] < c[k] * Base
        BY <4>3, <4>6, AppendDigitBound, Zenon
      <4>5. /\ r[k + 1] = r[k] * Base + b[o + width + 1 - (k + 1)]
            /\ c[k + 1] = c[k] * Base
        BY <1>1, <1>2, <4>1
      <4> QED
        BY <4>4, <4>5
    <3> QED
      BY <3>1
  <2>3. Nat \subseteq Good
    <3> HIDE DEF Good
    <3> QED
      BY <2>1, <2>2, SetInduction
  <2>4. \A k \in 0..width : k \in Nat /\ k <= width
    BY <1>0
  <2> QED
    BY <2>3, <2>4, Zenon
<1>5. c[width] = Count(width)
  BY <1>2, CountAt, Zenon
<1> QED
  BY <1>0, <1>1, <1>4, <1>5

\* Where the digit after the first k of w comes, counted from the other end.
LEMMA DigitPosition ==
    ASSUME NEW w \in Nat, w <= 8, NEW k \in Nat, k + 1 <= w
    PROVE  /\ k + 1 \in 1..w /\ (k + 1) - 1 = k /\ k \in 0..w
           /\ w - k \in 1..8 /\ (w - k) - 1 \in 0..8 /\ (w - k) - 1 = w - (k + 1)
OBVIOUS

\* Digits stand for the number they were taken from, if there are enough of
\* them.
LEMMA NumberOfDigits ==
    ASSUME NEW b \in Bytes, NEW o \in Nat, NEW width \in {2, 4, 8}, o + width <= Len(b),
           NEW value \in Nat, value < Count(width),
           \A i \in 1..width : b[o + i] = Digits(value, width)[i]
    PROVE  Number(b, o, width) = value
<1>0. width \in Nat /\ width \in 1..width /\ width \in 0..width /\ width <= 8
  OBVIOUS
<1>1. PICK r \in [0..width -> Nat] :
          /\ r[0] = 0
          /\ \A k \in 1..width : r[k] = r[k - 1] * Base + b[o + width + 1 - k]
          /\ Number(b, o, width) = r[width]
  BY <1>0, NumberTable, Zenon
<1>2. PICK q \in [0..width -> Nat] :
          /\ q[0] = value
          /\ \A k \in 1..width : q[k] = q[k - 1] \div Base
          /\ Digits(value, width) = [i \in 1..width |-> q[i - 1] % Base]
  BY <1>0, DigitsTable, Zenon
<1>3. PICK c \in [0..8 -> Nat] :
          /\ c[0] = 1
          /\ \A k \in 1..8 : c[k] = c[k - 1] * Base
          /\ c[2] = TwoDigits /\ c[4] = FourDigits /\ c[8] = EightDigits
  BY DigitCounts, Zenon
<1>4. \A i \in 1..width : b[o + i] = q[i - 1] % Base
  BY <1>2
<1>5. \A k \in 0..width : q[k] < c[width - k]
  <2> DEFINE Good == {k \in Nat : k <= width => q[k] < c[width - k]}
  <2>1. 0 \in Good
    <3>1. c[width] = Count(width)
      BY <1>3, CountAt, Zenon
    <3>2. width - 0 = width
      BY <1>0
    <3> QED
      BY <1>2, <3>1, <3>2
  <2>2. ASSUME NEW k \in Nat, k \in Good PROVE k + 1 \in Good
    <3>1. ASSUME k + 1 <= width PROVE q[k + 1] < c[width - (k + 1)]
      <4> DEFINE j == width - k
      <4>1. /\ k + 1 \in 1..width /\ (k + 1) - 1 = k /\ k \in 0..width
            /\ j \in 1..8 /\ j - 1 \in 0..8 /\ j - 1 = width - (k + 1)
        BY <1>0, <3>1, DigitPosition, Zenon
      <4>2. q[k] < c[j]
        BY <2>2, <3>1
      <4> HIDE DEF j
      <4>3. q[k + 1] = q[k] \div Base /\ c[j] = c[j - 1] * Base
        BY <1>2, <1>3, <4>1
      <4>4. q[k] \in Nat /\ c[j - 1] \in Nat
        BY <4>1
      <4>5. q[k] < c[j - 1] * Base
        BY <4>2, <4>3
      <4>6. q[k] \div Base < c[j - 1]
        BY <4>4, <4>5, SplitDigitBound, Zenon
      <4> QED
        BY <4>1, <4>3, <4>6
    <3> QED
      BY <3>1
  <2>3. Nat \subseteq Good
    <3> HIDE DEF Good
    <3> QED
      BY <2>1, <2>2, SetInduction
  <2>4. ASSUME NEW k \in 0..width PROVE q[k] < c[width - k]
    <3>1. k \in Nat /\ k <= width
      BY <1>0
    <3> QED
      BY <2>3, <3>1
  <2> HIDE DEF Good
  <2> QED
    BY <2>4
<1>6. q[width] = 0
  <2>1. width - width = 0 /\ q[width] \in Nat
    BY <1>0
  <2>2. q[width] < c[width - width]
    BY <1>0, <1>5, Zenon
  <2>3. q[width] < 1
    BY <1>3, <2>1, <2>2
  <2>4. \A n \in Nat : n < 1 => n = 0
    OBVIOUS
  <2> QED
    BY <2>1, <2>3, <2>4, Zenon
<1>7. \A k \in 0..width : r[k] = q[width - k]
  <2> DEFINE Good == {k \in Nat : k <= width => r[k] = q[width - k]}
  <2>1. 0 \in Good
    BY <1>0, <1>1, <1>6
  <2>2. ASSUME NEW k \in Nat, k \in Good PROVE k + 1 \in Good
    <3>1. ASSUME k + 1 <= width PROVE r[k + 1] = q[width - (k + 1)]
      <4> DEFINE j == width - k
      <4>1. /\ k + 1 \in 1..width /\ (k + 1) - 1 = k
            /\ j \in 1..width /\ j - 1 = width - (k + 1) /\ j - 1 \in 0..width
            /\ o + width + 1 - (k + 1) = o + j
        BY <1>0, <3>1
      <4>2. r[k] = q[j]
        BY <2>2, <3>1
      <4>3. r[k + 1] = r[k] * Base + b[o + j]
        BY <1>1, <4>1
      <4> HIDE DEF j
      <4>4. q[j] = q[j - 1] \div Base /\ b[o + j] = q[j - 1] % Base /\ q[j - 1] \in Nat
        BY <1>2, <1>4, <4>1
      <4>5. (q[j - 1] \div Base) * Base + (q[j - 1] % Base) = q[j - 1]
        BY <4>4, SplitDigit, Zenon
      <4>6. r[k + 1] = q[j - 1]
        BY <4>2, <4>3, <4>4, <4>5, Zenon
      <4> QED
        BY <4>1, <4>6
    <3> QED
      BY <3>1
  <2>3. Nat \subseteq Good
    <3> HIDE DEF Good
    <3> QED
      BY <2>1, <2>2, SetInduction
  <2> QED
    BY <2>3
<1>8. width - width = 0
  BY <1>0
<1> QED
  BY <1>0, <1>1, <1>2, <1>7, <1>8

\* The first bytes that announce digits.
Announcing == {Escape, Escape + 1, Escape + 2}

LEMMA Announcements ==
    /\ Announcing \subseteq Byte
    /\ \A f \in Announcing : Width(f) \in {2, 4, 8} /\ ~(f < Escape)
    /\ \A f \in Byte : ~(f < Escape) => f \in Announcing
<1>1. Escape \in Nat /\ Escape + 3 = Base
  BY BaseAssumption DEF Escape
<1>2. \A f \in Announcing : Width(f) \in {2, 4, 8} /\ ~(f < Escape)
  BY <1>1 DEF Announcing, Width
<1> QED
  BY <1>1, <1>2 DEF Announcing, Byte

\* More digits count further.
LEMMA CountOrder ==
    /\ Escape \in Nat /\ TwoDigits \in Nat /\ FourDigits \in Nat /\ EightDigits \in Nat
    /\ Escape < TwoDigits /\ TwoDigits < FourDigits /\ FourDigits < EightDigits
<1>1. ASSUME NEW x \in Nat, x >= 5
      PROVE  x * x \in Nat /\ x < x * x /\ x * x >= 5
  BY <1>1
<1>2. TwoDigits \in Nat /\ Base < TwoDigits /\ TwoDigits >= 5
  BY <1>1, BaseAssumption DEF TwoDigits
<1>3. FourDigits \in Nat /\ TwoDigits < FourDigits /\ FourDigits >= 5
  BY <1>1, <1>2 DEF FourDigits
<1>4. EightDigits \in Nat /\ FourDigits < EightDigits
  BY <1>1, <1>3 DEF EightDigits
<1> QED
  BY <1>2, <1>3, <1>4, BaseAssumption DEF Escape

\* Digits are bytes, as many as asked for.
LEMMA DigitsType ==
    ASSUME NEW value \in Nat, NEW width \in Nat
    PROVE  Digits(value, width) \in Bytes /\ Len(Digits(value, width)) = width
<1>1. PICK q \in [0..width -> Nat] :
          Digits(value, width) = [i \in 1..width |-> q[i - 1] % Base]
  BY DigitsTable
<1>2. \A i \in 1..width : q[i - 1] % Base \in Byte
  <2>1. \A i \in 1..width : q[i - 1] \in Nat
    OBVIOUS
  <2> QED
    BY <2>1, SplitDigit
<1>3. Digits(value, width) \in [1..width -> Byte]
  BY <1>1, <1>2
<1> QED
  BY <1>3 DEF Bytes

\* A first byte and the digits it announces are the form of the values that
\* need so many.
LEMMA EncodeForm ==
    ASSUME NEW value \in Nat
    PROVE  /\ value < Escape => Encode(value) = <<value>>
           /\ \A f \in Announcing :
                  Least(Width(f)) <= value /\ value < Count(Width(f)) =>
                      Encode(value) = <<f>> \o Digits(value, Width(f))
           /\ ~(value < Escape) /\ value < EightDigits =>
                  \E f \in Announcing : Least(Width(f)) <= value /\ value < Count(Width(f))
           /\ ~(value < Escape) =>
                  \E f \in Announcing : Encode(value) = <<f>> \o Digits(value, Width(f))
<1>1. /\ Width(Escape) = 2 /\ Width(Escape + 1) = 4 /\ Width(Escape + 2) = 8
      /\ Escape \in Announcing /\ Escape + 1 \in Announcing /\ Escape + 2 \in Announcing
  BY CountOrder DEF Width, Announcing
<1>2. /\ Least(2) = Escape /\ Least(4) = TwoDigits /\ Least(8) = FourDigits
      /\ Count(2) = TwoDigits /\ Count(4) = FourDigits /\ Count(8) = EightDigits
  BY DEF Least, Count
<1>0. ASSUME NEW f0 \in Announcing,
             ~(value < Escape),
             Encode(value) = <<f0>> \o Digits(value, Width(f0)),
             Least(Width(f0)) <= value,
             value < EightDigits => value < Count(Width(f0)),
             \A f \in Announcing : Least(Width(f)) <= value /\ value < Count(Width(f)) => f = f0
      PROVE  /\ \A f \in Announcing :
                    Least(Width(f)) <= value /\ value < Count(Width(f)) =>
                        Encode(value) = <<f>> \o Digits(value, Width(f))
             /\ ~(value < Escape) /\ value < EightDigits =>
                    \E f \in Announcing : Least(Width(f)) <= value /\ value < Count(Width(f))
             /\ ~(value < Escape) =>
                    \E f \in Announcing : Encode(value) = <<f>> \o Digits(value, Width(f))
  BY <1>0, Zenon
<1>3. CASE value < Escape
  <2>1. Encode(value) = <<value>>
    BY <1>3, CountOrder DEF Encode
  <2>2. ASSUME NEW f \in Announcing PROVE ~(Least(Width(f)) <= value)
    BY <1>1, <1>2, <1>3, CountOrder DEF Announcing
  <2> QED
    BY <1>3, <2>1, <2>2
<1>4. CASE Escape <= value /\ value < TwoDigits
  <2>1. Encode(value) = <<Escape>> \o Digits(value, 2)
    BY <1>4, CountOrder DEF Encode
  <2>2. ASSUME NEW f \in Announcing, Least(Width(f)) <= value PROVE f = Escape
    BY <1>1, <1>2, <1>4, <2>2, CountOrder DEF Announcing
  <2>3. /\ ~(value < Escape)
        /\ Least(Width(Escape)) <= value
        /\ value < EightDigits => value < Count(Width(Escape))
    BY <1>1, <1>2, <1>4, CountOrder
  <2> QED
    BY <1>0, <1>1, <2>1, <2>2, <2>3, Zenon
<1>5. CASE TwoDigits <= value /\ value < FourDigits
  <2>1. Encode(value) = <<Escape + 1>> \o Digits(value, 4)
    BY <1>5, CountOrder DEF Encode
  <2>2. ASSUME NEW f \in Announcing, Least(Width(f)) <= value, value < Count(Width(f))
        PROVE  f = Escape + 1
    BY <1>1, <1>2, <1>5, <2>2, CountOrder DEF Announcing
  <2>3. /\ ~(value < Escape)
        /\ Least(Width(Escape + 1)) <= value
        /\ value < EightDigits => value < Count(Width(Escape + 1))
    BY <1>1, <1>2, <1>5, CountOrder
  <2> QED
    BY <1>0, <1>1, <2>1, <2>2, <2>3, Zenon
<1>6. CASE FourDigits <= value
  <2>1. Encode(value) = <<Escape + 2>> \o Digits(value, 8)
    BY <1>6, CountOrder DEF Encode
  <2>2. ASSUME NEW f \in Announcing, value < Count(Width(f))
        PROVE  f = Escape + 2
    BY <1>1, <1>2, <1>6, <2>2, CountOrder DEF Announcing
  <2>3. /\ ~(value < Escape)
        /\ Least(Width(Escape + 2)) <= value
        /\ value < EightDigits => value < Count(Width(Escape + 2))
    BY <1>1, <1>2, <1>6, CountOrder
  <2> QED
    BY <1>0, <1>1, <2>1, <2>2, <2>3, Zenon
<1>7. \/ value < Escape
      \/ Escape <= value /\ value < TwoDigits
      \/ TwoDigits <= value /\ value < FourDigits
      \/ FourDigits <= value
  BY CountOrder
<1> QED
  BY <1>3, <1>4, <1>5, <1>6, <1>7, Zenon

\* What is encoded is bytes, at least one.
LEMMA EncodeType ==
    ASSUME NEW value \in Nat
    PROVE  Encode(value) \in Bytes /\ Len(Encode(value)) \in Nat \ {0}
<1>1. ASSUME NEW f \in Byte, NEW d \in Bytes
      PROVE  <<f>> \o d \in Bytes /\ Len(<<f>> \o d) = Len(d) + 1 /\ Len(d) \in Nat
  BY DEF Bytes
<1>2. CASE value < Escape
  <2>1. value \in Byte
    BY <1>2, BaseAssumption DEF Escape, Byte
  <2>2. Encode(value) = <<value>>
    BY <1>2, EncodeForm
  <2> QED
    BY <2>1, <2>2 DEF Bytes
<1>3. CASE ~(value < Escape)
  <2>1. PICK f \in Announcing : Encode(value) = <<f>> \o Digits(value, Width(f))
    BY <1>3, EncodeForm, Zenon
  <2>2. f \in Byte /\ Width(f) \in Nat
    BY Announcements
  <2>3. Digits(value, Width(f)) \in Bytes
    BY <2>2, DigitsType
  <2> QED
    BY <1>1, <2>1, <2>2, <2>3
<1> QED
  BY <1>2, <1>3

\* s stands in b at offset o.
Stands(s, b, o) ==
    /\ o + Len(s) <= Len(b) + 1
    /\ \A i \in 1..Len(s) : b[o + i - 1] = s[i]

\* A concatenation stands where its parts stand one after the other.
LEMMA StandsConcat ==
    ASSUME NEW b \in Bytes, NEW s \in Bytes, NEW t \in Bytes, NEW o \in Nat \ {0}
    PROVE  Stands(s \o t, b, o) <=> Stands(s, b, o) /\ Stands(t, b, o + Len(s))
<1>1. /\ Len(s) \in Nat /\ Len(t) \in Nat /\ Len(b) \in Nat
      /\ Len(s \o t) = Len(s) + Len(t)
      /\ \A i \in 1..Len(s) : (s \o t)[i] = s[i]
      /\ \A i \in 1..Len(t) : (s \o t)[Len(s) + i] = t[i]
  BY DEF Bytes
<1>2. ASSUME Stands(s \o t, b, o) PROVE Stands(s, b, o) /\ Stands(t, b, o + Len(s))
  <2>1. \A i \in 1..Len(s) : b[o + i - 1] = s[i]
    <3>1. \A i \in 1..Len(s) : i \in 1..Len(s \o t)
      BY <1>1
    <3> QED
      BY <1>1, <1>2, <3>1 DEF Stands
  <2>2. ASSUME NEW i \in 1..Len(t) PROVE b[(o + Len(s)) + i - 1] = t[i]
    <3>1. Len(s) + i \in 1..Len(s \o t) /\ o + (Len(s) + i) - 1 = (o + Len(s)) + i - 1
      BY <1>1
    <3> QED
      BY <1>1, <1>2, <3>1 DEF Stands
  <2>3. o + Len(s) <= Len(b) + 1 /\ (o + Len(s)) + Len(t) <= Len(b) + 1
    <3>1. o + Len(s \o t) <= Len(b) + 1
      BY <1>2 DEF Stands
    <3> QED
      BY <1>1, <3>1
  <2> QED
    BY <2>1, <2>2, <2>3 DEF Stands
<1>3. ASSUME Stands(s, b, o), Stands(t, b, o + Len(s)) PROVE Stands(s \o t, b, o)
  <2>1. ASSUME NEW i \in 1..Len(s \o t) PROVE b[o + i - 1] = (s \o t)[i]
    <3>1. CASE i <= Len(s)
      <4>1. i \in 1..Len(s)
        BY <1>1, <3>1
      <4> QED
        BY <1>1, <1>3, <4>1 DEF Stands
    <3>2. CASE ~(i <= Len(s))
      <4>1. i - Len(s) \in 1..Len(t) /\ Len(s) + (i - Len(s)) = i
            /\ (o + Len(s)) + (i - Len(s)) - 1 = o + i - 1
        BY <1>1, <3>2
      <4> QED
        BY <1>1, <1>3, <4>1 DEF Stands
    <3> QED
      BY <3>1, <3>2
  <2> QED
    BY <1>1, <1>3, <2>1 DEF Stands
<1> QED
  BY <1>2, <1>3

\* A length that is accepted was read from inside the buffer, and written it
\* gives the bytes it was read from: only the canonical form is accepted.
LEMMA DecodeCanonical ==
    ASSUME NEW b \in Bytes, NEW o \in Nat \ {0}, Decode(b, o).valid
    PROVE  /\ Decode(b, o).value \in Nat
           /\ Decode(b, o).value < EightDigits
           /\ Decode(b, o).bytes_read = Len(Encode(Decode(b, o).value))
           /\ Stands(Encode(Decode(b, o).value), b, o)
<1>1. Len(b) \in Nat /\ \A i \in 1..Len(b) : b[i] \in Byte
  BY DEF Bytes
<1>2. Byte \subseteq Nat
  BY BaseAssumption DEF Byte
<1>3. ~(o > Len(b)) /\ o \in 1..Len(b)
  BY <1>1 DEF Decode, Invalid
<1>4. b[o] \in Byte /\ b[o] \in Nat
  BY <1>1, <1>2, <1>3
<1>5. CASE b[o] < Escape
  <2>1. Decode(b, o) = [valid |-> TRUE, value |-> b[o], bytes_read |-> 1]
    BY <1>3, <1>5 DEF Decode
  <2>2. Encode(b[o]) = <<b[o]>>
    BY <1>4, <1>5, EncodeForm
  <2>3. Stands(<<b[o]>>, b, o)
    BY <1>1, <1>3 DEF Stands
  <2> QED
    BY <1>4, <1>5, <2>1, <2>2, <2>3, CountOrder
<1>6. CASE ~(b[o] < Escape)
  <2> DEFINE width == Width(b[o])
             n == Number(b, o, width)
  <2>1. b[o] \in Announcing /\ width \in {2, 4, 8} /\ width \in Nat
    BY <1>4, <1>6, Announcements
  <2>2. ~(o + width > Len(b)) /\ ~(n < Least(width))
    BY <1>3, <1>6 DEF Decode, Invalid
  <2>3. Decode(b, o) = [valid |-> TRUE, value |-> n, bytes_read |-> 1 + width]
    BY <1>3, <1>6, <2>2 DEF Decode
  <2>4. o + width <= Len(b)
    BY <1>1, <2>1, <2>2
  <2> HIDE DEF width, n
  <2>5. n \in Nat /\ n < Count(width)
    BY <2>1, <2>4, NumberBound DEF n
  <2>6. Digits(n, width) = [i \in 1..width |-> b[o + i]]
    BY <2>1, <2>4, DigitsOfNumber DEF n
  <2>7. Least(width) <= n /\ n < EightDigits
    BY <2>1, <2>2, <2>5, CountOrder DEF Least, Count
  <2>8. Encode(n) = <<b[o]>> \o Digits(n, width)
    BY <2>1, <2>5, <2>7, EncodeForm DEF width
  <2>9. Digits(n, width) \in Bytes /\ Len(Digits(n, width)) = width
    BY <2>1, <2>5, DigitsType
  <2>10. <<b[o]>> \in Bytes /\ Len(<<b[o]>>) = 1
    BY <1>4 DEF Bytes
  <2>11. Len(Encode(n)) = 1 + width
    BY <2>1, <2>8, <2>9, <2>10 DEF Bytes
  <2>12. Stands(<<b[o]>>, b, o)
    BY <1>1, <1>3 DEF Stands
  <2>13. Stands(Digits(n, width), b, o + 1)
    <3>1. ASSUME NEW i \in 1..width PROVE b[(o + 1) + i - 1] = Digits(n, width)[i]
      <4>1. (o + 1) + i - 1 = o + i
        BY <2>1
      <4> QED
        BY <2>6, <4>1
    <3> QED
      BY <1>1, <2>1, <2>4, <2>9, <3>1 DEF Stands
  <2>14. Stands(Encode(n), b, o)
    <3>1. Stands(<<b[o]>> \o Digits(n, width), b, o)
      BY <2>9, <2>10, <2>12, <2>13, StandsConcat
    <3> QED
      BY <2>8, <3>1, Zenon
  <2> QED
    BY <2>3, <2>5, <2>7, <2>11, <2>14
<1> QED
  BY <1>5, <1>6

\* A length that was written is read back.
LEMMA DecodeEncoded ==
    ASSUME NEW b \in Bytes, NEW o \in Nat \ {0}, NEW value \in Nat, value < EightDigits,
           Stands(Encode(value), b, o)
    PROVE  Decode(b, o) = [valid |-> TRUE, value |-> value, bytes_read |-> Len(Encode(value))]
<1>1. Len(b) \in Nat /\ \A i \in 1..Len(b) : b[i] \in Byte
  BY DEF Bytes
<1>2. CASE value < Escape
  <2>1. Encode(value) = <<value>>
    BY <1>2, EncodeForm
  <2>2. b[o] = value /\ ~(o > Len(b)) /\ Len(Encode(value)) = 1
    BY <1>1, <2>1 DEF Stands
  <2> QED
    BY <1>2, <2>2 DEF Decode
<1>3. CASE ~(value < Escape)
  <2>1. PICK f \in Announcing : Least(Width(f)) <= value /\ value < Count(Width(f))
    BY <1>3, EncodeForm, Zenon
  <2> DEFINE width == Width(f)
  <2>2. f \in Byte /\ width \in {2, 4, 8} /\ width \in Nat /\ ~(f < Escape)
    BY Announcements
  <2>3. Encode(value) = <<f>> \o Digits(value, width)
    BY <2>1, EncodeForm
  <2> HIDE DEF width
  <2>4. Digits(value, width) \in Bytes /\ Len(Digits(value, width)) = width
    BY <2>2, DigitsType
  <2>5. <<f>> \in Bytes /\ Len(<<f>>) = 1 /\ <<f>>[1] = f
    BY <2>2 DEF Bytes
  <2>6. Stands(<<f>>, b, o) /\ Stands(Digits(value, width), b, o + 1)
    BY <2>3, <2>4, <2>5, StandsConcat
  <2>7. ~(o > Len(b)) /\ b[o] = f
    BY <1>1, <2>5, <2>6 DEF Stands
  <2>8. o + width <= Len(b)
    BY <1>1, <2>2, <2>4, <2>6 DEF Stands
  <2>9. ASSUME NEW i \in 1..width PROVE b[o + i] = Digits(value, width)[i]
    <3>1. (o + 1) + i - 1 = o + i
      BY <2>2
    <3> QED
      BY <2>4, <2>6, <3>1 DEF Stands
  <2>10. Number(b, o, width) = value
    BY <2>1, <2>2, <2>8, <2>9, NumberOfDigits DEF width
  <2>11. ~(o + width > Len(b)) /\ ~(value < Least(width))
    BY <1>1, <2>1, <2>2, <2>8, CountOrder DEF width, Least
  <2>12. Decode(b, o) = [valid |-> TRUE, value |-> value, bytes_read |-> 1 + width]
    BY <2>2, <2>7, <2>10, <2>11 DEF Decode, width
  <2>13. Len(Encode(value)) = 1 + width
    BY <2>2, <2>3, <2>4, <2>5 DEF Bytes
  <2> QED
    BY <2>12, <2>13
<1> QED
  BY <1>2, <1>3

\* A length that is accepted was read from inside the buffer.
LEMMA DecodeType ==
    ASSUME NEW b \in Bytes, NEW o \in Nat \ {0}
    PROVE  /\ Decode(b, o).valid \in BOOLEAN
           /\ Decode(b, o).value \in Nat
           /\ Decode(b, o).bytes_read \in Nat
           /\ Decode(b, o).valid =>
                  /\ Decode(b, o).bytes_read # 0
                  /\ o + Decode(b, o).bytes_read <= Len(b) + 1
<1> DEFINE Read(value, n) == [valid |-> TRUE, value |-> value, bytes_read |-> n]
           Good(r) == /\ r.valid \in BOOLEAN
                      /\ r.value \in Nat
                      /\ r.bytes_read \in Nat
                      /\ r.valid => r.bytes_read # 0 /\ o + r.bytes_read <= Len(b) + 1
<1>1. Good(Invalid)
  BY DEF Invalid
<1>2. ASSUME NEW value \in Nat, NEW n \in Nat \ {0}, o + n <= Len(b) + 1
      PROVE  Good(Read(value, n))
  BY <1>2
<1>3. Len(b) \in Nat
  BY DEF Bytes
<1>4. CASE o > Len(b)
  <2>1. Decode(b, o) = Invalid
    BY <1>4 DEF Decode
  <2> QED
    BY <1>1, <2>1
<1>5. CASE ~(o > Len(b))
  <2>1. b[o] \in Byte /\ b[o] \in Nat
    BY <1>5, BaseAssumption DEF Bytes, Byte
  <2>2. CASE b[o] < Escape
    <3>1. Decode(b, o) = Read(b[o], 1)
      BY <1>5, <2>2 DEF Decode
    <3>2. Good(Read(b[o], 1))
      BY <1>2, <1>3, <1>5, <2>1
    <3> QED
      BY <3>1, <3>2
  <2>3. CASE ~(b[o] < Escape)
    <3>1. b[o] \in {Escape, Escape + 1, Escape + 2}
      BY <2>1, <2>3, BaseAssumption DEF Byte, Escape
    <3>2. Width(b[o]) \in {2, 4, 8}
      BY <3>1, BaseAssumption DEF Width, Escape
    <3> DEFINE width == Width(b[o])
    <3>3. CASE o + width > Len(b)
      <4>1. Decode(b, o) = Invalid
        BY <1>5, <2>3, <3>3 DEF Decode
      <4> QED
        BY <1>1, <4>1
    <3>4. CASE ~(o + width > Len(b))
      <4>1. width \in Nat /\ 1 + width \in Nat \ {0} /\ o + (1 + width) <= Len(b) + 1
        BY <1>3, <3>2, <3>4
      <4>2. Number(b, o, width) \in Nat
        BY <1>3, <3>2, <3>4, <4>1, NumberBound
      <4>3. Decode(b, o) = IF Number(b, o, width) < Least(width)
                           THEN Invalid ELSE Read(Number(b, o, width), 1 + width)
        BY <1>5, <2>3, <3>4 DEF Decode
      <4>4. Good(Read(Number(b, o, width), 1 + width))
        BY <1>2, <4>1, <4>2
      <4> QED
        BY <1>1, <4>3, <4>4, Zenon
    <3> QED
      BY <3>3, <3>4
  <2> QED
    BY <2>2, <2>3
<1>6. Good(Decode(b, o))
  BY <1>4, <1>5
<1> QED
  BY <1>6
=============================================================================
