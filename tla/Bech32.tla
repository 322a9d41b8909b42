------------------------------- MODULE Bech32 -------------------------------
(***************************************************************************)
(* custommutator/utils/bech32.cpp: the encoder, the two decoders and the   *)
(* error locator.  A string is a sequence of bytes, the data a sequence of *)
(* 5-bit values.  A checksum state is the sequence of its six coefficients *)
(* in GF(32), where the code packs them into 30 bits: adding the constants *)
(* of the set bits of c0 is multiplying by c0.                             *)
(***************************************************************************)
EXTENDS Integers, Sequences, SequencesExt, FiniteSets

BECH32  == "BECH32"
BECH32M == "BECH32M"
INVALID == "INVALID"

CHECKSUM_SIZE == 6

\* CharLimit
CUSTOM_MUTATOR == 100000

CHARSET == <<113, 112, 122, 114, 121, 57, 120, 56, 103, 102, 50, 116, 118, 100,
             119, 48, 115, 51, 106, 110, 53, 52, 107, 104, 99, 101, 54, 109,
             117, 97, 55, 108>>

IsLower(c) == c \in 97..122
IsUpper(c) == c \in 65..90

LowerCase(c) == IF IsUpper(c) THEN c + 32 ELSE c

LowerCased(s) == [i \in DOMAIN s |-> LowerCase(s[i])]

\* CHARSET_REV: both cases, and -1 for what is not in the set.
CHARSET_REV ==
    [c \in 0..127 |->
        IF Contains(CHARSET, LowerCase(c))
        THEN (CHOOSE i \in 1..32 : CHARSET[i] = LowerCase(c)) - 1
        ELSE -1]

-----------------------------------------------------------------------------
(***************************************************************************)
(* The fields                                                              *)
(***************************************************************************)
\* GenerateGFTables.  GF(32) is taken modulo x^5 + x^3 + 1.  An element
\* v1 * e + v0 of GF(1024) is 32 * v1 + v0, with e^2 = 9 * e + 23, and e,
\* which is 32, generates the field.  Tables are sequences: the entry for i is
\* at i + 1.
Table(f) == SubSeq(f, 1, Len(f))

\* The exclusive or of two elements.
GF32_SUM ==
    LET xor[p \in (0..31) \X (0..31)] ==
            IF p[1] + p[2] = 0 THEN 0
            ELSE 2 * xor[<<p[1] \div 2, p[2] \div 2>>] + ((p[1] + p[2]) % 2)
    IN  Table([i \in 1..1024 |-> xor[<<(i - 1) \div 32, (i - 1) % 32>>]])

Add32(a, b) == GF32_SUM[32 * a + b + 1]

\* Products are put together from the bits of a factor.
GF32_PRODUCT ==
    LET X(v) == IF v >= 16 THEN Add32(2 * v - 32, 9) ELSE 2 * v
        times[p \in (0..31) \X (0..31)] ==
            IF p[1] = 0 THEN 0
            ELSE Add32(IF p[1] % 2 = 1 THEN p[2] ELSE 0, times[<<p[1] \div 2, X(p[2])>>])
    IN  Table([i \in 1..1024 |-> times[<<(i - 1) \div 32, (i - 1) % 32>>]])

Times32(a, b) == GF32_PRODUCT[32 * a + b + 1]

Add1024(v, w) == 32 * Add32(v \div 32, w \div 32) + Add32(v % 32, w % 32)

\* a * e^2 for a of GF(32), v * e and v * v.
TimesE2(a) == 32 * Times32(9, a) + Times32(23, a)
TimesE(v)  == Add1024(32 * (v % 32), TimesE2(v \div 32))
Square(v)  == Add1024(TimesE2(Times32(v \div 32, v \div 32)), Times32(v % 32, v % 32))

GF1024_EXP ==
    LET power[n \in 0..1022] ==
            LET Step(even) == IF n % 2 = 0 THEN even ELSE TimesE(even)
            IN  IF n = 0 THEN 1 ELSE Step(Square(power[n \div 2]))
    IN  Table([i \in 1..1023 |-> power[i - 1]])

GF1024_LOG ==
    Table([v \in 1..1024 |->
              IF v = 1 THEN -1 ELSE (CHOOSE i \in 1..1023 : GF1024_EXP[i] = v - 1) - 1])

\* Powers of e, and the logarithm of a non-zero element.
Exp(n) == GF1024_EXP[(n % 1023) + 1]
Log(v) == GF1024_LOG[v + 1]

-----------------------------------------------------------------------------
(***************************************************************************)
(* Checksums                                                               *)
(***************************************************************************)
\* k(x) = x^6 mod g(x)
Generator == <<29, 22, 20, 21, 29, 18>>

\* One round: c(x) * x + v modulo g(x).
PolyStep(c, v) ==
    LET term(i, low) == Add32(low, Times32(c[1], Generator[i]))
    IN  <<term(1, c[2]), term(2, c[3]), term(3, c[4]), term(4, c[5]), term(5, c[6]),
          term(6, v)>>

PolyMod(values) ==
    LET round[i \in 0..Len(values)] ==
            IF i = 0 THEN <<0, 0, 0, 0, 0, 1>> ELSE PolyStep(round[i - 1], values[i])
    IN  round[Len(values)]

EncodingConstant(encoding) ==
    IF encoding = BECH32 THEN <<0, 0, 0, 0, 0, 1>> ELSE <<21, 28, 16, 12, 5, 3>>

Difference(c, d) == [i \in 1..6 |-> Add32(c[i], d[i])]

PreparePolynomialCoefficients(hrp, values) ==
    [i \in DOMAIN hrp |-> hrp[i] \div 32] \o <<0>> \o [i \in DOMAIN hrp |-> hrp[i] % 32]
    \o values

VerifyChecksum(hrp, values) ==
    LET Of(check) == IF check = EncodingConstant(BECH32) THEN BECH32
                     ELSE IF check = EncodingConstant(BECH32M) THEN BECH32M
                     ELSE INVALID
    IN  Of(PolyMod(PreparePolynomialCoefficients(hrp, values)))

CreateChecksum(encoding, hrp, values) ==
    Difference(PolyMod(PreparePolynomialCoefficients(hrp, values) \o <<0, 0, 0, 0, 0, 0>>),
               EncodingConstant(encoding))

-----------------------------------------------------------------------------
(***************************************************************************)
(* Encoding and decoding                                                   *)
(***************************************************************************)
Separator == 49

Chars(values) == [i \in DOMAIN values |-> CHARSET[values[i] + 1]]

\* The assertion on the characters of hrp is a precondition.
Encode(encoding, hrp, values) ==
    hrp \o <<Separator>> \o Chars(values) \o Chars(CreateChecksum(encoding, hrp, values))

EncodeNoChecksum(hrp, values) == hrp \o <<Separator>> \o Chars(values)

\* The characters CheckCharacters objects to: those out of range, and letters
\* of a case that was not the first.
BadCharacters(str) ==
    {i \in DOMAIN str :
        \/ str[i] < 33 \/ str[i] > 126
        \/ IsLower(str[i]) /\ \E j \in 1..(i - 1) :
               IsUpper(str[j]) /\ \A k \in 1..(j - 1) : ~IsLower(str[k])
        \/ IsUpper(str[i]) /\ \E j \in 1..(i - 1) :
               IsLower(str[j]) /\ \A k \in 1..(j - 1) : ~IsUpper(str[k])}

CheckCharacters(str) == BadCharacters(str) = {}

\* rfind('1') from one; 0 when there is none.
LastSeparator(str) ==
    CHOOSE i \in 0..Len(str) :
        /\ i = 0 \/ str[i] = Separator
        /\ \A j \in (i + 1)..Len(str) : str[j] # Separator

Values(str) == [i \in DOMAIN str |-> CHARSET_REV[str[i]]]

HrpOf(str) == LowerCased(SubSeq(str, 1, LastSeparator(str) - 1))

DataOf(str) == Values(SubSeq(str, LastSeparator(str) + 1, Len(str)))

Undecoded == [encoding |-> INVALID, hrp |-> <<>>, data |-> <<>>]

\* What both decoders ask before they look at a checksum of n characters.
Readable(str, limit, n) ==
    /\ CheckCharacters(str)
    /\ Len(str) <= limit
    /\ LastSeparator(str) > 1
    /\ LastSeparator(str) + n <= Len(str)
    /\ \A i \in DOMAIN DataOf(str) : DataOf(str)[i] # -1

Decode(str, limit) ==
    LET As(encoding) ==
            IF encoding = INVALID THEN Undecoded
            ELSE [encoding |-> encoding, hrp |-> HrpOf(str),
                  data |-> SubSeq(DataOf(str), 1, Len(DataOf(str)) - CHECKSUM_SIZE)]
    IN  IF Readable(str, limit, CHECKSUM_SIZE) THEN As(VerifyChecksum(HrpOf(str), DataOf(str)))
        ELSE Undecoded

DecodeNoChecksum(str, limit) ==
    IF ~Readable(str, limit, 0) THEN Undecoded
    ELSE [encoding |-> BECH32, hrp |-> HrpOf(str), data |-> DataOf(str)]

-----------------------------------------------------------------------------
(***************************************************************************)
(* Locating errors.  Position p counts from the right, as the power of x.  *)
(***************************************************************************)
\* r * e^n, for r in GF(32)
Scaled(r, n) == IF r = 0 THEN 0 ELSE Exp(Log(r) + n)

\* R(e^j) for the residue R.
Syndrome(residue, j) ==
    LET t(i) == Scaled(residue[i], j * (6 - i))
    IN  Add1024(t(1), Add1024(t(2), Add1024(t(3), Add1024(t(4), Add1024(t(5), t(6))))))

\* Slip: the order of the subgroup for its index.
InSubgroup31(k) == k % 31 = 0

\* e^k is in GF(32), for a logarithm k.
InGF32(k) == k % 33 = 0

\* v * e^p, for v with a logarithm or zero
Shifted(v, p) == IF v = 0 THEN 0 ELSE Exp(Log(v) + p)

SingleError(s0, s1, s2) ==
    s0 # 0 /\ s1 # 0 /\ s2 # 0 /\ (2 * Log(s1) - Log(s2) - Log(s0)) % 1023 = 0

\* The position of the only error, if it can be one.
OneError(s0, s1, length) ==
    LET p1 == (Log(s1) - Log(s0)) % 1023
    IN  IF p1 < length /\ InGF32(Log(s0) + (1023 - 997) * p1) THEN {p1} ELSE {}

\* p2 is where the other error is when one is at p1.
OtherError(s0, s1, s2, p1, p2) ==
    LET a == Add1024(s2, Shifted(s1, p1))
        b == Add1024(s1, Shifted(s0, p1))
        c == Add1024(s1, Shifted(s0, p2))
        inverse == 1023 - Log(Add1024(Exp(p1), Exp(p2)))
    IN  /\ a # 0 /\ b # 0 /\ p1 # p2
        /\ (Log(a) - Log(b)) % 1023 = p2
        /\ c # 0
        /\ InGF32(Log(b) + inverse + (1023 - 997) * p2)
        /\ InGF32(Log(c) + inverse + (1023 - 997) * p1)

\* The first pair found, in the order of p1.
FirstPair(pairs) ==
    IF pairs = {} THEN {}
    ELSE UNION {{p[1], p[2]} : p \in {p \in pairs : \A q \in pairs : p[1] <= q[1]}}

TwoErrors(s0, s1, s2, length) ==
    FirstPair({p \in (0..(length - 1)) \X (0..(length - 1)) :
                  OtherError(s0, s1, s2, p[1], p[2])})

ErrorsOf(s0, s1, s2, length) ==
    IF SingleError(s0, s1, s2) THEN OneError(s0, s1, length)
    ELSE TwoErrors(s0, s1, s2, length)

PossibleErrors(residue, length) ==
    ErrorsOf(Syndrome(residue, 997), Syndrome(residue, 998), Syndrome(residue, 999), length)

\* Those under BECH32, unless there are none or those under BECH32M are fewer.
Fewest(bech32, bech32m) ==
    IF \/ bech32 = {}
       \/ bech32m # {} /\ Cardinality(bech32m) < Cardinality(bech32)
    THEN bech32m ELSE bech32

\* LocateErrors for a string both decoders could read: the positions, from
\* zero, for the encoding with the fewest; none when there is no error, or
\* when they cannot be found.
LocateErrors(str) ==
    LET values == DataOf(str)
        check == PolyMod(PreparePolynomialCoefficients(HrpOf(str), values))
        found(encoding) ==
            {Len(str) - p - 1 : p \in PossibleErrors(
                Difference(check, EncodingConstant(encoding)), Len(values))}
    IN  IF VerifyChecksum(HrpOf(str), values) # INVALID THEN {}
        ELSE Fewest(found(BECH32), found(BECH32M))
=============================================================================
