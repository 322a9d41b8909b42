------------------------------- MODULE Base58 -------------------------------
(***************************************************************************)
(* custommutator/utils/base58.cpp.  Bytes and characters are numbers below *)
(* 256.  A conversion works on an array of a size computed beforehand,     *)
(* least significant digit first here; a carry that is left when the array *)
(* is full is what the code asserts never happens ("asserts").             *)
(***************************************************************************)
EXTENDS Integers, Sequences, SequencesExt, FiniteSetsExt

CONSTANT Hash4(_)      \* the first four bytes of the double SHA-256

\* pszBase58: the digits, capitals and small letters but for 0, I, O and l.
pszBase58 ==
    SelectSeq([c \in 1..122 |-> c],
              LAMBDA c : c \in ((49..57) \cup (65..90) \cup (97..122)) \ {73, 79, 108})

\* mapBase58: the value of a character, -1 for any other.
mapBase58 ==
    [c \in 0..255 |->
        IF Contains(pszBase58, c)
        THEN (CHOOSE i \in DOMAIN pszBase58 : pszBase58[i] = c) - 1
        ELSE -1]

One == 49

Space == {32} \cup 9..13

\* The length of the longest prefix of characters to skip, and what follows it.
Leading(s, skipped) ==
    CHOOSE n \in 0..Len(s) :
        /\ \A i \in 1..n : s[i] \in skipped
        /\ n < Len(s) => s[n + 1] \notin skipped

After(s, skipped) == SubSeq(s, Leading(s, skipped) + 1, Len(s))

\* digits * from + carry, written in base to, in an array of Len(digits).
MultiplyAdd(digits, length, from, to, carry) ==
    LET place[i \in 0..Len(digits)] ==
            LET n   == place[i - 1]
                sum == n.carry + from * n.digits[i]
            IN  IF i = 0 THEN [digits |-> digits, length |-> 0, carry |-> carry]
                ELSE IF n.carry = 0 /\ i > length THEN n
                ELSE [digits |-> [n.digits EXCEPT ![i] = sum % to],
                      length |-> i, carry |-> sum \div to]
    IN  place[Len(digits)]

Zeroes(n) == [i \in 1..n |-> 0]

\* The array sizes: log(58)/log(256) and log(256)/log(58), rounded up.
SizeInBytes(n)  == (n * 733) \div 1000 + 1
SizeIn58(n) == (n * 138) \div 100 + 1

Refused == [status |-> "refused", vch |-> <<>>]

\* The loop over the characters between the leading ones and the next space.
DecodeDigits(word, zeroes, max_ret_len) ==
    FoldLeft(
        LAMBDA n, c :
            IF n.status # "ok" THEN n
            ELSE IF mapBase58[c] = -1 THEN [n EXCEPT !.status = "refused"]
            ELSE LET next == MultiplyAdd(n.digits, n.length, 58, 256, mapBase58[c])
                 IN  [digits |-> next.digits,
                      length |-> next.length,
                      status |-> IF next.carry # 0 THEN "asserts"
                                 ELSE IF next.length + zeroes > max_ret_len THEN "refused"
                                 ELSE "ok"],
        [status |-> "ok", digits |-> Zeroes(SizeInBytes(Len(word.rest))), length |-> 0],
        word.digits)

DecodeBase58(str, max_ret_len) ==
    LET psz    == After(str, Space)
        zeroes == Leading(psz, {One})
        rest   == After(psz, {One})
        blank  == After(rest, (0..255) \ Space)
        word   == [rest |-> rest, digits |-> SubSeq(rest, 1, Len(rest) - Len(blank))]
        number == DecodeDigits(word, zeroes, max_ret_len)
    IN  IF Contains(str, 0) \/ zeroes > max_ret_len THEN Refused
        ELSE IF number.status # "ok" THEN [Refused EXCEPT !.status = number.status]
        ELSE IF After(blank, Space) # <<>> THEN Refused
        ELSE [status |-> "ok",
              vch    |-> Zeroes(zeroes) \o Reverse(SubSeq(number.digits, 1, number.length))]

EncodeBase58(input) ==
    LET zeroes == Leading(input, {0})
        number ==
            FoldLeft(
                LAMBDA n, b :
                    IF n.carry # 0 THEN n
                    ELSE MultiplyAdd(n.digits, n.length, 256, 58, b),
                [digits |-> Zeroes(SizeIn58(Len(input) - zeroes)), length |-> 0, carry |-> 0],
                SubSeq(input, zeroes + 1, Len(input)))
        digits == After(Reverse(SubSeq(number.digits, 1, number.length)), {0})
    IN  [status |-> IF number.carry # 0 THEN "asserts" ELSE "ok",
         str    |-> [i \in 1..zeroes |-> One] \o [i \in DOMAIN digits |-> pszBase58[digits[i] + 1]]]

EncodeBase58Check(input) == EncodeBase58(input \o Hash4(input)).str

\* The bound of the text behind a payload of at most max_ret_len bytes.
BoundOfText(max_ret_len) == max_ret_len + 4

\* The bytes before the last four, when those are their hash.
Checked(text) ==
    LET size == Len(text.vch) - 4
    IN  IF text.status # "ok" THEN text
        ELSE IF size < 0 THEN Refused
        ELSE IF Hash4(SubSeq(text.vch, 1, size)) # SubSeq(text.vch, size + 1, size + 4) THEN Refused
        ELSE [status |-> "ok", vch |-> SubSeq(text.vch, 1, size)]

DecodeBase58Check(str, max_ret_len) == Checked(DecodeBase58(str, BoundOfText(max_ret_len)))
=============================================================================
