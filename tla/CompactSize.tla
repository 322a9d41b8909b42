---------------------------- MODULE CompactSize ----------------------------
(***************************************************************************)
(* The CompactSize codec of the PSBT mutator: an integer is one byte below *)
(* an escape, or an escape byte and 2, 4 or 8 little-endian digits.  The   *)
(* code's byte has Base = 256 values and its escapes are 253, 254 and 255; *)
(* the codec is the same for any Base that leaves room for three escapes.  *)
(***************************************************************************)
EXTENDS Integers, Sequences

CONSTANT Base

ASSUME BaseAssumption == Base \in Nat /\ Base >= 5

Byte == 0..(Base - 1)
Bytes == Seq(Byte)

\* First bytes from here on announce digits.
Escape == Base - 3

\* How many digits an escape byte announces.
Width(first) == CASE first = Escape     -> 2
                  [] first = Escape + 1 -> 4
                  [] first = Escape + 2 -> 8

\* How many values so many digits have.
TwoDigits == Base * Base
FourDigits == TwoDigits * TwoDigits
EightDigits == FourDigits * FourDigits

\* The least value that needs that many digits.
Least(width) == CASE width = 2 -> Escape
                  [] width = 4 -> TwoDigits
                  [] width = 8 -> FourDigits

(***************************************************************************)
(* encode_compact_size                                                     *)
(***************************************************************************)

\* Little-endian: rest[k] is value shifted by k digits.
Digits(value, width) ==
    LET rest[k \in 0..width] == IF k = 0 THEN value ELSE rest[k - 1] \div Base
    IN  [i \in 1..width |-> rest[i - 1] % Base]

\* Slip: the bound of the two-digit form is taken to be inclusive.
EncodeInclusive(value) ==
    CASE value < Escape                             -> <<value>>
      [] value >= Escape /\ value <= TwoDigits      -> <<Escape>> \o Digits(value, 2)
      [] value > TwoDigits /\ value < FourDigits    -> <<Escape + 1>> \o Digits(value, 4)
      [] value >= FourDigits                        -> <<Escape + 2>> \o Digits(value, 8)

\* The shortest form that holds value.
Encode(value) ==
    CASE value < Escape                             -> <<value>>
      [] value >= Escape /\ value < TwoDigits       -> <<Escape>> \o Digits(value, 2)
      [] value >= TwoDigits /\ value < FourDigits   -> <<Escape + 1>> \o Digits(value, 4)
      [] value >= FourDigits                        -> <<Escape + 2>> \o Digits(value, 8)

(***************************************************************************)
(* decode_compact_size at offset o of buf (1 is the first byte)            *)
(***************************************************************************)

\* The number whose little-endian digits are buf[o+1 .. o+width]: read from
\* the most significant one, the last.
Number(buf, o, width) ==
    LET read[k \in 0..width] ==
            IF k = 0 THEN 0 ELSE read[k - 1] * Base + buf[o + width + 1 - k]
    IN  read[width]

Invalid == [valid |-> FALSE, value |-> 0, bytes_read |-> 0]

\* Slip: a value with more digits than it needs is let through.
DecodeAnyLength(buf, o) ==
    IF o > Len(buf) THEN Invalid
    ELSE IF buf[o] < Escape
    THEN [valid |-> TRUE, value |-> buf[o], bytes_read |-> 1]
    ELSE LET width == Width(buf[o])
         IN  IF o + width > Len(buf) THEN Invalid
             ELSE [valid |-> TRUE, value |-> Number(buf, o, width),
                   bytes_read |-> 1 + width]

Decode(buf, o) ==
    IF o > Len(buf) THEN Invalid
    ELSE IF buf[o] < Escape
    THEN [valid |-> TRUE, value |-> buf[o], bytes_read |-> 1]
    ELSE LET width == Width(buf[o])
         IN  IF o + width > Len(buf) THEN Invalid
             ELSE IF Number(buf, o, width) < Least(width) THEN Invalid
             ELSE [valid |-> TRUE, value |-> Number(buf, o, width),
                   bytes_read |-> 1 + width]
=============================================================================
