---------------------------- MODULE TextMutators ----------------------------
(***************************************************************************)
(* The two custom mutators of Lightning text: BOLT 11 invoices (bolt11.h,  *)
(* Bech32 with a checksum) and BOLT 12 offers (bolt12_offer.h, without),   *)
(* with the cross-over they share (customcrossover.cpp).                   *)
(*                                                                         *)
(* libFuzzer calls them on a corpus member no longer than max_size, and    *)
(* LLVMFuzzerMutate leaves at least one byte.  A draw of std::rand() is a  *)
(* choice.  A char is signed.  A size_t wraps around, and a buffer larger  *)
(* than a vector may be ends the process.                                  *)
(***************************************************************************)
EXTENDS Bech32

CONSTANTS
    Seeds,          \* format -> corpus members to start from
    Corrupted,      \* BOLT 11 strings with up to two characters replaced
    DummyInvoice,   \* what stands for the invoice of initial_input
    Mutants(_),     \* what LLVMFuzzerMutate may leave of a buffer
    MaxSizes,       \* max_size, when it is not less than the input
    SIZE_MAX,       \* the largest size_t
    MaxSteps        \* bound on the calls

\* Inputs are bytes, the dummy is an invoice, and no input is longer than
\* what the decoder takes.
ASSUME TextAssumption ==
    /\ DOMAIN Seeds = {"bolt11", "bolt12"}
    /\ Seeds["bolt11"] \subseteq Seq(0..255) /\ Seeds["bolt12"] \subseteq Seq(0..255)
    /\ \A c \in Corrupted : c.text \in Seq(0..255)
    /\ DummyInvoice \in Seq(0..255) /\ Decode(DummyInvoice, CUSTOM_MUTATOR).encoding = BECH32
    /\ MaxSizes \subseteq 0..CUSTOM_MUTATOR
    /\ SIZE_MAX \in Nat /\ SIZE_MAX >= 2 * CUSTOM_MUTATOR
    /\ MaxSteps \in Nat

VARIABLES
    format,     \* "bolt11" or "bolt12": the mutator of this build
    text,       \* the corpus member the last call left
    errors,     \* history: positions replaced by hand in it
    last,       \* history: the last call
    thrown,     \* std::length_error has ended the process in it
    steps       \* history: calls, bounded by MaxSteps

textVars == <<format, text, errors, last, thrown, steps>>

Cut(s, n) == SubSeq(s, 1, IF Len(s) < n THEN Len(s) ELSE n)

LowerOf(n, m) == IF n < m THEN n ELSE m

\* a - b of two size_t.
Minus(a, b) == IF b <= a THEN a - b ELSE SIZE_MAX + 1 - (b - a)

\* A vector of bytes holds up to PTRDIFF_MAX of them.
Reservable(n) == 2 * n <= SIZE_MAX

Mutated(buffer, max) == {m \in Mutants(buffer) : Len(m) \in 1..max}

-----------------------------------------------------------------------------
(***************************************************************************)
(* cross_over: a part of in2 is inserted into in1, or written over it      *)
(***************************************************************************)
Parts(s, n) == {SubSeq(s, i + 1, i + n) : i \in 0..(Len(s) - n)}

insert_part(in1, in2, max) ==
    IF Len(in1) >= max \/ in1 = <<>> \/ in2 = <<>> THEN {<<>>}
    ELSE UNION {{SubSeq(in1, 1, begin) \o part \o SubSeq(in1, begin + 1, Len(in1)) :
                    part \in Parts(in2, size)} :
                    begin \in 0..(Len(in1) - 1), size \in 1..LowerOf(max - Len(in1), Len(in2))}

\* Nothing returns from a reserve() that throws, whatever the inputs.
overwrite_part(in1, in2, max) ==
    LET out == Cut(in1, max)
    IN  IF ~Reservable(max) THEN {}
        ELSE IF out = <<>> \/ in2 = <<>> THEN {<<>>}
        ELSE UNION {UNION {{SubSeq(out, 1, pos) \o part \o SubSeq(out, pos + size + 1, Len(out)) :
                               part \in Parts(in2, size)} :
                               size \in 1..LowerOf(Len(in2), Len(out) - pos)} :
                               pos \in 0..(Len(out) - 1)}

cross_over(in1, in2, max) == insert_part(in1, in2, max) \cup overwrite_part(in1, in2, max)

-----------------------------------------------------------------------------
(***************************************************************************)
(* bolt11.h                                                                *)
(***************************************************************************)
Signed(b) == IF b > 127 THEN b - 256 ELSE b

\* % of C++: the sign of the dividend.
Remainder(c, n) == IF c < 0 THEN -((-c) % n) ELSE c % n

\* Slip: only the low end of the range is asked.
SanitizeLowEnd(b) ==
    IF b < 33 THEN 97 + Remainder(Signed(b), 26) ELSE LowerCase(b)

\* A byte from 128 may become an upper-case letter.
Sanitize(b) ==
    IF Signed(b) < 33 \/ Signed(b) > 126 THEN 97 + Remainder(Signed(b), 26)
    ELSE LowerCase(b)

InitialInvoice(max) == Cut(DummyInvoice, max)

\* The encoded invoice, or the dummy when it has an upper-case letter in its
\* human readable part or is too long.
Invoice(hrp, data, max) ==
    LET output == Encode(BECH32, hrp, data)
    IN  IF (\E i \in DOMAIN hrp : IsUpper(hrp[i])) \/ Len(output) > max
        THEN InitialInvoice(max) ELSE output

\* The whole buffer is encoded, also what is left behind the new length.
DataBuffer(m, data, max) ==
    [i \in 1..max |-> (IF i <= Len(m) THEN m[i]
                       ELSE IF i <= Len(data) THEN data[i] ELSE 0) % 32]

\* What may become of an input that decodes.
MutatedInvoices(input, max) ==
    LET decoded == Decode(input, CUSTOM_MUTATOR)
        hrp == decoded.hrp
        data == decoded.data
        hrp_maxlen == Len(input) - 6
        data_maxlen == Len(input) - 8
    IN  {Invoice([i \in DOMAIN m |-> Sanitize(m[i])], data, max) :
            m \in Mutated(hrp, hrp_maxlen)}
        \cup
        {Invoice(hrp, DataBuffer(m, data, data_maxlen), max) :
            m \in Mutated(data, data_maxlen)}

IsInvoice(input) == Len(input) >= 9 /\ Decode(input, CUSTOM_MUTATOR).encoding = BECH32

\* What LLVMFuzzerCustomMutator of bolt11.h may leave.
Bolt11Mutator(input, max) ==
    IF IsInvoice(input) THEN MutatedInvoices(input, max) ELSE {InitialInvoice(max)}

\* What the other part and the checksum leave of the buffer, and one more.
RoomForHrp(decoded, max) == Minus(max, Len(decoded.data) + 8)
RoomForData(decoded, max) == Minus(max, Len(decoded.hrp) + 8)

\* LLVMFuzzerCustomCrossOver; {} stands for the size 0, or for no return.
Bolt11CrossOver(in1, in2, max) ==
    LET d1 == Decode(in1, CUSTOM_MUTATOR)
        d2 == Decode(in2, CUSTOM_MUTATOR)
        crossed == {Encode(BECH32, h, d1.data) :
                        h \in cross_over(d1.hrp, d2.hrp, RoomForHrp(d1, max))}
                   \cup
                   {Encode(BECH32, d1.hrp, d) :
                        d \in cross_over(d1.data, d2.data, RoomForData(d1, max))}
    IN  IF IsInvoice(in1) /\ IsInvoice(in2) THEN {s \in crossed : Len(s) <= max} ELSE {}

-----------------------------------------------------------------------------
(***************************************************************************)
(* bolt12_offer.h                                                          *)
(***************************************************************************)
bech32_hrp == <<108, 110, 111>>

dummy_initial_input == bech32_hrp \o <<Separator>>

InitialOffer(max) == Cut(dummy_initial_input, max)

Masked(data) == [i \in DOMAIN data |-> data[i] % 32]

Fits(s, max) == Len(s) <= max

\* What LLVMFuzzerCustomMutator of bolt12_offer.h may leave.
Bolt12Mutator(input, max) ==
    LET decoded == DecodeNoChecksum(input, CUSTOM_MUTATOR)
        Offer(m) == EncodeNoChecksum(bech32_hrp, Masked(m))
    IN  IF decoded.encoding # BECH32 \/ Len(decoded.data) > max THEN {InitialOffer(max)}
        ELSE {IF Fits(Offer(m), max) THEN Offer(m) ELSE InitialOffer(max) :
                  m \in Mutated(decoded.data, max)}

\* LLVMFuzzerCustomCrossOver: an input that does not decode counts as empty.
Bolt12CrossOver(in1, in2, max) ==
    LET data(in) == DecodeNoChecksum(in, CUSTOM_MUTATOR).data
    IN  {s \in {EncodeNoChecksum(bech32_hrp, d) : d \in cross_over(data(in1), data(in2), max)} :
            Fits(s, max)}

-----------------------------------------------------------------------------
TextInit ==
    /\ format \in {"bolt11", "bolt12"}
    /\ \/ text \in Seeds[format] /\ errors = {}
       \/ /\ format = "bolt11"
          /\ \E c \in Corrupted : text = c.text /\ errors = c.errors
    /\ last = [op |-> "none"]
    /\ thrown = FALSE
    /\ steps = 0

\* libFuzzer mutates the member.
Mutate(max) ==
    /\ ~thrown
    /\ steps < MaxSteps
    /\ Len(text) <= max
    /\ text' \in IF format = "bolt11" THEN Bolt11Mutator(text, max) ELSE Bolt12Mutator(text, max)
    /\ last' = [op |-> "mutate", from |-> text, max |-> max]
    /\ errors' = {}
    /\ steps' = steps + 1
    /\ UNCHANGED <<format, thrown>>

\* libFuzzer crosses it with another.
CrossOver(with, max) ==
    /\ ~thrown
    /\ steps < MaxSteps
    /\ Len(text) <= max
    /\ text' \in IF format = "bolt11" THEN Bolt11CrossOver(text, with, max)
                 ELSE Bolt12CrossOver(text, with, max)
    /\ last' = [op |-> "cross", from |-> text, max |-> max]
    /\ errors' = {}
    /\ steps' = steps + 1
    /\ UNCHANGED <<format, thrown>>

\* The cross-over draws the overwrite for a part whose room has wrapped around.
ReserveThrows(with, max) ==
    /\ ~thrown
    /\ steps < MaxSteps
    /\ Len(text) <= max
    /\ format = "bolt11"
    /\ IsInvoice(text) /\ IsInvoice(with)
    /\ \/ ~Reservable(RoomForHrp(Decode(text, CUSTOM_MUTATOR), max))
       \/ ~Reservable(RoomForData(Decode(text, CUSTOM_MUTATOR), max))
    /\ thrown' = TRUE
    /\ last' = [op |-> "cross", from |-> text, max |-> max]
    /\ steps' = steps + 1
    /\ UNCHANGED <<format, text, errors>>

TextNext == \E max \in MaxSizes :
            \/ Mutate(max)
            \/ \E with \in Seeds[format] : CrossOver(with, max) \/ ReserveThrows(with, max)

TextSpec == TextInit /\ [][TextNext]_textVars

-----------------------------------------------------------------------------
(***************************************************************************)
(* Properties                                                              *)
(***************************************************************************)
Decoded == Decode(text, CUSTOM_MUTATOR)

\* Bytes, and never more of them than the buffer of the caller holds.
TextTypeOK ==
    /\ format \in DOMAIN Seeds
    /\ \A i \in DOMAIN text : text[i] \in 0..255
    /\ last.op # "none" => Len(text) <= last.max
    /\ thrown \in BOOLEAN
    /\ steps \in 0..MaxSteps

\* "an input corpus that consists entirely of correctly encoded bech32
\* strings" (bolt11.h:14): whatever the mutator was given and whatever bytes
\* libFuzzer put into it, it leaves an invoice that decodes, if only the dummy
\* fits.
MutatorKeepsBech32 ==
    format = "bolt11" /\ last.op = "mutate" /\ last.max >= Len(DummyInvoice) =>
        Decoded.encoding = BECH32

\* "Mutate either the human readable or data part of the invoice"
\* (bolt11.h:24): one of the two is what it was, unless the dummy replaced
\* both.
OnePartChanges ==
    format = "bolt11" /\ last.op = "mutate" /\ text # InitialInvoice(last.max) =>
        LET before == Decode(last.from, CUSTOM_MUTATOR)
        IN  Decoded.hrp = before.hrp \/ Decoded.data = before.data

\* The mutator and the cross-over of offers leave only offers: a string of
\* the "lno" prefix that decodes, whatever prefix the input had.
OfferDecodes ==
    format = "bolt12" /\ last.op # "none" /\ last.max >= Len(dummy_initial_input) =>
        LET decoded == DecodeNoChecksum(text, CUSTOM_MUTATOR)
        IN  decoded.encoding = BECH32 /\ decoded.hrp = bech32_hrp

UpperCased(s) == [i \in DOMAIN s |-> IF IsLower(s[i]) THEN s[i] - 32 ELSE s[i]]

\* Decode inverts Encode, and reads the upper-case form of a string alike.
DecodeInvertsEncode ==
    Decoded.encoding # INVALID =>
        /\ Encode(Decoded.encoding, Decoded.hrp, Decoded.data) = LowerCased(text)
        /\ \/ CheckCharacters(UpperCased(text)) = FALSE
           \/ Decode(UpperCased(text), CUSTOM_MUTATOR) = Decoded

\* The cross-over of invoices ends the process for one kind of input only, an
\* invoice without data that fills the buffer: the room for a prefix never
\* wraps around, and that for data (bolt11.h:187) only there.
ThrowsOnlyWhenFull ==
    thrown => /\ format = "bolt11" /\ last.op = "cross"
              /\ Decoded.data = <<>>
              /\ Len(text) = last.max

\* bolt11.h and bolt12_offer.h on bech32.cpp: what their mutators leave is
\* what its target decodes, with one part of the input kept, what is decoded
\* is what was encoded, and only a full invoice without data ends the process.
TextMutatorsHold ==
    /\ MutatorKeepsBech32
    /\ OnePartChanges
    /\ OfferDecodes
    /\ DecodeInvertsEncode
    /\ ThrowsOnlyWhenFull

\* One or two replaced characters of the data part never pass the checksum of
\* either encoding, and LocateErrors names exactly their positions.
LocatesErrors ==
    errors # {} => Decoded.encoding = INVALID /\ LocateErrors(text) = errors

\* bolt11.h:14 once more, for all that the build does to its corpus, the
\* cross-over included.
CorpusIsBech32 ==
    format = "bolt11" /\ last.op # "none" /\ last.max >= Len(DummyInvoice) =>
        Decoded.encoding = BECH32

\* "Overwrites a random part of in1 with a slice from in2, up to max_out_size."
\* (customcrossover.h:15): every cross-over comes back, with a string or with
\* none.  The reserve of a room that has wrapped around does not.
CrossOverReturns == ~thrown
=============================================================================
