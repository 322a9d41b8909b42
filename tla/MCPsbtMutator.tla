--------------------------- MODULE MCPsbtMutator ---------------------------
(***************************************************************************)
(* Small instances of PsbtMutator.  A byte has five values: 0 and 1 stand  *)
(* for themselves as lengths, 2, 3 and 4 are the escapes for two, four and *)
(* eight digits, so that a length of two already needs an escape.          *)
(***************************************************************************)
EXTENDS PsbtMutator

MCMagic == <<4, 1>>

Rec(key, value) == [key |-> key, value |-> value]

\* The shape of the version 0 template: one global field, one empty input map
\* and one empty output map.
MCTemplate == <<<<Rec(<<0>>, <<1, 0, 1>>)>>, <<>>, <<>>>>

\* A single-byte key, a key with keydata, an empty and a two-byte value; lengths
\* of 25 and 625, the least of four and of eight digits.
Filled(n) == [k \in 1..n |-> k % 5]

MCKnownRecords ==
    {Rec(<<1>>, <<>>), Rec(<<1, 2>>, <<0, 2>>), Rec(<<0>>, Filled(25)), Rec(Filled(625), <<>>)}

MCScribbles == {<<0>>, <<2, 0>>, <<4, 1, 3>>}

\* Records whose lengths sit around 2, 25 and 625.
LongRecords == {Rec(<<0>>, Filled(n)) : n \in {1, 2, 24, 25}}
              \cup {Rec(Filled(n), <<>>) : n \in {2, 26, 624, 625}}

\* Nothing, a wrong magic, the magic alone; a whole container, one cut in its
\* second map, one with an empty map, one with a length that is not canonical;
\* one map with a long record.
MCCorpus ==
    {<<>>, <<4, 0, 0>>, MCMagic,
     MCMagic \o <<1, 0, 1, 1, 0, 0>>,
     MCMagic \o <<1, 3, 2, 2, 0, 1, 1, 0, 1, 3, 1>>,
     MCMagic \o <<0, 2, 1, 0, 3, 0, 0>>}
    \cup {Serialize(<<<<r>>>>) : r \in LongRecords}

\* Every text of up to six bytes behind the magic.
CodecTexts == {MCMagic \o text : text \in UNION {[1..n -> 0..4] : n \in 0..6}}

\* A call of its own for each of them, the last of the run.
CodecInit ==
    /\ buf \in CodecTexts
    /\ phase = "idle" /\ offset = 1 /\ maps = <<>> /\ current = <<>> /\ left = 0
    /\ maxSize = 0 /\ made = <<>> /\ cut = FALSE /\ calls = MaxCalls - 1

MCSpec == (Init \/ CodecInit) /\ [][Next]_vars

\* Those texts are parsed, not mutated.
CodecTextsAreParsed == phase = "mutate" => made # <<>> \/ buf \in Corpus
=============================================================================
