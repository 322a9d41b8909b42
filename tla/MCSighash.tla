------------------------------ MODULE MCSighash ------------------------------
(* ScriptCodes of up to three pieces, whole opcodes and torn ones, against       *)
(* signatures that occur in them; and, with one script, transactions whose   *)
(* counts and lengths are right, too large, or beyond a signed integer, cut  *)
(* anywhere.                                                                 *)
EXTENDS Sighash

LongSig == [i \in 1..76 |-> 7]

\* Opcodes, pushes of the signatures in two forms, a separator inside a push,
\* and pushes that may run beyond the script.
Pieces == {<<81>>, <<171>>, <<1, 171>>, <<76, 1, 171>>, <<2, 171>>, <<76>>,
           <<77, 1, 0, 171>>, <<78, 1, 0, 0, 0>>, <<0>>}

ScriptCodes == {<<>>} \cup Pieces \cup {p \o q : p \in Pieces, q \in Pieces}
           \cup {<<81, 171>> \o p \o q : p \in Pieces, q \in Pieces}
           \cup {p \o <<1, 171, 171>> \o q : p \in Pieces, q \in Pieces}

LengthFields == {<<0>>, <<1>>, <<3, 1, 0>>, <<4, 0, 0, 1, 0>>,
            <<5, 1, 0, 0, 0, 0, 0, 0, 0>>, <<5, 0, 0, 0, 0, 0, 0, 0, 3>>}

WholeTxs == {<<0>> \o marker \o nIn \o <<0, 0>> \o sigLen \o <<1, 0>> \o nOut \o <<0>>
              \o pkLen \o <<0>> \o items \o <<1, 1, 0>> :
              marker \in {<<>>, <<0, 1>>}, nIn \in LengthFields, sigLen \in LengthFields,
              nOut \in LengthFields, pkLen \in LengthFields, items \in {<<>>, <<1>>, <<5, 0, 0, 0, 0, 0, 0, 0, 3>>}}

Torn == {SubSeq(t, 1, Len(t) - k) : t \in WholeTxs, k \in {0, 2}}

PlainRequest == [tx_bytes |-> <<0, 0, 0, 0>>, script |-> <<171, 81>>, sig_to_delete |-> <<171>>,
          n_codesep |-> 1, embed_sig |-> FALSE, embed_pos |-> 0,
          is_segwit_v0 |-> FALSE, standard |-> TRUE, in_money_range |-> TRUE]

MCSighashInputs ==
    {[PlainRequest EXCEPT !.script = s, !.sig_to_delete = g, !.n_codesep = n] :
        s \in ScriptCodes, g \in {<<>>, <<171>>}, n \in 0..2}
    \cup
    {[PlainRequest EXCEPT !.script = s, !.sig_to_delete = g, !.n_codesep = n,
                   !.embed_sig = TRUE, !.embed_pos = p] :
        s \in ScriptCodes, g \in {<<171>>, LongSig}, n \in 0..1, p \in {0, 1, 2, 9}}
    \cup
    {[PlainRequest EXCEPT !.script = s, !.n_codesep = n, !.is_segwit_v0 = TRUE,
                   !.standard = st, !.in_money_range = st \/ n = 0] :
        s \in ScriptCodes, n \in 0..2, st \in BOOLEAN}
    \cup
    {[PlainRequest EXCEPT !.tx_bytes = t] : t \in Torn}
=============================================================================
