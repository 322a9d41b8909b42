--------------------------- MODULE MCOnionMutator ---------------------------
(***************************************************************************)
(* An instance of OnionMutator with bytes of 8 values and 18 bytes of      *)
(* payload: a few records fill it.  Among the payloads are a legacy one, a *)
(* length that wraps around, one behind the data, an empty value, types    *)
(* out of order and a number that is longer than it needs to be.           *)
(***************************************************************************)
EXTENDS OnionMutator

MCPlaintexts ==
    {Padded(<<>>),
     Padded(<<4, 2, 1, 3>>),
     Padded(<<7, 7, 7, 7, 7, 7, 7, 7, 7>>),
     Padded(<<5, 2, 0, 2, 1, 3>>),
     Padded(<<6, 0, 1, 2, 0, 4, 1, 1>>),
     Padded(<<3, 4, 0, 2, 0>>),
     Padded(<<3, 5, 0, 1, 0>>)}

MCSecret(k, p) == IF k = "zero" THEN NoSecret ELSE <<k, p>>

MCRandomTypes == {0, 8 ^ 8 - 1}

MCKnownValues == [t \in {2, 4} |-> {<<1>>}]
MCOtherValues == {<<>>, <<7, 7, 7, 7, 7, 7>>}

MCScribbles == {<<>>, <<3, 3>>, <<0, 1, 7, 7, 7, 7, 7>>}
=============================================================================
