------------------------------ MODULE MCMutators ------------------------------
(***************************************************************************)
(* The mutators of text and of fixed formats on small instances.  A fuzzer *)
(* is built with one custom mutator: the others have no state in it.       *)
(*                                                                         *)
(* For the text mutators: an invoice with every one and two of its         *)
(* characters replaced, and bytes that libFuzzer puts at either end.  For  *)
(* the fixed formats: a digest that tells the checked payloads apart,      *)
(* signers that tell keys and hashes apart and refuse the zero key, texts  *)
(* with leading ones, spaces, NULs and characters outside base58.          *)
(***************************************************************************)
EXTENDS TextMutators, FixedFormats

ln == <<108, 110>>

AnInvoice == Encode(BECH32, ln, <<1, 31>>)

MCDummy == Encode(BECH32, <<108>>, <<0>>)

MCSeeds ==
    [bolt11 |-> {AnInvoice, UpperCased(AnInvoice), Encode(BECH32, <<98>>, <<7>>),
                 Encode(BECH32M, <<98>>, <<7>>), Encode(BECH32, <<108, 110, 98, 99>>, <<>>), <<49, 49>>},
     bolt12 |-> {EncodeNoChecksum(bech32_hrp, <<>>), EncodeNoChecksum(bech32_hrp, <<3, 9>>),
                 EncodeNoChecksum(<<97>>, <<5>>), <<97>>}]

\* Each character of the data part, alone and with each other, replaced by
\* one of a few.
Replace(s, i, v) == [s EXCEPT ![i] = CHARSET[v + 1]]

DataPart == 4..Len(AnInvoice)

MCCorrupted ==
    {[text |-> Replace(AnInvoice, i, v), errors |-> {i - 1}] :
        i \in DataPart, v \in {0, 13, 22}}
    \cup
    {[text |-> Replace(Replace(AnInvoice, i, v), j, w), errors |-> {i - 1, j - 1}] :
        i \in DataPart, j \in DataPart, v \in {0, 13, 22}, w \in {2, 17}}

\* Those that differ from AnInvoice where they are said to.
MCCorruptions ==
    {c \in MCCorrupted : c.errors = {i - 1 : i \in {k \in DataPart : c.text[k] # AnInvoice[k]}}}

\* A byte replaced, inserted or erased, at either end.
ByteValues == {0, 65, 98, 136, 255}

MCMutants(d) ==
    {<<b>> \o d : b \in ByteValues} \cup {Append(d, b) : b \in ByteValues}
    \cup (IF d = <<>> THEN {}
          ELSE {[d EXCEPT ![1] = b] : b \in ByteValues} \cup {Front(d), Tail(d)})

-----------------------------------------------------------------------------
Fill(n, b) == [i \in 1..n |-> b]

At(bytes, i) == IF i \in DOMAIN bytes THEN bytes[i] ELSE i

MCHash4(bytes) ==
    <<(At(bytes, 1) + 3 * At(bytes, 2) + 5 * At(bytes, 3)) % 251, Len(bytes) % 256,
      (At(bytes, 5) + 3 * At(bytes, 6) + 7 * At(bytes, Len(bytes))) % 251, 7>>

MCSchnorrSign(key, hash) == IF key[1] = 0 THEN <<>> ELSE Fill(32, key[1]) \o Fill(32, hash[1])
MCEcdsaSign(key, hash) == IF key[1] = 0 THEN <<>> ELSE <<48>> \o Fill(68 + key[1], hash[1])

Header(length) == Fill(16, 249) \o length \o Fill(4, 99)

Messages == {Header(l) \o Fill(n, 5) : l \in {<<0, 0, 0, 0>>, <<2, 0, 0, 0>>, <<1, 0, 0, 1>>},
                                       n \in {0, 1, 2, 3}}
Signables == {Fill(32, k) \o Fill(32, h) \o Fill(n, 9) :
                k \in {0, 1, 2}, h \in {3, 4}, n \in {0, 63, 80}}
Payloads == {<<>>, <<4, 136>>, Fill(8, 0), Fill(8, 255), [i \in 1..8 |-> (i * 37) % 256]}

MCLLVMFuzzerMutate(d, max) ==
    {new \in
        CASE mutator = "extended_key" -> Payloads \cup {d}
          [] mutator = "p2p_message" -> Messages \cup {<<>>, Fill(23, 0)}
          [] mutator = "p2p_lightning_message" -> {<<>>, <<9>>, <<9, 9>>, <<9, 9, 9>>}
          [] OTHER -> Signables \cup {<<>>, Fill(63, 1)} : Len(new) <= max}

MCCorpus == {<<>>, <<49>>, <<122>>, <<49, 49, 122>>, <<32, 49, 122, 90, 10>>, <<122, 32, 122>>,
             <<122, 0>>, <<48>>, <<0>>, <<0, 255>>, <<255, 255, 255>>, Fill(12, 122), Fill(12, 255)}

MCOutputSizes == {1, 17, 128, 144}

-----------------------------------------------------------------------------
NoText  == format = "none" /\ text = <<>> /\ errors = {} /\ last = [op |-> "none"]
           /\ thrown = FALSE /\ steps = 0
NoFixed == /\ mutator = "none" /\ env = "" /\ max_size = 0 /\ data = <<>>
           /\ ctx = FALSE /\ repaired = FALSE /\ made = <<>>

Init == (TextInit /\ NoFixed) \/ (FixedInit /\ NoText)

Next ==
    \/ format # "none" /\ TextNext /\ UNCHANGED fixedVars
    \/ format = "none" /\ FixedNext /\ UNCHANGED textVars

Spec == Init /\ [][Next]_<<textVars, fixedVars>>

-----------------------------------------------------------------------------
\* bolt11.h, bolt12_offer.h and the mutators of fixed formats: every one leaves
\* bytes, and no more of them than the buffer of libFuzzer holds.
BufferHolds ==
    /\ format # "none" => TextTypeOK
    /\ mutator # "none" => FixedTypeOK

\* What bech32.cpp, base58.cpp and the buffer of the caller promise a mutator:
\* nothing is written beyond its end, one or two replaced characters of an
\* invoice are located, no assertion on the size of an array fails, and a text
\* of base58, an extended key among them, is read back as it was written.
BuffersAndCodecsHold ==
    /\ BufferHolds
    /\ LocatesErrors
    /\ Base58ReadsBack
    /\ ExtendedKeyReadsBack
=============================================================================
