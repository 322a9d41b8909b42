------------------------- MODULE DifferentialOracle -------------------------
(***************************************************************************)
(* What differential fuzzing promises of one target, with no loop and no   *)
(* "last response": every module the target does not leave out is heard,   *)
(* in any order, and an input is a finding exactly when two of the modules *)
(* heard so far disagree.  Disagreement is a relation between two answers  *)
(* to the same input.  Driver.tla implements this.                         *)
(***************************************************************************)
EXTENDS Targets

CONSTANT Inputs

VARIABLES
    target,     \* the target of this process
    verdict,    \* "ready", "comparing", "agreed", "finding", "failed"
    input,      \* the input under test
    heard       \* module -> its answer to input, or Unasked

ovars == <<target, verdict, input, heard>>

\* The answer is one its target compares at all.
Meaningful(t, in, a) ==
    /\ a \notin {NullOpt, Unasked}
    /\ t = "address_parse" => a.tag # "unk"
    /\ t \in PsbtTargets => a.tag # "void"
    /\ t = "bech32_roundtrip" => ~OverCap(in)

Detects(a) == a.tag \in {"mutated", "rejected"}

\* Two answers that differ as each handler's comments say answers may not.
Differ(t, a, b) ==
    CASE t = "address_parse" ->
            a # b /\ (a.tag = "witness_unknown" <=> b.tag = "witness_unknown")
      [] t = "merkle_root_compute" ->
            \/ Detects(a) # Detects(b)
            \/ /\ "rejected" \notin {a.tag, b.tag}
               /\ a.body # b.body
      [] t = "cmpctblocks_parse" -> a # b /\ ~(a.tag = "err" /\ b.tag = "err")
      [] OTHER -> a # b

Disagree(t, in, a, b) ==
    Meaningful(t, in, a) /\ Meaningful(t, in, b) /\ Differ(t, a, b)

NoAnswers == [m \in Names |-> Unasked]

TypeOKOracle ==
    /\ target \in STRING
    /\ verdict \in {"ready", "comparing", "agreed", "finding", "failed"}
    /\ input \in Inputs
    /\ heard \in [Names -> Answers(target) \cup {Unasked}]

OracleInit ==
    /\ target \in STRING
    /\ verdict = "ready"
    /\ input \in Inputs
    /\ heard = NoAnswers

\* A new input: it reaches the comparison, or the handler returns early.
Offer(in) ==
    /\ verdict \in {"ready", "agreed"}
    /\ verdict' = IF Accepts(target, in) THEN "comparing" ELSE "ready"
    /\ input' = in
    /\ heard' = NoAnswers
    /\ UNCHANGED target

\* Module m answers a; a finding iff it disagrees with a module heard before.
Hear(m, a) ==
    /\ verdict = "comparing"
    /\ heard[m] = Unasked
    /\ ~SkipsModule(target, m, input)
    /\ heard' = [heard EXCEPT ![m] = a]
    /\ verdict' = IF \E n \in Names : Disagree(target, input, heard[n], a)
                  THEN "finding" ELSE "comparing"
    /\ UNCHANGED <<target, input>>

\* Agreement: nobody is left to ask.
Agree ==
    /\ verdict = "comparing"
    /\ \A m \in Names : heard[m] # Unasked \/ SkipsModule(target, m, input)
    /\ verdict' = "agreed"
    /\ UNCHANGED <<target, input, heard>>

\* The process dies of something else than a disagreement.
Fail ==
    /\ verdict \in {"ready", "comparing", "agreed"}
    /\ verdict' = "failed"
    /\ UNCHANGED target

OracleNext ==
    \/ \E in \in Inputs : Offer(in)
    \/ \E m \in Names : \E a \in Answers(target) : Hear(m, a)
    \/ Agree
    \/ Fail

OracleSpec == OracleInit /\ [][OracleNext]_ovars
=============================================================================
