------------------------------- MODULE Driver -------------------------------
(***************************************************************************)
(* The fuzz loop of driver.cpp: LLVMFuzzerTestOneInput hands an input to   *)
(* the handler of the process's target, which walks the module map in name *)
(* order, asks each module, and compares its answer with the last answer   *)
(* of the same chain.  A mismatch is an assertion failure: the process     *)
(* dies and the input is the finding.                                      *)
(*                                                                         *)
(* A module is an arbitrary function of the environment: any module may    *)
(* give any answer to any input, or take the process down itself (abort(), *)
(* an uncaught exception, a sanitizer report).                             *)
(***************************************************************************)
EXTENDS Targets

CONSTANTS
    Order,      \* the names in the order of std::map's iterator
    TargetSet,  \* values the FUZZ environment variable is given
    Inputs,     \* inputs libFuzzer generates
    MaxRuns     \* bound on the number of inputs of one process

Count == Len(Order)    \* modules.size()

ASSUME OrderAssumption ==
    /\ Order \in Seq(Names)
    /\ \A m \in Names : \E i \in 1..Count : Order[i] = m
    /\ \A i, j \in 1..Count : Order[i] = Order[j] => i = j

NoName == "(none)"     \* the empty last_module_name

ASSUME NamesAssumption == Names \subseteq STRING /\ NoName \notin Names

ASSUME TargetSetAssumption == TargetSet \subseteq STRING

ASSUME InputsAssumption == Inputs \subseteq Input /\ Inputs # {}

ASSUME MaxRunsAssumption == MaxRuns \in Nat

VARIABLES
    target,     \* g_target
    status,     \* "ready", "running", "agreed" or "aborted"
    input,      \* Data
    pos,        \* position of the iterator in the module map
    last,       \* chain -> last_response
    lastName,   \* chain -> last_module_name
    answers,    \* history: module -> its answer to input, Unasked before
    cause,      \* history: why the process died
    runs        \* history: inputs begun, bounded by MaxRuns

vars == <<target, status, input, pos, last, lastName, answers, cause, runs>>

NoAnswers == [m \in Names |-> Unasked]

Causes == {"none", "mismatch", "malformed_answer", "module_died", "unknown_target"}

Values(t) == [tag : AnswerTags(t) \cup {"err", "root", "detected", "clean"},
              body : Bodies \cup {Blank}]

TypeOK ==
    /\ target \in TargetSet
    /\ status \in {"ready", "running", "agreed", "aborted"}
    /\ input \in Inputs
    /\ pos \in 1..(Count + 1)
    /\ last \in [Lanes -> Values(target) \cup {None}]
    /\ lastName \in [Lanes -> Names \cup {NoName}]
    /\ answers \in [Names -> Answers(target) \cup {Unasked}]
    /\ cause \in Causes
    /\ runs \in 0..MaxRuns

Init ==
    /\ target \in TargetSet
    /\ status = "ready"
    /\ input \in Inputs
    /\ pos = 1
    /\ last = [lane \in Lanes |-> None]
    /\ lastName = [lane \in Lanes |-> NoName]
    /\ answers = NoAnswers
    /\ cause = "none"
    /\ runs = 0

Abort(why) == status' = "aborted" /\ cause' = why

\* Slip: last_response and last_module_name outlive the handler.
BeginRunStale(in) ==
    /\ status \in {"ready", "agreed"}
    /\ runs < MaxRuns
    /\ target \in KnownTargets
    /\ status' = IF Accepts(target, in) THEN "running" ELSE "ready"
    /\ input' = in
    /\ pos' = 1
    /\ answers' = NoAnswers
    /\ runs' = runs + 1
    /\ UNCHANGED <<target, last, lastName, cause>>

(***************************************************************************)
(* One input: Driver::Run dispatches on the target, whose handler starts   *)
(* with fresh last_response locals, or returns before its loop.            *)
(***************************************************************************)
BeginRun(in) ==
    /\ status \in {"ready", "agreed"}
    /\ runs < MaxRuns
    /\ target \in KnownTargets
    /\ status' = IF Accepts(target, in) THEN "running" ELSE "ready"
    /\ input' = in
    /\ pos' = 1
    /\ last' = [lane \in Lanes |-> None]
    /\ lastName' = [lane \in Lanes |-> NoName]
    /\ answers' = NoAnswers
    /\ runs' = runs + 1
    /\ UNCHANGED <<target, cause>>

\* "Unknown target": assert(false).
RejectTarget ==
    /\ status = "ready"
    /\ runs < MaxRuns
    /\ target \notin KnownTargets
    /\ Abort("unknown_target")
    /\ runs' = runs + 1
    /\ UNCHANGED <<target, input, pos, last, lastName, answers>>

(***************************************************************************)
(* The loop over the module map                                            *)
(***************************************************************************)
AtModule == status = "running" /\ pos <= Count

\* A skip list takes this module out of this input.
SkipModule ==
    /\ AtModule
    /\ SkipsModule(target, Order[pos], input)
    /\ pos' = pos + 1
    /\ UNCHANGED <<target, status, input, last, lastName, answers, cause, runs>>

\* Slip: the second assertion of a handler with two chains is forgotten.
MismatchOfMainChain(a) ==
    /\ Compared(target, input, a, "main") # None
    /\ last["main"] # None
    /\ Compared(target, input, a, "main") # last["main"]

\* The answer differs from the last answer of one of its chains.
Mismatch(a) ==
    \E lane \in Lanes :
        /\ Compared(target, input, a, lane) # None
        /\ last[lane] # None
        /\ Compared(target, input, a, lane) # last[lane]

Passes(m, a) ==
    ~Mismatch(a) \/ Tolerated(target, m, a, lastName["main"], last["main"])

\* The module answers and nothing contradicts it: last_response, last_module_name.
AcceptAnswer(a) ==
    LET m == Order[pos]
        Takes(lane) == Compared(target, input, a, lane) # None
    IN  /\ AtModule
        /\ ~SkipsModule(target, m, input)
        /\ ~Malformed(target, a)
        /\ Passes(m, a)
        /\ last' = [lane \in Lanes |->
                        IF Takes(lane) THEN Compared(target, input, a, lane) ELSE last[lane]]
        /\ lastName' = [lane \in Lanes |-> IF Takes(lane) THEN m ELSE lastName[lane]]
        /\ answers' = [answers EXCEPT ![m] = a]
        /\ pos' = pos + 1
        /\ UNCHANGED <<target, status, input, cause, runs>>

\* assert(*res == *last_response).
ReportMismatch(a) ==
    LET m == Order[pos]
    IN  /\ AtModule
        /\ ~SkipsModule(target, m, input)
        /\ ~Malformed(target, a)
        /\ ~Passes(m, a)
        /\ answers' = [answers EXCEPT ![m] = a]
        /\ Abort("mismatch")
        /\ UNCHANGED <<target, input, pos, last, lastName, runs>>

\* assert(sep != std::string::npos): the wrapper broke the answer's format.
ReportMalformed(a) ==
    /\ AtModule
    /\ ~SkipsModule(target, Order[pos], input)
    /\ Malformed(target, a)
    /\ Abort("malformed_answer")
    /\ UNCHANGED <<target, input, pos, last, lastName, answers, runs>>

\* The library under test crashes instead of answering.
ModuleDies ==
    /\ AtModule
    /\ ~SkipsModule(target, Order[pos], input)
    /\ Abort("module_died")
    /\ UNCHANGED <<target, input, pos, last, lastName, answers, runs>>

\* The iterator reached the end of the map.
EndRun ==
    /\ status = "running"
    /\ pos = Count + 1
    /\ status' = "agreed"
    /\ UNCHANGED <<target, input, pos, last, lastName, answers, cause, runs>>

Next ==
    \/ \E in \in Inputs : BeginRun(in)
    \/ RejectTarget
    \/ SkipModule
    \/ \E a \in Answers(target) : AcceptAnswer(a)
    \/ \E a \in Answers(target) : ReportMismatch(a)
    \/ \E a \in Answers(target) : ReportMalformed(a)
    \/ ModuleDies
    \/ EndRun

Spec == Init /\ [][Next]_vars

(***************************************************************************)
(* The abstract specification, and the state of the driver seen through it *)
(***************************************************************************)
Verdict ==
    CASE status = "running" -> "comparing"
      [] status = "aborted" -> IF cause = "mismatch" THEN "finding" ELSE "failed"
      [] OTHER -> status

Oracle == INSTANCE DifferentialOracle
              WITH verdict <- Verdict, heard <- answers

-----------------------------------------------------------------------------
(***************************************************************************)
(* Properties                                                              *)
(***************************************************************************)

\* The chain of comparisons with the last answer only is as good as comparing
\* every pair: the driver dies of a mismatch at exactly the answer at which
\* two modules first disagree, and agrees only when every module the target
\* does not leave out was heard.  (All targets; addrv2 only without Btcd.)
ImplementsOracle == Oracle!OracleSpec

\* No false alarm, on any target: when the driver dies of a mismatch, the
\* module whose answer it prints as "Result" really disagrees with the module
\* it names as the other side.
BlamesRealPair ==
    cause = "mismatch" =>
        \E lane \in Lanes :
            /\ lastName[lane] \in Names
            /\ Oracle!Disagree(target, input, answers[Order[pos]], answers[lastName[lane]])

\* last_response is never left over from an earlier input or from another
\* module: it is what last_module_name answered to this input, and no module
\* after it took part in the chain.
LastIsLatest ==
    status = "running" =>
        \A lane \in Lanes :
            LET Took(i) == Compared(target, input, answers[Order[i]], lane) # None
            IN  IF last[lane] = None
                THEN \A i \in 1..Count : ~Took(i)
                ELSE \E i \in 1..Count :
                        /\ Order[i] = lastName[lane]
                        /\ last[lane] = Compared(target, input, answers[Order[i]], lane)
                        /\ \A j \in (i + 1)..Count : ~Took(j)

\* AddrV2Target forgives btcd, and only btcd, and only when it left out an
\* i2p or cjdns address: two answers that differ survive an input only next
\* to an answer of Btcd, and one of the answers names such a network.
ForgivesOnlyNearBtcd ==
    status = "agreed" =>
        \A m, n \in Names :
            Oracle!Disagree(target, input, answers[m], answers[n]) =>
                /\ target = "addrv2"
                /\ "Btcd" \in Names
                /\ answers["Btcd"] \notin {NullOpt, Unasked}
                /\ \E k \in Names : answers[k].tag \in {"i2p", "cjdns"}

\* "Skip mismatches involving btcd when i2p or cjdns addresses are present":
\* a disagreement in which btcd takes no part is reported.
OthersNeverForgiven ==
    status = "agreed" =>
        \A m, n \in Names \ {"Btcd"} :
            ~Oracle!Disagree(target, input, answers[m], answers[n])
=============================================================================
