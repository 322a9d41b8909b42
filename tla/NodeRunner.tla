----------------------------- MODULE NodeRunner -----------------------------
(***************************************************************************)
(* modules/bluewalletsp: silent payment outputs by a library that needs a  *)
(* real Node runtime.  module.cpp starts one Node process at the first     *)
(* call and keeps it: a request is a line on its standard input, the       *)
(* answer a line on its standard output (ts/src/index.ts).                 *)
(*                                                                         *)
(* Two processes and two pipes.  A pipe end may be open in either process: *)
(* a reader meets the end of file only when nobody holds the write end.    *)
(* Lines are shorter than PIPE_BUF and than the stdio buffer, so that a    *)
(* line moves as a whole.  Secret keys are scalars below Order, 0 and      *)
(* Order standing for the keys out of range.                               *)
(***************************************************************************)
EXTENDS SilentPayments

CONSTANTS
    Requests(_),    \* what the driver may pass in its n-th call; n = 0: none yet
    MaxRequests     \* bound on the calls of one process

Scalars == 0..Order

\* SilentPaymentsCreateOutputsInput, without the outpoint, as the driver fills
\* it: a flag for each of at least one input key, two keys and a flag for each
\* of at least one recipient.
RequestType ==
    {in \in [keys: Seq(Scalars), taproot: Seq(BOOLEAN), scan: Seq(Scalars),
             spend: Seq(Scalars), labeled: Seq(BOOLEAN)] :
        /\ Len(in.keys) >= 1 /\ Len(in.taproot) = Len(in.keys)
        /\ Len(in.scan) >= 1 /\ Len(in.spend) = Len(in.scan)
        /\ Len(in.labeled) = Len(in.scan)}

ASSUME MaxRequestsAssumption == MaxRequests \in Nat

ASSUME RequestsAssumption == \A n \in 0..MaxRequests : Requests(n) \subseteq RequestType

VARIABLES
    fuzzer,     \* the wrapper: "idle", "starting", "writing", "flushing",
                \* "reading", or the ways out "aborted", "killed", "gone"
    input,      \* what it is called with
    runnerIn,   \* runner_in # nullptr
    runnerOut,  \* runner_out # nullptr
    unflushed,  \* lines in the stdio buffer of runner_in
    node,       \* "none", "running", "exited"
    toRunner,   \* lines in the pipe to standard input
    fromRunner, \* lines in the pipe from standard output
    inWriters,  \* processes that hold the write end of toRunner
    outWriters, \* processes that hold the write end of fromRunner
    answer,     \* history: what the last call returned
    calls       \* history: calls begun, bounded by MaxRequests

pipes == <<toRunner, fromRunner, inWriters, outWriters>>

vars == <<fuzzer, input, runnerIn, runnerOut, unflushed, node, pipes, answer, calls>>

Ended == {"aborted", "killed", "gone"}

-----------------------------------------------------------------------------
(***************************************************************************)
(* index.ts: one request                                                   *)
(***************************************************************************)

\* A field of the line: items of so many bytes each, in hex.
Field(bytes, items) == [bytes |-> bytes * Len(items), items |-> items]

Request(in) ==
    <<Field(36, <<0>>), Field(32, in.keys), Field(1, in.taproot),
      Field(32, in.scan), Field(32, in.spend)>>

\* handleRequest: the lengths it insists on.
IsRequest(line) ==
    /\ Len(line) = 5
    /\ line[1].bytes = 36
    /\ line[3].bytes # 0
    /\ line[4].bytes # 0
    /\ line[2].bytes = line[3].bytes * 32
    /\ line[4].bytes % 32 = 0
    /\ line[5].bytes = line[4].bytes

HandleRequest(line) ==
    IF IsRequest(line)
    THEN CreateOutputs([keys |-> line[2].items, taproot |-> line[3].items,
                        scan |-> line[4].items, spend |-> line[5].items])
    ELSE <<"BAD_REQUEST">>

\* Slip: the newline is written twice.
AnsweredTwice(line) == <<HandleRequest(line), <<"">>>>

\* What the handler of a line writes: the answer, on a line of its own.
Answered(line) == <<HandleRequest(line)>>

-----------------------------------------------------------------------------
(***************************************************************************)
(* module.cpp: one call                                                    *)
(***************************************************************************)
RunnerInit ==
    /\ fuzzer = "idle"
    /\ input \in Requests(0)
    /\ runnerIn = FALSE /\ runnerOut = FALSE
    /\ unflushed = <<>>
    /\ node = "none"
    /\ toRunner = <<>> /\ fromRunner = <<>>
    /\ inWriters = {} /\ outWriters = {}
    /\ answer = <<"none">>
    /\ calls = 0

\* Called for a labeled recipient: nothing is asked.
DeclineLabeled ==
    /\ fuzzer = "idle"
    /\ calls < MaxRequests
    /\ \E in \in Requests(calls + 1) : input' = in
    /\ \E i \in Recipients(input') : input'.labeled[i]
    /\ answer' = NullOpt
    /\ calls' = calls + 1
    /\ UNCHANGED <<fuzzer, runnerIn, runnerOut, unflushed, node, pipes>>

\* Called, and the runner is started unless both its streams are there.
BeginCall ==
    /\ fuzzer = "idle"
    /\ calls < MaxRequests
    /\ \E in \in Requests(calls + 1) : input' = in
    /\ \A i \in Recipients(input') : ~input'.labeled[i]
    /\ fuzzer' = IF runnerIn /\ runnerOut THEN "writing" ELSE "starting"
    /\ calls' = calls + 1
    /\ UNCHANGED <<runnerIn, runnerOut, unflushed, node, pipes, answer>>

\* Slip: posix_spawn_file_actions_addclose of to_runner[1] is missing.
WriteEndsKeptByNode == {"fuzzer", "node"}

\* The write ends of standard input that are open once node runs.
WriteEndsOfStdin == {"fuzzer"}

\* Slip: the fuzzer does not close from_runner[1].
WriteEndsKeptByFuzzer == {"fuzzer", "node"}

\* The write ends of standard output that are open once node runs.
WriteEndsOfStdout == {"node"}

StartRunner ==
    /\ fuzzer = "starting"
    /\ fuzzer' = "writing"
    /\ runnerIn' = TRUE /\ runnerOut' = TRUE
    /\ node' = "running"
    /\ toRunner' = <<>> /\ fromRunner' = <<>>
    /\ inWriters' = WriteEndsOfStdin
    /\ outWriters' = WriteEndsOfStdout
    /\ UNCHANGED <<input, unflushed, answer, calls>>

\* pipe or posix_spawnp fails: fail() ends the process, and there is no node.
StartFails ==
    /\ fuzzer = "starting"
    /\ fuzzer' = "aborted"
    /\ UNCHANGED <<input, runnerIn, runnerOut, unflushed, node, pipes, answer, calls>>

\* fdopen fails for one of the pipes or both: node runs already when fail()
\* ends the process, and the write end of its standard input with it.
FdopenFails ==
    /\ fuzzer = "starting"
    /\ fuzzer' = "aborted"
    /\ runnerIn' \in BOOLEAN /\ runnerOut' \in BOOLEAN /\ ~(runnerIn' /\ runnerOut')
    /\ node' = "running"
    /\ toRunner' = <<>> /\ fromRunner' = <<>>
    /\ inWriters' = WriteEndsOfStdin \ {"fuzzer"}
    /\ outWriters' = WriteEndsOfStdout \ {"fuzzer"}
    /\ UNCHANGED <<input, unflushed, answer, calls>>

\* fwrite: the request waits in the stdio buffer.
WriteRequest ==
    /\ fuzzer = "writing"
    /\ unflushed' = Append(unflushed, Request(input))
    /\ fuzzer' = "flushing"
    /\ UNCHANGED <<input, runnerIn, runnerOut, node, pipes, answer, calls>>

\* fflush: a write to a pipe nobody reads raises SIGPIPE, which ends the
\* process where nothing in it ignores the signal.
Flush ==
    /\ fuzzer = "flushing"
    /\ IF node = "running"
       THEN /\ toRunner' = toRunner \o unflushed
            /\ fuzzer' = "reading"
            /\ inWriters' = inWriters
            /\ outWriters' = outWriters
       ELSE /\ fuzzer' = "killed"
            /\ toRunner' = toRunner
            /\ inWriters' = inWriters \ {"fuzzer"}
            /\ outWriters' = outWriters \ {"fuzzer"}
    /\ unflushed' = <<>>
    /\ UNCHANGED <<input, runnerIn, runnerOut, node, fromRunner, answer, calls>>

\* fail(): std::abort, and every descriptor of the process is closed.
Abort ==
    /\ fuzzer' = "aborted"
    /\ inWriters' = inWriters \ {"fuzzer"}
    /\ outWriters' = outWriters \ {"fuzzer"}

\* fflush reports the error instead, this one or another of the write:
\* "the node runner closed its input".
FlushFails ==
    /\ fuzzer = "flushing"
    /\ Abort
    /\ unflushed' = <<>>
    /\ UNCHANGED <<input, runnerIn, runnerOut, node, toRunner, fromRunner, answer, calls>>

\* A line is there.  BAD_REQUEST is a bug of the wrapper.
ReadAnswer ==
    /\ fuzzer = "reading"
    /\ fromRunner # <<>>
    /\ fromRunner' = Tail(fromRunner)
    /\ LET response == Head(fromRunner)
       IN  IF response = <<"BAD_REQUEST">>
           THEN Abort /\ UNCHANGED answer
           ELSE /\ fuzzer' = "idle"
                /\ answer' = IF response = <<"SKIP_INTERMEDIATE_ZERO_SUM">>
                             THEN NullOpt ELSE response
                /\ UNCHANGED <<inWriters, outWriters>>
    /\ UNCHANGED <<input, runnerIn, runnerOut, unflushed, node, toRunner, calls>>

\* fgetc returns EOF: "the node runner closed its output".
ReadEof ==
    /\ fuzzer = "reading"
    /\ fromRunner = <<>>
    /\ outWriters = {}
    /\ Abort
    /\ UNCHANGED <<input, runnerIn, runnerOut, unflushed, node, toRunner,
                   fromRunner, answer, calls>>

\* The campaign ends, or another module stops the process between two calls.
FuzzerEnds ==
    /\ fuzzer = "idle"
    /\ fuzzer' = "gone"
    /\ inWriters' = inWriters \ {"fuzzer"}
    /\ outWriters' = outWriters \ {"fuzzer"}
    /\ UNCHANGED <<input, runnerIn, runnerOut, unflushed, node, toRunner,
                   fromRunner, answer, calls>>

-----------------------------------------------------------------------------
(***************************************************************************)
(* The Node process: one line in, one line out                             *)
(***************************************************************************)
NodeCloses ==
    /\ node' = "exited"
    /\ inWriters' = inWriters \ {"node"}
    /\ outWriters' = outWriters \ {"node"}

\* rl.on("line"); with the fuzzer gone the write fails and node ends.
HandleLine ==
    /\ node = "running"
    /\ toRunner # <<>>
    /\ toRunner' = Tail(toRunner)
    /\ IF fuzzer \in Ended
       THEN NodeCloses /\ UNCHANGED fromRunner
       ELSE /\ fromRunner' = fromRunner \o Answered(Head(toRunner))
            /\ UNCHANGED <<node, inWriters, outWriters>>
    /\ UNCHANGED <<fuzzer, input, runnerIn, runnerOut, unflushed, answer, calls>>

\* readline meets the end of standard input: nothing is left to wait for.
NodeSeesEof ==
    /\ node = "running"
    /\ toRunner = <<>>
    /\ inWriters = {}
    /\ NodeCloses
    /\ UNCHANGED <<fuzzer, input, runnerIn, runnerOut, unflushed, toRunner,
                   fromRunner, answer, calls>>

\* The script is missing, an exception escapes, or the system kills it.
NodeDies ==
    /\ node = "running"
    /\ NodeCloses
    /\ UNCHANGED <<fuzzer, input, runnerIn, runnerOut, unflushed, toRunner,
                   fromRunner, answer, calls>>

WrapperStep ==
    \/ StartRunner \/ StartFails \/ FdopenFails
    \/ WriteRequest \/ Flush \/ FlushFails
    \/ ReadAnswer \/ ReadEof

NodeStep == HandleLine \/ NodeSeesEof

RunnerNext == DeclineLabeled \/ BeginCall \/ WrapperStep \/ FuzzerEnds \/ NodeStep \/ NodeDies

RunnerSpec == RunnerInit /\ [][RunnerNext]_vars

\* A call runs on once it has begun, and node serves what its event loop
\* hands it.  No call need ever come, and node need not die.
FairRunnerSpec == RunnerSpec /\ WF_vars(WrapperStep) /\ WF_vars(NodeStep)

-----------------------------------------------------------------------------
(***************************************************************************)
(* Properties                                                              *)
(***************************************************************************)
TypeOK ==
    /\ fuzzer \in {"idle", "starting", "writing", "flushing", "reading"} \cup Ended
    /\ input \in RequestType
    /\ runnerIn \in BOOLEAN /\ runnerOut \in BOOLEAN
    /\ node \in {"none", "running", "exited"}
    /\ \A i \in 1..Len(toRunner) : Len(toRunner[i]) = 5
    /\ answer[1] \in {"none", "nullopt", "INVALID_SECKEY", "CREATE_FAIL", "outputs"}
    /\ answer[1] = "outputs" => \A i \in DOMAIN answer[2] : answer[2][i][1] \in 0..(Order - 1)
    /\ inWriters \subseteq {"fuzzer", "node"}
    /\ outWriters \subseteq {"fuzzer", "node"}
    /\ calls \in 0..MaxRequests

\* BIP-352 constrains only the total of the input keys (index.ts,
\* divergesOnIntermediateZeroSum): what a module that follows it answers.
Bip352(in) ==
    IF \/ \E i \in 1..Len(in.keys) : ~InRange(in.keys[i])
       \/ \E i \in 1..Len(in.scan) : ~InRange(in.scan[i]) \/ ~InRange(in.spend[i])
    THEN <<"INVALID_SECKEY">>
    ELSE IF Total(in) = 0 /\ Len(in.keys) > 1 THEN <<"CREATE_FAIL">>
    ELSE <<"outputs", Outputs(in)>>

\* A call that returns gives the answer to its own request, never to an
\* earlier one, and it drops the answer only for a labeled recipient or where
\* the library fails and BIP-352 does not: what it hides is the divergence the
\* comment names, and what it shows agrees with the other modules.
AnswersThisInput ==
    fuzzer = "idle" /\ calls > 0 =>
        IF answer = NullOpt
        THEN \/ \E i \in Recipients(input) : input.labeled[i]
             \/ LibraryFoldFails(input) /\ Bip352(input)[1] = "outputs"
        ELSE answer = Bip352(input)

\* "A malformed request is a bug in this wrapper": index.ts accepts every
\* line the wrapper writes for an input of the driver.
NeverBadRequest ==
    \A i \in 1..Len(fromRunner) : fromRunner[i] # <<"BAD_REQUEST">>

\* Lock step: at most one line is under way, and none between two calls, so
\* that neither side waits for the other with its pipe full.
OneLineUnderWay ==
    /\ Len(unflushed) + Len(toRunner) + Len(fromRunner) <= 1
    /\ fuzzer = "idle" => fromRunner = <<>> /\ toRunner = <<>>

\* Whoever waits has something under way, or meets the end of file: a wrapper
\* that reads, the line of a runner that lives, and a runner without a line,
\* once the fuzzer is gone.
SomethingUnderWay ==
    /\ fuzzer = "reading" => toRunner # <<>> \/ fromRunner # <<>>
    /\ fuzzer = "reading" /\ fromRunner = <<>> /\ node # "running" => outWriters = {}
    /\ fuzzer \in Ended /\ node = "running" => inWriters = {}

\* Wrapper and runner stay in step: every line is one the other side expects,
\* at most one is under way, and nobody waits for one that cannot come.
RunnerInStep == TypeOK /\ NeverBadRequest /\ OneLineUnderWay /\ SomethingUnderWay

\* A call comes to an end: it returns, or the process ends because the runner
\* cannot be started or has died.  Nothing is waited for in vain.
CallEnds == fuzzer \notin {"idle"} \cup Ended ~> fuzzer \in {"idle"} \cup Ended

\* No runner outlives the fuzzer.
RunnerEndsWithFuzzer == fuzzer \in Ended ~> node # "running"
=============================================================================
