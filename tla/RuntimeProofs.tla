---------------------------- MODULE RuntimeProofs ----------------------------
(***************************************************************************)
(* Proofs about the bridges into other runtimes: JvmBridge, for any number *)
(* of inputs; ScriptBridges, for any inputs of the driver, any modules     *)
(* that may be installed and any number of calls; and NodeRunner, for any  *)
(* curve order, any inputs and any number of calls.                        *)
(***************************************************************************)
EXTENDS JvmBridge, ScriptBridges, NodeRunner, SequenceLemmas, FiniteSetTheorems, TLAPS

(***************************************************************************)
(* The bridges into the JVM                                                *)
(***************************************************************************)

\* A bridge that is ready found its own class in a running JVM.
ReadyResolved == \A m \in ready : jvm = "running" /\ Resolves(m)

JvmInv ==
    /\ JvmTypeOK
    /\ ReadyResolved
    /\ SilenceHasReason
    /\ ExceptionHasThrower

\* The callers of a target are bridges.
LEMMA CallersAreBridges ==
    ASSUME NEW t \in DOMAIN Callers
    PROVE  Callers[t] \in Seq(Bridges)
<1>1. /\ Callers["deserialize_invoice"] \in Seq(Bridges)
      /\ Callers["deserialize_offer"] \in Seq(Bridges)
      /\ Callers["bip32_master_keygen"] \in Seq(Bridges)
      /\ Callers["bip32_deserialize_extended_key"] \in Seq(Bridges)
      /\ Callers["psbt_v0_parse"] \in Seq(Bridges)
  BY DEF Callers, Bridges
<1>2. t \in {"deserialize_invoice", "deserialize_offer", "bip32_master_keygen",
             "bip32_deserialize_extended_key", "psbt_v0_parse"}
  BY DEF Callers
<1> QED
  BY <1>1, <1>2

\* Whoever is called is a bridge, and the position moves within the callers.
LEMMA CallPosition ==
    ASSUME JvmTypeOK, NEW m, Calls(m)
    PROVE  /\ m \in Bridges
           /\ \E i \in 1..Len(Callers[target]) : Callers[target][i] = m
           /\ pos + 1 \in 1..(Len(Callers[target]) + 1)
<1>1. Callers[target] \in Seq(Bridges)
  BY CallersAreBridges DEF JvmTypeOK
<1>2. pos \in 1..Len(Callers[target])
  BY <1>1 DEF JvmTypeOK, Calls
<1> QED
  BY <1>1, <1>2 DEF Calls

\* The loader's JVM is created at most once.
LEMMA JvmOnce ==
    ASSUME JvmTypeOK, jvm' \in JvmAfterGet
    PROVE  /\ jvm' \in {"running", "failed"}
           /\ jvm = "running" => jvm' = "running"
           /\ jvm = "failed" => jvm' = "failed"
BY DEF JvmTypeOK, JvmAfterGet

\* What a step may do to the state and still keep the invariant: the step
\* answers for m, or aborts in it.
Progress(m) ==
    /\ UNCHANGED setup
    /\ ready' \subseteq enabled
    /\ ready \subseteq ready'
    /\ \A n \in ready' : jvm' = "running" /\ Resolves(n)
    /\ jvm' \in {"uncreated", "running", "failed"}
    /\ jvm = "failed" => jvm' = "failed"
    /\ pending' \in {pending, Nobody} \/ (pending' = m /\ m \in ready' \ {"BitcoinS"})
    /\ pos' \in {pos, pos + 1}
    /\ reply' \in [Bridges -> Replies]
    /\ \A n \in Bridges \ {m} : reply'[n] = reply[n]
    /\ disturbed \subseteq disturbed'
    /\ disturbed' \subseteq enabled
    /\ status' \in {"up", "aborted", "exited"}
    /\ status' = "aborted" => m = "BitcoinS"
    /\ UNCHANGED runs
    /\ reply'[m] = "bridge" \/ status' = "aborted" =>
           jvm' = "failed" \/ ~Resolves(m) \/ m \in disturbed'

\* Such a step keeps the invariant.
LEMMA ProgressStep ==
    ASSUME JvmInv, NEW m, Calls(m), Progress(m)
    PROVE  JvmInv'
<1>1. /\ m \in Bridges
      /\ \E i \in 1..Len(Callers[target]) : Callers[target][i] = m
      /\ pos + 1 \in 1..(Len(Callers[target]) + 1)
  BY CallPosition DEF JvmInv
<1>2. target' = target /\ enabled' = enabled /\ built' = built
  BY DEF Progress, setup
<1>3. JvmTypeOK'
  BY <1>1, <1>2 DEF JvmInv, JvmTypeOK, Progress
<1>4. ReadyResolved'
  BY <1>2 DEF ReadyResolved, Progress, Resolves
<1>5. SilenceHasReason'
  <2> SUFFICES ASSUME NEW n \in Bridges, Unheard(n)'
               PROVE  jvm' = "failed" \/ ~Resolves(n)' \/ n \in disturbed'
    BY DEF SilenceHasReason
  <2>1. Resolves(n)' = Resolves(n)
    BY <1>2 DEF Resolves
  <2>2. CASE n = m
    BY <2>1, <2>2 DEF Progress, Unheard
  <2>3. CASE n # m
    <3>1. Unheard(n)
      BY <2>3 DEF Progress, Unheard, Calls
    <3>2. jvm = "failed" \/ ~Resolves(n) \/ n \in disturbed
      BY <3>1 DEF JvmInv, SilenceHasReason
    <3> QED
      BY <2>1, <3>2 DEF Progress
  <2> QED
    BY <2>2, <2>3
<1>6. ExceptionHasThrower'
  BY <1>1, <1>2 DEF JvmInv, ExceptionHasThrower, Progress
<1> QED
  BY <1>3, <1>4, <1>5, <1>6 DEF JvmInv

\* A call whose init_jvm fails.
LEMMA FailedInit ==
    ASSUME JvmInv, NEW m \in enabled, InitFails(m), Disturb(m)
    PROVE  /\ jvm' \in {"running", "failed"}
           /\ jvm = "running" => jvm' = "running"
           /\ jvm = "failed" => jvm' = "failed"
           /\ pending' \in {pending, Nobody}
           /\ disturbed \subseteq disturbed' /\ disturbed' \subseteq enabled
           /\ jvm' = "failed" \/ ~Resolves(m) \/ m \in disturbed'
<1>1. /\ jvm' \in {"running", "failed"}
      /\ jvm = "running" => jvm' = "running"
      /\ jvm = "failed" => jvm' = "failed"
  BY JvmOnce DEF JvmInv, InitFails
<1> QED
  BY <1>1 DEF JvmInv, JvmTypeOK, InitFails, Disturb

\* A call whose init_jvm succeeds, or did before.
LEMMA SuccessfulInit ==
    ASSUME JvmInv, NEW m \in enabled, InitSucceeds(m)
    PROVE  /\ ready' \subseteq enabled /\ ready \subseteq ready' /\ m \in ready'
           /\ jvm' = "running" /\ jvm # "failed"
           /\ \A n \in ready' : Resolves(n)
<1>1. m \in Bridges
  BY DEF JvmInv, JvmTypeOK
<1>2. ready' = ready \cup {m}
  BY DEF InitSucceeds
<1>3. CASE m \in ready
  BY <1>2, <1>3 DEF JvmInv, ReadyResolved, InitSucceeds, JvmTypeOK
<1>4. CASE m \notin ready
  <2>1. jvm' = "running" /\ Resolves(m) /\ jvm' \in JvmAfterGet
    BY <1>4 DEF InitSucceeds
  <2>2. jvm # "failed"
    BY <2>1, JvmOnce DEF JvmInv
  <2> QED
    BY <1>2, <2>1, <2>2 DEF JvmInv, ReadyResolved, JvmTypeOK
<1> QED
  BY <1>3, <1>4

\* Each way a call may end is such a step.
LEMMA CallProgress ==
    ASSUME JvmInv, NEW m \in Bridges,
           \/ NotLoaded(m) \/ AnswerForNoBridge(m) \/ AbortForNoBridge(m)
           \/ LibraryAnswers(m) \/ LibraryThrows(m) \/ AnswerLostToException(m)
           \/ CallRefused(m) \/ OutOfMemory(m)
    PROVE  Calls(m) /\ Progress(m)
<1>0. /\ Reported("bridge") \in Replies
      /\ \A word \in {"library", "nullopt"} : word \in Replies /\ word # "bridge"
      /\ status = "up" => status # "aborted"
  BY DEF Reported, Replies
<1> USE DEF Progress, setup
<1>1. CASE NotLoaded(m)
  <2>1. ~Resolves(m)
    BY <1>1 DEF NotLoaded, Resolves
  <2> QED
    BY <1>0, <1>1, <2>1 DEF NotLoaded, JvmInv, JvmTypeOK, ReadyResolved, Calls
<1>2. CASE AnswerForNoBridge(m)
  <2>1. m \in enabled /\ InitFails(m) /\ Disturb(m)
    BY <1>2 DEF AnswerForNoBridge
  <2>2. \A n \in ready : jvm' = "running" /\ Resolves(n)
    BY <2>1, FailedInit DEF JvmInv, ReadyResolved
  <2> QED
    BY <1>0, <1>2, <2>1, <2>2, FailedInit DEF AnswerForNoBridge, JvmInv, JvmTypeOK, Calls
<1>3. CASE AbortForNoBridge(m)
  <2>1. m \in enabled /\ InitFails(m) /\ Disturb(m) /\ m = "BitcoinS"
    BY <1>3 DEF AbortForNoBridge
  <2>2. \A n \in ready : jvm' = "running" /\ Resolves(n)
    BY <2>1, FailedInit DEF JvmInv, ReadyResolved
  <2> QED
    BY <1>3, <2>1, <2>2, FailedInit DEF AbortForNoBridge, JvmInv, JvmTypeOK
<1>4. CASE LibraryAnswers(m)
  <2>1. m \in enabled /\ InitSucceeds(m) /\ Disturb(m)
    BY <1>4 DEF LibraryAnswers
  <2>2. PICK word \in {"library", "nullopt"} : reply' = [reply EXCEPT ![m] = word]
    BY <1>4 DEF LibraryAnswers
  <2>3. disturbed \subseteq disturbed' /\ disturbed' \subseteq enabled
    BY <2>1 DEF Disturb, JvmInv, JvmTypeOK
  <2> QED
    BY <1>0, <1>4, <2>1, <2>2, <2>3, SuccessfulInit DEF LibraryAnswers, JvmInv, JvmTypeOK, Calls
<1>5. CASE LibraryThrows(m)
  <2>1. m \in enabled /\ InitSucceeds(m)
    BY <1>5 DEF LibraryThrows
  <2>2. disturbed' = disturbed \cup {m}
    BY <1>5 DEF LibraryThrows
  <2>3. pending' = Nobody \/ (pending' = m /\ m # "BitcoinS")
    BY <1>5 DEF LibraryThrows
  <2> QED
    BY <1>0, <1>5, <2>1, <2>2, <2>3, SuccessfulInit DEF LibraryThrows, JvmInv, JvmTypeOK, Calls
<1>6. CASE AnswerLostToException(m)
  <2>1. m \in enabled /\ InitSucceeds(m)
    BY <1>6 DEF AnswerLostToException
  <2>2. disturbed' = disturbed \cup {m}
    BY <1>6 DEF AnswerLostToException, Disturb
  <2> QED
    BY <1>0, <1>6, <2>1, <2>2, SuccessfulInit DEF AnswerLostToException, JvmInv, JvmTypeOK, Calls
<1>7. CASE CallRefused(m)
  <2>1. m \in enabled /\ InitSucceeds(m)
    BY <1>7 DEF CallRefused
  <2>2. disturbed' = disturbed \cup {m}
    BY <1>7 DEF CallRefused, Disturb
  <2> QED
    BY <1>0, <1>7, <2>1, <2>2, SuccessfulInit DEF CallRefused, JvmInv, JvmTypeOK, Calls
<1>8. CASE OutOfMemory(m)
  <2>1. m \in enabled /\ InitSucceeds(m)
    BY <1>8 DEF OutOfMemory
  <2>2. reply[m] = "bridge" => ~Resolves(m) \/ m \in disturbed
    BY <2>1, SuccessfulInit DEF JvmInv, JvmTypeOK, SilenceHasReason, Unheard
  <2> QED
    BY <1>8, <2>1, <2>2, SuccessfulInit DEF OutOfMemory, JvmInv, JvmTypeOK
<1> QED
  BY <1>1, <1>2, <1>3, <1>4, <1>5, <1>6, <1>7, <1>8

\* The invariant holds at the start.
LEMMA JvmInvInit == JvmInit => JvmInv
<1> SUFFICES ASSUME JvmInit PROVE JvmInv
  OBVIOUS
<1>1. Len(Callers[target]) + 1 \in 1..(Len(Callers[target]) + 1)
  BY CallersAreBridges DEF JvmInit
<1>2. 0 \in 0..MaxRuns
  BY MaxRunsAssumption
<1>3. Unasked \in [Bridges -> Replies] /\ \A m \in Bridges : Unasked[m] # "bridge"
  BY DEF Unasked, Replies
<1>4. JvmTypeOK
  BY <1>1, <1>2, <1>3 DEF JvmInit, JvmTypeOK
<1>5. SilenceHasReason
  BY <1>3 DEF JvmInit, SilenceHasReason, Unheard
<1> QED
  BY <1>4, <1>5 DEF JvmInit, JvmInv, ReadyResolved, ExceptionHasThrower

\* A new input keeps what init_jvm found, and forgets the answers.
LEMMA BeginRunStep == JvmInv /\ BeginRun => JvmInv'
<1> SUFFICES ASSUME JvmInv, BeginRun PROVE JvmInv'
  OBVIOUS
<1>1. Callers[target] \in Seq(Bridges)
  BY CallersAreBridges DEF JvmInv, JvmTypeOK
<1>2. 1 \in 1..(Len(Callers[target]) + 1)
  BY <1>1
<1>3. Unasked \in [Bridges -> Replies] /\ \A m \in Bridges : Unasked[m] # "bridge"
  BY DEF Unasked, Replies
<1>4. runs' \in 0..MaxRuns
  BY MaxRunsAssumption DEF JvmInv, JvmTypeOK, BeginRun
<1>5. JvmTypeOK'
  BY <1>2, <1>3, <1>4 DEF JvmInv, JvmTypeOK, BeginRun, setup
<1>6. ReadyResolved'
  BY DEF JvmInv, ReadyResolved, Resolves, BeginRun, setup
<1>7. SilenceHasReason'
  BY <1>3 DEF SilenceHasReason, Unheard, BeginRun
<1>8. ExceptionHasThrower'
  BY DEF JvmInv, ExceptionHasThrower, BeginRun, setup
<1> QED
  BY <1>5, <1>6, <1>7, <1>8 DEF JvmInv

\* Every step keeps the invariant.
LEMMA JvmInvStep == JvmInv /\ [JvmNext]_jvmVars => JvmInv'
<1> SUFFICES ASSUME JvmInv, [JvmNext]_jvmVars PROVE JvmInv'
  OBVIOUS
<1>1. CASE UNCHANGED jvmVars
  BY <1>1 DEF jvmVars, setup, JvmInv, JvmTypeOK, ReadyResolved, Resolves, SilenceHasReason,
              Unheard, ExceptionHasThrower
<1>2. CASE BeginRun
  BY <1>2, BeginRunStep
<1>3. ASSUME NEW m \in Bridges,
             \/ NotLoaded(m) \/ AnswerForNoBridge(m) \/ AbortForNoBridge(m)
             \/ LibraryAnswers(m) \/ LibraryThrows(m) \/ AnswerLostToException(m)
             \/ CallRefused(m) \/ OutOfMemory(m)
      PROVE  JvmInv'
  BY <1>3, CallProgress, ProgressStep
<1> QED
  BY <1>1, <1>2, <1>3 DEF JvmNext

\* The invariant always holds.
LEMMA JvmInvHolds == JvmSpec => []JvmInv
BY JvmInvInit, JvmInvStep, PTL DEF JvmSpec

(***************************************************************************)
(* The theorems                                                            *)
(***************************************************************************)

\* The state is what its declaration says; only enabled bridges become ready.
THEOREM JvmTypeCorrect == JvmSpec => []JvmTypeOK
<1>1. JvmInv => JvmTypeOK
  BY DEF JvmInv
<1> QED
  BY <1>1, JvmInvHolds, PTL

\* A bridge that is ready calls its own wrapper; bitcoinj never does while the
\* jar of lightningkmp, which has a class of the same name, comes before it.
THEOREM OwnClassOnly == JvmSpec => []ReadyIsOwnClass
<1>1. SearchedBefore("LightningKmp", "BitcoinJ")
  <2>1. /\ 1 \in 1..Len(ClassPath) /\ 3 \in 1..Len(ClassPath) /\ 1 < 3
        /\ ClassPath[1] = "LightningKmp" /\ ClassPath[3] = "BitcoinJ"
    BY DEF ClassPath
  <2> QED
    BY <2>1 DEF SearchedBefore
<1>2. ClassOf["LightningKmp"] = ClassOf["BitcoinJ"]
  BY DEF ClassOf
<1>3. JvmInv => ReadyIsOwnClass
  BY <1>1, <1>2 DEF JvmInv, ReadyResolved, Resolves, ReadyIsOwnClass
<1> QED
  BY <1>3, JvmInvHolds, PTL

\* No bridge keeps silent, and bitcoins does not abort, but for a missing JVM,
\* a class that is not its own, or an exception met on this very input.
THEOREM SilenceExplained == JvmSpec => []SilenceHasReason
<1>1. JvmInv => SilenceHasReason
  BY DEF JvmInv
<1> QED
  BY <1>1, JvmInvHolds, PTL

\* A pending exception is always one the library of a ready bridge threw.
THEOREM ExceptionExplained == JvmSpec => []ExceptionHasThrower
<1>1. JvmInv => ExceptionHasThrower
  BY DEF JvmInv
<1> QED
  BY <1>1, JvmInvHolds, PTL

(***************************************************************************)
(* What the adapters make of a verdict                                     *)
(***************************************************************************)

\* An adapter of texts says "value" and the sentinel for what its library
\* judged, and drops a rejected input only where it says so.
LEMMA TextAdapter ==
    ASSUME NEW c \in Copies, c[2] = "text", NEW f, NEW in, NEW v \in {"accepts", "rejects"}
    PROVE  LET r == Adapter(c, f, in, v)
           IN  /\ r = "value" => v = "accepts"
               /\ r = "sentinel" => v = "rejects" \/ Undecodable(f, in)
               /\ r \notin {"value", "sentinel"} /\ v = "rejects" =>
                      in.shape \in {"short_seed", "other_network"}
<1>1. c \in {EmbitText, ElectrumText, PycoinText, HdwalletText, KernelText}
  BY DEF Copies, EmbitBool, EmbitText, ElectrumText, PycoinText, HdwalletText, KernelText
<1>2. CASE c = EmbitText
  <2>1. Adapter(c, f, in, v) = Embit(f, in, v)
    BY <1>2 DEF Adapter, EmbitBool, EmbitText, ElectrumText, PycoinText, HdwalletText, KernelText
  <2> QED
    BY <2>1 DEF Embit, Judged
<1>3. CASE c = ElectrumText
  <2>1. Adapter(c, f, in, v) = Electrum(f, in, v)
    BY <1>3 DEF Adapter, EmbitBool, EmbitText, ElectrumText, PycoinText, HdwalletText, KernelText
  <2> QED
    BY <2>1 DEF Electrum, Judged
<1>4. CASE c = PycoinText
  <2>1. Adapter(c, f, in, v) = Pycoin(f, in, v)
    BY <1>4 DEF Adapter, EmbitBool, EmbitText, ElectrumText, PycoinText, HdwalletText, KernelText
  <2> QED
    BY <2>1 DEF Pycoin, Judged
<1>5. CASE c = HdwalletText
  <2>1. Adapter(c, f, in, v) = Hdwallet(in, v)
    BY <1>5 DEF Adapter, EmbitBool, EmbitText, ElectrumText, PycoinText, HdwalletText, KernelText
  <2> QED
    BY <2>1 DEF Hdwallet, Judged
<1>6. CASE c = KernelText
  <2>1. Adapter(c, f, in, v) = Kernel(v)
    BY <1>6 DEF Adapter, EmbitBool, EmbitText, ElectrumText, PycoinText, HdwalletText, KernelText
  <2> QED
    BY <2>1 DEF Kernel, Judged
<1> QED
  BY <1>1, <1>2, <1>3, <1>4, <1>5, <1>6

\* The one copy that returns a bool hands on embit's verdict.
LEMMA BoolAdapter ==
    ASSUME NEW c \in Copies, c[2] = "bool", NEW f, NEW in, NEW v
    PROVE  Adapter(c, f, in, v) = EmbitMiniscript(v)
<1>1. c = EmbitBool
  BY DEF Copies, EmbitBool, EmbitText, ElectrumText, PycoinText, HdwalletText, KernelText
<1> QED
  BY <1>1 DEF Adapter, EmbitBool, EmbitText, ElectrumText, PycoinText, HdwalletText, KernelText

LEMMA CopyKinds == \A c \in Copies : c[2] \in {"bool", "text"}
BY DEF Copies, EmbitBool, EmbitText, ElectrumText, PycoinText, HdwalletText, KernelText

(***************************************************************************)
(* The inductive invariant of the Python bridge                            *)
(***************************************************************************)
Between == {"idle", "exiting", "exited"}

\* The references a call has obtained when it is at a stage.
HeldBy ==
    [import  |-> {},
     getattr |-> {"main_module"},
     create  |-> {"main_module", "parse_func"},
     tuple   |-> {"main_module", "parse_func", "input_obj"},
     setitem |-> {"main_module", "parse_func", "input_obj", "args"},
     call    |-> {"main_module", "parse_func", "args with input"},
     convert |-> {"main_module", "parse_func", "args with input", "result"}]

\* At cleanup, a call holds what it held at the stage it came from.
HeldAt ==
    /\ pc \in Between => held = {}
    /\ pc \in DOMAIN HeldBy => held = HeldBy[pc]
    /\ pc = "cleanup" => \E s \in DOMAIN HeldBy : held = HeldBy[s]

\* The input object has the one reference that the call, or its tuple, holds.
RefsOf(refs) == IF "input_obj" \in refs \/ "args with input" \in refs THEN 1 ELSE 0

RefsAreHeld == inputRefs = RefsOf(held)

LEMMA RefsOfType == \A refs : RefsOf(refs) \in 0..1
BY DEF RefsOf

\* The thread state and the error indicator along a call.
Indicators ==
    /\ pc = "idle" => gil = IF initialized THEN 1 ELSE 0
    /\ pc \notin Between => gil = 2 /\ initialized
    /\ pc \notin {"cleanup", "exiting", "exited"} => error = "none"

\* Somebody will finalize an interpreter that runs, and one that does not run
\* any more has been finalized once.
OneFinalizer ==
    /\ initialized => finalized = 0 /\ registered # {} /\ handlers # <<>>
    /\ ~initialized => finalized \in 0..1 /\ (finalized = 0 <=> registered = {})
    /\ ~initialized /\ pc = "idle" => registered = {}
    /\ handlers \in Seq(Copies)
    /\ pc = "exited" => handlers = <<>>

\* During a call: nothing yet, or what the adapter makes of the verdict of a
\* library that was given this input.
Judgement ==
    /\ call # <<>> => call[1] \in Copies
    /\ pc \notin Between =>
           /\ call # <<>>
           /\ \/ verdict = "none" /\ result = "none"
              \/ /\ verdict \in {"accepts", "rejects"}
                 /\ result = Adapter(call[1], call[2], call[3], verdict)
                 /\ heard = <<Given>>
    /\ pc \in DOMAIN Obtains \cup {"setitem", "call"} => verdict = "none" /\ result = "none"

Stages == DOMAIN Obtains \cup {"setitem", "call", "convert", "cleanup"}

PyInv ==
    /\ PyTypeOK
    /\ pc \in Between \cup Stages
    /\ HeldAt /\ RefsAreHeld /\ Indicators /\ OneFinalizer /\ Judgement
    /\ VerdictsAreLibrarys

LEMMA StageNames ==
    /\ DOMAIN Obtains = {"import", "getattr", "create", "tuple"}
    /\ Obtains["import"] = "main_module" /\ Obtains["getattr"] = "parse_func"
    /\ Obtains["create"] = "input_obj" /\ Obtains["tuple"] = "args"
    /\ After["import"] = "getattr" /\ After["getattr"] = "create"
    /\ After["create"] = "tuple" /\ After["tuple"] = "setitem"
BY DEF Obtains, After

\* What a step of the five modules can be.
PyAction ==
    \/ \E c \in Copies : \E f, in : BeginPyCall(c, f, in)
    \/ \E in : SkipDescriptor(in)
    \/ call # <<>> /\ \E s \in DOMAIN Obtains : Obtain(s)
    \/ call # <<>> /\ \E s \in DOMAIN Obtains : StageFails(s)
    \/ NotCallable \/ SetItem \/ CallObject \/ CallRaises \/ Convert
    \/ Cleanup \/ PrintExits \/ FuzzerExits \/ RunHandler \/ HandlersDone

LEMMA PyActions == PyNext => PyAction
<1>1. ASSUME NEW c \in Copies, CallPython(c) PROVE PyAction
  BY <1>1 DEF CallPython, PyAction
<1>2. {ElectrumText, EmbitBool, EmbitText, PycoinText, HdwalletText, KernelText} \subseteq Copies
  BY DEF Copies
<1>3. ASSUME ElectrumModule \/ EmbitModule \/ PycoinModule \/ HdwalletModule \/ KernelModule
      PROVE  PyAction
  <2>1. \/ \E c \in Copies : CallPython(c)
        \/ \E in \in Inputs : SkipDescriptor(in)
    BY <1>2, <1>3
       DEF ElectrumModule, EmbitModule, PycoinModule, HdwalletModule, KernelModule
  <2> QED
    BY <1>1, <2>1 DEF PyAction
<1>4. FuzzerExits \/ RunHandler \/ HandlersDone => PyAction
  BY DEF PyAction
<1> QED
  BY <1>3, <1>4 DEF PyNext

\* How the references of a stage follow from those of the stage before.
LEMMA HeldByStages ==
    /\ DOMAIN HeldBy = {"import", "getattr", "create", "tuple", "setitem", "call", "convert"}
    /\ HeldBy["import"] = {}
    /\ HeldBy["getattr"] = HeldBy["import"] \cup {"main_module"}
    /\ HeldBy["create"] = HeldBy["getattr"] \cup {"parse_func"}
    /\ HeldBy["tuple"] = HeldBy["create"] \cup {"input_obj"}
    /\ HeldBy["setitem"] = HeldBy["tuple"] \cup {"args"}
    /\ HeldBy["call"] = GivesInput(HeldBy["setitem"])
    /\ HeldBy["convert"] = HeldBy["call"] \cup {"result"}
<1>1. /\ DOMAIN HeldBy = {"import", "getattr", "create", "tuple", "setitem", "call", "convert"}
      /\ HeldBy["import"] = {}
      /\ HeldBy["getattr"] = {"main_module"}
      /\ HeldBy["create"] = {"main_module", "parse_func"}
      /\ HeldBy["tuple"] = {"main_module", "parse_func", "input_obj"}
      /\ HeldBy["setitem"] = {"main_module", "parse_func", "input_obj", "args"}
      /\ HeldBy["call"] = {"main_module", "parse_func", "args with input"}
      /\ HeldBy["convert"] = {"main_module", "parse_func", "args with input", "result"}
  BY DEF HeldBy
<1>2. HeldBy["call"] = GivesInput(HeldBy["setitem"])
  BY <1>1 DEF GivesInput
<1>3. HeldBy["getattr"] = HeldBy["import"] \cup {"main_module"}
  BY <1>1
<1>4. HeldBy["create"] = HeldBy["getattr"] \cup {"parse_func"}
  BY <1>1
<1>5. HeldBy["tuple"] = HeldBy["create"] \cup {"input_obj"}
  BY <1>1
<1>6. HeldBy["setitem"] = HeldBy["tuple"] \cup {"args"}
  BY <1>1
<1>7. HeldBy["convert"] = HeldBy["call"] \cup {"result"}
  BY <1>1
<1> QED
  BY <1>1, <1>2, <1>3, <1>4, <1>5, <1>6, <1>7

\* XDECREF of the input object, or of the tuple that holds it, counts once.
LEMMA ReleasesOnce ==
    ASSUME NEW s \in DOMAIN HeldBy
    PROVE  /\ InputReleases(HeldBy[s]) = RefsOf(HeldBy[s])
           /\ RefsOf(HeldBy[s]) =
                  IF s \in {"tuple", "setitem", "call", "convert"} THEN 1 ELSE 0
           /\ HeldBy[s] \subseteq {"main_module", "parse_func", "input_obj", "args",
                                   "args with input", "result"}
<1> DEFINE both == HeldBy[s] \cap {"input_obj", "args with input"}
<1>1. CASE s = "import"
  BY <1>1, FS_EmptySet DEF HeldBy, InputReleases, RefsOf
<1>2. CASE s = "getattr"
  <2>1. HeldBy[s] = {"main_module"} /\ both = {}
    BY <1>2 DEF HeldBy
  <2> QED
    BY <1>2, <2>1, FS_EmptySet DEF InputReleases, RefsOf
<1>3. CASE s = "create"
  <2>1. HeldBy[s] = {"main_module", "parse_func"} /\ both = {}
    BY <1>3 DEF HeldBy
  <2> QED
    BY <1>3, <2>1, FS_EmptySet DEF InputReleases, RefsOf
<1>4. CASE s = "tuple"
  <2>1. HeldBy[s] = {"main_module", "parse_func", "input_obj"}
    BY <1>4 DEF HeldBy
  <2>2. both = {"input_obj"}
    BY <2>1
  <2> QED
    BY <1>4, <2>1, <2>2, FS_Singleton DEF InputReleases, RefsOf
<1>5. CASE s = "setitem"
  <2>1. HeldBy[s] = {"main_module", "parse_func", "input_obj", "args"}
    BY <1>5 DEF HeldBy
  <2>2. both = {"input_obj"}
    BY <2>1
  <2> QED
    BY <1>5, <2>1, <2>2, FS_Singleton DEF InputReleases, RefsOf
<1>6. CASE s = "call"
  <2>1. HeldBy[s] = {"main_module", "parse_func", "args with input"}
    BY <1>6 DEF HeldBy
  <2>2. both = {"args with input"}
    BY <2>1
  <2> QED
    BY <1>6, <2>1, <2>2, FS_Singleton DEF InputReleases, RefsOf
<1>7. CASE s = "convert"
  <2>1. HeldBy[s] = {"main_module", "parse_func", "args with input", "result"}
    BY <1>7 DEF HeldBy
  <2>2. both = {"args with input"}
    BY <2>1
  <2> QED
    BY <1>7, <2>1, <2>2, FS_Singleton DEF InputReleases, RefsOf
<1> QED
  BY <1>1, <1>2, <1>3, <1>4, <1>5, <1>6, <1>7, HeldByStages

(***************************************************************************)
(* The invariant holds at the start, and every step keeps each part of it  *)
(***************************************************************************)
LEMMA PyInvInit == PyInit => PyInv
<1> SUFFICES ASSUME PyInit PROVE PyInv
  OBVIOUS
<1> USE DEF PyInit
<1>1. PyTypeOK
  <2>1. importable \subseteq PyModules
    BY ImportsAssumption
  <2>2. /\ gil = 0 /\ held = {} /\ inputRefs = 0 /\ error = "none" /\ verdict = "none"
        /\ pyCalls = 0 /\ registered = {} /\ initialized \in BOOLEAN
    OBVIOUS
  <2> HIDE DEF PyInit
  <2> QED
    BY <2>1, <2>2, MaxCallsAssumption DEF PyTypeOK
<1>2. HeldAt /\ RefsAreHeld /\ Indicators
  BY HeldByStages DEF HeldAt, RefsAreHeld, RefsOf, Indicators, Between
<1>3. OneFinalizer
  BY DEF OneFinalizer
<1>4. Judgement /\ VerdictsAreLibrarys
  BY StageNames DEF Judgement, VerdictsAreLibrarys, TextIsLibrarys, BoolIsLibrarys, Between
<1> QED
  BY <1>1, <1>2, <1>3, <1>4 DEF PyInv, Between

\* Wherever a call fails, what it has obtained is known, released at cleanup,
\* and nothing is left of it.
LEMMA HeldStep ==
    ASSUME PyInv, [PyNext]_pyVars
    PROVE  HeldAt' /\ RefsAreHeld' /\ pc' \in Between \cup Stages /\ held' \subseteq
               {Obtains[s] : s \in DOMAIN Obtains} \cup {"args with input", "result"}
<1> DEFINE Goal == HeldAt' /\ RefsAreHeld' /\ pc' \in Between \cup Stages
           At(s) == pc' = s /\ held' = HeldBy[s] /\ inputRefs' = RefsOf(HeldBy[s])
<1>0. /\ HeldAt /\ RefsAreHeld /\ pc \in Between \cup Stages
      /\ Stages = DOMAIN HeldBy \cup {"cleanup"}
  BY StageNames, HeldByStages DEF PyInv, Stages
<1>z. ASSUME Goal
      PROVE  held' \subseteq {Obtains[s] : s \in DOMAIN Obtains} \cup {"args with input", "result"}
  <2>1. held' \subseteq {"main_module", "parse_func", "input_obj", "args", "args with input", "result"}
    <3>1. \A s \in DOMAIN HeldBy :
              HeldBy[s] \subseteq {"main_module", "parse_func", "input_obj", "args",
                                  "args with input", "result"}
      BY ReleasesOnce, Zenon
    <3>2. held' = {} \/ \E s \in DOMAIN HeldBy : held' = HeldBy[s]
      <4>1. pc' \in Between \/ pc' \in DOMAIN HeldBy \/ pc' = "cleanup"
        BY <1>0, <1>z
      <4> QED
        BY <1>z, <4>1 DEF HeldAt
    <3> QED
      BY <3>1, <3>2
  <2>2. {Obtains[s] : s \in DOMAIN Obtains} = {"main_module", "parse_func", "input_obj", "args"}
    BY StageNames
  <2> QED
    BY <2>1, <2>2
<1> SUFFICES Goal
  BY <1>z
<1>a. ASSUME NEW s \in DOMAIN HeldBy, At(s) PROVE Goal
  BY <1>0, <1>a, HeldByStages DEF HeldAt, RefsAreHeld, Between
<1>b. ASSUME NEW s \in DOMAIN HeldBy, pc' = "cleanup", held' = HeldBy[s],
             inputRefs' = RefsOf(HeldBy[s])
      PROVE  Goal
  BY <1>0, <1>b, HeldByStages DEF HeldAt, RefsAreHeld, Between
<1>c. ASSUME pc' \in Between, held' = {}, inputRefs' = 0 PROVE Goal
  BY <1>0, <1>c, HeldByStages DEF HeldAt, RefsAreHeld, RefsOf, Between
<1> HIDE DEF Goal
<1>d. ASSUME pc \in Between PROVE held = {} /\ inputRefs = 0
  BY <1>0, <1>d DEF HeldAt, RefsAreHeld, RefsOf
<1>e. ASSUME pc \in DOMAIN HeldBy PROVE held = HeldBy[pc] /\ inputRefs = RefsOf(HeldBy[pc])
  BY <1>0, <1>e DEF HeldAt, RefsAreHeld
<1>1. ASSUME NEW c \in Copies, NEW f, NEW in, BeginPyCall(c, f, in) PROVE Goal
  BY <1>1, <1>a, <1>d, HeldByStages DEF BeginPyCall, Between, RefsOf
<1>2. ASSUME NEW in, SkipDescriptor(in) PROVE Goal
  BY <1>2, <1>c, <1>d DEF SkipDescriptor, Between
<1>3. ASSUME NEW s \in DOMAIN Obtains, Obtain(s) PROVE Goal
  <2>1. /\ pc = s /\ pc' = After[s] /\ held' = HeldBy[s] \cup {Obtains[s]}
        /\ inputRefs' = IF s = "create" THEN 1 ELSE RefsOf(HeldBy[s])
        /\ s \in DOMAIN HeldBy /\ After[s] \in DOMAIN HeldBy
    BY <1>3, <1>e, StageNames, HeldByStages DEF Obtain
  <2>2. HeldBy[After[s]] = HeldBy[s] \cup {Obtains[s]}
    BY StageNames, HeldByStages
  <2>3. RefsOf(HeldBy[After[s]]) = IF s = "create" THEN 1 ELSE RefsOf(HeldBy[s])
    BY <2>1, ReleasesOnce, StageNames
  <2> QED
    BY <1>a, <2>1, <2>2, <2>3
<1>4. ASSUME NEW s \in DOMAIN Obtains, StageFails(s) PROVE Goal
  BY <1>4, <1>b, <1>e, StageNames, HeldByStages DEF StageFails
<1>5. CASE NotCallable
  <2>1. pc' = "cleanup" /\ held' = HeldBy["create"] /\ inputRefs' = RefsOf(HeldBy["getattr"])
    BY <1>5, <1>e, HeldByStages DEF NotCallable
  <2>2. RefsOf(HeldBy["getattr"]) = RefsOf(HeldBy["create"])
    BY ReleasesOnce, HeldByStages
  <2> QED
    BY <1>b, <2>1, <2>2, HeldByStages
<1>6. CASE SetItem
  <2>1. pc' = "call" /\ held' = HeldBy["call"] /\ inputRefs' = RefsOf(HeldBy["setitem"])
    BY <1>6, <1>e, HeldByStages DEF SetItem
  <2>2. RefsOf(HeldBy["setitem"]) = RefsOf(HeldBy["call"])
    BY ReleasesOnce, HeldByStages
  <2> QED
    BY <1>a, <2>1, <2>2, HeldByStages
<1>7. CASE CallObject
  <2>1. pc' = "convert" /\ held' = HeldBy["convert"] /\ inputRefs' = RefsOf(HeldBy["call"])
    BY <1>7, <1>e, HeldByStages DEF CallObject
  <2>2. RefsOf(HeldBy["call"]) = RefsOf(HeldBy["convert"])
    BY ReleasesOnce, HeldByStages
  <2> QED
    BY <1>a, <2>1, <2>2, HeldByStages
<1>8. CASE CallRaises
  BY <1>8, <1>b, <1>e, HeldByStages DEF CallRaises
<1>9. CASE Convert
  BY <1>9, <1>b, <1>e, HeldByStages DEF Convert
<1>10. CASE Cleanup \/ PrintExits
  <2>1. /\ pc = "cleanup" /\ held' = {}
        /\ inputRefs' = inputRefs - InputReleases(held)
        /\ pc' \in Between
    BY <1>10 DEF Cleanup, PrintExits, ReleasedAll, Between
  <2>2. PICK s \in DOMAIN HeldBy : held = HeldBy[s]
    BY <1>0, <2>1 DEF HeldAt
  <2>3. inputRefs = RefsOf(held) /\ RefsOf(held) \in Int
    BY <1>0, RefsOfType DEF RefsAreHeld
  <2>4. InputReleases(held) = RefsOf(held)
    BY <2>2, ReleasesOnce
  <2>5. inputRefs' = 0
    BY <2>1, <2>3, <2>4
  <2> QED
    BY <1>c, <2>1, <2>5
<1>11. CASE FuzzerExits
  BY <1>11, <1>c, <1>d DEF FuzzerExits, Between
<1>12. CASE RunHandler
  BY <1>12, <1>c, <1>d DEF RunHandler, Between
<1>13. CASE HandlersDone
  BY <1>13, <1>c, <1>d DEF HandlersDone, Between
<1>14. CASE UNCHANGED pyVars
  <2>1. UNCHANGED <<pc, held, inputRefs>>
    BY <1>14 DEF pyVars
  <2> QED
    BY <1>0, <2>1 DEF HeldAt, RefsAreHeld, Goal
<1>15. CASE PyAction
  BY <1>1, <1>2, <1>3, <1>4, <1>5, <1>6, <1>7, <1>8, <1>9, <1>10, <1>11, <1>12, <1>13, <1>15
     DEF PyAction
<1> QED
  BY <1>14, <1>15, PyActions

\* The GIL and the error indicator follow the call, and the interpreter is
\* finalized by the handler that was registered when it was started, or by the
\* SystemExit that leaves the handler nothing to do.
LEMMA InterpreterStep ==
    ASSUME PyInv, [PyNext]_pyVars
    PROVE  Indicators' /\ OneFinalizer' /\ gil' \in 0..2 /\ finalized' <= 1
<1>0. /\ Indicators /\ OneFinalizer /\ pc \in Between \cup Stages
      /\ initialized \in BOOLEAN /\ gil \in 0..2
      /\ Stages = {"import", "getattr", "create", "tuple", "setitem", "call", "convert", "cleanup"}
  BY StageNames DEF PyInv, Stages, PyTypeOK
<1> DEFINE Goal == Indicators' /\ OneFinalizer' /\ gil' \in 0..2
<1>z. Goal => finalized' <= 1
  BY DEF OneFinalizer
<1> SUFFICES Goal
  BY <1>z
<1> USE DEF Indicators, Between
<1>a. ASSUME UNCHANGED <<initialized, registered, handlers, finalized, gil>>,
             pc \notin Between, pc' \notin Between,
             pc' = "cleanup" \/ error' = "none"
      PROVE  Goal
  BY <1>0, <1>a DEF OneFinalizer
<1>1. ASSUME NEW c \in Copies, NEW f, NEW in, BeginPyCall(c, f, in) PROVE Goal
  <2>1. /\ pc = "idle" /\ pc' = "import" /\ initialized' = TRUE
        /\ UNCHANGED <<finalized, error>>
        /\ gil' = (IF initialized THEN gil ELSE 1) + 1
        /\ registered' = IF Registers(c) THEN registered \cup {c} ELSE registered
        /\ handlers' = IF Registers(c) THEN Append(handlers, c) ELSE handlers
    BY <1>1 DEF BeginPyCall
  <2>2. handlers \in Seq(Copies) /\ Append(handlers, c) \in Seq(Copies)
        /\ Append(handlers, c) # <<>>
    BY <1>0 DEF OneFinalizer
  <2>3. CASE initialized
    <3>1. UNCHANGED <<registered, handlers>>
      BY <2>1, <2>3 DEF Registers
    <3> QED
      BY <1>0, <2>1, <2>3, <3>1 DEF OneFinalizer
  <2>4. CASE ~initialized
    <3>1. registered = {} /\ finalized = 0
      BY <1>0, <2>1, <2>4 DEF OneFinalizer
    <3>2. registered' = {c} /\ handlers' = Append(handlers, c)
      BY <2>1, <2>4, <3>1 DEF Registers
    <3> QED
      BY <1>0, <2>1, <2>2, <2>4, <3>1, <3>2 DEF OneFinalizer
  <2> QED
    BY <2>3, <2>4
<1>2. ASSUME NEW in, SkipDescriptor(in) PROVE Goal
  BY <1>0, <1>2 DEF SkipDescriptor, interpreter, OneFinalizer
<1>3. ASSUME NEW s \in DOMAIN Obtains, Obtain(s) PROVE Goal
  BY <1>0, <1>3, <1>a, StageNames DEF Obtain, interpreter
<1>4. ASSUME NEW s \in DOMAIN Obtains, StageFails(s) PROVE Goal
  BY <1>0, <1>4, <1>a, StageNames DEF StageFails, interpreter
<1>5. CASE NotCallable
  BY <1>0, <1>5, <1>a DEF NotCallable, interpreter
<1>6. CASE SetItem
  BY <1>0, <1>6, <1>a DEF SetItem, interpreter
<1>7. CASE CallObject
  BY <1>0, <1>7, <1>a DEF CallObject, interpreter
<1>8. CASE CallRaises
  BY <1>0, <1>8, <1>a DEF CallRaises, interpreter
<1>9. CASE Convert
  BY <1>0, <1>9, <1>a DEF Convert, interpreter
<1>10. CASE Cleanup
  BY <1>0, <1>10 DEF Cleanup, interpreter, OneFinalizer
<1>11. CASE PrintExits
  <2>1. initialized /\ pc = "cleanup" /\ pc' = "exiting" /\ initialized' = FALSE
        /\ finalized' = finalized + 1 /\ UNCHANGED <<registered, handlers, gil>>
    BY <1>0, <1>11 DEF PrintExits
  <2> QED
    BY <1>0, <2>1 DEF OneFinalizer
<1>12. CASE FuzzerExits
  BY <1>0, <1>12 DEF FuzzerExits, interpreter, OneFinalizer
<1>13. CASE RunHandler
  <2>1. /\ pc = "exiting" /\ pc' = "exiting" /\ initialized' = FALSE
        /\ finalized' = IF initialized THEN finalized + 1 ELSE finalized
        /\ UNCHANGED <<registered, gil>>
        /\ handlers # <<>> /\ handlers' = Front(handlers)
    BY <1>13 DEF RunHandler, python_cleanup
  <2>2. handlers' \in Seq(Copies)
    <3>1. handlers \in Seq(Copies) /\ Len(handlers) - 1 \in Nat
      BY <1>0, <2>1 DEF OneFinalizer
    <3>2. handlers' = SubSeq(handlers, 1, Len(handlers) - 1)
      BY <2>1 DEF Front
    <3> QED
      BY <3>1, <3>2
  <2> QED
    BY <1>0, <2>1, <2>2 DEF OneFinalizer
<1>14. CASE HandlersDone
  BY <1>0, <1>14 DEF HandlersDone, interpreter, OneFinalizer
<1>15. CASE UNCHANGED pyVars
  BY <1>0, <1>15 DEF pyVars, interpreter, OneFinalizer
<1>16. CASE PyAction
  BY <1>1, <1>2, <1>3, <1>4, <1>5, <1>6, <1>7, <1>8, <1>9, <1>10, <1>11, <1>12, <1>13, <1>14, <1>16
     DEF PyAction
<1> QED
  BY <1>15, <1>16, PyActions

\* From the verdict to the driver: what the library said of this input, or
\* nothing, is what Told makes of it.
LEMMA VerdictStep ==
    ASSUME PyInv, [PyNext]_pyVars
    PROVE  /\ Judgement' /\ VerdictsAreLibrarys'
           /\ verdict' \in {"none", "accepts", "rejects"}
<1> DEFINE Goal == Judgement' /\ VerdictsAreLibrarys' /\ verdict' \in {"none", "accepts", "rejects"}
           Kept == /\ UNCHANGED <<call, heard, verdict, result>>
                   /\ pc \notin Between /\ pc' \notin Between
                   /\ pc' \in DOMAIN Obtains \cup {"setitem", "call"} =>
                          pc \in DOMAIN Obtains \cup {"setitem", "call"}
<1>0. /\ Judgement /\ VerdictsAreLibrarys /\ pc \in Between \cup Stages
      /\ verdict \in {"none", "accepts", "rejects"}
      /\ Stages = {"import", "getattr", "create", "tuple", "setitem", "call", "convert", "cleanup"}
  BY StageNames DEF PyInv, Stages, PyTypeOK
<1> SUFFICES Goal
  OBVIOUS
<1>y. pc' # "idle" => VerdictsAreLibrarys'
  BY DEF VerdictsAreLibrarys, TextIsLibrarys, BoolIsLibrarys
<1>a. ASSUME Kept PROVE Goal
  <2>1. Given' = Given
    BY <1>a DEF Given, IsText
  <2>2. Judgement'
    BY <1>0, <1>a, <2>1 DEF Judgement
  <2> QED
    BY <1>0, <1>a, <1>y, <2>2 DEF Between
<1>b. ASSUME UNCHANGED <<call, heard, verdict, result, returned>>,
             pc \in Between, pc' = pc \/ pc' \in {"exiting", "exited"}
      PROVE  Goal
  <2>1. Judgement'
    BY <1>0, <1>b, StageNames DEF Judgement, Between
  <2>2. VerdictsAreLibrarys'
    BY <1>0, <1>b, <1>y DEF VerdictsAreLibrarys, TextIsLibrarys, BoolIsLibrarys
  <2> QED
    BY <1>0, <1>b, <2>1, <2>2
<1>1. ASSUME NEW c \in Copies, NEW f, NEW in, BeginPyCall(c, f, in) PROVE Goal
  <2>1. /\ call' = <<c, f, in>> /\ pc' = "import"
        /\ verdict' = "none" /\ result' = "none"
    BY <1>1 DEF BeginPyCall
  <2>2. call' # <<>> /\ call'[1] \in Copies
    BY <2>1
  <2> QED
    BY <1>y, <2>1, <2>2 DEF Judgement
<1>2. ASSUME NEW in, SkipDescriptor(in) PROVE Goal
  <2>1. /\ call' = <<EmbitBool, "descriptor_parse", in>> /\ pc' = "idle"
        /\ verdict' = "none" /\ result' = "none" /\ returned' = "nullopt"
    BY <1>2 DEF SkipDescriptor, NulloptPy
  <2>2. call'[1] = EmbitBool /\ EmbitBool \in Copies /\ EmbitBool[2] = "bool"
    BY <2>1 DEF Copies, EmbitBool
  <2>3. Judgement'
    BY <2>1, <2>2, StageNames DEF Judgement, Between
  <2>4. VerdictsAreLibrarys'
    BY <2>1, <2>2 DEF VerdictsAreLibrarys, TextIsLibrarys, BoolIsLibrarys
  <2> QED
    BY <2>1, <2>3, <2>4
<1>3. ASSUME NEW s \in DOMAIN Obtains, Obtain(s) PROVE Goal
  BY <1>3, <1>a, StageNames DEF Obtain, Between
<1>4. ASSUME NEW s \in DOMAIN Obtains, StageFails(s) PROVE Goal
  BY <1>4, <1>a, StageNames DEF StageFails, Between
<1>5. CASE NotCallable
  BY <1>5, <1>a, StageNames DEF NotCallable, Between
<1>6. CASE SetItem
  BY <1>6, <1>a, StageNames DEF SetItem, Between
<1>7. CASE CallObject
  <2>1. /\ pc = "call" /\ pc' = "convert" /\ UNCHANGED call
        /\ verdict' \in {"accepts", "rejects"}
        /\ result' = Adapter(call[1], call[2], call[3], verdict')
        /\ heard' = <<Given>>
    BY <1>7 DEF CallObject
  <2>2. Given' = Given
    BY <2>1 DEF Given, IsText
  <2>3. Judgement'
    BY <1>0, <2>1, <2>2, StageNames DEF Judgement, Between
  <2> QED
    BY <1>y, <2>1, <2>3
<1>8. CASE CallRaises
  <2>1. /\ pc = "call" /\ pc' = "cleanup" /\ UNCHANGED <<call, verdict, result>>
    BY <1>8 DEF CallRaises
  <2>2. verdict = "none" /\ result = "none"
    BY <1>0, <2>1 DEF Judgement
  <2>3. Judgement'
    BY <1>0, <2>1, <2>2, StageNames DEF Judgement, Between
  <2> QED
    BY <1>0, <1>y, <2>1, <2>3
<1>9. CASE Convert
  BY <1>9, <1>a, StageNames DEF Convert, Between
<1>10. CASE Cleanup
  <2>1. /\ pc = "cleanup" /\ pc' = "idle" /\ returned' = Told
        /\ UNCHANGED <<call, heard, verdict, result>>
    BY <1>10 DEF Cleanup
  <2>2. /\ call # <<>> /\ call[1] \in Copies
        /\ \/ verdict = "none" /\ result = "none"
           \/ /\ verdict \in {"accepts", "rejects"}
              /\ result = Adapter(call[1], call[2], call[3], verdict)
              /\ heard = <<Given>>
    BY <1>0, <2>1 DEF Judgement, Between
  <2>3. TextIsLibrarys'
    <3> SUFFICES ASSUME call[1][2] = "text"
                 PROVE  /\ returned' = "value" => heard = <<"input">> /\ verdict = "accepts"
                        /\ returned' = "sentinel" =>
                               \/ heard = <<"input">> /\ verdict = "rejects"
                               \/ Undecodable(call[2], call[3])
                        /\ returned' = NulloptPy /\ verdict = "rejects" =>
                               call[3].shape \in {"short_seed", "other_network"}
      BY <2>1 DEF TextIsLibrarys
    <3>1. Given = "input"
      BY DEF Given, IsText
    <3>2. returned' = IF result \in {"value", "sentinel"} THEN result ELSE NulloptPy
      BY <2>1 DEF Told, IsText
    <3>3. CASE verdict = "none" /\ result = "none"
      BY <3>2, <3>3 DEF NulloptPy
    <3>4. CASE /\ verdict \in {"accepts", "rejects"}
               /\ result = Adapter(call[1], call[2], call[3], verdict)
               /\ heard = <<Given>>
      <4>1. /\ result = "value" => verdict = "accepts"
            /\ result = "sentinel" => verdict = "rejects" \/ Undecodable(call[2], call[3])
            /\ result \notin {"value", "sentinel"} /\ verdict = "rejects" =>
                   call[3].shape \in {"short_seed", "other_network"}
        BY <2>2, <3>4, TextAdapter
      <4> QED
        BY <3>1, <3>2, <3>4, <4>1 DEF NulloptPy
    <3> QED
      BY <2>2, <3>3, <3>4
  <2>4. BoolIsLibrarys'
    <3> SUFFICES ASSUME call[1][2] = "bool"
                 PROVE  /\ returned' = "true" =>
                               verdict = "accepts" /\ (heard = <<"input">> \/ call[3].nul)
                        /\ returned' = "false" => verdict # "accepts"
      BY <2>1 DEF BoolIsLibrarys
    <3>1. returned' = IF result = "True" THEN "true" ELSE "false"
      BY <2>1 DEF Told, IsText
    <3>2. CASE verdict = "none" /\ result = "none"
      BY <3>1, <3>2
    <3>3. CASE /\ verdict \in {"accepts", "rejects"}
               /\ result = Adapter(call[1], call[2], call[3], verdict)
               /\ heard = <<Given>>
      <4>1. result = EmbitMiniscript(verdict)
        BY <2>2, <3>3, BoolAdapter
      <4> QED
        BY <3>1, <3>3, <4>1 DEF EmbitMiniscript, Given, IsText
    <3> QED
      BY <2>2, <3>2, <3>3
  <2>5. Judgement'
    BY <1>0, <2>1, <2>2, StageNames DEF Judgement, Between
  <2> QED
    BY <1>0, <2>1, <2>3, <2>4, <2>5 DEF VerdictsAreLibrarys
<1>11. CASE PrintExits
  <2>1. pc = "cleanup" /\ pc' = "exiting" /\ UNCHANGED <<call, heard, verdict, result>>
    BY <1>11 DEF PrintExits
  <2>2. Judgement'
    BY <1>0, <2>1, StageNames DEF Judgement, Between
  <2> QED
    BY <1>0, <1>y, <2>1, <2>2
<1>12. CASE FuzzerExits
  BY <1>12, <1>b DEF FuzzerExits, Between
<1>13. CASE RunHandler
  BY <1>13, <1>b DEF RunHandler, Between
<1>14. CASE HandlersDone
  BY <1>14, <1>b DEF HandlersDone, Between
<1>15. CASE UNCHANGED pyVars
  <2>1. UNCHANGED <<call, heard, verdict, result, returned, pc>>
    BY <1>15 DEF pyVars
  <2> QED
    BY <1>0, <1>a, <1>b, <2>1
<1>16. CASE PyAction
  <2> HIDE DEF Goal
  <2> QED
    BY <1>1, <1>2, <1>3, <1>4, <1>5, <1>6, <1>7, <1>8, <1>9, <1>10, <1>11, <1>12, <1>13, <1>14, <1>16
       DEF PyAction
<1> QED
  BY <1>15, <1>16, PyActions

\* The rest of the types.
LEMMA PyTypeStep ==
    ASSUME PyInv, [PyNext]_pyVars
    PROVE  PyTypeOK'
<1> DEFINE Goal ==
               /\ importable' \subseteq PyModules
               /\ initialized' \in BOOLEAN
               /\ registered' \subseteq Copies
               /\ error' \in {"none", "exception", "SystemExit"}
               /\ pyCalls' \in 0..MaxCalls
<1>0. /\ importable \subseteq PyModules
      /\ initialized \in BOOLEAN
      /\ registered \subseteq Copies
      /\ error \in {"none", "exception", "SystemExit"}
      /\ pyCalls \in 0..MaxCalls
  BY DEF PyInv, PyTypeOK
<1>z. ASSUME Goal PROVE PyTypeOK'
  <2>1. RefsAreHeld'
    BY HeldStep
  <2>2. inputRefs' \in 0..1
    BY <2>1, RefsOfType DEF RefsAreHeld
  <2>3. /\ held' \subseteq {Obtains[s] : s \in DOMAIN Obtains} \cup {"args with input", "result"}
        /\ gil' \in 0..2 /\ verdict' \in {"none", "accepts", "rejects"}
    BY HeldStep, InterpreterStep, VerdictStep
  <2> QED
    BY <1>z, <2>2, <2>3 DEF PyTypeOK
<1> SUFFICES Goal
  BY <1>z
<1> USE <1>0, MaxCallsAssumption DEF interpreter
<1>1. ASSUME NEW c \in Copies, NEW f, NEW in, BeginPyCall(c, f, in) PROVE Goal
  BY <1>1 DEF BeginPyCall
<1>2. ASSUME NEW in, SkipDescriptor(in) PROVE Goal
  BY <1>2 DEF SkipDescriptor
<1>3. ASSUME NEW s \in DOMAIN Obtains, Obtain(s) PROVE Goal
  BY <1>3 DEF Obtain
<1>4. ASSUME NEW s \in DOMAIN Obtains, StageFails(s) PROVE Goal
  BY <1>4 DEF StageFails
<1>5. CASE NotCallable \/ SetItem \/ CallObject \/ CallRaises \/ Convert
  BY <1>5 DEF NotCallable, SetItem, CallObject, CallRaises, Convert
<1>6. CASE Cleanup \/ PrintExits
  BY <1>6 DEF Cleanup, PrintExits
<1>7. CASE FuzzerExits \/ RunHandler \/ HandlersDone
  BY <1>7 DEF FuzzerExits, RunHandler, HandlersDone
<1>8. CASE UNCHANGED pyVars
  BY <1>8 DEF pyVars
<1>9. CASE PyAction
  <2> HIDE DEF Goal
  <2> QED
    BY <1>1, <1>2, <1>3, <1>4, <1>5, <1>6, <1>7, <1>9 DEF PyAction
<1> QED
  BY <1>8, <1>9, PyActions

LEMMA PyInvStep == PyInv /\ [PyNext]_pyVars => PyInv'
BY PyTypeStep, HeldStep, InterpreterStep, VerdictStep DEF PyInv

\* What the parts of the invariant say between two calls, and at the end.
LEMMA PyInvTidy == PyInv => InterpreterTidy
<1> SUFFICES ASSUME PyInv PROVE InterpreterTidy
  OBVIOUS
<1>1. CleanBetweenCalls
  <2>1. \A refs : refs = {} => RefsOf(refs) = 0
    BY DEF RefsOf
  <2> QED
    BY <2>1 DEF PyInv, CleanBetweenCalls, HeldAt, RefsAreHeld, Indicators, Between
<1>2. FinalizedOnce
  <2>1. OneFinalizer
    BY DEF PyInv
  <2> QED
    BY <2>1 DEF FinalizedOnce, OneFinalizer
<1> QED
  BY <1>1, <1>2 DEF PyInv, InterpreterTidy

(***************************************************************************)
(* The QuickJS engine                                                      *)
(***************************************************************************)

\* What the engine holds and what has been said, at each stage of a call.
JsInv ==
    /\ EngineHolds
    /\ jsPc \in {"idle", "init", "calling", "exception", "freeing", "aborted"}
    /\ jsPc = "init" => values = {}
    /\ jsPc \in {"idle", "init", "calling", "freeing"} => jsException = "none"
    /\ jsPc \in {"init", "calling", "exception"} => jsVerdict = "none"
    /\ jsPc = "freeing" =>
           /\ jsAnswer = "true" => jsVerdict = "accepts"
           /\ jsAnswer = "nullopt" => jsVerdict = "none"

LEMMA JsInvInit == JsInit => JsInv
BY DEF JsInit, JsInv, EngineHolds, EngineWhole, JsAnswerIsLibrarys

LEMMA JsInvStep == JsInv /\ [JsNext]_jsVars => JsInv'
<1> SUFFICES ASSUME JsInv, [JsNext]_jsVars PROVE JsInv'
  OBVIOUS
<1> USE DEF JsInv, EngineHolds, EngineWhole, JsAnswerIsLibrarys, engine
<1>1. CASE BeginJsCall
  BY <1>1 DEF BeginJsCall
<1>2. CASE NewRuntime
  BY <1>2 DEF NewRuntime
<1>3. CASE NewContext
  BY <1>3 DEF NewContext
<1>4. CASE LoadBundle
  BY <1>4 DEF LoadBundle
<1>5. CASE InitJsFails
  BY <1>5 DEF InitJsFails
<1>6. CASE NewBuffer
  BY <1>6 DEF NewBuffer, Ready
<1>7. CASE MethodReturns
  <2>1. /\ jsPc = "calling" /\ jsPc' = "freeing" /\ UNCHANGED <<js_runtime, js_context, js_bundle_loaded, jsException>>
        /\ jsVerdict' \in {"accepts", "rejects"}
        /\ jsAnswer' = IF jsVerdict' = "accepts" THEN "true" ELSE "false"
    BY <1>7 DEF MethodReturns, JS_ToBool
  <2> QED
    BY <2>1
<1>8. CASE MethodThrows
  BY <1>8 DEF MethodThrows
<1>9. CASE is_stack_overflow_exception
  BY <1>9 DEF is_stack_overflow_exception, ExceptionTaken
<1>10. CASE FreeValues
  BY <1>10 DEF FreeValues
<1>11. CASE UNCHANGED jsVars
  BY <1>11 DEF jsVars
<1> QED
  BY <1>1, <1>2, <1>3, <1>4, <1>5, <1>6, <1>7, <1>8, <1>9, <1>10, <1>11 DEF JsNext

(***************************************************************************)
(* The theorems                                                            *)
(***************************************************************************)
LEMMA BridgesInvariant == Spec => [](PyInv /\ JsInv)
<1>1. Init => PyInv /\ JsInv
  BY PyInvInit, JsInvInit DEF Init
<1>2. PyInv /\ JsInv /\ [Next]_<<pyVars, jsVars>> => PyInv' /\ JsInv'
  <2>1. [Next]_<<pyVars, jsVars>> => [PyNext]_pyVars /\ [JsNext]_jsVars
    BY DEF Next
  <2> QED
    BY <2>1, PyInvStep, JsInvStep
<1> QED
  BY <1>1, <1>2, PTL DEF Spec

\* No call leaves a reference, an exception or the GIL behind, at whichever
\* stage it fails and whichever of the five modules it is of, and the shared
\* interpreter is finalized once.
THEOREM TidyInterpreter == Spec => []InterpreterTidy
BY BridgesInvariant, PyInvTidy, PTL

\* No Python module answers what its library did not say of this input.
THEOREM HonestVerdicts == Spec => []VerdictsAreLibrarys
<1>1. PyInv => VerdictsAreLibrarys
  BY DEF PyInv
<1> QED
  BY <1>1, BridgesInvariant, PTL

\* The JavaScript engine is used only when all of its stages have succeeded,
\* and no exception of one call is met by the next.
THEOREM EngineStaysWhole == Spec => []EngineHolds
<1>1. JsInv => EngineHolds
  BY DEF JsInv
<1> QED
  BY <1>1, BridgesInvariant, PTL

(***************************************************************************)
(* Lemmas about the operators of SilentPayments                            *)
(***************************************************************************)

\* The running sums of keys are residues, one for each number of keys.
LEMMA RunningSumsType ==
    ASSUME NEW keys \in Seq(Scalars), NEW taproot
    PROVE  RunningSums(keys, taproot) \in [0..Len(keys) -> 0..(Order - 1)]
<1> DEFINE n == Len(keys)
           T == [k \in 1..n |-> Summand(keys, taproot, k)]
           Def(f) == f = [k \in 0..n |->
                             IF k = 0 THEN 0
                             ELSE (f[k - 1] + Summand(keys, taproot, k)) % Order]
<1>0. n \in Nat /\ Order \in Nat \ {0}
  BY OrderAssumption
<1>1. T \in [1..n -> Nat]
  <2>1. \A k \in 1..n : Summand(keys, taproot, k) \in Nat
    BY <1>0, OrderAssumption DEF Summand, Scalars
  <2> QED
    BY <2>1
<1>2. \A f : AddsUp(f, T, Order, n) <=> Def(f)
  BY DEF AddsUp
<1>3. /\ \E f : AddsUp(f, T, Order, n)
      /\ \A f : AddsUp(f, T, Order, n) => f \in [0..n -> 0..(Order - 1)]
  <2> HIDE DEF T, n
  <2> QED
    BY <1>0, <1>1, ResidueSums
<1>4. RunningSums(keys, taproot) = CHOOSE f : Def(f)
  BY DEF RunningSums
<1> HIDE DEF Def, T
<1> QED
  BY <1>2, <1>3, <1>4

\* The total of the keys of an input is a residue.
LEMMA TotalType ==
    ASSUME NEW in, in.keys \in Seq(Scalars)
    PROVE  Total(in) \in 0..(Order - 1)
<1>1. Len(in.keys) \in 0..Len(in.keys)
  OBVIOUS
<1> QED
  BY <1>1, RunningSumsType DEF Total, SumTo

(***************************************************************************)
(* The handler of a line                                                   *)
(***************************************************************************)
Unlabeled(in) == \A i \in Recipients(in) : ~in.labeled[i]

SkipLine == <<"SKIP_INTERMEDIATE_ZERO_SUM">>

\* What a wrapper may return for in.
Faithful(a, in) ==
    IF a = NullOpt
    THEN \/ \E i \in Recipients(in) : in.labeled[i]
         \/ LibraryFoldFails(in) /\ Bip352(in)[1] = "outputs"
    ELSE a = Bip352(in)

AnswerOK(a) ==
    /\ a[1] \in {"none", "nullopt", "INVALID_SECKEY", "CREATE_FAIL", "outputs"}
    /\ a[1] = "outputs" => \A i \in DOMAIN a[2] : a[2][i][1] \in 0..(Order - 1)

\* index.ts accepts the line the wrapper writes for an input of the driver.
LEMMA RequestAccepted ==
    ASSUME NEW in \in RequestType
    PROVE  IsRequest(Request(in)) /\ Len(Request(in)) = 5
<1>1. /\ Len(in.keys) \in Nat \ {0} /\ Len(in.taproot) = Len(in.keys)
      /\ Len(in.scan) \in Nat \ {0} /\ Len(in.spend) = Len(in.scan)
  BY DEF RequestType
<1>2. \A n \in Nat \ {0} : 32 * n = n * 32 /\ (32 * n) % 32 = 0 /\ 32 * n # 0
  OBVIOUS
<1>3. /\ Request(in)[1].bytes = 36
      /\ Request(in)[2].bytes = 32 * Len(in.keys)
      /\ Request(in)[3].bytes = Len(in.keys)
      /\ Request(in)[4].bytes = 32 * Len(in.scan)
      /\ Request(in)[5].bytes = 32 * Len(in.scan)
      /\ Len(Request(in)) = 5
  BY <1>1 DEF Request, Field
<1>4. /\ 32 * Len(in.keys) = Len(in.keys) * 32
      /\ (32 * Len(in.scan)) % 32 = 0
      /\ 32 * Len(in.scan) # 0
  BY <1>1, <1>2, Zenon
<1>5. /\ Request(in)[2].bytes = Request(in)[3].bytes * 32
      /\ Request(in)[4].bytes % 32 = 0 /\ Request(in)[4].bytes # 0
      /\ Request(in)[3].bytes # 0
  BY <1>1, <1>3, <1>4
<1> QED
  BY <1>3, <1>5 DEF IsRequest

\* What BIP-352 asks for is an answer of the right form, and no sentinel.
LEMMA Bip352Type ==
    ASSUME NEW in \in RequestType
    PROVE  /\ AnswerOK(Bip352(in))
           /\ Bip352(in) \notin {NullOpt, SkipLine, <<"BAD_REQUEST">>}
<1>1. CASE Bip352(in) \in {<<"INVALID_SECKEY">>, <<"CREATE_FAIL">>}
  BY <1>1 DEF AnswerOK, NullOpt, SkipLine
<1>2. CASE Bip352(in) = <<"outputs", Outputs(in)>>
  <2>1. Total(in) \in Nat /\ Order \in Nat /\ Order > 1
    BY TotalType, OrderAssumption DEF RequestType
  <2>2. \A a, b \in Nat : a * b \in Nat
    OBVIOUS
  <2>3. \A a \in Nat : a % Order \in 0..(Order - 1)
    BY <2>1
  <2>4. ASSUME NEW i \in DOMAIN Outputs(in) PROVE Outputs(in)[i][1] \in 0..(Order - 1)
    <3>1. i \in Recipients(in)
      BY <2>4 DEF Outputs
    <3>2. in.scan[i] \in Nat
      BY <3>1, <2>1 DEF Recipients, RequestType, Scalars
    <3>3. Outputs(in)[i][1] = (Total(in) * in.scan[i]) % Order
      BY <3>1 DEF Outputs, Output
    <3>4. Total(in) * in.scan[i] \in Nat
      BY <2>1, <2>2, <3>2
    <3> QED
      BY <2>3, <3>3, <3>4
  <2>5. AnswerOK(<<"outputs", Outputs(in)>>)
    <3> HIDE DEF Outputs
    <3> QED
      BY <2>4 DEF AnswerOK
  <2>6. <<"outputs", Outputs(in)>>[1] = "outputs"
    OBVIOUS
  <2> QED
    BY <1>2, <2>5, <2>6 DEF NullOpt, SkipLine
<1> QED
  BY <1>1, <1>2 DEF Bip352

\* The answer to an unlabeled input is that of BIP-352, or the sentinel of the
\* one divergence that index.ts hides.
LEMMA HandlerAnswers ==
    ASSUME NEW in \in RequestType, Unlabeled(in)
    PROVE  LET response == HandleRequest(Request(in))
           IN  \/ response = Bip352(in)
               \/ /\ response = SkipLine
                  /\ LibraryFoldFails(in) /\ Bip352(in)[1] = "outputs"
<1> DEFINE req == [keys |-> in.keys, taproot |-> in.taproot,
                   scan |-> in.scan, spend |-> in.spend]
           outs == [i \in Recipients(in) |->
                       <<(Total(in) * in.scan[i]) % Order, in.spend[i], GroupCounter(in, i)>>]
<1>1. HandleRequest(Request(in)) = CreateOutputs(req)
  BY RequestAccepted DEF HandleRequest, Request, Field
<1>2. /\ req.keys = in.keys /\ req.taproot = in.taproot
      /\ req.scan = in.scan /\ req.spend = in.spend
  OBVIOUS
<1>3. Total(req) = Total(in) /\ \A n : SumTo(req, n) = SumTo(in, n)
  BY <1>2 DEF Total, SumTo
<1>4. Recipients(req) = Recipients(in)
  BY <1>2 DEF Recipients
<1>5. /\ LibraryFoldFails(req) <=> LibraryFoldFails(in)
      /\ DivergesOnIntermediateZeroSum(req) <=> DivergesOnIntermediateZeroSum(in)
      /\ BadInputKey(req) <=> BadInputKey(in)
  BY <1>2, <1>3 DEF LibraryFoldFails, DivergesOnIntermediateZeroSum, BadInputKey
<1>6. \A i : GroupCounter(req, i) = GroupCounter(in, i)
  BY <1>2 DEF GroupCounter
<1>7. outs = Outputs(in)
  BY DEF Outputs, Output, SpendPubkey, Unlabeled
<1>8. CreateOutputs(req) =
          IF BadInputKey(in) THEN <<"INVALID_SECKEY">>
          ELSE IF \E i \in Recipients(in) : ~InRange(in.scan[i]) \/ ~InRange(in.spend[i])
               THEN <<"INVALID_SECKEY">>
          ELSE IF DivergesOnIntermediateZeroSum(in) THEN SkipLine
          ELSE IF LibraryFoldFails(in) THEN <<"CREATE_FAIL">>
          ELSE <<"outputs", outs>>
  <2> HIDE DEF req
  <2> QED
    BY <1>2, <1>3, <1>4, <1>5, <1>6 DEF CreateOutputs, SkipLine
<1> HIDE DEF req, outs
<1>9. Len(in.keys) \in Nat
  BY DEF RequestType
<1>10. CASE BadInputKey(in) \/ \E i \in Recipients(in) : ~InRange(in.scan[i]) \/ ~InRange(in.spend[i])
  BY <1>1, <1>8, <1>10 DEF Bip352, BadInputKey, Recipients
<1>11. CASE /\ ~BadInputKey(in)
            /\ \A i \in Recipients(in) : InRange(in.scan[i]) /\ InRange(in.spend[i])
  <2>1. Bip352(in) = IF Total(in) = 0 /\ Len(in.keys) > 1 THEN <<"CREATE_FAIL">>
                     ELSE <<"outputs", Outputs(in)>>
    BY <1>11 DEF Bip352, BadInputKey, Recipients
  <2>2. CASE DivergesOnIntermediateZeroSum(in)
    <3>1. Bip352(in)[1] = "outputs" /\ LibraryFoldFails(in)
      BY <2>1, <2>2 DEF DivergesOnIntermediateZeroSum, LibraryFoldFails
    <3> QED
      BY <1>1, <1>8, <1>11, <2>2, <3>1
  <2>3. CASE ~DivergesOnIntermediateZeroSum(in) /\ LibraryFoldFails(in)
    <3>1. Total(in) = 0 /\ Len(in.keys) > 1
      BY <1>9, <2>3 DEF DivergesOnIntermediateZeroSum, LibraryFoldFails
    <3> QED
      BY <1>1, <1>8, <1>11, <2>1, <2>3, <3>1
  <2>4. CASE ~LibraryFoldFails(in)
    <3>1. ~(Total(in) = 0 /\ Len(in.keys) > 1)
      BY <1>9, <2>4 DEF LibraryFoldFails, Total
    <3>2. ~DivergesOnIntermediateZeroSum(in)
      BY <2>4 DEF DivergesOnIntermediateZeroSum, LibraryFoldFails
    <3> QED
      BY <1>1, <1>7, <1>8, <1>11, <2>1, <2>4, <3>1, <3>2
  <2> QED
    BY <2>2, <2>3, <2>4
<1> QED
  BY <1>10, <1>11

(***************************************************************************)
(* The inductive invariant                                                 *)
(***************************************************************************)

\* A line that is under way is the request of this call, or the answer to it:
\* in the buffer until it is flushed, in a pipe while it is waited for.  A
\* request may be left over in the pipe when the process has ended.
LockStep ==
    /\ unflushed = IF fuzzer = "flushing" THEN <<Request(input)>> ELSE <<>>
    /\ toRunner \in {<<>>, <<Request(input)>>}
    /\ fromRunner \in {<<>>, Answered(Request(input))}
    /\ toRunner # <<>> => fromRunner = <<>> /\ fuzzer \in {"reading"} \cup Ended
    /\ fromRunner # <<>> => fuzzer = "reading"

\* The runner is asked about unlabeled recipients only.
AskedUnlabeled ==
    fuzzer \in {"starting", "writing", "flushing", "reading"} => Unlabeled(input)

RunnerInv == TypeOK /\ LockStep /\ AskedUnlabeled /\ AnswersThisInput

LEMMA RunnerInvInit == RunnerInit => RunnerInv
<1> SUFFICES ASSUME RunnerInit PROVE RunnerInv
  OBVIOUS
<1>1. input \in RequestType
  BY RequestsAssumption, MaxRequestsAssumption DEF RunnerInit
<1>2. TypeOK
  <2>1. AnswerOK(answer)
    BY DEF RunnerInit, AnswerOK
  <2>2. \A i \in 1..Len(toRunner) : Len(toRunner[i]) = 5
    BY DEF RunnerInit
  <2>3. /\ fuzzer = "idle" /\ node = "none" /\ calls = 0
        /\ runnerIn \in BOOLEAN /\ runnerOut \in BOOLEAN
        /\ inWriters = {} /\ outWriters = {}
    BY DEF RunnerInit
  <2> QED
    BY <1>1, <2>1, <2>2, <2>3, MaxRequestsAssumption DEF TypeOK, AnswerOK
<1> QED
  BY <1>2 DEF RunnerInit, RunnerInv, LockStep, AskedUnlabeled, AnswersThisInput, Ended

\* The invariant says which lines are under way, and so how many.
LEMMA RunnerInvLines == RunnerInv => NeverBadRequest /\ OneLineUnderWay
<1> SUFFICES ASSUME RunnerInv PROVE NeverBadRequest /\ OneLineUnderWay
  OBVIOUS
<1> USE DEF RunnerInv, LockStep
<1>1. ASSUME NEW i \in 1..Len(fromRunner) PROVE fromRunner[i] # <<"BAD_REQUEST">>
  <2>1. fromRunner = <<HandleRequest(Request(input))>> /\ fuzzer = "reading"
    BY <1>1 DEF Answered
  <2>2. input \in RequestType /\ Unlabeled(input)
    BY <2>1 DEF TypeOK, AskedUnlabeled
  <2>3. HandleRequest(Request(input)) \in {Bip352(input), SkipLine}
    BY <2>2, HandlerAnswers
  <2>4. HandleRequest(Request(input)) # <<"BAD_REQUEST">>
    BY <2>2, <2>3, Bip352Type DEF SkipLine
  <2>5. i = 1
    BY <2>1
  <2> QED
    BY <2>1, <2>4, <2>5
<1>2. Len(unflushed) + Len(toRunner) + Len(fromRunner) <= 1
  <2> HIDE DEF RunnerInv
  <2> DEFINE q == Request(input)
             r == HandleRequest(Request(input))
  <2>1. /\ unflushed = <<>> \/ unflushed = <<q>>
        /\ toRunner = <<>> \/ toRunner = <<q>>
        /\ fromRunner = <<>> \/ fromRunner = <<r>>
        /\ unflushed # <<>> => fuzzer = "flushing"
        /\ toRunner # <<>> => fromRunner = <<>> /\ fuzzer # "flushing"
        /\ fromRunner # <<>> => fuzzer = "reading"
    BY DEF RunnerInv, Answered, Ended
  <2> HIDE DEF q, r, LockStep
  <2>2. \A one : Len(<<one>>) = 1
    OBVIOUS
  <2>3. Len(<<>>) = 0
    OBVIOUS
  <2>4. Len(unflushed) \in {0, 1} /\ (unflushed = <<>> => Len(unflushed) = 0)
    BY <2>1, <2>2, <2>3, Zenon
  <2>5. Len(toRunner) \in {0, 1} /\ (toRunner = <<>> => Len(toRunner) = 0)
    BY <2>1, <2>2, <2>3, Zenon
  <2>6. Len(fromRunner) \in {0, 1} /\ (fromRunner = <<>> => Len(fromRunner) = 0)
    BY <2>1, <2>2, <2>3, Zenon
  <2>7. \/ toRunner = <<>> /\ fromRunner = <<>>
        \/ unflushed = <<>> /\ toRunner = <<>>
        \/ unflushed = <<>> /\ fromRunner = <<>>
    BY <2>1
  <2>8. \A a, b, c \in {0, 1} :
            (b = 0 /\ c = 0) \/ (a = 0 /\ b = 0) \/ (a = 0 /\ c = 0) => a + b + c <= 1
    OBVIOUS
  <2> QED
    BY <2>4, <2>5, <2>6, <2>7, <2>8, Zenon
<1>3. fuzzer = "idle" => fromRunner = <<>> /\ toRunner = <<>>
  BY DEF Ended
<1> QED
  BY <1>1, <1>2, <1>3 DEF NeverBadRequest, OneLineUnderWay

\* Every step of the two processes keeps the types.
LEMMA TypeStep == RunnerInv /\ [RunnerNext]_vars => TypeOK'
<1> SUFFICES ASSUME RunnerInv, [RunnerNext]_vars PROVE TypeOK'
  OBVIOUS
<1>0. TypeOK /\ LockStep
  BY DEF RunnerInv
<1> USE <1>0, MaxRequestsAssumption DEF TypeOK, pipes
<1>1. CASE DeclineLabeled
  <2>1. input' \in RequestType
    BY <1>1, RequestsAssumption DEF DeclineLabeled
  <2>2. AnswerOK(NullOpt)
    BY DEF AnswerOK, NullOpt
  <2> QED
    BY <1>1, <2>1, <2>2 DEF DeclineLabeled, AnswerOK
<1>2. CASE BeginCall
  <2>1. input' \in RequestType
    BY <1>2, RequestsAssumption DEF BeginCall
  <2> QED
    BY <1>2, <2>1 DEF BeginCall
<1>3. CASE StartRunner
  BY <1>3 DEF StartRunner, WriteEndsOfStdin, WriteEndsOfStdout
<1>4. CASE StartFails
  BY <1>4 DEF StartFails, Ended
<1>5. CASE WriteRequest
  BY <1>5 DEF WriteRequest
<1>6. CASE Flush
  <2>1. unflushed = <<Request(input)>> /\ toRunner = <<>>
    BY <1>6 DEF Flush, LockStep, Ended
  <2>2. toRunner' \in {<<>>, <<Request(input)>>}
    BY <1>6, <2>1 DEF Flush
  <2>3. Len(Request(input)) = 5
    BY RequestAccepted
  <2>4. \A i \in 1..Len(toRunner') : Len(toRunner'[i]) = 5
    <3> HIDE DEF TypeOK
    <3> QED
      BY <2>2, <2>3
  <2> QED
    BY <1>6, <2>4 DEF Flush, Ended
<1>7. CASE ReadAnswer
  <2>1. AnswerOK(answer')
    <3>1. /\ fromRunner = <<HandleRequest(Request(input))>>
          /\ fuzzer = "reading"
      BY <1>7 DEF ReadAnswer, LockStep, Answered
    <3>2. input \in RequestType /\ Unlabeled(input)
      BY <3>1 DEF RunnerInv, AskedUnlabeled
    <3>3. HandleRequest(Request(input)) \in {Bip352(input), SkipLine}
      BY <3>2, HandlerAnswers
    <3>4. AnswerOK(Bip352(input)) /\ AnswerOK(NullOpt) /\ AnswerOK(answer)
      BY <3>2, Bip352Type DEF AnswerOK, NullOpt
    <3>5. answer' \in {answer, NullOpt, Bip352(input)}
      BY <1>7, <3>1, <3>3 DEF ReadAnswer, SkipLine
    <3> QED
      BY <3>4, <3>5
  <2> QED
    BY <1>7, <2>1 DEF ReadAnswer, Abort, Ended, AnswerOK
<1>8. CASE ReadEof
  BY <1>8 DEF ReadEof, Abort, Ended
<1>9. CASE FuzzerEnds
  BY <1>9 DEF FuzzerEnds, Ended
<1>10. CASE HandleLine
  <2>1. toRunner' = <<>>
    BY <1>10 DEF HandleLine, LockStep
  <2>2. \A i \in 1..Len(toRunner') : Len(toRunner'[i]) = 5
    BY <2>1
  <2>3. /\ node' \in {"running", "exited"}
        /\ inWriters' \subseteq inWriters /\ outWriters' \subseteq outWriters
    BY <1>10 DEF HandleLine, NodeCloses
  <2>4. UNCHANGED <<fuzzer, input, runnerIn, runnerOut, answer, calls>>
    BY <1>10 DEF HandleLine
  <2> QED
    BY <2>2, <2>3, <2>4
<1>11. CASE NodeSeesEof
  BY <1>11 DEF NodeSeesEof, NodeCloses
<1>12. CASE NodeDies
  BY <1>12 DEF NodeDies, NodeCloses
<1>13. CASE UNCHANGED vars
  BY <1>13 DEF vars
<1>14. CASE FdopenFails
  BY <1>14 DEF FdopenFails, Ended, WriteEndsOfStdin, WriteEndsOfStdout
<1>15. CASE FlushFails
  BY <1>15 DEF FlushFails, Abort, Ended
<1> QED
  BY <1>1, <1>2, <1>3, <1>4, <1>5, <1>6, <1>7, <1>8, <1>9, <1>10, <1>11, <1>12, <1>13, <1>14, <1>15
     DEF RunnerNext, WrapperStep, NodeStep

\* What is under way is what the state of the call says, whoever moves.
LEMMA LockStepStep == RunnerInv /\ [RunnerNext]_vars => LockStep'
<1> SUFFICES ASSUME RunnerInv, [RunnerNext]_vars PROVE LockStep'
  OBVIOUS
<1>0. LockStep
  BY DEF RunnerInv
<1> USE <1>0 DEF LockStep, pipes, Ended
<1>1. CASE DeclineLabeled
  <2>1. toRunner = <<>> /\ fromRunner = <<>> /\ unflushed = <<>>
    BY <1>1 DEF DeclineLabeled
  <2> QED
    BY <1>1, <2>1 DEF DeclineLabeled
<1>2. CASE BeginCall
  <2>1. toRunner = <<>> /\ fromRunner = <<>> /\ unflushed = <<>>
    BY <1>2 DEF BeginCall
  <2> QED
    BY <1>2, <2>1 DEF BeginCall
<1>3. CASE StartRunner
  BY <1>3 DEF StartRunner
<1>4. CASE StartFails
  BY <1>4 DEF StartFails
<1>5. CASE WriteRequest
  <2>1. unflushed = <<>> /\ toRunner = <<>> /\ fromRunner = <<>>
    BY <1>5 DEF WriteRequest
  <2>2. unflushed' = <<Request(input)>>
    BY <1>5, <2>1 DEF WriteRequest
  <2> QED
    BY <1>5, <2>1, <2>2 DEF WriteRequest
<1>6. CASE Flush
  <2>1. unflushed = <<Request(input)>> /\ toRunner = <<>> /\ fromRunner = <<>>
    BY <1>6 DEF Flush
  <2>2. toRunner \o unflushed = <<Request(input)>>
    BY <2>1
  <2> QED
    BY <1>6, <2>1, <2>2 DEF Flush
<1>7. CASE ReadAnswer
  <2>1. fromRunner = Answered(Request(input)) /\ toRunner = <<>> /\ unflushed = <<>>
    BY <1>7 DEF ReadAnswer
  <2>2. fromRunner' = <<>>
    BY <1>7, <2>1 DEF ReadAnswer, Answered
  <2>3. fuzzer' # "flushing" /\ UNCHANGED <<unflushed, toRunner, input>>
    BY <1>7 DEF ReadAnswer, Abort
  <2> QED
    BY <2>1, <2>2, <2>3
<1>8. CASE ReadEof
  BY <1>8 DEF ReadEof, Abort
<1>9. CASE FuzzerEnds
  BY <1>9 DEF FuzzerEnds
<1>10. CASE HandleLine
  <2>1. toRunner = <<Request(input)>> /\ fromRunner = <<>>
    BY <1>10 DEF HandleLine
  <2>2. toRunner' = <<>> /\ Head(toRunner) = Request(input)
    BY <1>10, <2>1 DEF HandleLine
  <2>3. <<>> \o Answered(Request(input)) = Answered(Request(input))
    BY DEF Answered
  <2>4. UNCHANGED <<fuzzer, input, unflushed>>
    BY <1>10 DEF HandleLine
  <2>5. fuzzer \in {"reading"} \cup Ended
    BY <2>1
  <2>6. fromRunner' = IF fuzzer \in Ended THEN <<>> ELSE Answered(Request(input))
    BY <1>10, <2>1, <2>2, <2>3 DEF HandleLine
  <2> QED
    BY <2>2, <2>4, <2>5, <2>6
<1>11. CASE NodeSeesEof
  BY <1>11 DEF NodeSeesEof
<1>12. CASE NodeDies
  BY <1>12 DEF NodeDies
<1>13. CASE UNCHANGED vars
  BY <1>13 DEF vars
<1>14. CASE FdopenFails
  BY <1>14 DEF FdopenFails
<1>15. CASE FlushFails
  <2>1. toRunner = <<>> /\ fromRunner = <<>>
    BY <1>15 DEF FlushFails
  <2> QED
    BY <1>15, <2>1 DEF FlushFails, Abort
<1> QED
  BY <1>1, <1>2, <1>3, <1>4, <1>5, <1>6, <1>7, <1>8, <1>9, <1>10, <1>11, <1>12, <1>13, <1>14, <1>15
     DEF RunnerNext, WrapperStep, NodeStep

\* A call that goes on was found to be about unlabeled recipients, and one that
\* returns has read the answer to its own request.
LEMMA AnswerStep == RunnerInv /\ [RunnerNext]_vars => AskedUnlabeled' /\ AnswersThisInput'
<1> SUFFICES ASSUME RunnerInv, [RunnerNext]_vars PROVE AskedUnlabeled' /\ AnswersThisInput'
  OBVIOUS
<1>0. AskedUnlabeled /\ AnswersThisInput /\ LockStep /\ TypeOK
  BY DEF RunnerInv
<1> USE <1>0 DEF AskedUnlabeled, AnswersThisInput, Ended
<1>1. CASE DeclineLabeled
  BY <1>1 DEF DeclineLabeled
<1>2. CASE BeginCall
  <2>1. Unlabeled(input')
    BY <1>2 DEF BeginCall, Unlabeled
  <2>2. fuzzer' # "idle"
    BY <1>2 DEF BeginCall
  <2> QED
    BY <2>1, <2>2
<1>3. CASE StartRunner
  BY <1>3 DEF StartRunner
<1>4. CASE StartFails
  BY <1>4 DEF StartFails
<1>5. CASE WriteRequest
  BY <1>5 DEF WriteRequest
<1>6. CASE Flush
  BY <1>6 DEF Flush
<1>7. CASE ReadAnswer
  <2>1. /\ fromRunner = <<HandleRequest(Request(input))>>
        /\ fuzzer = "reading" /\ UNCHANGED input
    BY <1>7 DEF ReadAnswer, LockStep, Answered
  <2>2. input \in RequestType /\ Unlabeled(input)
    BY <2>1 DEF TypeOK
  <2> DEFINE response == HandleRequest(Request(input))
  <2>3. /\ \/ response = Bip352(input)
           \/ response = SkipLine /\ LibraryFoldFails(input) /\ Bip352(input)[1] = "outputs"
        /\ Bip352(input) \notin {NullOpt, SkipLine, <<"BAD_REQUEST">>}
    BY <2>2, HandlerAnswers, Bip352Type
  <2> HIDE DEF response
  <2>4. response # <<"BAD_REQUEST">>
    BY <2>3 DEF SkipLine
  <2>5. fuzzer' = "idle" /\ answer' = IF response = SkipLine THEN NullOpt ELSE response
    BY <1>7, <2>1, <2>4 DEF ReadAnswer, SkipLine, response
  <2> QED
    BY <2>1, <2>3, <2>5
<1>8. CASE ReadEof
  BY <1>8 DEF ReadEof, Abort
<1>9. CASE FuzzerEnds
  BY <1>9 DEF FuzzerEnds
<1>10. CASE HandleLine
  BY <1>10 DEF HandleLine
<1>11. CASE NodeSeesEof
  BY <1>11 DEF NodeSeesEof
<1>12. CASE NodeDies
  BY <1>12 DEF NodeDies
<1>13. CASE UNCHANGED vars
  BY <1>13 DEF vars
<1>14. CASE FdopenFails
  BY <1>14 DEF FdopenFails
<1>15. CASE FlushFails
  BY <1>15 DEF FlushFails, Abort
<1> QED
  BY <1>1, <1>2, <1>3, <1>4, <1>5, <1>6, <1>7, <1>8, <1>9, <1>10, <1>11, <1>12, <1>13, <1>14, <1>15
     DEF RunnerNext, WrapperStep, NodeStep

\* The invariant holds in every state of the two processes.
LEMMA RunnerInvHolds == RunnerSpec => []RunnerInv
<1>1. RunnerInv /\ [RunnerNext]_vars => RunnerInv'
  BY TypeStep, LockStepStep, AnswerStep DEF RunnerInv
<1> QED
  BY <1>1, RunnerInvInit, PTL DEF RunnerSpec

\* A call that returns has the answer to its own request, and what it hides is
\* a labeled recipient or the divergence index.ts names.
THEOREM OwnAnswer == RunnerSpec => []AnswersThisInput
<1>1. RunnerInv => AnswersThisInput
  BY DEF RunnerInv
<1> QED
  BY <1>1, RunnerInvHolds, PTL

(***************************************************************************)
(* The safety half of CallEnds and RunnerEndsWithFuzzer: who waits waits   *)
(* for something that can come.  That it does come is fairness.            *)
(***************************************************************************)

\* A write end is held by the one process that writes there, while it lives.
PipeEnds ==
    /\ fuzzer \notin Ended => runnerOut = runnerIn /\ (runnerIn <=> node # "none")
    /\ fuzzer = "starting" => ~runnerIn
    /\ fuzzer \in {"writing", "flushing", "reading"} => runnerIn
    /\ inWriters = IF runnerIn /\ fuzzer \notin Ended THEN {"fuzzer"} ELSE {}
    /\ outWriters = IF node = "running" THEN {"node"} ELSE {}

\* The invariant of the wrapper that waits, too: it has something to wait for.
WaitInv == RunnerInv /\ PipeEnds /\ (fuzzer = "reading" => toRunner # <<>> \/ fromRunner # <<>>)

LEMMA WaitStep == WaitInv /\ [RunnerNext]_vars => WaitInv'
<1> SUFFICES ASSUME WaitInv, [RunnerNext]_vars
             PROVE  PipeEnds' /\ (fuzzer' = "reading" => toRunner' # <<>> \/ fromRunner' # <<>>)
  BY TypeStep, LockStepStep, AnswerStep DEF WaitInv, RunnerInv
<1>0. /\ fuzzer = "reading" => toRunner # <<>> \/ fromRunner # <<>>
      /\ PipeEnds /\ LockStep /\ TypeOK
  BY DEF WaitInv, RunnerInv
<1> USE <1>0 DEF PipeEnds, pipes, Ended
<1>1. CASE DeclineLabeled
  BY <1>1 DEF DeclineLabeled
<1>2. CASE BeginCall
  BY <1>2 DEF BeginCall
<1>3. CASE StartRunner
  BY <1>3 DEF StartRunner, WriteEndsOfStdin, WriteEndsOfStdout
<1>4. CASE StartFails
  BY <1>4 DEF StartFails
<1>5. CASE WriteRequest
  BY <1>5 DEF WriteRequest
<1>6. CASE Flush
  <2>1. toRunner \o unflushed = <<Request(input)>>
    <3>1. toRunner = <<>> /\ unflushed = <<Request(input)>>
      BY <1>6 DEF Flush, LockStep
    <3> QED
      BY <3>1
  <2> QED
    BY <1>6, <2>1 DEF Flush
<1>7. CASE ReadAnswer
  <2>1. /\ UNCHANGED <<runnerIn, runnerOut, node>>
        /\ \/ fuzzer' = "idle" /\ UNCHANGED <<inWriters, outWriters>>
           \/ Abort
    BY <1>7 DEF ReadAnswer
  <2> QED
    BY <1>7, <2>1 DEF ReadAnswer, Abort
<1>8. CASE ReadEof
  BY <1>8 DEF ReadEof, Abort
<1>9. CASE FuzzerEnds
  BY <1>9 DEF FuzzerEnds
<1>10. CASE HandleLine
  <2>1. fuzzer \notin Ended => fromRunner' # <<>>
    <3>1. <<>> \o Answered(Head(toRunner)) # <<>>
      BY DEF Answered
    <3>2. fromRunner = <<>>
      BY <1>10 DEF HandleLine, LockStep
    <3> QED
      BY <1>10, <3>1, <3>2 DEF HandleLine
  <2> QED
    BY <1>10, <2>1 DEF HandleLine, NodeCloses
<1>11. CASE NodeSeesEof
  BY <1>11 DEF NodeSeesEof, NodeCloses
<1>12. CASE NodeDies
  BY <1>12 DEF NodeDies, NodeCloses
<1>13. CASE UNCHANGED vars
  BY <1>13 DEF vars
<1>14. CASE FdopenFails
  BY <1>14 DEF FdopenFails, WriteEndsOfStdin, WriteEndsOfStdout
<1>15. CASE FlushFails
  BY <1>15 DEF FlushFails, Abort
<1> QED
  BY <1>1, <1>2, <1>3, <1>4, <1>5, <1>6, <1>7, <1>8, <1>9, <1>10, <1>11, <1>12, <1>13, <1>14, <1>15
     DEF RunnerNext, WrapperStep, NodeStep

\* Wrapper and runner stay in step over any number of calls, whenever the
\* runner dies: no line is malformed, at most one is under way, and nobody waits
\* for a line or an end of file that cannot come.
THEOREM StaysInStep == RunnerSpec => []RunnerInStep
<1>1. RunnerInit => WaitInv
  BY RunnerInvInit DEF RunnerInit, WaitInv, PipeEnds, Ended
<1>2. WaitInv => SomethingUnderWay
  BY DEF WaitInv, PipeEnds, SomethingUnderWay
<1>3. WaitInv => RunnerInStep
  BY <1>2, RunnerInvLines DEF WaitInv, RunnerInv, RunnerInStep
<1> QED
  BY <1>1, <1>3, WaitStep, PTL DEF RunnerSpec
==============================================================================
