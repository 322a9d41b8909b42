---------------------------- MODULE PythonBridge ----------------------------
(***************************************************************************)
(* The five modules whose library is Python (electrum, embit, pycoin,      *)
(* pyhdwallet, pybitcoinkernel).  Each has its own copy of the template    *)
(* call_python_function<Input, Return> with its own static flags; they     *)
(* share one interpreter, its error indicator and the thread that drives   *)
(* them.  Whoever is called first starts it and registers the handler that *)
(* finalizes it at exit.                                                   *)
(*                                                                         *)
(* The interpreter and the libraries are external.  An input is the traits *)
(* the wrappers tell apart.  PyTuple_SetItem into a fresh tuple of one     *)
(* cannot fail.                                                            *)
(***************************************************************************)
EXTENDS Integers, Sequences, SequencesExt, FiniteSets

CONSTANTS
    Inputs,         \* inputs of the driver: see InputType
    Imports,        \* the sets of modules whose Python side may be installed
    MaxCalls        \* bound on the calls of one process

\* nul: holds a zero byte; utf8: is valid UTF-8; shape: what an adapter skips.
InputType == [nul: BOOLEAN, utf8: BOOLEAN,
              shape: {"plain", "short_seed", "other_network", "version_2", "fragment"}]

ASSUME InputsAssumption == Inputs \subseteq InputType

ASSUME MaxCallsAssumption == MaxCalls \in Nat

NulloptPy == "nullopt"

\* An instantiation of the template, with static flags of its own.
ElectrumText == <<"electrum", "text">>
EmbitBool    == <<"embit", "bool">>
EmbitText    == <<"embit", "text">>
PycoinText   == <<"pycoin", "text">>
HdwalletText == <<"pyhdwallet", "text">>
KernelText   == <<"pybitcoinkernel", "text">>

Copies == {ElectrumText, EmbitBool, EmbitText, PycoinText, HdwalletText, KernelText}

PyModules == {c[1] : c \in Copies}

ASSUME ImportsAssumption == Imports \subseteq SUBSET PyModules

VARIABLES
    importable,     \* modules whose <name>_main can be imported
    initialized,    \* Py_IsInitialized()
    registered,     \* copies with cleanup_registered
    handlers,       \* the copies whose python_cleanup atexit will run
    gil,            \* times the thread state is held
    held,           \* references a call owns
    inputRefs,      \* the reference count of the input object
    error,          \* the error indicator: "none", "exception", "SystemExit"
    pc,             \* where the call is, or "idle", "exiting", "exited"
    call,           \* <<copy, function, input>> of the current or last call
    heard,          \* history: what reached the library
    verdict,        \* history: the library's: "none", "accepts", "rejects"
    result,         \* the Python object that was returned
    returned,       \* history: what the driver was told
    finalized,      \* history: times the interpreter was finalized
    pyCalls         \* history: calls begun, bounded by MaxCalls

interpreter == <<importable, initialized, registered, handlers, finalized>>

pyVars == <<interpreter, gil, held, inputRefs, error, pc, call, heard, verdict, result,
            returned, pyCalls>>

-----------------------------------------------------------------------------
(***************************************************************************)
(* The adapters: what *_lib.py returns for a verdict of its library        *)
(***************************************************************************)
Functions == [electrum        |-> {"bip32_master_keygen", "bip32_deserialize_extended_key"},
              pycoin          |-> {"bip32_master_keygen", "bip32_deserialize_extended_key"},
              pyhdwallet      |-> {"bip32_master_keygen"},
              pybitcoinkernel |-> {"transaction_parse", "block_parse", "block_check"}]

EmbitFunctions == [bool |-> {"miniscript_parse", "descriptor_parse"},
                   text |-> {"psbt_v0_parse", "bip32_master_keygen",
                             "bip32_deserialize_extended_key"}]

FunctionsOf(c) == IF c[1] = "embit" THEN EmbitFunctions[c[2]] ELSE Functions[c[1]]

Judged(v) == IF v = "accepts" THEN "value" ELSE "sentinel"

\* The library is not asked: data.decode() fails before.
Undecodable(f, in) == f = "bip32_deserialize_extended_key" /\ ~in.utf8

Electrum(f, in, v) ==
    IF Undecodable(f, in) THEN "sentinel"
    ELSE IF f = "bip32_deserialize_extended_key" /\ in.shape = "other_network" THEN "None"
    ELSE Judged(v)

\* Slip: the version is asked before the parse is known to have succeeded.
EmbitVersionFirst(f, in, v) ==
    IF Undecodable(f, in) THEN "sentinel"
    ELSE IF f = "psbt_v0_parse" /\ in.shape = "version_2" THEN "None"
    ELSE Judged(v)

Embit(f, in, v) ==
    IF Undecodable(f, in) THEN "sentinel"
    ELSE IF f = "psbt_v0_parse" /\ v = "accepts" /\ in.shape = "version_2" THEN "None"
    ELSE Judged(v)

EmbitMiniscript(v) == IF v = "accepts" THEN "True" ELSE "False"

\* Four parsers in turn; what one raises sends the text to the next.
Pycoin(f, in, v) == IF Undecodable(f, in) THEN "sentinel" ELSE Judged(v)

Hdwallet(in, v) == IF in.shape = "short_seed" THEN "None" ELSE Judged(v)

Kernel(v) == Judged(v)

Adapter(c, f, in, v) ==
    CASE c = EmbitBool    -> EmbitMiniscript(v)
      [] c = EmbitText    -> Embit(f, in, v)
      [] c = ElectrumText -> Electrum(f, in, v)
      [] c = PycoinText   -> Pycoin(f, in, v)
      [] c = HdwalletText -> Hdwallet(in, v)
      [] c = KernelText   -> Kernel(v)

\* Answered without the library: the fragments embit does not implement.
DescriptorSkipped(f, in) == f = "descriptor_parse" /\ in.shape = "fragment"

-----------------------------------------------------------------------------
(***************************************************************************)
(* call_python_function                                                    *)
(***************************************************************************)
PyInit ==
    /\ importable \in Imports
    /\ initialized = FALSE
    /\ registered = {} /\ handlers = <<>>
    /\ gil = 0 /\ held = {} /\ inputRefs = 0 /\ error = "none"
    /\ pc = "idle"
    /\ call = <<>> /\ heard = <<>> /\ verdict = "none" /\ result = "none"
    /\ returned = "none"
    /\ finalized = 0
    /\ pyCalls = 0

\* The first call of all registers python_cleanup.
Registers(c) == ~initialized /\ c \notin registered

\* The prologue, up to PyGILState_Ensure.  Py_Initialize leaves the thread
\* state with the thread that called it.
BeginPyCall(c, f, in) ==
    /\ pc = "idle"
    /\ pyCalls < MaxCalls
    /\ f \in FunctionsOf(c)
    /\ ~DescriptorSkipped(f, in)
    /\ initialized' = TRUE
    /\ registered' = IF Registers(c) THEN registered \cup {c} ELSE registered
    /\ handlers' = IF Registers(c) THEN Append(handlers, c) ELSE handlers
    /\ gil' = (IF initialized THEN gil ELSE 1) + 1
    /\ call' = <<c, f, in>>
    /\ heard' = <<>> /\ verdict' = "none" /\ result' = "none"
    /\ pc' = "import"
    /\ pyCalls' = pyCalls + 1
    /\ UNCHANGED <<inputRefs, importable, held, error, returned, finalized>>

\* Embit::descriptor_parse returns before the template.
SkipDescriptor(in) ==
    /\ pc = "idle"
    /\ pyCalls < MaxCalls
    /\ DescriptorSkipped("descriptor_parse", in)
    /\ call' = <<EmbitBool, "descriptor_parse", in>>
    /\ heard' = <<>> /\ verdict' = "none" /\ result' = "none"
    /\ returned' = NulloptPy
    /\ pyCalls' = pyCalls + 1
    /\ UNCHANGED <<inputRefs, interpreter, gil, held, error, pc>>

\* The reference a stage obtains, and the stage after it.
Obtains == [import  |-> "main_module", getattr |-> "parse_func",
            create  |-> "input_obj",   tuple   |-> "args"]

After == [import |-> "getattr", getattr |-> "create", create |-> "tuple",
          tuple |-> "setitem"]

IsText == call[1][2] = "bool"

\* PyUnicode_FromString refuses what is not UTF-8; PyBytes takes everything.
StageCanSucceed(s) ==
    /\ s = "import" => call[1][1] \in importable
    /\ s = "create" /\ IsText => call[3].utf8

Obtain(s) ==
    /\ pc = s
    /\ StageCanSucceed(s)
    /\ held' = held \cup {Obtains[s]}
    /\ inputRefs' = IF s = "create" THEN 1 ELSE inputRefs
    /\ pc' = After[s]
    /\ UNCHANGED <<interpreter, gil, error, call, heard, verdict, result, returned, pyCalls>>

\* A stage returns NULL with an exception set.
StageFails(s) ==
    /\ pc = s
    /\ error' = "exception"
    /\ pc' = "cleanup"
    /\ UNCHANGED <<inputRefs, interpreter, gil, held, call, heard, verdict, result, returned, pyCalls>>

\* The attribute is there and cannot be called: no exception is set.
NotCallable ==
    /\ pc = "getattr"
    /\ held' = held \cup {"parse_func"}
    /\ pc' = "cleanup"
    /\ UNCHANGED <<inputRefs, interpreter, gil, error, call, heard, verdict, result, returned, pyCalls>>

\* PyTuple_SetItem takes the reference over.
GivesInput(refs) == (refs \ {"args", "input_obj"}) \cup {"args with input"}

SetItem ==
    /\ pc = "setitem"
    /\ held' = GivesInput(held)
    /\ pc' = "call"
    /\ UNCHANGED <<inputRefs, interpreter, gil, error, call, heard, verdict, result, returned, pyCalls>>

\* What the library is given: a C string ends at its first zero byte.
Given == IF IsText /\ call[3].nul THEN "prefix" ELSE "input"

CallObject ==
    /\ pc = "call"
    /\ \E v \in {"accepts", "rejects"} :
        /\ verdict' = v
        /\ result' = Adapter(call[1], call[2], call[3], v)
    /\ heard' = <<Given>>
    /\ held' = held \cup {"result"}
    /\ pc' = "convert"
    /\ UNCHANGED <<inputRefs, interpreter, gil, error, call, returned, pyCalls>>

\* What the adapters do not catch: not an Exception, SystemExit among them.
CallRaises ==
    /\ pc = "call"
    /\ error' \in {"exception", "SystemExit"}
    /\ heard' = <<Given>>
    /\ pc' = "cleanup"
    /\ UNCHANGED <<inputRefs, interpreter, gil, held, call, verdict, result, returned, pyCalls>>

\* convert_to_string gives nullptr, and convert_to_bool false, for all else.
Convert ==
    /\ pc = "convert"
    /\ pc' = "cleanup"
    /\ UNCHANGED <<inputRefs, interpreter, gil, held, error, call, heard, verdict, result, returned, pyCalls>>

\* Slip: the new reference the call returns is not released.
ReleasedButResult(refs) == refs \cap {"result"}

\* What the XDECREFs leave.
ReleasedAll(refs) == {}

\* A tuple that goes releases what it holds.
InputReleases(refs) == Cardinality(refs \cap {"input_obj", "args with input"})

\* What the wrapper makes of return_value, which began as {}.
Told ==
    IF IsText THEN (IF result = "True" THEN "true" ELSE "false")
    ELSE IF result \in {"value", "sentinel"} THEN result ELSE NulloptPy

\* cleanup: every reference is released; then the error is printed, which
\* clears it, and the GIL is released.
Cleanup ==
    /\ pc = "cleanup"
    /\ error # "SystemExit"
    /\ held' = ReleasedAll(held)
    /\ inputRefs' = inputRefs - InputReleases(held)
    /\ error' = "none"
    /\ gil' = gil - 1
    /\ returned' = Told
    /\ pc' = "idle"
    /\ UNCHANGED <<interpreter, call, heard, verdict, result, pyCalls>>

\* PyErr_Print meets SystemExit: it finalizes the interpreter and exits.
PrintExits ==
    /\ pc = "cleanup"
    /\ error = "SystemExit"
    /\ held' = ReleasedAll(held)
    /\ inputRefs' = inputRefs - InputReleases(held)
    /\ initialized' = FALSE
    /\ finalized' = finalized + 1
    /\ pc' = "exiting"
    /\ UNCHANGED <<importable, registered, handlers, gil, error, call, heard,
                   verdict, result, returned, pyCalls>>

\* The campaign ends between two inputs.
FuzzerExits ==
    /\ pc = "idle"
    /\ pc' = "exiting"
    /\ UNCHANGED <<inputRefs, interpreter, gil, held, error, call, heard, verdict, result,
                   returned, pyCalls>>

python_cleanup == initialized

\* exit() runs the handlers, the last one registered first.
RunHandler ==
    /\ pc = "exiting"
    /\ handlers # <<>>
    /\ handlers' = Front(handlers)
    /\ initialized' = FALSE
    /\ finalized' = IF python_cleanup THEN finalized + 1 ELSE finalized
    /\ UNCHANGED <<inputRefs, importable, registered, gil, held, error, pc, call, heard,
                   verdict, result, returned, pyCalls>>

HandlersDone ==
    /\ pc = "exiting"
    /\ handlers = <<>>
    /\ pc' = "exited"
    /\ UNCHANGED <<inputRefs, interpreter, gil, held, error, call, heard, verdict, result,
                   returned, pyCalls>>

\* call_python_function in the copy c, from its first line to its last.
CallPython(c) ==
    \/ \E f \in FunctionsOf(c), in \in Inputs : BeginPyCall(c, f, in)
    \/ /\ call # <<>>
       /\ call[1] = c
       /\ \/ \E s \in DOMAIN Obtains : Obtain(s) \/ StageFails(s)
          \/ NotCallable \/ SetItem \/ CallObject \/ CallRaises \/ Convert
          \/ Cleanup \/ PrintExits

\* The five modules: which copies each has, and what it answers without one.
ElectrumModule == CallPython(ElectrumText)

EmbitModule ==
    \/ \E in \in Inputs : SkipDescriptor(in)
    \/ CallPython(EmbitBool)
    \/ CallPython(EmbitText)

PycoinModule == CallPython(PycoinText)

HdwalletModule == CallPython(HdwalletText)

KernelModule == CallPython(KernelText)

PyNext ==
    \/ ElectrumModule \/ EmbitModule \/ PycoinModule \/ HdwalletModule \/ KernelModule
    \/ FuzzerExits \/ RunHandler \/ HandlersDone

-----------------------------------------------------------------------------
(***************************************************************************)
(* Properties                                                              *)
(***************************************************************************)
PyTypeOK ==
    /\ importable \subseteq PyModules
    /\ initialized \in BOOLEAN
    /\ registered \subseteq Copies
    /\ gil \in 0..2
    /\ held \subseteq {Obtains[s] : s \in DOMAIN Obtains} \cup {"args with input", "result"}
    /\ inputRefs \in 0..1
    /\ error \in {"none", "exception", "SystemExit"}
    /\ verdict \in {"none", "accepts", "rejects"}
    /\ pyCalls \in 0..MaxCalls

\* A text the driver compares was made by the library from this very input:
\* "value" where it accepted, the sentinel where it rejected or the bytes are
\* no text at all.  nullopt, which the driver does not compare, is never the
\* answer of a library that judged an input its adapter does not skip.
TextIsLibrarys ==
    pc = "idle" /\ call # <<>> /\ call[1][2] = "text" =>
        /\ returned = "value" => heard = <<"input">> /\ verdict = "accepts"
        /\ returned = "sentinel" =>
               \/ heard = <<"input">> /\ verdict = "rejects"
               \/ Undecodable(call[2], call[3])
        /\ returned = NulloptPy /\ verdict = "rejects" =>
               call[3].shape \in {"short_seed", "other_network"}

\* A verdict of embit on a text comes from embit and is about the whole text,
\* but for a text with a zero byte, of which embit sees a prefix.  false is
\* also the answer of a Python that failed.
BoolIsLibrarys ==
    pc = "idle" /\ call # <<>> /\ call[1][2] = "bool" =>
        /\ returned = "true" => verdict = "accepts" /\ (heard = <<"input">> \/ call[3].nul)
        /\ returned = "false" => verdict # "accepts"

\* No call leaves a reference, an exception or the GIL behind for the next,
\* whichever stage it failed at and whichever module's it is.
CleanBetweenCalls ==
    pc = "idle" =>
        /\ held = {}
        /\ inputRefs = 0
        /\ error = "none"
        /\ gil = IF initialized THEN 1 ELSE 0

\* Five modules share the interpreter, and it is finalized exactly once by
\* the time the process has exited, also when a library raised SystemExit.
FinalizedOnce ==
    /\ finalized <= 1
    /\ pc = "exited" => ~initialized /\ (finalized = 0 <=> registered = {})

\* The interpreter is as tidy after a call, and after the last one, as before
\* the first.
InterpreterTidy == PyTypeOK /\ CleanBetweenCalls /\ FinalizedOnce

\* A text and a true of the five Python modules are their library's about this
\* input, or what it sees of it; the sentinel, false and nullopt have no cause
\* but those named above, which are not all the library's.
VerdictsAreLibrarys == TextIsLibrarys /\ BoolIsLibrarys
=============================================================================
