----------------------------- MODULE JvmBridge -----------------------------
(***************************************************************************)
(* The four modules that reach their library through one Java virtual      *)
(* machine (eclair, lightningkmp, bitcoinj, bitcoins) and the loader they  *)
(* share (helpers/jvmloader.cpp).  The loader creates the JVM once, at the *)
(* first call of any bridge, with a class path fixed then; each bridge     *)
(* looks its wrapper class up lazily; all of them run on the fuzzer's one  *)
(* thread, so an exception one call leaves pending is met by the next.     *)
(*                                                                         *)
(* The JVM itself is external.  A JNI call made with an exception pending  *)
(* is undefined behaviour: it may work, or return null.                    *)
(***************************************************************************)
EXTENDS Integers, Sequences

CONSTANT MaxRuns    \* bound on the inputs of one process

ASSUME MaxRunsAssumption == MaxRuns \in Nat

Bridges == {"BitcoinJ", "BitcoinS", "Eclair", "LightningKmp"}

Nobody == "(nobody)"

\* lib_dirs: the order in which the jar directories join java.class.path.
ClassPath == <<"LightningKmp", "Eclair", "BitcoinJ", "BitcoinS">>

\* The class each init_jvm looks up.  Two bridges ask for the same name.
ClassOf == [BitcoinJ     |-> "wrapper/Wrapper",
            BitcoinS     |-> "BitcoinSWrapper",
            Eclair       |-> "EclairWrapper",
            LightningKmp |-> "wrapper/Wrapper"]

\* The bridges that implement a target, in the order of the module map.
Callers ==
    [deserialize_invoice            |-> <<"Eclair", "LightningKmp">>,
     deserialize_offer              |-> <<"Eclair", "LightningKmp">>,
     bip32_master_keygen            |-> <<"BitcoinJ", "BitcoinS">>,
     bip32_deserialize_extended_key |-> <<"BitcoinJ", "BitcoinS">>,
     psbt_v0_parse                  |-> <<"BitcoinS">>]

VARIABLES
    target,     \* g_target
    enabled,    \* bridges compiled and enabled in the registry
    built,      \* bridges whose lib directory holds a jar with a wrapper that loads
    jvm,        \* the loader's: "uncreated", "running", "failed"
    ready,      \* bridges with jvm_initialized (init_ok)
    pending,    \* whose exception is pending in the JNIEnv
    pos,        \* position in the callers of this input
    reply,      \* history: bridge -> what it told the driver
    disturbed,  \* history: bridges called on this input amid an exception
    status,     \* "up", "aborted" (std::abort), "exited" (by the JVM)
    runs        \* history: inputs begun, bounded by MaxRuns

jvmVars == <<target, enabled, built, jvm, ready, pending, pos, reply,
          disturbed, status, runs>>

setup == <<target, enabled, built>>

\* "library": a string the library produced.  "bridge": the empty string that
\* stands for no answer of the library's.
Replies == {"unasked", "library", "nullopt", "bridge"}

JvmTypeOK ==
    /\ target \in DOMAIN Callers
    /\ enabled \subseteq Bridges
    /\ built \subseteq Bridges
    /\ jvm \in {"uncreated", "running", "failed"}
    /\ ready \subseteq enabled
    /\ pending \in Bridges \cup {Nobody}
    /\ pos \in 1..(Len(Callers[target]) + 1)
    /\ reply \in [Bridges -> Replies]
    /\ disturbed \subseteq enabled
    /\ status \in {"up", "aborted", "exited"}
    /\ runs \in 0..MaxRuns

Unasked == [m \in Bridges |-> "unasked"]

JvmInit ==
    /\ target \in DOMAIN Callers
    /\ enabled \in SUBSET Bridges
    /\ built \in SUBSET Bridges
    /\ jvm = "uncreated"
    /\ ready = {}
    /\ pending = Nobody
    /\ pos = Len(Callers[target]) + 1
    /\ reply = Unasked
    /\ disturbed = {}
    /\ status = "up"
    /\ runs = 0

(***************************************************************************)
(* The loader and the class lookup                                         *)
(***************************************************************************)

\* get_jvm: the function-local static is built once, and may hold nullptr.
JvmAfterGet == IF jvm = "uncreated" THEN {"running", "failed"} ELSE {jvm}

\* Jars of m are searched before those of n.
SearchedBefore(m, n) ==
    \E i, j \in 1..Len(ClassPath) : i < j /\ ClassPath[i] = m /\ ClassPath[j] = n

\* Slip: init_jvm is done once FindClass has found a class of that name.
ResolvesByName(m) == \E n \in enabled \cap built : ClassOf[n] = ClassOf[m]

\* FindClass and GetStaticMethodID lead m to its own wrapper.
Resolves(m) ==
    /\ m \in enabled \cap built
    /\ \A n \in enabled \cap built :
           SearchedBefore(n, m) => ClassOf[n] # ClassOf[m]

(***************************************************************************)
(* One input: the driver calls the bridges that are loaded, one by one     *)
(***************************************************************************)
BeginRun ==
    /\ status = "up"
    /\ pos > Len(Callers[target])
    /\ runs < MaxRuns
    /\ pos' = 1
    /\ reply' = Unasked
    /\ disturbed' = {}
    /\ runs' = runs + 1
    /\ UNCHANGED <<setup, jvm, ready, pending, status>>

Calls(m) ==
    /\ status = "up"
    /\ pos <= Len(Callers[target])
    /\ m = Callers[target][pos]

\* The module is not in the map.
NotLoaded(m) ==
    /\ Calls(m)
    /\ m \notin enabled
    /\ pos' = pos + 1
    /\ UNCHANGED <<setup, jvm, ready, pending, reply, disturbed, status, runs>>

\* psbt_v0_parse of bitcoins turns the empty string into nullopt.
Reported(answer) ==
    IF target = "psbt_v0_parse" /\ answer = "bridge" THEN "nullopt" ELSE answer

Disturb(m) ==
    disturbed' = IF pending # Nobody THEN disturbed \cup {m} ELSE disturbed

\* Slip: every bridge creates a JVM of its own, and only one may exist.
InitFailsForSecond(m) ==
    /\ m \notin ready
    /\ jvm' \in JvmAfterGet
    /\ jvm' = "running" => ~Resolves(m) \/ pending # Nobody \/ ready # {}
    /\ pending' = IF jvm' = "running" THEN Nobody ELSE pending

\* init_jvm: no JVM, or the lookup fails and its exception is cleared, with
\* whatever was pending before.
InitFails(m) ==
    /\ m \notin ready
    /\ jvm' \in JvmAfterGet
    /\ jvm' = "running" => ~Resolves(m) \/ pending # Nobody
    /\ pending' = IF jvm' = "running" THEN Nobody ELSE pending

\* eclair, lightningkmp, bitcoinj: the empty string, and the next call tries
\* init_jvm again.
AnswerForNoBridge(m) ==
    /\ Calls(m)
    /\ m \in enabled \ {"BitcoinS"}
    /\ InitFails(m)
    /\ reply' = [reply EXCEPT ![m] = Reported("bridge")]
    /\ Disturb(m)
    /\ pos' = pos + 1
    /\ UNCHANGED <<setup, ready, status, runs>>

\* bitcoins: std::abort.
AbortForNoBridge(m) ==
    /\ Calls(m)
    /\ m \in enabled \cap {"BitcoinS"}
    /\ InitFails(m)
    /\ status' = "aborted"
    /\ Disturb(m)
    /\ UNCHANGED <<setup, ready, reply, pos, runs>>

\* init_jvm finds the wrapper and its methods, or has done so before.
InitSucceeds(m) ==
    /\ \/ m \in ready /\ UNCHANGED jvm
       \/ /\ m \notin ready
          /\ jvm' \in JvmAfterGet
          /\ jvm' = "running"
          /\ Resolves(m)
    /\ ready' = ready \cup {m}

\* The strings that mean "skip": each entry point but eclair's for offers.
Skips(m) == ~(m = "Eclair" /\ target = "deserialize_offer")

\* The library answers, or the string that asks for a skip.
LibraryAnswers(m) ==
    /\ Calls(m)
    /\ m \in enabled
    /\ m = "BitcoinS" => pending = Nobody
    /\ InitSucceeds(m)
    /\ \E answer \in {"library"} \cup (IF Skips(m) THEN {"nullopt"} ELSE {}) :
           reply' = [reply EXCEPT ![m] = answer]
    /\ Disturb(m)
    /\ pos' = pos + 1
    /\ UNCHANGED <<setup, pending, status, runs>>

\* Slip: bitcoins returns on the null result before it asks ExceptionCheck.
LibraryThrowsUnchecked(m) ==
    /\ Calls(m)
    /\ m \in enabled
    /\ InitSucceeds(m)
    /\ pending' = m
    /\ reply' = [reply EXCEPT ![m] = Reported("bridge")]
    /\ disturbed' = disturbed \cup {m}
    /\ pos' = pos + 1
    /\ UNCHANGED <<setup, status, runs>>

\* A throwable the wrapper does not catch: the call returns null.  Only
\* bitcoins asks ExceptionCheck after the call, and clears what it finds.
LibraryThrows(m) ==
    /\ Calls(m)
    /\ m \in enabled
    /\ InitSucceeds(m)
    /\ pending' = IF m = "BitcoinS" THEN Nobody ELSE m
    /\ reply' = [reply EXCEPT ![m] = Reported("bridge")]
    /\ disturbed' = disturbed \cup {m}
    /\ pos' = pos + 1
    /\ UNCHANGED <<setup, status, runs>>

\* bitcoins is called amid an exception and its call returns: ExceptionCheck
\* finds the exception of another bridge, and the answer is lost.
AnswerLostToException(m) ==
    /\ Calls(m)
    /\ m \in enabled \cap {"BitcoinS"}
    /\ pending # Nobody
    /\ InitSucceeds(m)
    /\ pending' = Nobody
    /\ reply' = [reply EXCEPT ![m] = Reported("bridge")]
    /\ Disturb(m)
    /\ pos' = pos + 1
    /\ UNCHANGED <<setup, status, runs>>

\* The argument (NewStringUTF, NewByteArray) or the result is null amid an
\* exception: the empty string, and the exception stays.
CallRefused(m) ==
    /\ Calls(m)
    /\ m \in enabled
    /\ pending # Nobody
    /\ InitSucceeds(m)
    /\ reply' = [reply EXCEPT ![m] = Reported("bridge")]
    /\ Disturb(m)
    /\ pos' = pos + 1
    /\ UNCHANGED <<setup, pending, status, runs>>

\* -XX:+ExitOnOutOfMemoryError
OutOfMemory(m) ==
    /\ Calls(m)
    /\ m \in enabled
    /\ InitSucceeds(m)
    /\ status' = "exited"
    /\ UNCHANGED <<setup, pending, pos, reply, disturbed, runs>>

JvmNext ==
    \/ BeginRun
    \/ \E m \in Bridges :
        \/ NotLoaded(m)
        \/ AnswerForNoBridge(m)
        \/ AbortForNoBridge(m)
        \/ LibraryAnswers(m)
        \/ LibraryThrows(m)
        \/ AnswerLostToException(m)
        \/ CallRefused(m)
        \/ OutOfMemory(m)

JvmSpec == JvmInit /\ [][JvmNext]_jvmVars

-----------------------------------------------------------------------------
(***************************************************************************)
(* Properties                                                              *)
(***************************************************************************)

\* A bridge that is ready calls its own wrapper.  lightningkmp and bitcoinj
\* both look for wrapper/Wrapper: with both jars on the class path the second
\* never becomes ready, however often it is called.
ReadyIsOwnClass ==
    \A m \in ready :
        /\ jvm = "running"
        /\ m \in built
        /\ m = "BitcoinJ" => "LightningKmp" \notin enabled \cap built

\* The library was not heard on this input.
Unheard(m) == reply[m] = "bridge" \/ (m = "BitcoinS" /\ status = "aborted")

\* The empty string a bridge answers for a library it did not hear, and the
\* abort of bitcoins, have a cause outside the bridge on this very input: no
\* JVM, no class of its own, or an exception.  A failed lookup of an earlier
\* input is not remembered.
SilenceHasReason ==
    \A m \in Bridges :
        Unheard(m) => jvm = "failed" \/ ~Resolves(m) \/ m \in disturbed

\* An exception left pending was thrown by the library of a bridge of this
\* target that had found its class; it is never a failed lookup's, and never
\* one of bitcoins.
ExceptionHasThrower ==
    pending # Nobody =>
        /\ pending \in ready \ {"BitcoinS"}
        /\ \E i \in 1..Len(Callers[target]) : Callers[target][i] = pending
=============================================================================
