---------------------------- MODULE QuickJsBridge ----------------------------
(***************************************************************************)
(* modules/bitcoinerlabminiscript: a JavaScript library in an embedded     *)
(* QuickJS engine.  init_js sets the engine up in three stages at the      *)
(* first call; a failure of any ends the process, so that no later call    *)
(* meets an engine set up in part.  The engine is external: it may refuse  *)
(* each stage.                                                             *)
(***************************************************************************)
EXTENDS Integers

CONSTANT MaxJsCalls     \* bound on the calls of one process

VARIABLES
    js_runtime, js_context,     \* # nullptr
    js_bundle_loaded,
    method,         \* what JS_GetPropertyStr found: "undefined", "function"
    jsException,    \* the context's pending exception
    values,         \* JSValues owned by the call
    jsPc,           \* "idle", "init", "calling", "freeing", "aborted"
    jsVerdict,      \* history: the library's
    jsAnswer,       \* what the driver is told
    jsCalls         \* history: calls begun, bounded by MaxJsCalls

engine == <<js_runtime, js_context, js_bundle_loaded, method>>

jsVars == <<engine, jsException, values, jsPc, jsVerdict, jsAnswer, jsCalls>>

JsInit ==
    /\ js_runtime = FALSE /\ js_context = FALSE /\ js_bundle_loaded = FALSE
    /\ method = "undefined"
    /\ jsException = "none"
    /\ values = {}
    /\ jsPc = "idle"
    /\ jsVerdict = "none" /\ jsAnswer = "none"
    /\ jsCalls = 0

BeginJsCall ==
    /\ jsPc = "idle"
    /\ jsCalls < MaxJsCalls
    /\ jsPc' = "init"
    /\ jsVerdict' = "none"
    /\ jsCalls' = jsCalls + 1
    /\ UNCHANGED <<engine, jsException, values, jsAnswer>>

Ready == js_runtime /\ js_context /\ js_bundle_loaded

NewRuntime ==
    /\ jsPc = "init" /\ ~Ready /\ ~js_runtime
    /\ js_runtime' = TRUE
    /\ UNCHANGED <<js_context, js_bundle_loaded, method, jsException, values,
                   jsPc, jsVerdict, jsAnswer, jsCalls>>

NewContext ==
    /\ jsPc = "init" /\ ~Ready /\ js_runtime /\ ~js_context
    /\ js_context' = TRUE
    /\ UNCHANGED <<js_runtime, js_bundle_loaded, method, jsException, values,
                   jsPc, jsVerdict, jsAnswer, jsCalls>>

\* The bundle is read and evaluated, and the method looked up once.  A bundle
\* that does not define it gives undefined, which nobody asks about.
LoadBundle ==
    /\ jsPc = "init" /\ ~Ready /\ js_runtime /\ js_context
    /\ js_bundle_loaded' = TRUE
    /\ method' \in {"undefined", "function"}
    /\ UNCHANGED <<js_runtime, js_context, jsException, values, jsPc,
                   jsVerdict, jsAnswer, jsCalls>>

\* A stage is refused: init_js returns false, having freed the runtime when it
\* was the context, and the caller aborts.
InitJsFails ==
    /\ jsPc = "init" /\ ~Ready
    /\ js_runtime' = (js_runtime /\ js_context)
    /\ jsException' = IF js_context THEN "error" ELSE "none"
    /\ jsPc' = "aborted"
    /\ UNCHANGED <<js_context, js_bundle_loaded, method, values, jsVerdict,
                   jsAnswer, jsCalls>>

NewBuffer ==
    /\ jsPc = "init" /\ Ready
    /\ values' = {"input_buf"}
    /\ jsPc' = "calling"
    /\ UNCHANGED <<engine, jsException, jsVerdict, jsAnswer, jsCalls>>

JS_ToBool(v) == IF v = "accepts" THEN "true" ELSE "false"

\* The library returns its verdict.
MethodReturns ==
    /\ jsPc = "calling"
    /\ method = "function"
    /\ \E v \in {"accepts", "rejects"} :
        /\ jsVerdict' = v
        /\ jsAnswer' = JS_ToBool(v)
    /\ values' = values \cup {"result_val"}
    /\ jsPc' = "freeing"
    /\ UNCHANGED <<engine, jsException, jsCalls>>

\* It throws, or overflows the stack, or was never there.
MethodThrows ==
    /\ jsPc = "calling"
    /\ jsException' \in {"error"} \cup (IF method = "function" THEN {"stack overflow"} ELSE {})
    /\ jsPc' = "exception"
    /\ UNCHANGED <<engine, values, jsVerdict, jsAnswer, jsCalls>>

\* Slip: JS_GetException is not called for an exception that is no object.
ExceptionLeft == jsException

\* JS_GetException takes the exception out of the context.
ExceptionTaken == "none"

is_stack_overflow_exception ==
    /\ jsPc = "exception"
    /\ jsAnswer' = IF jsException = "stack overflow" THEN "nullopt" ELSE "false"
    /\ jsException' = ExceptionTaken
    /\ jsPc' = "freeing"
    /\ UNCHANGED <<engine, values, jsVerdict, jsCalls>>

FreeValues ==
    /\ jsPc = "freeing"
    /\ values' = {}
    /\ jsPc' = "idle"
    /\ UNCHANGED <<engine, jsException, jsVerdict, jsAnswer, jsCalls>>

JsNext ==
    \/ BeginJsCall \/ NewRuntime \/ NewContext \/ LoadBundle \/ InitJsFails
    \/ NewBuffer \/ MethodReturns \/ MethodThrows \/ is_stack_overflow_exception
    \/ FreeValues

-----------------------------------------------------------------------------
(***************************************************************************)
(* Properties                                                              *)
(***************************************************************************)
\* The method is called only in an engine whose three stages all succeeded,
\* and between two calls the engine holds no value and no exception of one:
\* what a call throws is never met by the next.
EngineWhole ==
    /\ jsPc \in {"calling", "exception", "freeing"} => js_runtime /\ js_context /\ js_bundle_loaded
    /\ js_context => js_runtime
    /\ jsPc = "idle" => values = {} /\ jsException = "none"

\* true is the library's word; nullopt is only a stack overflow's, never a
\* verdict.
JsAnswerIsLibrarys ==
    jsPc = "idle" =>
        /\ jsAnswer = "true" => jsVerdict = "accepts"
        /\ jsAnswer = "nullopt" => jsVerdict = "none"

\* The JavaScript engine is whole when it is used and clean after it, and true
\* and nullopt mean what the library said.
EngineHolds == EngineWhole /\ JsAnswerIsLibrarys
=============================================================================
