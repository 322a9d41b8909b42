---------------------------- MODULE ScriptBridges ----------------------------
(***************************************************************************)
(* The two embedded interpreters in one process: embit and                 *)
(* bitcoinerlabminiscript both answer miniscript_parse, which the driver   *)
(* asks one after the other, on one thread.  std::abort of the one ends    *)
(* both without the handlers of exit().                                    *)
(***************************************************************************)
EXTENDS PythonBridge, QuickJsBridge

Init == PyInit /\ JsInit

\* The loop over the modules: a call returns before the next begins.
Next ==
    \/ jsPc = "idle" /\ PyNext /\ UNCHANGED jsVars
    \/ pc = "idle" /\ JsNext /\ UNCHANGED pyVars

Spec == Init /\ [][Next]_<<pyVars, jsVars>>
=============================================================================
