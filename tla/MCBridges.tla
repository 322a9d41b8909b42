------------------------------ MODULE MCBridges ------------------------------
(***************************************************************************)
(* The bridges to a runtime inside the process on small instances: those   *)
(* that share the Java virtual machine, and those to Python and QuickJS.   *)
(* They share nothing, not even a property: a behaviour has modules of     *)
(* one kind only, and the runtimes of the other are never started.         *)
(*                                                                         *)
(* JvmBridge is finite but for the number of inputs.  Of the scripts there *)
(* is one input of each kind the adapters tell apart, and a Python side    *)
(* with and without embit.                                                 *)
(***************************************************************************)
EXTENDS JvmBridge, ScriptBridges

VARIABLE runtime    \* "jvm" or "script": what the modules of this build need

Plain == [nul |-> FALSE, utf8 |-> TRUE, shape |-> "plain"]

MCInputs == {[Plain EXCEPT !.shape = s] :
                 s \in {"plain", "short_seed", "other_network", "version_2", "fragment"}}
            \cup {[Plain EXCEPT !.nul = TRUE], [Plain EXCEPT !.utf8 = FALSE]}

MCImports == {PyModules, PyModules \ {"embit"}}

-----------------------------------------------------------------------------
NoJvm    == JvmInit /\ enabled = {} /\ built = {} /\ target = "psbt_v0_parse"
NoScript == Init /\ importable = PyModules

BridgesInit ==
    \/ runtime = "jvm" /\ JvmInit /\ NoScript
    \/ runtime = "script" /\ Init /\ NoJvm

BridgesNext ==
    \/ runtime = "jvm" /\ JvmNext /\ UNCHANGED <<runtime, pyVars, jsVars>>
    \/ runtime = "script" /\ Next /\ UNCHANGED <<runtime, jvmVars>>

BridgesSpec == BridgesInit /\ [][BridgesNext]_<<runtime, jvmVars, pyVars, jsVars>>
=============================================================================
