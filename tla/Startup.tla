------------------------------ MODULE Startup ------------------------------
(***************************************************************************)
(* LLVMFuzzerInitialize (main.cpp): the registry reads MODULES, the target *)
(* is read from FUZZ, and the enabled modules are constructed in the order *)
(* of module_defs.h and put into the driver's map; then the log is printed *)
(* and inputs may come.                                                    *)
(*                                                                         *)
(* A text is a sequence of symbols: a comma, a blank, or a word.  A        *)
(* registry name is a single word; two words with nothing between them are *)
(* a longer name that no module has.                                       *)
(***************************************************************************)
EXTENDS Integers, Sequences, FiniteSets

CONSTANTS
    Comma, Space,   \* ',' and either of ' ' and '\t'
    Words,          \* registry names a user may write
    Defs,           \* MODULE_ENTRY lines whose flag is defined, in file order
    ModuleTexts,    \* values of MODULES; the empty sequence is also "unset"
    Targets         \* values of FUZZ

Symbols == {Comma, Space} \cup Words

Compiled == {Defs[i] : i \in 1..Len(Defs)}

ASSUME SymbolsAssumption == Comma # Space /\ Comma \notin Words /\ Space \notin Words

ASSUME DefsAssumption ==
    /\ Defs \in Seq(Words)
    /\ \A i, j \in 1..Len(Defs) : Defs[i] = Defs[j] => i = j

ASSUME TextsAssumption == ModuleTexts \subseteq Seq(Symbols)

NoTarget == "(unset)"   \* FUZZ is unset or empty

VARIABLES
    env,        \* the value of MODULES
    fuzz,       \* the value of FUZZ
    phase,      \* the next step of LLVMFuzzerInitialize, or how it ended
    start,      \* parseModuleList: where the next token starts
    requested,  \* parseModuleList: result
    checked,    \* initialize: requested names found among the compiled ones
    allEnabled, \* all_enabled_
    enabled,    \* enabled_
    next,       \* position in Defs
    modules,    \* the driver's map, as the set of its entries
    log         \* loaded_modules of the logger, as printed at the end

startupVars == <<env, fuzz, phase, start, requested, checked, allEnabled,
                 enabled, next, modules, log>>

StartupTypeOK ==
    /\ env \in ModuleTexts
    /\ fuzz \in Targets \cup {NoTarget}
    /\ phase \in {"parse", "validate", "target", "load", "run", "abort", "exit"}
    /\ start \in 1..(Len(env) + 1)
    /\ requested \in Seq(Seq(Symbols))
    /\ checked \in 0..Len(requested)
    /\ allEnabled \in BOOLEAN
    /\ enabled \subseteq Seq(Symbols)
    /\ next \in 1..(Len(Defs) + 1)
    /\ modules \subseteq Compiled
    /\ log \in Seq(Compiled)

StartupInit ==
    /\ env \in ModuleTexts
    /\ fuzz \in Targets \cup {NoTarget}
    /\ phase = IF env = <<>> THEN "validate" ELSE "parse"
    /\ start = 1
    /\ requested = <<>>
    /\ checked = 0
    /\ allEnabled = TRUE
    /\ enabled = {}
    /\ next = 1
    /\ modules = {}
    /\ log = <<>>

(***************************************************************************)
(* parseModuleList                                                         *)
(***************************************************************************)

\* Slip: only the blanks before a name are dropped.
TrimmedLeft(s) ==
    LET solid == {i \in 1..Len(s) : s[i] # Space}
    IN  IF solid = {} THEN <<>>
        ELSE SubSeq(s, CHOOSE i \in solid : \A j \in solid : i <= j, Len(s))

\* find_first_not_of and find_last_not_of; empty for a text of blanks.
Trimmed(s) ==
    LET solid == {i \in 1..Len(s) : s[i] # Space}
    IN  IF solid = {} THEN <<>>
        ELSE SubSeq(s, CHOOSE i \in solid : \A j \in solid : i <= j,
                       CHOOSE i \in solid : \A j \in solid : j <= i)

\* A token of blanks only is dropped.
Push(token) ==
    requested' = IF Trimmed(token) = <<>> THEN requested
                 ELSE Append(requested, Trimmed(token))

CommasFrom(i) == {j \in i..Len(env) : env[j] = Comma}

\* The loop: the token up to the next comma.
SplitAtComma ==
    /\ phase = "parse"
    /\ \E j \in CommasFrom(start) :
        /\ \A k \in CommasFrom(start) : j <= k
        /\ Push(SubSeq(env, start, j - 1))
        /\ start' = j + 1
    /\ UNCHANGED <<env, fuzz, phase, checked, allEnabled, enabled, next, modules, log>>

\* After the loop: the last token.
TakeLastToken ==
    /\ phase = "parse"
    /\ CommasFrom(start) = {}
    /\ Push(SubSeq(env, start, Len(env)))
    /\ phase' = "validate"
    /\ UNCHANGED <<env, fuzz, start, checked, allEnabled, enabled, next, modules, log>>

(***************************************************************************)
(* ModuleRegistry::initialize                                              *)
(***************************************************************************)

\* Nothing is requested: all_enabled_ stays.
EnableAll ==
    /\ phase = "validate"
    /\ requested = <<>>
    /\ phase' = "target"
    /\ UNCHANGED <<env, fuzz, start, requested, checked, allEnabled, enabled,
                   next, modules, log>>

RequestedSet == {requested[i] : i \in 1..Len(requested)}

IsCompiled(name) == \E m \in Compiled : name = <<m>>

\* One round of the validation loop, enabled_ being set before it.
ValidateName ==
    /\ phase = "validate"
    /\ checked < Len(requested)
    /\ IsCompiled(requested[checked + 1])
    /\ checked' = checked + 1
    /\ allEnabled' = FALSE
    /\ enabled' = RequestedSet
    /\ phase' = IF checked' = Len(requested) THEN "target" ELSE "validate"
    /\ UNCHANGED <<env, fuzz, start, requested, next, modules, log>>

\* The error message is not empty: std::abort.
RejectName ==
    /\ phase = "validate"
    /\ checked < Len(requested)
    /\ ~IsCompiled(requested[checked + 1])
    /\ allEnabled' = FALSE
    /\ enabled' = RequestedSet
    /\ phase' = "abort"
    /\ UNCHANGED <<env, fuzz, start, requested, checked, next, modules, log>>

(***************************************************************************)
(* The target, and the modules                                             *)
(***************************************************************************)
ReadTarget ==
    /\ phase = "target"
    /\ phase' = IF fuzz = NoTarget THEN "exit" ELSE "load"
    /\ UNCHANGED <<env, fuzz, start, requested, checked, allEnabled, enabled,
                   next, modules, log>>

\* Slip: the registry is asked only for the names of the list.
IsListed(m) == <<m>> \in enabled

IsEnabled(m) == allEnabled \/ <<m>> \in enabled

\* One entry of module_defs.h: construct, insert into the map, name to the log.
LoadModule ==
    /\ phase = "load"
    /\ next <= Len(Defs)
    /\ IsEnabled(Defs[next])
    /\ modules' = modules \cup {Defs[next]}
    /\ log' = Append(log, Defs[next])
    /\ next' = next + 1
    /\ UNCHANGED <<env, fuzz, phase, start, requested, checked, allEnabled, enabled>>

\* Slip: the macro names the module to the log outside its if.
PassOverLogged ==
    /\ phase = "load"
    /\ next <= Len(Defs)
    /\ ~IsEnabled(Defs[next])
    /\ log' = Append(log, Defs[next])
    /\ next' = next + 1
    /\ UNCHANGED <<env, fuzz, phase, start, requested, checked, allEnabled,
                   enabled, modules>>

\* isEnabled is false: the module is not even constructed.
PassOver ==
    /\ phase = "load"
    /\ next <= Len(Defs)
    /\ ~IsEnabled(Defs[next])
    /\ next' = next + 1
    /\ UNCHANGED <<env, fuzz, phase, start, requested, checked, allEnabled,
                   enabled, modules, log>>

\* logModules; LLVMFuzzerInitialize returns.
LogModules ==
    /\ phase = "load"
    /\ next > Len(Defs)
    /\ phase' = "run"
    /\ UNCHANGED <<env, fuzz, start, requested, checked, allEnabled, enabled,
                   next, modules, log>>

StartupNext ==
    \/ SplitAtComma
    \/ TakeLastToken
    \/ EnableAll
    \/ ValidateName
    \/ RejectName
    \/ ReadTarget
    \/ LoadModule
    \/ PassOver
    \/ LogModules

StartupSpec == StartupInit /\ [][StartupNext]_startupVars

-----------------------------------------------------------------------------
(***************************************************************************)
(* Properties.  The names a user asked for are defined without the parser: *)
(* the blank-trimmed stretches of MODULES between neighbouring commas.     *)
(***************************************************************************)
CommaOrEnd(i) == i \in {0, Len(env) + 1} \/ env[i] = Comma

\* A stretch i+1..j-1 between neighbouring commas (or the ends) of the text
\* holds exactly the symbols of name between blanks.
AsksFor(name) ==
    \E i, j \in 0..(Len(env) + 1) :
        /\ i < j /\ CommaOrEnd(i) /\ CommaOrEnd(j)
        /\ \A k \in (i + 1)..(j - 1) : env[k] # Comma
        /\ \E a, b \in (i + 1)..(j - 1) :
            /\ a <= b /\ env[a] # Space /\ env[b] # Space
            /\ \A k \in (i + 1)..(j - 1) : k < a \/ k > b => env[k] = Space
            /\ name = SubSeq(env, a, b)

Stretches == {SubSeq(env, a, b) : a, b \in 1..Len(env)}

Asked == {name \in Stretches : AsksFor(name)}

\* "If MODULES is unset or empty, all compiled modules are loaded"; otherwise
\* exactly the modules asked for, whatever blanks, empty items, repetitions
\* and order the text has (README.md, "Selective Module Loading").
LoadsWhatWasAsked ==
    phase = "run" =>
        /\ Asked = {} => modules = Compiled
        /\ Asked # {} => {<<m>> : m \in modules} = Asked

\* "The fuzzer will abort with an error if you request a module that was not
\* compiled": never a run with fewer modules than asked for, and never an
\* abort without such a request.
AbortsForUnknown ==
    /\ phase = "abort" => \E name \in Asked : ~IsCompiled(name)
    /\ phase \in {"target", "load", "run", "exit"} => \A name \in Asked : IsCompiled(name)

\* The log lists every module of the map once, in the order of construction,
\* and every variable is in its type.
LogIsMap ==
    /\ StartupTypeOK
    /\ modules = {log[i] : i \in 1..Len(log)}
    /\ \A i, j \in 1..Len(log) :
        i < j => \E k, l \in 1..Len(Defs) : k < l /\ Defs[k] = log[i] /\ Defs[l] = log[j]
=============================================================================
