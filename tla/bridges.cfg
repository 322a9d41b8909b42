\* Every combination of loaded JVM bridges and built jars, over three inputs;
\* two calls into Python, by the same or by different modules, and two into
\* QuickJS, in every order.
SPECIFICATION BridgesSpec
CONSTANTS
    MaxRuns = 3
    Inputs <- MCInputs
    Imports <- MCImports
    MaxCalls = 2
    MaxJsCalls = 2
INVARIANTS
    ReadyIsOwnClass
    SilenceHasReason
    ExceptionHasThrower
    VerdictsAreLibrarys
    InterpreterTidy
    EngineHolds
\* The process exits or aborts, and inputs and calls are bounded.
CHECK_DEADLOCK FALSE
