\* Every MODULES of at most five symbols.
SPECIFICATION StartupSpec
CONSTANTS
    Comma = ","
    Space = " "
    Words <- MCWords
    Defs <- MCDefs
    ModuleTexts <- MCTexts
    Targets = {"addrv2"}
    MaxLength = 5
INVARIANTS
    LoadsWhatWasAsked
    AbortsForUnknown
    LogIsMap
\* Initialization stops once: it returns, aborts or exits.
CHECK_DEADLOCK FALSE
