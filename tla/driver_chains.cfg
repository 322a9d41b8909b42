\* Every kind of comparison loop, over two inputs in a row.
SPECIFICATION Spec
CONSTANTS
    Names <- MCNames
    Order <- MCOrder
    Bodies <- MCBodies
    TargetSet <- MCTargets
    Inputs <- MCInputs
    MaxRuns = 2
INVARIANTS
    TypeOK
    BlamesRealPair
    LastIsLatest
PROPERTIES
    ImplementsOracle
\* The process stops after an assertion failure, and at the bound MaxRuns.
CHECK_DEADLOCK FALSE
