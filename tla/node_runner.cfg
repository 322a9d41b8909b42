\* One runner over two calls, with its death at any point.
SPECIFICATION FairRunnerSpec
CONSTANTS
    Order = 3
    MaxRequests = 2
    Odd <- MCOdd
    LabelTweak <- MCLabelTweak
    Requests <- MCRequests
INVARIANTS
    AnswersThisInput
    RunnerInStep
PROPERTIES
    CallEnds
    RunnerEndsWithFuzzer
\* Both processes may have ended, and the calls are bounded by MaxRequests.
CHECK_DEADLOCK FALSE
