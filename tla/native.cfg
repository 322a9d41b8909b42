\* Every native target, on inputs that reach each way it answers.
SPECIFICATION NativeSpec
CONSTANTS
    ForeignInputs <- MCForeignInputs
    ConsensusInputs <- MCConsensusInputs
    WordSize = 16
    max_money = 3
    BlockSize = 2
    Order = 5
    FieldPrime = 7
    Odd <- MCOdd
    LabelTweak <- MCLabelTweak
    CurveInputs <- MCCurveInputs
    Base = 6
    VersionBytes = 1
    OutpointBytes = 2
    SequenceBytes = 1
    ValueBytes = 1
    LocktimeBytes = 1
    SighashInputs <- MCSighashInputs
INVARIANTS
    StringsAreOwned
    OneWordForRefusal
    ConsensusAnswersAgree
    AcceptsNoInflation
    RootNamesOneList
    ComparedAddressIsRead
    AnswersAgree
    NobodyDropped
    OutputsFollowBip352
    RemainderIsHashed
    GateAndSplice
    PreflightBoundsNewTx
