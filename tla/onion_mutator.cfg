\* The onion mutator on a payload that a few records fill.
SPECIFICATION Spec
CONSTANTS
    Base = 8
    MaxCalls = 2
    MaxMutations = 2
    HOP_PAYLOADS_SIZE = 18
    Keys = {"bob", "eve", "zero"}
    PublicKeys = {"p"}
    NoSecret = NoSecret
    Secret <- MCSecret
    Plaintexts <- MCPlaintexts
    COMMON_TLV_TYPES = {2, 4}
    RandomTypes <- MCRandomTypes
    KnownValues <- MCKnownValues
    OtherValues <- MCOtherValues
    Scribbles <- MCScribbles
    Growth = 5
INVARIANTS
    PacketIsSealed
    ReadsBackItsOutput
    GeneratedIsForwarding
CHECK_DEADLOCK FALSE
