\* Each mutator on its own corpus; two calls of a text mutator in a row.
SPECIFICATION Spec
CONSTANTS
    Seeds <- MCSeeds
    Corrupted <- MCCorruptions
    DummyInvoice <- MCDummy
    Mutants <- MCMutants
    MaxSizes = {3, 11, 12, 16}
    SIZE_MAX = 1073741823
    MaxSteps = 2
    Hash4 <- MCHash4
    LLVMFuzzerMutate <- MCLLVMFuzzerMutate
    SchnorrSign <- MCSchnorrSign
    EcdsaSign <- MCEcdsaSign
    Corpus <- MCCorpus
    OutputSizes <- MCOutputSizes
    BIP32_PAYLOAD_LEN = 8
INVARIANTS
    TextMutatorsHold
    FormatHolds
    BuffersAndCodecsHold
\* The calls are bounded by MaxSteps.
CHECK_DEADLOCK FALSE
