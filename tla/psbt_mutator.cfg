\* Two calls in a row, each with up to two mutations, on the corpus or on
\* what the mutator made of it; and one parse of every short text.
SPECIFICATION MCSpec
CONSTANTS
    Base = 5
    Magic <- MCMagic
    Template <- MCTemplate
    KnownRecords <- MCKnownRecords
    Scribbles <- MCScribbles
    Growth = 2
    MutationCounts = {1, 2}
    Corpus <- MCCorpus
    MaxSizes = {9, 14, 40, 700}
    MaxCalls = 2
INVARIANTS
    Structured
    ReadsCanonically
    ReadsBackItsOutput
    OutputFits
CONSTRAINT CodecTextsAreParsed
\* Calls stop at the bound MaxCalls, and at an input longer than max_size.
CHECK_DEADLOCK FALSE
