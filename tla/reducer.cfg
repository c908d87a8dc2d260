SPECIFICATION HistorySpec
CONSTANTS
    Combinators <- MCCombinators
    Variables <- MCVariables
    Rule <- MCRule
    MaxNode = 24
    Expressions <- AllSmall
    Settings <- LimitedSettings
    InitialStackSize = 4
    CounterCap = 5
    Signals <- NoSignals
INVARIANTS
    TypeOK
    ContractionInBounds
    StackWriteInBounds
    StackIsPath
    NoDanglingReference
    RefCountsExact
    AllNodesReturned
    NormalFormHasNoRedex
PROPERTIES
    ImplementsNormalOrder
