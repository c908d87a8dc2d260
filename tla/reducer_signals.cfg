SPECIFICATION FairSpec
CONSTANTS
    Combinators <- MCCombinators
    Variables <- MCVariables
    Rule <- MCRule
    MaxNode = 28
    Expressions <- SomeExpressions
    Settings <- SignalSettings
    InitialStackSize = 4
    CounterCap = 3
    Signals <- AllSignals
INVARIANTS
    FreeListIntact
    HistoryIsPerReduction
PROPERTIES
    StatementReturns
