SPECIFICATION Spec
CONSTANTS
    Combinators <- MCCombinators
    Variables <- MCVariables
    Rule <- MCRule
    MaxNode = 24
    Expressions <- SomeExpressions
    Settings <- SignalSettings
    InitialStackSize = 4
    CounterCap = 3
    Signals <- AllSignals
INVARIANT
    NoNegativeCount
