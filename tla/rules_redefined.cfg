SPECIFICATION SessionSpec
CONSTANTS
    Combinators <- MCCombinators
    Variables <- MCVariables
    Rule <- MCRule
    NameOf <- MCName
    Texts <- MCTexts
    Definitions <- MCDefinitions
    MaxNode = 16
    Expressions <- NoExpressions
    Settings <- OneSetting
    InitialStackSize = 4
    CounterCap = 3
    Signals <- NoSignals
INVARIANT
    OnlyRulesThatExist
