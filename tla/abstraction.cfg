SPECIFICATION Spec
CONSTANTS
    Chars <- MCChars
    Spelling <- MCSpelling
    BufferSize = 2
    AbstractionRule <- MCAbstractionRule
    PatternParts <- MCPatternParts
    Height <- MCHeight
    Scripts <- MCScripts
    Combinators <- MCCombinators
    Variables <- MCVariables
    Rule <- MCRule
    MaxNode = 90
    Statements <- MCStatements
    Interruptible <- MCInterruptible
INVARIANTS
    TypeOK
    TerminatorFits
    AutomatonRecognisesPaths
    FirstMatchingRule
    AbstractionIsFunction
    DefinitionKeepsMeaning
    CountsExact
    NothingReadAfterFree
    EveryNodeReturned
CHECK_DEADLOCK FALSE
