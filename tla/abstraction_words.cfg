SPECIFICATION Spec
CONSTANTS
    Chars <- MCChars
    Spelling <- MCSpelling
    BufferSize = 2
    AbstractionRule <- MCAbstractionRule
    PatternParts <- MCPatternParts
    Height <- MCHeight
    Scripts <- MCWordScripts
    Combinators <- MCCombinators
    Variables <- MCVariables
    Rule <- MCRule
    MaxNode = 90
    Statements <- MCWordStatements
    Interruptible <- MCInterruptible
INVARIANTS
    FirstMatchingRule
CHECK_DEADLOCK FALSE
