SPECIFICATION FairSpec
CONSTANTS
    Names <- MCNames
    NoName = ""
    Files <- MCFiles
    Content <- MCContent
    LoadLists <- FlatLoadLists
    Lines <- MCLines
    MaxTyped = 3
    MaxOpen = 3
INVARIANT
    WordsAreVariables
