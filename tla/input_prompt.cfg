SPECIFICATION FairSpec
CONSTANTS
    Names <- MCNames
    NoName = ""
    Files <- MCFiles
    Content <- MCContent
    LoadLists <- NestedLoadLists
    Lines <- MCLines
    MaxTyped = 3
    MaxOpen = 3
INVARIANT
    PromptWhenWaiting
