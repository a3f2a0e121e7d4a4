SPECIFICATION MCSpec
CONSTANTS
    None = None
    Radix = 2
    Keys <- FourKeys
    Values = {"a", "b"}
    Sizes <- BlockSizes
    ResetModes = {"all"}
    Depth = 1
    Searches <- SomeSearches
    MaxResets = 1
    Prefix <- OnePrefix
    Endings <- FourEndings
    Starts <- ThreeStarts
    Limits = {}
INVARIANT SeekIsSorted
