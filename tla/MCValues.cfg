\* Streams of up to eight events over four names and scalars; three containers
\* of at most two items.
SPECIFICATION MCSpec
CONSTANTS
    a = a
    b = b
    c = c
    Nodes = {a, b, c}
    Roots = {a}
    Heaps <- AllHeaps
    Chars <- MCChars
    Dollar = "$"
    Nul = "NUL"
    Names <- FewNames
    EmptyName <- MCEmptyName
    JsonPrefix <- MCJsonPrefix
    Quoted <- MCQuoted
    Big <- MCBig
    Values <- FewValues
    IntegerTexts = {"12", "-0"}
    MaxEvents = 8
INVARIANTS BareNumbersAreLiterals TreeEventsOnly WritesTheTree WholeRecords Withheld
PROPERTY CheckEnds
CHECK_DEADLOCK FALSE
