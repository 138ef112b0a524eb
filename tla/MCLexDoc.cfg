\* A name, a dot and doc comments between them.
SPECIFICATION Spec
CONSTANTS
    Texts = {"t"}
    Contents = {"t"}
    Sources <- Dotted
INVARIANTS DocCommentsRefused
CHECK_DEADLOCK FALSE
