\* Two names, so that fields collide, and one container more than the budget.
SPECIFICATION TranslationSpec
CONSTANTS
    Texts = {"$empty", "$big"}
    Contents = {"12", "integer 12"}
    EnumTag = TRUE
    MaxDepth = 2
    MaxTokens = 9
    Letters <- Spellings
    Digits <- BigDigits
    Dollar = "$"
    EmptyName <- EmptySpelt
    Big <- BigSpelt
INVARIANTS Nested AcceptsDocuments RefusesNoDocument StreamsTheValue ReadsBack
CHECK_DEADLOCK FALSE
