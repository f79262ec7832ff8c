CONSTANTS
    Words = {1, 2, 3, 4}
    Headings = {"a", "b"}
    Items <- MCItems
    Answers <- MCAnswers
    MaxWords = 2
    MaxConditions = 3
    None = None

SPECIFICATION ExtractionSpec

INVARIANTS
    OneSuggestionPerNumber
    ContextHandedDown

PROPERTIES
    AlwaysAnswered
