\* Texts over two letters, both quotes, the colon and NUL.
SPECIFICATION Spec
CONSTANTS
    Letters = {"a"}
    Others = {"7"}
    Texts <- MCTexts
    Values <- MCValues
    Fragments <- MCFragments
INVARIANTS
    TypeOK
    FitsBuffer
    NoEarlyEnd
    PlaceholdersOnly
    QuotedKept
