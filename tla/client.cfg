CONSTANTS
    Names <- MCNames
    Sig <- MCSig
    First = "send"
    Texts <- MCTexts
    Meant <- MCMeant
    Files = {"f", "g"}
    MaxCalls = 2
    MaxStrings = 2
    MaxReaders = 2
    None = None
SPECIFICATION Spec
INVARIANTS RequestFits DisplayedIsKept OnlyTheChosen FieldIsTrue
CHECK_DEADLOCK FALSE
