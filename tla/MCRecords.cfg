SPECIFICATION Spec
CONSTANTS
    Fields = {"f", "g"}
    Texts = {"quoted", "wide"}
    Quoted = {"quoted"}
    Wide = {"wide"}
    Clocks = {0}
    Shifts = {1}
    Drafts <- SmallDrafts
INVARIANT TypeOK
PROPERTIES
    WriteBackKeeps
    ReadsAreAccepted
