SPECIFICATION Spec
CONSTANTS
    blank = blank
    text = text
    b1 = b1
    b2 = b2
    Texts = {blank, text}
    Blank = blank
    Blocks = {b1, b2}
    Mine = Mine
    Emptied = Emptied
    NoBlock = NoBlock
    Absent = Absent
    NoReceipt = NoReceipt
    NoJournal = NoJournal
    NoPlan = NoPlan
    MaxEvents = 4
INVARIANTS
    BlocksAreOwned
    OriginIsTheBaseline
PROPERTIES
    UserContentSurvives
    RollbackRestoresAll
CHECK_DEADLOCK FALSE
