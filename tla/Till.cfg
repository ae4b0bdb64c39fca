CONSTANTS
    Ids = {tea}
    Rows <- Fives
    Choices <- Several
    MaxQty = 2
    MaxPosts = 2
    MaxSaves = 1
    MaxEdits = 1
SPECIFICATION TaxableSpec
CHECK_DEADLOCK FALSE
INVARIANTS
    CompleteIsSaved
    ChargedAsChosen
PROPERTIES
    AsShown
    ReceiptAddsUp
