SPECIFICATION PaperSpec
CONSTANTS
    None = None
    Prices = {2, 3}
    Fee <- MCFee
    StartQuote = 6
    StartBase = 1
    MaxOrders = 4
INVARIANTS
    OcoWhole
    FundsExact
    SavedWhole
    CanceledAsAsked
    IdsDistinct
