SPECIFICATION FairSpec
CONSTANTS
    Calls = {a, b}
    Users <- OneUser
    Codes <- ThreeCodes
    Items <- FiveItems
    Requests <- AllRequests
    InitList <- Products
    InitPrices <- Prices
    InitShop <- Stock
    InitBalance <- Wallets
    Ids <- Four
    MaxFaults = 1
INVARIANTS
    NeverSoldTwice
    Traced
    BooksBalance
    OverdraftBounded
    PaidIsServed
    ShortExplained
PROPERTIES
    CallsEnd
CHECK_DEADLOCK FALSE
