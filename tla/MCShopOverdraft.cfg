SPECIFICATION Spec
CONSTANTS
    Calls = {a, b}
    Users <- OneUser
    Codes <- ThreeCodes
    Items <- FiveItems
    Requests <- AllRequests
    InitList <- Products
    InitPrices <- Prices
    InitShop <- Stock
    InitBalance <- Wallets
    Ids <- Four
    MaxFaults = 1
PROPERTIES
    NeverOverdrawn
CHECK_DEADLOCK FALSE
