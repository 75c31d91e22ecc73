\* Two sells of a position of three users, one of them without an account to
\* settle on: every request ends.
SPECIFICATION FairSpec
CONSTANTS
    User = {u1, u2, u3}
    Session = {s1, s2}
    None = None
    Scale = 10
    Shares = {1}
    BuyPrice = {40}
    BuyCharge = {1}
    SellQuantity = {10, 30}
    SellPrice = {30, 60}
    SellCharges = {7}
    MinimumProfit <- MCMinimumProfit
    FeePercent = 10
    HasSettlementAccount = {u1, u2}
    PlatformConfigured = TRUE
PROPERTIES EveryRequestEnds
