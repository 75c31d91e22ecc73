\* A sell below the price the position was bought at.
SPECIFICATION Spec
CONSTANTS
    User = {u1, u2}
    Session = {s1, s2}
    None = None
    Scale = 10
    Shares = {1, 2}
    BuyPrice = {40}
    BuyCharge = {1}
    SellQuantity = {10}
    SellPrice = {30}
    SellCharges = {0}
    MinimumProfit <- MCMinimumProfit
    FeePercent = 10
    HasSettlementAccount = {u1, u2}
    PlatformConfigured = TRUE
INVARIANTS LossesAreRealized
