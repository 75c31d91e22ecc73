\* Two concurrent sells of a position of two users.
SPECIFICATION Spec
CONSTANTS
    User = {u1, u2}
    Session = {s1, s2}
    None = None
    Scale = 10
    Shares = {1, 2}
    BuyPrice = {40}
    BuyCharge = {1}
    SellQuantity = {3, 17, 20, 29, 30}
    SellPrice = {30, 60}
    SellCharges = {0, 7}
    MinimumProfit <- MCMinimumProfit
    FeePercent = 10
    HasSettlementAccount = {u1, u2}
    PlatformConfigured = TRUE
SYMMETRY SessionSymmetry
INVARIANTS TypeOK OpenIsDivisible NoOverselling HoldingsTrackPosition
PROPERTIES FullSaleCloses SettlementConserves ImplementsPositionBook
