\* Every buy, sell and suggestion request over small numbers, two users and lists of
\* up to two; buys of up to seven shares, whose six users besides the last round
\* their charges; suggestions for three candidates, in whose split both shares and
\* charges do not divide.
SPECIFICATION AnySpec
CONSTANTS
    User = {u1, u2}
    Sub = 2
    SchemaScale = 2
    SubmittedQuantity = {0, 1, 4, 6, 8}
    SubmittedAmount <- MCSubmittedAmount
    MaxAllocations = 2
    None = None
    BuyQuantity = {1, 2, 3, 4, 5, 6, 7}
    BuyPrice = {1, 3}
    BuyCharges = {0, 1, 2, 3, 4, 5, 6, 7, 8}
    Users = 3
    Scale = 10
    Target = {0, 1, 3, 4, 5}
    Price = {0, 3}
    Charges = {0, 2, 5}
    Balance = {0, 4, 7, 11, 20}
    ConservativePercent = 70
INVARIANTS PaidInFull ChargedWithinRounding BuysAreWhole WithinTarget DeploysTheMost BalancedIsEven EstimatesCoverTheTrade FullDeploymentIsPayable
