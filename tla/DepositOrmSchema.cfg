\* The schema as the ORM declares it: from_account_id and reference_id NOT NULL.
SPECIFICATION Spec
CONSTANTS
    User = {1, 2}
    Session = {s1, s2}
    Cost = {1}
    Amount = {1}
    InitialCash = {1}
    ActiveUser = {1, 2}
    HasCashAccount = {1, 2}
    TreasuryConfigured = TRUE
    DepositRowAccepted = FALSE
    None = None
INVARIANTS DepositNeverRefused
