\* Two requests over four users, one inactive and one without a cash account.
SPECIFICATION FairSpec
CONSTANTS
    User = {1, 2, 3, 4}
    Session = {s1, s2}
    Cost = {1}
    Amount = {0, 1}
    InitialCash = {1}
    ActiveUser = {1, 2, 3}
    HasCashAccount = {1, 2, 4}
    TreasuryConfigured = TRUE
    DepositRowAccepted = TRUE
    None = None
INVARIANTS TypeOK CashNonNegative LedgerReconciles FundsReserved NoLockCycle
PROPERTIES ReportedIsCovered ImplementsCashLedger EveryRequestEnds
