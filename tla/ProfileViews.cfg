\* One dashboard of a fund of three investors and up to four commits around it; a walk
\* over the pages of up to four profiles, two of them registered meanwhile.
SPECIFICATION AnySpec
CONSTANTS
    User = {u1, u2, u3}
    Cost = {1, 2}
    Amount = {2}
    Position = {p1, p2}
    ActiveUser = {u1, u3}
    HasCashAccount = {u1, u2}
    RecentLimit = 2
    MaxCommits = 4
    Kind = {"match", "nameless", "admin"}
    PageSize = {1, 2}
    InitialProfiles = 2
    MaxProfiles = 4
INVARIANTS CashWithinDeposits NoMoneyVanishes ShownTwiceIsBounded HoldingsComplete SameMomentAgrees NobodyMissed RepeatsAreRegistrations
