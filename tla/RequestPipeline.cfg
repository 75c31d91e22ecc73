\* Three clients share two connections and one row; one of them repeats its request.
SPECIFICATION FairSpec
CONSTANTS
    Client = {c1, c2, c3}
    Depositor <- MCDepositor
    Row = {r1}
    Capacity = 2
    Refusal = {"InsufficientFundsError"}
    MaxRetries <- MCMaxRetries
    None = None
INVARIANTS NothingOutlivesItsRequest AnswerMatchesOutcome RepeatsNeedLostCommits
PROPERTY EveryRequestAnswered
