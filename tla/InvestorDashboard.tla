--------------------------- MODULE InvestorDashboard ---------------------------
(***************************************************************************)
(* ProfileService.get_investor_details: an investor's dashboard, put       *)
(* together from eight statements, each of which sees what is committed    *)
(* when it runs, while deposits, buys and sells commit in between.  These  *)
(* are single steps here: CashLedger, which BuyDeposit implements, for     *)
(* deposits and buys, and what PositionBook says of owners for sells.      *)
(***************************************************************************)
EXTENDS Integers, Sequences, SequencesExt

CONSTANTS
    User, Cost, Amount,
    Position,        \* the positions the buys create
    ActiveUser, HasCashAccount,
    RecentLimit,     \* how many recent transactions are shown
    MaxCommits       \* bound: commits while one dashboard is built

ASSUME ConstantsAssumption ==
    /\ Cost \subseteq Nat \ {0} /\ Amount \subseteq Nat \ {0}
    /\ ActiveUser \subseteq User /\ HasCashAccount \subseteq User
    /\ RecentLimit \in Nat \ {0} /\ MaxCommits \in Nat
    /\ IsFiniteSet(Position)

VARIABLES
    cash, lots, invested,  \* as in CashLedger
    rows,                  \* rows[u]: ledger rows of u's cash account by created_at
    allocation,            \* allocation[p][u]: status and remaining_cost
    commits,
    at,                    \* the statement the dashboard is at
    investor,
    view,                  \* what the statements have returned
    asOf                   \* asOf[q]: what statement q saw of the user's totals

fund      == <<cash, lots, invested, rows, allocation, commits>>
dashboard == <<at, investor, view, asOf>>
vars      == <<fund, dashboard>>

Fund == INSTANCE CashLedger WITH InitialCash <- {0}

None == [status |-> "NONE", cost |-> 0]

\* The statements of a dashboard, in the order it awaits them.
Statements_DepositsFirst ==    \* Mutant
    <<"profile", "account", "deposits", "balance", "recent", "invested", "count",
      "allocations", "positions">>
Statements_InvestedFirst ==    \* Mutant
    <<"profile", "account", "invested", "balance", "deposits", "recent", "count",
      "allocations", "positions">>
Statements ==
    <<"profile", "account", "balance", "deposits", "recent", "invested", "count",
      "allocations", "positions">>

Ended == {"answered", "refused"}

Init ==
    /\ Fund!Init
    /\ rows = [u \in User |-> <<>>]
    /\ allocation = [p \in Position |-> [u \in User |-> None]]
    /\ commits = 0
    /\ at = "profile"
    /\ investor \in User
    /\ view = [balance |-> 0, deposits |-> 0, recent |-> <<>>, invested |-> 0,
               count |-> 0, allocations |-> {}, holdings |-> {}]
    /\ asOf = [q \in {} |-> 0]

-------------------------------------------------------------------------------
(* Commits of the other services *)

\* created_at is the start of the transaction (server default now()): a row may
\* come before rows that were committed earlier.
Records(users, type, amount) ==
    \E place \in [users -> 1..(MaxCommits + 1)] :
        /\ \A u \in users : place[u] <= Len(rows[u]) + 1
        /\ rows' = [u \in User |-> IF u \in users
                        THEN InsertAt(rows[u], place[u], [type |-> type, amount |-> amount[u]])
                        ELSE rows[u]]

Another == commits < MaxCommits /\ commits' = commits + 1 /\ UNCHANGED dashboard

Deposit(u, amount) ==
    /\ Another
    /\ u \in HasCashAccount
    /\ Fund!Deposit(u, amount)
    /\ Records({u}, "DEPOSIT", [v \in {u} |-> amount])
    /\ UNCHANGED allocation

Buy(p, users, cost) ==
    /\ Another
    /\ users # {} /\ users \subseteq HasCashAccount
    /\ \A u \in User : allocation[p][u] = None
    /\ Fund!Buy(users, cost)
    /\ Records(users, "BUY", cost)
    /\ allocation' = [allocation EXCEPT ![p] =
           [u \in User |-> IF u \in users THEN [status |-> "OPEN", cost |-> cost[u]] ELSE @[u]]]

\* A sell pays settlement accounts: cash accounts and their rows stay.
Sell(p, users) ==
    /\ Another
    /\ users # {} /\ \A u \in users : allocation[p][u].status = "OPEN"
    /\ \E left \in [users -> {None} \cup [status : {"OPEN"}, cost : Cost]] :
          /\ \A u \in users : left[u] = None \/ left[u].cost <= allocation[p][u].cost
          /\ allocation' = [allocation EXCEPT ![p] =
                 [u \in User |-> IF u \notin users THEN @[u]
                                 ELSE IF left[u] = None THEN [status |-> "CLOSED", cost |-> 0]
                                 ELSE left[u]]]
    /\ UNCHANGED <<cash, lots, invested, rows>>

-------------------------------------------------------------------------------
(* The statements *)

Signed(row) == IF row.type = "DEPOSIT" THEN row.amount ELSE -row.amount
Deposited(row) == IF row.type = "DEPOSIT" THEN row.amount ELSE 0

\* Mutant: the debits are left out of the CASE.
AccountBalance_Inbound(u) == SumFunction([i \in DOMAIN rows[u] |-> Deposited(rows[u][i])])
AccountBalance(u) == SumFunction([i \in DOMAIN rows[u] |-> Signed(rows[u][i])])

TotalDeposits(u) == SumFunction([i \in DOMAIN rows[u] |-> Deposited(rows[u][i])])

\* order_by created_at desc, limit
RecentTransactions(u) ==
    LET newest == Reverse(rows[u])
    IN  SubSeq(newest, 1, IF Len(newest) < RecentLimit THEN Len(newest) ELSE RecentLimit)

OpenPositions(u) == {p \in Position : allocation[p][u].status = "OPEN"}
CostOf(u, ps) == SumFunctionOnSet([p \in Position |-> allocation[p][u].cost], ps)

TotalInvested(u) == CostOf(u, OpenPositions(u))

\* Mutant: closed allocations count.
ActivePositionCount_AnyStatus(u) == Cardinality({p \in Position : allocation[p][u] # None})
ActivePositionCount(u) == Cardinality(OpenPositions(u))

OpenAllocations(u) == {[position |-> p, cost |-> allocation[p][u].cost] : p \in OpenPositions(u)}

\* A position closes when its last owner's allocation does.
IsClosed(p) == \A u \in User : allocation[p][u].status # "OPEN"

\* Mutant: only open positions are loaded.
PositionsById_Open(ids) == {p \in ids : ~IsClosed(p)}
\* Rows of positions are never deleted, and are created with their allocations.
PositionsById(ids) == {p \in ids : \E u \in User : allocation[p][u] # None}

\* A user without a cash account has three statements fewer.
NextStatement(q) ==
    LET now == CHOOSE i \in DOMAIN Statements : Statements[i] = q
        due == {i \in DOMAIN Statements :
                   /\ i > now
                   /\ Statements[i] \in {"balance", "deposits", "recent"} =>
                         investor \in HasCashAccount}
    IN  IF due = {} THEN "answered" ELSE Statements[Min(due)]

Read(q) ==
    /\ at = q
    /\ at' = NextStatement(q)
    /\ asOf' = [r \in DOMAIN asOf \cup {q} |-> IF r # q THEN asOf[r] ELSE
                   [lots |-> lots[investor], invested |-> invested[investor],
                    sold |-> invested[investor] - CostOf(investor, Position),
                    commits |-> commits]]
    /\ UNCHANGED <<fund, investor>>

ReadProfile ==
    /\ at = "profile"
    /\ at' = IF investor \in ActiveUser THEN NextStatement("profile") ELSE "refused"
    /\ UNCHANGED <<fund, investor, view, asOf>>

ReadAccount == Read("account") /\ UNCHANGED view
ReadBalance == Read("balance") /\ view' = [view EXCEPT !.balance = AccountBalance(investor)]
ReadDeposits == Read("deposits") /\ view' = [view EXCEPT !.deposits = TotalDeposits(investor)]
ReadRecent == Read("recent") /\ view' = [view EXCEPT !.recent = RecentTransactions(investor)]
ReadInvested == Read("invested") /\ view' = [view EXCEPT !.invested = TotalInvested(investor)]
ReadCount == Read("count") /\ view' = [view EXCEPT !.count = ActivePositionCount(investor)]
ReadAllocations ==
    Read("allocations") /\ view' = [view EXCEPT !.allocations = OpenAllocations(investor)]

\* An allocation whose position is not among those loaded is passed over.  The answer
\* of an investor without a name is an error instead; what it holds is no different.
ReadPositions ==
    LET found == PositionsById({a.position : a \in view.allocations})
    IN  /\ Read("positions")
        /\ view' = [view EXCEPT !.holdings = {a \in view.allocations : a.position \in found}]

Next ==
    \/ \E u \in User, amount \in Amount : Deposit(u, amount)
    \/ \E p \in Position, users \in SUBSET User :
          \/ \E cost \in [users -> Cost] : Buy(p, users, cost)
          \/ Sell(p, users)
    \/ ReadProfile \/ ReadAccount \/ ReadBalance \/ ReadDeposits \/ ReadRecent
    \/ ReadInvested \/ ReadCount \/ ReadAllocations \/ ReadPositions
    \/ at \in Ended /\ UNCHANGED vars

Spec == Init /\ [][Next]_vars

-------------------------------------------------------------------------------
(* Properties of an answered dashboard *)

Answered == at = "answered"
OfCash == Answered /\ investor \in HasCashAccount

\* No dashboard shows more cash than its lifetime deposits, although deposits
\* and buys commit between the two sums: the cash is summed first.
CashWithinDeposits == OfCash => view.balance <= view.deposits

\* A buy that commits while the dashboard is built is shown as cash, as
\* invested, or as both: the money it moves is never missing from the answer.
NoMoneyVanishes ==
    OfCash => view.balance + view.invested + asOf["invested"].sold >= asOf["balance"].lots

\* What is shown beyond the deposits is at most the cost of the buys that
\* commit between the sum of the cash and the sum of the investments.
ShownTwiceIsBounded ==
    OfCash => view.balance + view.invested <=
                 view.deposits + asOf["invested"].invested - asOf["balance"].invested

\* "if position is None: continue" (profile_service.py:219) never drops a
\* holding, even when its position closes between the two statements.
HoldingsComplete == Answered => view.holdings = view.allocations

\* Figures read with no commit between them agree: the count and the amount
\* with the list of holdings, and the cash with a list of all transactions.
SameMomentAgrees ==
    LET Same(q, r) == asOf[q].commits = asOf[r].commits
    IN  Answered =>
          /\ Same("count", "allocations") => view.count = Cardinality(view.holdings)
          /\ Same("invested", "allocations") =>
                view.invested = SumFunction([a \in view.allocations |-> a.cost])
          /\ OfCash /\ Same("balance", "recent") /\ Len(view.recent) < RecentLimit =>
                view.balance =
                    SumFunction([i \in DOMAIN view.recent |-> Signed(view.recent[i])])
===============================================================================
