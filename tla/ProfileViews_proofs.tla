-------------------------- MODULE ProfileViews_proofs --------------------------
(***************************************************************************)
(* Proofs about the dashboard of InvestorDashboard, for any finite set of  *)
(* positions and any number of commits between its statements, and about   *)
(* the walk over the pages of InvestorList, for any number of investors    *)
(* who register meanwhile.                                                 *)
(***************************************************************************)
EXTENDS MCProfileViews, SumLemmas, SequenceTheorems

-------------------------------------------------------------------------------
(* The dashboard *)

Row == [type : {"DEPOSIT", "BUY"}, amount : Nat]
Allocation == [status : {"NONE", "OPEN", "CLOSED"}, cost : Nat]
Holding == [position : Position, cost : Nat]
View == [balance : Int, deposits : Int, recent : Seq(Row), invested : Int,
         count : Int, allocations : SUBSET Holding, holdings : SUBSET Holding]
Moment == [lots : Int, invested : Int, sold : Int, commits : Int]

FundType ==
    /\ cash \in [User -> Int] /\ lots \in [User -> Int] /\ invested \in [User -> Int]
    /\ rows \in [User -> Seq(Row)]
    /\ allocation \in [Position -> [User -> Allocation]]
    /\ commits \in Nat

DashboardType ==
    /\ investor \in User
    /\ view \in View
    /\ asOf \in [DOMAIN asOf -> Moment]

\* An allocation costs something only while it is open.
OnlyOpenCosts ==
    \A p \in Position, u \in User :
        allocation[p][u].status # "OPEN" => allocation[p][u].cost = 0

\* The rows of an account make up its balance, and its deposits the lots; what is
\* not cash any more has been invested, and allocations cost no more than that.
BooksAgree ==
    \A u \in User :
        /\ AccountBalance(u) = cash[u]
        /\ TotalDeposits(u) = lots[u]
        /\ cash[u] = lots[u] - invested[u]
        /\ 0 <= CostOf(u, Position) /\ CostOf(u, Position) <= invested[u]

\* The statements that have been made when the dashboard is at q.
OfAccount == IF investor \in HasCashAccount THEN {"balance", "deposits", "recent"} ELSE {}
MadeBy(q) ==
    CASE q = "balance"     -> {"account"}
      [] q = "deposits"    -> {"account", "balance"}
      [] q = "recent"      -> {"account", "balance", "deposits"}
      [] q = "invested"    -> {"account"} \cup OfAccount
      [] q = "count"       -> {"account", "invested"} \cup OfAccount
      [] q = "allocations" -> {"account", "invested", "count"} \cup OfAccount
      [] q = "positions"   -> {"account", "invested", "count", "allocations"} \cup OfAccount
      [] q = "answered"    ->
             {"account", "invested", "count", "allocations", "positions"} \cup OfAccount
      [] OTHER -> {}

Progress ==
    /\ at \in {"profile", "account", "balance", "deposits", "recent", "invested", "count",
               "allocations", "positions", "answered", "refused"}
    /\ at \in {"balance", "deposits", "recent"} => investor \in HasCashAccount
    /\ DOMAIN asOf = MadeBy(at)

Made(q) == q \in DOMAIN asOf

\* Deposits and investments only grow, so a statement has seen no more than later ones;
\* what has been sold has been invested.
HistoryGrows ==
    /\ \A q \in DOMAIN asOf :
          /\ asOf[q].lots <= lots[investor]
          /\ asOf[q].invested <= invested[investor]
          /\ asOf[q].commits <= commits
          /\ 0 <= asOf[q].sold /\ asOf[q].sold <= asOf[q].invested
    /\ Made("balance") /\ Made("deposits") => asOf["balance"].lots <= asOf["deposits"].lots
    /\ Made("balance") /\ Made("invested") =>
          asOf["balance"].invested <= asOf["invested"].invested

\* What the statements have returned, in terms of the moments they were made at.
ViewIsHistory ==
    /\ Made("balance") => view.balance = asOf["balance"].lots - asOf["balance"].invested
    /\ Made("deposits") => view.deposits = asOf["deposits"].lots
    /\ Made("invested") =>
          view.invested = asOf["invested"].invested - asOf["invested"].sold

\* A position that has been listed keeps its allocations, open or closed.
ListedExist ==
    /\ ~Made("allocations") => view.allocations = {}
    /\ \A a \in view.allocations : \E u \in User : allocation[a.position][u] # None
    /\ Made("positions") => view.holdings = view.allocations

\* What was read at the latest commit is what would be read now.
ReadNow(q) == Made(q) /\ asOf[q].commits = commits
UpToDate ==
    /\ ReadNow("balance") => view.balance = AccountBalance(investor)
    /\ ReadNow("invested") => view.invested = TotalInvested(investor)
    /\ ReadNow("count") => view.count = ActivePositionCount(investor)

\* What was read with no commit between, agrees.
ReadTogether(q, r) == Made(q) /\ Made(r) /\ asOf[q].commits = asOf[r].commits
TogetherAgrees ==
    /\ ReadTogether("count", "allocations") => view.count = Cardinality(view.allocations)
    /\ ReadTogether("invested", "allocations") =>
          view.invested = SumFunction([a \in view.allocations |-> a.cost])
    /\ ReadTogether("balance", "recent") /\ Len(view.recent) < RecentLimit =>
          view.balance = SumFunction([i \in DOMAIN view.recent |-> Signed(view.recent[i])])

DashboardInv ==
    /\ FundType /\ DashboardType
    /\ OnlyOpenCosts /\ BooksAgree
    /\ Progress /\ HistoryGrows /\ ViewIsHistory
    /\ ListedExist /\ UpToDate /\ TogetherAgrees

-------------------------------------------------------------------------------
(* Sums of rows and of costs *)

BalanceOf(s)  == SumFunction([i \in DOMAIN s |-> Signed(s[i])])
DepositsOf(s) == SumFunction([i \in DOMAIN s |-> Deposited(s[i])])

\* What a row adds to a balance and to the deposits is an integer.
LEMMA RowAmounts ==
    ASSUME NEW r \in Row
    PROVE  /\ Signed(r) \in Int /\ Deposited(r) \in Int
           /\ Deposited(r) >= 0
  BY DEF Row, Signed, Deposited

\* The sums of the rows of an account are integers.
LEMMA RowSums ==
    ASSUME NEW s \in Seq(Row)
    PROVE  BalanceOf(s) \in Int /\ DepositsOf(s) \in Int
<1> DEFINE f == [i \in DOMAIN s |-> Signed(s[i])]
           g == [i \in DOMAIN s |-> Deposited(s[i])]
<1>1. IsFiniteSet(1..Len(s)) /\ DOMAIN s = 1..Len(s)
  BY FS_Interval
<1>2. \A i \in 1..Len(s) : f[i] \in Int /\ g[i] \in Int
  BY RowAmounts
<1>3. SumFunctionOnSet(f, 1..Len(s)) \in Int /\ SumFunctionOnSet(g, 1..Len(s)) \in Int
  <2> HIDE DEF f, g
  <2> QED BY <1>1, <1>2, SumInt
<1> QED BY <1>1, <1>3 DEF BalanceOf, DepositsOf, SumFunction

\* A sequence into which an element is inserted.
LEMMA Inserted ==
    ASSUME NEW S, NEW s \in Seq(S), NEW k \in 1..(Len(s) + 1), NEW r \in S
    PROVE  /\ InsertAt(s, k, r) \in Seq(S)
           /\ Len(InsertAt(s, k, r)) = Len(s) + 1
           /\ \A i \in 1..(Len(s) + 1) :
                 InsertAt(s, k, r)[i] = IF i < k THEN s[i] ELSE IF i = k THEN r ELSE s[i - 1]
<1>0. Len(s) \in Nat /\ k \in Nat
  BY LenProperties
<1> DEFINE a == SubSeq(s, 1, k - 1)
           b == SubSeq(s, k, Len(s))
           c == a \o <<r>>
<1>1. /\ a \in Seq(S) /\ Len(a) = k - 1
      /\ \A i \in 1..(k - 1) : a[i] = s[i]
  BY SubSeqProperties
<1>2. /\ b \in Seq(S) /\ Len(b) = Len(s) - k + 1
      /\ \A i \in 1..(Len(s) - k + 1) : b[i] = s[k + i - 1]
  BY SubSeqProperties
<1>3. <<r>> \in Seq(S) /\ Len(<<r>>) = 1 /\ <<r>>[1] = r
  OBVIOUS
<1> HIDE DEF a, b
<1>4. /\ c \in Seq(S) /\ Len(c) = k
      /\ \A i \in 1..k : c[i] = IF i < k THEN s[i] ELSE r
  BY <1>1, <1>3, ConcatProperties
<1> HIDE DEF c
<1>5. /\ c \o b \in Seq(S) /\ Len(c \o b) = Len(s) + 1
      /\ \A i \in 1..(Len(s) + 1) : (c \o b)[i] = IF i <= k THEN c[i] ELSE b[i - k]
  BY <1>2, <1>4, ConcatProperties
<1>6. \A i \in 1..(Len(s) + 1) :
         (c \o b)[i] = IF i < k THEN s[i] ELSE IF i = k THEN r ELSE s[i - 1]
  <2> SUFFICES ASSUME NEW i \in 1..(Len(s) + 1)
               PROVE  (c \o b)[i] = IF i < k THEN s[i] ELSE IF i = k THEN r ELSE s[i - 1]
    OBVIOUS
  <2>1. CASE i <= k
    BY <2>1, <1>4, <1>5
  <2>2. CASE i > k
    <3>1. i - k \in 1..(Len(s) - k + 1) /\ k + (i - k) - 1 = i - 1
      BY <2>2
    <3>2. b[i - k] = s[k + (i - k) - 1]
      BY <3>1, <1>2
    <3>3. (c \o b)[i] = b[i - k] /\ ~(i < k) /\ i # k
      BY <2>2, <1>5
    <3>4. b[i - k] = s[i - 1]
      BY <3>1, <3>2, Zenon
    <3> QED BY <3>3, <3>4, Zenon
  <2>3. i <= k \/ i > k
    BY <1>0
  <2> QED BY <2>1, <2>2, <2>3, Zenon
<1>7. InsertAt(s, k, r) = c \o b
  BY DEF InsertAt, a, b, c
<1> QED BY <1>5, <1>6, <1>7

\* A row inserted anywhere adds its amount to the sums.
LEMMA InsertedSums ==
    ASSUME NEW s \in Seq(Row), NEW k \in 1..(Len(s) + 1), NEW r \in Row
    PROVE  /\ BalanceOf(InsertAt(s, k, r)) = BalanceOf(s) + Signed(r)
           /\ DepositsOf(InsertAt(s, k, r)) = DepositsOf(s) + Deposited(r)
<1> DEFINE n == Len(s)
           t == InsertAt(s, k, r)
           f == [i \in DOMAIN s |-> Signed(s[i])]
           g == [i \in DOMAIN t |-> Signed(t[i])]
           a == [i \in DOMAIN s |-> Deposited(s[i])]
           b == [i \in DOMAIN t |-> Deposited(t[i])]
<1>1. /\ n \in Nat /\ t \in Seq(Row) /\ Len(t) = n + 1
      /\ DOMAIN s = 1..n /\ DOMAIN t = 1..(n + 1)
      /\ \A i \in 1..(n + 1) : t[i] = IF i < k THEN s[i] ELSE IF i = k THEN r ELSE s[i - 1]
  <2> HIDE DEF n, f, g, a, b
  <2>1. /\ t \in Seq(Row) /\ Len(t) = Len(s) + 1
        /\ \A i \in 1..(Len(s) + 1) : t[i] = IF i < k THEN s[i] ELSE IF i = k THEN r ELSE s[i - 1]
    BY Inserted
  <2>2. n = Len(s) /\ n \in Nat /\ DOMAIN s = 1..n /\ DOMAIN t = 1..Len(t)
    BY <2>1, LenProperties DEF n
  <2> QED BY <2>1, <2>2
<1>2. Signed(r) \in Int /\ Deposited(r) \in Int
  BY RowAmounts
<1>3. \A i \in 1..n : f[i] \in Int /\ a[i] \in Int
  BY RowAmounts
<1> HIDE DEF t
<1> DEFINE S == 1..n
           R == 1..(n + 1)
           h == [i \in S |-> IF i < k THEN i ELSE i + 1]
<1>4. /\ IsFiniteSet(S) /\ IsFiniteSet(R) /\ k \in R
      /\ g[k] = Signed(r) /\ b[k] = Deposited(r)
  BY <1>1, FS_Interval
<1>5. \A i \in S : h[i] \in R /\ h[i] # k /\ t[h[i]] = s[i]
  <2> SUFFICES ASSUME NEW i \in S PROVE h[i] \in R /\ h[i] # k /\ t[h[i]] = s[i]
    OBVIOUS
  <2>0. i \in Nat /\ k \in Nat /\ n \in Nat
    BY <1>1
  <2>1. CASE i < k
    BY <1>1, <2>0, <2>1
  <2>2. CASE ~(i < k)
    <3>1. h[i] = i + 1 /\ i + 1 \in R /\ ~(i + 1 < k) /\ i + 1 # k /\ (i + 1) - 1 = i
      BY <2>0, <2>2
    <3>2. t[i + 1] = s[(i + 1) - 1]
      BY <1>1, <3>1
    <3> QED BY <3>1, <3>2
  <2> QED BY <2>1, <2>2
<1>6. \A i, j \in S : h[i] = h[j] => i = j
  BY <1>1
<1>7. \A j \in R : j # k => \E i \in S : h[i] = j
  <2> SUFFICES ASSUME NEW j \in R, j # k PROVE \E i \in S : h[i] = j
    OBVIOUS
  <2>0. j \in Nat /\ k \in Nat /\ n \in Nat
    BY <1>1
  <2>1. CASE j < k
    <3>1. j \in S /\ h[j] = j
      BY <2>0, <2>1
    <3> QED BY <3>1
  <2>2. CASE j > k
    <3>1. j - 1 \in S /\ h[j - 1] = j
      BY <2>0, <2>2
    <3> QED BY <3>1
  <2> QED BY <2>0, <2>1, <2>2
<1>8. \A i \in S : g[h[i]] = f[i] /\ b[h[i]] = a[i] /\ f[i] \in Int /\ a[i] \in Int
  BY <1>1, <1>3, <1>5
<1>9. ASSUME NEW q, q = k
      PROVE  /\ SumFunctionOnSet(g, R) = SumFunctionOnSet(f, S) + g[q]
             /\ SumFunctionOnSet(b, R) = SumFunctionOnSet(a, S) + b[q]
  <2>1. /\ q \in R /\ g[q] \in Int /\ b[q] \in Int
        /\ \A x \in S : h[x] \in R /\ h[x] # q /\ f[x] \in Int /\ g[h[x]] = f[x]
        /\ \A x \in S : h[x] \in R /\ h[x] # q /\ a[x] \in Int /\ b[h[x]] = a[x]
        /\ \A y \in R : y # q => \E x \in S : h[x] = y
    <3> HIDE DEF f, g, a, b, n, R, S, h
    <3> QED BY <1>2, <1>4, <1>5, <1>7, <1>8, <1>9
  <2>2. IsFiniteSet(S) /\ IsFiniteSet(R)
    BY <1>4
  <2> HIDE DEF f, g, a, b, n, R, S, h
  <2>3. SumFunctionOnSet(g, R) = SumFunctionOnSet(f, S) + g[q]
    BY <1>6, <2>1, <2>2, SumInsert
  <2>4. SumFunctionOnSet(b, R) = SumFunctionOnSet(a, S) + b[q]
    BY <1>6, <2>1, <2>2, SumInsert
  <2> QED BY <2>3, <2>4
<1>10. /\ SumFunctionOnSet(g, R) = SumFunctionOnSet(f, S) + g[k]
       /\ SumFunctionOnSet(b, R) = SumFunctionOnSet(a, S) + b[k]
  BY <1>9
<1>11. BalanceOf(t) = SumFunctionOnSet(g, R) /\ BalanceOf(s) = SumFunctionOnSet(f, S)
  BY <1>1 DEF BalanceOf, SumFunction
<1>12. DepositsOf(t) = SumFunctionOnSet(b, R) /\ DepositsOf(s) = SumFunctionOnSet(a, S)
  BY <1>1 DEF DepositsOf, SumFunction
<1> QED BY <1>4, <1>10, <1>11, <1>12 DEF t

\* A sum in which one summand changes.
LEMMA SumChange ==
    ASSUME NEW S, IsFiniteSet(S), NEW e \in S, NEW f, NEW g,
           \A x \in S : f[x] \in Int /\ g[x] \in Int,
           \A x \in S \ {e} : g[x] = f[x]
    PROVE  SumFunctionOnSet(g, S) = SumFunctionOnSet(f, S) - f[e] + g[e]
<1>1. IsFiniteSet(S \ {e})
  BY FS_RemoveElement
<1>2. SumFunctionOnSet(g, S \ {e}) = SumFunctionOnSet(f, S \ {e})
  BY <1>1, SumEqual
<1>3. SumFunctionOnSet(f, S \ {e}) \in Int
  BY <1>1, SumInt
<1>4. /\ SumFunctionOnSet(f, S) = f[e] + SumFunctionOnSet(f, S \ {e})
      /\ SumFunctionOnSet(g, S) = g[e] + SumFunctionOnSet(g, S \ {e})
  BY SumRemove
<1> QED BY <1>2, <1>3, <1>4

\* The costs of the allocations of a user.
CostsOf(u) == [p \in Position |-> allocation[p][u].cost]

\* They are naturals, and those that are not open add nothing.
LEMMA CostTypes ==
    ASSUME FundType, OnlyOpenCosts, NEW u \in User
    PROVE  /\ \A p \in Position : CostsOf(u)[p] \in Nat
           /\ CostOf(u, Position) \in Nat
           /\ TotalInvested(u) = CostOf(u, Position)
           /\ IsFiniteSet(OpenPositions(u)) /\ OpenPositions(u) \in SUBSET Position
<1>1. \A p \in Position : CostsOf(u)[p] \in Nat
  BY DEF CostsOf, FundType, Allocation
<1>2. IsFiniteSet(Position)
  BY ConstantsAssumption
<1>3. OpenPositions(u) \in SUBSET Position
  BY DEF OpenPositions
<1>4. \A p \in Position \ OpenPositions(u) : CostsOf(u)[p] = 0
  BY DEF OpenPositions, CostsOf, OnlyOpenCosts
<1>5. SumFunctionOnSet(CostsOf(u), Position) \in Nat
  BY <1>1, <1>2, SumNat
<1>6. SumFunctionOnSet(CostsOf(u), Position) = SumFunctionOnSet(CostsOf(u), OpenPositions(u))
  BY <1>1, <1>2, <1>3, <1>4, SumExtend
<1>7. IsFiniteSet(OpenPositions(u))
  BY <1>2, <1>3, FS_Subset
<1> QED BY <1>1, <1>3, <1>5, <1>6, <1>7 DEF TotalInvested, CostOf, CostsOf

-------------------------------------------------------------------------------
(* Commits *)

FundInv == FundType /\ OnlyOpenCosts /\ BooksAgree

\* What a dashboard relies on while others commit: totals grow, allocations stay.
Grows ==
    /\ \A u \in User : lots[u] <= lots'[u] /\ invested[u] <= invested'[u]
    /\ \A p \in Position, u \in User : allocation[p][u] # None => allocation'[p][u] # None
    /\ commits' = commits + 1
    /\ UNCHANGED dashboard

\* The ledger rows a commit writes, in terms of balances.
LEMMA RecordsEffect ==
    ASSUME FundType, NEW users \in SUBSET User, NEW type \in {"DEPOSIT", "BUY"},
           NEW amount, \A u \in users : amount[u] \in Nat,
           Records(users, type, amount)
    PROVE  /\ rows' \in [User -> Seq(Row)]
           /\ \A u \in User \ users :
                 /\ AccountBalance(u)' = AccountBalance(u)
                 /\ TotalDeposits(u)' = TotalDeposits(u)
           /\ \A u \in users :
                 LET row == [type |-> type, amount |-> amount[u]]
                 IN  /\ AccountBalance(u)' = AccountBalance(u) + Signed(row)
                     /\ TotalDeposits(u)' = TotalDeposits(u) + Deposited(row)
<1>1. PICK place \in [users -> 1..(MaxCommits + 1)] :
         /\ \A u \in users : place[u] <= Len(rows[u]) + 1
         /\ rows' = [u \in User |-> IF u \in users
                        THEN InsertAt(rows[u], place[u], [type |-> type, amount |-> amount[u]])
                        ELSE rows[u]]
  BY DEF Records
<1>2. \A u \in users :
         /\ rows[u] \in Seq(Row)
         /\ [type |-> type, amount |-> amount[u]] \in Row
         /\ place[u] \in 1..(Len(rows[u]) + 1)
  <2> SUFFICES ASSUME NEW u \in users
               PROVE  /\ rows[u] \in Seq(Row)
                      /\ [type |-> type, amount |-> amount[u]] \in Row
                      /\ place[u] \in 1..(Len(rows[u]) + 1)
    OBVIOUS
  <2>1. rows[u] \in Seq(Row) /\ Len(rows[u]) \in Nat
    BY DEF FundType
  <2>2. MaxCommits \in Nat /\ place[u] \in 1..(MaxCommits + 1)
    BY ConstantsAssumption
  <2>3. place[u] \in 1..(Len(rows[u]) + 1)
    BY <1>1, <2>1, <2>2
  <2> QED BY <2>1, <2>3 DEF Row
<1>3. \A u \in User : /\ AccountBalance(u) = BalanceOf(rows[u])
                       /\ TotalDeposits(u) = DepositsOf(rows[u])
                       /\ AccountBalance(u)' = BalanceOf(rows'[u])
                       /\ TotalDeposits(u)' = DepositsOf(rows'[u])
  BY DEF AccountBalance, TotalDeposits, BalanceOf, DepositsOf
<1>4. \A u \in users :
         LET row == [type |-> type, amount |-> amount[u]]
         IN  /\ rows'[u] \in Seq(Row)
             /\ BalanceOf(rows'[u]) = BalanceOf(rows[u]) + Signed(row)
             /\ DepositsOf(rows'[u]) = DepositsOf(rows[u]) + Deposited(row)
  <2> SUFFICES ASSUME NEW u \in users, NEW row, row = [type |-> type, amount |-> amount[u]]
               PROVE  /\ rows'[u] \in Seq(Row)
                      /\ BalanceOf(rows'[u]) = BalanceOf(rows[u]) + Signed(row)
                      /\ DepositsOf(rows'[u]) = DepositsOf(rows[u]) + Deposited(row)
    OBVIOUS
  <2>1. rows'[u] = InsertAt(rows[u], place[u], row)
    BY <1>1
  <2>2. rows[u] \in Seq(Row) /\ row \in Row /\ place[u] \in 1..(Len(rows[u]) + 1)
    BY <1>2
  <2>3. InsertAt(rows[u], place[u], row) \in Seq(Row)
    BY <2>2, Inserted
  <2>4. /\ BalanceOf(InsertAt(rows[u], place[u], row)) = BalanceOf(rows[u]) + Signed(row)
        /\ DepositsOf(InsertAt(rows[u], place[u], row)) = DepositsOf(rows[u]) + Deposited(row)
    BY <2>2, InsertedSums
  <2> QED BY <2>1, <2>3, <2>4
<1>5. \A u \in User \ users : rows'[u] = rows[u]
  BY <1>1
<1>6. rows' \in [User -> Seq(Row)]
  <2>1. \A u \in User : rows'[u] \in Seq(Row)
    BY <1>4, <1>5 DEF FundType
  <2>2. rows' = [u \in User |-> rows'[u]]
    BY <1>1
  <2> QED BY <2>1, <2>2
<1> QED BY <1>3, <1>4, <1>5, <1>6

\* A deposit keeps the books.
LEMMA DepositStep ==
    ASSUME FundInv, NEW u \in User, NEW amount \in Amount, Deposit(u, amount)
    PROVE  FundInv' /\ Grows
<1>1. /\ cash' = [cash EXCEPT ![u] = @ + amount]
      /\ lots' = [lots EXCEPT ![u] = @ + amount]
      /\ invested' = invested /\ allocation' = allocation
      /\ commits' = commits + 1 /\ UNCHANGED dashboard
  BY DEF Deposit, Fund!Deposit, Another
<1>2. amount \in Nat /\ amount > 0
  BY ConstantsAssumption
<1>3. FundType
  BY DEF FundInv
<1>4. /\ rows' \in [User -> Seq(Row)]
      /\ \A v \in User \ {u} : /\ AccountBalance(v)' = AccountBalance(v)
                               /\ TotalDeposits(v)' = TotalDeposits(v)
      /\ AccountBalance(u)' = AccountBalance(u) + amount
      /\ TotalDeposits(u)' = TotalDeposits(u) + amount
  <2> DEFINE amounts == [v \in {u} |-> amount]
             row == [type |-> "DEPOSIT", amount |-> amounts[u]]
  <2>1. \A v \in {u} : amounts[v] \in Nat
    BY <1>2
  <2>2. Records({u}, "DEPOSIT", amounts)
    BY DEF Deposit
  <2>3. Signed(row) = amount /\ Deposited(row) = amount
    BY DEF Signed, Deposited
  <2> HIDE DEF amounts
  <2>4. /\ rows' \in [User -> Seq(Row)]
        /\ \A v \in User \ {u} : /\ AccountBalance(v)' = AccountBalance(v)
                                 /\ TotalDeposits(v)' = TotalDeposits(v)
        /\ \A v \in {u} :
              LET r == [type |-> "DEPOSIT", amount |-> amounts[v]]
              IN  /\ AccountBalance(v)' = AccountBalance(v) + Signed(r)
                  /\ TotalDeposits(v)' = TotalDeposits(v) + Deposited(r)
    BY <1>3, <2>1, <2>2, RecordsEffect
  <2> QED BY <2>3, <2>4
<1>5. FundType'
  BY <1>1, <1>2, <1>3, <1>4 DEF FundType
<1>6. OnlyOpenCosts' /\ \A v \in User : CostOf(v, Position)' = CostOf(v, Position)
  BY <1>1 DEF FundInv, OnlyOpenCosts, CostOf
<1>7. BooksAgree'
  <2> SUFFICES ASSUME NEW v \in User
               PROVE  /\ AccountBalance(v)' = cash'[v]
                      /\ TotalDeposits(v)' = lots'[v]
                      /\ cash'[v] = lots'[v] - invested'[v]
                      /\ 0 <= CostOf(v, Position)'
                      /\ CostOf(v, Position)' <= invested'[v]
    BY DEF BooksAgree
  <2>1. /\ AccountBalance(v) = cash[v] /\ TotalDeposits(v) = lots[v]
        /\ cash[v] = lots[v] - invested[v]
        /\ 0 <= CostOf(v, Position) /\ CostOf(v, Position) <= invested[v]
    BY DEF FundInv, BooksAgree
  <2>2. cash[v] \in Int /\ lots[v] \in Int /\ invested[v] \in Int
    BY <1>3 DEF FundType
  <2>3. CASE v = u
    <3>1. cash'[v] = cash[v] + amount /\ lots'[v] = lots[v] + amount
      BY <1>1, <1>3, <2>3 DEF FundType
    <3> QED BY <1>1, <1>2, <1>4, <1>6, <2>1, <2>2, <2>3, <3>1
  <2>4. CASE v # u
    <3>1. cash'[v] = cash[v] /\ lots'[v] = lots[v]
      BY <1>1, <1>3, <2>4 DEF FundType
    <3> QED BY <1>1, <1>4, <1>6, <2>1, <2>4, <3>1
  <2> QED BY <2>3, <2>4
<1>8. Grows
  BY <1>1, <1>2, <1>3 DEF Grows, FundType
<1> QED BY <1>5, <1>6, <1>7, <1>8 DEF FundInv

\* What a commit to one position changes of a user's costs.
LEMMA CostChange ==
    ASSUME allocation \in [Position -> [User -> Allocation]],
           allocation' \in [Position -> [User -> Allocation]],
           NEW p \in Position, NEW v \in User,
           \A q \in Position \ {p} : allocation'[q][v] = allocation[q][v]
    PROVE  CostOf(v, Position)'
              = CostOf(v, Position) - allocation[p][v].cost + allocation'[p][v].cost
<1> DEFINE f == [q \in Position |-> allocation[q][v].cost]
           g == [q \in Position |-> allocation'[q][v].cost]
<1>1. /\ \A q \in Position : f[q] \in Int /\ g[q] \in Int
      /\ \A q \in Position \ {p} : g[q] = f[q]
  BY DEF Allocation
<1>2. IsFiniteSet(Position)
  BY ConstantsAssumption
<1>3. SumFunctionOnSet(g, Position) = SumFunctionOnSet(f, Position) - f[p] + g[p]
  <2> HIDE DEF f, g
  <2> QED BY <1>1, <1>2, SumChange
<1> QED BY <1>3 DEF CostOf

\* A buy keeps the books.
LEMMA BuyStep ==
    ASSUME FundInv, NEW p \in Position, NEW users \in SUBSET User, NEW cost \in [users -> Cost],
           Buy(p, users, cost)
    PROVE  FundInv' /\ Grows
<1>1. /\ cash' = [u \in User |-> IF u \in users THEN cash[u] - cost[u] ELSE cash[u]]
      /\ invested' = [u \in User |-> IF u \in users THEN invested[u] + cost[u] ELSE invested[u]]
      /\ lots' = lots
      /\ commits' = commits + 1 /\ UNCHANGED dashboard
      /\ \A u \in User : allocation[p][u] = None
      /\ allocation' = [allocation EXCEPT ![p] =
             [u \in User |-> IF u \in users THEN [status |-> "OPEN", cost |-> cost[u]] ELSE @[u]]]
      /\ Records(users, "BUY", cost)
  BY DEF Buy, Fund!Buy, Another
<1>2. \A u \in users : cost[u] \in Nat /\ cost[u] > 0
  <2>1. \A u \in users : cost[u] \in Cost
    OBVIOUS
  <2>2. \A c \in Cost : c \in Nat /\ c > 0
    BY ConstantsAssumption
  <2> QED BY <2>1, <2>2
<1>3. FundType
  BY DEF FundInv
<1>4. /\ rows' \in [User -> Seq(Row)]
      /\ \A v \in User \ users : /\ AccountBalance(v)' = AccountBalance(v)
                                 /\ TotalDeposits(v)' = TotalDeposits(v)
      /\ \A v \in users : /\ AccountBalance(v)' = AccountBalance(v) - cost[v]
                          /\ TotalDeposits(v)' = TotalDeposits(v)
  <2>1. /\ rows' \in [User -> Seq(Row)]
        /\ \A v \in User \ users : /\ AccountBalance(v)' = AccountBalance(v)
                                   /\ TotalDeposits(v)' = TotalDeposits(v)
        /\ \A v \in users :
              LET r == [type |-> "BUY", amount |-> cost[v]]
              IN  /\ AccountBalance(v)' = AccountBalance(v) + Signed(r)
                  /\ TotalDeposits(v)' = TotalDeposits(v) + Deposited(r)
    BY <1>1, <1>2, <1>3, RecordsEffect
  <2>2. \A v \in users : /\ AccountBalance(v)' = AccountBalance(v) + (-cost[v])
                         /\ TotalDeposits(v)' = TotalDeposits(v) + 0
    BY <2>1 DEF Signed, Deposited
  <2>3. \A v \in users : AccountBalance(v) \in Int /\ TotalDeposits(v) \in Int
    BY <1>3 DEF FundInv, BooksAgree, FundType
  <2> QED BY <1>2, <2>1, <2>2, <2>3
<1>5. /\ allocation' \in [Position -> [User -> Allocation]]
      /\ \A q \in Position \ {p} : allocation'[q] = allocation[q]
      /\ \A u \in users : allocation'[p][u] = [status |-> "OPEN", cost |-> cost[u]]
      /\ \A u \in User \ users : allocation'[p][u] = allocation[p][u]
  BY <1>1, <1>2, <1>3 DEF FundType, Allocation
<1>6. FundType'
  <2>1. cash' \in [User -> Int] /\ lots' \in [User -> Int] /\ invested' \in [User -> Int]
    BY <1>1, <1>2, <1>3 DEF FundType
  <2>2. commits' \in Nat
    BY <1>1, <1>3 DEF FundType
  <2> QED BY <1>4, <1>5, <2>1, <2>2 DEF FundType
<1>7. OnlyOpenCosts'
  <2> SUFFICES ASSUME NEW q \in Position, NEW u \in User, allocation'[q][u].status # "OPEN"
               PROVE  allocation'[q][u].cost = 0
    BY DEF OnlyOpenCosts
  <2>1. CASE q = p /\ u \in users
    <3>1. allocation'[q][u] = [status |-> "OPEN", cost |-> cost[u]]
      BY <1>5, <2>1
    <3> QED BY <3>1
  <2>2. CASE ~(q = p /\ u \in users)
    <3>1. allocation'[q][u] = allocation[q][u]
      BY <1>5, <2>2
    <3> QED BY <3>1 DEF FundInv, OnlyOpenCosts
  <2> QED BY <2>1, <2>2
<1>8. \A v \in User : CostOf(v, Position)' =
         CostOf(v, Position) - allocation[p][v].cost + allocation'[p][v].cost
  BY <1>3, <1>5, CostChange DEF FundType
<1>9. BooksAgree'
  <2> SUFFICES ASSUME NEW v \in User
               PROVE  /\ AccountBalance(v)' = cash'[v]
                      /\ TotalDeposits(v)' = lots'[v]
                      /\ cash'[v] = lots'[v] - invested'[v]
                      /\ 0 <= CostOf(v, Position)'
                      /\ CostOf(v, Position)' <= invested'[v]
    BY DEF BooksAgree
  <2>1. /\ AccountBalance(v) = cash[v] /\ TotalDeposits(v) = lots[v]
        /\ cash[v] = lots[v] - invested[v]
        /\ 0 <= CostOf(v, Position) /\ CostOf(v, Position) <= invested[v]
    BY DEF FundInv, BooksAgree
  <2>2. cash[v] \in Int /\ lots[v] \in Int /\ invested[v] \in Int
    BY <1>3 DEF FundType
  <2>3. CostOf(v, Position) \in Int
    BY <1>3, CostTypes DEF FundInv
  <2>4. allocation[p][v].cost = 0
    BY <1>1 DEF None
  <2>5. CASE v \in users
    <3>1. /\ cash'[v] = cash[v] - cost[v] /\ invested'[v] = invested[v] + cost[v]
          /\ lots'[v] = lots[v]
      BY <1>1, <2>5
    <3>2. allocation'[p][v].cost = cost[v]
      <4>1. allocation'[p][v] = [status |-> "OPEN", cost |-> cost[v]]
        BY <1>5, <2>5
      <4> QED BY <4>1
    <3>3. CostOf(v, Position)' = CostOf(v, Position) + cost[v]
      BY <1>2, <1>8, <2>3, <2>4, <2>5, <3>2
    <3> QED BY <1>2, <1>4, <2>1, <2>2, <2>3, <2>5, <3>1, <3>3
  <2>6. CASE v \notin users
    <3>1. cash'[v] = cash[v] /\ invested'[v] = invested[v] /\ lots'[v] = lots[v]
      BY <1>1, <2>6
    <3>2. CostOf(v, Position)' = CostOf(v, Position)
      BY <1>5, <1>8, <2>3, <2>4, <2>6
    <3> QED BY <1>4, <2>1, <2>6, <3>1, <3>2
  <2> QED BY <2>5, <2>6
<1>10. Grows
  <2>1. \A u \in User : lots[u] <= lots'[u] /\ invested[u] <= invested'[u]
    BY <1>1, <1>2, <1>3 DEF FundType
  <2>2. \A q \in Position, u \in User : allocation[q][u] # None => allocation'[q][u] # None
    BY <1>1, <1>5
  <2> QED BY <1>1, <2>1, <2>2 DEF Grows
<1> QED BY <1>6, <1>7, <1>9, <1>10 DEF FundInv

\* A sell keeps the books: what is left of an allocation costs no more than before.
LEMMA SellStep ==
    ASSUME FundInv, NEW p \in Position, NEW users \in SUBSET User, Sell(p, users)
    PROVE  FundInv' /\ Grows
<1>1. PICK left \in [users -> {None} \cup [status : {"OPEN"}, cost : Cost]] :
         /\ \A u \in users : left[u] = None \/ left[u].cost <= allocation[p][u].cost
         /\ allocation' = [allocation EXCEPT ![p] =
                [u \in User |-> IF u \notin users THEN @[u]
                                ELSE IF left[u] = None THEN [status |-> "CLOSED", cost |-> 0]
                                ELSE left[u]]]
  BY DEF Sell
<1>2. /\ UNCHANGED <<cash, lots, invested, rows>>
      /\ commits' = commits + 1 /\ UNCHANGED dashboard
      /\ \A u \in users : allocation[p][u].status = "OPEN"
  BY DEF Sell, Another
<1>3. FundType
  BY DEF FundInv
<1>4. /\ \A q \in Position \ {p} : allocation'[q] = allocation[q]
      /\ \A u \in User \ users : allocation'[p][u] = allocation[p][u]
      /\ \A u \in users : allocation'[p][u] = IF left[u] = None
                                             THEN [status |-> "CLOSED", cost |-> 0] ELSE left[u]
  BY <1>1, <1>3 DEF FundType
<1>5. \A u \in users :
         /\ allocation'[p][u] \in Allocation
         /\ allocation'[p][u] # None
         /\ allocation'[p][u].status # "OPEN" => allocation'[p][u].cost = 0
         /\ allocation'[p][u].cost <= allocation[p][u].cost
  <2> SUFFICES ASSUME NEW u \in users
               PROVE  /\ allocation'[p][u] \in Allocation
                      /\ allocation'[p][u] # None
                      /\ allocation'[p][u].status # "OPEN" => allocation'[p][u].cost = 0
                      /\ allocation'[p][u].cost <= allocation[p][u].cost
    OBVIOUS
  <2>1. allocation[p][u].cost \in Nat
    BY <1>3 DEF FundType, Allocation
  <2>2. CASE left[u] = None
    <3>1. allocation'[p][u] = [status |-> "CLOSED", cost |-> 0]
      BY <1>4, <2>2
    <3> QED BY <2>1, <3>1 DEF Allocation, None
  <2>3. CASE left[u] # None
    <3>1. allocation'[p][u] = left[u] /\ left[u] \in [status : {"OPEN"}, cost : Cost]
      BY <1>4, <2>3
    <3>2. left[u].cost \in Nat /\ left[u].status = "OPEN" /\ left[u] \in Allocation
      BY <3>1, ConstantsAssumption DEF Allocation
    <3> QED BY <1>1, <2>3, <3>1, <3>2
  <2> QED BY <2>2, <2>3
<1>6. allocation' \in [Position -> [User -> Allocation]]
  <2>1. \A u \in User : allocation'[p][u] \in Allocation
    BY <1>3, <1>4, <1>5 DEF FundType
  <2>2. allocation'[p] \in [User -> Allocation]
    BY <1>1, <1>3, <2>1 DEF FundType
  <2>3. allocation' = [q \in Position |-> allocation'[q]]
    BY <1>1, <1>3 DEF FundType
  <2>4. \A q \in Position : allocation'[q] \in [User -> Allocation]
    BY <1>3, <1>4, <2>2 DEF FundType
  <2> QED BY <2>3, <2>4
<1>7. FundType'
  BY <1>2, <1>3, <1>6 DEF FundType
<1>8. OnlyOpenCosts'
  BY <1>4, <1>5 DEF FundInv, OnlyOpenCosts
<1>9. BooksAgree'
  <2> SUFFICES ASSUME NEW v \in User
               PROVE  /\ AccountBalance(v)' = cash'[v]
                      /\ TotalDeposits(v)' = lots'[v]
                      /\ cash'[v] = lots'[v] - invested'[v]
                      /\ 0 <= CostOf(v, Position)'
                      /\ CostOf(v, Position)' <= invested'[v]
    BY DEF BooksAgree
  <2>1. /\ AccountBalance(v) = cash[v] /\ TotalDeposits(v) = lots[v]
        /\ cash[v] = lots[v] - invested[v]
        /\ 0 <= CostOf(v, Position) /\ CostOf(v, Position) <= invested[v]
        /\ invested[v] \in Int
    BY <1>3 DEF FundInv, BooksAgree, FundType
  <2>2. AccountBalance(v)' = AccountBalance(v) /\ TotalDeposits(v)' = TotalDeposits(v)
    BY <1>2 DEF AccountBalance, TotalDeposits
  <2>3. CostOf(v, Position) \in Int /\ CostOf(v, Position)' \in Nat
    <3>1. CostOf(v, Position) \in Nat
      BY <1>3, CostTypes DEF FundInv
    <3>2. \A q \in Position : allocation'[q][v].cost \in Nat
      BY <1>6 DEF Allocation
    <3> DEFINE g == [q \in Position |-> allocation'[q][v].cost]
    <3>3. SumFunctionOnSet(g, Position) \in Nat
      <4>1. \A q \in Position : g[q] \in Nat
        BY <3>2
      <4> HIDE DEF g
      <4> QED BY <4>1, ConstantsAssumption, SumNat
    <3> QED BY <3>1, <3>3 DEF CostOf
  <2>4. CostOf(v, Position)' =
           CostOf(v, Position) - allocation[p][v].cost + allocation'[p][v].cost
    BY <1>3, <1>4, <1>6, CostChange DEF FundType
  <2>5. allocation'[p][v].cost <= allocation[p][v].cost
        /\ allocation[p][v].cost \in Int /\ allocation'[p][v].cost \in Int
    <3>1. allocation[p][v].cost \in Int /\ allocation'[p][v].cost \in Int
      BY <1>3, <1>6 DEF FundType, Allocation
    <3> QED BY <1>4, <1>5, <3>1
  <2> QED BY <1>2, <2>1, <2>2, <2>3, <2>4, <2>5
<1>10. Grows
  <2>1. \A u \in User : lots[u] <= lots'[u] /\ invested[u] <= invested'[u]
    BY <1>2, <1>3 DEF FundType
  <2>2. \A q \in Position, u \in User : allocation[q][u] # None => allocation'[q][u] # None
    <3> SUFFICES ASSUME NEW q \in Position, NEW u \in User, allocation[q][u] # None
                 PROVE  allocation'[q][u] # None
      OBVIOUS
    <3>1. CASE q = p /\ u \in users
      BY <1>5, <3>1
    <3>2. CASE ~(q = p /\ u \in users)
      BY <1>4, <3>2
    <3> QED BY <3>1, <3>2
  <2> QED BY <1>2, <2>1, <2>2 DEF Grows
<1> QED BY <1>7, <1>8, <1>9, <1>10 DEF FundInv

-------------------------------------------------------------------------------
(* What the statements return *)

\* The allocations of a user are as many as the positions, and cost as much.
LEMMA ListedAllocations ==
    ASSUME FundType, OnlyOpenCosts, NEW u \in User
    PROVE  /\ OpenAllocations(u) \in SUBSET Holding
           /\ Cardinality(OpenAllocations(u)) = ActivePositionCount(u)
           /\ SumFunction([a \in OpenAllocations(u) |-> a.cost]) = TotalInvested(u)
<1> DEFINE S == OpenPositions(u)
           R == OpenAllocations(u)
           f == CostsOf(u)
           g == [a \in R |-> a.cost]
           h == [p \in S |-> [position |-> p, cost |-> allocation[p][u].cost]]
<1>1. /\ IsFiniteSet(S) /\ S \in SUBSET Position
      /\ \A p \in Position : f[p] \in Nat /\ f[p] = allocation[p][u].cost
  BY CostTypes DEF CostsOf
<1>2. R \in SUBSET Holding
  BY <1>1 DEF OpenAllocations, Holding
<1>3. \A p \in S : h[p] \in R /\ f[p] \in Int /\ g[h[p]] = f[p]
  BY <1>1 DEF OpenAllocations
<1>4. \A p, q \in S : h[p] = h[q] => p = q
  OBVIOUS
<1>5. \A a \in R : \E p \in S : h[p] = a
  BY DEF OpenAllocations
<1>6. Cardinality(R) = Cardinality(S)
  <2>1. h \in Bijection(S, R)
    BY <1>3, <1>4, <1>5 DEF Bijection, Injection, Surjection, IsInjective
  <2> QED BY <1>1, <2>1, FS_Bijection DEF ExistsBijection
<1>7. SumFunctionOnSet(g, R) = SumFunctionOnSet(f, S)
  <2> HIDE DEF f, g, h, R, S
  <2> QED BY <1>1, <1>3, <1>4, <1>5, SumBijection
<1>8. TotalInvested(u) = SumFunctionOnSet(f, S)
  BY DEF TotalInvested, CostOf, CostsOf
<1> QED BY <1>2, <1>6, <1>7, <1>8 DEF ActivePositionCount, SumFunction

\* Fewer recent transactions than were asked for are all there are.
LEMMA RecentOrAll ==
    ASSUME FundType, NEW u \in User
    PROVE  /\ RecentTransactions(u) \in Seq(Row)
           /\ Len(RecentTransactions(u)) < RecentLimit =>
                 BalanceOf(RecentTransactions(u)) = AccountBalance(u)
<1> DEFINE s == rows[u]
           n == Len(s)
           r == Reverse(s)
           m == IF n < RecentLimit THEN n ELSE RecentLimit
           t == RecentTransactions(u)
<1>1. s \in Seq(Row) /\ n \in Nat /\ DOMAIN s = 1..n /\ RecentLimit \in Nat
  BY ConstantsAssumption, LenProperties DEF FundType
<1>2. \A i \in 1..n : n - i + 1 \in 1..n /\ r[i] = s[n - i + 1] /\ s[n - i + 1] \in Row
  BY <1>1 DEF Reverse
<1>3. r \in Seq(Row) /\ Len(r) = n
  <2>1. r \in [1..n -> Row]
    BY <1>1, <1>2 DEF Reverse
  <2> QED BY <1>1, <2>1, SeqDef, LenProperties
<1> HIDE DEF r, s, n
<1>4. t = SubSeq(r, 1, m)
  BY <1>3 DEF RecentTransactions, r, s
<1>5. m \in Nat /\ m <= n
  BY <1>1
<1>6. \A i \in 1..m : r[i] \in Row
  BY <1>1, <1>2, <1>5
<1>7. t \in Seq(Row) /\ Len(t) = m /\ \A i \in 1..m : t[i] = r[1 + i - 1]
  <2>1. (IF 1 <= m THEN m - 1 + 1 ELSE 0) = m /\ m - 1 + 1 = m
    BY <1>5
  <2> HIDE DEF m, t
  <2> QED BY <1>4, <1>5, <1>6, <2>1, SubSeqProperties
<1>8. ASSUME m < RecentLimit PROVE BalanceOf(t) = AccountBalance(u)
  <2>1. m = n
    BY <1>1, <1>8
  <2> DEFINE S == 1..n
             f == [i \in S |-> Signed(t[i])]
             g == [i \in S |-> Signed(s[i])]
             h == [i \in S |-> n - i + 1]
  <2>2. \A i \in S : t[i] = s[n - i + 1] /\ t[i] \in Row
    <3> SUFFICES ASSUME NEW i \in S PROVE t[i] = s[n - i + 1] /\ t[i] \in Row
      OBVIOUS
    <3>1. 1 + i - 1 = i
      BY <1>1
    <3> QED BY <1>2, <1>7, <2>1, <3>1
  <2>3. \A i \in S : h[i] \in S /\ f[i] \in Int /\ g[h[i]] = f[i]
    BY <1>2, <2>2, RowAmounts
  <2>4. \A i, j \in S : h[i] = h[j] => i = j
    BY <1>1
  <2>5. \A j \in S : \E i \in S : h[i] = j
    <3> SUFFICES ASSUME NEW j \in S PROVE h[n - j + 1] = j /\ n - j + 1 \in S
      OBVIOUS
    <3> QED BY <1>1
  <2>6. IsFiniteSet(S)
    BY <1>1, FS_Interval
  <2>7. DOMAIN t = S /\ DOMAIN s = S
    BY <1>1, <1>7, <2>1, LenProperties
  <2>8. BalanceOf(t) = SumFunctionOnSet(f, S) /\ AccountBalance(u) = SumFunctionOnSet(g, S)
    BY <2>7 DEF BalanceOf, AccountBalance, SumFunction, s
  <2>9. SumFunctionOnSet(g, S) = SumFunctionOnSet(f, S)
    <3> HIDE DEF f, g, h, S
    <3> QED BY <2>3, <2>4, <2>5, <2>6, SumBijection
  <2> QED BY <2>8, <2>9
<1> QED BY <1>7, <1>8

-------------------------------------------------------------------------------
(* The order of the statements *)

\* The statement after the n-th is the first one that is due.
LEMMA Follows ==
    ASSUME NEW n \in 1..9, NEW m \in 1..9, n < m,
           Statements[m] \in {"balance", "deposits", "recent"} => investor \in HasCashAccount,
           \A k \in 1..9 : n < k /\ k < m =>
              /\ Statements[k] \in {"balance", "deposits", "recent"}
              /\ investor \notin HasCashAccount
    PROVE  NextStatement(Statements[n]) = Statements[m]
<1> DEFINE now == CHOOSE i \in DOMAIN Statements : Statements[i] = Statements[n]
           due == {i \in DOMAIN Statements :
                      /\ i > now
                      /\ Statements[i] \in {"balance", "deposits", "recent"} =>
                            investor \in HasCashAccount}
<1>1. DOMAIN Statements = 1..9
  BY DEF Statements
<1>2. \A i \in 1..9 : Statements[i] = Statements[n] => i = n
  BY DEF Statements
<1>3. now = n
  BY <1>1, <1>2
<1> HIDE DEF now
<1>4. m \in due
  BY <1>1, <1>3
<1>5. \A k \in due : m <= k
  BY <1>1, <1>3
<1>6. due \in SUBSET Nat
  BY <1>1
<1> HIDE DEF due
<1>7. \A x \in due : (\A y \in due : x <= y) => x = m
  BY <1>4, <1>5, <1>6
<1>8. Min(due) = m
  BY <1>4, <1>5, <1>7 DEF Min
<1> QED BY <1>4, <1>8 DEF NextStatement, due, now

\* The statements of a dashboard one after the other; three of them need an account.
LEMMA Order ==
    /\ NextStatement("profile") = "account"
    /\ investor \in HasCashAccount =>
          /\ NextStatement("account") = "balance"
          /\ NextStatement("balance") = "deposits"
          /\ NextStatement("deposits") = "recent"
          /\ NextStatement("recent") = "invested"
    /\ investor \notin HasCashAccount => NextStatement("account") = "invested"
    /\ NextStatement("invested") = "count"
    /\ NextStatement("count") = "allocations"
    /\ NextStatement("allocations") = "positions"
    /\ NextStatement("positions") = "answered"
<1>1. /\ Statements[1] = "profile" /\ Statements[2] = "account" /\ Statements[3] = "balance"
      /\ Statements[4] = "deposits" /\ Statements[5] = "recent" /\ Statements[6] = "invested"
      /\ Statements[7] = "count" /\ Statements[8] = "allocations"
      /\ Statements[9] = "positions"
      /\ DOMAIN Statements = 1..9
  BY DEF Statements
<1>2. NextStatement(Statements[1]) = Statements[2]
  BY <1>1, Follows
<1>3. ASSUME investor \in HasCashAccount
      PROVE  /\ NextStatement(Statements[2]) = Statements[3]
             /\ NextStatement(Statements[3]) = Statements[4]
             /\ NextStatement(Statements[4]) = Statements[5]
             /\ NextStatement(Statements[5]) = Statements[6]
  <2>1. NextStatement(Statements[2]) = Statements[3]
    BY <1>3, Follows
  <2>2. NextStatement(Statements[3]) = Statements[4]
    BY <1>3, Follows
  <2>3. NextStatement(Statements[4]) = Statements[5]
    BY <1>3, Follows
  <2>4. NextStatement(Statements[5]) = Statements[6]
    BY <1>1, Follows
  <2> QED BY <2>1, <2>2, <2>3, <2>4
<1>4. ASSUME investor \notin HasCashAccount
      PROVE  NextStatement(Statements[2]) = Statements[6]
  <2>1. \A k \in 1..9 : 2 < k /\ k < 6 => Statements[k] \in {"balance", "deposits", "recent"}
    <3>1. \A k \in 1..9 : 2 < k /\ k < 6 => k = 3 \/ k = 4 \/ k = 5
      OBVIOUS
    <3> QED BY <1>1, <3>1
  <2> QED BY <1>1, <1>4, <2>1, Follows
<1>5. NextStatement(Statements[6]) = Statements[7]
  BY <1>1, Follows
<1>6. NextStatement(Statements[7]) = Statements[8]
  BY <1>1, Follows
<1>7. NextStatement(Statements[8]) = Statements[9]
  BY <1>1, Follows
<1>8. NextStatement("positions") = "answered"
  <2> DEFINE now == CHOOSE i \in DOMAIN Statements : Statements[i] = "positions"
             due == {i \in DOMAIN Statements :
                        /\ i > now
                        /\ Statements[i] \in {"balance", "deposits", "recent"} =>
                              investor \in HasCashAccount}
  <2>1. now = 9
    <3>1. \A i \in 1..9 : Statements[i] = "positions" => i = 9
      BY DEF Statements
    <3> QED BY <1>1, <3>1
  <2>2. due = {}
    BY <1>1, <2>1
  <2> QED BY <2>2 DEF NextStatement
<1> QED BY <1>1, <1>2, <1>3, <1>4, <1>5, <1>6, <1>7, <1>8

\* A statement leads to the next state of the dashboard, where it has been made.
LEMMA NextIsDue ==
    ASSUME Progress, at \notin {"profile", "answered", "refused"}
    PROVE  LET next == NextStatement(at)
           IN  /\ next \in {"account", "balance", "deposits", "recent", "invested", "count",
                            "allocations", "positions", "answered"}
               /\ next \in {"balance", "deposits", "recent"} => investor \in HasCashAccount
               /\ MadeBy(next) = MadeBy(at) \cup {at}
               /\ at \notin MadeBy(at)
<1>1. CASE at \in {"balance", "deposits", "recent"}
  BY <1>1, Order DEF Progress, MadeBy, OfAccount
<1>2. CASE at = "account"
  BY <1>2, Order DEF MadeBy, OfAccount
<1>3. CASE at \in {"invested", "count", "allocations", "positions"}
  BY <1>3, Order DEF MadeBy, OfAccount
<1> QED BY <1>1, <1>2, <1>3 DEF Progress

-------------------------------------------------------------------------------
(* A statement, and what commits leave of it *)

\* What every statement records of the moment it is made at.
LEMMA Recorded ==
    ASSUME DashboardInv, NEW q, Read(q), q \notin {"profile", "answered", "refused"},
           view' \in View
    PROVE  /\ FundType' /\ DashboardType' /\ OnlyOpenCosts' /\ BooksAgree'
           /\ Progress' /\ HistoryGrows'
           /\ at = q /\ ~Made(q)
           /\ UNCHANGED <<fund, investor>>
           /\ DOMAIN asOf' = DOMAIN asOf \cup {q}
           /\ \A r \in DOMAIN asOf : asOf'[r] = asOf[r]
           /\ asOf'[q].lots = lots[investor] /\ asOf'[q].invested = invested[investor]
           /\ asOf'[q].sold = invested[investor] - CostOf(investor, Position)
           /\ asOf'[q].commits = commits
<1> USE DEF DashboardInv
<1>1. /\ UNCHANGED <<fund, investor>> /\ at = q /\ at' = NextStatement(q)
      /\ asOf' = [r \in DOMAIN asOf \cup {q} |-> IF r # q THEN asOf[r] ELSE
             [lots |-> lots[investor], invested |-> invested[investor],
              sold |-> invested[investor] - CostOf(investor, Position),
              commits |-> commits]]
  BY DEF Read
<1>2. UNCHANGED <<cash, lots, invested, rows, allocation, commits, investor>>
  BY <1>1 DEF fund
<1>3. FundType' /\ OnlyOpenCosts'
  BY <1>2 DEF FundType, OnlyOpenCosts
<1>4. BooksAgree'
  BY <1>2 DEF BooksAgree, AccountBalance, TotalDeposits, CostOf
<1>5. ~Made(q) /\ DOMAIN asOf' = DOMAIN asOf \cup {q} /\ \A r \in DOMAIN asOf : r # q
  BY <1>1, NextIsDue DEF Progress, Made
<1>6. Progress'
  <2>1. /\ at' \in {"account", "balance", "deposits", "recent", "invested", "count",
                    "allocations", "positions", "answered"}
        /\ at' \in {"balance", "deposits", "recent"} => investor \in HasCashAccount
        /\ MadeBy(at') = MadeBy(at) \cup {at}
    BY <1>1, NextIsDue
  <2>2. MadeBy(at') = MadeBy(at)'
    BY <1>2 DEF MadeBy, OfAccount
  <2> QED BY <1>1, <1>2, <1>5, <2>1, <2>2 DEF Progress
<1>7. \A r \in DOMAIN asOf : asOf'[r] = asOf[r]
  BY <1>1, <1>5
<1>8. asOf'[q] = [lots |-> lots[investor], invested |-> invested[investor],
                  sold |-> invested[investor] - CostOf(investor, Position),
                  commits |-> commits]
  BY <1>1
<1>9. /\ lots[investor] \in Int /\ invested[investor] \in Int /\ commits \in Int
      /\ CostOf(investor, Position) \in Int
      /\ 0 <= invested[investor] - CostOf(investor, Position)
      /\ 0 <= CostOf(investor, Position)
  BY CostTypes DEF FundType, DashboardType, BooksAgree
<1>10. asOf'[q] \in Moment
  BY <1>8, <1>9 DEF Moment
<1>11. DashboardType'
  <2>1. \A r \in DOMAIN asOf' : asOf'[r] \in Moment
    BY <1>5, <1>7, <1>10 DEF DashboardType
  <2>2. asOf' = [r \in DOMAIN asOf' |-> asOf'[r]]
    BY <1>1
  <2> QED BY <1>2, <2>1, <2>2 DEF DashboardType
<1>12. /\ asOf'[q].lots = lots[investor] /\ asOf'[q].invested = invested[investor]
       /\ asOf'[q].sold = invested[investor] - CostOf(investor, Position)
       /\ asOf'[q].commits = commits
  BY <1>8
<1>13. HistoryGrows'
  <2>1. \A r \in DOMAIN asOf' :
           /\ asOf'[r].lots <= lots[investor] /\ asOf'[r].invested <= invested[investor]
           /\ asOf'[r].commits <= commits
           /\ 0 <= asOf'[r].sold /\ asOf'[r].sold <= asOf'[r].invested
    <3>1. \A r \in DOMAIN asOf :
             /\ asOf'[r].lots <= lots[investor] /\ asOf'[r].invested <= invested[investor]
             /\ asOf'[r].commits <= commits
             /\ 0 <= asOf'[r].sold /\ asOf'[r].sold <= asOf'[r].invested
      BY <1>7 DEF HistoryGrows
    <3> QED BY <1>5, <1>9, <1>12, <3>1
  <2>2. "balance" \in DOMAIN asOf' /\ "deposits" \in DOMAIN asOf' =>
           asOf'["balance"].lots <= asOf'["deposits"].lots
    <3>1. CASE q = "balance"
      <4>1. "deposits" \notin DOMAIN asOf'
        BY <1>1, <1>5, <3>1 DEF Progress, MadeBy
      <4> QED BY <4>1
    <3>2. CASE q = "deposits"
      BY <1>12, <2>1, <3>2
    <3>3. CASE q \notin {"balance", "deposits"}
      BY <1>5, <1>7, <3>3 DEF HistoryGrows, Made
    <3> QED BY <3>1, <3>2, <3>3
  <2>3. "balance" \in DOMAIN asOf' /\ "invested" \in DOMAIN asOf' =>
           asOf'["balance"].invested <= asOf'["invested"].invested
    <3>1. CASE q = "balance"
      <4>1. "invested" \notin DOMAIN asOf'
        BY <1>1, <1>5, <3>1 DEF Progress, MadeBy
      <4> QED BY <4>1
    <3>2. CASE q = "invested"
      BY <1>12, <2>1, <3>2
    <3>3. CASE q \notin {"balance", "invested"}
      BY <1>5, <1>7, <3>3 DEF HistoryGrows, Made
    <3> QED BY <3>1, <3>2, <3>3
  <2> QED BY <1>2, <2>1, <2>2, <2>3 DEF HistoryGrows, Made
<1> QED BY <1>1, <1>3, <1>4, <1>5, <1>6, <1>7, <1>11, <1>12, <1>13

\* What statement q changes of the view.
Returns(q) ==
    /\ view' \in View
    /\ view'.balance = IF q = "balance" THEN AccountBalance(investor) ELSE view.balance
    /\ view'.deposits = IF q = "deposits" THEN TotalDeposits(investor) ELSE view.deposits
    /\ view'.recent = IF q = "recent" THEN RecentTransactions(investor) ELSE view.recent
    /\ view'.invested = IF q = "invested" THEN TotalInvested(investor) ELSE view.invested
    /\ view'.count = IF q = "count" THEN ActivePositionCount(investor) ELSE view.count
    /\ view'.allocations =
          IF q = "allocations" THEN OpenAllocations(investor) ELSE view.allocations
    /\ view'.holdings = IF q = "positions" THEN view.allocations ELSE view.holdings

\* Every statement keeps the invariant.
LEMMA StatementStep ==
    ASSUME DashboardInv, NEW q, Read(q), Returns(q),
           q \notin {"profile", "answered", "refused"}
    PROVE  DashboardInv'
<1>1. /\ FundType' /\ DashboardType' /\ OnlyOpenCosts' /\ BooksAgree'
      /\ Progress' /\ HistoryGrows'
      /\ at = q /\ ~Made(q)
      /\ UNCHANGED <<fund, investor>>
      /\ DOMAIN asOf' = DOMAIN asOf \cup {q}
      /\ \A r \in DOMAIN asOf : asOf'[r] = asOf[r]
      /\ asOf'[q].lots = lots[investor] /\ asOf'[q].invested = invested[investor]
      /\ asOf'[q].sold = invested[investor] - CostOf(investor, Position)
      /\ asOf'[q].commits = commits
  BY Recorded DEF Returns
<1>2. UNCHANGED <<rows, allocation, commits, investor>>
  BY <1>1 DEF fund
<1>3. /\ AccountBalance(investor)' = AccountBalance(investor)
      /\ TotalInvested(investor)' = TotalInvested(investor)
      /\ ActivePositionCount(investor)' = ActivePositionCount(investor)
  BY <1>2 DEF AccountBalance, TotalInvested, CostOf, OpenPositions, ActivePositionCount
<1>4. \A r : Made(r)' <=> Made(r) \/ r = q
  BY <1>1 DEF Made
<1>5. /\ FundType /\ DashboardType /\ OnlyOpenCosts /\ BooksAgree /\ Progress /\ HistoryGrows
      /\ ViewIsHistory /\ ListedExist /\ UpToDate /\ TogetherAgrees
  BY DEF DashboardInv
<1>6. \A r : Made(r) => asOf'[r] = asOf[r] /\ r # q
  BY <1>1 DEF Made
<1>7. ViewIsHistory'
  <2>1. Made("balance")' => view'.balance = asOf'["balance"].lots - asOf'["balance"].invested
    <3>1. AccountBalance(investor) = lots[investor] - invested[investor]
      BY <1>5 DEF BooksAgree, DashboardType
    <3> QED BY <1>1, <1>4, <1>5, <1>6, <3>1 DEF ViewIsHistory, Returns
  <2>2. Made("deposits")' => view'.deposits = asOf'["deposits"].lots
    BY <1>1, <1>4, <1>5, <1>6 DEF ViewIsHistory, Returns, BooksAgree, DashboardType
  <2>3. Made("invested")' =>
           view'.invested = asOf'["invested"].invested - asOf'["invested"].sold
    <3>1. TotalInvested(investor) = invested[investor] - (invested[investor] - CostOf(investor, Position))
      <4>1. /\ TotalInvested(investor) = CostOf(investor, Position)
            /\ CostOf(investor, Position) \in Int /\ invested[investor] \in Int
        BY <1>5, CostTypes DEF FundType, DashboardType
      <4> QED BY <4>1
    <3> QED BY <1>1, <1>4, <1>5, <1>6, <3>1 DEF ViewIsHistory, Returns
  <2> QED BY <2>1, <2>2, <2>3 DEF ViewIsHistory
<1>8. ListedExist'
  <2>1. ~Made("allocations")' => view'.allocations = {}
    BY <1>4, <1>5 DEF ListedExist, Returns
  <2>2. \A a \in view'.allocations : \E u \in User : allocation[a.position][u] # None
    <3>1. CASE q = "allocations"
      <4>1. \A a \in OpenAllocations(investor) : allocation[a.position][investor].status = "OPEN"
        BY DEF OpenAllocations, OpenPositions
      <4> QED BY <1>5, <3>1, <4>1 DEF Returns, None, DashboardType
    <3>2. CASE q # "allocations"
      BY <1>5, <3>2 DEF ListedExist, Returns
    <3> QED BY <3>1, <3>2
  <2>3. Made("positions")' => view'.holdings = view'.allocations
    <3>1. CASE q = "positions"
      BY <3>1 DEF Returns
    <3>2. CASE q # "positions"
      <4>1. q = "allocations" => ~Made("positions")
        BY <1>1, <1>5 DEF Progress, MadeBy, Made, OfAccount
      <4> QED BY <1>4, <1>5, <3>2, <4>1 DEF ListedExist, Returns
    <3> QED BY <3>1, <3>2
  <2> QED BY <1>2, <2>1, <2>2, <2>3 DEF ListedExist
<1>9. UpToDate'
  <2>1. \A r : ReadNow(r)' <=> ReadNow(r) \/ r = q
    BY <1>1, <1>2, <1>4, <1>6 DEF ReadNow
  <2> QED BY <1>2, <1>3, <1>5, <2>1 DEF UpToDate, Returns
<1>10. TogetherAgrees'
  <2>1. \A r, t : r # q /\ t # q => (ReadTogether(r, t)' <=> ReadTogether(r, t))
    BY <1>4, <1>6 DEF ReadTogether
  <2>2. \A r : r # q /\ ReadTogether(r, q)' => ReadNow(r)
    BY <1>1, <1>4, <1>6 DEF ReadTogether, ReadNow
  <2>3. /\ q = "count" => ~Made("allocations")
        /\ q = "invested" => ~Made("allocations")
        /\ q = "balance" => ~Made("recent")
    BY <1>1, <1>5 DEF Progress, MadeBy, Made, OfAccount
  <2>4. ReadTogether("count", "allocations")' => view'.count = Cardinality(view'.allocations)
    <3>1. CASE q = "allocations"
      <4>1. Cardinality(OpenAllocations(investor)) = ActivePositionCount(investor)
        BY <1>5, ListedAllocations DEF DashboardType
      <4> QED BY <1>5, <2>2, <3>1, <4>1 DEF UpToDate, Returns
    <3>2. CASE q = "count"
      BY <1>4, <2>3, <3>2 DEF ReadTogether
    <3>3. CASE q \notin {"allocations", "count"}
      BY <1>5, <2>1, <3>3 DEF TogetherAgrees, Returns
    <3> QED BY <3>1, <3>2, <3>3
  <2>5. ReadTogether("invested", "allocations")' =>
           view'.invested = SumFunction([a \in view'.allocations |-> a.cost])
    <3>1. CASE q = "allocations"
      <4>1. SumFunction([a \in OpenAllocations(investor) |-> a.cost]) = TotalInvested(investor)
        BY <1>5, ListedAllocations DEF DashboardType
      <4> QED BY <1>5, <2>2, <3>1, <4>1 DEF UpToDate, Returns
    <3>2. CASE q = "invested"
      BY <1>4, <2>3, <3>2 DEF ReadTogether
    <3>3. CASE q \notin {"allocations", "invested"}
      BY <1>5, <2>1, <3>3 DEF TogetherAgrees, Returns
    <3> QED BY <3>1, <3>2, <3>3
  <2>6. ReadTogether("balance", "recent")' /\ Len(view'.recent) < RecentLimit =>
           view'.balance = BalanceOf(view'.recent)
    <3>1. CASE q = "recent"
      <4>1. Len(RecentTransactions(investor)) < RecentLimit =>
               BalanceOf(RecentTransactions(investor)) = AccountBalance(investor)
        BY <1>5, RecentOrAll DEF DashboardType
      <4> QED BY <1>5, <2>2, <3>1, <4>1 DEF UpToDate, Returns
    <3>2. CASE q = "balance"
      BY <1>4, <2>3, <3>2 DEF ReadTogether
    <3>3. CASE q \notin {"recent", "balance"}
      BY <1>5, <2>1, <3>3 DEF TogetherAgrees, Returns, BalanceOf
    <3> QED BY <3>1, <3>2, <3>3
  <2> QED BY <2>4, <2>5, <2>6 DEF TogetherAgrees, BalanceOf
<1> QED BY <1>1, <1>7, <1>8, <1>9, <1>10 DEF DashboardInv

\* A commit of another service keeps the invariant: what a dashboard has read
\* was true of books that only grow.
LEMMA CommitStep ==
    ASSUME DashboardInv, FundInv', Grows
    PROVE  DashboardInv'
<1>1. /\ UNCHANGED <<at, investor, view, asOf>> /\ commits' = commits + 1
      /\ \A u \in User : lots[u] <= lots'[u] /\ invested[u] <= invested'[u]
      /\ \A p \in Position, u \in User : allocation[p][u] # None => allocation'[p][u] # None
  BY DEF Grows, dashboard
<1>2. /\ FundType /\ DashboardType /\ OnlyOpenCosts /\ BooksAgree /\ Progress /\ HistoryGrows
      /\ ViewIsHistory /\ ListedExist /\ UpToDate /\ TogetherAgrees
  BY DEF DashboardInv
<1>3. FundType' /\ OnlyOpenCosts' /\ BooksAgree'
  BY DEF FundInv
<1>4. /\ DashboardType' /\ Progress' /\ ViewIsHistory' /\ TogetherAgrees'
      /\ \A q : Made(q)' <=> Made(q)
  <2>1. DashboardType'
    BY <1>1, <1>2 DEF DashboardType
  <2>2. Progress'
    BY <1>1, <1>2 DEF Progress, MadeBy, OfAccount
  <2>3. ViewIsHistory' /\ \A q : Made(q)' <=> Made(q)
    BY <1>1, <1>2 DEF ViewIsHistory, Made
  <2>4. TogetherAgrees'
    <3>1. view' = view /\ asOf' = asOf
      BY <1>1
    <3>2. \A q, r : ReadTogether(q, r)' <=> ReadTogether(q, r)
      BY <3>1 DEF ReadTogether, Made
    <3> QED BY <1>2, <3>1, <3>2 DEF TogetherAgrees
  <2> QED BY <2>1, <2>2, <2>3, <2>4
<1>5. HistoryGrows'
  <2>1. \A q \in DOMAIN asOf : asOf[q] \in Moment
    BY <1>2 DEF DashboardType
  <2>2. \A q \in DOMAIN asOf : /\ asOf[q].lots <= lots'[investor]
                               /\ asOf[q].invested <= invested'[investor]
                               /\ asOf[q].commits <= commits'
                               /\ 0 <= asOf[q].sold /\ asOf[q].sold <= asOf[q].invested
    <3> SUFFICES ASSUME NEW q \in DOMAIN asOf
                 PROVE  /\ asOf[q].lots <= lots'[investor]
                        /\ asOf[q].invested <= invested'[investor]
                        /\ asOf[q].commits <= commits'
                        /\ 0 <= asOf[q].sold /\ asOf[q].sold <= asOf[q].invested
      OBVIOUS
    <3>1. /\ asOf[q].lots \in Int /\ asOf[q].invested \in Int /\ asOf[q].commits \in Int
          /\ lots[investor] \in Int /\ lots'[investor] \in Int
          /\ invested[investor] \in Int /\ invested'[investor] \in Int /\ commits \in Int
      BY <1>2, <1>3, <2>1 DEF Moment, FundType, DashboardType
    <3>2. /\ asOf[q].lots <= lots[investor] /\ asOf[q].invested <= invested[investor]
          /\ asOf[q].commits <= commits
          /\ 0 <= asOf[q].sold /\ asOf[q].sold <= asOf[q].invested
      BY <1>2 DEF HistoryGrows
    <3>3. lots[investor] <= lots'[investor] /\ invested[investor] <= invested'[investor]
      BY <1>1, <1>2 DEF DashboardType
    <3> QED BY <1>1, <3>1, <3>2, <3>3
  <2> QED BY <1>1, <1>2, <2>2 DEF HistoryGrows, Made
<1>6. ListedExist'
  <2>1. \A a \in view.allocations : a.position \in Position
    BY <1>2 DEF DashboardType, View, Holding
  <2> QED BY <1>1, <1>2, <1>4, <2>1 DEF ListedExist
<1>7. UpToDate'
  <2>1. \A q \in DOMAIN asOf : asOf[q].commits # commits'
    <3>1. \A q \in DOMAIN asOf : asOf[q].commits \in Int /\ asOf[q].commits <= commits
      BY <1>2 DEF DashboardType, Moment, HistoryGrows
    <3> QED BY <1>1, <1>2, <3>1 DEF FundType
  <2>2. \A q : ~ReadNow(q)'
    BY <1>1, <2>1 DEF ReadNow, Made
  <2> QED BY <2>2 DEF UpToDate
<1> QED BY <1>3, <1>4, <1>5, <1>6, <1>7 DEF DashboardInv

\* Each statement of the dashboard, in turn.
LEMMA ReadStep ==
    ASSUME DashboardInv,
           \/ ReadAccount \/ ReadBalance \/ ReadDeposits \/ ReadRecent
           \/ ReadInvested \/ ReadCount \/ ReadAllocations \/ ReadPositions
    PROVE  DashboardInv'
<1>1. /\ view \in View /\ investor \in User /\ FundType /\ OnlyOpenCosts /\ BooksAgree
      /\ ListedExist
  BY DEF DashboardInv, DashboardType
<1>2. /\ AccountBalance(investor) \in Int /\ TotalDeposits(investor) \in Int
      /\ TotalInvested(investor) \in Int /\ ActivePositionCount(investor) \in Int
      /\ RecentTransactions(investor) \in Seq(Row)
      /\ OpenAllocations(investor) \in SUBSET Holding
  <2>1. AccountBalance(investor) \in Int /\ TotalDeposits(investor) \in Int
    BY <1>1 DEF BooksAgree, FundType
  <2>2. TotalInvested(investor) \in Int /\ IsFiniteSet(OpenPositions(investor))
    BY <1>1, CostTypes
  <2>3. ActivePositionCount(investor) \in Int
    BY <2>2, FS_CardinalityType DEF ActivePositionCount
  <2> QED BY <1>1, <2>1, <2>2, <2>3, RecentOrAll, ListedAllocations
<1>3. CASE ReadAccount
  <2>1. Returns("account") /\ Read("account")
    BY <1>1, <1>3 DEF ReadAccount, Returns
  <2> QED BY <2>1, StatementStep
<1>4. CASE ReadBalance
  <2>1. Returns("balance") /\ Read("balance")
    BY <1>1, <1>2, <1>4 DEF ReadBalance, Returns, View
  <2> QED BY <2>1, StatementStep
<1>5. CASE ReadDeposits
  <2>1. Returns("deposits") /\ Read("deposits")
    BY <1>1, <1>2, <1>5 DEF ReadDeposits, Returns, View
  <2> QED BY <2>1, StatementStep
<1>6. CASE ReadRecent
  <2>1. Returns("recent") /\ Read("recent")
    BY <1>1, <1>2, <1>6 DEF ReadRecent, Returns, View
  <2> QED BY <2>1, StatementStep
<1>7. CASE ReadInvested
  <2>1. Returns("invested") /\ Read("invested")
    BY <1>1, <1>2, <1>7 DEF ReadInvested, Returns, View
  <2> QED BY <2>1, StatementStep
<1>8. CASE ReadCount
  <2>1. Returns("count") /\ Read("count")
    BY <1>1, <1>2, <1>8 DEF ReadCount, Returns, View
  <2> QED BY <2>1, StatementStep
<1>9. CASE ReadAllocations
  <2>1. Returns("allocations") /\ Read("allocations")
    BY <1>1, <1>2, <1>9 DEF ReadAllocations, Returns, View
  <2> QED BY <2>1, StatementStep
<1>10. CASE ReadPositions
  <2>1. {a \in view.allocations :
            a.position \in PositionsById({b.position : b \in view.allocations})}
           = view.allocations
    <3>1. \A a \in view.allocations : \E u \in User : allocation[a.position][u] # None
      BY <1>1 DEF ListedExist
    <3> QED BY <3>1 DEF PositionsById
  <2>2. view' = [view EXCEPT !.holdings = view.allocations] /\ Read("positions")
    BY <1>10, <2>1 DEF ReadPositions
  <2>3. Returns("positions")
    BY <1>1, <2>2 DEF Returns, View
  <2> QED BY <2>2, <2>3, StatementStep
<1> QED BY <1>3, <1>4, <1>5, <1>6, <1>7, <1>8, <1>9, <1>10

\* The first statement finds the investor, or refuses the request.
LEMMA ProfileStep ==
    ASSUME DashboardInv, ReadProfile
    PROVE  DashboardInv'
<1>1. /\ at = "profile" /\ at' = IF investor \in ActiveUser THEN "account" ELSE "refused"
      /\ UNCHANGED <<cash, lots, invested, rows, allocation, commits, investor, view, asOf>>
  BY Order DEF ReadProfile, fund
<1>2. /\ FundType' /\ OnlyOpenCosts' /\ BooksAgree' /\ DashboardType'
  BY <1>1 DEF DashboardInv, FundType, OnlyOpenCosts, BooksAgree, AccountBalance, TotalDeposits,
              CostOf, DashboardType
<1>3. Progress'
  BY <1>1 DEF DashboardInv, Progress, MadeBy
<1>4. HistoryGrows' /\ ViewIsHistory' /\ ListedExist'
  BY <1>1 DEF DashboardInv, HistoryGrows, ViewIsHistory, ListedExist, Made
<1>5. UpToDate' /\ TogetherAgrees'
  BY <1>1 DEF DashboardInv, UpToDate, TogetherAgrees, ReadNow, ReadTogether, Made, AccountBalance,
              TotalInvested, CostOf, ActivePositionCount, OpenPositions
<1> QED BY <1>2, <1>3, <1>4, <1>5 DEF DashboardInv

\* A step that changes nothing keeps the invariant.
LEMMA IdleStep ==
    ASSUME DashboardInv, UNCHANGED vars
    PROVE  DashboardInv'
<1>1. UNCHANGED <<cash, lots, invested, rows, allocation, commits, at, investor, view, asOf>>
  BY DEF vars, fund, dashboard
<1>2. /\ FundType' /\ OnlyOpenCosts' /\ BooksAgree' /\ DashboardType'
  BY <1>1 DEF DashboardInv, FundType, OnlyOpenCosts, BooksAgree, AccountBalance, TotalDeposits,
              CostOf, DashboardType
<1>3. Progress' /\ HistoryGrows'
  BY <1>1 DEF DashboardInv, Progress, MadeBy, OfAccount, HistoryGrows, Made
<1>5. ViewIsHistory' /\ ListedExist'
  BY <1>1 DEF DashboardInv, MadeBy, OfAccount, ViewIsHistory, ListedExist, Made
<1>4. UpToDate' /\ TogetherAgrees'
  BY <1>1 DEF DashboardInv, UpToDate, TogetherAgrees, ReadNow, ReadTogether, Made, AccountBalance,
              TotalInvested, CostOf, ActivePositionCount, OpenPositions
<1> QED BY <1>2, <1>3, <1>4, <1>5 DEF DashboardInv

\* The books of an empty fund agree, and a new dashboard has read nothing.
LEMMA DashboardInit ==
    ASSUME Init PROVE DashboardInv
<1>1. /\ cash = [u \in User |-> 0] /\ lots = [u \in User |-> 0]
      /\ invested = [u \in User |-> 0]
      /\ rows = [u \in User |-> <<>>]
      /\ allocation = [p \in Position |-> [u \in User |-> None]]
      /\ commits = 0 /\ at = "profile" /\ investor \in User
      /\ view = [balance |-> 0, deposits |-> 0, recent |-> <<>>, invested |-> 0,
                 count |-> 0, allocations |-> {}, holdings |-> {}]
      /\ asOf = [q \in {} |-> 0]
  <2>1. /\ cash \in [User -> {0}] /\ lots = cash /\ invested = [u \in User |-> 0]
    BY DEF Init, Fund!Init
  <2>2. cash = [u \in User |-> 0]
    BY <2>1
  <2> QED BY <2>1, <2>2 DEF Init
<1>2. FundType
  <2>1. None \in Allocation
    BY DEF None, Allocation
  <2> QED BY <1>1, <2>1 DEF FundType
<1>3. DashboardType
  <2>1. view \in View
    BY <1>1 DEF View
  <2> QED BY <1>1, <2>1 DEF DashboardType
<1>4. OnlyOpenCosts
  BY <1>1 DEF OnlyOpenCosts, None
<1>5. BooksAgree
  <2> SUFFICES ASSUME NEW u \in User
               PROVE  /\ AccountBalance(u) = cash[u] /\ TotalDeposits(u) = lots[u]
                      /\ cash[u] = lots[u] - invested[u]
                      /\ 0 <= CostOf(u, Position) /\ CostOf(u, Position) <= invested[u]
    BY DEF BooksAgree
  <2>1. AccountBalance(u) = 0 /\ TotalDeposits(u) = 0
    <3>1. DOMAIN rows[u] = {}
      BY <1>1
    <3>2. DOMAIN [i \in DOMAIN rows[u] |-> Signed(rows[u][i])] = {}
          /\ DOMAIN [i \in DOMAIN rows[u] |-> Deposited(rows[u][i])] = {}
      BY <3>1
    <3> QED BY <3>2, SumOfNothing DEF AccountBalance, TotalDeposits, SumFunction
  <2>2. CostOf(u, Position) = 0
    <3> DEFINE f == CostsOf(u)
    <3>1. \A p \in Position : f[p] = 0
      BY <1>1 DEF CostsOf, None
    <3>2. IsFiniteSet(Position) /\ Cardinality(Position) \in Nat
      BY ConstantsAssumption, FS_CardinalityType
    <3> HIDE DEF f
    <3>3. SumFunctionOnSet(f, Position) = 0 * Cardinality(Position)
      BY <3>1, <3>2, SumConstant
    <3>4. SumFunctionOnSet(f, Position) = 0
      BY <3>2, <3>3
    <3> QED BY <3>4 DEF CostOf, CostsOf, f
  <2> QED BY <1>1, <2>1, <2>2
<1>6. Progress
  BY <1>1 DEF Progress, MadeBy
<1>7. \A q : ~Made(q)
  BY <1>1 DEF Made
<1>8. HistoryGrows /\ ViewIsHistory /\ ListedExist
  BY <1>1, <1>7 DEF HistoryGrows, ViewIsHistory, ListedExist
<1>9. UpToDate /\ TogetherAgrees
  BY <1>7 DEF UpToDate, TogetherAgrees, ReadNow, ReadTogether
<1> QED BY <1>2, <1>3, <1>4, <1>5, <1>6, <1>8, <1>9 DEF DashboardInv

\* The inductive invariant of the dashboard.
THEOREM DashboardInvariant == Spec => []DashboardInv
<1>1. Init => DashboardInv
  BY DashboardInit
<1>2. DashboardInv /\ [Next]_vars => DashboardInv'
  <2> SUFFICES ASSUME DashboardInv, [Next]_vars PROVE DashboardInv'
    OBVIOUS
  <2>0. FundInv
    BY DEF DashboardInv, FundInv
  <2>1. CASE \E u \in User, amount \in Amount : Deposit(u, amount)
    <3>1. FundInv' /\ Grows
      BY <2>0, <2>1, DepositStep
    <3> QED BY <3>1, CommitStep
  <2>2. CASE \E p \in Position, users \in SUBSET User :
                \/ \E cost \in [users -> Cost] : Buy(p, users, cost)
                \/ Sell(p, users)
    <3>1. PICK p \in Position, users \in SUBSET User :
                \/ \E cost \in [users -> Cost] : Buy(p, users, cost)
                \/ Sell(p, users)
      BY <2>2
    <3>2. CASE \E cost \in [users -> Cost] : Buy(p, users, cost)
      <4>1. FundInv' /\ Grows
        BY <2>0, <3>2, BuyStep
      <4> QED BY <4>1, CommitStep
    <3>3. CASE Sell(p, users)
      <4>1. FundInv' /\ Grows
        BY <2>0, <3>3, SellStep
      <4> QED BY <4>1, CommitStep
    <3> QED BY <3>1, <3>2, <3>3
  <2>3. CASE ReadProfile
    BY <2>3, ProfileStep
  <2>4. CASE \/ ReadAccount \/ ReadBalance \/ ReadDeposits \/ ReadRecent
             \/ ReadInvested \/ ReadCount \/ ReadAllocations \/ ReadPositions
    BY <2>4, ReadStep
  <2>5. CASE UNCHANGED vars
    BY <2>5, IdleStep
  <2> QED BY <2>1, <2>2, <2>3, <2>4, <2>5 DEF Next
<1> QED BY <1>1, <1>2, PTL DEF Spec

\* What has been asked for when a dashboard of an account is answered.
LEMMA AnsweredMade ==
    ASSUME Progress, Answered
    PROVE  /\ Made("invested") /\ Made("count") /\ Made("allocations") /\ Made("positions")
           /\ investor \in HasCashAccount =>
                 Made("balance") /\ Made("deposits") /\ Made("recent")
<1>1. /\ "invested" \in MadeBy("answered") /\ "count" \in MadeBy("answered")
      /\ "allocations" \in MadeBy("answered") /\ "positions" \in MadeBy("answered")
      /\ investor \in HasCashAccount =>
            /\ "balance" \in MadeBy("answered") /\ "deposits" \in MadeBy("answered")
            /\ "recent" \in MadeBy("answered")
  BY DEF MadeBy, OfAccount
<1> QED BY <1>1 DEF Progress, Answered, Made

\* What the statements have seen are integers.
LEMMA SeenAreIntegers ==
    ASSUME DashboardType, NEW q \in DOMAIN asOf
    PROVE  /\ asOf[q].lots \in Int /\ asOf[q].invested \in Int /\ asOf[q].sold \in Int
           /\ asOf[q].commits \in Int
BY DEF DashboardType, Moment

\* The three properties of the amounts of an answered dashboard.
LEMMA AmountsOfAnAnswer ==
    ASSUME DashboardInv
    PROVE  CashWithinDeposits /\ NoMoneyVanishes /\ ShownTwiceIsBounded
<1> SUFFICES ASSUME OfCash
             PROVE  /\ view.balance <= view.deposits
                    /\ view.balance + view.invested + asOf["invested"].sold >= asOf["balance"].lots
                    /\ view.balance + view.invested <=
                          view.deposits + asOf["invested"].invested - asOf["balance"].invested
  BY DEF CashWithinDeposits, NoMoneyVanishes, ShownTwiceIsBounded
<1>1. Made("invested") /\ Made("balance") /\ Made("deposits")
  BY AnsweredMade DEF DashboardInv, OfCash
<1> DEFINE b == asOf["balance"]
           d == asOf["deposits"]
           i == asOf["invested"]
<1>2. /\ b.lots \in Int /\ b.invested \in Int
      /\ d.lots \in Int
      /\ i.invested \in Int /\ i.sold \in Int
  BY <1>1, SeenAreIntegers DEF DashboardInv, Made
<1>3. /\ view.balance = b.lots - b.invested /\ view.deposits = d.lots
      /\ view.invested = i.invested - i.sold
  BY <1>1 DEF DashboardInv, ViewIsHistory
<1>4. b.lots <= d.lots /\ b.invested <= i.invested /\ 0 <= i.sold
  BY <1>1 DEF DashboardInv, HistoryGrows, Made
<1>5. 0 <= b.sold /\ b.sold <= b.invested /\ b.sold \in Int
  BY <1>1, SeenAreIntegers DEF DashboardInv, HistoryGrows, Made
<1> HIDE DEF b, d, i
<1>6. /\ view.balance <= view.deposits
      /\ view.balance + view.invested + i.sold >= b.lots
      /\ view.balance + view.invested <= view.deposits + i.invested - b.invested
  BY <1>2, <1>3, <1>4, <1>5
<1> QED BY <1>6 DEF b, i

\* No answered dashboard shows more cash than lifetime deposits.
THEOREM DashboardCash == Spec => []CashWithinDeposits
<1>1. DashboardInv => CashWithinDeposits
  BY AmountsOfAnAnswer
<1> QED BY <1>1, DashboardInvariant, PTL

\* Money that a buy moves while a dashboard is built is in the answer.
THEOREM DashboardMoney == Spec => []NoMoneyVanishes
<1>1. DashboardInv => NoMoneyVanishes
  BY AmountsOfAnAnswer
<1> QED BY <1>1, DashboardInvariant, PTL

\* What is shown beyond the deposits is what was bought while it was built.
THEOREM DashboardTwice == Spec => []ShownTwiceIsBounded
<1>1. DashboardInv => ShownTwiceIsBounded
  BY AmountsOfAnAnswer
<1> QED BY <1>1, DashboardInvariant, PTL

\* No open allocation is left out for want of its position.
THEOREM DashboardHoldings == Spec => []HoldingsComplete
<1>1. DashboardInv => HoldingsComplete
  BY AnsweredMade DEF DashboardInv, ListedExist, HoldingsComplete
<1> QED BY <1>1, DashboardInvariant, PTL

\* Figures that are read with no commit between them agree.
THEOREM DashboardAgrees == Spec => []SameMomentAgrees
<1>1. ASSUME DashboardInv PROVE SameMomentAgrees
  <2> SUFFICES ASSUME Answered
               PROVE  /\ asOf["count"].commits = asOf["allocations"].commits =>
                            view.count = Cardinality(view.holdings)
                      /\ asOf["invested"].commits = asOf["allocations"].commits =>
                            view.invested = SumFunction([a \in view.allocations |-> a.cost])
                      /\ OfCash /\ asOf["balance"].commits = asOf["recent"].commits
                            /\ Len(view.recent) < RecentLimit =>
                            view.balance =
                               SumFunction([i \in DOMAIN view.recent |-> Signed(view.recent[i])])
    BY DEF SameMomentAgrees
  <2>1. /\ Made("invested") /\ Made("count") /\ Made("allocations")
        /\ investor \in HasCashAccount => Made("balance") /\ Made("recent")
        /\ view.holdings = view.allocations
    BY <1>1, AnsweredMade DEF DashboardInv, ListedExist
  <2> QED BY <1>1, <2>1 DEF DashboardInv, TogetherAgrees, ReadTogether, OfCash
<1>2. DashboardInv => SameMomentAgrees
  BY <1>1
<1> QED BY <1>2, DashboardInvariant, PTL

-------------------------------------------------------------------------------
(* The listed profiles, as the function that selects them one by one *)

Profile == [id : Nat, kind : Kind]

IsSelection(sel, s, G) ==
    sel = [n \in 0..Len(s) |->
              IF n = 0 THEN <<>>
              ELSE IF s[n] \in G THEN Append(sel[n - 1], s[n]) ELSE sel[n - 1]]
Selection(s, G) == CHOOSE sel : IsSelection(sel, s, G)

\* The function that selects exists.
LEMMA SelectionExists ==
    ASSUME NEW s, Len(s) \in Nat, NEW G
    PROVE  /\ Selection(s, G)[0] = <<>>
           /\ \A n \in 1..Len(s) :
                 Selection(s, G)[n] = IF s[n] \in G THEN Append(Selection(s, G)[n - 1], s[n])
                                      ELSE Selection(s, G)[n - 1]
<1> DEFINE UpTo(sel, m) ==
               sel = [n \in 0..m |->
                         IF n = 0 THEN <<>>
                         ELSE IF s[n] \in G THEN Append(sel[n - 1], s[n]) ELSE sel[n - 1]]
           T == {m \in 0..Len(s) : \E sel : UpTo(sel, m)}
<1>1. 0 \in T
  <2> DEFINE nothing == [n \in 0..0 |-> <<>>]
  <2>1. \A n \in 0..0 : n = 0
    OBVIOUS
  <2>2. nothing = [n \in 0..0 |->
                      IF n = 0 THEN <<>>
                      ELSE IF s[n] \in G THEN Append(nothing[n - 1], s[n]) ELSE nothing[n - 1]]
    BY <2>1, Zenon
  <2>3. UpTo(nothing, 0)
    BY <2>2, Zenon
  <2>4. 0 \in 0..Len(s)
    OBVIOUS
  <2> QED BY <2>3, <2>4, Zenon
<1>2. ASSUME NEW m \in 0..Len(s), m \in T, m < Len(s) PROVE m + 1 \in T
  <2>1. PICK old : UpTo(old, m)
    BY <1>2
  <2> DEFINE new == [n \in 0..(m + 1) |->
                        IF n = 0 THEN <<>>
                        ELSE IF s[n] \in G THEN Append(old[n - 1], s[n]) ELSE old[n - 1]]
  <2>2. \A n \in 0..m : new[n] = old[n]
    <3>1. \A n \in 0..m : old[n] = IF n = 0 THEN <<>>
                        ELSE IF s[n] \in G THEN Append(old[n - 1], s[n]) ELSE old[n - 1]
      BY <2>1
    <3> QED BY <3>1
  <2>3. \A n \in 0..(m + 1) : n # 0 => n - 1 \in 0..m
    OBVIOUS
  <2>4. new = [n \in 0..(m + 1) |->
                  IF n = 0 THEN <<>>
                  ELSE IF s[n] \in G THEN Append(new[n - 1], s[n]) ELSE new[n - 1]]
    <3>1. \A n \in 0..(m + 1) :
             new[n] = IF n = 0 THEN <<>>
                      ELSE IF s[n] \in G THEN Append(new[n - 1], s[n]) ELSE new[n - 1]
      BY <2>2, <2>3
    <3> QED BY <3>1
  <2>5. UpTo(new, m + 1)
    BY <2>4
  <2>6. m + 1 \in 0..Len(s)
    BY <1>2
  <2> QED BY <2>5, <2>6
<1>3. Len(s) \in T
  <2> HIDE DEF T
  <2>1. \A n \in 0..Len(s) : n \in T
    BY <1>1, <1>2, CountUp
  <2> QED BY <2>1
<1>4. \E sel : IsSelection(sel, s, G)
  BY <1>3 DEF IsSelection
<1>5. IsSelection(Selection(s, G), s, G)
  BY <1>4 DEF Selection
<1> DEFINE sel == Selection(s, G)
<1> HIDE DEF sel
<1>6. sel = [n \in 0..Len(s) |->
                IF n = 0 THEN <<>>
                ELSE IF s[n] \in G THEN Append(sel[n - 1], s[n]) ELSE sel[n - 1]]
  BY <1>5 DEF IsSelection, sel
<1>7. /\ sel[0] = <<>>
      /\ \A n \in 1..Len(s) :
            sel[n] = IF s[n] \in G THEN Append(sel[n - 1], s[n]) ELSE sel[n - 1]
  <2>1. \A n \in 0..Len(s) :
           sel[n] = IF n = 0 THEN <<>>
                    ELSE IF s[n] \in G THEN Append(sel[n - 1], s[n]) ELSE sel[n - 1]
    BY <1>6, Zenon
  <2>2. 0 \in 0..Len(s) /\ \A n \in 1..Len(s) : n \in 0..Len(s) /\ n # 0
    OBVIOUS
  <2> QED BY <2>1, <2>2, Zenon
<1> QED BY <1>7 DEF sel

\* What is selected, of the first n elements: those in G, as many as there are, in order.
Selected(t, s, G, n) ==
    /\ t \in Seq(Profile)
    /\ Len(t) = Cardinality({i \in 1..n : s[i] \in G})
    /\ \A j \in 1..Len(t) : \E i \in 1..n : t[j] = s[i] /\ s[i] \in G
    /\ \A i \in 1..n : s[i] \in G => \E j \in 1..Len(t) : t[j] = s[i]
    /\ \A j, k \in 1..Len(t) : t[j].id = t[k].id => j = k

DistinctIds(s) == \A i, j \in 1..Len(s) : s[i].id = s[j].id => i = j

\* The rows selected are those of G, in their order.
LEMMA SelectionSelects ==
    ASSUME NEW s \in Seq(Profile), NEW G, DistinctIds(s)
    PROVE  \A n \in 0..Len(s) : Selected(Selection(s, G)[n], s, G, n)
<1> DEFINE sel == Selection(s, G)
           T == {n \in 0..Len(s) : Selected(sel[n], s, G, n)}
<1>0. Len(s) \in Nat /\ \A i \in 1..Len(s) : s[i] \in Profile
  BY LenProperties, ElementOfSeq
<1>1. /\ sel[0] = <<>>
      /\ \A n \in 1..Len(s) : sel[n] = IF s[n] \in G THEN Append(sel[n - 1], s[n])
                                       ELSE sel[n - 1]
  BY <1>0, SelectionExists
<1> HIDE DEF sel
<1>2. 0 \in T
  <2>1. {i \in 1..0 : s[i] \in G} = {}
    OBVIOUS
  <2>2. <<>> \in Seq(Profile) /\ Len(<<>>) = 0 /\ 1..0 = {}
    OBVIOUS
  <2>3. Cardinality({i \in 1..0 : s[i] \in G}) = 0
    BY <2>1, FS_EmptySet
  <2>4. Selected(<<>>, s, G, 0)
    BY <2>2, <2>3 DEF Selected
  <2>5. 0 \in 0..Len(s)
    BY <1>0
  <2> QED BY <1>1, <2>4, <2>5
<1>3. ASSUME NEW n \in 0..Len(s), n \in T, n < Len(s) PROVE n + 1 \in T
  <2> DEFINE t == sel[n]
             u == sel[n + 1]
             old == {i \in 1..n : s[i] \in G}
             new == {i \in 1..(n + 1) : s[i] \in G}
  <2>0. n + 1 \in 1..Len(s) /\ (n + 1) - 1 = n /\ n \in Nat
    BY <1>0, <1>3
  <2>1. u = IF s[n + 1] \in G THEN Append(t, s[n + 1]) ELSE t
    BY <1>1, <2>0
  <2>2. /\ t \in Seq(Profile) /\ Len(t) = Cardinality(old) /\ Len(t) \in Nat
        /\ \A j \in 1..Len(t) : \E i \in 1..n : t[j] = s[i] /\ s[i] \in G
        /\ \A i \in 1..n : s[i] \in G => \E j \in 1..Len(t) : t[j] = s[i]
        /\ \A j, k \in 1..Len(t) : t[j].id = t[k].id => j = k
    BY <1>3, LenProperties DEF Selected
  <2>3. IsFiniteSet(old)
    <3>1. IsFiniteSet(1..n)
      BY <2>0, FS_Interval
    <3> QED BY <3>1, FS_Subset
  <2> HIDE DEF t, u
  <2>4. CASE s[n + 1] \notin G
    <3>1. \A i \in 1..(n + 1) : i \in 1..n \/ i = n + 1
      BY <2>0
    <3>2. u = t /\ new = old
      BY <2>0, <2>1, <2>4, <3>1
    <3>3. Selected(u, s, G, n + 1)
      BY <2>0, <2>2, <2>4, <3>1, <3>2 DEF Selected
    <3> QED BY <2>0, <3>3 DEF u
  <2>5. CASE s[n + 1] \in G
    <3> DEFINE e == s[n + 1]
    <3>1. /\ u = Append(t, e) /\ e \in Profile
      BY <1>0, <2>0, <2>1, <2>5
    <3>2. /\ u \in Seq(Profile) /\ Len(u) = Len(t) + 1
          /\ \A j \in 1..Len(t) : u[j] = t[j]
          /\ u[Len(t) + 1] = e
      <4>1. t \in Seq(Profile) /\ e \in Profile /\ u = Append(t, e)
        BY <2>2, <3>1
      <4> HIDE DEF e, old, new, T
      <4> QED BY <4>1, AppendProperties
    <3>3. \A i \in 1..(n + 1) : i \in 1..n \/ i = n + 1
      BY <2>0
    <3>4. new = old \cup {n + 1} /\ n + 1 \notin old
      BY <2>0, <2>5, <3>3
    <3>5. Cardinality(new) = Cardinality(old) + 1
      BY <2>3, <3>4, FS_AddElement
    <3>6. \A j \in 1..Len(u) : j \in 1..Len(t) \/ j = Len(t) + 1
      BY <2>2, <3>2
    <3>7. \A j \in 1..Len(u) : \E i \in 1..(n + 1) : u[j] = s[i] /\ s[i] \in G
      <4> SUFFICES ASSUME NEW j \in 1..Len(u)
                   PROVE  \E i \in 1..(n + 1) : u[j] = s[i] /\ s[i] \in G
        OBVIOUS
      <4>1. CASE j \in 1..Len(t)
        <5>1. PICK i \in 1..n : t[j] = s[i] /\ s[i] \in G
          BY <2>2, <4>1
        <5>2. i \in 1..(n + 1) /\ u[j] = s[i]
          BY <2>0, <3>2, <4>1, <5>1
        <5> QED BY <5>1, <5>2
      <4>2. CASE j = Len(t) + 1
        <5>1. n + 1 \in 1..(n + 1) /\ u[j] = s[n + 1]
          BY <2>0, <3>2, <4>2
        <5> QED BY <2>5, <5>1
      <4> QED BY <3>6, <4>1, <4>2
    <3>8. \A i \in 1..(n + 1) : s[i] \in G => \E j \in 1..Len(u) : u[j] = s[i]
      <4> SUFFICES ASSUME NEW i \in 1..(n + 1), s[i] \in G
                   PROVE  \E j \in 1..Len(u) : u[j] = s[i]
        OBVIOUS
      <4>1. CASE i \in 1..n
        <5>1. PICK j \in 1..Len(t) : t[j] = s[i]
          BY <2>2, <4>1
        <5>2. j \in 1..Len(u) /\ u[j] = s[i]
          BY <2>2, <3>2, <5>1
        <5> QED BY <5>2
      <4>2. CASE i = n + 1
        <5>1. Len(t) + 1 \in 1..Len(u) /\ u[Len(t) + 1] = s[i]
          BY <2>2, <3>2, <4>2
        <5> QED BY <5>1
      <4> QED BY <3>3, <4>1, <4>2
    <3>9. \A j \in 1..Len(t) : t[j].id # e.id
      <4> SUFFICES ASSUME NEW j \in 1..Len(t), t[j].id = e.id PROVE FALSE
        OBVIOUS
      <4>1. PICK i \in 1..n : t[j] = s[i]
        BY <2>2
      <4>2. i \in 1..Len(s) /\ n + 1 \in 1..Len(s) /\ i # n + 1
        BY <1>0, <2>0
      <4>3. s[i].id = s[n + 1].id
        BY <4>1
      <4> QED BY <4>2, <4>3 DEF DistinctIds
    <3>10. \A j, k \in 1..Len(u) : u[j].id = u[k].id => j = k
      <4> HIDE DEF e
      <4> SUFFICES ASSUME NEW j \in 1..Len(u), NEW k \in 1..Len(u), u[j].id = u[k].id
                   PROVE  j = k
        OBVIOUS
      <4> QED BY <2>2, <3>2, <3>6, <3>9, SMTT(30)
    <3>11. Selected(u, s, G, n + 1)
      <4>1. Len(u) = Cardinality(new)
        BY <2>2, <3>2, <3>5
      <4> QED BY <3>2, <3>7, <3>8, <3>10, <4>1 DEF Selected
    <3> QED BY <2>0, <3>11 DEF u
  <2> QED BY <2>4, <2>5
<1>4. \A n \in 0..Len(s) : n \in T
  <2> HIDE DEF T
  <2> QED BY <1>0, <1>2, <1>3, CountUp
<1> QED BY <1>4 DEF sel

\* u is v with p inserted at place m.
IsInsertion(u, v, m, p) ==
    /\ v \in Seq(Profile) /\ m \in 1..(Len(v) + 1)
    /\ Len(u) = Len(v) + 1
    /\ \A i \in 1..(Len(v) + 1) : u[i] = IF i < m THEN v[i] ELSE IF i = m THEN p ELSE v[i - 1]

\* An element appended is inserted, and appending to both keeps an insertion.
LEMMA InsertionAppend ==
    ASSUME NEW u \in Seq(Profile), NEW v \in Seq(Profile), NEW m, NEW p \in Profile,
           NEW e \in Profile
    PROVE  /\ IsInsertion(Append(v, p), v, Len(v) + 1, p)
           /\ IsInsertion(u, v, m, p) => IsInsertion(Append(u, e), Append(v, e), m, p)
<1>0. Len(u) \in Nat /\ Len(v) \in Nat
  BY LenProperties
<1>1. IsInsertion(Append(v, p), v, Len(v) + 1, p)
  <2>1. /\ Len(Append(v, p)) = Len(v) + 1
        /\ \A i \in 1..Len(v) : Append(v, p)[i] = v[i]
        /\ Append(v, p)[Len(v) + 1] = p
    BY AppendProperties
  <2> QED BY <1>0, <2>1 DEF IsInsertion
<1>2. ASSUME IsInsertion(u, v, m, p) PROVE IsInsertion(Append(u, e), Append(v, e), m, p)
  <2> DEFINE n == Len(v)
             x == Append(u, e)
             y == Append(v, e)
  <2>1. /\ Len(u) = n + 1 /\ m \in 1..(n + 1) /\ n \in Nat /\ m \in Nat
        /\ \A i \in 1..(n + 1) : u[i] = IF i < m THEN v[i] ELSE IF i = m THEN p ELSE v[i - 1]
    BY <1>0, <1>2 DEF IsInsertion
  <2>2. /\ y \in Seq(Profile) /\ Len(y) = n + 1
        /\ \A i \in 1..n : y[i] = v[i]
        /\ y[n + 1] = e
    BY AppendProperties
  <2>3. /\ Len(x) = Len(u) + 1
        /\ \A i \in 1..Len(u) : x[i] = u[i]
        /\ x[Len(u) + 1] = e
    BY AppendProperties
  <2> HIDE DEF x, y, n
  <2>4. ASSUME NEW i \in 1..(n + 2)
        PROVE  x[i] = IF i < m THEN y[i] ELSE IF i = m THEN p ELSE y[i - 1]
    <3>0. i \in Nat /\ Len(u) = n + 1
      BY <2>1
    <3>1. CASE i = n + 2
      <4>1. x[i] = e /\ ~(i < m) /\ i # m /\ i - 1 = n + 1
        BY <2>1, <2>3, <3>1
      <4> QED BY <2>2, <4>1
    <3>2. CASE i # n + 2
      <4>1. i \in 1..(n + 1) /\ x[i] = u[i]
        BY <2>1, <2>3, <3>0, <3>2
      <4>2. u[i] = IF i < m THEN v[i] ELSE IF i = m THEN p ELSE v[i - 1]
        BY <2>1, <4>1
      <4>3. CASE i < m
        <5>1. i \in 1..n
          BY <2>1, <3>0, <4>3
        <5> QED BY <2>2, <4>1, <4>2, <4>3, <5>1
      <4>4. CASE i = m
        <5>1. ~(i < m)
          BY <2>1, <4>4
        <5> QED BY <4>1, <4>2, <4>4, <5>1
      <4>5. CASE ~(i < m) /\ i # m
        <5>1. i - 1 \in 1..n
          BY <2>1, <4>1, <4>5
        <5>2. y[i - 1] = v[i - 1]
          BY <2>2, <5>1
        <5> QED BY <4>1, <4>2, <4>5, <5>2
      <4> QED BY <4>3, <4>4, <4>5
    <3> QED BY <3>1, <3>2
  <2>5. Len(y) + 1 = n + 2 /\ Len(x) = n + 2 /\ m \in 1..(n + 2)
    BY <2>1, <2>2, <2>3
  <2>6. IsInsertion(x, y, m, p)
    BY <2>2, <2>4, <2>5 DEF IsInsertion
  <2> QED BY <2>6 DEF x, y
<1> QED BY <1>1, <1>2

\* A profile inserted anywhere is inserted somewhere in the selection, if it belongs to it.
LEMMA SelectionInserted ==
    ASSUME NEW s \in Seq(Profile), NEW k \in 1..(Len(s) + 1), NEW p \in Profile, NEW G,
           DistinctIds(s), DistinctIds(InsertAt(s, k, p))
    PROVE  LET old == Selection(s, G)[Len(s)]
               new == Selection(InsertAt(s, k, p), G)[Len(s) + 1]
           IN  /\ p \notin G => new = old
               /\ p \in G => \E m \in 1..(Len(old) + 1) : IsInsertion(new, old, m, p)
<1> DEFINE n == Len(s)
           t == InsertAt(s, k, p)
           a == Selection(s, G)
           b == Selection(t, G)
<1>1. /\ n \in Nat /\ k \in Nat /\ k >= 1 /\ k <= n + 1
      /\ t \in Seq(Profile) /\ Len(t) = n + 1
      /\ \A i \in 1..(n + 1) : t[i] = IF i < k THEN s[i] ELSE IF i = k THEN p ELSE s[i - 1]
  BY Inserted, LenProperties
<1>2. DistinctIds(t)
  OBVIOUS
<1> HIDE DEF t
<1>3. /\ a[0] = <<>>
      /\ \A i \in 1..n : a[i] = IF s[i] \in G THEN Append(a[i - 1], s[i]) ELSE a[i - 1]
  BY <1>1, SelectionExists
<1>4. /\ b[0] = <<>>
      /\ \A i \in 1..(n + 1) : b[i] = IF t[i] \in G THEN Append(b[i - 1], t[i]) ELSE b[i - 1]
  BY <1>1, SelectionExists
<1>5. /\ \A i \in 0..n : a[i] \in Seq(Profile)
      /\ \A i \in 0..(n + 1) : b[i] \in Seq(Profile)
  BY <1>1, <1>2, SelectionSelects DEF Selected
<1>6. \A i \in 1..n : s[i] \in Profile
  BY <1>1, ElementOfSeq
<1> HIDE DEF a, b, n
<1>7. b[k - 1] = a[k - 1]
  <2> DEFINE m == k - 1
             T == {i \in 0..m : b[i] = a[i]}
  <2>0. m \in Nat /\ m < k /\ m <= n /\ m + 1 = k
    BY <1>1
  <2> HIDE DEF m
  <2>1. 0 \in T
    BY <1>3, <1>4, <2>0
  <2>2. ASSUME NEW i \in 0..m, i \in T, i < m PROVE i + 1 \in T
    <3>1. /\ i + 1 \in 1..n /\ i + 1 \in 1..(n + 1) /\ i + 1 < k /\ (i + 1) - 1 = i
          /\ i + 1 \in 0..m
      BY <1>1, <2>0, <2>2
    <3>2. t[i + 1] = s[i + 1]
      BY <1>1, <3>1
    <3>3. a[i + 1] = IF s[i + 1] \in G THEN Append(a[i], s[i + 1]) ELSE a[i]
      BY <1>3, <3>1
    <3>4. b[i + 1] = IF t[i + 1] \in G THEN Append(b[i], t[i + 1]) ELSE b[i]
      BY <1>4, <3>1
    <3> QED BY <2>2, <3>1, <3>2, <3>3, <3>4
  <2> HIDE DEF T
  <2>3. \A i \in 0..m : i \in T
    BY <2>0, <2>1, <2>2, CountUp
  <2>4. m \in T
    BY <2>0, <2>3
  <2> QED BY <2>4 DEF T, m
<1>8. b[k] = IF p \in G THEN Append(a[k - 1], p) ELSE a[k - 1]
  <2>1. k \in 1..(n + 1) /\ t[k] = p
    BY <1>1
  <2> QED BY <1>4, <1>7, <2>1
<1> DEFINE rest == n - k + 1
<1>9. /\ rest \in Nat /\ k + rest = n + 1 /\ (k - 1) + rest = n
      /\ \A i \in 0..rest : (k - 1) + i \in 0..n /\ k + i \in 0..(n + 1)
  BY <1>1
<1>10. ASSUME NEW i \in 0..rest, i < rest
       PROVE  /\ a[(k - 1) + (i + 1)] = IF s[k + i] \in G
                                        THEN Append(a[(k - 1) + i], s[k + i])
                                        ELSE a[(k - 1) + i]
              /\ b[k + (i + 1)] = IF s[k + i] \in G THEN Append(b[k + i], s[k + i])
                                  ELSE b[k + i]
              /\ s[k + i] \in Profile
              /\ i + 1 \in 0..rest
  <2> DEFINE x == k + i
             y == k + (i + 1)
  <2>1. /\ x \in 1..n /\ x - 1 = (k - 1) + i /\ (k - 1) + (i + 1) = x
        /\ y \in 1..(n + 1) /\ y - 1 = x /\ ~(y < k) /\ y # k
        /\ i + 1 \in 0..rest
    BY <1>1, <1>9, <1>10
  <2> HIDE DEF x, y
  <2>2. t[y] = s[y - 1]
    BY <1>1, <2>1
  <2>3. a[x] = IF s[x] \in G THEN Append(a[x - 1], s[x]) ELSE a[x - 1]
    BY <1>3, <2>1
  <2>4. b[y] = IF t[y] \in G THEN Append(b[y - 1], t[y]) ELSE b[y - 1]
    BY <1>4, <2>1
  <2>5. s[x] \in Profile
    BY <1>6, <2>1
  <2>6. /\ a[(k - 1) + (i + 1)] = IF s[x] \in G THEN Append(a[(k - 1) + i], s[x])
                                  ELSE a[(k - 1) + i]
        /\ b[y] = IF s[x] \in G THEN Append(b[x], s[x]) ELSE b[x]
    BY <2>1, <2>2, <2>3, <2>4, Zenon
  <2> QED BY <2>1, <2>5, <2>6 DEF x, y
<1> HIDE DEF rest
<1>11. ASSUME p \notin G PROVE b[n + 1] = a[n]
  <2> DEFINE T == {i \in 0..rest : b[k + i] = a[(k - 1) + i]}
  <2>1. 0 \in T
    <3>1. k + 0 = k /\ (k - 1) + 0 = k - 1 /\ 0 \in 0..rest
      BY <1>1, <1>9
    <3> QED BY <1>8, <1>11, <3>1
  <2>2. ASSUME NEW i \in 0..rest, i \in T, i < rest PROVE i + 1 \in T
    BY <1>10, <2>2
  <2> HIDE DEF T
  <2>3. \A i \in 0..rest : i \in T
    BY <1>9, <2>1, <2>2, CountUp
  <2>4. rest \in T
    BY <1>9, <2>3
  <2> QED BY <1>9, <2>4 DEF T
<1>12. ASSUME p \in G
       PROVE  \E m \in 1..(Len(a[n]) + 1) : IsInsertion(b[n + 1], a[n], m, p)
  <2> DEFINE m == Len(a[k - 1]) + 1
             T == {i \in 0..rest : IsInsertion(b[k + i], a[(k - 1) + i], m, p)}
  <2>1. 0 \in T
    <3>1. k + 0 = k /\ (k - 1) + 0 = k - 1 /\ 0 \in 0..rest
      BY <1>1, <1>9
    <3>2. b[k] = Append(a[k - 1], p) /\ a[k - 1] \in Seq(Profile)
      BY <1>1, <1>5, <1>8, <1>9, <1>12, <3>1
    <3>3. IsInsertion(b[k], a[k - 1], m, p)
      BY <3>2, InsertionAppend
    <3> QED BY <3>1, <3>3
  <2>2. ASSUME NEW i \in 0..rest, i \in T, i < rest PROVE i + 1 \in T
    <3> DEFINE u == b[k + i]
               v == a[(k - 1) + i]
               e == s[k + i]
    <3>1. u \in Seq(Profile) /\ v \in Seq(Profile) /\ IsInsertion(u, v, m, p)
      BY <1>5, <1>9, <2>2
    <3>2. /\ a[(k - 1) + (i + 1)] = IF e \in G THEN Append(v, e) ELSE v
          /\ b[k + (i + 1)] = IF e \in G THEN Append(u, e) ELSE u
          /\ e \in Profile
          /\ i + 1 \in 0..rest
      BY <1>10, <2>2
    <3> HIDE DEF u, v, e, m
    <3>3. IsInsertion(Append(u, e), Append(v, e), m, p)
      BY <3>1, <3>2, InsertionAppend
    <3>4. IsInsertion(b[k + (i + 1)], a[(k - 1) + (i + 1)], m, p)
      BY <3>1, <3>2, <3>3
    <3> QED BY <3>2, <3>4
  <2> HIDE DEF T
  <2>3. \A i \in 0..rest : i \in T
    BY <1>9, <2>1, <2>2, CountUp
  <2>4. rest \in T
    BY <1>9, <2>3
  <2>5. IsInsertion(b[n + 1], a[n], m, p)
    BY <1>9, <2>4 DEF T
  <2>6. m \in 1..(Len(a[n]) + 1)
    BY <2>5 DEF IsInsertion
  <2> QED BY <2>5, <2>6
<1> QED BY <1>11, <1>12 DEF a, b, n, t

-------------------------------------------------------------------------------
(* The walk over the pages *)

ListedNow == List!Listed
Listing == {q \in Profile : List!IsListed(q)}

WalkType ==
    /\ profiles \in Seq(Profile) /\ DistinctIds(profiles)
    /\ \A i \in 1..Len(profiles) : profiles[i].id <= Len(profiles)
    /\ pc \in {"count", "slice", "items", "answered", "done", "failed"}
    /\ size \in Nat \ {0} /\ page \in Nat \ {0} /\ search \in BOOLEAN /\ total \in Nat
    /\ slice \in Seq(Profile) /\ walked \in Seq(Nat)
    /\ registered \in Nat /\ torn \in Nat

\* The identities of the rows of a page, and all those that have been read.
IdsOf(rs) == [i \in DOMAIN rs |-> rs[i].id]
Shown == IF pc = "items" THEN walked \o IdsOf(slice) ELSE walked

\* The places of the list that have been read, and the rows read that have moved
\* beyond them.
Boundary == IF pc \in {"count", "slice"} THEN (page - 1) * size ELSE page * size
Beyond(s, n, D) == {i \in 1..Len(s) : i > n /\ s[i].id \in D}

FirstPage == page = 1 /\ pc \in {"count", "slice"} => walked = <<>>

\* Who was listed when the walk began is still listed, and has been read if the
\* place is: registrations only move rows towards the places not yet read.
KnownListed == \A x \in known : \E i \in 1..Len(ListedNow) : ListedNow[i].id = x
KnownShown ==
    pc # "failed" =>
        \A i \in 1..Len(ListedNow) :
            i <= Boundary /\ ListedNow[i].id \in known => ListedNow[i].id \in ToSet(Shown)

ShownExist == \A x \in ToSet(Shown) : x <= Len(profiles)

\* The count a page is sliced with is that of the list, but for the registrations
\* that came between, and no more than those are beyond the last page.
CountIsCurrent == pc = "slice" => total + torn = Len(ListedNow)
LastPage == pc \in {"items", "answered"} /\ total <= page * size =>
               Cardinality(known \ ToSet(Shown)) <= torn

\* Rows read twice, and those that will be, are registrations.
RepeatsToCome ==
    pc \notin {"done", "failed"} =>
        Cardinality(Beyond(ListedNow, Boundary, ToSet(Shown)))
            + Len(Shown) - Cardinality(ToSet(Shown)) <= registered

WalkInv ==
    /\ WalkType /\ FirstPage
    /\ KnownListed /\ KnownShown /\ ShownExist /\ CountIsCurrent /\ LastPage
    /\ RepeatsToCome
    /\ NobodyMissed /\ RepeatsAreRegistrations

\* The elements of a concatenation.
LEMMA ElementsOfConcat ==
    ASSUME NEW S, NEW s \in Seq(S), NEW t \in Seq(S)
    PROVE  /\ s \o t \in Seq(S) /\ Len(s \o t) = Len(s) + Len(t)
           /\ ToSet(s \o t) = ToSet(s) \cup ToSet(t)
<1> DEFINE m == Len(s)
           n == Len(t)
           u == s \o t
<1>1. /\ m \in Nat /\ n \in Nat /\ DOMAIN s = 1..m /\ DOMAIN t = 1..n
  BY LenProperties
<1>2. /\ u \in Seq(S) /\ Len(u) = m + n
      /\ \A i \in 1..(m + n) : u[i] = IF i <= m THEN s[i] ELSE t[i - m]
  BY ConcatProperties
<1>3. DOMAIN u = 1..(m + n)
  BY <1>2, LenProperties
<1> HIDE DEF m, n, u
<1>4. ASSUME NEW x \in ToSet(u) PROVE x \in ToSet(s) \cup ToSet(t)
  <2>1. PICK i \in 1..(m + n) : u[i] = x
    BY <1>3, <1>4 DEF ToSet
  <2>2. CASE i <= m
    <3>1. i \in 1..m /\ x = s[i]
      BY <1>1, <1>2, <2>1, <2>2
    <3> QED BY <1>1, <3>1 DEF ToSet
  <2>3. CASE ~(i <= m)
    <3>1. i - m \in 1..n
      BY <1>1, <2>3
    <3>2. x = t[i - m]
      BY <1>2, <2>1, <2>3
    <3> QED BY <1>1, <3>1, <3>2 DEF ToSet
  <2> QED BY <2>2, <2>3
<1>5. ASSUME NEW x \in ToSet(s) PROVE x \in ToSet(u)
  <2>1. PICK i \in 1..m : s[i] = x
    BY <1>1, <1>5 DEF ToSet
  <2>2. i \in 1..(m + n) /\ u[i] = x
    BY <1>1, <1>2, <2>1
  <2> QED BY <1>3, <2>2 DEF ToSet
<1>6. ASSUME NEW x \in ToSet(t) PROVE x \in ToSet(u)
  <2>1. PICK i \in 1..n : t[i] = x
    BY <1>1, <1>6 DEF ToSet
  <2> DEFINE j == m + i
  <2>2. j \in 1..(m + n) /\ ~(j <= m) /\ j - m = i
    BY <1>1, <2>1
  <2> HIDE DEF j
  <2>3. u[j] = t[j - m]
    BY <1>2, <2>2
  <2>4. u[j] = x
    BY <2>1, <2>2, <2>3, Zenon
  <2> QED BY <1>3, <2>2, <2>4 DEF ToSet
<1>7. ToSet(u) = ToSet(s) \cup ToSet(t)
  BY <1>4, <1>5, <1>6
<1> QED BY <1>2, <1>7 DEF u, m, n

\* A sequence has finitely many elements.
LEMMA ElementsFinite ==
    ASSUME NEW S, NEW s \in Seq(S)
    PROVE  IsFiniteSet(ToSet(s)) /\ Cardinality(ToSet(s)) \in Nat
<1>1. DOMAIN s = 1..Len(s) /\ Len(s) \in Nat
  BY LenProperties
<1>2. IsFiniteSet(1..Len(s))
  BY <1>1, FS_Interval
<1>3. s \in Surjection(1..Len(s), ToSet(s))
  <2>1. s = [i \in 1..Len(s) |-> s[i]]
    BY <1>1
  <2>2. \A i \in 1..Len(s) : s[i] \in ToSet(s)
    BY <1>1 DEF ToSet
  <2>3. \A x \in ToSet(s) : \E i \in 1..Len(s) : s[i] = x
    BY <1>1 DEF ToSet
  <2> QED BY <2>1, <2>2, <2>3 DEF Surjection
<1>4. IsFiniteSet(ToSet(s))
  BY <1>2, <1>3, FS_Surjection
<1> QED BY <1>4, FS_CardinalityType

\* The identities of the rows of a page.
LEMMA IdsOfRows ==
    ASSUME NEW s \in Seq(Profile)
    PROVE  IdsOf(s) \in Seq(Nat) /\ Len(IdsOf(s)) = Len(s)
           /\ ToSet(IdsOf(s)) = {s[i].id : i \in 1..Len(s)}
<1>1. Len(s) \in Nat /\ DOMAIN s = 1..Len(s) /\ \A i \in 1..Len(s) : s[i].id \in Nat
  <2>1. \A i \in 1..Len(s) : s[i] \in Profile
    BY ElementOfSeq
  <2> QED BY <2>1, LenProperties DEF Profile
<1>2. IdsOf(s) \in [1..Len(s) -> Nat]
  BY <1>1 DEF IdsOf
<1>3. IdsOf(s) \in Seq(Nat)
  BY <1>1, <1>2, SeqDef
<1>4. Len(IdsOf(s)) = Len(s)
  BY <1>1, <1>2, <1>3, LenProperties
<1>5. ToSet(IdsOf(s)) = {s[i].id : i \in 1..Len(s)}
  BY <1>1 DEF ToSet, IdsOf
<1> QED BY <1>3, <1>4, <1>5

\* The places of a page, and the identities of the rows there.
Between(s, m, n) == {i \in 1..Len(s) : m < i /\ i <= n}
IdsAt(s, A) == {s[i].id : i \in A}
WithPage(s, m, n, D) == D \cup IdsAt(s, Between(s, m, n))
DistinctRows(s) == \A i, j \in 1..Len(s) : s[i].id = s[j].id => i = j

\* Reading the next places makes repeats of the rows that had moved there, and of no other.
LEMMA BeyondSliced ==
    ASSUME NEW s \in Seq(Profile), DistinctRows(s), NEW m, m \in Nat, NEW n, n \in Nat, m <= n,
           NEW D, IsFiniteSet(D)
    PROVE  /\ Cardinality(D) \in Nat /\ Cardinality(WithPage(s, m, n, D)) \in Nat
           /\ Cardinality(Beyond(s, m, D)) \in Nat
           /\ Cardinality(Beyond(s, n, WithPage(s, m, n, D))) \in Nat
           /\ Cardinality(Between(s, m, n)) \in Nat
           /\ Cardinality(Beyond(s, n, WithPage(s, m, n, D))) + Cardinality(Between(s, m, n))
                    - Cardinality(WithPage(s, m, n, D))
                 = Cardinality(Beyond(s, m, D)) - Cardinality(D)
<1> DEFINE A == Between(s, m, n)
           E == WithPage(s, m, n, D)
<1> USE DEF Between, IdsAt, WithPage
<1> DEFINE F(X) == {s[i].id : i \in X}
           B == Beyond(s, m, D)
           C == Beyond(s, n, E)
<1>0. Len(s) \in Nat
  BY LenProperties
<1>1. IsFiniteSet(1..Len(s)) /\ A \in SUBSET (1..Len(s)) /\ B \in SUBSET (1..Len(s))
  <2>1. IsFiniteSet(1..Len(s))
    BY <1>0, FS_Interval
  <2>2. A \in SUBSET (1..Len(s)) /\ B \in SUBSET (1..Len(s))
    BY DEF Beyond
  <2> QED BY <2>1, <2>2
<1>2. IsFiniteSet(A) /\ IsFiniteSet(B)
  BY <1>1, FS_Subset
<1>3. C = B \ A
  <2>1. ASSUME NEW i \in C PROVE i \in B \ A
    <3>1. i \in 1..Len(s) /\ i > n /\ s[i].id \in E
      BY <2>1 DEF Beyond
    <3>2. s[i].id \notin F(A)
      <4> SUFFICES ASSUME NEW j \in A, s[i].id = s[j].id PROVE FALSE
        OBVIOUS
      <4>1. i = j
        BY <3>1 DEF DistinctRows
      <4> QED BY <3>1, <4>1
    <3>3. i > m
      BY <3>1
    <3> QED BY <3>1, <3>2, <3>3 DEF Beyond
  <2>2. ASSUME NEW i \in B \ A PROVE i \in C
    <3>1. i \in 1..Len(s) /\ i > m /\ s[i].id \in D
      BY <2>2 DEF Beyond
    <3>2. i > n
      BY <2>2, <3>1
    <3> QED BY <3>1, <3>2 DEF Beyond
  <2> QED BY <2>1, <2>2
<1>4. IsFiniteSet(A \ B) /\ E = D \cup F(A \ B) /\ D \cap F(A \ B) = {}
  <2>1. ASSUME NEW i \in A, i \in B PROVE s[i].id \in D
    BY <2>1 DEF Beyond
  <2>2. ASSUME NEW i \in A, s[i].id \in D PROVE i \in B
    <3>1. i \in 1..Len(s) /\ i > m
      OBVIOUS
    <3> QED BY <2>2, <3>1 DEF Beyond
  <2>3. IsFiniteSet(A \ B)
    BY <1>2, FS_Subset
  <2>4. E = D \cup F(A \ B)
    <3>1. E = D \cup F(A)
      OBVIOUS
    <3> HIDE DEF A, B, E
    <3> QED BY <2>1, <3>1
  <2>5. D \cap F(A \ B) = {}
    <3> HIDE DEF A, B
    <3> QED BY <2>2
  <2> QED BY <2>3, <2>4, <2>5
<1>5. IsFiniteSet(F(A \ B)) /\ Cardinality(F(A \ B)) = Cardinality(A \ B)
  <2> DEFINE h == [i \in A \ B |-> s[i].id]
  <2>1. \A i, j \in A \ B : s[i].id = s[j].id => i = j
    BY <1>1 DEF DistinctRows
  <2> HIDE DEF A, B
  <2>2. h \in Bijection(A \ B, F(A \ B))
    BY <2>1 DEF Bijection, Injection, Surjection, IsInjective
  <2> HIDE DEF h, F
  <2> QED BY <1>4, <2>2, FS_Bijection DEF ExistsBijection
<1> HIDE DEF A, B, C, E, F
<1>6. IsFiniteSet(C) /\ Cardinality(C) = Cardinality(B) - Cardinality(B \cap A)
  BY <1>2, <1>3, FS_Difference
<1>7. Cardinality(A \ B) = Cardinality(A) - Cardinality(A \cap B)
  BY <1>2, FS_Difference
<1>8. IsFiniteSet(E) /\ Cardinality(E) = Cardinality(D) + Cardinality(A \ B) - Cardinality({})
  <2> DEFINE X == F(A \ B)
  <2>1. /\ IsFiniteSet(X) /\ Cardinality(X) = Cardinality(A \ B)
        /\ E = D \cup X /\ D \cap X = {}
    BY <1>4, <1>5
  <2> HIDE DEF X
  <2>2. /\ IsFiniteSet(D \cup X)
        /\ Cardinality(D \cup X) = Cardinality(D) + Cardinality(X) - Cardinality(D \cap X)
    BY <2>1, FS_Union
  <2> QED BY <2>1, <2>2
<1>9. Cardinality(A \cap B) = Cardinality(B \cap A) /\ Cardinality({}) = 0
  <2>1. A \cap B = B \cap A
    OBVIOUS
  <2> QED BY <2>1, FS_EmptySet
<1>10. IsFiniteSet(B \cap A)
  BY <1>2, FS_Subset
<1>11. /\ Cardinality(A) \in Nat /\ Cardinality(B) \in Nat /\ Cardinality(C) \in Nat
       /\ Cardinality(D) \in Nat /\ Cardinality(E) \in Nat /\ Cardinality(B \cap A) \in Nat
  BY <1>2, <1>6, <1>8, <1>10, FS_CardinalityType
<1>12. Cardinality(C) + Cardinality(A) - Cardinality(E) = Cardinality(B) - Cardinality(D)
  BY <1>6, <1>7, <1>8, <1>9, <1>11
<1> QED BY <1>2, <1>8, <1>11, <1>12, SMTT(30) DEF A, B, C, E

\* An insertion moves at most one row that has been read beyond the places read.
LEMMA BeyondInserted ==
    ASSUME NEW u, NEW v \in Seq(Profile), NEW m, NEW p, IsInsertion(u, v, m, p),
           NEW n \in Nat, NEW D, p.id \notin D
    PROVE  /\ Cardinality(Beyond(u, n, D)) \in Nat /\ Cardinality(Beyond(v, n, D)) \in Nat
           /\ Cardinality(Beyond(u, n, D)) <= Cardinality(Beyond(v, n, D)) + 1
<1> DEFINE B == Beyond(v, n, D)
           C == Beyond(u, n, D)
           R == B \cup {n}
           h == [i \in C |-> IF i < m THEN i ELSE i - 1]
<1>0. /\ Len(v) \in Nat /\ Len(u) = Len(v) + 1 /\ m \in Nat /\ m >= 1
      /\ \A i \in 1..(Len(v) + 1) : u[i] = IF i < m THEN v[i] ELSE IF i = m THEN p ELSE v[i - 1]
  BY LenProperties DEF IsInsertion
<1>1. IsFiniteSet(B)
  <2>1. IsFiniteSet(1..Len(v)) /\ B \in SUBSET (1..Len(v))
    BY <1>0, FS_Interval DEF Beyond
  <2> QED BY <2>1, FS_Subset
<1>2. IsFiniteSet(R) /\ Cardinality(R) <= Cardinality(B) + 1
  <2>1. n \notin B
    BY DEF Beyond
  <2> HIDE DEF B
  <2>2. IsFiniteSet(R) /\ Cardinality(R) = Cardinality(B) + 1
    BY <1>1, <2>1, FS_AddElement
  <2> QED BY <1>1, <2>2, FS_CardinalityType
<1>3. ASSUME NEW i \in C PROVE h[i] \in R /\ i # m /\ i \in Nat
  <2>1. i \in 1..(Len(v) + 1) /\ i > n /\ u[i].id \in D /\ i \in Nat
    BY <1>0, <1>3 DEF Beyond
  <2>2. CASE i < m
    <3>1. u[i] = v[i] /\ i \in 1..Len(v)
      BY <1>0, <2>1, <2>2 DEF IsInsertion
    <3> QED BY <2>1, <2>2, <3>1 DEF Beyond
  <2>3. CASE i = m
    <3>1. u[i] = p
      BY <1>0, <2>1, <2>3
    <3> QED BY <2>1, <3>1
  <2>4. CASE ~(i < m) /\ i # m
    <3>1. u[i] = v[i - 1] /\ i - 1 \in 1..Len(v) /\ h[i] = i - 1
      BY <1>0, <2>1, <2>4
    <3>2. i - 1 > n \/ i - 1 = n
      BY <2>1
    <3>3. CASE i - 1 > n
      <4>1. v[i - 1].id \in D
        BY <2>1, <3>1
      <4> QED BY <2>1, <2>4, <3>1, <3>3, <4>1 DEF Beyond
    <3> QED BY <2>1, <2>4, <3>1, <3>2, <3>3
  <2> QED BY <2>2, <2>3, <2>4
<1>4. \A i, j \in C : h[i] = h[j] => i = j
  <2> SUFFICES ASSUME NEW i \in C, NEW j \in C, h[i] = h[j] PROVE i = j
    OBVIOUS
  <2>1. i \in Nat /\ j \in Nat /\ i # m /\ j # m
    BY <1>3
  <2>2. (IF i < m THEN i ELSE i - 1) = (IF j < m THEN j ELSE j - 1)
    OBVIOUS
  <2> QED BY <1>0, <2>1, <2>2
<1>5. h \in Injection(C, R)
  <2>1. \A i \in C : h[i] \in R
    BY <1>3
  <2>2. h = [i \in C |-> h[i]]
    OBVIOUS
  <2> HIDE DEF h, C, R
  <2> QED BY <1>4, <2>1, <2>2 DEF Injection, IsInjective
<1> HIDE DEF B, C, R, h
<1>6. IsFiniteSet(C) /\ Cardinality(C) <= Cardinality(R)
  BY <1>2, <1>5, FS_Injection
<1>7. Cardinality(B) \in Nat /\ Cardinality(C) \in Nat /\ Cardinality(R) \in Nat
  BY <1>1, <1>2, <1>6, FS_CardinalityType
<1>8. Cardinality(C) <= Cardinality(B) + 1
  BY <1>2, <1>6, <1>7
<1> QED BY <1>7, <1>8 DEF B, C

\* The list of the model selects the listed profiles.
LEMMA ListedIsSelection ==
    ASSUME profiles \in Seq(Profile)
    PROVE  ListedNow = Selection(profiles, Listing)[Len(profiles)]
<1>1. \A n \in 1..Len(profiles) : List!IsListed(profiles[n]) <=> profiles[n] \in Listing
  <2>1. \A n \in 1..Len(profiles) : profiles[n] \in Profile
    BY ElementOfSeq
  <2> QED BY <2>1 DEF Listing
<1>2. ASSUME NEW sel
      PROVE  [n \in 0..Len(profiles) |->
                 IF n = 0 THEN <<>>
                 ELSE IF List!IsListed(profiles[n]) THEN Append(sel[n - 1], profiles[n])
                 ELSE sel[n - 1]]
             = [n \in 0..Len(profiles) |->
                 IF n = 0 THEN <<>>
                 ELSE IF profiles[n] \in Listing THEN Append(sel[n - 1], profiles[n])
                 ELSE sel[n - 1]]
  <2>1. \A n \in 0..Len(profiles) : n # 0 => n \in 1..Len(profiles)
    BY LenProperties
  <2> QED BY <1>1, <2>1, Zenon
<1>3. (CHOOSE sel : sel = [n \in 0..Len(profiles) |->
                 IF n = 0 THEN <<>>
                 ELSE IF List!IsListed(profiles[n]) THEN Append(sel[n - 1], profiles[n])
                 ELSE sel[n - 1]])
      = Selection(profiles, Listing)
  BY <1>2, Zenon DEF Selection, IsSelection
<1> QED BY <1>3, Zenon DEF ListedNow, List!Listed

\* It does so after every step.
LEMMA ListedAfterwards ==
    (profiles \in Seq(Profile) => ListedNow = Selection(profiles, Listing)[Len(profiles)])'
<1>1. profiles \in Seq(Profile) => ListedNow = Selection(profiles, Listing)[Len(profiles)]
  BY ListedIsSelection
<1> QED BY <1>1, PTL

\* What the proofs need to know of the list.
LEMMA ListedFacts ==
    ASSUME WalkType
    PROVE  /\ ListedNow \in Seq(Profile) /\ Len(ListedNow) \in Nat /\ DistinctRows(ListedNow)
           /\ Len(ListedNow) = List!CountInvestors
           /\ \A i \in 1..Len(ListedNow) :
                 ListedNow[i].id \in Nat /\ ListedNow[i].id <= Len(profiles)
<1>1. /\ profiles \in Seq(Profile) /\ DistinctIds(profiles) /\ Len(profiles) \in Nat
      /\ \A i \in 1..Len(profiles) : profiles[i].id <= Len(profiles)
  BY LenProperties DEF WalkType
<1>2. Selected(ListedNow, profiles, Listing, Len(profiles))
  <2>1. Len(profiles) \in 0..Len(profiles)
    BY <1>1
  <2> QED BY <1>1, <2>1, SelectionSelects, ListedIsSelection
<1>3. List!CountInvestors = Cardinality({i \in 1..Len(profiles) : profiles[i] \in Listing})
  <2>1. \A i \in 1..Len(profiles) : profiles[i] \in Profile
    BY <1>1, ElementOfSeq
  <2>2. DOMAIN profiles = 1..Len(profiles)
    BY <1>1, LenProperties
  <2>3. {i \in DOMAIN profiles : List!IsListed(profiles[i])}
           = {i \in 1..Len(profiles) : profiles[i] \in Listing}
    BY <2>1, <2>2 DEF Listing
  <2> QED BY <2>3, Zenon DEF List!CountInvestors, List!Cardinality, Cardinality
<1>4. \A i \in 1..Len(ListedNow) :
         ListedNow[i].id \in Nat /\ ListedNow[i].id <= Len(profiles)
  <2> SUFFICES ASSUME NEW i \in 1..Len(ListedNow)
               PROVE  ListedNow[i].id \in Nat /\ ListedNow[i].id <= Len(profiles)
    OBVIOUS
  <2>1. PICK j \in 1..Len(profiles) : ListedNow[i] = profiles[j]
    BY <1>2 DEF Selected
  <2>2. profiles[j] \in Profile
    BY <1>1, ElementOfSeq
  <2> QED BY <1>1, <2>1, <2>2 DEF Profile
<1> QED BY <1>2, <1>3, <1>4, LenProperties DEF Selected, DistinctRows

\* A registration inserts a fresh profile, in the list if it is one of those listed.
LEMMA RegisterEffect ==
    ASSUME WalkType, List!Register
    PROVE  /\ WalkType'
           /\ UNCHANGED <<pc, size, search, page, total, slice, walked, known>>
           /\ pc \notin {"done", "failed"}
           /\ registered \in Nat /\ registered' \in Nat /\ registered' >= registered
           /\ torn \in Nat /\ (pc # "slice" => torn' = torn)
           /\ Len(profiles) \in Nat /\ Len(profiles') = Len(profiles) + 1
           /\ \/ ListedNow' = ListedNow /\ torn' = torn
              \/ /\ \E p \in Profile, m \in 1..(Len(ListedNow) + 1) :
                       /\ IsInsertion(ListedNow', ListedNow, m, p)
                       /\ p.id = Len(profiles) + 1
                 /\ page > 1 \/ pc \notin {"count", "slice"} => registered' = registered + 1
                 /\ pc = "slice" => torn' = torn + 1
<1>1. PICK kind \in Kind, place \in 1..(Len(profiles) + 1) :
         LET p == [id |-> Len(profiles) + 1, kind |-> kind]
         IN  /\ profiles' = InsertAt(profiles, place, p)
             /\ registered' = registered +
                    IF List!IsListed(p) /\ (page > 1 \/ pc \notin {"count", "slice"})
                    THEN 1 ELSE 0
             /\ torn' = torn + IF List!IsListed(p) /\ pc = "slice" THEN 1 ELSE 0
  BY Zenon DEF List!Register, List!InsertAt, InsertAt
<1>2. /\ UNCHANGED <<pc, size, search, page, total, slice, walked, known>>
      /\ pc \notin {"done", "failed"}
  BY DEF List!Register, List!request, List!Ended
<1> DEFINE p == [id |-> Len(profiles) + 1, kind |-> kind]
           n == Len(profiles)
<1>3. /\ profiles \in Seq(Profile) /\ DistinctIds(profiles) /\ n \in Nat
      /\ \A i \in 1..n : profiles[i].id <= n
      /\ registered \in Nat /\ torn \in Nat
  BY LenProperties DEF WalkType
<1>4. p \in Profile /\ p.id = n + 1
  BY <1>3 DEF Profile
<1>5. /\ profiles' = InsertAt(profiles, place, p) /\ place \in 1..(n + 1)
      /\ registered' = registered +
             IF List!IsListed(p) /\ (page > 1 \/ pc \notin {"count", "slice"}) THEN 1 ELSE 0
      /\ torn' = torn + IF List!IsListed(p) /\ pc = "slice" THEN 1 ELSE 0
  BY <1>1
<1> HIDE DEF p, n
<1>6. /\ profiles' \in Seq(Profile) /\ Len(profiles') = n + 1
      /\ \A i \in 1..(n + 1) : profiles'[i] = IF i < place THEN profiles[i]
                                              ELSE IF i = place THEN p ELSE profiles[i - 1]
  <2>1. profiles \in Seq(Profile) /\ place \in 1..(Len(profiles) + 1) /\ p \in Profile
    BY <1>3, <1>4, <1>5 DEF n
  <2>2. LET t == InsertAt(profiles, place, p)
        IN  /\ t \in Seq(Profile) /\ Len(t) = Len(profiles) + 1
            /\ \A i \in 1..(Len(profiles) + 1) :
                  t[i] = IF i < place THEN profiles[i]
                         ELSE IF i = place THEN p ELSE profiles[i - 1]
    BY <2>1, Inserted
  <2> QED BY <1>5, <2>2 DEF n
<1>7. \A i \in 1..(n + 1) : \/ i < place /\ i \in 1..n /\ profiles'[i] = profiles[i]
                            \/ i = place /\ profiles'[i] = p
                            \/ /\ i > place /\ i - 1 \in 1..n
                               /\ profiles'[i] = profiles[i - 1]
  <2> SUFFICES ASSUME NEW i \in 1..(n + 1)
               PROVE  \/ i < place /\ i \in 1..n /\ profiles'[i] = profiles[i]
                      \/ i = place /\ profiles'[i] = p
                      \/ i > place /\ i - 1 \in 1..n /\ profiles'[i] = profiles[i - 1]
    OBVIOUS
  <2>1. i \in Nat /\ place \in Nat /\ place >= 1 /\ place <= n + 1
    BY <1>3, <1>5
  <2>2. CASE i < place
    BY <1>3, <1>6, <2>1, <2>2
  <2>3. CASE i = place
    BY <1>6, <2>1, <2>3
  <2>4. CASE i > place
    <3>1. i - 1 \in 1..n /\ ~(i < place) /\ i # place
      BY <1>3, <2>1, <2>4
    <3> QED BY <1>6, <2>4, <3>1
  <2> QED BY <2>1, <2>2, <2>3, <2>4
<1>8. \A i \in 1..n : profiles[i].id \in Nat /\ profiles[i].id # p.id
  <2>1. \A i \in 1..n : profiles[i] \in Profile
    BY <1>3, ElementOfSeq DEF n
  <2> QED BY <1>3, <1>4, <2>1 DEF Profile
<1>9. \A i \in 1..(n + 1) : profiles'[i].id <= n + 1
  <2> SUFFICES ASSUME NEW i \in 1..(n + 1) PROVE profiles'[i].id <= n + 1
    OBVIOUS
  <2>1. \A j \in 1..n : profiles[j].id <= n + 1
    BY <1>3, <1>8
  <2>2. p.id <= n + 1
    BY <1>3, <1>4
  <2> QED BY <1>7, <2>1, <2>2
<1>10. DistinctIds(profiles')
  <2> SUFFICES ASSUME NEW i \in 1..(n + 1), NEW j \in 1..(n + 1),
                      profiles'[i].id = profiles'[j].id
               PROVE  i = j
    BY <1>6 DEF DistinctIds
  <2>0. i \in Nat /\ j \in Nat /\ place \in Nat
    BY <1>3, <1>5
  <2>1. \A x, y \in 1..n : profiles[x].id = profiles[y].id => x = y
    BY <1>3 DEF DistinctIds, n
  <2>2. CASE i = place
    BY <1>7, <1>8, <2>2
  <2>3. CASE j = place
    BY <1>7, <1>8, <2>3
  <2>4. CASE i < place /\ j < place
    BY <1>7, <2>0, <2>1, <2>4
  <2>5. CASE i < place /\ j > place
    <3>1. profiles'[i] = profiles[i] /\ i \in 1..n
      BY <1>7, <2>0, <2>5
    <3>2. profiles'[j] = profiles[j - 1] /\ j - 1 \in 1..n
      BY <1>7, <2>0, <2>5
    <3>3. i = j - 1
      BY <2>1, <3>1, <3>2
    <3> QED BY <2>0, <2>5, <3>3
  <2>6. CASE i > place /\ j < place
    <3>1. profiles'[j] = profiles[j] /\ j \in 1..n
      BY <1>7, <2>0, <2>6
    <3>2. profiles'[i] = profiles[i - 1] /\ i - 1 \in 1..n
      BY <1>7, <2>0, <2>6
    <3>3. j = i - 1
      BY <2>1, <3>1, <3>2
    <3> QED BY <2>0, <2>6, <3>3
  <2>7. CASE i > place /\ j > place
    <3>1. profiles'[j] = profiles[j - 1] /\ j - 1 \in 1..n
      BY <1>7, <2>0, <2>7
    <3>2. profiles'[i] = profiles[i - 1] /\ i - 1 \in 1..n
      BY <1>7, <2>0, <2>7
    <3>3. j - 1 = i - 1
      BY <2>1, <3>1, <3>2
    <3> QED BY <2>0, <3>3
  <2> QED BY <2>0, <2>2, <2>3, <2>4, <2>5, <2>6, <2>7
<1>11. /\ registered' \in Nat /\ registered' >= registered /\ torn' \in Nat
       /\ pc # "slice" => torn' = torn
  BY <1>3, <1>5
<1>12. WalkType'
  <2>1. \A i \in 1..Len(profiles') : profiles'[i].id <= Len(profiles')
    BY <1>6, <1>9
  <2> QED BY <1>2, <1>6, <1>10, <1>11, <2>1 DEF WalkType
<1>13. ListedNow = Selection(profiles, Listing)[n]
  BY <1>3, ListedIsSelection DEF n
<1>14. ListedNow' = Selection(InsertAt(profiles, place, p), Listing)[n + 1]
  <2>1. ListedNow' = Selection(profiles', Listing')[Len(profiles')]
    BY <1>6, ListedAfterwards
  <2>2. Listing' = Listing
    BY <1>2 DEF Listing, List!IsListed
  <2> QED BY <1>5, <1>6, <2>1, <2>2
<1>15. /\ p \notin Listing => ListedNow' = ListedNow
       /\ p \in Listing => \E m \in 1..(Len(ListedNow) + 1) :
                              IsInsertion(ListedNow', ListedNow, m, p)
  <2>1. DistinctIds(InsertAt(profiles, place, p))
    BY <1>5, <1>10
  <2> DEFINE old == Selection(profiles, Listing)[n]
             new == Selection(InsertAt(profiles, place, p), Listing)[n + 1]
  <2>2. /\ p \notin Listing => new = old
        /\ p \in Listing => \E m \in 1..(Len(old) + 1) : IsInsertion(new, old, m, p)
    BY <1>3, <1>4, <1>5, <2>1, SelectionInserted DEF n
  <2> QED BY <1>13, <1>14, <2>2
<1>16. p \in Listing <=> List!IsListed(p)
  BY <1>4 DEF Listing
<1>17. CASE p \notin Listing
  <2>1. torn' = torn
    BY <1>3, <1>5, <1>16, <1>17
  <2> QED BY <1>2, <1>3, <1>6, <1>11, <1>12, <1>15, <1>17, <2>1 DEF n
<1>18. CASE p \in Listing
  <2>1. /\ page > 1 \/ pc \notin {"count", "slice"} => registered' = registered + 1
        /\ pc = "slice" => torn' = torn + 1
    BY <1>5, <1>16, <1>18
  <2>2. \E q \in Profile, m \in 1..(Len(ListedNow) + 1) :
           IsInsertion(ListedNow', ListedNow, m, q) /\ q.id = n + 1
    BY <1>4, <1>15, <1>18
  <2> QED BY <1>2, <1>3, <1>6, <1>11, <1>12, <2>1, <2>2 DEF n
<1> QED BY <1>17, <1>18

\* ListedFacts, before and after a step.
LEMMA ListedFactsAfterwards ==
    (WalkType => /\ ListedNow \in Seq(Profile) /\ Len(ListedNow) \in Nat
                 /\ DistinctRows(ListedNow)
                 /\ Len(ListedNow) = List!CountInvestors
                 /\ \A i \in 1..Len(ListedNow) :
                       ListedNow[i].id \in Nat /\ ListedNow[i].id <= Len(profiles))'
<1>1. WalkType => /\ ListedNow \in Seq(Profile) /\ Len(ListedNow) \in Nat
                  /\ DistinctRows(ListedNow)
                  /\ Len(ListedNow) = List!CountInvestors
                  /\ \A i \in 1..Len(ListedNow) :
                        ListedNow[i].id \in Nat /\ ListedNow[i].id <= Len(profiles)
  BY ListedFacts
<1> QED BY <1>1, PTL

\* The places that have been read, page by page.
LEMMA Places ==
    ASSUME NEW p, p \in Nat \ {0}, NEW k, k \in Nat \ {0}
    PROVE  /\ (p - 1) * k \in Nat /\ p * k \in Nat
           /\ p * k = (p - 1) * k + k
           /\ (p + 1 - 1) * k = p * k
           /\ p = 1 => (p - 1) * k = 0
<1>1. (p - 1) * k \in Nat /\ p * k \in Nat
  OBVIOUS
<1>2. p * k = (p - 1) * k + k
  OBVIOUS
<1>3. p + 1 - 1 = p
  OBVIOUS
<1>4. p = 1 => (p - 1) * k = 0
  OBVIOUS
<1> QED BY <1>1, <1>2, <1>3, <1>4

\* The rows that have been read are identities, and no fewer than they are distinct.
LEMMA ShownType ==
    ASSUME WalkType
    PROVE  /\ Boundary \in Nat
           /\ Shown \in Seq(Nat) /\ Len(Shown) \in Nat
           /\ IsFiniteSet(ToSet(Shown)) /\ Cardinality(ToSet(Shown)) \in Nat
<1>1. Boundary \in Nat
  BY Places DEF WalkType, Boundary
<1>2. Shown \in Seq(Nat)
  <2>1. walked \in Seq(Nat) /\ IdsOf(slice) \in Seq(Nat)
    BY IdsOfRows DEF WalkType
  <2> QED BY <2>1, ElementsOfConcat DEF Shown
<1> QED BY <1>1, <1>2, ElementsFinite, LenProperties

\* A registration keeps the invariant of the walk.
LEMMA RegisterStep ==
    ASSUME WalkInv, List!Register
    PROVE  WalkInv'
<1>1. /\ WalkType /\ FirstPage /\ KnownListed /\ KnownShown /\ ShownExist
      /\ CountIsCurrent /\ LastPage /\ RepeatsToCome /\ RepeatsAreRegistrations
  BY DEF WalkInv
<1> DEFINE Inserts(p, m) == IsInsertion(ListedNow', ListedNow, m, p) /\ p.id = Len(profiles) + 1
<1>2. /\ WalkType'
      /\ UNCHANGED <<pc, size, search, page, total, slice, walked, known>>
      /\ pc \notin {"done", "failed"}
      /\ registered \in Nat /\ registered' \in Nat /\ registered' >= registered
      /\ torn \in Nat /\ (pc # "slice" => torn' = torn)
      /\ Len(profiles) \in Nat /\ Len(profiles') = Len(profiles) + 1
      /\ \/ ListedNow' = ListedNow /\ torn' = torn
         \/ /\ \E p \in Profile, m \in 1..(Len(ListedNow) + 1) : Inserts(p, m)
            /\ page > 1 \/ pc \notin {"count", "slice"} => registered' = registered + 1
            /\ pc = "slice" => torn' = torn + 1
  BY <1>1, RegisterEffect
<1>3. Shown' = Shown /\ Boundary' = Boundary
  BY <1>2 DEF Shown, Boundary, IdsOf
<1>4. /\ ListedNow \in Seq(Profile) /\ Len(ListedNow) \in Nat
      /\ \A i \in 1..Len(ListedNow) :
            ListedNow[i].id \in Nat /\ ListedNow[i].id <= Len(profiles)
  BY <1>1, ListedFacts
<1>5. /\ Boundary \in Nat
      /\ Shown \in Seq(Nat) /\ Len(Shown) \in Nat
      /\ IsFiniteSet(ToSet(Shown)) /\ Cardinality(ToSet(Shown)) \in Nat
  BY <1>1, ShownType
<1>6. FirstPage' /\ ShownExist' /\ LastPage' /\ NobodyMissed' /\ RepeatsAreRegistrations'
  <2>1. FirstPage'
    BY <1>1, <1>2 DEF FirstPage
  <2>2. LastPage'
    BY <1>1, <1>2, <1>3 DEF LastPage
  <2>3. NobodyMissed'
    BY <1>2 DEF NobodyMissed, List!NobodyMissed
  <2>4. RepeatsAreRegistrations'
    <3> DEFINE r == Len(walked) - Cardinality(ToSet(walked))
    <3>1. r \in Int /\ r <= registered
      <4>1. Len(walked) \in Nat /\ Cardinality(ToSet(walked)) \in Nat
        BY <1>1, ElementsFinite, LenProperties DEF WalkType
      <4> QED BY <1>1, <4>1 DEF RepeatsAreRegistrations, List!RepeatsAreRegistrations,
                                List!ToSet, ToSet, List!Cardinality, Cardinality
    <3> HIDE DEF r
    <3>2. r <= registered'
      BY <1>2, <3>1
    <3> QED BY <1>2, <3>2 DEF r, RepeatsAreRegistrations, List!RepeatsAreRegistrations,
                              List!ToSet, ToSet, List!Cardinality, Cardinality
  <2>5. ShownExist'
    <3>1. ToSet(Shown) \in SUBSET Nat
      BY <1>5 DEF ToSet
    <3>2. \A x \in ToSet(Shown) : x <= Len(profiles) + 1
      BY <1>1, <1>2, <3>1 DEF ShownExist
    <3> QED BY <1>2, <1>3, <3>2 DEF ShownExist
  <2> QED BY <2>1, <2>2, <2>3, <2>4, <2>5
<1>7. CASE ListedNow' = ListedNow /\ torn' = torn
  <2>1. KnownListed' /\ KnownShown'
    BY <1>1, <1>2, <1>3, <1>7 DEF KnownListed, KnownShown
  <2>2. CountIsCurrent'
    BY <1>1, <1>2, <1>7 DEF CountIsCurrent
  <2>3. RepeatsToCome'
    <3> DEFINE r == Cardinality(Beyond(ListedNow, Boundary, ToSet(Shown)))
                       + Len(Shown) - Cardinality(ToSet(Shown))
    <3>1. r <= registered /\ r \in Int
      <4>1. Cardinality(Beyond(ListedNow, Boundary, ToSet(Shown))) \in Nat
        <5>1. IsFiniteSet(1..Len(ListedNow))
          <6> DEFINE n == Len(ListedNow)
          <6>1. n \in Int
            BY <1>4
          <6> HIDE DEF n
          <6>2. IsFiniteSet(1..n)
            BY <6>1, FS_Interval
          <6> QED BY <6>2 DEF n
        <5>2. IsFiniteSet(Beyond(ListedNow, Boundary, ToSet(Shown)))
          BY <5>1, FS_Subset DEF Beyond
        <5> QED BY <5>2, FS_CardinalityType
      <4> QED BY <1>1, <1>2, <1>5, <4>1 DEF RepeatsToCome
    <3> HIDE DEF r
    <3>2. r <= registered'
      BY <1>2, <3>1
    <3> QED BY <1>2, <1>3, <1>7, <3>2 DEF RepeatsToCome, r
  <2> QED BY <1>2, <1>6, <2>1, <2>2, <2>3 DEF WalkInv
<1>8. CASE /\ \E p \in Profile, m \in 1..(Len(ListedNow) + 1) : Inserts(p, m)
           /\ page > 1 \/ pc \notin {"count", "slice"} => registered' = registered + 1
           /\ pc = "slice" => torn' = torn + 1
  <2>1. PICK p \in Profile, m \in 1..(Len(ListedNow) + 1) : Inserts(p, m)
    BY <1>8
  <2>2. /\ Len(ListedNow') = Len(ListedNow) + 1 /\ m \in 1..(Len(ListedNow) + 1)
        /\ \A i \in 1..(Len(ListedNow) + 1) :
              ListedNow'[i] = IF i < m THEN ListedNow[i] ELSE IF i = m THEN p
                              ELSE ListedNow[i - 1]
    BY <2>1 DEF IsInsertion
  <2>3. \A i \in 1..Len(ListedNow) : ListedNow[i].id # p.id
    <3>1. Len(profiles) \in Nat
      BY <1>1, LenProperties DEF WalkType
    <3> QED BY <1>4, <2>1, <3>1
  <2>4. KnownListed'
    <3> SUFFICES ASSUME NEW x \in known
                 PROVE  \E i \in 1..(Len(ListedNow) + 1) : ListedNow'[i].id = x
      BY <1>2, <2>2 DEF KnownListed
    <3>1. PICK i \in 1..Len(ListedNow) : ListedNow[i].id = x
      BY <1>1 DEF KnownListed
    <3>2. CASE i < m
      <4>1. i \in 1..(Len(ListedNow) + 1) /\ ListedNow'[i] = ListedNow[i]
        BY <1>4, <2>2, <3>2
      <4> QED BY <3>1, <4>1
    <3>3. CASE ~(i < m)
      <4> DEFINE j == i + 1
      <4>1. j \in 1..(Len(ListedNow) + 1) /\ ~(j < m) /\ j # m /\ j - 1 = i
        BY <1>4, <2>2, <3>3
      <4> HIDE DEF j
      <4>2. ListedNow'[j] = ListedNow[j - 1]
        BY <2>2, <4>1
      <4>3. ListedNow'[j].id = x
        BY <3>1, <4>1, <4>2, Zenon
      <4> QED BY <4>1, <4>3
    <3> QED BY <3>2, <3>3
  <2>5. KnownShown'
    <3> SUFFICES ASSUME NEW i \in 1..(Len(ListedNow) + 1), pc # "failed",
                        i <= Boundary, ListedNow'[i].id \in known
                 PROVE  ListedNow'[i].id \in ToSet(Shown)
      BY <1>2, <1>3, <2>2 DEF KnownShown
    <3>0. i \in Nat /\ m \in Nat
      BY <1>4, <2>2
    <3>1. CASE i < m
      <4>1. ListedNow'[i] = ListedNow[i] /\ i \in 1..Len(ListedNow)
        BY <1>4, <2>2, <3>0, <3>1
      <4> QED BY <1>1, <4>1 DEF KnownShown
    <3>2. CASE i = m
      <4>1. ListedNow'[i] = p
        BY <2>2, <3>0, <3>2
      <4>2. p.id \in known
        BY <4>1
      <4> QED BY <1>1, <2>3, <4>2 DEF KnownListed
    <3>3. CASE ~(i < m) /\ i # m
      <4> DEFINE j == i - 1
      <4>1. ListedNow'[i] = ListedNow[j] /\ j \in 1..Len(ListedNow) /\ j <= Boundary
        BY <1>4, <1>5, <2>2, <3>0, <3>3
      <4> HIDE DEF j
      <4> QED BY <1>1, <4>1 DEF KnownShown
    <3> QED BY <3>1, <3>2, <3>3
  <2>6. CountIsCurrent'
    <3> SUFFICES ASSUME pc = "slice" PROVE total + torn' = Len(ListedNow')
      BY <1>2 DEF CountIsCurrent
    <3>1. total + torn = Len(ListedNow) /\ total \in Nat /\ torn \in Nat
      BY <1>1 DEF CountIsCurrent, WalkType
    <3>2. torn' = torn + 1 /\ Len(ListedNow') = Len(ListedNow) + 1
      BY <1>8, <2>2
    <3> DEFINE k == Len(ListedNow)
               l == Len(ListedNow')
    <3>3. total + torn = k /\ l = k + 1
      BY <3>1, <3>2
    <3> HIDE DEF k, l
    <3> QED BY <3>1, <3>2, <3>3 DEF l
  <2>7. RepeatsToCome'
    <3> DEFINE D == ToSet(Shown)
               b == Cardinality(Beyond(ListedNow, Boundary, D))
               c == Cardinality(Beyond(ListedNow', Boundary, D))
    <3> SUFFICES c + Len(Shown) - Cardinality(D) <= registered'
      BY <1>3 DEF RepeatsToCome
    <3>1. CASE page > 1 \/ pc \notin {"count", "slice"}
      <4>1. p.id \notin D
        BY <1>1, <1>2, <2>1 DEF ShownExist
      <4>2. b \in Nat /\ c \in Nat /\ c <= b + 1
        <5> HIDE DEF D
        <5> QED BY <1>4, <1>5, <2>1, <4>1, BeyondInserted
      <4>3. b + Len(Shown) - Cardinality(D) <= registered
        BY <1>1, <1>2 DEF RepeatsToCome
      <4>4. registered' = registered + 1
        BY <1>8, <3>1
      <4> HIDE DEF b, c, D
      <4> QED BY <1>2, <1>5, <4>2, <4>3, <4>4 DEF D
    <3>2. CASE ~(page > 1) /\ pc \in {"count", "slice"}
      <4>1. page = 1 /\ Shown = <<>>
        BY <1>1, <3>2 DEF WalkType, FirstPage, Shown
      <4>2. D = {} /\ Len(Shown) = 0
        BY <4>1 DEF ToSet
      <4>3. Beyond(ListedNow', Boundary, D) = {}
        BY <4>2 DEF Beyond
      <4> QED BY <1>2, <4>2, <4>3, FS_EmptySet
    <3> QED BY <3>1, <3>2
  <2> QED BY <1>2, <1>6, <2>4, <2>5, <2>6, <2>7 DEF WalkInv
<1> QED BY <1>2, <1>7, <1>8

\* The list changes with the profiles only.
LEMMA ListedUnchanged ==
    ASSUME UNCHANGED <<profiles, search>>
    PROVE  ListedNow' = ListedNow /\ Listing' = Listing
BY DEF ListedNow, List!Listed, Listing, List!IsListed

\* The count of a page is that of the list.
LEMMA CountStep ==
    ASSUME WalkInv, List!Count
    PROVE  WalkInv'
<1>1. /\ WalkType /\ FirstPage /\ KnownListed /\ KnownShown /\ ShownExist
      /\ RepeatsToCome /\ RepeatsAreRegistrations
  BY DEF WalkInv
<1>2. /\ pc = "count" /\ pc' = "slice" /\ total' = List!CountInvestors
      /\ torn' = 0 /\ UNCHANGED <<profiles, size, search, page, slice, walked, known, registered>>
  BY DEF List!Count
<1>3. ListedNow' = ListedNow
  BY <1>2, ListedUnchanged
<1>4. Shown' = Shown /\ Boundary' = Boundary
  BY <1>2 DEF Shown, Boundary
<1>5. List!CountInvestors = Len(ListedNow) /\ Len(ListedNow) \in Nat
  BY <1>1, ListedFacts
<1>6. WalkType'
  BY <1>1, <1>2, <1>5 DEF WalkType
<1>7. FirstPage' /\ KnownListed' /\ KnownShown' /\ ShownExist'
  BY <1>1, <1>2, <1>3, <1>4 DEF FirstPage, KnownListed, KnownShown, ShownExist
<1>8. CountIsCurrent' /\ LastPage'
  BY <1>2, <1>3, <1>5 DEF CountIsCurrent, LastPage
<1>9. RepeatsToCome'
  BY <1>1, <1>2, <1>3, <1>4 DEF RepeatsToCome
<1>10. NobodyMissed' /\ RepeatsAreRegistrations'
  BY <1>1, <1>2 DEF NobodyMissed, List!NobodyMissed, RepeatsAreRegistrations,
                    List!RepeatsAreRegistrations
<1> QED BY <1>6, <1>7, <1>8, <1>9, <1>10 DEF WalkInv

\* Identities found beyond place n of a list are no more than its places there.
LEMMA TailIds ==
    ASSUME NEW s, Len(s) \in Nat, NEW n \in Nat, NEW X,
           \A x \in X : \E i \in 1..Len(s) : i > n /\ s[i].id = x
    PROVE  X = {} \/ (Cardinality(X) \in Nat /\ Cardinality(X) <= Len(s) - n)
<1> DEFINE a == n + 1
           b == Len(s)
           P == {i \in a..b : s[i].id \in X}
           f == [i \in P |-> s[i].id]
<1>1. a \in Int /\ b \in Int
  OBVIOUS
<1>2. \A x \in X : \E i \in P : f[i] = x
  <2> TAKE x \in X
  <2>1. PICK i \in 1..b : i > n /\ s[i].id = x
    OBVIOUS
  <2>2. i \in a..b
    BY <2>1
  <2> QED BY <2>1, <2>2
<1>3. f \in Surjection(P, X)
  <2>1. f \in [P -> X]
    OBVIOUS
  <2> QED BY <1>2, <2>1 DEF Surjection
<1>4. IsFiniteSet(a..b) /\ Cardinality(a..b) = IF a > b THEN 0 ELSE b - a + 1
  <2> HIDE DEF a, b
  <2> QED BY <1>1, FS_Interval
<1>5. IsFiniteSet(P) /\ Cardinality(P) <= Cardinality(a..b)
  <2>1. P \in SUBSET (a..b)
    OBVIOUS
  <2> HIDE DEF P, a, b
  <2> QED BY <1>4, <2>1, FS_Subset
<1>6. IsFiniteSet(X) /\ Cardinality(X) <= Cardinality(P)
  <2> HIDE DEF P, f
  <2> QED BY <1>3, <1>5, FS_Surjection
<1>7. Cardinality(X) \in Nat /\ Cardinality(P) \in Nat /\ Cardinality(a..b) \in Nat
  BY <1>4, <1>5, <1>6, FS_CardinalityType
<1>8. CASE a > b
  <2>1. \A i \in a..b : FALSE
    BY <1>1, <1>8
  <2> QED BY <1>2, <2>1
<1>9. CASE ~(a > b)
  <2> DEFINE x == Cardinality(X)
             y == Cardinality(P)
             z == Cardinality(a..b)
  <2>1. x \in Nat /\ y \in Nat /\ z \in Nat /\ x <= y /\ y <= z /\ z = b - a + 1
    BY <1>4, <1>5, <1>6, <1>7, <1>9
  <2> HIDE DEF x, y, z
  <2>2. x <= Len(s) - n
    BY <2>1 DEF a, b
  <2> QED BY <1>7, <2>2 DEF x
<1> QED BY <1>8, <1>9

\* A slice reads the next places of the list.
LEMMA SliceStep ==
    ASSUME WalkInv, List!Slice
    PROVE  WalkInv'
<1>1. /\ WalkType /\ FirstPage /\ KnownListed /\ KnownShown /\ ShownExist
      /\ CountIsCurrent /\ RepeatsToCome /\ RepeatsAreRegistrations
  BY DEF WalkInv
<1> DEFINE s == ListedNow
           k == (page - 1) * size
           n == page * size
           top == IF n < Len(s) THEN n ELSE Len(s)
           A == Between(s, k, n)
           D == ToSet(walked)
           E == WithPage(s, k, n, D)
<1>2. /\ pc = "slice" /\ pc' = "items"
      /\ UNCHANGED <<profiles, size, search, page, total, walked, known, registered, torn>>
  BY DEF List!Slice, List!history
<1>3. /\ k \in Nat /\ n \in Nat /\ n = k + size /\ k <= n
  <2>1. page \in Nat \ {0} /\ size \in Nat \ {0}
    BY <1>1 DEF WalkType
  <2>2. k \in Nat /\ n \in Nat /\ n = k + size
    BY <2>1, Places
  <2> HIDE DEF k, n
  <2> QED BY <2>1, <2>2
<1>4. slice' = SubSeq(s, k + 1, top)
  <2>1. slice' = SubSeq(List!Listed, List!Offset + 1, List!AtMost(List!Offset + List!PageRows))
    BY DEF List!Slice, List!SliceInvestors
  <2>2. List!Offset = k /\ List!PageRows = size
    BY DEF List!Offset, List!PageRows
  <2>3. List!AtMost(k + size) = top
    BY <1>3 DEF List!AtMost, ListedNow
  <2> QED BY <2>1, <2>2, <2>3 DEF ListedNow
<1>5. ListedNow' = s
  BY <1>2, ListedUnchanged
<1>6. /\ s \in Seq(Profile) /\ Len(s) \in Nat /\ DistinctRows(s)
      /\ \A i \in 1..Len(s) : s[i].id \in Nat /\ s[i].id <= Len(profiles)
  BY <1>1, ListedFacts
<1>7. Shown = walked /\ Boundary = k /\ Shown' = walked \o IdsOf(slice') /\ Boundary' = n
  BY <1>2 DEF Shown, Boundary, IdsOf
<1>8. walked \in Seq(Nat) /\ Len(walked) \in Nat /\ IsFiniteSet(D)
  BY <1>1, ElementsFinite, LenProperties DEF WalkType
<1>9. top \in Nat /\ top <= n /\ top <= Len(s)
  <2> HIDE DEF n, s
  <2> QED BY <1>3, <1>6
<1>10. \A i \in 1..Len(s) : s[i] \in Profile
  BY <1>6, ElementOfSeq
<1>11. A = (k + 1)..top
  <2> HIDE DEF k, n, s
  <2> QED BY <1>3, <1>6 DEF Between
<1> HIDE DEF s, k, n, top
<1>12. /\ slice' \in Seq(Profile)
       /\ Len(slice') = IF k + 1 <= top THEN top - (k + 1) + 1 ELSE 0
       /\ \A j \in 1..(top - (k + 1) + 1) : slice'[j] = s[(k + 1) + j - 1]
  <2>1. \A i \in (k + 1)..top : s[i] \in Profile
    BY <1>3, <1>6, <1>9, <1>10
  <2> DEFINE a == k + 1
  <2>2. a \in Int /\ top \in Int /\ \A i \in a..top : s[i] \in Profile
    BY <1>3, <1>9, <2>1
  <2> HIDE DEF a
  <2>3. /\ SubSeq(s, a, top) \in Seq(Profile)
        /\ Len(SubSeq(s, a, top)) = IF a <= top THEN top - a + 1 ELSE 0
        /\ \A j \in 1..(top - a + 1) : SubSeq(s, a, top)[j] = s[a + j - 1]
    BY <2>2, SubSeqProperties
  <2>4. slice' = SubSeq(s, a, top)
    BY <1>4 DEF a
  <2> QED BY <2>3, <2>4 DEF a
<1>13. {slice'[j].id : j \in 1..Len(slice')} = IdsAt(s, A)
  <2>1. ASSUME NEW j \in 1..Len(slice') PROVE \E i \in A : slice'[j].id = s[i].id
    <3> DEFINE i == (k + 1) + j - 1
    <3>1. i \in (k + 1)..top /\ j \in 1..(top - (k + 1) + 1)
      BY <1>3, <1>9, <1>12, <2>1
    <3>2. slice'[j] = s[i]
      BY <1>12, <3>1
    <3> HIDE DEF i
    <3> QED BY <1>11, <3>1, <3>2
  <2>2. ASSUME NEW i \in A PROVE \E j \in 1..Len(slice') : slice'[j].id = s[i].id
    <3> DEFINE j == i - k
    <3>1. i \in (k + 1)..top
      BY <1>11
    <3>2. /\ j \in 1..Len(slice') /\ j \in 1..(top - (k + 1) + 1) /\ (k + 1) + j - 1 = i
      BY <1>3, <1>9, <1>12, <3>1
    <3> HIDE DEF j
    <3>3. slice'[j] = s[(k + 1) + j - 1]
      BY <1>12, <3>2
    <3>4. slice'[j].id = s[i].id
      BY <3>2, <3>3, Zenon
    <3> QED BY <3>2, <3>4
  <2> HIDE DEF A
  <2> QED BY <2>1, <2>2 DEF IdsAt
<1>14. Cardinality(A) = Len(slice')
  <2> DEFINE a == k + 1
  <2>1. a \in Int /\ top \in Int
    BY <1>3, <1>9
  <2> HIDE DEF a
  <2>2. Cardinality(a..top) = IF a > top THEN 0 ELSE top - a + 1
    BY <2>1, FS_Interval
  <2>3. Cardinality(A) = Cardinality(a..top)
    BY <1>11 DEF a
  <2>4. Len(slice') = IF a <= top THEN top - a + 1 ELSE 0
    BY <1>12 DEF a
  <2> QED BY <2>1, <2>2, <2>3, <2>4
<1>15. /\ Shown' \in Seq(Nat) /\ Len(Shown') = Len(walked) + Len(slice')
       /\ ToSet(Shown') = E
  <2> DEFINE ids == IdsOf(slice')
  <2>1. /\ ids \in Seq(Nat) /\ Len(ids) = Len(slice')
        /\ ToSet(ids) = {slice'[j].id : j \in 1..Len(slice')}
    BY <1>12, IdsOfRows
  <2> HIDE DEF ids
  <2>2. /\ walked \o ids \in Seq(Nat) /\ Len(walked \o ids) = Len(walked) + Len(ids)
        /\ ToSet(walked \o ids) = D \cup ToSet(ids)
    BY <1>8, <2>1, ElementsOfConcat
  <2>3. Shown' = walked \o ids
    BY <1>7 DEF ids
  <2> HIDE DEF A, D
  <2> QED BY <1>13, <2>1, <2>2, <2>3 DEF WithPage, A
<1>16. WalkType'
  BY <1>1, <1>2, <1>12 DEF WalkType
<1>17. FirstPage' /\ CountIsCurrent' /\ NobodyMissed' /\ RepeatsAreRegistrations'
  BY <1>1, <1>2 DEF FirstPage, CountIsCurrent, NobodyMissed, List!NobodyMissed,
                    RepeatsAreRegistrations, List!RepeatsAreRegistrations
<1>18. KnownListed'
  BY <1>1, <1>2, <1>5 DEF KnownListed, s
<1>19. ShownExist'
  <2>1. \A x \in D : x <= Len(profiles)
    BY <1>1, <1>7 DEF ShownExist
  <2>2. \A i \in A : s[i].id <= Len(profiles)
    BY <1>6 DEF Between
  <2> HIDE DEF D, A
  <2>3. \A x \in E : x <= Len(profiles)
    BY <2>1, <2>2 DEF IdsAt, WithPage, A
  <2> QED BY <1>2, <1>15, <2>3 DEF ShownExist
<1>20. \A i \in 1..Len(s) : i <= n /\ s[i].id \in known => s[i].id \in E
  <2> SUFFICES ASSUME NEW i \in 1..Len(s), i <= n, s[i].id \in known PROVE s[i].id \in E
    OBVIOUS
  <2>1. CASE i <= k
    BY <1>1, <1>2, <1>7, <2>1 DEF KnownShown, s, WithPage
  <2>2. CASE ~(i <= k)
    <3>1. i \in A
      BY <1>3, <1>6, <2>2 DEF Between
    <3> QED BY <3>1 DEF IdsAt, WithPage
  <2> QED BY <2>1, <2>2
<1>21. KnownShown'
  BY <1>2, <1>5, <1>7, <1>15, <1>20 DEF KnownShown
<1>22. LastPage'
  <2> SUFFICES ASSUME total <= n PROVE Cardinality(known \ E) <= torn
    BY <1>2, <1>15 DEF LastPage, n
  <2>1. total + torn = Len(s) /\ total \in Nat /\ torn \in Nat
    BY <1>1, <1>2 DEF CountIsCurrent, WalkType, s
  <2>2. \A x \in known : \E i \in 1..Len(s) : s[i].id = x
    BY <1>1 DEF KnownListed, s
  <2>3. \A x \in known \ E : \E i \in 1..Len(s) : i > n /\ s[i].id = x
    <3> HIDE DEF E
    <3>1. TAKE x \in known \ E
    <3>2. PICK i \in 1..Len(s) : s[i].id = x
      BY <2>2
    <3>3. ~(i <= n)
      BY <1>20, <3>2
    <3>4. i > n
      BY <1>3, <1>6, <3>3
    <3> QED BY <3>2, <3>4
  <2> HIDE DEF E
  <2> DEFINE X == known \ E
             c == Cardinality(X)
  <2>4. X = {} \/ (c \in Nat /\ c <= Len(s) - n)
    BY <1>3, <1>6, <2>3, TailIds
  <2>5. X = {} => c = 0
    BY FS_EmptySet
  <2> HIDE DEF X, c
  <2>6. c <= torn
    BY <1>3, <1>6, <2>1, <2>4, <2>5
  <2> QED BY <2>6 DEF X, c
<1>23. RepeatsToCome'
  <2> DEFINE b == Cardinality(Beyond(s, k, D))
             c == Cardinality(Beyond(s, n, E))
  <2>1. /\ Cardinality(A) \in Nat /\ Cardinality(D) \in Nat /\ Cardinality(E) \in Nat
        /\ b \in Nat /\ c \in Nat
        /\ c + Cardinality(A) - Cardinality(E) = b - Cardinality(D)
    <3> HIDE DEF A, D, E, b, c
    <3>1. s \in Seq(Profile) /\ DistinctRows(s) /\ k \in Nat /\ n \in Nat /\ k <= n
          /\ IsFiniteSet(D)
      BY <1>3, <1>6, <1>8
    <3>2. /\ Cardinality(D) \in Nat /\ Cardinality(WithPage(s, k, n, D)) \in Nat
          /\ Cardinality(Beyond(s, k, D)) \in Nat
          /\ Cardinality(Beyond(s, n, WithPage(s, k, n, D))) \in Nat
          /\ Cardinality(Between(s, k, n)) \in Nat
          /\ Cardinality(Beyond(s, n, WithPage(s, k, n, D))) + Cardinality(Between(s, k, n))
                   - Cardinality(WithPage(s, k, n, D))
                = Cardinality(Beyond(s, k, D)) - Cardinality(D)
      BY <3>1, BeyondSliced, ZenonT(40)
    <3>3. /\ A = Between(s, k, n) /\ E = WithPage(s, k, n, D)
          /\ b = Cardinality(Beyond(s, k, D)) /\ c = Cardinality(Beyond(s, n, E))
      BY DEF A, E, b, c
    <3> QED BY <3>2, <3>3
  <2>2. b + Len(walked) - Cardinality(D) <= registered
    BY <1>1, <1>2, <1>7 DEF RepeatsToCome, s
  <2>3. registered \in Nat
    BY <1>1 DEF WalkType
  <2> HIDE DEF b, c, D, E, A
  <2>4. c + (Len(walked) + Len(slice')) - Cardinality(E) <= registered
    <3>1. /\ Len(walked) \in Nat /\ Len(slice') = Cardinality(A)
      BY <1>8, <1>14
    <3> QED BY <2>1, <2>2, <2>3, <3>1
  <2> QED BY <1>2, <1>5, <1>7, <1>15, <2>4 DEF RepeatsToCome, c
<1> QED BY <1>16, <1>17, <1>18, <1>19, <1>21, <1>22, <1>23 DEF WalkInv

\* The repeats among the rows of the pages answered.
Repeats == Len(walked) - Cardinality(ToSet(walked))

\* The two properties, without the names the instance gives the library's operators.
LEMMA PropertiesOfTheWalk ==
    /\ NobodyMissed <=> (pc = "done" => Cardinality(known \ ToSet(walked)) <= torn)
    /\ RepeatsAreRegistrations <=> Repeats <= registered
BY DEF NobodyMissed, List!NobodyMissed, RepeatsAreRegistrations, List!RepeatsAreRegistrations,
       List!ToSet, ToSet, List!Cardinality, Cardinality, Repeats

\* They say so of the next state too.
LEMMA PropertiesAfterwards ==
    (/\ NobodyMissed <=> (pc = "done" => Cardinality(known \ ToSet(walked)) <= torn)
     /\ RepeatsAreRegistrations <=> Repeats <= registered)'
<1>1. /\ NobodyMissed <=> (pc = "done" => Cardinality(known \ ToSet(walked)) <= torn)
      /\ RepeatsAreRegistrations <=> Repeats <= registered
  BY PropertiesOfTheWalk
<1> QED BY <1>1, PTL

\* The rows of a page are answered, or the page is an error.
LEMMA AnswerStep ==
    ASSUME WalkInv, List!Answer
    PROVE  WalkInv'
<1>1. /\ WalkType /\ FirstPage /\ KnownListed /\ KnownShown /\ ShownExist
      /\ CountIsCurrent /\ LastPage /\ RepeatsToCome /\ RepeatsAreRegistrations
  BY DEF WalkInv
<1>2. /\ pc = "items"
      /\ UNCHANGED <<profiles, size, search, page, total, slice, known, registered, torn>>
      /\ \/ pc' = "failed" /\ walked' = walked
         \/ pc' = "answered" /\ walked' = walked \o IdsOf(slice)
  BY DEF List!Answer, IdsOf
<1>3. ListedNow' = ListedNow
  BY <1>2, ListedUnchanged
<1>4. Boundary' = Boundary /\ Shown = walked \o IdsOf(slice) /\ Shown' = walked'
  BY <1>2 DEF Boundary, Shown
<1>5. /\ Boundary \in Nat /\ Shown \in Seq(Nat) /\ Len(Shown) \in Nat
      /\ IsFiniteSet(ToSet(Shown)) /\ Cardinality(ToSet(Shown)) \in Nat
  BY <1>1, ShownType
<1>6. walked' \in Seq(Nat)
  BY <1>1, <1>2, <1>4, <1>5 DEF WalkType
<1>7. WalkType' /\ FirstPage' /\ CountIsCurrent'
  BY <1>1, <1>2, <1>6 DEF WalkType, FirstPage, CountIsCurrent
<1>8. KnownListed'
  BY <1>1, <1>2, <1>3 DEF KnownListed
<1>9. ToSet(walked) \subseteq ToSet(Shown)
  <2>1. walked \in Seq(Nat) /\ IdsOf(slice) \in Seq(Nat)
    BY <1>1, IdsOfRows DEF WalkType
  <2>2. ToSet(walked \o IdsOf(slice)) = ToSet(walked) \cup ToSet(IdsOf(slice))
    BY <2>1, ElementsOfConcat
  <2> QED BY <1>4, <2>2
<1>10. ShownExist'
  BY <1>1, <1>2, <1>4, <1>9 DEF ShownExist
<1>11. KnownShown' /\ LastPage'
  BY <1>1, <1>2, <1>3, <1>4 DEF KnownShown, LastPage
<1>12. RepeatsToCome'
  BY <1>1, <1>2, <1>3, <1>4 DEF RepeatsToCome
<1>13. NobodyMissed'
  BY <1>2, PropertiesAfterwards
<1>14. RepeatsAreRegistrations'
  <2>1. CASE walked' = walked
    <3>1. Repeats <= registered
      BY <1>1, PropertiesOfTheWalk
    <3>2. Repeats' = Repeats
      BY <2>1 DEF Repeats
    <3> QED BY <1>2, <3>1, <3>2, PropertiesAfterwards
  <2>2. CASE walked' = walked \o IdsOf(slice)
    <3> DEFINE b == Cardinality(Beyond(ListedNow, Boundary, ToSet(Shown)))
    <3>1. b \in Nat
      <4> DEFINE n == Len(ListedNow)
      <4>1. n \in Int
        BY <1>1, ListedFacts
      <4> HIDE DEF n
      <4>2. IsFiniteSet(1..n)
        BY <4>1, FS_Interval
      <4>3. Beyond(ListedNow, Boundary, ToSet(Shown)) \in SUBSET (1..n)
        BY DEF Beyond, n
      <4>4. IsFiniteSet(Beyond(ListedNow, Boundary, ToSet(Shown)))
        BY <4>2, <4>3, FS_Subset
      <4> QED BY <4>4, FS_CardinalityType
    <3>2. b + Len(Shown) - Cardinality(ToSet(Shown)) <= registered
      BY <1>1, <1>2 DEF RepeatsToCome
    <3>3. registered \in Nat
      BY <1>1 DEF WalkType
    <3> HIDE DEF b
    <3>4. Len(Shown) - Cardinality(ToSet(Shown)) <= registered
      BY <1>5, <3>1, <3>2, <3>3
    <3>5. Repeats' = Len(Shown) - Cardinality(ToSet(Shown))
      BY <1>4, <2>2 DEF Repeats
    <3> QED BY <1>2, <3>4, <3>5, PropertiesAfterwards
  <2> QED BY <1>2, <2>1, <2>2
<1> QED BY <1>7, <1>8, <1>10, <1>11, <1>12, <1>13, <1>14 DEF WalkInv

\* The pages there are hold the whole count.
LEMMA PagesHoldAll ==
    ASSUME NEW t \in Nat, NEW s \in Nat \ {0}, NEW p \in Nat \ {0},
           (IF t > 0 THEN (t + s - 1) \div s ELSE 1) <= p
    PROVE  t <= p * s
<1> DEFINE q == (t + s - 1) \div s
<1>1. q \in Int /\ s * q <= t + s - 1 /\ t + s - 1 < s * (q + 1)
  OBVIOUS
<1>2. p * s \in Nat
  OBVIOUS
<1>3. CASE t > 0
  <2>1. q <= p
    BY <1>3
  <2> HIDE DEF q
  <2>2. s * (q + 1) <= s * (p + 1)
    BY <1>1, <2>1
  <2>3. s * (p + 1) = p * s + s
    OBVIOUS
  <2> DEFINE x == s * (q + 1)
             y == s * (p + 1)
             z == p * s
  <2>4. x \in Int /\ y \in Int /\ z \in Int
    BY <1>1
  <2> HIDE DEF x, y, z
  <2> QED BY <1>1, <2>2, <2>3, <2>4 DEF x, y, z
<1>4. CASE ~(t > 0)
  BY <1>2, <1>4
<1> QED BY <1>3, <1>4

\* The client asks for the next page, or has walked the whole list.
LEMMA WalkStep ==
    ASSUME WalkInv, List!Walk
    PROVE  WalkInv'
<1>1. /\ WalkType /\ FirstPage /\ KnownListed /\ KnownShown /\ ShownExist
      /\ CountIsCurrent /\ LastPage /\ RepeatsToCome /\ RepeatsAreRegistrations
  BY DEF WalkInv
<1>2. /\ pc = "answered"
      /\ pc' = IF page < List!TotalPages THEN "count" ELSE "done"
      /\ page' = IF page < List!TotalPages THEN page + 1 ELSE page
      /\ UNCHANGED <<profiles, size, search, total, slice, walked, known, registered, torn>>
  BY DEF List!Walk, List!history
<1>3. ListedNow' = ListedNow
  BY <1>2, ListedUnchanged
<1>4. page \in Nat \ {0} /\ size \in Nat \ {0} /\ total \in Nat
  BY <1>1 DEF WalkType
<1>5. Boundary' = Boundary
  <2>1. CASE page < List!TotalPages
    <3>1. pc' = "count" /\ page' = page + 1 /\ size' = size
      BY <1>2, <2>1
    <3>2. Boundary = page * size
      BY <1>2 DEF Boundary
    <3>3. Boundary' = (page' - 1) * size'
      BY <3>1 DEF Boundary
    <3>4. page' - 1 = page
      BY <1>4, <3>1
    <3> QED BY <3>1, <3>2, <3>3, <3>4, Zenon
  <2>2. CASE ~(page < List!TotalPages)
    BY <1>2, <2>2 DEF Boundary
  <2> QED BY <2>1, <2>2
<1>6. Shown = walked /\ Shown' = walked
  BY <1>2 DEF Shown
<1>7. WalkType'
  BY <1>1, <1>2, <1>4 DEF WalkType
<1>8. FirstPage'
  <2>1. page' = 1 => page' = page
    BY <1>2, <1>4
  <2>2. pc' = "count" => page' = page + 1
    BY <1>2
  <2>3. pc' \in {"count", "slice"} => page' # 1
    BY <1>2, <1>4, <2>2
  <2> QED BY <2>3 DEF FirstPage
<1>9. KnownListed' /\ ShownExist' /\ CountIsCurrent'
  BY <1>1, <1>2, <1>3, <1>6 DEF KnownListed, ShownExist, CountIsCurrent
<1>10. KnownShown' /\ LastPage'
  BY <1>1, <1>2, <1>3, <1>5, <1>6 DEF KnownShown, LastPage
<1>11. RepeatsToCome'
  BY <1>1, <1>2, <1>3, <1>5, <1>6 DEF RepeatsToCome
<1>12. RepeatsAreRegistrations'
  <2>1. Repeats <= registered
    BY <1>1, PropertiesOfTheWalk
  <2>2. Repeats' = Repeats
    BY <1>2 DEF Repeats
  <2> QED BY <1>2, <2>1, <2>2, PropertiesAfterwards
<1>13. NobodyMissed'
  <2> SUFFICES ASSUME pc' = "done" PROVE Cardinality(known \ ToSet(walked)) <= torn
    BY <1>2, PropertiesAfterwards
  <2>1. ~(page < List!TotalPages)
    BY <1>2
  <2>2. List!TotalPages = IF total > 0 THEN (total + size - 1) \div size ELSE 1
    BY DEF List!TotalPages
  <2>3. List!TotalPages \in Int
    BY <1>4, <2>2
  <2>4. List!TotalPages <= page
    BY <1>4, <2>1, <2>3
  <2>5. total <= page * size
    BY <1>4, <2>2, <2>4, PagesHoldAll
  <2> QED BY <1>1, <1>2, <1>6, <2>5 DEF LastPage
<1> QED BY <1>7, <1>8, <1>9, <1>10, <1>11, <1>12, <1>13 DEF WalkInv

\* A step that changes nothing keeps the invariant of the walk.
LEMMA WalkIdle ==
    ASSUME WalkInv, UNCHANGED List!vars
    PROVE  WalkInv'
<1>1. UNCHANGED <<profiles, pc, size, search, page, total, slice, walked, known, registered,
                  torn>>
  BY DEF List!vars, List!request, List!history
<1>2. ListedNow' = ListedNow /\ Shown' = Shown /\ Boundary' = Boundary
  BY <1>1, ListedUnchanged DEF Shown, IdsOf, Boundary
<1>3. WalkType' /\ FirstPage' /\ KnownListed' /\ KnownShown' /\ ShownExist'
  BY <1>1, <1>2 DEF WalkInv, WalkType, FirstPage, KnownListed, KnownShown, ShownExist
<1>4. CountIsCurrent' /\ LastPage' /\ RepeatsToCome'
  BY <1>1, <1>2 DEF WalkInv, CountIsCurrent, LastPage, RepeatsToCome
<1>5. NobodyMissed' /\ RepeatsAreRegistrations'
  BY <1>1 DEF WalkInv, NobodyMissed, List!NobodyMissed, RepeatsAreRegistrations,
              List!RepeatsAreRegistrations
<1> QED BY <1>3, <1>4, <1>5 DEF WalkInv

\* A walk begins at the first page, with everyone who is listed.
LEMMA WalkInit ==
    ASSUME List!Init PROVE WalkInv
<1>1. PICK n \in 0..InitialProfiles : \E kinds \in [1..n -> Kind] :
         profiles = [i \in 1..n |-> [id |-> i, kind |-> kinds[i]]]
  BY DEF List!Init
<1>2. PICK kinds \in [1..n -> Kind] : profiles = [i \in 1..n |-> [id |-> i, kind |-> kinds[i]]]
  BY <1>1
<1>3. /\ pc = "count" /\ size \in PageSize /\ search \in BOOLEAN /\ page = 1
      /\ total = 0 /\ slice = <<>> /\ walked = <<>> /\ registered = 0 /\ torn = 0
      /\ known = {p.id : p \in ToSet(ListedNow)}
  BY DEF List!Init, List!ToSet, ToSet, ListedNow
<1>4. n \in Nat
  BY ListAssumption
<1>5. profiles \in Seq(Profile) /\ Len(profiles) = n
  <2>1. profiles \in [1..n -> Profile]
    BY <1>2, <1>4 DEF Profile
  <2>2. profiles \in Seq(Profile)
    BY <1>4, <2>1, SeqDef
  <2> QED BY <1>4, <2>1, <2>2, LenProperties
<1>6. \A i \in 1..n : profiles[i].id = i
  BY <1>2
<1>7. WalkType
  <2>1. DistinctIds(profiles) /\ \A i \in 1..Len(profiles) : profiles[i].id <= Len(profiles)
    BY <1>4, <1>5, <1>6 DEF DistinctIds
  <2>2. size \in Nat \ {0}
    BY <1>3, ListAssumption
  <2>3. <<>> \in Seq(Profile) /\ <<>> \in Seq(Nat)
    OBVIOUS
  <2>4. pc \in {"count", "slice", "items", "answered", "failed", "done"}
    BY <1>3
  <2>5. page \in Nat \ {0} /\ total \in Nat /\ registered \in Nat /\ torn \in Nat
    BY <1>3
  <2>6. slice \in Seq(Profile) /\ walked \in Seq(Nat)
    BY <1>3, <2>3
  <2> QED BY <1>3, <1>5, <2>1, <2>2, <2>4, <2>5, <2>6 DEF WalkType
<1>8. ListedNow \in Seq(Profile) /\ Len(ListedNow) \in Nat /\ DOMAIN ListedNow = 1..Len(ListedNow)
  BY <1>7, ListedFacts, LenProperties
<1>9. Shown = <<>> /\ ToSet(Shown) = {} /\ Len(Shown) = 0
  BY <1>3 DEF Shown, ToSet
<1>10. Boundary = 0
  <2>1. (page - 1) * size = 0
    BY <1>3, <1>7, Places DEF WalkType
  <2> QED BY <1>3, <2>1 DEF Boundary
<1>11. KnownListed
  <2>1. ToSet(ListedNow) = {ListedNow[i] : i \in 1..Len(ListedNow)}
    BY <1>8 DEF ToSet
  <2> QED BY <1>3, <2>1 DEF KnownListed
<1>12. FirstPage /\ KnownShown /\ ShownExist /\ CountIsCurrent /\ LastPage
  BY <1>3, <1>8, <1>9, <1>10 DEF FirstPage, KnownShown, ShownExist, CountIsCurrent, LastPage
<1>13. RepeatsToCome
  <2>1. Beyond(ListedNow, Boundary, {}) = {}
    BY DEF Beyond
  <2>2. Cardinality(Beyond(ListedNow, Boundary, ToSet(Shown))) = 0
    BY <1>9, <2>1, FS_EmptySet
  <2>3. Len(Shown) = 0 /\ Cardinality(ToSet(Shown)) = 0 /\ registered = 0
    BY <1>3, <1>9, FS_EmptySet
  <2> QED BY <2>2, <2>3 DEF RepeatsToCome
<1>14. NobodyMissed /\ RepeatsAreRegistrations
  <2>1. ToSet(walked) = {} /\ Len(walked) = 0
    BY <1>3 DEF ToSet
  <2>2. Repeats <= registered
    <3>1. Cardinality(ToSet(walked)) = 0
      BY <2>1, FS_EmptySet
    <3> QED BY <1>3, <2>1, <3>1 DEF Repeats
  <2> QED BY <1>3, <2>2, PropertiesOfTheWalk
<1> QED BY <1>7, <1>11, <1>12, <1>13, <1>14 DEF WalkInv

\* The inductive invariant of the walk.
THEOREM WalkInvariant == List!Spec => []WalkInv
<1>1. List!Init => WalkInv
  BY WalkInit
<1>2. WalkInv /\ [List!Next]_(List!vars) => WalkInv'
  <2> SUFFICES ASSUME WalkInv, [List!Next]_(List!vars) PROVE WalkInv'
    OBVIOUS
  <2>1. CASE List!Register
    BY <2>1, RegisterStep
  <2>2. CASE List!Count
    BY <2>2, CountStep
  <2>3. CASE List!Slice
    BY <2>3, SliceStep
  <2>4. CASE List!Answer
    BY <2>4, AnswerStep
  <2>5. CASE List!Walk
    BY <2>5, WalkStep
  <2>6. CASE UNCHANGED List!vars
    BY <2>6, WalkIdle
  <2> QED BY <2>1, <2>2, <2>3, <2>4, <2>5, <2>6 DEF List!Next
<1> QED BY <1>1, <1>2, PTL DEF List!Spec

\* A walk over the pages shows everyone who was listed when it began, but for as many
\* as registered between the count and the slice of its last page.
THEOREM WalkMissesNobody == List!Spec => []NobodyMissed
<1>1. WalkInv => NobodyMissed
  BY DEF WalkInv
<1> QED BY <1>1, WalkInvariant, PTL

\* Nobody is shown again but for a registration.
THEOREM WalkRepeats == List!Spec => []RepeatsAreRegistrations
<1>1. WalkInv => RepeatsAreRegistrations
  BY DEF WalkInv
<1> QED BY <1>1, WalkInvariant, PTL
===============================================================================
