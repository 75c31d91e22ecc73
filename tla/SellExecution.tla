----------------------------- MODULE SellExecution -----------------------------
(***************************************************************************)
(* SellService.execute_sell: concurrent sells of one pooled position, from *)
(* the lock of the position to the rows and balances a commit publishes.   *)
(*                                                                         *)
(* Quantities and amounts are in ticks, the last decimal of the            *)
(* Numeric(20, 8) columns; Scale ticks make one share or one unit of       *)
(* money.  Between two stores the code computes with 28 digits, here with  *)
(* exact fractions over Units(s).  The digits this loses may tip a tie: a  *)
(* store rounds to the nearest tick, to either of two as near, and equal   *)
(* values may compare either way (tipped).  EPSILON is one tick.           *)
(***************************************************************************)
EXTENDS Integers, FiniteSets, Functions

CONSTANTS
    User, Session,         \* owners of the position; one sell request each
    None,
    Scale,
    Shares,                \* whole shares a user may own when the position opens
    BuyPrice,              \* prices the position may have been bought at, in ticks
    BuyCharge,             \* shares of the buy's charges a user may have been charged
    SellQuantity, SellPrice, SellCharges,  \* what a request may ask, in ticks
    MinimumProfit,         \* minimum_profit_threshold of each user, in percent
    FeePercent,            \* platform_performance_fee
    HasSettlementAccount,  \* users with an active USER_SETTLEMENT account
    PlatformConfigured     \* are there treasury and fee reserve accounts?

ASSUME ConstantsAssumption ==
    /\ IsFiniteSet(User) /\ IsFiniteSet(Session)
    /\ None \notin User \cup Session
    /\ Scale \in Nat \ {0}
    /\ Shares \subseteq Nat \ {0}
    /\ BuyPrice \subseteq Nat \ {0} /\ BuyCharge \subseteq Nat
    /\ SellQuantity \subseteq Nat \ {0}
    /\ SellPrice \subseteq Nat \ {0}
    /\ SellCharges \subseteq Nat
    /\ MinimumProfit \in [User -> Nat]
    /\ FeePercent \in 0..100
    /\ HasSettlementAccount \subseteq User
    /\ PlatformConfigured \in BOOLEAN

VARIABLES
    \* committed rows
    remaining, allocated, open,    \* the position: quantities, status = OPEN
    quantity, cost, isOpen,        \* per user, the allocation: remaining_quantity,
                                   \* remaining_cost, status = OPEN
    treasury, reserve, settled,    \* derived balances of the accounts paid
    bought, sold,                  \* total_quantity; sum of the sell trades
    \* sessions
    positionLock,                  \* session holding the position FOR UPDATE
    pc, req,
    seen,                          \* seen[s]: the position as s has read it
    rows,                          \* rows[s]: the allocations s has selected
    realized,                      \* realized[s]: the realizations s has built
    credited, fees,                \* credited[s], fees[s]: its ledger rows
    updated                        \* updated[s]: its new allocation values

holdings == <<remaining, allocated, open, quantity, cost, isOpen, bought, sold>>
balances == <<treasury, reserve, settled>>
local    == <<req, seen, rows, realized, credited, fees, updated>>
vars     == <<holdings, balances, positionLock, pc, local>>

Modes    == {"proportional", "targeted"}
Terminal == {"committed", "rejected", "crashed"}
Running  == {"position", "allocations", "realizations", "ledger", "holdings",
             "commit", "raised", "unbound"}
Empty    == [u \in {} |-> 0]
NoSell   == [mode |-> "proportional", target |-> None, quantity |-> 0,
             price |-> 0, charges |-> 0]

\* The integers nearest to n / d.
Nearest(n, d) == {k \in {n \div d, n \div d + 1} :
                      2 * (k * d - n) <= d /\ 2 * (n - k * d) <= d}

\* Does the computed n exceed the computed d?
Exceeds(n, d, tipped) == n > d \/ (n = d /\ tipped)

\* The functions that round each n[u] / d to a nearest integer.
Rounded(n, d) ==
    {f \in [DOMAIN n -> UNION {Nearest(n[u], d) : u \in DOMAIN n}] :
        \A u \in DOMAIN n : f[u] \in Nearest(n[u], d)}

\* A position as a buy leaves it: allocated in full, allocated_quantity zero.
Init ==
    /\ \E shares \in [User -> Shares], price \in BuyPrice, charge \in [User -> BuyCharge] :
          /\ quantity = [u \in User |-> shares[u] * Scale]
          /\ cost = [u \in User |-> shares[u] * price + charge[u]]
    /\ isOpen = [u \in User |-> TRUE]
    /\ bought = SumFunction(quantity)
    /\ remaining = bought
    /\ allocated = 0
    /\ open = TRUE
    /\ sold = 0
    /\ treasury = SumFunction(cost)
    /\ reserve = 0
    /\ settled = [u \in User |-> 0]
    /\ positionLock = None
    /\ pc = [s \in Session |-> "idle"]
    /\ req = [s \in Session |-> NoSell]
    /\ seen = [s \in Session |-> [remaining |-> 0, allocated |-> 0]]
    /\ rows = [s \in Session |-> Empty]
    /\ realized = [s \in Session |-> Empty]
    /\ credited = [s \in Session |-> Empty]
    /\ fees = [s \in Session |-> Empty]
    /\ updated = [s \in Session |-> Empty]

Goto(s, from, to) ==
    /\ pc[s] = from
    /\ pc' = [pc EXCEPT ![s] = to]

\* Only a request names its target user, and target_user_id may be missing: its
\* validator does not run when the field is left out.
Submit(s) ==
    /\ \E mode \in Modes, target \in User \cup {None}, q \in SellQuantity,
          price \in SellPrice, charges \in SellCharges :
          /\ mode = "proportional" => target = None
          /\ req' = [req EXCEPT ![s] = [mode |-> mode, target |-> target,
                         quantity |-> q, price |-> price, charges |-> charges]]
    /\ Goto(s, "idle", "position")
    /\ UNCHANGED <<holdings, balances, positionLock, seen, rows, realized, credited,
                   fees, updated>>

\* _validate_and_lock_position raises for a closed or an exhausted position.
Liquidable == open /\ remaining > 1

\* Mutant: the position is read without FOR UPDATE.
LockPosition_PlainRead(s) ==
    /\ Goto(s, "position", IF Liquidable THEN "allocations" ELSE "raised")
    /\ seen' = [seen EXCEPT ![s] = [remaining |-> remaining, allocated |-> allocated]]
    /\ UNCHANGED <<holdings, balances, positionLock, req, rows, realized, credited, fees,
                   updated>>

\* get_by_id_for_update waits for the sell that holds the position.
LockPosition(s) ==
    /\ positionLock = None
    /\ Goto(s, "position", IF Liquidable THEN "allocations" ELSE "raised")
    /\ positionLock' = s
    /\ seen' = [seen EXCEPT ![s] = [remaining |-> remaining, allocated |-> allocated]]
    /\ UNCHANGED <<holdings, balances, req, rows, realized, credited, fees, updated>>

\* get_open_by_position_id_for_update, get_open_by_position_and_user_for_update
Eligible(s) ==
    {u \in User : isOpen[u] /\ (req[s].mode = "targeted" => u = req[s].target)}

\* _select_and_lock_allocations, _validate_sell_quantity.  The row locks of the
\* allocations never wait: only the holder of the position's lock takes them.
SelectAllocations(s) ==
    LET selected == Eligible(s)
        total == SumFunctionOnSet(quantity, selected)
        valid == /\ selected # {}
                 /\ req[s].quantity <= seen[s].remaining
                 /\ req[s].mode = "targeted" => req[s].quantity <= total
                 /\ total > 1
    IN  /\ Goto(s, "allocations", IF valid THEN "realizations" ELSE "raised")
        /\ rows' = [rows EXCEPT ![s] = [u \in IF valid THEN selected ELSE {} |->
                        [quantity |-> quantity[u], cost |-> cost[u]]]]
        /\ UNCHANGED <<holdings, balances, positionLock, req, seen, realized, credited,
                       fees, updated>>

-------------------------------------------------------------------------------
(* _build_realizations, in units of 1 / Units(s) ticks *)

\* Mutant: the shares are taken of all the position's allocations.
Total_WholePosition(s) == SumFunction(quantity)

Total(s) == SumFunction([u \in DOMAIN rows[s] |-> rows[s][u].quantity])
Units(s) == 100 * Scale * Total(s)

\* Mutant: every user bears the whole of the charges.
ChargeShare_Uncut(s, u) == 100 * Scale * req[s].charges * Total(s)

\* share_ratio is rows[s][u].quantity / Total(s).
GrossProceeds(s, u) == 100 * req[s].quantity * rows[s][u].quantity * req[s].price
RealizedCost(s, u)  == 100 * Scale * req[s].quantity * rows[s][u].cost
ChargeShare(s, u)   == 100 * Scale * req[s].charges * rows[s][u].quantity
RealizedPnl(s, u)   == GrossProceeds(s, u) - RealizedCost(s, u) - ChargeShare(s, u)

\* The condition under which the loop assigns performance_fee, and what it assigns.
AssignsFee(s, u, tipped) ==
    /\ Exceeds(RealizedPnl(s, u), 0, tipped)
    /\ Exceeds(RealizedCost(s, u), Units(s), tipped)
AssignedFee(s, u, tipped) ==
    IF Exceeds(100 * RealizedPnl(s, u), MinimumProfit[u] * RealizedCost(s, u), tipped)
    THEN FeePercent * (RealizedPnl(s, u) \div 100)
    ELSE 0

\* performance_fee at the k-th allocation of the loop: the one assigned last.
FeeAt(s, order, tips) ==
    LET fee[k \in DOMAIN order] ==
            LET u == order[k]
            IN  IF AssignsFee(s, u, u \in tips) THEN AssignedFee(s, u, u \in tips)
                ELSE fee[k - 1]
    IN  fee

\* The allocations come in any order (no ORDER BY).  If the first assigns no
\* fee, net_credit reads an unbound local.
BuildRealizations(s) ==
    /\ pc[s] = "realizations"
    /\ \E order \in Bijection(1..Cardinality(DOMAIN rows[s]), DOMAIN rows[s]),
          tips \in SUBSET DOMAIN rows[s] :
          LET bound == AssignsFee(s, order[1], order[1] \in tips)
              fee   == FeeAt(s, order, tips)
              FeeOf(u) == fee[AntiFunction(order)[u]]
          IN  /\ Goto(s, "realizations", IF bound THEN "ledger" ELSE "unbound")
              /\ realized' = [realized EXCEPT ![s] = IF ~bound THEN Empty ELSE
                     [u \in DOMAIN rows[s] |->
                        [pnl |-> RealizedPnl(s, u),
                         fee |-> FeeOf(u),
                         credit |-> GrossProceeds(s, u) - ChargeShare(s, u) - FeeOf(u)]]]
    /\ UNCHANGED <<holdings, balances, positionLock, req, seen, rows, credited, fees,
                   updated>>

\* _build_ledger_transactions: a settlement credit for every realization and a
\* fee row where the fee exceeds EPSILON.
CreateSettlements(s) ==
    LET users == DOMAIN realized[s]
    IN  \/ /\ ~PlatformConfigured \/ ~(users \subseteq HasSettlementAccount)
           /\ Goto(s, "ledger", "raised")
           /\ UNCHANGED <<holdings, balances, positionLock, local>>
        \/ /\ PlatformConfigured /\ users \subseteq HasSettlementAccount
           /\ Goto(s, "ledger", "holdings")
           /\ \E c \in Rounded([u \in users |-> realized[s][u].credit], Units(s)) :
                 credited' = [credited EXCEPT ![s] = c]
           /\ \E tips \in SUBSET users :
                 LET payers == {u \in users :
                                  Exceeds(realized[s][u].fee, Units(s), u \in tips)}
                 IN  \E f \in Rounded([u \in payers |-> realized[s][u].fee], Units(s)) :
                        fees' = [fees EXCEPT ![s] = f]
           /\ UNCHANGED <<holdings, balances, positionLock, req, seen, rows, realized,
                          updated>>

\* _apply_allocation_updates: what is not sold of an allocation's quantity and
\* cost, n, is left of it.
Left(s, n) == n * (Total(s) - req[s].quantity)

\* Mutants: an allocation closes only when nothing is left; it never closes.
StaysOpen_WithDust(s, u, tipped) == Left(s, rows[s][u].quantity) > 0
StaysOpen_Always(s, u, tipped) == TRUE

\* An allocation closes when no more than EPSILON is left of its quantity.
StaysOpen(s, u, tipped) == Exceeds(Left(s, rows[s][u].quantity), Total(s), tipped)

UpdateAllocations(s) ==
    /\ pc[s] = "holdings"
    /\ \E tips \in SUBSET DOMAIN rows[s] :
          LET users == DOMAIN rows[s]
              opened == {u \in users : StaysOpen(s, u, u \in tips)}
              LeftOf(u, n) == IF u \in opened THEN Left(s, n) ELSE 0
          IN  \E q \in Rounded([u \in users |-> LeftOf(u, rows[s][u].quantity)], Total(s)),
                 c \in Rounded([u \in users |-> LeftOf(u, rows[s][u].cost)], Total(s)) :
                 updated' = [updated EXCEPT ![s] = [u \in users |->
                     [quantity |-> q[u], cost |-> c[u], isOpen |-> u \in opened]]]
    /\ Goto(s, "holdings", "commit")
    /\ UNCHANGED <<holdings, balances, positionLock, req, seen, rows, realized, credited,
                   fees>>

-------------------------------------------------------------------------------
(* The end of a transaction *)

\* What a session holds is released and what it has computed is forgotten.
End(s) ==
    /\ positionLock' = IF positionLock = s THEN None ELSE positionLock
    /\ seen' = [seen EXCEPT ![s] = [remaining |-> 0, allocated |-> 0]]
    /\ rows' = [rows EXCEPT ![s] = Empty]
    /\ realized' = [realized EXCEPT ![s] = Empty]
    /\ credited' = [credited EXCEPT ![s] = Empty]
    /\ fees' = [fees EXCEPT ![s] = Empty]
    /\ updated' = [updated EXCEPT ![s] = Empty]

\* Mutant: a position sold out keeps its status.
PublishPosition_NeverCloses(s) ==
    LET left == seen[s].remaining - req[s].quantity
    IN  /\ remaining' = IF left <= 1 THEN 0 ELSE left
        /\ open' = open
        /\ allocated' = seen[s].allocated - req[s].quantity

\* _apply_position_update, flushed by the commit: at most EPSILON left closes it.
PublishPosition(s) ==
    LET left == seen[s].remaining - req[s].quantity
    IN  /\ remaining' = IF left <= 1 THEN 0 ELSE left
        /\ open' = (left > 1)
        /\ allocated' = seen[s].allocated - req[s].quantity

\* _create_sell_trade: sold is derived from the quantities of the sell trades.
PublishTrade(s) == sold' = sold + req[s].quantity

PublishAllocations(s) ==
    LET new(u, old, field) == IF u \in DOMAIN updated[s] THEN updated[s][u][field] ELSE old
    IN  /\ quantity' = [u \in User |-> new(u, quantity[u], "quantity")]
        /\ cost' = [u \in User |-> new(u, cost[u], "cost")]
        /\ isOpen' = [u \in User |-> new(u, isOpen[u], "isOpen")]

PublishLedger(s) ==
    /\ treasury' = treasury - SumFunction(credited[s]) - SumFunction(fees[s])
    /\ reserve' = reserve + SumFunction(fees[s])
    /\ settled' = [u \in User |-> settled[u] +
                      IF u \in DOMAIN credited[s] THEN credited[s][u] ELSE 0]

Commit(s) ==
    /\ Goto(s, "commit", "committed")
    /\ PublishPosition(s)
    /\ PublishAllocations(s)
    /\ PublishLedger(s)
    /\ PublishTrade(s)
    /\ End(s)
    /\ UNCHANGED <<bought, req>>

\* Mutant: an early return leaves the transaction open.
Rollback_KeepsLock(s) ==
    /\ pc[s] \in {"raised", "unbound"}
    /\ pc' = [pc EXCEPT ![s] = "rejected"]
    /\ UNCHANGED <<holdings, balances, positionLock, local>>

\* except Exception: rollback; raise.
Rollback(s) ==
    /\ pc[s] \in {"raised", "unbound"}
    /\ pc' = [pc EXCEPT ![s] = "rejected"]
    /\ End(s)
    /\ UNCHANGED <<holdings, balances, req>>

\* The process dies or the connection drops; the server aborts the transaction.
Crash(s) ==
    /\ pc[s] \in Running
    /\ pc' = [pc EXCEPT ![s] = "crashed"]
    /\ End(s)
    /\ UNCHANGED <<holdings, balances, req>>

-------------------------------------------------------------------------------
Step(s) ==
    \/ LockPosition(s)
    \/ SelectAllocations(s)
    \/ BuildRealizations(s)
    \/ CreateSettlements(s)
    \/ UpdateAllocations(s)
    \/ Commit(s)
    \/ Rollback(s)

Quiescent ==
    /\ \A s \in Session : pc[s] \in Terminal
    /\ UNCHANGED vars

Next ==
    \/ \E s \in Session : Submit(s) \/ Step(s) \/ Crash(s)
    \/ Quiescent

Spec == Init /\ [][Next]_vars

\* A handler that can take its next statement eventually does.
FairSpec == Spec /\ \A s \in Session : WF_vars(Step(s))

-------------------------------------------------------------------------------
(* Properties *)

\* The types of the variables.
TypeOK ==
    /\ remaining \in Nat /\ allocated \in Int /\ open \in BOOLEAN
    /\ quantity \in [User -> Nat] /\ cost \in [User -> Int]
    /\ isOpen \in [User -> BOOLEAN]
    /\ treasury \in Int /\ reserve \in Nat /\ settled \in [User -> Int]
    /\ bought \in Nat /\ sold \in Nat
    /\ positionLock \in Session \cup {None}
    /\ pc \in [Session -> {"idle"} \cup Running \cup Terminal]
    /\ seen \in [Session -> [remaining : Nat, allocated : Int]]
    /\ \A s \in Session :
          /\ req[s].mode \in Modes /\ req[s].target \in User \cup {None}
          /\ DOMAIN rows[s] \subseteq User
          /\ DOMAIN fees[s] \subseteq DOMAIN realized[s]

\* No allocation is open with nothing to sell: cost_per_unit, the cost over the
\* remaining quantity of an open allocation, never divides by zero.
OpenIsDivisible ==
    \A u \in User : IF isOpen[u] THEN quantity[u] > 0 /\ cost[u] >= 0
                                 ELSE quantity[u] = 0 /\ cost[u] = 0

\* Sells never take more than was bought, and the position tells what is left:
\* "a row-level database lock to prevent concurrent modifications during
\* sensitive financial workflows" (position_repository.py:74).
NoOverselling ==
    /\ open => remaining = bought - sold
    /\ ~open => remaining = 0 /\ bought - sold \in 0..1

\* Sells committed so far.
Sells == Cardinality({s \in Session : pc[s] = "committed"})

\* The quantities the users hold add up to what the position holds, to half a
\* tick per user for each sell, which is rounded, and a tick for each record
\* closed, whose dust is dropped.
HoldingsTrackPosition ==
    LET drift == SumFunction(quantity) - remaining
        closed == Cardinality({u \in User : ~isOpen[u]}) + (IF open THEN 0 ELSE 1)
        slack == Cardinality(User) * Sells + 2 * closed
    IN  2 * drift <= slack /\ -(2 * drift) <= slack

\* A proportional sell of the whole of a position without drift leaves nothing
\* behind: every allocation closes with the position.
FullSaleCloses ==
    [][\A s \in Session :
          /\ pc[s] = "commit" /\ pc'[s] = "committed"
          /\ req[s].mode = "proportional"
          /\ req[s].quantity = remaining
          /\ SumFunction(quantity) = remaining
          => ~open' /\ \A u \in User : ~isOpen'[u]]_vars

\* What the trade brought in, the proceeds less the charges, leaves the treasury
\* and arrives at the users and the fee reserve, to one and a half ticks per
\* user (each row is rounded and a fee of EPSILON is not posted).
SettlementConserves ==
    [][\A s \in Session :
          pc[s] = "commit" /\ pc'[s] = "committed" =>
             LET brought == req[s].quantity * req[s].price - req[s].charges * Scale
                 paid    == treasury - treasury'
                 slack   == 3 * Scale * Cardinality(DOMAIN rows[s])
             IN  /\ 2 * (paid * Scale - brought) <= slack
                 /\ 2 * (brought - paid * Scale) <= slack
                 /\ paid = reserve' - reserve + SumFunction(settled') - SumFunction(settled)]_vars

\* A sell made of many statements, among others and crashes, behaves as a single
\* step of the abstract position ("Transaction - safe financial state mutation",
\* sell_service.py:8): nothing is taken twice, and every owner gives up its part.
Book == INSTANCE PositionBook
            WITH remaining <- remaining, open <- open, quantity <- quantity,
                 isOpen <- isOpen, treasury <- treasury, reserve <- reserve,
                 settled <- settled
ImplementsPositionBook == Book!Spec

\* Every request ends: it commits, is rejected or dies.
EveryRequestEnds ==
    \A s \in Session : pc[s] \in Running ~> pc[s] \in Terminal

\* "realized_pnl: Gross realized profit or loss." (realization.py:52): a sell
\* may realize a loss, and the loop that builds its records does not break.
LossesAreRealized == \A s \in Session : pc[s] # "unbound"
===============================================================================
