-------------------------- MODULE SellExecution_proofs --------------------------
(***************************************************************************)
(* Proofs about concurrent sells of one position, for any number of users  *)
(* and of sells and for any quantities, prices, charges and fees: first    *)
(* the inductive invariant, then what a committed sell conserves, the      *)
(* money it moves, the quantities it takes, and with them the abstract     *)
(* position of PositionBook.                                               *)
(***************************************************************************)
EXTENDS SellExecution, SumLemmas

-------------------------------------------------------------------------------
(* What each phase of a sell has established, of the rows r it has selected and *)
(* its request rq                                                               *)

\* Sessions that hold the position, and those of them that have its allocations.
Priced  == {"realizations", "unbound", "ledger", "holdings", "commit"}
Holding == Priced \cup {"allocations"}

\* The quantity held by the allocations selected: Total(s), of rows[s].
Held(r) == SumFunctionOnSet([u \in DOMAIN r |-> r[u].quantity], DOMAIN r)

\* r are the allocations rq selects, as they stand; left is left of the position.
Selected(r, rq, q, c, o, left) ==
    /\ DOMAIN r = {u \in User : o[u] /\ (rq.mode = "targeted" => u = rq.target)}
    /\ DOMAIN r # {}
    /\ \A u \in DOMAIN r : r[u].quantity = q[u] /\ r[u].cost = c[u]
    /\ Held(r) > 1
    /\ rq.quantity <= left
    /\ rq.mode = "targeted" => rq.quantity <= Held(r)

\* Proceeds less charges of user u, and the units they are counted in.
Unit(r) == 100 * Scale * Held(r)
Earned(r, rq, u) ==
    100 * rq.quantity * r[u].quantity * rq.price - 100 * Scale * rq.charges * r[u].quantity

Built(r, rq, records) ==
    /\ DOMAIN records = DOMAIN r
    /\ \A u \in DOMAIN r :
          records[u].fee \in Nat /\ records[u].credit = Earned(r, rq, u) - records[u].fee

\* What u costs the treasury: its credit and its fee.
Payment(credit, fee, u) == credit[u] + (IF u \in DOMAIN fee THEN fee[u] ELSE 0)

Paid(r, rq, credit, fee) ==
    /\ DOMAIN credit = DOMAIN r /\ DOMAIN fee \subseteq DOMAIN r
    /\ \A u \in DOMAIN r :
          /\ credit[u] \in Int
          /\ u \in DOMAIN fee => fee[u] \in Nat
          /\ 2 * (Payment(credit, fee, u) * Unit(r) - Earned(r, rq, u)) <= 3 * Unit(r)
          /\ 2 * (Earned(r, rq, u) - Payment(credit, fee, u) * Unit(r)) <= 3 * Unit(r)

\* What is left of an open allocation is its part to half a tick; a closed one
\* would have had no more than a tick.
Reduced(r, rq, new) ==
    /\ DOMAIN new = DOMAIN r
    /\ \A u \in DOMAIN r :
          LET part == r[u].quantity * (Held(r) - rq.quantity)
          IN  /\ new[u].quantity \in Nat /\ new[u].cost \in Nat /\ new[u].isOpen \in BOOLEAN
              /\ new[u].isOpen =>
                    /\ rq.quantity < Held(r) /\ new[u].quantity > 0
                    /\ 2 * (new[u].quantity * Held(r) - part) <= Held(r)
                    /\ 2 * (part - new[u].quantity * Held(r)) <= Held(r)
              /\ ~new[u].isOpen =>
                    new[u].quantity = 0 /\ new[u].cost = 0 /\ part <= Held(r)

SessionOK(s) ==
    /\ pc[s] \in Holding =>
          /\ positionLock = s /\ open /\ remaining > 1
          /\ seen[s].remaining = remaining
          /\ req[s].quantity > 0
    /\ pc[s] = "position" => req[s].quantity > 0
    /\ pc[s] \in Priced => Selected(rows[s], req[s], quantity, cost, isOpen, remaining)
    /\ pc[s] = "ledger" => Built(rows[s], req[s], realized[s])
    /\ pc[s] \in {"holdings", "commit"} => Paid(rows[s], req[s], credited[s], fees[s])
    /\ pc[s] = "commit" => Reduced(rows[s], req[s], updated[s])
    /\ pc[s] \in {"ledger", "holdings", "commit"} => DOMAIN realized[s] = DOMAIN rows[s]
    /\ pc[s] \notin {"holdings", "commit"} => DOMAIN fees[s] = {}

\* What TypeOK leaves out.
RowsOK(r) ==
    /\ DOMAIN r \subseteq User
    /\ \A u \in DOMAIN r : r[u].quantity \in Nat /\ r[u].cost \in Nat

TypesOK ==
    /\ cost \in [User -> Nat]
    /\ req \in [Session -> [mode : Modes, target : User \cup {None}, quantity : Nat,
                            price : Nat, charges : Nat]]
    /\ rows = [s \in Session |-> rows[s]] /\ realized = [s \in Session |-> realized[s]]
    /\ credited = [s \in Session |-> credited[s]] /\ fees = [s \in Session |-> fees[s]]
    /\ updated = [s \in Session |-> updated[s]]
    /\ \A s \in Session : RowsOK(rows[s])

Types == TypeOK /\ TypesOK
Sessions == \A s \in Session : SessionOK(s)
Stock == OpenIsDivisible /\ NoOverselling

IInv == Types /\ Sessions /\ Stock

-------------------------------------------------------------------------------
(* Rounding and sums *)

\* The requests, the scale and the fee are numbers.
LEMMA ConstantTypes ==
    /\ Scale \in Nat /\ Scale > 0 /\ FeePercent \in Nat
    /\ \A q \in SellQuantity : q \in Nat /\ q > 0
    /\ \A p \in SellPrice : p \in Nat
    /\ \A c \in SellCharges : c \in Nat
    /\ \A n \in Shares : n \in Nat /\ n > 0
    /\ \A p \in BuyPrice : p \in Nat
    /\ \A x \in BuyCharge : x \in Nat
    /\ \A u \in User : MinimumProfit[u] \in Nat
BY ConstantsAssumption

\* A rounded value is an integer within half of the exact one.
LEMMA NearestBounds ==
    ASSUME NEW n \in Int, NEW d \in Nat, d > 0, NEW k \in Nearest(n, d)
    PROVE  /\ k \in Int
           /\ 2 * (k * d - n) <= d /\ 2 * (n - k * d) <= d
BY DEF Nearest

\* Each value of a rounded function is within half a tick.
LEMMA RoundedBounds ==
    ASSUME NEW n, NEW d \in Nat, d > 0, \A u \in DOMAIN n : n[u] \in Int,
           NEW f \in Rounded(n, d)
    PROVE  /\ DOMAIN f = DOMAIN n
           /\ \A u \in DOMAIN n : /\ f[u] \in Int
                                  /\ 2 * (f[u] * d - n[u]) <= d
                                  /\ 2 * (n[u] - f[u] * d) <= d
<1>1. DOMAIN f = DOMAIN n /\ \A u \in DOMAIN n : f[u] \in Nearest(n[u], d)
  BY DEF Rounded
<1> QED BY <1>1, NearestBounds

\* The quantity a sell divides by is what its allocations hold.
LEMMA TotalIsHeld == \A s \in Session : Total(s) = Held(rows[s])
BY DEF Total, Held, SumFunction

\* What allocations hold is a natural, no less than what any of them holds.
LEMMA HeldNat ==
    ASSUME NEW r, RowsOK(r)
    PROVE  Held(r) \in Nat /\ \A u \in DOMAIN r : r[u].quantity <= Held(r)
<1> DEFINE f == [u \in DOMAIN r |-> r[u].quantity]
<1>1. IsFiniteSet(DOMAIN r)
  BY ConstantsAssumption, FS_Subset DEF RowsOK
<1>2. \A u \in DOMAIN r : f[u] \in Nat
  BY DEF RowsOK
<1>3. /\ SumFunctionOnSet(f, DOMAIN r) \in Nat
      /\ \A u \in DOMAIN r : f[u] <= SumFunctionOnSet(f, DOMAIN r)
  BY <1>1, <1>2, SumNat
<1> QED BY <1>3 DEF Held

\* What the types say of the holdings and of their sum.
LEMMA TypeFacts ==
    ASSUME TypeOK
    PROVE  /\ \A u \in User : quantity[u] \in Nat
           /\ IsFiniteSet(User)
           /\ SumFunction(quantity) = SumFunctionOnSet(quantity, User)
           /\ SumFunction(quantity) \in Nat
<1>1. \A u \in User : quantity[u] \in Nat
  BY DEF TypeOK
<1>2. SumFunction(quantity) = SumFunctionOnSet(quantity, User)
  BY DEF TypeOK, SumFunction
<1> QED BY <1>1, <1>2, SumNat, ConstantsAssumption

\* The invariant holds initially: a position as a buy leaves it.
LEMMA InitIInv == Init => IInv
<1> SUFFICES ASSUME Init PROVE IInv
  OBVIOUS
<1>1. PICK shares \in [User -> Shares], price \in BuyPrice, charge \in [User -> BuyCharge] :
         /\ quantity = [u \in User |-> shares[u] * Scale]
         /\ cost = [u \in User |-> shares[u] * price + charge[u]]
  BY DEF Init
<1>2. \A u \in User : /\ shares[u] * Scale \in Nat /\ shares[u] * Scale > 0
                      /\ shares[u] * price + charge[u] \in Nat
  BY ConstantTypes
<1>3. quantity \in [User -> Nat] /\ cost \in [User -> Nat] /\ \A u \in User : quantity[u] > 0
  BY <1>1, <1>2
<1>4. bought \in Nat /\ treasury \in Int
  <2>1. SumFunctionOnSet(quantity, User) \in Nat /\ SumFunctionOnSet(cost, User) \in Nat
    BY <1>3, SumNat, ConstantsAssumption
  <2>2. SumFunction(quantity) = SumFunctionOnSet(quantity, User)
        /\ SumFunction(cost) = SumFunctionOnSet(cost, User)
    BY <1>3 DEF SumFunction
  <2> QED BY <2>1, <2>2 DEF Init
<1>5. TypeOK
  BY <1>3, <1>4 DEF Init, TypeOK, NoSell, Modes, Empty
<1>6. TypesOK
  BY <1>3 DEF Init, TypesOK, NoSell, Modes, Empty, RowsOK
<1>7. Sessions
  BY DEF Init, Sessions, SessionOK, Holding, Priced, Empty
<1>8. Stock
  BY <1>3, <1>4 DEF Init, Stock, OpenIsDivisible, NoOverselling
<1> QED BY <1>5, <1>6, <1>7, <1>8 DEF IInv, Types

-------------------------------------------------------------------------------
(* _build_realizations *)

\* What the loop computes of every user is a number, and fees are not negative.
LEMMA LoopTypes ==
    ASSUME Types, NEW s \in Session, Held(rows[s]) > 0
    PROVE  /\ Held(rows[s]) \in Nat
           /\ Units(s) = Unit(rows[s]) /\ Unit(rows[s]) \in Nat /\ Unit(rows[s]) > 0
           /\ \A u \in DOMAIN rows[s] :
                 /\ Earned(rows[s], req[s], u) \in Int
                 /\ GrossProceeds(s, u) - ChargeShare(s, u) = Earned(rows[s], req[s], u)
                 /\ RealizedCost(s, u) \in Int /\ RealizedPnl(s, u) \in Int
                 /\ \A tipped \in BOOLEAN :
                       AssignsFee(s, u, tipped) => AssignedFee(s, u, tipped) \in Nat
<1>1. /\ req[s].quantity \in Nat /\ req[s].price \in Nat /\ req[s].charges \in Nat
      /\ RowsOK(rows[s])
  BY DEF Types, TypesOK
<1>2. Held(rows[s]) \in Nat
  BY <1>1, HeldNat
<1>3. /\ Units(s) = Unit(rows[s])
      /\ Unit(rows[s]) \in Nat /\ Unit(rows[s]) > 0
  <2> DEFINE h == Held(rows[s])
  <2>1. Units(s) = 100 * Scale * h
    BY TotalIsHeld DEF Units
  <2> HIDE DEF h
  <2>2. h \in Nat /\ h > 0 => 100 * Scale * h \in Nat /\ 100 * Scale * h > 0
    BY ConstantTypes
  <2> QED BY <1>2, <2>1, <2>2 DEF h, Unit
<1>4. ASSUME NEW u \in DOMAIN rows[s]
      PROVE  /\ Earned(rows[s], req[s], u) \in Int
             /\ GrossProceeds(s, u) - ChargeShare(s, u) = Earned(rows[s], req[s], u)
             /\ RealizedCost(s, u) \in Int /\ RealizedPnl(s, u) \in Int
             /\ \A tipped \in BOOLEAN :
                   AssignsFee(s, u, tipped) => AssignedFee(s, u, tipped) \in Nat
  <2>1. rows[s][u].quantity \in Nat /\ rows[s][u].cost \in Nat
    BY <1>1 DEF RowsOK
  <2>2. /\ GrossProceeds(s, u) \in Int /\ ChargeShare(s, u) \in Int
        /\ RealizedCost(s, u) \in Int
    BY <1>1, <2>1, ConstantTypes DEF GrossProceeds, ChargeShare, RealizedCost
  <2>3. GrossProceeds(s, u) - ChargeShare(s, u) = Earned(rows[s], req[s], u)
    BY <1>1, <2>1, ConstantTypes DEF GrossProceeds, ChargeShare, Earned
  <2>4. RealizedPnl(s, u) \in Int
    BY <2>2 DEF RealizedPnl
  <2>5. ASSUME NEW tipped \in BOOLEAN, AssignsFee(s, u, tipped)
        PROVE  AssignedFee(s, u, tipped) \in Nat
    <3>1. RealizedPnl(s, u) >= 0
      BY <2>4, <2>5 DEF AssignsFee, Exceeds
    <3>2. RealizedPnl(s, u) \div 100 \in Nat
      BY <2>4, <3>1
    <3>3. FeePercent * (RealizedPnl(s, u) \div 100) \in Nat
      BY <3>2, ConstantTypes
    <3> QED BY <3>3 DEF AssignedFee
  <2> QED BY <2>2, <2>3, <2>4, <2>5
<1> QED BY <1>2, <1>3, <1>4

\* performance_fee after the first m allocations of the loop.
IsFee(fee, s, order, tips, m) ==
    fee = [k \in 1..m |->
              IF AssignsFee(s, order[k], order[k] \in tips)
              THEN AssignedFee(s, order[k], order[k] \in tips)
              ELSE fee[k - 1]]

\* When the first allocation assigns a fee, every one of them has a fee.
LEMMA FeesExist ==
    ASSUME NEW s, NEW order, NEW tips, NEW n \in Nat,
           AssignsFee(s, order[1], order[1] \in tips)
    PROVE  \E fee : IsFee(fee, s, order, tips, n)
<1> DEFINE N == {m \in Nat : ~ \E fee : IsFee(fee, s, order, tips, m)}
<1> SUFFICES ASSUME N # {} PROVE FALSE
  OBVIOUS
<1>1. PICK m \in N : \A k \in N : m <= k
  BY LeastNatural
<1>2. CASE m = 0
  <2>1. IsFee([k \in 1..0 |-> 0], s, order, tips, 0)
    BY DEF IsFee
  <2> QED BY <1>2, <2>1
<1>3. CASE m > 0
  <2>1. m - 1 \in Nat /\ m - 1 \notin N
    BY <1>1, <1>3
  <2>2. PICK g : IsFee(g, s, order, tips, m - 1)
    BY <2>1
  <2> DEFINE h == [k \in 1..m |-> IF AssignsFee(s, order[k], order[k] \in tips)
                                 THEN AssignedFee(s, order[k], order[k] \in tips)
                                 ELSE g[k - 1]]
  <2>3. ASSUME NEW k \in 1..(m - 1) PROVE h[k] = g[k]
    <3>1. g[k] = IF AssignsFee(s, order[k], order[k] \in tips)
                 THEN AssignedFee(s, order[k], order[k] \in tips) ELSE g[k - 1]
      BY <2>2 DEF IsFee
    <3>2. k \in 1..m
      BY <1>1
    <3> QED BY <3>1, <3>2
  <2>4. \A k \in 1..m : k = 1 \/ k - 1 \in 1..(m - 1)
    BY <1>1
  <2>5. IsFee(h, s, order, tips, m)
    BY <2>3, <2>4 DEF IsFee
  <2> QED BY <2>5
<1> QED BY <1>1, <1>2, <1>3

\* The fee the loop carries is a natural at every iteration, if its first allocation assigns one.
LEMMA FeeTypes ==
    ASSUME NEW s, NEW tips, NEW n \in Nat, NEW D, NEW order \in [1..n -> D],
           AssignsFee(s, order[1], order[1] \in tips),
           \A u \in D, tipped \in BOOLEAN :
               AssignsFee(s, u, tipped) => AssignedFee(s, u, tipped) \in Nat
    PROVE  \A k \in 1..n : FeeAt(s, order, tips)[k] \in Nat
<1> DEFINE fee == FeeAt(s, order, tips)
<1>1. IsFee(fee, s, order, tips, n)
  <2>1. DOMAIN order = 1..n
    OBVIOUS
  <2>2. fee = CHOOSE f : IsFee(f, s, order, tips, n)
    BY <2>1, Zenon DEF FeeAt, IsFee
  <2>3. \E f : IsFee(f, s, order, tips, n)
    BY FeesExist
  <2> QED BY <2>2, <2>3, Zenon
<1> HIDE DEF fee
<1> DEFINE N == {k \in 1..n : fee[k] \notin Nat}
<1> SUFFICES ASSUME N # {} PROVE FALSE
  BY DEF fee
<1>2. PICK k \in N : \A j \in N : k <= j
  <2>1. N \in SUBSET Nat
    OBVIOUS
  <2> QED BY <2>1, LeastNatural
<1>3. fee[k] = IF AssignsFee(s, order[k], order[k] \in tips)
               THEN AssignedFee(s, order[k], order[k] \in tips) ELSE fee[k - 1]
  BY <1>1 DEF IsFee
<1>4. order[k] \in D
  OBVIOUS
<1>5. CASE AssignsFee(s, order[k], order[k] \in tips)
  <2>1. (order[k] \in tips) \in BOOLEAN
    OBVIOUS
  <2>2. AssignedFee(s, order[k], order[k] \in tips) \in Nat
    BY <1>4, <1>5, <2>1, Zenon
  <2>3. fee[k] = AssignedFee(s, order[k], order[k] \in tips)
    BY <1>3, <1>5, Zenon
  <2> QED BY <2>2, <2>3
<1>6. CASE ~AssignsFee(s, order[k], order[k] \in tips)
  <2>1. k # 1
    BY <1>6
  <2>2. k - 1 \in 1..n /\ k - 1 \notin N
    BY <1>2, <2>1
  <2> QED BY <1>3, <1>6, <2>2
<1> QED BY <1>5, <1>6

\* The loop leaves a record for every allocation, or breaks and leaves none.
LEMMA BuildEffect ==
    ASSUME Types, NEW s \in Session, BuildRealizations(s), Held(rows[s]) > 0
    PROVE  \/ pc'[s] = "ledger" /\ Built(rows[s], req[s], realized'[s])
           \/ pc'[s] = "unbound"
<1> DEFINE D == DOMAIN rows[s]
           n == Cardinality(D)
<1>1. IsFiniteSet(D) /\ n \in Nat
  BY ConstantsAssumption, FS_Subset, FS_CardinalityType DEF Types, TypesOK, RowsOK
<1>2. PICK order \in Bijection(1..n, D), tips \in SUBSET D :
         LET bound == AssignsFee(s, order[1], order[1] \in tips)
             FeeOf(u) == FeeAt(s, order, tips)[AntiFunction(order)[u]]
         IN  /\ Goto(s, "realizations", IF bound THEN "ledger" ELSE "unbound")
             /\ realized' = [realized EXCEPT ![s] = IF ~bound THEN Empty ELSE
                    [u \in D |-> [pnl |-> RealizedPnl(s, u),
                                  fee |-> FeeOf(u),
                                  credit |-> GrossProceeds(s, u) - ChargeShare(s, u) - FeeOf(u)]]]
  BY DEF BuildRealizations
<1>3. realized = [t \in Session |-> realized[t]] /\ pc \in [Session -> {"idle"} \cup Running \cup Terminal]
  BY DEF Types, TypesOK, TypeOK
<1>4. CASE AssignsFee(s, order[1], order[1] \in tips)
  <2>1. order \in [1..n -> D] /\ \A u \in D : \E k \in 1..n : order[k] = u
    BY DEF Bijection, Injection, Surjection
  <2>2. \A u \in D : AntiFunction(order)[u] \in 1..n
    <3> SUFFICES ASSUME NEW u \in D PROVE AntiFunction(order)[u] \in 1..n
      OBVIOUS
    <3>1. DOMAIN order = 1..n /\ u \in Range(order)
      BY <2>1 DEF Range
    <3>2. AntiFunction(order)[u] = CHOOSE k \in 1..n : u \in Range(order) => order[k] = u
      BY <3>1 DEF AntiFunction, Inverse
    <3> QED BY <2>1, <3>2
  <2>3. \A k \in 1..n : FeeAt(s, order, tips)[k] \in Nat
    BY <1>1, <1>4, <2>1, LoopTypes, FeeTypes
  <2>4. \A u \in D : /\ Earned(rows[s], req[s], u) \in Int
                     /\ GrossProceeds(s, u) - ChargeShare(s, u) = Earned(rows[s], req[s], u)
    BY LoopTypes
  <2> DEFINE Fee(u) == FeeAt(s, order, tips)[AntiFunction(order)[u]]
             re == [u \in D |-> [pnl |-> RealizedPnl(s, u), fee |-> Fee(u),
                                 credit |-> GrossProceeds(s, u) - ChargeShare(s, u) - Fee(u)]]
  <2>5. realized'[s] = re
    BY <1>2, <1>3, <1>4
  <2>6. \A u \in D : Fee(u) \in Nat
    BY <2>2, <2>3
  <2>7. Built(rows[s], req[s], re)
    BY <2>4, <2>6 DEF Built
  <2>8. pc'[s] = "ledger"
    BY <1>2, <1>3, <1>4 DEF Goto
  <2> QED BY <2>5, <2>7, <2>8
<1>5. CASE ~AssignsFee(s, order[1], order[1] \in tips)
  BY <1>2, <1>3, <1>5 DEF Goto
<1> QED BY <1>4, <1>5

-------------------------------------------------------------------------------
(* _build_ledger_transactions and _apply_allocation_updates *)

\* The sign of a rounded value is that of the exact one.
LEMMA RoundedSign ==
    ASSUME NEW n \in Int, NEW d \in Nat, d > 0, NEW k \in Int,
           2 * (k * d - n) <= d, 2 * (n - k * d) <= d
    PROVE  /\ n >= 0 => k >= 0
           /\ n = 0 => k = 0
           /\ n >= d => k > 0
<1>1. k <= -1 => k * d <= -d
  OBVIOUS
<1>2. k >= 1 => k * d >= d
  OBVIOUS
<1>3. k = 0 => k * d = 0
  OBVIOUS
<1>4. k * d \in Int
  OBVIOUS
<1> QED BY <1>1, <1>2, <1>3, <1>4

\* A credit and a fee, each rounded, pay what was earned to one and a half ticks.
LEMMA PaymentBound ==
    ASSUME NEW c \in Int, NEW f \in Int, NEW U \in Nat, U > 0, NEW earned \in Int, NEW fee \in Nat,
           2 * (c * U - (earned - fee)) <= U, 2 * ((earned - fee) - c * U) <= U,
           \/ 2 * (f * U - fee) <= U /\ 2 * (fee - f * U) <= U
           \/ f = 0 /\ fee <= U
    PROVE  2 * ((c + f) * U - earned) <= 3 * U /\ 2 * (earned - (c + f) * U) <= 3 * U
<1>1. (c + f) * U = c * U + f * U /\ c * U \in Int /\ f * U \in Int
  OBVIOUS
<1>2. f = 0 => f * U = 0
  OBVIOUS
<1> QED BY <1>1, <1>2

\* The settlements are paid, rounded, or the sell has failed and nothing is.
LEMMA SettleEffect ==
    ASSUME Types, NEW s \in Session, CreateSettlements(s), Held(rows[s]) > 0,
           Built(rows[s], req[s], realized[s])
    PROVE  \/ pc'[s] = "holdings" /\ Paid(rows[s], req[s], credited'[s], fees'[s])
           \/ pc'[s] = "raised" /\ UNCHANGED <<credited, fees>>
<1> DEFINE D == DOMAIN realized[s]
           U == Units(s)
<1>1. /\ U = Unit(rows[s]) /\ U \in Nat /\ U > 0 /\ D = DOMAIN rows[s]
      /\ \A u \in D : Earned(rows[s], req[s], u) \in Int
  BY LoopTypes DEF Built
<1>2. /\ \A u \in D : /\ realized[s][u].fee \in Nat
                       /\ realized[s][u].credit = Earned(rows[s], req[s], u) - realized[s][u].fee
                       /\ realized[s][u].credit \in Int
  BY <1>1 DEF Built
<1>3. /\ pc \in [Session -> {"idle"} \cup Running \cup Terminal]
      /\ credited = [t \in Session |-> credited[t]] /\ fees = [t \in Session |-> fees[t]]
  BY DEF Types, TypesOK, TypeOK
<1>5. ASSUME NEW c \in Rounded([u \in D |-> realized[s][u].credit], U), NEW tips \in SUBSET D,
             NEW f \in Rounded([u \in {v \in D : Exceeds(realized[s][v].fee, U, v \in tips)} |->
                                  realized[s][u].fee], U),
             credited' = [credited EXCEPT ![s] = c], fees' = [fees EXCEPT ![s] = f]
      PROVE  Paid(rows[s], req[s], credited'[s], fees'[s])
  <2> DEFINE payers == {u \in D : Exceeds(realized[s][u].fee, U, u \in tips)}
  <2>1. credited'[s] = c /\ fees'[s] = f
    BY <1>3, <1>5
  <2>2. /\ DOMAIN c = D
        /\ \A u \in D : /\ c[u] \in Int
                         /\ 2 * (c[u] * U - realized[s][u].credit) <= U
                         /\ 2 * (realized[s][u].credit - c[u] * U) <= U
    <3> DEFINE n == [u \in D |-> realized[s][u].credit]
    <3>1. DOMAIN n = D /\ \A u \in D : n[u] \in Int /\ n[u] = realized[s][u].credit
      BY <1>2
    <3> HIDE DEF n, U, D
    <3>2. c \in Rounded(n, U)
      BY DEF n
    <3> QED BY <1>1, <3>1, <3>2, RoundedBounds
  <2>3. /\ DOMAIN f = payers
        /\ \A u \in payers : /\ f[u] \in Int
                              /\ 2 * (f[u] * U - realized[s][u].fee) <= U
                              /\ 2 * (realized[s][u].fee - f[u] * U) <= U
    <3> DEFINE n == [u \in payers |-> realized[s][u].fee]
    <3>1. DOMAIN n = payers /\ \A u \in payers : n[u] \in Int /\ n[u] = realized[s][u].fee
      BY <1>2
    <3>2. f \in Rounded(n, U)
      OBVIOUS
    <3> HIDE DEF n, U, D, payers
    <3> QED BY <1>1, <3>1, <3>2, RoundedBounds
  <2> HIDE DEF U
  <2>4. ASSUME NEW u \in D
        PROVE  /\ u \in DOMAIN f => f[u] \in Nat
               /\ 2 * (Payment(c, f, u) * U - Earned(rows[s], req[s], u)) <= 3 * U
               /\ 2 * (Earned(rows[s], req[s], u) - Payment(c, f, u) * U) <= 3 * U
    <3> DEFINE fee == realized[s][u].fee
               earned == Earned(rows[s], req[s], u)
    <3>1. /\ fee \in Nat /\ earned \in Int /\ c[u] \in Int
          /\ 2 * (c[u] * U - (earned - fee)) <= U /\ 2 * ((earned - fee) - c[u] * U) <= U
      BY <1>1, <1>2, <2>2
    <3>2. CASE u \in payers
      <4>1. /\ f[u] \in Int /\ u \in DOMAIN f
            /\ 2 * (f[u] * U - fee) <= U /\ 2 * (fee - f[u] * U) <= U
        BY <2>3, <3>2
      <4>2. Payment(c, f, u) = c[u] + f[u]
        BY <4>1 DEF Payment
      <4> HIDE DEF fee, earned
      <4>3. f[u] >= 0
        BY <1>1, <3>1, <4>1, RoundedSign
      <4>4. 2 * ((c[u] + f[u]) * U - earned) <= 3 * U /\ 2 * (earned - (c[u] + f[u]) * U) <= 3 * U
        BY <1>1, <3>1, <4>1, PaymentBound
      <4> QED BY <4>1, <4>2, <4>3, <4>4 DEF earned
    <3>3. CASE u \notin payers
      <4>1. u \notin DOMAIN f /\ fee <= U
        BY <1>1, <2>3, <3>1, <3>3 DEF Exceeds
      <4>2. Payment(c, f, u) = c[u] + 0
        BY <4>1 DEF Payment
      <4> HIDE DEF fee, earned
      <4>3. 2 * ((c[u] + 0) * U - earned) <= 3 * U /\ 2 * (earned - (c[u] + 0) * U) <= 3 * U
        BY <1>1, <3>1, <4>1, PaymentBound
      <4> QED BY <4>1, <4>2, <4>3 DEF earned
    <3> QED BY <3>2, <3>3
  <2>5. DOMAIN f \subseteq D
    BY <2>3
  <2>6. U = Unit(rows[s]) /\ D = DOMAIN rows[s]
    BY <1>1
  <2> HIDE DEF D
  <2>7. Paid(rows[s], req[s], c, f)
    BY <2>2, <2>4, <2>5, <2>6 DEF Paid
  <2> QED BY <2>1, <2>7
<1>6. ASSUME Goto(s, "ledger", "holdings"),
             \E c \in Rounded([u \in D |-> realized[s][u].credit], U) :
                 credited' = [credited EXCEPT ![s] = c],
             \E tips \in SUBSET D :
                 LET payers == {u \in D : Exceeds(realized[s][u].fee, U, u \in tips)}
                 IN  \E f \in Rounded([u \in payers |-> realized[s][u].fee], U) :
                        fees' = [fees EXCEPT ![s] = f]
      PROVE  pc'[s] = "holdings" /\ Paid(rows[s], req[s], credited'[s], fees'[s])
  <2>1. Paid(rows[s], req[s], credited'[s], fees'[s])
    BY <1>5, <1>6, Zenon
  <2>2. pc'[s] = "holdings"
    BY <1>3, <1>6 DEF Goto
  <2> QED BY <2>1, <2>2
<1>7. ASSUME Goto(s, "ledger", "raised"), UNCHANGED <<holdings, balances, positionLock, local>>
      PROVE  pc'[s] = "raised" /\ UNCHANGED <<credited, fees>>
  BY <1>3, <1>7 DEF Goto, local
<1> QED BY <1>6, <1>7, Zenon DEF CreateSettlements

\* A product no less than a positive number has a positive factor.
LEMMA PositiveFactor ==
    ASSUME NEW a \in Nat, NEW e \in Int, NEW b \in Nat, b > 0, a * e >= b
    PROVE  e > 0
<1>1. e <= 0 => a * e <= 0
  OBVIOUS
<1> QED BY <1>1

\* An open allocation keeps its part, rounded; a closed one is emptied.
LEMMA UpdateEffect ==
    ASSUME Types, NEW s \in Session, UpdateAllocations(s), Held(rows[s]) > 0
    PROVE  pc'[s] = "commit" /\ Reduced(rows[s], req[s], updated'[s])
<1> DEFINE D == DOMAIN rows[s]
           T == Total(s)
           Q == req[s].quantity
           LeftOf(opened, u, n) == IF u \in opened THEN Left(s, n) ELSE 0
<1>1. /\ T = Held(rows[s]) /\ T \in Nat /\ T > 0 /\ Q \in Nat
      /\ \A u \in D : rows[s][u].quantity \in Nat /\ rows[s][u].cost \in Nat
  BY TotalIsHeld, HeldNat DEF Types, TypesOK, RowsOK
<1>2. pc'[s] = "commit"
  BY DEF UpdateAllocations, Goto, Types, TypeOK
<1>3. PICK tips \in SUBSET D :
         LET opened == {u \in D : StaysOpen(s, u, u \in tips)}
         IN  \E q \in Rounded([u \in D |-> LeftOf(opened, u, rows[s][u].quantity)], T),
                c \in Rounded([u \in D |-> LeftOf(opened, u, rows[s][u].cost)], T) :
                updated' = [updated EXCEPT ![s] = [u \in D |->
                    [quantity |-> q[u], cost |-> c[u], isOpen |-> u \in opened]]]
  BY Zenon DEF UpdateAllocations
<1> DEFINE opened == {u \in D : StaysOpen(s, u, u \in tips)}
           nq == [u \in D |-> LeftOf(opened, u, rows[s][u].quantity)]
           nc == [u \in D |-> LeftOf(opened, u, rows[s][u].cost)]
<1>4. PICK q \in Rounded(nq, T), c \in Rounded(nc, T) :
         updated' = [updated EXCEPT ![s] = [u \in D |->
             [quantity |-> q[u], cost |-> c[u], isOpen |-> u \in opened]]]
  BY <1>3
<1>5. \A n \in Nat : Left(s, n) = n * (T - Q) /\ Left(s, n) \in Int
  BY <1>1 DEF Left
<1> HIDE DEF T, Q
<1>6. ASSUME NEW u \in D
      PROVE  /\ nq[u] \in Int /\ nc[u] \in Int
             /\ u \in opened => /\ nq[u] = rows[s][u].quantity * (T - Q) /\ nq[u] >= T
                               /\ nc[u] = rows[s][u].cost * (T - Q) /\ nc[u] >= 0 /\ Q < T
             /\ u \notin opened => /\ nq[u] = 0 /\ nc[u] = 0
                                  /\ rows[s][u].quantity * (T - Q) <= T
  <2>1. CASE u \in opened
    <3>1. nq[u] = rows[s][u].quantity * (T - Q) /\ nc[u] = rows[s][u].cost * (T - Q)
      BY <1>1, <1>5, <2>1
    <3>2. nq[u] >= T
      BY <1>1, <1>5, <2>1, <3>1 DEF StaysOpen, Exceeds, T
    <3> DEFINE a == rows[s][u].quantity
               b == rows[s][u].cost
    <3>3. a \in Nat /\ b \in Nat
      BY <1>1
    <3> HIDE DEF a, b, nq, nc
    <3>4. a * (T - Q) >= T => T - Q > 0
      <4>1. T - Q \in Int
        BY <1>1 DEF Q
      <4> QED BY <1>1, <3>3, <4>1, PositiveFactor
    <3>5. Q < T
      BY <1>1, <3>1, <3>2, <3>4 DEF a
    <3>6. b * (T - Q) >= 0
      BY <1>1, <3>3, <3>5
    <3> QED BY <1>1, <2>1, <3>1, <3>2, <3>3, <3>5, <3>6 DEF a, b
  <2>2. CASE u \notin opened
    <3>1. nq[u] = 0 /\ nc[u] = 0
      BY <2>2
    <3>2. rows[s][u].quantity * (T - Q) <= T
      BY <1>1, <1>5, <2>2 DEF StaysOpen, Exceeds, T
    <3> QED BY <2>2, <3>1, <3>2
  <2> QED BY <2>1, <2>2
<1>7. DOMAIN nq = D /\ DOMAIN nc = D
  OBVIOUS
<1> HIDE DEF nq, nc, opened
<1>8. ASSUME NEW u \in D
      PROVE  /\ q[u] \in Int /\ 2 * (q[u] * T - nq[u]) <= T /\ 2 * (nq[u] - q[u] * T) <= T
             /\ c[u] \in Int /\ 2 * (c[u] * T - nc[u]) <= T /\ 2 * (nc[u] - c[u] * T) <= T
  BY <1>1, <1>6, <1>7, RoundedBounds
<1>9. ASSUME NEW u \in D
      PROVE  /\ nq[u] >= 0 => q[u] >= 0
             /\ nq[u] = 0 => q[u] = 0
             /\ nq[u] >= T => q[u] > 0
             /\ nc[u] >= 0 => c[u] >= 0
             /\ nc[u] = 0 => c[u] = 0
  BY <1>1, <1>6, <1>8, RoundedSign
<1> DEFINE new == [u \in D |-> [quantity |-> q[u], cost |-> c[u], isOpen |-> u \in opened]]
<1>10. updated'[s] = new
  BY <1>4 DEF Types, TypesOK
<1>11. ASSUME NEW u \in D
       PROVE  LET part == rows[s][u].quantity * (T - Q)
              IN  /\ q[u] \in Nat /\ c[u] \in Nat
                  /\ u \in opened => /\ Q < T /\ q[u] > 0
                                    /\ 2 * (q[u] * T - part) <= T
                                    /\ 2 * (part - q[u] * T) <= T
                  /\ u \notin opened => q[u] = 0 /\ c[u] = 0 /\ part <= T
  <2>1. CASE u \in opened
    BY <1>1, <1>6, <1>8, <1>9, <2>1
  <2>2. CASE u \notin opened
    BY <1>1, <1>6, <1>8, <1>9, <2>2
  <2> QED BY <2>1, <2>2
<1>12. Reduced(rows[s], req[s], new)
  <2>1. DOMAIN new = D
    OBVIOUS
  <2>2. ASSUME NEW u \in D
        PROVE  /\ new[u].quantity = q[u] /\ new[u].cost = c[u]
               /\ new[u].isOpen \in BOOLEAN /\ (new[u].isOpen <=> u \in opened)
    <3>1. new[u] = [quantity |-> q[u], cost |-> c[u], isOpen |-> u \in opened]
      OBVIOUS
    <3>2. new[u].quantity = q[u] /\ new[u].cost = c[u]
      BY <3>1
    <3>3. new[u].isOpen = (u \in opened)
      BY <3>1, Zenon
    <3>4. (u \in opened) \in BOOLEAN
      OBVIOUS
    <3> QED BY <3>2, <3>3, <3>4, Zenon
  <2> HIDE DEF new
  <2> SUFFICES ASSUME NEW u \in DOMAIN rows[s]
               PROVE  LET part == rows[s][u].quantity * (T - Q)
                      IN  /\ new[u].quantity \in Nat /\ new[u].cost \in Nat
                          /\ new[u].isOpen \in BOOLEAN
                          /\ new[u].isOpen =>
                                /\ Q < T /\ new[u].quantity > 0
                                /\ 2 * (new[u].quantity * T - part) <= T
                                /\ 2 * (part - new[u].quantity * T) <= T
                          /\ ~new[u].isOpen =>
                                new[u].quantity = 0 /\ new[u].cost = 0 /\ part <= T
    BY <1>1, <2>1, Zenon DEF Reduced, Q
  <2> QED BY <1>11, <2>2
<1> QED BY <1>2, <1>10, <1>12

-------------------------------------------------------------------------------
(* Commit *)

\* What a commit finds and what it publishes: the row is locked, so that what was read still holds.
LEMMA CommitEffect ==
    ASSUME IInv, NEW s \in Session, Commit(s)
    PROVE  LET r == rows[s]
               new == updated[s]
               q == req[s].quantity
           IN  /\ positionLock = s /\ open /\ remaining \in Nat /\ remaining > 1
               /\ q \in Nat /\ q > 0 /\ q <= remaining
               /\ remaining' = IF remaining - q <= 1 THEN 0 ELSE remaining - q
               /\ open' = (remaining - q > 1)
               /\ sold' = sold + q /\ bought' = bought
               /\ RowsOK(r) /\ Held(r) \in Nat
               /\ Selected(r, req[s], quantity, cost, isOpen, remaining)
               /\ Paid(r, req[s], credited[s], fees[s])
               /\ Reduced(r, req[s], new)
               /\ quantity' = [u \in User |-> IF u \in DOMAIN r THEN new[u].quantity ELSE quantity[u]]
               /\ cost' = [u \in User |-> IF u \in DOMAIN r THEN new[u].cost ELSE cost[u]]
               /\ isOpen' = [u \in User |-> IF u \in DOMAIN r THEN new[u].isOpen ELSE isOpen[u]]
<1>1. /\ pc[s] = "commit" /\ positionLock = s /\ open /\ remaining > 1
      /\ seen[s].remaining = remaining /\ req[s].quantity > 0
      /\ Selected(rows[s], req[s], quantity, cost, isOpen, remaining)
      /\ Paid(rows[s], req[s], credited[s], fees[s])
      /\ Reduced(rows[s], req[s], updated[s])
  BY DEF Commit, Goto, IInv, Sessions, SessionOK, Holding, Priced
<1>2. /\ remaining \in Nat /\ req[s].quantity \in Nat /\ RowsOK(rows[s])
  BY DEF IInv, Types, TypesOK, TypeOK
<1>3. Held(rows[s]) \in Nat
  BY <1>2, HeldNat
<1>4. req[s].quantity <= remaining
  BY <1>1 DEF Selected
<1>5. /\ remaining' = IF remaining - req[s].quantity <= 1 THEN 0 ELSE remaining - req[s].quantity
      /\ open' = (remaining - req[s].quantity > 1)
      /\ sold' = sold + req[s].quantity /\ bought' = bought
  BY <1>1 DEF Commit, PublishPosition, PublishTrade
<1>6. DOMAIN updated[s] = DOMAIN rows[s]
  BY <1>1 DEF Reduced
<1>7. /\ quantity' = [u \in User |-> IF u \in DOMAIN rows[s] THEN updated[s][u].quantity ELSE quantity[u]]
      /\ cost' = [u \in User |-> IF u \in DOMAIN rows[s] THEN updated[s][u].cost ELSE cost[u]]
      /\ isOpen' = [u \in User |-> IF u \in DOMAIN rows[s] THEN updated[s][u].isOpen ELSE isOpen[u]]
  BY <1>6 DEF Commit, PublishAllocations
<1> QED BY <1>1, <1>2, <1>3, <1>4, <1>5, <1>7

\* A commit moves credits and fees out of the treasury, to users and the reserve.
LEMMA MoneyEffect ==
    ASSUME IInv, NEW s \in Session, Commit(s)
    PROVE  LET credits == SumFunction(credited[s])
               due == SumFunction(fees[s])
           IN  /\ credits \in Int /\ due \in Nat
               /\ credits = SumFunctionOnSet(credited[s], DOMAIN rows[s])
               /\ due = SumFunctionOnSet(fees[s], DOMAIN fees[s])
               /\ treasury' = treasury - credits - due
               /\ reserve' = reserve + due
               /\ settled' = [u \in User |-> settled[u] +
                                IF u \in DOMAIN rows[s] THEN credited[s][u] ELSE 0]
               /\ \A u \in DOMAIN rows[s] : credited[s][u] \in Int
<1>1. Paid(rows[s], req[s], credited[s], fees[s]) /\ RowsOK(rows[s])
  BY CommitEffect
<1>2. IsFiniteSet(DOMAIN rows[s]) /\ IsFiniteSet(DOMAIN fees[s])
  BY <1>1, ConstantsAssumption, FS_Subset DEF RowsOK, Paid
<1>3. /\ DOMAIN credited[s] = DOMAIN rows[s]
      /\ \A u \in DOMAIN rows[s] : credited[s][u] \in Int
      /\ \A u \in DOMAIN fees[s] : fees[s][u] \in Nat
  BY <1>1 DEF Paid
<1>4. /\ SumFunction(credited[s]) = SumFunctionOnSet(credited[s], DOMAIN rows[s])
      /\ SumFunction(fees[s]) = SumFunctionOnSet(fees[s], DOMAIN fees[s])
  BY <1>3 DEF SumFunction
<1>5. SumFunction(credited[s]) \in Int /\ SumFunction(fees[s]) \in Nat
  BY <1>2, <1>3, <1>4, SumInt, SumNat
<1>6. /\ treasury' = treasury - SumFunction(credited[s]) - SumFunction(fees[s])
      /\ reserve' = reserve + SumFunction(fees[s])
      /\ settled' = [u \in User |-> settled[u] +
                       IF u \in DOMAIN rows[s] THEN credited[s][u] ELSE 0]
  BY <1>3 DEF Commit, PublishLedger
<1> QED BY <1>3, <1>4, <1>5, <1>6

-------------------------------------------------------------------------------
(* Every step keeps the invariant *)

\* The allocations of a session between its selection and its commit.
LEMMA HeldPositive ==
    ASSUME IInv, NEW s \in Session, pc[s] \in Priced
    PROVE  Held(rows[s]) > 0
<1>1. Held(rows[s]) > 1
  BY DEF IInv, Sessions, SessionOK, Selected
<1>2. Held(rows[s]) \in Nat
  BY HeldNat DEF IInv, Types, TypesOK
<1> QED BY <1>1, <1>2

\* The end of a transaction touches no other session's data.
LEMMA EndEffect ==
    ASSUME Types, NEW s \in Session, End(s)
    PROVE  /\ positionLock' \in Session \cup {None}
           /\ seen' \in [Session -> [remaining : Nat, allocated : Int]]
           /\ rows' = [t \in Session |-> rows'[t]] /\ realized' = [t \in Session |-> realized'[t]]
           /\ credited' = [t \in Session |-> credited'[t]] /\ fees' = [t \in Session |-> fees'[t]]
           /\ updated' = [t \in Session |-> updated'[t]]
           /\ rows'[s] = Empty /\ realized'[s] = Empty /\ fees'[s] = Empty /\ DOMAIN Empty = {}
           /\ \A t \in Session \ {s} :
                 /\ positionLock = t => positionLock' = t
                 /\ seen'[t] = seen[t] /\ rows'[t] = rows[t] /\ realized'[t] = realized[t]
                 /\ credited'[t] = credited[t] /\ fees'[t] = fees[t] /\ updated'[t] = updated[t]
           /\ \A t \in Session : /\ RowsOK(rows'[t]) /\ DOMAIN rows'[t] \subseteq User
                                 /\ DOMAIN fees'[t] \subseteq DOMAIN realized'[t]
<1>1. positionLock' \in Session \cup {None} /\ seen' \in [Session -> [remaining : Nat, allocated : Int]]
  BY DEF Types, TypeOK, End
<1>2. /\ rows' = [t \in Session |-> rows'[t]] /\ realized' = [t \in Session |-> realized'[t]]
      /\ credited' = [t \in Session |-> credited'[t]] /\ fees' = [t \in Session |-> fees'[t]]
      /\ updated' = [t \in Session |-> updated'[t]]
  BY DEF Types, TypesOK, End
<1>3. rows'[s] = Empty /\ realized'[s] = Empty /\ fees'[s] = Empty
  BY DEF Types, TypesOK, End
<1>4. \A t \in Session \ {s} :
         /\ positionLock = t => positionLock' = t
         /\ seen'[t] = seen[t] /\ rows'[t] = rows[t] /\ realized'[t] = realized[t]
         /\ credited'[t] = credited[t] /\ fees'[t] = fees[t] /\ updated'[t] = updated[t]
  BY DEF Types, TypesOK, TypeOK, End
<1>5. DOMAIN Empty = {}
  BY DEF Empty
<1>6. \A t \in Session : /\ RowsOK(rows'[t]) /\ DOMAIN rows'[t] \subseteq User
                         /\ DOMAIN fees'[t] \subseteq DOMAIN realized'[t]
  BY <1>3, <1>4, <1>5 DEF Types, TypesOK, TypeOK, RowsOK
<1> QED BY <1>1, <1>2, <1>3, <1>4, <1>5, <1>6

\* Every step keeps the types.
LEMMA TypeStep == IInv /\ [Next]_vars => Types'
<1> SUFFICES ASSUME IInv, [Next]_vars PROVE Types'
  OBVIOUS
<1> USE DEF Types, TypeOK, TypesOK, Running, Terminal, holdings, balances, local
<1>0. Types
  BY DEF IInv
<1>1. ASSUME NEW s \in Session, Submit(s) PROVE Types'
  <2>1. UNCHANGED <<holdings, balances, positionLock, seen, rows, realized, credited, fees, updated>>
    BY <1>1 DEF Submit
  <2>2. pc' \in [Session -> {"idle"} \cup Running \cup Terminal]
    BY <1>0, <1>1 DEF Submit, Goto
  <2>3. req' \in [Session -> [mode : Modes, target : User \cup {None}, quantity : Nat,
                            price : Nat, charges : Nat]]
    <3>1. req \in [Session -> [mode : Modes, target : User \cup {None}, quantity : Nat,
                            price : Nat, charges : Nat]]
      BY <1>0
    <3> HIDE DEF Types, TypeOK, TypesOK, Running, Terminal, holdings, balances, local
    <3> QED BY <1>1, <3>1, ConstantTypes DEF Submit
  <2>4. \A t \in Session : req'[t].mode \in Modes /\ req'[t].target \in User \cup {None}
    <3> HIDE DEF Types, TypeOK, TypesOK, Running, Terminal, holdings, balances, local
    <3> QED BY <2>3
  <2>5. TypeOK'
    BY <1>0, <2>1, <2>2, <2>4
  <2>6. TypesOK'
    BY <1>0, <2>1, <2>3
  <2> QED BY <2>5, <2>6
<1>2. ASSUME NEW s \in Session, LockPosition(s) PROVE Types'
  BY <1>0, <1>2 DEF LockPosition, Goto, RowsOK
<1>3. ASSUME NEW s \in Session, SelectAllocations(s) PROVE Types'
  <2>1. RowsOK(rows'[s])
    <3> DEFINE row(users) == [u \in users |-> [quantity |-> quantity[u], cost |-> cost[u]]]
    <3>1. rows = [t \in Session |-> rows[t]]
          /\ quantity \in [User -> Nat] /\ cost \in [User -> Nat]
      BY <1>0
    <3> HIDE DEF Types, TypeOK, TypesOK, Running, Terminal, holdings, balances, local
    <3>2. PICK users \in SUBSET User : rows' = [rows EXCEPT ![s] = row(users)]
      BY <1>3, Zenon DEF SelectAllocations, Eligible
    <3>3. rows'[s] = row(users)
      <4> HIDE DEF row
      <4> QED BY <3>1, <3>2
    <3> QED BY <3>1, <3>3 DEF RowsOK
  <2>2. \A t \in Session \ {s} : rows'[t] = rows[t]
    BY <1>0, <1>3 DEF SelectAllocations
  <2>3. \A t \in Session : RowsOK(rows'[t])
    BY <1>0, <2>1, <2>2
  <2>4. rows' = [t \in Session |-> rows'[t]]
    BY <1>0, <1>3 DEF SelectAllocations
  <2>5. \A t \in Session : DOMAIN rows'[t] \subseteq User
    BY <2>3 DEF RowsOK
  <2>6. pc' \in [Session -> {"idle"} \cup Running \cup Terminal]
    BY <1>0, <1>3 DEF SelectAllocations, Goto
  <2>7. UNCHANGED <<holdings, balances, positionLock, req, seen, realized, credited, fees, updated>>
    BY <1>3 DEF SelectAllocations
  <2> QED BY <1>0, <2>3, <2>4, <2>5, <2>6, <2>7 DEF RowsOK
<1>4. ASSUME NEW s \in Session, BuildRealizations(s) PROVE Types'
  <2>1. /\ pc[s] = "realizations" /\ DOMAIN fees[s] = {}
    BY <1>4 DEF BuildRealizations, IInv, Sessions, SessionOK
  <2>2. /\ pc' \in [Session -> {"idle"} \cup Running \cup Terminal]
        /\ realized' = [t \in Session |-> realized'[t]]
        /\ \A t \in Session \ {s} : realized'[t] = realized[t]
    BY <1>0, <1>4 DEF BuildRealizations, Goto
  <2>3. UNCHANGED <<holdings, balances, positionLock, req, seen, rows, credited, fees, updated>>
    BY <1>4 DEF BuildRealizations
  <2>4. \A t \in Session : DOMAIN fees'[t] \subseteq DOMAIN realized'[t]
    BY <1>0, <2>1, <2>2, <2>3
  <2> QED BY <1>0, <2>2, <2>3, <2>4 DEF RowsOK
<1>5. ASSUME NEW s \in Session, CreateSettlements(s) PROVE Types'
  <2>1. pc[s] = "ledger" /\ DOMAIN realized[s] = DOMAIN rows[s] /\ Held(rows[s]) > 0
        /\ Built(rows[s], req[s], realized[s])
    BY <1>5, HeldPositive DEF CreateSettlements, Goto, IInv, Sessions, SessionOK, Priced
  <2>2. \/ Paid(rows[s], req[s], credited'[s], fees'[s])
        \/ UNCHANGED <<credited, fees>>
    BY <1>0, <1>5, <2>1, SettleEffect
  <2>3. /\ pc' \in [Session -> {"idle"} \cup Running \cup Terminal]
        /\ credited' = [t \in Session |-> credited'[t]] /\ fees' = [t \in Session |-> fees'[t]]
        /\ \A t \in Session \ {s} : fees'[t] = fees[t]
        /\ UNCHANGED <<holdings, balances, positionLock, req, seen, rows, realized, updated>>
    <3>1. CASE Goto(s, "ledger", "raised") /\ UNCHANGED <<holdings, balances, positionLock, local>>
      BY <1>0, <3>1 DEF Goto
    <3>2. ASSUME Goto(s, "ledger", "holdings"),
                 NEW c, credited' = [credited EXCEPT ![s] = c],
                 NEW f, fees' = [fees EXCEPT ![s] = f],
                 UNCHANGED <<holdings, balances, positionLock, req, seen, rows, realized, updated>>
          PROVE  /\ pc' \in [Session -> {"idle"} \cup Running \cup Terminal]
                 /\ credited' = [t \in Session |-> credited'[t]]
                 /\ fees' = [t \in Session |-> fees'[t]]
                 /\ \A t \in Session \ {s} : fees'[t] = fees[t]
      BY <1>0, <3>2 DEF Goto
    <3> HIDE DEF Types, TypeOK, TypesOK, Running, Terminal, holdings, balances, local
    <3> QED BY <1>5, <3>1, <3>2, Zenon DEF CreateSettlements, local
  <2>4. \A t \in Session : DOMAIN fees'[t] \subseteq DOMAIN realized'[t]
    BY <1>0, <2>1, <2>2, <2>3 DEF Paid
  <2> QED BY <1>0, <2>3, <2>4 DEF RowsOK
<1>6. ASSUME NEW s \in Session, UpdateAllocations(s) PROVE Types'
  <2>1. /\ pc' \in [Session -> {"idle"} \cup Running \cup Terminal]
        /\ updated' = [t \in Session |-> updated'[t]]
        /\ UNCHANGED <<holdings, balances, positionLock, req, seen, rows, realized, credited, fees>>
    <3>1. pc' = [pc EXCEPT ![s] = "commit"]
      BY <1>6 DEF UpdateAllocations, Goto
    <3>2. updated' = [t \in Session |-> updated'[t]]
      <4>1. updated = [t \in Session |-> updated[t]]
        BY <1>0
      <4>2. PICK x : updated' = [updated EXCEPT ![s] = x]
        BY <1>6, Zenon DEF UpdateAllocations
      <4> HIDE DEF Types, TypeOK, TypesOK
      <4> QED BY <4>1, <4>2
    <3>3. UNCHANGED <<holdings, balances, positionLock, req, seen, rows, realized, credited, fees>>
      BY <1>6, Zenon DEF UpdateAllocations
    <3> QED BY <1>0, <3>1, <3>2, <3>3
  <2>2. TypeOK'
    BY <1>0, <2>1
  <2>3. TypesOK'
    BY <1>0, <2>1
  <2> QED BY <2>2, <2>3
<1>7. ASSUME NEW s \in Session, End(s), UNCHANGED <<holdings, balances, req>>,
             pc' \in [Session -> {"idle"} \cup Running \cup Terminal]
      PROVE  Types'
  BY <1>0, <1>7, EndEffect
<1>8. ASSUME NEW s \in Session, Rollback(s) \/ Crash(s) PROVE Types'
  <2>1. pc' \in [Session -> {"idle"} \cup Running \cup Terminal]
    <3>1. pc' = [pc EXCEPT ![s] = "rejected"] \/ pc' = [pc EXCEPT ![s] = "crashed"]
      BY <1>8 DEF Rollback, Crash
    <3>2. pc \in [Session -> {"idle"} \cup Running \cup Terminal]
      BY <1>0
    <3> HIDE DEF Types, TypeOK, TypesOK, holdings, balances, local
    <3> QED BY <3>1, <3>2
  <2> QED BY <1>7, <1>8, <2>1 DEF Rollback, Crash
<1>9. ASSUME NEW s \in Session, Commit(s) PROVE Types'
  <2>1. /\ remaining' \in Nat /\ open' \in BOOLEAN /\ sold' \in Nat /\ bought' \in Nat
        /\ quantity' \in [User -> Nat] /\ cost' \in [User -> Nat] /\ isOpen' \in [User -> BOOLEAN]
    <3> DEFINE r == rows[s]
               new == updated[s]
               q == req[s].quantity
    <3>1. /\ remaining \in Nat /\ q \in Nat /\ q <= remaining
          /\ remaining' = IF remaining - q <= 1 THEN 0 ELSE remaining - q
          /\ open' = (remaining - q > 1) /\ sold' = sold + q /\ bought' = bought
          /\ quantity' = [u \in User |-> IF u \in DOMAIN r THEN new[u].quantity ELSE quantity[u]]
          /\ cost' = [u \in User |-> IF u \in DOMAIN r THEN new[u].cost ELSE cost[u]]
          /\ isOpen' = [u \in User |-> IF u \in DOMAIN r THEN new[u].isOpen ELSE isOpen[u]]
          /\ Reduced(r, req[s], new)
      BY <1>9, CommitEffect
    <3>2. \A u \in DOMAIN r : new[u].quantity \in Nat /\ new[u].cost \in Nat /\ new[u].isOpen \in BOOLEAN
      BY <3>1 DEF Reduced
    <3> HIDE DEF r, new, q
    <3>3. remaining' \in Nat /\ sold' \in Nat /\ bought' \in Nat
      BY <1>0, <3>1
    <3>4. quantity' \in [User -> Nat] /\ cost' \in [User -> Nat]
      BY <1>0, <3>1, <3>2
    <3>5. isOpen' \in [User -> BOOLEAN]
      BY <1>0, <3>1, <3>2
    <3>6. open' \in BOOLEAN
      BY <3>1
    <3> QED BY <3>3, <3>4, <3>5, <3>6
  <2>2. treasury' \in Int /\ reserve' \in Nat /\ settled' \in [User -> Int]
    <3> DEFINE credits == SumFunction(credited[s])
               due == SumFunction(fees[s])
    <3>1. /\ credits \in Int /\ due \in Nat
          /\ treasury' = treasury - credits - due /\ reserve' = reserve + due
          /\ settled' = [u \in User |-> settled[u] +
                           IF u \in DOMAIN rows[s] THEN credited[s][u] ELSE 0]
          /\ \A u \in DOMAIN rows[s] : credited[s][u] \in Int
      BY <1>9, MoneyEffect
    <3> HIDE DEF credits, due
    <3>2. treasury' \in Int /\ reserve' \in Nat
      BY <1>0, <3>1
    <3>3. settled' \in [User -> Int]
      BY <1>0, <3>1
    <3> QED BY <3>2, <3>3
  <2>3. allocated' \in Int
    BY <1>0, <1>9 DEF Commit, PublishPosition
  <2>4. /\ pc' \in [Session -> {"idle"} \cup Running \cup Terminal]
        /\ req' = req
    BY <1>0, <1>9 DEF Commit, Goto
  <2>5. End(s)
    BY <1>9 DEF Commit
  <2>6. cost' \in [User -> Int]
    BY <2>1
  <2> QED BY <1>0, <2>1, <2>2, <2>3, <2>4, <2>5, <2>6, EndEffect
<1>10. CASE UNCHANGED vars
  BY <1>0, <1>10 DEF vars, RowsOK
<1> QED
  BY <1>1, <1>2, <1>3, <1>4, <1>5, <1>6, <1>8, <1>9, <1>10 DEF Next, Step, Quiescent

\* A session is not concerned by a step that leaves its data and the position alone.
LEMMA OthersOK ==
    ASSUME IInv, NEW t \in Session, UNCHANGED holdings,
           pc'[t] = pc[t], req'[t] = req[t], seen'[t] = seen[t], rows'[t] = rows[t],
           realized'[t] = realized[t], credited'[t] = credited[t], fees'[t] = fees[t],
           updated'[t] = updated[t], positionLock = t => positionLock' = t
    PROVE  SessionOK(t)'
<1>1. SessionOK(t)
  BY DEF IInv, Sessions
<1> QED BY <1>1 DEF SessionOK, holdings

\* Every step keeps what each phase of a sell has established.
LEMMA SessionStep == IInv /\ [Next]_vars => Sessions'
<1> SUFFICES ASSUME IInv, [Next]_vars, NEW t \in Session PROVE SessionOK(t)'
  BY DEF Sessions
<1>0. /\ Types /\ SessionOK(t)
      /\ pc \in [Session -> {"idle"} \cup Running \cup Terminal]
      /\ req = [x \in Session |-> req[x]] /\ seen = [x \in Session |-> seen[x]]
      /\ rows = [x \in Session |-> rows[x]] /\ realized = [x \in Session |-> realized[x]]
      /\ credited = [x \in Session |-> credited[x]] /\ fees = [x \in Session |-> fees[x]]
      /\ updated = [x \in Session |-> updated[x]]
      /\ None \notin Session
  BY ConstantsAssumption DEF IInv, Types, TypeOK, TypesOK, Sessions
<1>1. ASSUME NEW s \in Session, Submit(s) PROVE SessionOK(t)'
  <2>1. CASE t = s
    <3>1. pc[t] = "idle" /\ pc'[t] = "position" /\ req'[t].quantity > 0 /\ fees'[t] = fees[t]
      BY <1>0, <1>1, <2>1, ConstantTypes DEF Submit, Goto
    <3> QED BY <1>0, <3>1 DEF SessionOK, Holding, Priced
  <2>2. CASE t # s
    BY <1>0, <1>1, <2>2, OthersOK DEF Submit, Goto
  <2> QED BY <2>1, <2>2
<1>2. ASSUME NEW s \in Session, LockPosition(s) PROVE SessionOK(t)'
  <2>1. CASE t = s
    <3>1. /\ pc[t] = "position" /\ pc'[t] = IF Liquidable THEN "allocations" ELSE "raised"
          /\ positionLock' = t /\ seen'[t].remaining = remaining
          /\ UNCHANGED <<holdings, req, fees>>
      BY <1>0, <1>2, <2>1 DEF LockPosition, Goto
    <3>2. pc'[t] = "allocations" => open' /\ remaining' > 1
      BY <3>1 DEF Liquidable, holdings
    <3> QED BY <1>0, <3>1, <3>2 DEF SessionOK, Holding, Priced, holdings
  <2>2. CASE t # s
    BY <1>0, <1>2, <2>2, OthersOK DEF LockPosition, Goto
  <2> QED BY <2>1, <2>2
<1>3. ASSUME NEW s \in Session, SelectAllocations(s) PROVE SessionOK(t)'
  <2>1. CASE t = s
    <3> DEFINE D == Eligible(s)
               r == [u \in D |-> [quantity |-> quantity[u], cost |-> cost[u]]]
               total == SumFunctionOnSet(quantity, D)
               valid == /\ D # {}
                        /\ req[s].quantity <= seen[s].remaining
                        /\ req[s].mode = "targeted" => req[s].quantity <= total
                        /\ total > 1
    <3>1. /\ pc[s] = "allocations" /\ pc'[s] = IF valid THEN "realizations" ELSE "raised"
          /\ UNCHANGED <<holdings, positionLock, req, seen, fees>>
      BY <1>0, <1>3 DEF SelectAllocations, Goto
    <3>2. valid => rows'[s] = r
      BY <1>0, <1>3 DEF SelectAllocations
    <3>3. Held(r) = total
      <4> DEFINE f == [u \in D |-> r[u].quantity]
      <4>1. DOMAIN r = D /\ \A u \in D : f[u] = quantity[u]
        OBVIOUS
      <4>2. IsFiniteSet(D)
        BY ConstantsAssumption, FS_Subset DEF Eligible
      <4>3. SumFunctionOnSet(quantity, D) = SumFunctionOnSet(f, D)
        BY <4>1, <4>2, SumEqual
      <4> HIDE DEF D
      <4> QED BY <4>1, <4>3 DEF Held
    <3>4. /\ DOMAIN r = {u \in User : isOpen[u] /\ (req[s].mode = "targeted" => u = req[s].target)}
          /\ \A u \in D : r[u].quantity = quantity[u] /\ r[u].cost = cost[u]
      BY DEF Eligible
    <3>5. DOMAIN r = D
      OBVIOUS
    <3>6. seen[s].remaining = remaining
      BY <1>0, <2>1, <3>1 DEF SessionOK, Holding
    <3> HIDE DEF r, D, total
    <3>7. valid => Selected(r, req[s], quantity, cost, isOpen, remaining)
      BY <3>3, <3>4, <3>5, <3>6 DEF Selected
    <3> HIDE DEF valid
    <3>8. pc'[s] = "realizations" => Selected(rows'[s], req[s], quantity, cost, isOpen, remaining)
      BY <3>1, <3>2, <3>7
    <3> QED BY <1>0, <2>1, <3>1, <3>8 DEF SessionOK, Holding, Priced, holdings
  <2>2. CASE t # s
    <3>1. /\ pc'[t] = pc[t] /\ rows'[t] = rows[t]
          /\ UNCHANGED <<holdings, positionLock, req, seen, realized, credited, fees, updated>>
      BY <1>0, <1>3, <2>2 DEF SelectAllocations, Goto
    <3> QED BY <3>1, OthersOK
  <2> QED BY <2>1, <2>2
<1>4. ASSUME NEW s \in Session, BuildRealizations(s) PROVE SessionOK(t)'
  <2>1. UNCHANGED <<holdings, positionLock, req, seen, rows, credited, fees, updated>>
        /\ pc[s] = "realizations" /\ \A x \in Session \ {s} : pc'[x] = pc[x] /\ realized'[x] = realized[x]
    BY <1>0, <1>4 DEF BuildRealizations, Goto
  <2>2. CASE t = s
    <3>1. Held(rows[s]) > 0
      BY <2>1, HeldPositive DEF Priced
    <3>2. \/ pc'[s] = "ledger" /\ Built(rows[s], req[s], realized'[s])
          \/ pc'[s] = "unbound"
      BY <1>0, <1>4, <3>1, BuildEffect
    <3>3. pc'[s] = "ledger" => DOMAIN realized'[s] = DOMAIN rows[s]
      BY <3>2 DEF Built
    <3> QED BY <1>0, <2>1, <2>2, <3>2, <3>3 DEF SessionOK, Holding, Priced, holdings
  <2>3. CASE t # s
    BY <2>1, <2>3, OthersOK
  <2> QED BY <2>2, <2>3
<1>5. ASSUME NEW s \in Session, CreateSettlements(s) PROVE SessionOK(t)'
  <2>1. /\ UNCHANGED <<holdings, positionLock, req, seen, rows, realized, updated>>
        /\ pc[s] = "ledger"
        /\ \A x \in Session \ {s} : /\ pc'[x] = pc[x] /\ credited'[x] = credited[x]
                                     /\ fees'[x] = fees[x]
    <3>1. CASE Goto(s, "ledger", "raised") /\ UNCHANGED <<holdings, balances, positionLock, local>>
      BY <1>0, <3>1 DEF Goto, local
    <3>2. ASSUME Goto(s, "ledger", "holdings"),
                 NEW c, credited' = [credited EXCEPT ![s] = c],
                 NEW f, fees' = [fees EXCEPT ![s] = f],
                 UNCHANGED <<holdings, balances, positionLock, req, seen, rows, realized, updated>>
          PROVE  /\ UNCHANGED <<holdings, positionLock, req, seen, rows, realized, updated>>
                 /\ pc[s] = "ledger"
                 /\ \A x \in Session \ {s} : /\ pc'[x] = pc[x] /\ credited'[x] = credited[x]
                                              /\ fees'[x] = fees[x]
      BY <1>0, <3>2 DEF Goto
    <3> QED BY <1>5, <3>1, <3>2, Zenon DEF CreateSettlements, local
  <2>2. CASE t = s
    <3>1. Held(rows[s]) > 0 /\ Built(rows[s], req[s], realized[s])
      BY <1>0, <2>1, <2>2, HeldPositive DEF SessionOK, Priced
    <3>2. \/ pc'[s] = "holdings" /\ Paid(rows[s], req[s], credited'[s], fees'[s])
          \/ pc'[s] = "raised" /\ UNCHANGED <<credited, fees>>
      BY <1>0, <1>5, <3>1, SettleEffect
    <3> QED BY <1>0, <2>1, <2>2, <3>2 DEF SessionOK, Holding, Priced, holdings
  <2>3. CASE t # s
    BY <2>1, <2>3, OthersOK
  <2> QED BY <2>2, <2>3
<1>6. ASSUME NEW s \in Session, UpdateAllocations(s) PROVE SessionOK(t)'
  <2>1. /\ UNCHANGED <<holdings, positionLock, req, seen, rows, realized, credited, fees>>
        /\ pc[s] = "holdings" /\ \A x \in Session \ {s} : pc'[x] = pc[x] /\ updated'[x] = updated[x]
    BY <1>0, <1>6 DEF UpdateAllocations, Goto
  <2>2. CASE t = s
    <3>1. Held(rows[s]) > 0
      BY <2>1, HeldPositive DEF Priced
    <3>2. pc'[s] = "commit" /\ Reduced(rows[s], req[s], updated'[s])
      BY <1>0, <1>6, <3>1, UpdateEffect
    <3> QED BY <1>0, <2>1, <2>2, <3>2 DEF SessionOK, Holding, Priced, holdings
  <2>3. CASE t # s
    BY <2>1, <2>3, OthersOK
  <2> QED BY <2>2, <2>3
<1>7. ASSUME NEW s \in Session, End(s), pc'[s] \in Terminal, req' = req,
             \A x \in Session \ {s} : pc'[x] = pc[x],
             UNCHANGED holdings \/ positionLock = s
      PROVE  SessionOK(t)'
  <2>1. CASE t = s
    <3>1. pc'[t] \in Terminal /\ DOMAIN fees'[t] = {}
      BY <1>0, <1>7, <2>1, EndEffect
    <3> QED BY <3>1 DEF SessionOK, Holding, Priced, Terminal
  <2>2. CASE t # s /\ UNCHANGED holdings
    BY <1>0, <1>7, <2>2, EndEffect, OthersOK
  <2>3. CASE t # s /\ positionLock = s
    <3>1. pc'[t] = pc[t] /\ pc[t] \notin Holding /\ fees'[t] = fees[t] /\ req'[t] = req[t]
      BY <1>0, <1>7, <2>3, EndEffect DEF SessionOK
    <3> QED BY <1>0, <3>1 DEF SessionOK, Holding, Priced
  <2> QED BY <1>7, <2>1, <2>2, <2>3
<1>8. ASSUME NEW s \in Session, Rollback(s) \/ Crash(s) PROVE SessionOK(t)'
  <2>1. /\ End(s) /\ pc'[s] \in Terminal /\ req' = req /\ UNCHANGED holdings
        /\ \A x \in Session \ {s} : pc'[x] = pc[x]
    BY <1>0, <1>8 DEF Rollback, Crash, Terminal
  <2> QED BY <1>7, <2>1
<1>9. ASSUME NEW s \in Session, Commit(s) PROVE SessionOK(t)'
  <2>1. /\ End(s) /\ pc'[s] \in Terminal /\ req' = req
        /\ \A x \in Session \ {s} : pc'[x] = pc[x]
    BY <1>0, <1>9 DEF Commit, Goto, Terminal
  <2>2. positionLock = s
    BY <1>9, CommitEffect
  <2> QED BY <1>7, <2>1, <2>2
<1>10. CASE UNCHANGED vars
  BY <1>10, OthersOK DEF vars, local
<1> QED
  BY <1>1, <1>2, <1>3, <1>4, <1>5, <1>6, <1>8, <1>9, <1>10 DEF Next, Step, Quiescent

\* All steps but a commit leave the position, the accounts and the commits alone.
LEMMA OtherSteps ==
    ASSUME IInv, [Next]_vars, \A s \in Session : ~Commit(s)
    PROVE  /\ UNCHANGED holdings /\ UNCHANGED balances
           /\ \A t \in Session : pc'[t] = "committed" <=> pc[t] = "committed"
<1>0. pc \in [Session -> {"idle"} \cup Running \cup Terminal]
  BY DEF IInv, Types, TypeOK
<1> USE DEF Goto, Running, Terminal
<1>1. ASSUME NEW s \in Session, Submit(s) \/ LockPosition(s) \/ SelectAllocations(s)
      PROVE  /\ UNCHANGED holdings /\ UNCHANGED balances
             /\ \A t \in Session : pc'[t] = "committed" <=> pc[t] = "committed"
  BY <1>0, <1>1 DEF Submit, LockPosition, SelectAllocations
<1>2. ASSUME NEW s \in Session, BuildRealizations(s) \/ CreateSettlements(s) \/ UpdateAllocations(s)
      PROVE  /\ UNCHANGED holdings /\ UNCHANGED balances
             /\ \A t \in Session : pc'[t] = "committed" <=> pc[t] = "committed"
  BY <1>0, <1>2 DEF BuildRealizations, CreateSettlements, UpdateAllocations
<1>3. ASSUME NEW s \in Session, Rollback(s) \/ Crash(s)
      PROVE  /\ UNCHANGED holdings /\ UNCHANGED balances
             /\ \A t \in Session : pc'[t] = "committed" <=> pc[t] = "committed"
  BY <1>0, <1>3 DEF Rollback, Crash
<1>4. CASE UNCHANGED vars
  BY <1>4 DEF vars
<1> QED BY <1>1, <1>2, <1>3, <1>4 DEF Next, Step, Quiescent

\* Every step keeps the relation of the open holdings to the position.
LEMMA StockStep == IInv /\ [Next]_vars => Stock'
<1> SUFFICES ASSUME IInv, [Next]_vars PROVE Stock'
  OBVIOUS
<1>1. CASE UNCHANGED holdings
  BY <1>1 DEF IInv, Stock, OpenIsDivisible, NoOverselling, holdings
<1>2. ASSUME NEW s \in Session, Commit(s) PROVE Stock'
  <2> DEFINE r == rows[s]
             new == updated[s]
             q == req[s].quantity
  <2>1. /\ open /\ remaining \in Nat /\ q \in Nat /\ q <= remaining
        /\ remaining' = IF remaining - q <= 1 THEN 0 ELSE remaining - q
        /\ open' = (remaining - q > 1) /\ sold' = sold + q /\ bought' = bought
        /\ quantity' = [u \in User |-> IF u \in DOMAIN r THEN new[u].quantity ELSE quantity[u]]
        /\ cost' = [u \in User |-> IF u \in DOMAIN r THEN new[u].cost ELSE cost[u]]
        /\ isOpen' = [u \in User |-> IF u \in DOMAIN r THEN new[u].isOpen ELSE isOpen[u]]
        /\ Reduced(r, req[s], new)
    BY <1>2, CommitEffect
  <2>2. /\ bought \in Nat /\ sold \in Nat /\ remaining = bought - sold
        /\ OpenIsDivisible
    BY <2>1 DEF IInv, Types, TypeOK, Stock, NoOverselling
  <2>3. \A u \in DOMAIN r :
           /\ new[u].quantity \in Nat /\ new[u].cost \in Nat /\ new[u].isOpen \in BOOLEAN
           /\ new[u].isOpen => new[u].quantity > 0
           /\ ~new[u].isOpen => new[u].quantity = 0 /\ new[u].cost = 0
    BY <2>1 DEF Reduced
  <2> HIDE DEF r, new, q
  <2>4. NoOverselling'
    <3> DEFINE left == remaining - q
    <3>1. left \in Nat /\ left = bought' - sold'
      BY <2>1, <2>2
    <3>2. open' = (left > 1) /\ remaining' = IF left <= 1 THEN 0 ELSE left
      BY <2>1, Zenon
    <3> HIDE DEF left
    <3>3. CASE left > 1
      <4>1. remaining' = left
        BY <3>1, <3>2, <3>3
      <4>2. open'
        BY <3>2, <3>3, Zenon
      <4> QED BY <4>1, <4>2, <3>1, Zenon DEF NoOverselling
    <3>4. CASE ~(left > 1)
      <4>1. remaining' = 0 /\ left \in 0..1
        BY <3>1, <3>2, <3>4
      <4>2. ~open'
        BY <3>2, <3>4, Zenon
      <4> QED BY <4>1, <4>2, <3>1, Zenon DEF NoOverselling
    <3> QED BY <3>3, <3>4, Zenon
  <2>5. OpenIsDivisible'
    <3> SUFFICES ASSUME NEW u \in User
                 PROVE  IF isOpen'[u] THEN quantity'[u] > 0 /\ cost'[u] >= 0
                                      ELSE quantity'[u] = 0 /\ cost'[u] = 0
      BY DEF OpenIsDivisible
    <3>1. CASE u \in DOMAIN r
      BY <2>1, <2>3, <3>1
    <3>2. CASE u \notin DOMAIN r
      BY <2>1, <2>2, <3>2 DEF OpenIsDivisible
    <3> QED BY <3>1, <3>2
  <2> QED BY <2>4, <2>5 DEF Stock
<1> QED BY <1>1, <1>2, OtherSteps

\* The invariant holds in every reachable state.
THEOREM Invariance == Spec => []IInv
<1>1. IInv /\ [Next]_vars => IInv'
  BY TypeStep, SessionStep, StockStep DEF IInv
<1> QED BY <1>1, InitIInv, PTL DEF Spec

\* The types hold in every reachable state.
THEOREM TypeCorrect == Spec => []TypeOK
<1>1. IInv => TypeOK
  BY DEF IInv, Types
<1> QED BY <1>1, Invariance, PTL

\* execute_sell: however sells of a position interleave, together they take from it
\* no more than was bought.
THEOREM PositionIsNotOversold == Spec => []NoOverselling
<1>1. IInv => NoOverselling
  BY DEF IInv, Stock
<1> QED BY <1>1, Invariance, PTL

\* _apply_allocation_updates: an allocation left open has a quantity to divide by.
THEOREM OpenAllocationsDivide == Spec => []OpenIsDivisible
<1>1. IInv => OpenIsDivisible
  BY DEF IInv, Stock
<1> QED BY <1>1, Invariance, PTL


-------------------------------------------------------------------------------
(* Arithmetic, and which step commits *)

\* A positive factor can be cancelled from an inequality.
LEMMA Cancel ==
    ASSUME NEW a \in Nat, a > 0, NEW x \in Int, NEW y \in Int, a * x <= a * y
    PROVE  x <= y
<1>1. x > y => a * (x - y) >= a
  <2>1. x > y => x - y \in Nat /\ x - y >= 1
    OBVIOUS
  <2>2. \A k \in Nat : k >= 1 => a * k >= a
    OBVIOUS
  <2> QED BY <2>1, <2>2
<1>2. a * (x - y) = a * x - a * y
  OBVIOUS
<1>3. a * x \in Int /\ a * y \in Int
  OBVIOUS
<1> QED BY <1>1, <1>2, <1>3

\* Only its own commit takes a session from "commit" to "committed".
LEMMA WhichCommit ==
    ASSUME IInv, [Next]_vars, NEW s \in Session, pc[s] = "commit", pc'[s] = "committed"
    PROVE  Commit(s)
<1>1. CASE \E t \in Session : Commit(t)
  <2>1. PICK t \in Session : Commit(t)
    BY <1>1
  <2>2. t # s => pc'[s] = pc[s]
    BY <2>1 DEF Commit, Goto, IInv, Types, TypeOK
  <2> QED BY <2>1, <2>2
<1>2. CASE ~ \E t \in Session : Commit(t)
  BY <1>2, OtherSteps
<1> QED BY <1>1, <1>2

-------------------------------------------------------------------------------
(* The money *)

\* The amounts of the rows of a sell are those of its users: a user that pays no fee
\* has a fee of zero.
LEMMA PaymentsAdd ==
    ASSUME IInv, NEW s \in Session, Commit(s)
    PROVE  LET r == rows[s]
               pay == [u \in DOMAIN r |-> Payment(credited[s], fees[s], u)]
           IN  /\ \A u \in DOMAIN r : pay[u] \in Int
               /\ SumFunctionOnSet(pay, DOMAIN r) \in Int
               /\ SumFunctionOnSet(pay, DOMAIN r) = treasury - treasury'
<1> DEFINE D == DOMAIN rows[s]
           c == credited[s]
           f == fees[s]
           g == [u \in D |-> IF u \in DOMAIN f THEN f[u] ELSE 0]
           pay == [u \in D |-> Payment(c, f, u)]
<1>1. /\ Paid(rows[s], req[s], c, f) /\ RowsOK(rows[s]) /\ treasury \in Int
  BY CommitEffect DEF IInv, Types, TypeOK
<1>2. /\ IsFiniteSet(D) /\ DOMAIN f \in SUBSET D
      /\ \A u \in D : c[u] \in Int /\ (u \in DOMAIN f => f[u] \in Nat)
  BY <1>1, ConstantsAssumption, FS_Subset DEF RowsOK, Paid
<1>3. \A u \in D : g[u] \in Int /\ pay[u] = c[u] + g[u] /\ pay[u] \in Int
  BY <1>2 DEF Payment
<1>4. SumFunctionOnSet(pay, D) = SumFunctionOnSet(c, D) + SumFunctionOnSet(g, D)
  <2> HIDE DEF pay, g, c, f
  <2> QED BY <1>2, <1>3, SumPlus
<1>5. SumFunctionOnSet(g, D) = SumFunctionOnSet(f, DOMAIN f)
  <2>1. /\ \A u \in DOMAIN f : f[u] \in Int /\ g[u] = f[u]
        /\ \A u \in D \ DOMAIN f : g[u] = 0
    BY <1>2
  <2> HIDE DEF g, c, f, D
  <2> QED BY <1>2, <2>1, SumExtend
<1>6. /\ SumFunctionOnSet(c, D) \in Int /\ SumFunctionOnSet(f, DOMAIN f) \in Nat
      /\ treasury' = treasury - SumFunctionOnSet(c, D) - SumFunctionOnSet(f, DOMAIN f)
  BY MoneyEffect
<1>7. SumFunctionOnSet(pay, D) \in Int /\ SumFunctionOnSet(pay, D) = treasury - treasury'
  <2> HIDE DEF pay, g, c, f, D
  <2> QED BY <1>1, <1>4, <1>5, <1>6
<1> QED BY <1>3, <1>7

\* What leaves the treasury is what users and reserve receive.
LEMMA MoneyArrives ==
    ASSUME IInv, NEW s \in Session, Commit(s)
    PROVE  /\ treasury - treasury'
                = reserve' - reserve + SumFunction(settled') - SumFunction(settled)
           /\ reserve' >= reserve
           /\ \A u \in User \ DOMAIN rows[s] : settled'[u] = settled[u]
<1> DEFINE D == DOMAIN rows[s]
           c == credited[s]
           credits == SumFunction(c)
           due == SumFunction(fees[s])
           g == [u \in User |-> IF u \in D THEN c[u] ELSE 0]
<1>1. /\ credits \in Int /\ due \in Nat
      /\ credits = SumFunctionOnSet(c, D)
      /\ treasury' = treasury - credits - due /\ reserve' = reserve + due
      /\ settled' = [u \in User |-> settled[u] + IF u \in D THEN c[u] ELSE 0]
      /\ \A u \in D : c[u] \in Int
  BY MoneyEffect
<1>2. /\ treasury \in Int /\ reserve \in Nat /\ settled \in [User -> Int]
      /\ D \in SUBSET User /\ IsFiniteSet(User)
  BY ConstantsAssumption DEF IInv, Types, TypesOK, TypeOK
<1>3. \A u \in User : settled[u] \in Int /\ g[u] \in Int /\ settled'[u] = settled[u] + g[u]
  BY <1>1, <1>2
<1>4. SumFunctionOnSet(g, User) = SumFunctionOnSet(c, D)
  <2>1. /\ \A u \in D : c[u] \in Int /\ g[u] = c[u]
        /\ \A u \in User \ D : g[u] = 0
    BY <1>1, <1>2
  <2> HIDE DEF g, c, D
  <2> QED BY <1>2, <2>1, SumExtend
<1>5. SumFunctionOnSet(settled', User)
         = SumFunctionOnSet(settled, User) + SumFunctionOnSet(g, User)
  <2> HIDE DEF g
  <2> QED BY <1>2, <1>3, SumPlus
<1>6. SumFunctionOnSet(settled, User) \in Int
  BY <1>2, <1>3, SumInt
<1>7. /\ SumFunction(settled) = SumFunctionOnSet(settled, User)
      /\ SumFunction(settled') = SumFunctionOnSet(settled', User)
  <2>1. DOMAIN settled = User /\ DOMAIN settled' = User
    BY <1>1, <1>2
  <2> QED BY <2>1 DEF SumFunction
<1>8. \A u \in User \ D : settled'[u] = settled[u]
  BY <1>1, <1>2
<1> HIDE DEF credits, due, g, c, D
<1>9. /\ treasury - treasury' = reserve' - reserve + SumFunction(settled') - SumFunction(settled)
      /\ reserve' >= reserve
  BY <1>1, <1>2, <1>4, <1>5, <1>6, <1>7
<1> QED BY <1>8, <1>9 DEF D

\* A sum of payments, each within one and a half units of its part of the proceeds, is
\* within as many of the proceeds.
LEMMA PaymentsBound ==
    ASSUME NEW D, IsFiniteSet(D), NEW pay, NEW qty, NEW S \in Nat, S > 0, NEW B \in Int,
           NEW H \in Nat, H > 0, SumFunctionOnSet(qty, D) = H,
           \A u \in D :
              /\ pay[u] \in Int /\ qty[u] \in Int
              /\ 2 * (pay[u] * (100 * S * H) - 100 * B * qty[u]) <= 3 * (100 * S * H)
              /\ 2 * (100 * B * qty[u] - pay[u] * (100 * S * H)) <= 3 * (100 * S * H)
    PROVE  LET paid == SumFunctionOnSet(pay, D)
           IN  /\ 2 * (paid * S - B) <= 3 * S * Cardinality(D)
               /\ 2 * (B - paid * S) <= 3 * S * Cardinality(D)
<1> DEFINE U == 100 * S * H
           K == 100 * B
           n == Cardinality(D)
           paid == SumFunctionOnSet(pay, D)
           three == [u \in D |-> 3 * U]
<1>1. /\ U \in Int /\ K \in Int /\ n \in Nat /\ 100 * H \in Nat /\ 100 * H > 0
  BY FS_CardinalityType
<1>2. paid \in Int
  BY SumInt
<1>3. SumFunctionOnSet(three, D) = (3 * U) * n
  <2>1. 3 * U \in Int /\ \A u \in D : three[u] = 3 * U
    BY <1>1
  <2> HIDE DEF U, three
  <2> QED BY <2>1, SumConstant
<1>4. \A u \in D : /\ pay[u] \in Int /\ qty[u] \in Int /\ three[u] \in Int
                   /\ (2 * U) * pay[u] <= (2 * K) * qty[u] + three[u]
                   /\ (-(2 * U)) * pay[u] <= (-(2 * K)) * qty[u] + three[u]
  <2> SUFFICES ASSUME NEW u \in D
               PROVE  /\ pay[u] \in Int /\ qty[u] \in Int /\ three[u] \in Int
                      /\ (2 * U) * pay[u] <= (2 * K) * qty[u] + three[u]
                      /\ (-(2 * U)) * pay[u] <= (-(2 * K)) * qty[u] + three[u]
    OBVIOUS
  <2> DEFINE p == pay[u]
             q == qty[u]
  <2>1. /\ p \in Int /\ q \in Int /\ three[u] = 3 * U
        /\ 2 * (p * U - K * q) <= 3 * U
        /\ 2 * (K * q - p * U) <= 3 * U
    OBVIOUS
  <2> HIDE DEF p, q, U, K, three
  <2>2. /\ (2 * U) * p = 2 * (p * U) /\ (2 * K) * q = 2 * (K * q)
        /\ (-(2 * U)) * p = -(2 * (p * U)) /\ (-(2 * K)) * q = -(2 * (K * q))
        /\ p * U \in Int /\ K * q \in Int
    BY <1>1, <2>1
  <2>3. three[u] \in Int /\ pay[u] \in Int /\ qty[u] \in Int
    BY <1>1, <2>1 DEF p, q
  <2> QED BY <1>1, <2>1, <2>2, <2>3 DEF p, q
<1>5. /\ (2 * U) * paid <= (2 * K) * H + (3 * U) * n
      /\ (-(2 * U)) * paid <= (-(2 * K)) * H + (3 * U) * n
  <2>1. 2 * U \in Int /\ 2 * K \in Int /\ -(2 * U) \in Int /\ -(2 * K) \in Int
    BY <1>1
  <2> HIDE DEF U, K, three
  <2>2. (2 * U) * paid <= (2 * K) * SumFunctionOnSet(qty, D) + SumFunctionOnSet(three, D)
    BY <1>4, <2>1, SumBound
  <2>3. (-(2 * U)) * paid <= (-(2 * K)) * SumFunctionOnSet(qty, D) + SumFunctionOnSet(three, D)
    BY <1>4, <2>1, SumBound
  <2> QED BY <2>2, <2>3, <1>3
<1> HIDE DEF paid, n
<1>6. /\ (2 * U) * paid = (100 * H) * (2 * (paid * S))
      /\ (-(2 * U)) * paid = (100 * H) * (-(2 * (paid * S)))
      /\ (2 * K) * H + (3 * U) * n = (100 * H) * (2 * B + 3 * S * n)
      /\ (-(2 * K)) * H + (3 * U) * n = (100 * H) * (-(2 * B) + 3 * S * n)
      /\ paid * S \in Int /\ 3 * S * n \in Int
  BY <1>1, <1>2
<1> HIDE DEF U, K
<1>7. 2 * (paid * S) <= 2 * B + 3 * S * n
  <2>1. 2 * (paid * S) \in Int /\ 2 * B + 3 * S * n \in Int
    BY <1>6
  <2>2. (100 * H) * (2 * (paid * S)) <= (100 * H) * (2 * B + 3 * S * n)
    BY <1>5, <1>6
  <2> QED BY <1>1, <2>1, <2>2, Cancel
<1>8. -(2 * (paid * S)) <= -(2 * B) + 3 * S * n
  <2>1. -(2 * (paid * S)) \in Int /\ -(2 * B) + 3 * S * n \in Int
    BY <1>6
  <2>2. (100 * H) * (-(2 * (paid * S))) <= (100 * H) * (-(2 * B) + 3 * S * n)
    BY <1>5, <1>6
  <2> QED BY <1>1, <2>1, <2>2, Cancel
<1>9. /\ 2 * (paid * S - B) <= 3 * S * n
      /\ 2 * (B - paid * S) <= 3 * S * n
  BY <1>6, <1>7, <1>8
<1> QED BY <1>9 DEF paid, n

\* One commit: what the treasury pays is what the trade brings, within three halves of a tick
\* per user, and is what the reserve and the settlement accounts receive.
LEMMA CommitConserves ==
    ASSUME IInv, NEW s \in Session, Commit(s)
    PROVE  LET brought == req[s].quantity * req[s].price - req[s].charges * Scale
               paid    == treasury - treasury'
               slack   == 3 * Scale * Cardinality(DOMAIN rows[s])
           IN  /\ 2 * (paid * Scale - brought) <= slack
               /\ 2 * (brought - paid * Scale) <= slack
               /\ paid = reserve' - reserve + SumFunction(settled') - SumFunction(settled)
<1> DEFINE r == rows[s]
           D == DOMAIN r
           H == Held(r)
           B == req[s].quantity * req[s].price - req[s].charges * Scale
           pay == [u \in D |-> Payment(credited[s], fees[s], u)]
           qty == [u \in D |-> r[u].quantity]
<1>1. /\ Paid(r, req[s], credited[s], fees[s]) /\ RowsOK(r) /\ H \in Nat /\ H > 0
      /\ H = SumFunctionOnSet(qty, D)
  <2>1. Paid(r, req[s], credited[s], fees[s]) /\ RowsOK(r) /\ H \in Nat
        /\ Selected(r, req[s], quantity, cost, isOpen, remaining)
    BY CommitEffect
  <2> QED BY <2>1 DEF Selected, Held
<1>2. IsFiniteSet(D)
  BY <1>1, ConstantsAssumption, FS_Subset DEF RowsOK
<1>3. /\ req[s].quantity \in Nat /\ req[s].price \in Nat /\ req[s].charges \in Nat
      /\ Scale \in Nat /\ Scale > 0
  BY ConstantTypes DEF IInv, Types, TypesOK
<1>4. B \in Int
  BY <1>3
<1>5. ASSUME NEW u \in D
      PROVE  /\ pay[u] \in Int /\ qty[u] \in Int
             /\ 2 * (pay[u] * (100 * Scale * H) - 100 * B * qty[u]) <= 3 * (100 * Scale * H)
             /\ 2 * (100 * B * qty[u] - pay[u] * (100 * Scale * H)) <= 3 * (100 * Scale * H)
  <2>1. pay[u] \in Int /\ pay[u] = Payment(credited[s], fees[s], u)
    BY PaymentsAdd
  <2>2. qty[u] \in Nat /\ qty[u] = r[u].quantity
    BY <1>1 DEF RowsOK
  <2>3. 100 * B * qty[u] = Earned(r, req[s], u)
    <3> DEFINE a == req[s].quantity
               p == req[s].price
               ch == req[s].charges
               x == r[u].quantity
    <3>1. a \in Nat /\ p \in Nat /\ ch \in Nat /\ x \in Nat
      BY <1>3, <2>2
    <3>2. Earned(r, req[s], u) = 100 * a * x * p - 100 * Scale * ch * x
      BY DEF Earned
    <3>3. B = a * p - ch * Scale
      OBVIOUS
    <3> HIDE DEF a, p, ch, x, B
    <3>4. 100 * (a * p - ch * Scale) * x = 100 * a * x * p - 100 * Scale * ch * x
      BY <1>3, <3>1
    <3> QED BY <2>2, <3>2, <3>3, <3>4 DEF x
  <2>4. Unit(r) = 100 * Scale * H
    BY DEF Unit
  <2>5. /\ 2 * (Payment(credited[s], fees[s], u) * Unit(r) - Earned(r, req[s], u)) <= 3 * Unit(r)
        /\ 2 * (Earned(r, req[s], u) - Payment(credited[s], fees[s], u) * Unit(r)) <= 3 * Unit(r)
    BY <1>1 DEF Paid
  <2> HIDE DEF pay, qty, B, H
  <2>6. qty[u] \in Int
    BY <2>2
  <2> QED BY <2>1, <2>3, <2>4, <2>5, <2>6
<1>6. SumFunctionOnSet(pay, D) = treasury - treasury'
  BY PaymentsAdd
<1> HIDE DEF pay, qty, B, H, D
<1>7. /\ 2 * (SumFunctionOnSet(pay, D) * Scale - B) <= 3 * Scale * Cardinality(D)
      /\ 2 * (B - SumFunctionOnSet(pay, D) * Scale) <= 3 * Scale * Cardinality(D)
  BY <1>1, <1>2, <1>3, <1>4, <1>5, PaymentsBound
<1>8. treasury - treasury' = reserve' - reserve + SumFunction(settled') - SumFunction(settled)
  BY MoneyArrives
<1> QED BY <1>6, <1>7, <1>8 DEF B, D

\* execute_sell: whatever is sold, at any price and charges, to any number of owners,
\* what leaves the treasury is what the trade brought in, to one and a half ticks per
\* owner, and it all arrives at the owners and the fee reserve.
THEOREM MoneyIsConserved == Spec => SettlementConserves
<1>1. IInv /\ [Next]_vars => [\A s \in Session :
          pc[s] = "commit" /\ pc'[s] = "committed" =>
             LET brought == req[s].quantity * req[s].price - req[s].charges * Scale
                 paid    == treasury - treasury'
                 slack   == 3 * Scale * Cardinality(DOMAIN rows[s])
             IN  /\ 2 * (paid * Scale - brought) <= slack
                 /\ 2 * (brought - paid * Scale) <= slack
                 /\ paid = reserve' - reserve + SumFunction(settled') - SumFunction(settled)]_vars
  BY WhichCommit, CommitConserves
<1> QED BY <1>1, Invariance, PTL DEF Spec, SettlementConserves
-------------------------------------------------------------------------------
(* The quantities *)

\* What a commit leaves its users with, in sum.
LEMMA QuantitiesSplit ==
    ASSUME IInv, NEW s \in Session, Commit(s)
    PROVE  LET D == DOMAIN rows[s]
           IN  /\ IsFiniteSet(User) /\ IsFiniteSet(D) /\ D \in SUBSET User
               /\ \A u \in User : quantity[u] \in Nat /\ quantity'[u] \in Nat
               /\ SumFunctionOnSet(quantity, D) = Held(rows[s])
               /\ Held(rows[s]) \in Nat /\ Held(rows[s]) > 0
               /\ SumFunctionOnSet(quantity, User \ D) \in Nat
               /\ SumFunctionOnSet(quantity', D) \in Nat
               /\ SumFunction(quantity) = Held(rows[s]) + SumFunctionOnSet(quantity, User \ D)
               /\ SumFunction(quantity') = SumFunctionOnSet(quantity', D)
                                              + SumFunctionOnSet(quantity, User \ D)
<1> DEFINE r == rows[s]
           D == DOMAIN r
           qty == [u \in D |-> r[u].quantity]
<1>1. /\ RowsOK(r) /\ Selected(r, req[s], quantity, cost, isOpen, remaining)
      /\ Reduced(r, req[s], updated[s]) /\ Held(r) \in Nat
      /\ quantity' = [u \in User |-> IF u \in D THEN updated[s][u].quantity ELSE quantity[u]]
  BY CommitEffect
<1>2. /\ IsFiniteSet(User) /\ IsFiniteSet(D) /\ D \in SUBSET User /\ IsFiniteSet(User \ D)
  BY <1>1, ConstantsAssumption, FS_Subset DEF RowsOK
<1>3. \A u \in User : quantity[u] \in Nat /\ quantity'[u] \in Nat
  <2>1. \A u \in User : quantity[u] \in Nat
    BY DEF IInv, Types, TypeOK
  <2>2. \A u \in D : updated[s][u].quantity \in Nat
    BY <1>1 DEF Reduced
  <2> QED BY <1>1, <2>1, <2>2
<1>4. SumFunctionOnSet(quantity, D) = Held(r)
  <2>1. \A u \in D : qty[u] = quantity[u]
    BY <1>1 DEF Selected
  <2>2. SumFunctionOnSet(quantity, D) = SumFunctionOnSet(qty, D)
    <3> HIDE DEF qty, D
    <3> QED BY <1>2, <2>1, SumEqual
  <2> QED BY <2>2 DEF Held
<1>5. Held(r) > 0
  BY <1>1 DEF Selected
<1>6. \A u \in User \ D : quantity'[u] = quantity[u]
  BY <1>1
<1>7. SumFunction(quantity) = SumFunctionOnSet(quantity, User)
      /\ SumFunction(quantity') = SumFunctionOnSet(quantity', User)
  <2>1. DOMAIN quantity = User /\ DOMAIN quantity' = User
    BY <1>1 DEF IInv, Types, TypeOK
  <2> QED BY <2>1 DEF SumFunction
<1> HIDE DEF D
<1>8. /\ SumFunctionOnSet(quantity, User)
            = SumFunctionOnSet(quantity, D) + SumFunctionOnSet(quantity, User \ D)
      /\ SumFunctionOnSet(quantity', User)
            = SumFunctionOnSet(quantity', D) + SumFunctionOnSet(quantity', User \ D)
  BY <1>2, <1>3, SumSplit
<1>9. SumFunctionOnSet(quantity', User \ D) = SumFunctionOnSet(quantity, User \ D)
  BY <1>2, <1>6, SumEqual
<1>10. SumFunctionOnSet(quantity, User \ D) \in Nat /\ SumFunctionOnSet(quantity', D) \in Nat
  BY <1>2, <1>3, SumNat
<1> QED BY <1>1, <1>2, <1>3, <1>4, <1>5, <1>7, <1>8, <1>9, <1>10 DEF D

\* A proportional sell selects all the quantity there is.
LEMMA ProportionalHoldsAll ==
    ASSUME IInv, NEW s \in Session, Commit(s), req[s].mode = "proportional"
    PROVE  /\ SumFunctionOnSet(quantity, User \ DOMAIN rows[s]) = 0
           /\ \A u \in User \ DOMAIN rows[s] : ~isOpen[u] /\ ~isOpen'[u]
<1> DEFINE D == DOMAIN rows[s]
<1>1. /\ Selected(rows[s], req[s], quantity, cost, isOpen, remaining)
      /\ isOpen' = [u \in User |-> IF u \in D THEN updated[s][u].isOpen ELSE isOpen[u]]
  BY CommitEffect
<1>2. D = {u \in User : isOpen[u]}
  BY <1>1 DEF Selected
<1>3. \A u \in User \ D : ~isOpen[u] /\ ~isOpen'[u] /\ quantity[u] = 0
  BY <1>1, <1>2 DEF IInv, Stock, OpenIsDivisible
<1>4. IsFiniteSet(User \ D)
  BY ConstantsAssumption, FS_Subset
<1> HIDE DEF D
<1>5. SumFunctionOnSet(quantity, User \ D) = 0 * Cardinality(User \ D)
  BY <1>3, <1>4, SumConstant
<1>6. Cardinality(User \ D) \in Nat
  BY <1>4, FS_CardinalityType
<1> QED BY <1>3, <1>5, <1>6 DEF D

\* The allocations that stay open, and those that close, give up their parts of what
\* is sold, q of h, to half a tick each and a tick for each that closes.
LEMMA PartsBound ==
    ASSUME NEW D, IsFiniteSet(D), NEW C \in SUBSET D, NEW old, NEW new,
           NEW H \in Nat, H > 0, NEW e \in Nat, SumFunctionOnSet(old, D) = H,
           \A u \in D :
              /\ old[u] \in Nat /\ new[u] \in Nat
              /\ u \in C => new[u] = 0 /\ old[u] * e <= H
              /\ u \notin C => /\ 2 * (new[u] * H - old[u] * e) <= H
                              /\ 2 * (old[u] * e - new[u] * H) <= H
    PROVE  LET P == SumFunctionOnSet(new, D)
           IN  /\ 2 * P <= 2 * e + Cardinality(D)
               /\ 2 * e <= 2 * P + Cardinality(D) + Cardinality(C)
<1> DEFINE n == Cardinality(D)
           m == Cardinality(C)
           P == SumFunctionOnSet(new, D)
           half == [u \in D |-> H]
           tick == [u \in D |-> IF u \in C THEN H ELSE 0]
           both == [u \in D |-> half[u] + tick[u]]
<1>1. /\ IsFiniteSet(C) /\ n \in Nat /\ m \in Nat
      /\ H \in Int /\ 2 * H \in Int /\ 2 * e \in Int
  BY FS_Subset, FS_CardinalityType
<1>2. P \in Nat
  BY SumNat
<1>3. SumFunctionOnSet(half, D) = H * n
  <2>1. \A u \in D : half[u] = H
    OBVIOUS
  <2> HIDE DEF half
  <2> QED BY <2>1, SumConstant
<1>4. SumFunctionOnSet(tick, D) = H * m
  <2> DEFINE one == [u \in C |-> H]
  <2>1. /\ \A u \in C : one[u] \in Int /\ tick[u] = one[u] /\ one[u] = H
        /\ \A u \in D \ C : tick[u] = 0
    OBVIOUS
  <2> HIDE DEF one, tick
  <2>2. SumFunctionOnSet(tick, D) = SumFunctionOnSet(one, C)
    BY <2>1, SumExtend
  <2>3. SumFunctionOnSet(one, C) = H * m
    BY <1>1, <2>1, SumConstant
  <2> QED BY <2>2, <2>3
<1>5. SumFunctionOnSet(both, D) = H * n + H * m
  <2>1. \A u \in D : half[u] \in Int /\ tick[u] \in Int /\ both[u] = half[u] + tick[u]
    OBVIOUS
  <2> HIDE DEF half, tick, both
  <2>2. SumFunctionOnSet(both, D) = SumFunctionOnSet(half, D) + SumFunctionOnSet(tick, D)
    BY <2>1, SumPlus
  <2> QED BY <2>2, <1>3, <1>4
<1>6. ASSUME NEW u \in D
      PROVE  /\ old[u] \in Int /\ new[u] \in Int /\ half[u] \in Int /\ both[u] \in Int
             /\ (2 * H) * new[u] <= (2 * e) * old[u] + half[u]
             /\ (2 * e) * old[u] <= (2 * H) * new[u] + both[u]
  <2> DEFINE a == old[u]
             b == new[u]
  <2>1. /\ a \in Nat /\ b \in Nat /\ half[u] = H
        /\ both[u] = IF u \in C THEN H + H ELSE H + 0
    OBVIOUS
  <2>2. /\ u \in C => b = 0 /\ a * e <= H
        /\ u \notin C => 2 * (b * H - a * e) <= H /\ 2 * (a * e - b * H) <= H
    OBVIOUS
  <2> HIDE DEF a, b, half, both
  <2>3. /\ (2 * H) * b = 2 * (b * H) /\ (2 * e) * a = 2 * (a * e)
        /\ a * e \in Nat /\ b * H \in Nat /\ (b = 0 => b * H = 0)
    BY <2>1
  <2>4. (2 * H) * b <= (2 * e) * a + half[u] /\ (2 * e) * a <= (2 * H) * b + both[u]
    BY <2>1, <2>2, <2>3
  <2> QED BY <2>1, <2>4 DEF a, b
<1> HIDE DEF half, both, tick
<1>7. (2 * H) * P <= (2 * e) * H + H * n
  <2>1. (2 * H) * P <= (2 * e) * SumFunctionOnSet(old, D) + SumFunctionOnSet(half, D)
    BY <1>1, <1>6, SumBound
  <2> QED BY <2>1, <1>3
<1>8. (2 * e) * H <= (2 * H) * P + (H * n + H * m)
  <2>1. (2 * e) * SumFunctionOnSet(old, D) <= (2 * H) * P + SumFunctionOnSet(both, D)
    BY <1>1, <1>6, SumBound
  <2> QED BY <2>1, <1>5
<1> HIDE DEF P, n, m
<1>9. 2 * P <= 2 * e + n
  <2>1. (2 * H) * P = H * (2 * P) /\ (2 * e) * H + H * n = H * (2 * e + n)
    BY <1>1, <1>2
  <2>2. H * (2 * P) <= H * (2 * e + n)
    BY <2>1, <1>7
  <2>3. 2 * P \in Int /\ 2 * e + n \in Int
    BY <1>1, <1>2
  <2> QED BY <2>2, <2>3, Cancel
<1>10. 2 * e <= 2 * P + n + m
  <2>1. (2 * H) * P + (H * n + H * m) = H * (2 * P + n + m) /\ (2 * e) * H = H * (2 * e)
    BY <1>1, <1>2
  <2>2. H * (2 * e) <= H * (2 * P + n + m)
    BY <2>1, <1>8
  <2>3. 2 * e \in Int /\ 2 * P + n + m \in Int
    BY <1>1, <1>2
  <2> QED BY <2>2, <2>3, Cancel
<1> QED BY <1>9, <1>10 DEF P, n, m
\* The drift and the slack of HoldingsTrackPosition.
ClosedUsers == {u \in User : ~isOpen[u]}
Committed == {s \in Session : pc[s] = "committed"}
Drift == SumFunction(quantity) - remaining
Slack == Cardinality(User) * Cardinality(Committed)
            + 2 * (Cardinality(ClosedUsers) + (IF open THEN 0 ELSE 1))

\* The bound of HoldingsTrackPosition is a natural, and the property in terms of Drift and Slack.
LEMMA SlackNat ==
    ASSUME IInv
    PROVE  /\ IsFiniteSet(ClosedUsers) /\ IsFiniteSet(Committed)
           /\ Cardinality(User) \in Nat /\ Cardinality(Committed) \in Nat
           /\ Cardinality(ClosedUsers) \in Nat
           /\ Slack \in Nat
           /\ HoldingsTrackPosition <=> 2 * Drift <= Slack /\ -(2 * Drift) <= Slack
<1>1. /\ IsFiniteSet(ClosedUsers) /\ IsFiniteSet(Committed) /\ IsFiniteSet(User)
  BY ConstantsAssumption, FS_Subset DEF ClosedUsers, Committed
<1>2. /\ Cardinality(User) \in Nat /\ Cardinality(Committed) \in Nat
      /\ Cardinality(ClosedUsers) \in Nat
  BY <1>1, FS_CardinalityType
<1>3. Slack \in Nat
  <2>1. (IF open THEN 0 ELSE 1) \in Nat
    OBVIOUS
  <2>2. \A a, b, c, d \in Nat : a * b + 2 * (c + d) \in Nat
    OBVIOUS
  <2> QED BY <1>2, <2>1, <2>2 DEF Slack
<1>4. HoldingsTrackPosition <=> 2 * Drift <= Slack /\ -(2 * Drift) <= Slack
  BY Zenon DEF HoldingsTrackPosition, Drift, Slack, Sells, ClosedUsers, Committed
<1> QED BY <1>1, <1>2, <1>3, <1>4

\* A commit counts as one, and every allocation it closes was open.
LEMMA SlackGrows ==
    ASSUME IInv, IInv', NEW s \in Session, Commit(s)
    PROVE  LET C == {u \in DOMAIN rows[s] : ~updated[s][u].isOpen}
           IN  /\ Cardinality(C) \in Nat
               /\ Cardinality(DOMAIN rows[s]) \in Nat
               /\ Cardinality(DOMAIN rows[s]) <= Cardinality(User)
               /\ Slack' = Slack + Cardinality(User) + 2 * Cardinality(C)
                                 + (IF open' THEN 0 ELSE 2)
<1> DEFINE D == DOMAIN rows[s]
           C == {u \in D : ~updated[s][u].isOpen}
<1>1. /\ Selected(rows[s], req[s], quantity, cost, isOpen, remaining) /\ RowsOK(rows[s])
      /\ isOpen' = [u \in User |-> IF u \in D THEN updated[s][u].isOpen ELSE isOpen[u]]
      /\ open
  BY CommitEffect
<1>2. /\ D \in SUBSET User /\ C \in SUBSET User /\ IsFiniteSet(C) /\ IsFiniteSet(D)
      /\ Cardinality(C) \in Nat /\ Cardinality(D) \in Nat /\ Cardinality(D) <= Cardinality(User)
  BY <1>1, ConstantsAssumption, FS_Subset, FS_CardinalityType DEF RowsOK
<1>3. Cardinality(ClosedUsers') = Cardinality(ClosedUsers) + Cardinality(C)
  <2>1. \A u \in D : isOpen[u]
    BY <1>1 DEF Selected
  <2>2. ClosedUsers' = ClosedUsers \cup C /\ ClosedUsers \cap C = {}
    BY <1>1, <1>2, <2>1 DEF ClosedUsers
  <2>3. IsFiniteSet(ClosedUsers) /\ Cardinality(ClosedUsers) \in Nat
    BY SlackNat
  <2> HIDE DEF C
  <2>4. Cardinality(ClosedUsers \cup C) =
           Cardinality(ClosedUsers) + Cardinality(C) - Cardinality(ClosedUsers \cap C)
    BY <1>2, <2>3, FS_Union
  <2>5. Cardinality({}) = 0
    BY FS_EmptySet
  <2> QED BY <1>2, <2>2, <2>3, <2>4, <2>5
<1>4. Cardinality(Committed') = Cardinality(Committed) + 1
  <2>1. Committed' = Committed \cup {s} /\ s \notin Committed
    BY DEF Committed, Commit, Goto, IInv, Types, TypeOK
  <2>2. IsFiniteSet(Committed)
    BY SlackNat
  <2> QED BY <2>1, <2>2, FS_AddElement
<1>5. /\ Cardinality(User) \in Nat /\ Cardinality(Committed) \in Nat
      /\ Cardinality(ClosedUsers) \in Nat
  BY SlackNat
<1>6. Slack' = Slack + Cardinality(User) + 2 * Cardinality(C) + (IF open' THEN 0 ELSE 2)
  <2> DEFINE n == Cardinality(User)
             k == Cardinality(Committed)
             c == Cardinality(ClosedUsers)
             m == Cardinality(C)
             o == IF open' THEN 0 ELSE 1
  <2>1. Slack' = n * (k + 1) + 2 * ((c + m) + o)
    BY <1>3, <1>4 DEF Slack
  <2>2. Slack = n * k + 2 * (c + 0)
    BY <1>1 DEF Slack
  <2>3. o \in Nat /\ (IF open' THEN 0 ELSE 2) = 2 * o
    OBVIOUS
  <2>4. n \in Nat /\ k \in Nat /\ c \in Nat /\ m \in Nat
    BY <1>2, <1>5
  <2> HIDE DEF n, k, c, m, o
  <2>5. n * (k + 1) + 2 * ((c + m) + o) = (n * k + 2 * (c + 0)) + n + 2 * m + 2 * o
    BY <2>3, <2>4
  <2> QED BY <2>1, <2>2, <2>3, <2>5 DEF n, m
<1> QED BY <1>2, <1>6

\* One commit adds to the drift at most half a tick per user, and a tick for what it closes.
LEMMA CommitTracks ==
    ASSUME IInv, IInv', HoldingsTrackPosition, NEW s \in Session, Commit(s)
    PROVE  HoldingsTrackPosition'
<1> DEFINE r == rows[s]
           D == DOMAIN r
           C == {u \in D : ~updated[s][u].isOpen}
           H == Held(r)
           q == req[s].quantity
           e == H - q
           P == SumFunctionOnSet(quantity', D)
           rest == SumFunctionOnSet(quantity, User \ D)
           dust == IF remaining - q <= 1 THEN remaining - q ELSE 0
           d == Cardinality(D)
           m == Cardinality(C)
           n == Cardinality(User)
           closes == IF open' THEN 0 ELSE 2
<1>1. /\ remaining \in Nat /\ q \in Nat /\ q > 0 /\ q <= remaining
      /\ remaining' = IF remaining - q <= 1 THEN 0 ELSE remaining - q
      /\ open' = (remaining - q > 1)
      /\ Reduced(r, req[s], updated[s]) /\ RowsOK(r)
      /\ Selected(r, req[s], quantity, cost, isOpen, remaining)
      /\ quantity' = [u \in User |-> IF u \in D THEN updated[s][u].quantity ELSE quantity[u]]
  BY CommitEffect
<1>2. /\ IsFiniteSet(D) /\ D \in SUBSET User
      /\ \A u \in User : quantity[u] \in Nat /\ quantity'[u] \in Nat
      /\ SumFunctionOnSet(quantity, D) = H /\ H \in Nat /\ H > 0
      /\ rest \in Nat /\ P \in Nat
      /\ SumFunction(quantity) = H + rest /\ SumFunction(quantity') = P + rest
  BY QuantitiesSplit
<1>3. /\ dust \in Nat /\ dust <= 1 /\ closes \in Nat /\ 2 * dust <= closes
      /\ remaining' = remaining - q - dust
  <2>1. CASE remaining - q > 1
    BY <1>1, <2>1
  <2>2. CASE ~(remaining - q > 1)
    <3>1. ~open'
      BY <1>1, <2>2, Zenon
    <3> QED BY <1>1, <2>2, <3>1
  <2> QED BY <2>1, <2>2
<1>4. /\ m \in Nat /\ d \in Nat /\ d <= n /\ n \in Nat
      /\ Slack' = Slack + n + 2 * m + closes
      /\ Slack \in Nat
      /\ 2 * Drift <= Slack /\ -(2 * Drift) <= Slack
  BY SlackGrows, SlackNat
<1>5. Drift = H + rest - remaining /\ Drift' = P + rest - remaining'
  <2>1. Drift = SumFunction(quantity) - remaining /\ Drift' = SumFunction(quantity') - remaining'
    BY DEF Drift
  <2>2. remaining' \in Int
    BY <1>1
  <2> HIDE DEF H, P, rest
  <2> QED BY <1>1, <1>2, <2>1, <2>2
<1>6. HoldingsTrackPosition' <=> 2 * Drift' <= Slack' /\ -(2 * Drift') <= Slack'
  <2>1. (HoldingsTrackPosition <=> 2 * Drift <= Slack /\ -(2 * Drift) <= Slack)'
    BY Zenon DEF HoldingsTrackPosition, Drift, Slack, Sells, ClosedUsers, Committed
  <2> QED BY <2>1
<1>7. \A u \in D : /\ quantity'[u] = updated[s][u].quantity
                   /\ quantity[u] = r[u].quantity
  BY <1>1, <1>2 DEF Selected
<1>8. CASE e >= 0
  <2>1. e \in Nat
    BY <1>1, <1>2, <1>8
  <2>2. \A u \in D :
           /\ quantity[u] \in Nat /\ quantity'[u] \in Nat
           /\ u \in C => quantity'[u] = 0 /\ quantity[u] * e <= H
           /\ u \notin C => /\ 2 * (quantity'[u] * H - quantity[u] * e) <= H
                           /\ 2 * (quantity[u] * e - quantity'[u] * H) <= H
    BY <1>1, <1>2, <1>7 DEF Reduced
  <2>3. 2 * P <= 2 * e + d /\ 2 * e <= 2 * P + d + m
    <3>1. C \in SUBSET D
      OBVIOUS
    <3> HIDE DEF C, D, H, e
    <3> QED BY <1>2, <2>1, <2>2, <3>1, PartsBound
  <2>4. e = H - q
    OBVIOUS
  <2> HIDE DEF P, rest, dust, d, m, n, closes, H, q, e, D, C
  <2>5. 2 * Drift' <= Slack' /\ -(2 * Drift') <= Slack'
    BY <1>1, <1>2, <1>3, <1>4, <1>5, <2>1, <2>3, <2>4
  <2> QED BY <1>6, <2>5
<1>9. CASE ~(e >= 0)
  <2>1. q > H
    BY <1>1, <1>2, <1>9
  <2>2. req[s].mode = "proportional"
    <3>1. req[s].mode \in Modes
      BY DEF IInv, Types, TypeOK
    <3>2. req[s].mode = "targeted" => q <= H
      BY <1>1 DEF Selected
    <3> QED BY <1>1, <1>2, <2>1, <3>1, <3>2 DEF Modes
  <2>3. rest = 0
    BY <2>2, ProportionalHoldsAll
  <2>4. P = 0
    <3>1. \A u \in D : quantity'[u] = 0
      BY <1>1, <1>2, <1>7, <2>1 DEF Reduced
    <3> HIDE DEF D
    <3>2. P = 0 * Cardinality(D)
      BY <1>2, <3>1, SumConstant
    <3>3. Cardinality(D) \in Nat
      BY <1>4
    <3> QED BY <3>2, <3>3
  <2> HIDE DEF P, rest, dust, d, m, n, closes, H, q, e, D, C
  <2>5. remaining' \in Nat
    BY <1>1
  <2>6. 2 * Drift' <= Slack' /\ -(2 * Drift') <= Slack'
    BY <1>1, <1>2, <1>3, <1>4, <1>5, <2>1, <2>3, <2>4, <2>5
  <2> QED BY <1>6, <2>6
<1> QED BY <1>8, <1>9

\* _apply_position_update, _apply_allocation_updates: after any sells, proportional or
\* targeted, in any order, the quantities of the owners add up to the position's.
THEOREM HoldingsAreTracked == Spec => []HoldingsTrackPosition
<1>1. Init => HoldingsTrackPosition
  <2> SUFFICES ASSUME Init PROVE HoldingsTrackPosition
    OBVIOUS
  <2>1. IInv
    BY InitIInv
  <2>2. SumFunction(quantity) \in Nat
    BY <2>1, TypeFacts DEF IInv, Types
  <2>3. Drift = 0
    BY <2>2 DEF Drift, Init
  <2> QED BY <2>1, <2>3, SlackNat
<1>2. IInv /\ IInv' /\ HoldingsTrackPosition /\ [Next]_vars => HoldingsTrackPosition'
  <2> SUFFICES ASSUME IInv, IInv', HoldingsTrackPosition, [Next]_vars
               PROVE  HoldingsTrackPosition'
    OBVIOUS
  <2>1. CASE \E s \in Session : Commit(s)
    BY <2>1, CommitTracks
  <2>2. CASE ~ \E s \in Session : Commit(s)
    <3>1. /\ UNCHANGED <<quantity, remaining, isOpen, open>>
          /\ {s \in Session : pc'[s] = "committed"} = {s \in Session : pc[s] = "committed"}
      BY <2>2, OtherSteps DEF holdings
    <3> QED BY <3>1, Zenon DEF HoldingsTrackPosition, Sells
  <2> QED BY <2>1, <2>2
<1> QED BY <1>1, <1>2, Invariance, PTL DEF Spec

\* A proportional sell of all there is closes every allocation with the position.
THEOREM FullSalesClose == Spec => FullSaleCloses
<1>1. IInv /\ [Next]_vars => [\A s \in Session :
          /\ pc[s] = "commit" /\ pc'[s] = "committed"
          /\ req[s].mode = "proportional"
          /\ req[s].quantity = remaining
          /\ SumFunction(quantity) = remaining
          => ~open' /\ \A u \in User : ~isOpen'[u]]_vars
  <2> SUFFICES ASSUME IInv, [Next]_vars, NEW s \in Session,
                      pc[s] = "commit", pc'[s] = "committed",
                      req[s].mode = "proportional",
                      req[s].quantity = remaining, SumFunction(quantity) = remaining
               PROVE  ~open' /\ \A u \in User : ~isOpen'[u]
    OBVIOUS
  <2>1. Commit(s)
    BY WhichCommit
  <2>2. /\ open' = (remaining - remaining > 1) /\ remaining \in Nat
        /\ Reduced(rows[s], req[s], updated[s])
        /\ isOpen' = [u \in User |-> IF u \in DOMAIN rows[s] THEN updated[s][u].isOpen
                                                             ELSE isOpen[u]]
    BY <2>1, CommitEffect
  <2>3. ~(remaining - remaining > 1)
    BY <2>2
  <2>4. ~open'
    BY <2>2, <2>3, Zenon
  <2>5. \A u \in User \ DOMAIN rows[s] : ~isOpen'[u]
    BY <2>1, ProportionalHoldsAll
  <2>6. Held(rows[s]) = remaining
    <3> DEFINE H == Held(rows[s])
               rest == SumFunctionOnSet(quantity, User \ DOMAIN rows[s])
    <3>1. rest = 0
      BY <2>1, ProportionalHoldsAll
    <3>2. H \in Nat /\ SumFunction(quantity) = H + rest
      BY <2>1, QuantitiesSplit
    <3> HIDE DEF H, rest
    <3>3. H = remaining
      BY <3>1, <3>2
    <3> QED BY <3>3 DEF H
  <2>7. \A u \in DOMAIN rows[s] : ~updated[s][u].isOpen
    BY <2>2, <2>6 DEF Reduced
  <2>8. \A u \in User \cap DOMAIN rows[s] : ~isOpen'[u]
    BY <2>2, <2>7
  <2> QED BY <2>4, <2>5, <2>8
<1> QED BY <1>1, Invariance, PTL DEF Spec, FullSaleCloses
-------------------------------------------------------------------------------
(* The abstract position *)

\* PositionBook sums as SellExecution does.
LEMMA BookSums ==
    /\ \A f, S : Book!SumFunctionOnSet(f, S) = SumFunctionOnSet(f, S)
    /\ \A f : Book!SumFunction(f) = SumFunction(f)
<1>1. \A f, S : Book!SumFunctionOnSet(f, S) = SumFunctionOnSet(f, S)
  BY Zenon DEF SumFunctionOnSet, FoldFunctionOnSet, MapThenFoldSet,
               Book!SumFunctionOnSet, Book!FoldFunctionOnSet, Book!MapThenFoldSet
<1> QED BY <1>1, Zenon DEF SumFunction, Book!SumFunction

\* An allocation that is reduced gives up its part of q, to a tick.
LEMMA PartTaken ==
    ASSUME NEW old \in Nat, NEW new \in Nat, NEW q \in Nat, NEW H \in Nat, H > 0,
           \/ /\ q < H
              /\ 2 * (new * H - old * (H - q)) <= H /\ 2 * (old * (H - q) - new * H) <= H
           \/ new = 0 /\ old * (H - q) <= H
    PROVE  LET exact == old * (IF q < H THEN q ELSE H)
               taken == (old - new) * H
           IN  taken - exact <= H /\ exact - taken <= H
<1> DEFINE part == old * (H - q)
<1>1. /\ (old - new) * H = old * H - new * H
      /\ part = old * H - old * q
      /\ old * H \in Nat /\ new * H \in Nat /\ old * q \in Nat /\ part \in Int
  OBVIOUS
<1>2. new = 0 => new * H = 0
  OBVIOUS
<1>3. q < H => part >= 0
  <2>1. \A k \in Nat : old * k >= 0
    OBVIOUS
  <2>2. q < H => H - q \in Nat
    OBVIOUS
  <2> QED BY <2>1, <2>2
<1>4. CASE q < H
  <2> HIDE DEF part
  <2>1. \/ 2 * (new * H - part) <= H /\ 2 * (part - new * H) <= H
        \/ new = 0 /\ part <= H
    BY DEF part
  <2>2. /\ (old * H - new * H) - old * q <= H
        /\ old * q - (old * H - new * H) <= H
    BY <1>1, <1>2, <1>3, <1>4, <2>1
  <2>3. (IF q < H THEN q ELSE H) = q
    BY <1>4
  <2> QED BY <1>1, <2>2, <2>3
<1>5. CASE ~(q < H)
  <2>1. new * H = 0
    BY <1>2, <1>5
  <2>2. (IF q < H THEN q ELSE H) = H
    BY <1>5
  <2> QED BY <1>1, <2>1, <2>2
<1> QED BY <1>4, <1>5

\* A committed sell takes from each holding its part of the sold quantity, within a tick.
LEMMA CommitReduces ==
    ASSUME IInv, NEW s \in Session, Commit(s), NEW u \in DOMAIN rows[s]
    PROVE  Book!Reduces(u, req[s].quantity, Held(rows[s]))
<1> DEFINE r == rows[s]
           H == Held(r)
           q == req[s].quantity
           new == updated[s][u].quantity
           o == updated[s][u].isOpen
<1>1. /\ q \in Nat /\ H \in Nat /\ H > 0 /\ u \in User
      /\ quantity[u] \in Nat /\ quantity'[u] \in Nat
      /\ quantity'[u] = new /\ isOpen'[u] = o
      /\ quantity[u] = r[u].quantity
  <2>1. /\ q \in Nat /\ RowsOK(r) /\ Selected(r, req[s], quantity, cost, isOpen, remaining)
        /\ quantity' = [v \in User |-> IF v \in DOMAIN r THEN updated[s][v].quantity
                                                         ELSE quantity[v]]
        /\ isOpen' = [v \in User |-> IF v \in DOMAIN r THEN updated[s][v].isOpen
                                                       ELSE isOpen[v]]
    BY CommitEffect
  <2>2. /\ u \in User /\ quantity[u] = r[u].quantity
    BY <2>1 DEF RowsOK, Selected
  <2>3. H \in Nat /\ H > 0 /\ quantity[u] \in Nat /\ quantity'[u] \in Nat
    BY <2>2, QuantitiesSplit
  <2>4. quantity'[u] = new /\ isOpen'[u] = o
    BY <2>1, <2>2
  <2> QED BY <2>1, <2>2, <2>3, <2>4
<1>2. LET part == r[u].quantity * (H - q)
      IN  /\ new \in Nat /\ o \in BOOLEAN
          /\ o => /\ q < H /\ new > 0
                  /\ 2 * (new * H - part) <= H /\ 2 * (part - new * H) <= H
          /\ ~o => new = 0 /\ part <= H
  BY CommitEffect DEF Reduced
<1>3. LET exact == quantity[u] * (IF q < H THEN q ELSE H)
          taken == (quantity[u] - quantity'[u]) * H
      IN  taken - exact <= H /\ exact - taken <= H
  <2> HIDE DEF H, q, new, o, r
  <2>1. \/ /\ q < H
           /\ 2 * (quantity'[u] * H - quantity[u] * (H - q)) <= H
           /\ 2 * (quantity[u] * (H - q) - quantity'[u] * H) <= H
        \/ quantity'[u] = 0 /\ quantity[u] * (H - q) <= H
    BY <1>1, <1>2
  <2> QED BY <1>1, <2>1, PartTaken
<1>4. isOpen'[u] = (quantity'[u] > 0)
  <2>1. o => quantity'[u] > 0
    BY <1>1, <1>2
  <2>2. ~o => ~(quantity'[u] > 0)
    BY <1>1, <1>2
  <2>3. (quantity'[u] > 0) \in BOOLEAN
    OBVIOUS
  <2>4. o \in BOOLEAN
    BY <1>2
  <2> HIDE DEF o
  <2> QED BY <1>1, <2>1, <2>2, <2>3, <2>4, Zenon
<1>5. quantity'[u] >= 0
  BY <1>1
<1> QED BY <1>3, <1>4, <1>5 DEF Book!Reduces

\* A commit is a step of the abstract book.
LEMMA CommitSells ==
    ASSUME IInv, NEW s \in Session, Commit(s)
    PROVE  Book!Next
<1> DEFINE r == rows[s]
           D == DOMAIN r
           q == req[s].quantity
<1>1. /\ open /\ remaining \in Nat /\ q \in Nat /\ q > 0 /\ q <= remaining
      /\ remaining' = IF remaining - q <= 1 THEN 0 ELSE remaining - q
      /\ open' = (remaining - q > 1)
      /\ Selected(r, req[s], quantity, cost, isOpen, remaining) /\ RowsOK(r)
      /\ quantity' = [u \in User |-> IF u \in D THEN updated[s][u].quantity ELSE quantity[u]]
      /\ isOpen' = [u \in User |-> IF u \in D THEN updated[s][u].isOpen ELSE isOpen[u]]
  BY CommitEffect
<1>2. D \in Book!Sellers /\ D # {}
  <2>1. /\ D = {u \in User : isOpen[u] /\ (req[s].mode = "targeted" => u = req[s].target)}
        /\ D # {}
    BY <1>1 DEF Selected
  <2>2. CASE req[s].mode = "targeted"
    <3>1. D = {req[s].target} /\ req[s].target \in Book!Owners
      BY <2>1, <2>2 DEF Book!Owners
    <3> QED BY <2>1, <3>1 DEF Book!Sellers
  <2>3. CASE req[s].mode # "targeted"
    <3>1. D = Book!Owners
      BY <2>1, <2>3 DEF Book!Owners
    <3> QED BY <2>1, <3>1 DEF Book!Sellers
  <2> QED BY <2>2, <2>3
<1>3. q \in 1..remaining
  BY <1>1
<1>4. open' = (remaining' > 0)
  <2> DEFINE o == open'
             many == remaining - q > 1
             some == remaining' > 0
  <2>1. o = many /\ many \in BOOLEAN /\ some \in BOOLEAN
    BY <1>1
  <2>2. many => some
    BY <1>1
  <2>3. ~many => ~some
    BY <1>1
  <2>4. o => many
    BY <2>1
  <2>5. ~o => ~many
    BY <2>1
  <2>6. o \in BOOLEAN
    BY <2>1
  <2> HIDE DEF o, many, some
  <2>7. o = some
    <3>1. some \in {TRUE, FALSE} /\ o \in {TRUE, FALSE}
      BY <2>1, <2>6
    <3>2. some => o
      BY <2>1, <2>3, <2>5, Zenon
    <3>3. o => some
      BY <2>2, <2>4, Zenon
    <3> QED BY <3>1, <3>2, <3>3
  <2> QED BY <2>7 DEF o, some
<1>5. SumFunctionOnSet(quantity, D) = Held(r)
  BY QuantitiesSplit
<1>6. \A u \in D : Book!Reduces(u, q, Book!SumFunctionOnSet(quantity, D))
  BY <1>5, CommitReduces, BookSums
<1>7. \A u \in User \ D : quantity'[u] = quantity[u] /\ isOpen'[u] = isOpen[u]
                          /\ settled'[u] = settled[u]
  BY <1>1, MoneyArrives
<1>8. /\ treasury - treasury'
            = reserve' - reserve + Book!SumFunction(settled') - Book!SumFunction(settled)
      /\ reserve' >= reserve
  BY MoneyArrives, BookSums
<1> HIDE DEF D, q
<1>9. Book!Sell(D, q)
  BY <1>1, <1>2, <1>3, <1>4, <1>6, <1>7, <1>8, Zenon DEF Book!Sell
<1> QED BY <1>2, <1>3, <1>9, Zenon DEF Book!Next

\* execute_sell, with its locks, its statements, its rollbacks and crashes, does to the
\* position what one step of the abstract position does, or nothing.
THEOREM SellsImplementTheBook == Spec => ImplementsPositionBook
<1>1. Init => Book!Init
  <2> SUFFICES ASSUME Init PROVE Book!Init
    OBVIOUS
  <2>1. PICK shares \in [User -> Shares], price \in BuyPrice, charge \in [User -> BuyCharge] :
           /\ quantity = [u \in User |-> shares[u] * Scale]
           /\ cost = [u \in User |-> shares[u] * price + charge[u]]
    BY DEF Init
  <2>2. treasury \in Nat
    <3>1. \A u \in User : cost[u] \in Nat
      BY <2>1, ConstantTypes
    <3>2. SumFunctionOnSet(cost, User) \in Nat
      BY <3>1, SumNat, ConstantsAssumption
    <3>3. DOMAIN cost = User
      BY <2>1
    <3> QED BY <3>2, <3>3 DEF Init, SumFunction
  <2>3. \E sh \in [User -> Shares] : quantity = [u \in User |-> sh[u] * Scale]
    BY <2>1
  <2> QED BY <2>2, <2>3, BookSums DEF Init, Book!Init
<1>2. IInv /\ [Next]_vars => [Book!Next]_Book!vars
  <2> SUFFICES ASSUME IInv, [Next]_vars, ~Book!Next PROVE UNCHANGED Book!vars
    OBVIOUS
  <2>1. ~ \E s \in Session : Commit(s)
    BY CommitSells
  <2> QED BY <2>1, OtherSteps DEF holdings, balances, Book!vars, Book!position
<1> QED BY <1>1, <1>2, Invariance, PTL DEF Spec, Book!Spec, ImplementsPositionBook
===============================================================================
