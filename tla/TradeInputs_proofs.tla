--------------------------- MODULE TradeInputs_proofs ---------------------------
(***************************************************************************)
(* Proofs about what is computed before a trade locks anything: which buys *)
(* pass their schema, how the cost of a buy is split, and what the options *)
(* of a suggestion promise.                                                *)
(***************************************************************************)
EXTENDS MCTradeInputs, SumLemmas, SequenceTheorems

-------------------------------------------------------------------------------
(* The cost split of a buy, for every quantity, price and charges and for every *)
(* number of allocations                                                        *)

\* What the loop conserves: costs charged and charges remaining make up the
\* cost of the shares allocated, and the charges remaining stay within half a
\* tick per allocation of the exact share of the shares left.
SplitLoop ==
    left > 0 =>
        /\ costs + remaining = (bought - left) * paid + fees
        /\ 2 * (remaining * bought - fees * left) <= index * bought
        /\ 2 * (fees * left - remaining * bought) <= index * bought

SplitInv == Split!TypeOK /\ SplitLoop /\ PaidInFull /\ ChargedWithinRounding

\* The quantities and prices of requests are positive, their charges natural.
LEMMA SplitTypes ==
    ASSUME Split!TypeOK
    PROVE  /\ bought \in Nat /\ bought > 0
           /\ paid \in Nat /\ paid > 0
           /\ fees \in Nat
<1>1. /\ \A q \in BuyQuantity : q \in Nat /\ q > 0
      /\ \A p \in BuyPrice : p \in Nat /\ p > 0
      /\ \A c \in BuyCharges : c \in Nat
  BY InputAssumption
<1>2. QED
  BY <1>1, Zenon DEF Split!TypeOK

\* A rounded share is an integer within half a unit of the quotient.
LEMMA NearestBounds ==
    ASSUME NEW n \in Int, NEW d \in Nat \ {0}, NEW k \in Split!Nearest(n, d)
    PROVE  /\ k \in Int
           /\ 2 * (k * d - n) <= d
           /\ 2 * (n - k * d) <= d
  BY DEF Split!Nearest

\* The initial states satisfy the loop invariant.
LEMMA SplitInit == Split!Init => SplitInv
  BY InputAssumption DEF Split!Init, SplitInv, Split!TypeOK, SplitLoop, PaidInFull,
     Split!PaidInFull, ChargedWithinRounding, Split!ChargedWithinRounding, Split!TotalTradeCost

\* Every iteration of the loop keeps it.
LEMMA SplitStep == SplitInv /\ [Split!Next]_(Split!vars) => SplitInv'
<1> SUFFICES ASSUME SplitInv, [Split!Next]_(Split!vars) PROVE SplitInv'
  OBVIOUS
<1>0. /\ bought \in Nat /\ bought > 0
      /\ paid \in Nat /\ fees \in Nat
      /\ left \in 0..bought /\ remaining \in Int /\ costs \in Int /\ index \in Nat
  BY SplitTypes DEF SplitInv, Split!TypeOK
<1>1. ASSUME NEW allocated \in 1..left, Split!AllocateShare(allocated) PROVE SplitInv'
  <2>1. PICK share \in Split!Nearest(fees * allocated, bought) :
               /\ Split!Allocate(allocated, share)
               /\ remaining' = remaining - share
    BY <1>1 DEF Split!AllocateShare
  <2>2. allocated \in Nat /\ allocated < left
    BY <1>0, <1>1 DEF Split!AllocateShare
  <2>3. /\ share \in Int
        /\ 2 * (share * bought - fees * allocated) <= bought
        /\ 2 * (fees * allocated - share * bought) <= bought
    BY <1>0, <2>2, NearestBounds
  <2>4. /\ bought' = bought /\ paid' = paid /\ fees' = fees
        /\ left' = left - allocated
        /\ costs' = costs + allocated * paid + share
        /\ index' = index + 1
        /\ excess' = share * bought - fees * allocated
    BY <2>1 DEF Split!Allocate, Split!request
  <2>5. Split!TypeOK'
    BY <1>0, <2>1, <2>2, <2>3, <2>4 DEF SplitInv, Split!TypeOK
  <2>6. costs' + remaining' = (bought' - left') * paid' + fees'
    <3>1. costs + remaining = (bought - left) * paid + fees
      BY <2>2, <1>0 DEF SplitInv, SplitLoop
    <3>2. costs' + remaining' = costs + remaining + allocated * paid
      BY <1>0, <2>1, <2>2, <2>3, <2>4
    <3>3. (bought - left) * paid + allocated * paid
             = (bought - (left - allocated)) * paid
      BY <1>0, <2>2
    <3>4. QED
      BY <1>0, <2>2, <2>4, <3>1, <3>2, <3>3
  <2>7. /\ 2 * (remaining' * bought' - fees' * left') <= index' * bought'
        /\ 2 * (fees' * left' - remaining' * bought') <= index' * bought'
    <3>1. /\ 2 * (remaining * bought - fees * left) <= index * bought
          /\ 2 * (fees * left - remaining * bought) <= index * bought
      BY <1>0, <2>2 DEF SplitInv, SplitLoop
    <3>2. remaining' * bought' - fees' * left'
             = (remaining * bought - fees * left)
                  - (share * bought - fees * allocated)
      BY <1>0, <2>1, <2>2, <2>3, <2>4
    <3>3. index' * bought' = index * bought + bought
      BY <1>0, <2>4
    <3>4. QED
      BY <1>0, <2>1, <2>2, <2>3, <2>4, <3>1, <3>2, <3>3
  <2>8. SplitLoop' /\ PaidInFull'
    BY <1>0, <2>2, <2>4, <2>6, <2>7 DEF SplitLoop, PaidInFull, Split!PaidInFull
  <2>9. ChargedWithinRounding'
    BY <1>0, <2>2, <2>3, <2>4 DEF ChargedWithinRounding, Split!ChargedWithinRounding
  <2>10. QED
    BY <2>5, <2>8, <2>9 DEF SplitInv
<1>2. ASSUME NEW allocated \in 1..left, Split!AllocateLast(allocated) PROVE SplitInv'
  <2>1. allocated \in Nat /\ left > 0 /\ allocated = left
    BY <1>0, <1>2 DEF Split!AllocateLast
  <2>2. /\ bought' = bought /\ paid' = paid /\ fees' = fees
        /\ left' = 0 /\ remaining' = remaining
        /\ costs' = costs + left * paid + remaining
        /\ index' = index + 1
        /\ excess' = remaining * bought - fees * left
    BY <1>0, <1>2, <2>1 DEF Split!AllocateLast, Split!Allocate, Split!request
  <2>3. Split!TypeOK'
    BY <1>0, <2>1, <2>2 DEF SplitInv, Split!TypeOK
  <2>4. costs' = bought' * paid' + fees'
    <3>1. costs + remaining = (bought - left) * paid + fees
      BY <2>1 DEF SplitInv, SplitLoop
    <3>2. (bought - left) * paid + left * paid = bought * paid
      BY <1>0
    <3>3. QED
      BY <1>0, <2>2, <3>1, <3>2
  <2>5. ChargedWithinRounding'
    BY <1>0, <2>1, <2>2 DEF SplitInv, SplitLoop, ChargedWithinRounding, Split!ChargedWithinRounding
  <2>6. QED
    BY <2>2, <2>3, <2>4, <2>5 DEF SplitInv, SplitLoop, PaidInFull, Split!PaidInFull, Split!TotalTradeCost
<1>3. CASE UNCHANGED Split!vars
  BY <1>3 DEF Split!vars, Split!request, SplitInv, Split!TypeOK, SplitLoop, PaidInFull,
     Split!PaidInFull, ChargedWithinRounding, Split!ChargedWithinRounding, Split!TotalTradeCost
<1>4. QED
  BY <1>1, <1>2, <1>3 DEF Split!Next, Split!Done

\* The loop invariant holds in every reachable state.
THEOREM SplitInvariance == Split!Spec => []SplitInv
  BY SplitInit, SplitStep, PTL DEF Split!Spec

\* Every iteration of the loop of _calculate_user_costs keeps the types.
THEOREM SplitTypeCorrect == Split!Spec => []Split!TypeOK
<1>1. SplitInv => Split!TypeOK
  BY DEF SplitInv
<1>2. QED
  BY SplitInvariance, <1>1, PTL

\* The costs of the users add up to the cost of the position, for any split of
\* any quantity and any charges.
THEOREM CostsAddUp == Split!Spec => []PaidInFull
<1>1. SplitInv => PaidInFull
  BY DEF SplitInv
<1>2. QED
  BY SplitInvariance, <1>1, PTL

\* No user's charges are further from the exact share than half a tick, the
\* last user's than half a tick for each of the others.
THEOREM RoundingBound == Split!Spec => []ChargedWithinRounding
<1>1. SplitInv => ChargedWithinRounding
  BY DEF SplitInv
<1>2. QED
  BY SplitInvariance, <1>1, PTL

-------------------------------------------------------------------------------
(* Buys that pass their schema *)

\* What of a buy its validation has established.
SchemaInv ==
    kind = "buy" =>
        /\ body \in Schema!BuyRequests
        /\ pc \in {"service", "accepted"} => Schema!ValidBuy(body)
        /\ pc = "accepted" => ~Schema!DuplicateUsers(body)

\* The sum of the instance is the sum.
LEMMA AllocatedSum ==
    ASSUME NEW r
    PROVE  Schema!Allocated(r) =
              SumFunctionOnSet([i \in DOMAIN r.allocations |-> r.allocations[i].quantity.units],
                               DOMAIN r.allocations)
BY Zenon DEF Schema!Allocated, Schema!SumFunction, Schema!SumFunctionOnSet, Schema!FoldFunctionOnSet,
   Schema!MapThenFoldSet, SumFunctionOnSet, FoldFunctionOnSet, MapThenFoldSet

\* A list of at most MaxAllocations elements.
LEMMA ListType ==
    ASSUME NEW S, NEW l \in Schema!ListsOf(S)
    PROVE  \E n \in 0..MaxAllocations : l \in [1..n -> S] /\ DOMAIN l = 1..n
  BY InputAssumption DEF Schema!ListsOf

\* What is written with eight decimals is of whole ticks.
LEMMA ShortIsOfTicks ==
    ASSUME NEW U, NEW d \in Schema!Decimal(U), Schema!PrecisionSupported(d)
    PROVE  Schema!OfTicks(d)
  BY DEF Schema!Decimal, Schema!PrecisionSupported, Schema!OfTicks

\* Shares of whole numbers make a whole number.
LEMMA WholeSum ==
    ASSUME NEW r \in Schema!BuyRequests, Schema!ValidBuy(r)
    PROVE  Schema!IsWhole(r.quantity)
<1> DEFINE f == [i \in DOMAIN r.allocations |-> r.allocations[i].quantity.units]
           one == SchemaScale * Sub
<1>1. one \in Nat \ {0}
  BY InputAssumption
<1>2. PICK n \in 0..MaxAllocations :
         /\ r.allocations \in [1..n -> [user : User, quantity : Schema!Decimal(SubmittedQuantity)]]
         /\ DOMAIN r.allocations = 1..n
  <2>1. r.allocations \in
           Schema!ListsOf([user : User, quantity : Schema!Decimal(SubmittedQuantity)])
    BY DEF Schema!BuyRequests
  <2> QED BY <2>1, ListType
<1>3. \A i \in 1..n : f[i] \in Int /\ f[i] % one = 0
  <2> SUFFICES ASSUME NEW i \in 1..n PROVE f[i] \in Int /\ f[i] % one = 0
    OBVIOUS
  <2>1. r.allocations[i].quantity.units \in Int
    BY <1>2, InputAssumption DEF Schema!Decimal
  <2>2. Schema!IsWhole(r.allocations[i].quantity)
    BY <1>2 DEF Schema!ValidBuy, Schema!ValidAllocation
  <2> QED BY <1>2, <2>1, <2>2 DEF Schema!IsWhole
<1>4. IsFiniteSet(1..n)
  BY FS_Interval
<1>5. SumFunctionOnSet(f, 1..n) % one = 0
  <2> HIDE DEF f, one
  <2> QED BY <1>1, <1>3, <1>4, SumDivides
<1>6. r.quantity.units = SumFunctionOnSet(f, 1..n)
  BY <1>2, AllocatedSum DEF Schema!ValidBuy
<1> QED BY <1>5, <1>6 DEF Schema!IsWhole

\* The invariant holds when a request arrives, and every step keeps it.
LEMMA SchemaStep ==
    /\ Schema!Init => SchemaInv
    /\ SchemaInv /\ [Schema!Next]_(Schema!vars) => SchemaInv'
<1>1. Schema!Init => SchemaInv
  BY DEF Schema!Init, SchemaInv
<1>2. ASSUME SchemaInv, Schema!Next PROVE SchemaInv'
  <2>1. CASE Schema!Validate("buy", Schema!ValidBuy(body), body)
    BY <1>2, <2>1 DEF SchemaInv, Schema!Validate
  <2>2. CASE kind # "buy" /\ kind' = kind
    BY <2>2 DEF SchemaInv
  <2>3. CASE Schema!EnterBuy
    BY <1>2, <2>3 DEF SchemaInv, Schema!EnterBuy, Schema!Enter
  <2>4. CASE UNCHANGED Schema!vars
    BY <1>2, <2>4 DEF SchemaInv, Schema!vars
  <2> QED BY <1>2, <2>1, <2>2, <2>3, <2>4 DEF Schema!Next, Schema!Validate, Schema!EnterSell, Schema!Enter
<1>3. ASSUME SchemaInv, UNCHANGED Schema!vars PROVE SchemaInv'
  BY <1>3 DEF SchemaInv, Schema!vars
<1> QED BY <1>1, <1>2, <1>3

\* An accepted buy is what BuyCosts and the columns of the database assume: whole
\* positive shares of distinct users, amounts of whole ticks.
THEOREM AcceptedBuys == Schema!Spec => []BuysAreWhole
<1>1. SchemaInv => BuysAreWhole
  <2> SUFFICES ASSUME SchemaInv, kind = "buy", pc = "accepted" PROVE Schema!BuysAreWhole
    BY DEF BuysAreWhole, Schema!BuysAreWhole, Schema!Accepted
  <2>1. /\ body \in Schema!BuyRequests /\ Schema!ValidBuy(body)
        /\ ~Schema!DuplicateUsers(body)
    BY DEF SchemaInv
  <2>2. Schema!IsWhole(body.quantity)
    BY <2>1, WholeSum
  <2>3. Schema!OfTicks(body.price) /\ Schema!OfTicks(body.charges)
    <3>1. /\ body.price \in Schema!Decimal(SubmittedAmount)
          /\ body.charges \in Schema!Decimal(SubmittedAmount)
      BY <2>1 DEF Schema!BuyRequests
    <3>2. Schema!PrecisionSupported(body.price) /\ Schema!PrecisionSupported(body.charges)
      BY <2>1 DEF Schema!ValidBuy
    <3> QED BY <3>1, <3>2, ShortIsOfTicks
  <2> QED BY <2>1, <2>2, <2>3
          DEF Schema!BuysAreWhole, Schema!ValidBuy, Schema!ValidAllocation
<1> QED BY <1>1, SchemaStep, PTL DEF Schema!Spec

-------------------------------------------------------------------------------
(* The allocation suggestions: estimates                                       *)

\* A request: no more of it matters to what is proved than that it is of naturals.
RequestType ==
    /\ target \in Nat /\ price \in Nat /\ charges \in Nat
    /\ balance \in [Candidates -> Nat]

\* A quotient is rounded to within a half.
LEMMA RoundNearest ==
    ASSUME NEW n \in Int, NEW d \in Nat \ {0}, NEW up
    PROVE  /\ Round(n, d, up) \in Int
           /\ 2 * (Round(n, d, up) * d - n) <= d
           /\ 2 * (n - Round(n, d, up) * d) <= d
<1> DEFINE q == n \div d
           r == n % d
           k == Round(n, d, up)
<1>1. /\ q \in Int /\ r \in Int /\ 0 <= r /\ r < d /\ n = d * q + r
  BY Division
<1>2. \/ k = q /\ 2 * r <= d
      \/ k = q + 1 /\ 2 * r >= d
  <2>1. k = q + (IF 2 * r > d \/ (2 * r = d /\ up) THEN 1 ELSE 0)
    BY DEF Round
  <2> HIDE DEF q, r, k
  <2>2. CASE 2 * r > d \/ (2 * r = d /\ up)
    BY <1>1, <2>1, <2>2
  <2>3. CASE ~(2 * r > d \/ (2 * r = d /\ up))
    <3>1. k = q + 0
      BY <2>1, <2>3
    <3> QED BY <1>1, <2>3, <3>1
  <2> QED BY <2>2, <2>3
<1> HIDE DEF q, r, k
<1>3. CASE k = q /\ 2 * r <= d
  <2>1. k * d = d * q
    BY <1>1, <1>3
  <2> QED BY <1>1, <1>3, <2>1 DEF k
<1>4. CASE k = q + 1 /\ 2 * r >= d
  <2>1. k * d = d * q + d
    BY <1>1, <1>4
  <2> QED BY <1>1, <1>4, <2>1 DEF k
<1> QED BY <1>2, <1>3, <1>4

\* What is rounded of a larger number is no smaller.
LEMMA RoundMonotone ==
    ASSUME NEW m \in Int, NEW n \in Int, m < n, NEW d \in Nat \ {0}, NEW up, NEW down
    PROVE  Round(m, d, up) <= Round(n, d, down)
<1> DEFINE j == Round(m, d, up)
           k == Round(n, d, down)
<1>1. /\ j \in Int /\ 2 * (j * d - m) <= d
      /\ k \in Int /\ 2 * (n - k * d) <= d
  BY RoundNearest
<1> HIDE DEF j, k
<1>2. j >= k + 1 => j * d >= k * d + d
  <2> SUFFICES ASSUME j >= k + 1 PROVE (j - k) * d >= d /\ (j - k) * d = j * d - k * d
    BY <1>1
  <2> QED BY <1>1
<1>3. ~(j >= k + 1)
  BY <1>1, <1>2
<1> QED BY <1>1, <1>3 DEF j, k

\* The cost of no fewer shares is no smaller.
LEMMA CostsGrow ==
    ASSUME RequestType, NEW total \in Nat \ {0}, NEW p \in Nat, NEW q \in Nat, p <= q
    PROVE  /\ EstimatedCost(p, total) \in Int /\ EstimatedCost(q, total) \in Int
           /\ EstimatedCost(p, total) <= EstimatedCost(q, total)
<1> DEFINE a == Round(charges * p, total, p \in tips)
           b == Round(charges * q, total, q \in tips)
<1>1. /\ price \in Nat /\ charges \in Nat /\ charges * p \in Int /\ charges * q \in Int
  BY DEF RequestType
<1>2. a \in Int /\ b \in Int
  BY <1>1, RoundNearest
<1>3. p * price <= q * price /\ p * price \in Int /\ q * price \in Int
  <2>1. (q - p) * price >= 0 /\ (q - p) * price = q * price - p * price
    BY <1>1
  <2> QED BY <1>1, <2>1
<1>4. a <= b
  <2>1. CASE p = q
    BY <1>2, <2>1
  <2>2. CASE charges = 0
    <3>1. /\ 2 * (a * total - 0) <= total /\ 2 * (0 - b * total) <= total
      <4>1. charges * p = 0 /\ charges * q = 0
        BY <2>2
      <4> QED BY <4>1, <1>1, RoundNearest
    <3> HIDE DEF a, b
    <3>2. a >= 1 => a * total >= total
      <4> SUFFICES ASSUME a >= 1 PROVE (a - 1) * total >= 0 /\ (a - 1) * total = a * total - total
        BY <1>2
      <4> QED BY <1>2
    <3>3. b <= -1 => b * total <= -total
      <4> SUFFICES ASSUME b <= -1 PROVE (-1 - b) * total >= 0 /\ (-1 - b) * total = -total - b * total
        BY <1>2
      <4> QED BY <1>2
    <3> QED BY <1>2, <3>1, <3>2, <3>3
  <2>3. CASE p < q /\ charges > 0
    <3>1. charges * p < charges * q
      <4>1. charges * (q - p) > 0 /\ charges * (q - p) = charges * q - charges * p
        BY <1>1, <2>3
      <4> QED BY <1>1, <4>1
    <3> QED BY <1>1, <3>1, RoundMonotone
  <2> QED BY <1>1, <2>1, <2>2, <2>3
<1> HIDE DEF a, b
<1>5. EstimatedCost(p, total) = p * price + a /\ EstimatedCost(q, total) = q * price + b
  BY DEF EstimatedCost, a, b
<1> QED BY <1>2, <1>3, <1>4, <1>5

\* Who affords a quantity affords any smaller one.
LEMMA AffordsLess ==
    ASSUME RequestType, NEW total \in Nat \ {0}, NEW u \in Candidates,
           NEW q \in Nat, CanAfford(u, q, total), NEW p \in Nat, 0 < p, p <= q
    PROVE  CanAfford(u, p, total)
<1>1. /\ EstimatedCost(p, total) \in Int /\ EstimatedCost(q, total) \in Int
      /\ EstimatedCost(p, total) <= EstimatedCost(q, total)
  BY CostsGrow
<1>2. balance[u] \in Nat
  BY DEF RequestType
<1> QED BY <1>1, <1>2 DEF CanAfford

\* A larger wallet affords what a smaller one does.
LEMMA AffordsMore ==
    ASSUME RequestType, NEW total \in Nat \ {0}, NEW u \in Candidates, NEW v \in Candidates,
           balance[u] <= balance[v], NEW q \in Nat, CanAfford(u, q, total)
    PROVE  CanAfford(v, q, total)
<1>1. EstimatedCost(q, total) \in Int
  BY CostsGrow
<1>2. balance[u] \in Nat /\ balance[v] \in Nat
  BY DEF RequestType
<1> QED BY <1>1, <1>2 DEF CanAfford

\* The quantities _max_affordable_quantity settles on, from each candidate down.
IsBest(best, u, total, cap) ==
    best = [candidate \in 0..cap |->
               IF candidate = 0 \/ CanAfford(u, candidate, total)
               THEN candidate ELSE best[candidate - 1]]
Best(u, total, cap) == CHOOSE best : IsBest(best, u, total, cap)

\* It finds the largest quantity up to its cap that the user affords, or none.
LEMMA MaxAffordableIs ==
    ASSUME NEW u, NEW total, NEW cap \in Nat
    PROVE  /\ MaxAffordable(u, total, cap) \in 0..cap
           /\ MaxAffordable(u, total, cap) = 0
              \/ CanAfford(u, MaxAffordable(u, total, cap), total)
           /\ \A q \in 1..cap : CanAfford(u, q, total) => q <= MaxAffordable(u, total, cap)
<1> DEFINE best == Best(u, total, cap)
           H == [n \in 1..cap |-> [v \in Nat |-> IF CanAfford(u, n, total) THEN n ELSE v]]
<1>1. \E g : IsBest(g, u, total, cap)
  <2>1. \A n \in 1..cap, v \in Nat :
           H[n][v] \in Nat /\ H[n][v] = IF CanAfford(u, n, total) THEN n ELSE v
    OBVIOUS
  <2> HIDE DEF H
  <2>2. PICK g \in [0..cap -> Nat] : g[0] = 0 /\ \A n \in 1..cap : g[n] = H[n][g[n - 1]]
    <3>1. StepsIn(Nat, cap, H)
      BY <2>1 DEF StepsIn
    <3>2. \E g : StepsBy(g, Nat, cap, 0, H)
      BY <3>1, RecursionExists
    <3> QED BY <3>2 DEF StepsBy
  <2>3. \A n \in 1..cap : n \in 0..cap /\ n - 1 \in 0..cap /\ n # 0
    OBVIOUS
  <2>4. \A n \in 0..cap : n = 0 \/ n \in 1..cap
    OBVIOUS
  <2>5. \A n \in 1..cap : g[n] = IF CanAfford(u, n, total) THEN n ELSE g[n - 1]
    BY <2>1, <2>2, <2>3
  <2>6. \A n \in 0..cap : g[n] = IF n = 0 \/ CanAfford(u, n, total) THEN n ELSE g[n - 1]
    BY <2>2, <2>4, <2>5
  <2>7. g = [n \in 0..cap |-> g[n]]
    BY <2>2
  <2>8. g = [n \in 0..cap |-> IF n = 0 \/ CanAfford(u, n, total) THEN n ELSE g[n - 1]]
    BY <2>6, <2>7, Zenon
  <2> QED BY <2>8, Zenon DEF IsBest
<1>2. IsBest(best, u, total, cap)
  BY <1>1, Zenon DEF Best
<1>3. MaxAffordable(u, total, cap) = best[cap]
  BY Zenon DEF MaxAffordable, Best, IsBest
<1> HIDE DEF best
<1>4. \A n \in 0..cap :
         best[n] = IF n = 0 \/ CanAfford(u, n, total) THEN n ELSE best[n - 1]
  BY <1>2, Zenon DEF IsBest
<1> DEFINE T == {n \in 0..cap : /\ best[n] \in 0..n
                                /\ best[n] = 0 \/ CanAfford(u, best[n], total)
                                /\ \A q \in 1..n : CanAfford(u, q, total) => q <= best[n]}
<1>5. 0 \in T
  BY <1>4
<1>6. ASSUME NEW n \in 0..cap, n \in T, n < cap PROVE n + 1 \in T
  <2>1. n \in Nat /\ n + 1 \in 0..cap /\ n + 1 # 0 /\ (n + 1) - 1 = n
    BY <1>6
  <2>2. best[n + 1] = IF CanAfford(u, n + 1, total) THEN n + 1 ELSE best[n]
    BY <1>4, <2>1
  <2>3. \A q \in 1..(n + 1) : q = n + 1 \/ q \in 1..n
    BY <2>1
  <2>4. CASE CanAfford(u, n + 1, total)
    <3>1. best[n + 1] = n + 1
      BY <2>2, <2>4
    <3> QED BY <2>1, <2>4, <3>1
  <2>5. CASE ~CanAfford(u, n + 1, total)
    <3>1. best[n + 1] = best[n]
      BY <2>2, <2>5
    <3> QED BY <1>6, <2>1, <2>3, <2>5, <3>1
  <2> QED BY <2>4, <2>5
<1>7. cap \in T
  <2> HIDE DEF T
  <2>1. \A n \in 0..cap : n \in T
    BY <1>5, <1>6, CountUp
  <2> QED BY <2>1
<1> QED BY <1>3, <1>7

-------------------------------------------------------------------------------
(* The allocation suggestions: who is assigned what                            *)

\* The smaller and the larger of two numbers.
LEMMA OfTwo ==
    ASSUME NEW a \in Int, NEW b \in Int
    PROVE  /\ Min({a, b}) = IF a <= b THEN a ELSE b
           /\ Max({a, b}) = IF a >= b THEN a ELSE b
<1>1. \E x \in {a, b} : \A y \in {a, b} : x <= y
  OBVIOUS
<1>2. Min({a, b}) \in {a, b} /\ \A y \in {a, b} : Min({a, b}) <= y
  BY <1>1 DEF Min
<1>3. \E x \in {a, b} : \A y \in {a, b} : x >= y
  OBVIOUS
<1>4. Max({a, b}) \in {a, b} /\ \A y \in {a, b} : Max({a, b}) >= y
  BY <1>3 DEF Max
<1> QED BY <1>2, <1>4

Share == [user : Candidates, quantity : Nat]

\* The list of those assigned any of the first n users' quantities: at names their
\* places in the order.
IsListing(list, at, order, quantity, n) ==
    /\ list \in Seq(Share)
    /\ at \in [1..Len(list) -> 1..n]
    /\ \A i \in 1..Len(list) :
          /\ list[i] = [user |-> order[at[i]], quantity |-> quantity[at[i]]]
          /\ quantity[at[i]] > 0
    /\ \A i, j \in 1..Len(list) : at[i] = at[j] => i = j
    /\ \A k \in 1..n : quantity[k] > 0 => \E i \in 1..Len(list) : at[i] = k

\* The lists Assigned goes through.
IsUpTo(upTo, order, quantity) ==
    upTo = [k \in 0..Users |->
               IF k = 0 THEN <<>>
               ELSE IF quantity[k] > 0
                    THEN Append(upTo[k - 1], [user |-> order[k], quantity |-> quantity[k]])
               ELSE upTo[k - 1]]
UpTo(order, quantity) == CHOOSE upTo : IsUpTo(upTo, order, quantity)

\* They exist.
LEMMA UpToExists ==
    ASSUME NEW order \in [Candidates -> Candidates], NEW quantity \in [Candidates -> Nat]
    PROVE  LET upTo == UpTo(order, quantity)
           IN  /\ Assigned(order, quantity) = upTo[Users]
               /\ upTo[0] = <<>>
               /\ \A k \in Candidates :
                     upTo[k] = IF quantity[k] > 0
                               THEN Append(upTo[k - 1], [user |-> order[k], quantity |-> quantity[k]])
                               ELSE upTo[k - 1]
<1> DEFINE upTo == UpTo(order, quantity)
           list == Seq(Share)
           row(k) == [user |-> order[k], quantity |-> quantity[k]]
           H == [k \in Candidates |-> [v \in list |->
                    IF quantity[k] > 0 THEN Append(v, row(k)) ELSE v]]
<1>0. Users \in Nat /\ Candidates = 1..Users
  BY ConstantsAssumption DEF Candidates
<1>1. \E f : IsUpTo(f, order, quantity)
  <2>1. \A k \in Candidates : row(k) \in Share
    BY DEF Share
  <2>2. \A k \in Candidates, v \in list :
           H[k][v] \in list /\ H[k][v] = IF quantity[k] > 0 THEN Append(v, row(k)) ELSE v
    BY <2>1, AppendProperties
  <2>3. StepsIn(list, Users, H)
    <3> HIDE DEF H, list
    <3> QED BY <1>0, <2>2 DEF StepsIn
  <2>4. <<>> \in list
    OBVIOUS
  <2> HIDE DEF H, list
  <2>5. PICK g : StepsBy(g, list, Users, <<>>, H)
    BY <1>0, <2>3, <2>4, RecursionExists
  <2>6. /\ g \in [0..Users -> list] /\ g[0] = <<>>
        /\ \A k \in Candidates : g[k] = H[k][g[k - 1]]
    BY <1>0, <2>5 DEF StepsBy
  <2>7. \A k \in Candidates : k - 1 \in 0..Users /\ k # 0
    BY <1>0
  <2>8. \A k \in 0..Users : k = 0 \/ k \in Candidates
    BY <1>0
  <2>9. \A k \in Candidates : g[k] = IF quantity[k] > 0 THEN Append(g[k - 1], row(k)) ELSE g[k - 1]
    BY <2>2, <2>6, <2>7
  <2>10. \A k \in 0..Users :
            g[k] = IF k = 0 THEN <<>>
                   ELSE IF quantity[k] > 0 THEN Append(g[k - 1], row(k)) ELSE g[k - 1]
    BY <2>6, <2>7, <2>8, <2>9
  <2>11. g = [k \in 0..Users |-> g[k]]
    BY <2>6
  <2>12. g = [k \in 0..Users |->
                IF k = 0 THEN <<>>
                ELSE IF quantity[k] > 0 THEN Append(g[k - 1], row(k)) ELSE g[k - 1]]
    BY <2>10, <2>11, Zenon
  <2> QED BY <2>12, Zenon DEF IsUpTo
<1>2. IsUpTo(upTo, order, quantity)
  BY <1>1, Zenon DEF UpTo
<1>3. Assigned(order, quantity) = upTo[Users]
  BY Zenon DEF Assigned, UpTo, IsUpTo
<1> HIDE DEF upTo
<1>4. \A k \in 0..Users :
         upTo[k] = IF k = 0 THEN <<>>
                   ELSE IF quantity[k] > 0 THEN Append(upTo[k - 1], row(k)) ELSE upTo[k - 1]
  BY <1>2, Zenon DEF IsUpTo
<1>5. 0 \in 0..Users /\ \A k \in Candidates : k \in 0..Users /\ k # 0
  BY <1>0
<1>6. \A k \in Candidates :
         upTo[k] = IF quantity[k] > 0 THEN Append(upTo[k - 1], row(k)) ELSE upTo[k - 1]
  BY <1>4, <1>5, Zenon
<1> QED BY <1>3, <1>4, <1>5, <1>6 DEF upTo

\* Everyone who is assigned shares is listed once, with them.
LEMMA AssignedLists ==
    ASSUME NEW order \in [Candidates -> Candidates], NEW quantity \in [Candidates -> Nat]
    PROVE  \E at : IsListing(Assigned(order, quantity), at, order, quantity, Users)
<1> DEFINE upTo == UpTo(order, quantity)
           T == {n \in 0..Users : \E at : IsListing(upTo[n], at, order, quantity, n)}
<1>0. Users \in Nat /\ Candidates = 1..Users
  BY ConstantsAssumption DEF Candidates
<1>1. /\ Assigned(order, quantity) = upTo[Users] /\ upTo[0] = <<>>
      /\ \A k \in Candidates :
            upTo[k] = IF quantity[k] > 0
                      THEN Append(upTo[k - 1], [user |-> order[k], quantity |-> quantity[k]])
                      ELSE upTo[k - 1]
  BY UpToExists
<1> HIDE DEF upTo
<1>2. 0 \in T
  <2>1. <<>> \in Seq(Share) /\ Len(<<>>) = 0 /\ 1..0 = {}
    OBVIOUS
  <2>2. IsListing(<<>>, [i \in 1..0 |-> 1], order, quantity, 0)
    BY <2>1 DEF IsListing
  <2>3. 0 \in 0..Users
    BY <1>0
  <2> QED BY <1>1, <2>2, <2>3
<1>3. ASSUME NEW n \in 0..Users, n \in T, n < Users PROVE n + 1 \in T
  <2>0. n \in Nat /\ n + 1 \in Candidates /\ (n + 1) - 1 = n /\ n + 1 \in 0..Users
    BY <1>0, <1>3
  <2> DEFINE s == upTo[n]
             k == n + 1
             row == [user |-> order[k], quantity |-> quantity[k]]
  <2>1. PICK at : IsListing(s, at, order, quantity, n)
    BY <1>3
  <2>2. upTo[k] = IF quantity[k] > 0 THEN Append(s, row) ELSE s
    BY <1>1, <2>0
  <2>3. /\ s \in Seq(Share) /\ Len(s) \in Nat
        /\ at \in [1..Len(s) -> 1..n]
        /\ \A i \in 1..Len(s) : /\ s[i] = [user |-> order[at[i]], quantity |-> quantity[at[i]]]
                                /\ quantity[at[i]] > 0
        /\ \A i, j \in 1..Len(s) : at[i] = at[j] => i = j
        /\ \A m \in 1..n : quantity[m] > 0 => \E i \in 1..Len(s) : at[i] = m
    BY <2>1, LenProperties DEF IsListing
  <2>4. /\ \A m \in 1..k : m = k \/ m \in 1..n
        /\ \A m \in 1..n : m \in 1..k /\ m # k
    BY <2>0
  <2>5. CASE quantity[k] > 0
    <3> DEFINE t == Append(s, row)
               l == Len(s) + 1
               to == [i \in 1..l |-> IF i = l THEN k ELSE at[i]]
    <3>1. row \in Share
      BY <2>0 DEF Share
    <3>2. /\ t \in Seq(Share) /\ Len(t) = l /\ t[l] = row
          /\ \A i \in 1..Len(s) : t[i] = s[i]
      BY <2>3, <3>1, AppendProperties
    <3>3. /\ l \in 1..l
          /\ \A i \in 1..l : i = l \/ i \in 1..Len(s)
          /\ \A i \in 1..Len(s) : i \in 1..l /\ i # l
      BY <2>3
    <3>4. /\ to[l] = k /\ \A i \in 1..Len(s) : to[i] = at[i]
          /\ DOMAIN to = 1..l
      BY <3>3
    <3>5. to \in [1..l -> 1..k]
      <4>1. k \in 1..k
        BY <2>0
      <4>2. \A i \in 1..l : to[i] \in 1..k
        BY <2>3, <2>4, <3>3, <3>4, <4>1
      <4> QED BY <4>2
    <3> HIDE DEF t, l, to
    <3>6. \A i \in 1..l : /\ t[i] = [user |-> order[to[i]], quantity |-> quantity[to[i]]]
                          /\ quantity[to[i]] > 0
      <4> SUFFICES ASSUME NEW i \in 1..l
                   PROVE  /\ t[i] = [user |-> order[to[i]], quantity |-> quantity[to[i]]]
                          /\ quantity[to[i]] > 0
        OBVIOUS
      <4>1. CASE i = l
        BY <2>3, <2>5, <3>2, <3>3, <3>4, <4>1
      <4>2. CASE i \in 1..Len(s)
        BY <2>3, <2>5, <3>2, <3>3, <3>4, <4>2
      <4> QED BY <3>3, <4>1, <4>2
    <3>7. \A i, j \in 1..l : to[i] = to[j] => i = j
      <4> SUFFICES ASSUME NEW i \in 1..l, NEW j \in 1..l, to[i] = to[j] PROVE i = j
        OBVIOUS
      <4>1. CASE i = l /\ j # l
        <5>1. to[i] = k /\ to[j] = at[j] /\ at[j] \in 1..n
          BY <2>3, <3>3, <3>4, <4>1
        <5> QED BY <2>4, <5>1
      <4>2. CASE i # l /\ j = l
        <5>1. to[j] = k /\ to[i] = at[i] /\ at[i] \in 1..n
          BY <2>3, <3>3, <3>4, <4>2
        <5> QED BY <2>4, <5>1
      <4>3. CASE i # l /\ j # l
        BY <2>3, <3>3, <3>4, <4>3
      <4> QED BY <4>1, <4>2, <4>3
    <3>8. \A m \in 1..k : quantity[m] > 0 => \E i \in 1..l : to[i] = m
      BY <2>3, <2>4, <3>3, <3>4
    <3>9. IsListing(t, to, order, quantity, k)
      BY <3>2, <3>5, <3>6, <3>7, <3>8 DEF IsListing
    <3>10. upTo[k] = t
      BY <2>2, <2>5 DEF t
    <3> QED BY <2>0, <3>9, <3>10
  <2>6. CASE ~(quantity[k] > 0)
    <3>1. upTo[k] = s
      BY <2>2, <2>6
    <3>2. at \in [1..Len(s) -> 1..k]
      BY <2>3, <2>4
    <3>3. \A m \in 1..k : quantity[m] > 0 => \E i \in 1..Len(s) : at[i] = m
      BY <2>3, <2>4, <2>6
    <3>4. IsListing(s, at, order, quantity, k)
      BY <2>3, <3>2, <3>3 DEF IsListing
    <3> QED BY <2>0, <3>1, <3>4
  <2> QED BY <2>5, <2>6
<1>4. Users \in T
  <2> HIDE DEF T
  <2>1. \A n \in 0..Users : n \in T
    BY <1>0, <1>2, <1>3, CountUp
  <2> QED BY <1>0, <2>1
<1> QED BY <1>1, <1>4

\* The list achieves what was assigned.
LEMMA ListingAchieves ==
    ASSUME NEW order, NEW quantity \in [Candidates -> Nat], NEW list, NEW at,
           IsListing(list, at, order, quantity, Users),
           NEW f, \A i \in 1..Len(list) : f[i] = list[i].quantity
    PROVE  SumFunctionOnSet(f, 1..Len(list)) = SumFunctionOnSet(quantity, Candidates)
<1> DEFINE n == Len(list)
           R == {k \in Candidates : quantity[k] > 0}
<1>0. Users \in Nat /\ Candidates = 1..Users /\ IsFiniteSet(Candidates)
  BY ConstantsAssumption, FS_Interval DEF Candidates
<1>1. n \in Nat /\ IsFiniteSet(1..n)
  BY LenProperties, FS_Interval DEF IsListing
<1>2. \A i \in 1..n : at[i] \in R /\ f[i] \in Int /\ quantity[at[i]] = f[i]
  <2> SUFFICES ASSUME NEW i \in 1..n
               PROVE  at[i] \in R /\ f[i] \in Int /\ quantity[at[i]] = f[i]
    OBVIOUS
  <2>1. /\ at[i] \in Candidates /\ quantity[at[i]] > 0
        /\ list[i] = [user |-> order[at[i]], quantity |-> quantity[at[i]]]
    BY <1>0 DEF IsListing
  <2> QED BY <2>1
<1>3. \A i, j \in 1..n : at[i] = at[j] => i = j
  BY DEF IsListing
<1>4. \A k \in R : \E i \in 1..n : at[i] = k
  BY <1>0 DEF IsListing
<1>5. /\ R \in SUBSET Candidates
      /\ \A k \in R : quantity[k] \in Int /\ quantity[k] = quantity[k]
      /\ \A k \in Candidates \ R : quantity[k] = 0
  BY DEF R
<1> HIDE DEF R, n
<1>6. SumFunctionOnSet(quantity, R) = SumFunctionOnSet(f, 1..n)
  <2> DEFINE S == 1..n
  <2>1. /\ IsFiniteSet(S)
        /\ \A x \in S : at[x] \in R /\ f[x] \in Int /\ quantity[at[x]] = f[x]
        /\ \A x, y \in S : at[x] = at[y] => x = y
        /\ \A y \in R : \E x \in S : at[x] = y
    BY <1>1, <1>2, <1>3, <1>4
  <2> HIDE DEF S
  <2>2. SumFunctionOnSet(quantity, R) = SumFunctionOnSet(f, S)
    BY <2>1, SumBijection
  <2> QED BY <2>2 DEF S
<1>7. SumFunctionOnSet(quantity, Candidates) = SumFunctionOnSet(quantity, R)
  <2>1. IsFiniteSet(Candidates) /\ R \in SUBSET Candidates
    BY <1>0, <1>5
  <2> HIDE DEF Candidates
  <2> QED BY <1>5, <2>1, SumExtend
<1> QED BY <1>6, <1>7 DEF n

\* What remains after each user's turn.
IsRemaining(rem, order, total, cap) ==
    rem = [k \in 0..Users |->
              IF k = 0 THEN total
              ELSE LET before == rem[k - 1]
                   IN  before - Min({MaxAffordable(order[k], total, cap[before]), before})]
Remaining(order, total, cap) == CHOOSE rem : IsRemaining(rem, order, total, cap)

\* In its turn a user is assigned the most it affords under its cap, or all that
\* remains if that is less.
TakesTurns(rem, order, total, cap) ==
    /\ rem \in [0..Users -> 0..total] /\ rem[0] = total
    /\ \A k \in Candidates :
          /\ rem[k - 1] \in 0..total /\ rem[k] \in 0..rem[k - 1]
          /\ LET q == rem[k - 1] - rem[k]
             IN  /\ q <= cap[rem[k - 1]]
                 /\ q > 0 => CanAfford(order[k], q, total)
                 /\ rem[k] > 0 => \A p \in 1..cap[rem[k - 1]] :
                                     CanAfford(order[k], p, total) => p <= q

\* One turn, for whatever remains.
LEMMA OneTurn ==
    ASSUME RequestType, NEW u \in Candidates, NEW total \in Nat, NEW before \in 0..total,
           NEW c \in Nat
    PROVE  LET q == Min({MaxAffordable(u, total, c), before})
           IN  /\ q \in 0..before /\ q <= c
               /\ q > 0 => CanAfford(u, q, total)
               /\ before - q > 0 => \A p \in 1..c : CanAfford(u, p, total) => p <= q
<1> DEFINE most == MaxAffordable(u, total, c)
           q == Min({most, before})
<1>1. /\ most \in 0..c
      /\ most = 0 \/ CanAfford(u, most, total)
      /\ \A p \in 1..c : CanAfford(u, p, total) => p <= most
  BY MaxAffordableIs
<1> HIDE DEF most
<1>2. q = IF most <= before THEN most ELSE before
  <2>1. most \in Int /\ before \in Int
    BY <1>1
  <2> QED BY <2>1, OfTwo
<1> HIDE DEF q
<1>3. q > 0 => CanAfford(u, q, total)
  <2> SUFFICES ASSUME q > 0 PROVE CanAfford(u, q, total)
    OBVIOUS
  <2>1. /\ q \in Nat /\ most \in Nat /\ q <= most /\ 0 < q
        /\ CanAfford(u, most, total) /\ total \in Nat \ {0}
    BY <1>1, <1>2
  <2> QED BY <2>1, AffordsLess
<1>4. q \in 0..before /\ q <= c /\ (before - q > 0 => q = most)
  BY <1>1, <1>2
<1> QED BY <1>1, <1>3, <1>4 DEF q, most

\* AssignInTurn lists what each user takes in its turn.
LEMMA TurnsTaken ==
    ASSUME RequestType, NEW order \in [Candidates -> Candidates], NEW total \in Nat,
           NEW cap \in [0..total -> Nat]
    PROVE  \E rem : /\ TakesTurns(rem, order, total, cap)
                    /\ AssignInTurn(order, total, cap) =
                          Assigned(order, [k \in Candidates |-> rem[k - 1] - rem[k]])
<1> DEFINE rem == Remaining(order, total, cap)
           V == 0..total
           left_(k, v) == v - Min({MaxAffordable(order[k], total, cap[v]), v})
           H == [k \in Candidates |-> [v \in V |-> left_(k, v)]]
<1>0. Users \in Nat /\ Candidates = 1..Users
  BY ConstantsAssumption DEF Candidates
<1>1. \A k \in Candidates, v \in V : left_(k, v) \in V
  <2> SUFFICES ASSUME NEW k \in Candidates, NEW v \in V PROVE left_(k, v) \in V
    OBVIOUS
  <2> DEFINE q == Min({MaxAffordable(order[k], total, cap[v]), v})
  <2>1. order[k] \in Candidates /\ cap[v] \in Nat /\ v \in 0..total
    OBVIOUS
  <2>2. q \in 0..v
    BY <2>1, OneTurn
  <2> HIDE DEF q
  <2>3. v - q \in V
    BY <2>2
  <2> QED BY <2>3 DEF q
<1>2. \E f : IsRemaining(f, order, total, cap)
  <2>1. \A k \in Candidates, v \in V : H[k][v] = left_(k, v)
    BY Zenon
  <2> HIDE DEF H, left_
  <2>2. StepsIn(V, Users, H)
    <3>1. \A k \in 1..Users, v \in V : H[k][v] \in V
      <4> HIDE DEF V
      <4> QED BY <1>0, <1>1, <2>1
    <3> QED BY <3>1 DEF StepsIn
  <2>3. total \in V
    OBVIOUS
  <2> HIDE DEF V
  <2>4. PICK g : StepsBy(g, V, Users, total, H)
    BY <1>0, <2>2, <2>3, RecursionExists
  <2>5. /\ g \in [0..Users -> V] /\ g[0] = total
        /\ \A k \in Candidates : g[k] = H[k][g[k - 1]]
    BY <1>0, <2>4 DEF StepsBy
  <2>6. \A k \in Candidates : k - 1 \in 0..Users /\ k # 0
    BY <1>0
  <2>7. \A k \in 0..Users : k = 0 \/ k \in Candidates
    BY <1>0
  <2>8. \A k \in Candidates : g[k] = left_(k, g[k - 1])
    BY <2>1, <2>5, <2>6
  <2>9. \A k \in 0..Users : g[k] = IF k = 0 THEN total ELSE left_(k, g[k - 1])
    BY <2>5, <2>6, <2>7, <2>8
  <2>10. g = [k \in 0..Users |-> g[k]]
    BY <2>5
  <2>11. g = [k \in 0..Users |-> IF k = 0 THEN total ELSE left_(k, g[k - 1])]
    BY <2>9, <2>10, Zenon
  <2> QED BY <2>11, Zenon DEF IsRemaining, left_
<1>3. IsRemaining(rem, order, total, cap)
  BY <1>2, Zenon DEF Remaining
<1>4. AssignInTurn(order, total, cap) = Assigned(order, [k \in Candidates |-> rem[k - 1] - rem[k]])
  BY Zenon DEF AssignInTurn, Remaining, IsRemaining
<1> HIDE DEF rem
<1>5. rem = [k \in 0..Users |-> IF k = 0 THEN total ELSE left_(k, rem[k - 1])]
  BY <1>3, Zenon DEF IsRemaining
<1>6. /\ rem[0] = total
      /\ \A k \in Candidates : rem[k] = left_(k, rem[k - 1])
  <2> HIDE DEF left_
  <2>1. \A k \in 0..Users : rem[k] = IF k = 0 THEN total ELSE left_(k, rem[k - 1])
    BY <1>5, Zenon
  <2>2. 0 \in 0..Users /\ \A k \in Candidates : k \in 0..Users /\ k # 0
    BY <1>0
  <2> QED BY <2>1, <2>2, Zenon
<1>7. \A n \in 0..Users : rem[n] \in V
  <2> DEFINE T == {n \in 0..Users : rem[n] \in V}
  <2>1. 0 \in T
    BY <1>0, <1>6
  <2>2. ASSUME NEW n \in 0..Users, n \in T, n < Users PROVE n + 1 \in T
    <3>1. n + 1 \in Candidates /\ n + 1 \in 0..Users /\ (n + 1) - 1 = n
      BY <1>0, <2>2
    <3> HIDE DEF left_, V
    <3>2. rem[n + 1] = left_(n + 1, rem[n]) /\ rem[n] \in V
      BY <1>6, <2>2, <3>1
    <3> QED BY <1>1, <3>1, <3>2
  <2> HIDE DEF T
  <2>3. \A n \in 0..Users : n \in T
    BY <1>0, <2>1, <2>2, CountUp
  <2> QED BY <2>3 DEF T
<1>8. rem \in [0..Users -> V]
  <2> HIDE DEF V, left_
  <2> QED BY <1>5, <1>7
<1>9. ASSUME NEW k \in Candidates
      PROVE  /\ rem[k - 1] \in 0..total /\ rem[k] \in 0..rem[k - 1]
             /\ LET q == rem[k - 1] - rem[k]
                IN  /\ q <= cap[rem[k - 1]]
                    /\ q > 0 => CanAfford(order[k], q, total)
                    /\ rem[k] > 0 => \A p \in 1..cap[rem[k - 1]] :
                                        CanAfford(order[k], p, total) => p <= q
  <2> DEFINE before == rem[k - 1]
             c == cap[before]
             q == Min({MaxAffordable(order[k], total, c), before})
  <2>1. before \in 0..total /\ rem[k] = before - q
    <3>1. k - 1 \in 0..Users
      BY <1>0
    <3> QED BY <1>6, <1>7, <3>1
  <2>2. c \in Nat /\ order[k] \in Candidates
    <3> HIDE DEF before, q
    <3> QED BY <2>1
  <2>3. /\ q \in 0..before /\ q <= c
        /\ q > 0 => CanAfford(order[k], q, total)
        /\ before - q > 0 => \A p \in 1..c : CanAfford(order[k], p, total) => p <= q
    <3> HIDE DEF before, c
    <3> QED BY <2>1, <2>2, OneTurn DEF q
  <2> HIDE DEF q, before
  <2>4. before - rem[k] = q /\ rem[k] = before - q /\ rem[k] \in 0..before
    BY <2>1, <2>3
  <2>5. rem[k] > 0 => before - q > 0
    BY <2>4
  <2> QED BY <2>1, <2>3, <2>4, <2>5 DEF before
<1>10. TakesTurns(rem, order, total, cap)
  BY <1>6, <1>8, <1>9, Zenon DEF TakesTurns
<1> QED BY <1>4, <1>10

\* The first n users take what no longer remains.
LEMMA TurnsSum ==
    ASSUME NEW rem, NEW order, NEW total \in Nat, NEW cap, TakesTurns(rem, order, total, cap),
           NEW n \in 0..Users
    PROVE  SumFunctionOnSet([k \in Candidates |-> rem[k - 1] - rem[k]], 1..n) = total - rem[n]
<1> DEFINE quantity == [k \in Candidates |-> rem[k - 1] - rem[k]]
           T == {i \in 0..Users : SumFunctionOnSet(quantity, 1..i) = total - rem[i]}
<1>0. Users \in Nat /\ Candidates = 1..Users
  BY ConstantsAssumption DEF Candidates
<1>1. /\ rem[0] = total
      /\ \A k \in Candidates : quantity[k] \in Int /\ quantity[k] = rem[k - 1] - rem[k]
      /\ \A k \in 0..Users : rem[k] \in Int
  BY DEF TakesTurns
<1> HIDE DEF quantity
<1>2. 0 \in T
  <2>1. 1..0 = {} /\ 0 \in 0..Users /\ total - rem[0] = 0
    BY <1>0, <1>1
  <2> QED BY <2>1, SumOfNothing
<1>3. ASSUME NEW i \in 0..Users, i \in T, i < Users PROVE i + 1 \in T
  <2> DEFINE S == 1..(i + 1)
             e == i + 1
  <2>1. /\ i \in Nat /\ e \in S /\ S \ {e} = 1..i /\ IsFiniteSet(S) /\ e \in 0..Users
        /\ \A k \in S : k \in Candidates
        /\ e - 1 = i /\ e \in Candidates
    <3>1. i \in Nat /\ IsFiniteSet(S)
      BY <1>3, FS_Interval
    <3>2. S \ {e} = 1..i
      BY <3>1
    <3> QED BY <1>0, <1>3, <3>1, <3>2
  <2>2. \A k \in S : quantity[k] \in Int
    BY <1>1, <2>1
  <2> HIDE DEF S, e
  <2>3. SumFunctionOnSet(quantity, S) = quantity[e] + SumFunctionOnSet(quantity, S \ {e})
    BY <2>1, <2>2, SumRemove
  <2>4. SumFunctionOnSet(quantity, S) = total - rem[e]
    <3>1. SumFunctionOnSet(quantity, 1..i) = total - rem[i]
      BY <1>3
    <3>2. quantity[e] = rem[i] - rem[e] /\ rem[i] \in Int /\ rem[e] \in Int
      BY <1>1, <2>1
    <3>3. SumFunctionOnSet(quantity, S) = (rem[i] - rem[e]) + (total - rem[i])
      BY <2>1, <2>3, <3>1, <3>2
    <3> QED BY <3>2, <3>3
  <2> QED BY <2>1, <2>4 DEF S, e
<1>4. n \in T
  <2> HIDE DEF T
  <2>1. \A i \in 0..Users : i \in T
    BY <1>0, <1>2, <1>3, CountUp
  <2> QED BY <2>1
<1> QED BY <1>4 DEF quantity

-------------------------------------------------------------------------------
(* The allocation suggestions: the options                                     *)

\* An option offers users shares they can afford, no more than its target in all.
IsOffer(option, total) ==
    /\ Len(option) \in Nat /\ DOMAIN option = 1..Len(option)
    /\ \A i \in 1..Len(option) :
          /\ option[i].user \in Candidates
          /\ option[i].quantity \in Nat /\ option[i].quantity > 0
          /\ CanAfford(option[i].user, option[i].quantity, total)
          /\ option[i].estimated_cost = IF i < Len(option)
                                        THEN EstimatedCost(option[i].quantity, total)
                                        ELSE LastCost(option, total)
    /\ Achieved(option) \in Nat /\ Achieved(option) <= total

\* The quantities of a list, by its places.
LEMMA AchievedSum ==
    ASSUME NEW option
    PROVE  Achieved(option) =
              SumFunctionOnSet([i \in DOMAIN option |-> option[i].quantity], DOMAIN option)
BY DEF Achieved, Quantities, SumFunction

\* What is built of a list has its places, users and quantities.
LEMMA Built ==
    ASSUME NEW list \in Seq(Share), NEW total
    PROVE  LET option == BuildOption(list, total)
           IN  /\ Len(option) = Len(list) /\ Len(option) \in Nat
               /\ DOMAIN option = 1..Len(list)
               /\ \A i \in 1..Len(list) :
                     option[i] = [user |-> list[i].user, quantity |-> list[i].quantity,
                                  estimated_cost |-> IF i < Len(list)
                                                     THEN EstimatedCost(list[i].quantity, total)
                                                     ELSE LastCost(list, total)]
<1> DEFINE option == BuildOption(list, total)
           n == Len(list)
           cost(i) == IF i < n THEN EstimatedCost(list[i].quantity, total)
                      ELSE LastCost(list, total)
           f == [i \in 1..n |-> [user |-> list[i].user, quantity |-> list[i].quantity,
                                 estimated_cost |-> cost(i)]]
           S == {f[i] : i \in 1..n}
<1>1. n \in Nat /\ DOMAIN list = 1..n
  BY LenProperties
<1>2. option = f
  BY <1>1, Zenon DEF BuildOption
<1>3. f \in [1..n -> S]
  OBVIOUS
<1>4. DOMAIN f = 1..n /\ \A i \in 1..n : f[i] = [user |-> list[i].user, quantity |-> list[i].quantity,
                                               estimated_cost |-> cost(i)]
  BY Zenon
<1> HIDE DEF f, n, S, option
<1>5. f \in Seq(S)
  BY <1>1, <1>3
<1>6. Len(f) = n
  <2>1. DOMAIN f = 1..Len(f) /\ Len(f) \in Nat
    BY <1>5, LenProperties
  <2> QED BY <1>1, <1>4, <2>1
<1> QED BY <1>1, <1>2, <1>4, <1>6 DEF n, option

\* The charges left to the last user depend on the quantities only.
LEMMA LastCostOf ==
    ASSUME NEW a, NEW b, NEW n \in Nat, Len(a) = n, Len(b) = n, DOMAIN a = 1..n, DOMAIN b = 1..n,
           \A i \in 1..n : a[i].quantity = b[i].quantity, n > 0, NEW total
    PROVE  LastCost(a, total) = LastCost(b, total)
<1> DEFINE charge(x) == [i \in DOMAIN x |-> ProportionalCharge(x[i].quantity, total)]
<1>1. charge(a) = charge(b)
  <2>1. \A i \in 1..n : ProportionalCharge(a[i].quantity, total)
                           = ProportionalCharge(b[i].quantity, total)
    BY Zenon
  <2> QED BY <2>1, Zenon
<1>2. a[n].quantity = b[n].quantity
  OBVIOUS
<1> QED BY <1>1, <1>2, Zenon DEF LastCost

\* An option built of what was assigned is an offer, if all can afford theirs.
LEMMA BuiltOffer ==
    ASSUME NEW order \in [Candidates -> Candidates], NEW quantity \in [Candidates -> Nat],
           NEW total \in Nat,
           \A k \in Candidates : quantity[k] > 0 => CanAfford(order[k], quantity[k], total),
           SumFunctionOnSet(quantity, Candidates) <= total
    PROVE  LET option == BuildOption(Assigned(order, quantity), total)
           IN  /\ IsOffer(option, total)
               /\ Achieved(option) = SumFunctionOnSet(quantity, Candidates)
               /\ Len(option) = Len(Assigned(order, quantity))
<1> DEFINE list == Assigned(order, quantity)
           option == BuildOption(list, total)
           f == [i \in DOMAIN option |-> option[i].quantity]
<1>0. Users \in Nat /\ Candidates = 1..Users /\ IsFiniteSet(Candidates)
  BY ConstantsAssumption, FS_Interval DEF Candidates
<1>1. PICK at : IsListing(list, at, order, quantity, Users)
  BY AssignedLists
<1> HIDE DEF list
<1>2. list \in Seq(Share) /\ Len(list) \in Nat
  BY <1>1, LenProperties DEF IsListing
<1>3. /\ Len(option) = Len(list) /\ Len(option) \in Nat
      /\ DOMAIN option = 1..Len(list)
      /\ \A i \in 1..Len(list) :
            option[i] = [user |-> list[i].user, quantity |-> list[i].quantity,
                         estimated_cost |-> IF i < Len(list)
                                            THEN EstimatedCost(list[i].quantity, total)
                                            ELSE LastCost(list, total)]
  BY <1>2, Built
<1> HIDE DEF option
<1>4. \A i \in 1..Len(list) : f[i] = list[i].quantity
  BY <1>3
<1>5. Achieved(option) = SumFunctionOnSet(f, 1..Len(list))
  BY <1>3, AchievedSum
<1>6. Achieved(option) = SumFunctionOnSet(quantity, Candidates)
  <2> HIDE DEF f
  <2> QED BY <1>1, <1>4, <1>5, ListingAchieves
<1>7. SumFunctionOnSet(quantity, Candidates) \in Nat
  <2>1. \A k \in Candidates : quantity[k] \in Nat
    OBVIOUS
  <2> QED BY <1>0, <2>1, SumNat
<1>8. ASSUME NEW i \in 1..Len(option)
      PROVE  /\ option[i].user \in Candidates
             /\ option[i].quantity \in Nat /\ option[i].quantity > 0
             /\ CanAfford(option[i].user, option[i].quantity, total)
             /\ option[i].estimated_cost = IF i < Len(option)
                                           THEN EstimatedCost(option[i].quantity, total)
                                           ELSE LastCost(option, total)
  <2>1. i \in 1..Len(list)
    BY <1>3
  <2>2. /\ at[i] \in Candidates /\ quantity[at[i]] > 0
        /\ list[i] = [user |-> order[at[i]], quantity |-> quantity[at[i]]]
    BY <1>0, <1>1, <2>1 DEF IsListing
  <2>3. /\ option[i].user = order[at[i]] /\ option[i].quantity = quantity[at[i]]
        /\ option[i].quantity = list[i].quantity
        /\ option[i].estimated_cost = IF i < Len(list)
                                      THEN EstimatedCost(list[i].quantity, total)
                                      ELSE LastCost(list, total)
    BY <1>3, <2>1, <2>2
  <2>4. LastCost(option, total) = LastCost(list, total)
    <3>1. /\ \A j \in 1..Len(list) : option[j].quantity = list[j].quantity
          /\ DOMAIN list = 1..Len(list) /\ Len(list) > 0
      BY <1>2, <1>3, <2>1, LenProperties
    <3>2. Len(list) \in Nat /\ Len(option) = Len(list) /\ DOMAIN option = 1..Len(list)
      BY <1>2, <1>3
    <3> QED BY <3>1, <3>2, LastCostOf
  <2>5. option[i].estimated_cost = IF i < Len(option)
                                   THEN EstimatedCost(option[i].quantity, total)
                                   ELSE LastCost(option, total)
    BY <1>3, <2>3, <2>4, Zenon
  <2>6. /\ order[at[i]] \in Candidates /\ quantity[at[i]] \in Nat
        /\ CanAfford(order[at[i]], quantity[at[i]], total)
    BY <2>2
  <2> QED BY <2>2, <2>3, <2>5, <2>6
<1>9. IsOffer(option, total)
  <2>1. Achieved(option) \in Nat /\ Achieved(option) <= total
    BY <1>6, <1>7
  <2>2. Len(option) \in Nat /\ DOMAIN option = 1..Len(option)
    BY <1>3
  <2> QED BY <1>8, <2>1, <2>2, Zenon DEF IsOffer
<1> QED BY <1>3, <1>6, <1>9 DEF option, list

\* What users take in turn is an offer, whatever the cap.
LEMMA TurnsOffer ==
    ASSUME RequestType, NEW order \in [Candidates -> Candidates], NEW total \in Nat,
           NEW cap \in [0..total -> Nat]
    PROVE  \E rem : LET quantity == [k \in Candidates |-> rem[k - 1] - rem[k]]
                        option   == BuildOption(AssignInTurn(order, total, cap), total)
                    IN  /\ TakesTurns(rem, order, total, cap)
                        /\ AssignInTurn(order, total, cap) = Assigned(order, quantity)
                        /\ quantity \in [Candidates -> 0..total]
                        /\ IsOffer(option, total)
                        /\ Achieved(option) = total - rem[Users]
                        /\ SumFunctionOnSet(quantity, Candidates) = total - rem[Users]
<1>0. Users \in Nat /\ Candidates = 1..Users
  BY ConstantsAssumption DEF Candidates
<1>1. PICK rem : /\ TakesTurns(rem, order, total, cap)
                 /\ AssignInTurn(order, total, cap) =
                       Assigned(order, [k \in Candidates |-> rem[k - 1] - rem[k]])
  BY TurnsTaken
<1> DEFINE quantity == [k \in Candidates |-> rem[k - 1] - rem[k]]
<1>2. /\ rem[Users] \in 0..total
      /\ \A k \in Candidates : /\ rem[k - 1] \in 0..total /\ rem[k] \in 0..rem[k - 1]
                               /\ rem[k - 1] - rem[k] > 0 =>
                                     CanAfford(order[k], rem[k - 1] - rem[k], total)
  <2>1. Users \in 0..Users
    BY <1>0
  <2>2. rem \in [0..Users -> 0..total]
    BY <1>1 DEF TakesTurns
  <2>3. \A k \in Candidates : /\ rem[k - 1] \in 0..total /\ rem[k] \in 0..rem[k - 1]
                              /\ rem[k - 1] - rem[k] > 0 =>
                                    CanAfford(order[k], rem[k - 1] - rem[k], total)
    <3> HIDE DEF Candidates
    <3> QED BY <1>1 DEF TakesTurns
  <2> QED BY <2>1, <2>2, <2>3
<1>3. \A k \in Candidates : quantity[k] = rem[k - 1] - rem[k]
  OBVIOUS
<1>4. \A k \in Candidates : rem[k - 1] - rem[k] \in 0..total
  BY <1>2
<1>5. quantity \in [Candidates -> 0..total] /\ quantity \in [Candidates -> Nat]
  BY <1>4
<1>6. SumFunctionOnSet(quantity, Candidates) = total - rem[Users]
  <2>1. Users \in 0..Users
    BY <1>0
  <2> HIDE DEF Candidates
  <2> QED BY <1>0, <1>1, <2>1, TurnsSum
<1> HIDE DEF quantity
<1>7. /\ \A k \in Candidates : quantity[k] > 0 => CanAfford(order[k], quantity[k], total)
      /\ SumFunctionOnSet(quantity, Candidates) <= total
  BY <1>2, <1>3, <1>6
<1>8. LET option == BuildOption(Assigned(order, quantity), total)
      IN  /\ IsOffer(option, total)
          /\ Achieved(option) = SumFunctionOnSet(quantity, Candidates)
  BY <1>5, <1>7, BuiltOffer
<1>9. AssignInTurn(order, total, cap) = Assigned(order, quantity)
  BY <1>1 DEF quantity
<1> QED BY <1>1, <1>5, <1>6, <1>8, <1>9, Zenon DEF quantity

\* A wallet is larger or smaller than another, or comes before or after it.
LEMMA PrecedesOrders ==
    ASSUME RequestType, NEW u \in Candidates, NEW v \in Candidates, NEW w \in Candidates
    PROVE  /\ ~Precedes(u, u)
           /\ u # v => Precedes(u, v) \/ Precedes(v, u)
           /\ Precedes(u, v) /\ Precedes(v, w) => Precedes(u, w)
<1>1. /\ balance[u] \in Nat /\ balance[v] \in Nat /\ balance[w] \in Nat
  BY DEF RequestType
<1>2. u \in Nat /\ v \in Nat /\ w \in Nat
  BY ConstantsAssumption DEF Candidates
<1> QED BY <1>1, <1>2 DEF Precedes

\* The wallets before one's own.
Before(u) == {v \in Candidates : Precedes(v, u)}

\* The wallets before one are fewer than those before the next.
LEMMA BeforeGrows ==
    ASSUME RequestType, NEW u \in Candidates, NEW v \in Candidates
    PROVE  /\ Cardinality(Before(u)) \in 0..(Users - 1)
           /\ Precedes(u, v) => Cardinality(Before(u)) < Cardinality(Before(v))
<1>0. Users \in Nat /\ IsFiniteSet(Candidates) /\ Cardinality(Candidates) = Users
  BY ConstantsAssumption, FS_Interval DEF Candidates
<1>1. ASSUME NEW x \in Candidates
      PROVE  IsFiniteSet(Before(x)) /\ Cardinality(Before(x)) \in Nat
  <2>1. Before(x) \in SUBSET Candidates
    BY DEF Before
  <2> QED BY <1>0, <2>1, FS_Subset, FS_CardinalityType
<1>2. Cardinality(Before(u)) < Users
  <2>1. Before(u) \in SUBSET (Candidates \ {u})
    BY PrecedesOrders DEF Before
  <2>2. IsFiniteSet(Candidates \ {u}) /\ Cardinality(Candidates \ {u}) = Users - 1
    BY <1>0, FS_RemoveElement
  <2>3. Cardinality(Before(u)) <= Users - 1
    BY <2>1, <2>2, FS_Subset
  <2> QED BY <1>0, <1>1, <2>3
<1>3. ASSUME Precedes(u, v) PROVE Cardinality(Before(u)) < Cardinality(Before(v))
  <2>1. u \in Before(v) /\ u \notin Before(u)
    BY <1>3, PrecedesOrders DEF Before
  <2>2. \A x \in Before(u) : x \in Before(v)
    BY <1>3, PrecedesOrders DEF Before
  <2>3. Before(u) \in SUBSET (Before(v) \ {u})
    BY <2>1, <2>2
  <2>4. IsFiniteSet(Before(v) \ {u}) /\ Cardinality(Before(v) \ {u}) = Cardinality(Before(v)) - 1
    BY <1>1, <2>1, FS_RemoveElement
  <2>5. Cardinality(Before(u)) <= Cardinality(Before(v)) - 1
    BY <2>3, <2>4, FS_Subset
  <2> QED BY <1>1, <2>5
<1> QED BY <1>0, <1>1, <1>2, <1>3

\* The candidates can be put in the order of their wallets.
LEMMA LargestFirstSorts ==
    ASSUME RequestType
    PROVE  /\ LargestFirst \in [Candidates -> Candidates]
           /\ \A j, k \in Candidates : j < k => Precedes(LargestFirst[j], LargestFirst[k])
           /\ \A j, k \in Candidates : LargestFirst[j] = LargestFirst[k] => j = k
           /\ \A u \in Candidates : \E k \in Candidates : LargestFirst[k] = u
<1> DEFINE rank == [u \in Candidates |-> Cardinality(Before(u)) + 1]
<1>0. Users \in Nat /\ Candidates = 1..Users /\ IsFiniteSet(Candidates)
  BY ConstantsAssumption, FS_Interval DEF Candidates
<1>1. \A u \in Candidates : rank[u] \in Candidates
  BY <1>0, BeforeGrows
<1>2. \A u, v \in Candidates : Precedes(u, v) => rank[u] < rank[v]
  <2> SUFFICES ASSUME NEW u \in Candidates, NEW v \in Candidates, Precedes(u, v)
               PROVE  rank[u] < rank[v]
    OBVIOUS
  <2>1. /\ Cardinality(Before(u)) \in 0..(Users - 1) /\ Cardinality(Before(v)) \in 0..(Users - 1)
        /\ Cardinality(Before(u)) < Cardinality(Before(v))
    BY BeforeGrows
  <2>2. rank[u] = Cardinality(Before(u)) + 1 /\ rank[v] = Cardinality(Before(v)) + 1
    OBVIOUS
  <2> QED BY <1>0, <2>1, <2>2
<1>3. rank \in [Candidates -> Candidates]
  BY <1>1
<1> HIDE DEF rank
<1>4. \A u \in Candidates : rank[u] \in Nat
  BY <1>0, <1>1
<1>5. \A u, v \in Candidates : rank[u] = rank[v] => u = v
  BY <1>2, <1>4, PrecedesOrders
<1>6. \A k \in Candidates : \E u \in Candidates : rank[u] = k
  <2>1. rank \in Injection(Candidates, Candidates)
    BY <1>3, <1>5 DEF Injection, IsInjective
  <2>2. rank \in Surjection(Candidates, Candidates)
    BY <1>0, <2>1, FS_Injection
  <2> QED BY <2>2 DEF Surjection
<1> DEFINE order == [k \in Candidates |-> CHOOSE u \in Candidates : rank[u] = k]
<1>7. \A k \in Candidates : order[k] \in Candidates /\ rank[order[k]] = k
  BY <1>6
<1>8. order \in [Candidates -> Candidates]
  BY <1>7
<1> HIDE DEF order
<1>9. ASSUME NEW j \in Candidates, NEW k \in Candidates, j < k
      PROVE  Precedes(order[j], order[k])
  <2>1. /\ order[j] \in Candidates /\ order[k] \in Candidates
        /\ rank[order[j]] = j /\ rank[order[k]] = k /\ j \in Nat /\ k \in Nat
    BY <1>0, <1>7
  <2>2. order[j] # order[k]
    BY <1>9, <2>1
  <2>3. ~Precedes(order[k], order[j])
    <3>1. Precedes(order[k], order[j]) => rank[order[k]] < rank[order[j]]
      BY <1>2, <2>1
    <3> QED BY <1>9, <2>1, <3>1
  <2> QED BY <2>1, <2>2, <2>3, PrecedesOrders
<1>10. /\ LargestFirst \in [Candidates -> Candidates]
       /\ \A j, k \in Candidates : j < k => Precedes(LargestFirst[j], LargestFirst[k])
  <2>1. \E x \in [Candidates -> Candidates] :
           \A j, k \in Candidates : j < k => Precedes(x[j], x[k])
    BY <1>8, <1>9
  <2> QED BY <2>1, Zenon DEF LargestFirst
<1>11. \A j, k \in Candidates : LargestFirst[j] = LargestFirst[k] => j = k
  <2> SUFFICES ASSUME NEW j \in Candidates, NEW k \in Candidates,
                      LargestFirst[j] = LargestFirst[k], j < k
               PROVE  FALSE
    BY <1>0
  <2>1. Precedes(LargestFirst[j], LargestFirst[j]) /\ LargestFirst[j] \in Candidates
    BY <1>10
  <2> QED BY <2>1, PrecedesOrders
<1>12. \A u \in Candidates : \E k \in Candidates : LargestFirst[k] = u
  <2>1. LargestFirst \in Injection(Candidates, Candidates)
    BY <1>10, <1>11 DEF Injection, IsInjective
  <2>2. LargestFirst \in Surjection(Candidates, Candidates)
    BY <1>0, <2>1, FS_Injection
  <2> QED BY <2>2 DEF Surjection
<1> QED BY <1>10, <1>11, <1>12

\* Quotas rounded to the target make an offer: who does not afford its own gets none.
LEMMA ProportionalOffer ==
    ASSUME RequestType, TotalBalance > 0, NEW extra \in RoundedUp
    PROVE  IsOffer(ProportionalOption(extra), target)
<1> DEFINE quota == [u \in Candidates |-> Floor(u) + (IF u \in extra THEN 1 ELSE 0)]
           floor == [u \in Candidates |-> Floor(u)]
           one == [u \in Candidates |-> IF u \in extra THEN 1 ELSE 0]
           valid == [u \in Candidates |-> IF CanAfford(u, quota[u], target) THEN quota[u] ELSE 0]
           zero == [u \in Candidates |-> 0]
<1>0. Users \in Nat /\ Candidates = 1..Users /\ IsFiniteSet(Candidates)
  BY ConstantsAssumption, FS_Interval DEF Candidates
<1>1. TotalBalance \in Nat \ {0}
  <2>1. TotalBalance = SumFunctionOnSet(balance, Candidates)
    BY DEF RequestType, TotalBalance, SumFunction
  <2>2. \A u \in Candidates : balance[u] \in Nat
    BY DEF RequestType
  <2>3. TotalBalance \in Nat
    BY <1>0, <2>1, <2>2, SumNat
  <2> QED BY <2>3
<1>2. \A u \in Candidates : Floor(u) \in Nat
  <2> SUFFICES ASSUME NEW u \in Candidates PROVE Floor(u) \in Nat
    OBVIOUS
  <2> DEFINE n == target * balance[u]
             d == TotalBalance
             q == n \div d
  <2>1. n \in Nat
    BY DEF RequestType
  <2>2. d \in Nat \ {0}
    BY <1>1
  <2> HIDE DEF n, d
  <2>3. q \in Int /\ n % d \in Int /\ 0 <= (n % d) /\ (n % d) < d /\ n = d * q + (n % d)
    BY <2>1, <2>2, Division
  <2> DEFINE r == n % d
  <2> HIDE DEF q, r
  <2>4. q >= 0
    <3>1. q <= -1 => d * q <= -d
      <4> SUFFICES ASSUME q <= -1 PROVE d * (-1 - q) >= 0 /\ d * (-1 - q) = -d - d * q
        BY <2>2, <2>3
      <4> QED BY <2>2, <2>3
    <3>2. r \in Int /\ r < d /\ n = d * q + r
      BY <2>3 DEF r
    <3> QED BY <2>1, <2>2, <2>3, <3>1, <3>2
  <2>5. Floor(u) = q
    BY DEF Floor, q, n, d
  <2> QED BY <2>3, <2>4, <2>5
<1>3. /\ extra \in SUBSET Candidates
      /\ Cardinality(extra) = target - SumFunction([u \in Candidates |-> Floor(u)])
  BY DEF RoundedUp
<1>4. Cardinality(extra) = target - SumFunctionOnSet(floor, Candidates)
  BY <1>3 DEF SumFunction
<1>5. /\ \A u \in Candidates : /\ floor[u] \in Nat /\ one[u] \in Nat /\ quota[u] \in Nat
                               /\ quota[u] = floor[u] + one[u]
                               /\ floor[u] \in Int /\ one[u] \in Int
                               /\ valid[u] \in Nat /\ zero[u] \in Int
                               /\ 1 * valid[u] <= 1 * quota[u] + zero[u]
                               /\ valid[u] \in Int /\ quota[u] \in Int
                               /\ valid[u] > 0 => CanAfford(u, valid[u], target)
      /\ \A u \in extra : one[u] = 1
      /\ \A u \in Candidates \ extra : one[u] = 0
  BY <1>2, <1>3
<1>6. SumFunctionOnSet(zero, Candidates) = 0
  <2>1. \A u \in Candidates : zero[u] = 0
    OBVIOUS
  <2>2. 0 \in Int /\ Cardinality(Candidates) \in Nat
    BY <1>0, FS_CardinalityType
  <2>3. SumFunctionOnSet(zero, Candidates) = 0 * Cardinality(Candidates)
    <3> HIDE DEF zero
    <3> QED BY <1>0, <2>1, <2>2, SumConstant
  <2> QED BY <2>2, <2>3
<1>7. ProportionalOption(extra) =
         BuildOption(Assigned(InRequestOrder, valid), target)
  <2>1. \A u \in Candidates : Floor(u) + (IF u \in extra THEN 1 ELSE 0) = quota[u]
    BY Zenon
  <2>2. valid = [u \in Candidates |->
                    IF CanAfford(u, Floor(u) + (IF u \in extra THEN 1 ELSE 0), target)
                    THEN Floor(u) + (IF u \in extra THEN 1 ELSE 0) ELSE 0]
    <3> HIDE DEF quota
    <3> QED BY <2>1, Zenon
  <2> HIDE DEF valid, quota
  <2> QED BY <2>2, Zenon DEF ProportionalOption
<1>8. valid \in [Candidates -> Nat]
  <2>1. valid = [u \in Candidates |-> valid[u]]
    OBVIOUS
  <2> HIDE DEF valid
  <2> QED BY <1>5, <2>1
<1> HIDE DEF quota, floor, one, valid, zero
<1>9. SumFunctionOnSet(one, Candidates) = Cardinality(extra)
  <2>1. IsFiniteSet(extra) /\ Cardinality(extra) \in Nat
    BY <1>0, <1>3, FS_Subset, FS_CardinalityType
  <2>2. SumFunctionOnSet(one, extra) = 1 * Cardinality(extra)
    BY <1>5, <2>1, SumConstant
  <2>3. \A u \in extra : one[u] \in Int /\ one[u] = one[u]
    BY <1>3, <1>5
  <2>4. SumFunctionOnSet(one, Candidates) = SumFunctionOnSet(one, extra)
    <3>1. /\ IsFiniteSet(Candidates) /\ extra \in SUBSET Candidates
          /\ \A u \in Candidates \ extra : one[u] = 0
      BY <1>0, <1>3, <1>5
    <3> QED BY <2>3, <3>1, SumExtend
  <2> QED BY <2>1, <2>2, <2>4
<1>10. /\ SumFunctionOnSet(floor, Candidates) \in Int
       /\ SumFunctionOnSet(quota, Candidates) = target
  <2>1. SumFunctionOnSet(floor, Candidates) \in Int
    BY <1>0, <1>5, SumInt
  <2>2. SumFunctionOnSet(quota, Candidates)
           = SumFunctionOnSet(floor, Candidates) + SumFunctionOnSet(one, Candidates)
    <3>1. \A u \in Candidates :
             floor[u] \in Int /\ one[u] \in Int /\ quota[u] = floor[u] + one[u]
      BY <1>5
    <3> QED BY <1>0, <3>1, SumPlus
  <2>3. target \in Int
    BY DEF RequestType
  <2> QED BY <1>4, <1>9, <2>1, <2>2, <2>3
<1>11. SumFunctionOnSet(valid, Candidates) <= target
  <2>1. 1 * SumFunctionOnSet(valid, Candidates)
           <= 1 * SumFunctionOnSet(quota, Candidates) + SumFunctionOnSet(zero, Candidates)
    <3>1. 1 \in Int
      OBVIOUS
    <3> QED BY <1>0, <1>5, <3>1, SumBound
  <2>2. SumFunctionOnSet(valid, Candidates) \in Int /\ target \in Int
    BY <1>0, <1>5, SumInt DEF RequestType
  <2> QED BY <1>6, <1>10, <2>1, <2>2
<1>12. /\ InRequestOrder \in [Candidates -> Candidates] /\ target \in Nat
       /\ \A k \in Candidates : valid[k] > 0 => CanAfford(InRequestOrder[k], valid[k], target)
  BY <1>5 DEF InRequestOrder, RequestType
<1> QED BY <1>7, <1>8, <1>11, <1>12, BuiltOffer

-------------------------------------------------------------------------------
(* The allocation suggestions: what every offer promises                       *)

\* A number is zero or more if it is of some n-ths.
LEMMA Cancel ==
    ASSUME NEW a \in Int, NEW b \in Int, NEW d \in Nat \ {0}, d * a <= d * b
    PROVE  a <= b
<1>1. a > b => d * a >= d * b + d
  <2> SUFFICES ASSUME a > b PROVE d * (a - b - 1) >= 0 /\ d * (a - b - 1) = d * a - d * b - d
    OBVIOUS
  <2> QED OBVIOUS
<1> QED BY <1>1

\* The estimate of all but the last user's charges is within half a unit and half
\* of all the charges of the charges its ratio leaves to the last.
LEMMA EstimateError ==
    ASSUME RequestType, NEW total \in Nat \ {0}, NEW q \in Nat
    PROVE  LET r == Round(charges * q, total, q \in tips)
               c == ProportionalCharge(q, total)
           IN  /\ r \in Int /\ c \in Int
               /\ (2 * Scale) * r <= 2 * c + (Scale + charges)
               /\ 2 * c <= (2 * Scale) * r + (Scale + charges)
<1> DEFINE r == Round(charges * q, total, q \in tips)
           p == Round(Scale * q, total, q \in tips)
           m == charges * q
           n == Scale * q
<1>1. charges \in Nat /\ Scale \in Nat /\ m \in Int /\ n \in Int /\ m \in Nat /\ n \in Nat
  BY ConstantsAssumption DEF RequestType
<1>2. ProportionalCharge(q, total) = charges * p
  BY DEF ProportionalCharge
<1>3. /\ r \in Int /\ 2 * (r * total - m) <= total /\ 2 * (m - r * total) <= total
      /\ p \in Int /\ 2 * (p * total - n) <= total /\ 2 * (n - p * total) <= total
  <2> HIDE DEF m, n
  <2> QED BY <1>1, RoundNearest DEF m, n
<1>4. Scale * m = charges * n
  BY <1>1
<1> HIDE DEF r, p, m, n
<1> DEFINE x == 2 * (r * total - m)
           y == 2 * (p * total - n)
<1>5. x \in Int /\ y \in Int /\ x <= total /\ -x <= total /\ y <= total /\ -y <= total
  BY <1>1, <1>3
<1>6. /\ Scale * x <= Scale * total /\ Scale * (-x) <= Scale * total
      /\ charges * y <= charges * total /\ charges * (-y) <= charges * total
  <2> HIDE DEF x, y
  <2>1. /\ Scale * (total - x) >= 0 /\ Scale * (total - x) = Scale * total - Scale * x
        /\ Scale * (total + x) >= 0 /\ Scale * (total + x) = Scale * total + Scale * x
        /\ Scale * (-x) = -(Scale * x) /\ Scale * x \in Int /\ Scale * total \in Int
    BY <1>1, <1>5
  <2>2. /\ charges * (total - y) >= 0 /\ charges * (total - y) = charges * total - charges * y
        /\ charges * (total + y) >= 0 /\ charges * (total + y) = charges * total + charges * y
        /\ charges * (-y) = -(charges * y) /\ charges * y \in Int /\ charges * total \in Int
    BY <1>1, <1>5
  <2> QED BY <2>1, <2>2
<1>7. /\ Scale * x = total * (2 * Scale * r) - 2 * (Scale * m)
      /\ charges * y = total * (2 * (charges * p)) - 2 * (charges * n)
      /\ Scale * (-x) = -(Scale * x) /\ charges * (-y) = -(charges * y)
  BY <1>1, <1>3
<1> DEFINE a == (2 * Scale) * r
           b == 2 * (charges * p)
           s == Scale + charges
<1>8. /\ a \in Int /\ b \in Int /\ s \in Int
      /\ total * a = total * (2 * Scale * r) /\ total * s = Scale * total + charges * total
      /\ Scale * m \in Int /\ Scale * total \in Int /\ charges * total \in Int
      /\ total * b \in Int /\ total * a \in Int
  BY <1>1, <1>3
<1> HIDE DEF x, y, a, b, s
<1>9. /\ total * (2 * Scale * r) = total * a /\ total * (2 * (charges * p)) = total * b
  BY <1>8 DEF b
<1>10. total * a <= total * b + total * s /\ total * b <= total * a + total * s
  BY <1>4, <1>6, <1>7, <1>8, <1>9
<1>11. total * (b + s) = total * b + total * s /\ total * (a + s) = total * a + total * s
  BY <1>8
<1>12. a <= b + s /\ b <= a + s
  BY <1>8, <1>10, <1>11, Cancel
<1>13. charges * p \in Int
  BY <1>1, <1>3
<1> QED BY <1>2, <1>3, <1>12, <1>13 DEF a, b, s, r, p, m, n

\* The quantities of an offer, and the sums over all of it but its last place.
LEMMA OfferSums ==
    ASSUME RequestType, NEW total \in Nat, NEW option, IsOffer(option, total), Len(option) > 0
    PROVE  LET n == Len(option)
               q == [i \in DOMAIN option |-> option[i].quantity]
           IN  /\ n \in Nat /\ IsFiniteSet(1..n) /\ IsFiniteSet(1..(n - 1))
               /\ Cardinality(1..n) = n /\ Cardinality(1..(n - 1)) = n - 1
               /\ \A i \in 1..n : q[i] \in Nat
               /\ total \in Nat \ {0}
               /\ Achieved(option) = SumFunctionOnSet(q, 1..n)
               /\ SumFunctionOnSet(q, 1..(n - 1)) \in Int
               /\ Achieved(option) = q[n] + SumFunctionOnSet(q, 1..(n - 1))
<1> DEFINE n == Len(option)
           q == [i \in DOMAIN option |-> option[i].quantity]
<1>1. /\ n \in Nat /\ n > 0 /\ n \in 1..n /\ (1..n) \ {n} = 1..(n - 1)
      /\ DOMAIN option = 1..n
      /\ \A i \in 1..n : q[i] \in Nat /\ q[i] > 0
      /\ Achieved(option) \in Nat /\ Achieved(option) <= total
  BY DEF IsOffer
<1>2. /\ IsFiniteSet(1..n) /\ IsFiniteSet(1..(n - 1))
      /\ Cardinality(1..n) = n /\ Cardinality(1..(n - 1)) = n - 1
  <2> HIDE DEF n
  <2>1. n \in Int /\ n - 1 \in Int /\ 1 \in Int /\ ~(1 > n) /\ (1 > n - 1 => n - 1 = 0)
    BY <1>1
  <2>2. IsFiniteSet(1..n) /\ Cardinality(1..n) = IF 1 > n THEN 0 ELSE n - 1 + 1
    BY <2>1, FS_Interval
  <2> DEFINE m == n - 1
  <2>3. IsFiniteSet(1..m) /\ Cardinality(1..m) = IF 1 > m THEN 0 ELSE m - 1 + 1
    <3>1. m \in Int
      BY <2>1
    <3> HIDE DEF m
    <3> QED BY <2>1, <3>1, FS_Interval
  <2> QED BY <2>1, <2>2, <2>3
<1>3. Achieved(option) = SumFunctionOnSet(q, 1..n)
  BY <1>1, AchievedSum
<1> HIDE DEF q, n
<1>4. \A i \in 1..n : q[i] \in Int
  BY <1>1
<1>5. SumFunctionOnSet(q, 1..n) = q[n] + SumFunctionOnSet(q, (1..n) \ {n})
  <2> DEFINE S == 1..n
  <2>1. IsFiniteSet(S) /\ (\A i \in S : q[i] \in Int) /\ n \in S
    BY <1>1, <1>2, <1>4
  <2> HIDE DEF S
  <2>2. SumFunctionOnSet(q, S) = q[n] + SumFunctionOnSet(q, S \ {n})
    BY <2>1, SumRemove
  <2> QED BY <2>2 DEF S
<1>6. SumFunctionOnSet(q, 1..(n - 1)) \in Nat
  <2> DEFINE S == 1..(n - 1)
  <2>1. IsFiniteSet(S) /\ \A i \in S : q[i] \in Nat
    BY <1>1, <1>2
  <2> HIDE DEF S
  <2>2. SumFunctionOnSet(q, S) \in Nat
    BY <2>1, SumNat
  <2> QED BY <2>2 DEF S
<1>7. Achieved(option) = q[n] + SumFunctionOnSet(q, 1..(n - 1))
  BY <1>1, <1>3, <1>5
<1>8. total \in Nat \ {0}
  <2>1. q[n] > 0 /\ q[n] \in Nat
    BY <1>1
  <2> QED BY <1>1, <1>6, <1>7, <2>1
<1>9. /\ n \in Nat /\ IsFiniteSet(1..n) /\ IsFiniteSet(1..(n - 1))
      /\ Cardinality(1..n) = n /\ Cardinality(1..(n - 1)) = n - 1
      /\ \A i \in 1..n : q[i] \in Nat
      /\ total \in Nat \ {0}
      /\ Achieved(option) = SumFunctionOnSet(q, 1..n)
      /\ SumFunctionOnSet(q, 1..(n - 1)) \in Int
      /\ Achieved(option) = q[n] + SumFunctionOnSet(q, 1..(n - 1))
  <2>1. SumFunctionOnSet(q, 1..(n - 1)) \in Int
    BY <1>6
  <2> QED BY <1>1, <1>2, <1>3, <1>7, <1>8, <2>1
<1> QED BY <1>9, Zenon DEF q, n

\* The estimates of an offer add up to what it costs, to the rounding of each.
LEMMA OfferEstimates ==
    ASSUME RequestType, NEW total \in Nat, NEW option, IsOffer(option, total), Len(option) > 0
    PROVE  LET n == Len(option)
               estimates == SumFunction([i \in 1..n |-> option[i].estimated_cost])
               error == estimates - (Achieved(option) * price + charges)
               slack == (n - 1) * (Scale + charges) + Scale
           IN  2 * Scale * error <= slack /\ -(2 * Scale * error) <= slack
<1> DEFINE n == Len(option)
           D == 1..(n - 1)
           q == [i \in DOMAIN option |-> option[i].quantity]
           e == [i \in 1..n |-> option[i].estimated_cost]
           w == [i \in 1..n |-> price * q[i]]
           r == [i \in 1..n |-> Round(charges * q[i], total, q[i] \in tips)]
           c == [i \in DOMAIN option |-> ProportionalCharge(option[i].quantity, total)]
           s == [i \in 1..n |-> Scale + charges]
           U == SumFunctionOnSet(q, D)
           R == SumFunctionOnSet(r, D)
           C == SumFunctionOnSet(c, D)
           N == (q[n] * price + charges) * Scale - C
           L == Round(N, Scale, q[n] \in tips)
<1>1. /\ n \in Nat /\ IsFiniteSet(1..n) /\ IsFiniteSet(D)
      /\ Cardinality(D) = n - 1
      /\ \A i \in 1..n : q[i] \in Nat
      /\ total \in Nat \ {0}
      /\ U \in Int
      /\ Achieved(option) = q[n] + U
  BY OfferSums
<1>2. /\ price \in Nat /\ charges \in Nat /\ Scale \in Nat \ {0}
  BY ConstantsAssumption DEF RequestType
<1>3. /\ n > 0 /\ n \in 1..n /\ (1..n) \ {n} = D /\ DOMAIN option = 1..n
      /\ \A i \in D : i \in 1..n /\ i < n
  BY <1>1 DEF IsOffer
<1>4. /\ \A i \in D : e[i] = EstimatedCost(q[i], total)
      /\ e[n] = LastCost(option, total)
  <2>1. \A i \in 1..n : option[i].estimated_cost = IF i < n THEN EstimatedCost(option[i].quantity, total)
                                                  ELSE LastCost(option, total)
    BY Zenon DEF IsOffer
  <2>2. \A i \in 1..n : e[i] = option[i].estimated_cost /\ q[i] = option[i].quantity
    BY <1>3
  <2>3. ~(n < n)
    BY <1>1
  <2> HIDE DEF e, q, n, D
  <2> QED BY <1>3, <2>1, <2>2, <2>3
<1>5. ASSUME NEW i \in 1..n
      PROVE  /\ r[i] \in Int /\ c[i] \in Int /\ s[i] \in Int
             /\ (2 * Scale) * r[i] <= 2 * c[i] + s[i]
             /\ 2 * c[i] <= (2 * Scale) * r[i] + s[i]
  <2>1. q[i] \in Nat /\ total \in Nat \ {0} /\ s[i] = Scale + charges
    BY <1>1
  <2>2. r[i] = Round(charges * q[i], total, q[i] \in tips) /\ c[i] = ProportionalCharge(q[i], total)
    BY <1>3
  <2> HIDE DEF r, c, q, s
  <2> DEFINE p == q[i]
             rr == Round(charges * p, total, p \in tips)
             cc == ProportionalCharge(p, total)
  <2>3. /\ rr \in Int /\ cc \in Int
        /\ (2 * Scale) * rr <= 2 * cc + (Scale + charges)
        /\ 2 * cc <= (2 * Scale) * rr + (Scale + charges)
    <3>1. p \in Nat
      BY <2>1
    <3> HIDE DEF p
    <3> QED BY <2>1, <3>1, EstimateError
  <2>4. r[i] = rr /\ c[i] = cc
    BY <2>2
  <2> HIDE DEF rr, cc, p
  <2> QED BY <1>2, <2>1, <2>3, <2>4
<1>6. \A i \in D : e[i] = w[i] + r[i] /\ w[i] \in Int /\ w[i] = price * q[i] /\ q[i] \in Int
  <2> SUFFICES ASSUME NEW i \in D
               PROVE  e[i] = w[i] + r[i] /\ w[i] \in Int /\ w[i] = price * q[i] /\ q[i] \in Int
    OBVIOUS
  <2>1. i \in 1..n /\ q[i] \in Nat
    BY <1>1, <1>3
  <2>2. w[i] = price * q[i] /\ r[i] = Round(charges * q[i], total, q[i] \in tips)
    BY <2>1
  <2>3. e[i] = q[i] * price + Round(charges * q[i], total, q[i] \in tips)
    BY <1>4 DEF EstimatedCost
  <2> HIDE DEF w, r, e, q
  <2> QED BY <1>2, <2>1, <2>2, <2>3
<1>7. L = LastCost(option, total)
  <2>1. option[n].quantity = q[n]
    BY <1>3
  <2>2. LastCost(option, total) =
           Round((option[n].quantity * price + charges) * Scale - C, Scale,
                 option[n].quantity \in tips)
    BY Zenon DEF LastCost
  <2> HIDE DEF q, C
  <2> QED BY <2>1, <2>2
<1>8. s = [i \in 1..n |-> Scale + charges]
  OBVIOUS
<1> HIDE DEF n, D, q, e, w, r, c, s
<1>9. /\ R \in Int /\ C \in Int
      /\ SumFunctionOnSet(w, D) = price * U
      /\ SumFunctionOnSet(e, D) = price * U + R
  <2>1. \A i \in D : w[i] \in Int /\ r[i] \in Int /\ c[i] \in Int /\ e[i] = w[i] + r[i]
    BY <1>3, <1>5, <1>6
  <2>2. R \in Int /\ C \in Int
    BY <1>1, <2>1, SumInt
  <2>3. SumFunctionOnSet(w, D) = price * SumFunctionOnSet(q, D)
    <3>1. price \in Int /\ \A i \in D : q[i] \in Int /\ w[i] \in Int /\ w[i] = price * q[i]
      BY <1>2, <1>6
    <3> QED BY <1>1, <3>1, SumScaled
  <2>4. SumFunctionOnSet(e, D) = SumFunctionOnSet(w, D) + SumFunctionOnSet(r, D)
    BY <1>1, <2>1, SumPlus
  <2> QED BY <2>2, <2>3, <2>4
<1>10. /\ (2 * Scale) * R <= 2 * C + (Scale + charges) * (n - 1)
       /\ 2 * C <= (2 * Scale) * R + (Scale + charges) * (n - 1)
  <2> DEFINE k == Scale + charges
             d == 2 * Scale
  <2>1. k \in Int /\ d \in Int /\ 2 \in Int
    BY <1>2
  <2>2. SumFunctionOnSet(s, D) = k * Cardinality(D)
    <3>1. \A i \in D : s[i] = k
      BY <1>3, <1>8
    <3> HIDE DEF k
    <3> QED BY <1>1, <2>1, <3>1, SumConstant
  <2>3. /\ \A i \in D : /\ r[i] \in Int /\ c[i] \in Int /\ s[i] \in Int
                        /\ d * r[i] <= 2 * c[i] + s[i]
        /\ \A i \in D : /\ c[i] \in Int /\ r[i] \in Int /\ s[i] \in Int
                        /\ 2 * c[i] <= d * r[i] + s[i]
    BY <1>3, <1>5
  <2> HIDE DEF k, d
  <2>4. d * R <= 2 * C + SumFunctionOnSet(s, D)
    BY <1>1, <2>1, <2>3, SumBound
  <2>5. 2 * C <= d * R + SumFunctionOnSet(s, D)
    BY <1>1, <2>1, <2>3, SumBound
  <2> QED BY <1>1, <2>2, <2>4, <2>5 DEF k, d
<1>11. /\ L \in Int /\ N \in Int /\ 2 * (L * Scale - N) <= Scale /\ 2 * (N - L * Scale) <= Scale
  <2>1. N \in Int
    <3>1. q[n] \in Nat
      BY <1>1, <1>3
    <3> HIDE DEF C
    <3> QED BY <1>2, <1>9, <3>1
  <2> HIDE DEF N
  <2> QED BY <1>2, <2>1, RoundNearest
<1>12. SumFunctionOnSet(e, 1..n) = L + (price * U + R)
  <2> DEFINE S == 1..n
  <2>1. \A i \in S : e[i] \in Int
    <3>1. \A i \in S : i = n \/ i \in D
      BY <1>3
    <3>2. e[n] \in Int
      BY <1>4, <1>7, <1>11
    <3>3. \A i \in D : e[i] \in Int
      <4>1. \A i \in D : w[i] \in Int /\ r[i] \in Int
        BY <1>3, <1>5, <1>6
      <4>2. \A i \in D : e[i] = w[i] + r[i]
        BY <1>6
      <4> QED BY <4>1, <4>2
    <3> QED BY <3>1, <3>2, <3>3
  <2>2. IsFiniteSet(S) /\ n \in S /\ S \ {n} = D
    BY <1>1, <1>3
  <2> HIDE DEF S
  <2>3. SumFunctionOnSet(e, S) = e[n] + SumFunctionOnSet(e, S \ {n})
    BY <2>1, <2>2, SumRemove
  <2> QED BY <1>4, <1>7, <1>9, <2>2, <2>3 DEF S
<1> DEFINE A == Achieved(option)
           cost == q[n] * price + charges
           error == SumFunctionOnSet(e, 1..n) - (A * price + charges)
<1>13. /\ q[n] \in Int /\ cost \in Int /\ q[n] * price \in Int
  BY <1>1, <1>2, <1>3
<1>14. error = L + R - cost
  <2>1. A * price = q[n] * price + price * U
    <3> HIDE DEF U
    <3> QED BY <1>1, <1>2, <1>13
  <2>2. price * U \in Int
    <3> HIDE DEF U
    <3> QED BY <1>1, <1>2
  <2> DEFINE pu == price * U
             qp == q[n] * price
             ap == A * price
             sum == SumFunctionOnSet(e, 1..n)
  <2>3. /\ sum = L + (pu + R) /\ ap = qp + pu /\ pu \in Int /\ qp \in Int /\ L \in Int /\ R \in Int
        /\ charges \in Int
    BY <1>2, <1>9, <1>11, <1>12, <1>13, <2>1, <2>2
  <2>4. error = sum - (ap + charges) /\ cost = qp + charges
    OBVIOUS
  <2> HIDE DEF U, R, L, A, pu, qp, ap, sum, error, cost
  <2> QED BY <2>3, <2>4
<1>15. N = cost * Scale - C
  OBVIOUS
<1> HIDE DEF U, R, L, C, N, A, cost, error
<1>16. 2 * Scale * error = (2 * Scale) * R + 2 * (L * Scale) - 2 * (cost * Scale)
  BY <1>2, <1>9, <1>11, <1>13, <1>14
<1>17. /\ (2 * Scale) * R \in Int /\ L * Scale \in Int /\ cost * Scale \in Int
       /\ (Scale + charges) * (n - 1) \in Int /\ Scale \in Int
       /\ (Scale + charges) * (n - 1) = (n - 1) * (Scale + charges)
  BY <1>1, <1>2, <1>9, <1>11, <1>13
<1>18. /\ 2 * Scale * error <= (n - 1) * (Scale + charges) + Scale
       /\ -(2 * Scale * error) <= (n - 1) * (Scale + charges) + Scale
  <2> DEFINE x == (2 * Scale) * R
             y == L * Scale
             z == cost * Scale
             k == (n - 1) * (Scale + charges)
             error_ == 2 * Scale * error
  <2>1. /\ x \in Int /\ y \in Int /\ z \in Int /\ k \in Int /\ C \in Int /\ N \in Int /\ Scale \in Int
        /\ x <= 2 * C + k /\ 2 * C <= x + k
        /\ 2 * (y - N) <= Scale /\ 2 * (N - y) <= Scale
        /\ N = z - C /\ error_ = x + 2 * y - 2 * z
    BY <1>9, <1>10, <1>11, <1>15, <1>16, <1>17
  <2> HIDE DEF x, y, z, k, error_
  <2>2. error_ <= k + Scale /\ -error_ <= k + Scale
    BY <2>1
  <2> QED BY <2>2 DEF error_, k
<1>19. SumFunction([i \in 1..n |-> option[i].estimated_cost]) = SumFunctionOnSet(e, 1..n)
  BY DEF SumFunction, e
<1> QED BY <1>18, <1>19, Zenon DEF error, A, n

\* An offer of all that was asked for costs its users what they can pay.
LEMMA OfferPayable ==
    ASSUME RequestType, NEW total \in Nat, NEW option, IsOffer(option, total),
           Achieved(option) = total, NEW i \in 1..Len(option)
    PROVE  2 * (BuyCost(option, i) - balance[option[i].user])
              <= IF i = Len(option) THEN Len(option) ELSE 0
<1> DEFINE n == Len(option)
           D == 1..(n - 1)
           q == [j \in DOMAIN option |-> option[j].quantity]
           r == [j \in DOMAIN option |->
                    Round(charges * option[j].quantity, Achieved(option),
                          option[j].quantity \in tips)]
           h == [j \in 1..n |-> total]
           R == SumFunctionOnSet(r, D)
           b == balance[option[i].user]
<1>1. Len(option) > 0
  BY DEF IsOffer
<1>2. /\ n \in Nat /\ IsFiniteSet(1..n) /\ IsFiniteSet(D)
      /\ Cardinality(1..n) = n
      /\ \A j \in 1..n : q[j] \in Nat
      /\ total \in Nat \ {0}
      /\ Achieved(option) = SumFunctionOnSet(q, 1..n)
  BY <1>1, OfferSums
<1>3. /\ price \in Nat /\ charges \in Nat
  BY DEF RequestType
<1>4. /\ n > 0 /\ n \in 1..n /\ (1..n) \ {n} = D /\ DOMAIN option = 1..n
      /\ \A j \in D : j \in 1..n
  BY <1>1, <1>2 DEF IsOffer
<1>5. ASSUME NEW j \in 1..n
      PROVE  /\ r[j] \in Int /\ q[j] \in Int /\ h[j] \in Int
             /\ (2 * charges) * q[j] <= (2 * total) * r[j] + h[j]
  <2> DEFINE x == q[j]
             up == x \in tips
             m == charges * x
             k == Round(m, total, up)
  <2>1. x \in Nat /\ h[j] = total
    BY <1>2
  <2>2. r[j] = k
    BY <1>4
  <2> HIDE DEF x, r, q, h, up
  <2>3. m \in Int /\ m = charges * x
    BY <1>3, <2>1
  <2> HIDE DEF m
  <2>4. k \in Int /\ 2 * (m - k * total) <= total
    BY <1>2, <2>3, RoundNearest
  <2> HIDE DEF k
  <2>5. (2 * charges) * x = 2 * m /\ (2 * total) * k = 2 * (k * total) /\ k * total \in Int
    BY <1>2, <1>3, <2>1, <2>3, <2>4
  <2>6. (2 * charges) * x <= (2 * total) * k + total
    <3> DEFINE y == k * total
    <3>1. /\ y \in Int /\ total \in Int /\ 2 * (m - y) <= total
          /\ (2 * charges) * x = 2 * m /\ (2 * total) * k = 2 * y
      BY <1>2, <2>4, <2>5
    <3> HIDE DEF y
    <3>2. 2 * m <= 2 * y + total
      BY <2>3, <3>1
    <3> QED BY <3>1, <3>2
  <2>7. x \in Int /\ k \in Int /\ h[j] \in Int
    BY <1>2, <2>1, <2>4
  <2>8. (2 * charges) * x <= (2 * total) * k + h[j]
    BY <2>1, <2>6
  <2> QED BY <2>2, <2>7, <2>8 DEF x
<1>6. /\ option[i].user \in Candidates /\ q[i] \in Nat
      /\ CanAfford(option[i].user, q[i], total)
      /\ q[i] = option[i].quantity
  <2>1. /\ option[i].user \in Candidates /\ option[i].quantity \in Nat
        /\ CanAfford(option[i].user, option[i].quantity, total)
    BY DEF IsOffer
  <2> QED BY <1>4, <2>1
<1>7. b \in Nat
  BY <1>6 DEF RequestType
<1>8. q[i] * price + r[i] <= b
  <2>1. r[i] = Round(charges * q[i], total, q[i] \in tips)
    BY <1>4
  <2> HIDE DEF q, r
  <2> QED BY <1>6, <2>1 DEF CanAfford, EstimatedCost
<1>9. BuyCost(option, i) = q[i] * price + (IF i < n THEN r[i] ELSE charges - R)
  <2>1. BuyCost(option, i) = option[i].quantity * price + (IF i < n THEN r[i] ELSE charges - R)
    BY Zenon DEF BuyCost
  <2> HIDE DEF q, r, R
  <2> QED BY <1>6, <2>1
<1>10. h = [j \in 1..n |-> total]
  OBVIOUS
<1> HIDE DEF n, D, q, r, h, b
<1>11. /\ R \in Int /\ SumFunctionOnSet(r, 1..n) = r[n] + R
  <2> DEFINE S == 1..n
  <2>1. IsFiniteSet(S) /\ n \in S /\ S \ {n} = D /\ IsFiniteSet(D)
    BY <1>2, <1>4
  <2>2. (\A j \in S : r[j] \in Int) /\ (\A j \in D : r[j] \in Int)
    BY <1>4, <1>5
  <2> HIDE DEF S
  <2>3. SumFunctionOnSet(r, S) = r[n] + SumFunctionOnSet(r, S \ {n})
    BY <2>1, <2>2, SumRemove
  <2>4. R \in Int
    BY <2>1, <2>2, SumInt
  <2> QED BY <2>1, <2>3, <2>4 DEF S
<1>12. 2 * charges <= 2 * (r[n] + R) + n
  <2> DEFINE S == 1..n
             x == 2 * charges
             y == 2 * total
             sum == SumFunctionOnSet(r, S)
  <2>1. x \in Int /\ y \in Int /\ total \in Int
    BY <1>2, <1>3
  <2>2. IsFiniteSet(S) /\ \A j \in S : /\ q[j] \in Int /\ r[j] \in Int /\ h[j] \in Int
                                       /\ x * q[j] <= y * r[j] + h[j]
    BY <1>2, <1>5
  <2>3. (\A j \in S : h[j] = total) /\ Cardinality(S) = n
    BY <1>2, <1>10
  <2>4. sum = r[n] + R /\ SumFunctionOnSet(q, S) = total /\ r[n] \in Int
    BY <1>2, <1>4, <1>5, <1>11
  <2> HIDE DEF S, x, y, sum, R
  <2>5. x * SumFunctionOnSet(q, S) <= y * SumFunctionOnSet(r, S) + SumFunctionOnSet(h, S)
    BY <2>1, <2>2, SumBound
  <2>6. SumFunctionOnSet(h, S) = total * Cardinality(S)
    BY <2>1, <2>2, <2>3, SumConstant
  <2>7. x * total <= y * sum + total * n
    BY <2>3, <2>4, <2>5, <2>6 DEF sum
  <2>8. sum \in Int
    BY <1>11, <2>4
  <2>9. total * x <= total * (2 * sum + n)
    <3>1. /\ total * x = x * total
          /\ total * (2 * sum + n) = y * sum + total * n
      BY <1>2, <2>1, <2>8 DEF y
    <3> QED BY <2>7, <3>1
  <2>10. x <= 2 * sum + n
    <3>1. 2 * sum + n \in Int
      BY <1>2, <2>8
    <3> QED BY <1>2, <2>1, <2>9, <3>1, Cancel
  <2> QED BY <2>4, <2>10 DEF x
<1>13. /\ q[i] * price \in Int /\ r[i] \in Int /\ r[n] \in Int /\ i \in Nat /\ i <= n
  BY <1>2, <1>3, <1>4, <1>5, <1>6 DEF n
<1> DEFINE cost == q[i] * price
<1>14. 2 * (BuyCost(option, i) - b) <= IF i = n THEN n ELSE 0
  <2> HIDE DEF R, cost
  <2>1. CASE i < n
    <3>1. BuyCost(option, i) = cost + r[i] /\ cost \in Int /\ cost + r[i] <= b
      BY <1>8, <1>9, <1>13, <2>1 DEF cost
    <3> QED BY <1>2, <1>7, <1>13, <2>1, <3>1
  <2>2. CASE i = n
    <3>1. BuyCost(option, i) = cost + (charges - R) /\ cost \in Int /\ cost + r[n] <= b
      BY <1>2, <1>8, <1>9, <1>13, <2>2 DEF cost
    <3>2. charges \in Int /\ b \in Int /\ n \in Int /\ r[n] \in Int /\ R \in Int
      BY <1>2, <1>3, <1>7, <1>11, <1>13
    <3> QED BY <1>12, <2>2, <3>1, <3>2
  <2> QED BY <1>2, <1>13, <2>1, <2>2
<1> QED BY <1>14 DEF b, n

-------------------------------------------------------------------------------
(* The allocation suggestions: invariant and theorems                          *)

\* What _proportional may answer.
ProportionalOptions ==
    IF TotalBalance = 0 THEN {<<>>} ELSE {ProportionalOption(extra) : extra \in RoundedUp}

\* The options built so far are those of the request, in turn.
OptionsBuilt ==
    \/ options = <<>>
    \/ options = <<MaxDeploymentOption>>
    \/ \E p \in ProportionalOptions :
          \/ options = <<MaxDeploymentOption, p>>
          \/ options = <<MaxDeploymentOption, p, BalancedOption(target)>>
          \/ options = <<MaxDeploymentOption, p, BalancedOption(target),
                         BalancedOption(ReducedTarget)>>

SuggestionInv == RequestType /\ OptionsBuilt

\* What a user can pay and what an option costs depend on the request only.
LEMMA SameEstimates ==
    ASSUME UNCHANGED request
    PROVE  /\ \A u, q, total : CanAfford(u, q, total)' <=> CanAfford(u, q, total)
           /\ \A u, total, cap : MaxAffordable(u, total, cap)' = MaxAffordable(u, total, cap)
           /\ \A list, total : BuildOption(list, total)' = BuildOption(list, total)
<1>1. target' = target /\ price' = price /\ charges' = charges
      /\ balance' = balance /\ tips' = tips
  BY DEF request
<1>2. \A q, total : EstimatedCost(q, total)' = EstimatedCost(q, total)
  BY <1>1, Zenon DEF EstimatedCost
<1>3. \A u, q, total : CanAfford(u, q, total)' <=> CanAfford(u, q, total)
  BY <1>1, <1>2, Zenon DEF CanAfford
<1>4. ASSUME NEW u, NEW total, NEW cap
      PROVE  MaxAffordable(u, total, cap)' = MaxAffordable(u, total, cap)
  BY <1>3, Zenon DEF MaxAffordable
<1>5. \A q, total : ProportionalCharge(q, total)' = ProportionalCharge(q, total)
  BY <1>1, Zenon DEF ProportionalCharge
<1>6. ASSUME NEW list, NEW total PROVE LastCost(list, total)' = LastCost(list, total)
  BY <1>1, <1>5, Zenon DEF LastCost
<1>7. ASSUME NEW list, NEW total PROVE BuildOption(list, total)' = BuildOption(list, total)
  BY <1>2, <1>6, Zenon DEF BuildOption
<1> QED BY <1>3, <1>4, <1>7

\* The options depend on the request only.
LEMMA SameRequest ==
    ASSUME UNCHANGED request
    PROVE  /\ MaxDeploymentOption' = MaxDeploymentOption
           /\ ProportionalOptions' = ProportionalOptions
           /\ BalancedOption(target)' = BalancedOption(target)
           /\ BalancedOption(ReducedTarget)' = BalancedOption(ReducedTarget)
<1>1. target' = target /\ price' = price /\ charges' = charges
      /\ balance' = balance /\ tips' = tips
  BY DEF request
<1>2. /\ \A u, q, total : CanAfford(u, q, total)' <=> CanAfford(u, q, total)
      /\ \A u, total, cap : MaxAffordable(u, total, cap)' = MaxAffordable(u, total, cap)
      /\ \A list, total : BuildOption(list, total)' = BuildOption(list, total)
  BY SameEstimates
<1>3. \A order, total, cap : AssignInTurn(order, total, cap)' = AssignInTurn(order, total, cap)
  <2> SUFFICES ASSUME NEW order, NEW total, NEW cap
               PROVE  AssignInTurn(order, total, cap)' = AssignInTurn(order, total, cap)
    OBVIOUS
  <2>1. \A u, before : Min({MaxAffordable(u, total, cap[before]), before})'
                         = Min({MaxAffordable(u, total, cap[before]), before})
    BY <1>2, Zenon
  <2> DEFINE left_(r) == [k \in 0..Users |->
                            IF k = 0 THEN total
                            ELSE LET before == r[k - 1]
                                 IN  before - Min({MaxAffordable(order[k], total, cap[before]), before})]
             kept == CHOOSE r : r = left_(r)
  <2>2. \A r : left_(r)' = left_(r)
    BY <2>1, Zenon
  <2>3. AssignInTurn(order, total, cap)
           = Assigned(order, [k \in Candidates |-> kept[k - 1] - kept[k]])
    BY Zenon DEF AssignInTurn
  <2>6. AssignInTurn(order, total, cap)'
           = Assigned(order, [k \in Candidates |-> kept[k - 1] - kept[k]])'
    BY Zenon DEF AssignInTurn
  <2>4. kept' = kept
    <3> HIDE DEF left_
    <3> QED BY <2>2, Zenon
  <2> HIDE DEF kept
  <2>5. Assigned(order, [k \in Candidates |-> kept[k - 1] - kept[k]])'
           = Assigned(order, [k \in Candidates |-> kept[k - 1] - kept[k]])
    BY <2>4, Zenon
  <2> QED BY <2>3, <2>5, <2>6
<1>4. LargestFirst' = LargestFirst
  <2>1. \A u, v : Precedes(u, v)' <=> Precedes(u, v)
    BY <1>1, Zenon DEF Precedes
  <2>2. Candidates' = Candidates
    BY Zenon DEF Candidates
  <2> QED BY <2>1, <2>2, Zenon DEF LargestFirst
<1>5. MaxDeploymentOption' = MaxDeploymentOption
  BY <1>1, <1>2, <1>3, <1>4, Zenon DEF MaxDeploymentOption
<1>6. TotalBalance' = TotalBalance
  BY <1>1, Zenon DEF TotalBalance
<1>7. \A u : Floor(u)' = Floor(u) /\ Remainder(u)' = Remainder(u)
  BY <1>1, <1>6, Zenon DEF Floor, Remainder
<1>8. RoundedUp' = RoundedUp
  BY <1>1, <1>7, Zenon DEF RoundedUp
<1>9. \A extra : ProportionalOption(extra)' = ProportionalOption(extra)
  <2> SUFFICES ASSUME NEW extra
               PROVE  ProportionalOption(extra)' = ProportionalOption(extra)
    OBVIOUS
  <2> QED BY <1>1, <1>2, <1>7, Zenon DEF ProportionalOption
<1>10. ProportionalOptions' = ProportionalOptions
  BY <1>6, <1>8, <1>9, Zenon DEF ProportionalOptions
<1>11. \A total : EqualShare(total)' = EqualShare(total)
  BY Zenon DEF EqualShare
<1>12. \A total : BalancedOption(total)' = BalancedOption(total)
  BY <1>2, <1>3, <1>11, Zenon DEF BalancedOption
<1>13. ReducedTarget' = ReducedTarget
  BY <1>1, Zenon DEF ReducedTarget
<1>14. BalancedOption(target)' = BalancedOption(target)
  BY <1>1, <1>12, Zenon
<1>15. BalancedOption(ReducedTarget)' = BalancedOption(ReducedTarget)
  BY <1>12, <1>13, Zenon
<1> QED BY <1>5, <1>10, <1>14, <1>15

\* The invariant holds when a request arrives, and every option built keeps it.
LEMMA SuggestionStep ==
    /\ Init => SuggestionInv
    /\ SuggestionInv /\ [Next]_vars => SuggestionInv'
<1>1. Init => SuggestionInv
  <2> SUFFICES ASSUME Init PROVE SuggestionInv
    OBVIOUS
  <2>1. RequestType
    BY ConstantsAssumption DEF Init, RequestType
  <2>2. OptionsBuilt
    BY DEF Init, OptionsBuilt
  <2> QED BY <2>1, <2>2 DEF SuggestionInv
<1>2. ASSUME SuggestionInv, [Next]_vars PROVE SuggestionInv'
  <2> DEFINE m == MaxDeploymentOption
             b == BalancedOption(target)
             c == BalancedOption(ReducedTarget)
             P == ProportionalOptions
  <2>1. UNCHANGED request
    BY <1>2 DEF Next, MaxDeployment, Proportional, Balanced, Conservative, Build, Done, vars
  <2>2. RequestType'
    BY <1>2, <2>1 DEF SuggestionInv, RequestType, request
  <2>3. m' = m /\ b' = b /\ c' = c /\ P' = P
    BY <2>1, SameRequest
  <2>4. \/ options = <<>>
        \/ options = <<m>>
        \/ \E p \in P : \/ options = <<m, p>>
                        \/ options = <<m, p, b>>
                        \/ options = <<m, p, b, c>>
    BY <1>2 DEF SuggestionInv, OptionsBuilt
  <2>5. \/ UNCHANGED options
        \/ Len(options) = 0 /\ options' = Append(options, m)
        \/ Len(options) = 1 /\ \E p \in P : options' = Append(options, p)
        \/ Len(options) = 2 /\ options' = Append(options, b)
        \/ Len(options) = 3 /\ options' = Append(options, c)
    <3>1. MaxDeployment => Len(options) = 0 /\ options' = Append(options, m)
      BY DEF MaxDeployment, Build
    <3>2. Proportional => Len(options) = 1 /\ \E p \in P : options' = Append(options, p)
      <4>1. CASE TotalBalance = 0 /\ Build(1, <<>>)
        BY <4>1 DEF Build, ProportionalOptions
      <4>2. ASSUME TotalBalance > 0, NEW extra \in RoundedUp, Build(1, ProportionalOption(extra))
            PROVE  Len(options) = 1 /\ \E p \in P : options' = Append(options, p)
        <5>1. ProportionalOption(extra) \in P
          <6>1. TotalBalance # 0
            BY <4>2
          <6> QED BY <4>2, <6>1 DEF ProportionalOptions
        <5> QED BY <4>2, <5>1 DEF Build
      <4> QED BY <4>1, <4>2 DEF Proportional
    <3>3. Balanced => Len(options) = 2 /\ options' = Append(options, b)
      BY DEF Balanced, Build
    <3>4. Conservative => Len(options) = 3 /\ options' = Append(options, c)
      BY DEF Conservative, Build
    <3> HIDE DEF m, b, c, P
    <3> QED BY <1>2, <3>1, <3>2, <3>3, <3>4 DEF Next, Done, vars
  <2> DEFINE Built_ == \/ options' = <<>>
                       \/ options' = <<m>>
                       \/ \E p \in P : \/ options' = <<m, p>>
                                       \/ options' = <<m, p, b>>
                                       \/ options' = <<m, p, b, c>>
  <2>6. Built_
    <3> HIDE DEF m, b, c, P
    <3>1. CASE options = <<>>
      BY <2>5, <3>1
    <3>2. CASE options = <<m>>
      BY <2>5, <3>2
    <3>3. ASSUME NEW p \in P, options = <<m, p>> PROVE Built_
      BY <2>5, <3>3
    <3>4. ASSUME NEW p \in P, options = <<m, p, b>> PROVE Built_
      BY <2>5, <3>4
    <3>5. ASSUME NEW p \in P, options = <<m, p, b, c>> PROVE Built_
      BY <2>5, <3>5
    <3> QED BY <2>4, <3>1, <3>2, <3>3, <3>4, <3>5
  <2>7. OptionsBuilt'
    BY <2>3, <2>6 DEF OptionsBuilt
  <2> QED BY <2>2, <2>7 DEF SuggestionInv
<1> QED BY <1>1, <1>2

\* A suggestion stays within its request in every reachable state.
THEOREM SuggestionInvariance == Spec => []SuggestionInv
  BY SuggestionStep, PTL DEF Spec

\* The smaller target of the conservative option: its share of the request, rounded
\* down, or one share.
LEMMA ReducedTargetIs ==
    ASSUME RequestType
    PROVE  /\ ReducedTarget \in Nat \ {0}
           /\ ReducedTarget = 1 \/ 100 * ReducedTarget <= ConservativePercent * target
<1> DEFINE n == target * ConservativePercent
           q == n \div 100
           r == n % 100
<1>1. n \in Nat /\ n = ConservativePercent * target
  BY ConstantsAssumption DEF RequestType
<1>2. q \in Int /\ r \in Int /\ 0 <= r /\ n = 100 * q + r
  <2> HIDE DEF n
  <2>1. n \in Int /\ 100 \in Nat \ {0}
    BY <1>1
  <2> QED BY <2>1, Division
<1>3. ReducedTarget = IF q >= 1 THEN q ELSE 1
  <2>1. ReducedTarget = Max({q, 1})
    BY DEF ReducedTarget
  <2> HIDE DEF q
  <2>2. q \in Int /\ 1 \in Int
    BY <1>2
  <2>3. Max({q, 1}) = IF q >= 1 THEN q ELSE 1
    BY <2>2, OfTwo
  <2> QED BY <2>1, <2>3
<1> HIDE DEF n, q, r
<1> QED BY <1>1, <1>2, <1>3

\* The option of a target, one equal share at a time.
LEMMA BalancedTurns ==
    ASSUME RequestType, NEW total \in Nat
    PROVE  /\ InRequestOrder \in [Candidates -> Candidates]
           /\ EqualShare(total) \in Nat
           /\ EqualShare(total) * Users <= total
           /\ [before \in 0..total |-> EqualShare(total)] \in [0..total -> Nat]
           /\ BalancedOption(total) =
                 BuildOption(AssignInTurn(InRequestOrder, total,
                                          [before \in 0..total |-> EqualShare(total)]), total)
<1> DEFINE q == total \div Users
           r == total % Users
<1>1. Users \in Nat \ {0} /\ total \in Int
  BY ConstantsAssumption
<1>2. q \in Int /\ r \in Int /\ 0 <= r /\ r < Users /\ total = Users * q + r
  BY <1>1, Division
<1>3. EqualShare(total) = q
  BY DEF EqualShare
<1> HIDE DEF q, r
<1>4. q \in Nat /\ q * Users <= total
  <2>1. q <= -1 => Users * q <= -Users
    <3> SUFFICES ASSUME q <= -1 PROVE Users * (-1 - q) >= 0 /\ Users * (-1 - q) = -Users - Users * q
      BY <1>1, <1>2
    <3> QED BY <1>1, <1>2
  <2> QED BY <1>1, <1>2, <2>1
<1>5. [before \in 0..total |-> EqualShare(total)] \in [0..total -> Nat]
  BY <1>3, <1>4
<1>6. InRequestOrder \in [Candidates -> Candidates]
  BY DEF InRequestOrder
<1>7. BalancedOption(total) =
         BuildOption(AssignInTurn(InRequestOrder, total,
                                  [before \in 0..total |-> EqualShare(total)]), total)
  BY Zenon DEF BalancedOption
<1> QED BY <1>3, <1>4, <1>5, <1>6, <1>7

\* Every option is an offer for its target.
LEMMA AllOffers ==
    ASSUME SuggestionInv
    PROVE  \A k \in DOMAIN options :
              /\ k \in 1..4 /\ TargetOf(k) \in Nat
              /\ IsOffer(options[k], TargetOf(k))
<1>1. RequestType /\ target \in Nat /\ ReducedTarget \in Nat
  BY ReducedTargetIs DEF SuggestionInv, RequestType
<1>2. IsOffer(MaxDeploymentOption, target)
  <2>1. [remaining_ \in 0..target |-> remaining_] \in [0..target -> Nat]
    OBVIOUS
  <2>2. IsOffer(BuildOption(AssignInTurn(LargestFirst, target,
                                         [remaining_ \in 0..target |-> remaining_]), target), target)
    BY <1>1, <2>1, LargestFirstSorts, TurnsOffer
  <2> QED BY <2>2, Zenon DEF MaxDeploymentOption
<1>3. \A total \in Nat : IsOffer(BalancedOption(total), total)
  <2> SUFFICES ASSUME NEW total \in Nat PROVE IsOffer(BalancedOption(total), total)
    OBVIOUS
  <2>1. /\ InRequestOrder \in [Candidates -> Candidates]
        /\ [before \in 0..total |-> EqualShare(total)] \in [0..total -> Nat]
        /\ BalancedOption(total) =
              BuildOption(AssignInTurn(InRequestOrder, total,
                                       [before \in 0..total |-> EqualShare(total)]), total)
    BY <1>1, BalancedTurns
  <2> QED BY <1>1, <2>1, TurnsOffer
<1>4. \A p \in ProportionalOptions : IsOffer(p, target)
  <2>1. IsOffer(<<>>, target)
    <3>1. DOMAIN <<>> = 1..0 /\ 1..0 = {} /\ Len(<<>>) = 0
      OBVIOUS
    <3>2. Achieved(<<>>) = 0
      <4>1. DOMAIN <<>> = {}
        BY <3>1
      <4>2. Achieved(<<>>) = SumFunctionOnSet([i \in DOMAIN <<>> |-> <<>>[i].quantity], DOMAIN <<>>)
        BY AchievedSum
      <4> QED BY <4>1, <4>2, SumOfNothing
    <3> QED BY <1>1, <3>1, <3>2 DEF IsOffer
  <2>2. TotalBalance \in Nat
    <3>1. TotalBalance = SumFunctionOnSet(balance, Candidates)
      BY <1>1 DEF RequestType, TotalBalance, SumFunction
    <3>2. IsFiniteSet(Candidates)
      BY ConstantsAssumption, FS_Interval DEF Candidates
    <3>3. \A u \in Candidates : balance[u] \in Nat
      BY <1>1 DEF RequestType
    <3> QED BY <3>1, <3>2, <3>3, SumNat
  <2>3. TotalBalance # 0 => TotalBalance > 0
    BY <2>2
  <2> QED BY <1>1, <2>1, <2>3, ProportionalOffer DEF ProportionalOptions
<1> DEFINE m == MaxDeploymentOption
           b == BalancedOption(target)
           c == BalancedOption(ReducedTarget)
<1>5. \/ options = <<>>
      \/ options = <<m>>
      \/ \E p \in ProportionalOptions : \/ options = <<m, p>>
                                        \/ options = <<m, p, b>>
                                        \/ options = <<m, p, b, c>>
  BY DEF SuggestionInv, OptionsBuilt
<1>6. IsOffer(m, target) /\ IsOffer(b, target) /\ IsOffer(c, ReducedTarget)
  BY <1>1, <1>2, <1>3
<1>7. \A k \in 1..4 : TargetOf(k) = IF k = 4 THEN ReducedTarget ELSE target
  BY DEF TargetOf
<1> HIDE DEF m, b, c
<1>8. ASSUME NEW p \in ProportionalOptions, NEW k \in 1..4
      PROVE  TargetOf(k) \in Nat /\ IsOffer(<<m, p, b, c>>[k], TargetOf(k))
  <2>1. k = 1 \/ k = 2 \/ k = 3 \/ k = 4
    OBVIOUS
  <2> QED BY <1>1, <1>4, <1>6, <1>7, <2>1
<1>9. \A k \in DOMAIN options :
         k \in 1..4 /\ (k = 1 => options[k] = m)
         /\ (k > 1 => \E p \in ProportionalOptions : options[k] = <<m, p, b, c>>[k])
  <2>1. ASSUME NEW p \in ProportionalOptions,
               options = <<m, p>> \/ options = <<m, p, b>> \/ options = <<m, p, b, c>>
        PROVE  \A k \in DOMAIN options : k \in 1..4 /\ options[k] = <<m, p, b, c>>[k]
    BY <2>1
  <2> QED BY <1>5, <2>1
<1>10. SUFFICES ASSUME NEW k \in DOMAIN options
               PROVE  k \in 1..4 /\ TargetOf(k) \in Nat /\ IsOffer(options[k], TargetOf(k))
  OBVIOUS
<1>11. k \in 1..4
  BY <1>9
<1>12. CASE k = 1
  BY <1>1, <1>6, <1>7, <1>9, <1>12
<1>13. CASE k # 1
  <2>1. PICK p \in ProportionalOptions : options[k] = <<m, p, b, c>>[k]
    BY <1>9, <1>11, <1>13
  <2> QED BY <1>8, <1>11, <2>1
<1> QED BY <1>12, <1>13

\* No option deploys more than was asked for.
THEOREM StaysWithinTarget == Spec => []WithinTarget
<1>1. SuggestionInv => WithinTarget
  <2> SUFFICES ASSUME SuggestionInv, NEW k \in DOMAIN options
               PROVE  IF k < 4 THEN Achieved(options[k]) <= target
                      ELSE \/ Achieved(options[k]) <= 1
                           \/ 100 * Achieved(options[k]) <= ConservativePercent * target
    BY DEF WithinTarget
  <2>1. /\ k \in 1..4
        /\ Achieved(options[k]) \in Nat /\ Achieved(options[k]) <= TargetOf(k)
    BY AllOffers DEF IsOffer
  <2>2. /\ target \in Nat /\ ReducedTarget \in Nat \ {0}
        /\ ReducedTarget = 1 \/ 100 * ReducedTarget <= ConservativePercent * target
    BY ReducedTargetIs DEF SuggestionInv, RequestType
  <2>3. ConservativePercent * target \in Nat
    BY <2>2, ConstantsAssumption
  <2> QED BY <2>1, <2>2, <2>3 DEF TargetOf
<1> QED BY <1>1, SuggestionInvariance, PTL

\* The estimates of an option add up to what it costs, to the rounding of each share.
THEOREM EstimatesAddUp == Spec => []EstimatesCoverTheTrade
<1>1. SuggestionInv => EstimatesCoverTheTrade
  <2> SUFFICES ASSUME SuggestionInv, NEW k \in DOMAIN options, Len(options[k]) > 0
               PROVE  LET n == Len(options[k])
                          estimates == SumFunction([i \in 1..n |-> options[k][i].estimated_cost])
                          error == estimates - (Achieved(options[k]) * price + charges)
                          slack == (n - 1) * (Scale + charges) + Scale
                      IN  2 * Scale * error <= slack /\ -(2 * Scale * error) <= slack
    BY Zenon DEF EstimatesCoverTheTrade
  <2>1. RequestType /\ TargetOf(k) \in Nat /\ IsOffer(options[k], TargetOf(k))
    BY AllOffers DEF SuggestionInv
  <2> DEFINE option == options[k]
             total == TargetOf(k)
  <2>2. Len(option) > 0 /\ total \in Nat /\ IsOffer(option, total)
    BY <2>1
  <2> HIDE DEF option, total
  <2>3. LET n == Len(option)
            estimates == SumFunction([i \in 1..n |-> option[i].estimated_cost])
            error == estimates - (Achieved(option) * price + charges)
            slack == (n - 1) * (Scale + charges) + Scale
        IN  2 * Scale * error <= slack /\ -(2 * Scale * error) <= slack
    BY <2>1, <2>2, OfferEstimates
  <2> QED BY <2>3 DEF option
<1> QED BY <1>1, SuggestionInvariance, PTL

\* Who is offered shares of an option that reaches its target can pay for them.
THEOREM OffersArePayable == Spec => []FullDeploymentIsPayable
<1>1. SuggestionInv => FullDeploymentIsPayable
  <2> SUFFICES ASSUME SuggestionInv, NEW k \in DOMAIN options,
                      Achieved(options[k]) = TargetOf(k), NEW i \in 1..Len(options[k])
               PROVE  2 * (BuyCost(options[k], i) - balance[options[k][i].user]) <=
                         IF i = Len(options[k]) THEN Len(options[k]) ELSE 0
    BY Zenon DEF FullDeploymentIsPayable
  <2>1. RequestType /\ TargetOf(k) \in Nat /\ IsOffer(options[k], TargetOf(k))
    BY AllOffers DEF SuggestionInv
  <2> QED BY <2>1, OfferPayable
<1> QED BY <1>1, SuggestionInvariance, PTL

\* In the request's order a user's shares are the quantity it is assigned.
LEMMA SharesAssigned ==
    ASSUME NEW quantity \in [Candidates -> Nat], NEW total, NEW u \in Candidates
    PROVE  Shares(BuildOption(Assigned(InRequestOrder, quantity), total))[u] = quantity[u]
<1> DEFINE list == Assigned(InRequestOrder, quantity)
           option == BuildOption(list, total)
           f == Quantities(option)
<1>0. Users \in Nat /\ Candidates = 1..Users
  BY ConstantsAssumption DEF Candidates
<1>1. InRequestOrder \in [Candidates -> Candidates] /\ \A k \in Candidates : InRequestOrder[k] = k
  BY DEF InRequestOrder
<1>2. PICK at : IsListing(list, at, InRequestOrder, quantity, Users)
  BY <1>1, AssignedLists
<1> HIDE DEF list
<1>3. list \in Seq(Share) /\ Len(list) \in Nat
  BY <1>2, LenProperties DEF IsListing
<1>4. /\ DOMAIN option = 1..Len(list)
      /\ \A i \in 1..Len(list) :
            option[i] = [user |-> list[i].user, quantity |-> list[i].quantity,
                         estimated_cost |-> IF i < Len(list)
                                            THEN EstimatedCost(list[i].quantity, total)
                                            ELSE LastCost(list, total)]
  BY <1>3, Built
<1> DEFINE S == {i \in DOMAIN option : option[i].user = u}
<1>5. Shares(option)[u] = SumFunctionOnSet(f, S)
  BY DEF Shares
<1> HIDE DEF option
<1>6. \A i \in 1..Len(list) :
         /\ at[i] \in Candidates /\ quantity[at[i]] > 0
         /\ option[i].user = at[i] /\ f[i] = quantity[at[i]]
  <2> SUFFICES ASSUME NEW i \in 1..Len(list)
               PROVE  /\ at[i] \in Candidates /\ quantity[at[i]] > 0
                      /\ option[i].user = at[i] /\ f[i] = quantity[at[i]]
    OBVIOUS
  <2>1. /\ at[i] \in Candidates /\ quantity[at[i]] > 0
        /\ list[i] = [user |-> InRequestOrder[at[i]], quantity |-> quantity[at[i]]]
    BY <1>0, <1>2 DEF IsListing
  <2>2. option[i].user = at[i] /\ option[i].quantity = quantity[at[i]]
    BY <1>1, <1>4, <2>1
  <2>3. f[i] = option[i].quantity
    BY <1>4 DEF Quantities
  <2> QED BY <2>1, <2>2, <2>3
<1> HIDE DEF f
<1>7. S = {i \in 1..Len(list) : at[i] = u}
  BY <1>4, <1>6
<1>8. Shares(option)[u] = quantity[u]
  <2>1. CASE quantity[u] > 0
    <3>1. PICK i \in 1..Len(list) : at[i] = u
      BY <1>0, <1>2, <2>1 DEF IsListing
    <3>2. S = {i}
      <4>1. \A j \in 1..Len(list) : at[j] = u => j = i
        BY <1>2, <3>1 DEF IsListing
      <4> QED BY <1>7, <3>1, <4>1
    <3>3. f[i] = quantity[u] /\ quantity[u] \in Int
      BY <1>6, <3>1
    <3>4. SumFunctionOnSet(f, {i}) = quantity[u] * Cardinality({i})
      BY <3>3, FS_Singleton, SumConstant
    <3>5. Cardinality({i}) = 1
      BY FS_Singleton
    <3>6. SumFunctionOnSet(f, {i}) = quantity[u]
      BY <3>3, <3>4, <3>5
    <3> QED BY <1>5, <3>2, <3>6
  <2>2. CASE ~(quantity[u] > 0)
    <3>1. S = {}
      BY <1>6, <1>7, <2>2
    <3>2. quantity[u] = 0
      BY <2>2
    <3> QED BY <1>5, <3>1, <3>2, SumOfNothing
  <2> QED BY <2>1, <2>2
<1> QED BY <1>8 DEF option, list

\* What remains under a cap that is the same in every turn.
LEMMA CapLeaves ==
    ASSUME NEW rem, NEW order, NEW total \in Nat, NEW c \in Nat,
           TakesTurns(rem, order, total, [before \in 0..total |-> c]), NEW n \in 0..Users
    PROVE  rem[n] \in Int /\ rem[n] >= total - n * c
<1> DEFINE T == {i \in 0..Users : rem[i] >= total - i * c}
<1>0. Users \in Nat /\ Candidates = 1..Users
  BY ConstantsAssumption DEF Candidates
<1>1. /\ rem[0] = total /\ \A k \in 0..Users : rem[k] \in Int
      /\ \A k \in Candidates : rem[k - 1] \in 0..total /\ rem[k - 1] - rem[k] <= c
  BY DEF TakesTurns
<1>2. 0 \in T
  BY <1>0, <1>1
<1>3. ASSUME NEW i \in 0..Users, i \in T, i < Users PROVE i + 1 \in T
  <2>1. i + 1 \in Candidates /\ (i + 1) - 1 = i /\ i \in Int /\ i + 1 \in 0..Users
    BY <1>0, <1>3
  <2>2. rem[i] - rem[i + 1] <= c /\ rem[i] \in Int /\ rem[i + 1] \in Int
    BY <1>1, <2>1
  <2>3. rem[i] >= total - i * c /\ (i + 1) * c = i * c + c /\ i * c \in Int
    BY <1>3, <2>1
  <2>4. rem[i + 1] >= total - (i + 1) * c
    <3> DEFINE x == i * c
               y == (i + 1) * c
    <3>1. x \in Int /\ y = x + c /\ rem[i] >= total - x
      BY <2>3
    <3> HIDE DEF x, y
    <3>2. rem[i + 1] >= total - y
      BY <2>2, <3>1
    <3> QED BY <3>2 DEF y
  <2> QED BY <2>1, <2>4
<1>4. \A i \in 0..Users : i \in T
  <2> HIDE DEF T
  <2> QED BY <1>0, <1>2, <1>3, CountUp
<1> QED BY <1>1, <1>4

\* Nobody is given less than another whom a share more would not have cost too much.
LEMMA BalancedEven ==
    ASSUME RequestType, NEW total \in Nat, NEW u \in Candidates, NEW v \in Candidates,
           Shares(BalancedOption(total))[u] < Shares(BalancedOption(total))[v]
    PROVE  ~CanAfford(u, Shares(BalancedOption(total))[u] + 1, total)
<1> DEFINE c == EqualShare(total)
           cap == [before \in 0..total |-> c]
           shares == Shares(BalancedOption(total))
<1>0. Users \in Nat \ {0} /\ Candidates = 1..Users
  BY ConstantsAssumption DEF Candidates
<1>1. /\ InRequestOrder \in [Candidates -> Candidates]
      /\ c \in Nat /\ c * Users <= total /\ cap \in [0..total -> Nat]
      /\ BalancedOption(total) = BuildOption(AssignInTurn(InRequestOrder, total, cap), total)
  BY BalancedTurns
<1> HIDE DEF c
<1>2. PICK rem : LET quantity == [k \in Candidates |-> rem[k - 1] - rem[k]]
                     option   == BuildOption(AssignInTurn(InRequestOrder, total, cap), total)
                 IN  /\ TakesTurns(rem, InRequestOrder, total, cap)
                     /\ AssignInTurn(InRequestOrder, total, cap) = Assigned(InRequestOrder, quantity)
                     /\ quantity \in [Candidates -> 0..total]
                     /\ IsOffer(option, total)
                     /\ Achieved(option) = total - rem[Users]
                     /\ SumFunctionOnSet(quantity, Candidates) = total - rem[Users]
  BY <1>1, TurnsOffer
<1> DEFINE quantity == [k \in Candidates |-> rem[k - 1] - rem[k]]
<1>3. /\ TakesTurns(rem, InRequestOrder, total, cap)
      /\ quantity \in [Candidates -> Nat]
      /\ BalancedOption(total) = BuildOption(Assigned(InRequestOrder, quantity), total)
  BY <1>1, <1>2
<1>4. shares[u] = quantity[u] /\ shares[v] = quantity[v]
  <2> HIDE DEF quantity
  <2> QED BY <1>3, SharesAssigned
<1>5. \A k \in Candidates :
         /\ InRequestOrder[k] = k
         /\ rem[k - 1] \in 0..total /\ rem[k] \in 0..rem[k - 1]
         /\ quantity[k] = rem[k - 1] - rem[k] /\ quantity[k] <= c
         /\ rem[k] > 0 => \A p \in 1..c : CanAfford(k, p, total) => p <= quantity[k]
  <2> SUFFICES ASSUME NEW k \in Candidates
               PROVE  /\ InRequestOrder[k] = k
                      /\ rem[k - 1] \in 0..total /\ rem[k] \in 0..rem[k - 1]
                      /\ quantity[k] = rem[k - 1] - rem[k] /\ quantity[k] <= c
                      /\ rem[k] > 0 => \A p \in 1..c : CanAfford(k, p, total) => p <= quantity[k]
    OBVIOUS
  <2>1. InRequestOrder[k] = k
    BY DEF InRequestOrder
  <2>2. rem[k - 1] \in 0..total /\ rem[k] \in 0..rem[k - 1]
    BY <1>3 DEF TakesTurns
  <2>3. cap[rem[k - 1]] = c
    BY <2>2
  <2>4. /\ rem[k - 1] - rem[k] <= c
        /\ rem[k] > 0 => \A p \in 1..c : CanAfford(k, p, total) => p <= rem[k - 1] - rem[k]
    BY <1>3, <2>1, <2>3 DEF TakesTurns
  <2> QED BY <2>1, <2>2, <2>4
<1>6. quantity[u] \in Nat /\ quantity[u] < quantity[v] /\ quantity[v] <= c
  BY <1>3, <1>4, <1>5
<1>7. rem[u] > 0
  <2>1. u - 1 \in 0..Users /\ u - 1 \in Int /\ u - 1 <= Users - 1
    BY <1>0
  <2>2. rem[u - 1] \in Int /\ rem[u - 1] >= total - (u - 1) * c
    BY <1>1, <1>3, <2>1, CapLeaves
  <2>3. (u - 1) * c <= (Users - 1) * c /\ (Users - 1) * c = c * Users - c
    <3>1. (Users - 1) * c - (u - 1) * c = (Users - u) * c /\ (Users - u) * c >= 0
      BY <1>0, <1>1, <2>1
    <3> QED BY <1>0, <1>1, <2>1, <3>1
  <2>4. rem[u - 1] >= c
    <3> DEFINE x == (u - 1) * c
               y == c * Users
    <3>1. x \in Int /\ y \in Int /\ x <= y - c /\ y <= total /\ rem[u - 1] >= total - x
      BY <1>0, <1>1, <2>1, <2>2, <2>3
    <3> HIDE DEF x, y
    <3> QED BY <1>1, <2>2, <3>1
  <2> HIDE DEF quantity
  <2> QED BY <1>1, <1>5, <1>6, <2>2, <2>4
<1>8. quantity[u] + 1 \in 1..c /\ ~(quantity[u] + 1 <= quantity[u])
  <2> HIDE DEF quantity
  <2> QED BY <1>1, <1>3, <1>6
<1>9. ~CanAfford(u, quantity[u] + 1, total)
  <2> HIDE DEF quantity
  <2> QED BY <1>5, <1>7, <1>8
<1> QED BY <1>4, <1>9

\* The balanced and the conservative options are as even as cash allows.
THEOREM BalancedOptionsEven == Spec => []BalancedIsEven
<1>1. SuggestionInv => BalancedIsEven
  <2> SUFFICES ASSUME SuggestionInv, Len(options) = 4, NEW k \in {3, 4},
                      NEW u \in Candidates, NEW v \in Candidates,
                      Shares(options[k])[u] < Shares(options[k])[v]
               PROVE  ~CanAfford(u, Shares(options[k])[u] + 1, TargetOf(k))
    BY Zenon DEF BalancedIsEven
  <2> DEFINE m == MaxDeploymentOption
             b == BalancedOption(target)
             c == BalancedOption(ReducedTarget)
  <2>1. RequestType /\ target \in Nat /\ ReducedTarget \in Nat
    BY ReducedTargetIs DEF SuggestionInv, RequestType
  <2>2. \/ options = <<>>
        \/ options = <<m>>
        \/ \E p \in ProportionalOptions : \/ options = <<m, p>>
                                          \/ options = <<m, p, b>>
                                          \/ options = <<m, p, b, c>>
    BY DEF SuggestionInv, OptionsBuilt
  <2>3. options[3] = b /\ options[4] = c
    <3> HIDE DEF m, b, c
    <3>1. /\ Len(<<>>) = 0 /\ Len(<<m>>) = 1
          /\ \A p : Len(<<m, p>>) = 2 /\ Len(<<m, p, b>>) = 3
      OBVIOUS
    <3>2. options # <<>> /\ options # <<m>>
      BY <3>1
    <3>3. PICK p \in ProportionalOptions :
             options = <<m, p>> \/ options = <<m, p, b>> \/ options = <<m, p, b, c>>
      BY <2>2, <3>2
    <3>4. options # <<m, p>> /\ options # <<m, p, b>>
      BY <3>1
    <3> QED BY <3>3, <3>4
  <2>4. options[k] = BalancedOption(TargetOf(k)) /\ TargetOf(k) \in Nat
    BY <2>1, <2>3 DEF TargetOf
  <2> QED BY <2>1, <2>4, BalancedEven
<1> QED BY <1>1, SuggestionInvariance, PTL

\* The turns with all that remains as the cap.
AllRemaining(total) == [before \in 0..total |-> before]

\* What remains falls from turn to turn.
LEMMA RemainingFalls ==
    ASSUME NEW rem, NEW order, NEW total \in Nat, NEW cap, TakesTurns(rem, order, total, cap),
           NEW j \in 0..Users, NEW k \in 0..Users, j <= k
    PROVE  rem[j] \in Nat /\ rem[k] \in Nat /\ rem[k] <= rem[j] /\ rem[j] <= total
<1> DEFINE T == {i \in 0..Users : j <= i => rem[i] <= rem[j]}
<1>0. Users \in Nat /\ Candidates = 1..Users
  BY ConstantsAssumption DEF Candidates
<1>1. /\ \A i \in 0..Users : rem[i] \in Nat /\ rem[i] <= total
      /\ \A i \in Candidates : rem[i] <= rem[i - 1]
  BY DEF TakesTurns
<1>2. 0 \in T
  <2>1. j <= 0 => j = 0
    OBVIOUS
  <2>2. rem[j] \in Nat
    BY <1>1
  <2> QED BY <1>0, <2>1, <2>2
<1>3. ASSUME NEW i \in 0..Users, i \in T, i < Users PROVE i + 1 \in T
  <2>1. i + 1 \in Candidates /\ (i + 1) - 1 = i /\ i + 1 \in 0..Users /\ i \in Int /\ j \in Int
    BY <1>0, <1>3
  <2>2. rem[i + 1] <= rem[i] /\ rem[i] \in Int /\ rem[i + 1] \in Int /\ rem[j] \in Int
    BY <1>1, <2>1
  <2>3. j <= i => rem[i] <= rem[j]
    BY <1>3
  <2>4. j <= i + 1 => rem[i + 1] <= rem[j]
    <3>1. CASE j = i + 1
      BY <2>2, <3>1
    <3>2. CASE j # i + 1
      BY <2>1, <2>2, <2>3, <3>2
    <3> QED BY <3>1, <3>2
  <2> QED BY <2>1, <2>4
<1>4. \A i \in 0..Users : i \in T
  <2> HIDE DEF T
  <2> QED BY <1>0, <1>2, <1>3, CountUp
<1> QED BY <1>1, <1>4

\* While shares remain a user has been assigned the most it affords.
LEMMA TakesMost ==
    ASSUME RequestType, NEW order \in [Candidates -> Candidates], NEW total \in Nat, NEW rem,
           TakesTurns(rem, order, total, AllRemaining(total)),
           NEW k \in Candidates, rem[k] > 0, NEW p \in Nat, CanAfford(order[k], p, total)
    PROVE  p <= rem[k - 1] - rem[k]
<1> DEFINE r == rem[k - 1]
           q == rem[k - 1] - rem[k]
<1>1. r \in 0..total /\ rem[k] \in 0..r
  BY DEF TakesTurns
<1>2. AllRemaining(total)[r] = r
  BY <1>1 DEF AllRemaining
<1>3. \A x \in 1..r : CanAfford(order[k], x, total) => x <= q
  BY <1>2 DEF TakesTurns
<1> HIDE DEF r
<1>4. q = r - rem[k]
  BY DEF r
<1> HIDE DEF q
<1>5. p > 0
  BY DEF CanAfford
<1>6. CASE p <= r
  BY <1>1, <1>3, <1>5, <1>6 DEF q
<1>7. CASE ~(p <= r)
  <2>1. r \in Nat /\ r > 0 /\ r <= p /\ total \in Nat \ {0} /\ order[k] \in Candidates
    BY <1>1, <1>7
  <2>2. CanAfford(order[k], r, total)
    BY <2>1, AffordsLess
  <2>3. r <= q
    BY <1>3, <2>1, <2>2
  <2> QED BY <1>1, <1>4, <2>1, <2>3
<1> QED BY <1>6, <1>7

\* Those whom a function gives anything.
Given(f) == {u \in Candidates : f[u] > 0}

\* As many are listed as are assigned anything.
LEMMA AssignedCount ==
    ASSUME NEW order \in [Candidates -> Candidates], NEW quantity \in [Candidates -> Nat]
    PROVE  Len(Assigned(order, quantity)) = Cardinality(Given(quantity))
<1> DEFINE list == Assigned(order, quantity)
           R == {k \in Candidates : quantity[k] > 0}
<1>0. Users \in Nat /\ Candidates = 1..Users
  BY ConstantsAssumption DEF Candidates
<1>1. PICK at : IsListing(list, at, order, quantity, Users)
  BY AssignedLists
<1> HIDE DEF list
<1>2. Len(list) \in Nat
  BY <1>1, LenProperties DEF IsListing
<1>3. IsFiniteSet(1..Len(list)) /\ Cardinality(1..Len(list)) = Len(list)
  BY <1>2, FS_Interval
<1>4. at \in Bijection(1..Len(list), R)
  <2>1. \A i \in 1..Len(list) : at[i] \in R
    BY <1>0, <1>1 DEF IsListing
  <2>2. at \in [1..Len(list) -> R]
    BY <1>1, <2>1 DEF IsListing
  <2>3. \A i, j \in 1..Len(list) : at[i] = at[j] => i = j
    BY <1>1 DEF IsListing
  <2>4. \A k \in R : \E i \in 1..Len(list) : at[i] = k
    BY <1>0, <1>1 DEF IsListing
  <2> HIDE DEF R
  <2> QED BY <2>2, <2>3, <2>4 DEF Bijection, Injection, Surjection, IsInjective
<1>5. Cardinality(R) = Cardinality(1..Len(list))
  BY <1>3, <1>4, FS_Bijection DEF ExistsBijection
<1> QED BY <1>3, <1>5 DEF list, Given

\* In any order of the candidates a function has the same sum and as many users it
\* gives anything.
LEMMA InOrder ==
    ASSUME NEW order \in [Candidates -> Candidates], NEW f \in [Candidates -> Nat],
           \A j, k \in Candidates : order[j] = order[k] => j = k,
           \A u \in Candidates : \E k \in Candidates : order[k] = u,
           NEW g, \A k \in Candidates : g[k] = f[order[k]]
    PROVE  /\ SumFunctionOnSet(g, Candidates) = SumFunctionOnSet(f, Candidates)
           /\ Cardinality(Given(g)) = Cardinality(Given(f))
<1> DEFINE S == {k \in Candidates : g[k] > 0}
           R == {u \in Candidates : f[u] > 0}
<1>0. IsFiniteSet(Candidates)
  BY ConstantsAssumption, FS_Interval DEF Candidates
<1>1. \A k \in Candidates : order[k] \in Candidates /\ g[k] \in Int /\ f[order[k]] = g[k]
  OBVIOUS
<1>2. SumFunctionOnSet(g, Candidates) = SumFunctionOnSet(f, Candidates)
  BY <1>0, <1>1, SumBijection
<1>3. Cardinality(S) = Cardinality(R)
  <2> DEFINE h == [k \in S |-> order[k]]
  <2>1. IsFiniteSet(S)
    <3>1. S \in SUBSET Candidates
      OBVIOUS
    <3> QED BY <1>0, <3>1, FS_Subset
  <2>2. \A k \in S : h[k] \in R
    BY <1>1
  <2>3. \A j, k \in S : h[j] = h[k] => j = k
    OBVIOUS
  <2>4. \A u \in R : \E k \in S : h[k] = u
    <3> SUFFICES ASSUME NEW u \in R PROVE \E k \in S : h[k] = u
      OBVIOUS
    <3>1. PICK k \in Candidates : order[k] = u
      OBVIOUS
    <3>2. k \in S
      BY <3>1
    <3> QED BY <3>1, <3>2
  <2>5. h \in [S -> R]
    BY <2>2
  <2>6. h \in Bijection(S, R)
    <3> HIDE DEF S, R, h
    <3> QED BY <2>3, <2>4, <2>5 DEF Bijection, Injection, Surjection, IsInjective
  <2> HIDE DEF S, R, h
  <2> QED BY <2>1, <2>6, FS_Bijection DEF ExistsBijection
<1> QED BY <1>2, <1>3 DEF Given

\* While shares remain, fewer users than have had their turn do not pay for as many
\* as have been assigned: turns taken from the largest wallet down.
LEMMA FewerAreLess ==
    ASSUME RequestType, NEW order \in [Candidates -> Candidates], NEW rem,
           \A j, k \in Candidates : j < k => balance[order[k]] <= balance[order[j]],
           TakesTurns(rem, order, target, AllRemaining(target)),
           NEW last \in Candidates, \A j \in 0..(last - 1) : rem[j] > 0,
           NEW g \in [Candidates -> Nat],
           \A k \in Candidates : g[k] > 0 => CanAfford(order[k], g[k], target),
           Cardinality(Given(g)) < last
    PROVE  SumFunctionOnSet(g, Candidates) < target
<1> DEFINE S == Given(g)
           A == 1..(last - 1)
           q == [k \in Candidates |-> rem[k - 1] - rem[k]]
<1>0. /\ Users \in Nat /\ Candidates = 1..Users /\ IsFiniteSet(Candidates)
      /\ last \in Nat /\ last > 0 /\ last <= Users
  BY ConstantsAssumption, FS_Interval DEF Candidates
<1>1. /\ A \in SUBSET Candidates /\ IsFiniteSet(A) /\ Cardinality(A) = last - 1
      /\ last - 1 \in 0..Users /\ last - 1 \in 0..(last - 1)
  <2>1. IsFiniteSet(A) /\ Cardinality(A) = last - 1
    <3>1. 1 \in Int /\ last - 1 \in Int
      BY <1>0
    <3>2. IsFiniteSet(A) /\ Cardinality(A) = IF 1 > last - 1 THEN 0 ELSE (last - 1) - 1 + 1
      BY <3>1, FS_Interval
    <3> HIDE DEF A
    <3> QED BY <1>0, <3>2
  <2>2. A \in SUBSET Candidates
    BY <1>0
  <2>3. last - 1 \in 0..Users /\ last - 1 \in 0..(last - 1)
    BY <1>0
  <2> QED BY <2>1, <2>2, <2>3
<1>2. /\ S \in SUBSET Candidates /\ IsFiniteSet(S)
      /\ Cardinality(S) \in Nat /\ Cardinality(S) <= last - 1
  <2>1. S \in SUBSET Candidates
    BY DEF Given
  <2>2. IsFiniteSet(S) /\ Cardinality(S) \in Nat
    BY <1>0, <2>1, FS_Subset, FS_CardinalityType
  <2>3. Cardinality(S) < last
    OBVIOUS
  <2>4. Cardinality(S) <= last - 1
    <3> DEFINE c == Cardinality(S)
    <3>1. c \in Nat /\ c < last
      BY <2>2, <2>3
    <3> HIDE DEF c
    <3>2. c <= last - 1
      BY <1>0, <3>1
    <3> QED BY <3>2 DEF c
  <2> HIDE DEF S
  <2> QED BY <2>1, <2>2, <2>4
<1>3. /\ target \in Nat \ {0} /\ rem[last - 1] \in Nat /\ rem[last - 1] > 0
      /\ SumFunctionOnSet(q, A) = target - rem[last - 1]
  <2>1. target \in Nat
    BY DEF RequestType
  <2>2. SumFunctionOnSet(q, A) = target - rem[last - 1]
    BY <1>1, <2>1, TurnsSum
  <2>3. rem[0] = target /\ rem[last - 1] \in Nat
    BY <1>1 DEF TakesTurns
  <2>4. rem[0] > 0 /\ rem[last - 1] > 0
    BY <1>0, <1>1
  <2> QED BY <2>1, <2>2, <2>3, <2>4
<1>4. \A k \in Candidates :
         /\ q[k] = rem[k - 1] - rem[k] /\ q[k] \in Nat
         /\ q[k] > 0 => CanAfford(order[k], q[k], target)
  BY DEF TakesTurns
<1>5. ASSUME NEW j \in A, NEW k \in Candidates, j <= k, NEW p \in Nat,
             CanAfford(order[k], p, target)
      PROVE  p <= q[j]
  <2>1. j \in Candidates /\ rem[j] > 0
    BY <1>0, <1>1
  <2>2. order[j] \in Candidates /\ order[k] \in Candidates
    BY <2>1
  <2>3. CanAfford(order[j], p, target)
    <3>1. CASE j = k
      BY <1>5, <3>1
    <3>2. CASE j # k
      <4>1. balance[order[k]] <= balance[order[j]]
        BY <1>0, <1>5, <2>1, <3>2
      <4> QED BY <1>3, <1>5, <2>2, <4>1, AffordsMore
    <3> QED BY <3>1, <3>2
  <2>4. p <= rem[j - 1] - rem[j]
    <3>1. target \in Nat
      BY <1>3
    <3> QED BY <2>1, <2>3, <3>1, TakesMost
  <2> QED BY <1>4, <2>1, <2>4
<1>6. CASE last = 1
  <2>1. Cardinality(S) = 0
    BY <1>2, <1>6
  <2>2. S = {}
    BY <1>2, <2>1, FS_EmptySet
  <2>3. \A k \in Candidates : g[k] = 0
    BY <2>2 DEF Given
  <2>4. SumFunctionOnSet(g, Candidates) = 0 * Cardinality(Candidates)
    BY <1>0, <2>3, SumConstant
  <2>5. Cardinality(Candidates) \in Nat
    BY <1>0, FS_CardinalityType
  <2> QED BY <1>3, <2>4, <2>5
<1>7. CASE last > 1
  <2> DEFINE m == q[last - 1]
             s == [k \in Candidates |-> IF k \in S THEN m ELSE 0]
             e == [k \in Candidates |-> IF k \in A THEN q[k] - m ELSE 0]
             n == [k \in A |-> m]
  <2>1. last - 1 \in A /\ last - 1 \in Candidates /\ m \in Nat
    BY <1>0, <1>1, <1>4, <1>7
  <2>2. \A j \in A : q[j] \in Nat /\ m <= q[j]
    <3> SUFFICES ASSUME NEW j \in A PROVE q[j] \in Nat /\ m <= q[j]
      OBVIOUS
    <3>1. q[j] \in Nat /\ j <= last - 1
      <4>1. j \in Candidates
        BY <1>1
      <4>2. q[j] \in Nat
        BY <1>4, <4>1
      <4>3. j <= last - 1
        BY <1>0
      <4> QED BY <4>2, <4>3
    <3>2. m > 0 => CanAfford(order[last - 1], m, target)
      BY <1>4, <2>1
    <3>3. m > 0 => m <= q[j]
      <4> HIDE DEF q
      <4> QED BY <1>5, <2>1, <3>1, <3>2
    <3> HIDE DEF q
    <3> QED BY <2>1, <3>1, <3>3
  <2>3. \A k \in S : k \notin A => g[k] <= m
    <3> SUFFICES ASSUME NEW k \in S, k \notin A PROVE g[k] <= m
      OBVIOUS
    <3>1. k \in Candidates /\ last - 1 <= k /\ g[k] \in Nat /\ CanAfford(order[k], g[k], target)
      BY <1>0 DEF Given
    <3> HIDE DEF S, A, q
    <3> QED BY <1>5, <2>1, <3>1
  <2>4. \A k \in S \cap A : g[k] <= q[k]
    <3> SUFFICES ASSUME NEW k \in S, k \in A PROVE g[k] <= q[k]
      OBVIOUS
    <3>1. k \in Candidates /\ k <= k /\ g[k] \in Nat /\ CanAfford(order[k], g[k], target)
      BY <1>0 DEF Given
    <3> HIDE DEF S, A, q
    <3> QED BY <1>5, <3>1
  <2> HIDE DEF q
  <2>5. \A k \in Candidates : s[k] \in Nat /\ e[k] \in Nat /\ g[k] <= s[k] + e[k]
    <3> SUFFICES ASSUME NEW k \in Candidates
                 PROVE  s[k] \in Nat /\ e[k] \in Nat /\ g[k] <= s[k] + e[k]
      OBVIOUS
    <3>1. k \notin S => g[k] = 0
      BY DEF Given
    <3>2. /\ s[k] = IF k \in S THEN m ELSE 0
          /\ e[k] = IF k \in A THEN q[k] - m ELSE 0
      OBVIOUS
    <3>3. g[k] \in Nat /\ q[k] \in Nat
      BY <1>4
    <3> HIDE DEF S, A, m, s, e
    <3> QED BY <2>1, <2>2, <2>3, <2>4, <3>1, <3>2, <3>3
  <2>6. SumFunctionOnSet(s, Candidates) = m * Cardinality(S)
    <3>1. /\ \A k \in Candidates : s[k] \in Int
          /\ \A k \in Candidates \ S : s[k] = 0
          /\ \A k \in S : s[k] = m
      <4>1. \A k \in Candidates : s[k] = IF k \in S THEN m ELSE 0
        OBVIOUS
      <4> HIDE DEF s, S, m
      <4> QED BY <1>2, <2>1, <4>1
    <3> HIDE DEF s, S, m
    <3>2. SumFunctionOnSet(s, Candidates) = SumFunctionOnSet(s, S)
      BY <1>0, <1>2, <3>1, SumWithin
    <3>3. SumFunctionOnSet(s, S) = m * Cardinality(S)
      BY <1>2, <2>1, <3>1, SumConstant
    <3> QED BY <3>2, <3>3
  <2>7. SumFunctionOnSet(q, A) = SumFunctionOnSet(e, Candidates) + m * (last - 1)
    <3>1. \A k \in A : e[k] = q[k] - m /\ n[k] = m
      BY <1>1
    <3>2. \A k \in Candidates \ A : e[k] = 0
      OBVIOUS
    <3> HIDE DEF e, A, m, n
    <3>3. /\ \A k \in Candidates : e[k] \in Int
          /\ \A k \in A : e[k] \in Int /\ n[k] \in Int /\ q[k] = e[k] + n[k]
          /\ \A k \in A : n[k] = m
      BY <2>1, <2>2, <3>1, <3>2
    <3>4. SumFunctionOnSet(e, Candidates) = SumFunctionOnSet(e, A)
      BY <1>0, <1>1, <3>2, <3>3, SumWithin
    <3>5. SumFunctionOnSet(q, A) = SumFunctionOnSet(e, A) + SumFunctionOnSet(n, A)
      BY <1>1, <3>3, SumPlus
    <3>6. SumFunctionOnSet(n, A) = m * (last - 1)
      BY <1>1, <2>1, <3>3, SumConstant
    <3> QED BY <3>4, <3>5, <3>6
  <2>8. SumFunctionOnSet(g, Candidates)
           <= SumFunctionOnSet(s, Candidates) + SumFunctionOnSet(e, Candidates)
    <3> DEFINE t == [k \in Candidates |-> s[k] + e[k]]
    <3> HIDE DEF s, e
    <3>1. /\ t \in [Candidates -> Nat] /\ \A k \in Candidates : g[k] <= t[k]
          /\ \A k \in Candidates : s[k] \in Int /\ e[k] \in Int /\ t[k] = s[k] + e[k]
      BY <2>5
    <3> HIDE DEF t
    <3>2. SumFunctionOnSet(t, Candidates)
             = SumFunctionOnSet(s, Candidates) + SumFunctionOnSet(e, Candidates)
      BY <1>0, <3>1, SumPlus
    <3>3. SumFunctionOnSet(g, Candidates) <= SumFunctionOnSet(t, Candidates)
      BY <1>0, <3>1, SumNoMore
    <3> QED BY <3>2, <3>3
  <2>9. /\ SumFunctionOnSet(g, Candidates) \in Int
        /\ SumFunctionOnSet(s, Candidates) \in Int /\ SumFunctionOnSet(e, Candidates) \in Int
    <3> HIDE DEF s, e
    <3>1. \A k \in Candidates : g[k] \in Int /\ s[k] \in Int /\ e[k] \in Int
      BY <2>5
    <3> QED BY <1>0, <3>1, SumInt
  <2>10. m * Cardinality(S) <= m * (last - 1) /\ m * Cardinality(S) \in Int /\ m * (last - 1) \in Int
    <3> DEFINE a == Cardinality(S)
    <3>1. a \in Nat /\ last - 1 - a \in Nat
      BY <1>0, <1>2
    <3> HIDE DEF a, m
    <3>2. m * (last - 1 - a) >= 0 /\ m * (last - 1 - a) = m * (last - 1) - m * a
      BY <1>0, <2>1, <3>1
    <3>3. m * a \in Int /\ m * (last - 1) \in Int
      BY <1>0, <2>1, <3>1
    <3> QED BY <3>2, <3>3 DEF a
  <2> DEFINE x == m * Cardinality(S)
             y == m * (last - 1)
             sg == SumFunctionOnSet(g, Candidates)
             ss == SumFunctionOnSet(s, Candidates)
             se == SumFunctionOnSet(e, Candidates)
             sq == SumFunctionOnSet(q, A)
  <2>11. /\ x \in Int /\ y \in Int /\ sg \in Int /\ ss \in Int /\ se \in Int
         /\ x <= y /\ ss = x /\ sq = se + y /\ sg <= ss + se
         /\ sq = target - rem[last - 1]
    BY <1>3, <2>6, <2>7, <2>8, <2>9, <2>10
  <2>12. sg < target
    <3> HIDE DEF x, y, sg, ss, se, sq
    <3> QED BY <1>3, <2>11
  <2> QED BY <2>12
<1> QED BY <1>0, <1>6, <1>7

\* No way to give users shares they afford deploys more than the largest wallets
\* first, nor as much among fewer users.
LEMMA LargestFirstDeploysMost ==
    ASSUME RequestType, NEW f \in Affordable
    PROVE  LET option == MaxDeploymentOption
           IN  /\ SumFunction(f) <= Achieved(option)
               /\ SumFunction(f) = Achieved(option) =>
                     Cardinality({u \in Candidates : f[u] > 0}) >= Len(option)
<1> DEFINE order == LargestFirst
           option == MaxDeploymentOption
           cap == AllRemaining(target)
<1>0. /\ Users \in Nat /\ Candidates = 1..Users /\ IsFiniteSet(Candidates)
      /\ target \in Nat
  BY ConstantsAssumption, FS_Interval DEF Candidates, RequestType
<1>1. /\ order \in [Candidates -> Candidates]
      /\ \A j, k \in Candidates : order[j] = order[k] => j = k
      /\ \A u \in Candidates : \E k \in Candidates : order[k] = u
      /\ \A j, k \in Candidates : j < k => Precedes(order[j], order[k])
  BY LargestFirstSorts
<1>2. \A j, k \in Candidates : j < k => balance[order[k]] <= balance[order[j]]
  <2> SUFFICES ASSUME NEW j \in Candidates, NEW k \in Candidates, j < k
               PROVE  balance[order[k]] <= balance[order[j]]
    OBVIOUS
  <2>1. Precedes(order[j], order[k]) /\ order[j] \in Candidates /\ order[k] \in Candidates
    BY <1>1
  <2>2. balance[order[j]] \in Nat /\ balance[order[k]] \in Nat
    BY <2>1 DEF RequestType
  <2> QED BY <2>1, <2>2 DEF Precedes
<1>3. cap \in [0..target -> Nat]
  BY DEF AllRemaining
<1>4. option = BuildOption(AssignInTurn(order, target, cap), target)
  BY Zenon DEF MaxDeploymentOption, AllRemaining
<1> HIDE DEF order, cap, option
<1>5. PICK rem : LET quantity == [k \in Candidates |-> rem[k - 1] - rem[k]]
                     built    == BuildOption(AssignInTurn(order, target, cap), target)
                 IN  /\ TakesTurns(rem, order, target, cap)
                     /\ AssignInTurn(order, target, cap) = Assigned(order, quantity)
                     /\ quantity \in [Candidates -> 0..target]
                     /\ IsOffer(built, target)
                     /\ Achieved(built) = target - rem[Users]
                     /\ SumFunctionOnSet(quantity, Candidates) = target - rem[Users]
  BY <1>0, <1>1, <1>3, TurnsOffer
<1> DEFINE q == [k \in Candidates |-> rem[k - 1] - rem[k]]
           R == Given(q)
           g == [k \in Candidates |-> f[order[k]]]
           S == Given(g)
<1>6. /\ TakesTurns(rem, order, target, cap) /\ TakesTurns(rem, order, target, AllRemaining(target))
      /\ q \in [Candidates -> Nat] /\ rem[Users] \in Nat
      /\ Achieved(option) = target - rem[Users]
      /\ SumFunctionOnSet(q, Candidates) = target - rem[Users]
  <2>1. TakesTurns(rem, order, target, cap)
    BY <1>5
  <2>2. rem[Users] \in Nat
    BY <1>0, <2>1 DEF TakesTurns
  <2>3. q \in [Candidates -> Nat]
    BY <1>0, <1>5
  <2> QED BY <1>4, <1>5, <2>1, <2>2, <2>3 DEF cap
<1>7. Len(option) = Cardinality(R)
  <2>1. AssignInTurn(order, target, cap) = Assigned(order, q)
    BY <1>5
  <2> HIDE DEF q
  <2>2. Len(Assigned(order, q)) = Cardinality(R)
    BY <1>1, <1>6, AssignedCount
  <2>3. \E at : IsListing(Assigned(order, q), at, order, q, Users)
    BY <1>1, <1>6, AssignedLists
  <2>4. Assigned(order, q) \in Seq(Share)
    BY <2>3 DEF IsListing
  <2>5. Len(option) = Len(Assigned(order, q))
    BY <1>4, <2>1, <2>4, Built
  <2> QED BY <2>2, <2>5
<1>8. /\ f \in [Candidates -> Nat]
      /\ \A u \in Candidates : f[u] > 0 => CanAfford(u, f[u], target)
      /\ SumFunctionOnSet(f, Candidates) <= target
      /\ SumFunction(f) = SumFunctionOnSet(f, Candidates)
  <2>1. /\ f \in [Candidates -> 0..target]
        /\ \A u \in Candidates : f[u] > 0 => CanAfford(u, f[u], target)
        /\ SumFunction(f) <= target
    BY DEF Affordable
  <2>2. SumFunction(f) = SumFunctionOnSet(f, Candidates)
    BY <2>1 DEF SumFunction
  <2>3. f \in [Candidates -> Nat]
    BY <1>0, <2>1
  <2> QED BY <2>1, <2>2, <2>3
<1>9. /\ SumFunctionOnSet(g, Candidates) = SumFunctionOnSet(f, Candidates)
      /\ Cardinality(S) = Cardinality({u \in Candidates : f[u] > 0})
  <2>1. \A k \in Candidates : g[k] = f[order[k]]
    OBVIOUS
  <2> HIDE DEF g
  <2>2. /\ SumFunctionOnSet(g, Candidates) = SumFunctionOnSet(f, Candidates)
        /\ Cardinality(Given(g)) = Cardinality(Given(f))
    BY <1>1, <1>8, <2>1, InOrder
  <2> QED BY <2>2 DEF Given
<1>10. /\ g \in [Candidates -> Nat]
       /\ \A k \in Candidates : g[k] > 0 => CanAfford(order[k], g[k], target)
  BY <1>1, <1>8
<1>11. \A k \in Candidates : q[k] = rem[k - 1] - rem[k]
  OBVIOUS
<1>12. S \in SUBSET Candidates /\ R \in SUBSET Candidates
  BY DEF Given
<1>13. /\ IsFiniteSet(S) /\ Cardinality(S) \in Nat
       /\ IsFiniteSet(R) /\ Cardinality(R) \in Nat
  <2> HIDE DEF S, R
  <2> QED BY <1>0, <1>12, FS_Subset, FS_CardinalityType
<1> HIDE DEF q, g
<1>14. CASE rem[Users] > 0
  <2>1. \A k \in Candidates : rem[k] > 0
    <3> SUFFICES ASSUME NEW k \in Candidates PROVE rem[k] > 0
      OBVIOUS
    <3>1. k \in 0..Users /\ Users \in 0..Users /\ k <= Users
      BY <1>0
    <3>2. rem[Users] <= rem[k] /\ rem[k] \in Nat
      BY <1>0, <1>6, <3>1, RemainingFalls
    <3> QED BY <1>6, <1>14, <3>2
  <2>2. \A k \in Candidates : g[k] <= q[k]
    <3> SUFFICES ASSUME NEW k \in Candidates PROVE g[k] <= q[k]
      OBVIOUS
    <3>1. g[k] \in Nat /\ q[k] \in Nat
      BY <1>6, <1>10
    <3>2. CASE g[k] > 0
      <4>1. rem[k] > 0 /\ CanAfford(order[k], g[k], target)
        BY <1>10, <2>1, <3>2
      <4>2. g[k] <= rem[k - 1] - rem[k]
        BY <1>0, <1>1, <1>6, <3>1, <4>1, TakesMost
      <4> QED BY <1>11, <4>2
    <3>3. CASE ~(g[k] > 0)
      BY <3>1, <3>3
    <3> QED BY <3>2, <3>3
  <2>3. /\ SumFunctionOnSet(g, Candidates) <= SumFunctionOnSet(q, Candidates)
        /\ SumFunctionOnSet(g, Candidates) = SumFunctionOnSet(q, Candidates)
              => \A k \in Candidates : g[k] = q[k]
    BY <1>0, <1>6, <1>10, <2>2, SumNoMore
  <2>4. SumFunctionOnSet(g, Candidates) = SumFunctionOnSet(q, Candidates) => S = R
    BY <2>3 DEF Given
  <2> HIDE DEF S, R
  <2>5. SumFunction(f) = SumFunctionOnSet(g, Candidates)
        /\ Achieved(option) = SumFunctionOnSet(q, Candidates)
    BY <1>6, <1>8, <1>9
  <2>6. SumFunction(f) <= Achieved(option)
    BY <2>3, <2>5
  <2>7. SumFunction(f) = Achieved(option) =>
           Cardinality({u \in Candidates : f[u] > 0}) >= Len(option)
    <3> SUFFICES ASSUME SumFunction(f) = Achieved(option)
                 PROVE  Cardinality({u \in Candidates : f[u] > 0}) >= Len(option)
      OBVIOUS
    <3>1. S = R
      BY <2>4, <2>5
    <3>2. Cardinality({u \in Candidates : f[u] > 0}) = Len(option)
      BY <1>7, <1>9, <3>1
    <3> QED BY <1>7, <1>13, <3>2
  <2> QED BY <2>6, <2>7 DEF option
<1>15. CASE rem[Users] = 0
  <2>1. Achieved(option) = target
    BY <1>0, <1>6, <1>15
  <2>2. SumFunction(f) <= Achieved(option)
    BY <1>8, <2>1
  <2> DEFINE N == {n \in 0..Users : rem[n] = 0}
  <2>3. PICK last \in N : \A n \in N : last <= n
    <3>1. N \in SUBSET Nat /\ N # {}
      BY <1>0, <1>15
    <3> HIDE DEF N
    <3> QED BY <3>1, LeastNatural
  <2>4. last \in 0..Users /\ rem[last] = 0 /\ last \in Nat
    BY <1>0
  <2>5. \A j \in 0..(last - 1) : rem[j] > 0
    <3> SUFFICES ASSUME NEW j \in 0..(last - 1) PROVE rem[j] > 0
      OBVIOUS
    <3>1. j \in 0..Users /\ ~(last <= j)
      BY <1>0, <2>4
    <3>2. rem[j] \in Nat
      BY <1>6, <3>1 DEF TakesTurns
    <3>3. rem[j] # 0
      BY <2>3, <3>1
    <3> QED BY <3>2, <3>3
  <2>6. \A k \in R : k <= last
    <3> SUFFICES ASSUME NEW k \in Candidates, ~(k <= last) PROVE ~(q[k] > 0)
      BY DEF Given
    <3>1. k - 1 \in 0..Users /\ last <= k - 1 /\ k \in 0..Users
      BY <1>0, <2>4
    <3>2. rem[k - 1] \in Nat /\ rem[k - 1] <= rem[last]
      BY <1>0, <1>6, <2>4, <3>1, RemainingFalls
    <3>3. rem[k] \in Nat
      BY <1>6, <3>1 DEF TakesTurns
    <3>4. q[k] = rem[k - 1] - rem[k]
      BY <1>11
    <3> QED BY <2>4, <3>2, <3>3, <3>4
  <2>7. Cardinality(R) <= last
    <3>1. R \in SUBSET (1..last)
      BY <1>0, <1>12, <2>4, <2>6
    <3>2. IsFiniteSet(1..last) /\ Cardinality(1..last) = last
      BY <2>4, FS_Interval
    <3> HIDE DEF R
    <3> QED BY <3>1, <3>2, FS_Subset
  <2>8. SumFunction(f) = Achieved(option) => Cardinality(S) >= last
    <3> SUFFICES ASSUME SumFunction(f) = target, ~(Cardinality(S) >= last) PROVE FALSE
      BY <2>1
    <3>1. last \in Candidates /\ Cardinality(S) < last
      BY <1>0, <1>13, <2>4
    <3>2. SumFunctionOnSet(g, Candidates) < target
      BY <1>1, <1>2, <1>6, <1>10, <2>5, <3>1, FewerAreLess
    <3> QED BY <1>0, <1>8, <1>9, <3>2
  <2>9. SumFunction(f) = Achieved(option) =>
           Cardinality({u \in Candidates : f[u] > 0}) >= Len(option)
    <3> HIDE DEF S, R
    <3> QED BY <1>7, <1>9, <1>13, <2>4, <2>7, <2>8
  <2> QED BY <2>2, <2>9 DEF option
<1> QED BY <1>6, <1>14, <1>15

\* The first option deploys as much as can be, among as few users as can be.
THEOREM FirstOptionDeploysMost == Spec => []DeploysTheMost
<1>1. SuggestionInv => DeploysTheMost
  <2> SUFFICES ASSUME SuggestionInv, Len(options) = 1, NEW f \in Affordable
               PROVE  /\ SumFunction(f) <= Achieved(options[1])
                      /\ SumFunction(f) = Achieved(options[1]) =>
                            Cardinality({u \in Candidates : f[u] > 0}) >= Len(options[1])
    BY DEF DeploysTheMost
  <2> DEFINE m == MaxDeploymentOption
             b == BalancedOption(target)
             c == BalancedOption(ReducedTarget)
  <2>1. \/ options = <<>>
        \/ options = <<m>>
        \/ \E p \in ProportionalOptions : \/ options = <<m, p>>
                                          \/ options = <<m, p, b>>
                                          \/ options = <<m, p, b, c>>
    BY DEF SuggestionInv, OptionsBuilt
  <2>2. options[1] = m
    <3> HIDE DEF m, b, c
    <3>1. options # <<>>
      OBVIOUS
    <3> QED BY <2>1, <3>1
  <2>3. RequestType
    BY DEF SuggestionInv
  <2> QED BY <2>2, <2>3, LargestFirstDeploysMost
<1> QED BY <1>1, SuggestionInvariance, PTL
===============================================================================
