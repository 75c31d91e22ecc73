-------------------------- MODULE AllocationSuggestion --------------------------
(***************************************************************************)
(* AllocationSuggestionService.generate_suggestions: four ways to split a  *)
(* buy of `target' shares among candidate users by what their cash affords.*)
(*                                                                         *)
(* Users are numbered in the order of candidate_user_ids.  Amounts are in  *)
(* ticks, the last decimal of a quantize, and Scale ticks make one.        *)
(* Balances are what _get_candidate_balances has read; nothing is locked   *)
(* and nothing is written.                                                 *)
(***************************************************************************)
EXTENDS Integers, Sequences, FiniteSets, FiniteSetsExt, SequencesExt

CONSTANTS
    Users,                          \* number of candidates, from 1
    Scale,
    Target, Price, Charges,         \* what a request may ask
    Balance,                        \* balances a candidate may have
    ConservativePercent             \* _CONSERVATIVE_FACTOR

\* Target and price are positive when they are submitted, and may round to zero.
ASSUME ConstantsAssumption ==
    /\ Users \in Nat \ {0} /\ Scale \in Nat \ {0}
    /\ Target \subseteq Nat /\ Price \subseteq Nat /\ Charges \subseteq Nat
    /\ Balance \subseteq Nat
    /\ ConservativePercent \in Nat

VARIABLES
    target, price, charges, balance,  \* the request and what it has loaded
    tips,                             \* quantities whose ties are rounded up
    options                           \* the options built so far

request == <<target, price, charges, balance, tips>>
vars    == <<request, options>>

Candidates == 1..Users

\* The candidates as a list.
InRequestOrder == [u \in Candidates |-> u]

-------------------------------------------------------------------------------
(* Estimates *)

\* n / d to the nearest integer.  A tie goes up if up: ties round to even, and
\* the 28 digits of a quotient may tip one.
Round(n, d, up) ==
    LET twice == 2 * (n % d)
    IN  n \div d + (IF twice > d \/ (twice = d /\ up) THEN 1 ELSE 0)

\* _estimate_cost of q of total shares, for all but the last user.
EstimatedCost(q, total) == q * price + Round(charges * q, total, q \in tips)

\* Mutant: charges are left out of what a user must afford.
CanAfford_WithoutCharges(u, q, total) == q > 0 /\ q * price <= balance[u]

CanAfford(u, q, total) == q > 0 /\ EstimatedCost(q, total) <= balance[u]

\* Mutant: the candidate quantity is tried once and never reduced.
MaxAffordable_NoRetry(u, total, cap) == IF CanAfford(u, cap, total) THEN cap ELSE 0

\* _max_affordable_quantity: the candidate goes down from cap by one.
MaxAffordable(u, total, cap) ==
    LET best[candidate \in 0..cap] ==
            IF candidate = 0 \/ CanAfford(u, candidate, total)
            THEN candidate ELSE best[candidate - 1]
    IN  best[cap]

\* proportional_charge, in 1 / Scale ticks: its share_ratio is rounded first.
ProportionalCharge(q, total) == charges * Round(Scale * q, total, q \in tips)

\* Mutant: the last user bears the whole of the charges.
LastCost_AllCharges(allocations, total) ==
    allocations[Len(allocations)].quantity * price + charges

\* The last user is estimated all the charges the others' shares leave.
LastCost(allocations, total) ==
    LET n == Len(allocations)
        q == allocations[n].quantity
        charge == [i \in DOMAIN allocations |->
                      ProportionalCharge(allocations[i].quantity, total)]
        others == SumFunctionOnSet(charge, 1..(n - 1))
    IN  Round((q * price + charges) * Scale - others, Scale, q \in tips)

\* _build_option.  An option is in the order its allocations were assigned.
BuildOption(allocations, total) ==
    [i \in DOMAIN allocations |->
        [user |-> allocations[i].user,
         quantity |-> allocations[i].quantity,
         estimated_cost |-> IF i < Len(allocations)
                            THEN EstimatedCost(allocations[i].quantity, total)
                            ELSE LastCost(allocations, total)]]

-------------------------------------------------------------------------------
(* Strategies *)

\* Those who are assigned any quantity: quantity[k] is for the k-th user of order.
Assigned(order, quantity) ==
    LET upTo[k \in 0..Users] ==
            IF k = 0 THEN <<>>
            ELSE IF quantity[k] > 0
                 THEN Append(upTo[k - 1], [user |-> order[k], quantity |-> quantity[k]])
            ELSE upTo[k - 1]
    IN  upTo[Users]

\* One pass over the users, each assigned what it affords under cap[what remains],
\* until nothing remains.
AssignInTurn(order, total, cap) ==
    LET remaining[k \in 0..Users] ==
            IF k = 0 THEN total
            ELSE LET before == remaining[k - 1]
                 IN  before - Min({MaxAffordable(order[k], total, cap[before]), before})
    IN  Assigned(order, [k \in Candidates |-> remaining[k - 1] - remaining[k]])

\* Larger wallets come first; the sort is stable.
Precedes(u, v) == balance[u] > balance[v] \/ (balance[u] = balance[v] /\ u < v)

LargestFirst == CHOOSE order \in [Candidates -> Candidates] :
                    \A j, k \in Candidates : j < k => Precedes(order[j], order[k])

MaxDeploymentOption ==
    BuildOption(AssignInTurn(LargestFirst, target, [remaining \in 0..target |-> remaining]),
                target)

\* _proportional: quotas are rounded down, and the shares this leaves go to the
\* users with the largest remainders.  Equal remainders of unequal balances may
\* come in either order (28 digits), of equal balances in the request's.
TotalBalance == SumFunction(balance)
Floor(u)     == (target * balance[u]) \div TotalBalance
Remainder(u) == (target * balance[u]) % TotalBalance

\* Mutant: every user with a remainder is rounded up.
RoundedUp_All == {{u \in Candidates : Remainder(u) > 0}}

RoundedUp ==
    LET left == target - SumFunction([u \in Candidates |-> Floor(u)])
    IN  {extra \in SUBSET Candidates :
            /\ Cardinality(extra) = left
            /\ \A u \in extra, v \in Candidates \ extra :
                  /\ Remainder(u) >= Remainder(v)
                  /\ balance[u] = balance[v] => u < v}

ProportionalOption(extra) ==
    LET quota(u) == Floor(u) + (IF u \in extra THEN 1 ELSE 0)
        valid(u) == IF CanAfford(u, quota(u), target) THEN quota(u) ELSE 0
    IN  BuildOption(Assigned(InRequestOrder, [u \in Candidates |-> valid(u)]), target)

\* Mutant: equal shares are rounded up.
EqualShare_RoundedUp(total) == (total + Users - 1) \div Users

EqualShare(total) == total \div Users

\* _balanced
BalancedOption(total) ==
    BuildOption(AssignInTurn(InRequestOrder, total,
                             [remaining \in 0..total |-> EqualShare(total)]), total)

\* _conservative: the balanced option of a smaller request.
ReducedTarget == Max({(target * ConservativePercent) \div 100, 1})

-------------------------------------------------------------------------------
\* The balances of the candidates have been read; who has no active profile or no
\* cash account has ended the request there.
Init ==
    /\ target \in Target
    /\ price \in Price
    /\ charges \in Charges
    /\ balance \in [Candidates -> Balance]
    /\ tips \in SUBSET (1..target)
    /\ options = <<>>

Build(k, option) ==
    /\ Len(options) = k
    /\ options' = Append(options, option)
    /\ UNCHANGED request

MaxDeployment == Build(0, MaxDeploymentOption)

Proportional ==
    \/ /\ TotalBalance = 0
       /\ Build(1, <<>>)
    \/ /\ TotalBalance > 0
       /\ \E extra \in RoundedUp : Build(1, ProportionalOption(extra))

Balanced == Build(2, BalancedOption(target))

\* The reduced request passes the schema again, which refuses the price if it has
\* been rounded to zero: no option is answered.
Conservative == price > 0 /\ Build(3, BalancedOption(ReducedTarget))

Done ==
    /\ Len(options) = 4 \/ (Len(options) = 3 /\ price = 0)
    /\ UNCHANGED vars

Next == MaxDeployment \/ Proportional \/ Balanced \/ Conservative \/ Done

Spec == Init /\ [][Next]_vars

-------------------------------------------------------------------------------
(* Properties *)

Quantities(option) == [i \in DOMAIN option |-> option[i].quantity]
Achieved(option)   == SumFunction(Quantities(option))

\* The target an option was built for, and its shares as a function.
TargetOf(k) == IF k = 4 THEN ReducedTarget ELSE target
Shares(option) ==
    [u \in Candidates |->
        SumFunctionOnSet(Quantities(option), {i \in DOMAIN option : option[i].user = u})]

\* No option deploys more than was asked for.  The conservative one deploys no more
\* than its share of it, or one share, even if none was asked for.
WithinTarget ==
    \A k \in DOMAIN options :
        IF k < 4 THEN Achieved(options[k]) <= target
        ELSE \/ Achieved(options[k]) <= 1
             \/ 100 * Achieved(options[k]) <= ConservativePercent * target

\* Ways to give users shares they can afford, no more than the target.
Affordable ==
    {f \in [Candidates -> 0..target] :
        /\ \A u \in Candidates : f[u] > 0 => CanAfford(u, f[u], target)
        /\ SumFunction(f) <= target}

\* "Largest-wallet-first greedy allocation" (allocation_suggestion_service.py:176)
\* deploys the most that can be, among as few users as can be.
DeploysTheMost ==
    Len(options) = 1 =>
        \A f \in Affordable :
            /\ SumFunction(f) <= Achieved(options[1])
            /\ SumFunction(f) = Achieved(options[1]) =>
                  Cardinality({u \in Candidates : f[u] > 0}) >= Len(options[1])

\* "Near-even distribution" (allocation_suggestion_service.py:292): who gets less
\* than another could not pay for one share more.
BalancedIsEven ==
    Len(options) = 4 =>
        \A k \in {3, 4}, u, v \in Candidates :
            LET shares == Shares(options[k])
            IN  shares[u] < shares[v] => ~CanAfford(u, shares[u] + 1, TargetOf(k))

\* The estimates of an option add up to what its shares and all the charges cost,
\* to the rounding of each share.
EstimatesCoverTheTrade ==
    \A k \in DOMAIN options :
        LET n == Len(options[k])
            estimates == SumFunction([i \in 1..n |-> options[k][i].estimated_cost])
            error == estimates - (Achieved(options[k]) * price + charges)
            slack == (n - 1) * (Scale + charges) + Scale
        IN  n > 0 => 2 * Scale * error <= slack /\ -(2 * Scale * error) <= slack

\* What BuyService._calculate_user_costs charges the users of an option bought in
\* full, in the same order.
BuyCost(option, i) ==
    LET share == [j \in DOMAIN option |->
                     Round(charges * option[j].quantity, Achieved(option),
                           option[j].quantity \in tips)]
        n == Len(option)
    IN  option[i].quantity * price +
           (IF i < n THEN share[i] ELSE charges - SumFunctionOnSet(share, 1..(n - 1)))

\* A suggestion that reaches the target can be bought as it is: every user has
\* the cash the buy will ask of it, but for the remainder of the others' rounding
\* that the last user takes.
FullDeploymentIsPayable ==
    \A k \in DOMAIN options :
        LET option == options[k]
            n == Len(option)
        IN  Achieved(option) = TargetOf(k) =>
                \A i \in 1..n :
                    2 * (BuyCost(option, i) - balance[option[i].user]) <=
                        IF i = n THEN n ELSE 0
===============================================================================
