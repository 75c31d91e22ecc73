------------------------------- MODULE BuyCosts -------------------------------
(***************************************************************************)
(* BuyService._calculate_user_costs: how the cost of a pooled buy is split *)
(* among its users, one iteration of the loop per step.                    *)
(*                                                                         *)
(* Prices and charges are in ticks of 1e-8 and allocations are whole       *)
(* shares, so base costs are exact and only charge shares are rounded.     *)
(* The allocations of a request add up to its quantity                     *)
(* (BuyTradeRequest.validate_allocations) and are positive, so the list is *)
(* taken one allocation at a time from what is left of the quantity, and   *)
(* the last allocation is the one that leaves nothing.                     *)
(***************************************************************************)
EXTENDS Integers

CONSTANTS
    Quantity,    \* quantities a buy may have, in whole shares, from 1
    Price,       \* prices per share, in ticks, from 1
    Charges      \* total charges of a buy, in ticks, from 0

VARIABLES
    quantity, price, charges,  \* the request
    left,                      \* shares of the allocations not reached yet
    remaining,                 \* remaining_charges
    costs,                     \* sum of user_costs so far
    index,                     \* allocations reached so far
    excess                     \* (charge_share * quantity) - (charges * allocated)
                               \* of the latest allocation: what it pays over its
                               \* exact share, times quantity

request == <<quantity, price, charges>>
vars == <<request, left, remaining, costs, index, excess>>

TotalTradeCost == quantity * price + charges

\* The integers nearest to n / d.  Decimal rounds ties to even, but a tie
\* computed from a share_ratio of 28 digits may fall on either side.
Nearest(n, d) == {k \in (n \div d)..(n \div d + 1) :
                      2 * (k * d - n) <= d /\ 2 * (n - k * d) <= d}

Init ==
    /\ quantity \in Quantity
    /\ price \in Price
    /\ charges \in Charges
    /\ left = quantity
    /\ remaining = charges
    /\ costs = 0
    /\ index = 0
    /\ excess = 0

\* An allocation of `allocated' shares pays its base cost and charge_share.
Allocate(allocated, charge_share) ==
    /\ left' = left - allocated
    /\ costs' = costs + allocated * price + charge_share
    /\ index' = index + 1
    /\ excess' = charge_share * quantity - charges * allocated
    /\ UNCHANGED request

\* Mutant: shares are rounded up.
AllocateShare_RoundedUp(allocated) ==
    /\ allocated < left
    /\ LET charge_share == (charges * allocated + quantity - 1) \div quantity
       IN  /\ Allocate(allocated, charge_share)
           /\ remaining' = remaining - charge_share

AllocateShare(allocated) ==
    /\ allocated < left
    /\ \E charge_share \in Nearest(charges * allocated, quantity) :
          /\ Allocate(allocated, charge_share)
          /\ remaining' = remaining - charge_share

\* Mutant: the last user pays a proportional share like the others.
AllocateLast_Proportional(allocated) ==
    /\ allocated = left
    /\ \E charge_share \in Nearest(charges * allocated, quantity) :
          Allocate(allocated, charge_share)
    /\ UNCHANGED remaining

\* "Final user absorbs rounding remainder" (buy_service.py:154).
AllocateLast(allocated) ==
    /\ allocated = left
    /\ Allocate(allocated, remaining)
    /\ UNCHANGED remaining

Done == left = 0 /\ UNCHANGED vars

Next ==
    \/ \E allocated \in 1..left : AllocateShare(allocated) \/ AllocateLast(allocated)
    \/ Done

Spec == Init /\ [][Next]_vars

-------------------------------------------------------------------------------
(* Properties *)

\* The types of the variables; the loop never allocates more than the quantity
\* of the request.
TypeOK ==
    /\ quantity \in Quantity
    /\ price \in Price
    /\ charges \in Charges
    /\ left \in 0..quantity
    /\ remaining \in Int
    /\ costs \in Int
    /\ index \in Nat
    /\ excess \in Int

\* The user costs, which become the original costs of the allocations and the
\* amounts of the ledger rows, add up to the total_cost of the position, however
\* the charges are rounded.
PaidInFull == left = 0 => costs = TotalTradeCost

\* Every user but the last pays its exact share of the charges to half a tick;
\* the last, who takes the remainder, to half a tick for each of the others.
ChargedWithinRounding ==
    LET slack == IF left > 0 THEN 1 ELSE index - 1
    IN  index > 0 => /\ 2 * excess <= slack * quantity
                     /\ -(2 * excess) <= slack * quantity
===============================================================================
