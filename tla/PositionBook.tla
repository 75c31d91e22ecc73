------------------------------ MODULE PositionBook -----------------------------
(***************************************************************************)
(* What selling a pooled position promises, free of sessions, locks and    *)
(* statements.  A sell is one step: it takes a quantity from all of the    *)
(* open owners, in proportion to what they hold, or from one of them, and  *)
(* pays them and the fee reserve out of the treasury.  Quantities and      *)
(* amounts are in ticks; nobody gains or loses more than one by rounding.  *)
(* SellExecution implements it.                                            *)
(***************************************************************************)
EXTENDS Integers, Functions

CONSTANTS User, Scale, Shares

VARIABLES
    remaining, open,     \* the position: what is left of it, and is it OPEN
    quantity, isOpen,    \* per user: what it still holds, and is that OPEN
    treasury, reserve, settled

position == <<remaining, open, quantity, isOpen>>
vars     == <<position, treasury, reserve, settled>>

Init ==
    /\ \E shares \in [User -> Shares] : quantity = [u \in User |-> shares[u] * Scale]
    /\ isOpen = [u \in User |-> TRUE]
    /\ remaining = SumFunction(quantity)
    /\ open = TRUE
    /\ treasury \in Nat
    /\ reserve = 0
    /\ settled = [u \in User |-> 0]

Owners == {u \in User : isOpen[u]}

\* Who sells: all the owners ("proportional pooled liquidation") or one ("targeted
\* investor liquidation", sell_service.py:65).
Sellers == {Owners} \cup {{u} : u \in Owners}

\* Of its quantity, u gives up the part that q is of what the sellers hold, to a tick.
Reduces(u, q, held) ==
    LET exact == quantity[u] * (IF q < held THEN q ELSE held)
        taken == (quantity[u] - quantity'[u]) * held
    IN  /\ quantity'[u] >= 0
        /\ taken - exact <= held /\ exact - taken <= held
        /\ isOpen'[u] = (quantity'[u] > 0)

\* Closing drops the last tick of the position.
Sell(users, q) ==
    /\ open /\ users # {} /\ q \in 1..remaining
    /\ remaining' = IF remaining - q <= 1 THEN 0 ELSE remaining - q
    /\ open' = (remaining' > 0)
    /\ \A u \in users : Reduces(u, q, SumFunctionOnSet(quantity, users))
    /\ \A u \in User \ users :
          /\ quantity'[u] = quantity[u] /\ isOpen'[u] = isOpen[u]
          /\ settled'[u] = settled[u]
    /\ reserve' >= reserve
    /\ treasury - treasury' = reserve' - reserve + SumFunction(settled') - SumFunction(settled)

Next == \E users \in Sellers, q \in 1..remaining : Sell(users, q)

Spec == Init /\ [][Next]_vars
===============================================================================
