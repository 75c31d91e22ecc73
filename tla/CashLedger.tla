------------------------------ MODULE CashLedger ------------------------------
(***************************************************************************)
(* What the cash side of Tradequity promises, free of sessions, locks and  *)
(* statements: a deposit credits one user's cash account and opens a       *)
(* capital lot of the same amount, and a buy debits all of its users and   *)
(* gives each of them an allocation of the same cost, in one step, and     *)
(* only when every one of them can pay.  BuyDeposit implements it.         *)
(***************************************************************************)
EXTENDS Integers

CONSTANTS User, Cost, Amount, InitialCash

VARIABLES
    cash,       \* cash[u]: the derived balance of u's cash account
    lots,       \* lots[u]: sum of the capital lots of u
    invested    \* invested[u]: sum of the original costs of u's allocations

vars == <<cash, lots, invested>>

Init ==
    /\ cash \in [User -> InitialCash]
    /\ lots = cash
    /\ invested = [u \in User |-> 0]

Deposit(u, amount) ==
    /\ cash' = [cash EXCEPT ![u] = @ + amount]
    /\ lots' = [lots EXCEPT ![u] = @ + amount]
    /\ UNCHANGED invested

\* "Full trade executes atomically or fails entirely" (buy_service.py:8).
Buy(users, cost) ==
    /\ \A u \in users : cash[u] >= cost[u]
    /\ cash' = [u \in User |-> IF u \in users THEN cash[u] - cost[u] ELSE cash[u]]
    /\ invested' = [u \in User |-> IF u \in users THEN invested[u] + cost[u]
                                                  ELSE invested[u]]
    /\ UNCHANGED lots

Next ==
    \/ \E u \in User, amount \in Amount : Deposit(u, amount)
    \/ \E users \in SUBSET User : \E cost \in [users -> Cost] : Buy(users, cost)

Spec == Init /\ [][Next]_vars
===============================================================================
