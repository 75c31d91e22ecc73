----------------------------- MODULE MCTradeInputs -----------------------------
(***************************************************************************)
(* A small instance of what is computed before a trade locks or writes     *)
(* anything, for TLC: a behaviour is one request before its schema, one    *)
(* cost split of a buy, or one allocation suggestion.  The three share no  *)
(* state; the variables of those a behaviour is not about are idle.        *)
(***************************************************************************)
EXTENDS AllocationSuggestion

CONSTANTS
    User, Sub, SchemaScale, SubmittedQuantity, SubmittedAmount, MaxAllocations, None,
    BuyQuantity, BuyPrice, BuyCharges

\* What is submitted is any number; what BuyCosts takes has passed its schema.
ASSUME InputAssumption ==
    /\ Sub \in Nat \ {0} /\ SchemaScale \in Nat \ {0} /\ MaxAllocations \in Nat
    /\ SubmittedQuantity \subseteq Int /\ SubmittedAmount \subseteq Int
    /\ BuyQuantity \subseteq Nat \ {0} /\ BuyPrice \subseteq Nat \ {0}
    /\ BuyCharges \subseteq Nat

\* Charges may be negative before their schema.
MCSubmittedAmount == {-2, 0, 1, 2}

VARIABLES
    computed,                                    \* "schema", "split" or "suggestion"
    pc, kind, body,                              \* of TradeRequests
    bought, paid, fees, left, remaining, costs, index, excess  \* of BuyCosts

schema  == <<pc, kind, body>>
split   == <<bought, paid, fees, left, remaining, costs, index, excess>>
allVars == <<computed, vars, schema, split>>

Schema == INSTANCE TradeRequests WITH
              Scale <- SchemaScale, Quantity <- SubmittedQuantity,
              Amount <- SubmittedAmount, request <- body

Split == INSTANCE BuyCosts WITH
             Quantity <- BuyQuantity, Price <- BuyPrice, Charges <- BuyCharges,
             quantity <- bought, price <- paid, charges <- fees

IdleSplit ==
    /\ bought = 1 /\ paid = 1 /\ fees = 0
    /\ left = 1 /\ remaining = 0 /\ costs = 0 /\ index = 0 /\ excess = 0
IdleSchema == pc = "idle" /\ kind = "none" /\ body = <<>>
IdleSuggestion ==
    target = 0 /\ price = 0 /\ charges = 0 /\ balance = <<>> /\ tips = {} /\ options = <<>>

AnyInit ==
    \/ computed = "schema" /\ Schema!Init /\ IdleSplit /\ IdleSuggestion
    \/ computed = "split" /\ Split!Init /\ IdleSchema /\ IdleSuggestion
    \/ computed = "suggestion" /\ Init /\ IdleSplit /\ IdleSchema

AnyNext ==
    /\ \/ computed = "schema" /\ Schema!Next /\ UNCHANGED <<vars, split>>
       \/ computed = "split" /\ Split!Next /\ UNCHANGED <<vars, schema>>
       \/ computed = "suggestion" /\ Next /\ UNCHANGED <<schema, split>>
    /\ UNCHANGED computed

AnySpec == AnyInit /\ [][AnyNext]_allVars

-------------------------------------------------------------------------------
(* The properties of the instances; those of AllocationSuggestion are its own *)

\* The costs of the users add up to the cost of the trade (see BuyCosts).
PaidInFull == Split!PaidInFull

\* Everyone is charged its share of the charges (see BuyCosts).
ChargedWithinRounding == Split!ChargedWithinRounding

\* An accepted buy is what BuyCosts assumes (see TradeRequests).
BuysAreWhole == Schema!BuysAreWhole
===============================================================================
