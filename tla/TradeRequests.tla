----------------------------- MODULE TradeRequests -----------------------------
(***************************************************************************)
(* What the schemas of buys, sells and suggestions let through to the      *)
(* services.  A number is a count of units, Sub to a tick of 1e-8 and      *)
(* Scale ticks to one, with the length it is written in: "long" has more   *)
(* than eight decimals, as every number must that is not of whole ticks.   *)
(* Field constraints come first, then the validators of each field in the  *)
(* order of the fields, then those of the model.                           *)
(***************************************************************************)
EXTENDS Integers, FiniteSets, Sequences, SequencesExt

CONSTANTS
    User, Sub, Scale,
    Quantity,        \* units a quantity may be submitted as
    Amount,          \* units a price or charges may be submitted as
    MaxAllocations,  \* bound: length of a list of allocations or candidates
    None

VARIABLES pc, kind, request

vars == <<pc, kind, request>>

Decimal(units) ==
    {d \in [units : units, written : {"short", "long"}] :
        d.units % Sub # 0 => d.written = "long"}

ListsOf(S) == UNION {[1..n -> S] : n \in 0..MaxAllocations}

IsWhole(d) == d.units % (Scale * Sub) = 0

\* The exponent is compared, not the value: zeros at the end count.
PrecisionSupported(d) == d.written = "short"

\* quantize to eight decimals, ties to even.
Quantized(d) ==
    LET low == d.units \div Sub
        rest == 2 * (d.units % Sub)
        tick == IF rest > Sub \/ (rest = Sub /\ low % 2 = 1) THEN low + 1 ELSE low
    IN  [units |-> tick * Sub, written |-> "short"]

-------------------------------------------------------------------------------
(* BuyTradeRequest, and BuyService._validate_allocations *)

BuyRequests ==
    [quantity : Decimal(Quantity), price : Decimal(Amount), charges : Decimal(Amount),
     allocations : ListsOf([user : User, quantity : Decimal(Quantity)])]

\* Mutant: an allocation may be of any positive quantity.
ValidAllocation_Fractions(a) == a.quantity.units > 0
ValidAllocation(a) == a.quantity.units > 0 /\ IsWhole(a.quantity)

Allocated(r) ==
    SumFunction([i \in DOMAIN r.allocations |-> r.allocations[i].quantity.units])

ValidBuy(r) ==
    /\ r.quantity.units > 0 /\ r.price.units > 0 /\ r.charges.units >= 0
    /\ r.allocations # <<>>
    /\ \A i \in DOMAIN r.allocations : ValidAllocation(r.allocations[i])
    /\ \A d \in {r.quantity, r.price, r.charges} : PrecisionSupported(d)
    /\ Allocated(r) = r.quantity.units

\* What a service raises InvalidAllocationError for.
DuplicateUsers(r) ==
    Cardinality({r.allocations[i].user : i \in DOMAIN r.allocations}) # Len(r.allocations)

-------------------------------------------------------------------------------
(* SellTradeRequest *)

\* A field of a sell may be omitted, and then has its default; a target may be null.
SellRequests ==
    [quantity : Decimal(Quantity), price : Decimal(Amount), charges : Decimal(Amount),
     mode : {"omitted", "proportional", "targeted"},
     target : User \cup {"omitted", None}]

Mode(r) == IF r.mode = "omitted" THEN "proportional" ELSE r.mode
TargetUser(r) == IF r.target = "omitted" THEN None ELSE r.target

\* The validator of a field that is omitted does not run.
ValidTarget(r) ==
    r.target # "omitted" =>
        /\ Mode(r) = "targeted" => r.target # None
        /\ Mode(r) = "proportional" => r.target = None

ValidSell(r) ==
    /\ r.quantity.units > 0 /\ r.price.units > 0 /\ r.charges.units >= 0
    /\ \A d \in {r.quantity, r.price, r.charges} : PrecisionSupported(d)
    /\ ValidTarget(r)

-------------------------------------------------------------------------------
(* AllocationSuggestionRequest *)

SuggestionRequests ==
    [price : Decimal(Amount), charges : Decimal(Amount), target : Decimal(Quantity),
     candidates : ListsOf(User)]

\* Rounded first, and looked at then.
Rounded(r) == [r EXCEPT !.price = Quantized(@), !.charges = Quantized(@),
                        !.target = Quantized(@)]

DistinctCandidates(r) == Cardinality(ToSet(r.candidates)) = Len(r.candidates)

ValidSuggestion(r) ==
    /\ r.price.units > 0 /\ r.target.units > 0 /\ r.charges.units >= 0
    /\ r.candidates # <<>>
    /\ IsWhole(Rounded(r).target)
    /\ DistinctCandidates(r)

-------------------------------------------------------------------------------
Init ==
    /\ pc = "received"
    /\ \/ kind = "buy" /\ request \in BuyRequests
       \/ kind = "sell" /\ request \in SellRequests
       \/ kind = "suggestion" /\ request \in SuggestionRequests

Validate(of, valid, parsed) ==
    /\ pc = "received" /\ kind = of
    /\ pc' = IF valid THEN "service" ELSE "422"
    /\ request' = IF valid THEN parsed ELSE request
    /\ UNCHANGED kind

\* The service looks at what it was given, and works with it or raises.  What it
\* holds against the database is not modelled here.
Enter(of, valid) ==
    /\ pc = "service" /\ kind = of
    /\ pc' = IF valid THEN "accepted" ELSE "400"
    /\ UNCHANGED <<kind, request>>

EnterBuy == Enter("buy", ~DuplicateUsers(request))

\* The allocations of no user are none: a SellValidationError.
EnterSell == Enter("sell", ~(request.mode = "targeted" /\ request.target = None))

Next ==
    \/ Validate("buy", ValidBuy(request), request)
    \/ Validate("sell", ValidSell(request),
                [request EXCEPT !.mode = Mode(request), !.target = TargetUser(request)])
    \/ Validate("suggestion", ValidSuggestion(request), Rounded(request))
    \/ EnterBuy
    \/ EnterSell
    \/ Enter("suggestion", TRUE)
    \/ pc \in {"422", "400", "accepted"} /\ UNCHANGED vars

Spec == Init /\ [][Next]_vars

-------------------------------------------------------------------------------
(* Properties *)

Accepted(of) == pc = "accepted" /\ kind = of

OfTicks(d) == d.units % Sub = 0

\* What BuyCosts assumes: a buy is split into whole, positive shares of distinct
\* users that add up to its quantity, and its price and charges are of whole ticks,
\* so that the Numeric(20, 8) columns store them as they are.
BuysAreWhole ==
    Accepted("buy") =>
        /\ request.price.units > 0 /\ OfTicks(request.price)
        /\ request.charges.units >= 0 /\ OfTicks(request.charges)
        /\ IsWhole(request.quantity)
        /\ Allocated(request) = request.quantity.units
        /\ ~DuplicateUsers(request)
        /\ \A i \in DOMAIN request.allocations :
              IsWhole(request.allocations[i].quantity) /\ request.allocations[i].quantity.units > 0

\* "target_user_id is required for targeted sell." (trade.py:210): a targeted sell
\* that passes the schema names a user.
TargetedNamesUser ==
    pc = "service" /\ kind = "sell" /\ request.mode = "targeted" => request.target \in User
===============================================================================
