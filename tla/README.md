# Tradequity: a TLA+ development

Tradequity is a FastAPI service over PostgreSQL that pools the cash of investors to buy shares,
keeps who owns how much of each pooled position, and pays the proceeds of sells back, less a
performance fee. Money is a double-entry ledger: a balance is not stored, it is the sum of an
account's ledger rows. This directory models the workflows that move money and ownership, and what
surrounds them (the requests, the tokens, the schemas, the pages that show the result), checks them
with TLC and proves the core of them with TLAPS.

## 1. Inventory

| Component | Source (`src/app/`) | State | Operations | What makes it correct |
|---|---|---|---|---|
| Buy execution | `services/buy_service.py` | ledger rows, allocations, positions, trades | `execute_buy` | nobody pays more than it has; a trade is whole or absent; no deadlock |
| Deposits and the ledger | `services/ledger_service.py`, `repositories/ledger_repository.py`, `capital_lot_repository.py` | ledger rows, capital lots | `record_deposit`, derived balances | cash agrees with lots and allocations; the answered balance is there |
| Cost split of a buy | `buy_service.py:149` | none | `_calculate_user_costs` | costs add up to the trade; everybody bears its share of the charges |
| Sell execution | `services/sell_service.py` | positions, allocations, realizations, ledger rows | `execute_sell` | nothing is sold twice; holdings and settlements agree with the trade |
| Allocation suggestion | `services/allocation_suggestion_service.py` | none | `generate_suggestions` | options can be paid, deploy what they promise |
| Profile service | `services/profile_service.py`, `repositories/profile_repository.py` | profiles | display name update, investor list, dashboard | an update is stored; a list misses nobody; the figures of a dashboard belong together |
| Requests and errors | `main.py`, `db/session.py`, `core/exceptions.py`, `core/exception_handlers.py`, `api/deps/permissions.py`, the routes | pooled connections | one request from the token to the answer | an answer tells what is stored; nothing outlives its request |
| Tokens | `api/deps/auth.py` | cached keys | `get_current_user` | a withdrawn key is refused, a published one is not |
| Request schemas | `schemas/admin/trade.py`, `allocation.py` | none | field and model validators | what reaches a service is what the service assumes |
| Repositories | `repositories/` | rows | queries, row locks, flushes | part of the actions of the services |
| Configuration, withdrawals, market prices, placeholders | | | repositories nobody calls, docstrings | not modelled: section 6 |

**Interaction.** A route checks the token and the role, builds a service with the request's session and
awaits one method. Services never call each other; they meet in the database. A buy and a deposit meet in
the cash account (the buy locks the account row `FOR UPDATE`, the deposit's ledger row takes `FOR KEY SHARE`
on it through its foreign key). Two buys meet in the accounts of common users, two sells in the position row.
A sell reads the positions and allocations a buy has created. A suggestion reads balances that a later buy
checks again. A dashboard reads what all of them commit, one statement after the other.

**Hard behaviours.** Every `await` of a handler is a point where others run. A request makes up to a
dozen statements and may fail, or die, at any of them. Funds are checked long before they are spent. Locks
of several users are taken one at a time, by sessions that keep their pooled connection while they wait. Every
share of an amount is rounded to eight decimals, some with the remainder given to one user and some not.
A read that needs several statements sees several moments. `PROJECT.json` lists each hazard at its line with
the properties that cover it.

## 2. Modules

| Module | Models | Kind |
|---|---|---|
| `CashLedger` | what deposits and buys promise: each is one atomic step | abstract specification |
| `BuyDeposit` | `execute_buy` and `record_deposit`, statement by statement | detailed specification, implements `CashLedger` |
| `BuyCosts` | the loop of `_calculate_user_costs` | algorithm |
| `PositionBook` | what a sell promises: owners give up their part in one atomic step | abstract specification |
| `SellExecution` | `execute_sell`, statement by statement | detailed specification, implements `PositionBook` |
| `AllocationSuggestion` | the four strategies and the estimates | algorithms |
| `ProfileUpdates` | `update_current_user_profile`, statement by statement | detailed specification |
| `InvestorDashboard` | `get_investor_details`, against deposits, buys and sells | composition: an instance of `CashLedger`, owners and sells |
| `InvestorList` | `list_investors`, and a client that walks its pages | detailed specification |
| `RequestPipeline` | a request from the token to the answer, the pool, the handlers, repeats | detailed specification |
| `TokenValidation` | `get_current_user` while the issuer rotates its keys | detailed specification |
| `TradeRequests` | the validators of buys, sells and suggestions | algorithms |
| `SumLemmas` | sums of functions over finite sets; functions defined by recursion on numbers | lemmas |
| `BuyDeposit_proofs`, `SellExecution_proofs`, `ProfileUpdates_proofs`, `RequestPipeline_proofs`, `TokenValidation_proofs` | theorems about the module of that name | proofs |
| `TradeInputs_proofs` | theorems about `BuyCosts`, `TradeRequests` and `AllocationSuggestion`, the modules of `MCTradeInputs` | proofs |
| `ProfileViews_proofs` | theorems about `InvestorDashboard` and `InvestorList`, the modules of `MCProfileViews` | proofs |
| `MCSellExecution`, `MCRequestPipeline` | constant values and symmetry for TLC | model checking |
| `MCTradeInputs`, `MCProfileViews` | one run for the modules that share no state: `TradeRequests`, `BuyCosts` and `AllocationSuggestion`; `InvestorDashboard` and `InvestorList`. They instantiate the others, with what is assumed of the constants | model checking |

Definitions named `X_Something` under a comment "Mutant" are wrong variants of `X`, at least one for each property:
substituted for `X`, they make TLC report the property.

### Database semantics assumed

The code relies on PostgreSQL at its default isolation. The models take from it:

* READ COMMITTED: a statement sees what is committed when it starts, and its own transaction's rows. So a
  handler's rows are kept per session (`written`, `updated`, `credited`...) and published by `Commit` in one step.
* `SELECT ... FOR UPDATE` takes a row exclusively until the transaction ends, and waits while another holds it.
  The foreign-key check of an inserted ledger row takes `FOR KEY SHARE` on the account: it waits for
  `FOR UPDATE` and is compatible with itself.
* A rollback, or a lost connection, drops the rows and releases the locks.
* `created_at` is the start of a transaction: rows may be committed out of its order.

A waiting statement is an action that is not enabled. The server's deadlock detector is not modelled (the
property is that it is never needed). `autoflush` is off and every `create` and `update` of the repositories
flushes, so a row is written where its `create` is. The connection pool is in `RequestPipeline` only.

### BuyDeposit

One session carries one request. `pc[s]` names the next statement:

    buy:      profile -> lock -> funds -> (next user: profile ...) -> treasury -> trade -> allocations
              -> ledger -> commit
    deposit:  profile -> account -> deposit -> lot -> balance -> commit

and `raised` is the `except Exception: rollback; raise` that each ends in on any error. `pending[s]` holds the
users of a buy not validated yet; `IsNextUser` is the `sorted(..., key=str)` of line 191. `cash`, `lots` and
`invested` are, per user, the committed sums of ledger rows, capital lots and allocation costs. They are separate
variables because the code writes them by separate statements, and that they agree is a property.
`Crash` may happen at any statement. An amount of 0 in `Amount` is a deposit that the column's scale rounds to zero:
its lot violates `CHECK (original_amount > 0)` after its ledger row has been flushed. Such a row adds nothing to any
sum, so `LedgerReconciles` compares the rows of a session that has ended as well (`RowsAreWhole`). Costs may be
any integers here: `BuyCosts` says what the split yields.

`DepositRowAccepted` says whether the schema takes the NULLs a deposit's ledger row has. The ORM model declares
both columns NOT NULL; the migrations that would create the deployed schema are not in the repository. The main runs
take a schema that accepts the row, because otherwise there are no deposits to check; one run takes the declared one.

### BuyCosts

The list of allocations of a request is taken from what is left of the quantity, so one specification covers
every list. `excess` records how far the latest user is from its exact share.

### SellExecution

    position -> allocations -> realizations -> ledger -> holdings -> commit

`seen`, `rows`, `realized`, `credited`, `fees` and `updated` are the local values of a handler between its awaits.
Between two stores the code computes with 28 digits: here amounts are exact integers over a common denominator
`Units(s)`, and a store rounds to the nearest tick. What 28 digits lose may tip a comparison of equal values, or a
rounding of a tie, so both outcomes are allowed there. The loop of `_build_realizations` visits allocations in any
order, since the query has no ORDER BY, and `FeeAt` keeps `performance_fee` across iterations exactly as
the local variable does. The initial states are positions as a buy leaves them: allocated in full, each owner's cost
the price of its shares and what `BuyCharge` says it was charged. (What rounding leaves to the last user of a buy may be
negative by a few ticks; such a cost is not among the initial states.)

`PositionBook` is what a sell promises to owners: they give up a quantity of the position, all in proportion or one
alone, each to a tick, in one step that moves as much money as leaves the treasury. `ImplementsPositionBook` says that
sells of many statements, among others and crashes, are such steps.

### AllocationSuggestion

One request per behaviour; each action builds one option, in the order of `generate_suggestions`. `tips` says which
quantities' ties are rounded up, so that the same estimate is always rounded the same way, as in the code. Equal
remainders of unequal balances may be ranked either way. A loop over the candidates is a recursive function of the
number of turns taken: `best` (the retries of `_max_affordable_quantity`), `remaining` (what the turns leave) and
`upTo` (the allocations listed so far). A price that has been rounded to zero ends the request at the conservative
option, whose reduced request passes the schema again. Candidates without a profile or an account end it before the
first option and are left out.

### ProfileUpdates

    load -> flush -> refresh -> close

The session is the one `get_db_session` opens for the request. The ORM writes an UPDATE only for a name that has
changed; the UPDATE takes the row until the session closes, and nothing on the path commits. The refresh reads the
session's own version of the row, if it has written one. `stored` is the committed name.

### InvestorDashboard

    profile -> account -> balance -> deposits -> recent -> invested -> count -> allocations -> positions

One dashboard is built; each of its statements sees what is committed then. The commits of others are single steps:
deposits and buys are those of `CashLedger`, by `INSTANCE`, extended with the ledger rows and allocations the
dashboard reads; a sell reduces or closes open allocations. `asOf` remembers what each statement saw of the user's
totals, for the properties only. Ledger rows are placed anywhere in the order of `created_at`. The last step always
answers; in the code the answer of an investor whose `full_name` is NULL is an error, so the properties say a little more
than is ever shown.

### InvestorList

    count -> slice -> items -> answered -> (next page) ...

A client asks for pages 1, 2, ... up to the `total_pages` of the last answer, while investors register (their
profiles come from outside the repository). `registered` and `torn` are history: how many registered since the first
slice, and how many of them between the last count and its slice.

### RequestPipeline

    token -> checkout -> role -> service -> body -> commit -> (a deposit: respond ->) close -> answered
                                    \-> except -> close

`checkout` is the first statement of the session, which takes a connection of the pool and keeps it until its
transaction ends. The body of a transaction, which `BuyDeposit` and `SellExecution` model, is one row lock, and then it
commits or raises. A deposit shares its lock with other deposits in the code; here it waits as if it did not, which
only makes the pool easier to exhaust. `close` ends `get_db_session` and answers through the registered handlers
(`StatusOf`; 400 stands for every status that says the request was refused). `LoseConnection` and `LoseCommit` are a
connection that breaks, the latter while the commit is under way: the server may or may not have completed it.

A buy and a sell have built their response when they commit, and only return after it. `record_deposit` commits first
(`ledger_service.py:87`) and builds `AdminDepositResponse` then, inside the `try`: an exception there would be rolled back
in vain, and answered as a server error although the deposit is stored. `Respond` is that step, and it cannot raise, for
a reason that lies elsewhere: `expire_on_commit=False` (`session.py:32`) leaves `transaction.id` loaded, where the default
would read it again, in a coroutine that does not await it. The other three fields are values the request's schema has
validated as the very types the response declares, and the `Decimal` that `get_account_balance` returns. The mutant
`Respond_Expired` is the session with the default: both `AnswerMatchesOutcome` and `RepeatsNeedLostCommits` fail.

`applied`, `lost` and `unheard` count, per client, commits, commits during which the connection broke, and answers of
success that did not arrive. `Retry` sends the request again after any answer: a refusal, a server error, or a success
the client has not heard of. Nothing in a request tells a repeat from a new one, so `RepeatsNeedLostCommits` says how
often that can count: once, and once more for every commit the client was not told of.

That a connection is returned before its request is answered is how FastAPI ended dependencies with `yield` from 0.106
on, when it runs their exit code before the response is sent; later releases run it after, and `requirements.txt` pins
none. Only the first conjunct of `NothingOutlivesItsRequest` depends on it: the transaction, its locks and, with
SQLAlchemy, its connection end with the commit or the rollback in the service.

### TokenValidation

A validation awaits nothing, so one runs at a time: it fetches the issuer's keys with an empty cache, fetches once
more when the token's key is not among them, and decodes. `Rotate` is the issuer. `within` and `throughout` are the keys
published at some and at every moment of the validation under way.

### TradeRequests

A request is a record of numbers, each with the length it is written in, as the precision validators look at the
exponent. Validators run in pydantic's order: constraints of a field, validators of a field (not for one that is left
out), validators of the model; then the service's own check of what the request alone decides: users listed twice, a
targeted sell of no user. What passes is what `BuyCosts` and `SellExecution` take as inputs.

## 3. Runs

| Run | Question | Bounds and why they are enough |
|---|---|---|
| `buy_deposit` | safety of concurrent buys and deposits, refinement of `CashLedger`, and does every request end? | two requests, which may be two buys of common users or a buy and a deposit; four users: two that may be bought for (a lock cycle needs two), one inactive, one without an account; a cash of one that two buys both find enough, and a deposit of zero that the schema refuses. More requests and other amounts: section 5 |
| `deposit_orm_schema` | a deposit against the declared schema | violated: finding |
| `sell` | consistency of concurrent sells, refinement of `PositionBook` | two users, two sells; ten ticks to a share so that shares do not divide, and a tick of charges so that costs per share differ; quantities that leave one tick (29 of 30), sell all, overdraw, and leave a drift that a later sell meets |
| `sell_ends` | does every sell end? | three users, one without a settlement account |
| `sell_at_loss` | what the documented fields of a realization say | violated: finding |
| `trade_inputs` | schemas, cost split and suggestions: what is computed before a trade locks anything | two users and lists of up to two, values of half a tick, a tick, a fraction, a share and more, negative charges, a price of zero; splits of up to seven shares, so up to seven users; three candidates with balances from nothing to more than enough, targets below and above their number, charges not divisible by the quantity |
| `untargeted_sell` | does a targeted sell name its user? | violated: finding |
| `profile_updates` | concurrent updates of display names | three sessions, so that two may wait for the row of a third; two users, one without a profile |
| `profile_stored` | is an answered update in the database? | violated: finding |
| `profile_views` | what a dashboard and the investor list show while others commit | four commits, enough for two positions bought, sold and closed, or a deposit before and after; two of four profiles register during a walk over pages of one or two |
| `requests` | what an answer says of what is stored, and is there always one? | three clients and two connections, so that the pool is exhausted while one waits for the row lock of another; one client makes a deposit and repeats it, after any answer |
| `tokens` | are withdrawn keys refused and published ones accepted, and does every validation end? | two tokens, three keys: one withdrawn, one published and one in use |

Properties, in short. `BuyDeposit`: `CashNonNegative`, `LedgerReconciles`, `FundsReserved` (funds found sufficient
stay locked and sufficient), `NoLockCycle`, `ReportedIsCovered`, `ImplementsCashLedger`, `EveryRequestEnds`.
`BuyCosts`: `PaidInFull`, `ChargedWithinRounding`. `SellExecution`: `NoOverselling`, `OpenIsDivisible` (no division
by zero in the next sell), `HoldingsTrackPosition` (drift bounded by the number of roundings), `FullSaleCloses`,
`SettlementConserves`, `ImplementsPositionBook`, `EveryRequestEnds`. `AllocationSuggestion`: `WithinTarget`,
`DeploysTheMost` (largest wallet first deploys the maximum, among the fewest users), `BalancedIsEven`,
`EstimatesCoverTheTrade`, `FullDeploymentIsPayable` (against what the buy will charge). `ProfileUpdates`:
`AnswersAsAsked`, `EveryRequestEnds`. `InvestorDashboard`: `CashWithinDeposits` (it depends on the order of the
statements), `NoMoneyVanishes`, `ShownTwiceIsBounded`, `HoldingsComplete`, `SameMomentAgrees`. `InvestorList`:
`NobodyMissed`, `RepeatsAreRegistrations`. `RequestPipeline`: `NothingOutlivesItsRequest`, `AnswerMatchesOutcome`,
`RepeatsNeedLostCommits`, `EveryRequestAnswered`. `TokenValidation`: `AcceptedWasPublished`, `PublishedIsAccepted`,
`EveryTokenIsJudged`. `TradeRequests`: `BuysAreWhole`.

**Fairness.** Weak fairness of each handler's `Step`: the event loop runs a ready coroutine, and the server
answers a statement that need not wait. Nothing is assumed of `Submit`, `Crash`, `Fail`, `Fault`, `Retry` or `Rotate`:
in particular no wait ends only because a connection breaks or the pool's timeout expires. A fetch of keys that fails
ends a validation as well as one that succeeds, so fairness of `Step` in `TokenValidation` says that a fetch returns.
Weak fairness does not promise a lock to a session for which others compete for ever, but a session carries one
request, and repeats are bounded, so competitors run out; with a stream of requests the queue of the server's lock
manager gives the order, which is not modelled.

Deadlock is checked in every run; `Quiescent`, `Done` and the last disjunct of the other `Next` are the only
stuttering disjuncts, and they require that everything has ended.

## 4. Findings

1. `DepositNeverRefused`: the ledger row of every deposit leaves NULL two columns that the ORM declares NOT NULL
   (`ledger_service.py:65`, `db/models/ledger.py:66`, `:70`).
2. `LossesAreRealized`: a sell whose first allocation makes no gain reads an unbound local and fails
   (`sell_service.py:326`). A position cannot be sold at a loss.
3. `UpdateIsStored`: the update of a display name is flushed, answered and never committed (`profile_service.py:86`).
4. `TargetedNamesUser`: a targeted sell that leaves `target_user_id` out passes the schema, because the validator of a
   field does not run when the field takes its default (`schemas/admin/trade.py:201`); an explicit null is refused. The
   service locks the position, finds no allocations of no user and refuses the sell (`sell_service.py:188`; `EnterSell`).

Seen while modelling, with no run of their own:

* An allocation without a gain, after one with a gain, is charged the fee the local still holds
  (`sell_service.py:326`; `FeeAt`). Within one position costs per unit differ only by roundings, so the
  amounts are small.
* A suggestion that falls short of the target estimates its last user all the charges the others do not bear, and
  that may be more than its cash (`allocation_suggestion_service.py:141`). No property says otherwise:
  `EstimatesCoverTheTrade` asks only that the estimates add up, and `FullDeploymentIsPayable` is about the options that
  reach the target.
* One investor whose `full_name` is NULL makes its page of the list a server error (`profile_service.py:133`;
  `Answer` of `InvestorList`), since the response requires a name.
* An investor who registers between the count and the slice is on the page and not in the total
  (`profile_repository.py:207`). A client that walks to `total_pages` then stops early: `NobodyMissed` bounds whom it
  misses by those who registered between the last count and its slice (`torn`).
* `auth.py:9` promises cached keys, but each request makes a `PyJWKClient`, whose cache is empty (`auth.py:62`;
  `Begin`), and fetches them in a blocking call, during which no other request runs (`busy`). That is also why a
  withdrawn key is refused at once: a shared client is the mutant of
  `AcceptedWasPublished`.
* A suggestion's target below half a tick passes `gt=0`, is rounded to zero, and zero is a whole number
  (`schemas/admin/allocation.py:23`; `Rounded`). The conservative option of such a request suggests one share, which
  nobody asked for (`allocation_suggestion_service.py:367`; the second alternative of `WithinTarget`).

## 5. Proofs

All theorems hold for every value of the constants that the module's `ConstantsAssumption` allows; users, sessions and
clients are arbitrary, or arbitrary finite sets where a sum or a least element is taken.

| Module | Theorems |
|---|---|
| `BuyDeposit_proofs` | `TypeCorrect`, `NoOverspending` (`CashNonNegative`), `Reconciliation` (`LedgerReconciles`), `Reservation` (`FundsReserved`), `NoDeadlock` (`NoLockCycle`), `ReportedBalance` (`ReportedIsCovered`), `Refinement` (`ImplementsCashLedger`) |
| `TradeInputs_proofs` | of the cost split: `SplitTypeCorrect`, `SplitInvariance`, `CostsAddUp` (`PaidInFull`), `RoundingBound` (`ChargedWithinRounding`); of the schemas: `AcceptedBuys` (`BuysAreWhole`); of the suggestion: `SuggestionInvariance`, `StaysWithinTarget` (`WithinTarget`), `EstimatesAddUp` (`EstimatesCoverTheTrade`), `OffersArePayable` (`FullDeploymentIsPayable`), `BalancedOptionsEven` (`BalancedIsEven`), `FirstOptionDeploysMost` (`DeploysTheMost`) |
| `SellExecution_proofs` | `TypeCorrect`, `PositionIsNotOversold` (`NoOverselling`), `OpenAllocationsDivide` (`OpenIsDivisible`), `MoneyIsConserved` (`SettlementConserves`), `HoldingsAreTracked` (`HoldingsTrackPosition`), `FullSalesClose` (`FullSaleCloses`), `SellsImplementTheBook` (`ImplementsPositionBook`) |
| `ProfileUpdates_proofs` | `TypeCorrect`, `AnswersCarryTheName` (`AnswersAsAsked`) |
| `RequestPipeline_proofs` | `TypeCorrect`, `SessionsEnd` (`NothingOutlivesItsRequest`), `AnswersAreTrue` (`AnswerMatchesOutcome`), `RepeatsAreSafe` (`RepeatsNeedLostCommits`), `RefusalsHaveHandlers`, `AdministratorsOnly` |
| `TokenValidation_proofs` | `TypeCorrect`, `AcceptedTokensWerePublished`, `PublishedTokensAreAccepted` |
| `ProfileViews_proofs` | of the dashboard: `DashboardInvariant`, `DashboardCash` (`CashWithinDeposits`), `DashboardMoney` (`NoMoneyVanishes`), `DashboardTwice` (`ShownTwiceIsBounded`), `DashboardHoldings` (`HoldingsComplete`), `DashboardAgrees` (`SameMomentAgrees`); of the list: `WalkInvariant`, `WalkMissesNobody` (`NobodyMissed`), `WalkRepeats` (`RepeatsAreRegistrations`) |

**Buys and deposits.** `CashNonNegative` is not inductive: a commit debits what was checked many steps before.
`FundsReserved` carries the check to the commit, but holds only while the lock does, and only if no user remains
unvalidated when rows are written. So `IInv` adds: `PhaseInv` (which statements belong to which kind of request, and
which have no user left to validate), `RequestInv` (the request's users exist and have what the code looked up),
`BuyInv` and `DepositInv` (which rows are written at which statement: all of them at `commit`, as `RowsAreWhole` needs), and `LockInv` (a lock
is held by a session that is running, exclusively or shared but not both). A commit of another session cannot disturb
reserved funds: a buy that debits the account would hold its lock, and a deposit only adds. There is one lemma per
conjunct group (`TypeStep`, `PhaseStep`, `LockStep`, ...), with one step per action, and `CommitEffect` says what a
commit does to the sums. The refinement follows from `CommitEffect`, `FundsReserved` and `OtherSteps`: only commits
change what `CashLedger` sees.

`NoLockCycle` rests on one more invariant, `LockOrder`: a buy holds only accounts of users before those it has left
to validate, and a deposit that has locked has nothing left to wait for. So along a chain of waits the awaited users
increase, and `OrderBreaksCycles` takes the greatest user awaited in a set of sessions that all wait for each other,
which exists because the set of users is finite.

**The cost split.** `SplitInv` says what the remaining charges are in terms of the costs so far, and bounds their
distance from the exact share of the shares left by half a tick per user.

**Accepted buys.** `SchemaInv` gives the shape of a body by the validators it has passed. A list of allocations is of
any length, so that its sum is of whole shares (`WholeSum`) is proved by adding one allocation at a time.

**Suggestions.** The state is simple (`SuggestionInv`: the options built are those of the request, in turn); what has
to be proved is what the algorithms compute, for any number of candidates. `IsOffer` is what every option satisfies:
positive quantities its users can afford, at most the target in all, and estimates as `_build_option` makes them. `BuiltOffer` shows it of whatever is assigned within these limits, `TurnsOffer` of the turns of the greedy and
the balanced options (`TakesTurns`: everybody gets the most it affords, or all that remains) and `ProportionalOffer`
of the quotas. From `IsOffer` follow `WithinTarget`, the error of the estimates (`OfferEstimates`, one rounding
per place) and what a buy will charge (`OfferPayable`). `BalancedEven` needs that an equal share remains for everyone
still to come (`CapLeaves`), so that only cash can have limited who got less. `LargestFirstDeploysMost` is an exchange
argument: while shares remain everybody is given the most it affords (`TakesMost`), so that nobody can be given more;
and if the target is reached in the k-th turn, fewer than k users, whoever they are, cannot afford as much as the first
k - 1 have been given, since a larger wallet affords what a smaller one does (`FewerAreLess`). The
order of the wallets exists by counting those before each (`LargestFirstSorts`). The recursive functions exist and
satisfy their equations by `RecursionExists` of `SumLemmas`.

**Sells.** The code's arithmetic is over sums of the quantities of the selected allocations. The community modules
define such a sum by a fold, of which tlapm knows nothing; `SumLemmas` derives from the definition of the fold what is
needed (the sum over nothing, one element more or less, two disjoint sets, bounds, equal summands), by least-element
arguments over the finite set, since induction theorems with an operator parameter cannot be used. `IInv` of
`SellExecution_proofs` says what each phase of a sell has established, of its rows: `Selected` (they are the
allocations as they stand, because the position is locked), `Built` (realizations divide what the trade earns),
`Paid` (payments are within one and a half ticks of it), `Reduced` (what is left of each allocation is its part to
half a tick, and a closed one had no more than a tick). `CommitEffect` collects what a commit finds. The second half
of the module adds the bounds of the users up (`CommitConserves`: what leaves the treasury; `CommitTracks`: the drift of the
holdings) and shows a commit to be a step of `PositionBook` (`CommitSells`).

**Requests and tokens.** The invariants of `RequestPipeline_proofs` say which phase holds a connection and a lock, and
relate `applied`, `lost`, `unheard`, `raised` and `status` of a client by phase: what has been raised and not answered has
no commit that `lost` does not count, and a client that goes through `respond` and `close` with nothing raised has one more
than it has been told of (`Done`). `TokenValidation_proofs` relates the keys fetched to `within` and `throughout`.

**Dashboards.** What a dashboard shows is true of different moments. `DashboardInv` says of each statement what was true
when it read (`ViewIsHistory`: the figures shown are those `asOf` remembers), how the totals have moved since
(`HistoryGrows`: deposits and investments only grow, so that an earlier statement has seen no more than a later one),
and that the account, the lots, the rows and the allocations agree now (`BooksAgree`). None of the five properties is
inductive without them, because each compares figures of two moments.

**The list.** `WalkInv` rests on one fact: a registration only moves rows towards the pages not read yet. So whoever was
listed when the walk began is still listed (`KnownListed`), and has been shown if its row is on a page already read
(`KnownShown`). The slice of the last page leaves out no more places than have been filled since its count (`CountIsCurrent`,
`LastPage`). The rows that have been or will be shown a second time are no more than the registrations so far
(`RepeatsToCome`).

The theorems of `TradeInputs_proofs` are about `Split!Spec`, `Schema!Spec` and `Spec` (the suggestion), those of
`ProfileViews_proofs` about `Spec` (the dashboard) and `List!Spec`: the specifications whose union the run checks.

**Only model-checked.** Liveness: `EveryRequestEnds` (three modules), `EveryRequestAnswered` and `EveryTokenIsJudged`,
out of TLAPS's reach. Every safety property of a run is proved. **Only proved:** the types of
`BuyCosts`, `ProfileUpdates`, `RequestPipeline` and `TokenValidation`, the inductive invariants of the suggestion, the
dashboard and the list, `RefusalsAreExplained` and `OnlyAdministratorsWork`.

## 6. Not modelled, and why

* Withdrawals and market prices: repositories and tables that no service calls; there is no workflow.
* Configuration: constants read at start. Workers, portfolio, utilities, tests and migrations: docstrings without code.
* The bodies of queries that no service calls, in modelled repositories.
* The treasury's balance is not bounded by any statement of the repository: proceeds come from outside the ledger.
  `allocated_quantity` of a position is written by sells and read by nobody.
* Equal `created_at` of two investors have no order, so a page boundary between them is up to the server.
* Deactivation of a profile has no code. Dates, notes, symbols and metadata carry no control.

## 7. Plan

Done, in order of importance: `BuyDeposit` with `CashLedger` and proofs; `BuyCosts` with proofs; `SellExecution` with
`PositionBook` and proofs; `AllocationSuggestion` with proofs; `ProfileUpdates` with proofs; `RequestPipeline` and
`TokenValidation` with proofs; `InvestorDashboard` and `InvestorList` with proofs; `TradeRequests` with proofs.

Next:

1. Buys and sells over one ledger: conservation across the life of a position, from deposits to settlements, as a
   composition of `CashLedger` and `PositionBook`.
2. Which users a proportional option leaves out, and by how much the quotas of the others may differ from their share.
