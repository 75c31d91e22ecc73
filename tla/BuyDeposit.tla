------------------------------ MODULE BuyDeposit ------------------------------
(***************************************************************************)
(* Buys (BuyService.execute_buy) and deposits (LedgerService.              *)
(* record_deposit) running concurrently over one PostgreSQL database.      *)
(*                                                                         *)
(* Every request runs in a database session of its own (db/session.py), so *)
(* a session carries one request, and each await of a handler is an        *)
(* action.  The database is READ COMMITTED: a statement sees what is       *)
(* committed when it starts plus the session's own rows, and a session's   *)
(* rows stay in its transaction (`written') until it commits.  SELECT ...  *)
(* FOR UPDATE takes a row exclusively; the foreign-key check of a new      *)
(* ledger row takes FOR KEY SHARE on the account, which waits for FOR      *)
(* UPDATE and shares with itself.                                          *)
(*                                                                         *)
(* Amounts are in ticks of 1e-8, the scale of every monetary column.       *)
(***************************************************************************)
EXTENDS Integers, FiniteSets

CONSTANTS
    User,                  \* a user, as the rank of str(user_id)
    Session,               \* one request each
    Cost,                  \* per-user costs a buy may carry (see BuyCosts)
    Amount,                \* deposit amounts as stored: 0 is less than half a tick
    InitialCash,           \* balances of accounts funded before
    ActiveUser,            \* profiles with is_active
    HasCashAccount,        \* users with an active USER_CASH account
    TreasuryConfigured,    \* is there an active PLATFORM_TREASURY account?
    DepositRowAccepted,    \* does the schema take a NULL from_account_id/reference_id?
    None

ASSUME ConstantsAssumption ==
    /\ User \subseteq Nat /\ IsFiniteSet(User)
    /\ Cost \subseteq Int
    /\ Amount \subseteq Nat
    /\ InitialCash \subseteq Nat
    /\ ActiveUser \subseteq User
    /\ HasCashAccount \subseteq User
    /\ TreasuryConfigured \in BOOLEAN
    /\ DepositRowAccepted \in BOOLEAN
    /\ None \notin Session

VARIABLES
    cash, lots, invested,  \* committed sums per user, as in CashLedger
    lockX,                 \* lockX[u]: session holding u's cash account FOR UPDATE
    lockS,                 \* lockS[u]: sessions holding it FOR KEY SHARE
    pc,                    \* pc[s]: the statement session s runs next
    kind,                  \* kind[s]: "buy" or "deposit"
    req,                   \* req[s]: user |-> amount of the request
    pending,               \* pending[s]: users of req[s] not validated yet
    written,               \* written[s]: tables s has inserted its rows into
    reported               \* reported[s]: updated_balance of a deposit

data  == <<cash, lots, invested>>
locks == <<lockX, lockS>>
vars  == <<data, locks, pc, kind, req, pending, written, reported>>

Terminal  == {"committed", "rejected", "crashed"}
Running   == {"profile", "lock", "funds", "treasury", "trade", "allocations",
              "ledger", "account", "deposit", "lot", "balance", "commit", "raised"}
NoRequest == [u \in {} |-> 0]

Init ==
    /\ cash \in [User -> InitialCash]
    /\ lots = cash
    /\ invested = [u \in User |-> 0]
    /\ lockX = [u \in User |-> None]
    /\ lockS = [u \in User |-> {}]
    /\ pc = [s \in Session |-> "idle"]
    /\ kind = [s \in Session |-> "buy"]
    /\ req = [s \in Session |-> NoRequest]
    /\ pending = [s \in Session |-> {}]
    /\ written = [s \in Session |-> {}]
    /\ reported = [s \in Session |-> 0]

\* Session s is at statement `from' and continues at `to'.
Goto(s, from, to) ==
    /\ pc[s] = from
    /\ pc' = [pc EXCEPT ![s] = to]

-------------------------------------------------------------------------------
(* execute_buy *)

\* Mutant: every user is validated, not only those of the request.
SubmitBuy_EveryUser(s, users, cost) ==
    /\ Goto(s, "idle", "profile")
    /\ kind' = [kind EXCEPT ![s] = "buy"]
    /\ req' = [req EXCEPT ![s] = cost]
    /\ pending' = [pending EXCEPT ![s] = User]
    /\ UNCHANGED <<data, locks, written, reported>>

\* A request with its user costs computed; a user listed twice is rejected.
SubmitBuy(s, users, cost) ==
    /\ kind' = [kind EXCEPT ![s] = "buy"]
    /\ \/ /\ Goto(s, "idle", "profile")
          /\ req' = [req EXCEPT ![s] = cost]
          /\ pending' = [pending EXCEPT ![s] = users]
       \/ /\ Goto(s, "idle", "raised")
          /\ UNCHANGED <<req, pending>>
    /\ UNCHANGED <<data, locks, written, reported>>

\* Mutant: the users are validated in the order of the request, which is any.
IsNextUser_RequestOrder(s, u) == u \in pending[s]

\* The users are validated in the order of str(user_id).
IsNextUser(s, u) ==
    /\ u \in pending[s]
    /\ \A v \in pending[s] : u <= v

ReadProfile(s, u) ==
    /\ kind[s] = "buy"
    /\ IsNextUser(s, u)
    /\ Goto(s, "profile", IF u \in ActiveUser THEN "lock" ELSE "raised")
    /\ UNCHANGED <<data, locks, kind, req, pending, written, reported>>

\* Mutant: the account is read without FOR UPDATE.
LockCashAccount_PlainRead(s, u) ==
    /\ IsNextUser(s, u)
    /\ Goto(s, "lock", IF u \in HasCashAccount THEN "funds" ELSE "raised")
    /\ UNCHANGED <<data, locks, kind, req, pending, written, reported>>

\* SELECT ... FOR UPDATE returns once no other session has the row.
LockCashAccount(s, u) ==
    /\ IsNextUser(s, u)
    /\ \/ /\ u \notin HasCashAccount
          /\ Goto(s, "lock", "raised")
          /\ UNCHANGED lockX
       \/ /\ u \in HasCashAccount
          /\ lockX[u] = None
          /\ lockS[u] \subseteq {s}
          /\ Goto(s, "lock", "funds")
          /\ lockX' = [lockX EXCEPT ![u] = s]
    /\ UNCHANGED <<data, lockS, kind, req, pending, written, reported>>

\* Mutant: a shortfall of one tick is let through.
CheckFunds_Tolerant(s, u) ==
    /\ IsNextUser(s, u)
    /\ cash[u] + 1 >= req[s][u]
    /\ Goto(s, "funds", IF pending[s] = {u} THEN "treasury" ELSE "profile")
    /\ pending' = [pending EXCEPT ![s] = @ \ {u}]
    /\ UNCHANGED <<data, locks, kind, req, written, reported>>

\* get_account_balance under the lock.
CheckFunds(s, u) ==
    /\ IsNextUser(s, u)
    /\ \/ /\ cash[u] < req[s][u]
          /\ Goto(s, "funds", "raised")
          /\ UNCHANGED pending
       \/ /\ cash[u] >= req[s][u]
          /\ Goto(s, "funds", IF pending[s] = {u} THEN "treasury" ELSE "profile")
          /\ pending' = [pending EXCEPT ![s] = @ \ {u}]
    /\ UNCHANGED <<data, locks, kind, req, written, reported>>

LookupTreasury(s) ==
    /\ Goto(s, "treasury", IF TreasuryConfigured THEN "trade" ELSE "raised")
    /\ UNCHANGED <<data, locks, kind, req, pending, written, reported>>

\* The trade and its position are flushed; no balance depends on them.
CreateTradeAndPosition(s) ==
    /\ Goto(s, "trade", "allocations")
    /\ UNCHANGED <<data, locks, kind, req, pending, written, reported>>

\* Mutant: the ledger rows of the trade are built and not inserted.
CreateAllocations_ThenCommit(s) ==
    /\ Goto(s, "allocations", "commit")
    /\ written' = [written EXCEPT ![s] = @ \cup {"allocations"}]
    /\ UNCHANGED <<data, locks, kind, req, pending, reported>>

CreateAllocations(s) ==
    /\ Goto(s, "allocations", "ledger")
    /\ written' = [written EXCEPT ![s] = @ \cup {"allocations"}]
    /\ UNCHANGED <<data, locks, kind, req, pending, reported>>

CreateFundingRows(s) ==
    /\ Goto(s, "ledger", "commit")
    /\ written' = [written EXCEPT ![s] = @ \cup {"ledger"}]
    /\ UNCHANGED <<data, locks, kind, req, pending, reported>>

-------------------------------------------------------------------------------
(* record_deposit *)

SubmitDeposit(s, u, amount) ==
    /\ Goto(s, "idle", "profile")
    /\ kind' = [kind EXCEPT ![s] = "deposit"]
    /\ req' = [req EXCEPT ![s] = [v \in {u} |-> amount]]
    /\ UNCHANGED <<data, locks, pending, written, reported>>

ReadInvestor(s, u) ==
    /\ kind[s] = "deposit"
    /\ u \in DOMAIN req[s]
    /\ Goto(s, "profile", IF u \in ActiveUser THEN "account" ELSE "raised")
    /\ UNCHANGED <<data, locks, kind, req, pending, written, reported>>

\* get_user_cash_account: a plain SELECT, no lock.
ReadCashAccount(s, u) ==
    /\ u \in DOMAIN req[s]
    /\ Goto(s, "account", IF u \in HasCashAccount THEN "deposit" ELSE "raised")
    /\ UNCHANGED <<data, locks, kind, req, pending, written, reported>>

\* Mutant: the row's foreign key does not lock the account it credits.
CreateDepositRow_NoKeyShare(s, u) ==
    /\ u \in DOMAIN req[s]
    /\ DepositRowAccepted
    /\ Goto(s, "deposit", "lot")
    /\ written' = [written EXCEPT ![s] = @ \cup {"ledger"}]
    /\ UNCHANGED <<data, locks, kind, req, pending, reported>>

\* The ledger row has no from_account_id and no reference_id.  If the columns
\* are NOT NULL the flush fails; else its foreign-key check locks the account.
CreateDepositRow(s, u) ==
    /\ u \in DOMAIN req[s]
    /\ \/ /\ ~DepositRowAccepted
          /\ Goto(s, "deposit", "raised")
          /\ UNCHANGED <<lockS, written>>
       \/ /\ DepositRowAccepted
          /\ lockX[u] = None
          /\ Goto(s, "deposit", "lot")
          /\ lockS' = [lockS EXCEPT ![u] = @ \cup {s}]
          /\ written' = [written EXCEPT ![s] = @ \cup {"ledger"}]
    /\ UNCHANGED <<data, lockX, kind, req, pending, reported>>

\* Mutant: no lot is made for an amount stored as zero, and the deposit goes on.
CreateDepositLot_SkipsZero(s, u) ==
    /\ u \in DOMAIN req[s]
    /\ Goto(s, "lot", "balance")
    /\ written' = [written EXCEPT ![s] = IF req[s][u] > 0 THEN @ \cup {"lot"} ELSE @]
    /\ UNCHANGED <<data, locks, kind, req, pending, reported>>

\* ck_capital_lots_original_positive rejects an amount stored as zero.
CreateDepositLot(s, u) ==
    /\ u \in DOMAIN req[s]
    /\ \/ /\ req[s][u] <= 0
          /\ Goto(s, "lot", "raised")
          /\ UNCHANGED written
       \/ /\ req[s][u] > 0
          /\ Goto(s, "lot", "balance")
          /\ written' = [written EXCEPT ![s] = @ \cup {"lot"}]
    /\ UNCHANGED <<data, locks, kind, req, pending, reported>>

\* The balance read sees the committed rows and the session's own.
ReadUpdatedBalance(s, u) ==
    /\ u \in DOMAIN req[s]
    /\ Goto(s, "balance", "commit")
    /\ reported' = [reported EXCEPT ![s] = cash[u] + req[s][u]]
    /\ UNCHANGED <<data, locks, kind, req, pending, written>>

-------------------------------------------------------------------------------
(* The end of a transaction *)

\* The locks a transaction holds are released when it ends.
Release(s) ==
    /\ lockX' = [u \in User |-> IF lockX[u] = s THEN None ELSE lockX[u]]
    /\ lockS' = [u \in User |-> lockS[u] \ {s}]

\* The rows a session wrote, as what they add to user u's sums.
Credit(s, u, table) == IF table \in written[s] /\ u \in DOMAIN req[s]
                       THEN req[s][u] ELSE 0

Commit(s) ==
    /\ Goto(s, "commit", "committed")
    /\ cash' = [u \in User |-> IF kind[s] = "buy" THEN cash[u] - Credit(s, u, "ledger")
                                                  ELSE cash[u] + Credit(s, u, "ledger")]
    /\ lots' = [u \in User |-> lots[u] + Credit(s, u, "lot")]
    /\ invested' = [u \in User |-> invested[u] + Credit(s, u, "allocations")]
    /\ Release(s)
    /\ UNCHANGED <<kind, req, pending, written, reported>>

\* Mutant: the exception is re-raised without ending the transaction.
Rollback_KeepsLocks(s) ==
    /\ Goto(s, "raised", "rejected")
    /\ written' = [written EXCEPT ![s] = {}]
    /\ UNCHANGED <<data, locks, kind, req, pending, reported>>

\* except Exception: rollback; raise.
Rollback(s) ==
    /\ Goto(s, "raised", "rejected")
    /\ Release(s)
    /\ written' = [written EXCEPT ![s] = {}]
    /\ UNCHANGED <<data, kind, req, pending, reported>>

\* The process dies or the connection drops; the server aborts the transaction.
Crash(s) ==
    /\ pc[s] \in Running
    /\ pc' = [pc EXCEPT ![s] = "crashed"]
    /\ Release(s)
    /\ written' = [written EXCEPT ![s] = {}]
    /\ UNCHANGED <<data, kind, req, pending, reported>>

-------------------------------------------------------------------------------
Submit(s) ==
    \/ \E users \in (SUBSET User) \ {{}} :
          \E cost \in [users -> Cost] : SubmitBuy(s, users, cost)
    \/ \E u \in User, amount \in Amount : SubmitDeposit(s, u, amount)

Step(s) ==
    \/ \E u \in User :
          \/ ReadProfile(s, u)
          \/ LockCashAccount(s, u)
          \/ CheckFunds(s, u)
          \/ ReadInvestor(s, u)
          \/ ReadCashAccount(s, u)
          \/ CreateDepositRow(s, u)
          \/ CreateDepositLot(s, u)
          \/ ReadUpdatedBalance(s, u)
    \/ LookupTreasury(s)
    \/ CreateTradeAndPosition(s)
    \/ CreateAllocations(s)
    \/ CreateFundingRows(s)
    \/ Commit(s)
    \/ Rollback(s)

\* Every request has been answered or has died: nothing is left to run.
Quiescent ==
    /\ \A s \in Session : pc[s] \in Terminal
    /\ UNCHANGED vars

Next ==
    \/ \E s \in Session : Submit(s) \/ Step(s) \/ Crash(s)
    \/ Quiescent

Spec == Init /\ [][Next]_vars

\* A handler that can take its next statement eventually does; requests need
\* not arrive and nothing need crash.
FairSpec == Spec /\ \A s \in Session : WF_vars(Step(s))

-------------------------------------------------------------------------------
(* Properties *)

\* The types of the variables.  A request is a function from its users to
\* their amounts, and only its users await validation.
TypeOK ==
    /\ cash \in [User -> Int]
    /\ lots \in [User -> Int]
    /\ invested \in [User -> Int]
    /\ lockX \in [User -> Session \cup {None}]
    /\ lockS \in [User -> SUBSET Session]
    /\ pc \in [Session -> {"idle"} \cup Running \cup Terminal]
    /\ kind \in [Session -> {"buy", "deposit"}]
    /\ pending \in [Session -> SUBSET User]
    /\ written \in [Session -> SUBSET {"allocations", "ledger", "lot"}]
    /\ reported \in [Session -> Int]
    /\ DOMAIN req = Session
    /\ \A s \in Session :
          /\ DOMAIN req[s] \subseteq User
          /\ \A u \in DOMAIN req[s] : req[s][u] \in Int
          /\ pending[s] \subseteq DOMAIN req[s]

\* No interleaving of buys and deposits overspends an account: the lock of
\* get_user_cash_account_for_update "prevents concurrent workflows from
\* overspending the same user funds" (account_repository.py:134).
CashNonNegative == \A u \in User : cash[u] >= 0

\* What is stored of a request that has ended: all of its rows, or none.
RowsAreWhole ==
    \A s \in Session :
        /\ pc[s] \in {"rejected", "crashed"} => written[s] = {}
        /\ pc[s] = "committed" /\ kind[s] = "buy" => written[s] = {"allocations", "ledger"}
        /\ pc[s] = "committed" /\ kind[s] = "deposit" => written[s] = {"ledger", "lot"}

SumsAgree == \A u \in User : cash[u] = lots[u] - invested[u]

\* Every tick of a cash balance came from a capital lot and left with an
\* allocation: no commit, rollback or crash separates the ledger rows of a
\* trade or a deposit from the ownership rows written beside them, not even
\* when their amounts are zero and do not show in the sums.
LedgerReconciles == SumsAgree /\ RowsAreWhole

\* Funds found sufficient stay sufficient: a user a buy has validated is still
\* locked by it and can still pay, however many awaits separate the check from
\* the commit.
FundsReserved ==
    \A s \in Session :
        kind[s] = "buy" /\ pc[s] \in Running \ {"raised"} =>
            \A u \in DOMAIN req[s] \ pending[s] :
                /\ lockX[u] = s
                /\ cash[u] >= req[s][u]

\* Session s waits for a lock session t holds.
WaitsFor(s, t) ==
    /\ s # t
    /\ \E u \in User :
          \/ pc[s] = "lock" /\ IsNextUser(s, u) /\ (lockX[u] = t \/ t \in lockS[u])
          \/ pc[s] = "deposit" /\ u \in DOMAIN req[s] /\ lockX[u] = t

\* Validating users in sorted order "Locks cash accounts deterministically"
\* (buy_service.py:186): no sessions wait for each other in a cycle.
NoLockCycle ==
    \A waiting \in (SUBSET Session) \ {{}} :
        \E s \in waiting : \A t \in waiting : ~WaitsFor(s, t)

\* The balance a deposit answers with is never more than the account holds
\* when the deposit commits: no buy commits between the read and the commit.
ReportedIsCovered ==
    [][\A s \in Session :
          pc[s] = "commit" /\ pc'[s] = "committed" /\ kind[s] = "deposit" =>
              \A u \in DOMAIN req[s] : reported[s] <= cash'[u]]_vars

\* Buys and deposits made of many statements behave as single steps of the
\* abstract ledger: all users of a trade pay or none does, and each can.
Ledger == INSTANCE CashLedger WITH cash <- cash, lots <- lots, invested <- invested
ImplementsCashLedger == Ledger!Spec

\* Every request ends: it commits, is rejected or dies; no lock wait lasts.
EveryRequestEnds ==
    \A s \in Session : pc[s] \in Running ~> pc[s] \in Terminal

\* "create immutable ledger transaction" (ledger_service.py:42): a deposit of
\* a positive amount to an active investor with a cash account is recorded,
\* its insertion is never refused.
DepositNeverRefused ==
    \A s \in Session :
        kind[s] = "deposit" /\ pc[s] = "raised" =>
            \E u \in DOMAIN req[s] :
                u \notin ActiveUser \/ u \notin HasCashAccount \/ req[s][u] = 0
===============================================================================
