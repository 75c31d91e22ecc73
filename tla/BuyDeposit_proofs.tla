-------------------------- MODULE BuyDeposit_proofs --------------------------
(***************************************************************************)
(* Proofs about BuyDeposit for every set of users, sessions and amounts.   *)
(***************************************************************************)
EXTENDS BuyDeposit, SumLemmas

(* The inductive invariant. *)

\* Which statements belong to which handler, and a session without a request.
PhaseInv ==
    \A s \in Session :
        /\ pc[s] \in {"lock", "funds", "treasury", "trade", "allocations", "ledger"}
              => kind[s] = "buy"
        /\ pc[s] \in {"account", "deposit", "lot", "balance"} => kind[s] = "deposit"
        /\ pc[s] = "idle" => pending[s] = {} /\ written[s] = {}

\* A buy in flight carries costs.
RequestInv ==
    \A s \in Session :
        kind[s] = "buy" /\ pc[s] \in Running \ {"raised"} =>
            \A u \in DOMAIN req[s] : req[s][u] \in Cost

\* Where a buy stands: the lock it has just taken, the users it has left and
\* the rows it has written.
BuyInv ==
    \A s \in Session :
        kind[s] = "buy" /\ pc[s] \in Running \ {"raised"} =>
            /\ pc[s] = "funds" => \A u \in User : IsNextUser(s, u) => lockX[u] = s
            /\ pc[s] \in {"treasury", "trade", "allocations", "ledger", "commit"}
                  => pending[s] = {}
            /\ pc[s] \in {"profile", "lock", "funds", "treasury", "trade", "allocations"}
                  => written[s] = {}
            /\ pc[s] = "ledger" => written[s] = {"allocations"}
            /\ pc[s] = "commit" => written[s] = {"allocations", "ledger"}

\* Where a deposit stands: its one user and amount, the lock its row holds, the
\* rows it has written and the balance it has read.
DepositInv ==
    \A s \in Session :
        kind[s] = "deposit" /\ pc[s] \in Running \ {"raised"} =>
            /\ \E u \in User : DOMAIN req[s] = {u}
            /\ \A u \in DOMAIN req[s] :
                  /\ req[s][u] \in Amount
                  /\ pc[s] \in {"lot", "balance", "commit"} => s \in lockS[u]
                  /\ pc[s] = "commit" => reported[s] <= cash[u] + req[s][u]
            /\ pc[s] \in {"profile", "account", "deposit"} => written[s] = {}
            /\ pc[s] = "lot" => written[s] = {"ledger"}
            /\ pc[s] \in {"balance", "commit"} => written[s] = {"ledger", "lot"}

\* FOR UPDATE excludes FOR KEY SHARE.
LockInv == \A u \in User : lockX[u] # None => lockS[u] \subseteq {lockX[u]}

IInv ==
    /\ TypeOK
    /\ PhaseInv
    /\ RequestInv
    /\ BuyInv
    /\ DepositInv
    /\ LockInv
    /\ FundsReserved
    /\ CashNonNegative
    /\ LedgerReconciles

USE ConstantsAssumption

-------------------------------------------------------------------------------
\* The amounts in play are integers, and only costs may be negative.
LEMMA AmountTypes ==
    /\ \A x \in Cost : x \in Int
    /\ \A x \in Amount : x \in Int /\ x >= 0
    /\ \A x \in InitialCash : x \in Int /\ x >= 0
  OBVIOUS

\* The costs of a submitted buy are integers, given to exactly its users.
LEMMA CostTypes ==
    ASSUME NEW users \in SUBSET User, NEW cost \in [users -> Cost]
    PROVE  /\ DOMAIN cost = users
           /\ cost = [u \in DOMAIN cost |-> cost[u]]
           /\ \A u \in users : cost[u] \in Cost
           /\ \A u \in users : cost[u] \in Int
<1>1. DOMAIN cost = users /\ cost = [u \in DOMAIN cost |-> cost[u]]
  OBVIOUS
<1>2. \A u \in users : cost[u] \in Cost
  OBVIOUS
<1>3. \A u \in users : cost[u] \in Int
  BY <1>2, AmountTypes, Zenon
<1>4. QED
  BY <1>1, <1>2, <1>3

\* Accounts funded before the first request hold integers, never negative.
LEMMA InitialCashTypes ==
    ASSUME cash \in [User -> InitialCash]
    PROVE  cash \in [User -> Int] /\ \A u \in User : cash[u] >= 0
<1>1. \A u \in User : cash[u] \in InitialCash
  OBVIOUS
<1>2. \A u \in User : cash[u] \in Int /\ cash[u] >= 0
  BY <1>1, AmountTypes, Zenon
<1>3. cash = [u \in User |-> cash[u]]
  OBVIOUS
<1>4. QED
  BY <1>2, <1>3

\* The initial states satisfy the inductive invariant.
LEMMA InitIInv == Init => IInv
<1> SUFFICES ASSUME Init PROVE IInv
  OBVIOUS
<1> USE DEF Init
<1>1. TypeOK
  <2>1. cash \in [User -> Int] /\ lots \in [User -> Int] /\ invested \in [User -> Int]
    BY InitialCashTypes
  <2>2. /\ lockX \in [User -> Session \cup {None}]
        /\ lockS \in [User -> SUBSET Session]
    OBVIOUS
  <2>3. \A s \in Session : DOMAIN req[s] = {} /\ pending[s] = {}
    BY DEF NoRequest
  <2>4. QED
    BY <2>1, <2>2, <2>3 DEF TypeOK
<1>2. PhaseInv /\ RequestInv /\ BuyInv /\ DepositInv /\ FundsReserved
  BY DEF PhaseInv, RequestInv, NoRequest, BuyInv, DepositInv, FundsReserved, Running
<1>3. LockInv
  BY DEF LockInv
<1>4. CashNonNegative /\ LedgerReconciles
  BY InitialCashTypes DEF CashNonNegative, LedgerReconciles, SumsAgree, RowsAreWhole
<1>5. QED
  BY <1>1, <1>2, <1>3, <1>4 DEF IInv

\* Every step keeps the types of the variables.
LEMMA TypeStep == IInv /\ [Next]_vars => TypeOK'
<1> SUFFICES ASSUME IInv, [Next]_vars PROVE TypeOK'
  OBVIOUS
<1> USE DEF TypeOK, Running, Terminal, data, locks
<1>0. TypeOK
  BY DEF IInv
<1>1. ASSUME NEW s \in Session, Submit(s) PROVE TypeOK'
  <2>1. pc[s] = "idle" => pending[s] = {}
    BY <1>1 DEF IInv, PhaseInv
  <2>2. ASSUME NEW users \in (SUBSET User) \ {{}}, NEW cost \in [users -> Cost],
               SubmitBuy(s, users, cost)
        PROVE  TypeOK'
    <3>1. DOMAIN cost = users /\ \A u \in users : cost[u] \in Int
      BY CostTypes
    <3>2. users \subseteq User /\ \A u \in DOMAIN cost : cost[u] \in Int
      BY <3>1
    <3>3. CASE pc' = [pc EXCEPT ![s] = "profile"] /\ req' = [req EXCEPT ![s] = cost]
               /\ pending' = [pending EXCEPT ![s] = users]
      BY <1>0, <2>2, <3>1, <3>2, <3>3 DEF SubmitBuy
    <3>4. CASE pc' = [pc EXCEPT ![s] = "raised"] /\ UNCHANGED <<req, pending>>
      BY <1>0, <2>2, <3>4 DEF SubmitBuy
    <3>5. QED
      BY <2>2, <3>3, <3>4 DEF SubmitBuy, Goto
  <2>3. ASSUME NEW u \in User, NEW amount \in Amount, SubmitDeposit(s, u, amount)
        PROVE  TypeOK'
    BY <1>0, <2>1, <2>3, AmountTypes DEF SubmitDeposit, Goto
  <2>4. QED
    BY <1>1, <2>2, <2>3 DEF Submit
<1>2. ASSUME NEW s \in Session, Step(s) PROVE TypeOK'
  <2>1. ASSUME NEW u \in User, ReadProfile(s, u) PROVE TypeOK'
    BY <1>0, <2>1 DEF ReadProfile, Goto
  <2>2. ASSUME NEW u \in User, LockCashAccount(s, u) PROVE TypeOK'
    <3>1. lockX' \in [User -> Session \cup {None}]
      BY <1>0, <2>2 DEF LockCashAccount
    <3>2. pc' \in [Session -> {"idle"} \cup Running \cup Terminal]
      BY <1>0, <2>2 DEF LockCashAccount, Goto
    <3>3. QED
      BY <1>0, <2>2, <3>1, <3>2 DEF LockCashAccount
  <2>3. ASSUME NEW u \in User, CheckFunds(s, u) PROVE TypeOK'
    <3>1. /\ pending' \in [Session -> SUBSET User]
          /\ \A t \in Session : pending'[t] \subseteq pending[t]
      BY <1>0, <2>3 DEF CheckFunds
    <3>2. pc' \in [Session -> {"idle"} \cup Running \cup Terminal]
      BY <1>0, <2>3 DEF CheckFunds, Goto
    <3>3. UNCHANGED <<data, locks, kind, req, written, reported>>
      BY <2>3 DEF CheckFunds
    <3>4. QED
      BY <1>0, <3>1, <3>2, <3>3
  <2>4. ASSUME NEW u \in User, ReadInvestor(s, u) PROVE TypeOK'
    BY <1>0, <2>4 DEF ReadInvestor, Goto
  <2>5. ASSUME NEW u \in User, ReadCashAccount(s, u) PROVE TypeOK'
    BY <1>0, <2>5 DEF ReadCashAccount, Goto
  <2>6. ASSUME NEW u \in User, CreateDepositRow(s, u) PROVE TypeOK'
    <3>1. lockS' \in [User -> SUBSET Session]
      BY <1>0, <2>6 DEF CreateDepositRow
    <3>2. written' \in [Session -> SUBSET {"allocations", "ledger", "lot"}]
      BY <1>0, <2>6 DEF CreateDepositRow
    <3>3. pc' \in [Session -> {"idle"} \cup Running \cup Terminal]
      BY <1>0, <2>6 DEF CreateDepositRow, Goto
    <3>4. QED
      BY <1>0, <2>6, <3>1, <3>2, <3>3 DEF CreateDepositRow
  <2>7. ASSUME NEW u \in User, CreateDepositLot(s, u) PROVE TypeOK'
    BY <1>0, <2>7 DEF CreateDepositLot, Goto
  <2>8. ASSUME NEW u \in User, ReadUpdatedBalance(s, u) PROVE TypeOK'
    BY <1>0, <2>8 DEF ReadUpdatedBalance, Goto
  <2>9. CASE LookupTreasury(s)
    BY <1>0, <2>9 DEF LookupTreasury, Goto
  <2>10. CASE CreateTradeAndPosition(s)
    BY <1>0, <2>10 DEF CreateTradeAndPosition, Goto
  <2>11. CASE CreateAllocations(s)
    BY <1>0, <2>11 DEF CreateAllocations, Goto
  <2>12. CASE CreateFundingRows(s)
    BY <1>0, <2>12 DEF CreateFundingRows, Goto
  <2>13. CASE Commit(s)
    BY <1>0, <2>13 DEF Commit, Goto, Release, Credit
  <2>14. CASE Rollback(s)
    BY <1>0, <2>14 DEF Rollback, Goto, Release
  <2>15. QED
    BY <1>2, <2>1, <2>2, <2>3, <2>4, <2>5, <2>6, <2>7, <2>8, <2>9, <2>10, <2>11,
       <2>12, <2>13, <2>14 DEF Step
<1>3. ASSUME NEW s \in Session, Crash(s) PROVE TypeOK'
  BY <1>0, <1>3 DEF Crash, Release
<1>4. CASE UNCHANGED vars
  BY <1>0, <1>4 DEF vars
<1>5. QED
  BY <1>1, <1>2, <1>3, <1>4 DEF Next, Quiescent

\* No step takes a request into a statement of the other handler.
LEMMA PhaseStep == IInv /\ [Next]_vars => PhaseInv'
<1> SUFFICES ASSUME IInv, [Next]_vars PROVE PhaseInv'
  OBVIOUS
<1> USE DEF TypeOK, PhaseInv, Running, Terminal, data, locks
<1>0. TypeOK /\ PhaseInv
  BY DEF IInv
<1>1. ASSUME NEW s \in Session, Submit(s) PROVE PhaseInv'
  <2>1. ASSUME NEW users \in (SUBSET User) \ {{}}, NEW cost \in [users -> Cost],
               SubmitBuy(s, users, cost)
        PROVE  PhaseInv'
    BY <1>0, <2>1, CostTypes DEF SubmitBuy, Goto
  <2>2. ASSUME NEW u \in User, NEW amount \in Amount, SubmitDeposit(s, u, amount)
        PROVE  PhaseInv'
    BY <1>0, <2>2 DEF SubmitDeposit, Goto
  <2>3. QED
    BY <1>1, <2>1, <2>2 DEF Submit
<1>2. ASSUME NEW s \in Session, Step(s) PROVE PhaseInv'
  <2>1. ASSUME NEW u \in User, ReadProfile(s, u) PROVE PhaseInv'
    BY <1>0, <2>1 DEF ReadProfile, Goto
  <2>2. ASSUME NEW u \in User, LockCashAccount(s, u) PROVE PhaseInv'
    BY <1>0, <2>2 DEF LockCashAccount, Goto
  <2>3. ASSUME NEW u \in User, CheckFunds(s, u) PROVE PhaseInv'
    BY <1>0, <2>3 DEF CheckFunds, Goto
  <2>4. ASSUME NEW u \in User, ReadInvestor(s, u) PROVE PhaseInv'
    BY <1>0, <2>4 DEF ReadInvestor, Goto
  <2>5. ASSUME NEW u \in User, ReadCashAccount(s, u) PROVE PhaseInv'
    BY <1>0, <2>5 DEF ReadCashAccount, Goto
  <2>6. ASSUME NEW u \in User, CreateDepositRow(s, u) PROVE PhaseInv'
    BY <1>0, <2>6 DEF CreateDepositRow, Goto
  <2>7. ASSUME NEW u \in User, CreateDepositLot(s, u) PROVE PhaseInv'
    BY <1>0, <2>7 DEF CreateDepositLot, Goto
  <2>8. ASSUME NEW u \in User, ReadUpdatedBalance(s, u) PROVE PhaseInv'
    BY <1>0, <2>8 DEF ReadUpdatedBalance, Goto
  <2>9. CASE LookupTreasury(s)
    BY <1>0, <2>9 DEF LookupTreasury, Goto
  <2>10. CASE CreateTradeAndPosition(s)
    BY <1>0, <2>10 DEF CreateTradeAndPosition, Goto
  <2>11. CASE CreateAllocations(s)
    BY <1>0, <2>11 DEF CreateAllocations, Goto
  <2>12. CASE CreateFundingRows(s)
    BY <1>0, <2>12 DEF CreateFundingRows, Goto
  <2>13. CASE Commit(s)
    BY <1>0, <2>13 DEF Commit, Goto, Release, Credit
  <2>14. CASE Rollback(s)
    BY <1>0, <2>14 DEF Rollback, Goto, Release
  <2>15. QED
    BY <1>2, <2>1, <2>2, <2>3, <2>4, <2>5, <2>6, <2>7, <2>8,
       <2>9, <2>10, <2>11, <2>12, <2>13, <2>14 DEF Step
<1>3. ASSUME NEW s \in Session, Crash(s) PROVE PhaseInv'
  BY <1>0, <1>3 DEF Crash, Release
<1>4. CASE UNCHANGED vars
  BY <1>0, <1>4 DEF vars, IsNextUser
<1>5. QED
  BY <1>1, <1>2, <1>3, <1>4 DEF Next, Quiescent

\* No step grants FOR UPDATE and FOR KEY SHARE on an account to two sessions.
LEMMA LockStep == IInv /\ [Next]_vars => LockInv'
<1> SUFFICES ASSUME IInv, [Next]_vars PROVE LockInv'
  OBVIOUS
<1> USE DEF TypeOK, LockInv, data, locks
<1>0. TypeOK /\ LockInv
  BY DEF IInv
<1>1. ASSUME NEW s \in Session, Submit(s) PROVE LockInv'
  <2>1. ASSUME NEW users \in (SUBSET User) \ {{}}, NEW cost \in [users -> Cost],
               SubmitBuy(s, users, cost)
        PROVE  LockInv'
    BY <1>0, <2>1, CostTypes DEF SubmitBuy, Goto
  <2>2. ASSUME NEW u \in User, NEW amount \in Amount, SubmitDeposit(s, u, amount)
        PROVE  LockInv'
    BY <1>0, <2>2 DEF SubmitDeposit, Goto
  <2>3. QED
    BY <1>1, <2>1, <2>2 DEF Submit
<1>2. ASSUME NEW s \in Session, Step(s) PROVE LockInv'
  <2>1. ASSUME NEW u \in User, ReadProfile(s, u) PROVE LockInv'
    BY <1>0, <2>1 DEF ReadProfile, Goto
  <2>2. ASSUME NEW u \in User, LockCashAccount(s, u) PROVE LockInv'
    BY <1>0, <2>2 DEF LockCashAccount, Goto
  <2>3. ASSUME NEW u \in User, CheckFunds(s, u) PROVE LockInv'
    BY <1>0, <2>3 DEF CheckFunds, Goto
  <2>4. ASSUME NEW u \in User, ReadInvestor(s, u) PROVE LockInv'
    BY <1>0, <2>4 DEF ReadInvestor, Goto
  <2>5. ASSUME NEW u \in User, ReadCashAccount(s, u) PROVE LockInv'
    BY <1>0, <2>5 DEF ReadCashAccount, Goto
  <2>6. ASSUME NEW u \in User, CreateDepositRow(s, u) PROVE LockInv'
    BY <1>0, <2>6 DEF CreateDepositRow, Goto
  <2>7. ASSUME NEW u \in User, CreateDepositLot(s, u) PROVE LockInv'
    BY <1>0, <2>7 DEF CreateDepositLot, Goto
  <2>8. ASSUME NEW u \in User, ReadUpdatedBalance(s, u) PROVE LockInv'
    BY <1>0, <2>8 DEF ReadUpdatedBalance, Goto
  <2>9. CASE LookupTreasury(s)
    BY <1>0, <2>9 DEF LookupTreasury, Goto
  <2>10. CASE CreateTradeAndPosition(s)
    BY <1>0, <2>10 DEF CreateTradeAndPosition, Goto
  <2>11. CASE CreateAllocations(s)
    BY <1>0, <2>11 DEF CreateAllocations, Goto
  <2>12. CASE CreateFundingRows(s)
    BY <1>0, <2>12 DEF CreateFundingRows, Goto
  <2>13. CASE Commit(s)
    BY <1>0, <2>13 DEF Commit, Goto, Release, Credit
  <2>14. CASE Rollback(s)
    BY <1>0, <2>14 DEF Rollback, Goto, Release
  <2>15. QED
    BY <1>2, <2>1, <2>2, <2>3, <2>4, <2>5, <2>6, <2>7, <2>8,
       <2>9, <2>10, <2>11, <2>12, <2>13, <2>14 DEF Step
<1>3. ASSUME NEW s \in Session, Crash(s) PROVE LockInv'
  BY <1>0, <1>3 DEF Crash, Release
<1>4. CASE UNCHANGED vars
  BY <1>0, <1>4 DEF vars, IsNextUser
<1>5. QED
  BY <1>1, <1>2, <1>3, <1>4 DEF Next, Quiescent

\* The request of a session is fixed when it is submitted.
LEMMA RequestStep == IInv /\ [Next]_vars => RequestInv'
<1> SUFFICES ASSUME IInv, [Next]_vars PROVE RequestInv'
  OBVIOUS
<1> USE DEF TypeOK, PhaseInv, RequestInv, Running, Terminal, data, locks
<1>0. TypeOK /\ PhaseInv /\ RequestInv
  BY DEF IInv
<1>1. ASSUME NEW s \in Session, Submit(s) PROVE RequestInv'
  <2>1. ASSUME NEW users \in (SUBSET User) \ {{}}, NEW cost \in [users -> Cost],
               SubmitBuy(s, users, cost)
        PROVE  RequestInv'
    <3>1. \A u \in DOMAIN cost : cost[u] \in Cost
      BY CostTypes
    <3>2. \A t \in Session : t # s => /\ req'[t] = req[t]
                                      /\ pc'[t] = pc[t]
                                      /\ kind'[t] = kind[t]
      BY <1>0, <2>1 DEF SubmitBuy, Goto
    <3>3. req'[s] = cost \/ (req'[s] = req[s] /\ pc'[s] = "raised")
      BY <1>0, <2>1 DEF SubmitBuy, Goto
    <3>4. ASSUME pc'[s] \in Running \ {"raised"}
          PROVE  \A u \in DOMAIN req'[s] : req'[s][u] \in Cost
      <4>1. req'[s] = cost
        BY <3>3, <3>4
      <4>2. QED
        BY <3>1, <4>1
    <3>5. ASSUME NEW t \in Session, kind'[t] = "buy", pc'[t] \in Running \ {"raised"}
          PROVE  \A u \in DOMAIN req'[t] : req'[t][u] \in Cost
      BY <1>0, <3>2, <3>4, <3>5, Zenon
    <3>6. QED
      BY <3>5
  <2>2. ASSUME NEW u \in User, NEW amount \in Amount, SubmitDeposit(s, u, amount)
        PROVE  RequestInv'
    BY <1>0, <2>2 DEF SubmitDeposit, Goto
  <2>3. QED
    BY <1>1, <2>1, <2>2 DEF Submit
<1>2. ASSUME NEW s \in Session, Step(s) PROVE RequestInv'
  <2>1. ASSUME NEW u \in User, ReadProfile(s, u) PROVE RequestInv'
    BY <1>0, <2>1 DEF ReadProfile, Goto
  <2>2. ASSUME NEW u \in User, LockCashAccount(s, u) PROVE RequestInv'
    BY <1>0, <2>2 DEF LockCashAccount, Goto
  <2>3. ASSUME NEW u \in User, CheckFunds(s, u) PROVE RequestInv'
    BY <1>0, <2>3 DEF CheckFunds, Goto
  <2>4. ASSUME NEW u \in User, ReadInvestor(s, u) PROVE RequestInv'
    BY <1>0, <2>4 DEF ReadInvestor, Goto
  <2>5. ASSUME NEW u \in User, ReadCashAccount(s, u) PROVE RequestInv'
    BY <1>0, <2>5 DEF ReadCashAccount, Goto
  <2>6. ASSUME NEW u \in User, CreateDepositRow(s, u) PROVE RequestInv'
    BY <1>0, <2>6 DEF CreateDepositRow, Goto
  <2>7. ASSUME NEW u \in User, CreateDepositLot(s, u) PROVE RequestInv'
    BY <1>0, <2>7 DEF CreateDepositLot, Goto
  <2>8. ASSUME NEW u \in User, ReadUpdatedBalance(s, u) PROVE RequestInv'
    BY <1>0, <2>8 DEF ReadUpdatedBalance, Goto
  <2>9. CASE LookupTreasury(s)
    BY <1>0, <2>9 DEF LookupTreasury, Goto
  <2>10. CASE CreateTradeAndPosition(s)
    BY <1>0, <2>10 DEF CreateTradeAndPosition, Goto
  <2>11. CASE CreateAllocations(s)
    BY <1>0, <2>11 DEF CreateAllocations, Goto
  <2>12. CASE CreateFundingRows(s)
    BY <1>0, <2>12 DEF CreateFundingRows, Goto
  <2>13. CASE Commit(s)
    BY <1>0, <2>13 DEF Commit, Goto, Release, Credit
  <2>14. CASE Rollback(s)
    BY <1>0, <2>14 DEF Rollback, Goto, Release
  <2>15. QED
    BY <1>2, <2>1, <2>2, <2>3, <2>4, <2>5, <2>6, <2>7, <2>8,
       <2>9, <2>10, <2>11, <2>12, <2>13, <2>14 DEF Step
<1>3. ASSUME NEW s \in Session, Crash(s) PROVE RequestInv'
  BY <1>0, <1>3 DEF Crash, Release
<1>4. CASE UNCHANGED vars
  BY <1>0, <1>4 DEF vars, IsNextUser
<1>5. QED
  BY <1>1, <1>2, <1>3, <1>4 DEF Next, Quiescent

\* What a commit does to the sums: a buy debits and invests exactly the costs
\* of its users, who are locked and can pay; a deposit credits and lots exactly
\* its amount.
LEMMA CommitEffect ==
    ASSUME IInv, NEW s \in Session, Commit(s)
    PROVE  /\ kind[s] = "buy" => \A u \in User :
                 /\ u \in DOMAIN req[s] =>
                       /\ lockX[u] = s
                       /\ cash[u] >= req[s][u]
                       /\ cash'[u] = cash[u] - req[s][u]
                       /\ invested'[u] = invested[u] + req[s][u]
                 /\ u \notin DOMAIN req[s] =>
                       cash'[u] = cash[u] /\ invested'[u] = invested[u]
                 /\ lots'[u] = lots[u]
           /\ kind[s] = "deposit" => \A u \in User :
                 /\ u \in DOMAIN req[s] =>
                       /\ req[s][u] >= 0
                       /\ cash'[u] = cash[u] + req[s][u]
                       /\ lots'[u] = lots[u] + req[s][u]
                 /\ u \notin DOMAIN req[s] =>
                       cash'[u] = cash[u] /\ lots'[u] = lots[u]
                 /\ invested'[u] = invested[u]
<1>0. TypeOK /\ pc[s] = "commit"
  BY DEF IInv, Commit, Goto
<1>1. ASSUME kind[s] = "buy"
      PROVE  /\ written[s] = {"allocations", "ledger"}
             /\ \A u \in DOMAIN req[s] : lockX[u] = s /\ cash[u] >= req[s][u]
  BY <1>0, <1>1 DEF IInv, BuyInv, FundsReserved, Running
<1>2. ASSUME kind[s] = "deposit"
      PROVE  /\ written[s] = {"ledger", "lot"}
             /\ \A u \in DOMAIN req[s] : req[s][u] >= 0
  <2>1. written[s] = {"ledger", "lot"} /\ \A u \in DOMAIN req[s] : req[s][u] \in Amount
    BY <1>0, <1>2 DEF IInv, DepositInv, Running
  <2>2. QED
    BY <2>1, AmountTypes, Zenon
<1>3. \A u \in DOMAIN req[s] : req[s][u] \in Int
  BY <1>0 DEF TypeOK
<1>4. /\ \A u \in User : cash[u] \in Int /\ lots[u] \in Int /\ invested[u] \in Int
      /\ kind[s] \in {"buy", "deposit"}
  BY <1>0 DEF TypeOK
<1>5. CASE kind[s] = "buy"
  BY <1>1, <1>3, <1>4, <1>5 DEF Commit, Credit
<1>6. CASE kind[s] = "deposit"
  <2>1. \A u \in User : /\ Credit(s, u, "allocations") = 0
                        /\ u \in DOMAIN req[s] => /\ Credit(s, u, "ledger") = req[s][u]
                                                  /\ Credit(s, u, "lot") = req[s][u]
                        /\ u \notin DOMAIN req[s] => /\ Credit(s, u, "ledger") = 0
                                                     /\ Credit(s, u, "lot") = 0
    BY <1>2, <1>6 DEF Credit
  <2>2. \A u \in User : /\ cash'[u] = cash[u] + Credit(s, u, "ledger")
                        /\ lots'[u] = lots[u] + Credit(s, u, "lot")
                        /\ invested'[u] = invested[u] + Credit(s, u, "allocations")
    BY <1>6 DEF Commit
  <2>3. ASSUME NEW u \in User
        PROVE  /\ u \in DOMAIN req[s] =>
                     /\ req[s][u] >= 0
                     /\ cash'[u] = cash[u] + req[s][u]
                     /\ lots'[u] = lots[u] + req[s][u]
               /\ u \notin DOMAIN req[s] => cash'[u] = cash[u] /\ lots'[u] = lots[u]
               /\ invested'[u] = invested[u]
    <3>1. CASE u \in DOMAIN req[s]
      <4>1. req[s][u] >= 0
        BY <1>2, <1>6, <3>1
      <4>2. /\ Credit(s, u, "ledger") = req[s][u]
            /\ Credit(s, u, "lot") = req[s][u]
            /\ Credit(s, u, "allocations") = 0
        BY <2>1, <3>1
      <4>3. invested'[u] = invested[u]
        BY <1>4, <2>2, <4>2
      <4>4. cash'[u] = cash[u] + req[s][u] /\ lots'[u] = lots[u] + req[s][u]
        BY <2>2, <4>2
      <4>5. QED
        BY <3>1, <4>1, <4>3, <4>4
    <3>2. CASE u \notin DOMAIN req[s]
      BY <1>4, <2>1, <2>2, <3>2
    <3>3. QED
      BY <3>1, <3>2
  <2>4. QED
    BY <1>6, <2>3
<1>7. QED
  BY <1>4, <1>5, <1>6

\* Every step keeps what is known of the buys in flight.
LEMMA BuyStep == IInv /\ [Next]_vars => BuyInv'
<1> SUFFICES ASSUME IInv, [Next]_vars PROVE BuyInv'
  OBVIOUS
<1> USE DEF TypeOK, PhaseInv, BuyInv, IsNextUser, Running, Terminal, data, locks
<1>0. TypeOK /\ PhaseInv /\ BuyInv
  BY DEF IInv
<1>1. ASSUME NEW s \in Session, Submit(s) PROVE BuyInv'
  <2>1. ASSUME NEW users \in (SUBSET User) \ {{}}, NEW cost \in [users -> Cost],
               SubmitBuy(s, users, cost)
        PROVE  BuyInv'
    BY <1>0, <2>1, CostTypes DEF SubmitBuy, Goto
  <2>2. ASSUME NEW u \in User, NEW amount \in Amount, SubmitDeposit(s, u, amount)
        PROVE  BuyInv'
    BY <1>0, <2>2 DEF SubmitDeposit, Goto
  <2>3. QED
    BY <1>1, <2>1, <2>2 DEF Submit
<1>2. ASSUME NEW s \in Session, Step(s) PROVE BuyInv'
  <2>1. ASSUME NEW u \in User, ReadProfile(s, u) PROVE BuyInv'
    BY <1>0, <2>1 DEF ReadProfile, Goto
  <2>2. ASSUME NEW u \in User, LockCashAccount(s, u) PROVE BuyInv'
    BY <1>0, <2>2 DEF LockCashAccount, Goto
  <2>3. ASSUME NEW u \in User, CheckFunds(s, u) PROVE BuyInv'
    BY <1>0, <2>3 DEF CheckFunds, Goto
  <2>4. ASSUME NEW u \in User, ReadInvestor(s, u) PROVE BuyInv'
    BY <1>0, <2>4 DEF ReadInvestor, Goto
  <2>5. ASSUME NEW u \in User, ReadCashAccount(s, u) PROVE BuyInv'
    BY <1>0, <2>5 DEF ReadCashAccount, Goto
  <2>6. ASSUME NEW u \in User, CreateDepositRow(s, u) PROVE BuyInv'
    BY <1>0, <2>6 DEF CreateDepositRow, Goto
  <2>7. ASSUME NEW u \in User, CreateDepositLot(s, u) PROVE BuyInv'
    BY <1>0, <2>7 DEF CreateDepositLot, Goto
  <2>8. ASSUME NEW u \in User, ReadUpdatedBalance(s, u) PROVE BuyInv'
    BY <1>0, <2>8 DEF ReadUpdatedBalance, Goto
  <2>9. CASE LookupTreasury(s)
    BY <1>0, <2>9 DEF LookupTreasury, Goto
  <2>10. CASE CreateTradeAndPosition(s)
    BY <1>0, <2>10 DEF CreateTradeAndPosition, Goto
  <2>11. CASE CreateAllocations(s)
    BY <1>0, <2>11 DEF CreateAllocations, Goto
  <2>12. CASE CreateFundingRows(s)
    BY <1>0, <2>12 DEF CreateFundingRows, Goto
  <2>13. CASE Commit(s)
    BY <1>0, <2>13 DEF Commit, Goto, Release, Credit
  <2>14. CASE Rollback(s)
    BY <1>0, <2>14 DEF Rollback, Goto, Release
  <2>15. QED
    BY <1>2, <2>1, <2>2, <2>3, <2>4, <2>5, <2>6, <2>7, <2>8,
       <2>9, <2>10, <2>11, <2>12, <2>13, <2>14 DEF Step
<1>3. ASSUME NEW s \in Session, Crash(s) PROVE BuyInv'
  BY <1>0, <1>3 DEF Crash, Release
<1>4. CASE UNCHANGED vars
  BY <1>0, <1>4 DEF vars, IsNextUser
<1>5. QED
  BY <1>1, <1>2, <1>3, <1>4 DEF Next, Quiescent

\* Every step keeps what is known of the deposits in flight: while a deposit
\* holds FOR KEY SHARE no buy commits on its account, so its balance only grows.
LEMMA DepositStep == IInv /\ [Next]_vars => DepositInv'
<1> SUFFICES ASSUME IInv, [Next]_vars PROVE DepositInv'
  OBVIOUS
<1> USE DEF TypeOK, PhaseInv, DepositInv, Running, Terminal, data, locks
<1>0. TypeOK /\ PhaseInv /\ DepositInv
  BY DEF IInv
<1>1. ASSUME NEW s \in Session, Submit(s) PROVE DepositInv'
  <2>1. ASSUME NEW users \in (SUBSET User) \ {{}}, NEW cost \in [users -> Cost],
               SubmitBuy(s, users, cost)
        PROVE  DepositInv'
    <3>1. /\ kind'[s] = "buy" /\ UNCHANGED <<cash, lockS, written, reported>>
          /\ \A t \in Session \ {s} : pc'[t] = pc[t] /\ kind'[t] = kind[t] /\ req'[t] = req[t]
      BY <1>0, <2>1 DEF SubmitBuy, Goto
    <3> QED BY <1>0, <3>1
  <2>2. ASSUME NEW u \in User, NEW amount \in Amount, SubmitDeposit(s, u, amount)
        PROVE  DepositInv'
    <3>1. /\ pc[s] = "idle" /\ pc'[s] = "profile" /\ req'[s] = [v \in {u} |-> amount]
          /\ UNCHANGED <<cash, lockS, pending, written, reported>>
          /\ \A t \in Session \ {s} : pc'[t] = pc[t] /\ kind'[t] = kind[t] /\ req'[t] = req[t]
      BY <1>0, <2>2 DEF SubmitDeposit, Goto
    <3>2. written'[s] = {}
      BY <1>0, <3>1
    <3> QED BY <1>0, <3>1, <3>2
  <2>3. QED
    BY <1>1, <2>1, <2>2 DEF Submit
<1>2. ASSUME NEW s \in Session, Step(s) PROVE DepositInv'
  <2>1. ASSUME NEW u \in User, ReadProfile(s, u) PROVE DepositInv'
    <3>1. kind[s] = "buy"
      BY <2>1 DEF ReadProfile
    <3>2. \A t \in Session : t # s => pc'[t] = pc[t]
      BY <1>0, <2>1 DEF ReadProfile, Goto
    <3>3. UNCHANGED <<cash, lockS, kind, req, written, reported>>
      BY <2>1 DEF ReadProfile
    <3>4. QED
      BY <1>0, <3>1, <3>2, <3>3
  <2>2. ASSUME NEW u \in User, LockCashAccount(s, u) PROVE DepositInv'
    BY <1>0, <2>2 DEF LockCashAccount, Goto
  <2>3. ASSUME NEW u \in User, CheckFunds(s, u) PROVE DepositInv'
    BY <1>0, <2>3 DEF CheckFunds, Goto
  <2>4. ASSUME NEW u \in User, ReadInvestor(s, u) PROVE DepositInv'
    BY <1>0, <2>4 DEF ReadInvestor, Goto
  <2>5. ASSUME NEW u \in User, ReadCashAccount(s, u) PROVE DepositInv'
    BY <1>0, <2>5 DEF ReadCashAccount, Goto
  <2>6. ASSUME NEW u \in User, CreateDepositRow(s, u) PROVE DepositInv'
    BY <1>0, <2>6 DEF CreateDepositRow, Goto
  <2>7. ASSUME NEW u \in User, CreateDepositLot(s, u) PROVE DepositInv'
    BY <1>0, <2>7 DEF CreateDepositLot, Goto
  <2>8. ASSUME NEW u \in User, ReadUpdatedBalance(s, u) PROVE DepositInv'
    BY <1>0, <2>8 DEF ReadUpdatedBalance, Goto
  <2>9. CASE LookupTreasury(s)
    BY <1>0, <2>9 DEF LookupTreasury, Goto
  <2>10. CASE CreateTradeAndPosition(s)
    BY <1>0, <2>10 DEF CreateTradeAndPosition, Goto
  <2>11. CASE CreateAllocations(s)
    BY <1>0, <2>11 DEF CreateAllocations, Goto
  <2>12. CASE CreateFundingRows(s)
    BY <1>0, <2>12 DEF CreateFundingRows, Goto
  <2>13. CASE Commit(s)
    <3>1. \A t \in Session : t # s => pc'[t] = pc[t]
      BY <1>0, <2>13 DEF Commit, Goto
    <3>2. pc'[s] = "committed" /\ UNCHANGED <<kind, req, written, reported>>
      BY <1>0, <2>13 DEF Commit, Goto
    <3>3. \A u \in User : lockS'[u] = lockS[u] \ {s}
      BY <2>13 DEF Commit, Release
    <3>4. ASSUME NEW t \in Session, t # s, kind[t] = "deposit", pc[t] = "commit",
                 NEW u \in DOMAIN req[t]
          PROVE  reported[t] <= cash'[u] + req[t][u]
      <4>1. /\ u \in User /\ t \in lockS[u] /\ reported[t] <= cash[u] + req[t][u]
            /\ reported[t] \in Int /\ req[t][u] \in Int /\ cash[u] \in Int
        BY <1>0, <3>4
      <4>2. cash'[u] \in Int
        BY TypeStep, <4>1
      <4>3. CASE kind[s] = "buy"
        <5>1. u \notin DOMAIN req[s]
          BY <4>1, <4>3, <3>4, <2>13, CommitEffect DEF IInv, LockInv
        <5>2. cash'[u] = cash[u]
          BY <4>1, <4>3, <5>1, <2>13, CommitEffect
        <5>3. QED
          BY <4>1, <5>2
      <4>4. CASE kind[s] = "deposit"
        <5>1. cash'[u] >= cash[u]
          <6>1. CASE u \in DOMAIN req[s]
            <7>1. req[s][u] >= 0 /\ cash'[u] = cash[u] + req[s][u]
              BY <4>1, <4>4, <6>1, <2>13, CommitEffect
            <7>2. req[s][u] \in Int
              BY <1>0, <6>1
            <7>3. QED
              BY <4>1, <7>1, <7>2
          <6>2. CASE u \notin DOMAIN req[s]
            BY <4>1, <4>4, <6>2, <2>13, CommitEffect
          <6>3. QED
            BY <6>1, <6>2
        <5>2. QED
          BY <4>1, <4>2, <5>1
      <4>5. QED
        BY <1>0, <4>3, <4>4
    <3>5. QED
      BY <1>0, <3>1, <3>2, <3>3, <3>4
  <2>14. CASE Rollback(s)
    BY <1>0, <2>14 DEF Rollback, Goto, Release
  <2>15. QED
    BY <1>2, <2>1, <2>2, <2>3, <2>4, <2>5, <2>6, <2>7, <2>8,
       <2>9, <2>10, <2>11, <2>12, <2>13, <2>14 DEF Step
<1>3. ASSUME NEW s \in Session, Crash(s) PROVE DepositInv'
  BY <1>0, <1>3 DEF Crash, Release
<1>4. CASE UNCHANGED vars
  BY <1>0, <1>4 DEF vars, IsNextUser
<1>5. QED
  BY <1>1, <1>2, <1>3, <1>4 DEF Next, Quiescent

\* No step of another session takes the funds a buy has found sufficient.
LEMMA FundsStep == IInv /\ [Next]_vars => FundsReserved'
<1> SUFFICES ASSUME IInv, [Next]_vars PROVE FundsReserved'
  OBVIOUS
<1> USE DEF TypeOK, PhaseInv, FundsReserved, Running, Terminal, data, locks
<1>0. TypeOK /\ PhaseInv /\ BuyInv /\ DepositInv /\ FundsReserved
  BY DEF IInv
<1>1. ASSUME NEW s \in Session, Submit(s) PROVE FundsReserved'
  <2>1. ASSUME NEW users \in (SUBSET User) \ {{}}, NEW cost \in [users -> Cost],
               SubmitBuy(s, users, cost)
        PROVE  FundsReserved'
    BY <1>0, <2>1, CostTypes DEF SubmitBuy, Goto
  <2>2. ASSUME NEW u \in User, NEW amount \in Amount, SubmitDeposit(s, u, amount)
        PROVE  FundsReserved'
    BY <1>0, <2>2 DEF SubmitDeposit, Goto
  <2>3. QED
    BY <1>1, <2>1, <2>2 DEF Submit
<1>2. ASSUME NEW s \in Session, Step(s) PROVE FundsReserved'
  <2>1. ASSUME NEW u \in User, ReadProfile(s, u) PROVE FundsReserved'
    BY <1>0, <2>1 DEF ReadProfile, Goto
  <2>2. ASSUME NEW u \in User, LockCashAccount(s, u) PROVE FundsReserved'
    BY <1>0, <2>2 DEF LockCashAccount, Goto
  <2>3. ASSUME NEW u \in User, CheckFunds(s, u) PROVE FundsReserved'
    BY <1>0, <2>3 DEF CheckFunds, Goto, BuyInv
  <2>4. ASSUME NEW u \in User, ReadInvestor(s, u) PROVE FundsReserved'
    BY <1>0, <2>4 DEF ReadInvestor, Goto
  <2>5. ASSUME NEW u \in User, ReadCashAccount(s, u) PROVE FundsReserved'
    BY <1>0, <2>5 DEF ReadCashAccount, Goto
  <2>6. ASSUME NEW u \in User, CreateDepositRow(s, u) PROVE FundsReserved'
    BY <1>0, <2>6 DEF CreateDepositRow, Goto
  <2>7. ASSUME NEW u \in User, CreateDepositLot(s, u) PROVE FundsReserved'
    BY <1>0, <2>7 DEF CreateDepositLot, Goto
  <2>8. ASSUME NEW u \in User, ReadUpdatedBalance(s, u) PROVE FundsReserved'
    BY <1>0, <2>8 DEF ReadUpdatedBalance, Goto
  <2>9. CASE LookupTreasury(s)
    BY <1>0, <2>9 DEF LookupTreasury, Goto
  <2>10. CASE CreateTradeAndPosition(s)
    BY <1>0, <2>10 DEF CreateTradeAndPosition, Goto
  <2>11. CASE CreateAllocations(s)
    BY <1>0, <2>11 DEF CreateAllocations, Goto
  <2>12. CASE CreateFundingRows(s)
    BY <1>0, <2>12 DEF CreateFundingRows, Goto
  <2>13. CASE Commit(s)
    <3>1. \A t \in Session : t # s => pc'[t] = pc[t]
      BY <1>0, <2>13 DEF Commit, Goto
    <3>2. pc'[s] = "committed" /\ UNCHANGED <<kind, req, pending>>
      BY <1>0, <2>13 DEF Commit, Goto
    <3>3. ASSUME NEW t \in Session, t # s, kind[t] = "buy", pc[t] \in Running \ {"raised"},
                 NEW u \in DOMAIN req[t] \ pending[t]
          PROVE  lockX'[u] = t /\ cash'[u] >= req[t][u]
      <4>1. /\ u \in User /\ lockX[u] = t /\ cash[u] >= req[t][u]
            /\ req[t][u] \in Int /\ cash[u] \in Int
        BY <1>0, <3>3
      <4>0. cash'[u] \in Int
        BY TypeStep, <4>1
      <4>2. lockX'[u] = t
        BY <2>13, <3>3, <4>1 DEF Commit, Release
      <4>3. cash'[u] >= cash[u]
        <5>1. CASE u \in DOMAIN req[s]
          <6>1. kind[s] = "deposit"
            BY <1>0, <2>13, <3>3, <4>1, <5>1, CommitEffect
          <6>2. req[s][u] >= 0 /\ cash'[u] = cash[u] + req[s][u] /\ req[s][u] \in Int
            BY <1>0, <2>13, <4>1, <5>1, <6>1, CommitEffect
          <6>3. QED
            BY <4>1, <6>2
        <5>2. CASE u \notin DOMAIN req[s]
          <6>1. kind[s] = "buy" \/ kind[s] = "deposit"
            BY <1>0
          <6>2. cash'[u] = cash[u]
            BY <2>13, <4>1, <5>2, <6>1, CommitEffect
          <6>3. QED
            BY <4>1, <6>2
        <5>3. QED
          BY <5>1, <5>2
      <4>4. QED
        BY <4>0, <4>1, <4>2, <4>3
    <3>4. QED
      BY <1>0, <3>1, <3>2, <3>3
  <2>14. CASE Rollback(s)
    BY <1>0, <2>14 DEF Rollback, Goto, Release
  <2>15. QED
    BY <1>2, <2>1, <2>2, <2>3, <2>4, <2>5, <2>6, <2>7, <2>8,
       <2>9, <2>10, <2>11, <2>12, <2>13, <2>14 DEF Step
<1>3. ASSUME NEW s \in Session, Crash(s) PROVE FundsReserved'
  BY <1>0, <1>3 DEF Crash, Release
<1>4. CASE UNCHANGED vars
  BY <1>0, <1>4 DEF vars, IsNextUser
<1>5. QED
  BY <1>1, <1>2, <1>3, <1>4 DEF Next, Quiescent

\* A session ends with all of its rows or with none.
LEMMA RowsStep == IInv /\ [Next]_vars => RowsAreWhole'
<1> SUFFICES ASSUME IInv, [Next]_vars PROVE RowsAreWhole'
  OBVIOUS
<1> USE DEF TypeOK, RowsAreWhole, Running, data, locks
<1>0. TypeOK /\ BuyInv /\ DepositInv /\ RowsAreWhole
  BY DEF IInv, LedgerReconciles
<1>1. ASSUME NEW s \in Session, Submit(s) PROVE RowsAreWhole'
  <2>1. ASSUME NEW users \in (SUBSET User) \ {{}}, NEW cost \in [users -> Cost],
               SubmitBuy(s, users, cost)
        PROVE  RowsAreWhole'
    BY <1>0, <2>1, CostTypes DEF SubmitBuy, Goto
  <2>2. ASSUME NEW u \in User, NEW amount \in Amount, SubmitDeposit(s, u, amount)
        PROVE  RowsAreWhole'
    BY <1>0, <2>2 DEF SubmitDeposit, Goto
  <2>3. QED
    BY <1>1, <2>1, <2>2 DEF Submit
<1>2. ASSUME NEW s \in Session, Step(s) PROVE RowsAreWhole'
  <2>1. ASSUME NEW u \in User, ReadProfile(s, u) PROVE RowsAreWhole'
    BY <1>0, <2>1 DEF ReadProfile, Goto
  <2>2. ASSUME NEW u \in User, LockCashAccount(s, u) PROVE RowsAreWhole'
    BY <1>0, <2>2 DEF LockCashAccount, Goto
  <2>3. ASSUME NEW u \in User, CheckFunds(s, u) PROVE RowsAreWhole'
    BY <1>0, <2>3 DEF CheckFunds, Goto
  <2>4. ASSUME NEW u \in User, ReadInvestor(s, u) PROVE RowsAreWhole'
    BY <1>0, <2>4 DEF ReadInvestor, Goto
  <2>5. ASSUME NEW u \in User, ReadCashAccount(s, u) PROVE RowsAreWhole'
    BY <1>0, <2>5 DEF ReadCashAccount, Goto
  <2>6. ASSUME NEW u \in User, CreateDepositRow(s, u) PROVE RowsAreWhole'
    BY <1>0, <2>6 DEF CreateDepositRow, Goto
  <2>7. ASSUME NEW u \in User, CreateDepositLot(s, u) PROVE RowsAreWhole'
    BY <1>0, <2>7 DEF CreateDepositLot, Goto
  <2>8. ASSUME NEW u \in User, ReadUpdatedBalance(s, u) PROVE RowsAreWhole'
    BY <1>0, <2>8 DEF ReadUpdatedBalance, Goto
  <2>9. CASE LookupTreasury(s)
    BY <1>0, <2>9 DEF LookupTreasury, Goto
  <2>10. CASE CreateTradeAndPosition(s)
    BY <1>0, <2>10 DEF CreateTradeAndPosition, Goto
  <2>11. CASE CreateAllocations(s)
    BY <1>0, <2>11 DEF CreateAllocations, Goto
  <2>12. CASE CreateFundingRows(s)
    BY <1>0, <2>12 DEF CreateFundingRows, Goto
  <2>13. CASE Commit(s)
    BY <1>0, <2>13 DEF Commit, Goto, BuyInv, DepositInv
  <2>14. CASE Rollback(s)
    BY <1>0, <2>14 DEF Rollback, Goto
  <2>15. QED
    BY <1>2, <2>1, <2>2, <2>3, <2>4, <2>5, <2>6, <2>7, <2>8,
       <2>9, <2>10, <2>11, <2>12, <2>13, <2>14 DEF Step
<1>3. ASSUME NEW s \in Session, Crash(s) PROVE RowsAreWhole'
  BY <1>0, <1>3 DEF Crash
<1>4. CASE UNCHANGED vars
  BY <1>0, <1>4 DEF vars, IsNextUser
<1>5. QED
  BY <1>1, <1>2, <1>3, <1>4 DEF Next, Quiescent

\* Every commit keeps the balances covered and reconciled.
LEMMA SumsStep == IInv /\ [Next]_vars => (CashNonNegative /\ SumsAgree)'
<1> SUFFICES ASSUME IInv, [Next]_vars PROVE (CashNonNegative /\ SumsAgree)'
  OBVIOUS
<1> USE DEF TypeOK, CashNonNegative, SumsAgree, Running, data, locks
<1>0. TypeOK /\ BuyInv /\ DepositInv /\ FundsReserved /\ CashNonNegative /\ SumsAgree
  BY DEF IInv, LedgerReconciles
<1>1. ASSUME NEW s \in Session, Submit(s) PROVE (CashNonNegative /\ SumsAgree)'
  <2>1. ASSUME NEW users \in (SUBSET User) \ {{}}, NEW cost \in [users -> Cost],
               SubmitBuy(s, users, cost)
        PROVE  (CashNonNegative /\ SumsAgree)'
    BY <1>0, <2>1, CostTypes DEF SubmitBuy, Goto
  <2>2. ASSUME NEW u \in User, NEW amount \in Amount, SubmitDeposit(s, u, amount)
        PROVE  (CashNonNegative /\ SumsAgree)'
    BY <1>0, <2>2 DEF SubmitDeposit, Goto
  <2>3. QED
    BY <1>1, <2>1, <2>2 DEF Submit
<1>2. ASSUME NEW s \in Session, Step(s) PROVE (CashNonNegative /\ SumsAgree)'
  <2>1. ASSUME NEW u \in User, ReadProfile(s, u) PROVE (CashNonNegative /\ SumsAgree)'
    BY <1>0, <2>1 DEF ReadProfile, Goto
  <2>2. ASSUME NEW u \in User, LockCashAccount(s, u) PROVE (CashNonNegative /\ SumsAgree)'
    BY <1>0, <2>2 DEF LockCashAccount, Goto
  <2>3. ASSUME NEW u \in User, CheckFunds(s, u) PROVE (CashNonNegative /\ SumsAgree)'
    BY <1>0, <2>3 DEF CheckFunds, Goto
  <2>4. ASSUME NEW u \in User, ReadInvestor(s, u) PROVE (CashNonNegative /\ SumsAgree)'
    BY <1>0, <2>4 DEF ReadInvestor, Goto
  <2>5. ASSUME NEW u \in User, ReadCashAccount(s, u) PROVE (CashNonNegative /\ SumsAgree)'
    BY <1>0, <2>5 DEF ReadCashAccount, Goto
  <2>6. ASSUME NEW u \in User, CreateDepositRow(s, u) PROVE (CashNonNegative /\ SumsAgree)'
    BY <1>0, <2>6 DEF CreateDepositRow, Goto
  <2>7. ASSUME NEW u \in User, CreateDepositLot(s, u) PROVE (CashNonNegative /\ SumsAgree)'
    BY <1>0, <2>7 DEF CreateDepositLot, Goto
  <2>8. ASSUME NEW u \in User, ReadUpdatedBalance(s, u) PROVE (CashNonNegative /\ SumsAgree)'
    BY <1>0, <2>8 DEF ReadUpdatedBalance, Goto
  <2>9. CASE LookupTreasury(s)
    BY <1>0, <2>9 DEF LookupTreasury, Goto
  <2>10. CASE CreateTradeAndPosition(s)
    BY <1>0, <2>10 DEF CreateTradeAndPosition, Goto
  <2>11. CASE CreateAllocations(s)
    BY <1>0, <2>11 DEF CreateAllocations, Goto
  <2>12. CASE CreateFundingRows(s)
    BY <1>0, <2>12 DEF CreateFundingRows, Goto
  <2>13. CASE Commit(s)
    BY <1>0, <2>13, CommitEffect
  <2>14. CASE Rollback(s)
    BY <1>0, <2>14 DEF Rollback, Goto, Release
  <2>15. QED
    BY <1>2, <2>1, <2>2, <2>3, <2>4, <2>5, <2>6, <2>7, <2>8,
       <2>9, <2>10, <2>11, <2>12, <2>13, <2>14 DEF Step
<1>3. ASSUME NEW s \in Session, Crash(s) PROVE (CashNonNegative /\ SumsAgree)'
  BY <1>0, <1>3 DEF Crash, Release
<1>4. CASE UNCHANGED vars
  BY <1>0, <1>4 DEF vars, IsNextUser
<1>5. QED
  BY <1>1, <1>2, <1>3, <1>4 DEF Next, Quiescent
-------------------------------------------------------------------------------
\* The inductive invariant holds in every reachable state.
THEOREM Invariance == Spec => []IInv
<1>1. IInv /\ [Next]_vars => IInv'
  BY TypeStep, PhaseStep, RequestStep, BuyStep, DepositStep, LockStep, FundsStep,
     RowsStep, SumsStep DEF IInv, LedgerReconciles
<1>2. QED
  BY InitIInv, <1>1, PTL DEF Spec

\* Every variable keeps its type.
THEOREM TypeCorrect == Spec => []TypeOK
<1>1. IInv => TypeOK
  BY DEF IInv
<1>2. QED
  BY Invariance, <1>1, PTL

\* No interleaving of buys, deposits, rollbacks and crashes overspends a cash
\* account, whatever the number of users and requests and whatever the costs.
THEOREM NoOverspending == Spec => []CashNonNegative
<1>1. IInv => CashNonNegative
  BY DEF IInv
<1>2. QED
  BY Invariance, <1>1, PTL

\* Cash balances are always the capital lots less the allocations.
THEOREM Reconciliation == Spec => []LedgerReconciles
<1>1. IInv => LedgerReconciles
  BY DEF IInv
<1>2. QED
  BY Invariance, <1>1, PTL

\* Funds a buy has found sufficient stay locked and sufficient until it ends.
THEOREM Reservation == Spec => []FundsReserved
<1>1. IInv => FundsReserved
  BY DEF IInv
<1>2. QED
  BY Invariance, <1>1, PTL

-------------------------------------------------------------------------------
(* The order of the locks *)

\* Only buys hold FOR UPDATE, on users before those they have left to validate; a
\* session that holds KEY SHARE has no lock to wait for.
LockOrder ==
    \A u \in User, s \in Session :
        /\ lockX[u] = s =>
              /\ kind[s] = "buy"
              /\ pc[s] \in {"profile", "lock", "funds", "treasury", "trade", "allocations",
                            "ledger", "commit", "raised"}
              /\ \/ pc[s] = "raised"
                 \/ pc[s] = "funds" /\ IsNextUser(s, u)
                 \/ \A v \in pending[s] : u < v
        /\ s \in lockS[u] => pc[s] \in {"lot", "balance", "commit", "raised"}

\* Every step keeps the order of the locks: a buy takes the account of the least user left,
\* and a deposit never waits once it has locked.
LEMMA OrderStep == IInv /\ LockOrder /\ [Next]_vars => LockOrder'
<1> SUFFICES ASSUME IInv, LockOrder, [Next]_vars, NEW u \in User, NEW t \in Session
             PROVE  /\ lockX'[u] = t =>
                          /\ kind'[t] = "buy"
                          /\ pc'[t] \in {"profile", "lock", "funds", "treasury", "trade",
                                         "allocations", "ledger", "commit", "raised"}
                          /\ \/ pc'[t] = "raised"
                             \/ pc'[t] = "funds" /\ IsNextUser(t, u)'
                             \/ \A v \in pending'[t] : u < v
                    /\ t \in lockS'[u] => pc'[t] \in {"lot", "balance", "commit", "raised"}
  BY DEF LockOrder
<1> DEFINE Ordered == /\ lockX'[u] = t =>
                            /\ kind'[t] = "buy"
                            /\ pc'[t] \in {"profile", "lock", "funds", "treasury", "trade",
                                           "allocations", "ledger", "commit", "raised"}
                            /\ \/ pc'[t] = "raised"
                               \/ pc'[t] = "funds" /\ IsNextUser(t, u)'
                               \/ \A v \in pending'[t] : u < v
                      /\ t \in lockS'[u] => pc'[t] \in {"lot", "balance", "commit", "raised"}
<1>0. /\ TypeOK /\ PhaseInv
      /\ lockX[u] = t =>
            /\ kind[t] = "buy"
            /\ pc[t] \in {"profile", "lock", "funds", "treasury", "trade", "allocations",
                          "ledger", "commit", "raised"}
            /\ \/ pc[t] = "raised"
               \/ pc[t] = "funds" /\ IsNextUser(t, u)
               \/ \A v \in pending[t] : u < v
      /\ t \in lockS[u] => pc[t] \in {"lot", "balance", "commit", "raised"}
      /\ u \in Nat /\ \A v \in pending[t] : v \in Nat
  BY DEF IInv, LockOrder, TypeOK
<1> USE DEF TypeOK, PhaseInv, data, locks, Goto, IsNextUser
<1>1. ASSUME NEW s \in Session, Submit(s) PROVE Ordered
  BY <1>0, <1>1 DEF Submit, SubmitBuy, SubmitDeposit
<1>2. ASSUME NEW s \in Session, NEW n \in User, ReadProfile(s, n) PROVE Ordered
  BY <1>0, <1>2 DEF ReadProfile
<1>3. ASSUME NEW s \in Session, NEW n \in User, LockCashAccount(s, n) PROVE Ordered
  BY <1>0, <1>3 DEF LockCashAccount
<1>4. ASSUME NEW s \in Session, NEW n \in User, CheckFunds(s, n) PROVE Ordered
  <2>0. UNCHANGED <<lockX, lockS, kind>> /\ IsNextUser(s, n)
    BY <1>4 DEF CheckFunds
  <2>1. CASE t = s
    <3>1. CASE pc'[s] = "raised"
      BY <1>0, <2>0, <2>1, <3>1 DEF CheckFunds
    <3>2. CASE pc'[s] # "raised"
      <4>1. /\ pc[s] = "funds" /\ pc'[s] \in {"treasury", "profile"}
            /\ pending'[s] = pending[s] \ {n}
        BY <1>0, <1>4, <3>2 DEF CheckFunds
      <4>2. IsNextUser(s, u) => u = n
        <5>1. u \in Nat /\ n \in Nat
          BY <1>0
        <5> QED BY <2>0, <5>1
      <4>3. \A v \in pending[s] \ {n} : n < v
        BY <1>0, <2>0, <2>1
      <4>4. lockX[u] = s => \A v \in pending'[s] : u < v
        <5>1. \/ pc[s] = "funds" /\ IsNextUser(s, u)
              \/ \A v \in pending[s] : u < v
              \/ lockX[u] # s
          BY <1>0, <2>1, <4>1
        <5> QED BY <4>1, <4>2, <4>3, <5>1
      <4> QED BY <1>0, <2>0, <2>1, <4>1, <4>4
    <3> QED BY <3>1, <3>2
  <2>2. CASE t # s
    <3>1. pc'[t] = pc[t] /\ pending'[t] = pending[t]
      BY <1>0, <1>4, <2>2 DEF CheckFunds
    <3> QED BY <1>0, <2>0, <3>1
  <2> QED BY <2>1, <2>2
<1>5. ASSUME NEW s \in Session, NEW n \in User,
             ReadInvestor(s, n) \/ ReadCashAccount(s, n) \/ CreateDepositLot(s, n)
                \/ ReadUpdatedBalance(s, n)
      PROVE  Ordered
  BY <1>0, <1>5 DEF ReadInvestor, ReadCashAccount, CreateDepositLot, ReadUpdatedBalance
<1>6. ASSUME NEW s \in Session, NEW n \in User, CreateDepositRow(s, n) PROVE Ordered
  BY <1>0, <1>6 DEF CreateDepositRow
<1>7. ASSUME NEW s \in Session,
             LookupTreasury(s) \/ CreateTradeAndPosition(s) \/ CreateAllocations(s)
                \/ CreateFundingRows(s)
      PROVE  Ordered
  BY <1>0, <1>7 DEF LookupTreasury, CreateTradeAndPosition, CreateAllocations,
                    CreateFundingRows
<1>8. ASSUME NEW s \in Session, Commit(s) \/ Rollback(s) \/ Crash(s) PROVE Ordered
  <2>1. /\ lockX'[u] = IF lockX[u] = s THEN None ELSE lockX[u]
        /\ lockS'[u] = lockS[u] \ {s}
        /\ UNCHANGED <<kind, pending>>
        /\ t # s => pc'[t] = pc[t]
    BY <1>0, <1>8 DEF Commit, Rollback, Crash, Release
  <2> QED BY <1>0, <2>1
<1>9. CASE UNCHANGED vars
  BY <1>0, <1>9 DEF vars
<1> QED
  BY <1>1, <1>2, <1>3, <1>4, <1>5, <1>6, <1>7, <1>8, <1>9 DEF Next, Step, Quiescent

\* Among sessions that wait, the one that waits for the greatest user waits for a
\* session outside: who holds that user's lock waits for a greater one or for none.
LEMMA OrderBreaksCycles == IInv /\ LockOrder => NoLockCycle
<1> SUFFICES ASSUME IInv, LockOrder, NEW waiting \in (SUBSET Session) \ {{}},
                    \A s \in waiting : \E t \in waiting : WaitsFor(s, t)
             PROVE  FALSE
  BY DEF NoLockCycle
<1> DEFINE Wanted == {u \in User : \E s \in waiting : pc[s] = "lock" /\ IsNextUser(s, u)}
<1>1. ASSUME NEW s \in waiting
      PROVE  /\ pc[s] \in {"lock", "deposit"}
             /\ pc[s] = "deposit" => kind[s] = "deposit"
             /\ pc[s] = "lock" => \E u \in Wanted : IsNextUser(s, u)
  BY <1>1 DEF IInv, PhaseInv, WaitsFor
<1>2. CASE Wanted = {}
  <2>1. PICK s \in waiting, t \in waiting : WaitsFor(s, t)
    OBVIOUS
  <2>2. pc[s] = "deposit" /\ kind[t] = "deposit"
    BY <1>1, <1>2
  <2>3. \E u \in User : lockX[u] = t
    BY <2>1, <2>2 DEF WaitsFor
  <2> QED BY <2>2, <2>3 DEF LockOrder
<1>3. CASE Wanted # {}
  <2>1. Wanted \in SUBSET Nat /\ IsFiniteSet(Wanted)
    BY FS_Subset
  <2> HIDE DEF Wanted
  <2>2. PICK n \in Wanted : \A m \in Wanted : m <= n
    BY <1>3, <2>1, GreatestNatural
  <2> USE DEF Wanted
  <2>3. PICK s \in waiting : pc[s] = "lock" /\ IsNextUser(s, n)
    BY <2>2
  <2>4. PICK t \in waiting : WaitsFor(s, t)
    OBVIOUS
  <2>5. PICK u \in User : IsNextUser(s, u) /\ (lockX[u] = t \/ t \in lockS[u])
    BY <2>3, <2>4 DEF WaitsFor
  <2>6. u = n /\ n \in User
    BY <2>3, <2>5 DEF IsNextUser, IInv, TypeOK
  <2>7. lockX[n] = t
    BY <1>1, <2>5, <2>6 DEF LockOrder
  <2>8. pc[t] = "lock" /\ \A v \in pending[t] : n < v
    BY <1>1, <2>6, <2>7 DEF LockOrder
  <2>9. PICK v \in Wanted : IsNextUser(t, v)
    BY <1>1, <2>8
  <2> QED BY <2>1, <2>2, <2>8, <2>9 DEF IsNextUser
<1> QED BY <1>2, <1>3

\* execute_buy locks the accounts of its users in the order of their ids, a deposit one
\* account only: however many run together, they never wait for each other in a cycle.
THEOREM NoDeadlock == Spec => []NoLockCycle
<1>1. Init => LockOrder
  BY DEF Init, LockOrder
<1>2. IInv /\ LockOrder => NoLockCycle
  BY OrderBreaksCycles
<1> QED BY <1>1, <1>2, OrderStep, Invariance, PTL DEF Spec

-------------------------------------------------------------------------------
\* Only a commit changes the sums or ends a request as committed.
LEMMA OtherSteps ==
    ASSUME TypeOK, [Next]_vars, \A s \in Session : ~Commit(s)
    PROVE  /\ UNCHANGED data
           /\ \A s \in Session : pc'[s] = "committed" => pc[s] = "committed"
<1> USE DEF TypeOK, data, locks, Goto
<1>1. ASSUME NEW s \in Session, Submit(s)
      PROVE  /\ UNCHANGED data
             /\ \A t \in Session : pc'[t] = "committed" => pc[t] = "committed"
  BY <1>1 DEF Submit, SubmitBuy, SubmitDeposit
<1>2. ASSUME NEW s \in Session, Step(s)
      PROVE  /\ UNCHANGED data
             /\ \A t \in Session : pc'[t] = "committed" => pc[t] = "committed"
  <2>1. ASSUME NEW u \in User,
               \/ ReadProfile(s, u)
               \/ LockCashAccount(s, u)
               \/ CheckFunds(s, u)
               \/ ReadInvestor(s, u)
        PROVE  /\ UNCHANGED data
               /\ \A t \in Session : pc'[t] = "committed" => pc[t] = "committed"
    BY <2>1 DEF ReadProfile, LockCashAccount, CheckFunds, ReadInvestor
  <2>2. ASSUME NEW u \in User,
               \/ ReadCashAccount(s, u)
               \/ CreateDepositRow(s, u)
               \/ CreateDepositLot(s, u)
               \/ ReadUpdatedBalance(s, u)
        PROVE  /\ UNCHANGED data
               /\ \A t \in Session : pc'[t] = "committed" => pc[t] = "committed"
    BY <2>2 DEF ReadCashAccount, CreateDepositRow, CreateDepositLot, ReadUpdatedBalance
  <2>3. CASE \/ LookupTreasury(s)
             \/ CreateTradeAndPosition(s)
             \/ CreateAllocations(s)
             \/ CreateFundingRows(s)
             \/ Rollback(s)
    BY <2>3 DEF LookupTreasury, CreateTradeAndPosition, CreateAllocations,
                CreateFundingRows, Rollback
  <2>4. QED
    BY <1>2, <2>1, <2>2, <2>3 DEF Step
<1>3. ASSUME NEW s \in Session, Crash(s)
      PROVE  /\ UNCHANGED data
             /\ \A t \in Session : pc'[t] = "committed" => pc[t] = "committed"
  BY <1>3 DEF Crash
<1>4. CASE UNCHANGED vars
  BY <1>4 DEF vars
<1>5. QED
  BY <1>1, <1>2, <1>3, <1>4 DEF Next, Quiescent

\* A deposit never answers with more than the account holds when it commits.
THEOREM ReportedBalance == Spec => ReportedIsCovered
<1> DEFINE Covered ==
      \A s \in Session :
          pc[s] = "commit" /\ pc'[s] = "committed" /\ kind[s] = "deposit" =>
              \A u \in DOMAIN req[s] : reported[s] <= cash'[u]
<1>1. IInv /\ [Next]_vars => [Covered]_vars
  <2> SUFFICES ASSUME IInv, Next, NEW s \in Session, pc[s] = "commit",
                      pc'[s] = "committed", kind[s] = "deposit", NEW u \in DOMAIN req[s]
               PROVE  reported[s] <= cash'[u]
    OBVIOUS
  <2>1. TypeOK /\ PhaseInv
    BY DEF IInv
  <2>2. PICK t \in Session : Commit(t)
    BY <2>1, OtherSteps
  <2>3. Commit(s)
    BY <2>1, <2>2 DEF Commit, Goto, TypeOK
  <2>4. reported[s] <= cash[u] + req[s][u] /\ cash'[u] = cash[u] + req[s][u]
    BY <2>1, <2>3, CommitEffect DEF IInv, DepositInv, TypeOK, Running
  <2>5. QED
    BY <2>4
<1>2. QED
  BY Invariance, <1>1, PTL DEF Spec, ReportedIsCovered

-------------------------------------------------------------------------------
\* Requests of many statements, interleaved, rolled back or cut by a crash,
\* implement the abstract ledger: every change of the sums is one deposit in
\* full, or one buy of all its users, each of whom can pay.
THEOREM Refinement == Spec => ImplementsCashLedger
<1>1. Init => Ledger!Init
  BY DEF Init, Ledger!Init
<1>2. IInv /\ [Next]_vars => [Ledger!Next]_(Ledger!vars)
  <2> SUFFICES ASSUME IInv, [Next]_vars, ~UNCHANGED data PROVE Ledger!Next
    BY DEF Ledger!vars, data
  <2>1. TypeOK
    BY DEF IInv
  <2>2. PICK s \in Session : Commit(s)
    BY <2>1, OtherSteps
  <2>3. pc[s] = "commit" /\ DOMAIN req[s] \subseteq User
    BY <2>1, <2>2 DEF Commit, Goto, TypeOK
  <2>4. /\ cash' = [u \in User |-> cash'[u]]
        /\ lots' = [u \in User |-> lots'[u]]
        /\ invested' = [u \in User |-> invested'[u]]
        /\ cash = [u \in User |-> cash[u]]
        /\ lots = [u \in User |-> lots[u]]
        /\ invested = [u \in User |-> invested[u]]
    BY <2>1, TypeStep DEF TypeOK
  <2>5. CASE kind[s] = "buy"
    <3> DEFINE users == DOMAIN req[s]
               cost  == [u \in users |-> req[s][u]]
    <3>1. cost \in [users -> Cost]
      BY <2>3, <2>5 DEF IInv, RequestInv, Running
    <3>2. \A u \in users : cash[u] >= cost[u]
      BY <2>2, <2>3, <2>5, CommitEffect
    <3>3. /\ \A u \in User : cash'[u] = IF u \in users THEN cash[u] - cost[u] ELSE cash[u]
          /\ \A u \in User : invested'[u] = IF u \in users THEN invested[u] + cost[u]
                                                           ELSE invested[u]
          /\ \A u \in User : lots'[u] = lots[u]
      BY <2>2, <2>5, CommitEffect
    <3>4. Ledger!Buy(users, cost)
      BY <2>4, <3>2, <3>3 DEF Ledger!Buy
    <3>5. QED
      BY <2>3, <3>1, <3>4 DEF Ledger!Next
  <2>6. CASE kind[s] = "deposit"
    <3>1. PICK u \in User : DOMAIN req[s] = {u}
      BY <2>3, <2>6 DEF IInv, DepositInv, Running
    <3>2. req[s][u] \in Amount
      BY <2>3, <2>6, <3>1 DEF IInv, DepositInv, Running
    <3>3. /\ \A v \in User : cash'[v] = IF v = u THEN cash[u] + req[s][u] ELSE cash[v]
          /\ \A v \in User : lots'[v] = IF v = u THEN lots[u] + req[s][u] ELSE lots[v]
          /\ \A v \in User : invested'[v] = invested[v]
      BY <2>2, <2>6, <3>1, CommitEffect
    <3>4. Ledger!Deposit(u, req[s][u])
      BY <2>4, <3>3 DEF Ledger!Deposit
    <3>5. QED
      BY <3>2, <3>4 DEF Ledger!Next
  <2>7. QED
    BY <2>1, <2>5, <2>6 DEF TypeOK
<1>3. QED
  BY Invariance, <1>1, <1>2, PTL DEF Spec, ImplementsCashLedger, Ledger!Spec
===============================================================================
