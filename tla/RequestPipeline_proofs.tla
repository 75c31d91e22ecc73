------------------------- MODULE RequestPipeline_proofs -------------------------
(***************************************************************************)
(* Proofs about the life of a request, for any number of clients, rows,    *)
(* connections and repeats.                                                *)
(***************************************************************************)
EXTENDS RequestPipeline, TLAPS

\* Before an exception and after its handler, nothing is raised.
RaisedOK ==
    \A c \in Client :
        /\ pc[c] \notin {"except", "close"} => raised[c] = "none"
        /\ pc[c] = "except" => raised[c] # "none"

\* A connection is held from its checkout to the end of the session, and a lock
\* only inside a transaction.
LeaseInv ==
    /\ \A c \in Client :
          /\ pc[c] \in {"role"} \cup InTransaction => <<c, "request">> \in leases
          /\ <<c, "request">> \in leases =>
                pc[c] \notin {"token", "checkout", "respond", "answered"}
    /\ \A r \in Row : lock[r] # None => pc[lock[r]] \in InTransaction

\* Has the request under way been committed, or answered 200?
Done(c) ==
    \/ pc[c] = "respond"
    \/ pc[c] = "close" /\ raised[c] = "none"
    \/ pc[c] = "answered" /\ status[c] = 200

\* What has been committed are the requests that are done, those before whose answer
\* of 200 did not arrive, and some of those whose commit the connection did not survive.
OutcomeInv ==
    \A c \in Client :
        LET done == IF Done(c) THEN 1 ELSE 0
        IN  /\ unheard[c] + done <= applied[c]
            /\ applied[c] <= unheard[c] + done + lost[c]

\* Only an administrator gets past require_admin.
RoleInv ==
    \A c \in Client :
        pc[c] \in {"respond"} \cup InTransaction \/ applied[c] > 0 => role[c] = "ADMIN"

IInv == TypeOK /\ RaisedOK /\ LeaseInv /\ OutcomeInv /\ RoleInv

\* Every exception has an error status, and what no handler expects has 500.
LEMMA StatusOfErrors ==
    ASSUME NEW e \in Refusal \cup OtherError \cup HttpError
    PROVE  /\ StatusOf(e) \in {400, 500}
           /\ StatusOf(e) = 500 <=> e \in OtherError
BY ConstantsAssumption DEF StatusOf, DomainError, OtherError, HttpError

\* What has been raised has an error status.
LEMMA RaisedHasError ==
    ASSUME TypeOK, NEW c \in Client, raised[c] # "none"
    PROVE  StatusOf(raised[c]) \in {400, 500}
<1>1. raised[c] \in Refusal \cup OtherError \cup HttpError
  BY DEF TypeOK
<1> QED BY <1>1, StatusOfErrors

\* The invariant holds initially: no request is under way.
LEMMA InitIInv == Init => IInv
BY ConstantsAssumption
   DEF Init, IInv, TypeOK, RaisedOK, LeaseInv, OutcomeInv, RoleInv, Done,
       Phases, InTransaction

\* Every step keeps the types.
LEMMA TypeStep == IInv /\ [Next]_vars => TypeOK'
<1> SUFFICES ASSUME IInv, [Next]_vars PROVE TypeOK'
  OBVIOUS
<1> USE ConstantsAssumption
    DEF IInv, TypeOK, Phases, InTransaction, Goto, Raise, Unlocked, Returned,
        DomainError, OtherError, HttpError, client, told
<1>1. ASSUME NEW c \in Client, Authenticate(c) \/ Checkout(c) \/ CheckoutTimesOut(c) PROVE TypeOK'
  BY <1>1 DEF Authenticate, Checkout, CheckoutTimesOut
<1>2. ASSUME NEW c \in Client, ReadRole(c) PROVE TypeOK'
  BY <1>2 DEF ReadRole
<1>3. ASSUME NEW c \in Client, LockRow(c) \/ Finish(c) \/ Fail(c) PROVE TypeOK'
  BY <1>3 DEF LockRow, Finish, Fail
<1>4. ASSUME NEW c \in Client, Commit(c) \/ Respond(c) \/ Rollback(c) PROVE TypeOK'
  BY <1>4 DEF Commit, Respond, Rollback
<1>5. ASSUME NEW c \in Client, Close(c) PROVE TypeOK'
  <2>1. raised[c] # "none" => StatusOf(raised[c]) \in {400, 500}
    BY RaisedHasError DEF IInv
  <2>2. status' \in [Client -> {0, 200, 400, 500}]
    BY <1>5, <2>1 DEF Close, Answer
  <2> QED BY <1>5, <2>2 DEF Close, Answer
<1>6. ASSUME NEW c \in Client, LoseConnection(c) \/ LoseCommit(c) PROVE TypeOK'
  BY <1>6 DEF LoseConnection, LoseCommit
<1>7. ASSUME NEW c \in Client, Retry(c) PROVE TypeOK'
  BY <1>7 DEF Retry
<1>8. CASE UNCHANGED vars
  BY <1>8 DEF vars, client, told
<1> QED BY <1>1, <1>2, <1>3, <1>4, <1>5, <1>6, <1>7, <1>8 DEF Next, Step, Fault

\* Every step keeps what is known of exceptions, connections, locks and roles.
LEMMA LeaseStep == IInv /\ [Next]_vars => (RaisedOK /\ LeaseInv /\ RoleInv)'
<1> SUFFICES ASSUME IInv, [Next]_vars PROVE (RaisedOK /\ LeaseInv /\ RoleInv)'
  OBVIOUS
<1> DEFINE Kept == RaisedOK' /\ LeaseInv' /\ RoleInv'
<1> USE ConstantsAssumption
    DEF IInv, TypeOK, Phases, InTransaction, Goto, Raise, Unlocked, Returned, RaisedOK, LeaseInv,
        RoleInv, OutcomeInv, Done, DomainError, OtherError, HttpError, client, told
<1>1. ASSUME NEW c \in Client, Authenticate(c) \/ Checkout(c) \/ CheckoutTimesOut(c) PROVE Kept
  BY <1>1 DEF Authenticate, Checkout, CheckoutTimesOut
<1>2. ASSUME NEW c \in Client, ReadRole(c) PROVE Kept
  BY <1>2 DEF ReadRole
<1>3. ASSUME NEW c \in Client, LockRow(c) \/ Finish(c) \/ Fail(c) PROVE Kept
  BY <1>3 DEF LockRow, Finish, Fail
<1>4. ASSUME NEW c \in Client, Commit(c) \/ Respond(c) \/ Rollback(c) PROVE Kept
  BY <1>4 DEF Commit, Respond, Rollback
<1>5. ASSUME NEW c \in Client, Close(c) PROVE Kept
  BY <1>5 DEF Close, Answer
<1>6. ASSUME NEW c \in Client, LoseConnection(c) \/ LoseCommit(c) PROVE Kept
  BY <1>6 DEF LoseConnection, LoseCommit
<1>7. ASSUME NEW c \in Client, Retry(c) PROVE Kept
  BY <1>7 DEF Retry
<1>8. CASE UNCHANGED vars
  BY <1>8 DEF vars, client, told
<1> QED BY <1>1, <1>2, <1>3, <1>4, <1>5, <1>6, <1>7, <1>8 DEF Next, Step, Fault

\* Every step keeps the account of what was committed and answered.
LEMMA OutcomeStep == IInv /\ [Next]_vars => OutcomeInv'
<1> SUFFICES ASSUME IInv, [Next]_vars PROVE OutcomeInv'
  OBVIOUS
<1> USE DEF IInv, TypeOK, Phases, InTransaction, Goto, Raise, RaisedOK,
            OutcomeInv, Done, DomainError, OtherError, HttpError, client, told
<1>1. ASSUME NEW c \in Client, Authenticate(c) \/ Checkout(c) \/ CheckoutTimesOut(c)
      PROVE  OutcomeInv'
  BY <1>1 DEF Authenticate, Checkout, CheckoutTimesOut
<1>2. ASSUME NEW c \in Client, ReadRole(c) PROVE OutcomeInv'
  BY <1>2 DEF ReadRole
<1>3. ASSUME NEW c \in Client, LockRow(c) \/ Finish(c) \/ Fail(c) PROVE OutcomeInv'
  BY <1>3 DEF LockRow, Finish, Fail
<1>4. ASSUME NEW c \in Client, Commit(c) \/ Respond(c) \/ Rollback(c) PROVE OutcomeInv'
  BY <1>4 DEF Commit, Respond, Rollback
<1>5. ASSUME NEW c \in Client, Close(c) PROVE OutcomeInv'
  <2>1. status'[c] = 200 <=> raised[c] = "none"
    <3>1. raised[c] # "none" => StatusOf(raised[c]) # 200
      BY RaisedHasError
    <3> QED BY <1>5, <3>1 DEF Close, Answer
  <2> QED BY <1>5, <2>1 DEF Close, Answer
<1>6. ASSUME NEW c \in Client, LoseConnection(c) PROVE OutcomeInv'
  BY <1>6 DEF LoseConnection
<1>7. ASSUME NEW c \in Client, LoseCommit(c) PROVE OutcomeInv'
  BY <1>7 DEF LoseCommit
<1>8. ASSUME NEW c \in Client, Retry(c) PROVE OutcomeInv'
  BY <1>8 DEF Retry
<1>9. CASE UNCHANGED vars
  BY <1>9 DEF vars, client, told
<1> QED BY <1>1, <1>2, <1>3, <1>4, <1>5, <1>6, <1>7, <1>8, <1>9 DEF Next, Step, Fault

\* The invariant holds in every reachable state.
THEOREM Invariance == Spec => []IInv
<1>1. IInv /\ [Next]_vars => IInv'
  BY TypeStep, LeaseStep, OutcomeStep DEF IInv
<1> QED BY <1>1, InitIInv, PTL DEF Spec

\* The types hold in every reachable state.
THEOREM TypeCorrect == Spec => []TypeOK
<1>1. IInv => TypeOK
  BY DEF IInv
<1> QED BY <1>1, Invariance, PTL

\* get_db_session: an answered request keeps neither a connection nor a lock, and a
\* request that holds a lock waits for no connection.
THEOREM SessionsEnd == Spec => []NothingOutlivesItsRequest
<1>1. IInv => NothingOutlivesItsRequest
  BY DEF IInv, TypeOK, LeaseInv, NothingOutlivesItsRequest, InTransaction
<1> QED BY <1>1, Invariance, PTL

\* The answers a client is given say what is stored: as many transactions of a client
\* are committed as it has been answered 200, and no other unless the connection broke
\* during its commit, however often the client repeats its request.
THEOREM AnswersAreTrue == Spec => []AnswerMatchesOutcome
<1>1. ASSUME IInv, NEW c \in Client, pc[c] = "answered"
      PROVE  Confirmed(c) <= applied[c] /\ applied[c] <= Confirmed(c) + lost[c]
  <2>1. Confirmed(c) = unheard[c] + (IF Done(c) THEN 1 ELSE 0)
    BY <1>1 DEF Confirmed, Done
  <2> QED BY <1>1, <2>1 DEF IInv, OutcomeInv
<1>2. IInv => AnswerMatchesOutcome
  BY <1>1 DEF AnswerMatchesOutcome
<1> QED BY <1>2, Invariance, PTL

\* A client that repeats its request is charged or credited once, and once more at most
\* for each commit it was not told of, during which the connection broke or whose answer
\* did not arrive.
THEOREM RepeatsAreSafe == Spec => []RepeatsNeedLostCommits
<1>1. ASSUME IInv, NEW c \in Client PROVE applied[c] <= 1 + lost[c] + unheard[c]
  BY <1>1 DEF IInv, TypeOK, OutcomeInv
<1>2. IInv => RepeatsNeedLostCommits
  BY <1>1 DEF RepeatsNeedLostCommits
<1> QED BY <1>2, Invariance, PTL

\* No refusal of the application reaches the client as a server error, and no fault as
\* a refusal.
THEOREM RefusalsHaveHandlers == Spec => RefusalsAreExplained
<1> DEFINE Explained(c) ==
               pc[c] = "close" /\ pc'[c] = "answered" =>
                   (status'[c] = 500 <=> raised[c] \in OtherError)
<1>1. ASSUME IInv, Next, NEW c \in Client PROVE Explained(c)
  <2>1. SUFFICES ASSUME pc[c] = "close", pc'[c] = "answered"
                 PROVE  status'[c] = 500 <=> raised[c] \in OtherError
    OBVIOUS
  <2>2. Answer(c)
    BY <1>1, <2>1 DEF IInv, TypeOK, Next, Step, Fault, Authenticate, Checkout, CheckoutTimesOut,
          ReadRole, LockRow, Fail, Finish, Commit, Respond, Rollback, Close, Answer,
          LoseConnection, LoseCommit, Retry, Goto, Phases, InTransaction, vars
  <2>3. status'[c] = IF raised[c] = "none" THEN 200 ELSE StatusOf(raised[c])
    BY <1>1, <2>2 DEF IInv, TypeOK, Answer
  <2>4. raised[c] # "none" => (StatusOf(raised[c]) = 500 <=> raised[c] \in OtherError)
    BY <1>1, StatusOfErrors DEF IInv, TypeOK
  <2> QED BY <2>3, <2>4 DEF OtherError
<1>2. IInv /\ [Next]_vars => [\A c \in Client : Explained(c)]_vars
  BY <1>1
<1> QED BY <1>2, Invariance, PTL DEF Spec, RefusalsAreExplained

\* require_admin: a client who is not an administrator locks and commits nothing.
THEOREM AdministratorsOnly == Spec => []OnlyAdministratorsWork
<1>1. IInv => OnlyAdministratorsWork
  BY ConstantsAssumption DEF IInv, TypeOK, LeaseInv, RoleInv, OnlyAdministratorsWork
<1> QED BY <1>1, Invariance, PTL
===============================================================================
