------------------------- MODULE ProfileUpdates_proofs -------------------------
(***************************************************************************)
(* Proofs about concurrent updates of profiles, for any users and names.   *)
(***************************************************************************)
EXTENDS ProfileUpdates, TLAPS

\* What a session has read and written: a name that differs from the one asked for is
\* locked until it is read back, and one that does not is what the row holds.
ReadBack ==
    \A s \in Session :
        LET u == req[s].user
        IN  /\ pc[s] \in {"flush", "refresh"} => loaded[s] = stored[u]
            /\ pc[s] = "refresh" /\ loaded[s] # req[s].name => rowLock[u] = s

IInv == TypeOK /\ ReadBack /\ AnswersAsAsked

\* The invariant holds initially: no request has begun.
LEMMA InitIInv == Init => IInv
<1> SUFFICES ASSUME Init PROVE IInv
  OBVIOUS
<1>1. PICK u \in User : req = [s \in Session |-> [user |-> u, name |-> stored[u]]]
  BY DEF Init
<1>2. TypeOK
  BY <1>1, ConstantsAssumption DEF Init, TypeOK
<1> QED BY <1>2 DEF Init, IInv, ReadBack, AnswersAsAsked

\* Every statement of an update keeps the invariant.
LEMMA StepIInv == IInv /\ [Next]_vars => IInv'
<1> SUFFICES ASSUME IInv, [Next]_vars PROVE IInv'
  OBVIOUS
<1>0. /\ TypeOK /\ ReadBack /\ AnswersAsAsked
      /\ None \notin Session
  BY ConstantsAssumption DEF IInv
<1> USE DEF TypeOK, ReadBack, AnswersAsAsked, Goto, Running, Terminal
<1>1. ASSUME NEW s \in Session, NEW u \in User, NEW name \in Name, Submit(s, u, name)
      PROVE  IInv'
  <2>1. TypeOK'
    BY <1>0, <1>1 DEF Submit
  <2>2. ReadBack' /\ AnswersAsAsked'
    BY <1>0, <1>1 DEF Submit
  <2> QED BY <2>1, <2>2 DEF IInv
<1>2. ASSUME NEW s \in Session, Load(s) PROVE IInv'
  <2>1. TypeOK'
    BY <1>0, <1>2 DEF Load
  <2>2. ReadBack' /\ AnswersAsAsked'
    BY <1>0, <1>2 DEF Load
  <2> QED BY <2>1, <2>2 DEF IInv
<1>3. ASSUME NEW s \in Session, Flush(s) PROVE IInv'
  <2>1. TypeOK'
    <3>1. /\ pc' = [pc EXCEPT ![s] = "refresh"] /\ pc[s] = "flush"
          /\ UNCHANGED <<stored, req, loaded, answer>>
          /\ \/ rowLock' = rowLock
             \/ rowLock' = [rowLock EXCEPT ![req[s].user] = s]
      BY <1>3 DEF Flush
    <3>2. \A u \in User : rowLock[u] # s /\ req[s].user \in User
      BY <1>0, <3>1
    <3>3. /\ pc' \in [Session -> {"idle"} \cup Running \cup Terminal]
          /\ rowLock' \in [User -> Session \cup {None}]
      BY <1>0, <3>1
    <3>4. ASSUME NEW u \in User, NEW t \in Session, rowLock'[u] = t
          PROVE  pc'[t] \in {"refresh", "close"} /\ req'[t].user = u
      <4>1. CASE t = s
        BY <1>0, <3>1, <3>2, <3>4, <4>1
      <4>2. CASE t # s
        <5>1. rowLock[u] = t
          BY <1>0, <3>1, <3>4, <4>2
        <5> QED BY <1>0, <3>1, <4>2, <5>1
      <4> QED BY <4>1, <4>2
    <3> QED BY <1>0, <3>1, <3>3, <3>4
  <2>2. ReadBack'
    BY <1>0, <1>3 DEF Flush
  <2>3. AnswersAsAsked'
    BY <1>0, <1>3 DEF Flush
  <2> QED BY <2>1, <2>2, <2>3 DEF IInv
<1>4. ASSUME NEW s \in Session, Refresh(s) PROVE IInv'
  <2>1. TypeOK'
    BY <1>0, <1>4 DEF Refresh
  <2>2. ReadBack'
    BY <1>0, <1>4 DEF Refresh
  <2>3. AnswersAsAsked'
    BY <1>0, <1>4 DEF Refresh
  <2> QED BY <2>1, <2>2, <2>3 DEF IInv
<1>5. ASSUME NEW s \in Session, Close(s) \/ Crash(s) PROVE IInv'
  <2>1. /\ \A u \in User : rowLock'[u] = IF rowLock[u] = s THEN None ELSE rowLock[u]
        /\ rowLock' \in [User -> Session \cup {None}]
        /\ UNCHANGED <<stored, req, loaded, answer>>
        /\ \A t \in Session \ {s} : pc'[t] = pc[t]
    BY <1>0, <1>5 DEF Close, Crash, Abandon
  <2>2. /\ pc' \in [Session -> {"idle"} \cup Running \cup Terminal]
        /\ pc'[s] \in {"answered", "rejected", "crashed"}
        /\ pc'[s] = "answered" => pc[s] = "close"
    <3>1. CASE Close(s)
      BY <1>0, <3>1 DEF Close
    <3>2. CASE Crash(s)
      BY <1>0, <3>2 DEF Crash
    <3> QED BY <1>5, <3>1, <3>2
  <2>3. TypeOK'
    BY <1>0, <2>1, <2>2
  <2>4. ReadBack'
    BY <1>0, <2>1, <2>2
  <2>5. AnswersAsAsked'
    BY <1>0, <2>1, <2>2
  <2> QED BY <2>3, <2>4, <2>5 DEF IInv
<1>6. CASE UNCHANGED vars
  BY <1>0, <1>6 DEF vars, IInv
<1> QED BY <1>1, <1>2, <1>3, <1>4, <1>5, <1>6 DEF Next, Step, Quiescent

\* The invariant holds in every reachable state.
THEOREM Invariance == Spec => []IInv
  BY InitIInv, StepIInv, PTL DEF Spec

\* Types hold, and no session that has ended or not yet written holds a row.
THEOREM TypeCorrect == Spec => []TypeOK
<1>1. IInv => TypeOK
  BY DEF IInv
<1> QED BY <1>1, Invariance, PTL

\* update_current_user_profile answers with the name it was asked to store, whatever
\* other updates of the profile run beside it.
THEOREM AnswersCarryTheName == Spec => []AnswersAsAsked
<1>1. IInv => AnswersAsAsked
  BY DEF IInv
<1> QED BY <1>1, Invariance, PTL
===============================================================================
