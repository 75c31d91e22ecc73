------------------------- MODULE TokenValidation_proofs -------------------------
(***************************************************************************)
(* Proofs about the validation of tokens, for any number of requests and   *)
(* keys and any rotation of the keys.                                      *)
(***************************************************************************)
EXTENDS TokenValidation, TLAPS

\* What TypeOK leaves out.
TokensOK ==
    /\ token \in [Request -> [key : Key, sound : BOOLEAN]]
    /\ within \subseteq Key /\ throughout \subseteq Key

\* One validation runs at a time: the one that is busy.
OneAtATime == \A r \in Request : pc[r] \in {"fetch", "refetch", "decode"} <=> busy = r

\* What the bookkeeping of the keys means.
KeysOK ==
    /\ throughout \subseteq published
    /\ busy # None => published \subseteq within
    /\ \A r \in Request : pc[r] = "decode" => jwks \subseteq within

IInv == TypeOK /\ TokensOK /\ OneAtATime /\ KeysOK

\* The invariant holds initially: no token is being judged.
LEMMA InitIInv == Init => IInv
  BY ConstantsAssumption
  DEF Init, IInv, TypeOK, TokensOK, OneAtATime, KeysOK, Ended

\* Every step keeps the invariant, a rotation of the keys included.
LEMMA NextIInv == IInv /\ [Next]_vars => IInv'
  <1> SUFFICES ASSUME IInv, [Next]_vars PROVE IInv'
    OBVIOUS
  <1> USE ConstantsAssumption DEF IInv, TypeOK, TokensOK, OneAtATime, KeysOK, Ended
  <1>1. CASE Rotate
    BY <1>1 DEF Rotate
  <1>2. ASSUME NEW r \in Request, Begin(r) PROVE IInv'
    BY <1>2 DEF Begin, Starts
  <1>3. ASSUME NEW r \in Request, Fetch(r) PROVE IInv'
    <2>1. CASE token[r].key \in published
      BY <1>3, <2>1 DEF Fetch, To, Match
    <2>2. CASE token[r].key \notin published /\ pc[r] = "fetch"
      BY <1>3, <2>2 DEF Fetch, To, Match
    <2>3. CASE token[r].key \notin published /\ pc[r] = "refetch"
      BY <1>3, <2>3 DEF Fetch, To, Match
    <2> QED BY <1>3, <2>1, <2>2, <2>3 DEF Fetch
  <1>4. ASSUME NEW r \in Request, FetchFails(r) PROVE IInv'
    BY <1>4 DEF FetchFails, To
  <1>5. ASSUME NEW r \in Request, Decode(r) PROVE IInv'
    BY <1>5 DEF Decode, To
  <1>6. CASE UNCHANGED vars
    BY <1>6 DEF vars
  <1> QED BY <1>1, <1>2, <1>3, <1>4, <1>5, <1>6 DEF Next, Step

\* The invariant holds in every reachable state.
LEMMA SpecIInv == Spec => []IInv
  BY InitIInv, NextIInv, PTL DEF Spec

\* The types hold in every reachable state.
THEOREM TypeCorrect == Spec => []TypeOK
  <1>1. IInv => TypeOK
    BY DEF IInv
  <1> QED BY <1>1, SpecIInv, PTL

\* get_current_user accepts a token only if it is sound and its key was published
\* at some moment of the validation, however the issuer rotates its keys.
THEOREM AcceptedTokensWerePublished == Spec => AcceptedWasPublished
  <1> DEFINE A == \A r \in Request :
                    Ends(r, "accepted") => token[r].sound /\ token[r].key \in within
  <1>1. ASSUME IInv, Next, NEW q \in Request, Ends(q, "accepted")
        PROVE  token[q].sound /\ token[q].key \in within
    <2> USE <1>1 DEF IInv, TypeOK, TokensOK, OneAtATime, KeysOK, Ended, Ends
    <2>1. CASE Rotate
      BY <2>1 DEF Rotate
    <2>2. ASSUME NEW r \in Request, Begin(r) PROVE FALSE
      BY <2>2 DEF Begin, Starts
    <2>3. ASSUME NEW r \in Request, Fetch(r) PROVE FALSE
      BY <2>3 DEF Fetch, To
    <2>4. ASSUME NEW r \in Request, FetchFails(r) PROVE FALSE
      BY <2>4 DEF FetchFails, To
    <2>5. ASSUME NEW r \in Request, Decode(r)
          PROVE  token[q].sound /\ token[q].key \in within
      <3>1. q = r
        BY <2>5 DEF Decode, To
      <3> QED BY <2>5, <3>1 DEF Decode, To
    <2>6. CASE UNCHANGED vars
      BY <2>6 DEF vars
    <2> QED BY <1>1, <2>1, <2>2, <2>3, <2>4, <2>5, <2>6 DEF Next, Step
  <1>2. IInv /\ [Next]_vars => [A]_vars
    BY <1>1
  <1> QED BY <1>2, SpecIInv, PTL DEF Spec, AcceptedWasPublished

\* get_current_user refuses a sound token only if its key was not published all
\* through the validation: the second fetch sees what the first was too early for.
THEOREM PublishedTokensAreAccepted == Spec => PublishedIsAccepted
  <1> DEFINE A == \A r \in Request :
                    Ends(r, "refused") => ~token[r].sound \/ token[r].key \notin throughout
  <1>1. ASSUME IInv, Next, NEW q \in Request, Ends(q, "refused")
        PROVE  ~token[q].sound \/ token[q].key \notin throughout
    <2> USE <1>1 DEF IInv, TypeOK, TokensOK, OneAtATime, KeysOK, Ended, Ends
    <2>1. CASE Rotate
      BY <2>1 DEF Rotate
    <2>2. ASSUME NEW r \in Request, Begin(r) PROVE FALSE
      BY <2>2 DEF Begin, Starts
    <2>3. ASSUME NEW r \in Request, Fetch(r) PROVE token[q].key \notin throughout
      <3>1. q = r /\ token[r].key \notin published
        BY <2>3 DEF Fetch, To, Match
      <3> QED BY <3>1
    <2>4. ASSUME NEW r \in Request, FetchFails(r) PROVE FALSE
      BY <2>4 DEF FetchFails, To
    <2>5. ASSUME NEW r \in Request, Decode(r) PROVE ~token[q].sound
      <3>1. q = r
        BY <2>5 DEF Decode, To
      <3> QED BY <2>5, <3>1 DEF Decode, To
    <2>6. CASE UNCHANGED vars
      BY <2>6 DEF vars
    <2> QED BY <1>1, <2>1, <2>2, <2>3, <2>4, <2>5, <2>6 DEF Next, Step
  <1>2. IInv /\ [Next]_vars => [A]_vars
    BY <1>1
  <1> QED BY <1>2, SpecIInv, PTL DEF Spec, PublishedIsAccepted
===============================================================================
