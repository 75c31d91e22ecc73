---------------------------- MODULE TokenValidation ----------------------------
(***************************************************************************)
(* get_current_user: bearer tokens are validated against the keys their    *)
(* issuer publishes, while the issuer rotates them.  A validation awaits   *)
(* nothing, its fetches block the process: one runs at a time.             *)
(***************************************************************************)
EXTENDS Integers, FiniteSets

CONSTANTS Request, Key, None

ASSUME ConstantsAssumption == None \notin Request \cup Key

VARIABLES
    published,     \* the keys of the issuer's JWKS document
    busy,          \* the request whose token is being validated
    pc,
    token,         \* token[r]: its key, and is all else of it sound?
    jwks,          \* the keys the PyJWKClient in use has cached
    within,        \* keys published at some moment of the validation under way
    throughout     \* keys published at every moment of it

vars == <<published, busy, pc, token, jwks, within, throughout>>

Ended == {"accepted", "refused", "unreachable"}

Init ==
    /\ published \in {ks \in SUBSET Key : ks # {}}
    /\ busy = None
    /\ pc = [r \in Request |-> "idle"]
    /\ token \in [Request -> [key : Key, sound : BOOLEAN]]
    /\ jwks = {}
    /\ within = {} /\ throughout = {}

\* The issuer publishes a key, or withdraws one, and always has one.
Rotate ==
    /\ \E k \in Key : published' \in {published \cup {k}, published \ {k}}
    /\ published' # published /\ published' # {}
    /\ within' = IF busy = None THEN {} ELSE within \cup published'
    /\ throughout' = throughout \cap published'
    /\ UNCHANGED <<busy, pc, token, jwks>>

\* The signing key is the one of the token's kid.
Match(r, keys) == token[r].key \in keys

Starts(r, next) ==
    /\ busy = None /\ pc[r] = "idle"
    /\ pc' = [pc EXCEPT ![r] = next]
    /\ busy' = r
    /\ within' = published /\ throughout' = published
    /\ UNCHANGED <<published, token>>

\* Mutants: one client serves all requests; the keys are fetched once and for all.
Begin_SharedClient(r) ==
    Starts(r, IF Match(r, jwks) THEN "decode" ELSE "fetch") /\ UNCHANGED jwks
Begin_FetchedOnce(r) ==
    Starts(r, IF jwks = {} THEN "fetch" ELSE "decode") /\ UNCHANGED jwks

\* Each request makes a PyJWKClient, whose cache is empty.
Begin(r) == Starts(r, "fetch") /\ jwks' = {}

To(r, next) ==
    /\ pc' = [pc EXCEPT ![r] = next]
    /\ busy' = IF next \in Ended THEN None ELSE r
    /\ within' = IF next \in Ended THEN {} ELSE within
    /\ throughout' = IF next \in Ended THEN {} ELSE throughout
    /\ UNCHANGED <<published, token>>

\* Mutant: it fetches until the key is found.
Fetch_UntilFound(r) ==
    /\ pc[r] \in {"fetch", "refetch"}
    /\ jwks' = published
    /\ To(r, IF Match(r, published) THEN "decode" ELSE "refetch")

\* get_signing_key fetches, and once more when the key is not among those found.
Fetch(r) ==
    /\ pc[r] \in {"fetch", "refetch"}
    /\ jwks' = published
    /\ To(r, IF Match(r, published) THEN "decode"
             ELSE IF pc[r] = "fetch" THEN "refetch" ELSE "refused")

\* An unreachable issuer is a PyJWTError as well: the answer is 401.
FetchFails(r) ==
    /\ pc[r] \in {"fetch", "refetch"}
    /\ To(r, "unreachable")
    /\ UNCHANGED jwks

\* jwt.decode, and the subject: signature, audience, issuer, expiry, UUID.  What is
\* not accepted is refused, as a 401 or, for an algorithm that does not fit the key or
\* a subject that is no string, as an exception nobody catches here.
Decode(r) ==
    /\ pc[r] = "decode"
    /\ To(r, IF token[r].sound /\ token[r].key \in jwks THEN "accepted" ELSE "refused")
    /\ UNCHANGED jwks

Step(r) == Begin(r) \/ Fetch(r) \/ Decode(r)

Next ==
    \/ Rotate
    \/ \E r \in Request : Step(r) \/ FetchFails(r)
    \/ (\A r \in Request : pc[r] \in Ended) /\ UNCHANGED vars

Spec == Init /\ [][Next]_vars

\* A validation that has begun goes on, one way or the other.
FairSpec == Spec /\ \A r \in Request : WF_vars(Step(r))

-------------------------------------------------------------------------------
(* Properties *)

\* The types of the variables.
TypeOK ==
    /\ published \subseteq Key /\ published # {}
    /\ busy \in Request \cup {None}
    /\ pc \in [Request -> {"idle", "fetch", "refetch", "decode"} \cup Ended]
    /\ \A r \in Request : pc[r] = "decode" => token[r].key \in jwks
    /\ jwks \subseteq Key

Ends(r, verdict) == pc[r] # verdict /\ pc'[r] = verdict

\* A withdrawn key is refused at once: a token is accepted only if its issuer
\* still published the key at some moment of the validation.
AcceptedWasPublished ==
    [][\A r \in Request :
          Ends(r, "accepted") => token[r].sound /\ token[r].key \in within]_vars

\* A sound token is not refused while its issuer publishes the key, however
\* recently it began to.
PublishedIsAccepted ==
    [][\A r \in Request :
          Ends(r, "refused") => ~token[r].sound \/ token[r].key \notin throughout]_vars

\* Rotations of the keys hold no validation up.
EveryTokenIsJudged == \A r \in Request : pc[r] = "idle" ~> pc[r] \in Ended
===============================================================================
