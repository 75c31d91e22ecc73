------------------------------ MODULE InvestorList -----------------------------
(***************************************************************************)
(* ProfileService.list_investors: a client walks the pages of the investor *)
(* list from the first to total_pages, while investors register.  A page   *)
(* is three statements: the count, the slice, and what is shown of the     *)
(* profiles in it.  Profiles are created by code outside the repository.   *)
(***************************************************************************)
EXTENDS Integers, FiniteSets, Sequences, SequencesExt

CONSTANTS
    Kind,            \* kinds of profiles: "match", "other", "nameless" or "admin"
    PageSize,        \* page sizes a client may ask for, from 1
    InitialProfiles, MaxProfiles  \* bounds on the number of profiles

VARIABLES
    profiles,        \* committed profiles, newest first
    pc, size, search, page,  \* the request the client is at
    total, slice,    \* what the count and the slice have returned
    walked,          \* profiles of the pages answered so far, in order
    known,           \* profiles listed when the walk began
    registered,      \* investors registered since the first slice
    torn             \* investors registered between the last count and its slice

request == <<pc, size, search, page, total, slice>>
history == <<walked, known, registered, torn>>
vars    == <<profiles, request, history>>

Ended == {"done", "failed"}

\* role = INVESTOR, and full_name ILIKE the search: never true of NULL.
IsListed(p) == /\ p.kind # "admin"
               /\ search => p.kind = "match"

CountInvestors == Cardinality({i \in DOMAIN profiles : IsListed(profiles[i])})

\* The listed profiles, newest first.
Listed ==
    LET upTo[n \in 0..Len(profiles)] ==
            IF n = 0 THEN <<>>
            ELSE IF IsListed(profiles[n]) THEN Append(upTo[n - 1], profiles[n])
            ELSE upTo[n - 1]
    IN  upTo[Len(profiles)]

Offset == (page - 1) * size

\* Mutant: one more row is fetched, to see whether a page follows.
PageRows_OneMore == size + 1
PageRows == size

AtMost(n) == IF n < Len(Listed) THEN n ELSE Len(Listed)
SliceInvestors == SubSeq(Listed, Offset + 1, AtMost(Offset + PageRows))

\* Mutant: the last page is dropped unless it is full.
TotalPages_RoundedDown == IF total \div size > 0 THEN total \div size ELSE 1
TotalPages == IF total > 0 THEN (total + size - 1) \div size ELSE 1

Init ==
    /\ \E n \in 0..InitialProfiles : \E kinds \in [1..n -> Kind] :
          profiles = [i \in 1..n |-> [id |-> i, kind |-> kinds[i]]]
    /\ pc = "count" /\ size \in PageSize /\ search \in BOOLEAN /\ page = 1
    /\ total = 0 /\ slice = <<>>
    /\ walked = <<>>
    /\ known = {p.id : p \in ToSet(Listed)}
    /\ registered = 0
    /\ torn = 0

\* created_at may be older than that of profiles committed before.  Who registers
\* after the walk changes nothing of it.
Register ==
    /\ Len(profiles) < MaxProfiles /\ pc \notin Ended
    /\ \E kind \in Kind, place \in 1..(Len(profiles) + 1) :
          LET p == [id |-> Len(profiles) + 1, kind |-> kind]
          IN  /\ profiles' = InsertAt(profiles, place, p)
              /\ registered' = registered +
                     IF IsListed(p) /\ (page > 1 \/ pc \notin {"count", "slice"}) THEN 1 ELSE 0
              /\ torn' = torn + IF IsListed(p) /\ pc = "slice" THEN 1 ELSE 0
    /\ UNCHANGED <<request, walked, known>>

Count ==
    /\ pc = "count" /\ pc' = "slice"
    /\ total' = CountInvestors
    /\ torn' = 0
    /\ UNCHANGED <<profiles, size, search, page, slice, walked, known, registered>>

Slice ==
    /\ pc = "slice" /\ pc' = "items"
    /\ slice' = SliceInvestors
    /\ UNCHANGED <<profiles, size, search, page, total, history>>

\* The summary of a profile has a name: without one, the page is an error.
Answer ==
    /\ pc = "items"
    /\ \/ /\ \E i \in DOMAIN slice : slice[i].kind = "nameless"
          /\ pc' = "failed"
          /\ UNCHANGED walked
       \/ /\ \A i \in DOMAIN slice : slice[i].kind # "nameless"
          /\ pc' = "answered"
          /\ walked' = walked \o [i \in DOMAIN slice |-> slice[i].id]
    /\ UNCHANGED <<profiles, size, search, page, total, slice, known, registered, torn>>

\* The client asks for the next page, up to the total_pages of the last answer.
Walk ==
    /\ pc = "answered"
    /\ pc' = IF page < TotalPages THEN "count" ELSE "done"
    /\ page' = IF page < TotalPages THEN page + 1 ELSE page
    /\ UNCHANGED <<profiles, size, search, total, slice, history>>

Next ==
    \/ Register
    \/ Count \/ Slice \/ Answer \/ Walk
    \/ pc \in Ended /\ UNCHANGED vars

Spec == Init /\ [][Next]_vars

-------------------------------------------------------------------------------
(* Properties *)

\* A walk shows the investors registered before it, however many register
\* meanwhile: pages shift towards those not yet read.  Only the count and the slice
\* of the last page, two statements, may tear: the client then stops too early by as
\* many as registered between them, and by no more.
NobodyMissed == pc = "done" => Cardinality(known \ ToSet(walked)) <= torn

\* An investor is shown again only when another registers: once for each.
RepeatsAreRegistrations == Len(walked) - Cardinality(ToSet(walked)) <= registered

===============================================================================
