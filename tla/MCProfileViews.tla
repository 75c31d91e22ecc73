---------------------------- MODULE MCProfileViews ----------------------------
(***************************************************************************)
(* A small instance of what ProfileService shows administrators, for TLC:  *)
(* a behaviour is one dashboard or one walk over the investor list.  The   *)
(* two share no state; the variables of the other are idle.                *)
(***************************************************************************)
EXTENDS InvestorDashboard

CONSTANTS Kind, PageSize, InitialProfiles, MaxProfiles

\* page_size is a query parameter of at least one (users.py:17).
ASSUME ListAssumption ==
    PageSize \subseteq Nat \ {0} /\ InitialProfiles \in Nat /\ MaxProfiles \in Nat

VARIABLES
    shown,                                        \* "dashboard" or "list"
    profiles, pc, size, search, page, total, slice, walked, known, registered, torn

list    == <<profiles, pc, size, search, page, total, slice, walked, known, registered, torn>>
allVars == <<shown, vars, list>>

List == INSTANCE InvestorList

IdleDashboard ==
    /\ cash = [u \in User |-> 0] /\ lots = cash /\ invested = cash
    /\ rows = [u \in User |-> <<>>]
    /\ allocation = [p \in Position |-> [u \in User |-> None]]
    /\ commits = 0
    /\ at = "refused"
    /\ investor = CHOOSE u \in User : TRUE
    /\ view = [balance |-> 0, deposits |-> 0, recent |-> <<>>, invested |-> 0,
               count |-> 0, allocations |-> {}, holdings |-> {}]
    /\ asOf = [q \in {} |-> 0]

IdleList ==
    /\ profiles = <<>> /\ pc = "done" /\ size = 1 /\ search = FALSE /\ page = 1
    /\ total = 0 /\ slice = <<>> /\ walked = <<>> /\ known = {} /\ registered = 0
    /\ torn = 0

AnyInit ==
    \/ shown = "dashboard" /\ Init /\ IdleList
    \/ shown = "list" /\ List!Init /\ IdleDashboard

AnyNext ==
    /\ \/ shown = "dashboard" /\ Next /\ UNCHANGED list
       \/ shown = "list" /\ List!Next /\ UNCHANGED vars
    /\ UNCHANGED shown

AnySpec == AnyInit /\ [][AnyNext]_allVars

-------------------------------------------------------------------------------
(* The properties of the list; those of InvestorDashboard are its own *)

\* A walk shows every investor registered before it (see InvestorList).
NobodyMissed == List!NobodyMissed

\* An investor is shown again only when another registers (see InvestorList).
RepeatsAreRegistrations == List!RepeatsAreRegistrations
===============================================================================
