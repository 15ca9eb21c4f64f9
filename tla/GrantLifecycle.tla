--------------------------- MODULE GrantLifecycle ---------------------------
(***************************************************************************)
(* What the authorization server promises about grants, whatever tables,   *)
(* transactions and processes it is made of: nobody is offered a grant     *)
(* before being eligible for it, and a grant that is not active becomes    *)
(* active only by taking up an offer.  Anything may lapse at any time.     *)
(*                                                                         *)
(* OAuthGrants implements it with one holder per friend, client and scope, *)
(* Identity with one per friend.                                           *)
(***************************************************************************)
CONSTANT Holders

VARIABLES
    eligible,      \* holders that someone entitled has asked for
    offered,       \* holders with an offer to take up: an authorization code
    active         \* holders that can obtain access tokens

vars == <<eligible, offered, active>>

Init == eligible = {} /\ offered = {} /\ active = {}

Admit ==
    /\ eligible \subseteq eligible' /\ eligible' \subseteq Holders
    /\ UNCHANGED <<offered, active>>

Offer ==
    /\ offered \subseteq offered' /\ offered' \ offered \subseteq eligible
    /\ UNCHANGED <<eligible, active>>

\* An offer is used up by whoever takes it, unless there is another for the same holder.
Activate ==
    /\ active \subseteq active' /\ active' \ active \subseteq offered
    /\ offered' \subseteq offered /\ offered \ offered' \subseteq active'
    /\ UNCHANGED eligible

Withdraw ==
    /\ UNCHANGED eligible
    /\ offered' \subseteq offered /\ active' \subseteq active

Next == Withdraw \/ Admit \/ Offer \/ Activate

Spec == Init /\ [][Next]_vars

\* Nothing is offered or active for a holder nobody entitled has asked for.
OnlyEligible == offered \cup active \subseteq eligible
=============================================================================
