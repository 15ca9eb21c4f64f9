----------------------------- MODULE TokenSlots -----------------------------
(***************************************************************************)
(* What a table of personal access tokens promises, however many processes *)
(* write it and in whatever order: an owner has one token that gets        *)
(* through, issuing replaces it, and a token that has stopped getting      *)
(* through never does again.  PersonalTokens implements this.              *)
(***************************************************************************)
CONSTANTS Owners, Tokens

VARIABLES
    working,       \* <<owner, token>>: requests with the token act for the owner
    spent          \* tokens that were ever handed out

vars == <<working, spent>>

Init ==
    /\ spent \subseteq Tokens /\ working \subseteq Owners \X spent
    /\ \A v, w \in working : v[1] = w[1] => v = w

Issue(p) ==
    \E t \in spent' \ spent :
        /\ t \in Tokens /\ spent' = spent \cup {t}
        /\ working' = {w \in working : w[1] # p} \cup {<<p, t>>}

\* Tokens are revoked, expire, or are handed out too late to get through at all.
Lapse ==
    /\ working' \subseteq working
    /\ spent \subseteq spent' /\ spent' \subseteq Tokens

Next == Lapse \/ \E p \in Owners : Issue(p)

Spec == Init /\ [][Next]_vars

\* No two tokens act for one owner, and a token that works was handed out.
OneEach ==
    /\ working \subseteq Owners \X spent
    /\ \A v, w \in working : v[1] = w[1] => v = w

\* What was handed out and does not work stays that way, for whatever owner.
Revives == \E w \in working' \ working : w[2] \in spent
NeverRevives == [][~Revives]_vars
=============================================================================
