--------------------------- MODULE PersonalTokens ---------------------------
(***************************************************************************)
(* Personal access tokens: issued, revoked and looked up by the account    *)
(* page of the web server and by the `pat` commands, which share table     *)
(* pats.                                                                   *)
(*                                                                         *)
(* No handler of the server suspends between its statements, so the server *)
(* is one process (Web); every command is another.  Issuing reads the      *)
(* clock, then revokes and inserts in one transaction; revoking selects in *)
(* one transaction and updates in the next.                                *)
(*                                                                         *)
(* Rows from before principals had a namespace hold a bare GitHub login.   *)
(* They are never rewritten: each statement matches both forms.  Whether a *)
(* token's owner is still invited is asked elsewhere, on every request.    *)
(***************************************************************************)
EXTENDS Integers, Sequences

CONSTANTS
    Github,        \* spellings of GitHub logins
    Subs,          \* Google subjects
    Accounts,      \* principals that sign in, each as its provider spells it
    Web, Commands, \* processes
    WebTTLs, CliTTLs,
    MaxLegacy, MaxRows, MaxTime   \* bounds, for model checking only

Principals == Github \cup Subs
Processes == {Web} \cup Commands
Never == -1        \* column expires_at is NULL

ASSUME TokensAssumption ==
    /\ Accounts \subseteq Principals
    /\ WebTTLs \subseteq Nat \ {0}    \* WEB_TTL_DAYS has no 0
    /\ CliTTLs \subseteq Nat
    /\ MaxLegacy \in Nat /\ MaxRows \in Nat /\ MaxTime \in Nat

VARIABLES
    now,
    pats,          \* table pats, in the order of its ids
    proc,          \* where each process is
    overtaken,     \* history: processes that an issue to their principal passed
    crossed,       \* history: principals whose last token came from an overtaken process
    cleared        \* history: principals told since their last token that none works

history == <<overtaken, crossed, cleared>>
vars == <<now, pats, proc, history>>

Idle == [pc |-> "idle"]

TokenRow == [owner : Principals, form : {"bare", "namespaced"}, created : Nat,
             expires : Nat \cup {Never}, revoked : BOOLEAN]
LegacyRow == [owner : Github, form : {"bare"}, created : {0}, expires : {Never},
              revoked : BOOLEAN]
ProcessState ==
    {Idle}
    \cup [pc : {"insert"}, owner : Principals, created : Nat, expires : Nat \cup {Never}]
    \cup [pc : {"update"}, owner : Principals, id : Nat]

\* The one type invariant: tokens, and where each process is; a revocation that has
\* selected a token finds it in the table (pat.py issue, revoke_active).
TypeOK ==
    /\ now \in Nat /\ pats \in Seq(TokenRow)
    /\ proc \in [Processes -> ProcessState]
    /\ \A w \in Processes : proc[w].pc = "update" =>
           /\ proc[w].id \in DOMAIN pats
           /\ pats[proc[w].id].owner = proc[w].owner
    /\ overtaken \subseteq Processes
    /\ crossed \subseteq Principals /\ cleared \subseteq Principals

\* A table left by a version that knew bare logins only.
Init ==
    /\ now = 0
    /\ \E n \in 0..MaxLegacy : pats \in [1..n -> LegacyRow]
    /\ \A i, j \in DOMAIN pats :
           pats[i].owner = pats[j].owner /\ ~pats[i].revoked => j <= i
    /\ proc = [w \in Processes |-> Idle]
    /\ overtaken = {} /\ crossed = {} /\ cleared = {}

-----------------------------------------------------------------------------
(* What the statements select.                                             *)

\* Mutant of Matches: rows from before the namespace are forgotten.
MatchesNamespaced(p) ==
    {i \in DOMAIN pats : pats[i].owner = p /\ pats[i].form = "namespaced"}

\* Mutant of Matches: the statement lost its WHERE.
MatchesAnyone(p) == DOMAIN pats

\* principal_match_values: the namespaced principal and the bare login.
Matches(p) == {i \in DOMAIN pats : pats[i].owner = p}

Unrevoked(p) == {i \in Matches(p) : ~pats[i].revoked}
Expired(i) == pats[i].expires # Never /\ pats[i].expires <= now

\* verify: what a request with this token gets through on.
Usable(i) == ~pats[i].revoked /\ ~Expired(i)

\* Mutant of Newest: rows written within one tick come in the order of the table.
NewestByClock(ids) ==
    CHOOSE i \in ids : \A j \in ids :
        \/ pats[j].created < pats[i].created
        \/ pats[j].created = pats[i].created /\ i <= j

\* ORDER BY created_at DESC, id DESC LIMIT 1
Newest(ids) ==
    CHOOSE i \in ids : \A j \in ids :
        \/ pats[j].created < pats[i].created
        \/ pats[j].created = pats[i].created /\ j <= i

\* current_status
Status(p) ==
    LET newest == Newest(Matches(p)) IN
    IF Matches(p) = {} THEN "none"
    ELSE IF pats[newest].revoked THEN "revoked"
    ELSE IF Expired(newest) THEN "expired" ELSE "active"

-----------------------------------------------------------------------------
(* Issuing.                                                                *)

MayName(w, p) == w = Web => p \in Accounts
TTLs(w) == IF w = Web THEN WebTTLs ELSE CliTTLs

\* issue_pat and issue, up to the transaction: the clock is read first.
IssueStart(w, p, ttl) ==
    /\ proc[w] = Idle /\ MayName(w, p) /\ ttl \in TTLs(w)
    /\ proc' = [proc EXCEPT ![w] =
           [pc |-> "insert", owner |-> p, created |-> now,
            expires |-> IF ttl = 0 THEN Never ELSE now + ttl]]
    /\ UNCHANGED <<now, pats, history>>

Superseded(p) ==
    [i \in DOMAIN pats |->
        IF i \in Unrevoked(p) THEN [pats[i] EXCEPT !.revoked = TRUE] ELSE pats[i]]

NewRow(issue) == [owner |-> issue.owner, form |-> "namespaced", created |-> issue.created,
                  expires |-> issue.expires, revoked |-> FALSE]

\* The transaction of issue: the prior tokens go, the new one comes.
IssueCommit(w) ==
    LET p == proc[w].owner IN
    /\ proc[w].pc = "insert" /\ Len(pats) < MaxRows
    /\ pats' = Append(Superseded(p), NewRow(proc[w]))
    /\ proc' = [proc EXCEPT ![w] = Idle]
    /\ overtaken' = (overtaken \ {w})
           \cup {v \in Processes \ {w} : proc[v] # Idle /\ proc[v].owner = p}
    /\ crossed' = IF w \in overtaken THEN crossed \cup {p} ELSE crossed \ {p}
    /\ cleared' = cleared \ {p}
    /\ UNCHANGED now

-----------------------------------------------------------------------------
(* Revoking.                                                               *)

\* revoke_active answers that no token is active.
RevokeNone(w, p) ==
    /\ proc[w] = Idle /\ MayName(w, p)
    /\ Unrevoked(p) # {} => Expired(Newest(Unrevoked(p)))
    /\ cleared' = cleared \cup {p}
    /\ UNCHANGED <<now, pats, proc, overtaken, crossed>>

\* Mutant of RevokeSelect: the newest token is taken, revoked or not.
RevokeSelectAny(w, p) ==
    /\ proc[w] = Idle /\ MayName(w, p)
    /\ Unrevoked(p) # {} /\ ~Expired(Newest(Unrevoked(p)))
    /\ proc' = [proc EXCEPT ![w] =
           [pc |-> "update", owner |-> p, id |-> Newest(Matches(p))]]
    /\ UNCHANGED <<now, pats, history>>

\* revoke_active up to the end of its SELECT.
RevokeSelect(w, p) ==
    /\ proc[w] = Idle /\ MayName(w, p)
    /\ Unrevoked(p) # {} /\ ~Expired(Newest(Unrevoked(p)))
    /\ proc' = [proc EXCEPT ![w] =
           [pc |-> "update", owner |-> p, id |-> Newest(Unrevoked(p))]]
    /\ UNCHANGED <<now, pats, history>>

\* Its UPDATE, by id alone, and the answer.
RevokeUpdate(w) ==
    /\ proc[w].pc = "update"
    /\ pats' = [pats EXCEPT ![proc[w].id].revoked = TRUE]
    /\ proc' = [proc EXCEPT ![w] = Idle]
    /\ overtaken' = overtaken \ {w}
    /\ cleared' = IF w \in overtaken THEN cleared ELSE cleared \cup {proc[w].owner}
    /\ UNCHANGED <<now, crossed>>

-----------------------------------------------------------------------------
\* A process dies: an open transaction is rolled back.
Crash(w) ==
    /\ proc[w] # Idle
    /\ proc' = [proc EXCEPT ![w] = Idle]
    /\ overtaken' = overtaken \ {w}
    /\ UNCHANGED <<now, pats, crossed, cleared>>

Tick ==
    /\ now < MaxTime
    /\ now' = now + 1
    /\ UNCHANGED <<pats, proc, history>>

Next ==
    \/ \E w \in Processes, p \in Principals, ttl \in WebTTLs \cup CliTTLs :
           IssueStart(w, p, ttl)
    \/ \E w \in Processes : IssueCommit(w)
    \/ \E w \in Processes, p \in Principals : RevokeNone(w, p) \/ RevokeSelect(w, p)
    \/ \E w \in Processes : RevokeUpdate(w) \/ Crash(w)
    \/ Tick

Spec == Init /\ [][Next]_vars

-----------------------------------------------------------------------------
(* Properties.                                                             *)

TokensOf(p) == {i \in DOMAIN pats : pats[i].owner = p}

\* Issuing supersedes: whichever processes issue and revoke at once, a principal has no
\* two unrevoked tokens, a bare-login row included (pat.py issue).
AtMostOneActive == \A p \in Principals : \A i, j \in TokensOf(p) :
    ~pats[i].revoked /\ ~pats[j].revoked => i = j

\* When revoke_active has answered, whatever it answered, no token of the principal
\* verifies until one is issued, unless an issue overtook the revocation itself.
RevokeLeavesNothing == \A p \in cleared : \A i \in TokensOf(p) : ~Usable(i)

\* The account page and verify agree: "active" is shown only for a token that verifies,
\* and a token that verifies is shown as active, except when its issue was overtaken
\* by another with an earlier commit and a later clock (current_status, verify).
StatusAgrees ==
    \A p \in Principals :
        /\ Status(p) = "active" => \E i \in TokensOf(p) : Usable(i)
        /\ p \notin crossed /\ (\E i \in TokensOf(p) : Usable(i)) => Status(p) = "active"

-----------------------------------------------------------------------------
(* The table as TokenSlots sees it.  A token is the number of its row.     *)

Verified == {i \in DOMAIN pats : Usable(i)}

Slots == INSTANCE TokenSlots WITH
    Owners <- Principals, Tokens <- Nat \ {0},
    working <- {<<pats[i].owner, i>> : i \in Verified}, spent <- DOMAIN pats

\* Whichever processes issue and revoke at once, a request gets through with a principal's
\* last token only, and never with one that once failed (pat.py issue, verify).
ImplementsSlots == Slots!Spec
=============================================================================
