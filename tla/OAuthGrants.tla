---------------------------- MODULE OAuthGrants ----------------------------
(***************************************************************************)
(* The OAuth authorization server: client registration, the pending        *)
(* request parked by /authorize, the consent screen with its remembered    *)
(* approvals, authorization codes, access and refresh tokens grouped in    *)
(* rotation families, revocation, oauth-gc and the removal of a friend.    *)
(*                                                                         *)
(* Three processes share one SQLite file and the allowlist file.           *)
(*   srv  the web server.  Handlers are coroutines that do not suspend     *)
(*        between store calls, so one handler at a time is under way, but  *)
(*        each store call is a transaction of its own and the command-line *)
(*        processes run between two of them.                               *)
(*   cli  `allowlist remove`, one transaction or file write per step.      *)
(*   gc   `oauth-gc`, the token sweep and then the client sweep.           *)
(* Any of them may die between two steps.                                  *)
(*                                                                         *)
(* A table is a function from the keys of its rows.  A mint inserts an     *)
(* access and a refresh row in one transaction: one identifier names both. *)
(***************************************************************************)
EXTENDS Integers, FiniteSets

CONSTANTS
    Principals,    \* friends, by the principal their grants are stored under
    GoogleSubs,    \* the principals that are Google subjects and need a pin
    Clients, Nonces, Codes, Families, Tokens,  \* what generate_token returns
    Scopes, DefaultScope,
    NoToken,
    GRACE, ACCESS_TTL, REFRESH_TTL, AUTH_CODE_TTL, PENDING_TTL, CLIENT_TTL,
    MaxTime        \* bound on the clock, for model checking only

ASSUME SetsAssumption ==
    /\ GoogleSubs \subseteq Principals
    /\ DefaultScope \in Scopes
    /\ NoToken \notin Tokens

ASSUME TimesAssumption ==
    /\ {GRACE, ACCESS_TTL, REFRESH_TTL, AUTH_CODE_TTL, PENDING_TTL} \subseteq Nat \ {0}
    /\ CLIENT_TTL \in Int    \* oauth_client_gc_ttl_days, which nothing validates
    /\ MaxTime \in Nat

VARIABLES
    now,           \* the clock; one unit outlasts any handler
    listed,        \* principals with an allowlist entry
    pinned,        \* Google principals with a pin row
    sessions,      \* principals some browser is signed in as
    clients,       \* table oauth_clients
    pending,       \* table oauth_pending_requests
    approvals,     \* table oauth_client_approvals, {} where there is no row
    codes,         \* table oauth_auth_codes
    refresh,       \* table oauth_refresh_tokens
    access,        \* table oauth_access_tokens
    srv, cli, gc,  \* where each process is
    known,         \* token pairs whose response reached the client
    issued,        \* client and token identifiers ever generated
    grants,        \* history: each family's origin
    consented,     \* history: <<principal, client, scope>> approved on screen
    dead,          \* history: families revoked with no rotation in flight
    evicted        \* history: principals whose removal completed, until re-added

people == <<listed, pinned, sessions>>
tables == <<clients, pending, approvals, codes, refresh, access>>
history == <<known, issued, grants, consented, dead, evicted>>
vars == <<now, people, tables, srv, cli, gc, history>>

Never == -1    \* a NULL timestamp
Idle == [pc |-> "idle"]

ClientRow == [registered : Nat, lastUsed : Nat \cup {Never}]
PendingRow == [client : Clients, scopes : SUBSET Scopes, expires : Nat, consumed : BOOLEAN]
CodeRow == [client : Clients, principal : Principals, scopes : SUBSET Scopes,
            nonce : Nonces, expires : Nat, consumed : BOOLEAN]
RefreshRow == [family : Families, client : Clients, principal : Principals,
               scopes : SUBSET Scopes, prev : Tokens \cup {NoToken}, created : Nat,
               expires : Nat, rotated : Nat \cup {Never}, revoked : BOOLEAN]
AccessRow == [family : Families, client : Clients, principal : Principals,
              scopes : SUBSET Scopes, expires : Nat, revoked : BOOLEAN]
Origin == [code : Codes, client : Clients, principal : Principals, scopes : SUBSET Scopes]

ServerState ==
    {Idle}
    \cup [pc : {"approve"}, principal : Principals, nonce : Nonces, scopes : SUBSET Scopes]
    \cup [pc : {"check", "consume", "code"}, principal : Principals, nonce : Nonces]
    \cup [pc : {"tokens"}, code : Codes]
    \cup [pc : {"rotate"}, token : Tokens, want : SUBSET Scopes]
    \cup [pc : {"mint"}, token : Tokens, want : SUBSET Scopes,
          state : {"active", "grace"}, row : RefreshRow]
    \cup [pc : {"stamp"}, token : Tokens, client : Clients]
CliState ==
    {Idle} \cup [pc : {"lookup", "unpin", "families", "approvals"}, principal : Principals]

PeopleOK ==
    /\ now \in Nat
    /\ listed \subseteq Principals /\ pinned \subseteq GoogleSubs
    /\ sessions \subseteq Principals
ClientsOK == DOMAIN clients \subseteq Clients /\ clients \in [DOMAIN clients -> ClientRow]
PendingOK == DOMAIN pending \subseteq Nonces /\ pending \in [DOMAIN pending -> PendingRow]
ApprovalsOK == approvals \in [Principals -> [Clients -> SUBSET Scopes]]
CodesOK == DOMAIN codes \subseteq Codes /\ codes \in [DOMAIN codes -> CodeRow]
TokensOK ==
    /\ DOMAIN refresh \subseteq Tokens /\ refresh \in [DOMAIN refresh -> RefreshRow]
    /\ DOMAIN access \subseteq Tokens /\ access \in [DOMAIN access -> AccessRow]
ProcessesOK == srv \in ServerState /\ cli \in CliState /\ gc \in {"idle", "clients"}
\* The row a handler works on is still there: neither table has a sweep.
InFlightOK ==
    /\ srv.pc \in {"approve", "check", "consume", "code"} => srv.nonce \in DOMAIN pending
    /\ srv.pc = "tokens" => srv.code \in DOMAIN codes
HistoryOK ==
    /\ known \subseteq Tokens /\ issued \subseteq Clients \cup Tokens
    /\ DOMAIN grants \subseteq Families /\ grants \in [DOMAIN grants -> Origin]
    /\ consented \subseteq Principals \X Clients \X Scopes
    /\ dead \subseteq Families /\ evicted \subseteq Principals

\* The one type invariant: every table holds rows of its type, every process is in
\* one of its control states (oauth/schema.py, oauth/store.py).
TypeOK ==
    /\ PeopleOK /\ ClientsOK /\ PendingOK /\ ApprovalsOK /\ CodesOK
    /\ TokensOK /\ ProcessesOK /\ InFlightOK /\ HistoryOK

Empty == [x \in {} |-> x]

Init ==
    /\ now = 0
    /\ listed = Principals /\ pinned = {} /\ sessions = {}
    /\ clients = Empty /\ pending = Empty /\ codes = Empty
    /\ approvals = [p \in Principals |-> [c \in Clients |-> {}]]
    /\ refresh = Empty /\ access = Empty
    /\ srv = Idle /\ cli = Idle /\ gc = "idle"
    /\ known = {} /\ issued = {} /\ grants = Empty /\ consented = {} /\ dead = {}
    /\ evicted = {}

-----------------------------------------------------------------------------
(* Helpers: one per store idiom.                                           *)

Insert(table, key, row) ==
    [k \in DOMAIN table \cup {key} |-> IF k = key THEN row ELSE table[k]]

Keep(table, keys) == [k \in DOMAIN table \cap keys |-> table[k]]

\* is_authorized: the live allowlist entry, and for a Google subject its pin.
Authorized(p) == p \in listed /\ (p \in GoogleSubs => p \in pinned)

Expired(row) == row.expires <= now

EffectiveScopes(s) == IF s = {} THEN {DefaultScope} ELSE s

\* Mutant of HasApproval: any remembered scope skips the screen for all of them.
HasAnyApproval(p, c, s) == approvals[p][c] # {}

HasApproval(p, c, s) == s \subseteq approvals[p][c]

PendingUsable(n) ==
    n \in DOMAIN pending /\ ~pending[n].consumed /\ ~Expired(pending[n])

\* Mutant of CodeUsable: the single-use mark is not looked at.
CodeUnexpired(k) == k \in DOMAIN codes /\ ~Expired(codes[k])

CodeUsable(k) == k \in DOMAIN codes /\ ~codes[k].consumed /\ ~Expired(codes[k])

\* Mutant of RefreshState: a rotated token stays retryable until it expires.
RefreshStateNoWindow(t) ==
    IF t \notin DOMAIN refresh \/ refresh[t].revoked \/ Expired(refresh[t]) THEN "none"
    ELSE IF refresh[t].rotated = Never THEN "active" ELSE "grace"

\* _fetch_usable_refresh without its side effect.
RefreshState(t) ==
    IF t \notin DOMAIN refresh \/ refresh[t].revoked \/ Expired(refresh[t]) THEN "none"
    ELSE IF refresh[t].rotated = Never THEN "active"
    ELSE IF now - refresh[t].rotated <= GRACE THEN "grace"
    ELSE "reuse"

RevokeFamilyIn(table, f) ==
    [t \in DOMAIN table |->
        IF table[t].family = f THEN [table[t] EXCEPT !.revoked = TRUE] ELSE table[t]]

RevokePrincipalIn(table, p) ==
    [t \in DOMAIN table |->
        IF table[t].principal = p THEN [table[t] EXCEPT !.revoked = TRUE] ELSE table[t]]

\* _revoke_family: both tables, one transaction.
RevokeFamily(f) ==
    /\ refresh' = RevokeFamilyIn(refresh, f)
    /\ access' = RevokeFamilyIn(access, f)
    /\ dead' = dead \cup {f}

\* _mint_access and _mint_refresh: the two rows of pair t, on top of table r.
Mint(r, t, f, prev, c, p, s) ==
    /\ refresh' = Insert(r, t,
           [family |-> f, client |-> c, principal |-> p, scopes |-> s, prev |-> prev,
            created |-> now, expires |-> now + REFRESH_TTL, rotated |-> Never,
            revoked |-> FALSE])
    /\ access' = Insert(access, t,
           [family |-> f, client |-> c, principal |-> p, scopes |-> s,
            expires |-> now + ACCESS_TTL, revoked |-> FALSE])
    /\ issued' = issued \cup {t}
    /\ srv' = [pc |-> "stamp", token |-> t, client |-> c]

-----------------------------------------------------------------------------
(* People: sign-in, and the operator's `allowlist add`.                    *)

\* Mutant of SignIn: the pin is created whatever the provider of the sign-in.
SignInPinsAll(p) ==
    /\ p \in listed
    /\ p \notin sessions \/ ~Authorized(p)
    /\ sessions' = sessions \cup {p}
    /\ pinned' = pinned \cup {p}
    /\ UNCHANGED <<now, listed, tables, srv, cli, gc, history>>

\* auth_callback and auth_google_callback: a session needs a live allowlist entry,
\* and a Google sign-in creates the pin it does not find.
SignIn(p) ==
    /\ p \in listed
    /\ p \notin sessions \/ ~Authorized(p)
    /\ sessions' = sessions \cup {p}
    /\ pinned' = pinned \cup ({p} \cap GoogleSubs)
    /\ UNCHANGED <<now, listed, tables, srv, cli, gc, history>>

AllowlistAdd(p) ==
    /\ p \notin listed
    /\ listed' = listed \cup {p}
    /\ evicted' = evicted \ {p}
    /\ UNCHANGED <<now, pinned, sessions, tables, srv, cli, gc,
                   known, issued, grants, consented, dead>>

-----------------------------------------------------------------------------
(* Registration, /authorize and the consent screen.                        *)

\* The SDK draws a fresh client_id for every registration.
RegisterClient(c) ==
    /\ srv = Idle /\ c \notin issued
    /\ clients' = Insert(clients, c, [registered |-> now, lastUsed |-> Never])
    /\ issued' = issued \cup {c}
    /\ UNCHANGED <<now, people, pending, approvals, codes, refresh, access, srv, cli, gc,
                   known, grants, consented, dead, evicted>>

Authorize(c, n, s) ==
    /\ srv = Idle /\ c \in DOMAIN clients /\ n \notin DOMAIN pending
    /\ pending' = Insert(pending, n,
           [client |-> c, scopes |-> s, expires |-> now + PENDING_TTL, consumed |-> FALSE])
    /\ UNCHANGED <<now, people, clients, approvals, codes, refresh, access, srv, cli, gc,
                   history>>

\* GET: a covering approval skips the screen; otherwise the screen is rendered.
ConsentGet(p, n) ==
    /\ srv = Idle /\ p \in sessions /\ PendingUsable(n)
    /\ HasApproval(p, pending[n].client, EffectiveScopes(pending[n].scopes))
    /\ srv' = [pc |-> "check", principal |-> p, nonce |-> n]
    /\ UNCHANGED <<now, people, tables, cli, gc, history>>

\* POST approve: record_approval reads the scopes approved before ...
ConsentApprove(p, n) ==
    /\ srv = Idle /\ p \in sessions /\ PendingUsable(n)
    /\ LET c == pending[n].client
           s == EffectiveScopes(pending[n].scopes)
       IN /\ srv' = [pc |-> "approve", principal |-> p, nonce |-> n,
                     scopes |-> approvals[p][c] \cup s]
          /\ consented' = consented \cup ({p} \X {c} \X s)
    /\ UNCHANGED <<now, people, tables, cli, gc, known, issued, grants, dead, evicted>>

\* ... and writes the union, over whatever a removal has done to the row meanwhile and
\* before the allowlist is consulted.
RecordApproval ==
    /\ srv.pc = "approve"
    /\ approvals' = [approvals EXCEPT
           ![srv.principal][pending[srv.nonce].client] = srv.scopes]
    /\ srv' = [pc |-> "check", principal |-> srv.principal, nonce |-> srv.nonce]
    /\ UNCHANGED <<now, people, clients, pending, codes, refresh, access, cli, gc, history>>

ConsentDeny(p, n) ==
    /\ srv = Idle /\ p \in sessions /\ PendingUsable(n)
    /\ pending' = [pending EXCEPT ![n].consumed = TRUE]
    /\ UNCHANGED <<now, people, clients, approvals, codes, refresh, access, srv, cli, gc,
                   history>>

\* _issue_or_deny, one step per file read or transaction.
IssueCheck ==
    /\ srv.pc = "check"
    /\ srv' = IF Authorized(srv.principal) THEN [srv EXCEPT !.pc = "consume"] ELSE Idle
    /\ UNCHANGED <<now, people, tables, cli, gc, history>>

ConsumePending ==
    /\ srv.pc = "consume"
    /\ ~pending[srv.nonce].consumed
    /\ pending' = [pending EXCEPT ![srv.nonce].consumed = TRUE]
    /\ srv' = [srv EXCEPT !.pc = "code"]
    /\ UNCHANGED <<now, people, clients, approvals, codes, refresh, access, cli, gc, history>>

CreateCode(k) ==
    /\ srv.pc = "code" /\ k \notin DOMAIN codes
    /\ LET row == pending[srv.nonce]
       IN codes' = Insert(codes, k,
              [client |-> row.client, principal |-> srv.principal,
               scopes |-> EffectiveScopes(row.scopes), nonce |-> srv.nonce,
               expires |-> now + AUTH_CODE_TTL, consumed |-> FALSE])
    /\ srv' = Idle
    /\ UNCHANGED <<now, people, clients, pending, approvals, refresh, access, cli, gc, history>>

-----------------------------------------------------------------------------
(* /token and /revoke.  A client authenticates with its row, and presents  *)
(* only tokens it was sent.                                                *)

\* authorization_code grant: load, client binding, consume ...
RedeemCode(c, k) ==
    /\ srv = Idle /\ c \in DOMAIN clients /\ CodeUsable(k) /\ codes[k].client = c
    /\ codes' = [codes EXCEPT ![k].consumed = TRUE]
    /\ srv' = [pc |-> "tokens", code |-> k]
    /\ UNCHANGED <<now, people, clients, pending, approvals, refresh, access, cli, gc, history>>

\* ... then a new family with its first pair, in a transaction of its own.
IssueTokens(f, t) ==
    /\ srv.pc = "tokens" /\ f \notin DOMAIN grants /\ t \notin issued
    /\ LET row == codes[srv.code]
       IN /\ Mint(refresh, t, f, NoToken, row.client, row.principal, row.scopes)
          /\ grants' = Insert(grants, f,
                 [code |-> srv.code, client |-> row.client,
                  principal |-> row.principal, scopes |-> row.scopes])
    /\ UNCHANGED <<now, people, clients, pending, approvals, codes, cli, gc,
                   known, consented, dead, evicted>>

\* refresh_token grant: load_refresh_token, client binding, scope subset ...
PresentRefresh(c, t, s) ==
    /\ srv = Idle /\ c \in DOMAIN clients /\ t \in known
    /\ RefreshState(t) \in {"active", "grace"}
    /\ refresh[t].client = c /\ s # {} /\ s \subseteq refresh[t].scopes
    /\ srv' = [pc |-> "rotate", token |-> t, want |-> s]
    /\ UNCHANGED <<now, people, tables, cli, gc, history>>

\* A token rotated away longer ago than the grace: its whole family is revoked, by
\* whichever client and endpoint it arrives.
PresentReused(t) ==
    /\ srv = Idle /\ clients # Empty /\ t \in known
    /\ RefreshState(t) = "reuse"
    /\ RevokeFamily(refresh[t].family)
    /\ UNCHANGED <<now, people, clients, pending, approvals, codes, srv, cli, gc,
                   known, issued, grants, consented, evicted>>

\* Mutant of RotateRead: the state found when the token was presented is trusted.
RotateTrusting ==
    /\ srv.pc = "rotate"
    /\ LET t == srv.token
       IN srv' = IF t \in DOMAIN refresh
                 THEN [pc |-> "mint", token |-> t, want |-> srv.want,
                       state |-> IF refresh[t].rotated = Never THEN "active" ELSE "grace",
                       row |-> refresh[t]]
                 ELSE Idle
    /\ UNCHANGED <<now, people, tables, cli, gc, history>>

\* ... rotate_refresh_token reads the row again (a command-line process may have
\* changed it; the clock cannot have moved) ...
RotateRead ==
    /\ srv.pc = "rotate"
    /\ LET t == srv.token
       IN srv' = IF RefreshState(t) \in {"active", "grace"}
                 THEN [pc |-> "mint", token |-> t, want |-> srv.want,
                       state |-> RefreshState(t), row |-> refresh[t]]
                 ELSE Idle
    /\ UNCHANGED <<now, people, tables, cli, gc, history>>

\* ... and its first INSERT opens the transaction that this step commits.
RotateMint(t) ==
    /\ srv.pc = "mint" /\ t \notin issued
    /\ LET old == srv.token
           row == srv.row
           marked == IF srv.state = "active" /\ old \in DOMAIN refresh
                     THEN [refresh EXCEPT ![old].rotated = now]
                     ELSE refresh
       IN Mint(marked, t, row.family, old, row.client, row.principal,
               srv.want \cap row.scopes)
    /\ UNCHANGED <<now, people, clients, pending, approvals, codes, cli, gc,
                   known, grants, consented, dead, evicted>>

\* mark_client_used, then the response, which the network may lose.
StampClient ==
    /\ srv.pc = "stamp"
    /\ clients' = IF srv.client \in DOMAIN clients
                  THEN [clients EXCEPT ![srv.client].lastUsed = now]
                  ELSE clients
    /\ known' \in {known, known \cup {srv.token}}
    /\ srv' = Idle
    /\ UNCHANGED <<now, people, pending, approvals, codes, refresh, access, cli, gc,
                   issued, grants, consented, dead, evicted>>

\* /revoke with the refresh token, or with the access token, which load_access_token
\* yields only for a friend who is still authorized.
Revoke(c, t) ==
    /\ srv = Idle /\ c \in DOMAIN clients /\ t \in known
    /\ \/ /\ RefreshState(t) \in {"active", "grace"} /\ refresh[t].client = c
          /\ RevokeFamily(refresh[t].family)
       \/ /\ t \in DOMAIN access /\ ~access[t].revoked /\ ~Expired(access[t])
          /\ Authorized(access[t].principal) /\ access[t].client = c
          /\ RevokeFamily(access[t].family)
    /\ UNCHANGED <<now, people, clients, pending, approvals, codes, srv, cli, gc,
                   known, issued, grants, consented, evicted>>

-----------------------------------------------------------------------------
(* `allowlist remove` and `oauth-gc`.                                      *)

RemoveEntry(p) ==
    /\ cli = Idle
    /\ listed' = listed \ {p}
    /\ cli' = [pc |-> IF p \in GoogleSubs THEN "lookup" ELSE "families", principal |-> p]
    /\ UNCHANGED <<now, pinned, sessions, tables, srv, gc, history>>

\* sub_for_email: without a pin there is no principal to revoke.
LookupSub ==
    /\ cli.pc = "lookup"
    /\ IF cli.principal \in pinned
       THEN cli' = [cli EXCEPT !.pc = "unpin"] /\ evicted' = evicted
       ELSE cli' = Idle /\ evicted' = evicted \cup ({cli.principal} \ listed)
    /\ UNCHANGED <<now, people, tables, srv, gc, known, issued, grants, consented, dead>>

DeletePin ==
    /\ cli.pc = "unpin"
    /\ pinned' = pinned \ {cli.principal}
    /\ cli' = [cli EXCEPT !.pc = "families"]
    /\ UNCHANGED <<now, listed, sessions, tables, srv, gc, history>>

\* revoke_families_for_principal.  A rotation that has read its row and not yet
\* committed escapes: only its family is not counted dead.
RevokeFamilies ==
    /\ cli.pc = "families"
    /\ LET p == cli.principal
           inFlight == IF srv.pc = "mint" THEN {srv.row.family} ELSE {}
       IN /\ refresh' = RevokePrincipalIn(refresh, p)
          /\ access' = RevokePrincipalIn(access, p)
          /\ dead' = dead \cup {f \in DOMAIN grants \ inFlight : grants[f].principal = p}
    /\ cli' = [cli EXCEPT !.pc = "approvals"]
    /\ UNCHANGED <<now, people, clients, pending, approvals, codes, srv, gc,
                   known, issued, grants, consented, evicted>>

DeleteApprovals ==
    /\ cli.pc = "approvals"
    /\ approvals' = [approvals EXCEPT ![cli.principal] = [c \in Clients |-> {}]]
    /\ evicted' = evicted \cup ({cli.principal} \ listed)
    /\ cli' = Idle
    /\ UNCHANGED <<now, people, clients, pending, codes, refresh, access, srv, gc,
                   known, issued, grants, consented, dead>>

Retained(table) == {t \in DOMAIN table : ~table[t].revoked /\ ~Expired(table[t])}

GcTokens ==
    /\ gc = "idle"
    /\ refresh' = Keep(refresh, Retained(refresh))
    /\ access' = Keep(access, Retained(access))
    /\ gc' = "clients"
    /\ UNCHANGED <<now, people, clients, pending, approvals, codes, srv, cli, history>>

\* Mutant of Unused: the age of the registration alone counts.
UnusedByAge(c) == clients[c].registered + CLIENT_TTL <= now

Unused(c) ==
    IF clients[c].lastUsed = Never
    THEN clients[c].registered + CLIENT_TTL <= now
    ELSE clients[c].lastUsed + CLIENT_TTL <= now

GcClients ==
    /\ gc = "clients"
    /\ clients' = Keep(clients, {c \in DOMAIN clients : ~Unused(c)})
    /\ gc' = "idle"
    /\ UNCHANGED <<now, people, pending, approvals, codes, refresh, access, srv, cli, history>>

-----------------------------------------------------------------------------
(* Time passes between handlers; a process may die between two steps.      *)

Tick ==
    /\ srv = Idle /\ now < MaxTime
    /\ now' = now + 1
    /\ UNCHANGED <<people, tables, srv, cli, gc, history>>

Crash ==
    /\ \/ srv # Idle /\ srv' = Idle /\ UNCHANGED <<cli, gc>>
       \/ cli # Idle /\ cli' = Idle /\ UNCHANGED <<srv, gc>>
       \/ gc # "idle" /\ gc' = "idle" /\ UNCHANGED <<srv, cli>>
    /\ UNCHANGED <<now, people, tables, history>>

Next ==
    \/ \E p \in Principals : SignIn(p) \/ AllowlistAdd(p) \/ RemoveEntry(p)
    \/ \E c \in Clients : RegisterClient(c)
    \/ \E c \in Clients, n \in Nonces, s \in SUBSET Scopes : Authorize(c, n, s)
    \/ \E p \in Principals, n \in Nonces :
          ConsentGet(p, n) \/ ConsentApprove(p, n) \/ ConsentDeny(p, n)
    \/ RecordApproval \/ IssueCheck \/ ConsumePending \/ \E k \in Codes : CreateCode(k)
    \/ \E c \in Clients, k \in Codes : RedeemCode(c, k)
    \/ \E f \in Families, t \in Tokens : IssueTokens(f, t)
    \/ \E c \in Clients, t \in Tokens, s \in SUBSET Scopes : PresentRefresh(c, t, s)
    \/ \E t \in Tokens : PresentReused(t) \/ RotateMint(t)
    \/ RotateRead \/ StampClient
    \/ \E c \in Clients, t \in Tokens : Revoke(c, t)
    \/ LookupSub \/ DeletePin \/ RevokeFamilies \/ DeleteApprovals
    \/ GcTokens \/ GcClients
    \/ Tick \/ Crash

Spec == Init /\ [][Next]_vars

-----------------------------------------------------------------------------
(* Safety.                                                                 *)

\* A family revoked by /revoke, by reuse detection, or by a removal that no rotation
\* straddled never again holds a usable row, although rotations keep adding rows to
\* families: rotate_refresh_token re-reads the row on the connection it mints on.
RevokedFamilyStaysDead ==
    /\ \A t \in DOMAIN refresh : refresh[t].family \in dead => refresh[t].revoked
    /\ \A t \in DOMAIN access : access[t].family \in dead => access[t].revoked

\* One consent yields one grant: no two families come from the same authorization code
\* and no two codes from the same consent nonce, whatever is replayed or dies midway
\* (consume_pending_request, consume_auth_code).
OneGrantPerConsent ==
    /\ \A f, g \in DOMAIN grants : grants[f].code = grants[g].code => f = g
    /\ \A j, k \in DOMAIN codes : codes[j].nonce = codes[k].nonce => j = k

\* Row is one of a grant's: its client, its friend, and no scope beyond its scopes.
OfGrant(row) ==
    /\ row.family \in DOMAIN grants
    /\ row.client = grants[row.family].client
    /\ row.principal = grants[row.family].principal
    /\ row.scopes \subseteq grants[row.family].scopes

RowsOfGrants(table) == \A t \in DOMAIN table : OfGrant(table[t])

\* The friend approved every one of these scopes for this client on a consent screen.
OnScreen(p, c, s) == {p} \X {c} \X s \subseteq consented

\* Every token of a family belongs to the client and friend the family was opened for,
\* carries scopes of that grant only, and each scope of a grant is one that this friend
\* approved for this client on a consent screen: neither a remembered approval nor a
\* chain of rotations escalates.
TokensWithinConsent ==
    /\ RowsOfGrants(refresh) /\ RowsOfGrants(access)
    /\ \A f \in DOMAIN grants :
          OnScreen(grants[f].principal, grants[f].client, grants[f].scopes)

\* The retry window is measured from the first rotation and never extended: all
\* successors of one refresh token are minted within GRACE of each other.
GraceWindowIsFixed ==
    \A t, u \in DOMAIN refresh :
        refresh[t].prev = refresh[u].prev /\ refresh[t].prev # NoToken
            => refresh[t].created - refresh[u].created <= GRACE

\* Of the tokens its clients were sent, a step that deletes a client leaves behind only
\* those minted the client lifetime ago or before.
SparesRecentClients ==
    \A c \in DOMAIN clients \ DOMAIN clients' : \A t \in known \cap DOMAIN refresh :
        refresh[t].client = c => refresh[t].created + CLIENT_TTL <= now

\* "Delete registered clients with no successful authorization within this many days"
\* (config.py:107): the sweep deletes no client that was sent a token minted since then,
\* although the stamp it reads is written after the tokens are committed.
GcSparesRecentClients == [][SparesRecentClients]_vars

\* The clients a step deletes hold no live refresh token that they were sent.
StrandsNoClient ==
    \A c \in DOMAIN clients \ DOMAIN clients' : \A t \in known \cap DOMAIN refresh :
        refresh[t].client = c => refresh[t].revoked \/ Expired(refresh[t])

-----------------------------------------------------------------------------
(* The grants as GrantLifecycle sees them.  A holder is a friend, a client *)
(* and a scope; a code that an exchange has consumed is an offer until its *)
(* tokens are there, and what a rotation is about to mint is active.       *)

Holds(row) == {row.principal} \X {row.client} \X row.scopes
HeldIn(table, keys) == UNION {Holds(table[k]) : k \in keys}

Redeemable == {k \in DOMAIN codes : CodeUsable(k) \/ (srv.pc = "tokens" /\ srv.code = k)}
UsableRefresh == {t \in DOMAIN refresh : RefreshState(t) \in {"active", "grace"}}
UsableAccess == {t \in DOMAIN access : ~access[t].revoked /\ ~Expired(access[t])}
AboutToMint ==
    IF srv.pc = "mint"
    THEN {srv.row.principal} \X {srv.row.client} \X (srv.want \cap srv.row.scopes)
    ELSE {}

OfferedHolders == HeldIn(codes, Redeemable)
ActiveHolders == HeldIn(refresh, UsableRefresh) \cup HeldIn(access, UsableAccess) \cup AboutToMint

Lifecycle == INSTANCE GrantLifecycle WITH
    Holders <- Principals \X Clients \X Scopes,
    eligible <- consented, offered <- OfferedHolders, active <- ActiveHolders

\* Whatever is replayed, rotated, swept, revoked or dies between two transactions: a friend's
\* client holds a usable token for a scope only by an unbroken chain of rotations from a
\* code, and has such a code only for scopes that this friend approved on a screen
\* (store.py); once the last token is gone, only another code brings the grant back.
ImplementsLifecycle == Lifecycle!Spec

-----------------------------------------------------------------------------
(* What the docstring of _revoke_oauth_grants promises of a removal.       *)

\* "they cannot refresh in the interim": once `allowlist remove` has completed, no
\* refresh token the removed friend's client holds is usable.
RemovedCannotRefresh ==
    \A t \in known \cap DOMAIN refresh :
        refresh[t].principal \in evicted => RefreshState(t) = "none"

=============================================================================
