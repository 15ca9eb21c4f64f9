------------------------- MODULE OAuthGrants_proofs -------------------------
(* Theorems about OAuthGrants, for every value of its constants: types,     *)
(* revoked families, what a consent opens, what its tokens may do, how long *)
(* a retry is served, and that all of it implements GrantLifecycle.         *)
EXTENDS OAuthGrants, TLAPS

-----------------------------------------------------------------------------
(* Tables as partial functions.                                            *)

\* An INSERT keeps a table well typed and adds exactly its key.
LEMMA InsertType ==
    ASSUME NEW Row, NEW table, table \in [DOMAIN table -> Row], NEW key, NEW row \in Row
    PROVE  /\ DOMAIN Insert(table, key, row) = DOMAIN table \cup {key}
           /\ Insert(table, key, row) \in [DOMAIN Insert(table, key, row) -> Row]
    BY DEF Insert

\* A DELETE keeps a table well typed and adds no key.
LEMMA KeepType ==
    ASSUME NEW Row, NEW table, table \in [DOMAIN table -> Row], NEW keys
    PROVE  /\ DOMAIN Keep(table, keys) \subseteq DOMAIN table
           /\ Keep(table, keys) \in [DOMAIN Keep(table, keys) -> Row]
    BY DEF Keep

\* Revoking a family, or a principal, in either token table keeps its type and keys.
LEMMA RevokeType ==
    ASSUME NEW Row, Row \in {RefreshRow, AccessRow},
           NEW table, table \in [DOMAIN table -> Row], NEW x
    PROVE  /\ DOMAIN RevokeFamilyIn(table, x) = DOMAIN table
           /\ RevokeFamilyIn(table, x) \in [DOMAIN table -> Row]
           /\ DOMAIN RevokePrincipalIn(table, x) = DOMAIN table
           /\ RevokePrincipalIn(table, x) \in [DOMAIN table -> Row]
    <1>1. \A r \in Row : [r EXCEPT !.revoked = TRUE] \in Row
        <2>1. CASE Row = RefreshRow
            BY <2>1 DEF RefreshRow
        <2>2. CASE Row = AccessRow
            BY <2>2 DEF AccessRow
        <2> QED BY <2>1, <2>2
    <1> QED BY <1>1 DEF RevokeFamilyIn, RevokePrincipalIn

\* A mint into a well-typed refresh table leaves both token tables well typed.
LEMMA MintType ==
    ASSUME TypeOK, NEW r, DOMAIN r \subseteq Tokens, r \in [DOMAIN r -> RefreshRow],
           NEW t \in Tokens, NEW f \in Families, NEW prev \in Tokens \cup {NoToken},
           NEW c \in Clients, NEW p \in Principals, NEW s \in SUBSET Scopes,
           Mint(r, t, f, prev, c, p, s)
    PROVE  /\ TokensOK'
           /\ issued' \subseteq Clients \cup Tokens
           /\ srv' \in ServerState
    <1> DEFINE rrow == [family |-> f, client |-> c, principal |-> p, scopes |-> s,
                        prev |-> prev, created |-> now, expires |-> now + REFRESH_TTL,
                        rotated |-> Never, revoked |-> FALSE]
               arow == [family |-> f, client |-> c, principal |-> p, scopes |-> s,
                        expires |-> now + ACCESS_TTL, revoked |-> FALSE]
    <1>1. now \in Nat /\ REFRESH_TTL \in Nat /\ ACCESS_TTL \in Nat
        BY TimesAssumption DEF TypeOK, PeopleOK
    <1>2. rrow \in RefreshRow /\ arow \in AccessRow
        BY <1>1 DEF RefreshRow, AccessRow, Never
    <1>3. refresh' = Insert(r, t, rrow) /\ access' = Insert(access, t, arow)
        BY DEF Mint
    <1> HIDE DEF rrow, arow
    <1>4. DOMAIN refresh' \subseteq Tokens /\ refresh' \in [DOMAIN refresh' -> RefreshRow]
        <2>1. /\ DOMAIN Insert(r, t, rrow) = DOMAIN r \cup {t}
              /\ Insert(r, t, rrow) \in [DOMAIN Insert(r, t, rrow) -> RefreshRow]
            BY <1>2, InsertType
        <2> QED BY <2>1, <1>3
    <1>5. DOMAIN access' \subseteq Tokens /\ access' \in [DOMAIN access' -> AccessRow]
        <2>1. /\ DOMAIN Insert(access, t, arow) = DOMAIN access \cup {t}
              /\ Insert(access, t, arow) \in [DOMAIN Insert(access, t, arow) -> AccessRow]
            BY <1>2, InsertType DEF TypeOK, TokensOK
        <2> QED BY <2>1, <1>3 DEF TypeOK, TokensOK
    <1>6. issued' \subseteq Clients \cup Tokens /\ srv' \in ServerState
        BY DEF Mint, TypeOK, HistoryOK, ServerState
    <1> QED BY <1>4, <1>5, <1>6 DEF TokensOK

-----------------------------------------------------------------------------
(* Type correctness.                                                       *)

\* Every reachable state is well typed.
THEOREM TypeCorrect == Spec => []TypeOK
<1>1. Init => TypeOK
    BY DEF Init, TypeOK, PeopleOK, ClientsOK, PendingOK, ApprovalsOK, CodesOK, TokensOK,
           ProcessesOK, InFlightOK, HistoryOK, Empty, ServerState, CliState, Idle
<1>2. TypeOK /\ [Next]_vars => TypeOK'
    <2> SUFFICES ASSUME TypeOK, [Next]_vars PROVE TypeOK'
        OBVIOUS
    <2> USE DEF TypeOK, people, tables, history
    <2>1. ASSUME NEW p \in Principals, SignIn(p)
         PROVE  TypeOK'
        <3>1. PeopleOK'
            BY <2>1 DEF SignIn, PeopleOK
        <3> QED
            BY <2>1, <3>1
            DEF SignIn, ClientsOK, PendingOK, ApprovalsOK, CodesOK, TokensOK,
                ProcessesOK, InFlightOK, HistoryOK
    <2>2. ASSUME NEW p \in Principals, AllowlistAdd(p)
         PROVE  TypeOK'
        <3>1. PeopleOK'
            BY <2>2 DEF AllowlistAdd, PeopleOK
        <3>2. HistoryOK'
            BY <2>2 DEF AllowlistAdd, HistoryOK
        <3> QED
            BY <2>2, <3>1, <3>2
            DEF AllowlistAdd, ClientsOK, PendingOK, ApprovalsOK, CodesOK, TokensOK,
                ProcessesOK, InFlightOK
    <2>3. ASSUME NEW p \in Principals, RemoveEntry(p)
         PROVE  TypeOK'
        <3>1. PeopleOK'
            BY <2>3 DEF RemoveEntry, PeopleOK
        <3>2. ProcessesOK'
            BY <2>3 DEF RemoveEntry, ProcessesOK, CliState
        <3> QED
            BY <2>3, <3>1, <3>2
            DEF RemoveEntry, ClientsOK, PendingOK, ApprovalsOK, CodesOK, TokensOK,
                InFlightOK, HistoryOK
    <2>4. ASSUME NEW c \in Clients, RegisterClient(c)
         PROVE  TypeOK'
        <3>1. ClientsOK'
            <4> DEFINE row == [registered |-> now, lastUsed |-> Never]
            <4>1. row \in ClientRow
                BY DEF PeopleOK, ClientRow, Never
            <4>2. clients' = Insert(clients, c, row)
                BY <2>4 DEF RegisterClient
            <4> HIDE DEF row
            <4>3. /\ DOMAIN Insert(clients, c, row) = DOMAIN clients \cup {c}
                  /\ Insert(clients, c, row) \in [DOMAIN Insert(clients, c, row) -> ClientRow]
                BY <4>1, InsertType DEF ClientsOK
            <4> QED BY <4>2, <4>3 DEF ClientsOK
        <3>2. HistoryOK'
            BY <2>4 DEF RegisterClient, HistoryOK
        <3> QED
            BY <2>4, <3>1, <3>2
            DEF RegisterClient, PeopleOK, PendingOK, ApprovalsOK, CodesOK, TokensOK,
                ProcessesOK, InFlightOK
    <2>5. ASSUME NEW c \in Clients, NEW n \in Nonces, NEW s \in SUBSET Scopes,
                 Authorize(c, n, s)
         PROVE  TypeOK'
        <3>1. PendingOK'
            <4> DEFINE row == [client |-> c, scopes |-> s, expires |-> now + PENDING_TTL,
                               consumed |-> FALSE]
            <4>1. row \in PendingRow
                BY TimesAssumption DEF PeopleOK, PendingRow
            <4>2. pending' = Insert(pending, n, row)
                BY <2>5 DEF Authorize
            <4> HIDE DEF row
            <4>3. /\ DOMAIN Insert(pending, n, row) = DOMAIN pending \cup {n}
                  /\ Insert(pending, n, row) \in [DOMAIN Insert(pending, n, row) -> PendingRow]
                BY <4>1, InsertType DEF PendingOK
            <4> QED BY <4>2, <4>3 DEF PendingOK
        <3>2. InFlightOK'
            BY <2>5 DEF Authorize, InFlightOK, Insert, Idle
        <3> QED
            BY <2>5, <3>1, <3>2
            DEF Authorize, PeopleOK, ClientsOK, ApprovalsOK, CodesOK, TokensOK,
                ProcessesOK, HistoryOK
    <2>6. ASSUME NEW p \in Principals, NEW n \in Nonces, ConsentGet(p, n)
         PROVE  TypeOK'
        <3>1. ProcessesOK'
            BY <2>6 DEF ConsentGet, ProcessesOK, ServerState
        <3>2. InFlightOK'
            BY <2>6 DEF ConsentGet, InFlightOK, PendingUsable
        <3> QED
            BY <2>6, <3>1, <3>2
            DEF ConsentGet, PeopleOK, ClientsOK, PendingOK, ApprovalsOK, CodesOK,
                TokensOK, HistoryOK
    <2>7. ASSUME NEW p \in Principals, NEW n \in Nonces, ConsentApprove(p, n)
         PROVE  TypeOK'
        <3>2. ProcessesOK'
            BY <2>7, SetsAssumption
            DEF ConsentApprove, ProcessesOK, ServerState, ApprovalsOK, PendingOK,
                PendingUsable, PendingRow, EffectiveScopes
        <3>3. HistoryOK'
            BY <2>7, SetsAssumption DEF ConsentApprove, HistoryOK, PendingOK,
                PendingUsable, PendingRow, EffectiveScopes
        <3>4. InFlightOK'
            BY <2>7 DEF ConsentApprove, InFlightOK, PendingUsable
        <3> QED
            BY <2>7, <3>2, <3>3, <3>4
            DEF ConsentApprove, PeopleOK, ClientsOK, PendingOK, ApprovalsOK, CodesOK, TokensOK
    <2>7a. ASSUME RecordApproval
         PROVE  TypeOK'
        <3>1. /\ srv.principal \in Principals /\ srv.nonce \in DOMAIN pending
              /\ srv.scopes \subseteq Scopes /\ srv.nonce \in Nonces
            BY <2>7a DEF RecordApproval, ProcessesOK, ServerState, Idle, InFlightOK
        <3>2. ApprovalsOK'
            BY <2>7a, <3>1 DEF RecordApproval, ApprovalsOK, PendingOK, PendingRow
        <3>3. ProcessesOK'
            BY <2>7a, <3>1 DEF RecordApproval, ProcessesOK, ServerState
        <3>4. InFlightOK'
            BY <2>7a, <3>1 DEF RecordApproval, InFlightOK
        <3> QED
            BY <2>7a, <3>2, <3>3, <3>4
            DEF RecordApproval, PeopleOK, ClientsOK, PendingOK, CodesOK, TokensOK, HistoryOK
    <2>8. ASSUME NEW p \in Principals, NEW n \in Nonces, ConsentDeny(p, n)
         PROVE  TypeOK'
        <3>1. PendingOK'
            BY <2>8 DEF ConsentDeny, PendingOK, PendingUsable, PendingRow
        <3>2. InFlightOK'
            BY <2>8 DEF ConsentDeny, InFlightOK, Idle
        <3> QED
            BY <2>8, <3>1, <3>2
            DEF ConsentDeny, PeopleOK, ClientsOK, ApprovalsOK, CodesOK, TokensOK,
                ProcessesOK, HistoryOK
    <2>9. ASSUME IssueCheck
         PROVE  TypeOK'
        <3>1. ProcessesOK'
            BY <2>9 DEF IssueCheck, ProcessesOK, ServerState, CliState, Idle
        <3>2. InFlightOK'
            BY <2>9 DEF IssueCheck, InFlightOK, ProcessesOK, ServerState, Idle
        <3> QED
            BY <2>9, <3>1, <3>2
            DEF IssueCheck, PeopleOK, ClientsOK, PendingOK, ApprovalsOK, CodesOK,
                TokensOK, HistoryOK
    <2>10. ASSUME ConsumePending
         PROVE  TypeOK'
        <3>1. PendingOK'
            BY <2>10 DEF ConsumePending, PendingOK, PendingRow
        <3>2. ProcessesOK'
            BY <2>10 DEF ConsumePending, ProcessesOK, ServerState, Idle
        <3>3. InFlightOK'
            BY <2>10 DEF ConsumePending, InFlightOK, ProcessesOK, ServerState, Idle
        <3> QED
            BY <2>10, <3>1, <3>2, <3>3
            DEF ConsumePending, PeopleOK, ClientsOK, ApprovalsOK, CodesOK, TokensOK,
                HistoryOK
    <2>11. ASSUME NEW k \in Codes, CreateCode(k)
         PROVE  TypeOK'
        <3>1. CodesOK'
            <4> DEFINE row == [client |-> pending[srv.nonce].client,
                               principal |-> srv.principal,
                               scopes |-> EffectiveScopes(pending[srv.nonce].scopes),
                               nonce |-> srv.nonce, expires |-> now + AUTH_CODE_TTL,
                               consumed |-> FALSE]
            <4>1. srv.principal \in Principals /\ srv.nonce \in Nonces
                BY <2>11 DEF CreateCode, ProcessesOK, ServerState, Idle
            <4>2. pending[srv.nonce] \in PendingRow
                BY <2>11 DEF CreateCode, PendingOK, InFlightOK
            <4>3. row \in CodeRow
                BY <4>1, <4>2, TimesAssumption, SetsAssumption
                DEF PeopleOK, PendingRow, CodeRow, EffectiveScopes
            <4>4. codes' = Insert(codes, k, row)
                BY <2>11 DEF CreateCode
            <4> HIDE DEF row
            <4>5. /\ DOMAIN Insert(codes, k, row) = DOMAIN codes \cup {k}
                  /\ Insert(codes, k, row) \in [DOMAIN Insert(codes, k, row) -> CodeRow]
                BY <4>3, InsertType DEF CodesOK
            <4> QED BY <4>4, <4>5 DEF CodesOK
        <3>2. ProcessesOK'
            BY <2>11 DEF CreateCode, ProcessesOK, ServerState, Idle
        <3>3. InFlightOK'
            BY <2>11 DEF CreateCode, InFlightOK, Idle
        <3> QED
            BY <2>11, <3>1, <3>2, <3>3
            DEF CreateCode, PeopleOK, ClientsOK, PendingOK, ApprovalsOK, TokensOK,
                HistoryOK
    <2>12. ASSUME NEW c \in Clients, NEW k \in Codes, RedeemCode(c, k)
         PROVE  TypeOK'
        <3>1. CodesOK'
            BY <2>12 DEF RedeemCode, CodesOK, CodeUsable, CodeRow
        <3>2. ProcessesOK'
            BY <2>12 DEF RedeemCode, ProcessesOK, ServerState
        <3>3. InFlightOK'
            BY <2>12 DEF RedeemCode, InFlightOK, CodeUsable
        <3> QED
            BY <2>12, <3>1, <3>2, <3>3
            DEF RedeemCode, PeopleOK, ClientsOK, PendingOK, ApprovalsOK, TokensOK,
                HistoryOK
    <2>13. ASSUME NEW f \in Families, NEW t \in Tokens, IssueTokens(f, t)
         PROVE  TypeOK'
        <3> DEFINE row == [code |-> srv.code, client |-> codes[srv.code].client,
                           principal |-> codes[srv.code].principal,
                           scopes |-> codes[srv.code].scopes]
        <3>1. /\ srv.code \in Codes
              /\ codes[srv.code].client \in Clients
              /\ codes[srv.code].principal \in Principals
              /\ codes[srv.code].scopes \in SUBSET Scopes
            BY <2>13 DEF IssueTokens, InFlightOK, CodesOK, CodeRow
        <3>2. Mint(refresh, t, f, NoToken, row.client, row.principal, row.scopes)
            BY <2>13 DEF IssueTokens
        <3>3. TokensOK' /\ issued' \subseteq Clients \cup Tokens /\ srv' \in ServerState
            BY <3>1, <3>2, MintType DEF TokensOK
        <3>4. row \in Origin /\ grants' = Insert(grants, f, row)
            BY <2>13, <3>1 DEF IssueTokens, Origin
        <3> HIDE DEF row
        <3>5. /\ DOMAIN Insert(grants, f, row) = DOMAIN grants \cup {f}
              /\ Insert(grants, f, row) \in [DOMAIN Insert(grants, f, row) -> Origin]
            BY <3>4, InsertType DEF HistoryOK
        <3>6. InFlightOK'
            BY <2>13 DEF IssueTokens, Mint, InFlightOK
        <3>7. ProcessesOK' /\ HistoryOK'
            BY <2>13, <3>3, <3>4, <3>5 DEF IssueTokens, ProcessesOK, HistoryOK
        <3> QED
            BY <2>13, <3>3, <3>6, <3>7
            DEF IssueTokens, PeopleOK, ClientsOK, PendingOK, ApprovalsOK, CodesOK
    <2>14. ASSUME NEW c \in Clients, NEW t \in Tokens, NEW s \in SUBSET Scopes,
                 PresentRefresh(c, t, s)
         PROVE  TypeOK'
        <3>1. ProcessesOK'
            BY <2>14 DEF PresentRefresh, ProcessesOK, ServerState
        <3>2. InFlightOK'
            BY <2>14 DEF PresentRefresh, InFlightOK, Idle
        <3> QED
            BY <2>14, <3>1, <3>2
            DEF PresentRefresh, PeopleOK, ClientsOK, PendingOK, ApprovalsOK, CodesOK,
                TokensOK, HistoryOK
    <2>15. ASSUME NEW t \in Tokens, PresentReused(t)
         PROVE  TypeOK'
        <3>1. TokensOK'
            <4>1. /\ DOMAIN refresh' = DOMAIN refresh /\ refresh' \in [DOMAIN refresh -> RefreshRow]
                  /\ DOMAIN access' = DOMAIN access /\ access' \in [DOMAIN access -> AccessRow]
                BY <2>15, RevokeType DEF PresentReused, RevokeFamily, TokensOK
            <4> QED BY <4>1 DEF TokensOK
        <3>2. HistoryOK'
            BY <2>15 DEF PresentReused, TokensOK, HistoryOK, RevokeFamily, RefreshState,
                RefreshRow
        <3> QED
            BY <2>15, <3>1, <3>2
            DEF PresentReused, PeopleOK, ClientsOK, PendingOK, ApprovalsOK, CodesOK,
                ProcessesOK, InFlightOK
    <2>16. ASSUME NEW t \in Tokens, RotateMint(t)
         PROVE  TypeOK'
        <3> DEFINE marked == IF srv.state = "active" /\ srv.token \in DOMAIN refresh
                             THEN [refresh EXCEPT ![srv.token].rotated = now] ELSE refresh
        <3>1. srv.token \in Tokens /\ srv.row \in RefreshRow
            BY <2>16 DEF RotateMint, ProcessesOK, ServerState, Idle
        <3>2. DOMAIN marked \subseteq Tokens /\ marked \in [DOMAIN marked -> RefreshRow]
            BY DEF PeopleOK, TokensOK, RefreshRow
        <3>3. /\ srv.row.family \in Families /\ srv.row.client \in Clients
              /\ srv.row.principal \in Principals
              /\ srv.want \cap srv.row.scopes \in SUBSET Scopes
            BY <3>1 DEF RefreshRow
        <3>4. Mint(marked, t, srv.row.family, srv.token, srv.row.client, srv.row.principal,
                   srv.want \cap srv.row.scopes)
            BY <2>16 DEF RotateMint
        <3> HIDE DEF marked
        <3>5. TokensOK' /\ issued' \subseteq Clients \cup Tokens /\ srv' \in ServerState
            BY <3>1, <3>2, <3>3, <3>4, MintType
        <3>6. InFlightOK'
            BY <2>16 DEF RotateMint, Mint, InFlightOK
        <3>7. ProcessesOK' /\ HistoryOK'
            BY <2>16, <3>5 DEF RotateMint, ProcessesOK, HistoryOK
        <3> QED
            BY <2>16, <3>5, <3>6, <3>7
            DEF RotateMint, PeopleOK, ClientsOK, PendingOK, ApprovalsOK, CodesOK
    <2>17. ASSUME RotateRead
         PROVE  TypeOK'
        <3>1. ProcessesOK'
            BY <2>17 DEF RotateRead, TokensOK, ProcessesOK, ServerState, Idle,
                RefreshState
        <3>2. InFlightOK'
            BY <2>17 DEF RotateRead, InFlightOK, Idle
        <3> QED
            BY <2>17, <3>1, <3>2
            DEF RotateRead, PeopleOK, ClientsOK, PendingOK, ApprovalsOK, CodesOK,
                TokensOK, HistoryOK
    <2>18. ASSUME StampClient
         PROVE  TypeOK'
        <3>1. ClientsOK'
            BY <2>18 DEF StampClient, PeopleOK, ClientsOK, ClientRow, ProcessesOK,
                ServerState, Idle
        <3>2. ProcessesOK'
            BY <2>18 DEF StampClient, ProcessesOK, ServerState, Idle
        <3>3. HistoryOK'
            BY <2>18 DEF StampClient, HistoryOK, ProcessesOK, ServerState, Idle
        <3>4. InFlightOK'
            BY <2>18 DEF StampClient, InFlightOK, Idle
        <3> QED
            BY <2>18, <3>1, <3>2, <3>3, <3>4
            DEF StampClient, PeopleOK, PendingOK, ApprovalsOK, CodesOK, TokensOK
    <2>19. ASSUME NEW c \in Clients, NEW t \in Tokens, Revoke(c, t)
         PROVE  TypeOK'
        <3>1. TokensOK'
            <4>1. PICK f : RevokeFamily(f)
                BY <2>19 DEF Revoke
            <4>2. /\ DOMAIN refresh' = DOMAIN refresh /\ refresh' \in [DOMAIN refresh -> RefreshRow]
                  /\ DOMAIN access' = DOMAIN access /\ access' \in [DOMAIN access -> AccessRow]
                BY <4>1, RevokeType DEF RevokeFamily, TokensOK
            <4> QED BY <4>2 DEF TokensOK
        <3>2. HistoryOK'
            BY <2>19 DEF Revoke, TokensOK, HistoryOK, RevokeFamily, RefreshState,
                RefreshRow, AccessRow
        <3> QED
            BY <2>19, <3>1, <3>2
            DEF Revoke, PeopleOK, ClientsOK, PendingOK, ApprovalsOK, CodesOK,
                ProcessesOK, InFlightOK
    <2>20. ASSUME LookupSub
         PROVE  TypeOK'
        <3>1. ProcessesOK'
            BY <2>20 DEF LookupSub, ProcessesOK, CliState, Idle
        <3>2. HistoryOK'
            BY <2>20 DEF LookupSub, HistoryOK, ProcessesOK, CliState, Idle
        <3> QED
            BY <2>20, <3>1, <3>2
            DEF LookupSub, PeopleOK, ClientsOK, PendingOK, ApprovalsOK, CodesOK,
                TokensOK, InFlightOK
    <2>21. ASSUME DeletePin
         PROVE  TypeOK'
        <3>1. PeopleOK'
            BY <2>21 DEF DeletePin, PeopleOK
        <3>2. ProcessesOK'
            BY <2>21 DEF DeletePin, ProcessesOK, CliState, Idle
        <3> QED
            BY <2>21, <3>1, <3>2
            DEF DeletePin, ClientsOK, PendingOK, ApprovalsOK, CodesOK, TokensOK,
                InFlightOK, HistoryOK
    <2>22. ASSUME RevokeFamilies
         PROVE  TypeOK'
        <3>1. TokensOK'
            BY <2>22, RevokeType DEF RevokeFamilies, TokensOK
        <3>2. ProcessesOK'
            BY <2>22 DEF RevokeFamilies, ProcessesOK, CliState, Idle
        <3>3. HistoryOK'
            BY <2>22 DEF RevokeFamilies, HistoryOK
        <3> QED
            BY <2>22, <3>1, <3>2, <3>3
            DEF RevokeFamilies, PeopleOK, ClientsOK, PendingOK, ApprovalsOK, CodesOK,
                InFlightOK
    <2>23. ASSUME DeleteApprovals
         PROVE  TypeOK'
        <3>1. ApprovalsOK'
            BY <2>23 DEF DeleteApprovals, ApprovalsOK, ProcessesOK, CliState, Idle
        <3>2. ProcessesOK'
            BY <2>23 DEF DeleteApprovals, ProcessesOK, CliState, Idle
        <3>3. HistoryOK'
            BY <2>23 DEF DeleteApprovals, HistoryOK, ProcessesOK, CliState, Idle
        <3> QED
            BY <2>23, <3>1, <3>2, <3>3
            DEF DeleteApprovals, PeopleOK, ClientsOK, PendingOK, CodesOK, TokensOK,
                InFlightOK
    <2>24. ASSUME GcTokens
         PROVE  TypeOK'
        <3>1. TokensOK'
            BY <2>24, KeepType DEF GcTokens, TokensOK
        <3>2. ProcessesOK'
            BY <2>24 DEF GcTokens, ProcessesOK
        <3> QED
            BY <2>24, <3>1, <3>2
            DEF GcTokens, PeopleOK, ClientsOK, PendingOK, ApprovalsOK, CodesOK,
                InFlightOK, HistoryOK
    <2>25. ASSUME GcClients
         PROVE  TypeOK'
        <3>1. ClientsOK'
            BY <2>25, KeepType DEF GcClients, ClientsOK
        <3>2. ProcessesOK'
            BY <2>25 DEF GcClients, ProcessesOK
        <3> QED
            BY <2>25, <3>1, <3>2
            DEF GcClients, PeopleOK, PendingOK, ApprovalsOK, CodesOK, TokensOK,
                InFlightOK, HistoryOK
    <2>26. ASSUME Tick
         PROVE  TypeOK'
        <3>1. PeopleOK'
            BY <2>26 DEF Tick, PeopleOK
        <3> QED
            BY <2>26, <3>1
            DEF Tick, ClientsOK, PendingOK, ApprovalsOK, CodesOK, TokensOK, ProcessesOK,
                InFlightOK, HistoryOK
    <2>27. ASSUME Crash
         PROVE  TypeOK'
        <3>1. ProcessesOK'
            BY <2>27 DEF Crash, ProcessesOK, ServerState, CliState, Idle
        <3>2. InFlightOK'
            BY <2>27 DEF Crash, InFlightOK, Idle
        <3> QED
            BY <2>27, <3>1, <3>2
            DEF Crash, PeopleOK, ClientsOK, PendingOK, ApprovalsOK, CodesOK, TokensOK,
                HistoryOK
    <2>28. CASE UNCHANGED vars
        BY <2>28
        DEF vars, PeopleOK, ClientsOK, PendingOK, ApprovalsOK, CodesOK, TokensOK,
            ProcessesOK, InFlightOK, HistoryOK
    <2> QED
        BY <2>1, <2>2, <2>3, <2>4, <2>5, <2>6, <2>7, <2>7a, <2>8, <2>9, <2>10,
           <2>11, <2>12, <2>13, <2>14, <2>15, <2>16, <2>17, <2>18, <2>19, <2>20,
           <2>21, <2>22, <2>23, <2>24, <2>25, <2>26, <2>27, <2>28 DEF Next
<1> QED BY <1>1, <1>2, PTL DEF Spec

-----------------------------------------------------------------------------
(* A revoked family stays dead.                                            *)

\* What a rotation in flight carries: a row of a grant whose family is not dead.
MintingLiveGrant == srv.pc = "mint" => OfGrant(srv.row) /\ srv.row.family \notin dead

\* The inductive invariant.  Rows must belong to grants, so that the sweep by principal
\* reaches every row of a family it counts dead and a new family is never a dead one;
\* and the only step that inserts into an existing family must carry a live one.
FamilyInv ==
    /\ RowsOfGrants(refresh) /\ RowsOfGrants(access)
    /\ MintingLiveGrant
    /\ dead \subseteq DOMAIN grants
    /\ RevokedFamilyStaysDead

\* A step that touches neither token table nor the families, and does not start a mint.
LEMMA QuietStep ==
    ASSUME FamilyInv, UNCHANGED <<refresh, access, grants, dead>>,
           srv' = srv \/ srv'.pc # "mint"
    PROVE  FamilyInv'
    BY DEF FamilyInv, RowsOfGrants, OfGrant, MintingLiveGrant, RevokedFamilyStaysDead

\* _revoke_family, wherever it is called from, with a family that exists.
LEMMA RevokeFamilyStep ==
    ASSUME TypeOK, FamilyInv, NEW f \in DOMAIN grants, RevokeFamily(f),
           srv = Idle, srv' = srv, grants' = grants
    PROVE  FamilyInv'
    <1>1. \A t \in DOMAIN refresh' :
             /\ t \in DOMAIN refresh
             /\ refresh'[t].family = refresh[t].family
             /\ refresh'[t].client = refresh[t].client
             /\ refresh'[t].principal = refresh[t].principal
             /\ refresh'[t].scopes = refresh[t].scopes
             /\ refresh[t].revoked \/ refresh[t].family = f => refresh'[t].revoked
        BY DEF RevokeFamily, RevokeFamilyIn, TypeOK, TokensOK, RefreshRow
    <1>2. \A t \in DOMAIN access' :
             /\ t \in DOMAIN access
             /\ access'[t].family = access[t].family
             /\ access'[t].client = access[t].client
             /\ access'[t].principal = access[t].principal
             /\ access'[t].scopes = access[t].scopes
             /\ access[t].revoked \/ access[t].family = f => access'[t].revoked
        BY DEF RevokeFamily, RevokeFamilyIn, TypeOK, TokensOK, AccessRow
    <1>3. dead' = dead \cup {f} /\ srv'.pc # "mint"
        BY DEF RevokeFamily, Idle
    <1> QED
        BY <1>1, <1>2, <1>3
        DEF FamilyInv, RowsOfGrants, OfGrant, MintingLiveGrant, RevokedFamilyStaysDead

\* A mint of a row of a live grant, on top of a refresh table whose rows differ from the
\* stored ones in rotated_at only.
LEMMA MintStep ==
    ASSUME TypeOK, FamilyInv, NEW r, DOMAIN r = DOMAIN refresh,
           \A x \in DOMAIN r : /\ r[x].family = refresh[x].family
                               /\ r[x].client = refresh[x].client
                               /\ r[x].principal = refresh[x].principal
                               /\ r[x].scopes = refresh[x].scopes
                               /\ r[x].revoked = refresh[x].revoked,
           NEW t, NEW f, NEW prev, NEW c, NEW p, NEW s, Mint(r, t, f, prev, c, p, s),
           dead' = dead, DOMAIN grants \subseteq DOMAIN grants',
           \A g \in DOMAIN grants : grants'[g] = grants[g],
           f \in DOMAIN grants' \ dead, c = grants'[f].client,
           p = grants'[f].principal, s \subseteq grants'[f].scopes
    PROVE  FamilyInv'
    <1>1. DOMAIN refresh' = DOMAIN refresh \cup {t} /\ DOMAIN access' = DOMAIN access \cup {t}
        BY DEF Mint, Insert
    <1>2. /\ refresh'[t].family = f /\ refresh'[t].client = c
          /\ refresh'[t].principal = p /\ refresh'[t].scopes = s
          /\ access'[t].family = f /\ access'[t].client = c
          /\ access'[t].principal = p /\ access'[t].scopes = s
        BY DEF Mint, Insert
    <1>3. \A x \in DOMAIN refresh : x # t => refresh'[x] = r[x]
        BY DEF Mint, Insert
    <1>4. \A x \in DOMAIN access : x # t => access'[x] = access[x]
        BY DEF Mint, Insert
    <1>5. RowsOfGrants(refresh)'
        BY <1>1, <1>2, <1>3 DEF FamilyInv, RowsOfGrants, OfGrant
    <1>6. RowsOfGrants(access)'
        BY <1>1, <1>2, <1>4 DEF FamilyInv, RowsOfGrants, OfGrant
    <1>7. RevokedFamilyStaysDead'
        BY <1>1, <1>2, <1>3, <1>4 DEF FamilyInv, RevokedFamilyStaysDead
    <1>8. MintingLiveGrant'
        BY DEF Mint, MintingLiveGrant
    <1> QED
        BY <1>5, <1>6, <1>7, <1>8 DEF FamilyInv

\* FamilyInv is preserved by every step.
LEMMA FamilyInvStep == TypeOK /\ FamilyInv /\ [Next]_vars => FamilyInv'
    <1> SUFFICES ASSUME TypeOK, FamilyInv, [Next]_vars PROVE FamilyInv'
        OBVIOUS
    <1> USE DEF people, tables, history
    <1>1. ASSUME NEW p \in Principals, SignIn(p) PROVE FamilyInv'
        BY <1>1, QuietStep DEF SignIn, Idle
    <1>2. ASSUME NEW p \in Principals, AllowlistAdd(p) PROVE FamilyInv'
        BY <1>2, QuietStep DEF AllowlistAdd, Idle
    <1>3. ASSUME NEW p \in Principals, RemoveEntry(p) PROVE FamilyInv'
        BY <1>3, QuietStep DEF RemoveEntry, Idle
    <1>4. ASSUME NEW c \in Clients, RegisterClient(c) PROVE FamilyInv'
        BY <1>4, QuietStep DEF RegisterClient, Idle
    <1>5. ASSUME NEW c \in Clients, NEW n \in Nonces, NEW s \in SUBSET Scopes, Authorize(c, n, s)
          PROVE FamilyInv'
        BY <1>5, QuietStep DEF Authorize, Idle
    <1>6. ASSUME NEW p \in Principals, NEW n \in Nonces, ConsentGet(p, n) PROVE FamilyInv'
        BY <1>6, QuietStep DEF ConsentGet, Idle
    <1>7. ASSUME NEW p \in Principals, NEW n \in Nonces, ConsentApprove(p, n)
          PROVE FamilyInv'
        BY <1>7, QuietStep DEF ConsentApprove, Idle
    <1>7a. ASSUME RecordApproval PROVE FamilyInv'
        BY <1>7a, QuietStep DEF RecordApproval
    <1>8. ASSUME NEW p \in Principals, NEW n \in Nonces, ConsentDeny(p, n)
          PROVE FamilyInv'
        BY <1>8, QuietStep DEF ConsentDeny, Idle
    <1>9. ASSUME IssueCheck PROVE FamilyInv'
        BY <1>9, QuietStep DEF IssueCheck, Idle
    <1>10. ASSUME ConsumePending PROVE FamilyInv'
        BY <1>10, QuietStep DEF ConsumePending, Idle
    <1>11. ASSUME NEW k \in Codes, CreateCode(k) PROVE FamilyInv'
        BY <1>11, QuietStep DEF CreateCode, Idle
    <1>12. ASSUME NEW c \in Clients, NEW k \in Codes, RedeemCode(c, k) PROVE FamilyInv'
        BY <1>12, QuietStep DEF RedeemCode, Idle
    <1>13. ASSUME NEW c \in Clients, NEW t \in Tokens, NEW s \in SUBSET Scopes, PresentRefresh(c, t, s)
          PROVE FamilyInv'
        BY <1>13, QuietStep DEF PresentRefresh, Idle
    <1>14. ASSUME StampClient PROVE FamilyInv'
        BY <1>14, QuietStep DEF StampClient, Idle
    <1>15. ASSUME LookupSub PROVE FamilyInv'
        BY <1>15, QuietStep DEF LookupSub, Idle
    <1>16. ASSUME DeletePin PROVE FamilyInv'
        BY <1>16, QuietStep DEF DeletePin, Idle
    <1>17. ASSUME DeleteApprovals PROVE FamilyInv'
        BY <1>17, QuietStep DEF DeleteApprovals, Idle
    <1>18. ASSUME GcClients PROVE FamilyInv'
        BY <1>18, QuietStep DEF GcClients, Idle
    <1>19. ASSUME Tick PROVE FamilyInv'
        BY <1>19, QuietStep DEF Tick, Idle
    <1>20. ASSUME Crash PROVE FamilyInv'
        BY <1>20, QuietStep DEF Crash, Idle
    <1>21. ASSUME NEW f \in Families, NEW t \in Tokens, IssueTokens(f, t) PROVE FamilyInv'
        <2> DEFINE row == codes[srv.code]
        <2>1. Mint(refresh, t, f, NoToken, row.client, row.principal, row.scopes)
            BY <1>21 DEF IssueTokens
        <2>2. /\ DOMAIN grants' = DOMAIN grants \cup {f} /\ dead' = dead
              /\ \A g \in DOMAIN grants : grants'[g] = grants[g]
              /\ grants'[f].client = row.client /\ grants'[f].principal = row.principal
              /\ grants'[f].scopes = row.scopes /\ f \notin DOMAIN grants
            BY <1>21 DEF IssueTokens, Insert
        <2> HIDE DEF row
        <2>3. f \in DOMAIN grants' \ dead
            BY <2>2 DEF FamilyInv
        <2> QED BY <2>1, <2>2, <2>3, MintStep
    <1>22. ASSUME NEW t \in Tokens, RotateMint(t) PROVE FamilyInv'
        <2> DEFINE marked == IF srv.state = "active" /\ srv.token \in DOMAIN refresh
                             THEN [refresh EXCEPT ![srv.token].rotated = now] ELSE refresh
        <2>1. Mint(marked, t, srv.row.family, srv.token, srv.row.client, srv.row.principal,
                   srv.want \cap srv.row.scopes)
            BY <1>22 DEF RotateMint
        <2>2. /\ DOMAIN marked = DOMAIN refresh
              /\ \A x \in DOMAIN marked : /\ marked[x].family = refresh[x].family
                                         /\ marked[x].client = refresh[x].client
                                         /\ marked[x].principal = refresh[x].principal
                                         /\ marked[x].scopes = refresh[x].scopes
                                         /\ marked[x].revoked = refresh[x].revoked
            BY DEF TypeOK, TokensOK, RefreshRow
        <2> HIDE DEF marked
        <2>3. OfGrant(srv.row) /\ srv.row.family \notin dead
            BY <1>22 DEF RotateMint, FamilyInv, MintingLiveGrant
        <2>4. grants' = grants /\ dead' = dead
            BY <1>22 DEF RotateMint
        <2>5. /\ srv.row.family \in DOMAIN grants' \ dead
              /\ srv.row.client = grants'[srv.row.family].client
              /\ srv.row.principal = grants'[srv.row.family].principal
              /\ srv.want \cap srv.row.scopes \subseteq grants'[srv.row.family].scopes
            BY <2>3, <2>4 DEF OfGrant
        <2>6. /\ DOMAIN grants \subseteq DOMAIN grants'
              /\ \A g \in DOMAIN grants : grants'[g] = grants[g]
            BY <2>4
        <2> QED BY <2>1, <2>2, <2>4, <2>5, <2>6, MintStep
    <1>23. ASSUME RotateRead PROVE FamilyInv'
        <2>1. UNCHANGED <<refresh, access, grants, dead>>
            BY <1>23 DEF RotateRead
        <2>2. MintingLiveGrant'
            <3>1. CASE srv'.pc # "mint"
                BY <3>1 DEF MintingLiveGrant
            <3>2. CASE srv'.pc = "mint"
                <4>1. srv.token \in DOMAIN refresh /\ ~refresh[srv.token].revoked
                    BY <1>23, <3>2 DEF RotateRead, RefreshState, Idle
                <4>2. srv'.row = refresh[srv.token]
                    BY <1>23, <3>2 DEF RotateRead, Idle
                <4>3. OfGrant(refresh[srv.token]) /\ refresh[srv.token].family \notin dead
                    BY <4>1 DEF FamilyInv, RowsOfGrants, RevokedFamilyStaysDead
                <4> QED
                    BY <2>1, <4>2, <4>3 DEF MintingLiveGrant, OfGrant
            <3> QED BY <3>1, <3>2
        <2> QED BY <2>1, <2>2 DEF FamilyInv, RowsOfGrants, OfGrant, RevokedFamilyStaysDead
    <1>24. ASSUME NEW t \in Tokens, PresentReused(t) PROVE FamilyInv'
        <2>1. t \in DOMAIN refresh
            BY <1>24 DEF PresentReused, RefreshState
        <2>2. refresh[t].family \in DOMAIN grants
            BY <2>1 DEF FamilyInv, RowsOfGrants, OfGrant
        <2> QED BY <1>24, <2>2, RevokeFamilyStep DEF PresentReused
    <1>25. ASSUME NEW c \in Clients, NEW t \in Tokens, Revoke(c, t) PROVE FamilyInv'
        <2>1. PICK f \in DOMAIN grants : RevokeFamily(f)
            BY <1>25 DEF Revoke, RefreshState, FamilyInv, RowsOfGrants, OfGrant
        <2> QED BY <1>25, <2>1, RevokeFamilyStep DEF Revoke
    <1>26. ASSUME RevokeFamilies PROVE FamilyInv'
        <2> DEFINE p == cli.principal
                   swept == {f \in DOMAIN grants : grants[f].principal = p}
        <2>1. \A t \in DOMAIN refresh' :
                 /\ t \in DOMAIN refresh
                 /\ refresh'[t].family = refresh[t].family
                 /\ refresh'[t].client = refresh[t].client
                 /\ refresh'[t].principal = refresh[t].principal
                 /\ refresh'[t].scopes = refresh[t].scopes
                 /\ refresh[t].revoked \/ refresh[t].principal = p => refresh'[t].revoked
            BY <1>26 DEF RevokeFamilies, RevokePrincipalIn, TypeOK, TokensOK, RefreshRow
        <2>2. \A t \in DOMAIN access' :
                 /\ t \in DOMAIN access
                 /\ access'[t].family = access[t].family
                 /\ access'[t].client = access[t].client
                 /\ access'[t].principal = access[t].principal
                 /\ access'[t].scopes = access[t].scopes
                 /\ access[t].revoked \/ access[t].principal = p => access'[t].revoked
            BY <1>26 DEF RevokeFamilies, RevokePrincipalIn, TypeOK, TokensOK, AccessRow
        <2>3. /\ dead' \subseteq dead \cup swept /\ srv' = srv /\ grants' = grants
              /\ srv.pc = "mint" => srv.row.family \notin dead' \ dead
            BY <1>26 DEF RevokeFamilies
        <2>4. RowsOfGrants(refresh)'
            BY <2>1, <2>3 DEF FamilyInv, RowsOfGrants, OfGrant
        <2>5. RowsOfGrants(access)'
            BY <2>2, <2>3 DEF FamilyInv, RowsOfGrants, OfGrant
        <2>6. MintingLiveGrant'
            BY <2>3 DEF FamilyInv, MintingLiveGrant, OfGrant
        <2>7. RevokedFamilyStaysDead'
            BY <2>1, <2>2, <2>3 DEF FamilyInv, RowsOfGrants, OfGrant,
                RevokedFamilyStaysDead
        <2> QED BY <2>3, <2>4, <2>5, <2>6, <2>7 DEF FamilyInv
    <1>27. ASSUME GcTokens PROVE FamilyInv'
        BY <1>27 DEF GcTokens, Keep, FamilyInv, RowsOfGrants, OfGrant, MintingLiveGrant,
                    RevokedFamilyStaysDead
    <1>28. CASE UNCHANGED vars
        BY <1>28, QuietStep DEF vars
    <1> QED
        BY <1>1, <1>2, <1>3, <1>4, <1>5, <1>6, <1>7, <1>7a, <1>8, <1>9, <1>10,
           <1>11, <1>12, <1>13, <1>14, <1>15, <1>16, <1>17, <1>18, <1>19, <1>20,
           <1>21, <1>22, <1>23, <1>24, <1>25, <1>26, <1>27, <1>28 DEF Next

\* Whatever rotations, retries, sweeps and crashes do, a revoked family has no usable row.
THEOREM RevokedFamiliesStayDead == Spec => []RevokedFamilyStaysDead
<1>1. Init => FamilyInv
    BY DEF Init, FamilyInv, RowsOfGrants, MintingLiveGrant, RevokedFamilyStaysDead,
        Empty, Idle
<1>2. TypeOK /\ FamilyInv /\ [Next]_vars => FamilyInv'
    BY FamilyInvStep
<1>3. FamilyInv => RevokedFamilyStaysDead
    BY DEF FamilyInv
<1> QED BY <1>1, <1>2, <1>3, TypeCorrect, PTL DEF Spec


-----------------------------------------------------------------------------
(* One consent, one grant.                                                 *)

\* A code comes from a consumed nonce, a grant from a consumed code.
FromConsumed ==
    /\ \A k \in DOMAIN codes :
          codes[k].nonce \in DOMAIN pending /\ pending[codes[k].nonce].consumed
    /\ \A f \in DOMAIN grants :
          grants[f].code \in DOMAIN codes /\ codes[grants[f].code].consumed

\* A handler between its two transactions holds what it consumed, not used yet.
HeldUnused ==
    /\ srv.pc = "code" =>
          /\ pending[srv.nonce].consumed
          /\ \A k \in DOMAIN codes : codes[k].nonce # srv.nonce
    /\ srv.pc = "tokens" =>
          /\ codes[srv.code].consumed
          /\ \A f \in DOMAIN grants : grants[f].code # srv.code

\* The inductive invariant.  OneGrantPerConsent alone says nothing of a handler that is
\* about to insert, nor of the mark that keeps a second handler from getting there.
OneGrantInv == FromConsumed /\ HeldUnused /\ OneGrantPerConsent

\* A step that adds no code and no grant and clears no single-use mark.
LEMMA OneGrantQuiet ==
    ASSUME TypeOK, OneGrantInv, grants' = grants,
           \A n \in DOMAIN pending :
              n \in DOMAIN pending' /\ (pending[n].consumed => pending'[n].consumed),
           DOMAIN codes' = DOMAIN codes,
           \A k \in DOMAIN codes :
              /\ codes'[k].nonce = codes[k].nonce
              /\ codes[k].consumed => codes'[k].consumed,
           srv' = srv \/ srv'.pc \notin {"code", "tokens"}
    PROVE  OneGrantInv'
    <1>1. FromConsumed'
        BY DEF OneGrantInv, FromConsumed
    <1>2. HeldUnused'
        BY DEF OneGrantInv, HeldUnused, TypeOK, InFlightOK
    <1>3. OneGrantPerConsent'
        BY DEF OneGrantInv, OneGrantPerConsent
    <1> QED BY <1>1, <1>2, <1>3 DEF OneGrantInv

\* OneGrantInv is preserved by every step.
LEMMA OneGrantStep == TypeOK /\ OneGrantInv /\ [Next]_vars => OneGrantInv'
    <1> SUFFICES ASSUME TypeOK, OneGrantInv, [Next]_vars PROVE OneGrantInv'
        OBVIOUS
    <1> USE DEF people, tables, history
    <1>1. ASSUME NEW p \in Principals, SignIn(p) PROVE OneGrantInv'
        BY <1>1, OneGrantQuiet DEF SignIn, Idle
    <1>2. ASSUME NEW p \in Principals, AllowlistAdd(p) PROVE OneGrantInv'
        BY <1>2, OneGrantQuiet DEF AllowlistAdd, Idle
    <1>3. ASSUME NEW p \in Principals, RemoveEntry(p) PROVE OneGrantInv'
        BY <1>3, OneGrantQuiet DEF RemoveEntry, Idle
    <1>4. ASSUME NEW c \in Clients, RegisterClient(c) PROVE OneGrantInv'
        BY <1>4, OneGrantQuiet DEF RegisterClient, Idle
    <1>5. ASSUME NEW c \in Clients, NEW n \in Nonces, NEW s \in SUBSET Scopes,
                 Authorize(c, n, s)
          PROVE  OneGrantInv'
        <2>1. \A m \in DOMAIN pending : m \in DOMAIN pending' /\ pending'[m] = pending[m]
            BY <1>5 DEF Authorize, Insert
        <2> QED BY <1>5, <2>1, OneGrantQuiet DEF Authorize
    <1>6. ASSUME NEW p \in Principals, NEW n \in Nonces, ConsentGet(p, n)
          PROVE  OneGrantInv'
        BY <1>6, OneGrantQuiet DEF ConsentGet, Idle
    <1>7. ASSUME NEW p \in Principals, NEW n \in Nonces, ConsentApprove(p, n)
          PROVE  OneGrantInv'
        BY <1>7, OneGrantQuiet DEF ConsentApprove, Idle
    <1>7a. ASSUME RecordApproval PROVE OneGrantInv'
        BY <1>7a, OneGrantQuiet DEF RecordApproval
    <1>8. ASSUME NEW p \in Principals, NEW n \in Nonces, ConsentDeny(p, n)
          PROVE  OneGrantInv'
        <2>1. \A m \in DOMAIN pending :
                 m \in DOMAIN pending' /\ (pending[m].consumed => pending'[m].consumed)
            BY <1>8 DEF ConsentDeny, TypeOK, PendingOK, PendingRow
        <2> QED BY <1>8, <2>1, OneGrantQuiet DEF ConsentDeny
    <1>9. ASSUME IssueCheck PROVE OneGrantInv'
        BY <1>9, OneGrantQuiet DEF IssueCheck, TypeOK, ProcessesOK, ServerState, Idle
    <1>10. ASSUME ConsumePending PROVE OneGrantInv'
        <2> PICK n : n = srv.nonce
            OBVIOUS
        <2>1. /\ srv.pc = "consume" /\ n \in DOMAIN pending /\ ~pending[n].consumed
              /\ DOMAIN pending' = DOMAIN pending /\ pending'[n].consumed
              /\ \A m \in DOMAIN pending : m # n => pending'[m] = pending[m]
            BY <1>10 DEF ConsumePending, TypeOK, InFlightOK, PendingOK, PendingRow
        <2>2. srv'.pc = "code" /\ srv'.nonce = n
            BY <1>10 DEF ConsumePending, TypeOK, ProcessesOK, ServerState, Idle
        <2>3. UNCHANGED <<codes, grants>>
            BY <1>10 DEF ConsumePending
        <2>4. FromConsumed'
            BY <2>1, <2>3 DEF OneGrantInv, FromConsumed
        <2>5. HeldUnused'
            BY <2>1, <2>2, <2>3 DEF OneGrantInv, FromConsumed, HeldUnused
        <2>6. OneGrantPerConsent'
            BY <2>3 DEF OneGrantInv, OneGrantPerConsent
        <2> QED BY <2>4, <2>5, <2>6 DEF OneGrantInv
    <1>11. ASSUME NEW k \in Codes, CreateCode(k) PROVE OneGrantInv'
        <2> PICK n : n = srv.nonce
            OBVIOUS
        <2>1. /\ srv.pc = "code" /\ k \notin DOMAIN codes
              /\ DOMAIN codes' = DOMAIN codes \cup {k} /\ codes'[k].nonce = n
              /\ \A j \in DOMAIN codes : codes'[j] = codes[j]
              /\ srv' = Idle /\ UNCHANGED <<pending, grants>>
            BY <1>11 DEF CreateCode, Insert
        <2>2. /\ n \in DOMAIN pending /\ pending[n].consumed
              /\ \A j \in DOMAIN codes : codes[j].nonce # n
            BY <2>1 DEF OneGrantInv, HeldUnused, TypeOK, InFlightOK
        <2>3. FromConsumed'
            BY <2>1, <2>2 DEF OneGrantInv, FromConsumed
        <2>4. HeldUnused'
            BY <2>1 DEF HeldUnused, Idle
        <2>5. OneGrantPerConsent'
            BY <2>1, <2>2 DEF OneGrantInv, OneGrantPerConsent
        <2> QED BY <2>3, <2>4, <2>5 DEF OneGrantInv
    <1>12. ASSUME NEW c \in Clients, NEW k \in Codes, RedeemCode(c, k)
          PROVE  OneGrantInv'
        <2>1. /\ k \in DOMAIN codes /\ ~codes[k].consumed
              /\ DOMAIN codes' = DOMAIN codes /\ codes'[k].consumed
              /\ \A j \in DOMAIN codes : codes'[j].nonce = codes[j].nonce
              /\ \A j \in DOMAIN codes : j # k => codes'[j] = codes[j]
              /\ srv' = [pc |-> "tokens", code |-> k] /\ UNCHANGED <<pending, grants>>
            BY <1>12 DEF RedeemCode, CodeUsable, TypeOK, CodesOK, CodeRow
        <2>2. FromConsumed'
            BY <2>1 DEF OneGrantInv, FromConsumed
        <2>3. HeldUnused'
            BY <2>1 DEF OneGrantInv, FromConsumed, HeldUnused
        <2>4. OneGrantPerConsent'
            BY <2>1 DEF OneGrantInv, OneGrantPerConsent
        <2> QED BY <2>2, <2>3, <2>4 DEF OneGrantInv
    <1>13. ASSUME NEW f \in Families, NEW t \in Tokens, IssueTokens(f, t)
          PROVE  OneGrantInv'
        <2> PICK k : k = srv.code
            OBVIOUS
        <2>1. /\ srv.pc = "tokens" /\ f \notin DOMAIN grants
              /\ DOMAIN grants' = DOMAIN grants \cup {f} /\ grants'[f].code = k
              /\ \A g \in DOMAIN grants : grants'[g] = grants[g]
              /\ srv'.pc = "stamp" /\ UNCHANGED <<pending, codes>>
            BY <1>13 DEF IssueTokens, Mint, Insert
        <2>2. /\ k \in DOMAIN codes /\ codes[k].consumed
              /\ \A g \in DOMAIN grants : grants[g].code # k
            BY <2>1 DEF OneGrantInv, HeldUnused, TypeOK, InFlightOK
        <2>3. FromConsumed'
            BY <2>1, <2>2 DEF OneGrantInv, FromConsumed
        <2>4. HeldUnused'
            BY <2>1 DEF HeldUnused
        <2>5. OneGrantPerConsent'
            BY <2>1, <2>2 DEF OneGrantInv, OneGrantPerConsent
        <2> QED BY <2>3, <2>4, <2>5 DEF OneGrantInv
    <1>14. ASSUME NEW c \in Clients, NEW t \in Tokens, NEW s \in SUBSET Scopes,
                 PresentRefresh(c, t, s)
          PROVE  OneGrantInv'
        BY <1>14, OneGrantQuiet DEF PresentRefresh, Idle
    <1>15. ASSUME NEW t \in Tokens, PresentReused(t) PROVE OneGrantInv'
        BY <1>15, OneGrantQuiet DEF PresentReused, Idle
    <1>16. ASSUME RotateRead PROVE OneGrantInv'
        BY <1>16, OneGrantQuiet DEF RotateRead, Idle
    <1>17. ASSUME NEW t \in Tokens, RotateMint(t) PROVE OneGrantInv'
        BY <1>17, OneGrantQuiet DEF RotateMint, Mint
    <1>18. ASSUME StampClient PROVE OneGrantInv'
        BY <1>18, OneGrantQuiet DEF StampClient, Idle
    <1>19. ASSUME NEW c \in Clients, NEW t \in Tokens, Revoke(c, t) PROVE OneGrantInv'
        BY <1>19, OneGrantQuiet DEF Revoke, Idle
    <1>20. ASSUME LookupSub PROVE OneGrantInv'
        BY <1>20, OneGrantQuiet DEF LookupSub, Idle
    <1>21. ASSUME DeletePin PROVE OneGrantInv'
        BY <1>21, OneGrantQuiet DEF DeletePin, Idle
    <1>22. ASSUME RevokeFamilies PROVE OneGrantInv'
        BY <1>22, OneGrantQuiet DEF RevokeFamilies, Idle
    <1>23. ASSUME DeleteApprovals PROVE OneGrantInv'
        BY <1>23, OneGrantQuiet DEF DeleteApprovals, Idle
    <1>24. ASSUME GcTokens PROVE OneGrantInv'
        BY <1>24, OneGrantQuiet DEF GcTokens, Idle
    <1>25. ASSUME GcClients PROVE OneGrantInv'
        BY <1>25, OneGrantQuiet DEF GcClients, Idle
    <1>26. ASSUME Tick PROVE OneGrantInv'
        BY <1>26, OneGrantQuiet DEF Tick, Idle
    <1>27. ASSUME Crash PROVE OneGrantInv'
        BY <1>27, OneGrantQuiet DEF Crash, Idle
    <1>28. CASE UNCHANGED vars
        BY <1>28, OneGrantQuiet DEF vars
    <1> QED
        BY <1>1, <1>2, <1>3, <1>4, <1>5, <1>6, <1>7, <1>7a, <1>8, <1>9, <1>10,
           <1>11, <1>12, <1>13, <1>14, <1>15, <1>16, <1>17, <1>18, <1>19, <1>20,
           <1>21, <1>22, <1>23, <1>24, <1>25, <1>26, <1>27, <1>28 DEF Next

\* However requests, codes and crashes interleave, a consent opens at most one family.
THEOREM ConsentOpensOneGrant == Spec => []OneGrantPerConsent
<1>1. Init => OneGrantInv
    BY DEF Init, OneGrantInv, FromConsumed, HeldUnused, OneGrantPerConsent, Empty, Idle
<1>2. TypeOK /\ OneGrantInv /\ [Next]_vars => OneGrantInv'
    BY OneGrantStep
<1>3. OneGrantInv => OneGrantPerConsent
    BY DEF OneGrantInv
<1> QED BY <1>1, <1>2, <1>3, TypeCorrect, PTL DEF Spec

-----------------------------------------------------------------------------
(* No token reaches beyond what its friend approved.                       *)

\* What the request parked under nonce n asks for, by friend p, was on a screen.
RequestOnScreen(p, n) ==
    OnScreen(p, pending[n].client, EffectiveScopes(pending[n].scopes))

\* A handler is on its way from a consent to a code.
Requesting == srv.pc \in {"approve", "check", "consume", "code"}

\* The inductive invariant: what was approved on a screen bounds every place scopes pass
\* through on their way to a grant: remembered approvals, the handler's request, codes.
ConsentInv ==
    /\ \A p \in Principals, c \in Clients : OnScreen(p, c, approvals[p][c])
    /\ Requesting => RequestOnScreen(srv.principal, srv.nonce)
    /\ srv.pc = "approve" => OnScreen(srv.principal, pending[srv.nonce].client, srv.scopes)
    /\ \A k \in DOMAIN codes : OnScreen(codes[k].principal, codes[k].client, codes[k].scopes)
    /\ \A f \in DOMAIN grants :
          OnScreen(grants[f].principal, grants[f].client, grants[f].scopes)

\* A step that adds no approval, code or grant, and puts no new request in the handler.
LEMMA ConsentQuiet ==
    ASSUME TypeOK, ConsentInv, grants' = grants, consented' = consented,
           \A n \in DOMAIN pending :
              /\ n \in DOMAIN pending'
              /\ pending'[n].client = pending[n].client
              /\ pending'[n].scopes = pending[n].scopes,
           \A p \in Principals, c \in Clients : approvals'[p][c] \subseteq approvals[p][c],
           DOMAIN codes' = DOMAIN codes,
           \A k \in DOMAIN codes :
              /\ codes'[k].principal = codes[k].principal
              /\ codes'[k].client = codes[k].client
              /\ codes'[k].scopes = codes[k].scopes,
           \/ ~Requesting'
           \/ /\ Requesting /\ srv'.pc # "approve"
              /\ srv'.principal = srv.principal /\ srv'.nonce = srv.nonce
           \/ srv' = srv
    PROVE  ConsentInv'
    <1>1. \A p \in Principals, c \in Clients : OnScreen(p, c, approvals[p][c])'
        BY DEF ConsentInv, OnScreen
    <1>2. (Requesting => RequestOnScreen(srv.principal, srv.nonce))'
        BY DEF ConsentInv, OnScreen, RequestOnScreen, Requesting, EffectiveScopes, TypeOK,
               InFlightOK
    <1>2a. (srv.pc = "approve" => OnScreen(srv.principal, pending[srv.nonce].client, srv.scopes))'
        BY DEF ConsentInv, OnScreen, Requesting, TypeOK, InFlightOK
    <1>3. \A k \in DOMAIN codes' :
             OnScreen(codes[k].principal, codes[k].client, codes[k].scopes)'
        BY DEF ConsentInv, OnScreen
    <1>4. \A f \in DOMAIN grants' :
             OnScreen(grants[f].principal, grants[f].client, grants[f].scopes)'
        BY DEF ConsentInv, OnScreen
    <1> QED BY <1>1, <1>2, <1>2a, <1>3, <1>4 DEF ConsentInv

\* ConsentInv is preserved by every step.
LEMMA ConsentStep == TypeOK /\ ConsentInv /\ [Next]_vars => ConsentInv'
    <1> SUFFICES ASSUME TypeOK, ConsentInv, [Next]_vars PROVE ConsentInv'
        OBVIOUS
    <1> USE DEF people, tables, history, Requesting
    <1>1. ASSUME NEW p \in Principals, SignIn(p) PROVE ConsentInv'
        BY <1>1, ConsentQuiet DEF SignIn, Idle
    <1>2. ASSUME NEW p \in Principals, AllowlistAdd(p) PROVE ConsentInv'
        BY <1>2, ConsentQuiet DEF AllowlistAdd, Idle
    <1>3. ASSUME NEW p \in Principals, RemoveEntry(p) PROVE ConsentInv'
        BY <1>3, ConsentQuiet DEF RemoveEntry, Idle
    <1>4. ASSUME NEW c \in Clients, RegisterClient(c) PROVE ConsentInv'
        BY <1>4, ConsentQuiet DEF RegisterClient, Idle
    <1>5. ASSUME NEW c \in Clients, NEW n \in Nonces, NEW s \in SUBSET Scopes,
                 Authorize(c, n, s)
          PROVE  ConsentInv'
        <2>1. \A m \in DOMAIN pending : m \in DOMAIN pending' /\ pending'[m] = pending[m]
            BY <1>5 DEF Authorize, Insert
        <2> QED BY <1>5, <2>1, ConsentQuiet DEF Authorize
    <1>6. ASSUME NEW p \in Principals, NEW n \in Nonces, ConsentGet(p, n)
          PROVE  ConsentInv'
        <2>1. n \in DOMAIN pending /\ pending[n].client \in Clients
            BY <1>6 DEF ConsentGet, PendingUsable, TypeOK, PendingOK, PendingRow
        <2>2. RequestOnScreen(p, n)
            BY <1>6, <2>1 DEF ConsentGet, HasApproval, ConsentInv, OnScreen,
                RequestOnScreen
        <2>3. /\ srv' = [pc |-> "check", principal |-> p, nonce |-> n]
              /\ UNCHANGED <<pending, approvals, codes, grants, consented>>
            BY <1>6 DEF ConsentGet
        <2> QED BY <2>2, <2>3 DEF ConsentInv, OnScreen, RequestOnScreen
    <1>7. ASSUME NEW p \in Principals, NEW n \in Nonces, ConsentApprove(p, n)
          PROVE  ConsentInv'
        <2> PICK c : c = pending[n].client
            OBVIOUS
        <2> PICK s : s = EffectiveScopes(pending[n].scopes)
            OBVIOUS
        <2>1. c \in Clients
            BY <1>7 DEF ConsentApprove, PendingUsable, TypeOK, PendingOK, PendingRow
        <2>2. /\ srv' = [pc |-> "approve", principal |-> p, nonce |-> n,
                         scopes |-> approvals[p][c] \cup s]
              /\ consented' = consented \cup ({p} \X {c} \X s)
              /\ UNCHANGED <<pending, approvals, codes, grants>>
            BY <1>7 DEF ConsentApprove
        <2>3. \A q \in Principals, d \in Clients : OnScreen(q, d, approvals[q][d])'
            BY <2>2 DEF ConsentInv, OnScreen
        <2>4. RequestOnScreen(p, n)'
            BY <2>2 DEF RequestOnScreen, OnScreen, EffectiveScopes
        <2>4a. OnScreen(p, pending[n].client, srv.scopes)'
            <3>1. {p} \X {c} \X approvals[p][c] \subseteq consented
                BY <2>1 DEF ConsentInv, OnScreen
            <3>2. {p} \X {c} \X srv'.scopes \subseteq consented'
                BY <2>2, <3>1
            <3> QED BY <2>2, <3>2 DEF OnScreen
        <2>5. \A k \in DOMAIN codes :
                 OnScreen(codes[k].principal, codes[k].client, codes[k].scopes)'
            BY <2>2 DEF ConsentInv, OnScreen
        <2>6. \A f \in DOMAIN grants :
                 OnScreen(grants[f].principal, grants[f].client, grants[f].scopes)'
            BY <2>2 DEF ConsentInv, OnScreen
        <2> QED BY <2>2, <2>3, <2>4, <2>4a, <2>5, <2>6 DEF ConsentInv
    <1>7a. ASSUME RecordApproval PROVE ConsentInv'
        <2> PICK p : p = srv.principal
            OBVIOUS
        <2> PICK n : n = srv.nonce
            OBVIOUS
        <2> PICK c : c = pending[n].client
            OBVIOUS
        <2>1. /\ approvals' = [approvals EXCEPT ![p][c] = srv.scopes]
              /\ srv' = [pc |-> "check", principal |-> p, nonce |-> n]
              /\ UNCHANGED <<pending, codes, grants, consented>>
            BY <1>7a DEF RecordApproval
        <2>2. RequestOnScreen(p, n) /\ OnScreen(p, c, srv.scopes)
            BY <1>7a DEF RecordApproval, ConsentInv, Requesting
        <2>3. \A q \in Principals, d \in Clients : OnScreen(q, d, approvals[q][d])'
            <3> SUFFICES ASSUME NEW q \in Principals, NEW d \in Clients
                         PROVE  {q} \X {d} \X approvals'[q][d] \subseteq consented
                BY <2>1 DEF OnScreen
            <3>1. CASE q = p /\ d = c
                <4>1. approvals'[q][d] = srv.scopes
                    BY <2>1, <3>1 DEF TypeOK, ApprovalsOK
                <4> QED BY <2>2, <3>1, <4>1 DEF OnScreen
            <3>2. CASE ~(q = p /\ d = c)
                <4>1. approvals'[q][d] = approvals[q][d]
                    BY <2>1, <3>2 DEF TypeOK, ApprovalsOK
                <4> QED BY <4>1 DEF ConsentInv, OnScreen
            <3> QED BY <3>1, <3>2
        <2> QED BY <2>1, <2>2, <2>3 DEF ConsentInv, RequestOnScreen, OnScreen
    <1>8. ASSUME NEW p \in Principals, NEW n \in Nonces, ConsentDeny(p, n)
          PROVE  ConsentInv'
        <2>1. \A m \in DOMAIN pending :
                 /\ m \in DOMAIN pending'
                 /\ pending'[m].client = pending[m].client
                 /\ pending'[m].scopes = pending[m].scopes
            BY <1>8 DEF ConsentDeny, TypeOK, PendingOK, PendingRow
        <2> QED BY <1>8, <2>1, ConsentQuiet DEF ConsentDeny
    <1>9. ASSUME IssueCheck PROVE ConsentInv'
        <2>1. /\ srv.pc = "check"
              /\ srv' = Idle \/ (srv'.principal = srv.principal /\ srv'.nonce = srv.nonce)
            BY <1>9 DEF IssueCheck, TypeOK, ProcessesOK, ServerState, Idle
        <2> QED BY <1>9, <2>1, ConsentQuiet DEF IssueCheck, Idle
    <1>10. ASSUME ConsumePending PROVE ConsentInv'
        <2>1. \A m \in DOMAIN pending :
                 /\ m \in DOMAIN pending'
                 /\ pending'[m].client = pending[m].client
                 /\ pending'[m].scopes = pending[m].scopes
            BY <1>10 DEF ConsumePending, TypeOK, PendingOK, PendingRow
        <2>2. /\ srv.pc = "consume" /\ srv'.pc = "code"
              /\ srv'.principal = srv.principal /\ srv'.nonce = srv.nonce
              /\ UNCHANGED <<approvals, codes, grants, consented>>
            BY <1>10 DEF ConsumePending, TypeOK, ProcessesOK, ServerState, Idle
        <2> QED BY <2>1, <2>2, ConsentQuiet
    <1>11. ASSUME NEW k \in Codes, CreateCode(k) PROVE ConsentInv'
        <2> PICK n : n = srv.nonce
            OBVIOUS
        <2>1. /\ DOMAIN codes' = DOMAIN codes \cup {k}
              /\ codes'[k].principal = srv.principal
              /\ codes'[k].client = pending[n].client
              /\ codes'[k].scopes = EffectiveScopes(pending[n].scopes)
              /\ \A j \in DOMAIN codes : j # k => codes'[j] = codes[j]
              /\ srv.pc = "code" /\ srv' = Idle
              /\ UNCHANGED <<pending, approvals, grants, consented>>
            BY <1>11 DEF CreateCode, Insert
        <2>2. RequestOnScreen(srv.principal, n)
            BY <2>1 DEF ConsentInv
        <2> QED BY <2>1, <2>2 DEF ConsentInv, OnScreen, RequestOnScreen, Idle
    <1>12. ASSUME NEW c \in Clients, NEW k \in Codes, RedeemCode(c, k)
          PROVE  ConsentInv'
        <2>1. /\ DOMAIN codes' = DOMAIN codes
              /\ \A j \in DOMAIN codes : /\ codes'[j].principal = codes[j].principal
                                        /\ codes'[j].client = codes[j].client
                                        /\ codes'[j].scopes = codes[j].scopes
            BY <1>12 DEF RedeemCode, CodeUsable, TypeOK, CodesOK, CodeRow
        <2> QED BY <1>12, <2>1, ConsentQuiet DEF RedeemCode
    <1>13. ASSUME NEW f \in Families, NEW t \in Tokens, IssueTokens(f, t)
          PROVE  ConsentInv'
        <2> PICK k : k = srv.code
            OBVIOUS
        <2>1. /\ k \in DOMAIN codes
              /\ DOMAIN grants' = DOMAIN grants \cup {f}
              /\ grants'[f].principal = codes[k].principal
              /\ grants'[f].client = codes[k].client
              /\ grants'[f].scopes = codes[k].scopes
              /\ \A g \in DOMAIN grants : g # f => grants'[g] = grants[g]
              /\ srv'.pc = "stamp" /\ UNCHANGED <<pending, approvals, codes, consented>>
            BY <1>13 DEF IssueTokens, Mint, Insert, TypeOK, InFlightOK
        <2> QED BY <2>1 DEF ConsentInv, OnScreen, RequestOnScreen
    <1>14. ASSUME NEW c \in Clients, NEW t \in Tokens, NEW s \in SUBSET Scopes,
                 PresentRefresh(c, t, s)
          PROVE  ConsentInv'
        BY <1>14, ConsentQuiet DEF PresentRefresh, Idle
    <1>15. ASSUME NEW t \in Tokens, PresentReused(t) PROVE ConsentInv'
        BY <1>15, ConsentQuiet DEF PresentReused, Idle
    <1>16. ASSUME RotateRead PROVE ConsentInv'
        BY <1>16, ConsentQuiet DEF RotateRead, Idle
    <1>17. ASSUME NEW t \in Tokens, RotateMint(t) PROVE ConsentInv'
        BY <1>17, ConsentQuiet DEF RotateMint, Mint
    <1>18. ASSUME StampClient PROVE ConsentInv'
        BY <1>18, ConsentQuiet DEF StampClient, Idle
    <1>19. ASSUME NEW c \in Clients, NEW t \in Tokens, Revoke(c, t) PROVE ConsentInv'
        BY <1>19, ConsentQuiet DEF Revoke, Idle
    <1>20. ASSUME LookupSub PROVE ConsentInv'
        BY <1>20, ConsentQuiet DEF LookupSub, Idle
    <1>21. ASSUME DeletePin PROVE ConsentInv'
        BY <1>21, ConsentQuiet DEF DeletePin, Idle
    <1>22. ASSUME RevokeFamilies PROVE ConsentInv'
        BY <1>22, ConsentQuiet DEF RevokeFamilies, Idle
    <1>23. ASSUME DeleteApprovals PROVE ConsentInv'
        <2>1. \A p \in Principals, c \in Clients : approvals'[p][c] \subseteq approvals[p][c]
            BY <1>23 DEF DeleteApprovals, TypeOK, ApprovalsOK, ProcessesOK, CliState, Idle
        <2> QED BY <1>23, <2>1, ConsentQuiet DEF DeleteApprovals
    <1>24. ASSUME GcTokens PROVE ConsentInv'
        BY <1>24, ConsentQuiet DEF GcTokens, Idle
    <1>25. ASSUME GcClients PROVE ConsentInv'
        BY <1>25, ConsentQuiet DEF GcClients, Idle
    <1>26. ASSUME Tick PROVE ConsentInv'
        BY <1>26, ConsentQuiet DEF Tick, Idle
    <1>27. ASSUME Crash PROVE ConsentInv'
        BY <1>27, ConsentQuiet DEF Crash, Idle
    <1>28. CASE UNCHANGED vars
        BY <1>28, ConsentQuiet DEF vars
    <1> QED
        BY <1>1, <1>2, <1>3, <1>4, <1>5, <1>6, <1>7, <1>7a, <1>8, <1>9, <1>10,
           <1>11, <1>12, <1>13, <1>14, <1>15, <1>16, <1>17, <1>18, <1>19, <1>20,
           <1>21, <1>22, <1>23, <1>24, <1>25, <1>26, <1>27, <1>28 DEF Next

\* No remembered approval and no chain of rotations takes a token beyond what its friend
\* approved for its client; that rows stay within their grant is FamilyInv's part.
THEOREM NoTokenEscalates == Spec => []TokensWithinConsent
<1>1. Init => FamilyInv /\ ConsentInv
    BY DEF Init, FamilyInv, RowsOfGrants, MintingLiveGrant, RevokedFamilyStaysDead, Empty,
           Idle, ConsentInv, Requesting, OnScreen
<1>2. TypeOK /\ FamilyInv /\ ConsentInv /\ [Next]_vars => FamilyInv' /\ ConsentInv'
    BY FamilyInvStep, ConsentStep
<1>3. FamilyInv /\ ConsentInv => TokensWithinConsent
    BY DEF FamilyInv, ConsentInv, TokensWithinConsent
<1> QED BY <1>1, <1>2, <1>3, TypeCorrect, PTL DEF Spec

-----------------------------------------------------------------------------
(* The retry window of a rotated token.                                    *)

\* Revoking a family or a principal changes the revoked mark of refresh rows only.
LEMMA SweptRows ==
    ASSUME TypeOK, NEW x,
           refresh' = RevokeFamilyIn(refresh, x) \/ refresh' = RevokePrincipalIn(refresh, x)
    PROVE  /\ DOMAIN refresh' = DOMAIN refresh
           /\ \A t \in DOMAIN refresh :
                 /\ refresh'[t].client = refresh[t].client
                 /\ refresh'[t].prev = refresh[t].prev
                 /\ refresh'[t].created = refresh[t].created
                 /\ refresh'[t].expires = refresh[t].expires
                 /\ refresh'[t].rotated = refresh[t].rotated
    BY DEF RevokeFamilyIn, RevokePrincipalIn, TypeOK, TokensOK, RefreshRow

\* A successor's predecessor was issued and, while its row is there, was marked rotated no
\* later than the successor was minted; no stamp lies in the future.
SuccessorsStamped ==
    \A t \in DOMAIN refresh :
        /\ refresh[t].created <= now /\ refresh[t].rotated <= now
        /\ refresh[t].prev # NoToken =>
              /\ refresh[t].prev \in issued
              /\ refresh[t].prev \in DOMAIN refresh =>
                    /\ refresh[refresh[t].prev].rotated # Never
                    /\ refresh[refresh[t].prev].rotated <= refresh[t].created

\* A rotation in flight presents a token without successors, or one whose successors
\* are all within the grace of now; nobody else marks the token meanwhile.
MintInWindow ==
    srv.pc = "mint" =>
        /\ srv.token \in issued
        /\ \A t \in DOMAIN refresh :
              refresh[t].prev = srv.token =>
                  srv.state = "grace" /\ now - refresh[t].created <= GRACE
        /\ srv.token \in DOMAIN refresh =>
              (srv.state = "grace" <=> refresh[srv.token].rotated # Never)

\* The inductive invariant.  The window is kept because the first successor's time is a
\* mark on the predecessor, and because a swept predecessor can have no successor any more.
GraceInv ==
    /\ DOMAIN refresh \subseteq issued /\ DOMAIN access \subseteq issued
    /\ SuccessorsStamped /\ MintInWindow /\ GraceWindowIsFixed

\* A step that mints nothing, stamps nothing and starts no mint.
LEMMA GraceQuiet ==
    ASSUME TypeOK, GraceInv, now' \in Nat, now <= now', issued \subseteq issued',
           DOMAIN access' \subseteq DOMAIN access,
           \A t \in DOMAIN refresh' :
              /\ t \in DOMAIN refresh
              /\ refresh'[t].prev = refresh[t].prev
              /\ refresh'[t].created = refresh[t].created
              /\ refresh'[t].rotated = refresh[t].rotated,
           (srv' = srv /\ now' = now) \/ srv'.pc # "mint"
    PROVE  GraceInv'
    <1>1. \A t \in DOMAIN refresh :
             refresh[t].created \in Nat /\ refresh[t].rotated \in Int /\ now \in Nat
        BY DEF TypeOK, PeopleOK, TokensOK, RefreshRow, Never
    <1>2. SuccessorsStamped'
        BY <1>1 DEF GraceInv, SuccessorsStamped
    <1>3. MintInWindow'
        BY <1>1 DEF GraceInv, MintInWindow
    <1>4. GraceWindowIsFixed'
        BY DEF GraceInv, GraceWindowIsFixed
    <1> QED BY <1>2, <1>3, <1>4 DEF GraceInv

\* GraceInv is preserved by every step.
LEMMA GraceStep == TypeOK /\ GraceInv /\ [Next]_vars => GraceInv'
    <1> SUFFICES ASSUME TypeOK, GraceInv, [Next]_vars PROVE GraceInv'
        OBVIOUS
    <1> USE DEF people, tables, history
    <1>1. ASSUME NEW p \in Principals, SignIn(p) PROVE GraceInv'
        BY <1>1, GraceQuiet DEF SignIn, Idle, TypeOK, PeopleOK
    <1>2. ASSUME NEW p \in Principals, AllowlistAdd(p) PROVE GraceInv'
        BY <1>2, GraceQuiet DEF AllowlistAdd, Idle, TypeOK, PeopleOK
    <1>3. ASSUME NEW p \in Principals, RemoveEntry(p) PROVE GraceInv'
        BY <1>3, GraceQuiet DEF RemoveEntry, Idle, TypeOK, PeopleOK
    <1>4. ASSUME NEW c \in Clients, RegisterClient(c) PROVE GraceInv'
        BY <1>4, GraceQuiet DEF RegisterClient, Idle, TypeOK, PeopleOK
    <1>5. ASSUME NEW c \in Clients, NEW n \in Nonces, NEW s \in SUBSET Scopes,
                 Authorize(c, n, s)
          PROVE  GraceInv'
        BY <1>5, GraceQuiet DEF Authorize, Idle, TypeOK, PeopleOK
    <1>6. ASSUME NEW p \in Principals, NEW n \in Nonces, ConsentGet(p, n)
          PROVE  GraceInv'
        BY <1>6, GraceQuiet DEF ConsentGet, Idle, TypeOK, PeopleOK
    <1>7. ASSUME NEW p \in Principals, NEW n \in Nonces, ConsentApprove(p, n)
          PROVE  GraceInv'
        BY <1>7, GraceQuiet DEF ConsentApprove, Idle, TypeOK, PeopleOK
    <1>7a. ASSUME RecordApproval PROVE GraceInv'
        BY <1>7a, GraceQuiet DEF RecordApproval, TypeOK, PeopleOK
    <1>8. ASSUME NEW p \in Principals, NEW n \in Nonces, ConsentDeny(p, n)
          PROVE  GraceInv'
        BY <1>8, GraceQuiet DEF ConsentDeny, Idle, TypeOK, PeopleOK
    <1>9. ASSUME IssueCheck PROVE GraceInv'
        BY <1>9, GraceQuiet DEF IssueCheck, Idle, TypeOK, PeopleOK
    <1>10. ASSUME ConsumePending PROVE GraceInv'
        BY <1>10, GraceQuiet DEF ConsumePending, Idle, TypeOK, PeopleOK
    <1>11. ASSUME NEW k \in Codes, CreateCode(k) PROVE GraceInv'
        BY <1>11, GraceQuiet DEF CreateCode, Idle, TypeOK, PeopleOK
    <1>12. ASSUME NEW c \in Clients, NEW k \in Codes, RedeemCode(c, k) PROVE GraceInv'
        BY <1>12, GraceQuiet DEF RedeemCode, Idle, TypeOK, PeopleOK
    <1>13. ASSUME NEW f \in Families, NEW t \in Tokens, IssueTokens(f, t)
          PROVE  GraceInv'
        <2>1. /\ t \notin issued /\ issued' = issued \cup {t} /\ srv'.pc = "stamp"
              /\ DOMAIN refresh' = DOMAIN refresh \cup {t}
              /\ DOMAIN access' = DOMAIN access \cup {t}
              /\ refresh'[t].prev = NoToken /\ refresh'[t].created = now
              /\ refresh'[t].rotated = Never /\ now' = now
              /\ \A u \in DOMAIN refresh : u # t => refresh'[u] = refresh[u]
            BY <1>13 DEF IssueTokens, Mint, Insert
        <2>2. now \in Nat
            BY DEF TypeOK, PeopleOK
        <2>3. SuccessorsStamped'
            BY <2>1, <2>2 DEF GraceInv, SuccessorsStamped, Never
        <2>4. MintInWindow'
            BY <2>1 DEF MintInWindow
        <2>5. GraceWindowIsFixed'
            BY <2>1 DEF GraceInv, GraceWindowIsFixed
        <2> QED BY <2>1, <2>3, <2>4, <2>5 DEF GraceInv
    <1>14. ASSUME NEW c \in Clients, NEW t \in Tokens, NEW s \in SUBSET Scopes,
                 PresentRefresh(c, t, s)
          PROVE  GraceInv'
        BY <1>14, GraceQuiet DEF PresentRefresh, Idle, TypeOK, PeopleOK
    <1>15. ASSUME NEW t \in Tokens, PresentReused(t) PROVE GraceInv'
        <2>1. /\ refresh' = RevokeFamilyIn(refresh, refresh[t].family)
              /\ UNCHANGED <<now, srv, issued>> /\ DOMAIN access' = DOMAIN access
            BY <1>15 DEF PresentReused, RevokeFamily, RevokeFamilyIn
        <2> QED BY <2>1, SweptRows, GraceQuiet DEF TypeOK, PeopleOK
    <1>16. ASSUME RotateRead PROVE GraceInv'
        <2> PICK old : old = srv.token
            OBVIOUS
        <2>1. UNCHANGED <<now, refresh, access, issued>>
            BY <1>16 DEF RotateRead
        <2>2. MintInWindow'
            <3>1. CASE srv'.pc # "mint"
                BY <3>1 DEF MintInWindow
            <3>2. CASE srv'.pc = "mint"
                <4>1. /\ RefreshState(old) \in {"active", "grace"}
                      /\ srv'.token = old /\ srv'.state = RefreshState(old)
                    BY <1>16, <3>2 DEF RotateRead, Idle
                <4>2. /\ old \in DOMAIN refresh /\ old \in Tokens /\ now \in Nat
                      /\ refresh[old].rotated \in Int /\ GRACE \in Nat
                      /\ \A t \in DOMAIN refresh : refresh[t].created \in Nat
                    BY <4>1, TimesAssumption
                    DEF RefreshState, TypeOK, PeopleOK, TokensOK, RefreshRow, Never
                <4>3. \/ srv'.state = "active" /\ refresh[old].rotated = Never
                      \/ /\ srv'.state = "grace" /\ refresh[old].rotated # Never
                         /\ now - refresh[old].rotated <= GRACE
                    BY <4>1 DEF RefreshState
                <4>4. \A t \in DOMAIN refresh :
                         refresh[t].prev = old =>
                             srv'.state = "grace" /\ now - refresh[t].created <= GRACE
                    BY <4>2, <4>3, SetsAssumption DEF GraceInv, SuccessorsStamped
                <4> QED
                    BY <2>1, <4>1, <4>2, <4>3, <4>4 DEF MintInWindow, GraceInv
            <3> QED BY <3>1, <3>2
        <2> QED
            BY <2>1, <2>2 DEF GraceInv, SuccessorsStamped, GraceWindowIsFixed
    <1>17. ASSUME NEW t \in Tokens, RotateMint(t) PROVE GraceInv'
        <2> PICK old : old = srv.token
            OBVIOUS
        <2>1. /\ old \in issued /\ old # NoToken /\ old # t /\ t \notin DOMAIN refresh
              /\ srv.state \in {"active", "grace"} /\ t \notin issued
            BY <1>17, SetsAssumption
            DEF RotateMint, GraceInv, MintInWindow, TypeOK, ProcessesOK, ServerState, Idle
        <2>2. /\ issued' = issued \cup {t} /\ srv'.pc = "stamp" /\ now' = now
              /\ DOMAIN refresh' = DOMAIN refresh \cup {t}
              /\ DOMAIN access' = DOMAIN access \cup {t}
              /\ refresh'[t].prev = old /\ refresh'[t].created = now
              /\ refresh'[t].rotated = Never
            BY <1>17 DEF RotateMint, Mint, Insert
        <2>3. \A u \in DOMAIN refresh :
                 /\ refresh'[u].prev = refresh[u].prev
                 /\ refresh'[u].created = refresh[u].created
                 /\ refresh'[u].rotated =
                       IF srv.state = "active" /\ u = old THEN now ELSE refresh[u].rotated
            BY <1>17, <2>1 DEF RotateMint, Mint, Insert, TypeOK, TokensOK, RefreshRow
        <2>4. /\ now \in Nat /\ GRACE \in Nat
              /\ \A u \in DOMAIN refresh :
                    refresh[u].created \in Nat /\ refresh[u].rotated \in Int
            BY TimesAssumption DEF TypeOK, PeopleOK, TokensOK, RefreshRow, Never
        <2>5. /\ \A u \in DOMAIN refresh :
                    refresh[u].prev = old =>
                        srv.state = "grace" /\ now - refresh[u].created <= GRACE
              /\ srv.state = "grace" /\ old \in DOMAIN refresh => refresh[old].rotated # Never
            BY <1>17 DEF RotateMint, GraceInv, MintInWindow
        <2>6. SuccessorsStamped'
            <3> SUFFICES ASSUME NEW u \in DOMAIN refresh'
                         PROVE  /\ refresh'[u].created <= now /\ refresh'[u].rotated <= now
                                /\ refresh'[u].prev # NoToken =>
                                      /\ refresh'[u].prev \in issued'
                                      /\ refresh'[u].prev \in DOMAIN refresh' =>
                                            /\ refresh'[refresh'[u].prev].rotated # Never
                                            /\ refresh'[refresh'[u].prev].rotated
                                                  <= refresh'[u].created
                BY <2>2 DEF SuccessorsStamped
            <3>1. CASE u = t
                BY <3>1, <2>1, <2>2, <2>3, <2>4, <2>5 DEF GraceInv, SuccessorsStamped,
                    Never
            <3>2. CASE u # t
                BY <3>2, <2>1, <2>2, <2>3, <2>4, <2>5 DEF GraceInv, SuccessorsStamped,
                    Never
            <3> QED BY <3>1, <3>2
        <2>7. MintInWindow'
            BY <2>2 DEF MintInWindow
        <2>8. GraceWindowIsFixed'
            BY <2>1, <2>2, <2>3, <2>4, <2>5
            DEF GraceInv, SuccessorsStamped, GraceWindowIsFixed
        <2> QED BY <2>2, <2>6, <2>7, <2>8 DEF GraceInv
    <1>18. ASSUME StampClient PROVE GraceInv'
        BY <1>18, GraceQuiet DEF StampClient, Idle, TypeOK, PeopleOK
    <1>19. ASSUME NEW c \in Clients, NEW t \in Tokens, Revoke(c, t) PROVE GraceInv'
        <2>1. PICK f : refresh' = RevokeFamilyIn(refresh, f) /\ access' = RevokeFamilyIn(access, f)
            BY <1>19 DEF Revoke, RevokeFamily
        <2>2. UNCHANGED <<now, srv, issued>>
            BY <1>19 DEF Revoke
        <2>3. DOMAIN access' = DOMAIN access
            BY <2>1 DEF RevokeFamilyIn
        <2> QED BY <2>1, <2>2, <2>3, SweptRows, GraceQuiet DEF TypeOK, PeopleOK
    <1>20. ASSUME LookupSub PROVE GraceInv'
        BY <1>20, GraceQuiet DEF LookupSub, Idle, TypeOK, PeopleOK
    <1>21. ASSUME DeletePin PROVE GraceInv'
        BY <1>21, GraceQuiet DEF DeletePin, Idle, TypeOK, PeopleOK
    <1>22. ASSUME RevokeFamilies PROVE GraceInv'
        <2>1. /\ refresh' = RevokePrincipalIn(refresh, cli.principal)
              /\ UNCHANGED <<now, srv, issued>> /\ DOMAIN access' = DOMAIN access
            BY <1>22 DEF RevokeFamilies, RevokePrincipalIn
        <2> QED BY <2>1, SweptRows, GraceQuiet DEF TypeOK, PeopleOK
    <1>23. ASSUME DeleteApprovals PROVE GraceInv'
        BY <1>23, GraceQuiet DEF DeleteApprovals, Idle, TypeOK, PeopleOK
    <1>24. ASSUME GcTokens PROVE GraceInv'
        BY <1>24, GraceQuiet DEF GcTokens, Keep, TypeOK, PeopleOK
    <1>25. ASSUME GcClients PROVE GraceInv'
        BY <1>25, GraceQuiet DEF GcClients, Idle, TypeOK, PeopleOK
    <1>26. ASSUME Tick PROVE GraceInv'
        BY <1>26, GraceQuiet DEF Tick, Idle, TypeOK, PeopleOK
    <1>27. ASSUME Crash PROVE GraceInv'
        BY <1>27, GraceQuiet DEF Crash, Idle, TypeOK, PeopleOK
    <1>28. CASE UNCHANGED vars
        BY <1>28, GraceQuiet DEF vars, TypeOK, PeopleOK
    <1> QED
        BY <1>1, <1>2, <1>3, <1>4, <1>5, <1>6, <1>7, <1>7a, <1>8, <1>9, <1>10,
           <1>11, <1>12, <1>13, <1>14, <1>15, <1>16, <1>17, <1>18, <1>19, <1>20,
           <1>21, <1>22, <1>23, <1>24, <1>25, <1>26, <1>27, <1>28 DEF Next

\* Retries never extend the window: two successors of one refresh token are minted at
\* most GRACE apart, over any number of rotations, retries, sweeps and crashes.
THEOREM WindowIsNeverExtended == Spec => []GraceWindowIsFixed
<1>1. Init => GraceInv
    BY DEF Init, GraceInv, SuccessorsStamped, MintInWindow, GraceWindowIsFixed, Empty,
        Idle
<1>2. TypeOK /\ GraceInv /\ [Next]_vars => GraceInv'
    BY GraceStep
<1>3. GraceInv => GraceWindowIsFixed
    BY DEF GraceInv
<1> QED BY <1>1, <1>2, <1>3, TypeCorrect, PTL DEF Spec

-----------------------------------------------------------------------------
(* The unused-client sweep.                                                *)

\* A client that some row names was registered, so no other client gets its identifier.
ClientsIssued ==
    /\ DOMAIN clients \subseteq issued
    /\ \A n \in DOMAIN pending : pending[n].client \in issued
    /\ \A k \in DOMAIN codes : codes[k].client \in issued
    /\ \A f \in DOMAIN grants : grants[f].client \in issued

\* A client that was sent a refresh token was stamped no earlier than the token was
\* minted, and the handler about to send one mints no later than it will stamp.
SentAreStamped ==
    /\ known \subseteq issued
    /\ \A c \in DOMAIN clients : clients[c].lastUsed <= now
    /\ \A t \in DOMAIN refresh : refresh[t].expires = refresh[t].created + REFRESH_TTL
    /\ \A t \in known \cap DOMAIN refresh :
          refresh[t].client \in DOMAIN clients =>
              /\ clients[refresh[t].client].lastUsed # Never
              /\ refresh[t].created <= clients[refresh[t].client].lastUsed
    /\ srv.pc = "stamp" =>
          /\ srv.token \in issued
          /\ srv.token \in DOMAIN refresh =>
                /\ refresh[srv.token].client = srv.client
                /\ refresh[srv.token].created <= now

\* The inductive invariant: the sweep reads the stamp, so the stamp must bound the age
\* of every token the client was sent.
StampInv == ClientsIssued /\ SentAreStamped

\* A step that mints, stamps and sends nothing, and adds no row that names a client.
LEMMA StampQuiet ==
    ASSUME TypeOK, StampInv, now' \in Nat, now <= now', issued \subseteq issued',
           known' = known, grants' = grants,
           \A c \in DOMAIN clients' : c \in DOMAIN clients /\ clients'[c] = clients[c],
           \A n \in DOMAIN pending' :
              n \in DOMAIN pending /\ pending'[n].client = pending[n].client,
           \A k \in DOMAIN codes' :
              k \in DOMAIN codes /\ codes'[k].client = codes[k].client,
           \A t \in DOMAIN refresh' :
              /\ t \in DOMAIN refresh
              /\ refresh'[t].client = refresh[t].client
              /\ refresh'[t].created = refresh[t].created
              /\ refresh'[t].expires = refresh[t].expires,
           (srv' = srv /\ now' = now) \/ srv'.pc # "stamp"
    PROVE  StampInv'
    <1>1. ClientsIssued'
        BY DEF StampInv, ClientsIssued
    <1>2. /\ now \in Nat /\ REFRESH_TTL \in Nat
          /\ \A c \in DOMAIN clients : clients[c].lastUsed \in Int
          /\ \A t \in DOMAIN refresh : refresh[t].created \in Nat
        BY TimesAssumption
        DEF TypeOK, PeopleOK, ClientsOK, ClientRow, TokensOK, RefreshRow, Never
    <1>3. SentAreStamped'
        BY <1>2 DEF StampInv, SentAreStamped
    <1> QED BY <1>1, <1>3 DEF StampInv

\* A mint for a client that was issued, on top of a refresh table whose rows differ from
\* the stored ones in rotated_at only.
LEMMA StampMint ==
    ASSUME TypeOK, StampInv, NEW r, DOMAIN r = DOMAIN refresh,
           \A x \in DOMAIN r :
              /\ r[x].client = refresh[x].client
              /\ r[x].created = refresh[x].created /\ r[x].expires = refresh[x].expires,
           NEW t, t \notin issued, NEW f, NEW prev, NEW c, NEW p, NEW s,
           Mint(r, t, f, prev, c, p, s),
           UNCHANGED <<now, clients, pending, codes, known>>,
           \A g \in DOMAIN grants' : grants'[g].client \in issued
    PROVE  StampInv'
    <1>1. /\ DOMAIN refresh' = DOMAIN refresh \cup {t} /\ issued' = issued \cup {t}
          /\ refresh'[t].client = c /\ refresh'[t].created = now
          /\ refresh'[t].expires = refresh'[t].created + REFRESH_TTL
          /\ \A x \in DOMAIN refresh : x # t => refresh'[x] = r[x]
          /\ srv' = [pc |-> "stamp", token |-> t, client |-> c]
        BY DEF Mint, Insert
    <1>2. now <= now
        BY DEF TypeOK, PeopleOK
    <1>3. ClientsIssued'
        BY <1>1 DEF StampInv, ClientsIssued
    <1>4. SentAreStamped'
        BY <1>1, <1>2 DEF StampInv, SentAreStamped
    <1> QED BY <1>3, <1>4 DEF StampInv

\* StampInv is preserved by every step.
LEMMA StampStep == TypeOK /\ FamilyInv /\ StampInv /\ [Next]_vars => StampInv'
    <1> SUFFICES ASSUME TypeOK, FamilyInv, StampInv, [Next]_vars PROVE StampInv'
        OBVIOUS
    <1> USE DEF people, tables, history
    <1>1. ASSUME NEW p \in Principals, SignIn(p) PROVE StampInv'
        BY <1>1, StampQuiet DEF SignIn, Idle, TypeOK, PeopleOK
    <1>2. ASSUME NEW p \in Principals, AllowlistAdd(p) PROVE StampInv'
        BY <1>2, StampQuiet DEF AllowlistAdd, Idle, TypeOK, PeopleOK
    <1>3. ASSUME NEW p \in Principals, RemoveEntry(p) PROVE StampInv'
        BY <1>3, StampQuiet DEF RemoveEntry, Idle, TypeOK, PeopleOK
    <1>4. ASSUME NEW c \in Clients, RegisterClient(c) PROVE StampInv'
        <2>1. /\ c \notin issued /\ issued' = issued \cup {c}
              /\ DOMAIN clients' = DOMAIN clients \cup {c} /\ clients'[c].lastUsed = Never
              /\ \A d \in DOMAIN clients : d # c => clients'[d] = clients[d]
              /\ srv.pc # "stamp" /\ srv' = srv
              /\ UNCHANGED <<now, pending, codes, refresh, known, grants>>
            BY <1>4 DEF RegisterClient, Insert, Idle
        <2>2. Never <= now
            BY DEF Never, TypeOK, PeopleOK
        <2>3. \A t \in DOMAIN refresh : refresh[t].client # c
            BY <2>1 DEF FamilyInv, RowsOfGrants, OfGrant, StampInv, ClientsIssued
        <2>4. ClientsIssued'
            BY <2>1 DEF StampInv, ClientsIssued
        <2>5. SentAreStamped'
            BY <2>1, <2>2, <2>3 DEF StampInv, SentAreStamped
        <2> QED BY <2>4, <2>5 DEF StampInv
    <1>5. ASSUME NEW c \in Clients, NEW n \in Nonces, NEW s \in SUBSET Scopes,
                 Authorize(c, n, s)
          PROVE  StampInv'
        <2>1. /\ c \in DOMAIN clients
              /\ DOMAIN pending' = DOMAIN pending \cup {n} /\ pending'[n].client = c
              /\ \A m \in DOMAIN pending : m # n => pending'[m] = pending[m]
              /\ UNCHANGED <<now, clients, codes, refresh, srv, issued, known, grants>>
            BY <1>5 DEF Authorize, Insert
        <2>2. ClientsIssued'
            BY <2>1 DEF StampInv, ClientsIssued
        <2> QED BY <2>1, <2>2 DEF StampInv, SentAreStamped
    <1>6. ASSUME NEW p \in Principals, NEW n \in Nonces, ConsentGet(p, n)
          PROVE  StampInv'
        BY <1>6, StampQuiet DEF ConsentGet, Idle, TypeOK, PeopleOK
    <1>7. ASSUME NEW p \in Principals, NEW n \in Nonces, ConsentApprove(p, n)
          PROVE  StampInv'
        BY <1>7, StampQuiet DEF ConsentApprove, Idle, TypeOK, PeopleOK
    <1>7a. ASSUME RecordApproval PROVE StampInv'
        BY <1>7a, StampQuiet DEF RecordApproval, TypeOK, PeopleOK
    <1>8. ASSUME NEW p \in Principals, NEW n \in Nonces, ConsentDeny(p, n)
          PROVE  StampInv'
        <2>1. \A m \in DOMAIN pending' :
                 m \in DOMAIN pending /\ pending'[m].client = pending[m].client
            BY <1>8 DEF ConsentDeny, TypeOK, PendingOK, PendingRow
        <2>2. srv' = srv \/ srv'.pc = "code"
            BY <1>8 DEF ConsentDeny, TypeOK, ProcessesOK, ServerState, Idle
        <2> QED BY <1>8, <2>1, <2>2, StampQuiet DEF ConsentDeny, TypeOK, PeopleOK
    <1>9. ASSUME IssueCheck PROVE StampInv'
        BY <1>9, StampQuiet DEF IssueCheck, Idle, TypeOK, PeopleOK, ProcessesOK,
            ServerState
    <1>10. ASSUME ConsumePending PROVE StampInv'
        <2>1. \A m \in DOMAIN pending' :
                 m \in DOMAIN pending /\ pending'[m].client = pending[m].client
            BY <1>10 DEF ConsumePending, TypeOK, PendingOK, PendingRow
        <2>2. srv' = srv \/ srv'.pc = "code"
            BY <1>10 DEF ConsumePending, TypeOK, ProcessesOK, ServerState, Idle
        <2> QED BY <1>10, <2>1, <2>2, StampQuiet DEF ConsumePending, TypeOK, PeopleOK
    <1>11. ASSUME NEW k \in Codes, CreateCode(k) PROVE StampInv'
        <2> PICK n : n = srv.nonce
            OBVIOUS
        <2>1. /\ n \in DOMAIN pending
              /\ DOMAIN codes' = DOMAIN codes \cup {k}
              /\ codes'[k].client = pending[n].client
              /\ \A j \in DOMAIN codes : j # k => codes'[j] = codes[j]
              /\ srv' = Idle
              /\ UNCHANGED <<now, clients, pending, refresh, issued, known, grants>>
            BY <1>11 DEF CreateCode, Insert, TypeOK, InFlightOK
        <2>2. ClientsIssued'
            BY <2>1 DEF StampInv, ClientsIssued
        <2> QED BY <2>1, <2>2 DEF StampInv, SentAreStamped, Idle
    <1>12. ASSUME NEW c \in Clients, NEW k \in Codes, RedeemCode(c, k) PROVE StampInv'
        <2>1. \A j \in DOMAIN codes' :
                 j \in DOMAIN codes /\ codes'[j].client = codes[j].client
            BY <1>12 DEF RedeemCode, CodeUsable, TypeOK, CodesOK, CodeRow
        <2> QED BY <1>12, <2>1, StampQuiet DEF RedeemCode, TypeOK, PeopleOK
    <1>13. ASSUME NEW f \in Families, NEW t \in Tokens, IssueTokens(f, t)
          PROVE  StampInv'
        <2> PICK k : k = srv.code
            OBVIOUS
        <2>1. /\ t \notin issued /\ UNCHANGED <<now, clients, pending, codes, known>>
              /\ Mint(refresh, t, f, NoToken, codes[k].client, codes[k].principal,
                      codes[k].scopes)
            BY <1>13 DEF IssueTokens
        <2>2. /\ k \in DOMAIN codes /\ DOMAIN grants' = DOMAIN grants \cup {f}
              /\ grants'[f].client = codes[k].client
              /\ \A g \in DOMAIN grants : g # f => grants'[g] = grants[g]
            BY <1>13 DEF IssueTokens, Insert, TypeOK, InFlightOK
        <2>3. \A g \in DOMAIN grants' : grants'[g].client \in issued
            BY <2>2 DEF StampInv, ClientsIssued
        <2> QED BY <2>1, <2>3, StampMint
    <1>14. ASSUME NEW c \in Clients, NEW t \in Tokens, NEW s \in SUBSET Scopes,
                 PresentRefresh(c, t, s)
          PROVE  StampInv'
        BY <1>14, StampQuiet DEF PresentRefresh, Idle, TypeOK, PeopleOK
    <1>15. ASSUME NEW t \in Tokens, PresentReused(t) PROVE StampInv'
        <2>1. /\ refresh' = RevokeFamilyIn(refresh, refresh[t].family)
              /\ UNCHANGED <<now, clients, pending, codes, srv, issued, known, grants>>
            BY <1>15 DEF PresentReused, RevokeFamily
        <2> QED BY <2>1, SweptRows, StampQuiet DEF TypeOK, PeopleOK
    <1>16. ASSUME RotateRead PROVE StampInv'
        BY <1>16, StampQuiet DEF RotateRead, Idle, TypeOK, PeopleOK
    <1>17. ASSUME NEW t \in Tokens, RotateMint(t) PROVE StampInv'
        <2> DEFINE marked == IF srv.state = "active" /\ srv.token \in DOMAIN refresh
                             THEN [refresh EXCEPT ![srv.token].rotated = now] ELSE refresh
        <2>1. Mint(marked, t, srv.row.family, srv.token, srv.row.client, srv.row.principal,
                   srv.want \cap srv.row.scopes)
            BY <1>17 DEF RotateMint
        <2>2. /\ DOMAIN marked = DOMAIN refresh
              /\ \A x \in DOMAIN marked : /\ marked[x].client = refresh[x].client
                                         /\ marked[x].created = refresh[x].created
                                         /\ marked[x].expires = refresh[x].expires
            BY DEF TypeOK, TokensOK, RefreshRow
        <2> HIDE DEF marked
        <2>3. /\ t \notin issued /\ UNCHANGED <<now, clients, pending, codes, known>>
              /\ \A g \in DOMAIN grants' : grants'[g].client \in issued
            BY <1>17 DEF RotateMint, StampInv, ClientsIssued
        <2> QED BY <2>1, <2>2, <2>3, StampMint
    <1>18. ASSUME StampClient PROVE StampInv'
        <2> PICK c : c = srv.client
            OBVIOUS
        <2>1. /\ DOMAIN clients' = DOMAIN clients
              /\ c \in DOMAIN clients => clients'[c].lastUsed = now
              /\ \A d \in DOMAIN clients : d # c => clients'[d] = clients[d]
              /\ known' \subseteq known \cup {srv.token} /\ srv' = Idle
              /\ UNCHANGED <<now, pending, codes, refresh, issued, grants>>
            BY <1>18 DEF StampClient, TypeOK, ClientsOK, ClientRow
        <2>2. /\ srv.token \in issued
              /\ srv.token \in DOMAIN refresh =>
                    /\ refresh[srv.token].client = c
                    /\ refresh[srv.token].created <= now
            BY <1>18 DEF StampClient, StampInv, SentAreStamped
        <2>3. /\ now \in Nat /\ REFRESH_TTL \in Nat /\ now # Never
              /\ \A d \in DOMAIN clients : clients[d].lastUsed \in Int
              /\ \A t \in DOMAIN refresh : refresh[t].created \in Nat
            BY TimesAssumption
            DEF TypeOK, PeopleOK, ClientsOK, ClientRow, TokensOK, RefreshRow, Never
        <2>4. ClientsIssued'
            BY <2>1 DEF StampInv, ClientsIssued
        <2>5. SentAreStamped'
            BY <2>1, <2>2, <2>3 DEF StampInv, SentAreStamped, Idle
        <2> QED BY <2>4, <2>5 DEF StampInv
    <1>19. ASSUME NEW c \in Clients, NEW t \in Tokens, Revoke(c, t) PROVE StampInv'
        <2>1. PICK f : refresh' = RevokeFamilyIn(refresh, f)
            BY <1>19 DEF Revoke, RevokeFamily
        <2>2. UNCHANGED <<now, clients, pending, codes, srv, issued, known, grants>>
            BY <1>19 DEF Revoke
        <2> QED BY <2>1, <2>2, SweptRows, StampQuiet DEF TypeOK, PeopleOK
    <1>20. ASSUME LookupSub PROVE StampInv'
        BY <1>20, StampQuiet DEF LookupSub, Idle, TypeOK, PeopleOK
    <1>21. ASSUME DeletePin PROVE StampInv'
        BY <1>21, StampQuiet DEF DeletePin, Idle, TypeOK, PeopleOK
    <1>22. ASSUME RevokeFamilies PROVE StampInv'
        <2>1. /\ refresh' = RevokePrincipalIn(refresh, cli.principal)
              /\ UNCHANGED <<now, clients, pending, codes, srv, issued, known, grants>>
            BY <1>22 DEF RevokeFamilies
        <2> QED BY <2>1, SweptRows, StampQuiet DEF TypeOK, PeopleOK
    <1>23. ASSUME DeleteApprovals PROVE StampInv'
        BY <1>23, StampQuiet DEF DeleteApprovals, Idle, TypeOK, PeopleOK
    <1>24. ASSUME GcTokens PROVE StampInv'
        BY <1>24, StampQuiet DEF GcTokens, Keep, TypeOK, PeopleOK
    <1>25. ASSUME GcClients PROVE StampInv'
        BY <1>25, StampQuiet DEF GcClients, Keep, TypeOK, PeopleOK
    <1>26. ASSUME Tick PROVE StampInv'
        BY <1>26, StampQuiet DEF Tick, Idle, TypeOK, PeopleOK
    <1>27. ASSUME Crash PROVE StampInv'
        BY <1>27, StampQuiet DEF Crash, Idle, TypeOK, PeopleOK
    <1>28. CASE UNCHANGED vars
        BY <1>28, StampQuiet DEF vars, TypeOK, PeopleOK
    <1> QED
        BY <1>1, <1>2, <1>3, <1>4, <1>5, <1>6, <1>7, <1>7a, <1>8, <1>9, <1>10,
           <1>11, <1>12, <1>13, <1>14, <1>15, <1>16, <1>17, <1>18, <1>19, <1>20,
           <1>21, <1>22, <1>23, <1>24, <1>25, <1>26, <1>27, <1>28 DEF Next

\* Only the sweep deletes a client, and only if every token the client was sent is as old
\* as the stamp that the sweep found too old.
LEMMA DeletedClientsAreIdle ==
    ASSUME TypeOK, StampInv, [Next]_vars, NEW c \in DOMAIN clients \ DOMAIN clients',
           NEW t \in known \cap DOMAIN refresh, refresh[t].client = c
    PROVE  /\ now \in Nat /\ refresh[t].created \in Nat
           /\ refresh[t].created + CLIENT_TTL <= now
           /\ refresh[t].expires = refresh[t].created + REFRESH_TTL
    <1>1. GcClients
        BY DEF Next, vars, people, tables, history, SignIn, AllowlistAdd, RemoveEntry,
               RegisterClient, Authorize, ConsentGet, ConsentApprove, RecordApproval,
               ConsentDeny, IssueCheck, ConsumePending, CreateCode, RedeemCode,
               IssueTokens, PresentRefresh, PresentReused, RotateMint, RotateRead,
               StampClient, Revoke, LookupSub, DeletePin, RevokeFamilies,
               DeleteApprovals, GcTokens, Tick, Crash, Insert
    <1>2. c \in DOMAIN clients /\ Unused(c)
        BY <1>1 DEF GcClients, Keep
    <1>3. /\ clients[c].lastUsed # Never
          /\ refresh[t].created <= clients[c].lastUsed
          /\ refresh[t].expires = refresh[t].created + REFRESH_TTL
        BY <1>2 DEF StampInv, SentAreStamped
    <1>4. clients[c].lastUsed + CLIENT_TTL <= now
        BY <1>2, <1>3 DEF Unused
    <1>5. /\ now \in Nat /\ clients[c].lastUsed \in Int /\ refresh[t].created \in Nat
          /\ CLIENT_TTL \in Int
        BY <1>2, TimesAssumption
        DEF TypeOK, PeopleOK, ClientsOK, ClientRow, TokensOK, RefreshRow, Never
    <1> QED BY <1>3, <1>4, <1>5

\* TypeOK, FamilyInv and StampInv hold throughout.
LEMMA StampedThroughout == Spec => [](TypeOK /\ FamilyInv /\ StampInv)
<1>1. Init => FamilyInv /\ StampInv
    BY DEF Init, FamilyInv, RowsOfGrants, MintingLiveGrant, RevokedFamilyStaysDead, Empty,
           Idle, StampInv, ClientsIssued, SentAreStamped
<1>2. TypeOK /\ FamilyInv /\ StampInv /\ [Next]_vars => FamilyInv' /\ StampInv'
    BY FamilyInvStep, StampStep
<1> QED BY <1>1, <1>2, TypeCorrect, PTL DEF Spec

\* Whatever lifetime oauth-gc is given, it deletes no client that was sent a token minted
\* within that lifetime.
THEOREM SweepSparesRecentClients == Spec => GcSparesRecentClients
<1>1. TypeOK /\ StampInv /\ [Next]_vars => [SparesRecentClients]_vars
    BY DeletedClientsAreIdle DEF SparesRecentClients
<1> QED BY <1>1, StampedThroughout, PTL DEF Spec, GcSparesRecentClients

\* So it deletes no client that holds a live refresh token it was sent, if the lifetime it
\* is given is not below that of refresh tokens, as by default (30 days both).
THEOREM LongLifetimeStrandsNoClient ==
    ASSUME REFRESH_TTL <= CLIENT_TTL
    PROVE  Spec => [][StrandsNoClient]_vars
<1>1. TypeOK /\ StampInv /\ [Next]_vars => [StrandsNoClient]_vars
    <2> SUFFICES ASSUME TypeOK, StampInv, [Next]_vars,
                        NEW c \in DOMAIN clients \ DOMAIN clients',
                        NEW t \in known \cap DOMAIN refresh, refresh[t].client = c
                 PROVE  refresh[t].revoked \/ Expired(refresh[t])
        BY DEF StrandsNoClient
    <2>1. /\ now \in Nat /\ refresh[t].created \in Nat
          /\ refresh[t].created + CLIENT_TTL <= now
          /\ refresh[t].expires = refresh[t].created + REFRESH_TTL
        BY DeletedClientsAreIdle
    <2>2. REFRESH_TTL \in Nat /\ CLIENT_TTL \in Int
        BY TimesAssumption
    <2> QED BY <2>1, <2>2 DEF Expired
<1> QED BY <1>1, StampedThroughout, PTL DEF Spec

-----------------------------------------------------------------------------
(* The grants implement GrantLifecycle.                                    *)

\* Codes and tokens that lapse, or stay, are a withdrawal or a stutter.
LEMMA Lapse ==
    ASSUME consented' = consented,
           OfferedHolders' \subseteq OfferedHolders, ActiveHolders' \subseteq ActiveHolders
    PROVE  [Lifecycle!Next]_(Lifecycle!vars)
    BY DEF Lifecycle!Next, Lifecycle!Withdraw

\* A step that inserts no row, makes no row usable again, and starts no exchange or mint
\* but from a row that is usable, is a withdrawal.
LEMMA LapseStep ==
    ASSUME TypeOK, consented' = consented, now' \in Nat, now <= now',
           \A k \in DOMAIN codes' :
              /\ k \in DOMAIN codes
              /\ codes'[k].principal = codes[k].principal /\ codes'[k].client = codes[k].client
              /\ codes'[k].scopes = codes[k].scopes /\ codes'[k].expires = codes[k].expires
              /\ codes[k].consumed => codes'[k].consumed,
           \A t \in DOMAIN refresh' :
              /\ t \in DOMAIN refresh
              /\ refresh'[t].principal = refresh[t].principal
              /\ refresh'[t].client = refresh[t].client
              /\ refresh'[t].scopes = refresh[t].scopes
              /\ refresh'[t].expires = refresh[t].expires
              /\ refresh'[t].rotated = refresh[t].rotated
              /\ refresh[t].revoked => refresh'[t].revoked,
           \A t \in DOMAIN access' :
              /\ t \in DOMAIN access
              /\ access'[t].principal = access[t].principal
              /\ access'[t].client = access[t].client
              /\ access'[t].scopes = access[t].scopes
              /\ access'[t].expires = access[t].expires
              /\ access[t].revoked => access'[t].revoked,
           srv'.pc = "tokens" => srv'.code \in Redeemable,
           srv'.pc = "mint" => srv' = srv \/
              (srv'.token \in UsableRefresh /\ srv'.row = refresh[srv'.token])
    PROVE  [Lifecycle!Next]_(Lifecycle!vars)
    <1>1. \A k \in Redeemable' : k \in Redeemable /\ Holds(codes'[k]) = Holds(codes[k])
        <2>1. \A k \in DOMAIN codes : codes[k].expires \in Nat /\ now \in Nat
            BY DEF TypeOK, PeopleOK, CodesOK, CodeRow
        <2> QED BY <2>1 DEF Redeemable, CodeUsable, Expired, Holds
    <1>2. \A t \in UsableRefresh' : t \in UsableRefresh /\ Holds(refresh'[t]) = Holds(refresh[t])
        <2> SUFFICES ASSUME NEW t \in UsableRefresh' PROVE t \in UsableRefresh
            BY DEF UsableRefresh, Holds
        <2>1. t \in DOMAIN refresh' /\ t \in DOMAIN refresh
            BY DEF UsableRefresh
        <2>2. /\ refresh[t].expires \in Nat /\ refresh[t].rotated \in Int
              /\ now \in Nat /\ GRACE \in Nat
            BY <2>1, TimesAssumption DEF TypeOK, PeopleOK, TokensOK, RefreshRow, Never
        <2>3. /\ ~refresh'[t].revoked /\ ~(refresh'[t].expires <= now')
              /\ refresh'[t].rotated = Never \/ now' - refresh'[t].rotated <= GRACE
            BY <2>1 DEF UsableRefresh, RefreshState, Expired
        <2>4. ~refresh[t].revoked /\ ~Expired(refresh[t])
            BY <2>1, <2>2, <2>3 DEF Expired
        <2>5. refresh[t].rotated = Never \/ now - refresh[t].rotated <= GRACE
            BY <2>1, <2>2, <2>3
        <2> QED BY <2>1, <2>4, <2>5 DEF UsableRefresh, RefreshState
    <1>3. \A t \in UsableAccess' : t \in UsableAccess /\ Holds(access'[t]) = Holds(access[t])
        <2>1. \A t \in DOMAIN access : access[t].expires \in Nat /\ now \in Nat
            BY DEF TypeOK, PeopleOK, TokensOK, AccessRow
        <2> QED BY <2>1 DEF UsableAccess, Expired, Holds
    <1>4. AboutToMint' \subseteq ActiveHolders
        BY DEF AboutToMint, ActiveHolders, HeldIn, Holds
    <1>5. HeldIn(codes, Redeemable)' \subseteq HeldIn(codes, Redeemable)
        BY <1>1 DEF HeldIn
    <1>6. HeldIn(refresh, UsableRefresh)' \subseteq HeldIn(refresh, UsableRefresh)
        BY <1>2 DEF HeldIn
    <1>7. HeldIn(access, UsableAccess)' \subseteq HeldIn(access, UsableAccess)
        BY <1>3 DEF HeldIn
    <1> QED BY <1>4, <1>5, <1>6, <1>7, Lapse DEF OfferedHolders, ActiveHolders

\* A step that leaves the tables of grants alone and starts no exchange and no mint.
LEMMA LapseQuiet ==
    ASSUME TypeOK, UNCHANGED <<consented, now, codes, refresh, access>>,
           srv' = srv \/ srv'.pc \notin {"tokens", "mint"}
    PROVE  [Lifecycle!Next]_(Lifecycle!vars)
    <1>1. srv.pc = "tokens" => srv.code \in Redeemable
        BY DEF TypeOK, InFlightOK, Redeemable
    <1>2. now \in Nat /\ now <= now
        BY DEF TypeOK, PeopleOK
    <1> QED BY <1>1, <1>2, LapseStep

\* Any revocation is a withdrawal.
LEMMA RevokeLapses ==
    ASSUME TypeOK, UNCHANGED <<consented, now, codes, srv>>, NEW x,
           \/ refresh' = RevokeFamilyIn(refresh, x) /\ access' = RevokeFamilyIn(access, x)
           \/ refresh' = RevokePrincipalIn(refresh, x) /\ access' = RevokePrincipalIn(access, x)
    PROVE  [Lifecycle!Next]_(Lifecycle!vars)
    <1>1. /\ refresh \in [DOMAIN refresh -> RefreshRow]
          /\ access \in [DOMAIN access -> AccessRow]
        BY DEF TypeOK, TokensOK
    <1>2. /\ DOMAIN refresh' = DOMAIN refresh
          /\ \A t \in DOMAIN refresh :
                /\ refresh'[t].principal = refresh[t].principal
                /\ refresh'[t].client = refresh[t].client
                /\ refresh'[t].scopes = refresh[t].scopes
                /\ refresh'[t].expires = refresh[t].expires
                /\ refresh'[t].rotated = refresh[t].rotated
                /\ refresh[t].revoked => refresh'[t].revoked
        BY <1>1 DEF RevokeFamilyIn, RevokePrincipalIn, RefreshRow
    <1>3. /\ DOMAIN access' = DOMAIN access
          /\ \A t \in DOMAIN access :
                /\ access'[t].principal = access[t].principal
                /\ access'[t].client = access[t].client
                /\ access'[t].scopes = access[t].scopes
                /\ access'[t].expires = access[t].expires
                /\ access[t].revoked => access'[t].revoked
        BY <1>1 DEF RevokeFamilyIn, RevokePrincipalIn, AccessRow
    <1>4. srv.pc = "tokens" => srv.code \in Redeemable
        BY DEF TypeOK, InFlightOK, Redeemable
    <1>5. now \in Nat /\ now <= now
        BY DEF TypeOK, PeopleOK
    <1> QED BY <1>2, <1>3, <1>4, <1>5, LapseStep

\* A screen's approval admits the holders it names and touches nothing else.
LEMMA ApprovalAdmits ==
    ASSUME TypeOK, NEW p \in Principals, NEW n \in Nonces, ConsentApprove(p, n)
    PROVE  Lifecycle!Admit
    <1>1. /\ UNCHANGED <<now, codes, refresh, access>>
          /\ srv.pc = "idle" /\ srv'.pc = "approve"
          /\ consented \subseteq consented'
        BY DEF ConsentApprove, tables, Idle
    <1>2. consented' \subseteq Principals \X Clients \X Scopes
        BY SetsAssumption
        DEF ConsentApprove, TypeOK, HistoryOK, PendingOK, PendingUsable, PendingRow,
            EffectiveScopes
    <1>3. UNCHANGED <<OfferedHolders, ActiveHolders>>
        BY <1>1 DEF OfferedHolders, ActiveHolders, HeldIn, Redeemable, UsableRefresh,
            UsableAccess, AboutToMint, CodeUsable, RefreshState, Expired
    <1> QED BY <1>1, <1>2, <1>3 DEF Lifecycle!Admit

\* A new code offers what the request asked for, which this friend approved on a screen.
LEMMA CodeOffers ==
    ASSUME TypeOK, ConsentInv, NEW k \in Codes, CreateCode(k)
    PROVE  Lifecycle!Offer
    <1> PICK n : n = srv.nonce
        OBVIOUS
    <1>1. /\ UNCHANGED <<now, refresh, access, consented>>
          /\ srv.pc = "code" /\ srv'.pc = "idle"
          /\ k \notin DOMAIN codes /\ DOMAIN codes' = DOMAIN codes \cup {k}
          /\ codes'[k].client = pending[n].client /\ codes'[k].principal = srv.principal
          /\ codes'[k].scopes = EffectiveScopes(pending[n].scopes)
          /\ \A j \in DOMAIN codes : codes'[j] = codes[j]
        BY DEF CreateCode, Insert, history, Idle
    <1>2. Holds(codes'[k]) \subseteq consented
        BY <1>1 DEF ConsentInv, Requesting, RequestOnScreen, OnScreen, Holds
    <1>3. /\ Redeemable \subseteq Redeemable' /\ Redeemable' \subseteq Redeemable \cup {k}
          /\ Redeemable \subseteq DOMAIN codes
        BY <1>1 DEF Redeemable, CodeUsable, Expired
    <1>4. /\ OfferedHolders \subseteq OfferedHolders'
          /\ OfferedHolders' \subseteq OfferedHolders \cup Holds(codes'[k])
        BY <1>1, <1>3 DEF OfferedHolders, HeldIn, Holds
    <1>5. UNCHANGED ActiveHolders
        BY <1>1 DEF ActiveHolders, HeldIn, UsableRefresh, UsableAccess, AboutToMint,
            RefreshState, Expired
    <1> QED BY <1>1, <1>2, <1>4, <1>5 DEF Lifecycle!Offer

\* The first pair of a family activates what the consumed code offered.
LEMMA PairActivates ==
    ASSUME TypeOK, GraceInv, NEW f \in Families, NEW t \in Tokens, IssueTokens(f, t)
    PROVE  Lifecycle!Activate
    <1> PICK k : k = srv.code
        OBVIOUS
    <1>1. /\ UNCHANGED <<now, codes, consented>>
          /\ srv.pc = "tokens" /\ srv'.pc = "stamp" /\ k \in DOMAIN codes
          /\ t \notin DOMAIN refresh /\ t \notin DOMAIN access
        BY DEF IssueTokens, Mint, GraceInv, TypeOK, InFlightOK
    <1>2. /\ DOMAIN refresh' = DOMAIN refresh \cup {t}
          /\ \A u \in DOMAIN refresh : refresh'[u] = refresh[u]
          /\ refresh'[t].principal = codes[k].principal /\ refresh'[t].client = codes[k].client
          /\ refresh'[t].scopes = codes[k].scopes
        BY <1>1 DEF IssueTokens, Mint, Insert
    <1>3. /\ DOMAIN access' = DOMAIN access \cup {t}
          /\ \A u \in DOMAIN access : access'[u] = access[u]
          /\ access'[t].principal = codes[k].principal /\ access'[t].client = codes[k].client
          /\ access'[t].scopes = codes[k].scopes
          /\ ~access'[t].revoked /\ access'[t].expires = now + ACCESS_TTL
        BY <1>1 DEF IssueTokens, Mint, Insert
    <1>4. Holds(refresh'[t]) = Holds(codes[k]) /\ Holds(access'[t]) = Holds(codes[k])
        BY <1>2, <1>3 DEF Holds
    <1>5. t \in UsableAccess'
        <2>1. now \in Nat /\ ACCESS_TTL \in Nat \ {0}
            BY TimesAssumption DEF TypeOK, PeopleOK
        <2> QED BY <1>1, <1>3, <2>1 DEF UsableAccess, Expired
    <1>6. /\ UsableRefresh \subseteq UsableRefresh'
          /\ UsableRefresh' \subseteq UsableRefresh \cup {t}
          /\ UsableRefresh \subseteq DOMAIN refresh
        BY <1>1, <1>2 DEF UsableRefresh, RefreshState, Expired
    <1>7. /\ UsableAccess \subseteq UsableAccess' /\ UsableAccess' \subseteq UsableAccess \cup {t}
          /\ UsableAccess \subseteq DOMAIN access
        BY <1>1, <1>3 DEF UsableAccess, Expired
    <1>8. /\ HeldIn(refresh, UsableRefresh) \subseteq HeldIn(refresh, UsableRefresh)'
          /\ HeldIn(refresh, UsableRefresh)'
                \subseteq HeldIn(refresh, UsableRefresh) \cup Holds(codes[k])
        BY <1>2, <1>4, <1>6 DEF HeldIn, Holds
    <1>9. /\ HeldIn(access, UsableAccess) \subseteq HeldIn(access, UsableAccess)'
          /\ HeldIn(access, UsableAccess)'
                \subseteq HeldIn(access, UsableAccess) \cup Holds(codes[k])
          /\ Holds(codes[k]) \subseteq HeldIn(access, UsableAccess)'
        BY <1>3, <1>4, <1>5, <1>7 DEF HeldIn, Holds
    <1>10. AboutToMint = {} /\ AboutToMint' = {}
        BY <1>1 DEF AboutToMint
    <1>11. /\ k \in Redeemable /\ Redeemable' \subseteq Redeemable
           /\ Redeemable \subseteq Redeemable' \cup {k}
        BY <1>1 DEF Redeemable, CodeUsable, Expired
    <1>12. /\ OfferedHolders' \subseteq OfferedHolders /\ Holds(codes[k]) \subseteq OfferedHolders
           /\ OfferedHolders \subseteq OfferedHolders' \cup Holds(codes[k])
        BY <1>1, <1>11 DEF OfferedHolders, HeldIn, Holds
    <1>13. /\ ActiveHolders \subseteq ActiveHolders' /\ Holds(codes[k]) \subseteq ActiveHolders'
           /\ ActiveHolders' \subseteq ActiveHolders \cup Holds(codes[k])
        BY <1>8, <1>9, <1>10 DEF ActiveHolders
    <1> QED BY <1>1, <1>12, <1>13 DEF Lifecycle!Activate

\* A rotation turns what it was about to mint into rows; the mark it leaves on the token it
\* was given makes that token usable in no case where it was not.
LEMMA RotationLapses ==
    ASSUME TypeOK, GraceInv, NEW t \in Tokens, RotateMint(t)
    PROVE  [Lifecycle!Next]_(Lifecycle!vars)
    <1> PICK old : old = srv.token
        OBVIOUS
    <1>1. /\ UNCHANGED <<now, codes, consented>>
          /\ srv.pc = "mint" /\ srv'.pc = "stamp"
          /\ t \notin DOMAIN refresh /\ t \notin DOMAIN access
        BY DEF RotateMint, Mint, GraceInv
    <1>2. /\ DOMAIN refresh' = DOMAIN refresh \cup {t}
          /\ refresh'[t].principal = srv.row.principal /\ refresh'[t].client = srv.row.client
          /\ refresh'[t].scopes = srv.want \cap srv.row.scopes
        BY <1>1 DEF RotateMint, Mint, Insert
    <1>3. \A u \in DOMAIN refresh :
             /\ refresh'[u].principal = refresh[u].principal
             /\ refresh'[u].client = refresh[u].client
             /\ refresh'[u].scopes = refresh[u].scopes
             /\ refresh'[u].expires = refresh[u].expires
             /\ refresh'[u].revoked = refresh[u].revoked
             /\ \/ refresh'[u].rotated = refresh[u].rotated
                \/ u = old /\ srv.state = "active"
        BY <1>1 DEF RotateMint, Mint, Insert, TypeOK, TokensOK, RefreshRow
    <1>4. /\ DOMAIN access' = DOMAIN access \cup {t}
          /\ \A u \in DOMAIN access : access'[u] = access[u]
          /\ access'[t].principal = srv.row.principal /\ access'[t].client = srv.row.client
          /\ access'[t].scopes = srv.want \cap srv.row.scopes
        BY <1>1 DEF RotateMint, Mint, Insert
    <1>5. Holds(refresh'[t]) \subseteq ActiveHolders /\ Holds(access'[t]) \subseteq ActiveHolders
        BY <1>1, <1>2, <1>4 DEF Holds, AboutToMint, ActiveHolders
    <1>6. \A u \in UsableRefresh' \ {t} : u \in UsableRefresh
        <2> SUFFICES ASSUME NEW u \in UsableRefresh', u # t PROVE u \in UsableRefresh
            OBVIOUS
        <2>1. u \in DOMAIN refresh /\ ~refresh[u].revoked /\ ~Expired(refresh[u])
            BY <1>1, <1>2, <1>3 DEF UsableRefresh, RefreshState, Expired
        <2>2. u = old /\ srv.state = "active" => refresh[u].rotated = Never
            BY <1>1, <2>1 DEF GraceInv, MintInWindow
        <2> QED BY <1>1, <1>3, <2>1, <2>2 DEF UsableRefresh, RefreshState, Expired
    <1>7. HeldIn(refresh, UsableRefresh)' \subseteq ActiveHolders
        <2>1. \A u \in UsableRefresh' : Holds(refresh'[u]) \subseteq ActiveHolders
            <3> SUFFICES ASSUME NEW u \in UsableRefresh', u # t
                         PROVE  Holds(refresh'[u]) \subseteq ActiveHolders
                BY <1>5
            <3>1. u \in UsableRefresh /\ u \in DOMAIN refresh
                BY <1>6 DEF UsableRefresh
            <3>2. Holds(refresh'[u]) = Holds(refresh[u])
                BY <1>3, <3>1 DEF Holds
            <3> QED BY <3>1, <3>2 DEF ActiveHolders, HeldIn
        <2> QED BY <2>1 DEF HeldIn
    <1>8. HeldIn(access, UsableAccess)' \subseteq ActiveHolders
        <2>1. \A u \in UsableAccess' : Holds(access'[u]) \subseteq ActiveHolders
            <3> SUFFICES ASSUME NEW u \in UsableAccess', u # t
                         PROVE  Holds(access'[u]) \subseteq ActiveHolders
                BY <1>5
            <3>1. u \in UsableAccess /\ access'[u] = access[u]
                BY <1>1, <1>4 DEF UsableAccess, Expired
            <3> QED BY <3>1 DEF ActiveHolders, HeldIn
        <2> QED BY <2>1 DEF HeldIn
    <1>9. AboutToMint' = {}
        BY <1>1 DEF AboutToMint
    <1>10. OfferedHolders' \subseteq OfferedHolders
        BY <1>1 DEF OfferedHolders, HeldIn, Redeemable, CodeUsable, Expired
    <1>11. ActiveHolders' \subseteq ActiveHolders
        BY <1>7, <1>8, <1>9 DEF ActiveHolders
    <1> QED BY <1>1, <1>10, <1>11, Lapse

\* Every step of the tables, the handlers and the commands is a step of GrantLifecycle or
\* changes nothing it sees.
LEMMA LifecycleStep ==
    TypeOK /\ ConsentInv /\ GraceInv /\ [Next]_vars => [Lifecycle!Next]_(Lifecycle!vars)
    <1> SUFFICES ASSUME TypeOK, ConsentInv, GraceInv, [Next]_vars
                 PROVE  [Lifecycle!Next]_(Lifecycle!vars)
        OBVIOUS
    <1> USE DEF people, tables, history
    <1>0. now \in Nat /\ now <= now /\ (srv.pc = "tokens" => srv.code \in Redeemable)
        BY DEF TypeOK, PeopleOK, InFlightOK, Redeemable
    <1>1. ASSUME NEW p \in Principals, SignIn(p) PROVE [Lifecycle!Next]_(Lifecycle!vars)
        BY <1>1, LapseQuiet DEF SignIn, Idle
    <1>2. ASSUME NEW p \in Principals, AllowlistAdd(p) PROVE [Lifecycle!Next]_(Lifecycle!vars)
        BY <1>2, LapseQuiet DEF AllowlistAdd, Idle
    <1>3. ASSUME NEW p \in Principals, RemoveEntry(p) PROVE [Lifecycle!Next]_(Lifecycle!vars)
        BY <1>3, LapseQuiet DEF RemoveEntry, Idle
    <1>4. ASSUME NEW c \in Clients, RegisterClient(c) PROVE [Lifecycle!Next]_(Lifecycle!vars)
        BY <1>4, LapseQuiet DEF RegisterClient, Idle
    <1>5. ASSUME NEW c \in Clients, NEW n \in Nonces, NEW s \in SUBSET Scopes,
                 Authorize(c, n, s)
          PROVE  [Lifecycle!Next]_(Lifecycle!vars)
        BY <1>5, LapseQuiet DEF Authorize, Idle
    <1>6. ASSUME NEW p \in Principals, NEW n \in Nonces, ConsentGet(p, n)
          PROVE  [Lifecycle!Next]_(Lifecycle!vars)
        BY <1>6, LapseQuiet DEF ConsentGet, Idle
    <1>7. ASSUME NEW p \in Principals, NEW n \in Nonces, ConsentApprove(p, n)
          PROVE  [Lifecycle!Next]_(Lifecycle!vars)
        BY <1>7, ApprovalAdmits DEF Lifecycle!Next
    <1>7a. ASSUME RecordApproval PROVE [Lifecycle!Next]_(Lifecycle!vars)
        BY <1>7a, LapseQuiet DEF RecordApproval
    <1>8. ASSUME NEW p \in Principals, NEW n \in Nonces, ConsentDeny(p, n)
          PROVE  [Lifecycle!Next]_(Lifecycle!vars)
        BY <1>8, LapseQuiet DEF ConsentDeny, Idle
    <1>9. ASSUME IssueCheck PROVE [Lifecycle!Next]_(Lifecycle!vars)
        <2>1. srv' = srv \/ srv'.pc \notin {"tokens", "mint"}
            BY <1>9 DEF IssueCheck, Idle, TypeOK, ProcessesOK, ServerState
        <2> QED BY <1>9, <2>1, LapseQuiet DEF IssueCheck
    <1>10. ASSUME ConsumePending PROVE [Lifecycle!Next]_(Lifecycle!vars)
        <2>1. srv' = srv \/ srv'.pc \notin {"tokens", "mint"}
            BY <1>10 DEF ConsumePending, Idle, TypeOK, ProcessesOK, ServerState
        <2> QED BY <1>10, <2>1, LapseQuiet DEF ConsumePending
    <1>11. ASSUME NEW k \in Codes, CreateCode(k) PROVE [Lifecycle!Next]_(Lifecycle!vars)
        BY <1>11, CodeOffers DEF Lifecycle!Next
    <1>12. ASSUME NEW c \in Clients, NEW k \in Codes, RedeemCode(c, k)
          PROVE  [Lifecycle!Next]_(Lifecycle!vars)
        <2>1. /\ UNCHANGED <<consented, now, refresh, access>>
              /\ k \in Redeemable /\ srv'.pc = "tokens" /\ srv'.code = k
            BY <1>12 DEF RedeemCode, Redeemable, CodeUsable
        <2>2. \A j \in DOMAIN codes' :
                 /\ j \in DOMAIN codes
                 /\ codes'[j].principal = codes[j].principal
                 /\ codes'[j].client = codes[j].client
                 /\ codes'[j].scopes = codes[j].scopes
                 /\ codes'[j].expires = codes[j].expires
                 /\ codes[j].consumed => codes'[j].consumed
            BY <1>12 DEF RedeemCode, CodeUsable, TypeOK, CodesOK, CodeRow
        <2> QED BY <1>0, <2>1, <2>2, LapseStep
    <1>13. ASSUME NEW f \in Families, NEW t \in Tokens, IssueTokens(f, t)
          PROVE  [Lifecycle!Next]_(Lifecycle!vars)
        BY <1>13, PairActivates DEF Lifecycle!Next
    <1>14. ASSUME NEW c \in Clients, NEW t \in Tokens, NEW s \in SUBSET Scopes,
                 PresentRefresh(c, t, s)
          PROVE  [Lifecycle!Next]_(Lifecycle!vars)
        BY <1>14, LapseQuiet DEF PresentRefresh, Idle
    <1>15. ASSUME NEW t \in Tokens, PresentReused(t) PROVE [Lifecycle!Next]_(Lifecycle!vars)
        BY <1>15, RevokeLapses DEF PresentReused, RevokeFamily
    <1>16. ASSUME RotateRead PROVE [Lifecycle!Next]_(Lifecycle!vars)
        <2>1. UNCHANGED <<consented, now, codes, refresh, access>>
            BY <1>16 DEF RotateRead
        <2>2. \/ srv'.pc = "idle"
              \/ /\ srv'.pc = "mint" /\ srv'.row = refresh[srv'.token]
                 /\ RefreshState(srv'.token) \in {"active", "grace"}
            BY <1>16 DEF RotateRead, Idle
        <2>3. srv'.pc = "mint" => srv'.token \in UsableRefresh
            BY <2>2 DEF UsableRefresh, RefreshState
        <2> QED BY <1>0, <2>1, <2>2, <2>3, LapseStep
    <1>17. ASSUME NEW t \in Tokens, RotateMint(t) PROVE [Lifecycle!Next]_(Lifecycle!vars)
        BY <1>17, RotationLapses
    <1>18. ASSUME StampClient PROVE [Lifecycle!Next]_(Lifecycle!vars)
        BY <1>18, LapseQuiet DEF StampClient, Idle
    <1>19. ASSUME NEW c \in Clients, NEW t \in Tokens, Revoke(c, t)
          PROVE  [Lifecycle!Next]_(Lifecycle!vars)
        <2>1. PICK f : refresh' = RevokeFamilyIn(refresh, f) /\ access' = RevokeFamilyIn(access, f)
            BY <1>19 DEF Revoke, RevokeFamily
        <2> QED BY <1>19, <2>1, RevokeLapses DEF Revoke
    <1>20. ASSUME LookupSub PROVE [Lifecycle!Next]_(Lifecycle!vars)
        BY <1>20, LapseQuiet DEF LookupSub, Idle
    <1>21. ASSUME DeletePin PROVE [Lifecycle!Next]_(Lifecycle!vars)
        BY <1>21, LapseQuiet DEF DeletePin, Idle
    <1>22. ASSUME RevokeFamilies PROVE [Lifecycle!Next]_(Lifecycle!vars)
        BY <1>22, RevokeLapses DEF RevokeFamilies
    <1>23. ASSUME DeleteApprovals PROVE [Lifecycle!Next]_(Lifecycle!vars)
        BY <1>23, LapseQuiet DEF DeleteApprovals, Idle
    <1>24. ASSUME GcTokens PROVE [Lifecycle!Next]_(Lifecycle!vars)
        <2>1. /\ UNCHANGED <<consented, now, codes, srv>>
              /\ \A t \in DOMAIN refresh' : t \in DOMAIN refresh /\ refresh'[t] = refresh[t]
              /\ \A t \in DOMAIN access' : t \in DOMAIN access /\ access'[t] = access[t]
            BY <1>24 DEF GcTokens, Keep
        <2> QED BY <1>0, <2>1, LapseStep
    <1>25. ASSUME GcClients PROVE [Lifecycle!Next]_(Lifecycle!vars)
        BY <1>25, LapseQuiet DEF GcClients, Idle
    <1>26. ASSUME Tick PROVE [Lifecycle!Next]_(Lifecycle!vars)
        <2>1. /\ UNCHANGED <<consented, codes, refresh, access>> /\ srv = Idle /\ srv' = Idle
              /\ now' \in Nat /\ now <= now'
            BY <1>26, <1>0 DEF Tick
        <2> QED BY <2>1, LapseStep DEF Idle
    <1>27. ASSUME Crash PROVE [Lifecycle!Next]_(Lifecycle!vars)
        BY <1>27, LapseQuiet DEF Crash, Idle
    <1>28. CASE UNCHANGED vars
        BY <1>28, LapseQuiet DEF vars
    <1> QED
        BY <1>1, <1>2, <1>3, <1>4, <1>5, <1>6, <1>7, <1>7a, <1>8, <1>9, <1>10,
           <1>11, <1>12, <1>13, <1>14, <1>15, <1>16, <1>17, <1>18, <1>19, <1>20,
           <1>21, <1>22, <1>23, <1>24, <1>25, <1>26, <1>27, <1>28 DEF Next

\* For any number of friends, clients and scopes: a friend's client obtains tokens for a
\* scope only by an unbroken chain of rotations from a code, and a code only for scopes
\* that this friend approved for this client on a screen.
THEOREM GrantsImplementLifecycle == Spec => ImplementsLifecycle
<1>1. Init => Lifecycle!Init
    BY DEF Init, Lifecycle!Init, OfferedHolders, ActiveHolders, HeldIn, Redeemable,
           UsableRefresh, UsableAccess, AboutToMint, Empty, Idle
<1>2. Init => ConsentInv /\ GraceInv
    BY DEF Init, ConsentInv, Requesting, OnScreen, GraceInv, SuccessorsStamped, MintInWindow,
           GraceWindowIsFixed, Empty, Idle
<1>3. TypeOK /\ ConsentInv /\ GraceInv /\ [Next]_vars => ConsentInv' /\ GraceInv'
    BY ConsentStep, GraceStep
<1>4. TypeOK /\ ConsentInv /\ GraceInv /\ [Next]_vars => [Lifecycle!Next]_(Lifecycle!vars)
    BY LifecycleStep
<1> QED
    BY <1>1, <1>2, <1>3, <1>4, TypeCorrect, PTL
    DEF Spec, ImplementsLifecycle, Lifecycle!Spec

\* What every implementation of GrantLifecycle inherits, here for friends, clients and
\* scopes: nothing redeemable or usable exists for a scope nobody approved on a screen.
THEOREM OnlyConsentedIsUsable == Spec => []Lifecycle!OnlyEligible
<1>1. Lifecycle!Init => Lifecycle!OnlyEligible
    BY DEF Lifecycle!Init, Lifecycle!OnlyEligible
<1>2. Lifecycle!OnlyEligible /\ [Lifecycle!Next]_(Lifecycle!vars) => Lifecycle!OnlyEligible'
    BY DEF Lifecycle!OnlyEligible, Lifecycle!Next, Lifecycle!vars, Lifecycle!Withdraw,
           Lifecycle!Admit, Lifecycle!Offer, Lifecycle!Activate
<1> QED
    BY <1>1, <1>2, GrantsImplementLifecycle, PTL DEF ImplementsLifecycle, Lifecycle!Spec

=============================================================================
