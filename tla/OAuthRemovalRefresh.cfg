\* A removal that completes while an authorization code is outstanding.
SPECIFICATION Spec
CONSTANTS
    Principals = {alice}
    GoogleSubs = {}
    Clients = {c1}
    Nonces = {n1}
    Codes = {k1}
    Families = {f1}
    Tokens = {t1, t2, t3}
    Scopes = {read}
    DefaultScope = read
    NoToken = NoToken
    GRACE = 1
    ACCESS_TTL = 2
    REFRESH_TTL = 3
    AUTH_CODE_TTL = 2
    PENDING_TTL = 2
    CLIENT_TTL = 3
    MaxTime = 3
SYMMETRY Symmetry
INVARIANTS
    RemovedCannotRefresh
