\* Consent in breadth: a Google friend, two scopes, two consents for one client.
SPECIFICATION Spec
CONSTANTS
    Principals = {sub1}
    GoogleSubs = {sub1}
    Clients = {c1}
    Nonces = {n1, n2}
    Codes = {k1, k2}
    Families = {f1, f2}
    Tokens = {t1, t2}
    Scopes = {read, write}
    DefaultScope = read
    NoToken = NoToken
    GRACE = 1
    ACCESS_TTL = 1
    REFRESH_TTL = 1
    AUTH_CODE_TTL = 1
    PENDING_TTL = 1
    CLIENT_TTL = 1
    MaxTime = 0
SYMMETRY Symmetry
CONSTRAINT OneCommand
INVARIANTS
    OneGrantPerConsent
    TokensWithinConsent
PROPERTIES
    ImplementsLifecycle
