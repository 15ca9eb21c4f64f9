\* Two operators' commands and one sign-in at a time; two subjects claim one mailbox.
SPECIFICATION Spec
CONSTANTS
    Forms = {"bare"}
    Logins = {"bob"}
    Spellings = {"bob", "Bob"}
    Lower <- LowerBob
    Accounts = {"Bob"}
    Emails = {e1}
    Subs = {s1, s2}
    Operators = {o1, o2}
    None = None
SYMMETRY Symmetry
CONSTRAINT OneFrontDoor
INVARIANTS
    TypeOK
    InvitesLostOnlyToOverlap
    UninvitedPinsOnlyRaced
    GrantsOutliveRemovalOnlyHidden
