\* Two analyses of one image, two fields, and two corpus slugs over two versions.
SPECIFICATION Spec
CONSTANTS
    clean = clean
    raw = raw
    drifting = drifting
    typed = typed
    Fields = {f1, f2}
    ModelTexts = {clean, raw, drifting}
    FriendTexts = {typed}
    Blank = Blank
    Absent = Absent
    NoBlock = NoBlock
    Keep = Keep
    NoRow = NoRow
    NoAnswer = NoAnswer
    San <- MCSan
    Drifting = {drifting}
    Uploads = {u1, u2}
    Names = {n1}
    Slugs = {s1, s2}
    MaxVersion = 2
    Listing <- MCListing
SYMMETRY Symmetry
CONSTRAINT Bounds
CHECK_DEADLOCK FALSE
INVARIANTS
    TypeOK
    ProvenanceTrue
    ShownIsGated
    ManifestTrue
PROPERTIES
    ImplementsWriters
    LocaleKept
