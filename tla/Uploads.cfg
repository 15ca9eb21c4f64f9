\* Two images and two uploads: approvals, discards, sweeps and crashes in any order.
SPECIFICATION FairSpec
CONSTANTS
    u1 = u1
    u2 = u2
    n1 = n1
    Friends = {alice}
    Images = {i1, i2}
    Names = {n1, n2}
    Requests = {r1}
    Uploads = {u1, u2}
    TTL = 1
    GRACE = 1
    MaxTime = 3
CONSTRAINT InOrder
INVARIANTS
    TypeOK
    BlobsLostOnlyInWindows
    OrphansOnlyFromDiscard
    DuplicatesOnlyFromOverlap
PROPERTIES
    AbandonedRowsReclaimed
