\* The same, for what the documentation says of a discarded upload's blob.
SPECIFICATION FairSpec
CONSTANTS
    u1 = u1
    u2 = u2
    n1 = n1
    Friends = {alice}
    Images = {i1, i2}
    Names = {n1, n2}
    Requests = {r1}
    Uploads = {u1, u2}
    TTL = 1
    GRACE = 1
    MaxTime = 3
CONSTRAINT InOrder
PROPERTIES
    DiscardedBlobsReclaimed
