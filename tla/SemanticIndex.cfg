\* Two templates of two versions, two models of one length, one bad configuration.
SPECIFICATION Spec
CONSTANTS
    m1 = m1
    m2 = m2
    Templates = {t1, t2}
    Models = {m1, m2}
    Length <- MCLength
    Configs <- MCConfigs
    MaxVersion = 2
    Nothing = Nothing
SYMMETRY Symmetry
INVARIANTS
    TypeOK
    ServedByOneModel
    FreshAfterReindex
    LockReleased
