\* Two friends, two tabs, two tokens and two flows.
SPECIFICATION Spec
CONSTANTS
    alice = alice
    bob = bob
    f1 = f1
    f2 = f2
    upload = upload
    browse = browse
    Friends = {alice, bob}
    Provider <- MCProvider
    Tabs = {t1, t2}
    Tokens = {c1, c2}
    Flows = {f1, f2}
    Targets = {upload, browse}
    Goal <- MCGoal
    Default = browse
    None = None
    Quiet = Quiet
    Unset = Unset
SYMMETRY Symmetry
INVARIANTS
    TypeOK
    ActsForPage
    LastAnswerHolds
    ReturnsToItsPage
CONSTRAINT Bounds
