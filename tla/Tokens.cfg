\* A GitHub friend with a row from before the namespace, a Google friend, the server
\* and a command.
SPECIFICATION Spec
CONSTANTS
    Github = {"Bob"}
    Subs = {"s1"}
    Accounts = {"Bob", "s1"}
    Web = web
    Commands = {c1}
    WebTTLs = {1}
    CliTTLs = {0, 1}
    MaxLegacy = 1
    MaxRows = 3
    MaxTime = 2
INVARIANTS
    TypeOK
    AtMostOneActive
    RevokeLeavesNothing
    StatusAgrees
PROPERTIES
    ImplementsSlots
CHECK_DEADLOCK FALSE
