----------------------------- MODULE MCIdentity -----------------------------
(* Identity on small instances: "bob" is the login of the account "Bob". *)
EXTENDS Identity, TLC

LowerBob == [n \in Spellings |-> "bob"]
Symmetry == Permutations(Subs) \cup Permutations(Operators)

\* Bounds the run: every property is silent once commands have overlapped, the GitHub
\* account and the Google subjects are not signed in together (they share only the file,
\* whose lines stay independent), and one friend at a time has codes and grants (those of
\* two friends share nothing).
OneFrontDoor ==
    /\ overlapped = {}
    /\ \A p, q \in offers \cup grants \cup Served : p = q
    /\ sessions \cap Accounts = {} \/ (sessions \cap Subs = {} /\ pins = <<>>)
=============================================================================
