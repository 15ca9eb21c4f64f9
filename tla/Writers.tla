------------------------------- MODULE Writers ------------------------------
(***************************************************************************)
(* What the provenance of a template's zh-TW texts promises the friend who *)
(* edited them (the docstring of metadata_locales.py): a field that shows  *)
(* a text is the model's or a friend's, and no approval takes it from a    *)
(* friend.  A text of the model may be replaced, or cleared: by the        *)
(* approver, or by a later answer that leaves it empty.  Templates         *)
(* implements this.                                                        *)
(***************************************************************************)
CONSTANTS Names, Fields

VARIABLE writer     \* for each template and field, who wrote the text it shows, if any

May(old) == IF old = "friend" THEN {"friend"} ELSE {"nobody", "model", "friend"}

Init == writer = [n \in Names |-> [f \in Fields |-> "nobody"]]

\* One approval touches one template; its fields move independently.
Approve(n) ==
    /\ writer' \in [Names -> [Fields -> {"nobody", "model", "friend"}]]
    /\ \A f \in Fields : writer'[n][f] \in May(writer[n][f])
    /\ \A m \in Names \ {n} : writer'[m] = writer[m]

Next == \E n \in Names : Approve(n)

Spec == Init /\ [][Next]_writer
=============================================================================
