----------------------------- MODULE MCUploads -----------------------------
(* Instances of Uploads for TLC.  Every behaviour is, but for the names of   *)
(* ids and templates, one in which they are used in a fixed order: a         *)
(* reduction that liveness allows, unlike SYMMETRY.                          *)
EXTENDS Uploads

CONSTANTS u1, u2, n1

InOrder ==
    /\ u2 \in created => u1 \in created
    /\ templates # {} => \E t \in templates : t.name = n1
=============================================================================
