----------------------------- MODULE MCRenders ------------------------------
(* Instances of Renders for TLC. *)
EXTENDS Renders, TLC

AllSweeps == {{"ttl"}, {"bytes"}, {"ttl", "bytes"}}
=============================================================================
