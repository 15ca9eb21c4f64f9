------------------------ MODULE MCPersonalTokens ------------------------
(* PersonalTokens on small instances. *)
EXTENDS PersonalTokens, TLC

Symmetry == Permutations(Commands)
=============================================================================
