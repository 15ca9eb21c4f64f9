-------------------------- MODULE MCSemanticIndex ---------------------------
(* An instance of SemanticIndex for TLC: two models whose vectors have the  *)
(* same length, and a configuration that gets the length wrong.             *)
EXTENDS SemanticIndex, TLC

CONSTANTS m1, m2

MCLength == [m \in Models |-> 1]
MCConfigs == {[model |-> m1, dimensions |-> 1], [model |-> m2, dimensions |-> 1],
              [model |-> m2, dimensions |-> 2]}
Symmetry == Permutations(Templates)
=============================================================================
