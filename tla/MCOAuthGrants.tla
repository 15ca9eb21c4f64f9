--------------------------- MODULE MCOAuthGrants ---------------------------
(* Instances of OAuthGrants for TLC: symmetry over the generated identifiers. *)
EXTENDS OAuthGrants, TLC

Symmetry ==
    Permutations(Nonces) \cup Permutations(Codes) \cup Permutations(Families)
    \cup Permutations(Tokens) \cup Permutations(Clients)

\* Bounds OAuthConsent: one command at a time beside the server.  What a removal and a sweep
\* do to each other is in OAuthRotation.
OneCommand == cli = Idle \/ gc = "idle"
=============================================================================
