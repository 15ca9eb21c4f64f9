---------------------------- MODULE MCTemplates -----------------------------
(* An instance of Templates for TLC.  Uploads and corpus commands write     *)
(* different rows, so a behaviour has either the one or the other.  The     *)
(* overlay holds the first slug wholly, but for one field that is blank or  *)
(* left out, or not at all, and the other slug never.                       *)
EXTENDS Templates, TLC

CONSTANTS clean, raw, drifting, typed

MCSan == [t \in Texts |-> IF t = raw THEN clean ELSE t]
MCListing == <<Slugs, {CHOOSE s \in Slugs : TRUE}>>
OneSide ==
    \/ \A u \in Uploads : upload[u].status = "none"
    \/ <<overlay.file, translator, upstream, seeder>> = <<"absent", Asleep, 1, Idle>>
FirstSlug == CHOOSE s \in Slugs : TRUE
FewTranslations ==
    \A s \in Slugs : overlay.blocks[s] # NoBlock =>
        /\ s = FirstSlug
        /\ \E f \in Fields : \A g \in Fields :
            overlay.blocks[s].text[g] \in IF g = f THEN {clean, Blank, Absent} ELSE {clean}
Bounds == OneSide /\ FewTranslations
Symmetry == Permutations(Uploads) \cup Permutations(Fields)
=============================================================================
