------------------------------ MODULE Locales -------------------------------
(***************************************************************************)
(* The zh-TW block of a template's metadata (metadata_locales.py), the     *)
(* zh-CN drift gate in front of it (vlm/drift.py, upload/service.py) and   *)
(* its sanitizing (vlm/sanitize.py): operators that change no state.       *)
(*                                                                         *)
(* A text is a model value.  ModelTexts are written by the vision or the   *)
(* translation model, FriendTexts by a friend; a friend who types what the *)
(* model wrote has typed the model's text.  Sanitizing is the function San *)
(* and Drifting are the texts the gate refuses.  A mark is the field's     *)
(* entry of _meta: who wrote it and, for the model, the gate's verdict.    *)
(***************************************************************************)
CONSTANTS Fields, ModelTexts, FriendTexts, Blank, Absent, NoBlock, NoAnswer, San, Drifting

Texts == ModelTexts \cup FriendTexts \cup {Blank}
Marks == {"none", "human", "pass", "failed"}
Blocks == [text : [Fields -> Texts \cup {Absent}], meta : [Fields -> Marks]]

ASSUME TextsAssumption ==
    /\ ModelTexts \cap FriendTexts = {}
    /\ Blank \notin ModelTexts \cup FriendTexts
    /\ Absent \notin Texts
    /\ NoBlock \notin Blocks
    /\ NoAnswer \notin Blocks \cup {NoBlock}
    /\ Drifting \subseteq ModelTexts

(* Cleaning never turns the words of one author into those of the other. *)
ASSUME SanAssumption ==
    /\ San \in [Texts -> Texts]
    /\ San[Blank] = Blank
    /\ \A t \in ModelTexts : San[t] \in ModelTexts \cup {Blank}
    /\ \A t \in FriendTexts : San[t] \in FriendTexts \cup {Blank}

HasValue(b, f) == b.text[f] \notin {Absent, Blank}

(* What a page shows of a field: the block's text, else the English one. *)
Localize(b, f) == IF b # NoBlock /\ HasValue(b, f) THEN b.text[f] ELSE Absent

Drifted(b) == IF b = NoBlock THEN {} ELSE {f \in Fields : b.text[f] \in Drifting}

Stamped(b, fs, mark) ==
    [b EXCEPT !.meta = [f \in Fields |->
        IF f \in fs /\ HasValue(b, f) THEN mark ELSE b.meta[f]]]

(* The gate takes or drops a block as a whole; a dropped one leaves the    *)
(* marks of the fields that failed.                                        *)
Prepared(b) ==
    IF b = NoBlock THEN NoBlock
    ELSE IF Drifted(b) = {} THEN Stamped(b, Fields, "pass")
    ELSE [text |-> [f \in Fields |-> Absent],
          meta |-> [f \in Fields |-> IF f \in Drifted(b) THEN "failed" ELSE "none"]]

HasContent(b) == b # NoBlock /\ \E f \in Fields : HasValue(b, f)

(* One retry for a block that fails; a retry that fails too leaves the     *)
(* marks of the first.  "retry" is NoAnswer when that call failed.         *)
ResolvedUnchecked(first, retry) ==
    IF ~HasContent(first) THEN first
    ELSE IF Drifted(first) # {} /\ retry # NoAnswer
         THEN IF retry = NoBlock THEN NoBlock ELSE Stamped(retry, Fields, "pass")
    ELSE Prepared(first)
Resolved(first, retry) ==
    IF ~HasContent(first) THEN first
    ELSE IF Drifted(first) # {} /\ retry # NoAnswer /\ Drifted(retry) = {}
         THEN Prepared(retry)
    ELSE Prepared(first)

(* hard_sanitize_metadata: an emptied block is dropped. *)
SanitizedKeepsEmpty(b) ==
    IF b = NoBlock THEN NoBlock
    ELSE [b EXCEPT !.text = [f \in Fields |->
             IF b.text[f] = Absent THEN Absent ELSE San[b.text[f]]]]
Sanitized(b) ==
    IF b = NoBlock \/ \A f \in Fields : b.text[f] = Absent /\ b.meta[f] = "none"
    THEN NoBlock
    ELSE [b EXCEPT !.text = [f \in Fields |->
             IF b.text[f] = Absent THEN Absent ELSE San[b.text[f]]]]

(* Fields an approver changed are the friend's.  The comparison is with    *)
(* the sanitized proposal, because what comes in has been sanitized too.   *)
TextOf(b, f) == IF b = NoBlock THEN Absent ELSE b.text[f]
StampHumanEditsRaw(b, pending) ==
    IF b = NoBlock THEN NoBlock
    ELSE Stamped(b, {f \in Fields : b.text[f] # Absent /\ b.text[f] # TextOf(pending, f)},
                 "human")
StampHumanEdits(b, pending) ==
    IF b = NoBlock THEN NoBlock
    ELSE Stamped(b, {f \in Fields : /\ b.text[f] # Absent
                                    /\ b.text[f] # TextOf(Sanitized(pending), f)}, "human")

(* Human wins, machine fills; a field or block that does not come in stays. *)
HumanWins(stored, incoming, f) ==
    stored.meta[f] = "human" /\ incoming.meta[f] # "human"
MergeMachineLast(stored, incoming) ==
    IF incoming = NoBlock THEN stored
    ELSE IF stored = NoBlock THEN incoming
    ELSE [text |-> [f \in Fields |->
            IF incoming.text[f] = Absent THEN stored.text[f] ELSE incoming.text[f]],
          meta |-> [f \in Fields |->
            IF incoming.meta[f] = "none" \/ HumanWins(stored, incoming, f)
            THEN stored.meta[f] ELSE incoming.meta[f]]]
MergeReplacing(stored, incoming) ==
    IF stored = NoBlock \/ incoming = NoBlock THEN incoming
    ELSE [text |-> [f \in Fields |->
            IF incoming.text[f] = Absent \/ HumanWins(stored, incoming, f)
            THEN stored.text[f] ELSE incoming.text[f]],
          meta |-> [f \in Fields |->
            IF incoming.meta[f] = "none" \/ HumanWins(stored, incoming, f)
            THEN stored.meta[f] ELSE incoming.meta[f]]]
Merge(stored, incoming) ==
    IF incoming = NoBlock THEN stored
    ELSE IF stored = NoBlock THEN incoming
    ELSE [text |-> [f \in Fields |->
            IF incoming.text[f] = Absent \/ HumanWins(stored, incoming, f)
            THEN stored.text[f] ELSE incoming.text[f]],
          meta |-> [f \in Fields |->
            IF incoming.meta[f] = "none" \/ HumanWins(stored, incoming, f)
            THEN stored.meta[f] ELSE incoming.meta[f]]]
=============================================================================
