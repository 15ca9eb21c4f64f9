-------------------------- MODULE Templates_proofs --------------------------
(* Theorems about Locales and Templates, for any number of uploads, names,  *)
(* slugs, fields and texts.                                                 *)
EXTENDS Templates, TLAPS

-----------------------------------------------------------------------------
(* Blocks as the model sends them and as the table keeps them.              *)

(* Of the model, past the gate, and not marked as a friend's.               *)
CleanBlocks ==
    {b \in Blocks : \A f \in Fields : /\ b.text[f] \in (ModelTexts \ Drifting) \cup {Blank, Absent}
                                      /\ b.meta[f] # "human"}

(* Sanitized, with a true mark and a text that may be shown.                *)
GoodBlocks ==
    {b \in Filled : \A f \in Fields :
        /\ b.text[f] \in FriendTexts \cup Gated \cup {Blank, Absent}
        /\ b.meta[f] = "human" <=> b.text[f] \in FriendTexts}

(* A block is its texts and its marks.                                      *)
LEMMA BlockFields ==
    ASSUME NEW b \in Blocks
    PROVE  /\ b.text \in [Fields -> Texts \cup {Absent}] /\ b.meta \in [Fields -> Marks]
           /\ b = [text |-> b.text, meta |-> b.meta]
           /\ b # NoBlock
    BY TextsAssumption DEF Blocks

(* Texts have one author, and what is gated is the model's.                 *)
LEMMA Authors ==
    /\ FriendTexts \cap (ModelTexts \cup {Blank, Absent}) = {}
    /\ Gated \subseteq ModelTexts \cup {Blank}
    /\ \A t \in (ModelTexts \ Drifting) \cup {Blank} : San[t] \in Gated \cup {Blank}
    /\ \A t \in FriendTexts : San[t] \in FriendTexts \cup {Blank}
    /\ \A t \in Texts : San[t] \in Texts
    /\ Absent \notin Texts
    BY TextsAssumption, SanAssumption DEF Gated, Texts

LEMMA StampedBlock ==
    ASSUME NEW b \in Blocks, NEW fs, NEW mark \in Marks
    PROVE  /\ Stamped(b, fs, mark) \in Blocks
           /\ Stamped(b, fs, mark).text = b.text
           /\ \A f \in Fields : Stamped(b, fs, mark).meta[f] =
                  IF f \in fs /\ HasValue(b, f) THEN mark ELSE b.meta[f]
<1> DEFINE meta == [f \in Fields |-> IF f \in fs /\ HasValue(b, f) THEN mark ELSE b.meta[f]]
<1>1. meta \in [Fields -> Marks]
    BY BlockFields
<1>2. Stamped(b, fs, mark) = [text |-> b.text, meta |-> meta]
    BY BlockFields DEF Stamped
<1> QED
    BY <1>1, <1>2, BlockFields DEF Blocks

(* Sanitizing drops an empty block and cleans each text of another.         *)
LEMMA SanitizedBlock ==
    ASSUME NEW b \in Blocks \cup {NoBlock}
    PROVE  /\ Sanitized(b) \in Filled \cup {NoBlock}
           /\ Sanitized(b) # NoBlock =>
                /\ b \in Blocks
                /\ \A f \in Fields :
                     /\ Sanitized(b).text[f] = IF b.text[f] = Absent THEN Absent
                                               ELSE San[b.text[f]]
                     /\ Sanitized(b).meta[f] = b.meta[f]
           /\ Sanitized(b) = NoBlock => \A f \in Fields : b = NoBlock \/ b.text[f] = Absent
<1>1. CASE b = NoBlock \/ \A f \in Fields : b.text[f] = Absent /\ b.meta[f] = "none"
    BY <1>1 DEF Sanitized
<1>2. CASE ~(b = NoBlock \/ \A f \in Fields : b.text[f] = Absent /\ b.meta[f] = "none")
    <2> DEFINE text == [f \in Fields |-> IF b.text[f] = Absent THEN Absent ELSE San[b.text[f]]]
    <2>1. b \in Blocks
        BY <1>2
    <2>2. text \in [Fields -> Texts \cup {Absent}]
        BY <2>1, BlockFields, Authors
    <2>3. Sanitized(b) = [text |-> text, meta |-> b.meta]
        BY <1>2, <2>1, BlockFields DEF Sanitized
    <2>4. Sanitized(b) \in Blocks /\ Sanitized(b) # NoBlock
        BY <2>1, <2>2, <2>3, BlockFields DEF Blocks
    <2>5. PICK f \in Fields : b.text[f] # Absent \/ b.meta[f] # "none"
        BY <1>2
    <2>6. b.text[f] # Absent => San[b.text[f]] # Absent
        BY <2>1, BlockFields, Authors
    <2>7. text[f] # Absent \/ b.meta[f] # "none"
        BY <2>5, <2>6
    <2>8. Sanitized(b).text = text /\ Sanitized(b).meta = b.meta
        BY <2>3
    <2>9. Sanitized(b) \in Filled
        BY <2>4, <2>7, <2>8 DEF Filled
    <2> QED
        BY <2>1, <2>4, <2>8, <2>9
<1> QED
    BY <1>1, <1>2

(* What the model sent is good once it is sanitized.                        *)
LEMMA CleanSanitized ==
    ASSUME NEW b \in CleanBlocks \cup {NoBlock}
    PROVE  Sanitized(b) \in GoodBlocks \cup {NoBlock}
<1>1. b \in Blocks \cup {NoBlock}
    BY DEF CleanBlocks
<1>2. CASE Sanitized(b) # NoBlock
    <2>1. b \in CleanBlocks /\ Sanitized(b) \in Filled
        BY <1>1, <1>2, SanitizedBlock, BlockFields
    <2>2. ASSUME NEW f \in Fields
          PROVE  /\ Sanitized(b).text[f] \in Gated \cup {Blank, Absent}
                 /\ Sanitized(b).meta[f] # "human"
        BY <1>1, <1>2, <2>1, SanitizedBlock, Authors DEF CleanBlocks
    <2> QED
        BY <2>1, <2>2, Authors DEF GoodBlocks
<1> QED
    BY <1>2

-----------------------------------------------------------------------------
(* What the models answer.                                                  *)

LEMMA DraftBlock ==
    ASSUME NEW t \in [Fields -> ModelTexts \cup {Blank, Absent}]
    PROVE  Draft(t) \in Blocks /\ Draft(t).text = t /\ \A f \in Fields : Draft(t).meta[f] = "none"
    BY DEF Draft, Blocks, Texts, Marks

LEMMA PreparedClean ==
    ASSUME NEW b \in Proposals
    PROVE  Prepared(b) \in CleanBlocks \cup {NoBlock}
<1>1. CASE b = NoBlock
    BY <1>1 DEF Prepared
<1>2. CASE b # NoBlock
    <2>1. /\ b \in Blocks /\ \A f \in Fields : /\ b.text[f] \in ModelTexts \cup {Blank, Absent}
                                               /\ b.meta[f] = "none"
        BY <1>2, DraftBlock DEF Proposals
    <2>2. CASE Drifted(b) = {}
        <3>1. Prepared(b) = Stamped(b, Fields, "pass") /\ "pass" \in Marks
            BY <1>2, <2>2 DEF Prepared, Marks
        <3>2. \A f \in Fields : b.text[f] \notin Drifting
            BY <1>2, <2>2 DEF Drifted
        <3>3. /\ Prepared(b) \in Blocks /\ Prepared(b).text = b.text
              /\ \A f \in Fields : Prepared(b).meta[f] \in {"pass", "none"}
            BY <2>1, <3>1, StampedBlock
        <3> QED
            BY <2>1, <3>2, <3>3 DEF CleanBlocks
    <2>3. CASE Drifted(b) # {}
        BY <1>2, <2>3 DEF Prepared, CleanBlocks, Blocks, Marks
    <2> QED
        BY <2>2, <2>3
<1> QED
    BY <1>1, <1>2

(* Whatever the vision model answers, first and asked again, what waits for *)
(* its approval has passed the gate.                                        *)
LEMMA AnswersClean == Answers \subseteq CleanBlocks \cup {NoBlock}
<1> SUFFICES ASSUME NEW first \in Proposals, NEW retry \in Proposals \cup {NoAnswer}
             PROVE  Resolved(first, retry) \in CleanBlocks \cup {NoBlock}
    BY DEF Answers
<1>1. CASE first = NoBlock
    BY <1>1 DEF Resolved, HasContent
<1>2. CASE first # NoBlock /\ ~HasContent(first)
    <2>1. /\ first \in Blocks /\ \A f \in Fields : first.meta[f] = "none"
          /\ \A f \in Fields : first.text[f] \in {Blank, Absent}
        BY <1>2, DraftBlock DEF Proposals, HasContent, HasValue
    <2>2. first \in CleanBlocks
        BY <2>1 DEF CleanBlocks
    <2> QED
        BY <1>2, <2>2 DEF Resolved
<1>3. CASE HasContent(first)
    BY <1>3, PreparedClean DEF Resolved
<1> QED
    BY <1>1, <1>2, <1>3 DEF HasContent

LEMMA TranslationsClean == Translations \subseteq CleanBlocks \cup {NoBlock}
<1> SUFFICES ASSUME NEW a \in ModelAnswers, NEW b \in ModelAnswers,
                    Translated(a, b) # [f \in Fields |-> Absent]
             PROVE  Draft(Translated(a, b)) \in CleanBlocks \cup {NoBlock}
    BY DEF Translations
<1> DEFINE t == Translated(a, b)
<1>1. \A f \in Fields : t[f] \in (ModelTexts \ Drifting) \cup {Blank, Absent}
    BY TextsAssumption DEF Translated, ModelAnswers
<1>2. t \in [Fields -> ModelTexts \cup {Blank, Absent}]
    BY <1>1 DEF Translated
<1> HIDE DEF t
<1> QED
    BY <1>1, <1>2, DraftBlock DEF CleanBlocks, t

-----------------------------------------------------------------------------
(* What an approval sends, and what merging makes of it.                    *)

(* A friend's text differs from what was shown, so it is stamped; the       *)
(* model's, as shown, is not.                                               *)
LEMMA IncomingGood ==
    ASSUME NEW b \in CleanBlocks \cup {NoBlock}, NEW p \in Payloads
    PROVE  Incoming(b, p) \in GoodBlocks \cup {NoBlock}
<1>1. CASE p.kind = "none"
    BY <1>1, CleanSanitized DEF Incoming
<1>2. CASE p.kind = "no locales"
    BY <1>2 DEF Incoming, Sent, Sanitized, StampHumanEdits
<1>3. CASE p.kind = "block"
    <2> DEFINE c == Sent(b, p)
    <2> DEFINE d == Sanitized(c)
    <2> DEFINE e == StampHumanEdits(d, b)
    <2>1. /\ p.edit \in [Fields -> FriendTexts \cup {Blank, Keep}] /\ p.meta \in BOOLEAN
        BY <1>3 DEF Payloads
    <2>2. \A f \in Fields :
              /\ TextOf(b, f) \in (ModelTexts \ Drifting) \cup {Blank, Absent}
              /\ b # NoBlock => b.meta[f] \in Marks \ {"human"}
        BY BlockFields DEF TextOf, CleanBlocks
    <2>3. /\ c \in Blocks
          /\ \A f \in Fields :
               /\ c.text[f] = TextOf(b, f) \/ c.text[f] \in FriendTexts \cup {Blank}
               /\ c.meta[f] # "human"
        BY <1>3, <2>1, <2>2 DEF Sent, Blocks, Texts, Marks
    <2> HIDE DEF c
    <2>4. /\ d \in Filled \cup {NoBlock}
          /\ d # NoBlock => \A f \in Fields :
               /\ d.text[f] = IF c.text[f] = Absent THEN Absent ELSE San[c.text[f]]
               /\ d.meta[f] # "human"
        BY <2>3, SanitizedBlock
    <2>5. \A f \in Fields : TextOf(Sanitized(b), f) =
              IF TextOf(b, f) = Absent THEN Absent ELSE San[TextOf(b, f)]
        <3>1. b \in Blocks \cup {NoBlock}
            BY DEF CleanBlocks
        <3>2. CASE Sanitized(b) = NoBlock
            BY <3>1, <3>2, SanitizedBlock DEF TextOf
        <3>3. CASE Sanitized(b) # NoBlock
            BY <3>1, <3>3, SanitizedBlock, BlockFields DEF TextOf
        <3> QED
            BY <3>2, <3>3
    <2> HIDE DEF d
    <2>6. CASE d = NoBlock
        BY <1>3, <2>6 DEF Incoming, StampHumanEdits, c, d
    <2>7. CASE d # NoBlock
        <3> DEFINE edited == {f \in Fields : /\ d.text[f] # Absent
                                             /\ d.text[f] # TextOf(Sanitized(b), f)}
        <3>1. Incoming(b, p) = Stamped(d, edited, "human") /\ "human" \in Marks
            BY <1>3, <2>7 DEF Incoming, StampHumanEdits, c, d, Marks
        <3>2. d \in Blocks /\ d \in Filled
            BY <2>4, <2>7 DEF Filled
        <3> HIDE DEF edited
        <3>3. /\ Incoming(b, p) \in Blocks /\ Incoming(b, p).text = d.text
              /\ \A f \in Fields : Incoming(b, p).meta[f] =
                     IF f \in edited /\ HasValue(d, f) THEN "human" ELSE d.meta[f]
            BY <3>1, <3>2, StampedBlock
        <3>4. ASSUME NEW f \in Fields
              PROVE  /\ d.text[f] \in FriendTexts \cup Gated \cup {Blank, Absent}
                     /\ Incoming(b, p).meta[f] = "human" <=> d.text[f] \in FriendTexts
            <4>1. CASE c.text[f] \in FriendTexts
                <5>1. d.text[f] \in FriendTexts \cup {Blank}
                    BY <2>4, <2>7, <4>1, Authors
                <5>2. TextOf(Sanitized(b), f) \notin FriendTexts
                    BY <2>2, <2>5, Authors
                <5>3. d.text[f] \in FriendTexts => f \in edited /\ HasValue(d, f)
                    BY <5>2, Authors DEF edited, HasValue
                <5>4. d.text[f] = Blank => ~HasValue(d, f)
                    BY DEF HasValue
                <5> QED
                    BY <2>4, <2>7, <3>3, <5>1, <5>3, <5>4, Authors
            <4>2. CASE c.text[f] = Blank
                <5>1. d.text[f] = Blank /\ ~HasValue(d, f)
                    BY <2>4, <2>7, <4>2, TextsAssumption, SanAssumption DEF HasValue, Texts
                <5> QED
                    BY <2>4, <2>7, <3>3, <5>1, Authors
            <4>3. CASE c.text[f] = TextOf(b, f)
                <5>1. d.text[f] = TextOf(Sanitized(b), f)
                    BY <2>4, <2>5, <2>7, <4>3
                <5>2. d.text[f] \in Gated \cup {Blank, Absent}
                    BY <2>2, <2>4, <2>7, <4>3, Authors
                <5>3. f \notin edited
                    BY <5>1 DEF edited
                <5> QED
                    BY <2>4, <2>7, <3>3, <5>2, <5>3, Authors
            <4> QED
                BY <2>3, <4>1, <4>2, <4>3
        <3>5. Incoming(b, p) \in Filled
            <4>1. PICK f \in Fields : d.text[f] # Absent \/ d.meta[f] # "none"
                BY <3>2 DEF Filled
            <4>2. Incoming(b, p).text[f] # Absent \/ Incoming(b, p).meta[f] # "none"
                BY <3>3, <4>1
            <4> QED
                BY <3>3, <4>2 DEF Filled
        <3> QED
            BY <3>3, <3>4, <3>5 DEF GoodBlocks
    <2> QED
        BY <2>6, <2>7
<1> QED
    BY <1>1, <1>2, <1>3 DEF Payloads

(* A merge leaves every field with what one of the two had, text and mark   *)
(* together.                                                                *)
LEMMA MergedFields ==
    ASSUME NEW a \in Blocks, NEW b \in Blocks
    PROVE  /\ Merge(a, b) \in Blocks
           /\ \A f \in Fields :
                /\ Merge(a, b).text[f] = IF b.text[f] = Absent \/ HumanWins(a, b, f)
                                         THEN a.text[f] ELSE b.text[f]
                /\ Merge(a, b).meta[f] = IF b.meta[f] = "none" \/ HumanWins(a, b, f)
                                         THEN a.meta[f] ELSE b.meta[f]
<1> DEFINE text == [f \in Fields |-> IF b.text[f] = Absent \/ HumanWins(a, b, f)
                                     THEN a.text[f] ELSE b.text[f]]
<1> DEFINE meta == [f \in Fields |-> IF b.meta[f] = "none" \/ HumanWins(a, b, f)
                                     THEN a.meta[f] ELSE b.meta[f]]
<1>1. text \in [Fields -> Texts \cup {Absent}] /\ meta \in [Fields -> Marks]
    BY BlockFields
<1>2. Merge(a, b) = [text |-> text, meta |-> meta]
    BY BlockFields DEF Merge
<1> QED
    BY <1>1, <1>2 DEF Blocks

LEMMA MergeGood ==
    ASSUME NEW a \in GoodBlocks \cup {NoBlock}, NEW b \in GoodBlocks \cup {NoBlock}
    PROVE  Merge(a, b) \in GoodBlocks \cup {NoBlock}
<1>1. CASE a = NoBlock \/ b = NoBlock
    BY <1>1 DEF Merge
<1>2. CASE a # NoBlock /\ b # NoBlock
    <2>1. a \in Blocks /\ b \in Blocks /\ a \in GoodBlocks /\ b \in GoodBlocks
        BY <1>2 DEF GoodBlocks, Filled
    <2>2. ASSUME NEW f \in Fields
          PROVE  /\ Merge(a, b).text[f] \in FriendTexts \cup Gated \cup {Blank, Absent}
                 /\ Merge(a, b).meta[f] = "human" <=> Merge(a, b).text[f] \in FriendTexts
        BY <2>1, MergedFields, Authors DEF GoodBlocks, HumanWins
    <2>3. PICK f \in Fields : b.text[f] # Absent \/ b.meta[f] # "none"
        BY <2>1 DEF GoodBlocks, Filled
    <2>4. Merge(a, b).text[f] # Absent \/ Merge(a, b).meta[f] # "none"
        BY <2>1, <2>3, MergedFields DEF HumanWins
    <2>5. Merge(a, b) \in Filled
        BY <2>1, <2>4, MergedFields DEF Filled
    <2> QED
        BY <2>2, <2>5 DEF GoodBlocks
<1> QED
    BY <1>1, <1>2

-----------------------------------------------------------------------------
(* Types.  The invariant is TypeOK with the blocks' sets narrowed: what     *)
(* waits for approval or translation is clean, what is stored is good.      *)

CleanOverlays == [Slugs -> CleanBlocks \cup {NoBlock}]

UploadsTyped ==
    /\ upload \in [Uploads -> [status : {"none", "analyzing", "pending", "gone"},
                               block : CleanBlocks \cup {NoBlock}]]
    /\ friendRow \in [Names -> GoodBlocks \cup {NoBlock, NoRow}]

OverlayTyped ==
    /\ overlay \in [file : {"absent", "torn", "whole"}, blocks : CleanOverlays]
    /\ translator \in [pc : {"idle", "asking", "writing"}, prior : CleanOverlays]
    /\ lastOverlay \in CleanOverlays

CorpusTyped ==
    /\ upstream \in 1 .. MaxVersion
    /\ corpusRow \in [Slugs -> [image : 0 .. MaxVersion, block : GoodBlocks \cup {NoBlock}]
                               \cup {NoRow}]
    /\ manifest \in [commit : 0 .. MaxVersion, hashes : Hashes]
    /\ seeder \in [pc : {"idle", "import", "plain"}, commit : 0 .. MaxVersion,
                   todo : SUBSET Slugs, overlay : CleanOverlays, hashes : Hashes]

Typed ==
    /\ UploadsTyped /\ OverlayTyped /\ CorpusTyped
    /\ marks \in Marked

LEMMA EmptyTypes ==
    /\ NoTranslation \in CleanOverlays
    /\ Asleep \in [pc : {"idle", "asking", "writing"}, prior : CleanOverlays]
    /\ Idle \in [pc : {"idle", "import", "plain"}, commit : 0 .. MaxVersion,
                 todo : SUBSET Slugs, overlay : CleanOverlays, hashes : Hashes]
    /\ 0 \in 0 .. MaxVersion /\ 1 \in 1 .. MaxVersion
    /\ \A v \in 1 .. MaxVersion : v \in 0 .. MaxVersion
<1>1. NoTranslation \in CleanOverlays
    BY DEF NoTranslation, CleanOverlays
<1>2. 0 \in 0 .. MaxVersion /\ 1 \in 1 .. MaxVersion
      /\ \A v \in 1 .. MaxVersion : v \in 0 .. MaxVersion
    BY VersionAssumption
<1>3. {} \in Hashes
    BY DEF Hashes
<1> QED
    BY <1>1, <1>2, <1>3 DEF Asleep, Idle

LEMMA InitTyped == Init => Typed
    BY EmptyTypes DEF Init, Typed, UploadsTyped, OverlayTyped, CorpusTyped, Hashes, Marked

LEMMA UploadStep ==
    ASSUME Typed, NEW u \in Uploads, StartAnalysis(u) \/ FinishAnalysis(u) \/ ServerDies
    PROVE  Typed'
<1>1. UNCHANGED <<friendRow, overlayVars, importVars, marks>>
    BY DEF StartAnalysis, FinishAnalysis, ServerDies
<1>2. UploadsTyped'
    <2>1. CASE StartAnalysis(u)
        BY <2>1 DEF StartAnalysis, Typed, UploadsTyped
    <2>2. CASE FinishAnalysis(u)
        BY <2>2, AnswersClean DEF FinishAnalysis, Typed, UploadsTyped
    <2>3. CASE ServerDies
        BY <2>3 DEF ServerDies, Typed, UploadsTyped
    <2> QED
        BY <2>1, <2>2, <2>3
<1> QED
    BY <1>1, <1>2 DEF Typed, OverlayTyped, CorpusTyped, overlayVars, importVars

LEMMA ApproveStep ==
    ASSUME Typed, NEW u \in Uploads, NEW n \in Names, NEW p \in Payloads, NEW dies \in BOOLEAN,
           Approve(u, n, p, dies)
    PROVE  /\ Typed'
           /\ Stored(friendRow[n]) \in GoodBlocks \cup {NoBlock}
           /\ Incoming(upload[u].block, p) \in GoodBlocks \cup {NoBlock}
<1>1. Incoming(upload[u].block, p) \in GoodBlocks \cup {NoBlock}
    BY IncomingGood DEF Typed, UploadsTyped
<1>2. Stored(friendRow[n]) \in GoodBlocks \cup {NoBlock}
    BY DEF Stored, Typed, UploadsTyped
<1>3. Merge(Stored(friendRow[n]), Incoming(upload[u].block, p)) \in GoodBlocks \cup {NoBlock}
    BY <1>1, <1>2, MergeGood
<1>4. UploadsTyped'
    BY <1>3 DEF Approve, Typed, UploadsTyped
<1> QED
    BY <1>1, <1>2, <1>4 DEF Approve, Typed, OverlayTyped, CorpusTyped, overlayVars, importVars

LEMMA TranslateStep ==
    ASSUME Typed, TranslateStart \/ TranslateTruncate \/ TranslateWrite \/ TranslateDies
    PROVE  Typed'
<1>1. UNCHANGED <<friendVars, importVars>> /\ marks' \in Marked
    BY DEF TranslateStart, TranslateTruncate, TranslateWrite, TranslateDies, Typed, Marked
<1>2. OverlayTyped'
    <2>1. CASE TranslateStart
        BY <2>1, EmptyTypes DEF TranslateStart, ReadFile, Typed, OverlayTyped
    <2>2. CASE TranslateTruncate
        BY <2>2, EmptyTypes DEF TranslateTruncate, Typed, OverlayTyped
    <2>3. CASE TranslateWrite
        BY <2>3, EmptyTypes, TranslationsClean
           DEF TranslateWrite, Typed, OverlayTyped, CleanOverlays
    <2>4. CASE TranslateDies
        BY <2>4, EmptyTypes DEF TranslateDies, Typed, OverlayTyped
    <2> QED
        BY <2>1, <2>2, <2>3, <2>4
<1> QED
    BY <1>1, <1>2 DEF Typed, UploadsTyped, CorpusTyped, friendVars, importVars

(* The overlay's block as it is merged: no blank field, every text marked.  *)
LEMMA AttachedBlock ==
    ASSUME NEW b \in Blocks \cup {NoBlock}, HasContent(b)
    PROVE  /\ b \in Blocks /\ Attached(b) \in Blocks
           /\ \A f \in Fields :
                /\ Attached(b).text[f] = IF HasValue(b, f) THEN b.text[f] ELSE Absent
                /\ Attached(b).meta[f] \in {"pass", b.meta[f]}
<1> DEFINE c == [b EXCEPT !.text = [f \in Fields |->
                    IF HasValue(b, f) THEN b.text[f] ELSE Absent]]
<1>1. b \in Blocks
    BY DEF HasContent
<1>2. c = [text |-> [f \in Fields |-> IF HasValue(b, f) THEN b.text[f] ELSE Absent],
           meta |-> b.meta]
    BY <1>1, BlockFields
<1>3. c \in Blocks
    BY <1>1, <1>2, BlockFields DEF Blocks
<1>4. Attached(b) = Stamped(c, Fields, "pass") /\ "pass" \in Marks
    BY DEF Attached, Marks
<1>5. c.meta = b.meta /\ c.text = [f \in Fields |-> IF HasValue(b, f) THEN b.text[f] ELSE Absent]
    BY <1>2
<1> HIDE DEF c
<1> QED
    BY <1>1, <1>3, <1>4, <1>5, StampedBlock

(* What an import merges into a row.                                        *)
LEMMA ImportedGood ==
    ASSUME Typed, NEW s \in Slugs
    PROVE  /\ StoredCorpus(s) \in GoodBlocks \cup {NoBlock}
           /\ Sanitized(Attached(seeder.overlay[s])) \in GoodBlocks \cup {NoBlock}
           /\ Merge(StoredCorpus(s), Sanitized(Attached(seeder.overlay[s])))
                  \in GoodBlocks \cup {NoBlock}
<1> DEFINE b == seeder.overlay[s]
<1>1. b \in CleanBlocks \cup {NoBlock}
    BY DEF Typed, CorpusTyped, CleanOverlays
<1> HIDE DEF b
<1>2. Attached(b) \in CleanBlocks \cup {NoBlock}
    <2>1. CASE ~HasContent(b)
        BY <2>1 DEF Attached
    <2>2. CASE HasContent(b)
        <3>1. b \in Blocks /\ b \in CleanBlocks
            BY <1>1, <2>2 DEF HasContent, CleanBlocks
        <3>2. /\ Attached(b) \in Blocks
              /\ \A f \in Fields :
                   /\ Attached(b).text[f] \in {b.text[f], Absent}
                   /\ Attached(b).meta[f] \in {"pass", b.meta[f]}
            BY <2>2, <3>1, AttachedBlock
        <3> QED
            BY <3>1, <3>2 DEF CleanBlocks
    <2> QED
        BY <2>1, <2>2
<1>3. Sanitized(Attached(b)) \in GoodBlocks \cup {NoBlock}
    BY <1>2, CleanSanitized
<1>4. StoredCorpus(s) \in GoodBlocks \cup {NoBlock}
    BY DEF StoredCorpus, Typed, CorpusTyped
<1> QED
    BY <1>3, <1>4, MergeGood DEF b

LEMMA SeederStep ==
    ASSUME Typed, Pull \/ ImportStart \/ ImportDone \/ PlainStart \/ SeedDies
    PROVE  Typed'
<1>1. UNCHANGED <<friendVars, overlayVars>> /\ marks' \in Marked
    BY DEF Pull, ImportStart, ImportDone, PlainStart, SeedDies, Typed, Marked
<1>2. CorpusTyped'
    <2>1. CASE Pull
        BY <2>1, VersionAssumption DEF Pull, Typed, CorpusTyped
    <2>2. CASE ImportStart
        <3>1. ReadFile \in CleanOverlays /\ Listing[upstream] \in SUBSET Slugs
              /\ upstream \in 0 .. MaxVersion /\ {} \in Hashes
            BY EmptyTypes, VersionAssumption DEF ReadFile, Typed, OverlayTyped, CorpusTyped, Hashes
        <3> QED
            BY <2>2, <3>1 DEF ImportStart, Typed, CorpusTyped
    <2>3. CASE ImportDone
        BY <2>3, EmptyTypes DEF ImportDone, Typed, CorpusTyped
    <2>4. CASE PlainStart
        BY <2>4, EmptyTypes DEF PlainStart, Typed, CorpusTyped
    <2>5. CASE SeedDies
        BY <2>5, EmptyTypes DEF SeedDies, Typed, CorpusTyped
    <2> QED
        BY <2>1, <2>2, <2>3, <2>4, <2>5
<1> QED
    BY <1>1, <1>2 DEF Typed, UploadsTyped, OverlayTyped, friendVars, overlayVars

LEMMA SlugStep ==
    ASSUME Typed, NEW s \in Slugs, ImportSlug(s) \/ PlainSlug(s)
    PROVE  Typed'
<1>1. UNCHANGED <<friendVars, overlayVars, upstream, manifest>>
      /\ marks' \in Marked
    BY DEF ImportSlug, PlainSlug, Typed, Marked
<1>2. CASE ImportSlug(s)
    <2>1. upstream \in 0 .. MaxVersion /\ <<s, upstream>> \in Slugs \X (1 .. MaxVersion)
        BY EmptyTypes DEF Typed, CorpusTyped
    <2>2. corpusRow' \in [Slugs -> [image : 0 .. MaxVersion, block : GoodBlocks \cup {NoBlock}]
                                   \cup {NoRow}]
        BY <1>2, <2>1, ImportedGood DEF ImportSlug, Typed, CorpusTyped
    <2>3. seeder.hashes \cup {<<s, upstream>>} \in Hashes
        BY <2>1 DEF Typed, CorpusTyped, Hashes
    <2>4. seeder' \in [pc : {"idle", "import", "plain"}, commit : 0 .. MaxVersion,
                       todo : SUBSET Slugs, overlay : CleanOverlays, hashes : Hashes]
        <3>1. \/ seeder' = [seeder EXCEPT !.todo = @ \ {s}, !.hashes = @ \cup {<<s, upstream>>}]
              \/ seeder' = [seeder EXCEPT !.todo = @ \ {s}]
            BY <1>2 DEF ImportSlug
        <3> QED
            BY <2>3, <3>1 DEF Typed, CorpusTyped
    <2> QED
        BY <1>1, <2>2, <2>4 DEF Typed, UploadsTyped, OverlayTyped, CorpusTyped, friendVars,
                                overlayVars
<1>3. CASE PlainSlug(s)
    BY <1>1, <1>3, EmptyTypes
       DEF PlainSlug, Typed, UploadsTyped, OverlayTyped, CorpusTyped, friendVars, overlayVars
<1> QED
    BY <1>2, <1>3

LEMMA NextTyped == Typed /\ [Next]_vars => Typed'
<1> SUFFICES ASSUME Typed, [Next]_vars
             PROVE  Typed'
    OBVIOUS
<1>1. CASE UNCHANGED vars
    BY <1>1 DEF vars, friendVars, overlayVars, importVars, Typed, UploadsTyped, OverlayTyped,
                CorpusTyped
<1>2. CASE ServerDies
    <2>1. CASE Uploads = {}
        BY <1>2, <2>1 DEF ServerDies
    <2>2. CASE Uploads # {}
        BY <1>2, <2>2, UploadStep
    <2> QED
        BY <2>1, <2>2
<1>3. ASSUME NEW u \in Uploads, StartAnalysis(u) \/ FinishAnalysis(u)
      PROVE  Typed'
    BY <1>3, UploadStep
<1>4. ASSUME NEW u \in Uploads, NEW n \in Names, NEW p \in Payloads, NEW dies \in BOOLEAN,
             Approve(u, n, p, dies)
      PROVE  Typed'
    BY <1>4, ApproveStep
<1>5. ASSUME NEW s \in Slugs, ImportSlug(s) \/ PlainSlug(s)
      PROVE  Typed'
    BY <1>5, SlugStep
<1> QED
    BY <1>1, <1>2, <1>3, <1>4, <1>5, TranslateStep, SeederStep DEF Next, UploadNext, CorpusNext

LEMMA SpecTyped == Spec => []Typed
    BY InitTyped, NextTyped, PTL DEF Spec

-----------------------------------------------------------------------------
(* The theorems about blocks.                                               *)

(* Rows, files and commands are well typed, and no template holds an empty  *)
(* block (hard_sanitize_metadata, merge_locales).                           *)
THEOREM TypeCorrect == Spec => []TypeOK
<1>1. Typed => TypeOK
    <2>1. CleanBlocks \subseteq Blocks /\ GoodBlocks \subseteq Filled
        BY DEF CleanBlocks, GoodBlocks
    <2>2. CleanOverlays \subseteq Overlays
        BY <2>1 DEF CleanOverlays, Overlays
    <2> QED
        BY <2>1, <2>2 DEF Typed, UploadsTyped, OverlayTyped, CorpusTyped, TypeOK, UploadRows,
                          CorpusRows
<1> QED
    BY <1>1, SpecTyped, PTL

(* The mark of a stored field tells who wrote it                            *)
(* (_stamp_human_locale_edits, merge_locales).                              *)
THEOREM ProvenanceIsTrue == Spec => []ProvenanceTrue
<1>1. Typed => ProvenanceTrue
    <2> SUFFICES ASSUME Typed, NEW n \in Names, friendRow[n] \in Blocks
                 PROVE  friendRow[n] \in GoodBlocks
        BY DEF ProvenanceTrue, GoodBlocks
    <2> QED
        BY TextsAssumption, NoRowAssumption DEF Typed, UploadsTyped
<1> QED
    BY <1>1, SpecTyped, PTL

(* Nothing the drift gate refused is ever shown (_resolve_machine_locales,  *)
(* localized_metadata).                                                     *)
THEOREM ShownWasGated == Spec => []ShownIsGated
<1>1. \A b \in GoodBlocks \cup {NoBlock} : Presentable(b)
    BY DEF Presentable, Localize, HasValue, GoodBlocks
<1>2. Typed => ShownIsGated
    <2> SUFFICES ASSUME Typed
                 PROVE  ShownIsGated
        OBVIOUS
    <2>1. \A n \in Names : friendRow[n] \in Blocks => friendRow[n] \in GoodBlocks
        BY TextsAssumption, NoRowAssumption DEF Typed, UploadsTyped
    <2>2. \A s \in Slugs : corpusRow[s] # NoRow => corpusRow[s].block \in GoodBlocks \cup {NoBlock}
        BY DEF Typed, CorpusTyped
    <2> QED
        BY <1>1, <2>1, <2>2 DEF ShownIsGated
<1> QED
    BY <1>2, SpecTyped, PTL

(* A text that an import attaches is blank only if sanitizing empties it.   *)
LEMMA AttachedNotBlank ==
    ASSUME NEW o \in Blocks \cup {NoBlock}, NEW f \in Fields,
           o # NoBlock => o.text[f] \in (ModelTexts \ Drifting) \cup {Blank, Absent},
           TextOf(o, f) \notin Emptied, Sanitized(Attached(o)) # NoBlock
    PROVE  Sanitized(Attached(o)).text[f] # Blank
<1>1. HasContent(o)
    BY DEF Attached, Sanitized
<1>2. /\ o \in Blocks /\ Attached(o) \in Blocks
      /\ Attached(o).text[f] = IF HasValue(o, f) THEN o.text[f] ELSE Absent
    BY <1>1, AttachedBlock
<1>3. Sanitized(Attached(o)).text[f] = IF Attached(o).text[f] = Absent THEN Absent
                                       ELSE San[Attached(o).text[f]]
    BY <1>2, SanitizedBlock
<1>4. Absent # Blank
    BY TextsAssumption DEF Texts
<1>5. HasValue(o, f) => San[o.text[f]] # Blank
    BY <1>2, BlockFields DEF HasValue, TextOf, Emptied
<1> QED
    BY <1>2, <1>3, <1>4, <1>5

(* An import takes no translation from a page, but for a new text that      *)
(* sanitizing empties (import_upstream_corpus).                             *)
THEOREM ImportKeepsLocales == Spec => LocaleKept
<1> DEFINE Kept == \A s \in Slugs : \A f \in Fields :
                     (seeder.pc = "import" /\ corpusRow[s] # NoRow
                        /\ Localize(corpusRow[s].block, f) # Absent
                        /\ TextOf(seeder.overlay[s], f) \notin Emptied)
                     => Localize(corpusRow'[s].block, f) # Absent
<1>1. Typed /\ [Next]_vars => Kept
    <2> SUFFICES ASSUME Typed, [Next]_vars, seeder.pc = "import",
                        NEW s \in Slugs, NEW f \in Fields, corpusRow[s] # NoRow,
                        Localize(corpusRow[s].block, f) # Absent,
                        TextOf(seeder.overlay[s], f) \notin Emptied
                 PROVE  Localize(corpusRow'[s].block, f) # Absent
        OBVIOUS
    <2>1. CASE corpusRow' = corpusRow
        BY <2>1
    <2>2. ASSUME NEW r \in Slugs, ImportSlug(r), corpusRow' # corpusRow
          PROVE  Localize(corpusRow'[s].block, f) # Absent
        <3> DEFINE o == seeder.overlay[s]
        <3> DEFINE a == StoredCorpus(s)
        <3> DEFINE b == Sanitized(Attached(o))
        <3>1. CASE r # s
            BY <2>2, <3>1 DEF ImportSlug, Typed, CorpusTyped
        <3>2. CASE r = s
            <4>1. corpusRow'[s].block = Merge(a, b)
                BY <2>2, <3>2 DEF ImportSlug, Typed, CorpusTyped
            <4>2. /\ a \in GoodBlocks \cup {NoBlock} /\ b \in GoodBlocks \cup {NoBlock}
                  /\ Localize(a, f) # Absent
                BY ImportedGood DEF StoredCorpus
            <4>3. /\ o \in Blocks \cup {NoBlock}
                  /\ \A g \in Fields : o # NoBlock =>
                        o.text[g] \in (ModelTexts \ Drifting) \cup {Blank, Absent}
                BY DEF Typed, CorpusTyped, CleanOverlays, CleanBlocks
            <4>4. TextOf(o, f) \notin Emptied
                OBVIOUS
            <4> HIDE DEF o
            <4>5. b # NoBlock => b.text[f] # Blank
                BY <4>3, <4>4, AttachedNotBlank
            <4> HIDE DEF a, b
            <4>6. a \in Blocks /\ a # NoBlock /\ HasValue(a, f)
                BY <4>2 DEF Localize, GoodBlocks, Filled
            <4>7. CASE b = NoBlock
                BY <4>1, <4>2, <4>7 DEF Merge
            <4>8. CASE b # NoBlock
                <5>1. b \in Blocks
                    BY <4>2, <4>8 DEF GoodBlocks, Filled
                <5>2. HasValue(Merge(a, b), f) /\ Merge(a, b) \in Blocks
                    BY <4>5, <4>6, <4>8, <5>1, MergedFields DEF HasValue
                <5> QED
                    BY <4>1, <5>2, BlockFields DEF Localize, HasValue
            <4> QED
                BY <4>7, <4>8
        <3> QED
            BY <3>1, <3>2
    <2>3. corpusRow' = corpusRow \/ \E r \in Slugs : ImportSlug(r)
        BY DEF Next, UploadNext, CorpusNext, vars, importVars, StartAnalysis, FinishAnalysis,
               Approve, ServerDies, TranslateStart, TranslateTruncate, TranslateWrite,
               TranslateDies, Pull, ImportStart, ImportDone, PlainStart, SeedDies, PlainSlug
    <2> QED
        BY <2>1, <2>2, <2>3
<1> QED
    BY <1>1, SpecTyped, PTL DEF Spec, LocaleKept

-----------------------------------------------------------------------------
(* Templates implements Writers.                                            *)

(* Who wrote a field of a block.                                            *)
Author(b, f) ==
    IF b \notin Blocks THEN "nobody"
    ELSE IF ~HasValue(b, f) THEN "nobody"
    ELSE IF b.text[f] \in FriendTexts THEN "friend" ELSE "model"

(* A merge leaves a friend's field a friend's.                              *)
LEMMA MergeMoves ==
    ASSUME NEW a \in GoodBlocks \cup {NoBlock}, NEW b \in GoodBlocks \cup {NoBlock},
           NEW f \in Fields
    PROVE  Author(Merge(a, b), f) \in WritersOf!May(Author(a, f))
<1> USE DEF WritersOf!May
<1>1. CASE b = NoBlock
    BY <1>1 DEF Merge, Author
<1>2. CASE a = NoBlock
    BY <1>2, TextsAssumption DEF Author
<1>3. CASE a # NoBlock /\ b # NoBlock
    <2>1. a \in Blocks /\ b \in Blocks /\ a \in GoodBlocks /\ b \in GoodBlocks
        BY <1>3 DEF GoodBlocks, Filled
    <2>2. CASE Author(a, f) = "friend"
        <3>1. a.text[f] \in FriendTexts /\ a.meta[f] = "human"
            BY <2>1, <2>2 DEF Author, GoodBlocks
        <3>2. Merge(a, b).text[f] \in FriendTexts /\ Merge(a, b) \in Blocks
            BY <2>1, <3>1, MergedFields DEF HumanWins, GoodBlocks
        <3> QED
            BY <2>2, <3>2, Authors DEF Author, HasValue
    <2>3. CASE Author(a, f) # "friend"
        BY <2>3 DEF Author
    <2> QED
        BY <2>2, <2>3
<1> QED
    BY <1>1, <1>2, <1>3

(* What a friend wrote and approved stays a friend's text, neither cleared  *)
(* nor given back to the model, over any sequence of approvals, and an      *)
(* approval moves no other template's author (merge_locales).               *)
THEOREM ApprovalsKeepWriters == Spec => ImplementsWriters
<1>1. Init => WritersOf!Init
    BY NoRowAssumption DEF Init, WritersOf!Init, Writer
<1>2. Typed /\ [Next]_vars =>
          WritersOf!Next \/ UNCHANGED [n \in Names |-> [f \in Fields |-> Writer(n, f)]]
    <2> SUFFICES ASSUME Typed, [Next]_vars
                 PROVE  WritersOf!Next
                        \/ UNCHANGED [n \in Names |-> [f \in Fields |-> Writer(n, f)]]
        OBVIOUS
    <2>1. CASE UNCHANGED friendRow
        BY <2>1 DEF Writer
    <2>2. ASSUME NEW u \in Uploads, NEW n \in Names, NEW p \in Payloads, NEW dies \in BOOLEAN,
                 Approve(u, n, p, dies)
          PROVE  WritersOf!Approve(n)
        <3> DEFINE a == Stored(friendRow[n])
        <3> DEFINE b == Incoming(upload[u].block, p)
        <3>1. a \in GoodBlocks \cup {NoBlock} /\ b \in GoodBlocks \cup {NoBlock}
            BY <2>2, ApproveStep
        <3>2. friendRow' = [friendRow EXCEPT ![n] = Merge(a, b)]
            BY <2>2 DEF Approve
        <3>3. \A f \in Fields : Writer(n, f) = Author(a, f)
            BY TextsAssumption, NoRowAssumption DEF Writer, Author, Stored
        <3> HIDE DEF a, b
        <3>4. \A f \in Fields : Writer(n, f)' = Author(Merge(a, b), f)
            BY <3>2 DEF Writer, Author, Typed, UploadsTyped
        <3>5. \A f \in Fields : Writer(n, f)' \in WritersOf!May(Writer(n, f))
            BY <3>1, <3>3, <3>4, MergeMoves
        <3>6. \A m \in Names \ {n} : \A f \in Fields : Writer(m, f)' = Writer(m, f)
            BY <3>2 DEF Writer, Typed, UploadsTyped
        <3>7. \A m, f : Writer(m, f)' \in {"nobody", "model", "friend"}
            BY DEF Writer
        <3> QED
            BY <3>5, <3>6, <3>7 DEF WritersOf!Approve
    <2>3. UNCHANGED friendRow
          \/ \E u \in Uploads, n \in Names, p \in Payloads, dies \in BOOLEAN : Approve(u, n, p, dies)
        BY DEF Next, UploadNext, CorpusNext, vars, friendVars, StartAnalysis, FinishAnalysis,
               ServerDies, TranslateStart, TranslateTruncate, TranslateWrite, TranslateDies,
               Pull, ImportStart, ImportDone, PlainStart, SeedDies, PlainSlug, ImportSlug
    <2> QED
        BY <2>1, <2>2, <2>3 DEF WritersOf!Next
<1> QED
    BY <1>1, <1>2, SpecTyped, PTL DEF Spec, ImplementsWriters, WritersOf!Spec

-----------------------------------------------------------------------------
(* The overlay file and the manifest.                                       *)

(* The file holds what was last written, and a command what the file held,  *)
(* until one of them is killed over a torn file.                            *)
InFile ==
    \/ overlay.file = "whole" /\ overlay.blocks = lastOverlay
    \/ overlay.file = "absent" /\ lastOverlay = NoTranslation
OverlayInv ==
    /\ Typed
    /\ translator.pc = "writing" => overlay.file = "torn"
    /\ ~marks.torn =>
         /\ translator.pc # "writing" => InFile
         /\ translator.pc # "idle" => translator.prior = lastOverlay

LEMMA InitOverlay == Init => OverlayInv
    BY InitTyped DEF Init, OverlayInv, InFile, Asleep

LEMMA NextOverlay == OverlayInv /\ [Next]_vars => OverlayInv'
<1> SUFFICES ASSUME OverlayInv, [Next]_vars
             PROVE  OverlayInv'
    OBVIOUS
<1>1. Typed /\ Typed'
    BY NextTyped DEF OverlayInv
<1>2. CASE UNCHANGED overlayVars /\ marks'.torn = marks.torn
    BY <1>1, <1>2 DEF OverlayInv, InFile, overlayVars
<1>3. CASE TranslateStart
    <2>1. ~marks.torn /\ translator.pc = "idle" => ReadFile = lastOverlay
        BY DEF OverlayInv, InFile, ReadFile
    <2> QED
        BY <1>1, <1>3, <2>1 DEF TranslateStart, OverlayInv, InFile
<1>4. CASE TranslateTruncate
    BY <1>1, <1>4 DEF TranslateTruncate, OverlayInv, InFile, Typed, OverlayTyped
<1>5. CASE TranslateWrite
    BY <1>1, <1>5 DEF TranslateWrite, OverlayInv, InFile, Asleep
<1>6. CASE TranslateDies
    <2>1. ~marks'.torn => ~marks.torn /\ overlay.file # "torn"
        BY <1>1, <1>6 DEF TranslateDies, Typed, Marked
    <2> QED
        BY <1>1, <1>6, <2>1 DEF TranslateDies, OverlayInv, InFile, Asleep
<1>7. \/ TranslateStart \/ TranslateTruncate \/ TranslateWrite \/ TranslateDies
      \/ UNCHANGED overlayVars /\ marks'.torn = marks.torn
    <2>1. CASE UploadNext \/ UNCHANGED vars
        BY <2>1 DEF UploadNext, vars, StartAnalysis, FinishAnalysis, Approve, ServerDies
    <2>2. CASE Pull \/ ImportStart \/ ImportDone \/ PlainStart \/ SeedDies
        BY <1>1, <2>2 DEF Pull, ImportStart, ImportDone, PlainStart, SeedDies, Typed, Marked
    <2>3. CASE \E s \in Slugs : ImportSlug(s) \/ PlainSlug(s)
        BY <1>1, <2>3 DEF ImportSlug, PlainSlug, Typed, Marked
    <2> QED
        BY <2>1, <2>2, <2>3 DEF Next, CorpusNext
<1> QED
    BY <1>2, <1>3, <1>4, <1>5, <1>6, <1>7

(* Translating again only fills missing slugs, unless it was once killed    *)
(* over a torn file (translate_corpus).                                     *)
THEOREM OverlayIsStable == Spec => OverlayStable
<1> DEFINE Stable ==
      \A s \in Slugs : (~marks.torn /\ lastOverlay[s] # NoBlock)
                       => lastOverlay'[s] = lastOverlay[s]
<1>1. OverlayInv /\ [Next]_vars => Stable
    <2>1. OverlayInv /\ TranslateWrite => Stable
        BY DEF TranslateWrite, Reuses, OverlayInv
    <2>2. [Next]_vars => TranslateWrite \/ lastOverlay' = lastOverlay
        BY DEF Next, UploadNext, CorpusNext, vars, overlayVars, StartAnalysis, FinishAnalysis,
               Approve, ServerDies, TranslateStart, TranslateTruncate, TranslateDies, Pull,
               ImportStart, ImportDone, PlainStart, SeedDies, ImportSlug, PlainSlug
    <2> QED
        BY <2>1, <2>2
<1> QED
    BY <1>1, InitOverlay, NextOverlay, PTL DEF Spec, OverlayStable

(* A hash of the running import is of the commit or of a later version of   *)
(* the checkout, and of its row, which this import does not write again.    *)
GatheredInv ==
    seeder.pc = "import" =>
        /\ seeder.commit <= upstream
        /\ \A h \in seeder.hashes :
             /\ h[1] \notin seeder.todo
             /\ h[2] \in seeder.commit .. upstream
             /\ corpusRow[h[1]] # NoRow /\ corpusRow[h[1]].image = h[2]
PinnedInv == Typed /\ ManifestTrue /\ GatheredInv

LEMMA NextPinned == PinnedInv /\ [Next]_vars => PinnedInv'
<1> SUFFICES ASSUME PinnedInv, [Next]_vars
             PROVE  PinnedInv'
    OBVIOUS
<1>1. Typed /\ Typed' /\ upstream \in Nat /\ seeder.commit \in Nat
    BY NextTyped, VersionAssumption DEF PinnedInv, Typed, CorpusTyped
<1> USE DEF PinnedInv, ManifestTrue, GatheredInv
<1>2. CASE UNCHANGED importVars /\ marks'.moved = marks.moved /\ marks'.rewritten = marks.rewritten
    BY <1>1, <1>2 DEF importVars
<1>3. CASE Pull
    BY <1>1, <1>3 DEF Pull
<1>4. CASE ImportStart
    BY <1>1, <1>4 DEF ImportStart
<1>5. CASE ImportDone
    <2>1. \A h \in seeder.hashes : h[2] = seeder.commit \/ upstream # seeder.commit
        BY <1>1, <1>5 DEF ImportDone
    <2> QED
        <3>1. marks'.moved = (upstream # seeder.commit) /\ marks'.rewritten = {}
            BY <1>1, <1>5 DEF ImportDone, Typed, Marked
        <3>2. /\ manifest'.commit = seeder.commit /\ manifest'.hashes = seeder.hashes
              /\ corpusRow' = corpusRow /\ seeder'.pc = "idle" /\ seeder.pc = "import"
            BY <1>5 DEF ImportDone, Idle
        <3> QED
            BY <1>1, <2>1, <3>1, <3>2
<1>6. CASE PlainStart
    BY <1>1, <1>6 DEF PlainStart
<1>7. CASE SeedDies
    BY <1>1, <1>7 DEF SeedDies, Idle
<1>8. ASSUME NEW s \in Slugs, PlainSlug(s)
      PROVE  PinnedInv'
    <2>1. /\ manifest' = manifest /\ seeder'.pc # "import" /\ marks'.moved = marks.moved
          /\ marks'.rewritten = marks.rewritten \cup {s}
        BY <1>1, <1>8 DEF PlainSlug, Idle, Typed, CorpusTyped, Marked
    <2>2. \A r \in Slugs \ {s} : corpusRow'[r] = corpusRow[r]
        BY <1>1, <1>8 DEF PlainSlug, Typed, CorpusTyped
    <2>3. \A h \in manifest.hashes : h[1] \in Slugs
        BY <1>1 DEF Typed, CorpusTyped, Hashes
    <2> QED
        BY <1>1, <2>1, <2>2, <2>3
<1>9. ASSUME NEW s \in Slugs, ImportSlug(s)
      PROVE  PinnedInv'
    <2>1. /\ seeder.pc = "import" /\ seeder'.pc = "import" /\ seeder'.commit = seeder.commit
          /\ upstream' = upstream /\ manifest' = manifest
          /\ s \in seeder.todo /\ seeder'.todo = seeder.todo \ {s}
        BY <1>1, <1>9 DEF ImportSlug, Typed, CorpusTyped
    <2>2. \A h \in seeder.hashes : h[1] \in Slugs \ {s}
        <3>1. \A h \in seeder.hashes : h[1] \in Slugs
            BY <1>1 DEF Typed, CorpusTyped, Hashes
        <3> QED
            BY <2>1, <3>1
    <2>3. CASE s \notin Listing[upstream]
        <3>1. corpusRow' = corpusRow /\ seeder'.hashes = seeder.hashes /\ marks' = marks
            BY <1>1, <1>9, <2>3 DEF ImportSlug, Typed, CorpusTyped
        <3> QED
            BY <1>1, <2>1, <3>1
    <2>4. CASE s \in Listing[upstream]
        <3>1. /\ seeder'.hashes = seeder.hashes \cup {<<s, upstream>>}
              /\ marks'.moved = marks.moved /\ marks'.rewritten = marks.rewritten \cup {s}
            BY <1>1, <1>9, <2>4 DEF ImportSlug, Typed, CorpusTyped, Marked
        <3>2. \A r \in Slugs \ {s} : corpusRow'[r] = corpusRow[r]
            BY <1>1, <1>9, <2>4 DEF ImportSlug, Typed, CorpusTyped
        <3>3. corpusRow'[s] # NoRow /\ corpusRow'[s].image = upstream
            <4>1. \E b \in GoodBlocks \cup {NoBlock} :
                     corpusRow'[s] = [image |-> upstream, block |-> b]
                BY <1>1, <1>9, <2>4, ImportedGood DEF ImportSlug, Typed, CorpusTyped
            <4>2. upstream \in 0 .. MaxVersion /\ GoodBlocks \subseteq Blocks
                BY <1>1, EmptyTypes DEF Typed, CorpusTyped, GoodBlocks, Filled
            <4> QED
                BY <4>1, <4>2, NoRowAssumption
        <3>4. ManifestTrue'
            <4>1. \A h \in manifest.hashes : h[1] \in Slugs
                BY <1>1 DEF Typed, CorpusTyped, Hashes
            <4> QED
                BY <2>1, <3>1, <3>2, <4>1
        <3>5. upstream \in seeder.commit .. upstream
            BY <1>1, <2>1
        <3>6. GatheredInv'
            <4>1. ASSUME NEW h \in seeder.hashes
                  PROVE  /\ h[1] \notin seeder'.todo /\ h[2] \in seeder.commit .. upstream
                         /\ corpusRow'[h[1]] # NoRow /\ corpusRow'[h[1]].image = h[2]
                BY <2>1, <2>2, <3>2
            <4>2. \A h \in seeder'.hashes : h \in seeder.hashes \/ h = <<s, upstream>>
                BY <3>1
            <4> QED
                BY <2>1, <3>3, <3>5, <4>1, <4>2
        <3> QED
            BY <1>1, <3>4, <3>6
    <2> QED
        BY <2>3, <2>4
<1>10. \/ Pull \/ ImportStart \/ ImportDone \/ PlainStart \/ SeedDies
       \/ \E s \in Slugs : ImportSlug(s) \/ PlainSlug(s)
       \/ /\ UNCHANGED importVars
          /\ marks'.moved = marks.moved /\ marks'.rewritten = marks.rewritten
    <2>1. CASE TranslateDies
        BY <1>1, <2>1 DEF TranslateDies, Typed, Marked
    <2> QED
        BY <2>1 DEF Next, UploadNext, CorpusNext, vars, StartAnalysis, FinishAnalysis, Approve,
               ServerDies, TranslateStart, TranslateTruncate, TranslateWrite
<1> QED
    BY <1>2, <1>3, <1>4, <1>5, <1>6, <1>7, <1>8, <1>9, <1>10

(* Each hash of the manifest is of the commit it names, unless the checkout *)
(* moved during that import, and of its row, unless that row was written    *)
(* since (import_upstream_corpus, write_manifest).                          *)
THEOREM ManifestPins == Spec => []ManifestTrue
<1>1. Init => PinnedInv
    BY InitTyped DEF Init, PinnedInv, ManifestTrue, GatheredInv, Idle
<1> QED
    BY <1>1, NextPinned, PTL DEF Spec, PinnedInv
=============================================================================
