----------------------------- MODULE Templates ------------------------------
(***************************************************************************)
(* The table of templates and the three writers of its metadata: approvals *)
(* of analysed uploads (upload/service.py), the import of the upstream     *)
(* corpus with its translated overlay, and the plain seed (cli/seed.py,    *)
(* corpus/).  The overlay file is written by `translate-corpus`.           *)
(*                                                                         *)
(* Templates of friends and of the corpus never share an id, so they are   *)
(* two variables.  All uploads here are of one image; a template of a      *)
(* friend is named by the approved name.  An analysis waits for the vision *)
(* model between its duplicate check and its row; an approval runs without *)
(* giving way to other requests, but may die before it deletes its row.    *)
(* The anomaly flags (a caller may acknowledge any), the origin and the    *)
(* slots are data nothing here reads.                                      *)
(*                                                                         *)
(* The vision model keeps to its schema: it sends no _meta of its own.  A  *)
(* client sends the block it was shown, with or without _meta, with some   *)
(* fields retyped: what upload.js and an agent that follows the tool do.   *)
(***************************************************************************)
EXTENDS Locales, Naturals

CONSTANTS
    Uploads,        \* analyses of one image
    Names,          \* names an approval may give the template
    Slugs,          \* templates of the upstream corpus
    Listing,        \* the slugs of each version of the upstream checkout
    MaxVersion,     \* bound on the versions of the checkout
    Keep,           \* a field of a payload that was not retyped
    NoRow

ASSUME VersionAssumption ==
    /\ MaxVersion \in Nat \ {0}
    /\ Listing \in [1 .. MaxVersion -> SUBSET Slugs]
ASSUME NoRowAssumption ==
    /\ NoRow \notin Blocks \cup {NoBlock}
    /\ NoRow \notin [image : 0 .. MaxVersion, block : Blocks \cup {NoBlock}]

VARIABLES
    upload,         \* the analyses and pending rows
    friendRow,      \* block of the template approved under each name
    upstream,       \* version of the checkout
    overlay,        \* the overlay file: absent, torn or whole, with a block per slug
    corpusRow,      \* the template of each slug
    manifest,       \* the last manifest written
    seeder,         \* the seed-memegen command
    translator,     \* the translate-corpus command
    lastOverlay,    \* history: the overlay as last completely written
    marks           \* history: what makes the overlay or the manifest untrue

friendVars == <<upload, friendRow>>
overlayVars == <<overlay, translator, lastOverlay>>
importVars == <<upstream, corpusRow, manifest, seeder>>
vars == <<friendVars, overlayVars, importVars, marks>>

NoTranslation == [s \in Slugs |-> NoBlock]
Idle == [pc |-> "idle", commit |-> 0, todo |-> {}, overlay |-> NoTranslation, hashes |-> {}]
Asleep == [pc |-> "idle", prior |-> NoTranslation]

Init ==
    /\ upload = [u \in Uploads |-> [status |-> "none", block |-> NoBlock]]
    /\ friendRow = [n \in Names |-> NoRow]
    /\ upstream = 1
    /\ overlay = [file |-> "absent", blocks |-> NoTranslation]
    /\ corpusRow = [s \in Slugs |-> NoRow]
    /\ manifest = [commit |-> 0, hashes |-> {}]
    /\ seeder = Idle
    /\ translator = Asleep
    /\ lastOverlay = NoTranslation
    /\ marks = [torn |-> FALSE, moved |-> FALSE, rewritten |-> {}]

-----------------------------------------------------------------------------
(* Uploads *)

Draft(text) == [text |-> text, meta |-> [f \in Fields |-> "none"]]
Proposals == {NoBlock} \cup {Draft(t) : t \in [Fields -> ModelTexts \cup {Blank, Absent}]}

StartAnalysis(u) ==
    /\ upload[u].status = "none"
    /\ \A n \in Names : friendRow[n] = NoRow       \* check_duplicates
    /\ upload' = [upload EXCEPT ![u].status = "analyzing"]
    /\ UNCHANGED <<friendRow, overlayVars, importVars, marks>>

(* A failed call of the vision model leaves blank metadata. *)
Answers == {NoBlock} \cup
    {Resolved(first, retry) : first \in Proposals, retry \in Proposals \cup {NoAnswer}}
FinishAnalysis(u) ==
    /\ upload[u].status = "analyzing"
    /\ \E b \in Answers : upload' = [upload EXCEPT ![u] = [status |-> "pending", block |-> b]]
    /\ UNCHANGED <<friendRow, overlayVars, importVars, marks>>

(* No metadata at all, metadata without locales, or the block as shown     *)
(* with some fields retyped, with or without its marks.                    *)
AsShown == [f \in Fields |-> Keep]
Payloads ==
    [kind : {"none", "no locales"}, edit : {AsShown}, meta : {FALSE}] \cup
    [kind : {"block"}, edit : [Fields -> FriendTexts \cup {Blank, Keep}], meta : BOOLEAN]

Sent(pending, p) ==
    IF p.kind = "no locales" THEN NoBlock
    ELSE [text |-> [f \in Fields |->
             IF p.edit[f] = Keep THEN TextOf(pending, f) ELSE p.edit[f]],
          meta |-> [f \in Fields |->
             IF p.meta /\ pending # NoBlock THEN pending.meta[f] ELSE "none"]]

Incoming(pending, p) ==
    IF p.kind = "none" THEN Sanitized(pending)
    ELSE StampHumanEdits(Sanitized(Sent(pending, p)), pending)

Stored(row) == IF row = NoRow THEN NoBlock ELSE row

Approve(u, n, p, dies) ==
    /\ upload[u].status = "pending"
    /\ friendRow' = [friendRow EXCEPT ![n] =
                        Merge(Stored(friendRow[n]), Incoming(upload[u].block, p))]
    /\ upload' = IF dies THEN upload
                 ELSE [upload EXCEPT ![u] = [status |-> "gone", block |-> NoBlock]]
    /\ UNCHANGED <<overlayVars, importVars, marks>>

ServerDies ==
    /\ \E u \in Uploads : upload[u].status = "analyzing"
    /\ upload' = [u \in Uploads |-> IF upload[u].status = "analyzing"
                                    THEN [upload[u] EXCEPT !.status = "none"] ELSE upload[u]]
    /\ UNCHANGED <<friendRow, overlayVars, importVars, marks>>

-----------------------------------------------------------------------------
(* translate-corpus *)

(* Each field is gated on its own; those that fail or are missing are      *)
(* asked for once more and left out when they fail again.                  *)
Translated(first, second) ==
    [f \in Fields |-> IF first[f] # Absent /\ first[f] \notin Drifting THEN first[f]
                      ELSE IF second[f] \notin Drifting THEN second[f] ELSE Absent]
ModelAnswers == [Fields -> ModelTexts \cup {Blank, Absent}]
Translations ==
    {IF t = [f \in Fields |-> Absent] THEN NoBlock ELSE Draft(t) :
        t \in {Translated(a, b) : a, b \in ModelAnswers}}

(* An absent or unreadable file counts as empty.                           *)
ReadFile == IF overlay.file = "whole" THEN overlay.blocks ELSE NoTranslation

TranslateStart ==
    /\ translator.pc = "idle"
    /\ translator' = [pc |-> "asking", prior |-> ReadFile]
    /\ UNCHANGED <<friendVars, overlay, lastOverlay, importVars, marks>>

(* write_text truncates the file and then writes it. *)
TranslateTruncate ==
    /\ translator.pc = "asking"
    /\ translator' = [translator EXCEPT !.pc = "writing"]
    /\ overlay' = [file |-> "torn", blocks |-> NoTranslation]
    /\ UNCHANGED <<friendVars, lastOverlay, importVars, marks>>

(* A slug that has a block keeps it, whatever fields were skipped.         *)
Reuses(new, prior) == \A s \in Slugs : prior[s] # NoBlock => new[s] = prior[s]
TranslateWrite ==
    /\ translator.pc = "writing"
    /\ \E new \in [Slugs -> Translations] :
         /\ Reuses(new, translator.prior)
         /\ overlay' = [file |-> "whole", blocks |-> new]
         /\ lastOverlay' = new
    /\ translator' = Asleep
    /\ UNCHANGED <<friendVars, importVars, marks>>

TranslateDies ==
    /\ translator.pc # "idle"
    /\ translator' = Asleep
    /\ marks' = [marks EXCEPT !.torn = @ \/ overlay.file = "torn"]
    /\ UNCHANGED <<friendVars, overlay, lastOverlay, importVars>>

-----------------------------------------------------------------------------
(* seed-memegen *)

Pull ==
    /\ upstream < MaxVersion
    /\ upstream' = upstream + 1
    /\ UNCHANGED <<friendVars, overlayVars, corpusRow, manifest, seeder, marks>>

(* Commit, listing and overlay are read at the start. *)
ImportStart ==
    /\ seeder.pc = "idle"
    /\ seeder' = [pc |-> "import", commit |-> upstream, todo |-> Listing[upstream],
                  overlay |-> ReadFile, hashes |-> {}]
    /\ UNCHANGED <<friendVars, overlayVars, upstream, corpusRow, manifest, marks>>

(* A blank field, or a block of them, is left out.                         *)
Attached(b) ==
    IF ~HasContent(b) THEN NoBlock
    ELSE Stamped([b EXCEPT !.text = [f \in Fields |->
                     IF HasValue(b, f) THEN b.text[f] ELSE Absent]], Fields, "pass")
StoredCorpus(s) == IF corpusRow[s] = NoRow THEN NoBlock ELSE corpusRow[s].block

(* The image is what the checkout holds when its turn comes. *)
ImportSlug(s) ==
    /\ seeder.pc = "import" /\ s \in seeder.todo
    /\ IF s \in Listing[upstream]
       THEN /\ corpusRow' = [corpusRow EXCEPT ![s] =
                  [image |-> upstream,
                   block |-> Merge(StoredCorpus(s), Sanitized(Attached(seeder.overlay[s])))]]
            /\ seeder' = [seeder EXCEPT !.todo = @ \ {s}, !.hashes = @ \cup {<<s, upstream>>}]
            /\ marks' = [marks EXCEPT !.rewritten = @ \cup {s}]
       ELSE /\ seeder' = [seeder EXCEPT !.todo = @ \ {s}]
            /\ UNCHANGED <<corpusRow, marks>>
    /\ UNCHANGED <<friendVars, overlayVars, upstream, manifest>>

ImportDoneAppending ==
    /\ seeder.pc = "import" /\ seeder.todo = {}
    /\ manifest' = [commit |-> seeder.commit, hashes |-> manifest.hashes \cup seeder.hashes]
    /\ marks' = [marks EXCEPT !.moved = upstream # seeder.commit, !.rewritten = {}]
    /\ seeder' = Idle
    /\ UNCHANGED <<friendVars, overlayVars, upstream, corpusRow>>
ImportDone ==
    /\ seeder.pc = "import" /\ seeder.todo = {}
    /\ manifest' = [commit |-> seeder.commit, hashes |-> seeder.hashes]
    /\ marks' = [marks EXCEPT !.moved = upstream # seeder.commit, !.rewritten = {}]
    /\ seeder' = Idle
    /\ UNCHANGED <<friendVars, overlayVars, upstream, corpusRow>>

PlainStart ==
    /\ seeder.pc = "idle"
    /\ seeder' = [Idle EXCEPT !.pc = "plain", !.todo = Slugs]
    /\ UNCHANGED <<friendVars, overlayVars, upstream, corpusRow, manifest, marks>>

(* The plain seed merges nothing: a placeholder without a block. *)
PlainSlug(s) ==
    /\ seeder.pc = "plain" /\ s \in seeder.todo
    /\ corpusRow' = [corpusRow EXCEPT ![s] = [image |-> 0, block |-> NoBlock]]
    /\ seeder' = IF seeder.todo = {s} THEN Idle ELSE [seeder EXCEPT !.todo = @ \ {s}]
    /\ marks' = [marks EXCEPT !.rewritten = @ \cup {s}]
    /\ UNCHANGED <<friendVars, overlayVars, upstream, manifest>>

SeedDies ==
    /\ seeder.pc # "idle"
    /\ seeder' = Idle
    /\ UNCHANGED <<friendVars, overlayVars, upstream, corpusRow, manifest, marks>>

-----------------------------------------------------------------------------
UploadNext ==
    \/ ServerDies
    \/ \E u \in Uploads :
        \/ StartAnalysis(u)
        \/ FinishAnalysis(u)
        \/ \E n \in Names, p \in Payloads, dies \in BOOLEAN : Approve(u, n, p, dies)

CorpusNext ==
    \/ TranslateStart \/ TranslateTruncate \/ TranslateWrite \/ TranslateDies
    \/ Pull \/ ImportStart \/ ImportDone \/ PlainStart \/ SeedDies
    \/ \E s \in Slugs : ImportSlug(s) \/ PlainSlug(s)

Next == UploadNext \/ CorpusNext
Spec == Init /\ [][Next]_vars
-----------------------------------------------------------------------------
(* Properties *)

Filled == {b \in Blocks : \E f \in Fields : b.text[f] # Absent \/ b.meta[f] # "none"}
UploadRows == [status : {"none", "analyzing", "pending", "gone"}, block : Blocks \cup {NoBlock}]
CorpusRows == [image : 0 .. MaxVersion, block : Filled \cup {NoBlock}]
Overlays == [Slugs -> Blocks \cup {NoBlock}]
Hashes == SUBSET (Slugs \X (1 .. MaxVersion))

(* torn: translate-corpus was once killed over a truncated file.  moved: the *)
(* checkout moved during the import that wrote the manifest.  rewritten: the *)
(* slugs whose row was written since, by another import or the plain seed.   *)
Marked == [torn : BOOLEAN, moved : BOOLEAN, rewritten : SUBSET Slugs]

(* Rows, files and commands are well typed, and no template holds a block  *)
(* with nothing in it, for which later merges would look no further.       *)
TypeOK ==
    /\ upload \in [Uploads -> UploadRows]
    /\ friendRow \in [Names -> Filled \cup {NoBlock, NoRow}]
    /\ upstream \in 1 .. MaxVersion
    /\ overlay \in [file : {"absent", "torn", "whole"}, blocks : Overlays]
    /\ corpusRow \in [Slugs -> CorpusRows \cup {NoRow}]
    /\ manifest \in [commit : 0 .. MaxVersion, hashes : Hashes]
    /\ seeder \in [pc : {"idle", "import", "plain"}, commit : 0 .. MaxVersion,
                   todo : SUBSET Slugs, overlay : Overlays, hashes : Hashes]
    /\ translator \in [pc : {"idle", "asking", "writing"}, prior : Overlays]
    /\ lastOverlay \in Overlays
    /\ marks \in Marked

(* What a friend wrote for a template and approved is replaced only by what *)
(* a friend writes, and never cleared: no later approval of another analysis *)
(* of the image, by either door and with whatever part of its provenance    *)
(* sent back, puts the model's text, an empty one or nothing in its place   *)
(* (merge_locales).  A text of the model may be cleared.                    *)
Writer(n, f) ==
    IF friendRow[n] \notin Blocks \/ ~HasValue(friendRow[n], f) THEN "nobody"
    ELSE IF friendRow[n].text[f] \in FriendTexts THEN "friend" ELSE "model"
WritersOf == INSTANCE Writers
    WITH writer <- [n \in Names |-> [f \in Fields |-> Writer(n, f)]]
ImplementsWriters == WritersOf!Spec

(* The mark of a stored field tells who wrote it: "human" stands at exactly *)
(* the fields a friend wrote, though sanitizing changes what is compared,   *)
(* clients may drop _meta and uploads of one image merge in any order.      *)
ProvenanceTrue ==
    \A n \in Names : friendRow[n] \in Blocks =>
        \A f \in Fields :
            friendRow[n].meta[f] = "human" <=> friendRow[n].text[f] \in FriendTexts

(* What a zh-TW page shows of any template is a friend's, or came through   *)
(* the drift gate: in the first answer, in the retry, or field by field in  *)
(* the overlay; a refused text is never shown.                              *)
Gated == {San[t] : t \in ModelTexts \ Drifting}
Presentable(b) == \A f \in Fields : Localize(b, f) \in {Absent} \cup FriendTexts \cup Gated
ShownIsGated ==
    /\ \A n \in Names : friendRow[n] \in Blocks => Presentable(friendRow[n])
    /\ \A s \in Slugs : corpusRow[s] # NoRow => Presentable(corpusRow[s].block)

(* An import takes no translation from a page, whatever became of the        *)
(* overlay (absent, torn by a killed translate-corpus, short of a slug or    *)
(* field, or blank there); only the plain seed does, and a new text that     *)
(* sanitizing empties.                                                       *)
Emptied == {t \in ModelTexts : San[t] = Blank}
LocaleKept ==
    [][\A s \in Slugs : \A f \in Fields :
         (seeder.pc = "import" /\ corpusRow[s] # NoRow
            /\ Localize(corpusRow[s].block, f) # Absent
            /\ TextOf(seeder.overlay[s], f) \notin Emptied)
         => Localize(corpusRow'[s].block, f) # Absent]_vars

(* Translating again leaves every slug that has a block as it is, unless a  *)
(* killed translate-corpus left the file torn ("re-running translate-corpus *)
(* only fills missing slugs").                                              *)
OverlayStable ==
    [][\A s \in Slugs :
         (~marks.torn /\ lastOverlay[s] # NoBlock)
         => lastOverlay'[s] = lastOverlay[s]]_vars

(* The manifest pins what is stored: each hash in it is of the commit it     *)
(* names, unless the checkout moved during that import, and of the image of  *)
(* its row, unless another import, finished or not, or the plain seed has    *)
(* written that row since; the next import that finishes makes it true again.*)
ManifestTrue ==
    \A h \in manifest.hashes :
        /\ h[2] = manifest.commit \/ marks.moved
        /\ \/ corpusRow[h[1]] # NoRow /\ corpusRow[h[1]].image = h[2]
           \/ h[1] \in marks.rewritten
=============================================================================
