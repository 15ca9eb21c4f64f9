--------------------------- MODULE Uploads_proofs ---------------------------
(* Theorems about Uploads, for every value of its constants.               *)
EXTENDS Uploads, TLAPS

-----------------------------------------------------------------------------
(* Tables, and the sweep's candidates.                                     *)

\* An INSERT keeps a table well typed and adds exactly its key.
LEMMA InsertType ==
    ASSUME NEW Row, NEW table, table \in [DOMAIN table -> Row], NEW key, NEW row \in Row
    PROVE  /\ DOMAIN Insert(table, key, row) = DOMAIN table \cup {key}
           /\ Insert(table, key, row) \in [DOMAIN Insert(table, key, row) -> Row]
    BY DEF Insert

\* A DELETE keeps a table well typed and removes exactly its keys.
LEMMA WithoutType ==
    ASSUME NEW Row, NEW table, table \in [DOMAIN table -> Row], NEW keys
    PROVE  /\ DOMAIN Without(table, keys) = DOMAIN table \ keys
           /\ Without(table, keys) \in [DOMAIN Without(table, keys) -> Row]
    BY DEF Without

\* A list of candidates is a table from upload ids to images.
LEMMA PathsType ==
    ASSUME NEW c
    PROVE  c \in PathsOf <=> DOMAIN c \subseteq Uploads /\ c \in [DOMAIN c -> Images]
    BY DEF PathsOf

\* What the sweep holds at each of its points.
LEMMA GcType ==
    ASSUME TypeOK, gc.pc # "idle"
    PROVE  /\ gc.candidates \in PathsOf /\ gc.protected \subseteq Images
           /\ gc.pc \in {"sweep", "row"} => gc.reclaimed \subseteq Images
           /\ gc.pc = "row" => gc.upload \in Uploads
    BY DEF TypeOK, GcState, Idle

\* The sweep goes on with the candidates it has left, or is over.
LEMMA NextCandidateType ==
    ASSUME NEW c \in PathsOf, NEW p \in SUBSET Images, NEW d \in SUBSET Images
    PROVE  NextCandidate(c, p, d) \in GcState(PathsOf)
    BY DEF NextCandidate, GcState

-----------------------------------------------------------------------------
(* Type correctness.                                                       *)

\* Every reachable state is well typed.
THEOREM TypeCorrect == Spec => []TypeOK
<1>1. Init => TypeOK
    BY DEF Init, TypeOK, Empty, ServerState, GcState, Marks, Idle
<1>2. TypeOK /\ [Next]_vars => TypeOK'
    <2> SUFFICES ASSUME TypeOK, [Next]_vars PROVE TypeOK'
        OBVIOUS
    <2> USE DEF TypeOK
    <2>1. ASSUME NEW r \in Requests, NEW f \in Friends, NEW i \in Images, Analyze(r, f, i)
          PROVE  TypeOK'
        <3>1. CASE i \in TemplateImages
            BY <2>1, <3>1 DEF Analyze
        <3>2. CASE i \notin TemplateImages
            <4> DEFINE row == [friend |-> f, image |-> i]
            <4>1. row \in AnalysisRow
                BY DEF AnalysisRow
            <4>2. analyses' = Insert(analyses, r, row)
                BY <2>1, <3>2 DEF Analyze
            <4> HIDE DEF row
            <4>3. DOMAIN analyses' \subseteq Requests /\ analyses' \in [DOMAIN analyses' -> AnalysisRow]
                <5>1. /\ DOMAIN Insert(analyses, r, row) = DOMAIN analyses \cup {r}
                      /\ Insert(analyses, r, row) \in [DOMAIN Insert(analyses, r, row) -> AnalysisRow]
                    BY <4>1, InsertType
                <5> QED BY <4>2, <5>1
            <4> QED BY <2>1, <4>3 DEF Analyze
        <3> QED BY <3>1, <3>2
    <2>2. ASSUME NEW r \in Requests, NEW u \in Uploads, RecordRow(r, u)
          PROVE  TypeOK'
        <3> DEFINE row == [friend |-> analyses[r].friend, image |-> analyses[r].image,
                           expires |-> now + TTL]
        <3>1. analyses[r].friend \in Friends /\ analyses[r].image \in Images
            BY <2>2 DEF RecordRow, AnalysisRow
        <3>2. row \in UploadRow
            BY <3>1, TimesAssumption DEF UploadRow
        <3>3. rows' = Insert(rows, u, row)
            BY <2>2 DEF RecordRow
        <3> HIDE DEF row
        <3>4. DOMAIN rows' = DOMAIN rows \cup {u} /\ rows' \in [DOMAIN rows' -> UploadRow]
            <4>1. /\ DOMAIN Insert(rows, u, row) = DOMAIN rows \cup {u}
                  /\ Insert(rows, u, row) \in [DOMAIN Insert(rows, u, row) -> UploadRow]
                BY <3>2, InsertType
            <4> QED BY <3>3, <4>1
        <3>5. DOMAIN analyses' \subseteq Requests /\ analyses' \in [DOMAIN analyses' -> AnalysisRow]
            <4>1. /\ DOMAIN Without(analyses, {r}) = DOMAIN analyses \ {r}
                  /\ Without(analyses, {r}) \in [DOMAIN Without(analyses, {r}) -> AnalysisRow]
                BY WithoutType
            <4> QED BY <2>2, <4>1 DEF RecordRow
        <3>6. srv' \in ServerState
            BY <2>2, <3>1 DEF RecordRow, ServerState
        <3>7. marks' \in Marks
            BY <2>2, <3>1 DEF RecordRow, Marks
        <3> QED
            BY <2>2, <3>4, <3>5, <3>6, <3>7 DEF RecordRow
    <2>3. ASSUME PutBlob PROVE TypeOK'
        <3>1. srv.image \in Images
            BY <2>3 DEF PutBlob, ServerState, Idle
        <3>2. marks' \in Marks /\ srv' \in ServerState
            BY <2>3, <3>1 DEF PutBlob, Marks, ServerState
        <3> QED BY <2>3, <3>1, <3>2 DEF PutBlob
    <2>4. ASSUME NEW f \in Friends, NEW u \in Uploads, NEW n \in Names, ApproveUpsert(f,
                 u, n)
          PROVE  TypeOK'
        <3>1. rows[u].image \in Images
            BY <2>4 DEF ApproveUpsert, UploadRow
        <3>2. templates' \subseteq TemplateRow /\ srv' \in ServerState
            BY <2>4, <3>1 DEF ApproveUpsert, TemplateRow, ServerState
        <3>3. marks' \in Marks
            BY <2>4, <3>1 DEF ApproveUpsert, Marks
        <3> QED BY <2>4, <3>2, <3>3 DEF ApproveUpsert
    <2>5. ASSUME ApproveDelete PROVE TypeOK'
        <3>1. /\ DOMAIN Without(rows, {srv.upload}) = DOMAIN rows \ {srv.upload}
              /\ Without(rows, {srv.upload}) \in [DOMAIN Without(rows, {srv.upload}) -> UploadRow]
            BY WithoutType
        <3> QED BY <2>5, <3>1 DEF ApproveDelete, ServerState
    <2>6. ASSUME NEW f \in Friends, NEW u \in Uploads, Discard(f, u)
          PROVE  TypeOK'
        <3>1. /\ DOMAIN Without(rows, {u}) = DOMAIN rows \ {u}
              /\ Without(rows, {u}) \in [DOMAIN Without(rows, {u}) -> UploadRow]
            BY WithoutType
        <3>2. marks' \in Marks
            BY <2>6 DEF Discard, Marks, UploadRow
        <3> QED BY <2>6, <3>1, <3>2 DEF Discard
    <2>7. ASSUME GcExpired PROVE TypeOK'
        <3> DEFINE expired == DOMAIN rows \ LiveRows
                   old == {u \in expired : Abandoned(u)}
                   paths == [u \in old |-> rows[u].image]
        <3>1. \A u \in DOMAIN rows : rows[u].image \in Images
            BY DEF UploadRow
        <3>2. paths \in PathsOf
            BY <3>1, PathsType
        <3>3. ImagesOf(expired \ old) \subseteq Images
            BY <3>1 DEF ImagesOf
        <3>4. gc' = [pc |-> "templates", protected |-> ImagesOf(expired \ old), candidates |-> paths]
            BY <2>7 DEF GcExpired
        <3> HIDE DEF expired, old, paths
        <3>5. gc' \in GcState(PathsOf)
            BY <3>2, <3>3, <3>4 DEF GcState
        <3> QED BY <2>7, <3>5 DEF GcExpired
    <2>8. ASSUME GcTemplates PROVE TypeOK'
        <3>1. gc.candidates \in PathsOf /\ gc.protected \subseteq Images
            BY <2>8, GcType DEF GcTemplates
        <3>2. TemplateImages \subseteq Images
            BY DEF TemplateImages, TemplateRow
        <3>3. gc' \in GcState(PathsOf)
            BY <2>8, <3>1, <3>2 DEF GcTemplates, GcState
        <3> QED BY <2>8, <3>3 DEF GcTemplates
    <2>9. ASSUME GcLive PROVE TypeOK'
        <3>1. gc.candidates \in PathsOf /\ gc.protected \subseteq Images
            BY <2>9, GcType DEF GcLive
        <3>2. ImagesOf(LiveRows) \subseteq Images
            BY DEF ImagesOf, LiveRows, UploadRow
        <3>3. gc' \in GcState(PathsOf)
            BY <2>9, <3>1, <3>2 DEF GcLive, GcState
        <3> QED BY <2>9, <3>3 DEF GcLive
    <2>10. ASSUME NEW u \in Uploads, GcBlob(u) PROVE TypeOK'
        <3>1. /\ gc.candidates \in PathsOf /\ gc.protected \subseteq Images
              /\ gc.reclaimed \subseteq Images
            BY <2>10, GcType DEF GcBlob
        <3>2. gc.candidates[u] \in Images
            BY <2>10, <3>1, PathsType DEF GcBlob
        <3>3. gc' \in GcState(PathsOf)
            BY <2>10, <3>1, <3>2 DEF GcBlob, GcState
        <3> QED BY <2>10, <3>3 DEF GcBlob
    <2>11. ASSUME GcRow PROVE TypeOK'
        <3>1. /\ gc.candidates \in PathsOf /\ gc.protected \subseteq Images
              /\ gc.reclaimed \subseteq Images
            BY <2>11, GcType DEF GcRow
        <3>2. Without(gc.candidates, {gc.upload}) \in PathsOf
            <4>1. DOMAIN gc.candidates \subseteq Uploads /\ gc.candidates \in [DOMAIN gc.candidates -> Images]
                BY <3>1, PathsType
            <4> DEFINE left == Without(gc.candidates, {gc.upload})
            <4>2. DOMAIN left = DOMAIN gc.candidates \ {gc.upload} /\ left \in [DOMAIN left -> Images]
                BY <4>1, WithoutType
            <4> HIDE DEF left
            <4>3. left \in PathsOf
                BY <4>1, <4>2, PathsType
            <4> QED BY <4>3 DEF left
        <3>3. gc' \in GcState(PathsOf)
            BY <2>11, <3>1, <3>2, NextCandidateType DEF GcRow
        <3>4. /\ DOMAIN Without(rows, {gc.upload}) = DOMAIN rows \ {gc.upload}
              /\ Without(rows, {gc.upload}) \in [DOMAIN Without(rows, {gc.upload}) -> UploadRow]
            BY WithoutType
        <3> QED BY <2>11, <3>3, <3>4 DEF GcRow
    <2>12. ASSUME Tick PROVE TypeOK'
        BY <2>12 DEF Tick
    <2>13. ASSUME ServerCrash PROVE TypeOK'
        <3>1. srv.pc \in {"put", "delete"} => srv.image \in Images
            BY DEF ServerState, Idle
        <3>2. marks' \in Marks
            BY <2>13, <3>1 DEF ServerCrash, Marks
        <3>3. DOMAIN analyses' \subseteq Requests /\ analyses' \in [DOMAIN analyses' -> AnalysisRow]
            BY <2>13 DEF ServerCrash, Empty
        <3> QED BY <2>13, <3>2, <3>3 DEF ServerCrash, ServerState
    <2>14. ASSUME GcCrash PROVE TypeOK'
        BY <2>14 DEF GcCrash, GcState
    <2>15. CASE UNCHANGED vars
        BY <2>15 DEF vars
    <2> QED
        BY <2>1, <2>2, <2>3, <2>4, <2>5, <2>6, <2>7, <2>8, <2>9, <2>10, <2>11, <2>12,
           <2>13, <2>14, <2>15 DEF Next, GcSweep
<1> QED BY <1>1, <1>2, PTL DEF Spec

-----------------------------------------------------------------------------
(* The inductive invariants.                                               *)

Windows == marks.unwritten \cup marks.reused \cup marks.promoted

\* Between its two reads the sweep protects every template but those just approved, and
\* after them every template and every live row but those that fell into a window.
ProtectedInv ==
    /\ gc.pc = "live" => TemplateImages \subseteq gc.protected \cup marks.promoted
    /\ gc.pc \in {"sweep", "row"} =>
          TemplateImages \cup ImagesOf(LiveRows)
              \subseteq gc.protected \cup marks.reused \cup marks.promoted

BlobsInv == BlobsLostOnlyInWindows /\ ProtectedInv

\* What keeps a blob findable once the sweep's candidates are gone.
Kept == TemplateImages \cup ImagesOf(DOMAIN rows \ DOMAIN gc.candidates) \cup marks.discarded

\* Candidates are old uploads that nobody can approve any more.
CandidatesInv ==
    gc.pc # "idle" =>
        \A u \in DOMAIN gc.candidates :
            /\ u \in created
            /\ u \in DOMAIN rows => ~Live(u) /\ rows[u].image = gc.candidates[u]

\* Whatever the sweep leaves alone, because it is protected or was reclaimed and put
\* again, is kept by something that is not a candidate.
SparedInv ==
    /\ gc.pc # "idle" => gc.protected \cap blobs \subseteq Kept
    /\ gc.pc \in {"sweep", "row"} => gc.reclaimed \cap blobs \subseteq Kept
    /\ gc.pc = "row" =>
          /\ gc.upload \in DOMAIN gc.candidates
          /\ gc.candidates[gc.upload] \in gc.protected \cup gc.reclaimed

\* The row behind a put is live, and the template behind a deletion is there.
StretchInv ==
    /\ srv.pc = "put" => srv.image \in ImagesOf(LiveRows)
    /\ srv.pc = "delete" =>
          /\ srv.image \in TemplateImages
          /\ srv.upload \in DOMAIN rows => rows[srv.upload].image = srv.image

OrphansInv == OrphansOnlyFromDiscard /\ CandidatesInv /\ SparedInv /\ StretchInv

\* A template whose image is not marked is the only trace of it: no analysis is under way
\* and no row is left but the one its approval is about to delete.
SettledInv ==
    \A i \in TemplateImages \ (marks.overlapped \cup marks.unfinished) :
        /\ \A r \in DOMAIN analyses : analyses[r].image # i
        /\ \A u \in DOMAIN rows :
              rows[u].image = i => srv.pc = "delete" /\ srv.upload = u /\ srv.image = i

DuplicatesInv == DuplicatesOnlyFromOverlap /\ SettledInv

-----------------------------------------------------------------------------
(* No blob is lost but in the windows.                                     *)

\* A step that leaves templates, rows and the sweep alone, turns no row live and forgets
\* no mark of a blob that is missing, keeps the invariant.
LEMMA BlobsQuiet ==
    ASSUME BlobsInv, UNCHANGED <<templates, gc>>,
           ImagesOf(LiveRows)' \subseteq ImagesOf(LiveRows),
           marks.reused \subseteq marks'.reused, marks.promoted \subseteq marks'.promoted,
           \A i : Stored(i) \/ i \in marks.unwritten => Stored(i)' \/ i \in marks'.unwritten
    PROVE  BlobsInv'
    BY DEF BlobsInv, BlobsLostOnlyInWindows, ProtectedInv, TemplateImages

\* Removing rows leaves no image live that was not.
LEMMA FewerLive ==
    ASSUME NEW keys, rows' = Without(rows, keys), now' = now
    PROVE  ImagesOf(LiveRows)' \subseteq ImagesOf(LiveRows)
    BY DEF Without, ImagesOf, LiveRows, Live

\* A template, or an upload that can still be approved, lacks its blob only if a crash, a
\* re-upload behind a sweep or an approval between its reads explains it.
THEOREM BlobsAreSafe == Spec => []BlobsLostOnlyInWindows
<1>1. Init => BlobsInv
    BY DEF Init, BlobsInv, BlobsLostOnlyInWindows, ProtectedInv, TemplateImages, ImagesOf,
           LiveRows, Empty, Idle
<1>2. TypeOK /\ BlobsInv /\ [Next]_vars => BlobsInv'
    <2> SUFFICES ASSUME TypeOK, BlobsInv, [Next]_vars PROVE BlobsInv'
        OBVIOUS
    <2>1. ASSUME NEW r \in Requests, NEW f \in Friends, NEW i \in Images, Analyze(r, f, i)
          PROVE  BlobsInv'
        BY <2>1, BlobsQuiet DEF Analyze, Stored, ImagesOf, LiveRows, Live
    <2>2. ASSUME NEW r \in Requests, NEW u \in Uploads, RecordRow(r, u)
          PROVE  BlobsInv'
        <3>0. PICK i : i = analyses[r].image
            OBVIOUS
        <3>1. ImagesOf(LiveRows)' \subseteq ImagesOf(LiveRows) \cup {i}
            BY <2>2, <3>0 DEF RecordRow, Insert, ImagesOf, LiveRows, Live
        <3>2. /\ marks.unwritten = marks'.unwritten /\ marks.promoted = marks'.promoted
              /\ marks.reused \subseteq marks'.reused
              /\ gc.pc \in {"sweep", "row"} => i \in marks'.reused
            BY <2>2, <3>0 DEF RecordRow, TypeOK, Marks
        <3>3. Stored(i)' /\ \A j : Stored(j) => Stored(j)'
            BY <2>2, <3>0 DEF RecordRow, Stored, Idle
        <3>4. UNCHANGED <<templates, gc>>
            BY <2>2 DEF RecordRow
        <3> QED
            BY <3>1, <3>2, <3>3, <3>4 DEF BlobsInv, BlobsLostOnlyInWindows, ProtectedInv,
                TemplateImages
    <2>3. ASSUME PutBlob PROVE BlobsInv'
        <3>1. /\ marks'.reused = marks.reused /\ marks'.promoted = marks.promoted
              /\ marks'.unwritten = marks.unwritten \ {srv.image}
            BY <2>3 DEF PutBlob, TypeOK, Marks
        <3> QED
            BY <2>3, <3>1, BlobsQuiet DEF PutBlob, Stored, ImagesOf, LiveRows, Live
    <2>4. ASSUME NEW f \in Friends, NEW u \in Uploads, NEW n \in Names, ApproveUpsert(f,
                 u, n)
          PROVE  BlobsInv'
        <3>0. PICK i : i = rows[u].image
            OBVIOUS
        <3>1. i \in ImagesOf(LiveRows) /\ TemplateImages' = TemplateImages \cup {i}
            <4>1. templates' = templates \cup {[name |-> n, image |-> i]}
                BY <2>4, <3>0 DEF ApproveUpsert
            <4>2. [name |-> n, image |-> i].image = i
                OBVIOUS
            <4>3. TemplateImages' = TemplateImages \cup {i}
                BY <4>1, <4>2, Zenon DEF TemplateImages
            <4> QED BY <2>4, <3>0, <4>3 DEF ApproveUpsert, ImagesOf, LiveRows
        <3>2. /\ marks.unwritten = marks'.unwritten /\ marks.reused = marks'.reused
              /\ marks.promoted \subseteq marks'.promoted
              /\ gc.pc = "live" => i \in marks'.promoted
            BY <2>4, <3>0 DEF ApproveUpsert, TypeOK, Marks
        <3>3. ImagesOf(LiveRows)' = ImagesOf(LiveRows) /\ gc' = gc
            BY <2>4 DEF ApproveUpsert, ImagesOf, LiveRows, Live
        <3>4. \A j : Stored(j) => Stored(j)'
            BY <2>4 DEF ApproveUpsert, Stored, Idle
        <3> QED
            BY <3>1, <3>2, <3>3, <3>4 DEF BlobsInv, BlobsLostOnlyInWindows, ProtectedInv
    <2>5. ASSUME ApproveDelete PROVE BlobsInv'
        <3>1. ImagesOf(LiveRows)' \subseteq ImagesOf(LiveRows)
            BY <2>5, FewerLive DEF ApproveDelete
        <3> QED BY <2>5, <3>1, BlobsQuiet DEF ApproveDelete, Stored
    <2>6. ASSUME NEW f \in Friends, NEW u \in Uploads, Discard(f, u)
          PROVE  BlobsInv'
        <3>1. ImagesOf(LiveRows)' \subseteq ImagesOf(LiveRows)
            BY <2>6, FewerLive DEF Discard
        <3>2. /\ marks'.reused = marks.reused /\ marks'.promoted = marks.promoted
              /\ marks'.unwritten = marks.unwritten
            BY <2>6 DEF Discard, TypeOK, Marks
        <3> QED BY <2>6, <3>1, <3>2, BlobsQuiet DEF Discard, Stored
    <2>7. ASSUME GcExpired PROVE BlobsInv'
        BY <2>7 DEF GcExpired, BlobsInv, BlobsLostOnlyInWindows, ProtectedInv, Stored,
                    TemplateImages, ImagesOf, LiveRows, Live
    <2>8. ASSUME GcTemplates PROVE BlobsInv'
        BY <2>8 DEF GcTemplates, BlobsInv, BlobsLostOnlyInWindows, ProtectedInv, Stored,
                    TemplateImages, ImagesOf, LiveRows, Live
    <2>9. ASSUME GcLive PROVE BlobsInv'
        BY <2>9 DEF GcLive, BlobsInv, BlobsLostOnlyInWindows, ProtectedInv, Stored,
                    TemplateImages, ImagesOf, LiveRows, Live
    <2>10. ASSUME NEW u \in Uploads, GcBlob(u) PROVE BlobsInv'
        <3>1. /\ UNCHANGED <<TemplateImages, marks, srv>> /\ ImagesOf(LiveRows)' = ImagesOf(LiveRows)
              /\ gc.pc = "sweep" /\ gc'.pc = "row" /\ gc'.protected = gc.protected
            BY <2>10 DEF GcBlob, TemplateImages, ImagesOf, LiveRows, Live
        <3>2. \A j : Stored(j) /\ j \in gc.protected => Stored(j)'
            BY <2>10 DEF GcBlob, Stored
        <3> QED BY <3>1, <3>2 DEF BlobsInv, BlobsLostOnlyInWindows, ProtectedInv
    <2>11. ASSUME GcRow PROVE BlobsInv'
        <3>1. ImagesOf(LiveRows)' \subseteq ImagesOf(LiveRows)
            BY <2>11, FewerLive DEF GcRow
        <3>2. /\ UNCHANGED <<TemplateImages, marks>> /\ \A j : Stored(j)' <=> Stored(j)
              /\ gc.pc = "row"
              /\ gc'.pc = "idle" \/ (gc'.pc = "sweep" /\ gc'.protected = gc.protected)
            BY <2>11 DEF GcRow, NextCandidate, TemplateImages, Stored, Idle
        <3> QED BY <3>1, <3>2 DEF BlobsInv, BlobsLostOnlyInWindows, ProtectedInv
    <2>12. ASSUME Tick PROVE BlobsInv'
        <3>1. now \in Nat /\ now' = now + 1 /\ rows' = rows
              /\ \A u \in DOMAIN rows : rows[u].expires \in Nat
            BY <2>12 DEF Tick, TypeOK, UploadRow
        <3>2. ImagesOf(LiveRows)' \subseteq ImagesOf(LiveRows)
            BY <3>1 DEF ImagesOf, LiveRows, Live
        <3> QED BY <2>12, <3>2, BlobsQuiet DEF Tick, Stored
    <2>13. ASSUME ServerCrash PROVE BlobsInv'
        <3>1. /\ marks'.reused = marks.reused /\ marks'.promoted = marks.promoted
              /\ marks.unwritten \subseteq marks'.unwritten
              /\ srv.pc = "put" => srv.image \in marks'.unwritten
            BY <2>13 DEF ServerCrash, TypeOK, Marks
        <3> QED BY <2>13, <3>1, BlobsQuiet DEF ServerCrash, Stored, ImagesOf, LiveRows, Live
    <2>14. ASSUME GcCrash PROVE BlobsInv'
        BY <2>14 DEF GcCrash, BlobsInv, BlobsLostOnlyInWindows, ProtectedInv, Stored,
            Idle,
                     TemplateImages, ImagesOf, LiveRows, Live
    <2>15. CASE UNCHANGED vars
        BY <2>15, BlobsQuiet DEF vars, Stored, ImagesOf, LiveRows, Live
    <2> QED
        BY <2>1, <2>2, <2>3, <2>4, <2>5, <2>6, <2>7, <2>8, <2>9, <2>10, <2>11, <2>12,
           <2>13, <2>14, <2>15 DEF Next, GcSweep
<1> QED BY <1>1, <1>2, TypeCorrect, PTL DEF Spec, BlobsInv

-----------------------------------------------------------------------------
(* Nothing leaks but through a discard.                                    *)

\* A step that leaves the sweep, the templates and the rows alone, and puts no blob but
\* one whose row is live, keeps the invariant.
LEMMA OrphansQuiet ==
    ASSUME OrphansInv, UNCHANGED <<templates, rows, gc, created>>,
           now \in Nat, now' \in Nat, now <= now',
           \A u \in DOMAIN rows : rows[u].expires \in Nat,
           marks'.discarded = marks.discarded,
           blobs' \subseteq blobs \cup ImagesOf(LiveRows), StretchInv'
    PROVE  OrphansInv'
    <1>1. ImagesOf(LiveRows) \subseteq ImagesOf(DOMAIN rows)
        BY DEF ImagesOf, LiveRows
    <1>2. gc.pc # "idle" => ImagesOf(LiveRows) \subseteq Kept
        BY DEF OrphansInv, CandidatesInv, Kept, ImagesOf, LiveRows
    <1>3. UNCHANGED <<TemplateImages, Kept>> /\ ImagesOf(DOMAIN rows)' = ImagesOf(DOMAIN rows)
        BY DEF TemplateImages, Kept, ImagesOf
    <1>4. CandidatesInv'
        BY DEF OrphansInv, CandidatesInv, Live
    <1>5. OrphansOnlyFromDiscard'
        BY <1>1, <1>3 DEF OrphansInv, OrphansOnlyFromDiscard
    <1>6. SparedInv'
        BY <1>2, <1>3 DEF OrphansInv, SparedInv
    <1> QED BY <1>4, <1>5, <1>6 DEF OrphansInv

\* The sweep at rest has listed nothing.
LEMMA ListedCandidates ==
    ASSUME TypeOK
    PROVE  gc.pc # "idle" => Listed = DOMAIN gc.candidates
    BY DEF TypeOK, GcState, Idle, Listed

\* A row may go if its image has a template or a row the sweep has not listed, or is
\* marked as discarded.
LEMMA OrphansRemove ==
    ASSUME TypeOK, OrphansInv, NEW u, rows' = Without(rows, {u}), UNCHANGED <<templates, blobs, gc, created, now>>,
           marks.discarded \subseteq marks'.discarded, srv'.pc = "idle",
           u \in DOMAIN rows => \/ LedTo(rows[u].image, DOMAIN rows \ {u})
                                \/ rows[u].image \in marks'.discarded
    PROVE  OrphansInv'
    <1>1. /\ DOMAIN rows' = DOMAIN rows \ {u} /\ \A v \in DOMAIN rows' : rows'[v] = rows[v]
        BY DEF Without
    <1>2. TemplateImages' = TemplateImages
        BY DEF TemplateImages
    <1>3. ImagesOf(DOMAIN rows) \subseteq TemplateImages' \cup ImagesOf(DOMAIN rows)' \cup marks'.discarded
        BY <1>1, <1>2 DEF ImagesOf, LedTo
    <1>4. gc.pc # "idle" => Kept \subseteq Kept'
        <2> SUFFICES ASSUME gc.pc # "idle" PROVE Kept \subseteq Kept'
            OBVIOUS
        <2>1. Listed = DOMAIN gc.candidates /\ DOMAIN gc'.candidates = DOMAIN gc.candidates
            BY ListedCandidates
        <2> DEFINE rest == DOMAIN rows' \ DOMAIN gc.candidates
        <2>2. ImagesOf(DOMAIN rows \ DOMAIN gc.candidates)
                  \subseteq TemplateImages \cup {rows[v].image : v \in rest} \cup marks'.discarded
            BY <1>1, <2>1 DEF ImagesOf, LedTo
        <2>3. Kept' = TemplateImages \cup {rows[v].image : v \in rest} \cup marks'.discarded
            BY <1>1, <1>2, <2>1 DEF Kept, ImagesOf
        <2> QED BY <2>2, <2>3 DEF Kept
    <1>5. OrphansOnlyFromDiscard'
        BY <1>2, <1>3 DEF OrphansInv, OrphansOnlyFromDiscard
    <1>6. CandidatesInv'
        BY <1>1 DEF OrphansInv, CandidatesInv, Live
    <1>7. SparedInv'
        BY <1>4 DEF OrphansInv, SparedInv
    <1>8. StretchInv'
        BY DEF StretchInv
    <1> QED BY <1>5, <1>6, <1>7, <1>8 DEF OrphansInv

\* A blob that neither a row nor a template names lost the last row that led to it to a
\* discard, and no upload of its image came since.
THEOREM OrphansAreDiscards == Spec => []OrphansOnlyFromDiscard
<1>1. Init => OrphansInv
    BY DEF Init, OrphansInv, OrphansOnlyFromDiscard, CandidatesInv, SparedInv,
        StretchInv, Idle
<1>2. TypeOK /\ OrphansInv /\ [Next]_vars => OrphansInv'
    <2> SUFFICES ASSUME TypeOK, OrphansInv, [Next]_vars PROVE OrphansInv'
        OBVIOUS
    <2>0. now \in Nat /\ \A u \in DOMAIN rows : rows[u].expires \in Nat
        BY DEF TypeOK, UploadRow
    <2>1. ASSUME NEW r \in Requests, NEW f \in Friends, NEW i \in Images, Analyze(r, f, i)
          PROVE  OrphansInv'
        <3>1. StretchInv'
            BY <2>1 DEF Analyze, StretchInv, Idle
        <3> QED BY <2>0, <2>1, <3>1, OrphansQuiet DEF Analyze
    <2>2. ASSUME NEW r \in Requests, NEW u \in Uploads, RecordRow(r, u)
          PROVE  OrphansInv'
        <3>0. PICK i : i = analyses[r].image
            OBVIOUS
        <3>1. /\ DOMAIN rows' = DOMAIN rows \cup {u} /\ u \notin DOMAIN rows
              /\ \A v \in DOMAIN rows : rows'[v] = rows[v]
              /\ rows'[u].image = i /\ rows'[u].expires = now + TTL
              /\ u \notin created /\ created' = created \cup {u}
              /\ UNCHANGED <<now, templates, blobs, gc>>
              /\ srv' = [pc |-> "put", image |-> i]
            BY <2>2, <3>0 DEF RecordRow, Insert, TypeOK
        <3>2. marks'.discarded = marks.discarded \ {i}
            BY <2>2, <3>0 DEF RecordRow, TypeOK, Marks
        <3>3. /\ TemplateImages' = TemplateImages
              /\ ImagesOf(DOMAIN rows) \cup {i} \subseteq ImagesOf(DOMAIN rows)'
            BY <3>1 DEF TemplateImages, ImagesOf
        <3>4. gc.pc # "idle" => Kept \subseteq Kept'
            <4>1. gc.pc # "idle" => u \notin DOMAIN gc.candidates
                BY <3>1 DEF OrphansInv, CandidatesInv
            <4> QED BY <3>1, <3>2, <3>3, <4>1 DEF Kept, ImagesOf
        <3>5. OrphansOnlyFromDiscard'
            BY <3>1, <3>2, <3>3 DEF OrphansInv, OrphansOnlyFromDiscard
        <3>6. CandidatesInv'
            BY <3>1 DEF OrphansInv, CandidatesInv, Live
        <3>7. SparedInv'
            BY <3>1, <3>4 DEF OrphansInv, SparedInv
        <3>8. StretchInv'
            <4>1. u \in LiveRows'
                BY <2>0, <3>1, TimesAssumption DEF LiveRows, Live
            <4> QED BY <3>1, <4>1 DEF StretchInv, ImagesOf
        <3> QED BY <3>5, <3>6, <3>7, <3>8 DEF OrphansInv
    <2>3. ASSUME PutBlob PROVE OrphansInv'
        <3>1. marks'.discarded = marks.discarded
            BY <2>3 DEF PutBlob, TypeOK, Marks
        <3>2. blobs' \subseteq blobs \cup ImagesOf(LiveRows) /\ StretchInv'
            BY <2>3 DEF PutBlob, OrphansInv, StretchInv, Idle
        <3> QED BY <2>0, <2>3, <3>1, <3>2, OrphansQuiet DEF PutBlob
    <2>4. ASSUME NEW f \in Friends, NEW u \in Uploads, NEW n \in Names, ApproveUpsert(f,
                 u, n)
          PROVE  OrphansInv'
        <3>0. PICK i : i = rows[u].image
            OBVIOUS
        <3>1. /\ templates' = templates \cup {[name |-> n, image |-> i]}
              /\ srv' = [pc |-> "delete", upload |-> u, image |-> i]
              /\ UNCHANGED <<now, rows, blobs, gc, created>>
            BY <2>4, <3>0 DEF ApproveUpsert
        <3>2. marks'.discarded = marks.discarded
            BY <2>4 DEF ApproveUpsert, TypeOK, Marks
        <3>3. TemplateImages \subseteq TemplateImages' /\ i \in TemplateImages'
            <4>1. [name |-> n, image |-> i].image = i
                OBVIOUS
            <4> QED BY <3>1, <4>1, Zenon DEF TemplateImages
        <3>4. Kept \subseteq Kept'
            BY <3>1, <3>2, <3>3 DEF Kept, ImagesOf
        <3>5. OrphansOnlyFromDiscard'
            BY <3>1, <3>2, <3>3 DEF OrphansInv, OrphansOnlyFromDiscard, ImagesOf
        <3>6. CandidatesInv' /\ SparedInv'
            BY <3>1, <3>4 DEF OrphansInv, CandidatesInv, SparedInv, Live
        <3>7. StretchInv'
            BY <3>0, <3>1, <3>3 DEF StretchInv
        <3> QED BY <3>5, <3>6, <3>7 DEF OrphansInv
    <2>5. ASSUME ApproveDelete PROVE OrphansInv'
        <3>1. srv.upload \in DOMAIN rows => rows[srv.upload].image \in TemplateImages
            BY <2>5 DEF ApproveDelete, OrphansInv, StretchInv
        <3> QED BY <2>5, <3>1, OrphansRemove DEF ApproveDelete, Idle, LedTo
    <2>6. ASSUME NEW f \in Friends, NEW u \in Uploads, Discard(f, u)
          PROVE  OrphansInv'
        <3>1. /\ marks.discarded \subseteq marks'.discarded
              /\ LedTo(rows[u].image, DOMAIN rows \ {u}) \/ rows[u].image \in marks'.discarded
            BY <2>6 DEF Discard, TypeOK, Marks
        <3> QED BY <2>6, <3>1, OrphansRemove DEF Discard, Idle
    <2>7. ASSUME GcExpired PROVE OrphansInv'
        <3> DEFINE expired == DOMAIN rows \ LiveRows
                   old == {u \in expired : Abandoned(u)}
        <3>1. /\ gc'.pc = "templates" /\ gc'.protected = ImagesOf(expired \ old)
              /\ gc'.candidates = [u \in old |-> rows[u].image]
              /\ UNCHANGED <<now, rows, templates, blobs, srv, created, marks>>
            BY <2>7 DEF GcExpired
        <3>2. CandidatesInv'
            BY <3>1 DEF CandidatesInv, Live, LiveRows, TypeOK
        <3>3. ImagesOf(expired \ old) \subseteq ImagesOf(DOMAIN rows \ old)
            BY DEF ImagesOf
        <3>4. DOMAIN gc'.candidates = old
            BY <3>1
        <3>5. SparedInv'
            BY <3>1, <3>3, <3>4 DEF SparedInv, Kept, ImagesOf
        <3>6. OrphansOnlyFromDiscard' /\ StretchInv'
            BY <3>1 DEF OrphansInv, OrphansOnlyFromDiscard, StretchInv, TemplateImages,
                ImagesOf,
                        LiveRows, Live
        <3> QED BY <3>2, <3>5, <3>6 DEF OrphansInv
    <2>8. ASSUME GcTemplates PROVE OrphansInv'
        <3>1. /\ gc'.pc = "live" /\ gc'.candidates = gc.candidates /\ gc.pc # "idle"
              /\ gc'.protected = gc.protected \cup TemplateImages
              /\ UNCHANGED <<now, rows, templates, blobs, srv, created, marks>>
            BY <2>8 DEF GcTemplates
        <3>2. Kept' = Kept /\ TemplateImages \subseteq Kept
            BY <3>1 DEF Kept, TemplateImages, ImagesOf
        <3>3. SparedInv'
            BY <3>1, <3>2 DEF OrphansInv, SparedInv
        <3> QED BY <3>1, <3>3 DEF OrphansInv, OrphansOnlyFromDiscard, CandidatesInv, StretchInv,
                                  TemplateImages, ImagesOf, LiveRows, Live
    <2>9. ASSUME GcLive PROVE OrphansInv'
        <3>1. /\ gc'.pc = "sweep" /\ gc'.candidates = gc.candidates /\ gc.pc # "idle"
              /\ gc'.protected = gc.protected \cup ImagesOf(LiveRows) /\ gc'.reclaimed = {}
              /\ UNCHANGED <<now, rows, templates, blobs, srv, created, marks>>
            BY <2>9 DEF GcLive
        <3>2. Kept' = Kept /\ ImagesOf(LiveRows) \subseteq Kept
            BY <3>1 DEF Kept, TemplateImages, ImagesOf, LiveRows, OrphansInv,
                CandidatesInv
        <3>3. SparedInv'
            BY <3>1, <3>2 DEF OrphansInv, SparedInv
        <3> QED BY <3>1, <3>3 DEF OrphansInv, OrphansOnlyFromDiscard, CandidatesInv, StretchInv,
                                  TemplateImages, ImagesOf, LiveRows, Live
    <2>10. ASSUME NEW u \in Uploads, GcBlob(u) PROVE OrphansInv'
        <3>0. PICK i : i = gc.candidates[u]
            OBVIOUS
        <3>1. /\ gc.pc = "sweep" /\ gc'.pc = "row" /\ gc'.candidates = gc.candidates
              /\ gc'.protected = gc.protected /\ gc'.upload = u /\ u \in DOMAIN gc.candidates
              /\ UNCHANGED <<now, rows, templates, srv, created, marks>>
            BY <2>10 DEF GcBlob
        <3>2. \/ /\ blobs' = blobs \ {i} /\ gc'.reclaimed = gc.reclaimed \cup {i}
              \/ /\ blobs' = blobs /\ gc'.reclaimed = gc.reclaimed
                 /\ i \in gc.protected \cup gc.reclaimed
            BY <2>10, <3>0 DEF GcBlob
        <3>3. Kept' = Kept
            BY <3>1 DEF Kept, TemplateImages, ImagesOf
        <3>4. SparedInv'
            BY <3>0, <3>1, <3>2, <3>3 DEF OrphansInv, SparedInv
        <3>5. blobs' \subseteq blobs
            BY <3>2
        <3> QED BY <3>1, <3>4, <3>5 DEF OrphansInv, OrphansOnlyFromDiscard, CandidatesInv, StretchInv,
                                  TemplateImages, ImagesOf, LiveRows, Live
    <2>11. ASSUME GcRow PROVE OrphansInv'
        <3>0. PICK u : u = gc.upload
            OBVIOUS
        <3>1. /\ gc.pc = "row" /\ DOMAIN rows' = DOMAIN rows \ {u}
              /\ \A v \in DOMAIN rows' : rows'[v] = rows[v]
              /\ UNCHANGED <<now, templates, blobs, srv, created, marks>>
            BY <2>11, <3>0 DEF GcRow, Without
        <3>2. \/ gc'.pc = "idle"
              \/ /\ gc'.pc = "sweep" /\ gc'.protected = gc.protected
                 /\ gc'.reclaimed = gc.reclaimed
                 /\ DOMAIN gc'.candidates = DOMAIN gc.candidates \ {u}
                 /\ \A v \in DOMAIN gc'.candidates : gc'.candidates[v] = gc.candidates[v]
            BY <2>11, <3>0 DEF GcRow, NextCandidate, Without, Idle
        <3>3. gc'.pc # "idle" => Kept' = Kept
            BY <3>0, <3>1, <3>2 DEF Kept, TemplateImages, ImagesOf, OrphansInv, SparedInv
        <3>4. /\ u \in DOMAIN gc.candidates
              /\ u \in DOMAIN rows => ~Live(u) /\ rows[u].image \in gc.protected \cup gc.reclaimed
            BY <3>0, <3>1 DEF OrphansInv, SparedInv, CandidatesInv
        <3>5. SparedInv'
            BY <3>1, <3>2, <3>3 DEF OrphansInv, SparedInv
        <3>6. CandidatesInv'
            BY <3>1, <3>2 DEF OrphansInv, CandidatesInv, Live
        <3>7. OrphansOnlyFromDiscard'
            <4>1. (gc.protected \cup gc.reclaimed) \cap blobs \subseteq Kept
                BY <3>1 DEF OrphansInv, SparedInv
            <4>2. Kept \subseteq TemplateImages' \cup ImagesOf(DOMAIN rows)' \cup marks'.discarded
                BY <3>1, <3>4 DEF Kept, TemplateImages, ImagesOf
            <4>3. ImagesOf(DOMAIN rows) \subseteq ImagesOf(DOMAIN rows)' \cup gc.protected \cup gc.reclaimed
                BY <3>1, <3>4 DEF ImagesOf
            <4> QED BY <3>1, <4>1, <4>2, <4>3 DEF OrphansInv, OrphansOnlyFromDiscard, TemplateImages
        <3>8. StretchInv'
            <4>1. ImagesOf(LiveRows)' = ImagesOf(LiveRows) /\ TemplateImages' = TemplateImages
                BY <3>1, <3>4 DEF ImagesOf, LiveRows, Live, TemplateImages
            <4> QED BY <3>1, <4>1 DEF OrphansInv, StretchInv
        <3> QED BY <3>5, <3>6, <3>7, <3>8 DEF OrphansInv
    <2>12. ASSUME Tick PROVE OrphansInv'
        <3>1. StretchInv' /\ now' = now + 1
            BY <2>12 DEF Tick, StretchInv, Idle
        <3> QED BY <2>0, <2>12, <3>1, OrphansQuiet DEF Tick
    <2>13. ASSUME ServerCrash PROVE OrphansInv'
        <3>1. marks'.discarded = marks.discarded
            BY <2>13 DEF ServerCrash, TypeOK, Marks
        <3>2. StretchInv'
            BY <2>13 DEF ServerCrash, StretchInv, Idle
        <3> QED BY <2>0, <2>13, <3>1, <3>2, OrphansQuiet DEF ServerCrash
    <2>14. ASSUME GcCrash PROVE OrphansInv'
        BY <2>14 DEF GcCrash, OrphansInv, OrphansOnlyFromDiscard, CandidatesInv,
            SparedInv, StretchInv,
                     TemplateImages, ImagesOf, LiveRows, Live, Idle
    <2>15. CASE UNCHANGED vars
        <3>1. StretchInv'
            BY <2>15 DEF vars, OrphansInv, StretchInv, TemplateImages, ImagesOf,
                LiveRows, Live
        <3> QED BY <2>0, <2>15, <3>1, OrphansQuiet DEF vars
    <2> QED
        BY <2>1, <2>2, <2>3, <2>4, <2>5, <2>6, <2>7, <2>8, <2>9, <2>10, <2>11, <2>12,
           <2>13, <2>14, <2>15 DEF Next, GcSweep
<1> QED BY <1>1, <1>2, TypeCorrect, PTL DEF Spec, OrphansInv

-----------------------------------------------------------------------------
(* One image, one template.                                                *)

\* A step that adds no template, analysis or row and forgets no mark keeps the invariant,
\* if the deletion under way at its start, if any, is under way or over at its end.
LEMMA DuplicatesQuiet ==
    ASSUME DuplicatesInv, templates' = templates,
           DOMAIN analyses' \subseteq DOMAIN analyses,
           \A r \in DOMAIN analyses' : analyses'[r] = analyses[r],
           DOMAIN rows' \subseteq DOMAIN rows, \A u \in DOMAIN rows' : rows'[u] = rows[u],
           marks.overlapped \subseteq marks'.overlapped,
           marks.unfinished \subseteq marks'.unfinished,
           srv.pc = "delete" =>
               srv' = srv \/ srv.upload \notin DOMAIN rows' \/ srv.image \in marks'.unfinished
    PROVE  DuplicatesInv'
    <1>1. TemplateImages' = TemplateImages
        BY DEF TemplateImages
    <1>2. DuplicatesOnlyFromOverlap'
        BY DEF DuplicatesInv, DuplicatesOnlyFromOverlap
    <1>3. SettledInv'
        BY <1>1 DEF DuplicatesInv, SettledInv
    <1> QED BY <1>2, <1>3 DEF DuplicatesInv

\* An image becomes two templates only if two uploads of it were in review together, or a
\* crash left the row of an upload that had been approved.
THEOREM DuplicatesAreOverlaps == Spec => []DuplicatesOnlyFromOverlap
<1>1. Init => DuplicatesInv
    BY DEF Init, DuplicatesInv, DuplicatesOnlyFromOverlap, SettledInv, TemplateImages
<1>2. TypeOK /\ DuplicatesInv /\ [Next]_vars => DuplicatesInv'
    <2> SUFFICES ASSUME TypeOK, DuplicatesInv, [Next]_vars PROVE DuplicatesInv'
        OBVIOUS
    <2>1. ASSUME NEW r \in Requests, NEW f \in Friends, NEW i \in Images, Analyze(r, f, i)
          PROVE  DuplicatesInv'
        <3>1. /\ i \notin TemplateImages =>
                     \A q \in DOMAIN analyses' :
                         \/ q \in DOMAIN analyses /\ analyses'[q] = analyses[q]
                         \/ analyses'[q].image = i
              /\ i \in TemplateImages => analyses' = analyses
            BY <2>1 DEF Analyze, Insert
        <3>2. UNCHANGED <<templates, rows, marks, srv>> /\ TemplateImages' = TemplateImages
            BY <2>1 DEF Analyze, TemplateImages
        <3> QED BY <3>1, <3>2 DEF DuplicatesInv, DuplicatesOnlyFromOverlap, SettledInv
    <2>2. ASSUME NEW r \in Requests, NEW u \in Uploads, RecordRow(r, u)
          PROVE  DuplicatesInv'
        <3>0. PICK i : i = analyses[r].image
            OBVIOUS
        <3>1. /\ \A q \in DOMAIN analyses' : q \in DOMAIN analyses /\ analyses'[q] = analyses[q]
              /\ r \in DOMAIN analyses
            BY <2>2 DEF RecordRow, Without
        <3>2. \A v \in DOMAIN rows' :
                 (v \in DOMAIN rows /\ rows'[v] = rows[v]) \/ rows'[v].image = i
            BY <2>2, <3>0 DEF RecordRow, Insert
        <3>3. /\ templates' = templates /\ TemplateImages' = TemplateImages /\ srv.pc = "idle"
              /\ marks'.overlapped = marks.overlapped /\ marks'.unfinished = marks.unfinished
            BY <2>2 DEF RecordRow, TemplateImages, TypeOK, Marks, Idle
        <3> QED BY <3>0, <3>1, <3>2, <3>3 DEF DuplicatesInv, DuplicatesOnlyFromOverlap, SettledInv
    <2>3. ASSUME PutBlob PROVE DuplicatesInv'
        <3>1. marks'.overlapped = marks.overlapped /\ marks'.unfinished = marks.unfinished
            BY <2>3 DEF PutBlob, TypeOK, Marks
        <3> QED BY <2>3, <3>1, DuplicatesQuiet DEF PutBlob
    <2>4. ASSUME NEW f \in Friends, NEW u \in Uploads, NEW n \in Names, ApproveUpsert(f,
                 u, n)
          PROVE  DuplicatesInv'
        <3>0. PICK i : i = rows[u].image
            OBVIOUS
        <3> DEFINE t == [name |-> n, image |-> i]
        <3>1. /\ templates' = templates \cup {t} /\ UNCHANGED <<rows, analyses>>
              /\ srv.pc = "idle" /\ srv' = [pc |-> "delete", upload |-> u, image |-> i]
              /\ u \in DOMAIN rows
            BY <2>4, <3>0 DEF ApproveUpsert, Idle
        <3>2. /\ marks'.unfinished = marks.unfinished
              /\ marks.overlapped \subseteq marks'.overlapped
              /\ InReview(u) => i \in marks'.overlapped
            BY <2>4, <3>0 DEF ApproveUpsert, TypeOK, Marks
        <3>3. t.image = i
            OBVIOUS
        <3> HIDE DEF t
        <3>4. TemplateImages' = TemplateImages \cup {i}
            BY <3>1, <3>3, Zenon DEF TemplateImages
        <3>5. i \in TemplateImages => i \in marks.overlapped \cup marks.unfinished
            BY <3>0, <3>1 DEF DuplicatesInv, SettledInv
        <3>6. DuplicatesOnlyFromOverlap'
            <4> SUFFICES ASSUME NEW s \in templates', NEW v \in templates', s.image = v.image, s # v
                         PROVE  s.image \in marks'.overlapped \cup marks'.unfinished
                BY DEF DuplicatesOnlyFromOverlap
            <4>1. CASE s \in templates /\ v \in templates
                BY <3>2, <4>1 DEF DuplicatesInv, DuplicatesOnlyFromOverlap
            <4>2. CASE s = t \/ v = t
                <5>1. s.image = i /\ i \in TemplateImages
                    BY <3>1, <3>3, <4>2 DEF TemplateImages
                <5> QED BY <3>2, <3>5, <5>1
            <4> QED BY <3>1, <4>1, <4>2
        <3>7. SettledInv'
            <4>1. ~InReview(u) => /\ \A r \in DOMAIN analyses : analyses[r].image # i
                                  /\ \A v \in DOMAIN rows : rows[v].image = i => v = u
                BY <3>0 DEF InReview
            <4> QED BY <3>1, <3>2, <3>4, <4>1 DEF DuplicatesInv, SettledInv
        <3> QED BY <3>6, <3>7 DEF DuplicatesInv
    <2>5. ASSUME ApproveDelete PROVE DuplicatesInv'
        BY <2>5, DuplicatesQuiet DEF ApproveDelete, Without
    <2>6. ASSUME NEW f \in Friends, NEW u \in Uploads, Discard(f, u)
          PROVE  DuplicatesInv'
        <3>1. marks'.overlapped = marks.overlapped /\ marks'.unfinished = marks.unfinished
            BY <2>6 DEF Discard, TypeOK, Marks
        <3> QED BY <2>6, <3>1, DuplicatesQuiet DEF Discard, Without
    <2>7. ASSUME GcExpired PROVE DuplicatesInv'
        BY <2>7, DuplicatesQuiet DEF GcExpired
    <2>8. ASSUME GcTemplates PROVE DuplicatesInv'
        BY <2>8, DuplicatesQuiet DEF GcTemplates
    <2>9. ASSUME GcLive PROVE DuplicatesInv'
        BY <2>9, DuplicatesQuiet DEF GcLive
    <2>10. ASSUME NEW u \in Uploads, GcBlob(u) PROVE DuplicatesInv'
        BY <2>10, DuplicatesQuiet DEF GcBlob
    <2>11. ASSUME GcRow PROVE DuplicatesInv'
        BY <2>11, DuplicatesQuiet DEF GcRow, Without
    <2>12. ASSUME Tick PROVE DuplicatesInv'
        BY <2>12, DuplicatesQuiet DEF Tick
    <2>13. ASSUME ServerCrash PROVE DuplicatesInv'
        <3>1. /\ marks'.overlapped = marks.overlapped /\ marks.unfinished \subseteq marks'.unfinished
              /\ srv.pc = "delete" => srv.image \in marks'.unfinished
            BY <2>13 DEF ServerCrash, TypeOK, Marks
        <3> QED BY <2>13, <3>1, DuplicatesQuiet DEF ServerCrash, Empty
    <2>14. ASSUME GcCrash PROVE DuplicatesInv'
        BY <2>14, DuplicatesQuiet DEF GcCrash
    <2>15. CASE UNCHANGED vars
        BY <2>15, DuplicatesQuiet DEF vars
    <2> QED
        BY <2>1, <2>2, <2>3, <2>4, <2>5, <2>6, <2>7, <2>8, <2>9, <2>10, <2>11, <2>12,
           <2>13, <2>14, <2>15 DEF Next, GcSweep
<1> QED BY <1>1, <1>2, TypeCorrect, PTL DEF Spec, DuplicatesInv
=============================================================================
