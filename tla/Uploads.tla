------------------------------ MODULE Uploads ------------------------------
(***************************************************************************)
(* From an uploaded image to a template: analyze, approve, discard, and    *)
(* the gc-uploads sweep.                                                   *)
(*                                                                         *)
(* The web server and the sweep are two processes that share a SQLite file *)
(* (pending_uploads, templates) and a content-addressed blob store.  The   *)
(* server's handlers are coroutines: analyze suspends while the            *)
(* reverse-image lookup and the vision model run, and every other stretch  *)
(* of a handler runs to its end before another handler does.  Inside such  *)
(* a stretch each statement is a transaction of its own, so the sweep      *)
(* comes between two of them and a crash may cut it short.                 *)
(*                                                                         *)
(* An image stands for the sanitized bytes, their hash and their path.  A  *)
(* template's id is its name (as a slug) and the image's hash.             *)
(***************************************************************************)
EXTENDS Integers, FiniteSets

CONSTANTS
    Friends, Images, Names,
    Requests,      \* analyze calls under way at one time
    Uploads,       \* the upload ids uuid4 returns
    TTL, GRACE,
    MaxTime        \* bound on the clock, for model checking only

ASSUME TimesAssumption == TTL \in Nat \ {0} /\ GRACE \in Nat /\ MaxTime \in Nat

VARIABLES
    now,           \* the clock; one unit outlasts a stretch, not an analysis
    analyses,      \* analyze calls waiting for the vision model
    rows,          \* table pending_uploads
    templates,     \* table templates
    blobs,         \* paths present in the image store
    srv, gc,       \* where each process is
    created,       \* upload ids drawn so far
    marks          \* history: what happened to each image

vars == <<now, analyses, rows, templates, blobs, srv, gc, created, marks>>

Idle == [pc |-> "idle"]

AnalysisRow == [friend : Friends, image : Images]
UploadRow == [friend : Friends, image : Images, expires : Nat]
TemplateRow == [name : Names, image : Images]
ServerState ==
    {Idle} \cup [pc : {"put"}, image : Images]
           \cup [pc : {"delete"}, upload : Uploads, image : Images]

\* The sweep holds the candidates it listed, id to path, and the paths it protects.
GcState(candidates) ==
    {Idle}
    \cup [pc : {"templates", "live"}, candidates : candidates, protected : SUBSET Images]
    \cup [pc : {"sweep"}, candidates : candidates, protected : SUBSET Images,
          reclaimed : SUBSET Images]
    \cup [pc : {"row"}, candidates : candidates, protected : SUBSET Images,
          reclaimed : SUBSET Images, upload : Uploads]
PathsOf == UNION {[us -> Images] : us \in SUBSET Uploads}

\* unwritten  a crash came between the row and the blob, and no put since
\* reused     a row was recorded after the sweep had read the live rows
\* promoted   approved between the sweep's read of templates and of live rows
\* discarded  a discard took the last row that leads to its blob, and none came since
\* overlapped approved while another upload of it was in the review pipeline
\* unfinished a crash came between the template and the deletion of its row
Marks == [unwritten : SUBSET Images, reused : SUBSET Images, promoted : SUBSET Images,
          discarded : SUBSET Images, overlapped : SUBSET Images,
          unfinished : SUBSET Images]

\* The one type invariant: tables hold rows of their type and each process is in one of
\* its control states (db/uploads.py, db/templates.py, cli/gc_uploads.py).
TypeOK ==
    /\ now \in Nat
    /\ DOMAIN analyses \subseteq Requests /\ analyses \in [DOMAIN analyses -> AnalysisRow]
    /\ DOMAIN rows \subseteq Uploads /\ rows \in [DOMAIN rows -> UploadRow]
    /\ templates \subseteq TemplateRow /\ blobs \subseteq Images
    /\ srv \in ServerState /\ gc \in GcState(PathsOf)
    /\ created \subseteq Uploads /\ DOMAIN rows \subseteq created
    /\ marks \in Marks

Empty == [x \in {} |-> x]

Init ==
    /\ now = 0 /\ analyses = Empty /\ rows = Empty /\ templates = {} /\ blobs = {}
    /\ srv = Idle /\ gc = Idle /\ created = {}
    /\ marks = [unwritten |-> {}, reused |-> {}, promoted |-> {}, discarded |-> {},
                overlapped |-> {}, unfinished |-> {}]

Insert(table, key, row) ==
    [k \in DOMAIN table \cup {key} |-> IF k = key THEN row ELSE table[k]]

Without(table, keys) == [k \in DOMAIN table \ keys |-> table[k]]

ImagesOf(ids) == {rows[u].image : u \in ids}

Live(u) == rows[u].expires > now
LiveRows == {u \in DOMAIN rows : Live(u)}
TemplateImages == {t.image : t \in templates}

\* Past the sweep's grace window, and not merely expired.
Abandoned(u) == rows[u].expires < now - GRACE

-----------------------------------------------------------------------------
(* The web server.                                                         *)

\* Mutant of Analyze: the exact-hash gate is gone.
AnalyzeUngated(r, f, i) ==
    /\ srv = Idle /\ r \notin DOMAIN analyses
    /\ analyses' = Insert(analyses, r, [friend |-> f, image |-> i])
    /\ UNCHANGED <<now, rows, templates, blobs, srv, gc, created, marks>>

\* analyze_image up to its first await: the duplicate index is built from the
\* templates there are now, and an exact duplicate is rejected with nothing stored.
Analyze(r, f, i) ==
    /\ srv = Idle /\ r \notin DOMAIN analyses
    /\ analyses' = IF i \in TemplateImages THEN analyses
                   ELSE Insert(analyses, r, [friend |-> f, image |-> i])
    /\ UNCHANGED <<now, rows, templates, blobs, srv, gc, created, marks>>

\* Mutant of RecordRow: the row expires the TTL before it was made.
RecordExpired(r, u) ==
    /\ srv = Idle /\ r \in DOMAIN analyses /\ u \notin created
    /\ rows' = Insert(rows, u, [friend |-> analyses[r].friend, image |-> analyses[r].image,
                                expires |-> now - TTL])
    /\ created' = created \cup {u}
    /\ analyses' = Without(analyses, {r})
    /\ srv' = [pc |-> "put", image |-> analyses[r].image]
    /\ UNCHANGED <<now, templates, blobs, gc, marks>>

\* analyze_image after its last await: pending_uploads.create ...
RecordRow(r, u) ==
    /\ srv = Idle /\ r \in DOMAIN analyses /\ u \notin created
    /\ LET f == analyses[r].friend
           i == analyses[r].image
       IN /\ rows' = Insert(rows, u, [friend |-> f, image |-> i, expires |-> now + TTL])
          /\ srv' = [pc |-> "put", image |-> i]
          /\ marks' = [marks EXCEPT
                 !.reused = IF gc.pc \in {"sweep", "row"} THEN @ \cup {i} ELSE @,
                 !.discarded = @ \ {i}]
    /\ created' = created \cup {u}
    /\ analyses' = Without(analyses, {r})
    /\ UNCHANGED <<now, templates, blobs, gc>>

\* ... then image_store.put, which leaves a blob that is there alone.
PutBlob ==
    /\ srv.pc = "put"
    /\ blobs' = blobs \cup {srv.image}
    /\ marks' = [marks EXCEPT !.unwritten = @ \ {srv.image}]
    /\ srv' = Idle
    /\ UNCHANGED <<now, analyses, rows, templates, gc, created>>

\* Another upload of u's image is waiting for the model or for its friend.
InReview(u) ==
    \/ \E r \in DOMAIN analyses : analyses[r].image = rows[u].image
    \/ \E v \in DOMAIN rows \ {u} : rows[v].image = rows[u].image

\* approve: the owner's unexpired row becomes a template under the name in the review
\* form (upsert by id) ...  Its reads of the row and of the stored template are of the
\* same step: only the sweep comes between them, and it takes no row that was live.
ApproveUpsert(f, u, n) ==
    /\ srv = Idle /\ u \in DOMAIN rows /\ rows[u].friend = f /\ Live(u)
    /\ LET i == rows[u].image
       IN /\ templates' = templates \cup {[name |-> n, image |-> i]}
          /\ srv' = [pc |-> "delete", upload |-> u, image |-> i]
          /\ marks' = [marks EXCEPT
                 !.promoted = IF gc.pc = "live" THEN @ \cup {i} ELSE @,
                 !.overlapped = IF InReview(u) THEN @ \cup {i} ELSE @]
    /\ UNCHANGED <<now, analyses, rows, blobs, gc, created>>

\* ... and the row goes, in a transaction of its own.
ApproveDelete ==
    /\ srv.pc = "delete"
    /\ rows' = Without(rows, {srv.upload})
    /\ srv' = Idle
    /\ UNCHANGED <<now, analyses, templates, blobs, gc, created, marks>>

\* Rows the sweep under way is about to delete.
Listed == IF gc = Idle THEN {} ELSE DOMAIN gc.candidates

\* A template keeps the blob, or a later sweep comes to it by another row.
LedTo(i, ids) == i \in TemplateImages \cup ImagesOf(ids \ Listed)

\* discard: the owner's row, expired or not, and never the blob.
Discard(f, u) ==
    /\ srv = Idle /\ u \in DOMAIN rows /\ rows[u].friend = f
    /\ rows' = Without(rows, {u})
    /\ marks' = IF LedTo(rows[u].image, DOMAIN rows \ {u}) THEN marks
                ELSE [marks EXCEPT !.discarded = @ \cup {rows[u].image}]
    /\ UNCHANGED <<now, analyses, templates, blobs, srv, gc, created>>

-----------------------------------------------------------------------------
(* gc-uploads: three reads, then for each candidate its blob and its row.  *)

GcExpired ==
    /\ gc = Idle
    /\ LET expired == DOMAIN rows \ LiveRows
           candidates == {u \in expired : Abandoned(u)}
       IN /\ candidates # {}
          /\ gc' = [pc |-> "templates", protected |-> ImagesOf(expired \ candidates),
                    candidates |-> [u \in candidates |-> rows[u].image]]
    /\ UNCHANGED <<now, analyses, rows, templates, blobs, srv, created, marks>>

GcTemplates ==
    /\ gc.pc = "templates"
    /\ gc' = [pc |-> "live", candidates |-> gc.candidates,
              protected |-> gc.protected \cup TemplateImages]
    /\ UNCHANGED <<now, analyses, rows, templates, blobs, srv, created, marks>>

\* Mutant of GcLive: the live siblings are not consulted.
GcLiveForgotten ==
    /\ gc.pc = "live"
    /\ gc' = [pc |-> "sweep", candidates |-> gc.candidates, reclaimed |-> {},
              protected |-> gc.protected]
    /\ UNCHANGED <<now, analyses, rows, templates, blobs, srv, created, marks>>

GcLive ==
    /\ gc.pc = "live"
    /\ gc' = [pc |-> "sweep", candidates |-> gc.candidates, reclaimed |-> {},
              protected |-> gc.protected \cup ImagesOf(LiveRows)]
    /\ UNCHANGED <<now, analyses, rows, templates, blobs, srv, created, marks>>

NextCandidate(candidates, protected, reclaimed) ==
    IF DOMAIN candidates = {} THEN Idle
    ELSE [pc |-> "sweep", candidates |-> candidates, protected |-> protected,
          reclaimed |-> reclaimed]

\* Mutant of GcBlob: a candidate whose blob stays keeps its row too.
GcBlobOrSkip(u) ==
    /\ gc.pc = "sweep" /\ u \in DOMAIN gc.candidates
    /\ LET i == gc.candidates[u]
           orphan == i \notin gc.protected \cup gc.reclaimed
       IN /\ blobs' = IF orphan THEN blobs \ {i} ELSE blobs
          /\ gc' = IF orphan
                   THEN [pc |-> "row", candidates |-> gc.candidates, upload |-> u,
                         protected |-> gc.protected,
                         reclaimed |-> gc.reclaimed \cup {i}]
                   ELSE NextCandidate(Without(gc.candidates, {u}), gc.protected, gc.reclaimed)
    /\ UNCHANGED <<now, analyses, rows, templates, srv, created, marks>>

\* A candidate's blob, unless it is protected or this sweep has reclaimed it.
GcBlob(u) ==
    /\ gc.pc = "sweep" /\ u \in DOMAIN gc.candidates
    /\ LET i == gc.candidates[u]
           orphan == i \notin gc.protected \cup gc.reclaimed
       IN /\ blobs' = IF orphan THEN blobs \ {i} ELSE blobs
          /\ gc' = [pc |-> "row", candidates |-> gc.candidates, upload |-> u,
                    protected |-> gc.protected,
                    reclaimed |-> IF orphan THEN gc.reclaimed \cup {i} ELSE gc.reclaimed]
    /\ UNCHANGED <<now, analyses, rows, templates, srv, created, marks>>

\* Mutant of GcRow: one DELETE for all the candidates, after the first blob.
GcAllRows ==
    /\ gc.pc = "row"
    /\ rows' = Without(rows, DOMAIN gc.candidates)
    /\ gc' = NextCandidate(Without(gc.candidates, {gc.upload}), gc.protected, gc.reclaimed)
    /\ UNCHANGED <<now, analyses, templates, blobs, srv, created, marks>>

GcRow ==
    /\ gc.pc = "row"
    /\ rows' = Without(rows, {gc.upload})
    /\ gc' = NextCandidate(Without(gc.candidates, {gc.upload}), gc.protected, gc.reclaimed)
    /\ UNCHANGED <<now, analyses, templates, blobs, srv, created, marks>>

-----------------------------------------------------------------------------
(* Time, and the death of either process.                                  *)

Tick ==
    /\ srv = Idle /\ now < MaxTime
    /\ now' = now + 1
    /\ UNCHANGED <<analyses, rows, templates, blobs, srv, gc, created, marks>>

\* The server takes the analyses under way with it.
ServerCrash ==
    /\ srv # Idle \/ analyses # Empty
    /\ srv' = Idle /\ analyses' = Empty
    /\ marks' = [marks EXCEPT
           !.unwritten = IF srv.pc = "put" THEN @ \cup {srv.image} ELSE @,
           !.unfinished = IF srv.pc = "delete" THEN @ \cup {srv.image} ELSE @]
    /\ UNCHANGED <<now, rows, templates, blobs, gc, created>>

GcCrash ==
    /\ gc # Idle /\ gc' = Idle
    /\ UNCHANGED <<now, analyses, rows, templates, blobs, srv, created, marks>>

GcSweep == \E u \in Uploads : GcBlob(u)

Next ==
    \/ \E r \in Requests, f \in Friends, i \in Images : Analyze(r, f, i)
    \/ \E r \in Requests, u \in Uploads : RecordRow(r, u)
    \/ PutBlob
    \/ \E f \in Friends, u \in Uploads, n \in Names : ApproveUpsert(f, u, n)
    \/ ApproveDelete
    \/ \E f \in Friends, u \in Uploads : Discard(f, u)
    \/ GcExpired \/ GcTemplates \/ GcLive \/ GcSweep \/ GcRow
    \/ Tick \/ ServerCrash \/ GcCrash

Spec == Init /\ [][Next]_vars

\* Time passes, a handler's stretch ends or the server dies, and the daily sweep is not
\* killed at the same step every day.
FairSpec ==
    /\ Spec
    /\ WF_vars(Tick) /\ WF_vars(PutBlob) /\ WF_vars(ApproveDelete)
    /\ SF_vars(GcExpired) /\ SF_vars(GcTemplates) /\ SF_vars(GcLive)
    /\ SF_vars(GcSweep) /\ SF_vars(GcRow)

-----------------------------------------------------------------------------
(* Safety.                                                                 *)

Stored(i) == i \in blobs \/ (srv.pc = "put" /\ srv.image = i)

\* A template, and an upload its friend can still approve, has its blob, through shared
\* blobs, sweeps under way and crashes, except in three windows: the crash
\* between create and put, an upload recorded behind the sweep's reads, and an approval
\* between two of them (analyze_image, approve_pending, _gc).
BlobsLostOnlyInWindows ==
    \A i \in TemplateImages \cup ImagesOf(LiveRows) :
        Stored(i) \/ i \in marks.unwritten \cup marks.reused \cup marks.promoted

\* What no row and no template names no sweep can find.  Nothing but the discard of the
\* last row leaves such a blob, until its image is uploaded again: the row outlives
\* the put and, in the sweep, the blob (delete_owned, _gc).
OrphansOnlyFromDiscard ==
    blobs \subseteq TemplateImages \cup ImagesOf(DOMAIN rows) \cup marks.discarded

\* One image becomes two templates only if two uploads of it were in review at once, or
\* a crash left the row of an approved upload: the duplicate gate is asked once, before
\* the awaits, and approve does not ask again.
DuplicatesOnlyFromOverlap ==
    \A s, t \in templates :
        s.image = t.image => s = t \/ s.image \in marks.overlapped \cup marks.unfinished

\* Every upload left unreviewed past the grace window is eventually removed, however
\* often the sweep is killed and whoever shares the blob.
AbandonedRowsReclaimed ==
    \A u \in Uploads :
        (u \in DOMAIN rows /\ Abandoned(u)) ~> (u \notin DOMAIN rows)

-----------------------------------------------------------------------------
(* What ARCHITECTURE.md:389 says of a discard.                             *)

Unreferenced(i) == i \in blobs \ (TemplateImages \cup ImagesOf(DOMAIN rows))

\* "Discard (and abandonment) deletes only the pending row; the blob is reclaimed by the
\* daily gc-uploads sweep": a blob nothing refers to goes, or something refers to it again.
DiscardedBlobsReclaimed == \A i \in Images : Unreferenced(i) ~> ~Unreferenced(i)
=============================================================================
