------------------------------ MODULE Renders -------------------------------
(***************************************************************************)
(* Rendered memes: generate, the signed URL and the receipt it answers     *)
(* with, and the gc-renders sweep.                                         *)
(*                                                                         *)
(* The server and the sweep are two processes that share the blob store    *)
(* and table generated_receipts.  generate runs to its end before another  *)
(* handler does; the sweep comes between its blob and its receipt.  Only   *)
(* sweeps take the shard locks.  A render stands for its bytes, their hash *)
(* and their path; every render has the size of one.                       *)
(***************************************************************************)
EXTENDS Integers, FiniteSets

CONSTANTS
    Friends, Images,
    Sweeps,        \* sets of flags that sweeps are started with
    RETENTION,     \* RENDER_GC_TTL_DAYS, the age that flag "ttl" stands for
    URL_TTL,       \* RENDER_URL_TTL_SECONDS
    MaxBytes,      \* the budget of flag "bytes"
    MaxTime        \* bound on the clock, for model checking only

\* validate_at_startup: a signed URL must not outlive the retention; it may last as long.
ASSUME RetentionAssumption ==
    /\ RETENTION \in Nat /\ URL_TTL \in Nat \ {0} /\ URL_TTL <= RETENTION
    /\ MaxBytes \in Nat /\ MaxTime \in Nat
    /\ Sweeps \subseteq SUBSET {"ttl", "bytes"}
    /\ IsFiniteSet(Images)

VARIABLES
    now,           \* the clock; one unit outlasts the end of a generate
    receipts,      \* table generated_receipts
    blobs,         \* renders present in the image store
    srv, gc,       \* where each process is
    answers,       \* history: to whom and when each render was last answered
    raced,         \* history: renders whose last generate and a sweep that listed them overlapped
    evicted,       \* history: renders that a sweep listed for their size since
    orphaned,      \* history: renders whose last generate died before its receipt
    grown          \* history: a render was put or recorded since the sweep summed up the sizes

history == <<answers, raced, evicted, orphaned, grown>>
vars == <<now, receipts, blobs, srv, gc, history>>

Idle == [pc |-> "idle"]

ReceiptRow == [friend : Friends, created : Nat]
Answer == [friend : Friends, at : Nat]
\* swept: a sweep that has listed the render is under way beside this generate.
ServerState ==
    {Idle} \cup [pc : {"record"}, friend : Friends, image : Images, swept : BOOLEAN]
GcState ==
    {Idle}
    \cup [pc : {"oldest", "sweep"}, candidates : SUBSET Images]
    \cup [pc : {"row"}, candidates : SUBSET Images, image : Images]

\* The one type invariant: receipts, answers, and where each process is (db/receipts.py,
\* cli/gc_renders.py); a sweep deletes only what it listed.
TypeOK ==
    /\ now \in Nat
    /\ DOMAIN receipts \subseteq Images /\ receipts \in [DOMAIN receipts -> ReceiptRow]
    /\ blobs \subseteq Images
    /\ srv \in ServerState /\ gc \in GcState
    /\ gc.pc = "row" => gc.image \in gc.candidates
    /\ DOMAIN answers \subseteq Images /\ answers \in [DOMAIN answers -> Answer]
    /\ raced \subseteq Images /\ evicted \subseteq Images /\ orphaned \subseteq Images
    /\ grown \in BOOLEAN

Empty == [x \in {} |-> x]

Init ==
    /\ now = 0 /\ receipts = Empty /\ blobs = {} /\ srv = Idle /\ gc = Idle
    /\ answers = Empty /\ raced = {} /\ evicted = {} /\ orphaned = {} /\ grown = TRUE

Insert(table, key, row) ==
    [k \in DOMAIN table \cup {key} |-> IF k = key THEN row ELSE table[k]]

Without(table, key) == [k \in DOMAIN table \ {key} |-> table[k]]

\* What the sweep under way has listed and not dealt with.
Listed == IF gc = Idle THEN {} ELSE gc.candidates

-----------------------------------------------------------------------------
(* The server.                                                             *)

\* generate up to the blob: a blob that is there is left alone.
Put(f, i) ==
    /\ srv = Idle
    /\ blobs' = blobs \cup {i}
    /\ srv' = [pc |-> "record", friend |-> f, image |-> i, swept |-> i \in Listed]
    /\ grown' = TRUE
    /\ UNCHANGED <<now, receipts, gc, answers, raced, evicted, orphaned>>

\* Mutant of Record: a receipt that is there keeps its date and its friend.
RecordOnce ==
    /\ srv.pc = "record"
    /\ LET i == srv.image
       IN /\ receipts' = IF i \in DOMAIN receipts THEN receipts
                         ELSE Insert(receipts, i, [friend |-> srv.friend, created |-> now])
          /\ answers' = Insert(answers, i, [friend |-> srv.friend, at |-> now])
          /\ raced' = IF srv.swept THEN raced \cup {i} ELSE raced \ {i}
          /\ evicted' = evicted \ {i} /\ orphaned' = orphaned \ {i}
    /\ srv' = Idle /\ grown' = TRUE
    /\ UNCHANGED <<now, blobs, gc>>

\* Mutant of Record: the receipt is dated by the cutoff of a sweep.
RecordBackdated ==
    /\ srv.pc = "record"
    /\ LET i == srv.image
       IN /\ receipts' = Insert(receipts, i, [friend |-> srv.friend,
                                             created |-> now - RETENTION])
          /\ answers' = Insert(answers, i, [friend |-> srv.friend, at |-> now])
          /\ raced' = IF srv.swept THEN raced \cup {i} ELSE raced \ {i}
          /\ evicted' = evicted \ {i} /\ orphaned' = orphaned \ {i}
    /\ srv' = Idle /\ grown' = TRUE
    /\ UNCHANGED <<now, blobs, gc>>

\* ... then INSERT OR REPLACE of the receipt, and the answer with its signed URL.
Record ==
    /\ srv.pc = "record"
    /\ LET i == srv.image
       IN /\ receipts' = Insert(receipts, i, [friend |-> srv.friend, created |-> now])
          /\ answers' = Insert(answers, i, [friend |-> srv.friend, at |-> now])
          /\ raced' = IF srv.swept THEN raced \cup {i} ELSE raced \ {i}
          /\ evicted' = evicted \ {i} /\ orphaned' = orphaned \ {i}
    /\ srv' = Idle /\ grown' = TRUE
    /\ UNCHANGED <<now, blobs, gc>>

\* display_render, and render_file without a signature: the friend of the receipt.
Shows(f, i) == i \in DOMAIN receipts /\ receipts[i].friend = f /\ i \in blobs

\* verify_render_signature: the last URL signed for a render is not expired.
Signed(i) == i \in DOMAIN answers /\ now <= answers[i].at + URL_TTL

ServerCrash ==
    /\ srv # Idle
    /\ orphaned' = orphaned \cup {srv.image}
    /\ srv' = Idle
    /\ UNCHANGED <<now, receipts, blobs, gc, answers, raced, evicted, grown>>

-----------------------------------------------------------------------------
(* gc-renders: what is too old, then the oldest until the rest fits, then  *)
(* for each its blob and its receipt.                                      *)

\* hashes_older_than
Aged == {i \in DOMAIN receipts : receipts[i].created + RETENTION <= now}

Size(images) == Cardinality(images \cap blobs)

\* Mutant of Surplus: the loop stops one render early.
SurplusShort(S) ==
    /\ S \subseteq DOMAIN receipts
    /\ \A i \in S, j \in DOMAIN receipts \ S : receipts[i].created <= receipts[j].created
    /\ Size(DOMAIN receipts \ S) <= MaxBytes + 1
    /\ S # {} => \E i \in S :
           /\ \A j \in S : receipts[j].created <= receipts[i].created
           /\ Size(DOMAIN receipts \ (S \ {i})) > MaxBytes + 1

\* The loop over all_hashes_oldest_first ends with S: oldest first, until the rest fits,
\* and without the last of S it would not.
Surplus(S) ==
    /\ S \subseteq DOMAIN receipts
    /\ \A i \in S, j \in DOMAIN receipts \ S : receipts[i].created <= receipts[j].created
    /\ Size(DOMAIN receipts \ S) <= MaxBytes
    /\ S # {} => \E i \in S :
           /\ \A j \in S : receipts[j].created <= receipts[i].created
           /\ Size(DOMAIN receipts \ (S \ {i})) > MaxBytes

NextCandidate(candidates) ==
    IF candidates = {} THEN Idle ELSE [pc |-> "sweep", candidates |-> candidates]

\* The generate under way learns of a list with its render.
Noticed(candidates) ==
    IF srv # Idle /\ srv.image \in candidates THEN [srv EXCEPT !.swept = TRUE] ELSE srv

\* A sweep begins with the list for flag "ttl".
GcAged(flags) ==
    /\ gc = Idle /\ "ttl" \in flags
    /\ gc' = IF "bytes" \in flags THEN [pc |-> "oldest", candidates |-> Aged]
                                  ELSE NextCandidate(Aged)
    /\ srv' = Noticed(Aged)
    /\ grown' = TRUE
    /\ UNCHANGED <<now, receipts, blobs, answers, raced, evicted, orphaned>>

\* The list for flag "bytes", which comes first when it is the only one.
GcOldest(flags, S) ==
    /\ "bytes" \in flags
    /\ IF "ttl" \in flags THEN gc.pc = "oldest" ELSE gc = Idle
    /\ Surplus(S)
    /\ gc' = NextCandidate(Listed \cup S)
    /\ srv' = Noticed(S)
    /\ evicted' = evicted \cup S
    /\ grown' = FALSE
    /\ UNCHANGED <<now, receipts, blobs, answers, raced, orphaned>>

\* Mutant of GcBlob: a candidate without a blob keeps its receipt.
GcBlobOrSkip(i) ==
    /\ gc.pc = "sweep" /\ i \in gc.candidates
    /\ blobs' = blobs \ {i}
    /\ gc' = IF i \in blobs
             THEN [pc |-> "row", candidates |-> gc.candidates, image |-> i]
             ELSE NextCandidate(gc.candidates \ {i})
    /\ UNCHANGED <<now, receipts, srv, history>>

\* delete_by_hash of a candidate, under the lock of its shard ...
GcBlob(i) ==
    /\ gc.pc = "sweep" /\ i \in gc.candidates
    /\ blobs' = blobs \ {i}
    /\ gc' = [pc |-> "row", candidates |-> gc.candidates, image |-> i]
    /\ UNCHANGED <<now, receipts, srv, history>>

\* Mutant of GcRow: the receipts of all the candidates go with the first.
GcAllRows ==
    /\ gc.pc = "row"
    /\ receipts' = [i \in DOMAIN receipts \ gc.candidates |-> receipts[i]]
    /\ gc' = NextCandidate(gc.candidates \ {gc.image})
    /\ UNCHANGED <<now, blobs, srv, history>>

\* ... and of its receipt.
GcRow ==
    /\ gc.pc = "row"
    /\ receipts' = Without(receipts, gc.image)
    /\ gc' = NextCandidate(gc.candidates \ {gc.image})
    /\ UNCHANGED <<now, blobs, srv, history>>

\* A sweep dies; the next run starts over.
GcCrash ==
    /\ gc # Idle
    /\ gc' = Idle
    /\ UNCHANGED <<now, receipts, blobs, srv, history>>

Tick ==
    /\ now < MaxTime
    /\ now' = now + 1
    /\ UNCHANGED <<receipts, blobs, srv, gc, history>>

-----------------------------------------------------------------------------
GcSweep == \E i \in Images : GcBlob(i)
GcTtl == \E flags \in Sweeps : GcAged(flags)
GcBytes == \E flags \in Sweeps, S \in SUBSET Images : GcOldest(flags, S)

Next ==
    \/ \E f \in Friends, i \in Images : Put(f, i)
    \/ Record \/ ServerCrash
    \/ GcTtl \/ GcBytes \/ GcSweep \/ GcRow \/ GcCrash
    \/ Tick

Spec == Init /\ [][Next]_vars

\* The cron job's sweeps come again and again: what they often could do they do in the
\* end, though any one of them may be killed at any step.
FairSpec ==
    /\ Spec
    /\ SF_vars(GcTtl) /\ SF_vars(gc # Idle /\ GcBytes) /\ SF_vars(GcRow)
    /\ \A i \in Images : SF_vars(GcBlob(i))

-----------------------------------------------------------------------------
(* Properties.                                                             *)

\* Within the retention, the friend last answered for a render can show it, however
\* generates, sweeps and crashes interleave, except in two windows: a sweep had listed
\* the render by the time it was generated again, or listed it for its size
\* (app.py generate, gc_renders.py _gc).
AnswersKept ==
    \A i \in DOMAIN answers \ (raced \cup evicted) :
        now < answers[i].at + RETENTION => Shows(answers[i].friend, i)

\* A blob without a receipt is beyond every sweep.  It comes of a generate that died
\* before its receipt, or of one that overlapped a sweep (gc_renders.py _gc).
OrphansOnlyRaced ==
    \A i \in blobs \ DOMAIN receipts :
        i \in raced \cup orphaned \/ (srv # Idle /\ srv.image = i)

\* When a sweep with --max-bytes ends, what is left fits, unless a render was put or
\* recorded after the sizes were summed up; its candidates of both flags count once (gc_renders.py _gc).
BudgetMet ==
    [][(GcRow \/ GcBytes) /\ gc' = Idle /\ ~grown'
           => Size(DOMAIN receipts)' <= MaxBytes]_vars

\* No render stays past its retention for ever, whatever the sweeps before left half
\* done (gc_renders.py _gc).
AgedReclaimed == \A i \in Images : []<>(i \notin Aged)
=============================================================================
