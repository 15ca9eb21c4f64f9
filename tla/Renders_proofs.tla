--------------------------- MODULE Renders_proofs ---------------------------
(* Theorems about Renders, for every value of its constants.               *)
EXTENDS Renders, FiniteSetTheorems, TLAPS

-----------------------------------------------------------------------------
(* Tables and the two processes.                                           *)

\* An INSERT OR REPLACE keeps a table well typed and sets its key alone.
LEMMA InsertType ==
    ASSUME NEW Row, NEW table, table \in [DOMAIN table -> Row], NEW key, NEW row \in Row
    PROVE  /\ DOMAIN Insert(table, key, row) = DOMAIN table \cup {key}
           /\ Insert(table, key, row) \in [DOMAIN Insert(table, key, row) -> Row]
           /\ Insert(table, key, row)[key] = row
           /\ \A k \in DOMAIN table \ {key} : Insert(table, key, row)[k] = table[k]
    BY DEF Insert

\* A DELETE keeps a table well typed and removes its key alone.
LEMMA WithoutType ==
    ASSUME NEW Row, NEW table, table \in [DOMAIN table -> Row], NEW key
    PROVE  /\ DOMAIN Without(table, key) = DOMAIN table \ {key}
           /\ Without(table, key) \in [DOMAIN Without(table, key) -> Row]
           /\ \A k \in DOMAIN table \ {key} : Without(table, key)[k] = table[k]
    BY DEF Without

\* What the server holds at each of its points.
LEMMA ServerType ==
    ASSUME TypeOK
    PROVE  /\ srv = Idle <=> srv.pc = "idle"
           /\ srv.pc \in {"idle", "record"}
           /\ srv # Idle => srv.friend \in Friends /\ srv.image \in Images
                            /\ srv.swept \in BOOLEAN
    BY DEF TypeOK, ServerState, Idle

\* What a sweep holds at each of its points.
LEMMA SweepType ==
    ASSUME TypeOK
    PROVE  /\ gc = Idle <=> gc.pc = "idle"
           /\ gc # Idle => gc.candidates \subseteq Images /\ Listed = gc.candidates
           /\ gc = Idle => Listed = {}
           /\ gc.pc = "row" => gc.image \in Listed
    BY DEF TypeOK, GcState, Idle, Listed

\* The server learns of a list, and holds what it held.
LEMMA NoticedType ==
    ASSUME TypeOK, NEW S \in SUBSET Images
    PROVE  /\ Noticed(S) \in ServerState
           /\ Noticed(S) = Idle <=> srv = Idle
           /\ srv # Idle => /\ Noticed(S).image = srv.image /\ Noticed(S).friend = srv.friend
                            /\ Noticed(S).swept = (srv.swept \/ srv.image \in S)
<1>1. CASE srv = Idle
    BY <1>1 DEF Noticed, ServerState
<1>2. CASE srv # Idle
    <2>1. srv \in [pc : {"record"}, friend : Friends, image : Images, swept : BOOLEAN]
        BY <1>2 DEF TypeOK, ServerState
    <2>2. [srv EXCEPT !.swept = TRUE] \in
              [pc : {"record"}, friend : Friends, image : Images, swept : BOOLEAN]
        BY <2>1
    <2>3. Noticed(S) = IF srv.image \in S THEN [srv EXCEPT !.swept = TRUE] ELSE srv
        BY <1>2 DEF Noticed
    <2>4. CASE srv.image \in S
        BY <2>1, <2>2, <2>3, <2>4, <1>2 DEF ServerState, Idle
    <2>5. CASE srv.image \notin S
        BY <2>1, <2>3, <2>5, <1>2 DEF ServerState
    <2> QED
        BY <2>4, <2>5
<1> QED
    BY <1>1, <1>2

\* The sweep goes on with the candidates it has left, or is over.
LEMMA NextCandidateType ==
    ASSUME NEW S \in SUBSET Images
    PROVE  /\ NextCandidate(S) \in GcState /\ NextCandidate(S).pc # "row"
           /\ NextCandidate(S) = Idle <=> S = {}
           /\ NextCandidate(S) # Idle => NextCandidate(S).candidates = S
    BY DEF NextCandidate, GcState, Idle

-----------------------------------------------------------------------------
(* The inductive invariant.                                                *)

\* A generate whose render a sweep has listed knows of it.
SweptKnown == srv # Idle /\ srv.image \in Listed => srv.swept

\* The blob of a generate that no sweep has listed stays.
UnsweptStays == srv # Idle /\ ~srv.swept => srv.image \in blobs

\* AnswersKept, with the receipt's date, and out of the sweep's reach.
Kept ==
    \A i \in DOMAIN answers \ (raced \cup evicted) :
        now < answers[i].at + RETENTION =>
            /\ i \in DOMAIN receipts /\ i \in blobs /\ i \notin Listed
            /\ receipts[i].friend = answers[i].friend
            /\ receipts[i].created = answers[i].at

Excused(i) == i \in raced \cup orphaned \/ (srv # Idle /\ srv.image = i)

\* A blob that came back before its receipt is deleted.
RowExcused == gc.pc = "row" /\ gc.image \in blobs => Excused(gc.image)

OrphansExcused == \A i \in blobs \ DOMAIN receipts : Excused(i)

\* What a sweep with a budget has not listed fits.
RestFits == ~grown /\ gc # Idle => Size(DOMAIN receipts \ gc.candidates) <= MaxBytes

IInv ==
    /\ TypeOK /\ SweptKnown /\ UnsweptStays /\ Kept /\ RowExcused /\ OrphansExcused
    /\ RestFits

-----------------------------------------------------------------------------
(* Steps.                                                                  *)

\* A step keeps the state well typed.
LEMMA TypeStep ==
    TypeOK /\ [Next]_vars => TypeOK'
    <1> SUFFICES ASSUME TypeOK, [Next]_vars PROVE TypeOK'
        OBVIOUS
    <1> USE DEF history, TypeOK
    <1>1. ASSUME NEW f \in Friends, NEW i \in Images, Put(f, i) PROVE TypeOK'
        <2>1. srv' \in ServerState
            BY <1>1 DEF Put, ServerState
        <2> QED
            BY <1>1, <2>1 DEF Put
    <1>2. ASSUME Record PROVE TypeOK'
        <2>1. srv.pc = "record" /\ srv.friend \in Friends /\ srv.image \in Images
            BY <1>2, ServerType DEF Record, Idle
        <2>2. [friend |-> srv.friend, created |-> now] \in ReceiptRow
              /\ [friend |-> srv.friend, at |-> now] \in Answer
            BY <2>1 DEF ReceiptRow, Answer
        <2> DEFINE i == srv.image
                   row == [friend |-> srv.friend, created |-> now]
                   answer == [friend |-> srv.friend, at |-> now]
        <2>a. receipts \in [DOMAIN receipts -> ReceiptRow] /\ DOMAIN receipts \subseteq Images
              /\ answers \in [DOMAIN answers -> Answer] /\ DOMAIN answers \subseteq Images
            OBVIOUS
        <2>b. receipts' = Insert(receipts, i, row) /\ answers' = Insert(answers, i, answer)
            BY <1>2 DEF Record
        <2> HIDE DEF i, row, answer, TypeOK
        <2>c. i \in Images /\ row \in ReceiptRow /\ answer \in Answer
            BY <2>1, <2>2 DEF i, row, answer
        <2>3. DOMAIN receipts' \subseteq Images /\ receipts' \in [DOMAIN receipts' -> ReceiptRow]
            BY <2>a, <2>b, <2>c DEF Insert
        <2>4. DOMAIN answers' \subseteq Images /\ answers' \in [DOMAIN answers' -> Answer]
            BY <2>a, <2>b, <2>c DEF Insert
        <2> USE DEF TypeOK
        <2>5. srv' \in ServerState
            BY <1>2 DEF Record, ServerState
        <2>6. raced' \subseteq Images /\ evicted' \subseteq Images /\ orphaned' \subseteq Images
            BY <1>2, <2>1 DEF Record
        <2> QED
            BY <1>2, <2>3, <2>4, <2>5, <2>6 DEF Record
    <1>3. ASSUME ServerCrash PROVE TypeOK'
        BY <1>3, ServerType DEF ServerCrash, ServerState
    <1>4. ASSUME NEW flags \in Sweeps, GcAged(flags) PROVE TypeOK'
        <2>1. Aged \in SUBSET Images
            BY DEF Aged
        <2>2. gc' \in GcState /\ gc'.pc # "row"
            BY <1>4, <2>1, NextCandidateType DEF GcAged, GcState
        <2> QED
            BY <1>4, <2>1, <2>2, NoticedType DEF GcAged
    <1>5. ASSUME NEW flags \in Sweeps, NEW S \in SUBSET Images, GcOldest(flags, S)
          PROVE  TypeOK'
        <2>1. Listed \cup S \in SUBSET Images
            BY SweepType
        <2>2. gc' \in GcState /\ gc'.pc # "row"
            BY <1>5, <2>1, NextCandidateType DEF GcOldest
        <2> QED
            BY <1>5, <2>2, NoticedType DEF GcOldest
    <1>6. ASSUME NEW i \in Images, GcBlob(i) PROVE TypeOK'
        <2>1. gc' \in GcState /\ gc'.image \in gc'.candidates
            BY <1>6, SweepType DEF GcBlob, GcState, Idle
        <2> QED
            BY <1>6, <2>1 DEF GcBlob
    <1>7. ASSUME GcRow PROVE TypeOK'
        <2>1. gc.candidates \ {gc.image} \in SUBSET Images
            BY <1>7, SweepType DEF GcRow, Idle
        <2>2. gc' \in GcState /\ gc'.pc # "row"
            BY <1>7, <2>1, NextCandidateType DEF GcRow
        <2>a. receipts' = Without(receipts, gc.image) /\ DOMAIN receipts \subseteq Images
              /\ receipts \in [DOMAIN receipts -> ReceiptRow]
            BY <1>7 DEF GcRow
        <2>3. DOMAIN receipts' \subseteq Images /\ receipts' \in [DOMAIN receipts' -> ReceiptRow]
            BY <2>a DEF Without
        <2> QED
            BY <1>7, <2>2, <2>3 DEF GcRow
    <1>8. ASSUME GcCrash PROVE TypeOK'
        BY <1>8 DEF GcCrash, GcState, Idle
    <1>9. ASSUME Tick PROVE TypeOK'
        BY <1>9 DEF Tick
    <1>10. CASE UNCHANGED vars
        BY <1>10 DEF vars
    <1> QED
        BY <1>1, <1>2, <1>3, <1>4, <1>5, <1>6, <1>7, <1>8, <1>9, <1>10 DEF Next, GcTtl, GcBytes, GcSweep

\* Whoever comes second, the generate or the list, sees the other.
LEMMA SweptKnownStep ==
    TypeOK /\ SweptKnown /\ [Next]_vars => SweptKnown'
    <1> SUFFICES ASSUME TypeOK, SweptKnown, [Next]_vars PROVE SweptKnown'
        OBVIOUS
    <1> USE DEF history, SweptKnown
    <1>1. ASSUME NEW f \in Friends, NEW i \in Images, Put(f, i) PROVE SweptKnown'
        BY <1>1 DEF Put, Listed, Idle
    <1>2. ASSUME Record PROVE SweptKnown'
        BY <1>2 DEF Record, Listed
    <1>3. ASSUME ServerCrash PROVE SweptKnown'
        BY <1>3 DEF ServerCrash, Listed
    <1>4. ASSUME NEW flags \in Sweeps, GcAged(flags) PROVE SweptKnown'
        <2>1. Aged \in SUBSET Images
            BY DEF TypeOK, Aged
        <2>2. Listed' = Aged
            BY <1>4, <2>1, NextCandidateType DEF GcAged, Listed, Idle
        <2> QED
            BY <1>4, <2>1, <2>2, NoticedType DEF GcAged
    <1>5. ASSUME NEW flags \in Sweeps, NEW S \in SUBSET Images, GcOldest(flags, S)
          PROVE  SweptKnown'
        <2>1. Listed \cup S \in SUBSET Images
            BY SweepType
        <2>2. Listed' = Listed \cup S
            BY <1>5, <2>1, NextCandidateType DEF GcOldest, Listed
        <2> QED
            BY <1>5, <2>1, <2>2, NoticedType DEF GcOldest
    <1>6. ASSUME NEW i \in Images, GcBlob(i) PROVE SweptKnown'
        <2>1. Listed' = Listed
            BY <1>6, SweepType DEF GcBlob, Listed, Idle
        <2> QED
            BY <1>6, <2>1 DEF GcBlob
    <1>7. ASSUME GcRow PROVE SweptKnown'
        <2>1. gc.candidates \ {gc.image} \in SUBSET Images /\ Listed = gc.candidates
            BY <1>7, SweepType DEF GcRow, Idle
        <2>2. Listed' \subseteq Listed
            BY <1>7, <2>1, NextCandidateType DEF GcRow, Listed
        <2> QED
            BY <1>7, <2>2 DEF GcRow
    <1>8. ASSUME GcCrash PROVE SweptKnown'
        BY <1>8 DEF GcCrash, Listed
    <1>9. ASSUME Tick PROVE SweptKnown'
        BY <1>9 DEF Tick, Listed
    <1>10. CASE UNCHANGED vars
        BY <1>10 DEF vars, Listed
    <1> QED
        BY <1>1, <1>2, <1>3, <1>4, <1>5, <1>6, <1>7, <1>8, <1>9, <1>10 DEF Next, GcTtl, GcBytes, GcSweep

\* Only a listed blob is deleted.
LEMMA UnsweptStaysStep ==
    TypeOK /\ SweptKnown /\ UnsweptStays /\ [Next]_vars => UnsweptStays'
    <1> SUFFICES ASSUME TypeOK, SweptKnown, UnsweptStays, [Next]_vars PROVE UnsweptStays'
        OBVIOUS
    <1> USE DEF history, UnsweptStays
    <1>1. ASSUME NEW f \in Friends, NEW i \in Images, Put(f, i) PROVE UnsweptStays'
        BY <1>1 DEF Put, Idle
    <1>2. ASSUME Record PROVE UnsweptStays'
        BY <1>2 DEF Record
    <1>3. ASSUME ServerCrash PROVE UnsweptStays'
        BY <1>3 DEF ServerCrash
    <1>4. ASSUME NEW flags \in Sweeps, GcAged(flags) PROVE UnsweptStays'
        <2>1. Aged \in SUBSET Images
            BY DEF TypeOK, Aged
        <2> QED
            BY <1>4, <2>1, NoticedType DEF GcAged
    <1>5. ASSUME NEW flags \in Sweeps, NEW S \in SUBSET Images, GcOldest(flags, S)
          PROVE  UnsweptStays'
        BY <1>5, NoticedType DEF GcOldest
    <1>6. ASSUME NEW i \in Images, GcBlob(i) PROVE UnsweptStays'
        <2>1. i \in Listed
            BY <1>6, SweepType DEF GcBlob, Idle
        <2> QED
            BY <1>6, <2>1 DEF GcBlob, SweptKnown
    <1>7. ASSUME GcRow PROVE UnsweptStays'
        BY <1>7 DEF GcRow
    <1>8. ASSUME GcCrash PROVE UnsweptStays'
        BY <1>8 DEF GcCrash
    <1>9. ASSUME Tick PROVE UnsweptStays'
        BY <1>9 DEF Tick
    <1>10. CASE UNCHANGED vars
        BY <1>10 DEF vars
    <1> QED
        BY <1>1, <1>2, <1>3, <1>4, <1>5, <1>6, <1>7, <1>8, <1>9, <1>10 DEF Next, GcTtl, GcBytes, GcSweep

\* A receipt is fresh and out of reach from its last unswept generate on.
LEMMA KeptStep ==
    TypeOK /\ SweptKnown /\ UnsweptStays /\ Kept /\ [Next]_vars => Kept'
    <1> SUFFICES ASSUME TypeOK, SweptKnown, UnsweptStays, Kept, [Next]_vars PROVE Kept'
        OBVIOUS
    <1> USE DEF history, Kept
    <1>1. ASSUME NEW f \in Friends, NEW i \in Images, Put(f, i) PROVE Kept'
        BY <1>1 DEF Put, Listed
    <1>2. ASSUME Record PROVE Kept'
        <2> DEFINE i == srv.image
        <2>1. srv # Idle /\ i \in Images /\ srv.friend \in Friends
            BY <1>2, ServerType DEF Record, Idle
        <2>2. /\ DOMAIN receipts' = DOMAIN receipts \cup {i}
              /\ receipts'[i] = [friend |-> srv.friend, created |-> now]
              /\ \A k \in DOMAIN receipts \ {i} : receipts'[k] = receipts[k]
            BY <1>2 DEF Record, Insert
        <2>3. /\ DOMAIN answers' = DOMAIN answers \cup {i}
              /\ answers'[i] = [friend |-> srv.friend, at |-> now]
              /\ \A k \in DOMAIN answers \ {i} : answers'[k] = answers[k]
            BY <1>2 DEF Record, Insert
        <2>4. /\ raced' = IF srv.swept THEN raced \cup {i} ELSE raced \ {i}
              /\ evicted' = evicted \ {i} /\ now' = now /\ blobs' = blobs /\ Listed' = Listed
            BY <1>2 DEF Record, Listed
        <2> SUFFICES ASSUME NEW k \in DOMAIN answers', k \notin raced', k \notin evicted',
                            now < answers'[k].at + RETENTION
                     PROVE  /\ k \in DOMAIN receipts' /\ k \in blobs /\ k \notin Listed
                            /\ receipts'[k].friend = answers'[k].friend
                            /\ receipts'[k].created = answers'[k].at
            BY <2>4
        <2>5. CASE k = i
            BY <2>1, <2>2, <2>3, <2>4, <2>5 DEF SweptKnown, UnsweptStays
        <2>6. CASE k # i
            BY <2>2, <2>3, <2>4, <2>6
        <2> QED
            BY <2>5, <2>6
    <1>3. ASSUME ServerCrash PROVE Kept'
        BY <1>3 DEF ServerCrash, Listed
    <1>4. ASSUME NEW flags \in Sweeps, GcAged(flags) PROVE Kept'
        <2>1. Aged \in SUBSET Images
            BY DEF TypeOK, Aged
        <2>2. Listed' = Aged
            BY <1>4, <2>1, NextCandidateType DEF GcAged, Listed, Idle
        <2>3. now \in Nat /\ RETENTION \in Nat
            BY RetentionAssumption DEF TypeOK
        <2>4. \A i \in DOMAIN answers : answers[i].at \in Nat
            BY DEF TypeOK, Answer
        <2> QED
            BY <1>4, <2>2, <2>3, <2>4 DEF GcAged, Aged
    <1>5. ASSUME NEW flags \in Sweeps, NEW S \in SUBSET Images, GcOldest(flags, S)
          PROVE  Kept'
        <2>1. Listed \cup S \in SUBSET Images
            BY SweepType
        <2>2. Listed' = Listed \cup S
            BY <1>5, <2>1, NextCandidateType DEF GcOldest, Listed
        <2> QED
            BY <1>5, <2>2 DEF GcOldest
    <1>6. ASSUME NEW i \in Images, GcBlob(i) PROVE Kept'
        <2>1. Listed' = Listed /\ i \in Listed
            BY <1>6, SweepType DEF GcBlob, Listed, Idle
        <2> QED
            BY <1>6, <2>1 DEF GcBlob
    <1>7. ASSUME GcRow PROVE Kept'
        <2>1. gc.candidates \ {gc.image} \in SUBSET Images /\ Listed = gc.candidates
              /\ gc.image \in Listed
            BY <1>7, SweepType DEF GcRow, Idle
        <2>2. Listed' \subseteq Listed
            BY <1>7, <2>1, NextCandidateType DEF GcRow, Listed
        <2>3. DOMAIN receipts' = DOMAIN receipts \ {gc.image}
              /\ \A k \in DOMAIN receipts' : receipts'[k] = receipts[k]
            BY <1>7 DEF GcRow, Without
        <2> QED
            BY <1>7, <2>1, <2>2, <2>3 DEF GcRow
    <1>8. ASSUME GcCrash PROVE Kept'
        BY <1>8 DEF GcCrash, Listed
    <1>9. ASSUME Tick PROVE Kept'
        <2>1. now \in Nat /\ RETENTION \in Nat
            BY RetentionAssumption DEF TypeOK
        <2>2. \A i \in DOMAIN answers : answers[i].at \in Nat
            BY DEF TypeOK, Answer
        <2> QED
            BY <1>9, <2>1, <2>2 DEF Tick, Listed
    <1>10. CASE UNCHANGED vars
        BY <1>10 DEF vars, Listed
    <1> QED
        BY <1>1, <1>2, <1>3, <1>4, <1>5, <1>6, <1>7, <1>8, <1>9, <1>10 DEF Next, GcTtl, GcBytes, GcSweep

\* A blob comes back in a sweep by a generate that the sweep has listed.
LEMMA RowExcusedStep ==
    TypeOK /\ SweptKnown /\ RowExcused /\ [Next]_vars => RowExcused'
    <1> SUFFICES ASSUME TypeOK, SweptKnown, RowExcused, [Next]_vars PROVE RowExcused'
        OBVIOUS
    <1> USE DEF history, RowExcused, Excused
    <1>1. ASSUME NEW f \in Friends, NEW i \in Images, Put(f, i) PROVE RowExcused'
        BY <1>1 DEF Put, Idle
    <1>2. ASSUME Record PROVE RowExcused'
        <2>1. srv # Idle
            BY <1>2, ServerType DEF Record, Idle
        <2>2. gc.pc = "row" /\ srv.image = gc.image => srv.swept
            BY <2>1, SweepType DEF SweptKnown
        <2> QED
            BY <1>2, <2>1, <2>2 DEF Record
    <1>3. ASSUME ServerCrash PROVE RowExcused'
        BY <1>3 DEF ServerCrash
    <1>4. ASSUME NEW flags \in Sweeps, GcAged(flags) PROVE RowExcused'
        <2>1. Aged \in SUBSET Images
            BY DEF TypeOK, Aged
        <2> QED
            BY <1>4, <2>1, NextCandidateType DEF GcAged
    <1>5. ASSUME NEW flags \in Sweeps, NEW S \in SUBSET Images, GcOldest(flags, S)
          PROVE  RowExcused'
        <2>1. Listed \cup S \in SUBSET Images
            BY SweepType
        <2> QED
            BY <1>5, <2>1, NextCandidateType DEF GcOldest
    <1>6. ASSUME NEW i \in Images, GcBlob(i) PROVE RowExcused'
        BY <1>6 DEF GcBlob
    <1>7. ASSUME GcRow PROVE RowExcused'
        <2>1. gc.candidates \ {gc.image} \in SUBSET Images
            BY <1>7, SweepType DEF GcRow, Idle
        <2> QED
            BY <1>7, <2>1, NextCandidateType DEF GcRow
    <1>8. ASSUME GcCrash PROVE RowExcused'
        BY <1>8 DEF GcCrash, Idle
    <1>9. ASSUME Tick PROVE RowExcused'
        BY <1>9 DEF Tick
    <1>10. CASE UNCHANGED vars
        BY <1>10 DEF vars
    <1> QED
        BY <1>1, <1>2, <1>3, <1>4, <1>5, <1>6, <1>7, <1>8, <1>9, <1>10 DEF Next, GcTtl, GcBytes, GcSweep

\* A receipt goes after its blob, unless that came back.
LEMMA OrphansExcusedStep ==
    TypeOK /\ RowExcused /\ OrphansExcused /\ [Next]_vars => OrphansExcused'
    <1> SUFFICES ASSUME TypeOK, RowExcused, OrphansExcused,
                        [Next]_vars
                 PROVE  OrphansExcused'
        OBVIOUS
    <1> USE DEF history, OrphansExcused, Excused
    <1>1. ASSUME NEW f \in Friends, NEW i \in Images, Put(f, i) PROVE OrphansExcused'
        BY <1>1 DEF Put, Idle
    <1>2. ASSUME Record PROVE OrphansExcused'
        <2>1. srv # Idle /\ DOMAIN receipts' = DOMAIN receipts \cup {srv.image}
            BY <1>2, ServerType DEF Record, Idle, Insert
        <2> QED
            BY <1>2, <2>1 DEF Record
    <1>3. ASSUME ServerCrash PROVE OrphansExcused'
        BY <1>3 DEF ServerCrash
    <1>4. ASSUME NEW flags \in Sweeps, GcAged(flags) PROVE OrphansExcused'
        <2>1. Aged \in SUBSET Images
            BY DEF TypeOK, Aged
        <2> QED
            BY <1>4, <2>1, NoticedType DEF GcAged
    <1>5. ASSUME NEW flags \in Sweeps, NEW S \in SUBSET Images, GcOldest(flags, S)
          PROVE  OrphansExcused'
        BY <1>5, NoticedType DEF GcOldest
    <1>6. ASSUME NEW i \in Images, GcBlob(i) PROVE OrphansExcused'
        BY <1>6 DEF GcBlob
    <1>7. ASSUME GcRow PROVE OrphansExcused'
        <2>1. DOMAIN receipts' = DOMAIN receipts \ {gc.image}
            BY <1>7 DEF GcRow, Without
        <2> QED
            BY <1>7, <2>1 DEF GcRow, RowExcused
    <1>8. ASSUME GcCrash PROVE OrphansExcused'
        BY <1>8 DEF GcCrash
    <1>9. ASSUME Tick PROVE OrphansExcused'
        BY <1>9 DEF Tick
    <1>10. CASE UNCHANGED vars
        BY <1>10 DEF vars
    <1> QED
        BY <1>1, <1>2, <1>3, <1>4, <1>5, <1>6, <1>7, <1>8, <1>9, <1>10 DEF Next, GcTtl, GcBytes, GcSweep

\* Fewer renders take no more room.
LEMMA SizeMonotone ==
    ASSUME NEW A, NEW B, A \cap blobs \subseteq B \cap blobs, B \subseteq Images
    PROVE  Size(A) \in Nat /\ Size(B) \in Nat /\ Size(A) <= Size(B)
<1>1. IsFiniteSet(B \cap blobs)
    BY RetentionAssumption, FS_Subset
<1>2. IsFiniteSet(A \cap blobs)
    BY <1>1, FS_Subset
<1> QED
    BY <1>1, <1>2, FS_Subset, FS_CardinalityType DEF Size

\* The same with the blobs of the next state.
LEMMA SizeShrinks ==
    ASSUME NEW A, NEW B, A \cap blobs' \subseteq B \cap blobs, B \subseteq Images,
           Size(B) <= MaxBytes
    PROVE  Cardinality(A \cap blobs') <= MaxBytes
<1>1. IsFiniteSet(B \cap blobs)
    BY RetentionAssumption, FS_Subset
<1>2. IsFiniteSet(A \cap blobs')
    BY <1>1, FS_Subset
<1>3. Cardinality(A \cap blobs') <= Cardinality(B \cap blobs)
    BY <1>1, FS_Subset
<1>4. Cardinality(A \cap blobs') \in Nat /\ Cardinality(B \cap blobs) \in Nat /\ MaxBytes \in Nat
    BY <1>1, <1>2, FS_CardinalityType, RetentionAssumption
<1> QED
    BY <1>3, <1>4 DEF Size

\* What is not listed only shrinks until something is put.
LEMMA RestFitsStep ==
    TypeOK /\ RestFits /\ [Next]_vars => RestFits'
    <1> SUFFICES ASSUME TypeOK, RestFits, [Next]_vars PROVE RestFits'
        OBVIOUS
    <1> USE DEF history, RestFits
    <1>1. ASSUME NEW f \in Friends, NEW i \in Images, Put(f, i) PROVE RestFits'
        BY <1>1 DEF Put
    <1>2. ASSUME Record PROVE RestFits'
        BY <1>2 DEF Record
    <1>3. ASSUME ServerCrash PROVE RestFits'
        BY <1>3 DEF ServerCrash, Size
    <1>4. ASSUME NEW flags \in Sweeps, GcAged(flags) PROVE RestFits'
        BY <1>4 DEF GcAged
    <1>5. ASSUME NEW flags \in Sweeps, NEW S \in SUBSET Images, GcOldest(flags, S)
          PROVE  RestFits'
        <2>1. Listed \cup S \in SUBSET Images
            BY SweepType
        <2>2. gc' # Idle => gc'.candidates = Listed \cup S
            BY <1>5, <2>1, NextCandidateType DEF GcOldest
        <2>3. DOMAIN receipts \subseteq Images
            BY DEF TypeOK
        <2>4. Cardinality((DOMAIN receipts \ (Listed \cup S)) \cap blobs') <= MaxBytes
            BY <1>5, <2>3, SizeShrinks DEF GcOldest, Surplus
        <2> QED
            BY <1>5, <2>2, <2>4 DEF GcOldest, Size
    <1>6. ASSUME NEW i \in Images, GcBlob(i) PROVE RestFits'
        <2>1. gc # Idle /\ DOMAIN receipts \subseteq Images
            BY <1>6 DEF GcBlob, Idle, TypeOK
        <2>2. ~grown => Cardinality((DOMAIN receipts \ gc.candidates) \cap blobs') <= MaxBytes
            BY <1>6, <2>1, SizeShrinks DEF GcBlob
        <2> QED
            BY <1>6, <2>2 DEF GcBlob, Size
    <1>7. ASSUME GcRow PROVE RestFits'
        <2>1. gc # Idle /\ gc.candidates \ {gc.image} \in SUBSET Images /\ gc.image \in gc.candidates
            BY <1>7, SweepType DEF GcRow, Idle
        <2>2. gc' # Idle => gc'.candidates = gc.candidates \ {gc.image}
            BY <1>7, <2>1, NextCandidateType DEF GcRow
        <2>3. DOMAIN receipts' = DOMAIN receipts \ {gc.image}
            BY <1>7 DEF GcRow, Without
        <2>4. DOMAIN receipts' \ (gc.candidates \ {gc.image}) = DOMAIN receipts \ gc.candidates
            BY <2>1, <2>3
        <2> QED
            BY <1>7, <2>1, <2>2, <2>4 DEF GcRow, Size
    <1>8. ASSUME GcCrash PROVE RestFits'
        BY <1>8 DEF GcCrash, Idle
    <1>9. ASSUME Tick PROVE RestFits'
        BY <1>9 DEF Tick, Size
    <1>10. CASE UNCHANGED vars
        BY <1>10 DEF vars, Size
    <1> QED
        BY <1>1, <1>2, <1>3, <1>4, <1>5, <1>6, <1>7, <1>8, <1>9, <1>10 DEF Next, GcTtl, GcBytes, GcSweep

-----------------------------------------------------------------------------
(* Theorems.                                                               *)

\* The invariant is inductive.
LEMMA Invariant == Spec => []IInv
<1>1. Init => IInv
    <2> SUFFICES ASSUME Init PROVE IInv
        OBVIOUS
    <2>1. TypeOK
        BY DEF Init, TypeOK, Empty, ServerState, GcState, Idle
    <2>2. SweptKnown /\ UnsweptStays /\ RowExcused /\ OrphansExcused /\ RestFits
        BY DEF Init, SweptKnown, UnsweptStays, RowExcused, OrphansExcused, RestFits, Idle
    <2>3. Kept
        BY DEF Init, Kept, Empty
    <2> QED
        BY <2>1, <2>2, <2>3 DEF IInv
<1>2. IInv /\ [Next]_vars => IInv'
    BY TypeStep, SweptKnownStep, UnsweptStaysStep, KeptStep, RowExcusedStep,
       OrphansExcusedStep, RestFitsStep DEF IInv
<1> QED
    BY <1>1, <1>2, PTL DEF Spec

\* Every reachable state is well typed.
THEOREM TypeCorrect == Spec => []TypeOK
<1>1. IInv => TypeOK
    BY DEF IInv
<1> QED
    BY Invariant, <1>1, PTL

\* Outside the two windows, what generate answered can be shown for the whole retention.
THEOREM AnswersLast == Spec => []AnswersKept
<1>1. IInv => AnswersKept
    BY DEF IInv, Kept, AnswersKept, Shows
<1> QED
    BY Invariant, <1>1, PTL

\* What the start-up check of the two settings is there for: outside the two windows a
\* signed URL leads to its blob, but for one instant, the last of both, where they are equal.
SignedLeads ==
    \A i \in Images \ (raced \cup evicted) :
        Signed(i) => i \in blobs \/ (URL_TTL = RETENTION /\ now = answers[i].at + URL_TTL)

\* A signed URL does not outlive its blob.
THEOREM SignedLast == Spec => []SignedLeads
<1>1. IInv => SignedLeads
    <2> SUFFICES ASSUME IInv, NEW i \in Images \ (raced \cup evicted), Signed(i),
                        ~(URL_TTL = RETENTION /\ now = answers[i].at + URL_TTL)
                 PROVE  i \in blobs
        BY DEF SignedLeads
    <2>1. /\ i \in DOMAIN answers /\ answers[i].at \in Nat /\ now \in Nat
          /\ URL_TTL \in Nat /\ RETENTION \in Nat /\ URL_TTL <= RETENTION
        BY RetentionAssumption DEF IInv, TypeOK, Signed, Answer
    <2>2. now < answers[i].at + RETENTION
        BY <2>1 DEF Signed
    <2> QED
        BY <2>1, <2>2 DEF IInv, Kept
<1> QED
    BY Invariant, <1>1, PTL

\* A blob is out of every sweep's reach only after a crash or a race.
THEOREM OrphansExplained == Spec => []OrphansOnlyRaced
<1>1. IInv => OrphansOnlyRaced
    BY DEF IInv, OrphansExcused, OrphansOnlyRaced, Excused
<1> QED
    BY Invariant, <1>1, PTL

\* A sweep that nothing was put beside leaves no more than its budget.
THEOREM BudgetIsMet == Spec => BudgetMet
<1>1. IInv /\ [Next]_vars =>
          [(GcRow \/ GcBytes) /\ gc' = Idle /\ ~grown'
               => Size(DOMAIN receipts)' <= MaxBytes]_vars
    <2> SUFFICES ASSUME IInv, GcRow \/ GcBytes, gc' = Idle, ~grown'
                 PROVE  Size(DOMAIN receipts)' <= MaxBytes
        OBVIOUS
    <2>1. CASE GcRow
        <3>1. gc # Idle /\ gc.candidates \ {gc.image} \in SUBSET Images
            BY <2>1, SweepType DEF GcRow, Idle, IInv
        <3>2. gc.candidates \ {gc.image} = {}
            BY <2>1, <3>1, NextCandidateType DEF GcRow
        <3>3. DOMAIN receipts' \subseteq DOMAIN receipts \ gc.candidates
            BY <2>1, <3>2 DEF GcRow, Without
        <3>4. Size(DOMAIN receipts \ gc.candidates) <= MaxBytes
            BY <2>1, <3>1 DEF GcRow, history, IInv, RestFits
        <3>5. DOMAIN receipts \ gc.candidates \subseteq Images /\ blobs' = blobs
            BY <2>1 DEF IInv, TypeOK, GcRow
        <3>6. Cardinality(DOMAIN receipts' \cap blobs') <= MaxBytes
            BY <3>3, <3>4, <3>5, SizeShrinks
        <3> QED
            BY <3>6 DEF Size
    <2>2. CASE GcBytes
        <3>1. PICK flags \in Sweeps, S \in SUBSET Images : GcOldest(flags, S)
            BY <2>2 DEF GcBytes
        <3>2. Listed \cup S \in SUBSET Images
            BY SweepType DEF IInv
        <3>3. S = {}
            BY <3>1, <3>2, NextCandidateType DEF GcOldest
        <3>4. Size(DOMAIN receipts \ {}) <= MaxBytes
            BY <3>1, <3>3 DEF GcOldest, Surplus
        <3> QED
            BY <3>1, <3>4 DEF GcOldest, Size
    <2> QED
        BY <2>1, <2>2
<1> QED
    BY Invariant, <1>1, PTL DEF Spec, BudgetMet

=============================================================================
