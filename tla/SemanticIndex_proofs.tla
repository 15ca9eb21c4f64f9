------------------------ MODULE SemanticIndex_proofs ------------------------
(* Theorems about SemanticIndex, for any number of templates, models and    *)
(* configurations.                                                          *)
EXTENDS SemanticIndex, TLAPS

-----------------------------------------------------------------------------
(* The inductive invariant.                                                 *)

Working == {"embed", "record"}

(* A job works on templates that exist, with texts they once had; the one   *)
(* whose record is due has its vector.                                      *)
JobOK ==
    /\ job.pc = "idle" => job.todo = {}
    /\ job.pc \in Working => \A t \in job.todo : job.texts[t] # 0 /\ row[t] # 0
    /\ job.pc = "record" => /\ job.at \in job.todo /\ vector[job.at] = Made(job.at)
                            /\ Length[job.config.model] = job.config.dimensions

Types ==
    /\ TypeOK
    /\ job = [pc |-> job.pc, config |-> job.config, texts |-> job.texts,
              todo |-> job.todo, at |-> job.at]
    /\ JobOK

(* What a job has done it has done wholly: outside its list nothing is left *)
(* of an earlier one.                                                       *)
Done ==
    job.pc \in Working =>
        \A t \in Templates \ job.todo :
            /\ vector[t] = meta[t]
            /\ vector[t] # Nothing => vector[t].model = job.config.model

(* A vector and its record disagree on the model only after a kill between  *)
(* them, or while the job is between them.                                  *)
Paired ==
    \A t \in Templates :
        (vector[t] # Nothing /\ meta[t] # Nothing /\ vector[t].model # meta[t].model)
        => "torn" \in mixed \/ (job.pc = "record" /\ job.at = t)

(* The server's model, unless a job with another ran beside it.             *)
Served ==
    (server # Nothing /\ "beside" \notin mixed) =>
        /\ job.pc # "idle" => job.config.model = server.model
        /\ "torn" \notin mixed =>
               \A t \in Indexed : vector[t].model = server.model

(* Since a full reindex began listing, no text has changed, and what it has *)
(* done is of the texts there are.                                          *)
Fresh ==
    current =>
        /\ job.pc \in Working => job.texts = row
        /\ job.pc \in Working \cup {"idle"}
        /\ \A t \in Listed \ job.todo :
               /\ vector[t] = [model |-> job.config.model, text |-> row[t]]
               /\ meta[t] = vector[t]
               /\ Length[job.config.model] = job.config.dimensions

(* A migration and a reindex of the operator's never run together.          *)
Alone == migration \notin {"idle", "reindexing"} => job.pc = "idle"

IndexInv == Types /\ Done /\ Paired /\ Served /\ Fresh

-----------------------------------------------------------------------------
(* Types.                                                                   *)

(* Versions of texts.                                                       *)
LEMMA Versions ==
    /\ \A v \in 0 .. MaxVersion : v # 0 => v \in 1 .. MaxVersion
    /\ \A v \in 0 .. MaxVersion : v < MaxVersion => v + 1 \in 0 .. MaxVersion /\ v + 1 # 0
    /\ [t \in Templates |-> 0] \in [Templates -> 0 .. MaxVersion]
<1>1. MaxVersion \in Nat
    BY IndexAssumption
<1> QED
    BY <1>1

LEMMA InitTypes == Init => Types
<1> SUFFICES ASSUME Init
             PROVE  Types
    OBVIOUS
<1>1. job = Ended(config) /\ config \in Configs
    BY DEF Init
<1>2. /\ row \in [Templates -> 0 .. MaxVersion]
      /\ vector \in [Templates -> Vector \cup {Nothing}]
      /\ meta \in [Templates -> Vector \cup {Nothing}]
      /\ \A t \in Templates : vector[t] = Nothing /\ meta[t] = Nothing
    BY Versions DEF Init
<1>3. /\ job.pc = "idle" /\ job.config = config /\ job.todo = {} /\ job.at = Nothing
      /\ job.texts \in [Templates -> 0 .. MaxVersion]
      /\ job = [pc |-> job.pc, config |-> job.config, texts |-> job.texts,
                todo |-> job.todo, at |-> job.at]
    BY <1>1, Versions DEF Ended
<1>4. server \in Configs \cup {Nothing} /\ migration \in Stages /\ locked \in BOOLEAN
      /\ root \in BOOLEAN /\ mixed \subseteq {"torn", "beside", "killed"} /\ current \in BOOLEAN
    BY DEF Init, Stages
<1> QED
    BY <1>1, <1>2, <1>3, <1>4 DEF Types, TypeOK, JobOK, Working

(* What listing the rows makes of a job.                                    *)
LEMMA ListingTypes ==
    ASSUME Types, NEW c \in Configs, job' = Listing(c), UNCHANGED indexVars
    PROVE  /\ job'.pc = "embed" /\ job'.config = c /\ job'.texts = row /\ job'.todo = Listed
           /\ job'.at = Nothing
           /\ job' = [pc |-> job'.pc, config |-> job'.config, texts |-> job'.texts,
                      todo |-> job'.todo, at |-> job'.at]
           /\ job'.texts \in [Templates -> 0 .. MaxVersion]
           /\ job'.todo \subseteq Templates
           /\ JobOK'
    BY DEF Listing, Types, TypeOK, JobOK, Working, indexVars, Listed

LEMMA EndedTypes ==
    ASSUME Types, job' = Ended(job.config)
    PROVE  /\ job'.pc = "idle" /\ job'.config = job.config /\ job'.todo = {}
           /\ job'.at = Nothing
           /\ job' = [pc |-> job'.pc, config |-> job'.config, texts |-> job'.texts,
                      todo |-> job'.todo, at |-> job'.at]
           /\ job'.texts \in [Templates -> 0 .. MaxVersion]
           /\ JobOK'
    BY Versions DEF Ended, JobOK, Working

LEMMA ServerTypes ==
    ASSUME Types, Boot \/ Stop \/ Configure
    PROVE  Types'
    BY DEF Types, TypeOK, JobOK, Made, Working, Boot, Stop, Configure, indexVars,
           migrateVars, historyVars

LEMMA WriteTypes ==
    ASSUME Types, NEW t \in Templates, WriteTemplate(t)
    PROVE  Types'
<1>1. /\ row' = [row EXCEPT ![t] = @ + 1] /\ row[t] < MaxVersion
      /\ UNCHANGED <<vector, meta, config, server, job, migrateVars, root, mixed>>
      /\ current' = FALSE
    BY DEF WriteTemplate
<1>2. row' \in [Templates -> 0 .. MaxVersion] /\ \A u \in Templates : row[u] # 0 => row'[u] # 0
    BY <1>1, Versions DEF Types, TypeOK
<1> QED
    BY <1>1, <1>2 DEF Types, TypeOK, JobOK, Made, Working, migrateVars

LEMMA JobStartTypes ==
    ASSUME Types, NEW force \in BOOLEAN, JobStart(force)
    PROVE  Types'
<1>1. /\ job' = IF force THEN [job EXCEPT !.pc = "clear vectors", !.config = config]
                ELSE Listing(config)
      /\ config \in Configs /\ mixed' \subseteq {"torn", "beside", "killed"}
      /\ current' \in BOOLEAN
      /\ UNCHANGED <<indexVars, config, server, migrateVars, root>>
    BY DEF JobStart, Types, TypeOK, Beside
<1>2. CASE ~force
    BY <1>1, <1>2, ListingTypes DEF Types, TypeOK, indexVars, migrateVars
<1>3. CASE force
    <2>1. job'.pc = "clear vectors" /\ job'.config = config /\ job'.texts = job.texts
          /\ job'.todo = job.todo /\ job'.at = job.at
        BY <1>1, <1>3 DEF Types
    <2> QED
        BY <1>1, <1>3, <2>1 DEF Types, TypeOK, JobOK, Working, indexVars, migrateVars
<1> QED
    BY <1>2, <1>3

LEMMA ClearTypes ==
    ASSUME Types, ClearVectors \/ ClearMeta \/ ListRows
    PROVE  Types'
<1>1. CASE ClearVectors
    BY <1>1 DEF ClearVectors, Types, TypeOK, JobOK, Working, migrateVars, historyVars
<1>2. CASE ClearMeta
    BY <1>2 DEF ClearMeta, Types, TypeOK, JobOK, Working, migrateVars, historyVars
<1>3. CASE ListRows
    BY <1>3, ListingTypes DEF ListRows, Types, TypeOK, indexVars, migrateVars
<1> QED
    BY <1>1, <1>2, <1>3

(* What a job makes of a template it has listed is a vector.                *)
LEMMA MadeVector ==
    ASSUME Types, job.pc \in Working, NEW t \in job.todo
    PROVE  Made(t) \in Vector /\ Made(t) # Nothing /\ row[t] # 0 /\ t \in Templates
           /\ Made(t).model = job.config.model
<1>1. t \in Templates /\ job.texts[t] # 0 /\ row[t] # 0 /\ job.config \in Configs
    BY DEF Types, TypeOK, JobOK
<1>2. job.texts[t] \in 1 .. MaxVersion
    BY <1>1, Versions DEF Types, TypeOK
<1>3. Made(t) \in Vector /\ Made(t).model = job.config.model
    BY <1>1, <1>2, IndexAssumption DEF Made, Vector
<1> QED
    BY <1>1, <1>3, IndexAssumption DEF Vector

LEMMA UpsertTypes ==
    ASSUME Types, NEW t \in Templates, UpsertVector(t)
    PROVE  Types'
<1>1. /\ job.pc = "embed" /\ t \in job.todo
      /\ Length[job.config.model] = job.config.dimensions
      /\ vector' = [vector EXCEPT ![t] = Made(t)]
      /\ job' = [job EXCEPT !.pc = "record", !.at = t]
      /\ UNCHANGED <<row, meta, config, server, migrateVars, root, historyVars>>
    BY DEF UpsertVector
<1>2. Made(t) \in Vector /\ Made(t) # Nothing /\ row[t] # 0
    BY <1>1, MadeVector DEF Working
<1>3. /\ job'.pc = "record" /\ job'.config = job.config /\ job'.texts = job.texts
      /\ job'.todo = job.todo /\ job'.at = t
      /\ job' = [pc |-> job'.pc, config |-> job'.config, texts |-> job'.texts,
                 todo |-> job'.todo, at |-> job'.at]
    BY <1>1 DEF Types
<1>4. Made(t)' = Made(t)
    BY <1>3 DEF Made
<1>5. TypeOK'
    BY <1>1, <1>2, <1>3 DEF Types, TypeOK, migrateVars, historyVars
<1>6. JobOK'
    BY <1>1, <1>3, <1>4 DEF Types, TypeOK, JobOK, Working
<1> QED
    BY <1>3, <1>5, <1>6 DEF Types

LEMMA RecordTypes ==
    ASSUME Types, RecordMeta
    PROVE  Types'
<1>1. /\ job.pc = "record"
      /\ meta' = [meta EXCEPT ![job.at] = Made(job.at)]
      /\ job' = [job EXCEPT !.pc = "embed", !.todo = @ \ {job.at}, !.at = Nothing]
      /\ UNCHANGED <<row, vector, config, server, migrateVars, root, historyVars>>
    BY DEF RecordMeta
<1>2. job.at \in job.todo
    BY <1>1 DEF Types, JobOK, Working
<1>3. Made(job.at) \in Vector /\ job.at \in Templates /\ row[job.at] # 0
    BY <1>1, <1>2, MadeVector DEF Working
<1>5. /\ job'.pc = "embed" /\ job'.config = job.config /\ job'.texts = job.texts
      /\ job'.todo = job.todo \ {job.at} /\ job'.at = Nothing
      /\ job' = [pc |-> job'.pc, config |-> job'.config, texts |-> job'.texts,
                 todo |-> job'.todo, at |-> job'.at]
    BY <1>1 DEF Types
<1> QED
    BY <1>1, <1>2, <1>3, <1>5 DEF Types, TypeOK, JobOK, Working, migrateVars, historyVars

LEMMA EndTypes ==
    ASSUME Types, JobDone \/ JobDies \/ MigrateKilled
    PROVE  Types'
<1>1. /\ job' = Ended(job.config)
      /\ UNCHANGED <<indexVars, config, server, locked, root>>
      /\ mixed' \subseteq {"torn", "beside", "killed"} /\ current' \in BOOLEAN
      /\ migration' \in Stages
    BY DEF JobDone, JobDies, MigrateKilled, Torn, Types, TypeOK, Stages
<1> QED
    BY <1>1, EndedTypes DEF Types, TypeOK, indexVars

LEMMA MigrateTypes ==
    ASSUME Types,
           MigrateStart \/ Pgloader \/ Rclone \/ MigrateDone \/ MigrateStepFails \/ MigrateStops
    PROVE  Types'
<1>1. /\ UNCHANGED <<indexVars, config, server, job, root, current>>
      /\ migration' \in Stages /\ locked' \in BOOLEAN
      /\ mixed' \subseteq {"torn", "beside", "killed"}
    BY DEF MigrateStart, Pgloader, Rclone, MigrateDone, MigrateStepFails, MigrateStops,
           historyVars, Types, TypeOK, Stages
<1> QED
    BY <1>1 DEF Types, TypeOK, JobOK, Made, Working, indexVars

LEMMA MigrateReindexTypes ==
    ASSUME Types, MigrateReindex
    PROVE  Types'
<1>1. /\ job' = Listing(config) /\ config \in Configs /\ migration' \in Stages
      /\ current' \in BOOLEAN /\ mixed' \subseteq {"torn", "beside", "killed"}
      /\ UNCHANGED <<indexVars, config, server, locked, root>>
    BY DEF MigrateReindex, Types, TypeOK, Stages, Beside
<1> QED
    BY <1>1, ListingTypes DEF Types, TypeOK, indexVars

LEMMA NextTypes == Types /\ [Next]_vars => Types'
<1> SUFFICES ASSUME Types, [Next]_vars
             PROVE  Types'
    OBVIOUS
<1>1. CASE UNCHANGED vars
    BY <1>1 DEF vars, indexVars, migrateVars, historyVars, Types, TypeOK, JobOK, Made, Working
<1>2. ASSUME NEW t \in Templates, WriteTemplate(t) \/ UpsertVector(t)
      PROVE  Types'
    BY <1>2, WriteTypes, UpsertTypes
<1>3. ASSUME NEW force \in BOOLEAN, JobStart(force)
      PROVE  Types'
    BY <1>3, JobStartTypes
<1> QED
    BY <1>1, <1>2, <1>3, ServerTypes, ClearTypes, RecordTypes, EndTypes, MigrateTypes,
       MigrateReindexTypes DEF Next

-----------------------------------------------------------------------------
(* The index.                                                               *)

(* Steps that leave the tables and the job alone, and mix no more.          *)
LEMMA AsideStep ==
    ASSUME IndexInv, Types', UNCHANGED <<indexVars, server, job, current>>,
           "torn" \in mixed' <=> "torn" \in mixed, "beside" \in mixed' <=> "beside" \in mixed
    PROVE  IndexInv'
    BY DEF IndexInv, indexVars, Done, Paired, Served, Fresh, Working, Indexed, Listed

LEMMA BootStep ==
    ASSUME IndexInv, Types', Boot
    PROVE  IndexInv'
<1>1. /\ server' = config /\ RecordedModels \subseteq {config.model} /\ Orphans = {}
      /\ mixed' = (mixed \ {"beside"}) \cup
             (IF job.pc # "idle" /\ job.config.model # config.model THEN {"beside"} ELSE {})
      /\ UNCHANGED <<indexVars, job, current>>
    BY DEF Boot, Guard
<1>2. ASSUME "beside" \notin mixed', "torn" \notin mixed', NEW t \in Indexed
      PROVE  vector[t].model = config.model
    <2>1. /\ t \in Templates /\ vector[t] # Nothing /\ meta[t] # Nothing
          /\ meta[t].model = config.model
        BY <1>1 DEF Indexed, Orphans, RecordedModels
    <2>2. CASE job.pc = "record" /\ job.at = t
        <3>1. vector[t] = Made(t) /\ job.config.model = config.model
            BY <1>1, <1>2, <2>2 DEF IndexInv, Types, JobOK, Working
        <3> QED
            BY <3>1 DEF Made
    <2>3. CASE ~(job.pc = "record" /\ job.at = t)
        BY <1>1, <1>2, <2>1, <2>3 DEF IndexInv, Paired
    <2> QED
        BY <2>2, <2>3
<1>3. Served'
    BY <1>1, <1>2 DEF Served, Indexed, indexVars
<1>4. Done' /\ Paired' /\ Fresh'
    BY <1>1 DEF IndexInv, Done, Paired, Fresh, Working, Listed, indexVars
<1> QED
    BY <1>3, <1>4 DEF IndexInv

LEMMA StopStep ==
    ASSUME IndexInv, Types', Stop \/ Configure
    PROVE  IndexInv'
<1>1. UNCHANGED <<indexVars, job, migrateVars, root, historyVars>> /\ server' \in {Nothing, server}
    BY DEF Stop, Configure
<1> QED
    BY <1>1 DEF IndexInv, indexVars, historyVars, Done, Paired, Served, Fresh, Working,
               Indexed, Listed

LEMMA WriteStep ==
    ASSUME IndexInv, Types', NEW t \in Templates, WriteTemplate(t)
    PROVE  IndexInv'
<1>1. UNCHANGED <<vector, meta, server, job, mixed>> /\ current' = FALSE
    BY DEF WriteTemplate
<1> QED
    BY <1>1 DEF IndexInv, Done, Paired, Served, Fresh, Working, Indexed, Listed

(* A job lists the rows: nothing of them is done yet.                       *)
LEMMA ListStep ==
    ASSUME IndexInv, Types', NEW c \in Configs, job' = Listing(c), job.pc \notin Working,
           UNCHANGED <<indexVars, server>>,
           mixed' = mixed \cup Beside(c) \/ (mixed' = mixed /\ c = job.config /\ job.pc # "idle")
    PROVE  IndexInv'
<1>1. /\ job'.pc = "embed" /\ job'.config = c /\ job'.texts = row /\ job'.todo = Listed
      /\ job'.at = Nothing
    BY DEF Listing
<1>2. \A t \in Templates \ Listed : vector[t] = Nothing /\ meta[t] = Nothing
    BY DEF IndexInv, Types, TypeOK, Listed
<1>3. Done'
    BY <1>1, <1>2 DEF Done, indexVars
<1>4. Paired'
    BY DEF IndexInv, Paired, indexVars, Working, Beside
<1>5. Served'
    BY <1>1 DEF IndexInv, Served, Beside, Indexed, indexVars
<1>6. Fresh'
    BY <1>1 DEF Fresh, Listed, indexVars, Working
<1> QED
    BY <1>3, <1>4, <1>5, <1>6 DEF IndexInv

LEMMA JobStartStep ==
    ASSUME IndexInv, Types', NEW force \in BOOLEAN, JobStart(force)
    PROVE  IndexInv'
<1>1. /\ job.pc = "idle" /\ config \in Configs /\ mixed' = mixed \cup Beside(config)
      /\ UNCHANGED <<indexVars, server>> /\ current' = ~force
    BY DEF JobStart, IndexInv, Types, TypeOK
<1>2. CASE ~force
    BY <1>1, <1>2, ListStep DEF JobStart, Working
<1>3. CASE force
    <2>1. job'.pc = "clear vectors" /\ job'.config = config
        BY <1>3 DEF JobStart, IndexInv, Types
    <2> QED
        BY <1>1, <1>3, <2>1 DEF IndexInv, Done, Paired, Served, Fresh, Working, Indexed,
                               Beside, indexVars
<1> QED
    BY <1>2, <1>3

LEMMA ClearStep ==
    ASSUME IndexInv, Types', ClearVectors \/ ClearMeta
    PROVE  IndexInv'
<1>1. CASE ClearVectors
    <2>1. /\ job.pc = "clear vectors" /\ job'.pc = "clear meta" /\ job'.config = job.config
          /\ \A t \in Templates : vector'[t] = Nothing
          /\ UNCHANGED <<meta, row, server, historyVars>>
        BY <1>1 DEF ClearVectors, IndexInv, Types
    <2> QED
        BY <2>1 DEF IndexInv, Done, Paired, Served, Fresh, Working, Indexed, historyVars
<1>2. CASE ClearMeta
    <2>1. /\ job.pc = "clear meta" /\ job'.pc = "list" /\ job'.config = job.config
          /\ \A t \in Templates : meta'[t] = Nothing
          /\ UNCHANGED <<vector, row, server, historyVars>>
        BY <1>2 DEF ClearMeta, IndexInv, Types
    <2> QED
        BY <2>1 DEF IndexInv, Done, Paired, Served, Fresh, Working, Indexed, historyVars
<1> QED
    BY <1>1, <1>2

LEMMA ListRowsStep ==
    ASSUME IndexInv, Types', ListRows
    PROVE  IndexInv'
    BY ListStep DEF ListRows, Working, IndexInv, Types, TypeOK, indexVars

LEMMA UpsertStep ==
    ASSUME IndexInv, Types', NEW t \in Templates, UpsertVector(t)
    PROVE  IndexInv'
<1>1. /\ job.pc = "embed" /\ t \in job.todo /\ t \in Templates
      /\ job'.pc = "record" /\ job'.at = t /\ job'.config = job.config
      /\ job'.texts = job.texts /\ job'.todo = job.todo
      /\ UNCHANGED <<row, meta, server, mixed, current>>
      /\ vector'[t] = Made(t)
      /\ \A u \in Templates \ {t} : vector'[u] = vector[u]
    BY DEF UpsertVector, IndexInv, Types, TypeOK, historyVars
<1>2. Made(t).model = job.config.model
    BY DEF Made
<1>3. Done'
    BY <1>1 DEF IndexInv, Done, Working
<1>4. Paired'
    BY <1>1 DEF IndexInv, Paired
<1>5. Served'
    BY <1>1, <1>2 DEF IndexInv, Served, Indexed
<1>6. Fresh'
    BY <1>1 DEF IndexInv, Fresh, Listed, Working
<1> QED
    BY <1>3, <1>4, <1>5, <1>6 DEF IndexInv

LEMMA RecordStep ==
    ASSUME IndexInv, Types', RecordMeta
    PROVE  IndexInv'
<1> DEFINE t == job.at
<1>1. /\ job.pc = "record" /\ t \in job.todo /\ t \in Templates /\ vector[t] = Made(t)
      /\ Made(t).model = job.config.model
    BY DEF RecordMeta, IndexInv, Types, TypeOK, JobOK, Working, Made
<1>2. /\ job'.pc = "embed" /\ job'.config = job.config
      /\ job'.texts = job.texts /\ job'.todo = job.todo \ {t} /\ job'.at = Nothing
      /\ UNCHANGED <<row, vector, server, mixed, current>>
      /\ meta'[t] = Made(t)
      /\ \A u \in Templates \ {t} : meta'[u] = meta[u]
    BY <1>1 DEF RecordMeta, IndexInv, Types, TypeOK, historyVars
<1> HIDE DEF t
<1>3. Done'
    BY <1>1, <1>2 DEF IndexInv, Done, Working
<1>4. Paired'
    BY <1>1, <1>2 DEF IndexInv, Paired, t
<1>5. Served'
    BY <1>1, <1>2 DEF IndexInv, Served, Indexed
<1>6. Fresh'
    <2>1. current => /\ Made(t) = [model |-> job.config.model, text |-> row[t]]
                     /\ Length[job.config.model] = job.config.dimensions
        BY <1>1 DEF IndexInv, Fresh, Made, Working, Types, JobOK, RecordMeta
    <2> QED
        BY <1>1, <1>2, <2>1 DEF IndexInv, Fresh, Listed, Working
<1> QED
    BY <1>3, <1>4, <1>5, <1>6 DEF IndexInv

(* A finished job has put its model and texts in the place of all there was. *)
LEMMA DoneStep ==
    ASSUME IndexInv, Types', JobDone
    PROVE  IndexInv'
<1>1. /\ job.pc = "embed" /\ job.todo = {} /\ mixed' = mixed \ {"torn"}
      /\ job'.pc = "idle" /\ job'.config = job.config /\ job'.todo = {} /\ job'.at = Nothing
      /\ UNCHANGED <<indexVars, server, current>>
    BY DEF JobDone, Ended
<1>2. \A t \in Templates : /\ vector[t] = meta[t]
                           /\ vector[t] # Nothing => vector[t].model = job.config.model
    BY <1>1 DEF IndexInv, Done, Working
<1>3. Served'
    BY <1>1, <1>2 DEF IndexInv, Served, Indexed, indexVars
<1>4. Done' /\ Paired'
    BY <1>1, <1>2 DEF Done, Paired, Working, indexVars
<1>5. Fresh'
    BY <1>1 DEF IndexInv, Fresh, Working, Listed, indexVars
<1> QED
    BY <1>3, <1>4, <1>5 DEF IndexInv

(* A job killed between a vector and its record, over another model's.      *)
LEMMA TornPair ==
    ASSUME IndexInv, NEW t \in Templates, vector[t] # Nothing, meta[t] # Nothing,
           vector[t].model # meta[t].model
    PROVE  "torn" \in mixed \cup Torn
<1>1. CASE job.pc = "record" /\ job.at = t
    <2>1. vector[t].model = job.config.model
        BY <1>1 DEF IndexInv, Types, JobOK, Working, Made
    <2> QED
        BY <1>1, <2>1 DEF Torn
<1> QED
    BY <1>1 DEF IndexInv, Paired

LEMMA DiesStep ==
    ASSUME IndexInv, Types', JobDies \/ MigrateKilled
    PROVE  IndexInv'
<1>1. /\ job'.pc = "idle" /\ job'.config = job.config /\ job'.todo = {} /\ job'.at = Nothing
      /\ UNCHANGED <<indexVars, server>>
      /\ mixed \cup Torn \subseteq mixed'
      /\ "beside" \in mixed' => "beside" \in mixed
      /\ current' => current /\ job.pc = "idle"
    <2>1. CASE JobDies
        BY <2>1 DEF JobDies, Ended, Torn
    <2>2. CASE MigrateKilled
        BY <2>2 DEF MigrateKilled, Ended, Torn
    <2> QED
        BY <2>1, <2>2
<1>2. Paired'
    BY <1>1, TornPair DEF Paired, indexVars
<1>3. Served'
    BY <1>1 DEF IndexInv, Served, Indexed, indexVars
<1>4. Done'
    BY <1>1 DEF Done, Working
<1>5. Fresh'
    <2>1. CASE ~current'
        BY <2>1 DEF Fresh
    <2>2. CASE current'
        <3>1. job.todo = {}
            BY <1>1, <2>2 DEF IndexInv, Types, JobOK
        <3> QED
            BY <1>1, <2>2, <3>1 DEF IndexInv, Fresh, Working, Listed, indexVars
    <2> QED
        BY <2>1, <2>2
<1> QED
    BY <1>2, <1>3, <1>4, <1>5 DEF IndexInv

LEMMA MigrateReindexStep ==
    ASSUME IndexInv, Types', MigrateReindex, job.pc = "idle"
    PROVE  IndexInv'
    BY ListStep DEF MigrateReindex, Working, IndexInv, Types, TypeOK

LEMMA InitIndex == Init => IndexInv
<1> SUFFICES ASSUME Init
             PROVE  IndexInv
    OBVIOUS
<1>1. Types
    BY InitTypes
<1>2. /\ job.pc = "idle" /\ server = Nothing /\ current = FALSE
      /\ \A t \in Templates : vector[t] = Nothing /\ meta[t] = Nothing
    BY DEF Init, Ended
<1> QED
    BY <1>1, <1>2 DEF IndexInv, Done, Paired, Served, Fresh, Working

LEMMA NextIndex == IndexInv /\ Alone /\ [Next]_vars => IndexInv' /\ Alone'
<1> SUFFICES ASSUME IndexInv, Alone, [Next]_vars
             PROVE  IndexInv' /\ Alone'
    OBVIOUS
<1>1. Types'
    BY NextTypes DEF IndexInv
<1>2. Alone'
    <2>1. \A c : Listing(c).pc = "embed" /\ Ended(c).pc = "idle"
        BY DEF Listing, Ended
    <2>3. CASE migration' \in {"idle", "reindexing"}
        BY <2>3 DEF Alone
    <2>4. CASE job'.pc = "idle"
        BY <2>4 DEF Alone
    <2>5. CASE UNCHANGED <<job, migration>>
        BY <2>5 DEF Alone
    <2>6. CASE UNCHANGED migration /\ job.pc # "idle"
        BY <2>6 DEF Alone
    <2>7. CASE Pgloader \/ Rclone \/ MigrateStepFails
        BY <2>7 DEF Alone, Pgloader, Rclone, MigrateStepFails
    <2>8. CASE MigrateStart
        BY <2>8 DEF MigrateStart, Alone
    <2> QED
        BY <2>1, <2>3, <2>4, <2>5, <2>6, <2>7, <2>8 DEF Next, vars, migrateVars, Boot, Stop,
           Configure, WriteTemplate, JobStart, ClearVectors, ClearMeta, ListRows,
           UpsertVector, RecordMeta, JobDone, JobDies, MigrateReindex, MigrateDone,
           MigrateStops, MigrateKilled
<1>3. CASE UNCHANGED vars
    <2>1. /\ UNCHANGED <<indexVars, server, job, current>>
          /\ "torn" \in mixed' <=> "torn" \in mixed
          /\ "beside" \in mixed' <=> "beside" \in mixed
        BY <1>3 DEF vars, historyVars
    <2> QED
        BY <1>1, <1>2, <2>1, AsideStep
<1>4. ASSUME NEW t \in Templates, WriteTemplate(t) \/ UpsertVector(t)
      PROVE  IndexInv'
    BY <1>1, <1>4, WriteStep, UpsertStep
<1>5. ASSUME NEW force \in BOOLEAN, JobStart(force)
      PROVE  IndexInv'
    BY <1>1, <1>5, JobStartStep
<1>6. CASE MigrateStart \/ Pgloader \/ Rclone \/ MigrateDone \/ MigrateStepFails \/ MigrateStops
    <2>1. /\ UNCHANGED <<indexVars, server, job, current>>
          /\ mixed' = mixed \/ mixed' = mixed \ {"killed"}
        BY <1>6 DEF MigrateStart, Pgloader, Rclone, MigrateDone, MigrateStepFails,
                    MigrateStops, historyVars
    <2>2. /\ "torn" \in mixed' <=> "torn" \in mixed
          /\ "beside" \in mixed' <=> "beside" \in mixed
        BY <2>1
    <2> QED
        BY <1>1, <1>2, <2>1, <2>2, AsideStep
<1>7. CASE MigrateReindex
    BY <1>1, <1>7, MigrateReindexStep DEF Alone, MigrateReindex
<1> QED
    BY <1>1, <1>2, <1>3, <1>4, <1>5, <1>6, <1>7, BootStep, StopStep, ClearStep, ListRowsStep,
       RecordStep, DoneStep, DiesStep DEF Next

LEMMA SpecIndex == Spec => [](IndexInv /\ Alone)
<1>1. Init => Alone
    BY DEF Init, Alone
<1> QED
    BY <1>1, InitIndex, NextIndex, PTL DEF Spec

-----------------------------------------------------------------------------
(* The theorems.                                                            *)

(* Tables and commands are well typed, and only templates that exist have a *)
(* vector (reindex_embeddings, SQLiteVecStore, EmbeddingMetaStore).         *)
THEOREM TypeCorrect == Spec => []TypeOK
<1>1. IndexInv => TypeOK
    BY DEF IndexInv, Types
<1> QED
    BY <1>1, SpecIndex, PTL

(* A query is only raised by vectors of its own model, but for the two ways *)
(* the guard cannot see (validate_embedding_model, reindex_embeddings).     *)
THEOREM QueriesMeetOneModel == Spec => []ServedByOneModel
<1>1. IndexInv => ServedByOneModel
    BY DEF IndexInv, Served, ServedByOneModel, SemanticHits
<1> QED
    BY <1>1, SpecIndex, PTL

(* A finished reindex has refreshed everything, and its configuration       *)
(* passes the guard (reindex_embeddings, validate_embedding_model).         *)
THEOREM ReindexRefreshes == Spec => []FreshAfterReindex
<1>1. IndexInv => FreshAfterReindex
    <2> SUFFICES ASSUME IndexInv, job.pc = "idle", current
                 PROVE  /\ \A t \in Listed :
                              /\ vector[t] = [model |-> job.config.model, text |-> row[t]]
                              /\ meta[t] = vector[t]
                        /\ Listed # {} => Guard(job.config)
        BY DEF FreshAfterReindex
    <2>1. \A t \in Listed : /\ vector[t] = [model |-> job.config.model, text |-> row[t]]
                            /\ meta[t] = vector[t]
                            /\ Length[job.config.model] = job.config.dimensions
        BY DEF IndexInv, Types, JobOK, Fresh
    <2>2. \A t \in Templates : vector[t] # Nothing \/ meta[t] # Nothing => t \in Listed
        BY DEF IndexInv, Types, TypeOK, Listed
    <2>3. RecordedModels \subseteq {job.config.model}
        <3>1. ASSUME NEW t \in Templates, meta[t] # Nothing
              PROVE  meta[t].model = job.config.model
            <4>1. meta[t] = [model |-> job.config.model, text |-> row[t]]
                BY <2>1, <2>2, <3>1
            <4> QED
                BY <4>1
        <3> QED
            BY <3>1 DEF RecordedModels
    <2>4. Orphans = {}
        BY <2>1, <2>2 DEF Orphans
    <2>5. Listed # {} => Length[job.config.model] = job.config.dimensions
        BY <2>1
    <2> QED
        BY <2>1, <2>3, <2>4, <2>5 DEF Guard
<1> QED
    BY <1>1, SpecIndex, PTL

(* migrate leaves the storage writable unless it was killed (run).          *)
THEOREM LockIsReleased == Spec => []LockReleased
<1>1. Init => LockReleased
    BY DEF Init, LockReleased
<1>2. LockReleased /\ [Next]_vars => LockReleased'
    <2> SUFFICES ASSUME LockReleased, [Next]_vars
                 PROVE  LockReleased'
        OBVIOUS
    <2>1. CASE UNCHANGED <<locked, migration, mixed>>
        BY <2>1 DEF LockReleased
    <2>2. CASE UNCHANGED <<locked, migration>> /\ mixed \ {"torn", "beside"} \subseteq mixed'
        BY <2>2 DEF LockReleased
    <2>3. CASE migration' # "idle" \/ ~locked' \/ "killed" \in mixed'
        BY <2>3 DEF LockReleased
    <2>4. CASE JobDone \/ JobDies
        BY <2>4 DEF JobDone, JobDies, LockReleased
    <2> QED
        BY <2>1, <2>2, <2>3, <2>4 DEF Next, vars, migrateVars, historyVars, Boot, Stop,
           Configure, WriteTemplate, JobStart, ClearVectors, ClearMeta, ListRows,
           UpsertVector, RecordMeta, MigrateStart, Pgloader, MigrateReindex, Rclone,
           MigrateDone, MigrateStepFails, MigrateStops, MigrateKilled
<1> QED
    BY <1>1, <1>2, PTL DEF Spec
=============================================================================
