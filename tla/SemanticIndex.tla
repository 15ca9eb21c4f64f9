--------------------------- MODULE SemanticIndex ----------------------------
(***************************************************************************)
(* The vectors behind semantic search: `reindex-embeddings` with and       *)
(* without --force (cli/reindex_embeddings.py, db/vectors.py), the guard   *)
(* the server passes at its start (embeddings/client.py), the queries it   *)
(* answers from vectors meanwhile rewritten (db/templates.py), and         *)
(* `migrate`, which locks the storage and runs a reindex of its own        *)
(* (cli/migrate.py).                                                       *)
(*                                                                         *)
(* Each statement of the job commits on its own, and the job may die       *)
(* between any two.  A text is the version of a template's metadata, a     *)
(* vector the model and the text it was made from; a model has one length  *)
(* of vector.  The operator edits the configuration at any time; each      *)
(* process reads it at its start.  One reindex runs at a time.  The        *)
(* server holds SQLite stores whatever the configured database.            *)
(***************************************************************************)
EXTENDS Naturals

CONSTANTS
    Templates,
    Models,
    Length,         \* how long the vectors of each model are
    Configs,        \* the configurations the operator may set
    MaxVersion,     \* bound on the versions of one template's metadata
    Nothing         \* no vector, no meta row, no server

ASSUME IndexAssumption ==
    /\ Length \in [Models -> Nat]
    /\ Configs \subseteq [model : Models, dimensions : Nat]
    /\ MaxVersion \in Nat
    /\ Nothing \notin [model : Models, text : 1 .. MaxVersion]
    /\ Nothing \notin Configs

VARIABLES
    row,            \* version of each template's metadata, 0 when there is none
    vector,         \* template_vectors
    meta,           \* template_embeddings_meta
    config,         \* the configuration as it now stands
    server,         \* the configuration the running server has read
    job,            \* the reindex command
    migration,      \* the migrate command
    locked,         \* storage_dir is read-only
    root,           \* the commands run as a user whom modes do not bind
    mixed,          \* history: what may have mixed models, or left the lock behind
    current         \* history: nothing was written since the last full reindex

indexVars == <<row, vector, meta>>
migrateVars == <<migration, locked>>
historyVars == <<mixed, current>>
vars == <<indexVars, config, server, job, migrateVars, root, historyVars>>

Vector == [model : Models, text : 1 .. MaxVersion]
Writable == root \/ ~locked
ListedAll == Templates
Listed == {t \in Templates : row[t] # 0}

Ended(c) ==
    [pc |-> "idle", config |-> c, texts |-> [t \in Templates |-> 0], todo |-> {}, at |-> Nothing]

Init ==
    /\ row = [t \in Templates |-> 0]
    /\ vector = [t \in Templates |-> Nothing]
    /\ meta = [t \in Templates |-> Nothing]
    /\ config \in Configs
    /\ server = Nothing
    /\ job = Ended(config)
    /\ migration = "idle"
    /\ locked = FALSE
    /\ root \in BOOLEAN
    /\ mixed = {}
    /\ current = FALSE

-----------------------------------------------------------------------------
(* The server *)

RecordedModels == {meta[t].model : t \in {u \in Templates : meta[u] # Nothing}}
Orphans == {t \in Templates : vector[t] # Nothing /\ meta[t] = Nothing}

GuardRecorded(c) ==
    /\ RecordedModels \subseteq {c.model}
    /\ {Length[m] : m \in RecordedModels} \subseteq {c.dimensions}
Guard(c) ==
    /\ RecordedModels \subseteq {c.model}
    /\ {Length[m] : m \in RecordedModels} \subseteq {c.dimensions}
    /\ Orphans = {}

(* A start the guard refuses leaves everything as it was. *)
Boot ==
    /\ server = Nothing
    /\ Guard(config)
    /\ server' = config
    /\ mixed' = (mixed \ {"beside"}) \cup
                (IF job.pc # "idle" /\ job.config.model # config.model THEN {"beside"} ELSE {})
    /\ UNCHANGED <<indexVars, config, job, migrateVars, root, current>>

Stop ==
    /\ server # Nothing
    /\ server' = Nothing
    /\ UNCHANGED <<indexVars, config, job, migrateVars, root, historyVars>>

(* Hits that add to the score: none when the query's vector has not the    *)
(* configured length, or any stored one has another length (degraded to    *)
(* the words), or the template has no row.                                 *)
Indexed == {t \in Templates : vector[t] # Nothing}
SemanticHits ==
    IF \/ Length[server.model] # server.dimensions
       \/ \E t \in Indexed : Length[vector[t].model] # Length[server.model]
    THEN {} ELSE {t \in Indexed : row[t] # 0}

-----------------------------------------------------------------------------
(* The operator and the other writers *)

Configure ==
    /\ \E c \in Configs \ {config} : config' = c
    /\ UNCHANGED <<indexVars, server, job, migrateVars, root, historyVars>>

(* An approval or a seed: it embeds nothing. *)
WriteTemplate(t) ==
    /\ row[t] < MaxVersion
    /\ Writable
    /\ row' = [row EXCEPT ![t] = @ + 1]
    /\ current' = FALSE
    /\ UNCHANGED <<vector, meta, config, server, job, migrateVars, root, mixed>>

-----------------------------------------------------------------------------
(* reindex-embeddings.  The rows are listed once, after the clearing. *)

ListingChanged(c) ==
    [pc |-> "embed", config |-> c, texts |-> row, at |-> Nothing,
     todo |-> {t \in Listed : meta[t] = Nothing \/ meta[t].text # row[t]}]
Listing(c) ==
    [pc |-> "embed", config |-> c, texts |-> row, todo |-> Listed, at |-> Nothing]

Beside(c) == IF server # Nothing /\ c.model # server.model THEN {"beside"} ELSE {}

JobStart(force) ==
    /\ job.pc = "idle" /\ migration = "idle"
    /\ job' = IF force THEN [job EXCEPT !.pc = "clear vectors", !.config = config]
              ELSE Listing(config)
    /\ mixed' = mixed \cup Beside(config)
    /\ current' = ~force
    /\ UNCHANGED <<indexVars, config, server, migrateVars, root>>

ClearVectors ==
    /\ job.pc = "clear vectors" /\ Writable
    /\ vector' = [t \in Templates |-> Nothing]
    /\ job' = [job EXCEPT !.pc = "clear meta"]
    /\ UNCHANGED <<row, meta, config, server, migrateVars, root, historyVars>>

ClearMeta ==
    /\ job.pc = "clear meta" /\ Writable
    /\ meta' = [t \in Templates |-> Nothing]
    /\ job' = [job EXCEPT !.pc = "list"]
    /\ UNCHANGED <<row, vector, config, server, migrateVars, root, historyVars>>

ListRows ==
    /\ job.pc = "list"
    /\ job' = Listing(job.config)
    /\ current' = TRUE
    /\ UNCHANGED <<indexVars, config, server, migrateVars, root, mixed>>

Made(t) == [model |-> job.config.model, text |-> job.texts[t]]

(* A vector of another length than configured is refused: the job dies.    *)
UpsertVector(t) ==
    /\ job.pc = "embed" /\ t \in job.todo /\ Writable
    /\ Length[job.config.model] = job.config.dimensions
    /\ vector' = [vector EXCEPT ![t] = Made(t)]
    /\ job' = [job EXCEPT !.pc = "record", !.at = t]
    /\ UNCHANGED <<row, meta, config, server, migrateVars, root, historyVars>>

RecordMeta ==
    /\ job.pc = "record" /\ Writable
    /\ meta' = [meta EXCEPT ![job.at] = Made(job.at)]
    /\ job' = [job EXCEPT !.pc = "embed", !.todo = @ \ {job.at}, !.at = Nothing]
    /\ UNCHANGED <<row, vector, config, server, migrateVars, root, historyVars>>

(* Every row has been written: whatever an earlier job left is gone.       *)
JobDone ==
    /\ job.pc = "embed" /\ job.todo = {}
    /\ job' = Ended(job.config)
    /\ mixed' = mixed \ {"torn"}
    /\ migration' = IF migration = "reindexing" THEN "reindexed" ELSE migration
    /\ UNCHANGED <<indexVars, config, server, locked, root, current>>

Torn == IF /\ job.pc = "record"
           /\ meta[job.at] # Nothing /\ meta[job.at].model # job.config.model
        THEN {"torn"} ELSE {}

JobDies ==
    /\ job.pc # "idle"
    /\ job' = Ended(job.config)
    /\ mixed' = mixed \cup Torn
    /\ current' = FALSE
    /\ migration' = IF migration = "reindexing" THEN "failed" ELSE migration
    /\ UNCHANGED <<indexVars, config, server, locked, root>>

-----------------------------------------------------------------------------
(* migrate.  Its checks change nothing; a failed step unlocks and stops.   *)

MigrateStart ==
    /\ migration = "idle" /\ job.pc = "idle"
    /\ locked' = TRUE
    /\ migration' = "locked"
    /\ UNCHANGED <<indexVars, config, server, job, root, historyVars>>

(* pgloader and rclone copy rows and images out; nothing here reads the    *)
(* copies.                                                                 *)
Pgloader ==
    /\ migration = "locked"
    /\ migration' = "loaded"
    /\ UNCHANGED <<indexVars, config, server, job, locked, root, historyVars>>

(* The child's DATABASE_URL names the new database, which sqlite_path does *)
(* not take: the child opens the SQLite file under storage_dir.            *)
MigrateReindex ==
    /\ migration = "loaded"
    /\ migration' = "reindexing"
    /\ job' = Listing(config)
    /\ mixed' = mixed \cup Beside(config)
    /\ current' = TRUE
    /\ UNCHANGED <<indexVars, config, server, locked, root>>

Rclone ==
    /\ migration = "reindexed"
    /\ migration' = "synced"
    /\ UNCHANGED <<indexVars, config, server, job, locked, root, historyVars>>

MigrateDone ==
    /\ migration = "synced"
    /\ locked' = FALSE
    /\ migration' = "idle"
    /\ mixed' = mixed \ {"killed"}
    /\ UNCHANGED <<indexVars, config, server, job, root, current>>

MigrateStepFails ==
    /\ migration \in {"locked", "loaded", "reindexed"}
    /\ migration' = "failed"
    /\ UNCHANGED <<indexVars, config, server, job, locked, root, historyVars>>

MigrateStopsLocked ==
    /\ migration = "failed"
    /\ migration' = "idle"
    /\ UNCHANGED <<indexVars, config, server, job, locked, root, historyVars>>
MigrateStops ==
    /\ migration = "failed"
    /\ locked' = FALSE
    /\ migration' = "idle"
    /\ mixed' = mixed \ {"killed"}
    /\ UNCHANGED <<indexVars, config, server, job, root, current>>

(* Nobody unlocks after a kill.  The child, if it runs, is killed with it. *)
MigrateKilled ==
    /\ migration # "idle"
    /\ migration' = "idle"
    /\ job' = Ended(job.config)
    /\ mixed' = mixed \cup Torn \cup {"killed"}
    /\ current' = (current /\ job.pc = "idle")
    /\ UNCHANGED <<indexVars, config, server, locked, root>>

-----------------------------------------------------------------------------
Next ==
    \/ Boot \/ Stop \/ Configure
    \/ \E t \in Templates : WriteTemplate(t) \/ UpsertVector(t)
    \/ \E force \in BOOLEAN : JobStart(force)
    \/ ClearVectors \/ ClearMeta \/ ListRows \/ RecordMeta \/ JobDone \/ JobDies
    \/ MigrateStart \/ Pgloader \/ MigrateReindex \/ Rclone
    \/ MigrateDone \/ MigrateStepFails \/ MigrateStops \/ MigrateKilled

Spec == Init /\ [][Next]_vars
-----------------------------------------------------------------------------
(* Properties *)

Stages == {"idle", "locked", "loaded", "reindexing", "reindexed", "synced", "failed"}

(* Tables and commands are well typed; only templates that exist have a    *)
(* vector, and every recorded model has one.                               *)
TypeOK ==
    /\ row \in [Templates -> 0 .. MaxVersion]
    /\ vector \in [Templates -> Vector \cup {Nothing}]
    /\ meta \in [Templates -> Vector \cup {Nothing}]
    /\ config \in Configs
    /\ server \in Configs \cup {Nothing}
    /\ job.pc \in {"idle", "clear vectors", "clear meta", "list", "embed", "record"}
    /\ job.config \in Configs
    /\ job.texts \in [Templates -> 0 .. MaxVersion]
    /\ job.todo \subseteq Templates
    /\ job.at \in job.todo \cup {Nothing}
    /\ migration \in Stages
    /\ locked \in BOOLEAN /\ root \in BOOLEAN
    /\ mixed \subseteq {"torn", "beside", "killed"}
    /\ current \in BOOLEAN
    /\ \A t \in Templates : (vector[t] # Nothing \/ meta[t] # Nothing) => row[t] # 0

(* A query's score is only raised by vectors of the query's own model.  The *)
(* guard cannot see two cases, and no other order of reindexes, kills,      *)
(* changes of configuration and starts mixes models: a plain reindex to a   *)
(* new model killed between a vector and its record, and a reindex to       *)
(* another model begun while the server runs.                               *)
ServedByOneModel ==
    (server # Nothing /\ mixed \cap {"torn", "beside"} = {})
    => \A t \in SemanticHits : vector[t].model = server.model

(* A reindex that finished, forced or not, whatever was killed before it,   *)
(* has given every template the vector of its text and its model, and the   *)
(* guard then takes its configuration; only a later write undoes it.        *)
FreshAfterReindex ==
    (job.pc = "idle" /\ current)
    => /\ \A t \in Listed : /\ vector[t] = [model |-> job.config.model, text |-> row[t]]
                            /\ meta[t] = vector[t]
       /\ Listed # {} => Guard(job.config)

(* migrate leaves the storage writable again when it is over, through       *)
(* whichever step it failed, unless it was killed.                          *)
LockReleased == (locked /\ migration = "idle") => "killed" \in mixed

=============================================================================
