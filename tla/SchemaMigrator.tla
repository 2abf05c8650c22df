---------------------------- MODULE SchemaMigrator ----------------------------
(***************************************************************************)
(* SchemaMigrator::migrate(), run by the bot when it starts and by         *)
(* `cmlb --migrate-only', possibly at the same time, on one database file. *)
(* The version is read outside of the transactions that apply the          *)
(* migrations; SQLite lets one process write at a time.                    *)
(***************************************************************************)
EXTENDS Naturals, FiniteSets

CONSTANTS Migrators,   \* processes that migrate
          Latest,      \* the number of migrations in the registry
          Once         \* those whose SQL fails when it has been applied already

Nobody == "nobody"

ASSUME MigratorAssumption ==
    /\ Latest \in Nat
    /\ Once \subseteq 1..Latest
    /\ Nobody \notin Migrators

VARIABLES
    rows,     \* schema_version: the versions recorded,
    schema,   \* and what the schema has of each, as committed
    writer,   \* the process in a write transaction
    dirty,    \* what that transaction has done: migrations run and recorded
    mp,       \* where a process is in migrate()
    next      \* the migration it is at

migrateVars == <<rows, schema, writer, dirty, mp, next>>

Clean == [ran |-> {}, recorded |-> {}]

MigrateTypes ==
    /\ rows \subseteq 1..Latest
    /\ schema \in [1..Latest -> Nat]
    /\ writer \in Migrators \union {Nobody}
    /\ dirty \in [ran : SUBSET (1..Latest), recorded : SUBSET (1..Latest)]
    /\ mp \in [Migrators -> {"down", "start", "loop", "begun", "ran", "recorded",
                             "ok", "failed"}]
    /\ next \in [Migrators -> 1..(Latest + 1)]

MigrateInit ==
    /\ rows = {}
    /\ schema = [v \in 1..Latest |-> 0]
    /\ writer = Nobody
    /\ dirty = Clean
    /\ mp = [m \in Migrators |-> "down"]
    /\ next = [m \in Migrators |-> 1]

To(m, place) == mp' = [mp EXCEPT ![m] = place]

\* The schema as a process in a transaction sees it.
Has(v) == schema[v] > 0 \/ v \in dirty.ran

\* Most statements say IF NOT EXISTS; those that do not fail the second time.
SqlFails(v) == v \in Once /\ Has(v)

-----------------------------------------------------------------------------
\* migrate(): the table of versions is created, the highest one read, and the
\* migrations up to it passed over.
ReadVersion(m) ==
    /\ mp[m] = "start"
    /\ \/ LET version == IF rows = {} THEN 0 ELSE CHOOSE v \in rows : \A w \in rows : w <= v
          IN  /\ To(m, "loop")
              /\ next' = [next EXCEPT ![m] = version + 1]
       \/ /\ To(m, "failed")
          /\ UNCHANGED next
    /\ UNCHANGED <<rows, schema, writer, dirty>>

Migrated(m) ==
    /\ mp[m] = "loop"
    /\ next[m] > Latest
    /\ To(m, "ok")
    /\ UNCHANGED <<rows, schema, writer, dirty, next>>

\* apply_one(): BEGIN IMMEDIATE, which waits for another writer and gives up
\* after busy_timeout.
Begin(m) ==
    /\ mp[m] = "loop"
    /\ next[m] <= Latest
    /\ \/ /\ writer = Nobody
          /\ writer' = m
          /\ dirty' = Clean
          /\ To(m, "begun")
       \/ /\ To(m, "failed")
          /\ UNCHANGED <<writer, dirty>>
    /\ UNCHANGED <<rows, schema, next>>

Rollback(m) ==
    /\ writer' = Nobody
    /\ dirty' = Clean
    /\ To(m, "failed")

\* A migration that is not run inside the transaction.
RunSqlAutocommit(m) ==
    /\ mp[m] = "begun"
    /\ \/ /\ ~SqlFails(next[m])
          /\ schema' = [schema EXCEPT ![next[m]] = @ + 1]
          /\ To(m, "ran")
          /\ UNCHANGED <<writer, dirty>>
       \/ /\ Rollback(m)
          /\ UNCHANGED schema
    /\ UNCHANGED <<rows, next>>

\* The SQL of the migration.
RunSql(m) ==
    /\ mp[m] = "begun"
    /\ \/ /\ ~SqlFails(next[m])
          /\ dirty' = [dirty EXCEPT !.ran = @ \union {next[m]}]
          /\ To(m, "ran")
          /\ UNCHANGED writer
       \/ Rollback(m)
    /\ UNCHANGED <<rows, schema, next>>

\* INSERT INTO schema_version, where the version is the primary key.
Record(m) ==
    /\ mp[m] = "ran"
    /\ \/ /\ next[m] \notin rows
          /\ dirty' = [dirty EXCEPT !.recorded = @ \union {next[m]}]
          /\ To(m, "recorded")
          /\ UNCHANGED writer
       \/ Rollback(m)
    /\ UNCHANGED <<rows, schema, next>>

Commit(m) ==
    /\ mp[m] = "recorded"
    /\ \/ /\ rows' = rows \union dirty.recorded
          /\ schema' = [v \in 1..Latest |-> schema[v] + IF v \in dirty.ran THEN 1 ELSE 0]
          /\ writer' = Nobody
          /\ dirty' = Clean
          /\ next' = [next EXCEPT ![m] = @ + 1]
          /\ To(m, "loop")
       \/ /\ Rollback(m)
          /\ UNCHANGED <<rows, schema, next>>

MigrateStep(m) ==
    \/ ReadVersion(m) \/ Migrated(m)
    \/ Begin(m) \/ RunSql(m) \/ Record(m) \/ Commit(m)

\* A process is killed; what it has not committed is gone.
MigratorDies(m) ==
    /\ To(m, "down")
    /\ next' = [next EXCEPT ![m] = 1]
    /\ writer' = IF writer = m THEN Nobody ELSE writer
    /\ dirty' = IF writer = m THEN Clean ELSE dirty
    /\ UNCHANGED <<rows, schema>>

-----------------------------------------------------------------------------
\* Wherever a process is killed and whoever migrates at the same time, the
\* versions recorded are the migrations the schema has had, each once, in order;
\* and a migrate() that succeeded leaves the latest version.
SchemaMatchesVersion ==
    /\ \A v \in 1..Latest : schema[v] = IF v \in rows THEN 1 ELSE 0
    /\ \A v \in rows : \A w \in 1..v : w \in rows
    /\ \A m \in Migrators : mp[m] = "ok" => Latest = 0 \/ Latest \in rows
=============================================================================
