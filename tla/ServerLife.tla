----------------------------- MODULE ServerLife -----------------------------
(***************************************************************************)
(* The life of the server process around the memory it keeps: the steps of *)
(* main from the environment variables to the listener, each of which may  *)
(* end the process, the migrations that survive it, the backends it falls  *)
(* back to, and the background task, which is spawned before the server    *)
(* can be reached and owes its first tick at once.                         *)
(*                                                                         *)
(* An operator or a supervisor starts the process again, maybe with other  *)
(* settings.  Requests reach MemoryStore only through a server that        *)
(* listens.  Tracing, caches, the token counter and the tool registry,     *)
(* which cannot fail, are left out.                                        *)
(***************************************************************************)
EXTENDS MemoryStore

CONSTANTS
    Settings,      \* environments a process may be started in
    Migrations,    \* number of migrations (7)
    MaxOwed        \* ticks that are owed are counted up to here

ASSUME LifeAssumption ==
    /\ Settings \subseteq [portParses : BOOLEAN,
                           backend : {"openai", "local", "other"},
                           apiKey : BOOLEAN]
    /\ Migrations \in Nat
    /\ MaxOwed \in Nat \ {0}

VARIABLES
    main,       \* what main does next; "down" when there is no process
    settings,   \* AppConfig of the process
    schema,     \* migrations applied to the database
    embedder,   \* embedding_backend: "model" or "stub"
    engine,     \* backend of the inference engine: "model" or "stub"
    owed        \* ticks of the interval that were not taken yet

lifeVars   == <<main, settings, schema, embedder, engine, owed>>
memoryVars == vars
serverVars == <<memoryVars, lifeVars>>

LifeInit ==
    /\ Init
    /\ main = "down"
    /\ settings \in Settings
    /\ schema = 0
    /\ embedder = "stub" /\ engine = "stub"
    /\ owed = 0

-----------------------------------------------------------------------------
(* main, up to the listener.                                               *)

Proceed(from, to) == main = from /\ main' = to /\ UNCHANGED memoryVars

Start ==
    /\ Proceed("down", "config")
    /\ settings' \in Settings
    /\ UNCHANGED <<schema, embedder, engine, owed>>

\* AppConfig::from_env: only the port has to parse.
LoadConfig ==
    /\ Proceed("config", "storage")
    /\ settings.portParses
    /\ UNCHANGED <<settings, schema, embedder, engine, owed>>

ConnectStorage ==
    /\ Proceed("storage", "migrations")
    /\ UNCHANGED <<settings, schema, embedder, engine, owed>>

\* Each migration is a transaction of its own and is recorded with it.
Migrate ==
    /\ schema < Migrations
    /\ Proceed("migrations", "migrations")
    /\ schema' = schema + 1
    /\ UNCHANGED <<settings, embedder, engine, owed>>

\* Mutant: a process that has run a migration takes the others for done.
FinishMigrationsEarly ==
    /\ schema > 0
    /\ Proceed("migrations", "nats")
    /\ UNCHANGED <<settings, schema, embedder, engine, owed>>

FinishMigrations ==
    /\ schema = Migrations
    /\ Proceed("migrations", "nats")
    /\ UNCHANGED <<settings, schema, embedder, engine, owed>>

ConnectNats ==
    /\ Proceed("nats", "embedding")
    /\ UNCHANGED <<settings, schema, embedder, engine, owed>>

\* EmbeddingFactory::create: an API key, or a local server, whose model is
\* detected with a default when nothing answers; else the stub.
EmbeddingOf(s) ==
    IF s.backend = "local" \/ (s.backend = "openai" /\ s.apiKey)
    THEN "model" ELSE "stub"

CreateEmbedding ==
    /\ Proceed("embedding", "inference")
    /\ embedder' = EmbeddingOf(settings)
    /\ UNCHANGED <<settings, schema, engine, owed>>

\* Mutant: a key that is missing is found out when it is used.
EngineWithoutKey(s) == IF s.backend = "other" THEN "stub" ELSE "model"

\* InferenceEngine::from_config.
EngineOf(s) ==
    CASE s.backend = "openai" -> IF s.apiKey THEN "model" ELSE "stub"
      [] s.backend = "local"  -> "model"
      [] OTHER                -> "stub"

CreateEngine ==
    /\ Proceed("inference", "spawn")
    /\ engine' = EngineOf(settings)
    /\ UNCHANGED <<settings, schema, embedder, owed>>

\* Mutant: the first tick comes after an hour.
SpawnDecayAfterAnHour ==
    /\ Proceed("spawn", "bind")
    /\ owed' = 0
    /\ UNCHANGED <<settings, schema, embedder, engine>>

\* The first tick of an interval is due at once.
SpawnDecay ==
    /\ Proceed("spawn", "bind")
    /\ owed' = 1
    /\ UNCHANGED <<settings, schema, embedder, engine>>

Bind ==
    /\ Proceed("bind", "serving")
    /\ UNCHANGED <<settings, schema, embedder, engine, owed>>

BootStep == LoadConfig \/ ConnectStorage \/ Migrate \/ FinishMigrations
              \/ ConnectNats \/ CreateEmbedding \/ CreateEngine \/ SpawnDecay
              \/ Bind

\* The process ends: it is killed, or a step returns its error from main.
\* Requests and the background task end with it, wherever they are, and so do
\* its backends.
End ==
    /\ main # "down"
    /\ main' = "down"
    /\ Restart
    /\ owed' = 0
    /\ embedder' = "stub" /\ engine' = "stub"
    /\ UNCHANGED <<settings, schema>>

-----------------------------------------------------------------------------
(* The background task and the requests.                                   *)

Spawned == main \in {"bind", "serving"}

\* An hour passes; ticks that were missed are made up for (Burst).
HourPasses ==
    /\ Spawned
    /\ owed < MaxOwed
    /\ owed' = owed + 1
    /\ UNCHANGED <<memoryVars, main, settings, schema, embedder, engine>>

TakeTick ==
    /\ Spawned
    /\ owed > 0
    /\ Tick
    /\ owed' = owed - 1
    /\ UNCHANGED <<main, settings, schema, embedder, engine>>

RunTask ==
    /\ Spawned
    /\ DecayTick \/ ArchiveLowDecay \/ LoopStatementFails
    /\ UNCHANGED lifeVars

\* The column is a VECTOR(768), and the stub returns 128 numbers.
InsertFits == embedder = "model"
NoNewRow == \A e \in Entries : tier[e] = "absent" => tier'[e] = "absent"

InsertMisfits(k) ==
    /\ ~InsertFits
    /\ pc[k] \in {"insert", "insert_consolidated"}
    /\ Goto(k, "error")
    /\ UNCHANGED <<rowVars, loop, entry, ids, todo, first, second, patch>>

Serve(k) ==
    /\ main = "serving"
    /\ \/ (Receive(k) \/ Step(k) \/ Abandon(k)) /\ (InsertFits \/ NoNewRow)
       \/ InsertMisfits(k)
    /\ UNCHANGED lifeVars

LifeNext ==
    \/ Start \/ BootStep \/ End
    \/ HourPasses \/ TakeTick \/ RunTask
    \/ \E k \in Clients : Serve(k)

LifeSpec == LifeInit /\ [][LifeNext]_serverVars

\* The operator keeps the server running: a process stays up for ever, or one
\* gets as far as its background task again and again.  A statement of the
\* task that is tried for ever succeeds in the end.  No process needs to live
\* for an hour.
KeptRunning == <>[]Spawned \/ []<><<SpawnDecay>>_serverVars

LifeFairness ==
    /\ WF_serverVars(HourPasses)
    /\ SF_serverVars(TakeTick)
    /\ SF_serverVars(RunTask /\ DecayTick)
    /\ SF_serverVars(RunTask /\ ArchiveLowDecay)
FairLifeSpec == LifeSpec /\ KeptRunning /\ LifeFairness

-----------------------------------------------------------------------------
(* Properties.                                                             *)

\* No statement reaches memory_entries before all migrations were applied,
\* although the process may die between two of them and is started again.
TablesFirst == [][rowVars' # rowVars => schema = Migrations]_serverVars

\* A server that lost its embeddings has lost its answers, too, and the other
\* way round: two factories read the same settings, each on its own.
DegradedTogether == main = "serving" => (embedder = "stub" <=> engine = "stub")

=============================================================================
