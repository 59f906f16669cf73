# Sovalune core: specifications, model checks and proofs

This directory specifies the parts of `sovalune-core` whose correctness hangs
on the order of steps: the self-learning loop, the memory with its decay task
and the context woven from it, the life of the server process, the chat over a
WebSocket with its tool calls, the inference route that answers by server-sent
events, and the inference engine with its retries and its cache of answers.
The modules are written from the Rust source; the paths below are relative to
`src/`.

- `tlc -workers 2 -config X.cfg M` runs a model check (`PROJECT.json`, "runs",
  names module and configuration of each);
- `tlapm M_proofs.tla` checks the proofs of a component (MemoryStore_proofs
  those of ContextWeaver and ServerLife, too, SseInfer_proofs those of
  ContextBuilder; AnswerPromise and SequenceFolds hold theorems themselves);
- `PROJECT.json`, "map", gives the lines each definition stands for.

## 1. Inventory

| component | state | operations | module |
|---|---|---|---|
| Self-learning orchestrator, `sovalune-self-learning/src/orchestrator.rs`, stage handlers in `stages/`, routes in `sovalune-api/src/routes/learning.rs` | `learning_cycles` (status, retry_count, failure_reason, confidence_score, created_at), `learning_cycle_evidence`, `learning_cycle_test_results`, events on NATS | start (behind a circuit breaker), advance, retry, run, fail; six stage handlers | `LearningCycles`, `LearningStatus`, `LearningLifecycle` |
| Memory, `sovalune-storage-client/src/repositories/memory.rs`, `sovalune-vector-memory/src`, routes in `routes/memory.rs`, tools and the hourly task in `bin/sovalune-server/src/main.rs` | `memory_entries` (tier, decay_score, archived, content, embedding, source_ids) | insert, patch, delete, consolidate, promote; decay_tick, archive_low_decay | `MemoryStore` |
| Context weaver, `sovalune-vector-memory/src/context_weaver.rs` | a budget and the sections so far | build_context | `ContextWeaver` |
| Server, `bin/sovalune-server/src/main.rs`, `sovalune-config`, migrations | the process, its settings, the schema, its backends or their stubs | start, migrate, connect, fall back, spawn, bind; end | `ServerLife` |
| WebSocket chat, `routes/ws.rs`, with `repositories/session.rs` and the request builder of `backend/openai.rs` | one reader and one token map per connection, one spawned generation per user message, `messages` | user_message, stop_generation, disconnect; load history, infer, execute tools, save, complete, clean up | `WsChat` |
| Tool calls, `model-runtime/src/tools.rs`, `executors.rs` | the block being read | parse_text_tool_calls; execute of the five tools | `ToolCalls` |
| SSE route, `routes/inference.rs`, over the response stream of `backend/openai.rs` | per request the events of the current chunk and the text streamed so far; `messages` | save, search, load history, build the context, stream, store the answer | `SseInfer` |
| Context builder, `model-runtime/src/context.rs` | the sections added | build | `ContextBuilder` |
| Inference engine, `sovalune-model-runtime/src/engine.rs`, `retry.rs` | attempt counter, text read so far | infer, stream_infer | `InferenceEngine` |
| Response cache, `cache.rs` | a bounded map with expiring entries | get, insert | `ResponseCache` |
| Embedding backends, NATS bus | none that outlives a call | HTTP requests, publications | creation and connection in `ServerLife`; elsewhere calls that answer or fail |
| Token counter, domain types, SDK, session, project and health routes | none of their own | see section 5 | not modelled |

How they interact.  The server (`main.rs`) shares one `AppState`: the storage
pool, the orchestrator, the vector memory, the engine, the tool registry.  The
routes are async functions that run concurrently on tokio; nothing but the
database is shared between a request and the next.  No statement is part of a
transaction, so two requests may interleave between any two statements.  The
orchestrator calls the stage handlers, which call the engine (`stream_infer`),
the memory and the database, and publishes to NATS.  A chat connection has a
reader task and spawns one task per user message; they share the sink of the
socket (a lock), the map of cancellation tokens (a lock) and the table of
messages.  A generation calls the tools, two of which call the memory.  The
decay task shares nothing but the table with the requests; it is spawned before
the server listens, and its first tick is due at once.

What is hard here:

- interleavings of requests between two statements: blind writes of a status
  read earlier, a count followed by an insert, sources loaded twice, tiers
  searched one after the other while entries move between them;
- a request that dies between two statements: the client goes away (axum drops
  the future), a slice panics, the server restarts;
- a process that dies between two migrations, or before its first hour is over;
- a statement, a publication, an embedding or an inference that fails in the
  middle of a sequence;
- retries: of a learning cycle, of an HTTP call to the model;
- cancellation that races with the end of what it cancels, and responses that
  it cuts inside a tool call;
- boundaries: the last retry, a full cache, a window of ten cycles, a history
  of twenty messages, a score that decays towards a threshold, a section that
  is cut to what is left of a window.

What makes each component correct:

- *self-learning*: stages in order, none skipped; a failure has a reason; the
  retry limit holds; knowledge is stored behind all gates; an event names the
  status its row has, and none is missing but those NATS refused; a terminal
  cycle is reopened by a retry only; a run comes to an end;
- *memory*: verified facts do not fade, raw ones do, an embedding says what the
  text says; a woven context has each entry once and keeps to its budget up to
  the first text it has to cut;
- *server*: tables before rows; degraded as a whole or not at all;
- *chat and SSE route*: an answer is kept as it was shown and told complete
  when it was kept (`AnswerPromise`); every message is answered once; the model
  sees the request and the results of its tools; a stop stops, and reaches what
  runs; a response that is cut short runs no call it would not have run;
- *context builder*: the context keeps to the window up to the first section it
  has to cut, and to the order of priorities;
- *engine and cache*: an answer is whole, from one request; requests are
  bounded as long as no error names a delay; the cache is bounded and drops what
  has expired first.

The hazards, line by line and with the properties that cover them, are in
`PROJECT.json`.

## 2. The modules and the code

**LearningStatus** is the enumeration of statuses with its successor function.

**LearningCycles.**  A variable per column of `learning_cycles`, per child
table what the handlers and the properties tell apart (evidence rows per
source, outcomes per stage, stored entries), the last status announced on NATS
with a mark for a later announcement that NATS refused (`missed`; the code logs
the error and goes on), and for each HTTP request a label `pc` that names the statement it executes
next, with the local variables it will use.  One action per statement:
`StartCount`, `StartInsert`, `StartPublish` are `start_cycle`; `AdvGet`,
`AdvSet`, `AdvPublish`, `AdvExhaust…` are `advance_cycle` and its path into
`fail_cycle`; `FailSet`, `FailPublish` are `fail_cycle`; `RetryGet`,
`RetryIncrement`, `RetrySet` are `retry_cycle` (which ends in a call of
`advance_cycle`); `RunLoop` is the head of the loop in the run route; the
handlers are `DetectedStage`, `ResearchingStage`, `ResearchInfer`,
`VerifyingStage`, `VerifyUpdate`, `VerifyRecord`, `PracticingStage`,
`TestingStage`, `TestFailed`, `ApplyingStage`, `StoreKnowledge`.  At most
`MaxInFlight` requests run at a time.  With `DbMayFail` a statement may return
an error instead, with `MayAbandon` a request may vanish at any await.  Prompts
and answers are dropped: inference answers, fails, or answers with a confidence
that parses as NaN; the score of the verifying stage is "low", "high" or "nan".

**LearningLifecycle** is the abstract specification of a row: stages one at a
time and in order, failure from anywhere, a return to `researching` only after
a retry was counted, at most `MaxRetries` of them.

**MemoryStore.**  A variable per column, the position of the hourly task, and
a label per client.  One action per statement: `InsertRaw`, `Delete`,
`PromoteToVerified`, `PatchContent`, `PatchArchived`, `LoadSource`, `Embed`,
`ReloadSource`, `InsertConsolidated`, `DecayTick`, `ArchiveLowDecay`.  A text is
the set of excerpts it is put together from, an embedding is identified with
the text it was computed from, and `decay_score` counts the ticks left until it
is below the threshold of 0.1 (0.95^45 < 0.1 < 0.95^44; every tick multiplies,
so the number of ticks is all that matters).

**ContextWeaver** extends MemoryStore with calls of `build_context`:
`WeaveVerified`, `WeaveConsolidated` and `WeaveRaw` are its three searches, each
a statement of its own beside everything that writes the table, and
`AddSection` fills a section from what a search found, in any order of scores.
The first text of a section that does not fit is cut into what is left, when that
is more than a little; it closes the section and is not counted, so that the
next section finds the same rest again.

**ServerLife** extends MemoryStore with the process: `LoadConfig`,
`ConnectStorage`, `Migrate`, `FinishMigrations`, `ConnectNats`,
`CreateEmbedding`, `CreateEngine`, `SpawnDecay`, `Bind` are `main` in its order,
`End` is its death at any point, which takes requests and task along; the
schema and the rows stay.  `EmbeddingOf` and `EngineOf` are the two factories.
`HourPasses` and `TakeTick` are the interval with the ticks it owes.  A server
on the stub has embeddings that do not fit the column, and inserts nothing.

**ToolCalls.**  `ParseTextToolCalls` reads a text line by line as the code does:
every fence opens or closes a block, a block whose lines together are the JSON
of one call becomes it, whether it stands on one line or several, blank ones
between them included; any other block and an unclosed one are dropped.
`Execute` is the registry with what each of its five tools may answer, given the
arguments that are there; a language `code_execute` does not know is answered
with an error, or panics in the log line that cuts the code.

**WsChat.**  `ReaderStep` is the loop that reads a connection, up to the spawn
of a generation (`UserMessage`, `SaveUserMessage`, `LoadHistory`,
`RegisterAndSpawn`, `StopGeneration`, `Disconnect`); `Generate` is the spawned
task (`StartInference`, `ReceiveDelta`, `SendToken`, `StreamError`,
`ParseToolCalls`, `AnnounceToolCall`, `ExecuteTool`, `FinishToolCall`,
`RebuildContext`, `SendError`, `SaveAnswer`, `Complete`, `Cleanup`).  A step
goes from one await to the next.  Every send holds the lock of the sink until it
returns; a client is taken to read what it is sent, or its connection to break,
so that a send takes one step.  After `message_complete` the guard is kept until
the token is removed, which is why `SenderFree` keeps the other tasks of the
connection from sending between these two steps.  `BuildRequest` is what the
OpenAI backend makes of the sections.
`ServerDies` ends all tasks and connections and keeps the messages.  A task
panics where a text is cut at a byte: in the log line of a message, in the
builder, in a tool and in the summary of a result (`MayPanic`).

**ResponseCache, InferenceEngine.**  The cache is three variables: the keys
present, those of them that have expired, and the values.  `MakeRoom` is the
two-stage eviction of `insert`: the expired entries first, one arbitrary entry
if that is not enough.  Expiry may happen at any moment.  Concurrent calls go
from await to await: `Lookup` (only `infer`), `HealthCheck` (only
`stream_infer`), `Request`, `ReceiveDelta`, `StreamEnds`, `StreamError`,
`InsertAnswer`; `Retry` and `GiveUp` are the retry state.  A text is a set of
deltas named by call, request and position, which is what tells a whole answer
from one mixed out of two requests.

**ContextBuilder, SseInfer.**  A section is a kind, what it is taken from and an
estimate in tokens; `Build` sorts and places the sections as the loop of `build`
does, with its rule that a section cut to what is left does not count.  The route
is a label per request and one action from await to await: `Receive`,
`SaveUserMessage`, `Search` (by embedding, then by text), `LoadHistory`, which
goes on to build the context, `Start`, `ReadChunk`, `ConnectionBreaks`,
`ResponseEnds`, `HandleEvent`, `StoreAnswer`, `SendDone`; `Disconnect` drops the
handler or the stream at any of them.  A response is a sequence of lines, each
with a delta, an end of the answer, or both; `Responses` lists what providers
send, responses without an end included.  A chunk is some whole lines and
perhaps one that its end cuts apart, which `parse_sse_line` drops in both
halves.  The statements and searches of a request in `Unlucky` may fail.

**AnswerPromise** is the abstract specification of both ways to ask: a text
grows until it is final, what is kept of it is that text, "complete" is told
only when it is kept (unless the database may fail), and after an error or the
death of the task nothing happens any more.  `WsChat` and `SseInfer` each
instantiate it with a refinement mapping (`Promise`), and `AnswersPromised` says
that they implement it.  In the chat the phase of a turn is read off its
replies and the label of its generation; in the SSE route the text is final
once a finished event was seen.  `Repeating` names the askers that may be told
"complete" more than once: nobody in the chat; in the SSE route every request,
because providers end an answer with a finish_reason and with `[DONE]`, and the
route takes each for the end (SseDoneTwice).

How they compose: WsChat contains ToolCalls; SseInfer contains ContextBuilder;
InferenceEngine contains ResponseCache; ContextWeaver and ServerLife each
contain MemoryStore with all its requests.  The engine's retries happen before
a stream starts, so chat and SSE route see one call that starts or fails.

Modules `MC…` add symmetry or a view; in the learning loop, the memory and the
SSE route a view forgets what a resting or ended request remembers.
Definitions with a comment that begins with "Mutant" are plausible bugs, one
per property; `PROJECT.json`, "mutants", says which definition each of them
replaces to show that the property notices.

## 3. The runs

| run | what it asks | instance |
|---|---|---|
| LearningFaults | types; failed iff a reason is given; no gate (confidence, test) skipped; the retry limit; knowledge only behind all gates; an event names the status of its row; refinement of LearningLifecycle | one cycle, four requests one at a time, two retries, database errors, refused events and dying requests anywhere |
| LearningCalm | the last event agrees with the row unless a later one was refused; two runs settle a cycle; a terminal cycle is left by a retry only | two cycles, three requests one at a time, three retries, a breaker of one failure, NaN answers, refused events, no other faults |
| LearningRaceSkipsStages (violation) | a passed test before applying | one cycle, two runs at a time |
| MemoryWeaving | types; the embedding covers all unpatched text; the background task leaves verified facts alone; a woven context has no entry twice and keeps to its budget up to its first cut text, to three budgets in all | three entries, four clients with any operation, one weaver with a budget of two excerpts, one tick to fade, errors, dying requests, restarts |
| ServerLife | degraded as a whole; no row before all migrations; all raw entries nothing was consolidated from end up archived | two migrations; each known backend with and without what it needs, an unknown one, a bad port; two entries, three clients, processes that die anywhere |
| ChatFaults | types; a response cut short runs the first calls of the whole one; the model sees the request; a stop ends the generation; refinement of AnswerPromise | two turns of one session on two connections, texts of up to six lines, failures of database, backend, tools and connections, panics, restarts |
| ChatAnswers | every message is answered, once, or its task died | two turns on one connection, three kinds of calls, the same faults |
| ChatStopMissesRunning (violation) | a stop reaches the running generation | two turns of a polite client, no faults |
| ChatToolResultsLost (violation) | the model is asked again with the results of its tools | one connection, one tool call, no faults |
| SseStream | types; the stored answer is the shown one; refinement of AnswerPromise; the context is well built | two concurrent requests to one session, one of them with failing statements and searches; two deltas, chunks of up to two lines and a cut one; two memories, two messages of history, a window of six tokens |
| SseDoneTwice (violation) | an answer is told done once | one request whose response has a finish_reason and `[DONE]` |
| EngineAnswers | types; answers are whole; requests are bounded unless an error names a delay; the cache is bounded; live entries are evicted last | three calls, three keys, a cache of two, one counted and one hinted retry |

Why the bounds are enough.  Two requests are what a race on a row needs, and the
races found need two.  How far retries that run together may pass the limit is
proved for any number of them (`RetryLimitKept`).  Four sequential requests
contain start, two runs and a retry, with the last retry of the limit reached in
both sequential runs (three is the code's own `max_retries`, used in
LearningCalm, whose three requests are a start and the two runs that must settle
its cycle, or a retry between them).  The breaker's limit of one and a window
larger than the number of cycles make it open and keep closed.

Three entries are two sources and the entry made from them, and one client more
than these lets a patch, a deletion or a promotion fall between the two loads,
or between two searches of the weaver.  A budget of two with texts of up to two
excerpts makes whole, cut and left out entries in every section.  ServerLife
uses two ticks, which separate "fading" from "faded"; two migrations (the code
has seven) have a first, a last and a death between them; how many missed ticks
are made up for decides nothing a property speaks of, so one is owed at a time.

Two turns on one connection and on two cover both ways in which turns meet: by
the token map of a connection and by the table of messages of a session.  Two
iterations and one tool call contain a second request to the model and the
limit.  Six lines are two whole blocks, or one with a call spread over lines and
a blank one; three are one block; the calls of ChatAnswers are one that may
fail, one that may panic and one that is unknown.  A history of two is less than
the other turn can put between the saving of a message and the reading of the
history, so that a request is also pushed out of what is read;
`ModelSeesRequest` allows that (`PushedOut`) and nothing else but a read that
fails.

Two deltas with one or two ends make responses of up to four lines, more than a
chunk holds, so that text and ends fall into one chunk or several; a prompt of
one token and up to five sections of two overrun a window of six, so that
sections are cut and left out; four messages of two requests exceed a history
of two.  Three keys for a cache of two reach eviction, three calls let two
share a key while a third evicts it.

`CHECK_DEADLOCK FALSE` is set where the bounded supply of requests, turns or
calls runs out: the real system then waits for clients.

**Fairness.**  `ServerLife!KeptRunning` says that an operator keeps the server
running: a process stays up for ever, or one gets as far as its background task
again and again; no process has to live for an hour, since every start owes a
tick at once.  `LifeFairness` adds weak fairness of the hour and strong
fairness of the tick and of the two statements, that is: a statement tried for
ever succeeds infinitely often.  Without it the database may be down at each
tick and nothing fades, which is what the code then does.
`WsChat!Fairness`: weak fairness of each reader's step and each generation's
step.  Tokio polls tasks that are ready; calls to the database, the backend and
the tools are taken to return (the HTTP client has its own timeout, the pool
too), and so is a send, which holds the lock of the sink meanwhile: a client
reads what it is sent, or its connection breaks.  One that keeps the connection
and stops reading would block every task of it, and nothing is claimed then.
That clients ever send anything is not assumed.  Panics and restarts are part of
ChatAnswers: a task that died answers nothing, and `EveryMessageAnswered` says
that nobody else stays without an answer for it.

**What the violations show.**

- *LearningRaceSkipsStages.*  A handler ends in `advance_cycle`, which reads the
  status afresh and moves whatever it finds (`orchestrator.rs`, line 179).  If
  another request has moved the cycle on while the handler was at work, the
  handler of the old stage thereby moves the next one, whose handler never ran;
  a cycle arrives in applying without a passed test.
- *ChatStopMissesRunning.*  The end of a generation removes the token of the
  session whoever registered it; a client that sends its next message right
  after `message_complete` can lose the token of its new generation.
- *ChatToolResultsLost.*  The section that carries tool results has a role the
  request builder drops.
- *SseDoneTwice.*  A finish_reason and the `[DONE]` behind it are two finished
  events, and the route stores the answer and sends done for each
  (`routes/inference.rs`, line 166); the comment on the handler, lines 61-66,
  shows a stream with one.

Behaviour the models have and no property forbids.  Some of it is against what
the repository says elsewhere:

- A request that dies between the effects of a stage and its advance makes the
  next run store the evidence again; `docs/04-self-learning.md`, lines 101-104,
  wants handlers that can be run again without duplicates.
- An event NATS refuses is logged and lost, and the return to `researching` has
  no event of its own, only the one behind it (lines 105-106: each transition
  publishes one).
- A retry leaves the stage `researching` without running its handler again
  (lines 81-82: back to RESEARCHING).
- The breaker counts failures among recent cycles, not failures in a row (lines
  111-114), and starts that run together count before any of them inserts.
- Cut texts do not count against the budget of a woven context, each of its three
  sections may add one and whole texts behind it, so it takes up to three times
  the budget (`docs/03-vector-memory.md`, line 65 and 4.1 to 4.3: a hard budget,
  and no text cut in the middle).  `WovenFits` states exactly this bound.
- Cut sections do not count either, so that what stands behind one goes beyond
  the window (`context.rs`, lines 3-5 and 108-109, and `docs/03`, 93-97: the sum
  never comes near the window); and it is the newest history that is cut first.
  `ContextFits` holds the window up to the first cut section.
- The sources of a consolidated entry decay on (`docs/03`, lines 119-120, exempt
  what was consolidated or used in a search).  `EventuallyForgotten` claims
  nothing of sources.
- Errors that name a delay are not counted as attempts, so a backend that keeps
  naming one is asked for ever (`retry.rs`, lines 12 and 16-20, has a maximum of
  retries).  `RequestBound` claims nothing of a call that got such an error.

Of the rest no document, comment or test that we know speaks: a NaN confidence
passes the gate and is recorded as insufficient; a failed test inference is
recorded as passed; a statement that fails after the one that completed a cycle
makes the run route fail it; archived entries that are promoted stay archived;
patched texts keep the old embedding; an error leaves its token in the map; a
failed tool call is never shown as finished; tool calls of a response that was
stopped are parsed and executed all the same; a stream cut short without an
error passes for a complete answer; a line cut by the end of a chunk is lost
without an error; a response without an end is shown and never stored, and its
client gets neither done nor an error.

## 4. What is proved

Each module with theorems proves them for every value of the constants
that the assumptions of the modules admit (`LearningAssumption`,
`MemoryAssumption`, `WeaverAssumption`, `LifeAssumption`, `ToolAssumption`,
`ChatAssumption`, `NoneIsNobody`, `WindowAssumption`, `SseAssumption`,
`CacheAssumption`, `EngineAssumption`: numbers are natural numbers, flags
Boolean, a cache holds at least one entry, "nobody" is neither a turn nor a
connection; TLC evaluates them in every run).  No other assumption is made,
except where a theorem names one.

*LearningCycles_proofs.*  `TypeCorrect`, `ControlCorrect`.  `TypeOK` needs
control facts: a request past its INSERT works on a row that exists (otherwise
the successor of "absent" would be written), a start works on an id nobody else
has, and `fail_cycle` is called with a reason; together they are `ControlInv`.
`FailuresExplained` follows from these, for any number of concurrent requests
that fail and die anywhere: the two columns are written in one statement.
`RetryLimitKept` holds for every `MaxInFlight`: each retry that has read the
count and not yet incremented it is in flight, and the budget counts those.
`ImplementsLifecycle` assumes one request at a time: blind writes are right
only if the value read is still there.  `SoloInv` says that at most one request
is in flight, and that at each label with a blind write (`adv_set`,
`retry_increment`, `retry_set`) the guard read earlier still holds.  Each step
then maps to a step of LearningLifecycle or to a stutter, case by case over the
labels (`StepLabel`, `StepRow`, `StepLifecycle`).

*LearningStages_proofs* strengthens `SoloInv` further, all for one request at a
time.  `NoStageSkipped`, `NoKnowledgeUnearned` and `EventsAreTrue` allow
statements to fail and requests to die anywhere.  For the first two `EarnInv`
says of every label of a handler which status the row has and what is recorded
when the handler goes on to `advance_cycle`; outcomes are only added, so a gate
that was passed stays passed.  They also assume that no answer reads NaN and
that clients do not send a bare advance: with either, the code takes a cycle past
a gate.  `EventsAreTrue` rests on `StandInv`: `Stands` says which status the row
of the one request in flight has at each label, those of the publications
included, where the row still has what the UPDATE before wrote.
`RetryAloneReopens` allows requests to die but no statement to fail, and shows
with `Unfinished` that whoever reaches `fail_cycle` has not completed the row;
with failing statements the run route can fail a cycle it has just completed.

The last two theorems are about requests that all run to their end (`NoFaults`:
neither a statement fails nor a request dies; with either the properties are
false), while any event may be refused.  `EventsAgree` follows from `CalmInv`: a
cycle no request works on has its status announced, unless the event behind the
one last announced was refused; at the labels in `OwingLabels` the request
under way owes the event of a status it wrote or is about to overwrite.  Every
path through the methods pays what it owes, so that one refused event is made up
for by the next.
`TwoRunsSettle` is a termination argument in the form of an invariant.
`HandlersLeft` bounds the handlers a row with a given status and retry count can
still need: every advance costs one (`HandlersAdvance`) and a retry none beyond
those it was granted (`HandlersRetry`).  `SettleInv` keeps what is left, what
the run under way has used and what the runs before it have used together below
`HandlersNeeded`, which is 3 * MaxRetries + 3; two runs of `RunIterations` each
use it up.  The code's numbers meet the bound exactly: with one iteration less
per run the theorem would not hold.

*MemoryStore_proofs* is about MemoryStore and the two modules that extend it.
`TypeCorrect` follows from `Inv`, which adds that a consolidation
has two ids and never more left to load than it has.  `VerifiedKept`: both
statements of the background task are guarded by the tier, hence by induction
on steps no schedule reaches a verified row.  `ConsolidatedCovered`: `CoverInv`
says, for every stage of a consolidation, that the unpatched text still to be
loaded or loaded again is contained in what was or will be embedded.  It is
inductive because unpatched text only ever shrinks (`TextShrinks`): a
deletion or a patch between the two loads removes some, never adds any.

The same module proves the weaver.  `WeaveInv` adds to `Inv` that texts are
finite sets (so that their sizes are numbers) and, of a context under way, that
the sizes of its whole entries and the budget left add up to no more than the
budget it started with, that each section that was begun has added no more than
one budget to what it takes in all (`Allowance`: whole texts count, and the cut
one that closes a section fits into what they left), and that its entries stand in the tiers already
searched or above.  The latter is stable because entries only rise: nothing
takes an entry back to a lower tier, so none of them is found by a later search,
whatever falls between the three.  `NothingWovenTwice` and `BudgetKept` follow;
`WeaversOnlyRead` says that MemoryStore's theorems hold beside weavers.

And it proves the server around the memory.  `BootInv` says what a process has
done when it is at a label of `main`: past the migrations the schema is
complete, past each factory its backend is what the settings ask for.
`TablesBeforeRows` and `StubsTogether` follow; the second also needs that the
two factories agree on every environment, which is a fact about `EmbeddingOf`
and `EngineOf`.  `ServersKeepMemory` maps every step of ServerLife to a step of
MemoryStore or to a stutter, the end of a process to `Restart` and an insert that
does not fit the column to `Abandon`, so that MemoryStore's theorems hold of
every server (`ServedMemoryKept`); it assumes `MayAbandon`, since the processes
of ServerLife die.

*AnswerPromise* holds a theorem of its own, `PromiseHolds`: what implements it
says "complete" only of a text that is kept as it was shown, and whatever a
client is told is the last word, save that those in `Repeating` may be told
"complete" again, and even they hear nothing after an error (`LastWord`).
Both refinements below pass it on to the code (`CompleteIsStored`).

*WsChat_proofs.*  `PromiseKept` is the refinement of AnswerPromise, for any
connections, sessions, turns and limits.  Its invariant `ChatInv` says where a
turn is: a reader handles a turn nobody else handles and that has no generation
yet; a turn without a generation has neither text nor answer nor reply, save
one error of the reader, so never more than one; a generation that still runs has
sent no reply and, unless it is on its way to report an error, has shown what
it has read except the delta it is sending; one about to send `complete` has
stored an answer unless the database may fail.  Every step then maps to a step
of AnswerPromise or to a stutter.  `StoppedIsOver` and `RepliedOnce` follow from
the same invariant.

`CutIsHarmless` rests on `PartsParsed`, which speaks of texts of any length:
reading one more line only ever appends to the calls read so far, by induction
over the lines.  `TypeCorrect` adds that a tool is run only while there is a
call left.  `RequestSeen` needs `StoreInv`: a reader stores the message of its
turn before it reads the history, the table of a session only grows at its end,
and what is read are its last `HistoryLimit` rows; so a message that is not
among them has that many rows behind it, and will always have.

*SseInfer_proofs.*  `BuildsWell` is about the builder alone, for any sections,
estimates and window: `Placed` is what one turn of the loop keeps (each section,
whole or cut, fits into what the whole ones before it left, which is `Fitting`;
none was cut or left out that would have fitted; the order of the priorities),
and `ByPriority` is shown to be sorted and to lose nothing.
`SseInvariant` is about the route: the deltas of an answer are numbered, and
`InOrder` says that what was shown, what the current chunk has yielded and what
the connection still holds ascend in that order and that behind a finished
event there are only further ends, wherever a chunk was cut and whichever half
lines were dropped.  `WholeAnswerStored` follows: at the label that stores the
answer no text can follow.  `ContextsFit` joins `BuildsWell` with the types of
what was found and read.  `PromiseKept` is the refinement of AnswerPromise.

*SequenceFolds* is what these proofs know of the folds of the community
modules: `FoldEmpty` and `FoldAppend` for FoldLeft, `FlattenEmpty` and
`FlattenAppend` for FlattenSeq, for any operation; `PrefixesOfAppend` is a fact
about prefixes.  A fold is a recursive
function; that it exists, and induction over sequences, come from
`NatSetInduction` and `SeqSetInduction`, which state induction with a set in
place of a predicate: a proof names the set of numbers or texts for which its
claim holds.  A module that uses a fold instantiates SequenceFolds with the
operation of that fold.

*InferenceEngine_proofs.*  `RequestsBounded` from `CountInv`: requests made are
counted attempts plus hints, plus the one that is under way, so that a call that
was never hinted makes at most `MaxRetries` beside the first.  `AnswersAreWhole`
from `WholeInv`: while a stream is read the text is exactly what the current
request has brought, and every cached value is the whole answer of a call with
that key; an answer that ended is never touched again (`EndedStays`).
`CacheBounded` from `BoundInv`, which adds finiteness, so that the theorems on
cardinality apply.  `LiveEvictedOnlyLast` uses the bound: a set of live entries
that fills the cache leaves no room for an expired one.

Every invariant and every action property of the runs that pass is a theorem.
Only model-checked are the two liveness properties, `EventuallyForgotten` and
`EveryMessageAnswered`: they rest on fairness, hence on ENABLED, which the
prover does not reason about.

## 5. Not modelled, and caveats

- One project: the breaker counts per project, all other statements name one
  cycle.  Deleting a project cascades to its cycles and entries; nobody does
  it while they are in use, and it is left out.
- Statements are taken to be accepted by Postgres as written, or to fail
  (`DbMayFail`).  Some bindings make a statement fail always: text bound to
  enum columns, an embedding bound as JSON, the nil project the `memory_write`
  tool writes to, against the foreign key.  What the code does then is among
  the behaviours with failing statements; which statements those are depends on
  the database and is not modelled.
- With the default settings embeddings are asked of the chat model's name, the
  factory is told 1536 dimensions and the column holds 768; a model that was
  detected anew after a restart may differ from the one that made the stored
  embeddings.  The models identify an embedding with its text and know one
  misfit only, the stub's (`InsertMisfits`).
- `testing.rs` compares with a literal 3, equal to the `max_retries` of the
  server; the model uses one constant for both.
- Two prompts with one cache key are taken for equal (the key is a 64-bit hash).
- `ContextFits` and `WovenFits` say how far a context keeps to its window and
  its budget, which is less than the documents ask for (section 3).  Slicing a
  text inside a character panics: for an SSE client it is a lost connection,
  which `Disconnect` stands for.
- Searches write nothing, so `docs/03-vector-memory.md`, lines 119-120, has no
  counterpart in the table for "used in a search"; `decay_tick` looks neither
  for searches nor for consolidations, and `DecayTick` decays both on.
- Tools have no timeout, although `docs/05-model-runtime.md` asks for one; the
  models take them to return.  Which texts make a task panic also depends on the
  log level, since some cuts are made for a log line: `MayPanic` allows all.
- A token estimate is an input; the ranking of searches, prompts, log messages
  and the wording of errors are left out; the delays between retries too.
- Clock: created_at orders messages and cycles as they were inserted.
- `infer` has no caller in the server, which calls `stream_infer` (chat, SSE,
  stages); the model lets both run side by side, as the library allows.
  `insert_with_ttl`, `remove` and `clear` of the cache have no callers at all,
  nor have `ToolCallManager`, `parse_openai_tool_calls`, and of the bus the
  subscriptions, tool results, tool calls and training jobs.  `build_context`
  of the weaver has none in the server either; it is modelled because it reads
  what others write.
- The token counter is constructed and bound to `_token_counter`; its cache is
  keyed by the text alone, whatever the model.  Nothing counts with it.
- The chat builds its context with the builder of the SSE route; WsChat takes
  all sections to fit its window of 128 000 tokens, SseInfer is where they may
  not.
- Session, project and health routes are single statements; domain types and the
  instruction SDK are data; the requests of the embedding backends and the HTTP
  side of the model backends are I/O that answers or fails.

## 6. Plan

Done: all modules of section 2, with the proofs of section 4.

Left, in the order of what it would add:

1. The engine's retries inside the chat: `InferenceEngine` composed with
   `WsChat`, so that a stop that arrives between two attempts is checked.
2. The window of a context (`context.rs`, lines 3-5) with the cut sections in it,
   as a property the code may be held to; `ContextFits` says what holds now.
