# A TLA+ model of ansmeee-ai-agent

This directory models the core of the chat agent in `src/`: the ReAct loop and
the event stream a browser reads, the session stores it writes to, the memory
built from conversations (task state, long-term facts, summaries of idle
sessions), the knowledge base, and the users' agents and settings. TLC checks the models on small instances; TLAPS proves some of the
properties for every instance. `PROJECT.json` lists the components, runs,
mutants, findings, hazards and theorems, and maps each definition to the lines
it stands for.

## The system

| Component | State it keeps | Operations | Interacts with |
|---|---|---|---|
| Chat engine, `internal/agent/engine.go` | per request: messages for the LLM, a channel of 20 events, the turn's task copy | `ProcessStream`, tool execution in sequence or in parallel, `trimHistory` | LLM, tools, session store, memory manager; events to the handler |
| SSE handler, `internal/handler/stream.go` | the connection | `Handle` | starts the engine, reads its channel until it closes |
| Session stores, `internal/memory/{memory,redis,mysql}.go` | messages per session, an agent, a TTL | `AddMessage`, `History`, `Delete`, `SetAgent`, `ListSessions` | shared by all requests |
| Task state (L1), `taskstate.go`, `taskstore.go` | goal, stage, steps, open questions per session, with a TTL | `UpdateTaskState`, `Load`, `Save` | loaded and saved once by each turn |
| Fact store (L2), `fact_store.go` | the table `memory_entries`, a queue of used ids | `Admit`, `Recall`, `MarkUsedAsync` | a goroutine per finished turn calls `Admit` |
| Memory manager, extractors, router, `manager.go` ... | none of its own | `Retrieve`, `OnTurnEnd`, `OnIdle` | between engine and stores |
| Idle scanner, `idle_scan.go` | `seen`, in memory | a sweep each minute | the sessions table, `OnIdle`, the LLM |
| Knowledge base, `internal/kb` | documents, chunks, vectors, counters | `Index`, `ReindexDoc`, `DeleteDoc`, `Retrieve` | HTTP handlers, the engine's prompt |
| Agents and settings, `internal/agent/store.go`, `internal/llm/model_config_store.go`, `kb/store.go` | in the database: agents per user, a knowledge base per agent, a model per user; a slave may serve the queries | `EnsureDefault`, `List`, `Get`, `Create`, `Update`, `Delete`, `Save`, `ensureKB`, `UpsertByAgent` | HTTP handlers; read by each chat |
| The rest | - | authentication, configuration, logging, the web page | - |

What is hard in it:

- **Concurrency.** Nothing serialises the requests of one session, so two turns
  interleave their messages, and both load and save the same task state. Each
  finished turn leaves a goroutine that reads and writes the fact table in
  separate operations. Tools of a batch run in parallel.
- **Failure.** A request's context reaches the LLM, the tools and, with MySQL or
  Redis, the saves of messages. A save that fails in the middle of a turn is
  only logged. Panics are turned into an error event.
- **Ordering.** An LLM refuses a conversation in which a tool call has no result
  right after it or a result has no call; parallel tools finish in any order; the
  store drops old messages and `trimHistory` cuts the history at a limit.
- **Staleness.** A handler reads the database and acts on what it read later, in
  another statement, and with a slave the reading may be old to begin with.
- **Time.** Tools have a timeout, the LLM has none. Sessions fall idle, entries
  expire, processes restart.

What makes each part right, as the properties state it:

- *engine and stream*: every request to the LLM is a well-formed conversation that
  contains the question; a stream ends with exactly one `done` or `error`; nobody
  is left blocked; a turn's messages stay in order; a finished turn is remembered.
- *task state*: nothing half-finished is stored; results settle the right steps;
  a save keeps what was stored before.
- *facts*: a correction replaces the old value; the quota holds and costs the
  least certain entry.
- *idle scanner*: at most one LLM call for a session; a session that is marked has a
  summary of its last forty messages, but for what came while it was made, answers
  that came later, and a summary or a reopening that was not saved; every idle session
  is reached once in a life of the process, unless a call of the scanner never returns
  or sessions that stay unsummarized fill the sweeps.
- *agents and settings*: what a user was told to have been saved stays saved; a chat
  runs as an agent of its user that is enabled; a default agent is given only to a
  user who has none.
- *recall*: a use is counted at most once and only for a row that is there, and it is
  forgotten only in a full channel, in a failed update, or next to another use of the
  row in the same batch; a prompt gets the best of what was found, within its budget; no turn waits for its memory.
- *session stores*: whichever backend is used, messages stay in the order they
  were stored and the session lives for a TTL after each confirmed write and each
  read whose renewal was confirmed; it is listed under its agent, and not after its deletion.
- *knowledge base*: the last request for a document has its full effect and
  leaves nothing of what it replaced; no document stays "indexing"; the counters
  agree with what they count. Chunks keep to their size, cover the text in order,
  and what is injected of them keeps to the budget and uses it.

## Modules

| Module | Models |
|---|---|
| `Transcript` | a session's messages as a sequence, `AddMessage` with the cap, `trimHistory`, when a conversation is well formed |
| `EventStream` | the protocol of the event channel: what may follow what; the abstract specification of the stream |
| `Engine` | `ProcessStream` and `Handle` for several turns of one session; extends `Transcript`, refines `EventStream` |
| `TaskMemory` | the state machine of `UpdateTaskState` and the turns that load and save the task |
| `FactStore` | `Admit`, one action per database operation |
| `IdleScan` | the sweep and `OnIdle` against arriving messages |
| `Recall` | `Retrieve`: facts and texts recalled with a timeout each, ranked and cut to the budget; the mark loop and the memory vector store |
| `SessionLog` | what a session store promises, whichever backend: the abstract specification |
| `SessionStores` | the in-memory, Redis and MySQL stores, and the turns and handlers that call them; refines `SessionLog` |
| `KBIndex` | documents, chunks, vectors and counters of a knowledge base under HTTP requests, one action per call of a store |
| `Agents` | agents, knowledge base settings and model settings in a database with or without a slave, one action per SQL statement of a handler |
| `KBText` | a text's way through the chunker, the fusion of two rankings and the injection into the prompt |
| `EngineProofs` (also of `Transcript`), `TaskProofs`, `FactProofs`, `MemoryProofs` (of `Recall` and `IdleScan`), `StoreProofs`, `KBIndexProofs`, `KBTextProofs`, `AgentProofs` | theorems |
| `MC...` | values of constants and symmetry for TLC |

`Engine` composes `Transcript`, the loop, the handler and one store with a cap; the
other modules meet it at the calls named below. They are not composed further:
the fact table, the sessions table, and the knowledge base share no state with
each other.

### Engine

One actor per request (`Turns`), which is two goroutines in the code: the loop of
`ProcessStream` and the handler that reads its channel. `pc[t]` says where the
loop is; each action is the code between two points where others can be observed
(a save, an event sent, a call to the LLM or a tool). `Store` is the session
store behind its interface: it may fail, and with `ObeysContext` it fails once
the request's context is done, as `WithContext(ctx)` and the Redis client do and
the in-memory store does not. `Panic` is the deferred `recover`. `Cancel` is the
client leaving, `Crash` the process dying over a persistent store.

A message is a record of role, turn, position and call number. Contents are left
out: no property depends on them.

### TaskMemory

A turn applies its events one by one to its own copy (`CallTool`, `HearResult`) and
saves it with its answer, or gives up without a save. `calls` are the tools it has
called and `outcomes` which of those calls went well, as far as it has been told:
results come in the order of the calls, so the two say which call is answered next.
`fresh` only records the past, for the properties. `Slots` and step descriptions are
left out; nothing reads them but their rendering.

### FactStore

`Calls` are the calls of `Admit` for one user; the steps are the query for the
active rows of the key, the count, the choice of a victim, its deletion by id, and
the transaction that archives and upserts. Each may fail, and the process may die
between any two. Cardinality is a property of the key (`Single`), as the rules and
the LLM's instructions have it; confidence is a number that is only compared; ties
between victims, which the code breaks by age, are broken freely. With `Serial`
calls follow each other, as they do for a user who waits longer between messages
than extraction takes; without it they overlap.

### IdleScan

One scanner goroutine, so one `OnIdle` at a time, against messages stored by
requests. `GoIdle` stands for the passing of `idle_ttl`. A sweep may take any
rows that qualify, for the query has a limit and no order. Deleted sessions and
the copy of the summary in the vector store are left out, but for the time that
embedding it may take (`Hang`).

A message is stored in a transaction that commits even if the session's row could
not be updated, which is only a warning: then the message is there and the mark stays
(`HumanMessage`, second disjunct). Of the history, `renderHistory` gives the last
`MaxSummaryHistory` messages to the LLM (`Latest`). The mark in the table is set after
the LLM has answered, so that it hides a message that came meanwhile. `behind` records
the sessions of which the code owes less than a summary of the last messages: a message
came while the summary was made, an answer came after it, or the summary or the
reopening was not saved. `SummariesRight` says that nothing else is missing.

The mark `seen` outlives the one in the table: a session that is reopened after its
summary, or whose summary failed, is found by every later sweep of the process and
passed over, although a comment in `mysql.go` has a new message reopen it. Such
sessions are `Stuck`; as many of them as a sweep has rows may keep others out of every
sweep. `EveryoneGetsATry` therefore promises one try, and only while fewer are stuck
and no call hangs. Of the calls only the summarizer's has a timeout; those to the
database and the embedder (`Untimed`) may never return, and the one scanner with them.
The specification's parts are named `ScanInit`, `ScanNext`, `ScanSpec`, so that one
module of proofs can extend this module and `Recall`.

### Recall

A turn (`at`) asks for facts, then for texts; each is fetched by a goroutine (`job`)
that the turn waits for until the answer comes or the timeout does (`Receive`,
`TimeOut`). The goroutine lives on after a timeout. `ReadFacts` reads the active rows
and picks the best, whose ids then go one by one into the bounded queue; the mark
loop collects and counts them (`Collect`, `Flush`), while `Evict` takes rows away and
`AdmitEpisodic` stores texts. Scores are any numbers: `InjectsTheBest` quantifies
over all of them, so ranking, merging and cutting are checked as functions in every
state in which a goroutine reads. The two insertion sorts and the merging between them
are given by what they return (`Sorted`, `Rerank`): each element at the place that its
score, and among equals its earlier place, gives it. The query for the rows asks for no
order and `sort.Slice` keeps none, so the earlier places are any (`Orders`). The part of
a text's score that its age gives is any that does not grow with age (`Freshness`), equal
for texts of one day. `recalls`, `dropped` and `merged` only record the past: how often a
row was recalled, and how many of these uses were forgotten because the channel was full
or an update failed, and because the loop keeps a set of ids, in which two uses are one.
`UsesCounted` balances the three against `uses` and what is under way.

The model keeps three things that one might not expect: each section has the whole
budget, so the prompt may get two; a row counts as used when it was read, also if
the budget or the timeout then keeps it out of the prompt; and a text that was stored
several times takes several of the `top_k` places, for no caller sets the id by which
`Upsert` would replace it.

### SessionLog and SessionStores

The backend is chosen in the initial state, so one run covers the three. What a
store holds of a session is one record: the messages, the agent, and the times
until which the list, the agent and the owner are held. These are one entry in
memory, three keys in Redis, and messages plus a row in MySQL, where nothing
expires. Each operation of each backend is an operator that gives the possible
outcomes (what is kept, and whether the caller is told that it went well). A Redis
pipeline may break off after any command, and the client runs it again, as it is, up to
`MaxRetries` times, or gives up (`Again`). Each run is a step, so that others come in
between, and one that breaks again leaves its part behind: a message may be in the list
once for each run, also if its writer is told in the end that it failed. A transaction
of MySQL may be committed although the reply is lost. Reading a session in Redis is two
commands, `LRANGE` and `EXPIRE`, and two steps (`FetchContext` and `RenewContext` of a
turn, `FetchHistory` and `RenewHistory` of the handler). A failure of the second is only
logged and the read succeeds, so that a read promises a TTL only if its renewal was
confirmed. `CreateSession` is one step: nobody knows the session's id yet, so a second
run of its pipeline is no different from a first that works. The actions are the steps of a turn that reach the store and the HTTP
handlers; `Tick` lets Redis keys go, `Cleanup` is the in-memory sweep. `touched`,
`tagged` and `life` only record the past for the properties.

The refinement maps `log` to the messages and `dropped` to the sessions that were
not written to since a request to delete them.

### KBIndex

A request adds, reindexes or deletes a document and walks through the document
table, the chunk table, the vector store (the in-memory one) and the counters, one
action per call (`at` in `req`). What a call has read is kept in the request, as it
is in local variables of the code. A call may fail where the code goes on or gives
up, or the client may leave, after which calls with the request's context fail;
one of these per behaviour (`Spared`). Or two requests for one document overlap
(`met`), against which the code does nothing: both may insert their texts, a deleted
document may come back, and vectors of rows that are gone may stay. What still holds
is that the document is not left half indexed, and that the next request which runs
alone puts the rows, the status and the chunk count right. A text is its number of
chunks. `last` and `wrong` only record the past.

### Agents

A request is a sequence of SQL statements (`at`), each of them atomic; requests
overlap freely. The database is a sequence of versions from the one that queries see
to the one that is written to: one version without a slave, up to `MaxLag + 1` with
one (`replicated`), and `Replicate` drops the oldest. A statement that writes may fail,
and it may succeed without its caller learning of it (`Write`); a query may fail
(`QueryFails`). Ids of agents are random, so a request can only name one that was
given out before. The properties are stated over the history of requests, not over
what a statement assigns: `before[r]` holds the requests that had been answered when
`r` came, so `w \in before[v]` says that the user knew of `w`'s answer when he sent `v`.

What the code does not promise, and the properties leave open on purpose: two
listings that overlap give a new user two default agents, and so does a slave that
lags; an update may ask for more than ten rounds, which `Create` does not allow; a
chat that names a deleted agent runs with the defaults; the knowledge base, documents
and sessions of a deleted agent stay; the request that creates a knowledge base gets it
enabled even if it asks for the contrary, because GORM writes the column's default in
place of `false`; and an upload that saw no base may undo settings that were made since.

### KBText

One text: its units (sentences or paragraphs, with their length in characters and
bytes) are merged into overlapping chunks (`Take`, `HardSplit`, `EndChunk`,
`Backtrack`); `Retrieve` fuses a ranking by vectors with one by words and keeps
the best `TopK`; `WriteHit` writes the hits into the prompt until the budget is
used. How a text is split into units is an input. That `TrimSpace` may shorten a
chunk is left out.

## Runs

| Run | Shows | Bounds |
|---|---|---|
| `engine_sequential` | turns of one client that waits: every LLM request is well formed (`ContextPaired`), also after trimming, the question is in it, each turn's messages stay in its order (`TurnOrder`), a finished turn is remembered | two turns, a store cap of exactly `MaxContext + MaxCalls`: the smallest cap for which the property holds, so every boundary of the two cuts is met |
| `engine_stream` | one turn with every failure, disconnection and crash: protocol of the stream (`KeepsPromise`), exactly one terminal event (`NoSilentEnd`), nobody blocked (`NeverStuck`) | a channel shorter than the events of a turn, so that the engine meets a full channel |
| `engine_cancel` (violation) | a client leaves while a tool runs: the results are not saved, and later requests carry an unanswered call | two turns |
| `tasks` | three turns of a session in every overlap with failures, expiry and restarts: nothing half-done is stored (`WholeTurns`), failures are counted right, and only a turn that outlived another one's save undoes it (`NothingForgotten`) | three turns, two tools, batches of two |
| `facts` | five serial admissions, corrections back and forth, failures at each step, a quota of two | five admissions: fill the quota, exceed it after a failure, correct and revert |
| `idle` | two sessions, failures, a restart: at most one LLM call per session and life and nothing left out of a summary without need (`SummariesRight`), every idle session is reached once unless stuck ones fill a sweep or a call hangs (`EveryoneGetsATry`) | sweeps of one row for two sessions, so that a stuck session can keep the other out; summaries of two messages out of three, so that one is cut off; two lives |
| `recall` | two turns recall facts and texts, with late answers, evictions and new texts: every use is accounted for (`UsesCounted`), `InjectsTheBest`, `NothingHangs` | a queue of one and batches of two, so that uses are dropped and merged; as many stored texts as the vector store keeps, so that one is pushed out and one may be there twice; a budget that two long lines exceed |
| `sessions` | two turns, a reader and deletions over each backend: it implements `SessionLog` (`KeepsSessions`), and the list of sessions is right (`ListedRight`) | a TTL of two steps and four points in time, so that keys lapse one by one and a session can expire and begin again; a cap of two messages, which two turns exceed; two faults and up to two further runs of a pipeline, so that a rerun breaks again and works at the third try, or is given up. One session: sessions share nothing |
| `kb` | three requests for two documents with one thing going wrong, a failure or two requests that overlap at one document: `LastRequestWins`, `NoStrayVector`, `NotLeftIndexing`, `CountersAgree` | three requests: add, replace and delete one document, or work on both at once; two chunks, so that one can fail and one succeed |
| `kb_misfiled` (violation) | after a chunk that cannot be embedded, vectors are filed under the ids of other chunks | one document of two chunks |
| `agents` | three requests of a user in every overlap, about agents that are his or another's: `EditsKept`, `RunsAsAllowed`, `DefaultRight` | two ids, so that a default is made beside an agent; three requests: a change, a request that overlaps it and one that sees what is left; a slave one change behind; one statement that fails or whose answer is lost. A body that changes one column or several, one of them not allowed |
| `kb_text` | every text of up to four units: chunks keep to the size (`SizeKept`), cover the text in order (`TextCovered`) and come to an end (`Ends`); the budget is kept and used (`BudgetRight`) | a chunk of three characters with an overlap of two; units shorter and longer than it; characters of one and three bytes; no budget and one of four |

`CHECK_DEADLOCK FALSE` is set where the model stops when all turns or calls are
over, which the program does too: it then waits for the next request.

The violations are disagreements between the code and the repository's own
documents or comments; `PROJECT.json` quotes them under "findings".

### Fairness

`Engine`: weak fairness of `Work(t)`, everything the loop does on its own (saves,
events, tools, which have a timeout) and of `Deliver(t)`, reading the channel. Go
runs both goroutines. Nothing is assumed of the LLM's answers (`Reply`), of clients
or of crashes. `NeverStuck` therefore says that a turn always gets to a point
where it is over or waits for the LLM of a connected client. That such a wait ends
too, as the total timeout of the proposal would have it, is not so: the code has
no such timeout.

`IdleScan`: weak fairness of `Scan`. The ticker fires, and the summarizer's call has a
timeout of its own. The other calls of the scanner have none, so it is not assumed that
they return: one that does not is the action `Hang`, after which `Scan` is never enabled
again in that life of the process. Nothing is assumed of messages or of success.

`Recall`: weak fairness of `Turn(t)`, since the timer of the context fires, and of
`Worker(t)`, a goroutine that has its answer. Nothing is assumed of the database, of
the embedder or of the mark loop, so `NothingHangs` holds with a full queue too.

`KBText`: weak fairness of `Next`, which is one sequential loop. `SessionStores`,
`FactStore`, `TaskMemory`, `KBIndex` and `Agents` state safety only.

## Proofs

`tlapm` checks every step, from the named assumptions of the modules only
(`...Assumption`: ranges of the bounds and distinctness of markers).

- `TrimKeepsPaired` (`EngineProofs`): trimming any history in which calls and
  results are paired leaves one in which they are, whatever the limit. The cut
  is characterised by the messages before it: the first one kept is no result.
- `EngineTypeOK`, `EngineNoSilentEnd`, `EngineTurnOrder` and `EngineKeepsPromise`
  (`EngineProofs`), for any number of overlapping turns and whatever fails.
  `NoSilentEnd` is not inductive: `StreamInv` adds that an open channel belongs to a
  loop that has not ended and that the terminal event is in the channel, sent, or
  still to come. `TurnOrder` needs `Past`, that everything a turn has stored lies
  behind the point its loop has reached. `KeepsPromise`, the refinement of
  `EventStream`, needs `PromiseInv`: what was sent and what is in the channel make one
  legal stream, which is at the place (`Place`) that the loop's counter says.
- What the LLM is shown (`EngineProofs`), for `Sequential` clients, who wait for their
  answers (`~Overlap` and no `"cancel"`: one that leaves lets the next turn begin before
  its own has ended), any number of turns, length of the session and size of the cuts:
  - `EngineQuestionAsked`, unless a history cannot be read or the session is deleted
    under way (neither `"load"` nor `"delete"` in `Disturbances`). `AskedInv` follows
    the question from the end of the history through both cuts into the request.
  - `EngineDoneMeansRemembered`, unless a save fails (no `"save"`). `RememberedInv`:
    wherever the question of a finished turn is, in the history or in the messages of
    a later turn, the answer comes after it; and cutting takes off the front.
  - `EngineContextPaired`, where nothing breaks off in the middle of a group of calls
    and results (`Disturbances` at most `"llm"`, `"disabled"` and `"load"`; a panic, a
    crash, a deletion or a failed save leaves half a group, which the code then sends)
    and the store keeps `MaxContext + MaxCalls` messages (`CapsFit`). `PairInv` says of
    the history that its groups are whole but for the last one and one that the cap has
    beheaded, and of a turn's messages that they are paired, the group under way apart.
    `CapsFit` makes the beheaded group lie in front of what `trimHistory` keeps; one
    message less, and TLC finds the counterexample.
- `TaskTypeOK`, `TaskWholeTurns`, `TaskFailuresCounted` and `TaskNothingForgotten`
  (`TaskProofs`), all properties of `TaskMemory`, for any number of overlapping turns,
  tools, rounds and calls in a reply. `WholeInv` says for every task state, stored or a
  copy, and for every turn, that its steps there are a block whose statuses are
  those of its calls, or none; that a result finds the right step, searching from the
  end, rests on `DueInv`, that results are due only while calls are unanswered.
  `FreshInv` says that the copy of a turn that nobody has overtaken extends what is
  stored.
- `FactTypeOK` (`FactProofs`) for overlapping calls; `FactLatestWins`,
  `FactSingleValued`, `FactQuotaKept` and `FactEvictsTheLeast` under `Serial`. The
  inductive invariant says that what a call has read is still true: `Planned`, the
  rows to archive are exactly those in use; `Room`, a call that writes has room;
  `Chosen`, a victim is still the least certain row at the quota; `Unique`, rows
  are told apart by id and by key and value. Without `Serial` the first three fail:
  two overlapping admissions both find nothing to archive and leave a single-valued
  key with two values, contrary to `docs/features/Agent 记忆机制/proposal.md`.
- `TextTypeOK`, `TextSizeKept`, `TextIsCovered` and `TextKeepsBudget`
  (`KBTextProofs`), for every text, chunk size, overlap and budget. The inductive invariant says what the loop keeps: the buffer holds the
  units from `start` to `i - 1` and fits a chunk unless it is one oversized unit;
  `backtrack` stays behind the last unit and within the overlap; chunks join without
  a gap; what is written adds up to `used`, and only the last hit written may be
  cut. That chunking ends is under fairness and left to TLC.
- `StoreTypeOK` and `StoreKeepsSessions` (`StoreProofs`): every backend implements
  `SessionLog`, for any number of sessions, overlapping turns and failures, any cap
  and any TTL. Each operation of each backend is first shown to give outcomes that
  `SessionLog` allows; the steps then follow. The inductive invariant `StoreInv` adds
  to `TypeOK` that a session that is held is held until at least `touched + TTL`
  (`Alive`), that one that is not held has no messages, and that MySQL's rows do not
  expire. `AttemptOutcome` says that a call does what it should or leaves one of its
  parts; each further run of a pipeline is one more `Say` of the log, and a step that
  keeps a session as it is, such as `LRANGE`, a stutter (`IdleStep`).
- `StoreListedRight` (`StoreProofs`): `TagInv` says that the keys for the agent and the
  owner are held for a TTL after the agent was recorded, or lost with the entry they
  belong to, `DeletedInv` what a confirmed deletion leaves. Redis keeps the
  three keys by themselves, so that each operation is shown to touch only its own.
- `IdleTypeOK` and `IdleSummariesRight` (`MemoryProofs`), for any number of sessions,
  arrivals, failures and restarts, any size of sweeps and any cap on what is summarized. `Spent`: a session in hand has been seen and has not
  been asked about before; `Unmarked`: it is not marked yet; `UpToDate`: what the scanner
  has read of it is all that was said, unless `behind` records that more has come.
- `RecallTypeOK`, `RecallUsesCounted` and `RecallInjectsTheBest` (`MemoryProofs`), all
  safety properties of `Recall`, for any number of turns, any finite set of rows, any
  scores, limits and budget. `CountInv` is an account of every row: what is under way,
  in goroutines (`Markers`), in the channel (`Queued`) and with the loop (`Collected`),
  what is counted and what was forgotten, in the three ways the code has, add up to its
  recalls for a row that is there, and to no more for one that was taken away. It needs that a recall
  names no row twice (`RecalledRows`) and that only an answering goroutine has ids to
  mark (`MarksOnce`), so that a timeout takes none away. `InjectsTheBest` holds in every
  state of the right types, by what the ranking returns: that `Sorted` puts each element
  at a place of its own, behind all that score more (`SortedRight`, by the pigeonhole
  principle), and that `Cut` and `TruncateToBudget` return the first lines (`Heads`).
- `KBTypeOK`, `KBLastRequestWins`, `KBNoStrayVector`, `KBNotLeftIndexing` and
  `KBCountersAgree` (`KBIndexProofs`), all properties of `KBIndex`, for any number of
  documents, chunks and requests; they make no use of the bound `Spared`. `MoveOnward` and `MoveRows`, `MoveDoc`, `MoveVecs` reduce the sixteen actions to
  what a step does to each store. `MeetInv`: a request that has met none is the last
  for its document, and alone. `RowInv`: rows belong to the request that wrote them and
  are there once. `LastInv` says what the last request has achieved by each of its steps
  (`Settled`). For stray vectors, `FiledInv` and `ChunksInv` say that a request's vectors
  lie under its rows and that a chunk count of zero means no rows, so that a clean-up
  which skips the vectors had none to take; `StrayInv` that no clean-up in progress is
  about to take a row without its vector. For the counters, `LedgerInv` says that there is
  a number of chunks booked for each document such that the counters are their sum, and
  that each number is what the document holds or held when the request at work on it
  began; the sum is the size of a set of pairs (`Ledger`), which a step changes for one
  document (`Rebooked`).
- `AgentsTypeOK`, `AgentsEditsKept`, `AgentsRunAsAllowed` and `AgentsDefaultRight`
  (`AgentProofs`), all properties of `Agents`, for any number of users, agents,
  overlapping requests and faults and any lag. `NextShape` reduces a step to five
  shapes: a request comes, reads, creates an agent, founds a base, or writes one
  statement. The inductive invariant `AgentsInv` speaks of changes that were made
  (`Told`) where the properties speak of answers: between the statement that writes
  and the answer a request reads again, and a second change may be made meanwhile.
  `RowInv`, `BaseInv` and `ModelInv` say that what is in the database is a change
  that no made one came after; `VersionInv` that a row, in whatever version, belongs
  to the user the id was given out for; `MakerInv` that an agent has one maker;
  `ChatInv` and `ListInv` what a chat and a listing have seen so far. They need
  that one statement is atomic, and nothing of the order of statements.

For overlapping turns the theorems about `Engine` rest on the proofs alone; the runs
check turns that follow each other and one turn with every failure. `ContextPaired`,
`QuestionAsked` and `DoneMeansRemembered` fail for overlapping turns, as the hazard list
says, and the theorems therefore name the client's behaviour as a hypothesis.

Only model-checked: everything under fairness (`NeverStuck`, `EveryoneGetsATry`,
`Ends`, `NothingHangs`), for the provers know neither fairness nor `ENABLED`. Every
invariant and every action property of the runs that pass is proved, some under the
hypotheses named above.

## Not modelled

Prompt texts, extraction rules, the keywords of the router, the terms of a score
(pure functions of text and floating-point numbers), vector similarity, HTTP plumbing, authentication,
configuration, logging and the web page. `fact.Evolve` and `TaskStore.Delete` are
called by nothing. The Redis vector store differs from the one in memory in how it
searches; `redisDefaultPingTimeout`, which is 3 and is meant as seconds, is passed as a
`time.Duration` of three nanoseconds, so that the store in memory is always taken.

Of the parts that are modelled: several users of one session id, session titles,
and the restart that empties the in-memory session store. A slave that serves stale
reads is modelled in `Agents` only, though every table may be read through it.

## Plan

1. *Done*: `Transcript`, `EventStream`, `Engine`, `TaskMemory`, `FactStore`,
   `IdleScan`, `Recall`, `SessionStores`, `KBIndex`, `KBText`, `Agents`, and the proofs
   above.
2. *Next*: what `EngineContextPaired` needs of the stores as a theorem about an `Engine`
   over `SessionLog`, instead of one history kept in `Engine`; session titles, and
   several users of one session id.
