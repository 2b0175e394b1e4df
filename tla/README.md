# SealStack in TLA+

TLA+ models of SealStack: the ingestion pipeline and its runtime, the connectors
with the credential, client and paginators they share, hybrid search with policy
and receipts, paged listing, semantic chunking, the catalog of schemas, tools
and connector bindings, MCP sessions, the CSL compiler with the deployment of
what it emits, and policies from their source to a verdict. TLC checks each
model on small instances; TLAPS proves the main invariants for every value of
the constants. `PROJECT.json` lists
components, runs, mutants, the source lines behind every definition, findings,
hazards and theorems.

    tlc -workers 2 -config MCIngest.cfg MCIngest     # one run
    tlapm IngestProofs.tla                           # one module of proofs

## 1. Inventory

A gateway process (`sealstack-gateway`) serves REST and MCP over one `Engine`
(`sealstack-engine`). The engine keeps rows in Postgres and chunks in a vector
store (`sealstack-vectorstore`: in memory, or Qdrant). An ingest runtime
(`sealstack-ingest`) pulls documents out of connectors (`connectors/*`), which
talk to services through the connector SDK (`sealstack-connector-sdk`).

| Component | State | Operations | What is hard | What makes it correct |
|---|---|---|---|---|
| Ingestor (`ingest.rs`) | memo of ensured collections; a row in Postgres and chunks in the vector store per document | `ingest`, `ensure_collection`, `delete` | four awaits over two stores without a transaction; concurrent calls; lost answers; dropped futures | a chunk always has its row; a document is indexed whole or not at all; collections are created once |
| Chunker (`ingest.rs`) | none (pure) | `semantic_chunks`, `carry_overlap`, fixed and recursive variants | budget, overlap and byte boundaries | nothing is lost; the budget holds |
| Ingest runtime (`runtime.rs`, `registry.rs`) | bindings; background tasks and their handles; the outcome of each sync | `sync_once`, `start_background`, poll and subscribe loops, `shutdown`, `register`, `deregister` | requests and loops over one binding; shutdown against start; request timeouts; restarts | counters tell what is stored; a completed sync covers the list; shutdown reaches every loop; loops of removed bindings stop |
| Vector stores (`memory.rs`, `qdrant.rs`) | collections of chunks | ensure, upsert, search, delete, drop | check-then-act under two locks | ensuring loses nothing |
| Search (`engine.rs`, `retrieval.rs`, `rerank.rs`) | the locals of each call | `search` | two backends side by side; rows vanish between retrieval and fetch; arrays matched by position | only what the policy allows is answered; nothing better is left out |
| Receipts (`receipts.rs`) | table of receipts | persist, get, prune | written after the answer is built, errors logged only | a receipt cites its answer |
| List (`engine.rs`, `facade.rs`) | none; the cursor is the client's | `list`, `list_relation` | rows come and go between pages; policy after paging | every stable row exactly once; walks end |
| Catalog (`rest.rs`, `server.rs`, `schema_registry.rs`, `store.rs`, `mcp/bootstrap.rs`, `mcp/registry.rs`) | schema, tool and binding registries in memory; two tables | register schema, register connector, boot | memory against table across failures, races and crashes; schemas that share tool names | what is served is stored and offered; a restart restores what was answered |
| Credential (`auth.rs`) | cached token, its expiry, the negative cache, one mutex | `authorization_header`, `invalidate` | many futures, refresh across awaits, dropped futures, time | one refresh per expiry; a refused token is not used again |
| HTTP client (`http.rs`, `retry.rs`) | the loop of each call | `send` | the retry after a 401 outside the budget | requests are bounded; calls end |
| Paginators (`paginate.rs`) | cursor, offset, total | `paginate` over body cursors, link headers, offsets | sources that change under the walk, cursors that repeat | the walk ends and skips nothing it need not |
| Connectors (`connectors/*`) | their configuration; the locals of each listing | construct, `list` (`fetch` and `healthcheck` have no caller) | twelve ways to page, by key or by position, to cap, filter and skip; 403 shims around `send` | a listing that succeeds accounts for everything; nothing twice; requests are bounded; it ends |
| MCP transport (`transport.rs`, `protocol.rs`) | sessions with a time to live | post, batch, delete | expiry, deletion and other clients between arrival and answer | a client keeps the session it was given, under its own identity |
| Policy (`codegen/policy.rs`, `policy-ir`, `policy-runtime`, `policy-cedar`, engine and gateway `policy.rs`) | bundles; the engine chosen at boot | compile, load, `evaluate`, `filter` | byte offsets and inline operands; two machines with two readers of JSON; files that do not load | the verdict on a record both read alike is what the block means; a default of deny holds whatever fails |
| CSL compiler (`sealstack-csl`) | none (pure) | parse, check, seven emitters | a parser that backtracks; emitters that share no code | what is emitted in several places agrees, and fits the engine's SQL |
| `schema apply` (CLI), DDL (`store.rs`) | metadata, tools, tables, indexes | register, apply DDL | registered before its table exists; tables that are already there; lost answers | tools and inserts run exactly when the source allows it |
| Embedders, API types, console, SDKs, deployment | none that concurrent steps share | | | |

Interactions: REST `POST /v1/connectors/{id}/sync` runs `sync_once` in the
request's own future, which the gateway's timeout layer drops after 60 s;
background loops run in tasks of their own; all of them share one `Ingestor`.
`POST /v1/schemas` and `POST /v1/connectors` await a statement and then change
memory. Search and list read what ingestion writes, with no lock in common.
`schema apply` compiles on the operator's machine and drives `POST /v1/schemas`
and the DDL request in turn; the tools it registers run SQL over its tables. The
compiler also emits the policy bundles that a gateway loads at its next boot.

## 2. Modules

| Module | Models | Extends / instantiates |
|---|---|---|
| `Ingestor` | one `Ingestor::ingest` per worker, each `.await` a step, over Postgres and either vector store | |
| `IngestRuntime` | requests, poll and subscribe loops, start and shutdown, the registry, crashes, all driving `Ingestor` | `Ingestor` |
| `Credential` | `OAuth2Credential`: cache, mutex, refresh with retry, negative cache, time | |
| `BoundedSend` | abstract: a call sends a bounded number of requests and gives one result | |
| `HttpSend` | `HttpClient::send` of several futures over one `Credential`; implements `BoundedSend` | `Credential`, `INSTANCE BoundedSend` |
| `Search` | `Engine::search` with `Retriever::search`, ingestion and deletion beside it | |
| `ListPages` | a client that walks `list` by cursor while rows come and go | |
| `Chunker` | the loop of `semantic_chunks` with `carry_overlap` | |
| `Catalog` | registration of schemas and connectors, both tables, boot, crash | |
| `Sources` | what each connector decides for itself: credentials accepted, items filtered, next cursor, bodies, 403s (pure) | |
| `Connectors` | one `Connector::list` of any connector over a service that changes, with `paginate` and the shims | `Sources` |
| `Mcp` | sessions and POSTs of the MCP transport | |
| `PolicyCode` | predicates, their bytecode, the host's and the bundle's machine, and what a block means (pure) | |
| `Policy` | compile, boot with either backend, and filter a batch | `PolicyCode` |
| `Csl` | what is read of a source file, the checker, and every emitter (pure) | |
| `Deploy` | `schema apply` against the gateway's registries and Postgres | `Csl` |
| `MC*` | instances for TLC | the module named |
| `QueryProofs` | theorems and lemmas of `ListPages`, `Policy` and `PolicyCode` | `ListPages`, `Policy`, `TLAPS` |
| `IngestProofs` | theorems and lemmas of `Ingestor`, `IngestRuntime` and `Chunker` | `IngestRuntime`, `Chunker`, `TLAPS` |
| `DeployProofs` | theorems and lemmas of `Csl` and `Deploy` | `Deploy`, `TLAPS` |
| `*Proofs`, the others | theorems and lemmas of the module named | the module, `TLAPS` |

No module has a `RECURSIVE` operator: what recurs in the code (lowering, the
machines' loops, the statements of a file, JSON within JSON) is a function on
positions or levels, so that every module can be proved about.

How state and actions stand to the code:

* **Ingestor.** `job[w]` holds the locals of a call and the await it stands at:
  `row` (`upsert_row`), `ensure` (the memo), `look` and `create` (the two locks
  of the in-memory store), `embed`, `write`. Each call that can fail has an
  action that fails, and where the store may have acted before its answer was
  lost, that action may or may not have had its effect. Record ids are numbers
  drawn in order; only their freshness matters. A body is the number of its
  chunks, none included, where `ingest` returns before it touches the index.
* **IngestRuntime.** `run[w]` is a task: a request, a poll loop or a subscribe
  loop, with the `SyncOutcome` it fills in. `starting` is `start_background`
  between the lock on the handle list and its release; `subscribe()` is awaited
  under it. `DropRequest` is the timeout layer or a client that went away;
  `Shutdown` aborts the tasks whose handles are in the list and waits for none:
  a loop parked at an await is gone, one that another thread is polling is marked
  (`life`) and runs on, through every await that is ready at once, until `Cancel`
  ends it. `Crash` empties memory and registers any part of the bindings, as
  `hydrate_connectors` may.
* **Credential, HttpSend.** From the lock to the first await is one step. Time
  moves in seconds. A token is the number under which the endpoint issued it, so
  a token that was refused can be told from the next. `Leave` takes a result or
  drops the future, with the mutex if it holds it. `sent` and `refused` are what
  the server saw, for the properties.
* **Search.** A backend may rank the best candidates in any order. Fusion is
  computed with the reciprocal ranks of the code in integers; scores after
  decay and rerank are free. Rows are fetched one by one, and one that is gone
  is skipped; the policy's verdicts, the scores and the records are sequences
  that `ApplyPolicy` matches by position, as the code zips them.
* **ListPages.** One page is two steps, the query and the answer after the
  policy. `stable` and `got` are history: the rows that were there since the
  walk began, and how often the client was given each.
* **Chunker.** The current chunk is a stretch of byte positions of the joined
  body; four bytes make a token, as `CharApprox` counts. `carry_overlap` may move
  its cut by up to three bytes to a character boundary.
* **Sources, Connectors.** `Sources` has one operator per connector and
  decision; `Connectors` has the loop they all share. `pc` is the await `list`
  stands at: `ask` (a page), `shim` (a body of Drive, a README of GitHub),
  `fetch` (a body), `scope` (the next channel or repository). The paginated
  service, tree or table is `present`; it answers by id or by position, whichever
  the API does: Jira, Confluence and GitHub go by position, GitHub by the page
  numbers in its links. The tokens of the others are opaque, and are taken to stand
  for the last item given. One `HttpClient::send` costs 1 to `SendBudget` requests, the
  contract of `BoundedSend`. `stayed`, `owed` and `settled` are history: what was
  there throughout a walk, what the listing therefore owes, and what it skipped
  or walked. A connector's text is left out but for the four shapes a body may
  have: plain, over the cap, not text, and cut inside a character.
* **Mcp.** A POST is one step up to its first await, one per item of its body,
  and a response that may be lost. `held` is what the client was told, and
  `heldSince` when the POST arrived that told it. A bare notification and a parse
  error carry no session header, so they tell nothing.
* **PolicyCode, Policy.** A predicate is the sequence of its nodes, each behind
  those it is made of; `Lowered` and `Meanings` give what each node becomes and
  means. A cell is an opcode with its operand or a segment of a path. `Trace` is the states a machine goes through;
  every step moves forward, so as many steps as there are cells are enough. A
  machine that runs into a segment meets its length byte first: where that is no
  opcode the machine faults, where it is one (a name of one to six bytes, say) the
  model follows it no further (`Stray`), and the compiler may accept or reject the
  block. Values are JSON values with numbers counted in halves. The bundle compares
  the text of a string: `Escaped` are the strings that JSON writes with a `\u`, at
  which it gives up, and `Spelled` maps those with another escape to their text. The two machines are two sets of
  operators, since the code has two. A deployment is how the operator set things up: the
  directory, the file of the schema in it, the backend and the default.
* **Csl.** A file is its parsed tree before the checks, with marks where the
  parser would stop: softly (it goes back and the repetition ends) or hard (an
  error behind a cut). Names of schemas are runs of lower case with capitals,
  of ASCII or not, which is all that the two snake cases look at. The emitters are functions from a
  schema to sets of columns, members, tools and constants. Indexes are told apart
  by table, kind and column: that two names of the form `{table}_{column}_idx` may
  coincide, where an underscore moves from one part to the other, is left out.
* **Deploy.** A database is its tables with columns, and its indexes;
  `Executed(file)[n]` is the database behind the first n declarations, each a
  `CREATE TABLE IF NOT EXISTS` (`RunCreate`) and its indexes, with what Postgres
  requires of them.
  `Runs` and `InsertRuns` say what the engine's SQL needs of a table; `Works` and
  `Insertable` say, from the source alone, whether it ought to be there.
* **Catalog.** A handler stands before or behind its one await. `acked` is
  history: the registrations answered. A tool leads to a schema and does one thing
  with it: search, get, list, one facet or one relation. It is registered under a
  name (`ToolName`), in which dots have become underscores, so different tools may
  have one name and the last of them stays (`Over`, `LastOf`); the maps that are
  iterated at boot have no order, so which is last is left open.

## 3. Runs

| Run | Shows | Bounds |
|---|---|---|
| `ingest` | `TypeOK`, `ChunkHasRow`, `WholeDocument`, `SyncAccounting`, `CompletedCoversList`, `ShutdownIsFinal` | 2 workers, 2 documents (two chunks, none), 3 records, Qdrant |
| `ingest_live` | `RequestEnds`, `PollStops` | 2 workers, 1 document, 1 record, in-memory store, a binding that polls and pushes |
| `http_send` | `TypeOK`, `RefreshOnlyWhenNeeded`, `FreshAfterRefusal`, `ImplementsBoundedSend`, `SendTerminates` | 2 futures, skew and negative cache of 1 s, lifetimes 1 and 2 s, 3 s, 3 tokens, 2 attempts, 2 refresh tries |
| `connectors` | `TypeOK`, `ListsEverything`, `ListsOnce`, `ShimIsBounded`, `ListEnds` | 3 items, 1 filtered, pages of 2 asked for as 0, 2 or 3, caps 2 and 5, 2 changes per listing, 2 requests per send |
| `search` | `TypeOK`, `AnswerIsReadable`, `ReceiptTellsAnswer`, `BestAnswered` | 1 search, 3 rows, 2 pieces, candidate_k 2, top_k 0 to 2 |
| `policy` | `VerdictIsMeaning`, `DenyMissingHolds` | 34 blocks of up to 3 rules, 2 callers, 5 records, a string with a `\u` escape, one with another and one name that can be run, batches of 1 and 2, stack of 3, 2 segments, 13 cells, 2 rules, JSON nested up to 4 deep |
| `list_pages` | `TypeOK`, `WalkIsComplete`, `NoneTwice`, `WalkEnds` | 4 ids, cap 2, limits 0, 1, 3 |
| `chunker` | `ChunkTypeOK`, `ParagraphsAreWhole`, `BudgetKept` | up to 4 paragraphs of 1, 4 or 7 bytes, budgets 0 to 4, overlaps 0, 1, 3 |
| `catalog` | `TypeOK`, `ServedIsStored`, `AllServed`, `RestartRestores` | 2 handlers, 1 schema in 2 versions (with a facet, with a relation), 1 more that shares its slug, 1 binding in 2 shapes |
| `deploy` | `DdlOutcome`, `ServedRuns`, `ArtifactsAgree` | 102 source files, any 2 applies one after the other |
| `mcp` | `TypeOK`, `KeepsSession` | 2 clients, 3 sessions, time to live 2, time up to 3, bodies of each kind and two batches |
| `deploy_cut` | refutes `AppliedServesAll` | 2 files, 1 apply |

Why the bounds are enough: two workers, futures or handlers are what a race
needs, and the invariants relate at most two of them to the store; three records
let a worker finish one document while the other is anywhere inside another.
Two attempts and one second of skew reach every branch of the loop, the last
attempt and a token that is never usable included. Three rows are one more than
candidate_k and top_k. With four ids and a page of two there are full pages, a
last page that is full and one that is empty. A walk over three items with pages of two has a full page, a short one and,
with a change, an empty one; a size of three is one the service does not grant,
a cap of two cuts a page, and five never does. The blocks of `policy` hold every
operator, an operand that is absent, a path and a stack one beyond what fits, a
block that is too large, overlapping rules and an action no rule names; the
machines' own limits (32 values, 8 segments, 4096 bytes) are constants. The
files of `deploy` differ in one thing each: a field of every type and decorator,
every setting of a context block twice, wrongly or by label, references forward
and back, names that collide, syntax that stops the parser softly and hard; two
applies give every pair of an earlier and a later version. Three instants and a
time to live of two give sessions that are used, expired and just alive.

Properties name what they except, and each exception was made because TLC refutes
the property without it. `ListsEverything` and `ListsOnce` except walks by position
under which items go or come (`Reliable`, `Positional`): GitHub's, Jira's and
Confluence's page numbers and offsets shift, and the code does nothing about it.
`VerdictIsMeaning` and `DenyMissingHolds` are about records that both readers of
JSON take for the same (`Plain`: no fraction, nothing that JSON escapes) and blocks
whose self-pass did not run into a name (`Followed`): the bundle never finds a
string with a quote or a newline equal to itself in the source, and with `!=` lets
it through. `AllServed` and `RestartRestores` ask for a tool of each name, which
may be that of another schema with the same slug. `ServedRuns` promises a table to
names that DDL and metadata spell alike (`SpelledAlike`), and `ArtifactsAgree` says
nothing of whether a primary key is optional, nor of the name of a collection in
the vector plan.

The proofs lift these bounds for the properties they cover. Bounds that exist
only for TLC are `MaxRecords`, `MaxTime`, `MaxIssued`, `MaxChanges`,
`MaxSessions` and `MaxApplies`; each stops new work in the environment, never a
step of code that is under way. `MaxVersion` is what the version column holds.

Deadlock is not checked where the system really stops: the body of `chunker` is
used up, a listing of `connectors` and a batch of `policy` end, and in `deploy`
and `mcp` the bounds on applies and on sessions and time are all used.

### Where the code differs from what it says

One is kept as the run `deploy_cut`:

| Property | What is said | What happens |
|---|---|---|
| `AppliedServesAll` (`Deploy`) | `parse_file` "returns a spanful parse error if the input does not match the grammar" (`parser.rs:50`) | nothing asks whether the input was used up: a field called `from` drops its schema and all behind it, and `schema apply` reports success |

The others are properties of their modules that no run lists. TLC refutes each
when it takes the place of the properties in the `.cfg` named.

| Property | In | What is said | What happens |
|---|---|---|---|
| `ReplayIsIdempotent` | `MCIngest` | replaying a full sync is safe, upserts are idempotent by primary key (`sealstack-ingest/src/lib.rs:32-33`, `design/Ingestion-Design.md:116`) | the primary key is a fresh Ulid: a second sync makes a second row and a second set of chunks |
| `EnsureIsIdempotent` | `MCIngestLive`, with two records | `ensure_collection` is idempotent (`vectorstore/src/lib.rs:102`, `ingest.rs:67-68`) | in memory, two first ingests race and the slower empties the collection |
| `HitIsRecord` | `MCSearch` | the id of a hit is the primary key of the record (`retrieval.rs:58`) | a vector hit carries the Ulid of a chunk; its row is not found and the hit is dropped |
| `OverlapStaysInBudget` | `MCChunker` | the total is checked again after the overlap (`ingest.rs:335-337`) | it is checked before the following paragraph only |
| `MemoryMatchesStore` | `MCCatalog` | memory stays consistent with what a restart rehydrates (`rest.rs:145-146`) | the last registration is served, a restart takes the highest version |
| `NoEmptyToken` | `MCConnectors` | Slack and GitHub: absent or empty in both places is a `Config` error (`slack/src/lib.rs:97`) | an empty `token` in the configuration wins over the environment and is accepted |
| `ToolsAreOwn` | `MCCatalog` | a schema gets its search, get and list tools (`mcp/bootstrap.rs:40`) | `a.b.Doc` and `a_b.Doc` have one slug: the tools of whichever is registered later replace the other's |
| `TableIsThere` | `MCDeploy` | each schema registered and its DDL run is reported `applied` (`sealstack-cli/src/commands/schema.rs:51`) | a capital outside ASCII inside the name gets an underscore from the DDL and none from the metadata |
| `CollectionIsPlanned` | `MCDeploy` | the plan lists the collections that are needed, the metadata names them (`codegen/mod.rs:58`, `mod.rs:189`) | `customer_1` in the plan, `customer_v1` in the metadata |
| `RowsNeverPanic` | `MCConnectors` | a long row body is truncated (`postgres/src/lib.rs:195-204`) | `String::truncate` panics inside a character |
| `SelfPassIsRight` | `MCPolicy` | an error of the self-pass means IR the runtime cannot execute (`codegen/policy.rs:46`) | the host's `load_path` returns at a missing segment with the rest of the operand unread and then faults; the bundle's machine runs the same code |

Met while modelling, in the models as the code has them, with no property of
their own: keyword arguments count by position, so `semantic(overlap = 32,
max_tokens = 256)` swaps them; a negative number in a context block is ignored;
the manifest takes the first `default_top_k`, the metadata the last, and the MCP
search handler neither but 12; the SDKs, the metadata and the manifest call an
optional primary key optional, its column is NOT NULL, and an ingest that does not
write it fails; a required reference to a schema declared
later makes the DDL fail, although `CSL-Specification.md:153` allows cycles; a
relation whose `via` has two steps is never safe for the engine's SQL; a new
version's columns never reach a table that exists; types called `Refund` or
`Listing` are read as `Ref` and `List`; facets that are not text cannot be
aggregated; a required field that ingestion does not write makes every ingest
fail.

A consequence of `HitIsRecord` to keep in mind when reading `BestAnswered`: hits
whose row cannot be fetched are skipped, and vector hits always are, so on their
own they take places from text hits. `BestAnswered` says that nothing else is
left out.

### Fairness

* `ingest_live`: weak fairness of every task's own steps. Tokio polls every task
  that can run, and each await of a sync is a call that answers or fails; ticks
  of an interval come. Registration, requests, crashes and shutdown are not fair.
* `http_send`: strong fairness of each task's steps. A task that waits for the
  mutex is enabled only while the mutex is free; Tokio's mutex is first come,
  first served, so one that waits while the mutex is freed again and again gets
  it. Every request gets an answer or a network error, since the client has a
  timeout. The clock and the dropping of futures are not fair.
* `connectors`: weak fairness of the listing's own step. A listing runs in a task
  that Tokio polls, each of its requests is answered or fails, and each scope
  sees finitely many changes (`MaxChanges` in the whole listing); changes are not fair. `ListEnds`
  names what it leaves out: services that repeat a cursor to a connector which
  does not walk through `paginate`, and a Confluence page size of zero.
* `list_pages`: the client that asks is answered infinitely often, not always;
  it may also leave.

The other runs need none.

## 4. Proofs

The theorems hold for every value of the constants that satisfies the named
`ASSUME`s, which only give the types of the constants (callers and records, say, are JSON
objects, and a caller has its lists) and keep stand-ins apart.
Each follows one pattern: an inductive strengthening `Inv`, one lemma per action
or group of actions, and the property as a consequence.

* **IngestProofs.** `TypeCorrect`, `EveryChunkHasRow`, `DocumentsAreWhole`,
  `ShutdownReachesEveryLoop`, `SyncsAreAccounted`, `CompletedSyncsCoverTheirList`.
  `ChunkHasRow` is not inductive: a worker about to
  write has to be known to have its row (`RowFirst`), and two workers never have
  the same record (`Distinct`). `WholeDocument` is inductive with it (`StoreInv`
  is the conjunction): chunks are written all at once, under a record of their
  own. For shutdown, every background task
  has its handle in the list or has been aborted (`HandlesKept`). The counters of a sync are proved against the stores with
  `BooksInv`: `SyncAccounting` alone says nothing of the call a sync is waiting
  for, so the invariant adds which resource the call is about (`Busy`), that the
  records a sync has been told of belong to no call under way and to no later
  one (`Claims`), what the stores hold of a call before its sync hears of it
  (`JobStores`), and the arithmetic of the counters (`Books`).
* **HttpSendProofs.** `TypeCorrect`, `RefreshesAreNeeded`, `RetryIsFresh`,
  `SendIsBounded`. The task inside a refresh holds the mutex and the cache has
  nothing usable (`LockInv`); cached and carried tokens were issued, and
  after an invalidation any token is later than the one refused (`TokenInv`);
  requests are counted against attempts and the one retry (`BudgetInv`).
  `SendIsBounded` is the refinement: initial states map to initial states of
  `BoundedSend` and every step to a step of it or a stutter.
* **IngestProofs, the chunker.** `ChunkTypeCorrect`, `NothingIsLost`,
  `ChunksKeepBudget`. Every paragraph taken lies in a chunk or in the current
  stretch (`Kept`), and that stretch ends with the last paragraph and keeps the
  budget or begins with an overlap (`Fits`).
* **QueryProofs, listing.** `TypeCorrect`, `WalksMissNothing`,
  `WalksRepeatNothing`. What lies at or before the cursor has been given, once, and
  the rest has not (`WalkInv`); between query and answer the page reaches from the
  cursor to the next one without a gap (`PageInv`).
* **QueryProofs, policies.** `VerdictsAreMeant`, `MissingIsDenied`, from the
  invariant `PolicyInv`. It says what the bundle and the engine were made of
  (`EngineOK`), that a request is a batch (`RequestOK`), and that every verdict is
  what the engine says of its record (`VerdictsOK`); neither property is inductive
  without it, since a verdict outlives the step that decided it. What remains is a
  fact about the compiler, `CompiledIsRight`: a block that compiles is decided by
  the bundle's machine as it reads, on every plain input, unless the self-pass strayed
  into a name (`Followed`). The compiler checks its
  code by running it on the host's machine on an empty input, so the proof couples
  that run with the bundle's run on the input at hand: as long as the host goes
  on, the bundle is at the same cell with a stack of the same height (`Couples`), and
  what it pushes for a node is what the node means. This holds of each node by its
  place (`NodeCouples`), then of the code of a rule wherever it stands in the
  bundle (`RuleEmbedded`, `RuleIsMeaning`). The coupling shows why no verdict is an
  accident of the two machines. A path that ends before its last segment makes the
  host read a segment as an opcode, and the compiler give up or the run stray; the empty input is two
  levels deep, so paths that compile have two segments at most. And the only arrays
  in it are groups and roles, lists of strings in every caller, so nothing else can be
  searched by a block that compiles, which is where the machines would differ (the
  host finds fractions and nested objects as `null`, the bundle neither). For Cedar,
  an object has no key twice and plain values that compare equal are equal
  (`EqualIsSame`), so what the policy set compares is what a reader sees.
* **CatalogProofs.** `TypeCorrect`, `WhatIsServedIsStored`, `NoToolNameIsMissing`,
  `RestartIsLossless`. A handler behind its store call holds what is stored
  (`Underway`); tool names that are missing are owed by a handler, and
  every tool leads to a schema that is there (`ToolsOwed`); replacing tools by others of
  their names keeps every name on offer (`OverKeeps`, `LastOfKeeps`); what
  was answered is stored (`Answered`). That a name has a latest row rests on the
  well-foundedness of the subset ordering on the finite set of versions.

* **SearchProofs.** `TypeCorrect`, `AnswersAreReadable`, `ReceiptsTellAnswers`,
  `TheBestAreAnswered`. `Sorted` takes the hit of each rank, where the rank of a
  position is one more than the number of positions before it; ranks are an
  injection of a finite set into itself, hence onto, so sorting loses and
  doubles nothing and descends. `Keep` takes the positions with verdict allow in
  their order. With these, each call satisfies an invariant of named parts: what
  is fetched, skipped and still to come make up the hits that were scored, in
  order; what the policy has seen and answered lines up. A stored receipt is the
  one its call has drawn up (`Logged`).
* **McpProofs.** `TypeCorrect`, `SessionsAreKept`. `KeepsSession` is not
  inductive: a session must have been seen no earlier than the POST that named
  it (`KeptHeld`, and `KeptPost` while the POST is under way), and belong to its
  client (`OwnHeld`, `OwnPost`).
* **ConnectorsProofs.** `AttemptsArePaid`, `ShimsAreBounded`, `TypeCorrect`,
  `ResourcesAreListedOnce`, `ListingsAreComplete`. Every attempt of a shim pays
  for at most one send, and the attempt under way has cost nothing before it is
  made (`Paid`). The listings are proved for all connectors at once, from three
  invariants. `Shape`: where `list` can be, by the kind of its connector. `Once`:
  what a walk has taken lies before its cursor, by value in a walk by keys, by
  rank among what the service holds now in a walk by position, so the next page
  cannot hold it; an item that goes lowers ranks and does no harm, one that comes
  raises them, which is why `ListsOnce` excepts it. GitHub's links count pages, so
  an item that goes shifts the next page past one that stayed, and
  `ListsEverything` asks that none goes (`PagedAll`). `All`: short of the cap, what
  stayed and lies before the cursor has been taken, and at the end of the walk
  everything wanted that stayed. Two of its parts are easily missed. An
  `OffsetPaginator` that goes by the first page's total ends correctly although
  items go, because the total bounds what there is together with what was taken
  (`TotalBounds`), and what was taken holds nothing twice: so `All` needs `Once`.
  And what a listing owes is at any time listed, skipped, or ahead of it: in the
  scopes, bodies or the scope that is left to do (`Ahead`). `InOrder` and `Pick`
  of `Sources` are written by rank so that these proofs can say where an item
  stands; they are `SetToSortSeq` and a `SelectSeq` by position.

* **DeployProofs.** `OneCompilationAgrees`, `DdlIsDecided`, `ServedIsDecided`,
  from the invariant `DeployInv`. `CliOK`: the apply under way is of a file that
  compiles. `DatabaseOK`: every table is as the schema that made it wants, with its
  columns and indexes, and every index is of a table that exists. `RegistryOK`: what
  is registered under a name is the metadata of a schema of some file that compiles.
  `TablesServed`: a schema whose apply reported success has its table. None of the
  properties survives without these: `ServedRuns` compares tables and registries
  that other applies left behind, so the invariant has to remember where each came
  from. That `DatabaseOK` survives the DDL goes by the position of the declaration
  within the file (`ExecutedFacts`), and so does the converse, that DDL is rejected
  at the first declaration that is not deployable. `ArtifactsAgree` says nothing of
  states but that the file compiles; its proof compares the emitters clause by clause.

Every type invariant, safety invariant, action property and refinement that a
passing run checks is stated by a theorem. Only model-checked is liveness
(`RequestEnds`, `PollStops`, `SendTerminates`, `WalkEnds`, `ListEnds`), which needs
fairness and `ENABLED`. Induction over data is done by position: a function that
recurs on earlier positions satisfies its equation everywhere, and a set of
positions that holds each as soon as it holds those before is all of them, by the
least that is missing (`MinFacts`, `UpTo`, `ByPosition`).

Proving these changed the models where a property said more than the code does or
where the code was not followed. Names and constants are compared only for a
relation whose name no other has (`Single`); a relation runs when its `via` reads as
text, whether the column is declared or one of those every table has (`ReadsText`);
`vector_dims` and `default_top_k` count when they are set to a number and not to a
call (`SetOnce`), and `chunking` when it has no arguments beyond its labels
(`Labelled`). `MCDeploy` has a file for each.

One guard of the model serves the proofs: a connector's list is a finite set
(`List` of `IngestRuntime`). The code collects it in a `Vec`.

Every property of a passing run has a mutant: a definition changed as a slip in
the code would change it, under which the same run fails. The mutants stand
before the definitions they change, under comments that begin `Mutation`.

## 5. Not modelled

Named with reasons in `PROJECT.json`. In short: embedders answer or fail;
console and SDKs are clients that keep nothing; `Ingestor::delete` has no caller,
and removes the row alone; `Connector::fetch` and `healthcheck` have none either,
and the gateway's factory offers no google-drive, although its listing is
modelled; rows that do not deserialize and versions beyond the 32 bits of the
column are left out of `Catalog`; the event stream of MCP's GET sends keep-alives
only; imports between CSL files, spans and the layout of generated text; what
`wasmtime` and Cedar do inside; receipt pruning has no caller; the seconds of a
back-off and the bytes of a body cap are data. Delete events of a change stream
are dropped by the code, which says so.

## 6. Plan

1. Done: ingestion, credential and client, search, list, chunker, catalog,
   connectors with paginators and shims, MCP sessions, policies, compiler and
   deployment, and the proofs of section 4.
2. An abstract specification of a listing that both `Connectors` and `ListPages`
   implement; liveness, once a prover for it is at hand.
3. Algorithms over bounded inputs: the fixed and recursive chunkers, retry delays
   and `Retry-After`, decay, vector filters; the batches of the HTTP embedders.
4. Restarts of the gateway in `Deploy`, by composition with `Catalog`: what
   hydration serves over tables of an earlier version.
