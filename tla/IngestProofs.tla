---------------------------- MODULE IngestProofs ----------------------------
(***************************************************************************)
(* Theorems about IngestRuntime, for any set of workers, bindings, schemas *)
(* and documents and either vector store; at the end, about Chunker.       *)
(*                                                                         *)
(* ChunkHasRow is not inductive: a worker about to write its chunks must   *)
(* be known to have a row, and no later upsert may overwrite that row.     *)
(* RowFirst says the first, Distinct (record ids name one call each) the   *)
(* second.  SyncAccounting and CompletedCoversList rest on BooksInv, which *)
(* follows the records of one sync through calls, crashes and the other    *)
(* workers' writes.                                                        *)
(***************************************************************************)
EXTENDS IngestRuntime, Chunker, FiniteSetTheorems, FunctionTheorems, TLAPS

\* A call past its row upsert has its row in the table.
RowFirst ==
    \A w \in Workers : job[w].pc \in PastRow => RowOf(job[w]) \in rows

\* A record id names one call: none is handed out twice, and while a call is
\* before its row upsert no row bears its id.
Distinct ==
    /\ \A r \in rows : r.rec < nextRec
    /\ \A w \in Workers : job[w].pc # "idle" => job[w].rec < nextRec
    /\ \A v, w \in Workers :
          (v # w /\ job[v].pc # "idle" /\ job[w].pc # "idle") => job[v].rec # job[w].rec
    /\ \A w \in Workers : job[w].pc = "row" => \A r \in rows : r.rec # job[w].rec

-----------------------------------------------------------------------------
LEMMA NoJobIsJob == NoJob \in Jobs
BY IngestorAssumption DEF NoJob, Jobs, Steps

LEMMA FreshIsTask ==
    ASSUME NEW m \in Modes, NEW b \in Bindings, NEW p \in Phases
    PROVE  Fresh(m, b, p) \in Tasks
BY DEF Fresh, Tasks, Kinds, Lives

LEMMA NextRoundIsTask ==
    ASSUME NEW t \in Tasks
    PROVE  NextRound(t) \in Tasks /\ NextRound(t).life = t.life /\ NextRound(t).mode = "poll"
<1> DEFINE f == Fresh("poll", t.binding, "tick")
<1>1. f \in Tasks /\ f.mode = "poll"
  BY FreshIsTask DEF Tasks, Modes, Phases, Fresh
<1>2. t.life \in Lives
  BY DEF Tasks
<1> HIDE DEF f
<1>3. [f EXCEPT !.life = t.life] \in Tasks /\ [f EXCEPT !.life = t.life].life = t.life
      /\ [f EXCEPT !.life = t.life].mode = "poll"
  BY <1>1, <1>2 DEF Tasks
<1> QED BY <1>3 DEF NextRound, f

LEMMA NoTaskIsTask == NoTask \in Tasks
<1>1. (CHOOSE b \in Bindings : TRUE) \in Bindings
  BY RuntimeAssumption
<1> QED BY <1>1, FreshIsTask DEF NoTask, Modes, Phases

LEMMA AbandonKeepsJobs ==
    ASSUME job \in [Workers -> Jobs], NEW W, Abandon(W)
    PROVE  job' \in [Workers -> Jobs]
BY NoJobIsJob DEF Abandon

LEMMA ChunksOfType ==
    ASSUME NEW j \in Jobs
    PROVE  ChunksOf(j) \subseteq Chunks
BY IngestorAssumption DEF ChunksOf, Chunks, Jobs

-----------------------------------------------------------------------------
(* One step of the pipeline keeps the types of its state.                  *)
LEMMA IngestStepType ==
    ASSUME IngestTypeOK, NEW w \in Workers, IngestStep(w)
    PROVE  IngestTypeOK'
<1> USE DEF IngestTypeOK, At, Goto
<1>0. job[w] \in Jobs
  OBVIOUS
<1>1. ASSUME NEW pc \in Steps, job' = [job EXCEPT ![w].pc = pc]
      PROVE  job' \in [Workers -> Jobs]
  BY <1>0, <1>1 DEF Jobs
<1>2. RowOf(job[w]) \in Rows /\ job[w].schema \in Schemas
  BY <1>0 DEF RowOf, Rows, Jobs
<1>3. CASE UpsertRow(w)
  BY <1>1, <1>2, <1>3 DEF UpsertRow, Steps
<1>4. CASE UpsertRowFails(w)
  BY <1>1, <1>2, <1>4 DEF UpsertRowFails, Steps
<1>5. CASE EnsureMemo(w)
  BY <1>1, <1>5 DEF EnsureMemo, Steps
<1>6. CASE EnsureLook(w)
  BY <1>1, <1>2, <1>6 DEF EnsureLook, Steps
<1>7. CASE EnsureCreate(w)
  BY <1>1, <1>2, <1>7 DEF EnsureCreate, Steps
<1>8. CASE EnsureFails(w)
  BY <1>1, <1>8 DEF EnsureFails, Steps
<1>9. CASE Embed(w)
  BY <1>1, <1>9 DEF Embed, Steps
<1>10. CASE EmbedFails(w)
  BY <1>1, <1>10 DEF EmbedFails, Steps
<1>11. CASE WriteChunks(w)
  BY <1>0, <1>1, <1>2, <1>11, ChunksOfType DEF WriteChunks, Steps
<1>12. CASE WriteChunksFails(w)
  BY <1>0, <1>1, <1>2, <1>12, ChunksOfType DEF WriteChunksFails, Steps
<1> QED
  BY <1>3, <1>4, <1>5, <1>6, <1>7, <1>8, <1>9, <1>10, <1>11, <1>12 DEF IngestStep

LEMMA BeginIngestType ==
    ASSUME IngestTypeOK, NEW w \in Workers, NEW d \in Docs, NEW t \in Tenants, NEW s \in Schemas,
           BeginIngest(w, d, t, s), UNCHANGED <<backend, rows, chunks, created, ensured>>
    PROVE  IngestTypeOK'
BY DEF IngestTypeOK, BeginIngest, Jobs, Steps

-----------------------------------------------------------------------------
(* TypeOK. *)

LEMMA InitType == Init => TypeOK
<1> USE IngestorAssumption, RuntimeAssumption, NoJobIsJob, NoTaskIsTask
<1>1. Init => IngestTypeOK
  BY DEF Init, IngestInit, IngestTypeOK
<1>2. Init => TypeOK
  BY <1>1 DEF Init, TypeOK, NotStarting
<1> QED BY <1>2

LEMMA TaskStepType ==
    ASSUME TypeOK, NEW w \in Workers, TaskStep(w)
    PROVE  TypeOK'
<1> USE DEF TypeOK
<1> DEFINE r == run[w]
<1>0. /\ r \in Tasks
      /\ job[w] \in Jobs
      /\ r.binding \in Bindings
      /\ TenantOf[r.binding] \in Tenants /\ Target[r.binding] \in Schemas
      /\ ChunkCount[job[w].doc] \in Nat
  BY RuntimeAssumption, IngestorAssumption DEF Tasks, IngestTypeOK, Jobs
<1>1. CASE Pipeline(w)
  BY <1>1, IngestStepType DEF Pipeline, runtimeVars
<1> HIDE DEF r
<1>2. ASSUME run' \in [Workers -> Tasks], IngestTypeOK',
             UNCHANGED <<registered, starting, handles>>
      PROVE  TypeOK'
  BY <1>2
<1>3. ASSUME UNCHANGED ingestVars
      PROVE  IngestTypeOK'
  BY <1>3 DEF ingestVars, IngestTypeOK
<1>4. ASSUME NEW W, Abandon(W),
             UNCHANGED <<backend, rows, chunks, created, ensured, nextRec>>
      PROVE  IngestTypeOK'
  BY <1>4, AbandonKeepsJobs DEF IngestTypeOK
<1>5. CASE Lookup(w)
  <2>1. run' \in [Workers -> Tasks]
    BY <1>0, <1>5 DEF Lookup, r, Tasks, Phases, Kinds
  <2> QED BY <1>2, <1>3, <1>5, <2>1 DEF Lookup
<1>6. CASE List(w)
  <2>0. PICK ls \in SUBSET Docs :
          run' = [run EXCEPT ![w].phase = "next", ![w].listed = ls, ![w].pending = ls]
    BY <1>6 DEF List
  <2>1. run' \in [Workers -> Tasks]
    BY <1>0, <2>0 DEF r, Tasks, Phases
  <2> QED BY <1>2, <1>3, <1>6, <2>1 DEF List
<1>7. CASE ListFails(w)
  <2>1. run' \in [Workers -> Tasks]
    BY <1>0, <1>7 DEF ListFails, r, Tasks, Phases, Kinds
  <2> QED BY <1>2, <1>3, <1>7, <2>1 DEF ListFails
<1>8. CASE NextResource(w)
  <2>1. PICK d \in r.pending :
          /\ BeginIngest(w, d, TenantOf[r.binding], Target[r.binding])
          /\ run' = [run EXCEPT ![w].phase = "ingest", ![w].pending = @ \ {d},
                                ![w].seen = @ + 1]
    BY <1>8 DEF NextResource, r
  <2>2. d \in Docs
    BY <1>0 DEF Tasks
  <2>3. run' \in [Workers -> Tasks]
    BY <1>0, <2>1 DEF r, Tasks, Phases, Kinds
  <2>4. IngestTypeOK'
    BY <1>0, <1>8, <2>1, <2>2, BeginIngestType DEF NextResource
  <2> QED BY <1>2, <1>8, <2>3, <2>4 DEF NextResource
<1>9. CASE Absorb(w)
  <2>0. job[w].rec \in Nat
    BY <1>0 DEF Jobs
  <2>1. CASE At(w, "ok") /\ run' = [run EXCEPT
                 ![w].phase = "next", ![w].ingested = @ + 1,
                 ![w].chunks = @ + ChunkCount[job[w].doc], ![w].recs = @ \cup {job[w].rec}]
    <3>1. /\ r.ingested + 1 \in Nat
          /\ r.chunks + ChunkCount[job[w].doc] \in Nat
          /\ r.recs \cup {job[w].rec} \in SUBSET Nat
      BY <1>0, <2>0 DEF Tasks
    <3> QED BY <1>0, <2>1, <3>1 DEF r, Tasks, Phases
  <2>2. CASE run' = [run EXCEPT ![w].phase = "next", ![w].failed = @ + 1]
    BY <1>0, <2>2 DEF r, Tasks, Phases
  <2>3. run' \in [Workers -> Tasks]
    BY <1>9, <2>1, <2>2 DEF Absorb
  <2> QED BY <1>2, <1>4, <1>9, <2>3 DEF Absorb
<1>10. CASE EndOfList(w)
  <2>1. run' \in [Workers -> Tasks]
    BY <1>0, <1>10 DEF EndOfList, r, Tasks, Phases, Kinds
  <2> QED BY <1>2, <1>3, <1>10, <2>1 DEF EndOfList
<1>11. CASE Return(w)
  <2>0. NextRound(r) \in Tasks
    BY <1>0, NextRoundIsTask
  <2>1. run' \in [Workers -> Tasks]
    BY <1>0, <1>11, <2>0, NoTaskIsTask DEF Return, r
  <2> QED BY <1>2, <1>3, <1>11, <2>1 DEF Return
<1>12. CASE Tick(w)
  <2>1. run' \in [Workers -> Tasks]
    BY <1>0, <1>12 DEF Tick, r, Tasks, Phases, Kinds
  <2> QED BY <1>2, <1>3, <1>12, <2>1 DEF Tick
<1>13. CASE SubscribeUpsert(w)
  <2>1. PICK d \in Docs : BeginIngest(w, d, TenantOf[r.binding], Target[r.binding])
    BY <1>13 DEF SubscribeUpsert, r
  <2>2. run' \in [Workers -> Tasks]
    BY <1>0, <1>13 DEF SubscribeUpsert, r, Tasks, Phases, Kinds
  <2>3. IngestTypeOK'
    BY <1>0, <1>13, <2>1, BeginIngestType DEF SubscribeUpsert
  <2> QED BY <1>2, <1>13, <2>2, <2>3 DEF SubscribeUpsert
<1>14. CASE SubscribeAbsorb(w)
  <2>1. run' \in [Workers -> Tasks]
    BY <1>0, <1>14 DEF SubscribeAbsorb, r, Tasks, Phases, Kinds
  <2> QED BY <1>2, <1>4, <1>14, <2>1 DEF SubscribeAbsorb
<1>15. CASE StreamEnds(w)
  <2>1. run' \in [Workers -> Tasks]
    BY <1>15, NoTaskIsTask DEF StreamEnds
  <2> QED BY <1>2, <1>3, <1>15, <2>1 DEF StreamEnds
<1> QED
  BY <1>1, <1>5, <1>6, <1>7, <1>8, <1>9, <1>10, <1>11, <1>12, <1>13, <1>14, <1>15
     DEF TaskStep

LEMMA EnvironmentType == TypeOK /\ Environment => TypeOK'
<1> SUFFICES ASSUME TypeOK, Environment PROVE TypeOK'
  OBVIOUS
<1> USE DEF TypeOK
<1>1. ASSUME UNCHANGED ingestVars
      PROVE  IngestTypeOK'
  BY <1>1 DEF ingestVars, IngestTypeOK
<1>2. ASSUME NEW W, Abandon(W),
             UNCHANGED <<backend, rows, chunks, created, ensured, nextRec>>
      PROVE  IngestTypeOK'
  BY <1>2, AbandonKeepsJobs DEF IngestTypeOK
<1>3. ASSUME NEW b \in Bindings, Register(b) \/ Deregister(b) \/ SkipSubscribe(b)
      PROVE  TypeOK'
  BY <1>1, <1>3 DEF Register, Deregister, SkipSubscribe
<1>4. ASSUME NEW w \in Workers, DropRequest(w) \/ Cancel(w)
      PROVE  TypeOK'
  BY <1>2, <1>4, NoTaskIsTask DEF DropRequest, Cancel
<1>5. ASSUME NEW w \in Workers, NEW b \in Bindings,
             RequestSync(w, b) \/ SpawnPoll(w, b) \/ SpawnSubscribe(w, b)
      PROVE  TypeOK'
  <2>1. /\ Fresh("request", b, "lookup") \in Tasks
        /\ Fresh("poll", b, "tick") \in Tasks
        /\ Fresh("subscribe", b, "next") \in Tasks
    BY FreshIsTask DEF Modes, Phases
  <2> QED BY <1>1, <1>5, <2>1 DEF RequestSync, SpawnPoll, SpawnSubscribe, Spawn
<1>6. CASE StartBackground \/ Started
  <2> DEFINE Start == [poll : SUBSET Bindings, push : SUBSET Bindings, held : BOOLEAN]
  <2>1. [poll |-> registered \cap Polled, push |-> registered \cap Pushing, held |-> TRUE] \in Start
    OBVIOUS
  <2>2. NotStarting \in Start
    BY DEF NotStarting
  <2>3. starting' \in Start
    BY <1>6, <2>1, <2>2 DEF StartBackground, Started
  <2>4. IngestTypeOK' /\ UNCHANGED <<registered, run, handles>>
    BY <1>1, <1>6 DEF StartBackground, Started
  <2> QED BY <2>3, <2>4
<1>7. CASE Shutdown
  <2>1. PICK polled \in SUBSET Workers, gone \in SUBSET Workers :
           /\ run' = [w \in Workers |-> IF w \in polled THEN [run[w] EXCEPT !.life = "aborted"]
                                       ELSE IF w \in gone THEN NoTask ELSE run[w]]
           /\ Abandon(gone \ polled)
    BY <1>7 DEF Shutdown, AbortAll
  <2>2. \A w \in Workers : [run[w] EXCEPT !.life = "aborted"] \in Tasks
    BY DEF Tasks, Lives
  <2>3. run' \in [Workers -> Tasks]
    BY <2>1, <2>2, NoTaskIsTask
  <2> QED BY <1>2, <1>7, <2>1, <2>3 DEF Shutdown, AbortAll
<1>8. CASE Crash
  <2>1. job' \in [Workers -> Jobs]
    BY <1>8, AbandonKeepsJobs DEF Crash, IngestTypeOK
  <2>2. IngestTypeOK'
    BY <1>8, <2>1 DEF Crash, StoresAfterRestart, IngestTypeOK
  <2> QED BY <1>8, <2>2, NoTaskIsTask DEF Crash, NotStarting
<1> QED BY <1>3, <1>4, <1>5, <1>6, <1>7, <1>8 DEF Environment

LEMMA TypeInductive == TypeOK /\ [Next]_vars => TypeOK'
<1>1. CASE UNCHANGED vars
  BY <1>1 DEF vars, TypeOK, IngestTypeOK
<1> QED BY <1>1, TaskStepType, EnvironmentType DEF Next

(***************************************************************************)
(* Every state of the runtime is well typed; in particular no counter of   *)
(* a SyncOutcome underflows.                                               *)
(***************************************************************************)
THEOREM TypeCorrect == Spec => []TypeOK
BY InitType, TypeInductive, PTL DEF Spec

-----------------------------------------------------------------------------
(* ChunkHasRow and WholeDocument.                                          *)

StoreInv == RowFirst /\ Distinct /\ ChunkHasRow /\ WholeDocument

\* Every step moves the pipeline of one worker, begins a call, abandons calls,
\* or leaves the pipelines alone; only the first kind writes to a store, and a
\* crash at most empties the index.
LEMMA StepShapes ==
    ASSUME TypeOK, Next
    PROVE  \/ \E w \in Workers : IngestStep(w)
           \/ /\ \E w \in Workers, d \in Docs, t \in Tenants, s \in Schemas : BeginIngest(w, d, t, s)
              /\ UNCHANGED <<rows, chunks>>
           \/ /\ \E W \in SUBSET Workers : Abandon(W)
              /\ UNCHANGED <<rows, nextRec>>
              /\ chunks' = chunks \/ chunks' = [s \in Schemas |-> {}]
           \/ UNCHANGED <<rows, chunks, job, nextRec>>
<1>1. ASSUME NEW w \in Workers, TaskStep(w)
      PROVE  \/ IngestStep(w)
             \/ /\ \E d \in Docs, t \in Tenants, s \in Schemas : BeginIngest(w, d, t, s)
                /\ UNCHANGED <<rows, chunks>>
             \/ Abandon({w}) /\ UNCHANGED <<rows, chunks, nextRec>>
             \/ UNCHANGED <<rows, chunks, job, nextRec>>
  <2>1. /\ run[w].binding \in Bindings
        /\ run[w].pending \subseteq Docs
    BY DEF TypeOK, Tasks
  <2>2. TenantOf[run[w].binding] \in Tenants /\ Target[run[w].binding] \in Schemas
    BY <2>1, RuntimeAssumption
  <2>3. CASE NextResource(w) \/ SubscribeUpsert(w)
    BY <2>1, <2>2, <2>3 DEF NextResource, SubscribeUpsert
  <2>4. CASE Absorb(w) \/ SubscribeAbsorb(w)
    BY <2>4 DEF Absorb, SubscribeAbsorb
  <2>5. CASE Pipeline(w)
    BY <2>5 DEF Pipeline
  <2>6. CASE \/ Lookup(w) \/ List(w) \/ ListFails(w) \/ EndOfList(w)
             \/ Return(w) \/ Tick(w) \/ StreamEnds(w)
    BY <2>6 DEF Lookup, List, ListFails, EndOfList, Return, Tick, StreamEnds, ingestVars
  <2> QED BY <1>1, <2>3, <2>4, <2>5, <2>6 DEF TaskStep
<1>2. CASE \/ \E b \in Bindings : Register(b) \/ Deregister(b) \/ SkipSubscribe(b)
           \/ \E w \in Workers, b \in Bindings :
                 RequestSync(w, b) \/ SpawnPoll(w, b) \/ SpawnSubscribe(w, b)
           \/ StartBackground \/ Started
  BY <1>2 DEF Register, Deregister, SkipSubscribe, RequestSync, SpawnPoll, SpawnSubscribe,
              StartBackground, Started, ingestVars
<1>3. ASSUME NEW w \in Workers, DropRequest(w) \/ Cancel(w)
      PROVE  Abandon({w}) /\ UNCHANGED <<rows, chunks, nextRec>>
  BY <1>3 DEF DropRequest, Cancel
<1>4. CASE Shutdown
  <2>1. {w \in handles : run[w].mode \in Background} \in SUBSET Workers
    BY DEF TypeOK
  <2> QED BY <1>4, <2>1 DEF Shutdown, AbortAll
<1>5. CASE Crash
  BY <1>5 DEF Crash, StoresAfterRestart
<1>6. ASSUME NEW w \in Workers PROVE {w} \in SUBSET Workers
  OBVIOUS
<1> QED BY <1>1, <1>2, <1>3, <1>4, <1>5, <1>6 DEF Next, Environment

LEMMA BeginKeepsStores ==
    ASSUME TypeOK, StoreInv, NEW w \in Workers, NEW d \in Docs, NEW t \in Tenants,
           NEW s \in Schemas, BeginIngest(w, d, t, s), UNCHANGED <<rows, chunks>>
    PROVE  StoreInv'
<1> USE DEF TypeOK, IngestTypeOK, Jobs, Steps, Rows
<1>1. \A v \in Workers : v # w => job'[v] = job[v]
  BY DEF BeginIngest
<1>2. /\ job'[w].pc = "row" /\ job'[w].rec = nextRec
      /\ nextRec' = nextRec + 1
  BY DEF BeginIngest
<1>3. RowFirst'
  BY <1>1, <1>2 DEF StoreInv, RowFirst, PastRow, RowOf
<1>4. Distinct'
  BY <1>1, <1>2 DEF StoreInv, Distinct
<1>5. ChunkHasRow' /\ WholeDocument'
  BY DEF StoreInv, ChunkHasRow, WholeDocument, ChunksOf
<1> QED BY <1>3, <1>4, <1>5 DEF StoreInv

LEMMA AbandonKeepsStores ==
    ASSUME TypeOK, StoreInv, NEW W \in SUBSET Workers, Abandon(W), UNCHANGED <<rows, nextRec>>,
           chunks' = chunks \/ chunks' = [s \in Schemas |-> {}]
    PROVE  StoreInv'
<1>1. \A v \in Workers : job'[v] = job[v] \/ job'[v].pc = "idle"
  BY DEF Abandon, NoJob
<1>2. RowFirst'
  BY <1>1 DEF StoreInv, RowFirst, PastRow, RowOf
<1>3. Distinct'
  BY <1>1 DEF StoreInv, Distinct
<1>4. ChunkHasRow' /\ WholeDocument'
  <2>1. CASE chunks' = chunks
    BY <2>1 DEF StoreInv, ChunkHasRow, WholeDocument, ChunksOf
  <2>2. CASE chunks' = [s \in Schemas |-> {}]
    BY <2>2 DEF ChunkHasRow, WholeDocument
  <2> QED BY <2>1, <2>2
<1> QED BY <1>2, <1>3, <1>4 DEF StoreInv

\* What a step of the pipeline does to the stores: it may add the row of its
\* call, empty a collection or add the chunks of its call, whose row is there.
LEMMA PipelineShapes ==
    ASSUME TypeOK, StoreInv, NEW w \in Workers, IngestStep(w)
    PROVE  /\ nextRec' = nextRec
           /\ \E pc \in Steps \ {"idle", "row"} :
                 /\ job' = [job EXCEPT ![w].pc = pc]
                 /\ pc \in PastRow => RowOf(job[w]) \in rows'
           /\ \/ rows' = rows
              \/ At(w, "row") /\ rows' = rows \cup {RowOf(job[w])}
           /\ \/ chunks' = chunks
              \/ chunks' = [chunks EXCEPT ![job[w].schema] = {}]
              \/ /\ At(w, "write")
                 /\ chunks' = [chunks EXCEPT ![job[w].schema] = @ \cup ChunksOf(job[w])]
<1> USE DEF At, Goto, Steps, PastRow
<1>0. At(w, "row") => \A r \in rows : r.rec # job[w].rec
  BY DEF StoreInv, Distinct
<1>1. job[w].pc \in PastRow => RowOf(job[w]) \in rows
  BY DEF StoreInv, RowFirst
<1>2. CASE UpsertRow(w)
  <2>1. rows' = rows \cup {RowOf(job[w])}
    BY <1>0, <1>2 DEF UpsertRow
  <2>2. job' = [job EXCEPT ![w].pc = "ok"] \/ job' = [job EXCEPT ![w].pc = "ensure"]
    BY <1>2 DEF UpsertRow
  <2> QED BY <1>2, <2>1, <2>2 DEF UpsertRow
<1>3. CASE UpsertRowFails(w)
  <2>1. job' = [job EXCEPT ![w].pc = "err"]
    BY <1>3 DEF UpsertRowFails
  <2>2. "err" \in Steps \ {"idle", "row"} /\ "err" \notin PastRow
    OBVIOUS
  <2>3. rows' = rows \/ rows' = rows \cup {RowOf(job[w])}
    BY <1>3 DEF UpsertRowFails
  <2> HIDE DEF Steps, PastRow
  <2> QED BY <1>3, <2>1, <2>2, <2>3 DEF UpsertRowFails
<1>4. CASE EnsureMemo(w)
  <2>1. job' = [job EXCEPT ![w].pc = "embed"] \/ job' = [job EXCEPT ![w].pc = "look"]
    BY <1>4 DEF EnsureMemo
  <2> QED BY <1>1, <1>4, <2>1 DEF EnsureMemo
<1>5. CASE EnsureLook(w)
  <2>1. job' = [job EXCEPT ![w].pc = "embed"] \/ job' = [job EXCEPT ![w].pc = "create"]
    BY <1>5 DEF EnsureLook
  <2> QED BY <1>1, <1>5, <2>1 DEF EnsureLook
<1>6. CASE EnsureCreate(w)
  BY <1>1, <1>6 DEF EnsureCreate
<1>7. CASE EnsureFails(w)
  BY <1>1, <1>7 DEF EnsureFails
<1>8. CASE Embed(w) \/ EmbedFails(w)
  BY <1>1, <1>8 DEF Embed, EmbedFails
<1>9. CASE WriteChunks(w) \/ WriteChunksFails(w)
  BY <1>1, <1>9 DEF WriteChunks, WriteChunksFails
<1> QED BY <1>2, <1>3, <1>4, <1>5, <1>6, <1>7, <1>8, <1>9 DEF IngestStep

LEMMA PipelineKeepsStores ==
    ASSUME TypeOK, StoreInv, NEW w \in Workers, IngestStep(w)
    PROVE  StoreInv'
<1>1. PICK pc \in Steps \ {"idle", "row"} :
        /\ job' = [job EXCEPT ![w].pc = pc]
        /\ pc \in PastRow => RowOf(job[w]) \in rows'
  BY PipelineShapes
<1>2. rows \subseteq rows'
  BY PipelineShapes
<1>3. job[w] \in Jobs /\ job \in [Workers -> Jobs]
  BY DEF TypeOK, IngestTypeOK
<1>4. /\ \A v \in Workers : v # w => job'[v] = job[v]
      /\ job'[w] = [job[w] EXCEPT !.pc = pc]
      /\ job'[w].pc = pc /\ job'[w].rec = job[w].rec
      /\ RowOf(job'[w]) = RowOf(job[w])
  BY <1>1, <1>3 DEF Jobs, RowOf
<1>5. job[w].pc # "idle"
  BY DEF IngestStep, UpsertRow, UpsertRowFails, EnsureMemo, EnsureLook, EnsureCreate,
         EnsureFails, Embed, EmbedFails, WriteChunks, WriteChunksFails, At
<1>6. RowFirst'
  <2>1. \A v \in Workers : v # w /\ job'[v].pc \in PastRow => RowOf(job'[v]) \in rows'
    BY <1>2, <1>4 DEF StoreInv, RowFirst
  <2> QED BY <1>1, <1>4, <2>1 DEF RowFirst, PastRow, RowOf
<1>7. Distinct'
  <2>1. nextRec' = nextRec
    BY PipelineShapes
  <2>2. RowOf(job[w]).rec = job[w].rec /\ job[w].rec < nextRec
    BY <1>5 DEF RowOf, StoreInv, Distinct
  <2>3. \A r \in rows' : r.rec < nextRec'
    BY <2>1, <2>2, PipelineShapes DEF StoreInv, Distinct
  <2>4. \A v \in Workers : job'[v].pc # "idle" =>
           job[v].pc # "idle" /\ job'[v].rec = job[v].rec
    BY <1>4, <1>5
  <2>5. ASSUME NEW v \in Workers, job'[v].pc = "row", NEW r \in rows'
        PROVE  r.rec # job'[v].rec
    <3>1. v # w /\ job'[v] = job[v]
      BY <1>4, <2>5
    <3>2. job[w].rec # job[v].rec
      BY <1>5, <2>5, <3>1 DEF StoreInv, Distinct
    <3>3. r \in rows \/ r = RowOf(job[w])
      BY PipelineShapes
    <3> QED BY <2>2, <2>5, <3>1, <3>2, <3>3 DEF StoreInv, Distinct
  <2> QED BY <2>1, <2>3, <2>4, <2>5 DEF StoreInv, Distinct
<1>8. ChunkHasRow' /\ WholeDocument'
  <2> DEFINE s0 == job[w].schema
  <2>0. s0 \in Schemas /\ chunks \in [Schemas -> SUBSET Chunks]
    BY <1>3 DEF Jobs, TypeOK, IngestTypeOK
  <2>1. CASE chunks' = chunks \/ chunks' = [chunks EXCEPT ![s0] = {}]
    <3>1. \A s \in Schemas : chunks'[s] = chunks[s] \/ chunks'[s] = {}
      BY <2>0, <2>1
    <3> QED BY <1>2, <3>1 DEF StoreInv, ChunkHasRow, WholeDocument, ChunksOf
  <2>2. CASE At(w, "write") /\ chunks' = [chunks EXCEPT ![s0] = @ \cup ChunksOf(job[w])]
    <3>1. RowOf(job[w]) \in rows'
      BY <1>2, <2>2 DEF StoreInv, RowFirst, PastRow, At
    <3>2. \A s \in Schemas : chunks[s] \subseteq chunks'[s]
      BY <2>0, <2>2
    <3>3. ChunksOf(job[w]) \subseteq chunks'[s0]
      BY <2>0, <2>2
    <3>4. \A s \in Schemas : \A c \in chunks'[s] :
             c \in chunks[s] \/ (s = s0 /\ c \in ChunksOf(job[w]))
      BY <2>0, <2>2
    <3>5. \A c \in ChunksOf(job[w]) :
             /\ c.rec = job[w].rec /\ c.tenant = job[w].tenant
             /\ c.seq < ChunkCount[job[w].doc]
      BY <1>3, IngestorAssumption DEF ChunksOf, Jobs
    <3>6. ChunksOf(RowOf(job[w])) = ChunksOf(job[w])
      BY DEF ChunksOf, RowOf
    <3>7. ChunkHasRow'
      BY <1>2, <3>1, <3>4, <3>5 DEF StoreInv, ChunkHasRow, RowOf
    <3>8. WholeDocument'
      <4>1. SUFFICES ASSUME NEW s \in Schemas, NEW c \in chunks'[s]
            PROVE  \E r \in rows' : /\ r.rec = c.rec
                                    /\ r.schema = s
                                    /\ ChunksOf(r) \subseteq chunks'[s]
        BY DEF WholeDocument, ChunksOf
      <4>2. CASE c \in chunks[s]
        BY <1>2, <3>2, <4>2 DEF StoreInv, WholeDocument
      <4>3. CASE s = s0 /\ c \in ChunksOf(job[w])
        BY <3>1, <3>3, <3>5, <3>6, <4>3 DEF RowOf
      <4> QED BY <3>4, <4>2, <4>3
    <3> QED BY <3>7, <3>8
  <2> QED BY <2>1, <2>2, PipelineShapes
<1> QED BY <1>6, <1>7, <1>8 DEF StoreInv

LEMMA StoreInductive ==
    /\ Init => StoreInv
    /\ TypeOK /\ StoreInv /\ [Next]_vars => StoreInv'
<1>1. Init => StoreInv
  BY DEF Init, IngestInit, NoJob, StoreInv, RowFirst, Distinct, PastRow, ChunkHasRow, WholeDocument
<1>2. ASSUME TypeOK, StoreInv, UNCHANGED <<rows, chunks, job, nextRec>>
      PROVE  StoreInv'
  BY <1>2 DEF StoreInv, RowFirst, Distinct, ChunkHasRow, WholeDocument, ChunksOf, RowOf
<1>3. ASSUME TypeOK, StoreInv, Next
      PROVE  StoreInv'
  BY <1>2, <1>3, StepShapes, PipelineKeepsStores, BeginKeepsStores, AbandonKeepsStores
<1> QED BY <1>1, <1>2, <1>3 DEF vars

(***************************************************************************)
(* A chunk in the index always leads back to a row of its tenant in the    *)
(* table of its schema, however many workers, crashes, lost answers and    *)
(* dropped requests there are.                                             *)
(***************************************************************************)
THEOREM EveryChunkHasRow == Spec => []ChunkHasRow
<1>1. TypeOK /\ StoreInv /\ [Next]_vars => StoreInv' /\ TypeOK'
  BY StoreInductive, TypeInductive
<1> QED BY <1>1, InitType, StoreInductive, PTL DEF Spec, StoreInv

(***************************************************************************)
(* A document is never in the index in part.                               *)
(***************************************************************************)
THEOREM DocumentsAreWhole == Spec => []WholeDocument
<1>1. TypeOK /\ StoreInv /\ [Next]_vars => StoreInv' /\ TypeOK'
  BY StoreInductive, TypeInductive
<1> QED BY <1>1, InitType, StoreInductive, PTL DEF Spec, StoreInv

-----------------------------------------------------------------------------
(* ShutdownIsFinal.                                                        *)

\* background_tasks holds the handle of every loop that was not aborted, and
\* what is left to spawn is spawned under the lock.
HandlesKept ==
    \A w \in Workers :
        run[w].mode \in Background => w \in handles \/ run[w].life = "aborted"

\* What one step does to the task of one slot: it ends, or a request takes the
\* slot; or a loop is there whose handle is kept; or the loop that was there is
\* aborted; or it goes on as the task it was, its handle where it was.
Ends(w) ==
    /\ run'[w].mode \notin Background /\ run'[w].life # "aborted"
    /\ run[w].life = "aborted" => run'[w].mode = "free"
Spawned(w) == run[w].life # "aborted" /\ run'[w].life # "aborted" /\ w \in handles'
Aborted(w) ==
    run[w].mode \in Background /\ run'[w].mode = run[w].mode /\ run'[w].life = "aborted"
GoesOn(w) ==
    /\ run'[w].mode = run[w].mode /\ run'[w].life = run[w].life
    /\ w \in handles => w \in handles'

Followed(w) == Ends(w) \/ Spawned(w) \/ Aborted(w) \/ GoesOn(w)

\* shutdown aborts background loops and nothing else.
OnlyLoopsAborted ==
    \A w \in Workers : run[w].life = "aborted" => run[w].mode \in Background

LEMMA TaskStepFollows ==
    ASSUME TypeOK, NEW w \in Workers, TaskStep(w)
    PROVE  handles' = handles /\ \A v \in Workers : Followed(v)
<1> USE DEF Background, Followed, Ends, Spawned, Aborted, GoesOn
<1>0. run \in [Workers -> Tasks] /\ run[w] \in Tasks
  BY DEF TypeOK
<1>1. handles' = handles /\ \A v \in Workers : v # w => run'[v] = run[v]
  BY <1>0 DEF TaskStep, Pipeline, Lookup, List, ListFails, NextResource, Absorb, EndOfList,
     Return, Tick, SubscribeUpsert, SubscribeAbsorb, StreamEnds, runtimeVars
<1>2. ASSUME run'[w].mode = run[w].mode, run'[w].life = run[w].life
      PROVE  \A v \in Workers : Followed(v)
  BY <1>1, <1>2
<1>3. CASE Pipeline(w) \/ Lookup(w) \/ List(w) \/ ListFails(w)
  <2>1. run'[w].mode = run[w].mode /\ run'[w].life = run[w].life
    BY <1>0, <1>3 DEF Pipeline, Lookup, List, ListFails, runtimeVars, Tasks
  <2> QED BY <1>1, <1>2, <2>1
<1>4. CASE NextResource(w)
  <2>1. run'[w].mode = run[w].mode /\ run'[w].life = run[w].life
    BY <1>0, <1>4 DEF NextResource, Tasks
  <2> QED BY <1>1, <1>2, <2>1
<1>5. CASE Absorb(w)
  <2>1. run'[w].mode = run[w].mode /\ run'[w].life = run[w].life
    BY <1>0, <1>5 DEF Absorb, Tasks
  <2> QED BY <1>1, <1>2, <2>1
<1>6. CASE EndOfList(w) \/ Tick(w) \/ SubscribeUpsert(w) \/ SubscribeAbsorb(w)
  <2>1. run'[w].mode = run[w].mode /\ run'[w].life = run[w].life
    BY <1>0, <1>6 DEF EndOfList, Tick, SubscribeUpsert, SubscribeAbsorb, Tasks
  <2> QED BY <1>1, <1>2, <2>1
<1>7. CASE Return(w) \/ StreamEnds(w)
  <2>1. \/ run'[w] = NoTask
        \/ run[w].mode = "poll" /\ run'[w] = NextRound(run[w])
    BY <1>0, <1>7 DEF Return, StreamEnds
  <2>2. \/ run'[w].mode = "free" /\ run'[w].life # "aborted"
        \/ run'[w].mode = run[w].mode /\ run'[w].life = run[w].life
    BY <1>0, <2>1, NextRoundIsTask DEF NoTask, Fresh
  <2> QED BY <1>1, <2>2
<1> QED BY <1>3, <1>4, <1>5, <1>6, <1>7 DEF TaskStep

LEMMA EnvironmentFollows ==
    ASSUME TypeOK, OnlyLoopsAborted, Environment
    PROVE  /\ \A v \in Workers : Followed(v)
           /\ (handles # {} /\ handles' = {}) => ~starting'.held
<1> USE DEF Background, Followed, Ends, Spawned, Aborted, GoesOn
<1>0. run \in [Workers -> Tasks] /\ \A v \in Workers : run[v] \in Tasks
  BY DEF TypeOK
<1>1. CASE \/ \E b \in Bindings : Register(b) \/ Deregister(b) \/ SkipSubscribe(b)
           \/ StartBackground \/ Started
  <2>1. run' = run /\ handles' = handles
    BY <1>1 DEF Register, Deregister, SkipSubscribe, StartBackground, Started
  <2> QED BY <2>1
<1>2. ASSUME NEW w \in Workers, NEW b \in Bindings,
             RequestSync(w, b) \/ SpawnPoll(w, b) \/ SpawnSubscribe(w, b)
      PROVE  (\A v \in Workers : Followed(v)) /\ (handles' = {} => handles = {})
  <2>1. /\ run[w].mode = "free" /\ run[w].life # "aborted"
        /\ \A v \in Workers : v # w => run'[v] = run[v]
        /\ handles \subseteq handles'
    BY <1>0, <1>2 DEF RequestSync, SpawnPoll, SpawnSubscribe, Spawn, OnlyLoopsAborted
  <2>2. (run'[w].mode = "request" \/ w \in handles') /\ run'[w].life # "aborted"
    BY <1>0, <1>2 DEF RequestSync, SpawnPoll, SpawnSubscribe, Spawn, Fresh
  <2> QED BY <2>1, <2>2
<1>3. ASSUME NEW w \in Workers, DropRequest(w) \/ Cancel(w)
      PROVE  (\A v \in Workers : Followed(v)) /\ handles' = handles
  <2>1. /\ run'[w] = NoTask /\ handles' = handles
        /\ \A v \in Workers : v # w => run'[v] = run[v]
    BY <1>0, <1>3 DEF DropRequest, Cancel
  <2> QED BY <2>1 DEF NoTask, Fresh
<1>4. CASE Shutdown
  <2>1. PICK polled \in SUBSET {w \in handles : run[w].mode \in Background} :
           run' = [w \in Workers |-> IF w \in polled THEN [run[w] EXCEPT !.life = "aborted"]
                                   ELSE IF w \in {v \in handles : run[v].mode \in Background}
                                        THEN NoTask ELSE run[w]]
    BY <1>4 DEF Shutdown, AbortAll
  <2>2. ASSUME NEW v \in Workers PROVE Followed(v)
    <3>1. CASE v \in polled
      <4>1. run'[v] = [run[v] EXCEPT !.life = "aborted"]
        BY <2>1, <3>1
      <4>2. run'[v].life = "aborted" /\ run'[v].mode = run[v].mode
        BY <1>0, <4>1 DEF Tasks
      <4> QED BY <3>1, <4>2
    <3>2. CASE v \notin polled /\ v \in handles /\ run[v].mode \in Background
      BY <2>1, <3>2 DEF NoTask, Fresh
    <3>3. CASE v \notin polled /\ ~(v \in handles /\ run[v].mode \in Background)
      BY <2>1, <3>3 DEF OnlyLoopsAborted
    <3> QED BY <3>1, <3>2, <3>3
  <2> QED BY <1>4, <2>2 DEF Shutdown, AbortAll
<1>5. CASE Crash
  BY <1>5 DEF Crash, NoTask, Fresh, NotStarting
<1> QED BY <1>1, <1>2, <1>3, <1>4, <1>5 DEF Environment

LEMMA HandlesInductive ==
    ASSUME TypeOK, HandlesKept, OnlyLoopsAborted, Next
    PROVE  /\ HandlesKept' /\ OnlyLoopsAborted'
           /\ \A w \in Workers : Followed(w)
           /\ (handles # {} /\ handles' = {}) => ~starting'.held
<1>1. \A w \in Workers : Followed(w)
  BY TaskStepFollows, EnvironmentFollows DEF Next
<1>2. HandlesKept' /\ OnlyLoopsAborted'
  BY <1>1 DEF Followed, Ends, Spawned, Aborted, GoesOn, HandlesKept, OnlyLoopsAborted
<1>3. (handles # {} /\ handles' = {}) => ~starting'.held
  BY TaskStepFollows, EnvironmentFollows DEF Next
<1> QED BY <1>1, <1>2, <1>3

(***************************************************************************)
(* shutdown (or a crash) reaches every loop, for any number of loops,      *)
(* bindings and calls of start_background: what is left when it returns is *)
(* aborted, none is about to be spawned, and an aborted loop never becomes *)
(* a kept one.                                                             *)
(***************************************************************************)
THEOREM ShutdownReachesEveryLoop == Spec => ShutdownIsFinal
<1> DEFINE Final ==
        /\ handles # {} /\ handles' = {} =>
              /\ \A w \in Workers : run'[w].mode \in Background => run'[w].life = "aborted"
              /\ ~starting'.held
        /\ \A w \in Workers :
              run[w].life = "aborted" => run'[w].life = "aborted" \/ run'[w].mode = "free"
<1>1. Init => HandlesKept /\ OnlyLoopsAborted
  BY DEF Init, HandlesKept, OnlyLoopsAborted, NoTask, Fresh, Background
<1>2. TypeOK /\ HandlesKept /\ OnlyLoopsAborted /\ [Next]_vars => (HandlesKept /\ OnlyLoopsAborted)'
  BY HandlesInductive DEF HandlesKept, OnlyLoopsAborted, vars
<1>3. TypeOK /\ HandlesKept /\ OnlyLoopsAborted /\ [Next]_vars => [Final]_vars
  <2>1. SUFFICES ASSUME TypeOK, HandlesKept, OnlyLoopsAborted, Next PROVE Final
    OBVIOUS
  <2>2. ASSUME handles # {}, handles' = {}
        PROVE  /\ \A w \in Workers : run'[w].mode \in Background => run'[w].life = "aborted"
               /\ ~starting'.held
    BY <2>1, <2>2, HandlesInductive DEF HandlesKept
  <2>3. \A w \in Workers :
           run[w].life = "aborted" => run'[w].life = "aborted" \/ run'[w].mode = "free"
    BY <2>1, HandlesInductive DEF Followed, Ends, Spawned, Aborted, GoesOn
  <2> QED BY <2>2, <2>3
<1> QED BY <1>1, <1>2, <1>3, InitType, TypeInductive, PTL DEF Spec, ShutdownIsFinal

-----------------------------------------------------------------------------
(* SyncAccounting and CompletedCoversList.                                 *)
(*                                                                         *)
(* The counters of one sync speak of its own records only, so the proof    *)
(* says which records those are (Claims: no call under way has one), what  *)
(* the stores hold of a call before it is absorbed (JobStores), and that   *)
(* a call is about a resource that its sync has taken off the list and not *)
(* accounted for yet (Busy, Books).                                        *)

\* A worker is in a call exactly while its loop waits for one, a free worker is
\* in none, and a sync's call is about a resource taken off the list of that sync.
Busy ==
    \A w \in Workers :
        /\ job[w].pc # "idle" <=> run[w].phase = "ingest"
        /\ run[w].mode = "free" => job[w].pc = "idle"
        /\ (Syncing(w) /\ run[w].phase = "ingest") =>
              /\ job[w].doc \in run[w].listed \ run[w].pending
              /\ job[w].schema = Target[run[w].binding]

\* The records a sync was told of are those of no call under way, and no later
\* call gets one of their ids.
Claims ==
    \A w \in Workers :
        /\ \A n \in run[w].recs : n < nextRec
        /\ \A v \in Workers : job[v].pc # "idle" => job[v].rec \notin run[w].recs

BeforeWrite == {"row"} \cup PastRow
OfRec(C, n) == {c \in C : c.rec = n}

\* What the stores hold of a call under way: no other row of its record id, no
\* chunk of it before it writes, and all of it once it has succeeded.  Qdrant
\* holds chunks only in collections that exist.
JobRows ==
    \A w \in Workers :
        /\ job[w].pc # "idle" => \A x \in rows : x.rec = job[w].rec => x = RowOf(job[w])
        /\ job[w].pc = "ok" => RowOf(job[w]) \in rows
JobChunks ==
    \A w \in Workers :
        /\ job[w].pc \in BeforeWrite => \A s \in Schemas : OfRec(chunks[s], job[w].rec) = {}
        /\ (job[w].pc = "ok" /\ backend = "qdrant") =>
              OfRec(chunks[job[w].schema], job[w].rec) = ChunksOf(job[w])
Collections == backend = "qdrant" => \A s \in Schemas \ created : chunks[s] = {}

JobStores == JobRows /\ JobChunks /\ Collections

\* The counters of a sync among themselves.
Counted(r) ==
    /\ IsFiniteSet(r.listed) /\ r.pending \subseteq r.listed /\ IsFiniteSet(r.recs)
    /\ r.seen = r.ingested + r.failed + (IF r.phase = "ingest" THEN 1 ELSE 0)
    /\ r.seen + Cardinality(r.pending) = Cardinality(r.listed)
    /\ r.ingested = Cardinality(r.recs)
    /\ r.phase = "done" /\ r.kind = "completed" => r.pending = {}

\* A sync that has not listed yet has counted nothing.
Blank(r) ==
    r.phase \in {"tick", "lookup", "list"} =>
        /\ r.listed = {} /\ r.pending = {} /\ r.recs = {}
        /\ r.seen = 0 /\ r.ingested = 0 /\ r.failed = 0 /\ r.chunks = 0

\* The rows and the chunks of the records a sync was told of, in the stores R
\* and C.
Mine(r, R) == {x \in R : x.rec \in r.recs /\ x.schema = Target[r.binding]}
MyDocs(r, R) == {x.doc : x \in Mine(r, R)}
MyChunks(r, C) == {c \in C[Target[r.binding]] : c.rec \in r.recs}

RowsKept(r, R) ==
    /\ IsFiniteSet(Mine(r, R)) /\ Cardinality(Mine(r, R)) = r.ingested
    /\ IsFiniteSet(MyDocs(r, R)) /\ Cardinality(MyDocs(r, R)) = r.ingested
    /\ MyDocs(r, R) \subseteq r.listed \ r.pending
ChunksKept(r, C) ==
    IsFiniteSet(MyChunks(r, C)) /\ r.chunks = Cardinality(MyChunks(r, C))

Booked(r, R, C, b) ==
    /\ Counted(r) /\ Blank(r) /\ RowsKept(r, R)
    /\ b = "qdrant" => ChunksKept(r, C)

Books ==
    \A w \in Workers : Syncing(w) =>
        /\ Booked(run[w], rows, chunks, backend)
        /\ run[w].phase = "ingest" => job[w].doc \notin MyDocs(run[w], rows)

BooksInv == Busy /\ Claims /\ JobStores /\ Books

-----------------------------------------------------------------------------
\* A body of n pieces makes n chunks.
LEMMA ChunksOfCount ==
    ASSUME NEW j \in Jobs
    PROVE  IsFiniteSet(ChunksOf(j)) /\ Cardinality(ChunksOf(j)) = ChunkCount[j.doc]
<1> DEFINE n == ChunkCount[j.doc]
           f == [i \in 0..(n - 1) |-> [rec |-> j.rec, seq |-> i, tenant |-> j.tenant]]
<1>1. n \in Nat
  BY IngestorAssumption DEF Jobs
<1>2. IsFiniteSet(0..(n - 1)) /\ Cardinality(0..(n - 1)) = n
  <2>1. ASSUME NEW k \in Nat PROVE IsFiniteSet(0..(k - 1)) /\ Cardinality(0..(k - 1)) = k
    BY FS_Interval
  <2> QED BY <1>1, <2>1
<1>3. f \in Bijection(0..(n - 1), ChunksOf(j))
  <2>1. f \in [0..(n - 1) -> ChunksOf(j)]
    BY DEF ChunksOf
  <2>2. \A a, b \in 0..(n - 1) : f[a] = f[b] => a = b
    <3> SUFFICES ASSUME NEW a \in 0..(n - 1), NEW b \in 0..(n - 1), f[a] = f[b] PROVE a = b
      OBVIOUS
    <3>1. f[a].seq = a /\ f[b].seq = b
      OBVIOUS
    <3> QED BY <3>1
  <2>3. \A c \in ChunksOf(j) : \E i \in 0..(n - 1) : f[i] = c
    BY DEF ChunksOf
  <2> HIDE DEF f
  <2> QED BY <2>1, <2>2, <2>3 DEF Bijection, Injection, Surjection, IsInjective
<1>4. ExistsBijection(0..(n - 1), ChunksOf(j))
  BY <1>3 DEF ExistsBijection
<1> QED BY <1>2, <1>4, FS_Bijection

\* A sync that begins has an empty book.
LEMMA FreshBooked ==
    ASSUME NEW m \in Modes, NEW b \in Bindings, NEW p \in {"tick", "lookup"}, NEW R, NEW C, NEW k
    PROVE  Booked(Fresh(m, b, p), R, C, k)
<1> DEFINE r == Fresh(m, b, p)
<1>1. /\ r.listed = {} /\ r.pending = {} /\ r.recs = {} /\ r.phase = p
      /\ r.seen = 0 /\ r.ingested = 0 /\ r.failed = 0 /\ r.chunks = 0
  BY DEF Fresh
<1> HIDE DEF r
<1>2. Mine(r, R) = {} /\ MyDocs(r, R) = {} /\ MyChunks(r, C) = {}
  BY <1>1 DEF Mine, MyDocs, MyChunks
<1>3. Counted(r) /\ Blank(r)
  BY <1>1, FS_EmptySet DEF Counted, Blank
<1>4. RowsKept(r, R) /\ ChunksKept(r, C)
  BY <1>1, <1>2, FS_EmptySet DEF RowsKept, ChunksKept
<1> QED BY <1>3, <1>4 DEF Booked, r

\* The books look at the rows and chunks of a sync's own records only.
LEMMA BookedFrame ==
    ASSUME NEW r, NEW R, NEW C, NEW k, NEW R2, NEW C2, Booked(r, R, C, k),
           Mine(r, R2) = Mine(r, R),
           k = "qdrant" => MyChunks(r, C2) = MyChunks(r, C)
    PROVE  Booked(r, R2, C2, k) /\ MyDocs(r, R2) = MyDocs(r, R)
<1>1. MyDocs(r, R2) = MyDocs(r, R)
  BY DEF MyDocs
<1>2. Counted(r) /\ Blank(r) /\ RowsKept(r, R2)
  BY <1>1 DEF Booked, RowsKept
<1>3. k = "qdrant" => ChunksKept(r, C2)
  BY DEF Booked, ChunksKept
<1> QED BY <1>1, <1>2, <1>3 DEF Booked

\* Two tasks that differ in life alone have the same books.
SameTask(q, r) ==
    /\ q.mode = r.mode /\ q.binding = r.binding /\ q.phase = r.phase /\ q.kind = r.kind
    /\ q.listed = r.listed /\ q.pending = r.pending /\ q.recs = r.recs
    /\ q.seen = r.seen /\ q.ingested = r.ingested /\ q.failed = r.failed /\ q.chunks = r.chunks

LEMMA SameTaskBooked ==
    ASSUME NEW q, NEW r, NEW R, NEW C, NEW k, SameTask(q, r)
    PROVE  MyDocs(q, R) = MyDocs(r, R) /\ (Booked(r, R, C, k) => Booked(q, R, C, k))
<1> USE DEF SameTask
<1>1. Mine(q, R) = Mine(r, R) /\ MyDocs(q, R) = MyDocs(r, R) /\ MyChunks(q, C) = MyChunks(r, C)
  BY DEF Mine, MyDocs, MyChunks
<1>2. (Counted(r) => Counted(q)) /\ (Blank(r) => Blank(q))
  BY DEF Counted, Blank
<1>3. (RowsKept(r, R) => RowsKept(q, R)) /\ (ChunksKept(r, C) => ChunksKept(q, C))
  BY <1>1 DEF RowsKept, ChunksKept
<1> QED BY <1>1, <1>2, <1>3 DEF Booked

\* What absorbing a successful ingest does to the books of its sync.
LEMMA AbsorbBooked ==
    ASSUME NEW r \in Tasks, NEW R, NEW C \in [Schemas -> SUBSET Chunks], NEW k,
           NEW j \in Jobs, Booked(r, R, C, k), r.phase = "ingest",
           j.rec \notin r.recs, j.doc \in r.listed \ r.pending, j.doc \notin MyDocs(r, R),
           j.schema = Target[r.binding],
           RowOf(j) \in R, \A x \in R : x.rec = j.rec => x = RowOf(j),
           k = "qdrant" => OfRec(C[j.schema], j.rec) = ChunksOf(j),
           NEW q, q = [r EXCEPT !.phase = "next", !.ingested = @ + 1,
                                !.chunks = @ + ChunkCount[j.doc], !.recs = @ \cup {j.rec}]
    PROVE  Booked(q, R, C, k)
<1>1. /\ q.phase = "next" /\ q.ingested = r.ingested + 1 /\ q.recs = r.recs \cup {j.rec}
      /\ q.chunks = r.chunks + ChunkCount[j.doc] /\ q.binding = r.binding
      /\ q.listed = r.listed /\ q.pending = r.pending /\ q.seen = r.seen /\ q.failed = r.failed
  BY DEF Tasks
<1>2. /\ r.ingested \in Nat /\ r.failed \in Nat /\ r.seen \in Nat /\ r.chunks \in Nat
  BY DEF Tasks
<1> HIDE DEF Tasks
<1>3. Counted(q)
  <2>1. Counted(r)
    BY DEF Booked
  <2>2. IsFiniteSet(q.recs) /\ Cardinality(q.recs) = Cardinality(r.recs) + 1
    <3>1. IsFiniteSet(r.recs)
      BY <2>1 DEF Counted
    <3>2. /\ IsFiniteSet(r.recs \cup {j.rec})
          /\ Cardinality(r.recs \cup {j.rec}) = Cardinality(r.recs) + 1
      BY <3>1, FS_AddElement
    <3> QED BY <1>1, <3>2
  <2>3. r.seen = r.ingested + r.failed + 1
    BY <2>1 DEF Counted
  <2>4. q.seen = q.ingested + q.failed + 0
    BY <1>1, <1>2, <2>3
  <2>5. q.ingested = Cardinality(q.recs) /\ q.seen + Cardinality(q.pending) = Cardinality(q.listed)
    BY <1>1, <2>1, <2>2 DEF Counted
  <2>6. IsFiniteSet(q.listed) /\ q.pending \subseteq q.listed
    BY <1>1, <2>1 DEF Counted
  <2> QED BY <1>1, <2>2, <2>4, <2>5, <2>6 DEF Counted
<1>4. Mine(q, R) = Mine(r, R) \cup {RowOf(j)} /\ RowOf(j) \notin Mine(r, R)
  <2>1. RowOf(j).rec = j.rec /\ RowOf(j).schema = Target[r.binding]
    BY DEF RowOf
  <2> QED BY <1>1, <2>1 DEF Mine
<1>5. MyDocs(q, R) = MyDocs(r, R) \cup {j.doc}
  <2>1. RowOf(j).doc = j.doc
    BY DEF RowOf
  <2> QED BY <1>4, <2>1 DEF MyDocs
<1>6. RowsKept(q, R)
  <2>1. RowsKept(r, R)
    BY DEF Booked
  <2>2. IsFiniteSet(Mine(q, R)) /\ Cardinality(Mine(q, R)) = q.ingested
    BY <1>1, <1>4, <2>1, FS_AddElement DEF RowsKept
  <2>3. IsFiniteSet(MyDocs(q, R)) /\ Cardinality(MyDocs(q, R)) = q.ingested
    BY <1>1, <1>5, <2>1, FS_AddElement DEF RowsKept
  <2>4. MyDocs(q, R) \subseteq q.listed \ q.pending
    BY <1>1, <1>5, <2>1 DEF RowsKept
  <2> QED BY <2>2, <2>3, <2>4 DEF RowsKept
<1>7. ASSUME k = "qdrant"
      PROVE  ChunksKept(q, C)
  <2>1. ChunksKept(r, C)
    BY <1>7 DEF Booked
  <2>2. OfRec(C[Target[r.binding]], j.rec) = ChunksOf(j)
    BY <1>7
  <2>3. MyChunks(q, C) = MyChunks(r, C) \cup ChunksOf(j)
    BY <1>1, <2>2 DEF MyChunks, OfRec
  <2>4. MyChunks(r, C) \cap ChunksOf(j) = {}
    BY <2>2 DEF MyChunks, OfRec
  <2>5. /\ IsFiniteSet(ChunksOf(j)) /\ Cardinality(ChunksOf(j)) = ChunkCount[j.doc]
        /\ ChunkCount[j.doc] \in Nat
    BY ChunksOfCount, IngestorAssumption DEF Jobs
  <2>6. IsFiniteSet(MyChunks(r, C)) /\ Cardinality(MyChunks(r, C)) = r.chunks
    BY <2>1 DEF ChunksKept
  <2>7. /\ IsFiniteSet(MyChunks(q, C))
        /\ Cardinality(MyChunks(q, C)) = r.chunks + ChunkCount[j.doc] - Cardinality({})
    BY <2>3, <2>4, <2>5, <2>6, FS_Union
  <2>8. Cardinality(MyChunks(q, C)) = r.chunks + ChunkCount[j.doc]
    BY <1>2, <2>5, <2>7, FS_EmptySet
  <2> QED BY <1>1, <2>7, <2>8 DEF ChunksKept
<1>8. Blank(q)
  BY <1>1 DEF Blank
<1> QED BY <1>3, <1>6, <1>7, <1>8 DEF Booked

\* A step of a sync that leaves its records as they are.
LEMMA SameRecsBooked ==
    ASSUME NEW r \in Tasks, NEW R, NEW C, NEW k, Booked(r, R, C, k), NEW q \in Tasks,
           q.recs = r.recs, q.binding = r.binding, q.ingested = r.ingested, q.chunks = r.chunks,
           Counted(q), Blank(q), r.listed \ r.pending \subseteq q.listed \ q.pending
    PROVE  Booked(q, R, C, k) /\ MyDocs(q, R) = MyDocs(r, R)
<1>1. Mine(q, R) = Mine(r, R) /\ MyDocs(q, R) = MyDocs(r, R) /\ MyChunks(q, C) = MyChunks(r, C)
  BY DEF Mine, MyDocs, MyChunks
<1>2. RowsKept(q, R)
  BY <1>1 DEF Booked, RowsKept
<1>3. k = "qdrant" => ChunksKept(q, C)
  BY <1>1 DEF Booked, ChunksKept
<1> QED BY <1>1, <1>2, <1>3 DEF Booked

\* The same for an ingest that has failed.
LEMMA AbsorbFailedBooked ==
    ASSUME NEW r \in Tasks, NEW R, NEW C, NEW k, Booked(r, R, C, k), r.phase = "ingest",
           NEW q, q = [r EXCEPT !.phase = "next", !.failed = @ + 1]
    PROVE  Booked(q, R, C, k)
<1>1. q \in Tasks
  <2>1. r.failed + 1 \in Nat
    BY DEF Tasks
  <2> QED BY <2>1 DEF Tasks, Phases
<1>2. /\ q.phase = "next" /\ q.failed = r.failed + 1 /\ q.ingested = r.ingested
      /\ q.recs = r.recs /\ q.chunks = r.chunks /\ q.binding = r.binding
      /\ q.listed = r.listed /\ q.pending = r.pending /\ q.seen = r.seen
  BY DEF Tasks
<1>3. r.ingested \in Nat /\ r.failed \in Nat
  BY DEF Tasks
<1>4. Counted(q) /\ Blank(q)
  <2>1. Counted(r)
    BY DEF Booked
  <2>2. q.seen = q.ingested + q.failed + 0
    BY <1>2, <1>3, <2>1 DEF Counted
  <2> QED BY <1>2, <2>1, <2>2 DEF Counted, Blank
<1> QED BY <1>1, <1>2, <1>4, SameRecsBooked

\* A resource taken off the list.
LEMMA NextBooked ==
    ASSUME NEW r \in Tasks, NEW R, NEW C, NEW k, Booked(r, R, C, k), r.phase = "next",
           NEW d \in r.pending,
           NEW q, q = [r EXCEPT !.phase = "ingest", !.pending = r.pending \ {d}, !.seen = r.seen + 1]
    PROVE  Booked(q, R, C, k) /\ d \in q.listed \ q.pending /\ d \notin MyDocs(q, R)
<1>1. q \in Tasks
  <2>1. r.seen + 1 \in Nat /\ r.pending \ {d} \in SUBSET Docs
    BY DEF Tasks
  <2> QED BY <2>1 DEF Tasks, Phases
<1>2. /\ q.phase = "ingest" /\ q.failed = r.failed /\ q.ingested = r.ingested
      /\ q.recs = r.recs /\ q.chunks = r.chunks /\ q.binding = r.binding
      /\ q.listed = r.listed /\ q.pending = r.pending \ {d} /\ q.seen = r.seen + 1
  BY DEF Tasks
<1>3. r.ingested \in Nat /\ r.failed \in Nat /\ r.seen \in Nat
  BY DEF Tasks
<1>4. Counted(r)
  BY DEF Booked
<1>5. IsFiniteSet(r.pending) /\ Cardinality(r.pending) \in Nat
  BY <1>4, FS_Subset, FS_CardinalityType DEF Counted
<1>6. Cardinality(q.pending) = Cardinality(r.pending) - 1
  BY <1>2, <1>5, FS_RemoveElement
<1>7. q.seen + Cardinality(q.pending) = Cardinality(q.listed)
  BY <1>2, <1>3, <1>4, <1>5, <1>6 DEF Counted
<1>8. q.seen = q.ingested + q.failed + 1
  BY <1>2, <1>3, <1>4 DEF Counted
<1>9. Counted(q) /\ Blank(q)
  BY <1>2, <1>4, <1>7, <1>8 DEF Counted, Blank
<1>10. Booked(q, R, C, k) /\ MyDocs(q, R) = MyDocs(r, R)
  BY <1>1, <1>2, <1>9, SameRecsBooked
<1>11. d \in q.listed
  BY <1>2, <1>4 DEF Counted
<1>12. d \notin MyDocs(r, R)
  BY DEF Booked, RowsKept
<1> QED BY <1>2, <1>10, <1>11, <1>12

\* A list that has come in.
LEMMA ListBooked ==
    ASSUME NEW r \in Tasks, NEW R, NEW C, NEW k, Booked(r, R, C, k), r.phase = "list",
           NEW ls \in SUBSET Docs, IsFiniteSet(ls),
           NEW q, q = [r EXCEPT !.phase = "next", !.listed = ls, !.pending = ls]
    PROVE  Booked(q, R, C, k)
<1>1. q \in Tasks
  BY DEF Tasks, Phases
<1>2. /\ q.phase = "next" /\ q.failed = r.failed /\ q.ingested = r.ingested
      /\ q.recs = r.recs /\ q.chunks = r.chunks /\ q.binding = r.binding
      /\ q.listed = ls /\ q.pending = ls /\ q.seen = r.seen
  BY DEF Tasks
<1>3. /\ r.seen = 0 /\ r.ingested = 0 /\ r.failed = 0 /\ r.listed = {}
  BY DEF Booked, Blank
<1>4. Cardinality(ls) \in Nat
  BY FS_CardinalityType
<1>5. Counted(q) /\ Blank(q)
  <2>1. Counted(r)
    BY DEF Booked
  <2>2. q.seen = q.ingested + q.failed + 0 /\ q.seen + Cardinality(q.pending) = Cardinality(q.listed)
    BY <1>2, <1>3, <1>4
  <2> QED BY <1>2, <2>1, <2>2 DEF Counted, Blank
<1> QED BY <1>1, <1>2, <1>3, <1>5, SameRecsBooked

\* Any other move within a sync.
LEMMA MoveBooked ==
    ASSUME NEW r \in Tasks, NEW R, NEW C, NEW k, Booked(r, R, C, k), NEW q \in Tasks,
           \/ r.phase = "tick" /\ q = [r EXCEPT !.phase = "lookup"]
           \/ r.phase = "lookup" /\ q = [r EXCEPT !.phase = "list"]
           \/ r.phase \in {"lookup", "list"} /\ q = [r EXCEPT !.phase = "done", !.kind = "failed_list"]
           \/ r.phase = "lookup" /\ q = [r EXCEPT !.phase = "done", !.kind = "not_found"]
           \/ r.phase = "next" /\ r.pending = {} /\ q = [r EXCEPT !.phase = "done"]
    PROVE  Booked(q, R, C, k)
<1>1. /\ q.failed = r.failed /\ q.ingested = r.ingested
      /\ q.recs = r.recs /\ q.chunks = r.chunks /\ q.binding = r.binding
      /\ q.listed = r.listed /\ q.pending = r.pending /\ q.seen = r.seen
  BY DEF Tasks
<1>2. q.phase # "ingest" /\ r.phase # "ingest"
  BY DEF Tasks
<1>3. q.phase = "done" /\ q.kind = "completed" => r.pending = {}
  BY DEF Tasks
<1>4. q.phase \in {"tick", "lookup", "list"} => r.phase \in {"tick", "lookup", "list"}
  BY DEF Tasks
<1>5. Counted(q)
  BY <1>1, <1>2, <1>3 DEF Booked, Counted
<1>6. Blank(q)
  BY <1>1, <1>4 DEF Booked, Blank
<1> QED BY <1>1, <1>5, <1>6, SameRecsBooked

-----------------------------------------------------------------------------
\* A step that ends calls, or the tasks around them, and leaves the rows alone;
\* V are the workers it touches.  An in-memory index may be lost with it.
LEMMA EndKeepsBooks ==
    ASSUME TypeOK, TypeOK', StoreInv, BooksInv, UNCHANGED <<backend, rows, nextRec>>,
           \/ UNCHANGED <<chunks, created>>
           \/ backend = "memory" /\ chunks' = [s \in Schemas |-> {}],
           NEW V \in SUBSET Workers,
           \A v \in Workers \ V : SameTask(run'[v], run[v]) /\ job'[v] = job[v],
           \A v \in V :
              /\ job'[v].pc = "idle" /\ run'[v].phase # "ingest"
              /\ run'[v].mode \in {"request", "poll"} => Booked(run'[v], rows, chunks, backend)
              /\ \A n \in run'[v].recs :
                    n \in run[v].recs \/ (job[v].pc # "idle" /\ n = job[v].rec)
    PROVE  BooksInv'
<1>0. \A v \in Workers \ V : run'[v].recs = run[v].recs
  BY DEF SameTask
<1>1. Busy'
  <2> SUFFICES ASSUME NEW w \in Workers
               PROVE  /\ job'[w].pc # "idle" <=> run'[w].phase = "ingest"
                      /\ run'[w].mode = "free" => job'[w].pc = "idle"
                      /\ (run'[w].mode \in {"request", "poll"} /\ run'[w].phase = "ingest") =>
                            /\ job'[w].doc \in run'[w].listed \ run'[w].pending
                            /\ job'[w].schema = Target[run'[w].binding]
    BY DEF Busy, Syncing
  <2>1. CASE w \in V
    BY <2>1
  <2>2. CASE w \notin V
    BY <2>2 DEF BooksInv, Busy, Syncing, SameTask
  <2> QED BY <2>1, <2>2
<1>2. Claims'
  <2> SUFFICES ASSUME NEW w \in Workers, NEW n \in run'[w].recs
               PROVE  n < nextRec /\ \A v \in Workers : job'[v].pc # "idle" => job'[v].rec # n
    BY DEF Claims
  <2>1. n \in run[w].recs \/ (job[w].pc # "idle" /\ n = job[w].rec /\ w \in V)
    BY <1>0
  <2>2. n < nextRec
    BY <2>1 DEF BooksInv, Claims, StoreInv, Distinct
  <2>3. ASSUME NEW v \in Workers, job'[v].pc # "idle"
        PROVE  job'[v].rec # n
    <3>1. v \notin V /\ job'[v] = job[v]
      BY <2>3
    <3> QED BY <2>1, <2>3, <3>1 DEF BooksInv, Claims, StoreInv, Distinct
  <2> QED BY <2>2, <2>3
<1>3. JobStores'
  <2>0. \A w \in Workers : job'[w] = job[w] \/ job'[w].pc = "idle"
    OBVIOUS
  <2>1. JobRows'
    BY <2>0 DEF BooksInv, JobStores, JobRows
  <2>2. JobChunks'
    <3>1. \A s \in Schemas : chunks'[s] = chunks[s] \/ (backend = "memory" /\ chunks'[s] = {})
      OBVIOUS
    <3>2. "idle" \notin BeforeWrite
      BY DEF BeforeWrite, PastRow
    <3> SUFFICES ASSUME NEW w \in Workers
                 PROVE  /\ job'[w].pc \in BeforeWrite =>
                              \A s \in Schemas : OfRec(chunks'[s], job'[w].rec) = {}
                        /\ (job'[w].pc = "ok" /\ backend' = "qdrant") =>
                              OfRec(chunks'[job'[w].schema], job'[w].rec) = ChunksOf(job'[w])
      BY DEF JobChunks
    <3>3. CASE job'[w].pc = "idle"
      BY <3>2, <3>3
    <3>4. CASE job'[w] = job[w]
      <4>1. job[w].schema \in Schemas
        BY DEF TypeOK, IngestTypeOK, Jobs
      <4> QED BY <3>1, <3>4, <4>1 DEF BooksInv, JobStores, JobChunks, OfRec
    <3> QED BY <2>0, <3>3, <3>4
  <2>3. Collections'
    BY DEF BooksInv, JobStores, Collections
  <2> QED BY <2>1, <2>2, <2>3 DEF JobStores
<1>4. Books'
  <2> SUFFICES ASSUME NEW w \in Workers, run'[w].mode \in {"request", "poll"}
               PROVE  /\ Booked(run'[w], rows', chunks', backend')
                      /\ run'[w].phase = "ingest" => job'[w].doc \notin MyDocs(run'[w], rows')
    BY DEF Books, Syncing
  <2>1. Booked(run'[w], rows, chunks, backend)
    <3>1. CASE w \in V
      BY <3>1
    <3>2. CASE w \notin V
      <4>1. SameTask(run'[w], run[w]) /\ run[w].mode \in {"request", "poll"}
        BY <3>2 DEF SameTask
      <4> QED BY <4>1, SameTaskBooked DEF BooksInv, Books, Syncing
    <3> QED BY <3>1, <3>2
  <2>2. backend = "qdrant" => MyChunks(run'[w], chunks') = MyChunks(run'[w], chunks)
    OBVIOUS
  <2>3. Booked(run'[w], rows, chunks', backend)
    BY <2>1, <2>2, BookedFrame
  <2>4. ASSUME run'[w].phase = "ingest" PROVE job'[w].doc \notin MyDocs(run'[w], rows)
    <3>1. w \notin V /\ SameTask(run'[w], run[w]) /\ job'[w] = job[w]
      BY <2>4
    <3>2. run[w].mode \in {"request", "poll"} /\ run[w].phase = "ingest"
      BY <2>4, <3>1 DEF SameTask
    <3>3. MyDocs(run'[w], rows) = MyDocs(run[w], rows)
      BY <3>1, SameTaskBooked
    <3> QED BY <3>1, <3>2, <3>3 DEF BooksInv, Books, Syncing
  <2> QED BY <2>3, <2>4
<1> QED BY <1>1, <1>2, <1>3, <1>4 DEF BooksInv

\* A call that begins: a fresh record id, of which no store knows.
LEMMA BeginKeepsBooks ==
    ASSUME TypeOK, TypeOK', StoreInv, BooksInv, UNCHANGED <<backend, rows, chunks, created>>,
           NEW w \in Workers, NEW d \in Docs, NEW b \in Bindings,
           BeginIngest(w, d, TenantOf[b], Target[b]),
           \A v \in Workers \ {w} : run'[v] = run[v],
           run'[w].mode # "free", run'[w].phase = "ingest", run'[w].recs = run[w].recs, run'[w].binding = b,
           run'[w].mode \in {"request", "poll"} =>
              /\ Booked(run'[w], rows, chunks, backend)
              /\ d \in run'[w].listed \ run'[w].pending
              /\ d \notin MyDocs(run'[w], rows)
    PROVE  BooksInv'
<1>1. /\ \A v \in Workers \ {w} : job'[v] = job[v]
      /\ job'[w].pc = "row" /\ job'[w].rec = nextRec /\ job'[w].doc = d /\ job'[w].schema = Target[b]
      /\ nextRec' = nextRec + 1 /\ nextRec \in Nat
  BY DEF BeginIngest, TypeOK, IngestTypeOK
<1>2. Busy'
  BY <1>1 DEF BooksInv, Busy, Syncing
<1>3. Claims'
  <2>1. \A v \in Workers : run'[v].recs = run[v].recs
    BY DEF BooksInv
  <2>2. \A v \in Workers : run[v].recs \subseteq Nat
    BY DEF TypeOK, Tasks
  <2> QED BY <1>1, <2>1, <2>2 DEF BooksInv, Claims
<1>4. JobStores'
  <2>1. \A x \in rows : x.rec # nextRec
    BY DEF StoreInv, Distinct, TypeOK, IngestTypeOK, Rows
  <2>2. \A s \in Schemas : OfRec(chunks[s], nextRec) = {}
    BY <2>1 DEF StoreInv, ChunkHasRow, OfRec
  <2>3. JobRows'
    BY <1>1, <2>1 DEF BooksInv, JobStores, JobRows
  <2>4. JobChunks'
    BY <1>1, <2>2 DEF BooksInv, JobStores, JobChunks
  <2>5. Collections'
    BY DEF BooksInv, JobStores, Collections
  <2> QED BY <2>3, <2>4, <2>5 DEF JobStores
<1>5. Books'
  <2> SUFFICES ASSUME NEW v \in Workers, run'[v].mode \in {"request", "poll"}
               PROVE  /\ Booked(run'[v], rows, chunks, backend)
                      /\ run'[v].phase = "ingest" => job'[v].doc \notin MyDocs(run'[v], rows)
    BY DEF Books, Syncing
  <2>1. CASE v = w
    BY <1>1, <2>1
  <2>2. CASE v # w
    BY <1>1, <2>2 DEF BooksInv, Books, Syncing
  <2> QED BY <2>1, <2>2
<1> QED BY <1>2, <1>3, <1>4, <1>5 DEF BooksInv

\* What the books need of a step of the pipeline, beyond PipelineShapes: how a
\* call gets to succeed, that nothing is added to the index before the write,
\* and that Qdrant's collections are never emptied.
LEMMA PipelineEnds ==
    ASSUME TypeOK, StoreInv, Collections, NEW w \in Workers, IngestStep(w)
    PROVE  /\ backend' = backend /\ created \subseteq created'
           /\ job[w].pc # "idle"
           /\ \E pc \in Steps \ {"idle"} :
                 /\ job' = [job EXCEPT ![w].pc = pc]
                 /\ pc \in BeforeWrite =>
                       job[w].pc \in BeforeWrite /\ \A s \in Schemas : chunks'[s] \subseteq chunks[s]
                 /\ pc = "ok" =>
                       \/ /\ rows' = rows \cup {RowOf(job[w])} /\ chunks' = chunks
                          /\ ChunkCount[job[w].doc] = 0 /\ At(w, "row")
                       \/ /\ rows' = rows /\ At(w, "write")
                          /\ chunks' = [chunks EXCEPT ![job[w].schema] = @ \cup ChunksOf(job[w])]
           /\ \/ chunks' = chunks
              \/ backend = "memory" /\ \A s \in Schemas : chunks'[s] \subseteq chunks[s]
              \/ /\ At(w, "write") /\ job[w].schema \in created
                 /\ chunks' = [chunks EXCEPT ![job[w].schema] = @ \cup ChunksOf(job[w])]
<1> DEFINE Becomes(pc) ==
              /\ job' = [job EXCEPT ![w].pc = pc]
              /\ pc \in BeforeWrite =>
                    job[w].pc \in BeforeWrite /\ \A s \in Schemas : chunks'[s] \subseteq chunks[s]
              /\ pc = "ok" =>
                    \/ /\ rows' = rows \cup {RowOf(job[w])} /\ chunks' = chunks
                       /\ ChunkCount[job[w].doc] = 0 /\ At(w, "row")
                    \/ /\ rows' = rows /\ At(w, "write")
                       /\ chunks' = [chunks EXCEPT ![job[w].schema] = @ \cup ChunksOf(job[w])]
           Wiped == backend = "memory" /\ \A s \in Schemas : chunks'[s] \subseteq chunks[s]
           Written == /\ At(w, "write") /\ job[w].schema \in created
                      /\ chunks' = [chunks EXCEPT ![job[w].schema] = @ \cup ChunksOf(job[w])]
           Frame == backend' = backend /\ created \subseteq created' /\ job[w].pc # "idle"
<1>a. SUFFICES /\ Frame /\ \E pc \in Steps \ {"idle"} : Becomes(pc)
               /\ chunks' = chunks \/ Wiped \/ Written
  OBVIOUS
<1>0. /\ job[w].schema \in Schemas /\ chunks \in [Schemas -> SUBSET Chunks]
      /\ backend \in {"memory", "qdrant"} /\ job[w] \in Jobs
  BY IngestorAssumption DEF TypeOK, IngestTypeOK, Jobs
<1>b. /\ "ensure" \in BeforeWrite /\ "look" \in BeforeWrite /\ "create" \in BeforeWrite
      /\ "embed" \in BeforeWrite /\ "write" \in BeforeWrite /\ "row" \in BeforeWrite
      /\ "ok" \notin BeforeWrite /\ "err" \notin BeforeWrite
      /\ BeforeWrite \cup {"ok", "err"} \subseteq Steps \ {"idle"}
  BY DEF BeforeWrite, PastRow, Steps
<1>c. ASSUME job' = [job EXCEPT ![w].pc = "err"] PROVE \E pc \in Steps \ {"idle"} : Becomes(pc)
  <2>1. Becomes("err")
    BY <1>b, <1>c
  <2> QED BY <1>b, <2>1
<1>d. ASSUME NEW pc \in BeforeWrite, job' = [job EXCEPT ![w].pc = pc], job[w].pc \in BeforeWrite,
             \A s \in Schemas : chunks'[s] \subseteq chunks[s]
      PROVE  \E q \in Steps \ {"idle"} : Becomes(q)
  <2>1. Becomes(pc)
    BY <1>b, <1>d
  <2> QED BY <1>b, <2>1
<1> USE DEF At, Goto
<1>1. CASE UpsertRow(w)
  <2>1. rows' = rows \cup {RowOf(job[w])} /\ chunks' = chunks
    BY <1>1 DEF UpsertRow, StoreInv, Distinct
  <2>2. CASE ChunkCount[job[w].doc] = 0
    <3>1. job' = [job EXCEPT ![w].pc = "ok"]
      BY <1>1, <2>2 DEF UpsertRow
    <3>2. Becomes("ok")
      BY <1>1, <1>b, <2>1, <2>2, <3>1 DEF UpsertRow
    <3> QED BY <1>1, <1>b, <2>1, <3>2 DEF UpsertRow
  <2>3. CASE ChunkCount[job[w].doc] # 0
    <3>1. job' = [job EXCEPT ![w].pc = "ensure"]
      BY <1>1, <2>3 DEF UpsertRow
    <3> HIDE DEF Becomes
    <3> QED BY <1>1, <1>b, <1>d, <2>1, <3>1 DEF UpsertRow
  <2> QED BY <2>2, <2>3
<1> HIDE DEF Becomes, Written
<1>2. CASE UpsertRowFails(w)
  BY <1>2, <1>c DEF UpsertRowFails
<1>3. CASE EnsureMemo(w)
  <2>1. job' = [job EXCEPT ![w].pc = "embed"] \/ job' = [job EXCEPT ![w].pc = "look"]
    BY <1>3 DEF EnsureMemo
  <2> QED BY <1>3, <1>b, <1>d, <2>1 DEF EnsureMemo
<1>4. CASE EnsureLook(w)
  <2>1. job' = [job EXCEPT ![w].pc = "embed"] \/ job' = [job EXCEPT ![w].pc = "create"]
    BY <1>4 DEF EnsureLook
  <2> QED BY <1>4, <1>b, <1>d, <2>1 DEF EnsureLook
<1>5. CASE EnsureCreate(w)
  <2>1. job' = [job EXCEPT ![w].pc = "embed"] /\ At(w, "create") /\ backend' = backend
    BY <1>5 DEF EnsureCreate
  <2>2. chunks' = [chunks EXCEPT ![job[w].schema] = {}] /\ created \subseteq created'
    BY <1>5 DEF EnsureCreate
  <2>3. \A s \in Schemas : chunks'[s] \subseteq chunks[s]
    BY <1>0, <2>2
  <2>4. backend = "qdrant" => chunks' = chunks
    <3>1. backend = "qdrant" => chunks[job[w].schema] = {}
      BY <1>0, <1>5 DEF EnsureCreate, Collections
    <3> QED BY <1>0, <2>2, <3>1
  <2>5. \E pc \in Steps \ {"idle"} : Becomes(pc)
    BY <1>b, <1>d, <2>1, <2>3
  <2> QED BY <1>0, <2>1, <2>2, <2>3, <2>4, <2>5
<1>6. CASE EnsureFails(w)
  BY <1>6, <1>c DEF EnsureFails
<1>7. CASE Embed(w)
  BY <1>7, <1>b, <1>d DEF Embed
<1>8. CASE EmbedFails(w)
  BY <1>8, <1>c DEF EmbedFails
<1>9. CASE WriteChunks(w)
  <2>1. Becomes("ok") /\ Written
    BY <1>9, <1>b DEF WriteChunks, Becomes, Written
  <2> QED BY <1>9, <1>b, <2>1 DEF WriteChunks
<1>10. CASE WriteChunksFails(w)
  <2>1. chunks' = chunks \/ Written
    BY <1>10 DEF WriteChunksFails, Written
  <2> QED BY <1>10, <1>c, <2>1 DEF WriteChunksFails
<1> QED BY <1>1, <1>2, <1>3, <1>4, <1>5, <1>6, <1>7, <1>8, <1>9, <1>10 DEF IngestStep

LEMMA PipelineKeepsBooks ==
    ASSUME TypeOK, TypeOK', StoreInv, BooksInv, NEW w \in Workers, IngestStep(w), UNCHANGED run
    PROVE  BooksInv'
<1> DEFINE j == job[w]
           Write == /\ At(w, "write") /\ j.schema \in created
                    /\ chunks' = [chunks EXCEPT ![j.schema] = @ \cup ChunksOf(j)]
<1>0. /\ j \in Jobs /\ job \in [Workers -> Jobs] /\ j.schema \in Schemas
      /\ chunks \in [Schemas -> SUBSET Chunks] /\ backend \in {"memory", "qdrant"}
  BY IngestorAssumption DEF TypeOK, IngestTypeOK, Jobs
<1>1. Collections
  BY DEF BooksInv, JobStores
<1>2. /\ backend' = backend /\ created \subseteq created' /\ nextRec' = nextRec /\ j.pc # "idle"
  BY <1>1, PipelineEnds, PipelineShapes
<1>2a. \/ rows' = rows
       \/ At(w, "row") /\ rows' = rows \cup {RowOf(j)}
  BY PipelineShapes
<1>3. \/ chunks' = chunks
      \/ backend = "memory" /\ \A s \in Schemas : chunks'[s] \subseteq chunks[s]
      \/ Write
  BY <1>1, PipelineEnds
<1>4. PICK pc \in Steps \ {"idle"} :
         /\ job' = [job EXCEPT ![w].pc = pc]
         /\ pc \in BeforeWrite =>
               j.pc \in BeforeWrite /\ \A s \in Schemas : chunks'[s] \subseteq chunks[s]
         /\ pc = "ok" =>
               \/ /\ rows' = rows \cup {RowOf(j)} /\ chunks' = chunks
                  /\ ChunkCount[j.doc] = 0 /\ At(w, "row")
               \/ /\ rows' = rows /\ At(w, "write")
                  /\ chunks' = [chunks EXCEPT ![j.schema] = @ \cup ChunksOf(j)]
  BY <1>1, PipelineEnds
<1>5. /\ \A v \in Workers \ {w} : job'[v] = job[v]
      /\ job'[w].pc = pc /\ job'[w].rec = j.rec /\ job'[w].doc = j.doc /\ job'[w].schema = j.schema
      /\ RowOf(job'[w]) = RowOf(j) /\ ChunksOf(job'[w]) = ChunksOf(j)
  BY <1>0, <1>4 DEF Jobs, RowOf, ChunksOf
<1>6. \A v \in Workers : job'[v].pc # "idle" => job[v].pc # "idle" /\ job'[v].rec = job[v].rec
  BY <1>2, <1>5
<1>7. RowOf(j).rec = j.rec /\ \A c \in ChunksOf(j) : c.rec = j.rec
  BY DEF RowOf, ChunksOf
<1>8. \A v \in Workers \ {w} : job[v].pc # "idle" => job[v].rec # j.rec
  BY <1>2 DEF StoreInv, Distinct
<1>9. \A s \in Schemas : \A n : n # j.rec => OfRec(chunks'[s], n) \subseteq OfRec(chunks[s], n)
  BY <1>0, <1>3, <1>7 DEF OfRec
<1>9a. backend = "qdrant" =>
          \A s \in Schemas : \A n : n # j.rec => OfRec(chunks'[s], n) = OfRec(chunks[s], n)
  BY <1>0, <1>3, <1>7 DEF OfRec
<1> HIDE DEF Write
<1>10. Busy'
  BY <1>2, <1>4, <1>5 DEF BooksInv, Busy, Syncing
<1>11. Claims'
  BY <1>2, <1>6 DEF BooksInv, Claims
<1>12. JobStores'
  <2>1. JobRows'
    <3> SUFFICES ASSUME NEW v \in Workers
                 PROVE  /\ job'[v].pc # "idle" =>
                             \A x \in rows' : x.rec = job'[v].rec => x = RowOf(job'[v])
                        /\ job'[v].pc = "ok" => RowOf(job'[v]) \in rows'
      BY DEF JobRows
    <3>1. RowOf(job'[v]) = RowOf(job[v])
      BY <1>5
    <3>2. ASSUME job'[v].pc # "idle", NEW x \in rows', x.rec = job'[v].rec
          PROVE  x = RowOf(job'[v])
      <4>1. job[v].pc # "idle" /\ x.rec = job[v].rec
        BY <1>6, <3>2
      <4>2. CASE x \in rows
        BY <3>1, <4>1, <4>2 DEF BooksInv, JobStores, JobRows
      <4>3. CASE x = RowOf(j)
        <5>1. v = w
          BY <1>7, <1>8, <4>1, <4>3
        <5> QED BY <3>1, <4>3, <5>1
      <4> QED BY <1>2a, <3>2, <4>2, <4>3
    <3>3. ASSUME job'[v].pc = "ok" PROVE RowOf(job'[v]) \in rows'
      <4>1. rows \subseteq rows'
        BY <1>2a
      <4>2. CASE v # w
        BY <1>5, <3>1, <3>3, <4>1, <4>2 DEF BooksInv, JobStores, JobRows
      <4>3. CASE v = w
        <5>1. At(w, "write") => RowOf(j) \in rows
          BY DEF StoreInv, RowFirst, PastRow, At
        <5> QED BY <1>4, <1>5, <3>1, <3>3, <4>1, <4>3, <5>1
      <4> QED BY <4>2, <4>3
    <3> QED BY <3>2, <3>3
  <2>2. JobChunks'
    <3> SUFFICES ASSUME NEW v \in Workers
                 PROVE  /\ job'[v].pc \in BeforeWrite =>
                              \A s \in Schemas : OfRec(chunks'[s], job'[v].rec) = {}
                        /\ (job'[v].pc = "ok" /\ backend' = "qdrant") =>
                              OfRec(chunks'[job'[v].schema], job'[v].rec) = ChunksOf(job'[v])
      BY DEF JobChunks
    <3>1. CASE v # w
      <4>1. job'[v] = job[v] /\ job[v].schema \in Schemas
        BY <1>0, <1>5, <3>1 DEF Jobs
      <4>2. job[v].pc \in BeforeWrite \/ job[v].pc = "ok" => job[v].rec # j.rec
        BY <1>8, <3>1 DEF BeforeWrite, PastRow
      <4>3. job[v].pc \in BeforeWrite => \A s \in Schemas : OfRec(chunks'[s], job[v].rec) = {}
        BY <1>9, <4>2 DEF BooksInv, JobStores, JobChunks
      <4>4. (job[v].pc = "ok" /\ backend = "qdrant") =>
               OfRec(chunks'[job[v].schema], job[v].rec) = ChunksOf(job[v])
        BY <1>9a, <4>1, <4>2 DEF BooksInv, JobStores, JobChunks
      <4> QED BY <1>2, <4>1, <4>3, <4>4
    <3>2. CASE v = w
      <4>1. ASSUME pc \in BeforeWrite, NEW s \in Schemas PROVE OfRec(chunks'[s], j.rec) = {}
        <5>1. j.pc \in BeforeWrite /\ chunks'[s] \subseteq chunks[s]
          BY <1>4, <4>1
        <5>2. OfRec(chunks[s], j.rec) = {}
          BY <5>1 DEF BooksInv, JobStores, JobChunks
        <5> QED BY <5>1, <5>2 DEF OfRec
      <4>2. ASSUME pc = "ok" PROVE OfRec(chunks'[j.schema], j.rec) = ChunksOf(j)
        <5>1. At(w, "row") \/ At(w, "write") => OfRec(chunks[j.schema], j.rec) = {}
          BY <1>0 DEF BooksInv, JobStores, JobChunks, At, BeforeWrite, PastRow
        <5>2. CASE chunks' = chunks /\ ChunkCount[j.doc] = 0 /\ At(w, "row")
          <6>1. ChunksOf(j) = {}
            BY <5>2 DEF ChunksOf
          <6> QED BY <5>1, <5>2, <6>1
        <5>3. CASE At(w, "write") /\ chunks' = [chunks EXCEPT ![j.schema] = @ \cup ChunksOf(j)]
          <6>1. chunks'[j.schema] = chunks[j.schema] \cup ChunksOf(j)
            BY <1>0, <5>3
          <6> QED BY <1>7, <5>1, <5>3, <6>1 DEF OfRec
        <5> QED BY <1>4, <4>2, <5>2, <5>3
      <4> QED BY <1>5, <3>2, <4>1, <4>2
    <3> QED BY <3>1, <3>2
  <2>3. Collections'
    <3>1. CASE chunks' = chunks \/ backend = "memory"
      BY <1>1, <1>2, <3>1 DEF Collections
    <3>2. CASE Write
      BY <1>0, <1>1, <1>2, <3>2 DEF Collections, Write
    <3> QED BY <1>3, <3>1, <3>2
  <2> QED BY <2>1, <2>2, <2>3 DEF JobStores
<1>13. Books'
  <2> SUFFICES ASSUME NEW v \in Workers, Syncing(v)
               PROVE  /\ Booked(run[v], rows', chunks', backend)
                      /\ run[v].phase = "ingest" => job'[v].doc \notin MyDocs(run[v], rows')
    BY <1>2 DEF Books, Syncing
  <2>1. j.rec \notin run[v].recs
    BY <1>2 DEF BooksInv, Claims
  <2>2. Mine(run[v], rows') = Mine(run[v], rows)
    BY <1>2a, <1>7, <2>1 DEF Mine
  <2>3. backend = "qdrant" => MyChunks(run[v], chunks') = MyChunks(run[v], chunks)
    <3>1. Target[run[v].binding] \in Schemas
      BY RuntimeAssumption DEF TypeOK, Tasks
    <3> QED BY <1>9a, <2>1, <3>1 DEF MyChunks, OfRec
  <2>4. Booked(run[v], rows, chunks, backend)
    BY DEF BooksInv, Books
  <2>5. Booked(run[v], rows', chunks', backend) /\ MyDocs(run[v], rows') = MyDocs(run[v], rows)
    BY <2>2, <2>3, <2>4, BookedFrame
  <2>6. job'[v].doc = job[v].doc
    BY <1>5
  <2> QED BY <2>5, <2>6 DEF BooksInv, Books
<1> QED BY <1>10, <1>11, <1>12, <1>13 DEF BooksInv

\* The steps of a sync outside the pipeline.
LEMMA SyncKeepsBooks ==
    ASSUME TypeOK, TypeOK', StoreInv, BooksInv, NEW w \in Workers,
           \/ Lookup(w) \/ List(w) \/ ListFails(w) \/ NextResource(w) \/ Absorb(w)
           \/ EndOfList(w) \/ Return(w) \/ Tick(w)
    PROVE  BooksInv'
<1> DEFINE r == run[w]
           q == run'[w]
<1>0. /\ r \in Tasks /\ q \in Tasks /\ run \in [Workers -> Tasks] /\ job[w] \in Jobs
      /\ r.binding \in Bindings /\ job \in [Workers -> Jobs]
  BY DEF TypeOK, IngestTypeOK, Tasks
<1>1. Syncing(w) /\ Booked(r, rows, chunks, backend)
  <2>1. Syncing(w)
    BY DEF Lookup, List, ListFails, NextResource, Absorb, EndOfList, Return, Tick, Is, Syncing
  <2> QED BY <2>1 DEF BooksInv, Books
\* A step of the loop between two calls.
<1>2. ASSUME UNCHANGED ingestVars, run' = [run EXCEPT ![w] = q], r.phase # "ingest",
             q.phase # "ingest", q.recs \subseteq r.recs,
             q.mode # "free" => Booked(q, rows, chunks, backend)
      PROVE  BooksInv'
  <2>1. job[w].pc = "idle"
    BY <1>2 DEF BooksInv, Busy
  <2>2. {w} \in SUBSET Workers
    OBVIOUS
  <2>3. \A v \in Workers \ {w} : run'[v] = run[v] /\ job'[v] = job[v]
    BY <1>0, <1>2 DEF ingestVars
  <2>4. UNCHANGED <<backend, rows, nextRec, chunks, created, job>>
    BY <1>2 DEF ingestVars
  <2> HIDE DEF q, r
  <2>5. \A v \in {w} :
           /\ job'[v].pc = "idle" /\ run'[v].phase # "ingest"
           /\ run'[v].mode \in {"request", "poll"} => Booked(run'[v], rows, chunks, backend)
           /\ \A n \in run'[v].recs :
                 n \in run[v].recs \/ (job[v].pc # "idle" /\ n = job[v].rec)
    BY <1>2, <2>1, <2>4 DEF q, r
  <2> QED BY <2>2, <2>3, <2>4, <2>5, EndKeepsBooks DEF SameTask
<1> USE DEF Is
<1>3. CASE Lookup(w) \/ ListFails(w) \/ EndOfList(w) \/ Tick(w)
  <2>1. /\ UNCHANGED ingestVars
        /\ \/ r.phase = "tick" /\ q = [r EXCEPT !.phase = "lookup"]
           \/ r.phase = "lookup" /\ q = [r EXCEPT !.phase = "list"]
           \/ r.phase \in {"lookup", "list"} /\ q = [r EXCEPT !.phase = "done", !.kind = "failed_list"]
           \/ r.phase = "lookup" /\ q = [r EXCEPT !.phase = "done", !.kind = "not_found"]
           \/ r.phase = "next" /\ r.pending = {} /\ q = [r EXCEPT !.phase = "done"]
    BY <1>0, <1>3 DEF Lookup, ListFails, EndOfList, Tick
  <2>2. run' = [run EXCEPT ![w] = q]
    BY <1>0, <1>3 DEF Lookup, ListFails, EndOfList, Tick
  <2> HIDE DEF q, r
  <2>3. Booked(q, rows, chunks, backend)
    BY <1>0, <1>1, <2>1, MoveBooked
  <2>4. r.phase # "ingest" /\ q.phase # "ingest" /\ q.recs = r.recs
    BY <1>0, <2>1 DEF Tasks
  <2> QED BY <1>2, <2>1, <2>2, <2>3, <2>4
<1>4. CASE List(w)
  <2>1. PICK ls \in SUBSET Docs :
          /\ IsFiniteSet(ls)
          /\ run' = [run EXCEPT ![w].phase = "next", ![w].listed = ls, ![w].pending = ls]
    BY <1>4 DEF List
  <2>2. r.phase = "list" /\ UNCHANGED ingestVars
    BY <1>4 DEF List
  <2>3. /\ q = [r EXCEPT !.phase = "next", !.listed = ls, !.pending = ls]
        /\ run' = [run EXCEPT ![w] = q]
    BY <1>0, <2>1
  <2> HIDE DEF q, r
  <2>4. Booked(q, rows, chunks, backend)
    BY <1>0, <1>1, <2>1, <2>2, <2>3, ListBooked
  <2>5. q.phase # "ingest" /\ q.recs = r.recs
    BY <1>0, <2>3 DEF Tasks
  <2> QED BY <1>2, <2>2, <2>3, <2>4, <2>5
<1>5. CASE Return(w)
  <2>1. r.phase = "done" /\ UNCHANGED ingestVars /\ run' = [run EXCEPT ![w] = q]
    BY <1>0, <1>5 DEF Return
  <2>2. q = NoTask \/ q = NextRound(r)
    BY <1>0, <1>5 DEF Return
  <2>3. q.phase # "ingest" /\ q.recs = {}
    BY <2>2 DEF NoTask, NextRound, Fresh
  <2>4. q.mode = "free" \/ Booked(q, rows, chunks, backend)
    <3>1. CASE q = NoTask
      BY <3>1 DEF NoTask, Fresh
    <3>2. CASE q = NextRound(r)
      <4>1. SameTask(q, Fresh("poll", r.binding, "tick"))
        BY <3>2 DEF NextRound, SameTask, Fresh
      <4> QED BY <1>0, <4>1, FreshBooked, SameTaskBooked DEF Modes
    <3> QED BY <2>2, <3>1, <3>2
  <2> HIDE DEF q, r
  <2> QED BY <1>2, <2>1, <2>3, <2>4
<1>6. CASE NextResource(w)
  <2>1. PICK d \in r.pending :
          /\ BeginIngest(w, d, TenantOf[r.binding], Target[r.binding])
          /\ run' = [run EXCEPT ![w].phase = "ingest", ![w].pending = @ \ {d},
                                ![w].seen = @ + 1]
    BY <1>6 DEF NextResource
  <2>2. r.phase = "next" /\ UNCHANGED <<backend, rows, chunks, created>>
    BY <1>6 DEF NextResource
  <2>3. /\ q = [r EXCEPT !.phase = "ingest", !.pending = r.pending \ {d}, !.seen = r.seen + 1]
        /\ \A v \in Workers \ {w} : run'[v] = run[v]
    BY <1>0, <2>1
  <2>4. d \in Docs /\ r.mode # "free"
    BY <1>0, <1>1 DEF Tasks, Syncing
  <2> HIDE DEF q, r
  <2>5. Booked(q, rows, chunks, backend) /\ d \in q.listed \ q.pending /\ d \notin MyDocs(q, rows)
    <3>1. \A y : y = [r EXCEPT !.phase = "ingest", !.pending = r.pending \ {d}, !.seen = r.seen + 1] =>
             Booked(y, rows, chunks, backend) /\ d \in y.listed \ y.pending /\ d \notin MyDocs(y, rows)
      BY <1>0, <1>1, <2>2, NextBooked
    <3> QED BY <2>3, <3>1
  <2>6. q.phase = "ingest" /\ q.recs = r.recs /\ q.binding = r.binding /\ q.mode # "free"
    BY <1>0, <2>3, <2>4 DEF Tasks
  <2> QED BY <1>0, <2>1, <2>2, <2>3, <2>4, <2>5, <2>6, BeginKeepsBooks DEF q, r
<1>7. CASE Absorb(w)
  <2> DEFINE j == job[w]
  <2>1. /\ r.phase = "ingest" /\ Abandon({w})
        /\ UNCHANGED <<backend, rows, chunks, created, nextRec>>
    BY <1>7 DEF Absorb
  <2>2. \A v \in Workers \ {w} : run'[v] = run[v] /\ job'[v] = job[v]
    BY <1>0, <1>7 DEF Absorb, Abandon
  <2>3. job'[w].pc = "idle" /\ j.pc # "idle"
    BY <1>7 DEF Absorb, Abandon, NoJob, At
  <2>3a. ASSUME q.phase # "ingest", Booked(q, rows, chunks, backend),
               \A n \in q.recs : n \in r.recs \/ n = j.rec
        PROVE  BooksInv'
    <3>1. {w} \in SUBSET Workers
      OBVIOUS
    <3>2. \A v \in {w} :
             /\ job'[v].pc = "idle" /\ run'[v].phase # "ingest"
             /\ run'[v].mode \in {"request", "poll"} => Booked(run'[v], rows, chunks, backend)
             /\ \A n \in run'[v].recs :
                   n \in run[v].recs \/ (job[v].pc # "idle" /\ n = job[v].rec)
      BY <2>3, <2>3a
    <3> HIDE DEF q, r, j
    <3> QED BY <2>1, <2>2, <3>1, <3>2, EndKeepsBooks DEF SameTask
  <2>4. CASE /\ j.pc = "ok"
             /\ q = [r EXCEPT !.phase = "next", !.ingested = @ + 1,
                              !.chunks = @ + ChunkCount[j.doc], !.recs = @ \cup {j.rec}]
    <3>1. j.rec \notin r.recs
      BY <2>3 DEF BooksInv, Claims
    <3>2. j.doc \in r.listed \ r.pending /\ j.schema = Target[r.binding] /\ j.doc \notin MyDocs(r, rows)
      BY <1>1, <2>1 DEF BooksInv, Busy, Books
    <3>3. RowOf(j) \in rows /\ \A x \in rows : x.rec = j.rec => x = RowOf(j)
      BY <2>3, <2>4 DEF BooksInv, JobStores, JobRows
    <3>4. backend = "qdrant" => OfRec(chunks[j.schema], j.rec) = ChunksOf(j)
      BY <2>4 DEF BooksInv, JobStores, JobChunks
    <3>5. chunks \in [Schemas -> SUBSET Chunks] /\ j \in Jobs
      BY <1>0 DEF TypeOK, IngestTypeOK
    <3>6. q.recs = r.recs \cup {j.rec} /\ q.phase = "next"
      BY <1>0, <2>4 DEF Tasks
    <3>a. q = [r EXCEPT !.phase = "next", !.ingested = @ + 1,
                        !.chunks = @ + ChunkCount[j.doc], !.recs = @ \cup {j.rec}]
      BY <2>4
    <3> HIDE DEF q, r, j
    <3>7. Booked(q, rows, chunks, backend)
      BY <1>0, <1>1, <2>1, <3>1, <3>2, <3>3, <3>4, <3>5, <3>a, AbsorbBooked, Zenon
    <3>8. \A n \in q.recs : n \in r.recs \/ n = j.rec
      BY <3>6
    <3> QED BY <2>3a, <3>6, <3>7, <3>8
  <2>5. CASE j.pc = "err" /\ q = [r EXCEPT !.phase = "next", !.failed = @ + 1]
    <3>1. q.recs = r.recs /\ q.phase = "next"
      BY <1>0, <2>5 DEF Tasks
    <3> HIDE DEF q, r, j
    <3>2. \A y : y = [r EXCEPT !.phase = "next", !.failed = @ + 1] => Booked(y, rows, chunks, backend)
      BY <1>0, <1>1, <2>1, AbsorbFailedBooked
    <3> QED BY <2>5, <2>3a, <3>1, <3>2
  <2>6. \/ /\ j.pc = "ok"
           /\ q = [r EXCEPT !.phase = "next", !.ingested = @ + 1,
                            !.chunks = @ + ChunkCount[j.doc], !.recs = @ \cup {j.rec}]
        \/ j.pc = "err" /\ q = [r EXCEPT !.phase = "next", !.failed = @ + 1]
    BY <1>0, <1>7 DEF Absorb, At
  <2> QED BY <2>4, <2>5, <2>6
<1> QED BY <1>3, <1>4, <1>5, <1>6, <1>7

\* The steps of a subscribe loop.
LEMMA SubscribeKeepsBooks ==
    ASSUME TypeOK, TypeOK', StoreInv, BooksInv, NEW w \in Workers,
           SubscribeUpsert(w) \/ SubscribeAbsorb(w) \/ StreamEnds(w)
    PROVE  BooksInv'
<1> USE DEF Is
<1>0. /\ run[w] \in Tasks /\ run \in [Workers -> Tasks] /\ job \in [Workers -> Jobs]
      /\ run[w].binding \in Bindings /\ {w} \in SUBSET Workers
  BY DEF TypeOK, IngestTypeOK, Tasks
<1>1. CASE SubscribeUpsert(w)
  <2>1. PICK d \in Docs : BeginIngest(w, d, TenantOf[run[w].binding], Target[run[w].binding])
    BY <1>1 DEF SubscribeUpsert
  <2>2. /\ \A v \in Workers \ {w} : run'[v] = run[v]
        /\ run'[w].mode = "subscribe" /\ run'[w].phase = "ingest"
        /\ run'[w].recs = run[w].recs /\ run'[w].binding = run[w].binding
    BY <1>0, <1>1 DEF SubscribeUpsert, Tasks
  <2>3. UNCHANGED <<backend, rows, chunks, created>>
    BY <1>1 DEF SubscribeUpsert
  <2> QED BY <1>0, <2>1, <2>2, <2>3, BeginKeepsBooks
<1>2. CASE SubscribeAbsorb(w) \/ StreamEnds(w)
  <2>1. \A v \in Workers \ {w} : run'[v] = run[v] /\ job'[v] = job[v]
    BY <1>0, <1>2 DEF SubscribeAbsorb, StreamEnds, Abandon, ingestVars
  <2>2. UNCHANGED <<backend, rows, nextRec, chunks, created>>
    BY <1>2 DEF SubscribeAbsorb, StreamEnds, ingestVars
  <2>3. /\ job'[w].pc = "idle" /\ run'[w].phase # "ingest"
        /\ run'[w].mode \notin {"request", "poll"} /\ run'[w].recs \subseteq run[w].recs
    <3>1. CASE SubscribeAbsorb(w)
      BY <1>0, <3>1 DEF SubscribeAbsorb, Abandon, NoJob, Tasks
    <3>2. CASE StreamEnds(w)
      BY <1>0, <3>2 DEF StreamEnds, NoTask, Fresh, ingestVars, BooksInv, Busy
    <3> QED BY <1>2, <3>1, <3>2
  <2>4. \A v \in {w} :
           /\ job'[v].pc = "idle" /\ run'[v].phase # "ingest"
           /\ run'[v].mode \in {"request", "poll"} => Booked(run'[v], rows, chunks, backend)
           /\ \A n \in run'[v].recs :
                 n \in run[v].recs \/ (job[v].pc # "idle" /\ n = job[v].rec)
    BY <2>3
  <2> QED BY <1>0, <2>1, <2>2, <2>4, EndKeepsBooks DEF SameTask
<1> QED BY <1>1, <1>2

\* What clients, operators and crashes do: tasks begin with an empty book or
\* go, and the rows stay.
LEMMA EnvironmentKeepsBooks ==
    ASSUME TypeOK, TypeOK', StoreInv, BooksInv, Environment
    PROVE  BooksInv'
<1>0. /\ run \in [Workers -> Tasks] /\ job \in [Workers -> Jobs]
      /\ \A v \in Workers : {v} \in SUBSET Workers
  BY DEF TypeOK, IngestTypeOK
\* The workers in V are idle, with no task or a fresh one.
<1> DEFINE Blanked(v) ==
              /\ job'[v].pc = "idle"
              /\ \/ run'[v] = NoTask
                 \/ \E m \in Modes, b \in Bindings, p \in {"tick", "lookup"} : run'[v] = Fresh(m, b, p)
                 \/ \E b \in Bindings : run'[v] = Fresh("subscribe", b, "next")
<1>1. ASSUME NEW V \in SUBSET Workers, UNCHANGED <<backend, rows, nextRec>>,
             \/ UNCHANGED <<chunks, created>>
             \/ backend = "memory" /\ chunks' = [s \in Schemas |-> {}],
             \A v \in Workers \ V : SameTask(run'[v], run[v]) /\ job'[v] = job[v],
             \A v \in V : Blanked(v)
      PROVE  BooksInv'
  <2> DEFINE W == {v \in V : Blanked(v)}
  <2>1. W \in SUBSET Workers /\ \A v \in Workers \ W : SameTask(run'[v], run[v]) /\ job'[v] = job[v]
    BY <1>1
  <2>2. ASSUME NEW v \in W
        PROVE  /\ job'[v].pc = "idle" /\ run'[v].phase # "ingest"
               /\ run'[v].mode \in {"request", "poll"} => Booked(run'[v], rows, chunks, backend)
               /\ \A n \in run'[v].recs :
                     n \in run[v].recs \/ (job[v].pc # "idle" /\ n = job[v].rec)
    <3>1. CASE run'[v] = NoTask
      BY <3>1 DEF NoTask, Fresh
    <3>2. CASE \E m \in Modes, b \in Bindings, p \in {"tick", "lookup"} : run'[v] = Fresh(m, b, p)
      <4>1. PICK m \in Modes, b \in Bindings, p \in {"tick", "lookup"} : run'[v] = Fresh(m, b, p)
        BY <3>2
      <4>2. Booked(run'[v], rows, chunks, backend)
        BY <4>1, FreshBooked
      <4>3. run'[v].phase = p /\ run'[v].recs = {}
        BY <4>1 DEF Fresh
      <4> QED BY <4>2, <4>3
    <3>3. CASE \E b \in Bindings : run'[v] = Fresh("subscribe", b, "next")
      BY <3>3 DEF Fresh
    <3> QED BY <3>1, <3>2, <3>3
  <2> HIDE DEF W
  <2> QED BY <1>1, <2>1, <2>2, EndKeepsBooks
<1>2. CASE \/ \E b \in Bindings : Register(b) \/ Deregister(b) \/ SkipSubscribe(b)
           \/ StartBackground \/ Started
  <2>1. UNCHANGED <<backend, rows, nextRec, chunks, created, job, run>>
    BY <1>2 DEF Register, Deregister, SkipSubscribe, StartBackground, Started, ingestVars
  <2>2. \A v \in Workers \ {} : SameTask(run'[v], run[v]) /\ job'[v] = job[v]
    BY <2>1 DEF SameTask
  <2>3. {} \in SUBSET Workers /\ \A v \in {} : Blanked(v)
    OBVIOUS
  <2> HIDE DEF Blanked
  <2> QED BY <1>1, <2>1, <2>2, <2>3
<1>3. ASSUME NEW w \in Workers, NEW b \in Bindings,
             RequestSync(w, b) \/ SpawnPoll(w, b) \/ SpawnSubscribe(w, b)
      PROVE  BooksInv'
  <2>1. UNCHANGED <<backend, rows, nextRec, chunks, created, job>> /\ run[w].mode = "free"
    BY <1>3 DEF RequestSync, SpawnPoll, SpawnSubscribe, Spawn, ingestVars
  <2>2. \/ run' = [run EXCEPT ![w] = Fresh("request", b, "lookup")]
        \/ run' = [run EXCEPT ![w] = Fresh("poll", b, "tick")]
        \/ run' = [run EXCEPT ![w] = Fresh("subscribe", b, "next")]
    BY <1>3 DEF RequestSync, SpawnPoll, SpawnSubscribe, Spawn
  <2>3. job'[w].pc = "idle"
    BY <2>1 DEF BooksInv, Busy
  <2>4. \A v \in {w} : Blanked(v)
    <3>1. \/ run'[w] = Fresh("request", b, "lookup") \/ run'[w] = Fresh("poll", b, "tick")
          \/ run'[w] = Fresh("subscribe", b, "next")
      BY <1>0, <2>2
    <3> QED BY <2>3, <3>1 DEF Modes
  <2>5. \A v \in Workers \ {w} : SameTask(run'[v], run[v]) /\ job'[v] = job[v]
    BY <1>0, <2>1, <2>2 DEF SameTask
  <2> QED BY <1>0, <1>1, <2>1, <2>4, <2>5
<1>4. ASSUME NEW w \in Workers, DropRequest(w) \/ Cancel(w)
      PROVE  BooksInv'
  <2>1. /\ Abandon({w}) /\ UNCHANGED <<backend, rows, nextRec, chunks, created>>
        /\ run' = [run EXCEPT ![w] = NoTask]
    BY <1>4 DEF DropRequest, Cancel
  <2>2. \A v \in {w} : Blanked(v)
    BY <1>0, <2>1 DEF Abandon, NoJob
  <2>3. \A v \in Workers \ {w} : SameTask(run'[v], run[v]) /\ job'[v] = job[v]
    BY <1>0, <2>1 DEF Abandon, SameTask
  <2> QED BY <1>0, <1>1, <2>1, <2>2, <2>3
<1>5. CASE Shutdown
  <2>1. PICK polled \in SUBSET Workers, loops \in SUBSET Workers :
           /\ run' = [v \in Workers |-> IF v \in polled THEN [run[v] EXCEPT !.life = "aborted"]
                                       ELSE IF v \in loops THEN NoTask ELSE run[v]]
           /\ Abandon(loops \ polled)
    <3>1. {w \in handles : run[w].mode \in Background} \in SUBSET Workers
      BY DEF TypeOK
    <3>2. \A X \in SUBSET {w \in handles : run[w].mode \in Background} : X \in SUBSET Workers
      BY <3>1
    <3> QED BY <1>5, <3>1, <3>2 DEF Shutdown, AbortAll
  <2>2. UNCHANGED <<backend, rows, nextRec, chunks, created>>
    BY <1>5 DEF Shutdown, AbortAll
  <2>3. \A v \in loops \ polled : Blanked(v)
    BY <2>1 DEF Abandon, NoJob
  <2>4. ASSUME NEW v \in Workers \ (loops \ polled)
        PROVE  SameTask(run'[v], run[v]) /\ job'[v] = job[v]
    <3>1. run'[v] = run[v] \/ run'[v] = [run[v] EXCEPT !.life = "aborted"]
      BY <2>1
    <3>2. run[v] \in Tasks
      BY <1>0
    <3>3. SameTask(run'[v], run[v])
      BY <3>1, <3>2 DEF SameTask, Tasks
    <3> QED BY <2>1, <3>3 DEF Abandon
  <2> QED BY <1>1, <2>2, <2>3, <2>4
<1>6. CASE Crash
  <2>1. /\ Abandon(Workers) /\ run' = [w \in Workers |-> NoTask]
        /\ UNCHANGED <<backend, rows, nextRec>>
    BY <1>6 DEF Crash, StoresAfterRestart
  <2>2. \/ UNCHANGED <<chunks, created>>
        \/ backend = "memory" /\ chunks' = [s \in Schemas |-> {}]
    BY <1>6 DEF Crash, StoresAfterRestart
  <2>3. \A v \in Workers : Blanked(v)
    BY <2>1 DEF Abandon, NoJob
  <2>4. \A v \in Workers \ Workers : SameTask(run'[v], run[v]) /\ job'[v] = job[v]
    OBVIOUS
  <2> QED BY <1>1, <2>1, <2>2, <2>3, <2>4
<1> QED BY <1>2, <1>3, <1>4, <1>5, <1>6 DEF Environment

LEMMA BooksInductive ==
    /\ Init => BooksInv
    /\ TypeOK /\ TypeOK' /\ StoreInv /\ BooksInv /\ [Next]_vars => BooksInv'
<1>1. ASSUME Init PROVE BooksInv
  <2>1. /\ \A w \in Workers : run[w] = NoTask /\ job[w] = NoJob
        /\ \A s \in Schemas : chunks[s] = {}
    BY <1>1 DEF Init, IngestInit
  <2>2. \A w \in Workers : ~Syncing(w) /\ run[w].phase = "done" /\ run[w].recs = {} /\ job[w].pc = "idle"
    <3>1. NoTask.mode = "free" /\ NoTask.phase = "done" /\ NoTask.recs = {} /\ NoJob.pc = "idle"
      BY DEF NoTask, Fresh, NoJob
    <3> QED BY <2>1, <3>1 DEF Syncing
  <2> QED BY <2>1, <2>2 DEF BooksInv, Busy, Claims, JobStores, JobRows, JobChunks, Collections,
          Books, BeforeWrite, PastRow
<1>2. ASSUME TypeOK, TypeOK', StoreInv, BooksInv, [Next]_vars PROVE BooksInv'
  <2>1. CASE UNCHANGED vars
    <3>1. UNCHANGED <<backend, rows, nextRec, chunks, created, job, run>>
      BY <2>1 DEF vars
    <3> QED BY <1>2, <3>1 DEF BooksInv, Busy, Claims, JobStores, JobRows, JobChunks, Collections,
          Books, Syncing
  <2>2. CASE Environment
    BY <1>2, <2>2, EnvironmentKeepsBooks
  <2>3. ASSUME NEW w \in Workers, TaskStep(w) PROVE BooksInv'
    <3>1. CASE Pipeline(w)
      BY <1>2, <3>1, PipelineKeepsBooks DEF Pipeline, runtimeVars
    <3>2. CASE SubscribeUpsert(w) \/ SubscribeAbsorb(w) \/ StreamEnds(w)
      BY <1>2, <3>2, SubscribeKeepsBooks
    <3>3. CASE \/ Lookup(w) \/ List(w) \/ ListFails(w) \/ NextResource(w) \/ Absorb(w)
               \/ EndOfList(w) \/ Return(w) \/ Tick(w)
      BY <1>2, <3>3, SyncKeepsBooks
    <3> QED BY <2>3, <3>1, <3>2, <3>3 DEF TaskStep
  <2> QED BY <1>2, <2>1, <2>2, <2>3 DEF Next
<1> QED BY <1>1, <1>2

LEMMA BooksInvariant == Spec => [](TypeOK /\ StoreInv /\ BooksInv)
<1>1. TypeOK /\ StoreInv /\ BooksInv /\ [Next]_vars => (TypeOK /\ StoreInv /\ BooksInv)'
  BY TypeInductive, StoreInductive, BooksInductive
<1>2. Init => TypeOK /\ StoreInv /\ BooksInv
  BY InitType, StoreInductive, BooksInductive
<1> QED BY <1>1, <1>2, PTL DEF Spec

(***************************************************************************)
(* The counters of every SyncOutcome tell what the stores hold, at every   *)
(* await, for any number of workers that sync, poll, subscribe, crash or   *)
(* are dropped at the same time.                                           *)
(***************************************************************************)
THEOREM SyncsAreAccounted == Spec => []SyncAccounting
<1>1. BooksInv => SyncAccounting
  <2> SUFFICES ASSUME BooksInv, NEW w \in Workers, Syncing(w)
               PROVE  /\ run[w].seen = run[w].ingested + run[w].failed
                                       + (IF run[w].phase = "ingest" THEN 1 ELSE 0)
                      /\ run[w].seen + Cardinality(run[w].pending) = Cardinality(run[w].listed)
                      /\ run[w].ingested = Cardinality(run[w].recs)
                      /\ backend = "qdrant" => run[w].chunks = Cardinality(MyChunks(run[w], chunks))
    BY DEF SyncAccounting, MyChunks
  <2> QED BY DEF BooksInv, Books, Booked, Counted, ChunksKept
<1> QED BY <1>1, BooksInvariant, PTL

(***************************************************************************)
(* A sync that answers "completed" has one row per listed resource, except *)
(* as many as it says failed, whatever ran beside it.                      *)
(***************************************************************************)
THEOREM CompletedSyncsCoverTheirList == Spec => []CompletedCoversList
<1>1. TypeOK /\ BooksInv => CompletedCoversList
  <2> SUFFICES ASSUME TypeOK, BooksInv, NEW w \in Workers, Syncing(w),
                      run[w].phase = "done", run[w].kind = "completed"
               PROVE  /\ MyDocs(run[w], rows) \subseteq run[w].listed
                      /\ Cardinality(Mine(run[w], rows)) = Cardinality(MyDocs(run[w], rows))
                      /\ Cardinality(run[w].listed) = Cardinality(Mine(run[w], rows)) + run[w].failed
    BY DEF CompletedCoversList, Mine, MyDocs
  <2>1. Booked(run[w], rows, chunks, backend)
    BY DEF BooksInv, Books
  <2>2. run[w].ingested \in Nat /\ run[w].failed \in Nat /\ run[w].seen \in Nat
    BY DEF TypeOK, Tasks
  <2>3. run[w].pending = {} /\ Cardinality(run[w].pending) = 0
    BY <2>1, FS_EmptySet DEF Booked, Counted
  <2> QED BY <2>1, <2>2, <2>3 DEF Booked, Counted, RowsKept
<1> QED BY <1>1, BooksInvariant, PTL


-----------------------------------------------------------------------------
(***************************************************************************)
(* The chunker: for every body, budget and overlap, no paragraph is lost   *)
(* or cut, and a chunk exceeds the budget only by the overlap and its one  *)
(* paragraph.                                                              *)
(*                                                                         *)
(* Both properties speak of finished chunks.  The invariant adds what holds *)
(* of the chunk being filled: it holds every paragraph that no pushed chunk *)
(* holds, ends where the last paragraph ends, and keeps the budget already. *)
(***************************************************************************)

\* Every paragraph taken is in a chunk or in the one being filled.
ParagraphsKept ==
    \A p \in paragraphs : \/ to > 0 /\ from <= p.from /\ p.to <= to
                          \/ \E c \in pushed : Holds(c, p)

WithinBudget(c) ==
    \/ Tokens(c.to - c.from) <= max_tokens
    \/ \E p \in paragraphs : p.to = c.to /\ p.from - c.from <= 4 * overlap + Sep

\* The chunk being filled could be pushed as it is.
Fits == to > 0 => WithinBudget([from |-> from, to |-> to])

ChunkInv == ChunkTypeOK /\ ParagraphsKept /\ Fits /\ BudgetKept

LEMMA ChunkTypeInit == ChunkInit => ChunkTypeOK
  BY ChunkerAssumption DEF ChunkInit, ChunkTypeOK, Stretch

\* Where a chunk begins after a split, and that it holds the paragraph then.
LEMMA CarriedFacts ==
  ASSUME ChunkTypeOK, to > 0, NEW begin \in Carried
  PROVE  /\ begin \in Nat /\ begin <= to + Sep
         /\ to + Sep - begin <= 4 * overlap + Sep
<1>1. max_tokens \in Nat /\ overlap \in Nat /\ from \in Nat /\ to \in Nat /\ from < to
  BY DEF ChunkTypeOK
<1>2. CASE overlap = 0
  BY <1>1, <1>2 DEF Carried, Sep
<1>3. CASE overlap # 0 /\ to - from <= 4 * overlap
  BY <1>1, <1>3 DEF Carried, Sep
<1>4. CASE overlap # 0 /\ ~(to - from <= 4 * overlap)
  <2>1. begin \in (to - 4 * overlap)..(to - 4 * overlap + 3)
    BY <1>4 DEF Carried
  <2> QED
    BY <1>1, <1>4, <2>1 DEF Sep
<1> QED
  BY <1>2, <1>3, <1>4

\* The paragraph that a step takes.
LEMMA HeadFacts ==
  ASSUME ChunkTypeOK, rest # <<>>
  PROVE  Head(rest) \in Nat \ {0} /\ Tail(rest) \in Seq(Nat \ {0})
  BY DEF ChunkTypeOK

LEMMA ChunkTypeNext == ChunkTypeOK /\ [ChunkNext]_chunkVars => ChunkTypeOK'
<1> SUFFICES ASSUME ChunkTypeOK, [ChunkNext]_chunkVars PROVE ChunkTypeOK'
  OBVIOUS
<1>0. max_tokens \in Nat /\ overlap \in Nat /\ from \in Nat /\ to \in Nat
      /\ (IF to = 0 THEN from = 0 ELSE from < to) /\ pushed \subseteq Stretch /\ paragraphs \subseteq Stretch
  BY DEF ChunkTypeOK
<1>1. ASSUME NEW begin \in Nat, NEW at \in Nat, begin <= at, rest # <<>>, Take(begin, at)
      PROVE  /\ UNCHANGED <<max_tokens, overlap>>
             /\ rest' \in Seq(Nat \ {0})
             /\ from' \in Nat /\ to' \in Nat /\ from' < to'
             /\ paragraphs' \subseteq Stretch
  BY <1>0, <1>1, HeadFacts DEF Take, Stretch
<1>2. CASE Grow
  <2>1. CASE to = 0
    BY <1>0, <1>1, <1>2, <2>1 DEF Grow, ChunkTypeOK
  <2>2. CASE to # 0
    BY <1>0, <1>1, <1>2, <2>2 DEF Grow, ChunkTypeOK, Sep
  <2> QED BY <2>1, <2>2
<1>3. CASE Split
  <2>1. to > 0 /\ rest # <<>>
    BY <1>3 DEF Split, OverBudget
  <2>2. PICK begin \in Carried : Take(begin, to + Sep)
    BY <1>3 DEF Split
  <2>3. begin \in Nat /\ begin <= to + Sep /\ to + Sep \in Nat
    BY <1>0, <2>1, CarriedFacts DEF Sep
  <2>4. pushed' \subseteq Stretch
    BY <1>0, <1>3 DEF Split, Stretch
  <2> QED
    BY <1>0, <1>1, <2>1, <2>2, <2>3, <2>4 DEF ChunkTypeOK
<1>4. CASE Finish
  BY <1>0, <1>4 DEF Finish, ChunkTypeOK, Stretch
<1>5. CASE UNCHANGED chunkVars
  BY <1>5 DEF chunkVars, ChunkTypeOK
<1> QED
  BY <1>2, <1>3, <1>4, <1>5 DEF ChunkNext

\* The loop never computes a stretch that is empty or begins before the body.
THEOREM ChunkTypeCorrect == ChunkSpec => []ChunkTypeOK
<1> QED
  BY ChunkTypeInit, ChunkTypeNext, PTL DEF ChunkSpec

LEMMA ChunkInvInit == ChunkInit => ChunkInv
  BY ChunkTypeInit DEF ChunkInit, ChunkInv, ParagraphsKept, Fits, BudgetKept

\* Whatever step is taken, the chunk it leaves being filled keeps the budget.
LEMMA FitsNext ==
  ASSUME ChunkInv, ChunkNext
  PROVE  Fits'
<1>0. max_tokens \in Nat /\ overlap \in Nat /\ from \in Nat /\ to \in Nat
      /\ (IF to = 0 THEN from = 0 ELSE from < to)
  BY DEF ChunkInv, ChunkTypeOK
<1>1. CASE Grow
  <2> DEFINE at == IF to = 0 THEN 0 ELSE to + Sep
  <2>1. /\ rest # <<>> /\ ~OverBudget(Head(rest)) /\ Head(rest) \in Nat \ {0}
        /\ from' = from /\ to' = at + Head(rest)
        /\ [from |-> at, to |-> at + Head(rest)] \in paragraphs'
        /\ UNCHANGED <<max_tokens, overlap>>
    BY <1>1, HeadFacts DEF Grow, Take, ChunkInv
  <2>2. CASE to = 0
    <3>1. at = 0 /\ at - from <= 4 * overlap + Sep
      BY <1>0, <2>2 DEF Sep
    <3> DEFINE p == [from |-> at, to |-> at + Head(rest)]
    <3>2. p \in paragraphs' /\ p.to = to' /\ p.from - from' <= 4 * overlap' + Sep
      BY <2>1, <3>1
    <3> HIDE DEF p
    <3> QED
      BY <3>2 DEF Fits, WithinBudget
  <2>3. CASE to # 0
    <3>1. Tokens(to - from + Sep + Head(rest)) <= max_tokens
      <4>1. Tokens(to - from + Sep + Head(rest)) \in Int
        BY <1>0, <2>1 DEF Tokens, Sep
      <4> QED BY <1>0, <2>1, <2>3, <4>1 DEF OverBudget
    <3>2. to' - from' = to - from + Sep + Head(rest)
      BY <1>0, <2>1, <2>3 DEF Sep
    <3> QED
      BY <2>1, <3>1, <3>2 DEF Fits, WithinBudget
  <2> QED BY <2>2, <2>3
<1>2. CASE Split
  <2>1. to > 0 /\ rest # <<>>
    BY <1>2 DEF Split, OverBudget
  <2>2. PICK begin \in Carried : Take(begin, to + Sep)
    BY <1>2 DEF Split
  <2> DEFINE p == [from |-> to + Sep, to |-> to + Sep + Head(rest)]
             now == [from |-> from', to |-> to']
  <2>3. begin \in Nat /\ to + Sep - begin <= 4 * overlap + Sep
    BY <2>1, CarriedFacts DEF ChunkInv
  <2>4. /\ p \in paragraphs' /\ p.to = now.to /\ overlap' = overlap
        /\ p.from = to + Sep /\ now.from = begin
    BY <2>2 DEF Take
  <2>5. p.from - now.from <= 4 * overlap' + Sep
    BY <1>0, <2>3, <2>4 DEF Sep
  <2> HIDE DEF p
  <2> QED
    BY <2>4, <2>5 DEF Fits, WithinBudget
<1>3. CASE Finish
  BY <1>3 DEF Finish, Fits
<1> QED
  BY <1>1, <1>2, <1>3 DEF ChunkNext

LEMMA ChunkInvNext == ChunkInv /\ [ChunkNext]_chunkVars => ChunkInv'
<1> SUFFICES ASSUME ChunkInv, [ChunkNext]_chunkVars PROVE ChunkInv'
  OBVIOUS
<1>0. /\ max_tokens \in Nat /\ overlap \in Nat /\ from \in Nat /\ to \in Nat
      /\ (IF to = 0 THEN from = 0 ELSE from < to)
      /\ \A p \in paragraphs : p.from \in Nat /\ p.to \in Nat
  BY DEF ChunkInv, ChunkTypeOK, Stretch
<1>1. ChunkTypeOK'
  BY ChunkTypeNext DEF ChunkInv
<1>2. CASE UNCHANGED chunkVars
  BY <1>1, <1>2 DEF chunkVars, ChunkInv, ParagraphsKept, Fits, BudgetKept, WithinBudget, Holds
<1>3. CASE ChunkNext
  <2>1. Fits'
    BY <1>3, FitsNext
  <2>2. /\ pushed \subseteq pushed' /\ paragraphs \subseteq paragraphs'
        /\ UNCHANGED <<max_tokens, overlap>>
        /\ \A c \in pushed' \ pushed : to > 0 /\ c = [from |-> from, to |-> to]
    BY <1>3 DEF ChunkNext, Grow, Split, Finish, Take, OverBudget
  <2>3. BudgetKept'
    <3>1. \A c \in pushed : WithinBudget(c)
      BY DEF ChunkInv, BudgetKept, WithinBudget
    <3>2. \A c \in pushed' \ pushed : WithinBudget(c)
      BY <2>2 DEF ChunkInv, Fits
    <3> QED
      BY <2>2, <3>1, <3>2 DEF BudgetKept, WithinBudget
  <2>4. ParagraphsKept'
    <3>1. CASE Grow
      BY <1>0, <3>1, HeadFacts DEF ChunkInv, ParagraphsKept, Grow, Take, Sep
    <3>2. CASE Split
      <4>1. to > 0 /\ rest # <<>> /\ Head(rest) \in Nat \ {0}
        BY <3>2, HeadFacts DEF Split, OverBudget, ChunkInv
      <4>2. PICK begin \in Carried : Take(begin, to + Sep)
        BY <3>2 DEF Split
      <4>3. begin \in Nat /\ begin <= to + Sep
        BY <4>1, CarriedFacts DEF ChunkInv
      <4>4. [from |-> from, to |-> to] \in pushed' /\ pushed \subseteq pushed'
        BY <3>2 DEF Split
      <4>5. \A p \in paragraphs : \E c \in pushed' : Holds(c, p)
        BY <4>4 DEF ChunkInv, ParagraphsKept, Holds
      <4> DEFINE q == [from |-> to + Sep, to |-> to + Sep + Head(rest)]
      <4>6. paragraphs' = paragraphs \cup {q} /\ from' = begin /\ to' = to + Sep + Head(rest)
        BY <4>2 DEF Take
      <4>7. to' > 0 /\ from' <= q.from /\ q.to <= to'
        BY <1>0, <4>1, <4>3, <4>6 DEF Sep
      <4> HIDE DEF q
      <4> QED
        BY <4>5, <4>6, <4>7 DEF ParagraphsKept, Holds
    <3>3. CASE Finish
      <4>1. [from |-> from, to |-> to] \in pushed' /\ pushed \subseteq pushed'
            /\ paragraphs' = paragraphs
        BY <3>3 DEF Finish
      <4> QED
        BY <4>1 DEF ChunkInv, ParagraphsKept, Holds
    <3> QED
      BY <1>3, <3>1, <3>2, <3>3 DEF ChunkNext
  <2> QED
    BY <1>1, <2>1, <2>3, <2>4 DEF ChunkInv
<1> QED
  BY <1>2, <1>3

LEMMA ChunkInductive == ChunkSpec => []ChunkInv
<1> QED
  BY ChunkInvInit, ChunkInvNext, PTL DEF ChunkSpec

\* Chunking a body loses no passage and cuts no paragraph in two.
THEOREM NothingIsLost == ChunkSpec => []ParagraphsAreWhole
<1>1. ChunkInv => ParagraphsAreWhole
  BY DEF ChunkInv, ParagraphsKept, ParagraphsAreWhole, Finished
<1> QED
  BY <1>1, ChunkInductive, PTL

\* How far a chunk may exceed max_tokens.
THEOREM ChunksKeepBudget == ChunkSpec => []BudgetKept
<1>1. ChunkInv => BudgetKept
  BY DEF ChunkInv
<1> QED
  BY <1>1, ChunkInductive, PTL
=============================================================================
