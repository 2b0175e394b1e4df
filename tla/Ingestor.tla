------------------------------ MODULE Ingestor ------------------------------
(***************************************************************************)
(* The ingestion pipeline of sealstack-engine (ingest.rs) over its two     *)
(* stores: the Postgres table of the target schema and the vector-store    *)
(* collection (memory.rs or qdrant.rs).                                    *)
(*                                                                         *)
(* A worker is whatever runs one Ingestor::ingest call at a time: a REST   *)
(* sync, a poll loop or a subscribe loop.  Every `.await` of ingest is a   *)
(* step boundary, so the calls of several workers interleave between       *)
(*     row upsert -> ensure collection -> embed -> chunk upsert            *)
(* and no step undoes an earlier one: the two stores share no transaction. *)
(* Ingestor::delete, which removes the row alone, has no caller.           *)
(***************************************************************************)
EXTENDS Naturals, FiniteSets

CONSTANTS
    Workers,        \* tasks that call Ingestor::ingest
    Schemas,        \* target schemas; each has one table and one collection
    Tenants,        \* tenant strings of the connector bindings
    Docs,           \* source resources
    ChunkCount,     \* ChunkCount[d]: chunks chunk_body makes of d's body
    Backends,       \* the vector stores a deployment may choose between
    Provisioned     \* collections that already exist at boot

ASSUME IngestorAssumption ==
    /\ ChunkCount \in [Docs -> Nat]
    /\ Backends \subseteq {"memory", "qdrant"}
    /\ Provisioned \subseteq Schemas
    /\ Docs # {} /\ Tenants # {} /\ Schemas # {}

VARIABLES
    backend,        \* which VectorStore the gateway was started with
    rows,           \* the schema tables
    chunks,         \* chunks[s]: contents of the collection of schema s
    created,        \* collections that exist in the vector store
    ensured,        \* Ingestor::ensured_collections, the memo of this process
    job,            \* job[w]: the ingest call worker w is in
    nextRec         \* the next record Ulid

ingestVars == <<backend, rows, chunks, created, ensured, job, nextRec>>

Rows == [rec : Nat, doc : Docs, tenant : Tenants, schema : Schemas]
Chunks == [rec : Nat, seq : Nat, tenant : Tenants]

Steps == {"idle", "row", "ensure", "look", "create", "embed", "write", "ok", "err"}
Jobs == [pc : Steps, rec : Nat, doc : Docs, tenant : Tenants, schema : Schemas]

\* The chunks of one ingest call: a metadata map naming the row, the position
\* in the body and the tenant, one per piece of the body.
ChunksOf(j) ==
    {[rec |-> j.rec, seq |-> i, tenant |-> j.tenant] : i \in 0..(ChunkCount[j.doc] - 1)}

RowOf(j) == [rec |-> j.rec, doc |-> j.doc, tenant |-> j.tenant, schema |-> j.schema]

NoJob == [pc |-> "idle", rec |-> 0, doc |-> CHOOSE d \in Docs : TRUE,
          tenant |-> CHOOSE t \in Tenants : TRUE, schema |-> CHOOSE s \in Schemas : TRUE]

At(w, pc) == job[w].pc = pc
Goto(w, pc) == job' = [job EXCEPT ![w].pc = pc]

IngestInit ==
    /\ backend \in Backends
    /\ rows = {}
    /\ created = IF backend = "qdrant" THEN Provisioned ELSE {}
    /\ chunks = [s \in Schemas |-> {}]
    /\ ensured = {}
    /\ job = [w \in Workers |-> NoJob]
    /\ nextRec = 1

-----------------------------------------------------------------------------
(* Ingestor::ingest, one action per await.                                 *)

\* Mutation: the record id is not fresh.
BeginIngestStaleId(w, d, t, s) ==
    /\ At(w, "idle")
    /\ job' = [job EXCEPT ![w] = [pc |-> "row", rec |-> nextRec, doc |-> d,
                                  tenant |-> t, schema |-> s]]
    /\ nextRec' \in {nextRec, nextRec + 1}

\* A fresh Ulid names the record; the source's own id plays no part in it.
BeginIngest(w, d, t, s) ==
    /\ At(w, "idle")
    /\ job' = [job EXCEPT ![w] = [pc |-> "row", rec |-> nextRec, doc |-> d,
                                  tenant |-> t, schema |-> s]]
    /\ nextRec' = nextRec + 1

\* upsert_row commits on its own.  A body that chunks to nothing ends here.
UpsertRow(w) ==
    /\ At(w, "row")
    /\ rows' = {r \in rows : r.rec # job[w].rec \/ r.schema # job[w].schema}
               \cup {RowOf(job[w])}
    /\ Goto(w, IF ChunkCount[job[w].doc] = 0 THEN "ok" ELSE "ensure")
    /\ UNCHANGED <<backend, chunks, created, ensured, nextRec>>

\* Mutation: the error of the row upsert is logged and the pipeline goes on.
UpsertRowFailsIgnored(w) ==
    /\ At(w, "row")
    /\ rows' \in {rows, rows \cup {RowOf(job[w])}}
    /\ Goto(w, "ensure")
    /\ UNCHANGED <<backend, chunks, created, ensured, nextRec>>

\* The statement is refused, or committed with its answer lost.
UpsertRowFails(w) ==
    /\ At(w, "row")
    /\ rows' \in {rows, rows \cup {RowOf(job[w])}}
    /\ Goto(w, "err")
    /\ UNCHANGED <<backend, chunks, created, ensured, nextRec>>

\* ensure_collection consults the memo first ...
EnsureMemo(w) ==
    /\ At(w, "ensure")
    /\ Goto(w, IF job[w].schema \in ensured THEN "embed" ELSE "look")
    /\ UNCHANGED <<backend, rows, chunks, created, ensured, nextRec>>

\* ... then asks the store whether the collection exists ...
EnsureLook(w) ==
    /\ At(w, "look")
    /\ IF job[w].schema \in created
       THEN ensured' = ensured \cup {job[w].schema} /\ Goto(w, "embed")
       ELSE ensured' = ensured /\ Goto(w, "create")
    /\ UNCHANGED <<backend, rows, chunks, created, nextRec>>

\* ... and creates it from what that answer said.  The in-memory store has let
\* go of the map entry by now and inserts an empty collection over whatever is
\* there; Qdrant refuses to create a collection twice.
EnsureCreate(w) ==
    LET s == job[w].schema IN
    /\ At(w, "create")
    /\ backend = "qdrant" => s \notin created
    /\ created' = created \cup {s}
    /\ chunks' = [chunks EXCEPT ![s] = {}]
    /\ ensured' = ensured \cup {s}
    /\ Goto(w, "embed")
    /\ UNCHANGED <<backend, rows, nextRec>>

\* The lookup or the creation fails: the backend is out of reach, or another
\* worker created the Qdrant collection first.
EnsureFails(w) ==
    /\ \/ At(w, "look")
       \/ At(w, "create") /\ backend = "qdrant"
    /\ Goto(w, "err")
    /\ UNCHANGED <<backend, rows, chunks, created, ensured, nextRec>>

Embed(w) ==
    /\ At(w, "embed")
    /\ Goto(w, "write")
    /\ UNCHANGED <<backend, rows, chunks, created, ensured, nextRec>>

\* The embedder fails, or answers with the wrong number of vectors.
EmbedFails(w) ==
    /\ At(w, "embed")
    /\ Goto(w, "err")
    /\ UNCHANGED <<backend, rows, chunks, created, ensured, nextRec>>

\* All chunks of the call go up in one upsert.
WriteChunks(w) ==
    /\ At(w, "write")
    /\ job[w].schema \in created
    /\ chunks' = [chunks EXCEPT ![job[w].schema] = @ \cup ChunksOf(job[w])]
    /\ Goto(w, "ok")
    /\ UNCHANGED <<backend, rows, created, ensured, nextRec>>

\* Mutation: the chunks go up one by one and the failure stops in between.
WriteChunksFailsHalfway(w) ==
    /\ At(w, "write")
    /\ job[w].schema \in created
    /\ \E some \in SUBSET ChunksOf(job[w]) :
          chunks' = [chunks EXCEPT ![job[w].schema] = @ \cup some]
    /\ Goto(w, "err")
    /\ UNCHANGED <<backend, rows, created, ensured, nextRec>>

\* Dimensions differ, or Qdrant fails: before the points are stored, or after
\* with the answer lost.
WriteChunksFails(w) ==
    /\ At(w, "write")
    /\ \/ UNCHANGED chunks
       \/ /\ backend = "qdrant"
          /\ job[w].schema \in created
          /\ chunks' = [chunks EXCEPT ![job[w].schema] = @ \cup ChunksOf(job[w])]
    /\ Goto(w, "err")
    /\ UNCHANGED <<backend, rows, created, ensured, nextRec>>

IngestStep(w) ==
    \/ UpsertRow(w) \/ UpsertRowFails(w)
    \/ EnsureMemo(w) \/ EnsureLook(w) \/ EnsureCreate(w) \/ EnsureFails(w)
    \/ Embed(w) \/ EmbedFails(w)
    \/ WriteChunks(w) \/ WriteChunksFails(w)

\* The futures of the workers in W are dropped where they stand.
Abandon(W) == job' = [w \in Workers |-> IF w \in W THEN NoJob ELSE job[w]]

\* The process dies and starts again: the memo goes, and with it an in-memory
\* vector store; Postgres and Qdrant keep what they committed.
StoresAfterRestart ==
    /\ ensured' = {}
    /\ IF backend = "memory"
       THEN created' = {} /\ chunks' = [s \in Schemas |-> {}]
       ELSE UNCHANGED <<created, chunks>>
    /\ UNCHANGED <<backend, rows, nextRec>>

-----------------------------------------------------------------------------
IngestTypeOK ==
    /\ backend \in Backends
    /\ rows \subseteq Rows
    /\ chunks \in [Schemas -> SUBSET Chunks]
    /\ created \subseteq Schemas
    /\ ensured \subseteq Schemas
    /\ job \in [Workers -> Jobs]
    /\ nextRec \in Nat

\* The steps of ingest that come after the row is committed.
PastRow == {"ensure", "look", "create", "embed", "write"}

(***************************************************************************)
(* A chunk a search can return always leads back to a row: the row it      *)
(* names exists, in the table of the same schema, under the same tenant,   *)
(* and the chunk's position lies inside that row's document.  ingest       *)
(* commits the row first, and nothing in a crash, a lost answer or an      *)
(* abandoned call may leave a chunk of no record.                          *)
(***************************************************************************)
ChunkHasRow ==
    \A s \in Schemas : \A c \in chunks[s] :
        \E r \in rows : /\ r.rec = c.rec
                        /\ r.schema = s
                        /\ r.tenant = c.tenant
                        /\ c.seq < ChunkCount[r.doc]

(***************************************************************************)
(* A document is in the index whole or not at all, so a retrieval never    *)
(* ranks half of a body, whichever step of ingest failed or was dropped.   *)
(***************************************************************************)
WholeDocument ==
    \A s \in Schemas : \A c \in chunks[s] :
        \E r \in rows : /\ r.rec = c.rec
                        /\ r.schema = s
                        /\ ChunksOf(r) \subseteq chunks[s]

=============================================================================
