---------------------------- MODULE IngestRuntime ----------------------------
(***************************************************************************)
(* The ingest runtime of sealstack-ingest (runtime.rs, registry.rs): it    *)
(* drives registered connector bindings and feeds what they list into the  *)
(* ingestor.  Three kinds of worker share the one Ingestor of the engine:  *)
(*   request    a REST or CLI call of sync_once                            *)
(*   poll       a background loop that calls sync_once on every tick       *)
(*   subscribe  a background loop that forwards a connector's change events *)
(* The gateway drops a request's future when its client goes away or its   *)
(* timeout layer fires; shutdown aborts the background loops and does not  *)
(* wait for them; a crash takes everything that is not in a store.         *)
(***************************************************************************)
EXTENDS Ingestor

CONSTANTS
    Bindings,       \* binding ids "<connector>/<namespace>.<schema>"
    Target,         \* Target[b]: the schema b writes to
    TenantOf,       \* TenantOf[b]: the tenant b stamps
    Polled,         \* bindings with an interval
    Pushing,        \* bindings whose connector returns a change stream
    MaxRecords      \* bound: resources the connectors yield in one behaviour

ASSUME RuntimeAssumption ==
    /\ Target \in [Bindings -> Schemas]
    /\ TenantOf \in [Bindings -> Tenants]
    /\ Polled \subseteq Bindings
    /\ Pushing \subseteq Bindings
    /\ Bindings # {}
    /\ MaxRecords \in Nat

VARIABLES
    registered,     \* ConnectorRegistry
    run,            \* run[w]: the task in slot w
    starting,       \* start_background holds the handle lock; what it has left
    handles         \* slots whose JoinHandle is in background_tasks

runtimeVars == <<registered, run, starting, handles>>
vars == <<backend, rows, chunks, created, ensured, job, nextRec,
          registered, run, starting, handles>>

Modes == {"free", "request", "poll", "subscribe"}
Kinds == {"completed", "failed_list", "not_found"}
Phases == {"tick", "lookup", "list", "next", "ingest", "done"}
Lives == {"kept", "aborted"}

\* A task and the SyncOutcome it is filling in; life tells whether abort() was
\* called on it, recs are the ids of the records this sync was told are
\* ingested, listed what list() yielded.
Tasks == [mode : Modes, life : Lives, binding : Bindings, phase : Phases, kind : Kinds,
          listed : SUBSET Docs, pending : SUBSET Docs, recs : SUBSET Nat,
          seen : Nat, ingested : Nat, failed : Nat, chunks : Nat]

Fresh(m, b, p) ==
    [mode |-> m, life |-> "kept", binding |-> b, phase |-> p, kind |-> "completed",
     listed |-> {}, pending |-> {}, recs |-> {},
     seen |-> 0, ingested |-> 0, failed |-> 0, chunks |-> 0]

NoTask == Fresh("free", CHOOSE b \in Bindings : TRUE, "done")

NotStarting == [poll |-> {}, push |-> {}, held |-> FALSE]

Background == {"poll", "subscribe"}
Is(w, modes, phase) == run[w].mode \in modes /\ run[w].phase = phase

Init ==
    /\ IngestInit
    /\ registered = {}
    /\ run = [w \in Workers |-> NoTask]
    /\ starting = NotStarting
    /\ handles = {}

-----------------------------------------------------------------------------
(* The connector registry.                                                 *)

Register(b) ==
    /\ registered' = registered \cup {b}
    /\ UNCHANGED <<ingestVars, run, starting, handles>>

Deregister(b) ==
    /\ registered' = registered \ {b}
    /\ UNCHANGED <<ingestVars, run, starting, handles>>

-----------------------------------------------------------------------------
(* sync_once and run_sync.                                                 *)

\* POST /v1/connectors/{id}/sync, or the CLI.
RequestSync(w, b) ==
    /\ run[w].mode = "free"
    /\ run' = [run EXCEPT ![w] = Fresh("request", b, "lookup")]
    /\ UNCHANGED <<ingestVars, registered, starting, handles>>

\* The binding is cloned out of the registry, and the target schema resolved,
\* before the first await; either may be missing.
Lookup(w) ==
    LET b == run[w].binding IN
    /\ Is(w, {"request", "poll"}, "lookup")
    /\ \/ /\ b \in registered
          /\ run' = [run EXCEPT ![w].phase = "list"]
       \/ /\ b \in registered
          /\ run' = [run EXCEPT ![w].phase = "done", ![w].kind = "failed_list"]
       \/ /\ b \notin registered
          /\ run' = [run EXCEPT ![w].phase = "done", ![w].kind = "not_found"]
    /\ UNCHANGED <<ingestVars, registered, starting, handles>>

\* The bound is on the sources: what they have yielded and what is still
\* pending in some worker never exceeds MaxRecords, so no sync stops half way.
Pending == UNION {{w} \X run[w].pending : w \in Workers}
RoomFor(n) == (nextRec - 1) + Cardinality(Pending) + n <= MaxRecords

\* The source may hold anything by the time it is listed; a list that ends has
\* yielded finitely much.
List(w) ==
    /\ Is(w, {"request", "poll"}, "list")
    /\ \E listed \in SUBSET Docs :
          /\ IsFiniteSet(listed)
          /\ RoomFor(Cardinality(listed))
          /\ run' = [run EXCEPT ![w].phase = "next", ![w].listed = listed,
                                ![w].pending = listed]
    /\ UNCHANGED <<ingestVars, registered, starting, handles>>

ListFails(w) ==
    /\ Is(w, {"request", "poll"}, "list")
    /\ run' = [run EXCEPT ![w].phase = "done", ![w].kind = "failed_list"]
    /\ UNCHANGED <<ingestVars, registered, starting, handles>>

NextResource(w) ==
    LET b == run[w].binding IN
    /\ Is(w, {"request", "poll"}, "next")
    /\ \E d \in run[w].pending :
          /\ BeginIngest(w, d, TenantOf[b], Target[b])
          /\ run' = [run EXCEPT ![w].phase = "ingest", ![w].pending = @ \ {d},
                                ![w].seen = @ + 1]
    /\ UNCHANGED <<backend, rows, chunks, created, ensured,
                   registered, starting, handles>>

\* Mutation: the failure counter is decremented.
AbsorbUnderflow(w) ==
    /\ Is(w, {"request", "poll"}, "ingest")
    /\ job[w].pc \in {"ok", "err"}
    /\ run' = [run EXCEPT ![w].phase = "next", ![w].failed = @ - 1]
    /\ Abandon({w})
    /\ UNCHANGED <<backend, rows, chunks, created, ensured, nextRec,
                   registered, starting, handles>>

\* Mutation: an ingest that fails is never handed back to the sync.
AbsorbOnlySuccess(w) ==
    /\ Is(w, {"request", "poll"}, "ingest")
    /\ At(w, "ok")
    /\ run' = [run EXCEPT ![w].phase = "next", ![w].ingested = @ + 1,
                          ![w].chunks = @ + ChunkCount[job[w].doc],
                          ![w].recs = @ \cup {job[w].rec}]
    /\ Abandon({w})
    /\ UNCHANGED <<backend, rows, chunks, created, ensured, nextRec,
                   registered, starting, handles>>

\* The outcome of one resource goes into the counters and the loop goes on.
Absorb(w) ==
    /\ Is(w, {"request", "poll"}, "ingest")
    /\ \/ /\ At(w, "ok")
          /\ run' = [run EXCEPT ![w].phase = "next", ![w].ingested = @ + 1,
                                ![w].chunks = @ + ChunkCount[job[w].doc],
                                ![w].recs = @ \cup {job[w].rec}]
       \/ /\ At(w, "err")
          /\ run' = [run EXCEPT ![w].phase = "next", ![w].failed = @ + 1]
    /\ Abandon({w})
    /\ UNCHANGED <<backend, rows, chunks, created, ensured, nextRec,
                   registered, starting, handles>>

EndOfList(w) ==
    /\ Is(w, {"request", "poll"}, "next")
    /\ run[w].pending = {}
    /\ run' = [run EXCEPT ![w].phase = "done"]
    /\ UNCHANGED <<ingestVars, registered, starting, handles>>

\* The poll loop t is back at its ticker, as the task it was.
NextRound(t) == [Fresh("poll", t.binding, "tick") EXCEPT !.life = t.life]

\* Mutation: the poll loop goes on ticking whatever the outcome.
ReturnKeepsPolling(w) ==
    /\ Is(w, {"request", "poll"}, "done")
    /\ run' = [run EXCEPT ![w] = IF run[w].mode = "poll"
                                 THEN NextRound(run[w]) ELSE NoTask]
    /\ UNCHANGED <<ingestVars, registered, starting, handles>>

\* A request answers.  A poll loop waits for its next tick, or exits when the
\* binding was not found.
Return(w) ==
    /\ Is(w, {"request", "poll"}, "done")
    /\ run' = [run EXCEPT ![w] =
                 IF run[w].mode = "poll" /\ run[w].kind # "not_found"
                 THEN NextRound(run[w]) ELSE NoTask]
    /\ UNCHANGED <<ingestVars, registered, starting, handles>>

\* The client disconnects or the gateway's timeout layer fires.
DropRequest(w) ==
    /\ run[w].mode = "request"
    /\ run' = [run EXCEPT ![w] = NoTask]
    /\ Abandon({w})
    /\ UNCHANGED <<backend, rows, chunks, created, ensured, nextRec,
                   registered, starting, handles>>

-----------------------------------------------------------------------------
(* Background loops.                                                       *)

Tick(w) ==
    /\ Is(w, {"poll"}, "tick")
    /\ run' = [run EXCEPT ![w].phase = "lookup"]
    /\ UNCHANGED <<ingestVars, registered, starting, handles>>

\* start_background takes the lock on the handle list and holds it across the
\* awaits of subscribe().
StartBackground ==
    /\ ~starting.held
    /\ starting' = [poll |-> registered \cap Polled, push |-> registered \cap Pushing,
                    held |-> TRUE]
    /\ UNCHANGED <<ingestVars, registered, run, handles>>

\* Spawn a loop into a free slot and keep its handle.
Spawn(w, task) ==
    /\ run[w].mode = "free"
    /\ run' = [run EXCEPT ![w] = task]
    /\ handles' = handles \cup {w}

SpawnPoll(w, b) ==
    /\ b \in starting.poll
    /\ Spawn(w, Fresh("poll", b, "tick"))
    /\ starting' = [starting EXCEPT !.poll = @ \ {b}]
    /\ UNCHANGED <<ingestVars, registered>>

SpawnSubscribe(w, b) ==
    /\ starting.poll = {}
    /\ b \in starting.push
    /\ Spawn(w, Fresh("subscribe", b, "next"))
    /\ starting' = [starting EXCEPT !.push = @ \ {b}]
    /\ UNCHANGED <<ingestVars, registered>>

\* subscribe() of one binding fails, or has no stream after all.
SkipSubscribe(b) ==
    /\ starting.poll = {}
    /\ b \in starting.push
    /\ starting' = [starting EXCEPT !.push = @ \ {b}]
    /\ UNCHANGED <<ingestVars, registered, run, handles>>

Started ==
    /\ starting.held
    /\ starting.poll = {} /\ starting.push = {}
    /\ starting' = NotStarting
    /\ UNCHANGED <<ingestVars, registered, run, handles>>

\* An upsert event is ingested with the schema and binding the loop captured
\* when it began; a delete event changes nothing.
SubscribeUpsert(w) ==
    LET b == run[w].binding IN
    /\ Is(w, {"subscribe"}, "next")
    /\ RoomFor(1)
    /\ \E d \in Docs : BeginIngest(w, d, TenantOf[b], Target[b])
    /\ run' = [run EXCEPT ![w].phase = "ingest"]
    /\ UNCHANGED <<backend, rows, chunks, created, ensured,
                   registered, starting, handles>>

SubscribeAbsorb(w) ==
    /\ Is(w, {"subscribe"}, "ingest")
    /\ job[w].pc \in {"ok", "err"}
    /\ run' = [run EXCEPT ![w].phase = "next"]
    /\ Abandon({w})
    /\ UNCHANGED <<backend, rows, chunks, created, ensured, nextRec,
                   registered, starting, handles>>

StreamEnds(w) ==
    /\ Is(w, {"subscribe"}, "next")
    /\ run' = [run EXCEPT ![w] = NoTask]
    /\ UNCHANGED <<ingestVars, registered, starting, handles>>

\* abort() on every loop a handle names, if it has not ended before.  A loop
\* parked at an await is dropped there: it is never polled again.  One that
\* another thread is polling is only marked, and shutdown does not wait for it.
AbortAll ==
    LET loops == {w \in handles : run[w].mode \in Background} IN
    /\ handles # {}
    /\ \E polled \in SUBSET loops :
          /\ run' = [w \in Workers |-> IF w \in polled THEN [run[w] EXCEPT !.life = "aborted"]
                                      ELSE IF w \in loops THEN NoTask ELSE run[w]]
          /\ Abandon(loops \ polled)
    /\ handles' = {}
    /\ UNCHANGED <<backend, rows, chunks, created, ensured, nextRec,
                   registered, starting>>

\* Mutation: shutdown does not wait for the lock on the handle list.
ShutdownUnlocked == AbortAll

\* shutdown takes the lock and aborts every handle.
Shutdown == ~starting.held /\ AbortAll

\* A marked loop runs on through every await that is ready at once, and ends
\* at the first that is not.
Cancel(w) ==
    /\ run[w].life = "aborted"
    /\ run' = [run EXCEPT ![w] = NoTask]
    /\ Abandon({w})
    /\ UNCHANGED <<backend, rows, chunks, created, ensured, nextRec,
                   registered, starting, handles>>

\* The process dies.  The gateway registers what it finds in
\* sealstack_connectors, a table that deregister leaves alone and that is not
\* read in full when a connector cannot be built or the store is down.
Crash ==
    /\ StoresAfterRestart
    /\ Abandon(Workers)
    /\ run' = [w \in Workers |-> NoTask]
    /\ starting' = NotStarting
    /\ handles' = {}
    /\ registered' \in SUBSET Bindings

-----------------------------------------------------------------------------
Pipeline(w) == IngestStep(w) /\ UNCHANGED runtimeVars

TaskStep(w) ==
    \/ Pipeline(w)
    \/ Lookup(w) \/ List(w) \/ ListFails(w) \/ NextResource(w) \/ Absorb(w)
    \/ EndOfList(w) \/ Return(w) \/ Tick(w)
    \/ SubscribeUpsert(w) \/ SubscribeAbsorb(w) \/ StreamEnds(w)

Environment ==
    \/ \E b \in Bindings : Register(b) \/ Deregister(b) \/ SkipSubscribe(b)
    \/ \E w \in Workers : DropRequest(w) \/ Cancel(w)
    \/ \E w \in Workers, b \in Bindings : RequestSync(w, b) \/ SpawnPoll(w, b) \/ SpawnSubscribe(w, b)
    \/ StartBackground \/ Started \/ Shutdown \/ Crash

Next == Environment \/ \E w \in Workers : TaskStep(w)

Spec == Init /\ [][Next]_vars

\* Tokio runs every task that can run, and the stores, the embedder and the
\* connector answer every call one way or the other.
FairSpec == Spec /\ \A w \in Workers : WF_vars(TaskStep(w))

-----------------------------------------------------------------------------
TypeOK ==
    /\ IngestTypeOK
    /\ registered \subseteq Bindings
    /\ run \in [Workers -> Tasks]
    /\ starting \in [poll : SUBSET Bindings, push : SUBSET Bindings, held : BOOLEAN]
    /\ handles \subseteq Workers

Syncing(w) == run[w].mode \in {"request", "poll"}

(***************************************************************************)
(* The counters of a SyncOutcome tell what the stores hold, at every await *)
(* of the sync and whatever the other workers do meanwhile: a resource is  *)
(* seen, then ingested or failed, each ingested one has a record of its    *)
(* own, and chunks_written is the number of chunks of those records that   *)
(* the (durable) index holds.                                              *)
(***************************************************************************)
SyncAccounting ==
    \A w \in Workers : Syncing(w) =>
        LET r == run[w] IN
        /\ r.seen = r.ingested + r.failed + (IF r.phase = "ingest" THEN 1 ELSE 0)
        /\ r.seen + Cardinality(r.pending) = Cardinality(r.listed)
        /\ r.ingested = Cardinality(r.recs)
        /\ backend = "qdrant" =>
             r.chunks = Cardinality({c \in chunks[Target[r.binding]] : c.rec \in r.recs})

(***************************************************************************)
(* A sync that reports "completed" has accounted for every resource the    *)
(* connector listed: each has exactly one record of this sync in the table *)
(* of the target schema, except as many as resources_failed says.          *)
(***************************************************************************)
CompletedCoversList ==
    \A w \in Workers :
        (Syncing(w) /\ run[w].phase = "done" /\ run[w].kind = "completed") =>
            LET r == run[w]
                mine == {x \in rows : x.rec \in r.recs /\ x.schema = Target[r.binding]}
            IN  /\ {x.doc : x \in mine} \subseteq r.listed
                /\ Cardinality(mine) = Cardinality({x.doc : x \in mine})
                /\ Cardinality(r.listed) = Cardinality(mine) + r.failed

(***************************************************************************)
(* shutdown reaches every background loop.  When it returns, a loop that   *)
(* is left is one it aborted while another thread was polling it, and no   *)
(* start_background is half way and about to spawn more: the lock on the   *)
(* handle list keeps the two apart across the awaits of subscribe().  What *)
(* is left is on its way out: an aborted loop never becomes a kept one, in *)
(* the next round of its ticker or in any other step.                      *)
(***************************************************************************)
ShutdownIsFinal ==
    [][/\ handles # {} /\ handles' = {} =>
             /\ \A w \in Workers : run'[w].mode \in Background => run'[w].life = "aborted"
             /\ ~starting'.held
       /\ \A w \in Workers :
             run[w].life = "aborted" => run'[w].life = "aborted" \/ run'[w].mode = "free"]_vars

(***************************************************************************)
(* A request for a sync comes to an end: it answers, or it is dropped.     *)
(***************************************************************************)
RequestEnds ==
    \A w \in Workers :
        run[w].mode = "request" ~> run[w].mode # "request"

(***************************************************************************)
(* A poll loop whose binding is deregistered stops, unless the binding is  *)
(* registered again before the loop's next lookup.                         *)
(***************************************************************************)
PollStops ==
    \A w \in Workers, b \in Bindings :
        (run[w].mode = "poll" /\ run[w].binding = b /\ b \notin registered)
            ~> (run[w].mode # "poll" \/ run[w].binding # b \/ b \in registered)

-----------------------------------------------------------------------------
(* What the documentation says and the code does not do.                   *)

(***************************************************************************)
(* Replaying the full set is harmless: one resource, one row.              *)
(***************************************************************************)
ReplayIsIdempotent ==
    \A r1, r2 \in rows :
        (r1.doc = r2.doc /\ r1.schema = r2.schema /\ r1.tenant = r2.tenant) => r1 = r2

(***************************************************************************)
(* Ensuring a collection that exists changes nothing: no chunk leaves the  *)
(* index while the process lives.                                          *)
(***************************************************************************)
EnsureIsIdempotent ==
    [][ensured' # {} => \A s \in Schemas : chunks[s] \subseteq chunks'[s]]_vars

=============================================================================
