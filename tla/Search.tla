------------------------------- MODULE Search -------------------------------
(***************************************************************************)
(* Engine::search of sealstack-engine (engine.rs) with the hybrid          *)
(* retrieval under it (retrieval.rs): embed, vector and text search side   *)
(* by side, fusion, rerank, then for every hit a row fetch, the policy     *)
(* filter and the receipt.  Each `.await` ends a step; meanwhile ingestion *)
(* adds rows and chunks, and rows are deleted.  Schemas are independent,   *)
(* so one is modelled.                                                     *)
(***************************************************************************)
EXTENDS Naturals, SequencesExt

CONSTANTS
    Searches,       \* concurrent calls of search
    Records,        \* record ids (Ulids of rows)
    Pieces,         \* chunk ids (Ulids too, and never those of a row)
    RecordOf,       \* RecordOf[p]: the record piece p was cut from
    TenantOf,       \* TenantOf[r]: the tenant column of r
    Tenants,        \* tenants of callers and rows
    NoTenant,       \* the empty tenant string
    CandidateK,     \* RetrievalConfig::candidate_k
    TopKs,          \* effective values of top_k
    Alpha           \* hybrid_alpha in tenths

ASSUME SearchAssumption ==
    /\ RecordOf \in [Pieces -> Records]
    /\ TenantOf \in [Records -> Tenants]
    /\ NoTenant \in Tenants
    /\ Pieces \cap Records = {}
    /\ IsFiniteSet(Records) /\ IsFiniteSet(Pieces)
    /\ CandidateK \in Nat \ {0}
    /\ TopKs \subseteq Nat
    /\ Alpha \in 0..10

VARIABLES
    rows,           \* rows in the schema's table
    index,          \* pieces in its vector collection
    req,            \* req[s]: the locals of call s
    persisted       \* receipts in sealstack_receipts, by call

vars == <<rows, index, req, persisted>>

Ids == Records \cup Pieces
Scores == 0..1
Hits == [id : Ids, score : Scores]
Points == {"idle", "embed", "retrieve", "rerank", "fetch", "policy", "receipt", "done", "failed"}

NoReceipt == [sources |-> <<>>, verdicts |-> <<>>]

Fresh(pc, tenant, top_k) ==
    [pc |-> pc, tenant |-> tenant, top_k |-> top_k,
     waiting |-> {"vector", "text"}, vec |-> <<>>, text |-> <<>>,
     candidates |-> <<>>, scored |-> <<>>, hits |-> <<>>, records |-> <<>>,
     skipped |-> {}, allowed |-> {},
     results |-> <<>>, receipt |-> NoReceipt]

Init ==
    /\ rows \in SUBSET Records
    /\ index \in SUBSET Pieces
    /\ req = [s \in Searches |-> Fresh("idle", NoTenant, 0)]
    /\ persisted = [s \in Searches |-> NoReceipt]

At(s, pc) == req[s].pc = pc

-----------------------------------------------------------------------------
(* Pure parts of the pipeline.                                             *)

Least(a, b) == IF a < b THEN a ELSE b

\* Every way a backend may rank its best k of the candidates S.
Rankings(S, k) ==
    {q \in [1..Least(k, Cardinality(S)) -> S] : \A i, j \in DOMAIN q : q[i] = q[j] => i = j}

\* Reciprocal ranks, 1 / (60 + rank), over a common denominator.
Denominator[n \in 0..CandidateK] == IF n = 0 THEN 1 ELSE (60 + n) * Denominator[n - 1]
Share(seq, id) ==
    IF \E i \in DOMAIN seq : seq[i] = id
    THEN Denominator[CandidateK] \div (60 + CHOOSE i \in DOMAIN seq : seq[i] = id)
    ELSE 0

\* The linear blend of both rankings; a hash map orders the ties.
RrfScore(vec, text, id) == Alpha * Share(vec, id) + (10 - Alpha) * Share(text, id)
RrfFuse(vec, text) ==
    LET ids == ToSet(vec) \cup ToSet(text)
    IN  {q \in Rankings(ids, Cardinality(ids)) :
            \A i, j \in DOMAIN q : i < j => RrfScore(vec, text, q[i]) >= RrfScore(vec, text, q[j])}

\* A stable sort by descending score: a position is found by what comes before
\* it.  The best k are the first of it.
Before(scored, i) ==
    {j \in DOMAIN scored : \/ scored[j].score > scored[i].score
                           \/ scored[j].score = scored[i].score /\ j < i}
Sorted(scored) ==
    [n \in DOMAIN scored |->
        scored[CHOOSE i \in DOMAIN scored : Cardinality(Before(scored, i)) = n - 1]]

\* Mutation: the candidates are cut before they are sorted.
BestOfFirst(scored, k) == Sorted(SubSeq(scored, 1, Least(k, Len(scored))))

BestOf(scored, k) == SubSeq(Sorted(scored), 1, Least(k, Len(scored)))

-----------------------------------------------------------------------------
(* Retriever::search. *)

Begin(s) ==
    /\ At(s, "idle")
    /\ \E t \in Tenants, k \in TopKs : req' = [req EXCEPT ![s] = Fresh("embed", t, k)]
    /\ UNCHANGED <<rows, index, persisted>>

Embed(s) ==
    /\ At(s, "embed")
    /\ req' = [req EXCEPT ![s].pc = "retrieve"]
    /\ UNCHANGED <<rows, index, persisted>>

\* Mutation: all fused candidates go on to the reranker.
JoinKeepsAll(s, backend, answer) ==
    LET r == req[s]
        vec == IF backend = "vector" THEN answer ELSE r.vec
        text == IF backend = "text" THEN answer ELSE r.text
        waiting == r.waiting \ {backend}
    IN  \E fused \in IF waiting = {} THEN RrfFuse(vec, text) ELSE {<<>>} :
            req' = [req EXCEPT
                ![s].waiting = waiting, ![s].vec = vec, ![s].text = text,
                ![s].candidates = fused,
                ![s].pc = IF waiting # {} THEN "retrieve"
                          ELSE IF fused = <<>> THEN "receipt" ELSE "rerank"]

\* The answer of a backend, or <<>> for one that failed.  When both are in,
\* the candidates are fused and the reranker is called, without an await; if
\* there are none the search is over.
Join(s, backend, answer) ==
    LET r == req[s]
        vec == IF backend = "vector" THEN answer ELSE r.vec
        text == IF backend = "text" THEN answer ELSE r.text
        waiting == r.waiting \ {backend}
    IN  \E fused \in IF waiting = {} THEN RrfFuse(vec, text) ELSE {<<>>} :
            req' = [req EXCEPT
                ![s].waiting = waiting, ![s].vec = vec, ![s].text = text,
                ![s].candidates = SubSeq(fused, 1, Least(CandidateK, Len(fused))),
                ![s].pc = IF waiting # {} THEN "retrieve"
                          ELSE IF fused = <<>> THEN "receipt" ELSE "rerank"]

\* The collection is filtered by tenant, except for the empty one.
VectorAnswers(s) ==
    /\ At(s, "retrieve") /\ "vector" \in req[s].waiting
    /\ LET seen == {p \in index : req[s].tenant \in {NoTenant, TenantOf[RecordOf[p]]}}
       IN  \E answer \in Rankings(seen, CandidateK) \cup {<<>>} : Join(s, "vector", answer)
    /\ UNCHANGED <<rows, index, persisted>>

\* Rows of exactly the caller's tenant whose text matches the query.
TextAnswers(s) ==
    /\ At(s, "retrieve") /\ "text" \in req[s].waiting
    /\ \E matching \in SUBSET {r \in rows : TenantOf[r] = req[s].tenant} :
       \E answer \in Rankings(matching, CandidateK) : Join(s, "text", answer)
    /\ UNCHANGED <<rows, index, persisted>>

\* The reranker's scores replace the fused and decayed ones, position by
\* position, and the best top_k remain.
Rerank(s) ==
    /\ At(s, "rerank")
    /\ \E score \in [1..Len(req[s].candidates) -> Scores] :
          LET scored == [i \in DOMAIN score |-> [id |-> req[s].candidates[i], score |-> score[i]]]
              hits == BestOf(scored, req[s].top_k)
          IN  req' = [req EXCEPT ![s].pc = IF hits = <<>> THEN "receipt" ELSE "fetch",
                                 ![s].scored = scored, ![s].hits = hits]
    /\ UNCHANGED <<rows, index, persisted>>

-----------------------------------------------------------------------------
(* Engine::search. *)

Pending(s) == req[s].hits[1]

\* fetch_row_raw by id; a row that is gone, or cannot be read, is skipped.
FetchRow(s) ==
    /\ At(s, "fetch") /\ req[s].hits # <<>>
    /\ \/ /\ Pending(s).id \in rows
          /\ req' = [req EXCEPT ![s].hits = Tail(@), ![s].records = Append(@, Pending(s))]
       \/ req' = [req EXCEPT ![s].hits = Tail(@), ![s].skipped = @ \cup {Pending(s).id}]
    /\ UNCHANGED <<rows, index, persisted>>

FetchDone(s) ==
    /\ At(s, "fetch") /\ req[s].hits = <<>>
    /\ req' = [req EXCEPT ![s].pc = "policy"]
    /\ UNCHANGED <<rows, index, persisted>>

Keep(seq, mask) ==
    LET kept == {i \in DOMAIN seq : mask[i]}
    IN  [n \in 1..Cardinality(kept) |->
            seq[CHOOSE i \in kept : Cardinality({j \in kept : j <= i}) = n]]

\* Mutation: the mask is zipped with the hits instead of the fetched records.
ApplyPolicyMisaligned(s) ==
    /\ At(s, "policy")
    /\ \E allowed \in SUBSET Records :
          LET recs == req[s].records
              mask == [i \in DOMAIN recs |-> recs[i].id \in allowed]
              kept == Keep(SubSeq(BestOf(req[s].scored, req[s].top_k), 1, Len(recs)), mask)
          IN  req' = [req EXCEPT ![s].pc = "receipt", ![s].allowed = allowed, ![s].results = kept,
                                 ![s].receipt = [sources |-> kept, verdicts |-> mask]]
    /\ UNCHANGED <<rows, index, persisted>>

\* Mutation: a source is noted before its verdict is looked at.
ApplyPolicyCitesAll(s) ==
    /\ At(s, "policy")
    /\ \E allowed \in SUBSET Records :
          LET recs == req[s].records
              mask == [i \in DOMAIN recs |-> recs[i].id \in allowed]
          IN  req' = [req EXCEPT ![s].pc = "receipt", ![s].allowed = allowed,
                                 ![s].results = Keep(recs, mask),
                                 ![s].receipt = [sources |-> recs, verdicts |-> mask]]
    /\ UNCHANGED <<rows, index, persisted>>

\* The policy engine gives one verdict per fetched record; results and sources
\* keep the allowed ones, the receipt all verdicts.
ApplyPolicy(s) ==
    /\ At(s, "policy")
    /\ \E allowed \in SUBSET Records :
          LET recs == req[s].records
              mask == [i \in DOMAIN recs |-> recs[i].id \in allowed]
              kept == Keep(recs, mask)
          IN  req' = [req EXCEPT ![s].pc = "receipt", ![s].allowed = allowed, ![s].results = kept,
                                 ![s].receipt = [sources |-> kept, verdicts |-> mask]]
    /\ UNCHANGED <<rows, index, persisted>>

\* An error of the embedder, the reranker or the policy engine ends the call
\* without a receipt.
Fail(s) ==
    /\ req[s].pc \in {"embed", "rerank", "policy"}
    /\ req' = [req EXCEPT ![s].pc = "failed"]
    /\ UNCHANGED <<rows, index, persisted>>

\* log_receipt: an error of the insert is logged, and the answer goes out.
LogReceipt(s) ==
    /\ At(s, "receipt")
    /\ req' = [req EXCEPT ![s].pc = "done"]
    /\ \/ persisted' = [persisted EXCEPT ![s] = req[s].receipt]
       \/ UNCHANGED persisted
    /\ UNCHANGED <<rows, index>>

-----------------------------------------------------------------------------
SearchStep(s) ==
    \/ Embed(s) \/ VectorAnswers(s) \/ TextAnswers(s) \/ Rerank(s)
    \/ FetchRow(s) \/ FetchDone(s) \/ ApplyPolicy(s) \/ Fail(s) \/ LogReceipt(s)

\* What ingestion and deletion do to the stores meanwhile.
StoresChange ==
    /\ \/ \E r \in Records : rows' \in {rows \cup {r}, rows \ {r}} /\ UNCHANGED index
       \/ \E p \in Pieces : index' = index \cup {p} /\ UNCHANGED rows
    /\ UNCHANGED <<req, persisted>>

\* The caller takes the answer, and asks again.
Return(s) ==
    /\ req[s].pc \in {"done", "failed"}
    /\ req' = [req EXCEPT ![s] = Fresh("idle", NoTenant, 0)]
    /\ persisted' = [persisted EXCEPT ![s] = NoReceipt]
    /\ UNCHANGED <<rows, index>>

Next == StoresChange \/ \E s \in Searches : Begin(s) \/ SearchStep(s) \/ Return(s)

Spec == Init /\ [][Next]_vars

-----------------------------------------------------------------------------
HitSeqs == UNION {[1..n -> Hits] : n \in 0..(2 * CandidateK)}

TypeOK ==
    /\ rows \subseteq Records /\ index \subseteq Pieces
    /\ \A s \in Searches :
          /\ req[s].pc \in Points
          /\ req[s].tenant \in Tenants
          /\ req[s].candidates \in Seq(Ids) /\ Len(req[s].candidates) <= CandidateK
          /\ {req[s].scored, req[s].hits, req[s].records, req[s].results} \subseteq HitSeqs

(***************************************************************************)
(* Every result is a record of the caller's tenant that the policy allows, *)
(* under its own id: whatever rows come and go between retrieval, fetch    *)
(* and policy, the verdicts stay aligned with the records they judge.      *)
(***************************************************************************)
AnswerIsReadable ==
    \A s \in Searches : \A i \in DOMAIN req[s].results :
        LET id == req[s].results[i].id
        IN  /\ id \in req[s].allowed
            /\ TenantOf[id] = req[s].tenant

(***************************************************************************)
(* A receipt in the table cites exactly what its answer returned, in the   *)
(* same order, and counts what the policy withheld.                        *)
(***************************************************************************)
ReceiptTellsAnswer ==
    \A s \in Searches : At(s, "done") /\ persisted[s] # NoReceipt =>
        /\ persisted[s].sources = req[s].results
        /\ Cardinality({i \in DOMAIN persisted[s].verdicts : persisted[s].verdicts[i]})
              = Len(req[s].results)
        /\ Len(persisted[s].verdicts) = Len(req[s].records)

(***************************************************************************)
(* No candidate that scored better than a returned one is missing from the *)
(* answer, unless its row was not to be had or the policy withheld it; and *)
(* the answer is in order of score, no longer than top_k.                  *)
(***************************************************************************)
BestAnswered ==
    \A s \in Searches : At(s, "receipt") =>
        LET r == req[s]
            withheld == {h.id : h \in ToSet(r.records) \ ToSet(r.results)}
        IN  /\ \A i, j \in DOMAIN r.results : i < j => r.results[i].score >= r.results[j].score
            /\ \A c \in ToSet(r.scored), h \in ToSet(r.results) :
                  c.score > h.score => c \in ToSet(r.results) \/ c.id \in r.skipped \cup withheld
            /\ Len(r.results) <= r.top_k

-----------------------------------------------------------------------------
(* What the documentation says and the code does not do.                   *)

(***************************************************************************)
(* The id of a retrieved hit is the primary key of a record.               *)
(***************************************************************************)
HitIsRecord ==
    \A s \in Searches : \A i \in DOMAIN req[s].hits : req[s].hits[i].id \in Records
=============================================================================
