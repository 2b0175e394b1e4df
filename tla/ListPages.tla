----------------------------- MODULE ListPages ------------------------------
(***************************************************************************)
(* The keyset pagination of Engine::list and Engine::list_relation         *)
(* (engine.rs): a client walks a table page by page, with the cursor each  *)
(* answer gives it, while ingestion and deletion change the table.  Walks  *)
(* only read, so one walk after another shows all there is to see.         *)
(***************************************************************************)
EXTENDS Naturals, FiniteSets

CONSTANTS
    Ids,            \* record ids in the order of their text
    Limits,         \* page sizes that clients ask for
    Cap             \* the page size fetch_many never exceeds (1000)

ASSUME PagesAssumption ==
    /\ Ids \subseteq Nat \ {0}
    /\ Limits \subseteq Nat
    /\ Cap \in Nat \ {0}

VARIABLES
    rows,           \* the rows that match the facets or the foreign key
    pc, limit, cursor, readable,    \* the walk: what the client asks, and may read
    page, next,     \* what fetch_many found: the rows and the next cursor
    stable,         \* history: rows there since the walk began
    got             \* history: how often the client was given each row

vars == <<rows, pc, limit, cursor, readable, page, next, stable, got>>

NoCursor == 0
Least(a, b) == IF a < b THEN a ELSE b
\* Mutation: the client's limit is taken as it is.
PageSizeUncapped == limit

PageSize == Least(limit, Cap)

Init ==
    /\ rows \in SUBSET Ids /\ IsFiniteSet(rows)
    /\ pc = "idle"
    /\ limit = 0 /\ cursor = NoCursor /\ next = NoCursor
    /\ readable = {} /\ page = {} /\ stable = {}
    /\ got = [id \in Ids |-> 0]

-----------------------------------------------------------------------------
\* The client asks for a first page; readable is what the policy lets it list.
Begin ==
    /\ pc = "idle"
    /\ pc' = "fetch"
    /\ limit' \in Limits
    /\ cursor' = NoCursor
    /\ readable' \in SUBSET Ids
    /\ stable' = rows
    /\ got' = [id \in Ids |-> 0]
    /\ UNCHANGED <<rows, page, next>>

\* WHERE id > cursor ORDER BY id LIMIT n
After == {id \in rows : id > cursor}
FirstOf(found, n) ==
    {p \in SUBSET found : /\ Cardinality(p) = Least(n, Cardinality(found))
                          /\ \A x \in p, y \in found \ p : x < y}

\* Mutation: whether the page is full is judged by the rows the client may see.
FetchFilteredFirst ==
    /\ pc = "fetch"
    /\ pc' = "policy"
    /\ page' \in FirstOf(After, PageSize)
    /\ next' \in IF Cardinality(page' \cap readable) = PageSize /\ page' # {}
                 THEN {x \in page' : \A y \in page' : y <= x} ELSE {NoCursor}
    /\ UNCHANGED <<rows, limit, cursor, readable, stable, got>>

\* Mutation: WHERE id >= cursor
FetchFromCursor ==
    /\ pc = "fetch"
    /\ pc' = "policy"
    /\ page' \in FirstOf({id \in rows : id >= cursor}, PageSize)
    /\ next' \in IF Cardinality(page') = PageSize /\ page' # {}
                 THEN {x \in page' : \A y \in page' : y <= x} ELSE {NoCursor}
    /\ UNCHANGED <<rows, limit, cursor, readable, stable, got>>

\* fetch_many: a page that is full gives its last id as the next cursor,
\* whatever the policy makes of its rows.
Fetch ==
    /\ pc = "fetch"
    /\ pc' = "policy"
    /\ page' \in FirstOf(After, PageSize)
    /\ next' \in IF Cardinality(page') = PageSize /\ page' # {}
                 THEN {x \in page' : \A y \in page' : y <= x} ELSE {NoCursor}
    /\ UNCHANGED <<rows, limit, cursor, readable, stable, got>>

\* The policy filter runs over the page; the client takes the allowed rows and
\* goes on from the cursor, if there is one.
Answer ==
    /\ pc = "policy"
    /\ got' = [id \in Ids |-> IF id \in page \cap readable THEN got[id] + 1 ELSE got[id]]
    /\ cursor' = next
    /\ pc' = IF next = NoCursor THEN "done" ELSE "fetch"
    /\ UNCHANGED <<rows, limit, readable, page, next, stable>>

\* The store or the policy engine fails, or the answer is lost: the client
\* asks again from the cursor it has.
Fail ==
    /\ pc = "policy"
    /\ pc' = "fetch"
    /\ UNCHANGED <<rows, limit, cursor, readable, page, next, stable, got>>

Leave ==
    /\ pc # "idle"
    /\ pc' = "idle"
    /\ UNCHANGED <<rows, limit, cursor, readable, page, next, stable, got>>

\* A record is ingested under a new id, which may sort before the cursor: two
\* Ulids of one millisecond, or of two clocks, come in any order.
Insert(id) ==
    /\ id \notin rows
    /\ rows' = rows \cup {id}
    /\ UNCHANGED <<pc, limit, cursor, readable, page, next, stable, got>>

Delete(id) ==
    /\ id \in rows
    /\ rows' = rows \ {id}
    /\ stable' = stable \ {id}
    /\ UNCHANGED <<pc, limit, cursor, readable, page, next, got>>

Next ==
    \/ Begin \/ Fetch \/ Answer \/ Fail \/ Leave
    \/ \E id \in Ids : Insert(id) \/ Delete(id)

Spec == Init /\ [][Next]_vars

\* A client that goes on asking is answered again and again.
FairSpec == Spec /\ WF_vars(Fetch) /\ SF_vars(Answer)

-----------------------------------------------------------------------------
TypeOK ==
    /\ rows \subseteq Ids /\ IsFiniteSet(rows)
    /\ pc \in {"idle", "fetch", "policy", "done"}
    /\ limit \in Nat
    /\ cursor \in Ids \cup {NoCursor} /\ next \in Ids \cup {NoCursor}
    /\ readable \subseteq Ids /\ stable \subseteq rows
    /\ page \subseteq Ids /\ IsFiniteSet(page) /\ Cardinality(page) <= Cap
    /\ got \in [Ids -> Nat]

(***************************************************************************)
(* A walk that came to its end has given the client every row it may read  *)
(* that was in the table all along: rows inserted and deleted around the   *)
(* cursor, pages the policy empties and answers that were lost hide none.  *)
(***************************************************************************)
WalkIsComplete ==
    pc = "done" /\ limit > 0 => \A id \in stable \cap readable : got[id] = 1

(***************************************************************************)
(* No row is given twice in a walk, not even one that was deleted and      *)
(* ingested again, and none the client may not read.                       *)
(***************************************************************************)
NoneTwice == \A id \in Ids : got[id] <= 1 /\ (got[id] = 1 => id \in readable)

(***************************************************************************)
(* A walk ends, or the client leaves it.                                   *)
(***************************************************************************)
WalkEnds == pc = "fetch" ~> pc \in {"done", "idle"}
=============================================================================
