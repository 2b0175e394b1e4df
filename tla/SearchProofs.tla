----------------------------- MODULE SearchProofs -----------------------------
(***************************************************************************)
(* Proofs about Search: type correctness, AnswerIsReadable,                *)
(* ReceiptTellsAnswer and BestAnswered, for any searches, rows, pieces,    *)
(* tenants, candidate_k and top_k, while the stores change.                *)
(*                                                                         *)
(* First that sorting permutes (every place is taken, since a position's   *)
(* rank is an injection of finite sets) and that the policy's mask keeps   *)
(* order; then an invariant of one call (Good) and its preservation by     *)
(* each step.  Calls share nothing but the stores.                         *)
(***************************************************************************)
EXTENDS Search, FiniteSetTheorems, FunctionTheorems, TLAPS

-----------------------------------------------------------------------------
(* Sorting. *)

\* Scores are numbers, so that positions can be compared.
LEMMA HitScore ==
  ASSUME NEW q \in Seq(Hits), NEW i \in DOMAIN q
  PROVE  i \in Nat /\ q[i] \in Hits /\ q[i].score \in Nat
  <1>1. i \in Nat /\ q[i] \in Hits
    OBVIOUS
  <1>2. \A h \in Hits : h.score \in Nat
    BY DEF Hits, Scores
  <1> QED BY <1>1, <1>2

\* The positions before another one are some of the others.
LEMMA BeforeType ==
  ASSUME NEW q \in Seq(Hits), NEW i \in DOMAIN q
  PROVE  /\ IsFiniteSet(Before(q, i))
         /\ Cardinality(Before(q, i)) \in 0..(Len(q) - 1)
  <1>1. IsFiniteSet(1..Len(q)) /\ Cardinality(1..Len(q)) = Len(q)
    BY FS_Interval
  <1>2. IsFiniteSet((1..Len(q)) \ {i}) /\ Cardinality((1..Len(q)) \ {i}) = Len(q) - 1
    <2>1. i \in 1..Len(q)
      OBVIOUS
    <2> QED BY <1>1, <2>1, FS_RemoveElement, Zenon
  <1>3. Before(q, i) \in SUBSET ((1..Len(q)) \ {i})
    BY HitScore DEF Before
  <1> QED BY <1>2, <1>3, FS_Subset, FS_CardinalityType

\* Of two positions one is before the other, and has fewer before it.
LEMMA BeforeCounts ==
  ASSUME NEW q \in Seq(Hits), NEW i \in DOMAIN q, NEW j \in DOMAIN q, i \in Before(q, j)
  PROVE  Cardinality(Before(q, i)) < Cardinality(Before(q, j))
  <1>1. Before(q, i) \in SUBSET Before(q, j)
    BY HitScore DEF Before
  <1>2. i \notin Before(q, i)
    BY HitScore DEF Before
  <1>3. IsFiniteSet(Before(q, j)) /\ Cardinality(Before(q, i)) \in Nat /\ Cardinality(Before(q, j)) \in Nat
    BY BeforeType
  <1>4. Before(q, i) # Before(q, j)
    BY <1>2
  <1> QED BY <1>1, <1>3, <1>4, FS_Subset

LEMMA BeforeTotal ==
  ASSUME NEW q \in Seq(Hits), NEW i \in DOMAIN q, NEW j \in DOMAIN q, i # j
  PROVE  i \in Before(q, j) \/ j \in Before(q, i)
  BY HitScore DEF Before

\* Every place of the sorted sequence is taken, by one position.
LEMMA PlaceTaken ==
  ASSUME NEW q \in Seq(Hits), NEW n \in DOMAIN q
  PROVE  \E i \in DOMAIN q : Cardinality(Before(q, i)) = n - 1
  <1> DEFINE rank == [i \in 1..Len(q) |-> Cardinality(Before(q, i))]
  <1>1. rank \in [1..Len(q) -> 0..(Len(q) - 1)]
    BY BeforeType
  <1>2. ASSUME NEW i \in 1..Len(q), NEW j \in 1..Len(q), rank[i] = rank[j] PROVE i = j
    <2>1. Cardinality(Before(q, i)) \in Nat /\ Cardinality(Before(q, j)) \in Nat
      BY BeforeType
    <2> QED BY <1>2, <2>1, BeforeTotal, BeforeCounts
  <1>3. rank \in Injection(1..Len(q), 0..(Len(q) - 1))
    BY <1>1, <1>2 DEF Injection, IsInjective
  <1>4. IsFiniteSet(0..(Len(q) - 1)) /\ Cardinality(1..Len(q)) = Cardinality(0..(Len(q) - 1))
    BY FS_Interval
  <1> HIDE DEF rank
  <1>5. rank \in Surjection(1..Len(q), 0..(Len(q) - 1))
    BY <1>3, <1>4, FS_Injection
  <1>6. \A m \in 0..(Len(q) - 1) : \E i \in 1..Len(q) : rank[i] = m
    BY <1>5 DEF Surjection
  <1> QED BY <1>6 DEF rank

PlaceOf(q, n) == CHOOSE i \in DOMAIN q : Cardinality(Before(q, i)) = n - 1

LEMMA PlaceOfRank ==
  ASSUME NEW q \in Seq(Hits), NEW n \in DOMAIN q
  PROVE  /\ PlaceOf(q, n) \in DOMAIN q
         /\ Cardinality(Before(q, PlaceOf(q, n))) = n - 1
         /\ Sorted(q)[n] = q[PlaceOf(q, n)]
  BY PlaceTaken DEF PlaceOf, Sorted

(* Sorting gives the same hits in descending order.                         *)
LEMMA SortedType ==
  ASSUME NEW q \in Seq(Hits)
  PROVE  Sorted(q) \in Seq(Hits) /\ Len(Sorted(q)) = Len(q)
  BY PlaceOfRank DEF Sorted

LEMMA SortedDescends ==
  ASSUME NEW q \in Seq(Hits), NEW m \in DOMAIN q, NEW n \in DOMAIN q, m < n
  PROVE  Sorted(q)[m].score >= Sorted(q)[n].score
  <1> DEFINE a == PlaceOf(q, m)  b == PlaceOf(q, n)
  <1>1. a \in DOMAIN q /\ b \in DOMAIN q /\ Sorted(q)[m] = q[a] /\ Sorted(q)[n] = q[b]
    BY PlaceOfRank
  <1>2. Cardinality(Before(q, a)) = m - 1 /\ Cardinality(Before(q, b)) = n - 1
    BY PlaceOfRank
  <1> HIDE DEF a, b
  <1>3. b \notin Before(q, a)
    BY <1>1, <1>2, BeforeCounts
  <1> QED BY <1>1, <1>3, HitScore DEF Before

LEMMA SortedCovers ==
  ASSUME NEW q \in Seq(Hits), NEW i \in DOMAIN q
  PROVE  \E n \in DOMAIN q : Sorted(q)[n] = q[i]
  <1> DEFINE n == Cardinality(Before(q, i)) + 1
  <1>1. n \in DOMAIN q /\ Cardinality(Before(q, i)) = n - 1
    BY BeforeType
  <1> DEFINE a == PlaceOf(q, n)
  <1>2. a \in DOMAIN q /\ Cardinality(Before(q, a)) = Cardinality(Before(q, i)) /\ Sorted(q)[n] = q[a]
    BY <1>1, PlaceOfRank
  <1> HIDE DEF a
  <1>3. a = i
    <2>1. Cardinality(Before(q, i)) \in Nat
      BY BeforeType
    <2> QED BY <1>2, <2>1, BeforeTotal, BeforeCounts
  <1> QED BY <1>1, <1>2, <1>3

(* What Rerank keeps: hits of the candidates, the best first, and whatever  *)
(* it leaves out scores no better than any of them.                         *)
LEMMA BestOfBest ==
  ASSUME NEW q \in Seq(Hits), NEW k \in Nat
  PROVE  /\ BestOf(q, k) \in Seq(Hits)
         /\ Len(BestOf(q, k)) <= k /\ Len(BestOf(q, k)) <= Len(q)
         /\ \A n \in DOMAIN BestOf(q, k) : \E i \in DOMAIN q : BestOf(q, k)[n] = q[i]
         /\ \A m, n \in DOMAIN BestOf(q, k) : m < n => BestOf(q, k)[m].score >= BestOf(q, k)[n].score
         /\ \A i \in DOMAIN q :
               \/ \E n \in DOMAIN BestOf(q, k) : BestOf(q, k)[n] = q[i]
               \/ \A n \in DOMAIN BestOf(q, k) : q[i].score <= BestOf(q, k)[n].score
  <1> DEFINE s == Sorted(q)  c == Least(k, Len(q))  b == BestOf(q, k)
  <1>1. s \in Seq(Hits) /\ Len(s) = Len(q)
    BY SortedType
  <1>2. c \in Nat /\ c <= k /\ c <= Len(q)
    BY DEF Least
  <1>3. b = SubSeq(s, 1, c)
    BY <1>1 DEF BestOf
  <1>4. \A m, n \in 1..Len(q) : m < n => s[m].score >= s[n].score
    BY SortedDescends
  <1>5. \A i \in DOMAIN q : \E n \in 1..Len(q) : s[n] = q[i]
    <2>1. DOMAIN q = 1..Len(q)
      OBVIOUS
    <2> QED BY <2>1, SortedCovers, Zenon
  <1>6. \A n \in 1..Len(q) : \E i \in 1..Len(q) : s[n] = q[i]
    BY PlaceOfRank
  <1> HIDE DEF s, c, b
  <1>7. b \in Seq(Hits) /\ Len(b) = c /\ \A n \in 1..c : b[n] = s[n]
    BY <1>1, <1>2, <1>3
  <1>8. ASSUME NEW n \in DOMAIN b
        PROVE  \E i \in DOMAIN q : b[n] = q[i]
    <2>1. n \in 1..Len(q) /\ b[n] = s[n]
      BY <1>2, <1>7
    <2>2. PICK i \in 1..Len(q) : s[n] = q[i]
      BY <1>6, <2>1, Zenon
    <2>3. DOMAIN q = 1..Len(q)
      OBVIOUS
    <2> QED BY <2>1, <2>2, <2>3, Zenon
  <1>9. \A m, n \in DOMAIN b : m < n => b[m].score >= b[n].score
    BY <1>2, <1>4, <1>7
  <1>10. ASSUME NEW i \in DOMAIN q
         PROVE  (\E n \in DOMAIN b : b[n] = q[i]) \/ \A n \in DOMAIN b : q[i].score <= b[n].score
    <2>1. PICK m \in 1..Len(q) : s[m] = q[i]
      BY <1>5
    <2>2. CASE m <= c
      BY <1>7, <2>1, <2>2
    <2>3. CASE m > c
      <3>1. \A n \in DOMAIN b : b[n] = s[n] /\ n \in 1..Len(q) /\ n < m
        BY <1>2, <1>7, <2>3
      <3>2. \A n \in DOMAIN b : s[n].score >= s[m].score
        BY <1>4, <3>1
      <3>3. \A n \in 1..Len(q) : s[n].score \in Nat
        BY <1>1, HitScore
      <3> QED BY <2>1, <3>1, <3>2, <3>3
    <2> QED BY <1>2, <2>2, <2>3
  <1> QED BY <1>2, <1>7, <1>8, <1>9, <1>10 DEF b

-----------------------------------------------------------------------------
(* Keeping the allowed records. *)

Upto(K, i) == {j \in K : j <= i}

LEMMA PositionsCount ==
  ASSUME NEW N \in Nat, NEW K \in SUBSET (1..N)
  PROVE  IsFiniteSet(K) /\ Cardinality(K) \in Nat /\ Cardinality(K) <= N
  <1>1. IsFiniteSet(1..N) /\ Cardinality(1..N) = N
    BY FS_Interval
  <1>2. IsFiniteSet(K) /\ Cardinality(K) <= Cardinality(1..N)
    BY <1>1, FS_Subset
  <1> QED BY <1>1, <1>2, FS_CardinalityType

LEMMA UptoNested ==
  ASSUME NEW N \in Nat, NEW K \in SUBSET (1..N), NEW i \in K, NEW j \in K, j <= i
  PROVE  Upto(K, i) \in SUBSET K /\ Upto(K, j) \in SUBSET Upto(K, i)
  <1>1. i \in Nat /\ j \in Nat
    OBVIOUS
  <1>2. ASSUME NEW x \in Upto(K, j) PROVE x \in Upto(K, i)
    <2>1. x \in K /\ x <= j /\ x \in Nat
      BY DEF Upto
    <2>2. x <= i
      BY <1>1, <2>1
    <2> QED BY <2>1, <2>2 DEF Upto
  <1> QED BY <1>2 DEF Upto

\* The n-th of finitely many positions is the one with n up to it.
LEMMA NthTaken ==
  ASSUME NEW N \in Nat, NEW K \in SUBSET (1..N), NEW n \in 1..Cardinality(K)
  PROVE  \E i \in K : Cardinality(Upto(K, i)) = n
  <1> DEFINE c == Cardinality(K)
             rank == [i \in K |-> Cardinality(Upto(K, i))]
  <1>1. IsFiniteSet(K) /\ c \in Nat
    BY PositionsCount
  <1>2. ASSUME NEW i \in K
        PROVE  IsFiniteSet(Upto(K, i)) /\ Cardinality(Upto(K, i)) \in 1..c
    <2>1. Upto(K, i) \in SUBSET K /\ i \in Upto(K, i)
      BY DEF Upto
    <2>2. IsFiniteSet(Upto(K, i)) /\ Cardinality(Upto(K, i)) <= c /\ Cardinality(Upto(K, i)) \in Nat
      BY <1>1, <2>1, FS_Subset, FS_CardinalityType
    <2>3. Cardinality(Upto(K, i)) # 0
      BY <2>1, <2>2, FS_EmptySet
    <2> QED BY <1>1, <2>2, <2>3
  <1>3. ASSUME NEW i \in K, NEW j \in K, i < j
        PROVE  Cardinality(Upto(K, i)) < Cardinality(Upto(K, j))
    <2>1. Upto(K, i) \in SUBSET Upto(K, j) /\ j \in Upto(K, j) /\ j \notin Upto(K, i)
      <3>1. i \in Nat /\ j \in Nat /\ i <= j /\ ~(j <= i)
        BY <1>3
      <3>2. Upto(K, i) \in SUBSET Upto(K, j)
        BY <3>1, UptoNested
      <3>3. j <= j
        BY <3>1
      <3> QED BY <3>1, <3>2, <3>3, Zenon DEF Upto
    <2>2. Upto(K, i) # Upto(K, j)
      BY <2>1
    <2>3. Cardinality(Upto(K, i)) <= Cardinality(Upto(K, j)) /\ Cardinality(Upto(K, i)) # Cardinality(Upto(K, j))
      BY <1>2, <2>1, <2>2, FS_Subset
    <2> QED BY <1>2, <2>3
  <1>4. rank \in [K -> 1..c]
    BY <1>2
  <1>5. ASSUME NEW i \in K, NEW j \in K, rank[i] = rank[j] PROVE i = j
    <2>1. rank[i] \in Nat /\ ~(rank[i] < rank[j]) /\ ~(rank[j] < rank[i])
      BY <1>2, <1>5
    <2> QED BY <1>3, <2>1
  <1>6. rank \in Injection(K, 1..c)
    BY <1>4, <1>5 DEF Injection, IsInjective
  <1>7. IsFiniteSet(1..c) /\ Cardinality(1..c) = c
    BY <1>1, FS_Interval
  <1> HIDE DEF rank
  <1>8. rank \in Surjection(K, 1..c)
    BY <1>6, <1>7, FS_Injection
  <1>9. \A m \in 1..c : \E i \in K : rank[i] = m
    BY <1>8 DEF Surjection
  <1> QED BY <1>9 DEF rank

\* Fewer positions lie up to an earlier one.
LEMMA UptoGrows ==
  ASSUME NEW N \in Nat, NEW K \in SUBSET (1..N), NEW i \in K, NEW j \in K, j <= i
  PROVE  Cardinality(Upto(K, j)) <= Cardinality(Upto(K, i))
  <1>1. IsFiniteSet(K)
    BY PositionsCount
  <1>2. Upto(K, i) \in SUBSET K /\ Upto(K, j) \in SUBSET Upto(K, i)
    BY UptoNested
  <1> QED BY <1>1, <1>2, FS_Subset

Kept(q, mask) == {i \in DOMAIN q : mask[i]}

(* Keep leaves the masked elements in their order.                          *)
LEMMA KeepKeeps ==
  ASSUME NEW q \in Seq(Hits), NEW mask
  PROVE  /\ Cardinality(Kept(q, mask)) \in Nat /\ Cardinality(Kept(q, mask)) <= Len(q)
         /\ Keep(q, mask) \in Seq(Hits)
         /\ Len(Keep(q, mask)) = Cardinality(Kept(q, mask))
         /\ \A n \in 1..Cardinality(Kept(q, mask)) : \E i \in Kept(q, mask) : Keep(q, mask)[n] = q[i]
         /\ (\A i, j \in DOMAIN q : i < j => q[i].score >= q[j].score)
               => \A m, n \in 1..Cardinality(Kept(q, mask)) :
                     m < n => Keep(q, mask)[m].score >= Keep(q, mask)[n].score
  <1> DEFINE c == Cardinality(Kept(q, mask))  K == Kept(q, mask)
             place(n) == CHOOSE i \in K : Cardinality(Upto(K, i)) = n
  <1>1. K \in SUBSET (1..Len(q)) /\ Len(q) \in Nat /\ DOMAIN q = 1..Len(q)
    BY DEF Kept
  <1>2. c \in Nat /\ c <= Len(q)
    BY <1>1, PositionsCount
  <1>3. \A n \in 1..c : \E i \in K : Cardinality(Upto(K, i)) = n
    BY <1>1, NthTaken
  <1>4. \A n \in 1..c : place(n) \in K /\ Cardinality(Upto(K, place(n))) = n
    BY <1>3
  <1>5. Keep(q, mask) = [n \in 1..c |-> q[place(n)]]
    BY DEF Keep, Upto, Kept
  <1> HIDE DEF c, K, place
  <1>6. \A n \in 1..c : q[place(n)] \in Hits
    <2>1. \A i \in DOMAIN q : q[i] \in Hits
      OBVIOUS
    <2> QED BY <1>1, <1>4, <2>1
  <1>7. Keep(q, mask) \in Seq(Hits) /\ Len(Keep(q, mask)) = c
    BY <1>2, <1>5, <1>6
  <1>8. \A n \in 1..c : \E i \in K : Keep(q, mask)[n] = q[i]
    BY <1>4, <1>5
  <1>9. ASSUME \A i, j \in DOMAIN q : i < j => q[i].score >= q[j].score,
               NEW m \in 1..c, NEW n \in 1..c, m < n
        PROVE  Keep(q, mask)[m].score >= Keep(q, mask)[n].score
    <2>1. place(m) \in K /\ place(n) \in K /\ Cardinality(Upto(K, place(m))) = m /\ Cardinality(Upto(K, place(n))) = n
      BY <1>4
    <2>2. ~(place(n) <= place(m))
      <3>1. place(n) <= place(m) => n <= m
        BY <1>1, <2>1, UptoGrows
      <3> QED BY <1>2, <1>9, <3>1
    <2>3. place(m) < place(n) /\ place(m) \in DOMAIN q /\ place(n) \in DOMAIN q
      <3>1. place(m) \in 1..Len(q) /\ place(n) \in 1..Len(q)
        BY <1>1, <2>1, Zenon
      <3> QED BY <1>1, <2>2, <3>1
    <2>4. Keep(q, mask)[m] = q[place(m)] /\ Keep(q, mask)[n] = q[place(n)]
      BY <1>5
    <2> QED BY <1>9, <2>3, <2>4
  <1> QED BY <1>2, <1>7, <1>8, <1>9 DEF c, K

-----------------------------------------------------------------------------
(* The invariant, call by call. *)

Reqs ==
    [pc : Points, tenant : Tenants, top_k : Nat, waiting : SUBSET {"vector", "text"},
     vec : Seq(Ids), text : Seq(Ids), candidates : Seq(Ids),
     scored : Seq(Hits), hits : Seq(Hits), records : Seq(Hits), results : Seq(Hits),
     skipped : SUBSET Ids, allowed : SUBSET Records,
     receipt : [sources : Seq(Hits), verdicts : Seq(BOOLEAN)]]

\* A record is of the caller's tenant; pieces never pass for records.
Suits(r, id) == id \in Records => TenantOf[id] = r.tenant
Holds(q, x) == \E i \in DOMAIN q : q[i] = x
Descending(q) == \A i, j \in DOMAIN q : i < j => q[i].score >= q[j].score

Short(r) ==
    /\ Len(r.candidates) <= CandidateK /\ Len(r.scored) <= CandidateK
    /\ Len(r.hits) + Len(r.records) <= CandidateK
    /\ Len(r.hits) + Len(r.records) <= r.top_k
    /\ Len(r.results) <= Len(r.records)

\* Only what suits is found, and only rows that suit are fetched.
Found(r) ==
    /\ \A i \in DOMAIN r.vec : Suits(r, r.vec[i])
    /\ \A i \in DOMAIN r.text : Suits(r, r.text[i])
    /\ \A i \in DOMAIN r.candidates : Suits(r, r.candidates[i])
    /\ \A i \in DOMAIN r.scored : Suits(r, r.scored[i].id)
    /\ \A i \in DOMAIN r.hits : Suits(r, r.hits[i].id)
    /\ \A i \in DOMAIN r.records : r.records[i].id \in Records /\ Suits(r, r.records[i].id)

Allowed(r) ==
    \A n \in DOMAIN r.results : r.results[n].id \in r.allowed /\ Holds(r.records, r.results[n])

\* What is still to be fetched ranks below what has been.
Ranked(r) ==
    /\ Descending(r.hits) /\ Descending(r.records) /\ Descending(r.results)
    /\ \A i \in DOMAIN r.records, j \in DOMAIN r.hits : r.records[i].score >= r.hits[j].score

\* A hit that was scored is on its way, or was skipped, or ranks below all that are.
Placed(r) ==
    \A i \in DOMAIN r.scored :
        \/ Holds(r.hits, r.scored[i]) \/ Holds(r.records, r.scored[i])
        \/ r.scored[i].id \in r.skipped
        \/ /\ \A j \in DOMAIN r.hits : r.scored[i].score <= r.hits[j].score
           /\ \A j \in DOMAIN r.records : r.scored[i].score <= r.records[j].score

Untouched(r) ==
    r.pc \in {"idle", "embed", "retrieve", "rerank"} =>
        /\ r.scored = <<>> /\ r.hits = <<>> /\ r.records = <<>> /\ r.results = <<>>
        /\ r.receipt = NoReceipt

Fetched(r) == r.pc \in {"policy", "receipt", "done"} => r.hits = <<>>

Verdicts(v) == {i \in DOMAIN v : v[i]}
Cites(r) ==
    r.pc \in {"receipt", "done"} =>
        /\ r.receipt.sources = r.results
        /\ Len(r.receipt.verdicts) = Len(r.records)
        /\ Cardinality(Verdicts(r.receipt.verdicts)) = Len(r.results)

Good(r) ==
    /\ Short(r) /\ Found(r) /\ Allowed(r) /\ Ranked(r) /\ Placed(r)
    /\ Untouched(r) /\ Fetched(r) /\ Cites(r)

\* A receipt in the table is that of a call that is done.
Logged ==
    \A s \in Searches : persisted[s] # NoReceipt => req[s].pc = "done" /\ persisted[s] = req[s].receipt

Inv ==
    /\ rows \subseteq Records /\ index \subseteq Pieces
    /\ req \in [Searches -> Reqs]
    /\ DOMAIN persisted = Searches
    /\ \A s \in Searches : Good(req[s])
    /\ Logged

-----------------------------------------------------------------------------
(* The steps of a call, on its locals. *)

LEMMA EmptyHits ==
  /\ <<>> \in Seq(Hits) /\ <<>> \in Seq(Ids) /\ Len(<<>>) = 0 /\ DOMAIN <<>> = {}
  /\ NoReceipt \in [sources : Seq(Hits), verdicts : Seq(BOOLEAN)]
  /\ NoReceipt.sources = <<>> /\ NoReceipt.verdicts = <<>>
  BY DEF NoReceipt

LEMMA NoVerdicts == Cardinality(Verdicts(<<>>)) = 0
  <1>1. Verdicts(<<>>) = {}
    BY DEF Verdicts
  <1> QED BY <1>1, FS_EmptySet

LEMMA FreshGood ==
  ASSUME NEW pc \in {"idle", "embed"}, NEW t \in Tenants, NEW k \in Nat
  PROVE  Fresh(pc, t, k) \in Reqs /\ Good(Fresh(pc, t, k))
  <1> DEFINE r == Fresh(pc, t, k)
  <1>1. r \in Reqs
    BY EmptyHits DEF Fresh, Reqs, Points
  <1>2. /\ r.pc = pc /\ r.top_k = k /\ r.vec = <<>> /\ r.text = <<>> /\ r.candidates = <<>>
        /\ r.scored = <<>> /\ r.hits = <<>> /\ r.records = <<>> /\ r.results = <<>>
        /\ r.receipt = NoReceipt
    BY DEF Fresh
  <1> HIDE DEF r
  <1>3. Short(r)
    BY <1>2, EmptyHits, SearchAssumption DEF Short, SearchAssumption
  <1>4. Found(r) /\ Allowed(r) /\ Ranked(r) /\ Placed(r)
    BY <1>2, EmptyHits DEF Found, Allowed, Ranked, Descending, Placed
  <1>5. Untouched(r) /\ Fetched(r) /\ Cites(r)
    BY <1>2 DEF Untouched, Fetched, Cites
  <1> QED BY <1>1, <1>3, <1>4, <1>5 DEF Good, r

\* A step that moves on in front of the reranker, or ends the call.
LEMMA MoveGood ==
  ASSUME NEW r \in Reqs, Good(r), NEW pc \in Points,
         \/ r.pc = "embed" /\ pc = "retrieve"
         \/ pc = "failed"
         \/ r.pc = "receipt" /\ pc = "done"
         \/ r.pc = "fetch" /\ r.hits = <<>> /\ pc = "policy"
  PROVE  [r EXCEPT !.pc = pc] \in Reqs /\ Good([r EXCEPT !.pc = pc])
  <1> DEFINE q == [r EXCEPT !.pc = pc]
  <1>1. q \in Reqs
    BY DEF Reqs
  <1>2. /\ q.pc = pc /\ q.tenant = r.tenant /\ q.top_k = r.top_k /\ q.vec = r.vec /\ q.text = r.text
        /\ q.candidates = r.candidates /\ q.scored = r.scored /\ q.hits = r.hits
        /\ q.records = r.records /\ q.results = r.results /\ q.skipped = r.skipped
        /\ q.allowed = r.allowed /\ q.receipt = r.receipt
    BY DEF Reqs
  <1> HIDE DEF q
  <1>3. Short(q) /\ Found(q) /\ Allowed(q) /\ Ranked(q) /\ Placed(q)
    <2>1. Short(q)
      BY <1>2 DEF Good, Short
    <2>2. Found(q)
      <3>1. \A x : Suits(q, x) <=> Suits(r, x)
        BY <1>2 DEF Suits
      <3>2. Found(r)
        BY DEF Good
      <3> QED BY <1>2, <3>1, <3>2, Zenon DEF Found
    <2>3. Allowed(q)
      BY <1>2, Zenon DEF Good, Allowed
    <2>4. Ranked(q)
      BY <1>2, Zenon DEF Good, Ranked
    <2>5. Placed(q)
      BY <1>2, Zenon DEF Good, Placed
    <2> QED BY <2>1, <2>2, <2>3, <2>4, <2>5
  <1>4. Untouched(q) /\ Fetched(q) /\ Cites(q)
    BY <1>2 DEF Good, Untouched, Fetched, Cites
  <1> QED BY <1>1, <1>3, <1>4 DEF Good, q

(* Retrieval. *)
LEMMA IdsFinite == IsFiniteSet(Ids)
  BY SearchAssumption, FS_Union DEF SearchAssumption, Ids

LEMMA RankingsType ==
  ASSUME NEW S \in SUBSET Ids, NEW k \in Nat, NEW q \in Rankings(S, k)
  PROVE  q \in Seq(Ids) /\ Len(q) <= k /\ \A i \in DOMAIN q : q[i] \in S
  <1>1. Cardinality(S) \in Nat
    BY IdsFinite, FS_Subset, FS_CardinalityType
  <1>2. Least(k, Cardinality(S)) \in Nat /\ Least(k, Cardinality(S)) <= k
    BY <1>1 DEF Least
  <1>3. q \in [1..Least(k, Cardinality(S)) -> S]
    BY DEF Rankings
  <1> QED BY <1>2, <1>3

LEMMA FuseType ==
  ASSUME NEW vec \in Seq(Ids), NEW text \in Seq(Ids), NEW fused \in RrfFuse(vec, text)
  PROVE  fused \in Seq(Ids) /\ \A i \in DOMAIN fused : Holds(vec, fused[i]) \/ Holds(text, fused[i])
  <1> DEFINE ids == ToSet(vec) \cup ToSet(text)
  <1>1. ids \in SUBSET Ids /\ \A x \in ids : Holds(vec, x) \/ Holds(text, x)
    BY DEF ToSet, Holds
  <1>2. Cardinality(ids) \in Nat
    BY <1>1, IdsFinite, FS_Subset, FS_CardinalityType
  <1>3. fused \in Rankings(ids, Cardinality(ids))
    BY DEF RrfFuse
  <1> HIDE DEF ids
  <1>4. fused \in Seq(Ids) /\ \A i \in DOMAIN fused : fused[i] \in ids
    BY <1>1, <1>2, <1>3, RankingsType
  <1> QED BY <1>1, <1>4

Suiting(r, q) == q \in Seq(Ids) /\ \A i \in DOMAIN q : Suits(r, q[i])

Joined(r, waiting, vec, text, fused, pc) ==
    [r EXCEPT !.waiting = waiting, !.vec = vec, !.text = text,
              !.candidates = SubSeq(fused, 1, Least(CandidateK, Len(fused))), !.pc = pc]

LEMMA JoinGood ==
  ASSUME NEW r \in Reqs, Good(r), r.pc = "retrieve",
         NEW waiting \in SUBSET {"vector", "text"},
         NEW vec, NEW text, Suiting(r, vec), Suiting(r, text),
         NEW fused, fused \in RrfFuse(vec, text) \/ fused = <<>>,
         NEW pc \in {"retrieve", "receipt", "rerank"}
  PROVE  /\ Joined(r, waiting, vec, text, fused, pc) \in Reqs
         /\ Good(Joined(r, waiting, vec, text, fused, pc))
  <1> DEFINE q == Joined(r, waiting, vec, text, fused, pc)
             cut == SubSeq(fused, 1, Least(CandidateK, Len(fused)))
  <1>1. fused \in Seq(Ids) /\ \A i \in DOMAIN fused : Suits(r, fused[i])
    <2>1. CASE fused = <<>>
      BY <2>1, EmptyHits
    <2>2. CASE fused \in RrfFuse(vec, text)
      BY <2>2, FuseType DEF Suiting, Holds
    <2> QED BY <2>1, <2>2
  <1>2. Least(CandidateK, Len(fused)) \in Nat /\ Least(CandidateK, Len(fused)) <= CandidateK
        /\ Least(CandidateK, Len(fused)) <= Len(fused)
    BY <1>1, SearchAssumption DEF Least, SearchAssumption
  <1>3. cut \in Seq(Ids) /\ Len(cut) <= CandidateK /\ \A i \in DOMAIN cut : Suits(r, cut[i])
    BY <1>1, <1>2
  <1> HIDE DEF cut, q
  <1>4. q \in Reqs
    BY <1>3 DEF Reqs, Points, Suiting, cut, q, Joined
  <1>5. /\ q.pc = pc /\ q.tenant = r.tenant /\ q.top_k = r.top_k /\ q.vec = vec /\ q.text = text
        /\ q.candidates = cut /\ q.scored = r.scored /\ q.hits = r.hits
        /\ q.records = r.records /\ q.results = r.results /\ q.skipped = r.skipped
        /\ q.allowed = r.allowed /\ q.receipt = r.receipt
    BY DEF Reqs, cut, q, Joined
  <1>6. /\ r.scored = <<>> /\ r.hits = <<>> /\ r.records = <<>> /\ r.results = <<>>
        /\ r.receipt = NoReceipt
    BY DEF Good, Untouched
  <1>7. Short(q)
    BY <1>3, <1>5 DEF Good, Short
  <1>8. Found(q)
    <2>1. \A x : Suits(r, x) => Suits(q, x)
      BY <1>5 DEF Suits
    <2>2. Found(r)
      BY DEF Good
    <2>3. \A i \in DOMAIN cut : Suits(q, cut[i])
      BY <1>3, <2>1
    <2>4. (\A i \in DOMAIN vec : Suits(q, vec[i])) /\ (\A i \in DOMAIN text : Suits(q, text[i]))
      BY <2>1 DEF Suiting
    <2> QED BY <1>5, <2>1, <2>2, <2>3, <2>4 DEF Found
  <1>9. Allowed(q) /\ Ranked(q) /\ Placed(q)
    BY <1>5 DEF Good, Allowed, Ranked, Placed
  <1>10. Untouched(q) /\ Fetched(q)
    BY <1>5, <1>6 DEF Untouched, Fetched
  <1>11. Cites(q)
    BY <1>5, <1>6, EmptyHits, NoVerdicts DEF Cites
  <1> QED BY <1>4, <1>7, <1>8, <1>9, <1>10, <1>11 DEF Good, q

LEMMA RerankGood ==
  ASSUME NEW r \in Reqs, Good(r), r.pc = "rerank",
         NEW score \in [1..Len(r.candidates) -> Scores],
         NEW scored, scored = [i \in DOMAIN score |-> [id |-> r.candidates[i], score |-> score[i]]],
         NEW q, q = [r EXCEPT !.pc = IF BestOf(scored, r.top_k) = <<>> THEN "receipt" ELSE "fetch",
                              !.scored = scored, !.hits = BestOf(scored, r.top_k)]
  PROVE  q \in Reqs /\ Good(q)
  <1> DEFINE hits == BestOf(scored, r.top_k)
  <1>0. r.candidates \in Seq(Ids) /\ r.top_k \in Nat
    BY DEF Reqs
  <1>1. scored \in Seq(Hits) /\ Len(scored) = Len(r.candidates)
    BY <1>0 DEF Hits
  <1>2. \A i \in DOMAIN scored : i \in DOMAIN r.candidates /\ scored[i].id = r.candidates[i]
    BY <1>0
  <1>3. \A i \in DOMAIN scored : Suits(r, scored[i].id)
    BY <1>2 DEF Good, Found
  <1>4. /\ hits \in Seq(Hits) /\ Len(hits) <= r.top_k /\ Len(hits) <= Len(scored)
        /\ \A n \in DOMAIN hits : \E i \in DOMAIN scored : hits[n] = scored[i]
        /\ Descending(hits)
        /\ \A i \in DOMAIN scored :
              Holds(hits, scored[i]) \/ \A n \in DOMAIN hits : scored[i].score <= hits[n].score
    BY <1>0, <1>1, BestOfBest DEF Descending, Holds
  <1> HIDE DEF hits
  <1>5. q \in Reqs
    BY <1>1, <1>4 DEF Reqs, Points, hits
  <1>6. /\ q.pc = (IF hits = <<>> THEN "receipt" ELSE "fetch") /\ q.tenant = r.tenant
        /\ q.top_k = r.top_k /\ q.vec = r.vec /\ q.text = r.text
        /\ q.candidates = r.candidates /\ q.scored = scored /\ q.hits = hits
        /\ q.records = r.records /\ q.results = r.results /\ q.skipped = r.skipped
        /\ q.allowed = r.allowed /\ q.receipt = r.receipt
    BY DEF Reqs, hits
  <1>7. /\ r.records = <<>> /\ r.results = <<>> /\ r.receipt = NoReceipt
    BY DEF Good, Untouched
  <1>8. Short(q)
    <2>1. Len(hits) \in Nat /\ Len(q.records) = 0 /\ Len(q.results) = 0
      BY <1>4, <1>6, <1>7, EmptyHits
    <2>2. Len(q.candidates) <= CandidateK /\ Len(scored) \in Nat
      BY <1>0, <1>1, <1>6 DEF Good, Short
    <2>3. Len(scored) <= CandidateK
      BY <1>0, <1>1 DEF Good, Short
    <2>4. Len(hits) <= CandidateK /\ Len(hits) <= r.top_k
      <3>1. CandidateK \in Nat
        BY SearchAssumption DEF SearchAssumption
      <3> QED BY <1>4, <2>1, <2>2, <2>3, <3>1
    <2>5. q.hits = hits /\ q.scored = scored /\ q.top_k = r.top_k
      BY <1>6
    <2>6. Len(q.hits) + Len(q.records) = Len(hits)
      <3>1. ASSUME NEW a \in Nat, NEW b, NEW c, b = a, c = 0 PROVE b + c = a
        BY <3>1
      <3> QED BY <2>1, <2>5, <3>1
    <2>7. Len(q.results) <= Len(q.records)
      BY <2>1
    <2> QED BY <2>2, <2>3, <2>4, <2>5, <2>6, <2>7 DEF Short
  <1>9. Found(q)
    <2>1. \A x : Suits(r, x) => Suits(q, x)
      BY <1>6 DEF Suits
    <2>2. Found(r)
      BY DEF Good
    <2>3. \A i \in DOMAIN scored : Suits(q, scored[i].id)
      BY <1>3, <2>1
    <2>4. \A n \in DOMAIN hits : Suits(q, hits[n].id)
      BY <1>4, <2>3
    <2>5. /\ \A i \in DOMAIN q.vec : Suits(q, q.vec[i])
          /\ \A i \in DOMAIN q.text : Suits(q, q.text[i])
          /\ \A i \in DOMAIN q.candidates : Suits(q, q.candidates[i])
      BY <1>6, <2>1, <2>2, Zenon DEF Found
    <2>6. \A i \in DOMAIN q.scored : Suits(q, q.scored[i].id)
      BY <1>6, <2>3, Zenon
    <2>7. \A i \in DOMAIN q.hits : Suits(q, q.hits[i].id)
      BY <1>6, <2>4, Zenon
    <2>8. DOMAIN q.records = {}
      BY <1>6, <1>7, EmptyHits
    <2> QED BY <2>5, <2>6, <2>7, <2>8, Zenon DEF Found
  <1>10. Allowed(q) /\ Ranked(q) /\ Placed(q)
    <2>1. DOMAIN q.records = {} /\ DOMAIN q.results = {} /\ q.hits = hits /\ q.scored = scored
      BY <1>6, <1>7, EmptyHits
    <2>2. Allowed(q)
      BY <2>1, Zenon DEF Allowed
    <2>3. Ranked(q)
      BY <1>4, <2>1, Zenon DEF Ranked, Descending
    <2>4. Placed(q)
      BY <1>4, <2>1, Zenon DEF Placed
    <2> QED BY <2>2, <2>3, <2>4
  <1>11. Untouched(q) /\ Fetched(q)
    BY <1>6 DEF Untouched, Fetched
  <1>12. Cites(q)
    BY <1>6, <1>7, EmptyHits, NoVerdicts DEF Cites
  <1> QED BY <1>5, <1>8, <1>9, <1>10, <1>11, <1>12 DEF Good

(* Fetch, policy and receipt. *)
\* One hit fewer and at most one record more.
LEMMA Moved ==
  ASSUME NEW a \in Nat, NEW b \in Nat, NEW k \in Nat, a + b <= k,
         NEW c, NEW d, c = a - 1, d = b \/ d = b + 1
  PROVE  c + d <= k
  OBVIOUS

LEMMA PartOf ==
  ASSUME NEW a \in Nat, NEW b \in Nat, NEW k \in Nat, a + b <= k, NEW c \in Nat, c <= b
  PROVE  a <= k /\ b <= k /\ c <= k
  OBVIOUS

LEMMA HoldsTail ==
  ASSUME NEW q \in Seq(Hits), q # <<>>
  PROVE  /\ q[1] \in Hits /\ Tail(q) \in Seq(Hits) /\ Len(Tail(q)) = Len(q) - 1 /\ 1 \in DOMAIN q
         /\ \A i \in DOMAIN Tail(q) : i + 1 \in DOMAIN q /\ 1 < i + 1 /\ Tail(q)[i] = q[i + 1]
         /\ \A x : Holds(q, x) => x = q[1] \/ Holds(Tail(q), x)
  <1>1. /\ q[1] \in Hits /\ Tail(q) \in Seq(Hits) /\ Len(Tail(q)) = Len(q) - 1 /\ 1 \in DOMAIN q
        /\ \A i \in DOMAIN Tail(q) : i + 1 \in DOMAIN q /\ 1 < i + 1 /\ Tail(q)[i] = q[i + 1]
    OBVIOUS
  <1>2. ASSUME NEW x, Holds(q, x), x # q[1] PROVE Holds(Tail(q), x)
    <2>1. PICK i \in DOMAIN q : q[i] = x
      BY <1>2 DEF Holds
    <2>2. i - 1 \in DOMAIN Tail(q) /\ Tail(q)[i - 1] = x
      BY <1>2, <2>1
    <2> QED BY <2>2 DEF Holds
  <1> QED BY <1>1, <1>2

LEMMA HoldsAppend ==
  ASSUME NEW q \in Seq(Hits), NEW h \in Hits
  PROVE  /\ Append(q, h) \in Seq(Hits) /\ Len(Append(q, h)) = Len(q) + 1
         /\ DOMAIN Append(q, h) = DOMAIN q \cup {Len(q) + 1}
         /\ \A i \in DOMAIN q : Append(q, h)[i] = q[i] /\ i < Len(q) + 1
         /\ Append(q, h)[Len(q) + 1] = h
         /\ Holds(Append(q, h), h)
         /\ \A x : Holds(q, x) => Holds(Append(q, h), x)
  <1>1. /\ Append(q, h) \in Seq(Hits) /\ Len(Append(q, h)) = Len(q) + 1
        /\ DOMAIN Append(q, h) = DOMAIN q \cup {Len(q) + 1}
        /\ \A i \in DOMAIN q : Append(q, h)[i] = q[i] /\ i < Len(q) + 1
        /\ Append(q, h)[Len(q) + 1] = h
    OBVIOUS
  <1> QED BY <1>1 DEF Holds

\* Without its first hit the rest keeps its order and ranks below that.
LEMMA TailRanks ==
  ASSUME NEW q \in Seq(Hits), q # <<>>, Descending(q)
  PROVE  Descending(Tail(q)) /\ \A j \in DOMAIN Tail(q) : q[1].score >= Tail(q)[j].score
  <1>1. \A i, j \in DOMAIN Tail(q) : i < j => i + 1 < j + 1
    OBVIOUS
  <1> QED BY <1>1, HoldsTail DEF Descending

LEMMA SkipGood ==
  ASSUME NEW r \in Reqs, Good(r), r.pc = "fetch", r.hits # <<>>
  PROVE  LET q == [r EXCEPT !.hits = Tail(@), !.skipped = @ \cup {r.hits[1].id}]
         IN  q \in Reqs /\ Good(q)
  <1> DEFINE q == [r EXCEPT !.hits = Tail(@), !.skipped = @ \cup {r.hits[1].id}]
  <1> SUFFICES q \in Reqs /\ Good(q)
    OBVIOUS
  <1> HIDE DEF q
  <1>0. r.hits \in Seq(Hits) /\ r.records \in Seq(Hits) /\ r.results \in Seq(Hits) /\ r.top_k \in Nat
    BY DEF Reqs
  <1>1. r.hits[1].id \in Ids /\ Tail(r.hits) \in Seq(Hits)
    BY <1>0, HoldsTail DEF Hits
  <1>2. q \in Reqs
    BY <1>1 DEF Reqs, q
  <1>3. /\ q.pc = r.pc /\ q.tenant = r.tenant /\ q.top_k = r.top_k /\ q.vec = r.vec /\ q.text = r.text
        /\ q.candidates = r.candidates /\ q.scored = r.scored /\ q.hits = Tail(r.hits)
        /\ q.records = r.records /\ q.results = r.results
        /\ q.skipped = r.skipped \cup {r.hits[1].id}
        /\ q.allowed = r.allowed /\ q.receipt = r.receipt
    BY DEF Reqs, q
  <1>4. Short(q)
    <2>1. /\ Len(q.hits) = Len(r.hits) - 1 /\ Len(q.records) = Len(r.records)
          /\ Len(r.hits) \in Nat /\ Len(r.records) \in Nat
      BY <1>0, <1>3, HoldsTail
    <2>2. /\ Len(r.candidates) <= CandidateK /\ Len(r.scored) <= CandidateK
          /\ Len(r.hits) + Len(r.records) <= CandidateK /\ Len(r.hits) + Len(r.records) <= r.top_k
          /\ Len(r.results) <= Len(r.records)
      BY DEF Good, Short
    <2>3. CandidateK \in Nat /\ Len(r.results) \in Nat /\ q.top_k = r.top_k
      BY <1>0, <1>3, SearchAssumption DEF SearchAssumption
    <2>5. Len(q.hits) + Len(q.records) <= CandidateK /\ Len(q.hits) + Len(q.records) <= r.top_k
      BY <1>0, <2>1, <2>2, <2>3, Moved
    <2>6. Len(q.results) <= Len(q.records)
      BY <1>3, <2>1, <2>2, <2>3
    <2> QED BY <1>3, <2>2, <2>5, <2>6 DEF Short
  <1>5. Found(q)
    <2>1. \A x : Suits(r, x) => Suits(q, x)
      BY <1>3 DEF Suits
    <2>2. Found(r)
      BY DEF Good
    <2>3. \A i \in DOMAIN q.hits : Suits(q, q.hits[i].id)
      BY <1>0, <1>3, <2>1, <2>2, HoldsTail DEF Found
    <2> QED BY <1>3, <2>1, <2>2, <2>3 DEF Found
  <1>6. Ranked(q)
    BY <1>0, <1>3, HoldsTail, TailRanks DEF Good, Ranked
  <1>7. Placed(q)
    <2>1. ASSUME NEW i \in DOMAIN r.scored, Holds(r.hits, r.scored[i])
          PROVE  Holds(q.hits, r.scored[i]) \/ r.scored[i].id \in q.skipped
      BY <1>0, <1>3, <2>1, HoldsTail
    <2> QED BY <1>0, <1>3, <2>1, HoldsTail DEF Good, Placed
  <1>8. Allowed(q) /\ Untouched(q) /\ Fetched(q) /\ Cites(q)
    BY <1>3 DEF Good, Allowed, Untouched, Fetched, Cites
  <1> QED BY <1>2, <1>4, <1>5, <1>6, <1>7, <1>8 DEF Good

LEMMA FetchGood ==
  ASSUME NEW r \in Reqs, Good(r), r.pc = "fetch", r.hits # <<>>, r.hits[1].id \in Records
  PROVE  LET q == [r EXCEPT !.hits = Tail(@), !.records = Append(@, r.hits[1])]
         IN  q \in Reqs /\ Good(q)
  <1> DEFINE h == r.hits[1]
  <1> DEFINE q == [r EXCEPT !.hits = Tail(@), !.records = Append(@, r.hits[1])]
  <1> SUFFICES q \in Reqs /\ Good(q)
    OBVIOUS
  <1> HIDE DEF q
  <1>0. r.hits \in Seq(Hits) /\ r.records \in Seq(Hits) /\ r.results \in Seq(Hits) /\ r.top_k \in Nat
    BY DEF Reqs
  <1>1. h \in Hits /\ Tail(r.hits) \in Seq(Hits) /\ Append(r.records, h) \in Seq(Hits)
    BY <1>0, HoldsTail
  <1>2. q \in Reqs
    BY <1>1 DEF Reqs, q
  <1>3. /\ q.pc = r.pc /\ q.tenant = r.tenant /\ q.top_k = r.top_k /\ q.vec = r.vec /\ q.text = r.text
        /\ q.candidates = r.candidates /\ q.scored = r.scored /\ q.hits = Tail(r.hits)
        /\ q.records = Append(r.records, h) /\ q.results = r.results
        /\ q.skipped = r.skipped /\ q.allowed = r.allowed /\ q.receipt = r.receipt
    BY DEF Reqs, q
  <1>4. Short(q)
    <2>1. /\ Len(q.hits) = Len(r.hits) - 1 /\ Len(q.records) = Len(r.records) + 1
          /\ Len(r.hits) \in Nat /\ Len(r.records) \in Nat /\ Len(r.results) \in Nat
      BY <1>0, <1>1, <1>3, HoldsTail, HoldsAppend
    <2>2. /\ Len(r.candidates) <= CandidateK /\ Len(r.scored) <= CandidateK
          /\ Len(r.hits) + Len(r.records) <= CandidateK /\ Len(r.hits) + Len(r.records) <= r.top_k
          /\ Len(r.results) <= Len(r.records)
      BY DEF Good, Short
    <2>3. CandidateK \in Nat /\ Len(r.results) \in Nat /\ q.top_k = r.top_k
      BY <1>0, <1>3, SearchAssumption DEF SearchAssumption
    <2>5. Len(q.hits) + Len(q.records) <= CandidateK /\ Len(q.hits) + Len(q.records) <= r.top_k
      BY <1>0, <2>1, <2>2, <2>3, Moved
    <2>6. Len(q.results) <= Len(q.records)
      BY <1>3, <2>1, <2>2, <2>3
    <2> QED BY <1>3, <2>2, <2>5, <2>6 DEF Short
  <1>5. Found(q)
    <2>1. \A x : Suits(r, x) => Suits(q, x)
      BY <1>3 DEF Suits
    <2>2. Found(r)
      BY DEF Good
    <2>3. \A i \in DOMAIN q.hits : Suits(q, q.hits[i].id)
      BY <1>0, <1>3, <2>1, <2>2, HoldsTail DEF Found
    <2>4. \A i \in DOMAIN q.records : q.records[i] = h \/ \E j \in DOMAIN r.records : q.records[i] = r.records[j]
      BY <1>0, <1>1, <1>3, HoldsAppend
    <2>5. h.id \in Records /\ Suits(q, h.id)
      BY <1>0, <2>1, <2>2, HoldsTail DEF Found
    <2>6. \A i \in DOMAIN q.records : q.records[i].id \in Records /\ Suits(q, q.records[i].id)
      BY <2>1, <2>2, <2>4, <2>5 DEF Found
    <2> QED BY <1>3, <2>1, <2>2, <2>3, <2>6 DEF Found
  <1>6. Ranked(q)
    <2>1. Descending(r.hits) /\ Descending(r.records) /\ Descending(r.results)
          /\ \A i \in DOMAIN r.records, j \in DOMAIN r.hits : r.records[i].score >= r.hits[j].score
      BY DEF Good, Ranked
    <2>2. Descending(q.hits) /\ \A j \in DOMAIN q.hits : h.score >= q.hits[j].score
      BY <1>0, <1>3, <2>1, TailRanks
    <2>3. \A i \in DOMAIN r.records : r.records[i].score >= h.score /\ \A j \in DOMAIN q.hits : r.records[i].score >= q.hits[j].score
      BY <1>0, <1>3, <2>1, HoldsTail
    <2>4. /\ DOMAIN q.records = DOMAIN r.records \cup {Len(r.records) + 1}
          /\ \A i \in DOMAIN r.records : q.records[i] = r.records[i] /\ i < Len(r.records) + 1 /\ i \in Nat
          /\ q.records[Len(r.records) + 1] = h /\ Len(r.records) \in Nat
      BY <1>0, <1>1, <1>3, HoldsAppend
    <2>5. Descending(q.records)
      BY <2>1, <2>3, <2>4 DEF Descending
    <2>6. \A i \in DOMAIN q.records, j \in DOMAIN q.hits : q.records[i].score >= q.hits[j].score
      BY <2>2, <2>3, <2>4
    <2> QED BY <1>3, <2>1, <2>2, <2>5, <2>6 DEF Ranked
  <1>7. Placed(q)
    <2>0. Placed(r)
      BY DEF Good
    <2>1. \A x : Holds(r.hits, x) => Holds(q.hits, x) \/ x = h
      BY <1>0, <1>3, HoldsTail
    <2>2. Holds(q.records, h) /\ \A x : Holds(r.records, x) => Holds(q.records, x)
      BY <1>0, <1>1, <1>3, HoldsAppend
    <2>3. ASSUME NEW v, \A j \in DOMAIN r.hits : v <= r.hits[j].score,
                        \A j \in DOMAIN r.records : v <= r.records[j].score
          PROVE  /\ \A j \in DOMAIN q.hits : v <= q.hits[j].score
                 /\ \A j \in DOMAIN q.records : v <= q.records[j].score
      <3>1. \A j \in DOMAIN q.hits : v <= q.hits[j].score
        BY <1>0, <1>3, <2>3, HoldsTail
      <3>2. v <= h.score
        BY <1>0, <2>3, HoldsTail
      <3>3. \A i \in DOMAIN q.records : q.records[i] = h \/ \E j \in DOMAIN r.records : q.records[i] = r.records[j]
        BY <1>0, <1>1, <1>3, HoldsAppend
      <3> QED BY <2>3, <3>1, <3>2, <3>3
    <2> HIDE DEF h
    <2> QED BY <1>3, <2>0, <2>1, <2>2, <2>3 DEF Placed
  <1>8. Allowed(q)
    <2>1. \A x : Holds(r.records, x) => Holds(q.records, x)
      BY <1>0, <1>1, <1>3, HoldsAppend
    <2> QED BY <1>3, <2>1 DEF Good, Allowed
  <1>9. Untouched(q) /\ Fetched(q) /\ Cites(q)
    BY <1>3 DEF Good, Untouched, Fetched, Cites
  <1> QED BY <1>2, <1>4, <1>5, <1>6, <1>7, <1>8, <1>9 DEF Good

\* The verdicts of the records, and the records they keep.
LEMMA PolicyGood ==
  ASSUME NEW r \in Reqs, Good(r), r.pc = "policy", NEW allowed \in SUBSET Records
  PROVE  LET mask == [i \in DOMAIN r.records |-> r.records[i].id \in allowed]
             kept == Keep(r.records, mask)
             q == [r EXCEPT !.pc = "receipt", !.allowed = allowed, !.results = kept,
                            !.receipt = [sources |-> kept, verdicts |-> mask]]
         IN  q \in Reqs /\ Good(q)
  <1> DEFINE mask == [i \in DOMAIN r.records |-> r.records[i].id \in allowed]
             kept == Keep(r.records, mask)
             q == [r EXCEPT !.pc = "receipt", !.allowed = allowed, !.results = kept,
                            !.receipt = [sources |-> kept, verdicts |-> mask]]
  <1> SUFFICES q \in Reqs /\ Good(q)
    OBVIOUS
  <1>0. r.records \in Seq(Hits) /\ r.hits = <<>>
    BY DEF Reqs, Good, Fetched
  <1> DEFINE K == Kept(r.records, mask)
  <1>1. \A i \in K : i \in DOMAIN r.records /\ r.records[i].id \in allowed
    BY Zenon DEF Kept
  <1>2. mask \in [1..Len(r.records) -> BOOLEAN] /\ Len(r.records) \in Nat /\ DOMAIN mask = DOMAIN r.records
    <2>1. DOMAIN r.records = 1..Len(r.records) /\ Len(r.records) \in Nat
      BY <1>0
    <2>2. \A i \in DOMAIN r.records : (r.records[i].id \in allowed) \in BOOLEAN
      OBVIOUS
    <2>3. DOMAIN mask = DOMAIN r.records
      BY Zenon
    <2>4. mask \in [DOMAIN r.records -> BOOLEAN]
      BY <2>2, Zenon
    <2> QED BY <2>1, <2>3, <2>4, Zenon
  <1>3. Verdicts(mask) = K
    BY <1>2, Zenon DEF Verdicts, Kept
  <1> HIDE DEF mask, K
  <1>4. mask \in Seq(BOOLEAN) /\ Len(mask) = Len(r.records)
    BY <1>2
  <1>5. /\ Cardinality(K) \in Nat /\ Cardinality(K) <= Len(r.records)
        /\ kept \in Seq(Hits) /\ Len(kept) = Cardinality(K)
        /\ \A n \in 1..Cardinality(K) : \E i \in K : kept[n] = r.records[i]
        /\ (\A i, j \in DOMAIN r.records : i < j => r.records[i].score >= r.records[j].score)
               => \A m, n \in 1..Cardinality(K) : m < n => kept[m].score >= kept[n].score
    BY <1>0, KeepKeeps DEF K
  <1>6. \A n \in DOMAIN kept : \E i \in DOMAIN r.records : kept[n] = r.records[i] /\ r.records[i].id \in allowed
    BY <1>1, <1>5
  <1>7. Descending(kept)
    BY <1>5 DEF Good, Ranked, Descending
  <1> HIDE DEF kept, q
  <1>8. q \in Reqs
    BY <1>4, <1>5 DEF q, Reqs, Points
  <1>9. /\ q.pc = "receipt" /\ q.tenant = r.tenant /\ q.top_k = r.top_k /\ q.vec = r.vec /\ q.text = r.text
        /\ q.candidates = r.candidates /\ q.scored = r.scored /\ q.hits = r.hits
        /\ q.records = r.records /\ q.results = kept /\ q.skipped = r.skipped
        /\ q.allowed = allowed /\ q.receipt.sources = kept /\ q.receipt.verdicts = mask
    BY DEF q, Reqs
  <1>10. Short(q)
    BY <1>5, <1>9 DEF Good, Short
  <1>11. Found(q)
    BY <1>9 DEF Good, Found, Suits
  <1>12. Allowed(q)
    BY <1>6, <1>9 DEF Allowed, Holds
  <1>13. Ranked(q) /\ Placed(q)
    BY <1>7, <1>9 DEF Good, Ranked, Placed
  <1>14. Untouched(q) /\ Fetched(q)
    BY <1>0, <1>9 DEF Untouched, Fetched
  <1>15. Cites(q)
    BY <1>3, <1>4, <1>5, <1>9 DEF Cites
  <1> QED BY <1>8, <1>10, <1>11, <1>12, <1>13, <1>14, <1>15 DEF Good

-----------------------------------------------------------------------------
(* The steps of the system. *)

\* One call moves, the table of receipts stays; a call that was done keeps its
\* receipt or takes it along.
LEMMA CallMoves ==
  ASSUME Inv, NEW s \in Searches, NEW q, q \in Reqs /\ Good(q),
         req' = [req EXCEPT ![s] = q], req[s].pc # "done",
         UNCHANGED <<rows, index, persisted>>
  PROVE  Inv'
  <1>1. req' \in [Searches -> Reqs] /\ req'[s] = q /\ \A t \in Searches : t # s => req'[t] = req[t]
    BY DEF Inv
  <1>2. \A t \in Searches : Good(req'[t])
    BY <1>1 DEF Inv
  <1>3. persisted[s] = NoReceipt
    BY DEF Inv, Logged
  <1>4. Logged'
    BY <1>1, <1>3 DEF Inv, Logged
  <1> QED BY <1>1, <1>2, <1>4 DEF Inv

LEMMA InitInv == Init => Inv
  <1> SUFFICES ASSUME Init PROVE Inv
    OBVIOUS
  <1>1. NoTenant \in Tenants /\ 0 \in Nat
    BY SearchAssumption DEF SearchAssumption
  <1>2. Fresh("idle", NoTenant, 0) \in Reqs /\ Good(Fresh("idle", NoTenant, 0))
    BY <1>1, FreshGood
  <1> QED BY <1>2 DEF Init, Inv, Logged

LEMMA BeginInv ==
  ASSUME Inv, NEW s \in Searches, Begin(s) PROVE Inv'
  <1>1. PICK t \in Tenants, k \in TopKs : req' = [req EXCEPT ![s] = Fresh("embed", t, k)]
    BY DEF Begin
  <1>2. k \in Nat
    BY SearchAssumption DEF SearchAssumption
  <1>3. Fresh("embed", t, k) \in Reqs /\ Good(Fresh("embed", t, k))
    BY <1>2, FreshGood
  <1> QED BY <1>1, <1>3, CallMoves DEF Begin, At

LEMMA MoveInv ==
  ASSUME Inv, NEW s \in Searches, Embed(s) \/ FetchDone(s) \/ Fail(s) PROVE Inv'
  <1>1. req[s] \in Reqs /\ Good(req[s])
    BY DEF Inv
  <1>2. PICK pc \in Points :
          /\ req' = [req EXCEPT ![s] = [req[s] EXCEPT !.pc = pc]]
          /\ \/ req[s].pc = "embed" /\ pc = "retrieve"
             \/ req[s].pc # "done" /\ pc = "failed"
             \/ req[s].pc = "fetch" /\ req[s].hits = <<>> /\ pc = "policy"
    BY DEF Embed, FetchDone, Fail, At, Points
  <1>3. [req[s] EXCEPT !.pc = pc] \in Reqs /\ Good([req[s] EXCEPT !.pc = pc])
    BY <1>1, <1>2, MoveGood
  <1>4. req[s].pc # "done" /\ UNCHANGED <<rows, index, persisted>>
    BY DEF Embed, FetchDone, Fail, At
  <1> QED BY <1>2, <1>3, <1>4, CallMoves

\* Join is the step of either backend, with an answer that suits the caller.
LEMMA JoinInv ==
  ASSUME Inv, NEW s \in Searches, At(s, "retrieve"), NEW backend \in {"vector", "text"},
         NEW answer, Suiting(req[s], answer), Join(s, backend, answer),
         UNCHANGED <<rows, index, persisted>>
  PROVE  Inv'
  <1> DEFINE r == req[s]
             vec == IF backend = "vector" THEN answer ELSE r.vec
             text == IF backend = "text" THEN answer ELSE r.text
             waiting == r.waiting \ {backend}
  <1>1. r \in Reqs /\ Good(r) /\ r.pc = "retrieve"
    BY DEF Inv, At
  <1>2. Suiting(r, r.vec) /\ Suiting(r, r.text)
    BY <1>1 DEF Good, Found, Suiting, Reqs
  <1>3. Suiting(r, vec) /\ Suiting(r, text) /\ waiting \in SUBSET {"vector", "text"}
    BY <1>1, <1>2 DEF Reqs
  <1>4. PICK fused \in IF waiting = {} THEN RrfFuse(vec, text) ELSE {<<>>} :
          req' = [req EXCEPT
                ![s].waiting = waiting, ![s].vec = vec, ![s].text = text,
                ![s].candidates = SubSeq(fused, 1, Least(CandidateK, Len(fused))),
                ![s].pc = IF waiting # {} THEN "retrieve"
                          ELSE IF fused = <<>> THEN "receipt" ELSE "rerank"]
    BY DEF Join
  <1> DEFINE pc == IF waiting # {} THEN "retrieve" ELSE IF fused = <<>> THEN "receipt" ELSE "rerank"
             q == Joined(r, waiting, vec, text, fused, pc)
  <1>5. req' = [req EXCEPT ![s] = q]
    BY <1>4 DEF Inv, Joined
  <1>6. pc \in {"retrieve", "receipt", "rerank"} /\ (fused \in RrfFuse(vec, text) \/ fused = <<>>)
    BY <1>4
  <1> HIDE DEF r, vec, text, waiting, pc
  <1>7. q \in Reqs /\ Good(q)
    BY <1>1, <1>3, <1>6, JoinGood
  <1> QED BY <1>1, <1>5, <1>7, CallMoves DEF r

LEMMA VectorInv ==
  ASSUME Inv, NEW s \in Searches, VectorAnswers(s) PROVE Inv'
  <1> DEFINE seen == {p \in index : req[s].tenant \in {NoTenant, TenantOf[RecordOf[p]]}}
  <1>1. PICK answer \in Rankings(seen, CandidateK) \cup {<<>>} : Join(s, "vector", answer)
    BY DEF VectorAnswers
  <1>2. seen \in SUBSET Ids /\ CandidateK \in Nat /\ \A p \in seen : p \notin Records
    BY SearchAssumption DEF SearchAssumption, Inv, Ids
  <1> HIDE DEF seen
  <1>3. Suiting(req[s], answer)
    <2>1. CASE answer = <<>>
      BY <2>1, EmptyHits DEF Suiting
    <2>2. CASE answer \in Rankings(seen, CandidateK)
      BY <1>2, <2>2, RankingsType DEF Suiting, Suits
    <2> QED BY <2>1, <2>2
  <1> QED BY <1>1, <1>3, JoinInv DEF VectorAnswers

LEMMA TextInv ==
  ASSUME Inv, NEW s \in Searches, TextAnswers(s) PROVE Inv'
  <1>1. PICK matching \in SUBSET {r \in rows : TenantOf[r] = req[s].tenant} :
          \E answer \in Rankings(matching, CandidateK) : Join(s, "text", answer)
    BY DEF TextAnswers
  <1>2. PICK answer \in Rankings(matching, CandidateK) : Join(s, "text", answer)
    BY <1>1
  <1>3. matching \in SUBSET Ids /\ CandidateK \in Nat /\ \A x \in matching : TenantOf[x] = req[s].tenant
    BY SearchAssumption DEF SearchAssumption, Inv, Ids
  <1>4. Suiting(req[s], answer)
    BY <1>3, RankingsType DEF Suiting, Suits
  <1> QED BY <1>2, <1>4, JoinInv DEF TextAnswers

LEMMA RerankInv ==
  ASSUME Inv, NEW s \in Searches, Rerank(s) PROVE Inv'
  <1>1. PICK score \in [1..Len(req[s].candidates) -> Scores] :
          LET scored == [i \in DOMAIN score |-> [id |-> req[s].candidates[i], score |-> score[i]]]
              hits == BestOf(scored, req[s].top_k)
          IN  req' = [req EXCEPT ![s].pc = IF hits = <<>> THEN "receipt" ELSE "fetch",
                                 ![s].scored = scored, ![s].hits = hits]
    BY DEF Rerank
  <1> DEFINE scored == [i \in DOMAIN score |-> [id |-> req[s].candidates[i], score |-> score[i]]]
             q == [req[s] EXCEPT !.pc = IF BestOf(scored, req[s].top_k) = <<>> THEN "receipt" ELSE "fetch",
                              !.scored = scored, !.hits = BestOf(scored, req[s].top_k)]
  <1>2. req' = [req EXCEPT ![s] = q]
    BY <1>1 DEF Inv
  <1>3. req[s] \in Reqs /\ Good(req[s]) /\ req[s].pc = "rerank" /\ UNCHANGED <<rows, index, persisted>>
    BY DEF Inv, Rerank, At
  <1>4. q \in Reqs /\ Good(q)
    BY <1>3, RerankGood
  <1> QED BY <1>2, <1>3, <1>4, CallMoves

LEMMA FetchInv ==
  ASSUME Inv, NEW s \in Searches, FetchRow(s) PROVE Inv'
  <1> DEFINE r == req[s]
             taken == [r EXCEPT !.hits = Tail(@), !.records = Append(@, r.hits[1])]
             passed == [r EXCEPT !.hits = Tail(@), !.skipped = @ \cup {r.hits[1].id}]
  <1>1. r \in Reqs /\ Good(r) /\ r.pc = "fetch" /\ r.hits # <<>> /\ UNCHANGED <<rows, index, persisted>>
    BY DEF Inv, FetchRow, At
  <1>2. CASE r.hits[1].id \in rows /\ req' = [req EXCEPT ![s] = taken]
    <2>1. r.hits[1].id \in Records
      BY <1>2 DEF Inv
    <2>2. taken \in Reqs /\ Good(taken)
      BY <1>1, <2>1, FetchGood
    <2> QED BY <1>1, <1>2, <2>2, CallMoves
  <1>3. CASE req' = [req EXCEPT ![s] = passed]
    <2>1. passed \in Reqs /\ Good(passed)
      BY <1>1, SkipGood
    <2> QED BY <1>1, <1>3, <2>1, CallMoves
  <1>4. \/ r.hits[1].id \in rows /\ req' = [req EXCEPT ![s] = taken]
        \/ req' = [req EXCEPT ![s] = passed]
    BY DEF FetchRow, Pending, Inv
  <1> QED BY <1>2, <1>3, <1>4

LEMMA PolicyInv ==
  ASSUME Inv, NEW s \in Searches, ApplyPolicy(s) PROVE Inv'
  <1>1. PICK allowed \in SUBSET Records :
          LET recs == req[s].records
              mask == [i \in DOMAIN recs |-> recs[i].id \in allowed]
              kept == Keep(recs, mask)
          IN  req' = [req EXCEPT ![s].pc = "receipt", ![s].allowed = allowed, ![s].results = kept,
                                 ![s].receipt = [sources |-> kept, verdicts |-> mask]]
    BY DEF ApplyPolicy
  <1> DEFINE r == req[s]
             mask == [i \in DOMAIN r.records |-> r.records[i].id \in allowed]
             kept == Keep(r.records, mask)
             q == [r EXCEPT !.pc = "receipt", !.allowed = allowed, !.results = kept,
                            !.receipt = [sources |-> kept, verdicts |-> mask]]
  <1>2. req' = [req EXCEPT ![s] = q]
    BY <1>1, Zenon
  <1>3. r \in Reqs /\ Good(r) /\ r.pc = "policy" /\ UNCHANGED <<rows, index, persisted>>
    BY DEF Inv, ApplyPolicy, At
  <1>4. q \in Reqs /\ Good(q)
    BY <1>3, PolicyGood, Zenon
  <1> HIDE DEF q
  <1> QED BY <1>2, <1>3, <1>4, CallMoves

LEMMA LogInv ==
  ASSUME Inv, NEW s \in Searches, LogReceipt(s) PROVE Inv'
  <1>1. req[s] \in Reqs /\ Good(req[s]) /\ req[s].pc = "receipt"
    BY DEF Inv, LogReceipt, At
  <1> DEFINE q == [req[s] EXCEPT !.pc = "done"]
  <1>2. q \in Reqs /\ Good(q)
    BY <1>1, MoveGood DEF Points
  <1>3. q.pc = "done" /\ q.receipt = req[s].receipt
    BY <1>1 DEF Reqs
  <1>4. req' = [req EXCEPT ![s] = q]
    BY DEF LogReceipt, Inv
  <1> HIDE DEF q
  <1>5. req' \in [Searches -> Reqs] /\ req'[s] = q /\ \A t \in Searches : t # s => req'[t] = req[t]
    BY <1>2, <1>4 DEF Inv
  <1>6. DOMAIN persisted' = Searches /\ persisted'[s] \in {persisted[s], req[s].receipt}
        /\ \A t \in Searches : t # s => persisted'[t] = persisted[t]
    BY DEF LogReceipt, Inv
  <1>7. persisted[s] = NoReceipt
    BY <1>1 DEF Inv, Logged
  <1>8. Logged'
    BY <1>3, <1>5, <1>6, <1>7 DEF Inv, Logged
  <1>9. \A t \in Searches : Good(req'[t])
    BY <1>2, <1>5 DEF Inv
  <1> QED BY <1>5, <1>6, <1>8, <1>9 DEF Inv, LogReceipt

LEMMA ReturnInv ==
  ASSUME Inv, NEW s \in Searches, Return(s) PROVE Inv'
  <1> DEFINE q == Fresh("idle", NoTenant, 0)
  <1>1. q \in Reqs /\ Good(q)
    BY SearchAssumption, FreshGood DEF SearchAssumption
  <1> HIDE DEF q
  <1>2. req' = [req EXCEPT ![s] = q]
    BY DEF Return, q
  <1>3. req' \in [Searches -> Reqs] /\ req'[s] = q /\ \A t \in Searches : t # s => req'[t] = req[t]
    BY <1>1, <1>2 DEF Inv
  <1>4. DOMAIN persisted' = Searches /\ persisted'[s] = NoReceipt
        /\ \A t \in Searches : t # s => persisted'[t] = persisted[t]
    BY DEF Return, Inv
  <1>5. Logged' /\ \A t \in Searches : Good(req'[t])
    BY <1>1, <1>3, <1>4 DEF Inv, Logged
  <1> QED BY <1>3, <1>4, <1>5 DEF Inv, Return

LEMMA StepInv == Inv /\ [Next]_vars => Inv'
  <1> SUFFICES ASSUME Inv, [Next]_vars PROVE Inv'
    OBVIOUS
  <1>1. CASE StoresChange
    <2>1. rows' \subseteq Records /\ index' \subseteq Pieces /\ UNCHANGED <<req, persisted>>
      BY <1>1 DEF StoresChange, Inv
    <2> QED BY <2>1 DEF Inv, Logged
  <1>2. ASSUME NEW s \in Searches, Begin(s) \/ SearchStep(s) \/ Return(s) PROVE Inv'
    BY <1>2, BeginInv, MoveInv, VectorInv, TextInv, RerankInv, FetchInv, PolicyInv, LogInv, ReturnInv
    DEF SearchStep
  <1>3. CASE UNCHANGED vars
    BY <1>3 DEF vars, Inv, Logged
  <1> QED BY <1>1, <1>2, <1>3 DEF Next

LEMMA AlwaysInv == Spec => []Inv
  BY InitInv, StepInv, PTL DEF Spec

-----------------------------------------------------------------------------
\* What fits in Seq(Hits) and is short enough is one of HitSeqs.
LEMMA ShortSeq ==
  ASSUME NEW q \in Seq(Hits), Len(q) <= CandidateK
  PROVE  q \in HitSeqs
  <1>1. CandidateK \in Nat
    BY SearchAssumption DEF SearchAssumption
  <1>2. Len(q) \in 0..(2 * CandidateK) /\ q \in [1..Len(q) -> Hits]
    BY <1>1
  <1> QED BY <1>2 DEF HitSeqs

(***************************************************************************)
(* Type correctness of every search: no list outgrows candidate_k.         *)
(***************************************************************************)
THEOREM TypeCorrect == Spec => []TypeOK
  <1>1. Inv => TypeOK
    <2> SUFFICES ASSUME Inv, NEW s \in Searches
                 PROVE  /\ req[s].pc \in Points /\ req[s].tenant \in Tenants
                        /\ req[s].candidates \in Seq(Ids) /\ Len(req[s].candidates) <= CandidateK
                        /\ {req[s].scored, req[s].hits, req[s].records, req[s].results} \subseteq HitSeqs
      BY DEF TypeOK, Inv
    <2> DEFINE r == req[s]
    <2>1. r \in Reqs /\ Short(r)
      BY DEF Inv, Good
    <2> HIDE DEF r
    <2>2. r.scored \in Seq(Hits) /\ r.hits \in Seq(Hits) /\ r.records \in Seq(Hits) /\ r.results \in Seq(Hits)
      BY <2>1 DEF Reqs
    <2>3. Len(r.hits) \in Nat /\ Len(r.records) \in Nat /\ Len(r.results) \in Nat
      BY <2>2
    <2>4. /\ CandidateK \in Nat /\ Len(r.hits) + Len(r.records) <= CandidateK
          /\ Len(r.results) <= Len(r.records) /\ Len(r.scored) <= CandidateK
      BY <2>1, SearchAssumption DEF Short, SearchAssumption
    <2>5. Len(r.hits) <= CandidateK /\ Len(r.records) <= CandidateK /\ Len(r.results) <= CandidateK
      BY <2>3, <2>4, PartOf
    <2>6. {r.scored, r.hits, r.records, r.results} \subseteq HitSeqs
      BY <2>2, <2>4, <2>5, ShortSeq
    <2>7. /\ r.pc \in Points /\ r.tenant \in Tenants
          /\ r.candidates \in Seq(Ids) /\ Len(r.candidates) <= CandidateK
      BY <2>1 DEF Reqs, Short
    <2> QED BY <2>6, <2>7 DEF r
  <1> QED BY <1>1, AlwaysInv, PTL

(***************************************************************************)
(* An answer holds only records of the caller's tenant that the policy     *)
(* allows, for any stores that change under the search.                    *)
(***************************************************************************)
THEOREM AnswersAreReadable == Spec => []AnswerIsReadable
  <1>1. Inv => AnswerIsReadable
    <2> SUFFICES ASSUME Inv, NEW s \in Searches, NEW n \in DOMAIN req[s].results
                 PROVE  /\ req[s].results[n].id \in req[s].allowed
                        /\ TenantOf[req[s].results[n].id] = req[s].tenant
      BY DEF AnswerIsReadable
    <2>1. Allowed(req[s]) /\ Found(req[s])
      BY DEF Inv, Good
    <2>2. PICK i \in DOMAIN req[s].records : req[s].records[i] = req[s].results[n]
      BY <2>1 DEF Allowed, Holds
    <2> QED BY <2>1, <2>2 DEF Allowed, Found, Suits
  <1> QED BY <1>1, AlwaysInv, PTL

(***************************************************************************)
(* A receipt in the table cites its answer and counts what was withheld.   *)
(***************************************************************************)
THEOREM ReceiptsTellAnswers == Spec => []ReceiptTellsAnswer
  <1>1. Inv => ReceiptTellsAnswer
    <2> SUFFICES ASSUME Inv, NEW s \in Searches, At(s, "done"), persisted[s] # NoReceipt
                 PROVE  /\ persisted[s].sources = req[s].results
                        /\ Cardinality(Verdicts(persisted[s].verdicts)) = Len(req[s].results)
                        /\ Len(persisted[s].verdicts) = Len(req[s].records)
      BY DEF ReceiptTellsAnswer, Verdicts
    <2>1. persisted[s] = req[s].receipt /\ Cites(req[s])
      BY DEF Inv, Logged, Good
    <2> QED BY <2>1 DEF Cites, At
  <1> QED BY <1>1, AlwaysInv, PTL

(***************************************************************************)
(* Nothing that scored better than an answered record is left out, but for *)
(* rows that were not to be had and those the policy withheld.             *)
(***************************************************************************)
THEOREM TheBestAreAnswered == Spec => []BestAnswered
  <1>1. Inv => BestAnswered
    <2> SUFFICES ASSUME Inv, NEW s \in Searches, At(s, "receipt")
                 PROVE  LET r == req[s]
                            withheld == {h.id : h \in ToSet(r.records) \ ToSet(r.results)}
                        IN  /\ \A i, j \in DOMAIN r.results : i < j => r.results[i].score >= r.results[j].score
                            /\ \A c \in ToSet(r.scored), h \in ToSet(r.results) :
                                 c.score > h.score => c \in ToSet(r.results) \/ c.id \in r.skipped \cup withheld
                            /\ Len(r.results) <= r.top_k
      BY DEF BestAnswered
    <2> DEFINE r == req[s]
               withheld == {h.id : h \in ToSet(r.records) \ ToSet(r.results)}
    <2>1. r \in Reqs /\ Good(r) /\ r.pc = "receipt"
      BY DEF Inv, At
    <2>2. /\ r.hits \in Seq(Hits) /\ r.records \in Seq(Hits) /\ r.results \in Seq(Hits)
          /\ r.scored \in Seq(Hits) /\ r.top_k \in Nat
      BY <2>1 DEF Reqs
    <2> HIDE DEF r
    <2>3. \A i, j \in DOMAIN r.results : i < j => r.results[i].score >= r.results[j].score
      BY <2>1 DEF Good, Ranked, Descending
    <2>4. ASSUME NEW c \in ToSet(r.scored), NEW h \in ToSet(r.results), c.score > h.score
          PROVE  c \in ToSet(r.results) \/ c.id \in r.skipped \cup withheld
      <3>1. PICK i \in DOMAIN r.scored : c = r.scored[i]
        BY DEF ToSet
      <3>2. PICK j \in DOMAIN r.records : h = r.records[j]
        BY <2>1, <2>2 DEF Good, Allowed, Holds, ToSet
      <3>3. c.score \in Nat /\ h.score \in Nat
        BY <2>2, <3>1, <3>2, HitScore
      <3>4. ~(c.score <= h.score)
        BY <2>4, <3>3
      <3>5. r.hits = <<>> /\ Placed(r)
        BY <2>1 DEF Good, Fetched
      <3>6. Holds(r.records, c) \/ c.id \in r.skipped
        BY <3>1, <3>2, <3>4, <3>5, EmptyHits DEF Placed, Holds
      <3>7. Holds(r.records, c) => c \in ToSet(r.results) \/ c.id \in withheld
        BY DEF Holds, ToSet
      <3> QED BY <3>6, <3>7
    <2>5. Len(r.results) <= r.top_k
      <3>1. Len(r.hits) \in Nat /\ Len(r.records) \in Nat /\ Len(r.results) \in Nat
        BY <2>2
      <3>2. Len(r.hits) + Len(r.records) <= r.top_k /\ Len(r.results) <= Len(r.records)
        BY <2>1 DEF Good, Short
      <3> QED BY <2>2, <3>1, <3>2, PartOf
    <2> QED BY <2>3, <2>4, <2>5 DEF r
  <1> QED BY <1>1, AlwaysInv, PTL
=============================================================================
