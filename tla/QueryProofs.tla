---------------------------- MODULE QueryProofs -----------------------------
(***************************************************************************)
(* Proofs about what a client is given: paged listing (ListPages), and the *)
(* policies that filter what is answered (Policy).                         *)
(*                                                                         *)
(* Listing.  Type correctness, and that a finished walk has given every    *)
(* stable readable row exactly once, for any set of ids, any page size and *)
(* any cap.  WalkIsComplete and NoneTwice speak of the end of a walk or of *)
(* counts that only the cursor explains, so neither is inductive.  The     *)
(* strengthening relates the counts to the cursor (WalkInv) and, between   *)
(* fetch and policy, the page to the cursor it will leave (PageInv).       *)
(*                                                                         *)
(* Policies.  That a bundle which the compiler made says of every plain    *)
(* input what its block means, for any block and any sizes of the machine. *)
(* The compiler accepts a block when the host's machine gets through it on *)
(* an empty input, so the proof couples two runs: where the host goes on   *)
(* on the empty input, the bundle goes on on the input at hand, with the   *)
(* stack as high and, on top, what the node means (Couples).  That holds   *)
(* of every node of a predicate by its place in the sequence of nodes, the *)
(* parts of a node being before it.                                        *)
(***************************************************************************)
EXTENDS ListPages, Policy, FiniteSetTheorems, WellFoundedInduction, TLAPS

\* What lies at or before the cursor has been given, once; the rest has not.
WalkInv ==
    /\ \A id \in Ids : got[id] <= 1 /\ (got[id] = 1 => id \in readable)
    /\ pc \in {"fetch", "policy"} =>
         /\ \A id \in stable \cap readable : id <= cursor => got[id] = 1
         /\ \A id \in Ids : got[id] = 1 => id <= cursor
    /\ pc = "done" /\ limit > 0 => \A id \in stable \cap readable : got[id] = 1

\* The page lies behind the cursor, reaches up to the next one, and skips no
\* stable row; without a next cursor nothing is left behind it.
PageInv ==
    pc = "policy" =>
        /\ \A id \in page : id > cursor
        /\ next # NoCursor => /\ next > cursor
                              /\ \A id \in page : id <= next
                              /\ \A id \in stable : cursor < id /\ id <= next => id \in page
        /\ next = NoCursor /\ limit > 0 => \A id \in stable : cursor < id => id \in page

Inv == TypeOK /\ WalkInv /\ PageInv

-----------------------------------------------------------------------------
(* The SQL of one page.                                                    *)

\* What FirstOf promises of any page it can return.
LEMMA FirstOfFacts ==
  ASSUME NEW found, IsFiniteSet(found), found \subseteq Nat,
         NEW n \in Nat, NEW p \in FirstOf(found, n)
  PROVE  /\ p \subseteq found /\ IsFiniteSet(p)
         /\ Cardinality(p) \in Nat /\ Cardinality(p) <= n
         /\ Cardinality(p) # n => p = found
         /\ \A x \in p, y \in found \ p : x < y
<1>1. p \in SUBSET found /\ Cardinality(p) = Least(n, Cardinality(found))
      /\ \A x \in p, y \in found \ p : x < y
  BY DEF FirstOf
<1>2. Cardinality(found) \in Nat
  BY FS_CardinalityType
<1>3. IsFiniteSet(p) /\ (Cardinality(found) = Cardinality(p) => found = p)
  BY <1>1, FS_Subset
<1>4. Cardinality(p) \in Nat
  BY <1>3, FS_CardinalityType
<1> QED
  BY <1>1, <1>2, <1>3, <1>4 DEF Least

LEMMA PageSizeFacts ==
  ASSUME limit \in Nat
  PROVE  PageSize \in Nat /\ PageSize <= Cap /\ (limit > 0 => PageSize > 0)
  BY PagesAssumption DEF PageSize, Least

-----------------------------------------------------------------------------
\* Type correctness.
LEMMA TypeInit == Init => TypeOK
<1> SUFFICES ASSUME Init PROVE TypeOK
  OBVIOUS
<1>1. IsFiniteSet({}) /\ Cardinality({}) = 0
  BY FS_EmptySet
<1> QED
  BY <1>1, PagesAssumption DEF Init, TypeOK

LEMMA TypeNext == TypeOK /\ [Next]_vars => TypeOK'
<1> SUFFICES ASSUME TypeOK, [Next]_vars PROVE TypeOK'
  OBVIOUS
<1> USE DEF TypeOK
<1>1. CASE Begin
  BY <1>1, PagesAssumption DEF Begin
<1>2. CASE Fetch
  <2>1. After \subseteq Nat /\ After \subseteq Ids /\ IsFiniteSet(After)
    BY PagesAssumption, FS_Subset DEF After
  <2>2. PageSize \in Nat /\ PageSize <= Cap
    BY PageSizeFacts
  <2>3. page' \in FirstOf(After, PageSize)
    BY <1>2 DEF Fetch
  <2>4. page' \subseteq After /\ IsFiniteSet(page') /\ Cardinality(page') \in Nat
        /\ Cardinality(page') <= PageSize
    BY <2>1, <2>2, <2>3, FirstOfFacts
  <2>5. Cardinality(page') <= Cap
    BY <2>2, <2>4, PagesAssumption
  <2>6. next' \in Ids \cup {NoCursor}
    BY <1>2, <2>1, <2>4 DEF Fetch
  <2> QED
    BY <1>2, <2>1, <2>4, <2>5, <2>6 DEF Fetch
<1>3. CASE Answer
  BY <1>3 DEF Answer
<1>4. CASE Fail
  BY <1>4 DEF Fail
<1>5. CASE Leave
  BY <1>5 DEF Leave
<1>6. ASSUME NEW id \in Ids, Insert(id)
      PROVE  TypeOK'
  <2>1. IsFiniteSet(rows')
    BY <1>6, FS_AddElement DEF Insert
  <2> QED
    BY <1>6, <2>1 DEF Insert
<1>7. ASSUME NEW id \in Ids, Delete(id)
      PROVE  TypeOK'
  <2>1. IsFiniteSet(rows')
    BY <1>7, FS_RemoveElement DEF Delete
  <2> QED
    BY <1>7, <2>1 DEF Delete
<1>8. CASE UNCHANGED vars
  BY <1>8 DEF vars
<1> QED
  BY <1>1, <1>2, <1>3, <1>4, <1>5, <1>6, <1>7, <1>8 DEF Next

\* Every variable of a walk keeps its type, and a page never exceeds the cap
\* of fetch_many, whatever limit the client sends.
THEOREM TypeCorrect == Spec => []TypeOK
<1> QED
  BY TypeInit, TypeNext, PTL DEF Spec

-----------------------------------------------------------------------------
\* The strengthening holds at first and is kept by every step.
LEMMA WalkInit == Init => WalkInv /\ PageInv
  BY DEF Init, WalkInv, PageInv

LEMMA FetchKeepsPage ==
  ASSUME TypeOK, Fetch
  PROVE  PageInv'
<1> USE DEF NoCursor
<1>1. After \subseteq Nat /\ IsFiniteSet(After)
  BY PagesAssumption, FS_Subset DEF After, TypeOK
<1>2. PageSize \in Nat /\ (limit > 0 => PageSize > 0)
  BY PageSizeFacts DEF TypeOK
<1>3. page' \in FirstOf(After, PageSize)
  BY DEF Fetch
<1>4. /\ page' \subseteq After
      /\ Cardinality(page') \in Nat
      /\ Cardinality(page') # PageSize => page' = After
      /\ \A x \in page', y \in After \ page' : x < y
  BY <1>1, <1>2, <1>3, FirstOfFacts
<1>5. UNCHANGED <<rows, limit, cursor, stable>> /\ stable \subseteq rows /\ rows \subseteq Nat
      /\ cursor \in Nat /\ limit \in Nat
  BY PagesAssumption DEF Fetch, TypeOK
<1>6. \A id \in stable : cursor < id => id \in After
  BY <1>5 DEF After
<1>7. CASE Cardinality(page') = PageSize /\ page' # {}
  <2>1. next' \in page' /\ \A y \in page' : y <= next'
    BY <1>7 DEF Fetch
  <2>2. next' \in Nat /\ next' > cursor
    BY <2>1, <1>4, <1>1, <1>5 DEF After
  <2>3. \A id \in stable : cursor < id /\ id <= next' => id \in page'
    BY <2>1, <2>2, <1>4, <1>5, <1>6
  <2>4. \A id \in page' : id > cursor
    BY <1>4, <1>5 DEF After
  <2> QED
    BY <1>5, <2>1, <2>2, <2>3, <2>4 DEF PageInv
<1>8. CASE ~(Cardinality(page') = PageSize /\ page' # {})
  <2>1. next' = NoCursor
    BY <1>8 DEF Fetch
  <2>2. limit > 0 => page' = After
    <3> SUFFICES ASSUME limit > 0, Cardinality(page') = PageSize PROVE FALSE
      BY <1>4
    <3>1. page' = {}
      BY <1>8
    <3>2. Cardinality(page') = 0
      BY <3>1, FS_EmptySet
    <3> QED
      BY <3>2, <1>2
  <2>3. \A id \in page' : id > cursor
    BY <1>4, <1>5 DEF After
  <2> QED
    BY <1>5, <1>6, <2>1, <2>2, <2>3 DEF PageInv
<1> QED
  BY <1>7, <1>8

LEMMA AnswerKeepsWalk ==
  ASSUME TypeOK, WalkInv, PageInv, Answer
  PROVE  WalkInv'
<1> USE DEF NoCursor
<1>1. /\ pc = "policy"
      /\ UNCHANGED <<limit, readable, stable>>
      /\ cursor' = next
      /\ pc' = IF next = NoCursor THEN "done" ELSE "fetch"
      /\ \A id \in Ids : got'[id] = IF id \in page \cap readable THEN got[id] + 1 ELSE got[id]
  BY DEF Answer
<1>2. /\ \A id \in Ids : id \in Nat /\ got[id] \in Nat
      /\ cursor \in Nat /\ next \in Nat
      /\ page \subseteq Ids /\ stable \subseteq Ids
  BY PagesAssumption DEF TypeOK
<1>3. \A id \in page \cap readable : got[id] = 0
  BY <1>1, <1>2 DEF WalkInv, PageInv
<1>4. \A id \in Ids : got'[id] <= 1 /\ (got'[id] = 1 => id \in readable)
  BY <1>1, <1>2, <1>3 DEF WalkInv
<1>5. \A id \in stable \cap readable : id \in page \/ id <= cursor => got'[id] = 1
  BY <1>1, <1>2, <1>3 DEF WalkInv, PageInv
<1>6. next # NoCursor => \A id \in stable \cap readable : id <= next => got'[id] = 1
  BY <1>1, <1>2, <1>5 DEF PageInv
<1>7. next # NoCursor => \A id \in Ids : got'[id] = 1 => id <= next
  BY <1>1, <1>2 DEF WalkInv, PageInv
<1>8. next = NoCursor /\ limit > 0 => \A id \in stable \cap readable : got'[id] = 1
  BY <1>1, <1>2, <1>5 DEF PageInv
<1> QED
  BY <1>1, <1>4, <1>6, <1>7, <1>8 DEF WalkInv

LEMMA WalkNext == TypeOK /\ WalkInv /\ PageInv /\ [Next]_vars => WalkInv' /\ PageInv'
<1> SUFFICES ASSUME TypeOK, WalkInv, PageInv, [Next]_vars PROVE WalkInv' /\ PageInv'
  OBVIOUS
<1>1. CASE Begin
  <2>1. \A id \in Ids : id \in Nat /\ id > 0
    BY PagesAssumption
  <2>2. pc' = "fetch" /\ cursor' = 0 /\ stable' = rows /\ rows \subseteq Ids
        /\ \A id \in Ids : got'[id] = 0
    BY <1>1 DEF Begin, NoCursor, TypeOK
  <2> QED
    BY <2>1, <2>2 DEF WalkInv, PageInv
<1>2. CASE Fetch
  <2>1. PageInv'
    BY <1>2, FetchKeepsPage
  <2>2. WalkInv'
    BY <1>2 DEF Fetch, WalkInv
  <2> QED
    BY <2>1, <2>2
<1>3. CASE Answer
  <2>1. WalkInv'
    BY <1>3, AnswerKeepsWalk
  <2>2. PageInv'
    BY <1>3 DEF Answer, PageInv
  <2> QED
    BY <2>1, <2>2
<1>4. CASE Fail
  BY <1>4 DEF Fail, WalkInv, PageInv
<1>5. CASE Leave
  BY <1>5 DEF Leave, WalkInv, PageInv
<1>6. ASSUME NEW id \in Ids, Insert(id)
      PROVE  WalkInv' /\ PageInv'
  BY <1>6 DEF Insert, WalkInv, PageInv
<1>7. ASSUME NEW id \in Ids, Delete(id)
      PROVE  WalkInv' /\ PageInv'
  <2>1. stable' \subseteq stable
    BY <1>7 DEF Delete
  <2> QED
    BY <1>7, <2>1 DEF Delete, WalkInv, PageInv
<1>8. CASE UNCHANGED vars
  BY <1>8 DEF vars, WalkInv, PageInv
<1> QED
  BY <1>1, <1>2, <1>3, <1>4, <1>5, <1>6, <1>7, <1>8 DEF Next

LEMMA Inductive == Spec => []Inv
<1>1. Init => Inv
  BY TypeInit, WalkInit DEF Inv
<1>2. Inv /\ [Next]_vars => Inv'
  BY TypeNext, WalkNext DEF Inv
<1> QED
  BY <1>1, <1>2, PTL DEF Spec

\* A client that follows the cursors of Engine::list to the end has been given
\* every readable row that was there throughout.
THEOREM WalksMissNothing == Spec => []WalkIsComplete
<1>1. Inv => WalkIsComplete
  BY DEF Inv, WalkInv, WalkIsComplete
<1> QED
  BY <1>1, Inductive, PTL

\* No walk gives a row twice, or one that the policy hides.
THEOREM WalksRepeatNothing == Spec => []NoneTwice
<1>1. Inv => NoneTwice
  BY DEF Inv, WalkInv, NoneTwice
<1> QED
  BY <1>1, Inductive, PTL

-----------------------------------------------------------------------------
(* Positions.                                                               *)

(* A set of naturals has a least element, which is what Min picks.          *)
LEMMA MinFacts ==
  ASSUME NEW S \in SUBSET Nat, S # {}
  PROVE  Min(S) \in S /\ \A y \in S : Min(S) <= y
<1>1. PICK x \in S : \A y \in S : ~ (<<y, x>> \in OpToRel(<, Nat))
  BY NatLessThanWellFounded, WFMin
<1>2. \A y \in S : x <= y
  <2> SUFFICES ASSUME NEW y \in S, y < x PROVE FALSE
    OBVIOUS
  <2>1. <<y, x>> \in OpToRel(<, Nat)
    BY DEF OpToRel
  <2> QED BY <1>1, <2>1
<1> QED BY <1>2 DEF Min

(* What holds at 0 and carries over to the next position holds everywhere.  *)
LEMMA UpTo ==
  ASSUME NEW N \in Nat, NEW S \in SUBSET (0 .. N), 0 \in S,
         \A n \in 1 .. N : n - 1 \in S => n \in S
  PROVE  S = 0 .. N
<1> DEFINE Rest == (0 .. N) \ S
<1>1. ASSUME Rest # {} PROVE FALSE
  <2>1. Rest \in SUBSET Nat
    OBVIOUS
  <2> HIDE DEF Rest
  <2>2. Min(Rest) \in Rest /\ \A y \in Rest : Min(Rest) <= y
    BY <1>1, <2>1, MinFacts
  <2>3. PICK m \in Rest : \A y \in Rest : m <= y
    BY <2>2
  <2>4. m \in 1 .. N /\ m \notin S
    BY <2>3 DEF Rest
  <2>5. m - 1 \in S
    BY <2>3, <2>4 DEF Rest
  <2> QED BY <2>4, <2>5
<1> QED BY <1>1

(* What holds at a position as soon as it holds at those before it holds    *)
(* everywhere.                                                              *)
LEMMA ByPosition ==
  ASSUME NEW N \in Nat, NEW S \in SUBSET (1 .. N),
         \A n \in 1 .. N : (\A j \in 1 .. (n - 1) : j \in S) => n \in S
  PROVE  S = 1 .. N
<1> DEFINE Rest == (1 .. N) \ S
<1>1. ASSUME Rest # {} PROVE FALSE
  <2>1. Rest \in SUBSET Nat
    OBVIOUS
  <2> HIDE DEF Rest
  <2>2. Min(Rest) \in Rest /\ \A y \in Rest : Min(Rest) <= y
    BY <1>1, <2>1, MinFacts
  <2>3. PICK m \in Rest : \A y \in Rest : m <= y
    BY <2>2
  <2>4. m \in 1 .. N /\ m \notin S
    BY <2>3 DEF Rest
  <2>5. \A j \in 1 .. (m - 1) : j \in S
    <3> SUFFICES ASSUME NEW j \in 1 .. (m - 1), j \notin S PROVE FALSE
      OBVIOUS
    <3>1. j \in Rest
      BY <2>4 DEF Rest
    <3>2. m <= j
      BY <2>3, <3>1
    <3> QED BY <2>4, <3>2
  <2> QED BY <2>4, <2>5
<1> QED BY <1>1

-----------------------------------------------------------------------------
(* The recursive definitions are what they say.                             *)

LEMMA ExprFacts ==
  ASSUME NEW p \in Exprs
  PROVE  /\ Len(p) \in Nat /\ Len(p) > 0 /\ DOMAIN p = 1 .. Len(p)
         /\ \A k \in 1 .. Len(p) : p[k] \in Nodes /\ PartsOf(p[k]) \subseteq 1 .. (k - 1)
<1>1. p \in Seq(Nodes) /\ p # << >> /\ \A k \in DOMAIN p : PartsOf(p[k]) \subseteq 1..(k - 1)
  BY DEF Exprs
<1> HIDE DEF Nodes, PartsOf
<1> QED BY <1>1

(* The code of a node is put together from the code of its parts.           *)
LEMMA LoweredFacts ==
  ASSUME NEW p \in Exprs
  PROVE  \A k \in 1 .. Len(p) : Lowered(p)[k] = LowerNode(Lowered(p), p[k])
<1> DEFINE N == Len(p)
           Value(g, k) == LowerNode(g, p[k])
           Until(g, m) == g = [k \in 1 .. N |-> g[k]] /\ \A k \in 1 .. m : g[k] = Value(g, k)
           S == {m \in 0 .. N : \E g : Until(g, m)}
<1>1. N \in Nat /\ DOMAIN p = 1 .. N
  BY ExprFacts
<1>2. ASSUME NEW k \in 1 .. N, NEW g, NEW h, \A j \in 1 .. (k - 1) : g[j] = h[j]
      PROVE  Value(g, k) = Value(h, k)
  <2>1. p[k] \in Nodes /\ PartsOf(p[k]) \subseteq 1 .. (k - 1)
    BY ExprFacts
  <2>2. CASE p[k].e = "bin"
    BY <1>2, <2>1, <2>2 DEF LowerNode, PartsOf
  <2>3. CASE p[k].e = "not"
    BY <1>2, <2>1, <2>3 DEF LowerNode, PartsOf
  <2>4. CASE p[k].e \in {"lit", "path", "other"}
    BY <2>4 DEF LowerNode
  <2> QED BY <2>1, <2>2, <2>3, <2>4 DEF Nodes, Other
<1> HIDE DEF N, Value
<1>3. 0 \in S
  <2> DEFINE g == [k \in 1 .. N |-> 0]
  <2>1. g = [k \in 1 .. N |-> g[k]]
    OBVIOUS
  <2> HIDE DEF g
  <2>2. Until(g, 0)
    BY <2>1
  <2> QED BY <1>1, <2>2
<1>4. ASSUME NEW m \in 1 .. N, m - 1 \in S PROVE m \in S
  <2>1. PICK g : Until(g, m - 1)
    BY <1>4
  <2> DEFINE h == [k \in 1 .. N |-> IF k = m THEN Value(g, m) ELSE g[k]]
  <2>2. h = [k \in 1 .. N |-> h[k]]
    OBVIOUS
  <2>3. ASSUME NEW k \in 1 .. m PROVE h[k] = Value(g, k) /\ Value(h, k) = Value(g, k)
    <3>1. h[k] = Value(g, k)
      BY <1>1, <2>1
    <3>2. k \in 1 .. N /\ \A j \in 1 .. (k - 1) : h[j] = g[j]
      BY <1>1
    <3> HIDE DEF h
    <3>3. Value(h, k) = Value(g, k)
      BY <1>2, <3>2
    <3> QED BY <3>1, <3>3
  <2> HIDE DEF h
  <2>4. Until(h, m) /\ m \in 0 .. N
    BY <1>1, <2>2, <2>3
  <2> QED BY <2>4
<1>5. PICK g : Until(g, N)
  <2>1. S \in SUBSET (0 .. N) /\ \A m \in 1 .. N : m - 1 \in S => m \in S
    BY <1>4
  <2> HIDE DEF S
  <2>2. S = 0 .. N
    BY <1>1, <1>3, <2>1, UpTo
  <2>3. N \in S
    BY <1>1, <2>2
  <2> QED BY <2>3 DEF S
<1>6. g = [k \in DOMAIN p |-> LowerNode(g, p[k])]
  BY <1>1, <1>5 DEF Value
<1>7. Lowered(p) = CHOOSE f : f = [k \in DOMAIN p |-> LowerNode(f, p[k])]
  BY DEF Lowered
<1>8. Lowered(p) = [k \in DOMAIN p |-> LowerNode(Lowered(p), p[k])]
  BY <1>6, <1>7
<1> QED BY <1>1, <1>8 DEF N

(* What a node means is put together from what its parts mean.             *)
LEMMA MeaningsFacts ==
  ASSUME NEW p \in Exprs, NEW input
  PROVE  \A k \in 1 .. Len(p) : Meanings(p, input)[k] = NodeMeaning(Meanings(p, input), p[k], input)
<1> DEFINE N == Len(p)
           Value(g, k) == NodeMeaning(g, p[k], input)
           Until(g, m) == g = [k \in 1 .. N |-> g[k]] /\ \A k \in 1 .. m : g[k] = Value(g, k)
           S == {m \in 0 .. N : \E g : Until(g, m)}
<1>1. N \in Nat /\ DOMAIN p = 1 .. N
  BY ExprFacts
<1>2. ASSUME NEW k \in 1 .. N, NEW g, NEW h, \A j \in 1 .. (k - 1) : g[j] = h[j]
      PROVE  Value(g, k) = Value(h, k)
  <2>1. p[k] \in Nodes /\ PartsOf(p[k]) \subseteq 1 .. (k - 1)
    BY ExprFacts
  <2>2. CASE p[k].e = "bin"
    BY <1>2, <2>1, <2>2 DEF NodeMeaning, PartsOf
  <2>3. CASE p[k].e = "not"
    BY <1>2, <2>1, <2>3 DEF NodeMeaning, PartsOf
  <2>4. CASE p[k].e \in {"lit", "path", "other"}
    BY <2>4 DEF NodeMeaning
  <2> QED BY <2>1, <2>2, <2>3, <2>4 DEF Nodes, Other
<1> HIDE DEF N, Value
<1>3. 0 \in S
  <2> DEFINE g == [k \in 1 .. N |-> 0]
  <2>1. g = [k \in 1 .. N |-> g[k]]
    OBVIOUS
  <2> HIDE DEF g
  <2>2. Until(g, 0)
    BY <2>1
  <2> QED BY <1>1, <2>2
<1>4. ASSUME NEW m \in 1 .. N, m - 1 \in S PROVE m \in S
  <2>1. PICK g : Until(g, m - 1)
    BY <1>4
  <2> DEFINE h == [k \in 1 .. N |-> IF k = m THEN Value(g, m) ELSE g[k]]
  <2>2. h = [k \in 1 .. N |-> h[k]]
    OBVIOUS
  <2>3. ASSUME NEW k \in 1 .. m PROVE h[k] = Value(g, k) /\ Value(h, k) = Value(g, k)
    <3>1. h[k] = Value(g, k)
      BY <1>1, <2>1
    <3>2. k \in 1 .. N /\ \A j \in 1 .. (k - 1) : h[j] = g[j]
      BY <1>1
    <3> HIDE DEF h
    <3>3. Value(h, k) = Value(g, k)
      BY <1>2, <3>2
    <3> QED BY <3>1, <3>3
  <2> HIDE DEF h
  <2>4. Until(h, m) /\ m \in 0 .. N
    BY <1>1, <2>2, <2>3
  <2> QED BY <2>4
<1>5. PICK g : Until(g, N)
  <2>1. S \in SUBSET (0 .. N) /\ \A m \in 1 .. N : m - 1 \in S => m \in S
    BY <1>4
  <2> HIDE DEF S
  <2>2. S = 0 .. N
    BY <1>1, <1>3, <2>1, UpTo
  <2>3. N \in S
    BY <1>1, <2>2
  <2> QED BY <2>3 DEF S
<1>6. g = [k \in DOMAIN p |-> NodeMeaning(g, p[k], input)]
  BY <1>1, <1>5 DEF Value
<1>7. Meanings(p, input) = CHOOSE f : f = [k \in DOMAIN p |-> NodeMeaning(f, p[k], input)]
  BY DEF Meanings
<1>8. Meanings(p, input) = [k \in DOMAIN p |-> NodeMeaning(Meanings(p, input), p[k], input)]
  BY <1>6, <1>7
<1> QED BY <1>1, <1>8 DEF N

(* A path is walked segment by segment.                                     *)
LEMMA AlongFacts ==
  ASSUME NEW root, NEW segs \in Seq(STRING)
  PROVE  /\ Along(root, segs)[0] = root
         /\ \A k \in 1 .. Len(segs) : Along(root, segs)[k] = Field(Along(root, segs)[k - 1], segs[k])
<1> DEFINE N == Len(segs)
           Value(g, k) == IF k = 0 THEN root ELSE Field(g[k - 1], segs[k])
           Until(g, m) == g = [k \in 0 .. N |-> g[k]] /\ \A k \in 0 .. m : g[k] = Value(g, k)
           S == {m \in 0 .. N : \E g : Until(g, m)}
<1>1. N \in Nat
  OBVIOUS
<1>2. ASSUME NEW k \in 0 .. N, NEW g, NEW h, \A j \in 0 .. (k - 1) : g[j] = h[j]
      PROVE  Value(g, k) = Value(h, k)
  <2>1. CASE k = 0
    BY <2>1
  <2>2. CASE k # 0
    <3>1. k - 1 \in 0 .. (k - 1)
      BY <1>1, <2>2
    <3>2. g[k - 1] = h[k - 1]
      BY <1>2, <3>1
    <3> QED BY <2>2, <3>2
  <2> QED BY <2>1, <2>2
<1> HIDE DEF N, Value
<1>3. 0 \in S
  <2> DEFINE g == [k \in 0 .. N |-> root]
  <2>1. g = [k \in 0 .. N |-> g[k]]
    OBVIOUS
  <2>2. Until(g, 0)
    BY <1>1, <2>1 DEF g, Value
  <2> QED BY <1>1, <2>2
<1>4. ASSUME NEW m \in 1 .. N, m - 1 \in S PROVE m \in S
  <2>1. PICK g : Until(g, m - 1)
    BY <1>4
  <2> DEFINE h == [k \in 0 .. N |-> IF k = m THEN Value(g, m) ELSE g[k]]
  <2>2. h = [k \in 0 .. N |-> h[k]]
    OBVIOUS
  <2>3. ASSUME NEW k \in 0 .. m PROVE h[k] = Value(g, k) /\ Value(h, k) = Value(g, k)
    <3>1. h[k] = Value(g, k)
      BY <1>1, <2>1
    <3>2. k \in 0 .. N /\ \A j \in 0 .. (k - 1) : h[j] = g[j]
      BY <1>1
    <3> HIDE DEF h
    <3>3. Value(h, k) = Value(g, k)
      BY <1>2, <3>2
    <3> QED BY <3>1, <3>3
  <2> HIDE DEF h
  <2>4. Until(h, m) /\ m \in 0 .. N
    BY <1>1, <2>2, <2>3
  <2> QED BY <2>4
<1>5. PICK g : Until(g, N)
  <2>1. S \in SUBSET (0 .. N) /\ \A m \in 1 .. N : m - 1 \in S => m \in S
    BY <1>4
  <2> HIDE DEF S
  <2>2. S = 0 .. N
    BY <1>1, <1>3, <2>1, UpTo
  <2>3. N \in S
    BY <1>1, <2>2
  <2> QED BY <2>3 DEF S
<1>6. g = [k \in 0 .. Len(segs) |-> IF k = 0 THEN root ELSE Field(g[k - 1], segs[k])]
  BY <1>1, <1>5 DEF Value, N
<1>7. Along(root, segs) = CHOOSE f : f = [k \in 0 .. Len(segs) |-> IF k = 0 THEN root ELSE Field(f[k - 1], segs[k])]
  BY DEF Along
<1>8. Along(root, segs) = [k \in 0 .. Len(segs) |-> IF k = 0 THEN root ELSE Field(Along(root, segs)[k - 1], segs[k])]
  BY <1>6, <1>7
<1> QED BY <1>1, <1>8 DEF N

(* The code of a block is that of its rules, one after the other.           *)
LEMMA StreamsFacts ==
  ASSUME NEW b, Len(b) \in Nat
  PROVE  /\ Streams(b)[0] = << >>
         /\ \A k \in 1 .. Len(b) : Streams(b)[k] = Streams(b)[k - 1] \o RuleCode(b[k])
<1> DEFINE N == Len(b)
           Value(g, k) == IF k = 0 THEN << >> ELSE g[k - 1] \o RuleCode(b[k])
           Until(g, m) == g = [k \in 0 .. N |-> g[k]] /\ \A k \in 0 .. m : g[k] = Value(g, k)
           S == {m \in 0 .. N : \E g : Until(g, m)}
<1>1. N \in Nat
  OBVIOUS
<1>2. ASSUME NEW k \in 0 .. N, NEW g, NEW h, \A j \in 0 .. (k - 1) : g[j] = h[j]
      PROVE  Value(g, k) = Value(h, k)
  <2>1. CASE k = 0
    BY <2>1
  <2>2. CASE k # 0
    <3>1. k - 1 \in 0 .. (k - 1)
      BY <1>1, <2>2
    <3>2. g[k - 1] = h[k - 1]
      BY <1>2, <3>1
    <3> QED BY <2>2, <3>2
  <2> QED BY <2>1, <2>2
<1> HIDE DEF N, Value
<1>3. 0 \in S
  <2> DEFINE g == [k \in 0 .. N |-> << >>]
  <2>1. g = [k \in 0 .. N |-> g[k]]
    OBVIOUS
  <2>2. Until(g, 0)
    BY <1>1, <2>1 DEF g, Value
  <2> QED BY <1>1, <2>2
<1>4. ASSUME NEW m \in 1 .. N, m - 1 \in S PROVE m \in S
  <2>1. PICK g : Until(g, m - 1)
    BY <1>4
  <2> DEFINE h == [k \in 0 .. N |-> IF k = m THEN Value(g, m) ELSE g[k]]
  <2>2. h = [k \in 0 .. N |-> h[k]]
    OBVIOUS
  <2>3. ASSUME NEW k \in 0 .. m PROVE h[k] = Value(g, k) /\ Value(h, k) = Value(g, k)
    <3>1. h[k] = Value(g, k)
      BY <1>1, <2>1
    <3>2. k \in 0 .. N /\ \A j \in 0 .. (k - 1) : h[j] = g[j]
      BY <1>1
    <3> HIDE DEF h
    <3>3. Value(h, k) = Value(g, k)
      BY <1>2, <3>2
    <3> QED BY <3>1, <3>3
  <2> HIDE DEF h
  <2>4. Until(h, m) /\ m \in 0 .. N
    BY <1>1, <2>2, <2>3
  <2> QED BY <2>4
<1>5. PICK g : Until(g, N)
  <2>1. S \in SUBSET (0 .. N) /\ \A m \in 1 .. N : m - 1 \in S => m \in S
    BY <1>4
  <2> HIDE DEF S
  <2>2. S = 0 .. N
    BY <1>1, <1>3, <2>1, UpTo
  <2>3. N \in S
    BY <1>1, <2>2
  <2> QED BY <2>3 DEF S
<1>6. g = [k \in 0 .. Len(b) |-> IF k = 0 THEN << >> ELSE g[k - 1] \o RuleCode(b[k])]
  BY <1>1, <1>5 DEF Value, N
<1>7. Streams(b) = CHOOSE f : f = [k \in 0 .. Len(b) |-> IF k = 0 THEN << >> ELSE f[k - 1] \o RuleCode(b[k])]
  BY DEF Streams
<1>8. Streams(b) = [k \in 0 .. Len(b) |-> IF k = 0 THEN << >> ELSE Streams(b)[k - 1] \o RuleCode(b[k])]
  BY <1>6, <1>7
<1> QED BY <1>1, <1>8 DEF N

(* A machine goes on step by step.                                          *)
LEMMA TraceFacts ==
  ASSUME NEW m0, NEW code, Len(code) \in Nat, NEW from, NEW input
  PROVE  /\ Trace(m0, code, from, input)[0] = At(from, << >>)
         /\ \A k \in 1 .. (Len(code) + 1) : Trace(m0, code, from, input)[k] = Step(m0, code, Trace(m0, code, from, input)[k - 1], input)
<1> DEFINE N == (Len(code) + 1)
           Value(g, k) == IF k = 0 THEN At(from, << >>) ELSE Step(m0, code, g[k - 1], input)
           Until(g, m) == g = [k \in 0 .. N |-> g[k]] /\ \A k \in 0 .. m : g[k] = Value(g, k)
           S == {m \in 0 .. N : \E g : Until(g, m)}
<1>1. N \in Nat
  OBVIOUS
<1>2. ASSUME NEW k \in 0 .. N, NEW g, NEW h, \A j \in 0 .. (k - 1) : g[j] = h[j]
      PROVE  Value(g, k) = Value(h, k)
  <2>1. CASE k = 0
    BY <2>1
  <2>2. CASE k # 0
    <3>1. k - 1 \in 0 .. (k - 1)
      BY <1>1, <2>2
    <3>2. g[k - 1] = h[k - 1]
      BY <1>2, <3>1
    <3> QED BY <2>2, <3>2
  <2> QED BY <2>1, <2>2
<1> HIDE DEF N, Value
<1>3. 0 \in S
  <2> DEFINE g == [k \in 0 .. N |-> At(from, << >>)]
  <2>1. g = [k \in 0 .. N |-> g[k]]
    OBVIOUS
  <2>2. Until(g, 0)
    BY <1>1, <2>1 DEF g, Value
  <2> QED BY <1>1, <2>2
<1>4. ASSUME NEW m \in 1 .. N, m - 1 \in S PROVE m \in S
  <2>1. PICK g : Until(g, m - 1)
    BY <1>4
  <2> DEFINE h == [k \in 0 .. N |-> IF k = m THEN Value(g, m) ELSE g[k]]
  <2>2. h = [k \in 0 .. N |-> h[k]]
    OBVIOUS
  <2>3. ASSUME NEW k \in 0 .. m PROVE h[k] = Value(g, k) /\ Value(h, k) = Value(g, k)
    <3>1. h[k] = Value(g, k)
      BY <1>1, <2>1
    <3>2. k \in 0 .. N /\ \A j \in 0 .. (k - 1) : h[j] = g[j]
      BY <1>1
    <3> HIDE DEF h
    <3>3. Value(h, k) = Value(g, k)
      BY <1>2, <3>2
    <3> QED BY <3>1, <3>3
  <2> HIDE DEF h
  <2>4. Until(h, m) /\ m \in 0 .. N
    BY <1>1, <2>2, <2>3
  <2> QED BY <2>4
<1>5. PICK g : Until(g, N)
  <2>1. S \in SUBSET (0 .. N) /\ \A m \in 1 .. N : m - 1 \in S => m \in S
    BY <1>4
  <2> HIDE DEF S
  <2>2. S = 0 .. N
    BY <1>1, <1>3, <2>1, UpTo
  <2>3. N \in S
    BY <1>1, <2>2
  <2> QED BY <2>3 DEF S
<1>6. g = [k \in 0 .. (Len(code) + 1) |-> IF k = 0 THEN At(from, << >>) ELSE Step(m0, code, g[k - 1], input)]
  BY <1>1, <1>5 DEF Value, N
<1>7. Trace(m0, code, from, input) = CHOOSE f : f = [k \in 0 .. (Len(code) + 1) |-> IF k = 0 THEN At(from, << >>) ELSE Step(m0, code, f[k - 1], input)]
  BY DEF Trace
<1>8. Trace(m0, code, from, input) = [k \in 0 .. (Len(code) + 1) |-> IF k = 0 THEN At(from, << >>) ELSE Step(m0, code, Trace(m0, code, from, input)[k - 1], input)]
  BY <1>6, <1>7
<1> QED BY <1>1, <1>8 DEF N

-----------------------------------------------------------------------------
(* Sequences of anything: stacks and code.                                  *)

IsSeq(s) == \E S : s \in Seq(S)

LEMMA EmptyIsSeq == IsSeq(<< >>) /\ Len(<< >>) = 0
<1>1. << >> \in Seq({})
  OBVIOUS
<1> QED BY <1>1 DEF IsSeq

LEMMA SeqType ==
  ASSUME NEW s, IsSeq(s)
  PROVE  Len(s) \in Nat /\ DOMAIN s = 1 .. Len(s) /\ (s = << >> <=> Len(s) = 0)
<1>1. PICK S : s \in Seq(S)
  BY DEF IsSeq
<1> QED BY <1>1

(* One cell behind the others.                                              *)
LEMMA AppendFacts ==
  ASSUME NEW s, IsSeq(s), NEW v
  PROVE  /\ IsSeq(Append(s, v))
         /\ Len(Append(s, v)) = Len(s) + 1 /\ Append(s, v) # << >>
         /\ Append(s, v)[Len(s) + 1] = v
         /\ \A i \in 1 .. Len(s) : Append(s, v)[i] = s[i]
<1>1. PICK S : s \in Seq(S)
  BY DEF IsSeq
<1> DEFINE R == S \cup {v}
<1>2. s \in Seq(R) /\ v \in R
  BY <1>1
<1>3. Append(s, v) \in Seq(R)
  BY <1>2
<1>4. IsSeq(Append(s, v))
  BY <1>3 DEF IsSeq
<1> QED BY <1>1, <1>2, <1>4

LEMMA ConcatFacts ==
  ASSUME NEW s, IsSeq(s), NEW t, IsSeq(t)
  PROVE  /\ IsSeq(s \o t) /\ Len(s \o t) = Len(s) + Len(t)
         /\ \A i \in 1 .. Len(s) : (s \o t)[i] = s[i]
         /\ \A i \in 1 .. Len(t) : (s \o t)[Len(s) + i] = t[i]
<1>1. PICK S : s \in Seq(S)
  BY DEF IsSeq
<1>2. PICK R : t \in Seq(R)
  BY DEF IsSeq
<1> DEFINE Q == S \cup R
<1>3. s \in Seq(Q) /\ t \in Seq(Q)
  BY <1>1, <1>2
<1> HIDE DEF Q
<1>4. s \o t \in Seq(Q)
  BY <1>3
<1>5. IsSeq(s \o t)
  BY <1>4 DEF IsSeq
<1>6. Len(s \o t) = Len(s) + Len(t)
  BY <1>3
<1>7. \A i \in 1 .. Len(s) : (s \o t)[i] = s[i]
  BY <1>3
<1>8. \A i \in 1 .. Len(t) : (s \o t)[Len(s) + i] = t[i]
  BY <1>3
<1> QED BY <1>5, <1>6, <1>7, <1>8

(* What a stack gives back.                                                 *)
LEMMA OneOnTop ==
  ASSUME NEW s, IsSeq(s), NEW a
  PROVE  Top(Append(s, a), 0) = a /\ Below(Append(s, a), 1) = s
<1>1. PICK S : s \in Seq(S)
  BY DEF IsSeq
<1> DEFINE R == S \cup {a}
<1>2. s \in Seq(R) /\ a \in R
  BY <1>1
<1> HIDE DEF R
<1>3. Append(s, a) \in Seq(R) /\ Len(Append(s, a)) = Len(s) + 1 /\ Len(s) \in Nat
  BY <1>2
<1>4. Top(Append(s, a), 0) = a
  BY <1>2, <1>3 DEF Top
<1>5. SubSeq(Append(s, a), 1, Len(s)) = s
  <2> DEFINE t == SubSeq(Append(s, a), 1, Len(s))
  <2>1. t \in Seq(R) /\ Len(t) = Len(s)
    BY <1>3
  <2>2. \A i \in 1 .. Len(s) : t[i] = s[i]
    BY <1>2, <1>3
  <2> HIDE DEF t
  <2>3. t = s
    BY <1>2, <2>1, <2>2
  <2> QED BY <2>3 DEF t
<1>6. Len(Append(s, a)) - 1 = Len(s)
  BY <1>3
<1> QED BY <1>4, <1>5, <1>6 DEF Below

LEMMA TwoOnTop ==
  ASSUME NEW s, IsSeq(s), NEW a, NEW b
  PROVE  LET t == Append(Append(s, a), b)
         IN  Top(t, 0) = b /\ Top(t, 1) = a /\ Below(t, 2) = s
<1>1. IsSeq(Append(s, a)) /\ Len(Append(s, a)) = Len(s) + 1 /\ Len(s) \in Nat
      /\ Append(s, a)[Len(s) + 1] = a
  BY SeqType, AppendFacts
<1> DEFINE u == Append(s, a)
           t == Append(u, b)
<1>2. Len(t) = Len(s) + 2 /\ t[Len(s) + 1] = a /\ IsSeq(t)
  <2>1. Len(t) = Len(u) + 1 /\ \A i \in 1 .. Len(u) : t[i] = u[i]
    BY <1>1, AppendFacts
  <2> QED BY <1>1, <2>1, AppendFacts
<1>3. Top(t, 0) = b
  BY <1>1, OneOnTop
<1>4. Top(t, 1) = a
  <2>1. Len(t) - 1 = Len(s) + 1
    BY <1>1, <1>2
  <2> QED BY <1>2, <2>1 DEF Top
<1>5. Below(t, 2) = s
  <2>1. SubSeq(t, 1, Len(s) + 1) = u
    <3>1. Below(t, 1) = u
      BY <1>1, OneOnTop
    <3>2. Len(t) - 1 = Len(s) + 1
      BY <1>1, <1>2
    <3> QED BY <3>1, <3>2 DEF Below
  <2>2. SubSeq(u, 1, Len(s)) = s
    <3>1. Below(u, 1) = s /\ Len(u) - 1 = Len(s)
      BY <1>1, OneOnTop
    <3> QED BY <3>1 DEF Below
  <2>3. SubSeq(t, 1, Len(s)) = SubSeq(SubSeq(t, 1, Len(s) + 1), 1, Len(s))
    <3> HIDE DEF t
    <3>1. PICK S : t \in Seq(S)
      BY <1>2 DEF IsSeq
    <3> DEFINE v == SubSeq(t, 1, Len(s) + 1)
               w == SubSeq(t, 1, Len(s))
               x == SubSeq(v, 1, Len(s))
    <3>2. v \in Seq(S) /\ Len(v) = Len(s) + 1 /\ \A i \in 1 .. Len(s) : v[i] = t[i]
      BY <1>1, <1>2, <3>1
    <3>3. w \in Seq(S) /\ Len(w) = Len(s) /\ \A i \in 1 .. Len(s) : w[i] = t[i]
      BY <1>1, <1>2, <3>1
    <3> HIDE DEF v
    <3>4. x \in Seq(S) /\ Len(x) = Len(s) /\ \A i \in 1 .. Len(s) : x[i] = v[i]
      BY <1>1, <3>2
    <3> HIDE DEF w, x
    <3>5. \A i \in 1 .. Len(s) : w[i] = x[i]
      BY <3>2, <3>3, <3>4
    <3>6. w = x
      BY <3>3, <3>4, <3>5
    <3> QED BY <3>6 DEF v, w, x
  <2>4. Len(t) - 2 = Len(s)
    BY <1>1, <1>2
  <2> QED BY <2>1, <2>2, <2>3, <2>4 DEF Below
<1> QED BY <1>3, <1>4, <1>5

-----------------------------------------------------------------------------
(* Code within code, from a cell on.                                        *)

Embedded(code, o, part) ==
    /\ o + Len(part) <= Len(code)
    /\ \A i \in 1 .. Len(part) : code[o + i] = part[i]

LEMMA EmbeddedConcat ==
  ASSUME NEW c, NEW s, IsSeq(s), NEW t, IsSeq(t), IsSeq(c), NEW o \in Nat, Embedded(c, o, s \o t)
  PROVE  Embedded(c, o, s) /\ Embedded(c, o + Len(s), t)
<1>1. Len(s) \in Nat /\ Len(t) \in Nat /\ Len(s \o t) = Len(s) + Len(t) /\ Len(c) \in Nat
  BY SeqType, ConcatFacts
<1>2. o + (Len(s) + Len(t)) <= Len(c) /\ \A i \in 1 .. (Len(s) + Len(t)) : c[o + i] = (s \o t)[i]
  BY <1>1 DEF Embedded
<1>3. ASSUME NEW i \in 1 .. Len(s) PROVE c[o + i] = s[i]
  <2>1. c[o + i] = (s \o t)[i]
    BY <1>1, <1>2
  <2> QED BY <2>1, ConcatFacts
<1>4. ASSUME NEW i \in 1 .. Len(t) PROVE c[(o + Len(s)) + i] = t[i]
  <2>1. Len(s) + i \in 1 .. (Len(s) + Len(t)) /\ o + (Len(s) + i) = (o + Len(s)) + i
    BY <1>1
  <2>2. c[o + (Len(s) + i)] = (s \o t)[Len(s) + i]
    BY <1>2, <2>1
  <2> QED BY <2>1, <2>2, ConcatFacts
<1>5. o + Len(s) <= Len(c) /\ (o + Len(s)) + Len(t) <= Len(c)
  BY <1>1, <1>2
<1> QED BY <1>3, <1>4, <1>5 DEF Embedded

LEMMA OneCell == ASSUME NEW x PROVE IsSeq(<<x>>) /\ Len(<<x>>) = 1 /\ <<x>>[1] = x
<1>1. <<x>> \in Seq({x})
  OBVIOUS
<1> QED BY <1>1 DEF IsSeq

LEMMA AppendIsConcat ==
  ASSUME NEW s, IsSeq(s), NEW x
  PROVE  Append(s, x) = s \o <<x>>
<1>1. PICK S : s \in Seq(S)
  BY DEF IsSeq
<1> DEFINE R == S \cup {x}
<1>2. s \in Seq(R) /\ x \in R
  BY <1>1
<1> HIDE DEF R
<1> DEFINE u == Append(s, x)
           w == s \o <<x>>
<1>3. <<x>> \in Seq(R) /\ Len(<<x>>) = 1 /\ <<x>>[1] = x
  BY <1>2
<1>4. u \in Seq(R) /\ Len(u) = Len(s) + 1 /\ u[Len(s) + 1] = x /\ \A i \in 1 .. Len(s) : u[i] = s[i]
  BY <1>2
<1>5. w \in Seq(R) /\ Len(w) = Len(s) + 1
  BY <1>2, <1>3
<1>6. (\A i \in 1 .. Len(s) : w[i] = s[i]) /\ w[Len(s) + 1] = x
  BY <1>2, <1>3
<1> HIDE DEF u, w
<1>7. \A i \in 1 .. (Len(s) + 1) : u[i] = w[i]
  BY <1>2, <1>4, <1>6
<1>8. u = w
  BY <1>2, <1>4, <1>5, <1>7
<1> QED BY <1>8 DEF u, w

(* The code of a path is its opcode and its segments.                       *)
LEMMA NamesAreStrings == ASSUME NEW q \in Seq(Names) PROVE q \in Seq(STRING)
<1>1. Names \subseteq STRING
  BY DEF Names
<1>2. Len(q) \in Nat /\ q \in [1 .. Len(q) -> Names]
  OBVIOUS
<1> HIDE DEF Names
<1>3. q \in [1 .. Len(q) -> STRING]
  BY <1>1, <1>2
<1> QED BY <1>2, <1>3

LEMMA PathCode ==
  ASSUME NEW r, NEW segs \in Seq(STRING), NEW n, n = PathOf(r, segs)
  PROVE  /\ IsSeq(LowerPath(n)) /\ Len(LowerPath(n)) = Len(segs) + 1
         /\ LowerPath(n)[1] = Cell(r, Len(segs))
         /\ \A i \in 1 .. Len(segs) : LowerPath(n)[i + 1] = Cell("seg", segs[i])
<1> DEFINE c == Cell(r, Len(segs))
           t == [i \in DOMAIN segs |-> Cell("seg", segs[i])]
<1>1. LowerPath(n) = <<c>> \o t
  BY DEF LowerPath, PathOf
<1>2. IsSeq(t) /\ Len(t) = Len(segs) /\ \A i \in 1 .. Len(segs) : t[i] = Cell("seg", segs[i])
  <2> DEFINE R == {Cell("seg", segs[i]) : i \in 1 .. Len(segs)}
  <2>1. t \in Seq(R) /\ Len(t) = Len(segs)
    OBVIOUS
  <2>2. IsSeq(t)
    BY <2>1 DEF IsSeq
  <2>3. \A i \in 1 .. Len(segs) : t[i] = Cell("seg", segs[i])
    OBVIOUS
  <2> QED BY <2>1, <2>2, <2>3
<1> HIDE DEF c, t
<1>3. IsSeq(<<c>>) /\ Len(<<c>>) = 1 /\ <<c>>[1] = c
  BY OneCell
<1>4. /\ IsSeq(<<c>> \o t) /\ Len(<<c>> \o t) = Len(<<c>>) + Len(t)
      /\ \A i \in 1 .. Len(<<c>>) : (<<c>> \o t)[i] = <<c>>[i]
      /\ \A i \in 1 .. Len(t) : (<<c>> \o t)[Len(<<c>>) + i] = t[i]
  BY <1>2, <1>3, ConcatFacts
<1>5. Len(LowerPath(n)) = Len(segs) + 1 /\ LowerPath(n)[1] = c
  BY <1>1, <1>2, <1>3, <1>4
<1>6. ASSUME NEW i \in 1 .. Len(segs) PROVE LowerPath(n)[i + 1] = Cell("seg", segs[i])
  BY <1>1, <1>2, <1>3, <1>4
<1> QED BY <1>1, <1>4, <1>5, <1>6 DEF c

(* The code of every node that is lowered is code, and not empty.           *)
LEMMA LoweredType ==
  ASSUME NEW p \in Exprs, Lowerable(p)
  PROVE  \A k \in 1 .. Len(p) : IsSeq(Lowered(p)[k]) /\ Len(Lowered(p)[k]) > 0
<1> DEFINE L == Lowered(p)
           S == {k \in 1 .. Len(p) : IsSeq(L[k]) /\ Len(L[k]) > 0}
<1>1. Len(p) \in Nat /\ DOMAIN p = 1 .. Len(p)
  BY ExprFacts
<1>2. ASSUME NEW k \in 1 .. Len(p), \A j \in 1 .. (k - 1) : j \in S PROVE k \in S
  <2>1. L[k] = LowerNode(L, p[k]) /\ p[k] \in Nodes /\ PartsOf(p[k]) \subseteq 1 .. (k - 1)
        /\ p[k].e # "other"
    BY <1>1, ExprFacts, LoweredFacts DEF Lowerable
  <2> HIDE DEF L
  <2>2. CASE p[k].e = "lit"
    <3> DEFINE x == Cell("LIT", p[k].v)
    <3>1. L[k] = <<x>>
      BY <2>1, <2>2 DEF LowerNode
    <3>2. IsSeq(<<x>>) /\ Len(<<x>>) = 1
      BY OneCell
    <3> HIDE DEF x
    <3>3. IsSeq(L[k]) /\ Len(L[k]) = 1
      BY <3>1, <3>2
    <3>4. Len(L[k]) > 0
      BY <3>3
    <3> QED BY <3>3, <3>4
  <2>3. CASE p[k].e = "path"
    <3>1. L[k] = LowerPath(p[k])
      BY <2>1, <2>3 DEF LowerNode
    <3>4. p[k] = PathOf(p[k].root, p[k].segs) /\ p[k].segs \in Seq(Names)
      BY <2>1, <2>3 DEF Nodes, PathOf, Other
    <3>2. p[k] = PathOf(p[k].root, p[k].segs) /\ p[k].segs \in Seq(STRING)
      BY <3>4, NamesAreStrings
    <3>3. IsSeq(L[k]) /\ Len(L[k]) = Len(p[k].segs) + 1 /\ Len(p[k].segs) \in Nat
      BY <3>1, <3>2, PathCode
    <3> QED BY <3>3
  <2>4. CASE p[k].e = "bin"
    <3>1. L[k] = LowerBinary(L[p[k].l], L[p[k].r], p[k].op)
      BY <2>1, <2>4 DEF LowerNode
    <3>2. p[k].l \in S /\ p[k].r \in S
      BY <1>2, <2>1, <2>4 DEF PartsOf
    <3> DEFINE a == L[p[k].l]
               b == L[p[k].r]
               x == Cell(p[k].op, 0)
    <3>3. IsSeq(a) /\ IsSeq(b)
      BY <3>2
    <3>4. L[k] = (a \o b) \o <<x>>
      BY <3>1 DEF LowerBinary
    <3> HIDE DEF a, b, x
    <3>5. IsSeq(a \o b) /\ Len(a \o b) \in Nat /\ IsSeq(<<x>>) /\ Len(<<x>>) = 1
      BY <3>3, ConcatFacts, OneCell, SeqType
    <3>6. IsSeq(L[k]) /\ Len(L[k]) = Len(a \o b) + Len(<<x>>)
      BY <3>4, <3>5, ConcatFacts
    <3> QED BY <3>5, <3>6
  <2>5. CASE p[k].e = "not"
    <3>1. L[k] = Append(L[p[k].x], Cell("NOT", 0))
      BY <2>1, <2>5 DEF LowerNode
    <3>2. p[k].x \in S
      BY <1>2, <2>1, <2>5 DEF PartsOf
    <3>3. IsSeq(L[p[k].x]) /\ Len(L[p[k].x]) \in Nat
      BY <3>2, SeqType
    <3>4. IsSeq(L[k]) /\ Len(L[k]) = Len(L[p[k].x]) + 1
      BY <3>1, <3>3, AppendFacts
    <3> QED BY <3>3, <3>4
  <2> QED BY <2>1, <2>2, <2>3, <2>4, <2>5 DEF Nodes, Other
<1>3. S \in SUBSET (1 .. Len(p))
  OBVIOUS
<1> HIDE DEF S
<1>4. S = 1 .. Len(p)
  BY <1>1, <1>2, <1>3, ByPosition
<1> QED BY <1>4 DEF S

-----------------------------------------------------------------------------
(* Machines.                                                                *)

(* The machine comes to a cell, in no more steps than there are cells       *)
(* between.                                                                 *)
Reaches(t, from, ip, stack) == \E n \in Nat : n <= ip - from /\ t[n] = At(ip, stack)

LEMMA StateKinds ==
  /\ ~Is(Fault, "ip") /\ ~Is(Fault, "done") /\ Fault # Stray
  /\ ~Is(Stray, "ip") /\ ~Is(Stray, "done")
  /\ \A b : /\ ~Is(Done(b), "ip") /\ Is(Done(b), "done") /\ Done(b).done = b
           /\ Done(b) # Fault /\ Done(b) # Stray
  /\ \A ip, stack : Is(At(ip, stack), "ip") /\ At(ip, stack).ip = ip /\ At(ip, stack).stack = stack
<1>1. ~Is(Fault, "ip") /\ ~Is(Fault, "done")
  BY DEF Is, Fault
<1>4. ~Is(Stray, "ip") /\ ~Is(Stray, "done")
  BY DEF Is, Stray
<1>5. Fault # Stray
  <2>1. Is(Fault, "fault") /\ ~Is(Stray, "fault")
    BY DEF Is, Fault, Stray
  <2> QED BY <2>1
<1>2. ASSUME NEW b
      PROVE  /\ ~Is(Done(b), "ip") /\ Is(Done(b), "done") /\ Done(b).done = b
             /\ Done(b) # Fault /\ Done(b) # Stray
  <2>1. ~Is(Done(b), "ip") /\ Is(Done(b), "done")
    BY DEF Is, Done
  <2>2. Done(b).done = b
    BY DEF Done
  <2> QED BY <1>1, <1>4, <2>1, <2>2
<1>3. ASSUME NEW ip, NEW stack
      PROVE Is(At(ip, stack), "ip") /\ At(ip, stack).ip = ip /\ At(ip, stack).stack = stack
  BY DEF Is, At
<1> QED BY <1>1, <1>2, <1>3, <1>4, <1>5

(* A machine that has stopped stays as it is.                               *)
LEMMA HaltedStays ==
  ASSUME NEW m, NEW c, IsSeq(c), NEW from, NEW input, NEW n \in 0 .. (Len(c) + 1),
         ~Is(Trace(m, c, from, input)[n], "ip")
  PROVE  Trace(m, c, from, input)[Len(c) + 1] = Trace(m, c, from, input)[n]
<1> DEFINE T == Trace(m, c, from, input)
           N == (Len(c) + 1) - n
           S == {d \in 0 .. N : T[n + d] = T[n]}
<1>1. Len(c) \in Nat
  BY SeqType
<1>2. \A k \in 1 .. (Len(c) + 1) : T[k] = Step(m, c, T[k - 1], input)
  BY <1>1, TraceFacts
<1>3. N \in Nat /\ 0 \in S /\ S \in SUBSET (0 .. N)
  BY <1>1
<1>4. ~Is(T[n], "ip")
  OBVIOUS
<1>5. ASSUME NEW d \in 1 .. N, d - 1 \in S PROVE d \in S
  <2> HIDE DEF T
  <2>1. T[n + (d - 1)] = T[n] /\ n + d \in 1 .. (Len(c) + 1) /\ (n + d) - 1 = n + (d - 1)
    BY <1>1, <1>5
  <2>2. T[n + d] = Step(m, c, T[n], input)
    BY <1>2, <2>1
  <2>3. T[n + d] = T[n]
    BY <1>4, <2>2 DEF Step
  <2> QED BY <2>3
<1> HIDE DEF T
<1>6. S = 0 .. N
  <2> HIDE DEF S, N
  <2> QED BY <1>3, <1>5, UpTo
<1>7. N \in S
  <2> HIDE DEF S, N
  <2> QED BY <1>3, <1>6
<1>8. n + N = Len(c) + 1
  BY <1>1
<1> QED BY <1>7, <1>8 DEF T

(* From a cell of the code the machine goes one step.                       *)
LEMMA StepOn ==
  ASSUME NEW m, NEW c, IsSeq(c), NEW from \in Nat, from > 0, NEW input, NEW T,
         T = Trace(m, c, from, input),
         NEW ip \in Nat, ip <= Len(c), NEW stack, Reaches(T, from, ip, stack),
         NEW succ, succ = Step(m, c, At(ip, stack), input)
  PROVE  /\ ~Is(succ, "ip") => T[Len(c) + 1] = succ
         /\ \A jp \in Nat : \A rest : jp > ip /\ succ = At(jp, rest) => Reaches(T, from, jp, rest)
<1>1. Len(c) \in Nat
  BY SeqType
<1>2. PICK n \in Nat : n <= ip - from /\ T[n] = At(ip, stack)
  BY DEF Reaches
<1>3. n + 1 \in 1 .. (Len(c) + 1) /\ (n + 1) - 1 = n
  BY <1>1, <1>2
<1>4. T[n + 1] = succ
  <2>1. \A k \in 1 .. (Len(c) + 1) : T[k] = Step(m, c, T[k - 1], input)
    BY <1>1, TraceFacts
  <2> QED BY <1>2, <1>3, <2>1
<1>5. ~Is(succ, "ip") => T[Len(c) + 1] = succ
  <2>1. n + 1 \in 0 .. (Len(c) + 1)
    BY <1>3
  <2> QED BY <1>4, <2>1, HaltedStays
<1>6. ASSUME NEW jp \in Nat, NEW rest, jp > ip, succ = At(jp, rest) PROVE Reaches(T, from, jp, rest)
  <2>1. n + 1 \in Nat /\ n + 1 <= jp - from
    BY <1>2, <1>6
  <2> QED BY <1>4, <1>6, <2>1 DEF Reaches
<1> QED BY <1>5, <1>6

(* What it does with a value: it pushes it and goes on, or it ends with a   *)
(* fault.                                                                   *)
Lands(T, from, end, jp, rest, v) ==
    IF v = Fault \/ Len(rest) >= MaxStack THEN T[end] = Fault
    ELSE Reaches(T, from, jp, Append(rest, v))

LEMMA PushOn ==
  ASSUME NEW m, NEW c, IsSeq(c), NEW from \in Nat, from > 0, NEW input, NEW T,
         T = Trace(m, c, from, input),
         NEW ip \in Nat, ip <= Len(c), NEW stack, Reaches(T, from, ip, stack),
         NEW jp \in Nat, jp > ip, NEW rest, NEW v,
         Step(m, c, At(ip, stack), input) = Pushed(jp, rest, v)
  PROVE  Lands(T, from, Len(c) + 1, jp, rest, v)
<1>1. CASE v = Fault \/ Len(rest) >= MaxStack
  <2>1. Step(m, c, At(ip, stack), input) = Fault
    BY <1>1 DEF Pushed
  <2> QED BY <1>1, <2>1, StepOn, StateKinds DEF Lands
<1>2. CASE ~(v = Fault \/ Len(rest) >= MaxStack)
  <2>1. Step(m, c, At(ip, stack), input) = At(jp, Append(rest, v))
    BY <1>2 DEF Pushed, At
  <2> QED BY <1>2, <2>1, StepOn DEF Lands
<1> QED BY <1>1, <1>2

(* What each cell does.                                                     *)
LEMMA StepLit ==
  ASSUME NEW m, NEW c, NEW ip \in Nat, IsSeq(c), ip <= Len(c), NEW s, NEW input, NEW v, c[ip] = Cell("LIT", v)
  PROVE  Step(m, c, At(ip, s), input) = Pushed(ip + 1, s, v)
<1>1. c[ip].op = "LIT" /\ c[ip].arg = v /\ Len(c) \in Nat
  BY SeqType DEF Cell
<1>2. Opcode(m, c, ip, s, input) = Pushed(ip + 1, s, v)
  BY <1>1 DEF Opcode, Binaries, Equalities, Orders, Logic, Membership, Calls
<1> QED BY <1>1, <1>2, StateKinds DEF Step

LEMMA StepLoad ==
  ASSUME NEW m, NEW c, NEW ip \in Nat, IsSeq(c), ip <= Len(c), NEW s, NEW input,
         c[ip].op \in {"LOAD_CALLER", "LOAD_SELF"}
  PROVE  Step(m, c, At(ip, s), input) = Pushed(Load(m, c, ip, input).ip, s, Load(m, c, ip, input).v)
<1>1. Len(c) \in Nat /\ c[ip].op # "RESULT"
  BY SeqType
<1>2. Opcode(m, c, ip, s, input) = Pushed(Load(m, c, ip, input).ip, s, Load(m, c, ip, input).v)
  BY DEF Opcode, Binaries, Equalities, Orders, Logic, Membership, Calls
<1> QED BY <1>1, <1>2, StateKinds DEF Step

LEMMA StepSegment ==
  ASSUME NEW m, NEW c, NEW ip \in Nat, IsSeq(c), ip <= Len(c), NEW s, NEW input, c[ip].op = "seg"
  PROVE  Step(m, c, At(ip, s), input) \in {Fault, Stray}
<1>1. Len(c) \in Nat
  BY SeqType
<1>2. Opcode(m, c, ip, s, input) \in {Fault, Stray}
  BY DEF Opcode, Binaries, Equalities, Orders, Logic, Membership, Calls
<1> QED BY <1>1, <1>2, StateKinds DEF Step

LEMMA StepNot ==
  ASSUME NEW m, NEW c, NEW ip \in Nat, IsSeq(c), ip <= Len(c), NEW s, IsSeq(s), NEW input,
         c[ip] = Cell("NOT", 0), NEW a
  PROVE  Step(m, c, At(ip, Append(s, a)), input) =
           IF Is(a, "bool") THEN Pushed(ip + 1, s, Bool(~a.bool)) ELSE Fault
<1> DEFINE t == Append(s, a)
<1>1. c[ip].op = "NOT" /\ Len(c) \in Nat
  BY SeqType DEF Cell
<1>2. Top(t, 0) = a /\ Below(t, 1) = s /\ t # << >>
  BY OneOnTop, AppendFacts
<1> HIDE DEF t
<1>3. Opcode(m, c, ip, t, input) =
        IF t # << >> /\ Is(Top(t, 0), "bool")
        THEN Pushed(ip + 1, Below(t, 1), Bool(~Top(t, 0).bool)) ELSE Fault
  BY <1>1 DEF Opcode, Binaries, Equalities, Orders, Logic, Membership, Calls
<1>4. Step(m, c, At(ip, t), input) = Opcode(m, c, ip, t, input)
  BY <1>1, StateKinds DEF Step
<1> QED BY <1>2, <1>3, <1>4 DEF t

LEMMA StepBinary ==
  ASSUME NEW m, NEW c, NEW ip \in Nat, IsSeq(c), ip <= Len(c), NEW s, IsSeq(s), NEW input,
         NEW op \in Binaries, c[ip] = Cell(op, 0), NEW a, NEW b
  PROVE  Step(m, c, At(ip, Append(Append(s, a), b)), input) =
           Pushed(ip + 1, s, Apply(m, op, a, b, input))
<1> DEFINE t == Append(Append(s, a), b)
<1>1. c[ip].op = op /\ Len(c) \in Nat /\ op \notin {"RESULT", "NOT", "LIT", "LOAD_CALLER", "LOAD_SELF", "seg"}
  BY SeqType DEF Cell, Binaries, Equalities, Orders, Logic, Membership, Calls
<1>2. Top(t, 0) = b /\ Top(t, 1) = a /\ Below(t, 2) = s
  BY TwoOnTop
<1>3. Len(t) >= 2
  <2>1. IsSeq(Append(s, a)) /\ Len(Append(s, a)) = Len(s) + 1 /\ Len(s) \in Nat
    BY AppendFacts, SeqType
  <2>2. Len(t) = Len(Append(s, a)) + 1
    BY <2>1, AppendFacts
  <2> QED BY <2>1, <2>2
<1> HIDE DEF t
<1>4. Opcode(m, c, ip, t, input) = Pushed(ip + 1, Below(t, 2), Apply(m, op, Top(t, 1), Top(t, 0), input))
  BY <1>1, <1>3 DEF Opcode
<1>5. Step(m, c, At(ip, t), input) = Opcode(m, c, ip, t, input)
  BY <1>1, StateKinds DEF Step
<1> QED BY <1>2, <1>4, <1>5 DEF t

LEMMA StepResult ==
  ASSUME NEW m, NEW c, NEW ip \in Nat, IsSeq(c), ip <= Len(c), NEW s, IsSeq(s), NEW input,
         c[ip] = Cell("RESULT", 0), NEW a
  PROVE  Step(m, c, At(ip, Append(s, a)), input) = IF Is(a, "bool") THEN Done(a.bool) ELSE Fault
<1> DEFINE t == Append(s, a)
<1>1. c[ip].op = "RESULT" /\ Len(c) \in Nat
  BY SeqType DEF Cell
<1>2. Top(t, 0) = a /\ t # << >>
  BY OneOnTop, AppendFacts
<1> HIDE DEF t
<1>3. Step(m, c, At(ip, t), input) =
        IF t # << >> /\ Is(Top(t, 0), "bool") THEN Done(Top(t, 0).bool) ELSE Fault
  BY <1>1, StateKinds DEF Step
<1> QED BY <1>2, <1>3 DEF t

-----------------------------------------------------------------------------
(* Paths.                                                                   *)

LEMMA PositionFacts ==
  ASSUME NEW entries, NEW k
  PROVE  LET at == Position(entries, k)
         IN  IF \E i \in 1 .. Len(entries) : entries[i].key = k
             THEN at # 0 /\ at \in 1 .. Len(entries) /\ entries[at].key = k
             ELSE at = 0
<1> DEFINE I == {i \in 1 .. Len(entries) : entries[i].key = k}
<1>1. Position(entries, k) = IF I # {} THEN Min(I) ELSE 0
  BY DEF Position, SelectInSeq
<1>2. I \in SUBSET Nat /\ 0 \notin I
  OBVIOUS
<1>3. I # {} => Min(I) \in I
  <2> HIDE DEF I
  <2> QED BY <1>2, MinFacts
<1> QED BY <1>1, <1>2, <1>3

LEMMA FieldFacts ==
  ASSUME NEW v, NEW k
  PROVE  IF HasField(v, k)
         THEN \E i \in Places(v) : Entries(v)[i].key = k /\ Field(v, k) = Entries(v)[i].value
         ELSE Field(v, k) = Null /\ \A i \in Places(v) : Entries(v)[i].key # k
<1>1. CASE \E i \in 1 .. Len(Entries(v)) : Entries(v)[i].key = k
  <2>1. Position(Entries(v), k) # 0 /\ Position(Entries(v), k) \in 1 .. Len(Entries(v))
        /\ Entries(v)[Position(Entries(v), k)].key = k
    BY <1>1, PositionFacts
  <2> QED BY <2>1 DEF HasField, Field, Places
<1>2. CASE ~ \E i \in 1 .. Len(Entries(v)) : Entries(v)[i].key = k
  <2>1. Position(Entries(v), k) = 0
    BY <1>2, PositionFacts
  <2> QED BY <1>2, <2>1 DEF HasField, Field, Places
<1> QED BY <1>1, <1>2

(* A value without entries has no fields.                                   *)
LEMMA NoFields ==
  ASSUME NEW v, Entries(v) = << >>, NEW k
  PROVE  ~HasField(v, k) /\ Field(v, k) = Null
<1>1. Places(v) = {}
  BY DEF Places
<1> QED BY <1>1, FieldFacts

LEMMA NullFacts == Entries(Null) = << >> /\ \A kind : Is(Null, kind) <=> kind = "null"
BY DEF Null, Entries, Is

LEMMA ValueFacts ==
  ASSUME NEW x
  PROVE  /\ Entries(Str(x)) = << >> /\ ~Is(Str(x), "arr")
         /\ Entries(Obj(x)) = x /\ Is(Obj(x), "obj") /\ ~Is(Obj(x), "arr")
         /\ Entries(Arr(x)) = << >>
<1>1. Entries(Str(x)) = << >> /\ ~Is(Str(x), "arr")
  BY DEF Str, Entries, Is
<1>2. Entries(Obj(x)) = x /\ Is(Obj(x), "obj") /\ ~Is(Obj(x), "arr")
  BY DEF Obj, Entries, Is
<1>3. Entries(Arr(x)) = << >>
  BY DEF Arr, Entries, Is
<1> QED BY <1>1, <1>2, <1>3

LEMMA EntryFacts == ASSUME NEW k, NEW v PROVE Entry(k, v).key = k /\ Entry(k, v).value = v
BY DEF Entry

LEMMA SevenFacts ==
  ASSUME NEW a, NEW b, NEW c, NEW d, NEW e, NEW f, NEW g, NEW s, s = <<a, b, c, d, e, f, g>>
  PROVE  Len(s) = 7 /\ s[1] = a /\ s[2] = b /\ s[3] = c /\ s[4] = d /\ s[5] = e /\ s[6] = f /\ s[7] = g
OBVIOUS

(* The input of the self-pass is two levels deep at most, and searchable at *)
(* groups and roles only.                                                   *)
LEMMA EmptyFields ==
  ASSUME NEW root \in {EmptyCaller, EmptyRecord}, NEW k
  PROVE  /\ Is(root, "obj")
         /\ Entries(Field(root, k)) = << >>
         /\ Is(Field(root, k), "arr") => root # EmptyRecord /\ k \in {"groups", "roles"}
<1> DEFINE Flat(v) == v \in {Str(""), Obj(<< >>)}
           List(v) == v = Arr(<< >>)
<1>1. ASSUME NEW v, Flat(v) PROVE Entries(v) = << >> /\ ~Is(v, "arr")
  BY <1>1, ValueFacts
<1>2. ASSUME NEW v, List(v) PROVE Entries(v) = << >>
  BY <1>2, ValueFacts
<1>3. CASE ~HasField(root, k)
  <2>1. Field(root, k) = Null
    BY <1>3, FieldFacts
  <2>2. Is(root, "obj")
    BY ValueFacts DEF EmptyCaller, EmptyRecord
  <2> QED BY <2>1, <2>2, NullFacts
<1>4. CASE HasField(root, k)
  <2>1. PICK i \in Places(root) : Entries(root)[i].key = k /\ Field(root, k) = Entries(root)[i].value
    BY <1>4, FieldFacts
  <2>2. CASE root # EmptyRecord
    <3>1. Is(root, "obj") /\ Entries(root) =
            <<Entry("attrs", Obj(<< >>)), Entry("email", Str("")),
              Entry("groups", Arr(<< >>)), Entry("id", Str("")),
              Entry("roles", Arr(<< >>)), Entry("team", Str("")),
              Entry("tenant", Str(""))>>
      BY <2>2, ValueFacts DEF EmptyCaller
    <3> DEFINE s == Entries(root)
               e1 == Entry("attrs", Obj(<< >>))
               e2 == Entry("email", Str(""))
               e3 == Entry("groups", Arr(<< >>))
               e4 == Entry("id", Str(""))
               e5 == Entry("roles", Arr(<< >>))
               e6 == Entry("team", Str(""))
               e7 == Entry("tenant", Str(""))
    <3>8. /\ e1.value = Obj(<< >>) /\ e2.value = Str("") /\ e4.value = Str("")
          /\ e6.value = Str("") /\ e7.value = Str("")
      BY EntryFacts, Zenon
    <3>9. /\ e3.value = Arr(<< >>) /\ e3.key = "groups"
          /\ e5.value = Arr(<< >>) /\ e5.key = "roles"
      BY EntryFacts, Zenon
    <3>5. /\ Flat(e1.value) /\ Flat(e2.value) /\ Flat(e4.value) /\ Flat(e6.value) /\ Flat(e7.value)
          /\ List(e3.value) /\ e3.key = "groups" /\ List(e5.value) /\ e5.key = "roles"
      BY <3>8, <3>9, Zenon
    <3>3. s = <<e1, e2, e3, e4, e5, e6, e7>>
      BY <3>1
    <3> HIDE DEF Flat, List, s, e1, e2, e3, e4, e5, e6, e7
    <3>6. /\ Len(s) = 7 /\ s[1] = e1 /\ s[2] = e2 /\ s[3] = e3 /\ s[4] = e4 /\ s[5] = e5
          /\ s[6] = e6 /\ s[7] = e7
      BY <3>3, SevenFacts
    <3>2. Places(root) = 1 .. 7
      BY <3>6 DEF Places, s
    <3>4. CASE i \in {1, 2, 4, 6, 7}
      <4>1. Flat(s[i].value)
        BY <3>4, <3>5, <3>6
      <4> QED BY <1>1, <2>1, <3>1, <4>1 DEF s
    <3>7. CASE i \in {3, 5}
      <4>1. List(s[i].value) /\ s[i].key \in {"groups", "roles"}
        BY <3>5, <3>6, <3>7
      <4> QED BY <1>2, <2>1, <2>2, <3>1, <4>1 DEF s
    <3> QED BY <2>1, <3>2, <3>4, <3>7
  <2>3. CASE root = EmptyRecord
    <3>1. Is(root, "obj") /\ Entries(root) = <<Entry("tenant", Str(""))>>
      BY <2>3, ValueFacts DEF EmptyRecord
    <3> DEFINE e == Entry("tenant", Str(""))
    <3>2. e.value = Str("")
      BY EntryFacts
    <3>5. Flat(Str(""))
      OBVIOUS
    <3> HIDE DEF Flat, List, e
    <3>4. Len(<<e>>) = 1 /\ <<e>>[1] = e
      BY OneCell
    <3>6. Entries(root) = <<e>>
      BY <3>1 DEF e
    <3>7. i = 1
      BY <2>1, <3>4, <3>6 DEF Places
    <3>3. Flat(Entries(root)[i].value)
      BY <3>2, <3>4, <3>5, <3>6, <3>7
    <3> QED BY <1>1, <2>1, <3>1, <3>3
  <2> QED BY <2>2, <2>3
<1> QED BY <1>3, <1>4

LEMMA CellFacts == ASSUME NEW op, NEW arg PROVE Cell(op, arg).op = op /\ Cell(op, arg).arg = arg
BY DEF Cell

(* The operand of a path, as the machines decode it.                        *)
PathAt(code, ip, r, segs) ==
    /\ code[ip] = Cell(r, Len(segs))
    /\ \A i \in 1 .. Len(segs) : code[ip + i] = Cell("seg", segs[i])

LEMMA OperandFacts ==
  ASSUME NEW c, NEW ip, NEW r, NEW segs \in Seq(STRING), PathAt(c, ip, r, segs)
  PROVE  Operand(c, ip) = segs
<1>1. c[ip].arg = Len(segs) /\ \A i \in 1 .. Len(segs) : c[ip + i].arg = segs[i]
  BY CellFacts DEF PathAt
<1>2. Operand(c, ip) = [i \in 1 .. Len(segs) |-> segs[i]]
  BY <1>1 DEF Operand
<1> QED BY <1>2

LEMMA BeforeLast ==
  ASSUME NEW n \in Nat, NEW k \in 1 .. n, k # n, NEW ip \in Nat, NEW l \in Nat, ip + n <= l
  PROVE  k + 1 \in 1 .. n /\ ip + 1 + k = ip + (k + 1) /\ ip + 1 + k <= l /\ ip + 1 + k \in Nat
OBVIOUS

(* On the self-pass a path that is followed has two segments at most, and   *)
(* leaves an array for groups and roles only.                               *)
LEMMA HostPath ==
  ASSUME NEW c, IsSeq(c), NEW from \in Nat, from > 0, NEW a, NEW H,
         H = Trace("host", c, from, EmptyInput(a)), H[Len(c) + 1] \notin {Fault, Stray},
         NEW ip \in Nat, NEW s, IsSeq(s), Reaches(H, from, ip, s),
         NEW r \in {"LOAD_CALLER", "LOAD_SELF"}, NEW segs \in Seq(STRING),
         ip + Len(segs) <= Len(c), PathAt(c, ip, r, segs)
  PROVE  /\ Len(segs) <= 2 /\ Len(s) < MaxStack
         /\ \E v : /\ Reaches(H, from, ip + 1 + Len(segs), Append(s, v))
                   /\ Is(v, "arr") => r = "LOAD_CALLER" /\ Len(segs) = 1 /\ segs[1] \in {"groups", "roles"}
<1> DEFINE input == EmptyInput(a)
           root == RootOf(r, input)
           n == Len(segs)
           at == Along(root, segs)
           missing == Missing(root, segs)
           l == Load("host", c, ip, input)
<1>1. /\ n \in Nat /\ Len(c) \in Nat /\ ip <= Len(c) /\ DOMAIN segs = 1 .. n
      /\ Len(s) \in Nat /\ MaxStack \in Nat
  BY SeqType, SizesAssumption
<1>2. root \in {EmptyCaller, EmptyRecord} /\ (root # EmptyRecord => r = "LOAD_CALLER")
  BY DEF RootOf, EmptyInput
<1>3. c[ip].op = r /\ Operand(c, ip) = segs
  <2>1. c[ip].op = r
    BY CellFacts, Zenon DEF PathAt
  <2>2. Operand(c, ip) = segs
    BY OperandFacts
  <2> QED BY <2>1, <2>2
<1>4. l = HostLoad(c, ip, root)
  BY <1>3 DEF Load
<1>5. at[0] = root /\ \A k \in 1 .. n : at[k] = Field(at[k - 1], segs[k])
  BY AlongFacts
<1>6. Step("host", c, At(ip, s), input) = Pushed(l.ip, s, l.v)
  BY <1>1, <1>3, StepLoad
<1>7. missing \in SUBSET (1 .. n) /\ \A k \in 1 .. n : k \in missing <=> ~HasField(at[k - 1], segs[k])
  BY <1>1 DEF Missing
<1> HIDE DEF input, root, at, missing, l
<1>8. n >= 2 => 1 \in missing \/ 2 \in missing
  <2> SUFFICES ASSUME n >= 2 PROVE 2 \in missing
    OBVIOUS
  <2>1. at[1] = Field(root, segs[1]) /\ 1 \in 1 .. n /\ 2 \in 1 .. n
    BY <1>1, <1>5
  <2>2. Entries(at[1]) = << >>
    BY <1>2, <2>1, EmptyFields
  <2>3. ~HasField(at[1], segs[2])
    BY <2>2, NoFields
  <2> QED BY <1>7, <2>1, <2>3
<1>9. CASE missing = {}
  <2>1. l.ip = ip + 1 + n /\ l.v = HostValue(at[n])
    BY <1>3, <1>4, <1>9 DEF HostLoad, missing, at
  <2>2. n < 2
    BY <1>1, <1>8, <1>9
  <2>3. Len(s) < MaxStack /\ Reaches(H, from, ip + 1 + n, Append(s, l.v))
    <3>1. Step("host", c, At(ip, s), input) = Pushed(ip + 1 + n, s, l.v)
      BY <1>6, <2>1
    <3>2. ip + 1 + n \in Nat /\ ip + 1 + n > ip
      BY <1>1
    <3>3. Lands(H, from, Len(c) + 1, ip + 1 + n, s, l.v)
      BY <1>1, <3>1, <3>2, PushOn DEF input
    <3> QED BY <1>1, <3>3 DEF Lands
  <2>4. Is(l.v, "arr") => r = "LOAD_CALLER" /\ n = 1 /\ segs[1] \in {"groups", "roles"}
    <3>1. CASE n = 0
      <4>1. l.v = Null
        BY <1>2, <1>5, <2>1, <3>1, EmptyFields DEF HostValue
      <4> QED BY <4>1, NullFacts
    <3>2. CASE n = 1
      <4>1. at[1] = Field(root, segs[1])
        BY <1>5, <3>2
      <4>2. Is(at[1], "arr") => root # EmptyRecord /\ segs[1] \in {"groups", "roles"}
        BY <1>2, <4>1, EmptyFields
      <4>3. Is(l.v, "arr") => Is(at[1], "arr")
        BY <2>1, <3>2, NullFacts DEF HostValue
      <4> QED BY <1>2, <3>2, <4>2, <4>3
    <3> QED BY <1>1, <2>2, <3>1, <3>2
  <2> QED BY <1>1, <2>2, <2>3, <2>4
<1>10. CASE missing # {}
  <2>1. PICK k : k = Min(missing) /\ k \in missing /\ \A j \in missing : k <= j
    <3>1. missing \in SUBSET Nat
      BY <1>1, <1>7
    <3> QED BY <1>10, <3>1, MinFacts
  <2>2. l.ip = ip + 1 + k /\ l.v = Null
    BY <1>3, <1>4, <1>10, <2>1 DEF HostLoad, missing
  <2>3. k \in 1 .. n
    BY <1>7, <2>1
  <2>4. Len(s) < MaxStack /\ Reaches(H, from, ip + 1 + k, Append(s, Null))
    <3>1. Step("host", c, At(ip, s), input) = Pushed(ip + 1 + k, s, Null)
      BY <1>6, <2>2
    <3>2. ip + 1 + k \in Nat /\ ip + 1 + k > ip
      BY <1>1, <2>3
    <3>3. Lands(H, from, Len(c) + 1, ip + 1 + k, s, Null)
      BY <1>1, <3>1, <3>2, PushOn DEF input
    <3> QED BY <1>1, <3>3 DEF Lands
  <2>5. k = n
    <3> SUFFICES ASSUME k # n PROVE FALSE
      OBVIOUS
    <3>1. k + 1 \in 1 .. n /\ ip + 1 + k = ip + (k + 1) /\ ip + 1 + k <= Len(c) /\ ip + 1 + k \in Nat
      BY <1>1, <2>3, BeforeLast
    <3>2. c[ip + 1 + k].op = "seg"
      BY <3>1, CellFacts DEF PathAt
    <3>3. Step("host", c, At(ip + 1 + k, Append(s, Null)), input) \in {Fault, Stray}
      BY <3>1, <3>2, StepSegment
    <3>4. H[Len(c) + 1] \in {Fault, Stray}
      BY <2>4, <3>1, <3>3, StepOn, StateKinds DEF input
    <3> QED BY <3>4
  <2>6. n <= 2
    BY <1>1, <1>8, <2>1, <2>5
  <2> QED BY <2>4, <2>5, <2>6, NullFacts
<1> QED BY <1>9, <1>10

LEMMA WithinFacts ==
  ASSUME NEW values, NEW v \in values
  PROVE  /\ \A i \in Places(v) : Entries(v)[i].value \in Within(values)
         /\ Is(v, "arr") => \A i \in DOMAIN v.arr : v.arr[i] \in Within(values)
<1>1. Inside(v) \subseteq Within(values)
  BY DEF Within
<1>2. \A i \in Places(v) : Entries(v)[i].value \in Inside(v)
  BY DEF Inside
<1>3. Is(v, "arr") => \A i \in DOMAIN v.arr : v.arr[i] \in Inside(v)
  BY DEF Inside
<1> QED BY <1>1, <1>2, <1>3

LEMMA PlainFacts ==
  ASSUME NEW v, Plain(v)
  PROVE  /\ PlainScalar(v) /\ (\A w \in Within({v}) : PlainScalar(w)) /\ \A w \in Within(Within({v})) : PlainScalar(w)
         /\ PlainKeys(v) /\ \A w \in Within({v}) : PlainKeys(w)
BY DEF Plain

LEMMA NullIsClean == PlainScalar(Null)
BY NullFacts DEF PlainScalar

LEMMA PlainField ==
  ASSUME NEW v, Plain(v), NEW k
  PROVE  /\ PlainScalar(Field(v, k)) /\ PlainKeys(Field(v, k))
         /\ \A i \in Places(Field(v, k)) : PlainScalar(Entries(Field(v, k))[i].value)
         /\ Is(Field(v, k), "arr") => \A i \in DOMAIN Field(v, k).arr : PlainScalar(Field(v, k).arr[i])
<1> DEFINE f == Field(v, k)
<1>1. CASE HasField(v, k)
  <2>1. f \in Within({v})
    BY <1>1, FieldFacts, WithinFacts
  <2> HIDE DEF f
  <2>2. /\ \A i \in Places(f) : Entries(f)[i].value \in Within(Within({v}))
        /\ Is(f, "arr") => \A i \in DOMAIN f.arr : f.arr[i] \in Within(Within({v}))
    BY <2>1, WithinFacts
  <2>3. /\ PlainScalar(f) /\ PlainKeys(f)
        /\ \A i \in Places(f) : PlainScalar(Entries(f)[i].value)
        /\ Is(f, "arr") => \A i \in DOMAIN f.arr : PlainScalar(f.arr[i])
    BY <2>1, <2>2, PlainFacts
  <2> QED BY <2>3 DEF f
<1>2. CASE ~HasField(v, k)
  <2>1. f = Null
    BY <1>2, FieldFacts
  <2>2. Places(Null) = {}
    BY NullFacts DEF Places
  <2>3. PlainKeys(Null)
    BY <2>2 DEF PlainKeys
  <2> QED BY <2>1, <2>2, <2>3, NullFacts, NullIsClean
<1> QED BY <1>1, <1>2

(* An object of plain keys and values can be scanned.                       *)
LEMMA CleanIsScannable ==
  ASSUME NEW v, PlainKeys(v), \A i \in Places(v) : PlainScalar(Entries(v)[i].value), NEW k
  PROVE  Scannable(Entries(v), k)
BY DEF Scannable, Places, PlainKeys, PlainScalar, IsEscaped, Rewritten

(* On a plain value the bundle finds what the path means.                   *)
LEMMA PlainWalk ==
  ASSUME NEW root, Plain(root), NEW segs \in Seq(STRING), Len(segs) <= 2
  PROVE  WasmWalk(root, segs) = Reach(root, segs) /\ PlainScalar(Reach(root, segs))
<1> DEFINE n == Len(segs)
           at == Along(root, segs)
           missing == Missing(root, segs)
           sought == IF missing = {} THEN n ELSE Min(missing)
<1>1. n \in 0 .. 2 /\ DOMAIN segs = 1 .. n
  <2>1. Len(segs) \in Nat /\ DOMAIN segs = 1 .. Len(segs)
    OBVIOUS
  <2> QED BY <2>1
<1>2. at[0] = root /\ \A k \in 1 .. n : at[k] = Field(at[k - 1], segs[k])
  BY AlongFacts
<1>3. missing \in SUBSET (1 .. n) /\ \A k \in 1 .. n : k \in missing <=> ~HasField(at[k - 1], segs[k])
  BY <1>1 DEF Missing
<1>4. WasmWalk(root, segs) =
        IF \E k \in 1 .. sought : ~Scannable(Entries(at[k - 1]), segs[k]) THEN Fault
        ELSE IF missing # {} THEN Null
        ELSE WasmValue(at[n])
  BY DEF WasmWalk
<1>5. Reach(root, segs) = HostValue(at[n])
  BY DEF Reach
<1>6. sought \in 0 .. n
  <2>1. missing # {} => Min(missing) \in missing
    <3>1. missing \in SUBSET Nat
      BY <1>1, <1>3
    <3> HIDE DEF missing
    <3> QED BY <3>1, MinFacts
  <2> HIDE DEF missing, n
  <2>2. CASE missing = {}
    BY <1>1, <2>2
  <2>3. CASE missing # {}
    <3>1. sought = Min(missing) /\ sought \in 1 .. n
      BY <1>3, <2>1, <2>3
    <3> HIDE DEF sought
    <3> QED BY <1>1, <3>1
  <2> QED BY <2>2, <2>3
<1> HIDE DEF n, at, missing, sought
<1>7. PlainScalar(root) /\ PlainKeys(root) /\ \A i \in Places(root) : PlainScalar(Entries(root)[i].value)
  BY PlainFacts, WithinFacts
<1>8. n >= 1 => /\ at[1] = Field(root, segs[1]) /\ PlainScalar(at[1]) /\ PlainKeys(at[1])
                /\ \A i \in Places(at[1]) : PlainScalar(Entries(at[1])[i].value)
  <2> SUFFICES ASSUME n >= 1
               PROVE  /\ at[1] = Field(root, segs[1]) /\ PlainScalar(at[1]) /\ PlainKeys(at[1])
                      /\ \A i \in Places(at[1]) : PlainScalar(Entries(at[1])[i].value)
    OBVIOUS
  <2>1. at[1] = Field(root, segs[1])
    BY <1>1, <1>2
  <2> QED BY <2>1, PlainField
<1>9. n = 2 => at[2] = Field(at[1], segs[2])
  BY <1>2
<1>10. n = 2 => PlainScalar(at[2])
  <2> SUFFICES ASSUME n = 2 PROVE PlainScalar(at[2])
    OBVIOUS
  <2>1. CASE HasField(at[1], segs[2])
    BY <1>8, <1>9, <2>1, FieldFacts
  <2>2. CASE ~HasField(at[1], segs[2])
    BY <1>9, <2>2, FieldFacts, NullIsClean
  <2> QED BY <2>1, <2>2
<1>11. PlainScalar(at[n])
  BY <1>1, <1>2, <1>7, <1>8, <1>10
<1>12. \A k \in 1 .. sought : Scannable(Entries(at[k - 1]), segs[k])
  <2> SUFFICES ASSUME NEW k \in 1 .. sought PROVE Scannable(Entries(at[k - 1]), segs[k])
    OBVIOUS
  <2>1. CASE k = 1
    BY <1>2, <1>7, <2>1, CleanIsScannable
  <2>2. CASE k = 2
    <3>1. n >= 1 /\ k - 1 = 1
      BY <1>1, <1>6, <2>2
    <3> QED BY <1>8, <3>1, CleanIsScannable
  <2>3. k = 1 \/ k = 2
    BY <1>1, <1>6
  <2> QED BY <2>1, <2>2, <2>3
<1>13. missing # {} => at[n] = Null
  <2> SUFFICES ASSUME NEW k \in missing PROVE at[n] = Null
    OBVIOUS
  <2>1. k \in 1 .. n /\ at[k] = Null
    BY <1>2, <1>3, FieldFacts
  <2>2. CASE k = n
    BY <2>1, <2>2
  <2>3. CASE k # n
    <3>1. n = 2 /\ k = 1
      BY <1>1, <2>1, <2>3
    <3> QED BY <1>9, <2>1, <3>1, NullFacts, NoFields
  <2> QED BY <2>2, <2>3
<1>14. WasmValue(at[n]) = HostValue(at[n])
  BY <1>11 DEF WasmValue, HostValue, PlainScalar, Rewritten
<1>15. HostValue(Null) = Null
  BY NullFacts DEF HostValue
<1>16. WasmWalk(root, segs) = Reach(root, segs)
  BY <1>4, <1>5, <1>11, <1>12, <1>13, <1>14, <1>15
<1>17. PlainScalar(Reach(root, segs))
  BY <1>5, <1>11, NullIsClean DEF HostValue
<1> QED BY <1>16, <1>17

(* What becomes of a value for which there is room.                         *)
GoesOn(T, from, end, jp, rest, v) ==
    IF v = Fault THEN T[end] = Fault ELSE Reaches(T, from, jp, Append(rest, v))

LEMMA WasmPath ==
  ASSUME NEW c, IsSeq(c), NEW from \in Nat, from > 0, NEW input, NEW W,
         W = Trace("wasm", c, from, input),
         NEW ip \in Nat, NEW s, IsSeq(s), Len(s) < MaxStack, Reaches(W, from, ip, s),
         NEW r \in {"LOAD_CALLER", "LOAD_SELF"}, NEW segs \in Seq(STRING), Len(segs) <= 2,
         ip + Len(segs) <= Len(c), PathAt(c, ip, r, segs), Plain(RootOf(r, input)),
         NEW v, v = Reach(RootOf(r, input), segs)
  PROVE  PlainScalar(v) /\ GoesOn(W, from, Len(c) + 1, ip + 1 + Len(segs), s, v)
<1> DEFINE root == RootOf(r, input)
           l == Load("wasm", c, ip, input)
<1>1. /\ Len(segs) \in Nat /\ Len(c) \in Nat /\ ip <= Len(c)
      /\ Len(s) \in Nat /\ MaxStack \in Nat /\ MaxSegs \in Nat /\ MaxSegs >= 2
  BY SeqType, SizesAssumption
<1>2. c[ip].op = r /\ Operand(c, ip) = segs
  <2>1. c[ip].op = r
    BY CellFacts, Zenon DEF PathAt
  <2>2. Operand(c, ip) = segs
    BY OperandFacts
  <2> QED BY <2>1, <2>2
<1>3. l = WasmLoad(c, ip, root)
  BY <1>2 DEF Load
<1>4. v = WasmWalk(root, segs) /\ PlainScalar(v)
  BY PlainWalk
<1>5. Step("wasm", c, At(ip, s), input) = Pushed(l.ip, s, l.v)
  BY <1>1, <1>2, StepLoad
<1> HIDE DEF l
<1>6. l.ip = ip + 1 + Len(segs) /\ l.v = v
  <2>1. ~(Len(segs) > MaxSegs)
    BY <1>1
  <2> QED BY <1>2, <1>3, <1>4, <2>1 DEF WasmLoad
<1>7. Step("wasm", c, At(ip, s), input) = Pushed(ip + 1 + Len(segs), s, v)
  BY <1>5, <1>6
<1>8. ip + 1 + Len(segs) \in Nat /\ ip + 1 + Len(segs) > ip /\ ~(Len(s) >= MaxStack)
  BY <1>1
<1>9. Lands(W, from, Len(c) + 1, ip + 1 + Len(segs), s, v)
  BY <1>1, <1>7, <1>8, PushOn
<1> QED BY <1>4, <1>8, <1>9 DEF Lands, GoesOn

-----------------------------------------------------------------------------
(* Operators: the two machines side by side.                                *)

Searchable(v) == Is(v, "arr") => \A i \in DOMAIN v.arr : v.arr[i] \in [str : STRING \ Rewritten]

(* What the host has where the bundle has v: an array only if v can be      *)
(* searched by either.                                                      *)
Matches(h, v) == Is(h, "arr") => Searchable(v)

(* The value v of a node: where the host goes on without a fault, so does   *)
(* the bundle, with v, unless v is a fault itself.                          *)
Couples(H, W, from, end, jp, s, t, v) ==
    IF v = Fault THEN W[end] = Fault
    ELSE \E h : /\ Reaches(H, from, jp, Append(s, h))
                /\ Reaches(W, from, jp, Append(t, v))
                /\ Matches(h, v)

LEMMA BoolFacts ==
  ASSUME NEW x
  PROVE  ~Is(Bool(x), "arr") /\ Bool(x) # Fault
<1>1. ~Is(Bool(x), "arr")
  BY DEF Bool, Is
<1>2. Is(Bool(x), "bool") /\ ~Is(Fault, "bool")
  BY DEF Bool, Is, Fault
<1> QED BY <1>1, <1>2

LEMMA PushNext ==
  ASSUME NEW m, NEW c, IsSeq(c), NEW from \in Nat, from > 0, NEW input, NEW T,
         T = Trace(m, c, from, input),
         NEW ip \in Nat, ip <= Len(c), NEW stack, Reaches(T, from, ip, stack), NEW rest, NEW v,
         Step(m, c, At(ip, stack), input) = Pushed(ip + 1, rest, v)
  PROVE  Lands(T, from, Len(c) + 1, ip + 1, rest, v)
<1>1. PICK jp \in Nat : jp = ip + 1 /\ jp > ip
  OBVIOUS
<1>2. Step(m, c, At(ip, stack), input) = Pushed(jp, rest, v)
  BY <1>1
<1>3. Lands(T, from, Len(c) + 1, jp, rest, v)
  BY <1>1, <1>2, PushOn
<1> QED BY <1>1, <1>3

(* One machine after another: what the host pushes, the bundle pushes.      *)
LEMMA PushBoth ==
  ASSUME NEW c, IsSeq(c), NEW from \in Nat, from > 0, NEW empty, NEW input, NEW H, NEW W,
         H = Trace("host", c, from, empty), W = Trace("wasm", c, from, input),
         H[Len(c) + 1] # Fault, NEW ip \in Nat, ip <= Len(c),
         NEW hs, NEW ws, Reaches(H, from, ip, hs), Reaches(W, from, ip, ws),
         NEW s, NEW t, IsSeq(s), IsSeq(t), Len(s) = Len(t), NEW h, NEW v,
         Step("host", c, At(ip, hs), empty) = Pushed(ip + 1, s, h),
         Step("wasm", c, At(ip, ws), input) = Pushed(ip + 1, t, v),
         h # Fault => Matches(h, v)
  PROVE  Couples(H, W, from, Len(c) + 1, ip + 1, s, t, v)
<1>1. Lands(H, from, Len(c) + 1, ip + 1, s, h)
  BY PushNext
<1>2. Lands(W, from, Len(c) + 1, ip + 1, t, v)
  BY PushNext
<1> QED BY <1>1, <1>2 DEF Couples, Lands

LEMMA NotBoth ==
  ASSUME NEW c, IsSeq(c), NEW from \in Nat, from > 0, NEW empty, NEW input, NEW H, NEW W,
         H = Trace("host", c, from, empty), W = Trace("wasm", c, from, input),
         H[Len(c) + 1] # Fault, NEW ip \in Nat, ip <= Len(c), c[ip] = Cell("NOT", 0),
         NEW s, NEW t, IsSeq(s), IsSeq(t), Len(s) = Len(t), NEW h, NEW v,
         Reaches(H, from, ip, Append(s, h)), Reaches(W, from, ip, Append(t, v))
  PROVE  Couples(H, W, from, Len(c) + 1, ip + 1, s, t, IF Is(v, "bool") THEN Bool(~v.bool) ELSE Fault)
<1>1. Step("host", c, At(ip, Append(s, h)), empty) =
        IF Is(h, "bool") THEN Pushed(ip + 1, s, Bool(~h.bool)) ELSE Fault
  BY StepNot
<1>2. Step("wasm", c, At(ip, Append(t, v)), input) =
        IF Is(v, "bool") THEN Pushed(ip + 1, t, Bool(~v.bool)) ELSE Fault
  BY StepNot
<1>3. Is(h, "bool")
  <2> SUFFICES ASSUME ~Is(h, "bool") PROVE FALSE
    OBVIOUS
  <2>1. Step("host", c, At(ip, Append(s, h)), empty) = Fault
    BY <1>1
  <2>2. H[Len(c) + 1] = Fault
    BY <2>1, StepOn, StateKinds
  <2> QED BY <2>2
<1>4. CASE ~Is(v, "bool")
  <2>1. Step("wasm", c, At(ip, Append(t, v)), input) = Fault
    BY <1>2, <1>4
  <2>2. W[Len(c) + 1] = Fault
    BY <2>1, StepOn, StateKinds
  <2> QED BY <1>4, <2>2 DEF Couples
<1>5. CASE Is(v, "bool")
  <2> DEFINE nh == ~h.bool
             nv == ~v.bool
             a == Bool(nh)
             b == Bool(nv)
  <2>1. Step("host", c, At(ip, Append(s, h)), empty) = Pushed(ip + 1, s, a)
    BY <1>1, <1>3
  <2>2. Step("wasm", c, At(ip, Append(t, v)), input) = Pushed(ip + 1, t, b)
    BY <1>2, <1>5
  <2> HIDE DEF nh, nv
  <2>3. Matches(a, b)
    BY BoolFacts DEF Matches
  <2> HIDE DEF a, b
  <2>4. Couples(H, W, from, Len(c) + 1, ip + 1, s, t, b)
    BY <2>1, <2>2, <2>3, PushBoth
  <2> QED BY <1>5, <2>4 DEF b, nv
<1> QED BY <1>4, <1>5

(* A binary operator gives a boolean or a fault.                            *)
LEMMA ApplyKind ==
  ASSUME NEW m, NEW op \in Binaries, NEW a, NEW b, NEW input
  PROVE  ~Is(Apply(m, op, a, b, input), "arr")
<1> DEFINE v == Apply(m, op, a, b, input)
           NoList(x) == ~Is(x, "arr")
<1>1. NoList(Fault) /\ \A x : NoList(Bool(x))
  <2>1. NoList(Fault)
    BY DEF Fault, Is
  <2> QED BY <2>1, BoolFacts
<1> HIDE DEF NoList
<1>2. CASE op = "EQ"
  <2> DEFINE x == Equal(a, b)
  <2>1. v = Bool(x)
    BY <1>2 DEF Apply, Orders, Logic, Membership
  <2> HIDE DEF x, v
  <2>2. NoList(v)
    BY <1>1, <2>1
  <2> QED BY <2>2 DEF NoList, v
<1>3. CASE op = "NE"
  <2> DEFINE x == ~Equal(a, b)
  <2>1. v = Bool(x)
    BY <1>3 DEF Apply, Orders, Logic, Membership
  <2> HIDE DEF x, v
  <2>2. NoList(v)
    BY <1>1, <2>1
  <2> QED BY <2>2 DEF NoList, v
<1>4. CASE op \in Orders
  <2> DEFINE x == Ordered(op, Number(a), Number(b))
  <2>1. v = IF IsNumber(a) /\ IsNumber(b) THEN Bool(x) ELSE Fault
    BY <1>4 DEF Apply, Orders, Logic, Membership
  <2> HIDE DEF x, v
  <2>2. NoList(v)
    BY <1>1, <2>1
  <2> QED BY <2>2 DEF NoList, v
<1>5. CASE op \in Logic
  <2> DEFINE x == IF op = "AND" THEN a.bool /\ b.bool ELSE a.bool \/ b.bool
  <2>1. v = IF Is(a, "bool") /\ Is(b, "bool") THEN Bool(x) ELSE Fault
    BY <1>5 DEF Apply, Orders, Logic, Membership
  <2> HIDE DEF x, v
  <2>2. NoList(v)
    BY <1>1, <2>1
  <2> QED BY <2>2 DEF NoList, v
<1>6. CASE op \in Membership
  <2> DEFINE x == HasMember(m, a, b) <=> (op = "IN")
  <2>1. v = IF ~Is(b, "arr") \/ Blocked(m, a, b) THEN Fault ELSE Bool(x)
    BY <1>6 DEF Apply, Orders, Logic, Membership
  <2> HIDE DEF x, v
  <2>2. NoList(v)
    BY <1>1, <2>1
  <2> QED BY <2>2 DEF NoList, v
<1>7. CASE op = "CALL_HAS_ROLE"
  <2> DEFINE roles == Sought(m, input.caller, "roles")
             x == HasMember(m, b, roles)
  <2>1. v = HasRole(m, a, b, input)
    BY <1>7 DEF Apply, Orders, Logic, Membership
  <2>2. v = Fault \/ v = Bool(x) \/ v = Bool(FALSE)
    BY <2>1 DEF HasRole, Search
  <2> HIDE DEF x, v
  <2>3. NoList(v)
    BY <1>1, <2>2
  <2> QED BY <2>3 DEF NoList, v
<1>8. CASE op = "CALL_TENANT_MATCH"
  <2> DEFINE l == Sought(m, input.caller, "tenant")
             r == Sought(m, input.record, "tenant")
             x == Is(l, "str") /\ Is(r, "str") /\ l = r
  <2>1. v = TenantMatch(m, input)
    BY <1>8 DEF Apply, Orders, Logic, Membership
  <2>2. v = Bool(x)
    BY <2>1 DEF TenantMatch
  <2> HIDE DEF x, v
  <2>3. NoList(v)
    BY <1>1, <2>2
  <2> QED BY <2>3 DEF NoList, v
<1> QED BY <1>2, <1>3, <1>4, <1>5, <1>6, <1>7, <1>8 DEF Binaries, Equalities, Calls

(* Comparisons and logic do not know which machine they run on.             *)
LEMMA ApplyAlike ==
  ASSUME NEW op \in Equalities \cup Orders \cup Logic, NEW a, NEW b, NEW input
  PROVE  Apply("wasm", op, a, b, input) = Apply("host", op, a, b, input)
<1>1. CASE op = "EQ"
  BY <1>1 DEF Apply, Orders, Logic, Membership
<1>2. CASE op = "NE"
  BY <1>2 DEF Apply, Orders, Logic, Membership
<1>3. CASE op \in Orders
  BY <1>3 DEF Apply, Orders, Logic, Membership
<1>4. CASE op \in Logic
  BY <1>4 DEF Apply, Orders, Logic, Membership
<1> QED BY <1>1, <1>2, <1>3, <1>4 DEF Equalities

(* Both look for a value among plain strings in the same way.               *)
LEMMA SearchAlike ==
  ASSUME NEW a, NEW b, Is(b, "arr"), Searchable(b)
  PROVE  /\ ~Blocked("wasm", a, b) /\ ~Blocked("host", a, b)
         /\ HasMember("wasm", a, b) <=> HasMember("host", a, b)
<1>1. ASSUME NEW e \in [str : STRING \ Rewritten]
      PROVE  (WasmIn(a, e) <=> HostIn(a, e)) /\ ~IsEscaped(e)
  <2>1. /\ Is(e, "str") /\ ~Is(e, "null") /\ ~Is(e, "obj") /\ ~Is(e, "float") /\ ~Is(e, "int")
        /\ ~Is(e, "bool") /\ e.str \notin Rewritten
    BY DEF Is
  <2>2. WasmValue(e) = e /\ HostValue(e) = e
    BY <2>1 DEF WasmValue, HostValue, Rewritten
  <2>3. Equal(a, e) => Is(a, "str")
    BY <2>1 DEF Equal, IsNumber
  <2>4. ~IsEscaped(e)
    BY <2>1 DEF IsEscaped, Rewritten
  <2> QED BY <2>1, <2>2, <2>3, <2>4 DEF WasmIn, HostIn
<1>2. \A i \in DOMAIN b.arr : b.arr[i] \in [str : STRING \ Rewritten]
  BY DEF Searchable
<1>3. \A i \in DOMAIN b.arr : Holds("wasm", a, b.arr[i]) <=> Holds("host", a, b.arr[i])
  BY <1>1, <1>2 DEF Holds
<1>4. ~Blocked("wasm", a, b) /\ ~Blocked("host", a, b)
  BY <1>1, <1>2 DEF Blocked
<1> QED BY <1>3, <1>4 DEF HasMember

PlainFor(input) == IsCaller(input.caller) /\ Plain(input.caller) /\ Plain(input.record)

(* The lists of a caller are lists of plain strings.                        *)
LEMMA GroupsSearchable ==
  ASSUME NEW input, PlainFor(input), NEW k \in {"groups", "roles"}
  PROVE  /\ Is(Field(input.caller, k), "arr") /\ Searchable(Field(input.caller, k))
         /\ Searchable(HostValue(Field(input.caller, k)))
<1> DEFINE f == Field(input.caller, k)
<1>1. Is(f, "arr") /\ \A i \in DOMAIN f.arr : f.arr[i] \in [str : STRING]
  BY DEF PlainFor, IsCaller
<1>2. \A i \in DOMAIN f.arr : PlainScalar(f.arr[i])
  BY <1>1, PlainField DEF PlainFor
<1> HIDE DEF f
<1>3. ASSUME NEW i \in DOMAIN f.arr PROVE f.arr[i] \in [str : STRING \ Rewritten]
  <2>1. f.arr[i] \in [str : STRING]
    BY <1>1
  <2>2. f.arr[i].str \notin Rewritten
    BY <1>2, <2>1 DEF PlainScalar, Is
  <2> QED BY <2>1, <2>2
<1>4. Searchable(f)
  BY <1>3 DEF Searchable
<1>5. Searchable(Null)
  BY NullFacts DEF Searchable
<1>6. Searchable(HostValue(f))
  BY <1>4, <1>5 DEF HostValue
<1> QED BY <1>1, <1>4, <1>6 DEF f

(* The calls find in a plain value what it holds.                           *)
LEMMA SoughtFacts ==
  ASSUME NEW v, Plain(v), NEW k
  PROVE  Sought("wasm", v, k) = Field(v, k) /\ Sought("host", v, k) = Field(v, k)
<1>1. PlainKeys(v) /\ \A i \in Places(v) : PlainScalar(Entries(v)[i].value)
  BY PlainFacts, WithinFacts
<1>2. Scannable(Entries(v), k)
  BY <1>1, CleanIsScannable
<1> QED BY <1>2 DEF Sought

LEMMA ApplyIsMeaning ==
  ASSUME NEW op \in Binaries, NEW a, a # Fault, NEW b, b # Fault, NEW input, PlainFor(input),
         op \in Membership => Searchable(b)
  PROVE  Apply("wasm", op, a, b, input) = Combined(op, a, b, input)
<1>1. CASE op = "CALL_HAS_ROLE"
  <2> DEFINE roles == Field(input.caller, "roles")
  <2>1. Sought("wasm", input.caller, "roles") = roles /\ Sought("host", input.caller, "roles") = roles
    BY SoughtFacts DEF PlainFor
  <2>2. Is(roles, "arr") /\ Searchable(roles)
    BY GroupsSearchable
  <2> HIDE DEF roles
  <2>3. Search("wasm", b, roles) = Search("host", b, roles)
    <3> DEFINE x == HasMember("wasm", b, roles)
               y == HasMember("host", b, roles)
    <3>1. ~Blocked("wasm", b, roles) /\ ~Blocked("host", b, roles) /\ x = y
      BY <2>2, SearchAlike DEF HasMember
    <3>2. Search("wasm", b, roles) = Bool(x) /\ Search("host", b, roles) = Bool(y)
      BY <3>1 DEF Search
    <3> HIDE DEF x, y
    <3> QED BY <3>1, <3>2
  <2>4. Apply("wasm", op, a, b, input) =
          IF ~Is(b, "str") \/ NoSubject(a) THEN Fault ELSE Search("wasm", b, roles)
    <3>1. Apply("wasm", op, a, b, input) = HasRole("wasm", a, b, input)
      BY <1>1 DEF Apply, Orders, Logic, Membership
    <3> QED BY <2>1, <2>2, <3>1 DEF HasRole
  <2>5. Apply("host", op, a, b, input) = IF ~Is(b, "str") THEN Fault ELSE Search("host", b, roles)
    <3>1. Apply("host", op, a, b, input) = HasRole("host", a, b, input)
      BY <1>1 DEF Apply, Orders, Logic, Membership
    <3> QED BY <2>1, <2>2, <3>1 DEF HasRole
  <2>6. Combined(op, a, b, input) = IF NoSubject(a) THEN Fault ELSE Apply("host", op, a, b, input)
    BY <1>1 DEF Combined
  <2> QED BY <2>3, <2>4, <2>5, <2>6
<1>2. CASE op \in Membership
  <2> DEFINE x == HasMember("wasm", a, b) <=> (op = "IN")
             y == HasMember("host", a, b) <=> (op = "IN")
  <2>1. Apply("wasm", op, a, b, input) =
          IF ~Is(b, "arr") \/ Blocked("wasm", a, b) THEN Fault ELSE Bool(x)
    BY <1>2 DEF Apply, Orders, Logic, Membership
  <2>2. Apply("host", op, a, b, input) =
          IF ~Is(b, "arr") \/ Blocked("host", a, b) THEN Fault ELSE Bool(y)
    BY <1>2 DEF Apply, Orders, Logic, Membership
  <2>3. Is(b, "arr") => x = y /\ ~Blocked("wasm", a, b) /\ ~Blocked("host", a, b)
    BY <1>2, SearchAlike
  <2>4. Combined(op, a, b, input) = Apply("host", op, a, b, input)
    BY <1>2 DEF Combined, Membership
  <2> HIDE DEF x, y
  <2> QED BY <2>1, <2>2, <2>3, <2>4
<1>3. CASE op = "CALL_TENANT_MATCH"
  <2>1. TenantMatch("wasm", input) = TenantMatch("host", input)
    <3>1. /\ Sought("wasm", input.caller, "tenant") = Sought("host", input.caller, "tenant")
          /\ Sought("wasm", input.record, "tenant") = Sought("host", input.record, "tenant")
      BY SoughtFacts DEF PlainFor
    <3> QED BY <3>1 DEF TenantMatch
  <2>2. Apply("wasm", op, a, b, input) = TenantMatch("wasm", input)
    BY <1>3 DEF Apply, Orders, Logic, Membership
  <2>3. Apply("host", op, a, b, input) = TenantMatch("host", input)
    BY <1>3 DEF Apply, Orders, Logic, Membership
  <2>4. Combined(op, a, b, input) = Apply("host", op, a, b, input)
    BY <1>3 DEF Combined
  <2> QED BY <2>1, <2>2, <2>3, <2>4
<1>4. CASE op \in Equalities \cup Orders \cup Logic
  <2>1. op # "CALL_HAS_ROLE"
    BY <1>4 DEF Equalities, Orders, Logic
  <2> QED BY <1>4, <2>1, ApplyAlike DEF Combined
<1> QED BY <1>1, <1>2, <1>3, <1>4 DEF Binaries, Calls

LEMMA BinaryBoth ==
  ASSUME NEW c, IsSeq(c), NEW from \in Nat, from > 0, NEW empty, NEW input, PlainFor(input), NEW H, NEW W,
         H = Trace("host", c, from, empty), W = Trace("wasm", c, from, input),
         H[Len(c) + 1] # Fault, NEW ip \in Nat, ip <= Len(c), NEW op \in Binaries, c[ip] = Cell(op, 0),
         NEW s, NEW t, IsSeq(s), IsSeq(t), Len(s) = Len(t),
         NEW h1, NEW h2, NEW v1, NEW v2, v1 # Fault, v2 # Fault, Matches(h1, v1), Matches(h2, v2),
         Reaches(H, from, ip, Append(Append(s, h1), h2)), Reaches(W, from, ip, Append(Append(t, v1), v2))
  PROVE  Couples(H, W, from, Len(c) + 1, ip + 1, s, t, Combined(op, v1, v2, input))
<1> DEFINE h == Apply("host", op, h1, h2, empty)
           v == Apply("wasm", op, v1, v2, input)
           hs == Append(Append(s, h1), h2)
           ws == Append(Append(t, v1), v2)
<1>1. Step("host", c, At(ip, hs), empty) = Pushed(ip + 1, s, h)
  BY StepBinary
<1>2. Step("wasm", c, At(ip, ws), input) = Pushed(ip + 1, t, v)
  BY StepBinary
<1>3. h # Fault
  <2> SUFFICES ASSUME h = Fault PROVE FALSE
    OBVIOUS
  <2> HIDE DEF h, hs
  <2>1. Lands(H, from, Len(c) + 1, ip + 1, s, h)
    BY <1>1, PushNext DEF hs
  <2> QED BY <2>1 DEF Lands
<1>4. op \in Membership => Searchable(v2)
  <2> SUFFICES ASSUME op \in Membership PROVE Searchable(v2)
    OBVIOUS
  <2> DEFINE x == HasMember("host", h1, h2) <=> (op = "IN")
  <2>1. h = IF ~Is(h2, "arr") \/ Blocked("host", h1, h2) THEN Fault ELSE Bool(x)
    BY DEF Apply, Orders, Logic, Membership
  <2> HIDE DEF h, x
  <2>2. Is(h2, "arr")
    BY <1>3, <2>1
  <2> QED BY <2>2 DEF Matches
<1>5. v = Combined(op, v1, v2, input)
  BY <1>4, ApplyIsMeaning
<1>6. Matches(h, v)
  BY ApplyKind DEF Matches
<1> HIDE DEF h, v, hs, ws
<1>7. Couples(H, W, from, Len(c) + 1, ip + 1, s, t, v)
  BY <1>1, <1>2, <1>6, PushBoth DEF hs, ws
<1> QED BY <1>5, <1>7

-----------------------------------------------------------------------------
(* A predicate: wherever its code stands, if the host comes through it, the *)
(* bundle comes to what it means.                                           *)

(* What the code of node k does from any offset and on any two stacks of    *)
(* the same height.                                                         *)
NodeCouples(c, from, H, W, p, input, k) ==
    \A o \in Nat : \A s, t :
        /\ Embedded(c, o, Lowered(p)[k])
        /\ IsSeq(s) /\ IsSeq(t) /\ Len(s) = Len(t)
        /\ Reaches(H, from, o + 1, s) /\ Reaches(W, from, o + 1, t)
        => Couples(H, W, from, Len(c) + 1, o + Len(Lowered(p)[k]) + 1, s, t, Meanings(p, input)[k])

LEMMA LiteralFacts ==
  ASSUME NEW v \in Literals
  PROVE  v # Fault /\ ~Is(v, "arr")
<1>1. \/ v = Null \/ v \in [bool : BOOLEAN] \/ v \in [int : Int] \/ v \in [float : Int] \/ v \in [str : STRING]
  BY DEF Literals
<1>2. ~Is(v, "fault") /\ ~Is(v, "arr")
  BY <1>1, NullFacts DEF Is
<1>3. Is(Fault, "fault")
  BY DEF Fault, Is
<1> QED BY <1>2, <1>3

LEMMA LiteralBoth ==
  ASSUME NEW c, IsSeq(c), NEW from \in Nat, from > 0, NEW empty, NEW input, NEW H, NEW W,
         H = Trace("host", c, from, empty), W = Trace("wasm", c, from, input),
         H[Len(c) + 1] # Fault, NEW ip \in Nat, ip <= Len(c), NEW v \in Literals, c[ip] = Cell("LIT", v),
         NEW s, NEW t, IsSeq(s), IsSeq(t), Len(s) = Len(t),
         Reaches(H, from, ip, s), Reaches(W, from, ip, t)
  PROVE  Couples(H, W, from, Len(c) + 1, ip + 1, s, t, v)
<1>1. Step("host", c, At(ip, s), empty) = Pushed(ip + 1, s, v)
  BY StepLit
<1>2. Step("wasm", c, At(ip, t), input) = Pushed(ip + 1, t, v)
  BY StepLit
<1>3. Matches(v, v)
  BY LiteralFacts DEF Matches
<1> QED BY <1>1, <1>2, <1>3, PushBoth

LEMMA LiteralCouples ==
  ASSUME NEW p \in Exprs, NEW k \in 1 .. Len(p), p[k].e = "lit",
         NEW c, IsSeq(c), NEW from \in Nat, from > 0, NEW empty, NEW input, NEW H, NEW W,
         H = Trace("host", c, from, empty), W = Trace("wasm", c, from, input), H[Len(c) + 1] # Fault
  PROVE  NodeCouples(c, from, H, W, p, input, k)
<1> DEFINE v == p[k].v
           cell == Cell("LIT", v)
<1>1. v \in Literals
  <2>1. p[k] \in Nodes
    BY ExprFacts
  <2> QED BY <2>1 DEF Nodes, Other
<1>2. Lowered(p)[k] = <<cell>> /\ Meanings(p, input)[k] = v
  <2>1. LowerNode(Lowered(p), p[k]) = <<cell>> /\ NodeMeaning(Meanings(p, input), p[k], input) = v
    BY DEF LowerNode, NodeMeaning
  <2> QED BY <2>1, LoweredFacts, MeaningsFacts
<1> HIDE DEF v
<1> SUFFICES ASSUME NEW o \in Nat, NEW s, NEW t, Embedded(c, o, <<cell>>),
                    IsSeq(s), IsSeq(t), Len(s) = Len(t),
                    Reaches(H, from, o + 1, s), Reaches(W, from, o + 1, t)
             PROVE  Couples(H, W, from, Len(c) + 1, o + 1 + 1, s, t, v)
  <2>1. Len(<<cell>>) = 1
    BY OneCell
  <2> HIDE DEF cell
  <2> QED BY <1>2, <2>1 DEF NodeCouples
<1>3. o + 1 \in Nat /\ o + 1 <= Len(c) /\ c[o + 1] = cell
  <2> HIDE DEF cell
  <2>1. Len(<<cell>>) = 1 /\ <<cell>>[1] = cell
    BY OneCell
  <2> QED BY <2>1 DEF Embedded
<1>4. PICK ip \in Nat : ip = o + 1 /\ ip <= Len(c) /\ c[ip] = cell
  BY <1>3
<1> QED BY <1>1, <1>4, LiteralBoth

LEMMA PathBoth ==
  ASSUME NEW c, IsSeq(c), NEW from \in Nat, from > 0, NEW a, NEW input, PlainFor(input), NEW H, NEW W,
         H = Trace("host", c, from, EmptyInput(a)), W = Trace("wasm", c, from, input),
         H[Len(c) + 1] \notin {Fault, Stray}, NEW ip \in Nat,
         NEW r \in {"LOAD_CALLER", "LOAD_SELF"}, NEW segs \in Seq(STRING),
         ip + Len(segs) <= Len(c), PathAt(c, ip, r, segs),
         NEW s, NEW t, IsSeq(s), IsSeq(t), Len(s) = Len(t),
         Reaches(H, from, ip, s), Reaches(W, from, ip, t)
  PROVE  Couples(H, W, from, Len(c) + 1, ip + 1 + Len(segs), s, t, Reach(RootOf(r, input), segs))
<1> DEFINE root == RootOf(r, input)
<1> PICK v : v = Reach(root, segs)
  OBVIOUS
<1>1. /\ Len(segs) <= 2 /\ Len(s) < MaxStack
      /\ \E h : /\ Reaches(H, from, ip + 1 + Len(segs), Append(s, h))
                /\ Is(h, "arr") => r = "LOAD_CALLER" /\ Len(segs) = 1 /\ segs[1] \in {"groups", "roles"}
  BY HostPath
<1>2. PICK h : /\ Reaches(H, from, ip + 1 + Len(segs), Append(s, h))
               /\ Is(h, "arr") => r = "LOAD_CALLER" /\ Len(segs) = 1 /\ segs[1] \in {"groups", "roles"}
  BY <1>1
<1>3. Plain(root)
  BY DEF RootOf, PlainFor
<1>4. PlainScalar(v) /\ GoesOn(W, from, Len(c) + 1, ip + 1 + Len(segs), t, v)
  <2>1. Len(t) < MaxStack /\ Len(segs) <= 2
    BY <1>1
  <2> QED BY <1>3, <2>1, WasmPath
<1>5. Is(h, "arr") => Searchable(v)
  <2> SUFFICES ASSUME r = "LOAD_CALLER", Len(segs) = 1, segs[1] \in {"groups", "roles"}
               PROVE  Searchable(v)
    BY <1>2
  <2>3. /\ Along(root, segs)[0] = root
        /\ \A k \in 1 .. Len(segs) : Along(root, segs)[k] = Field(Along(root, segs)[k - 1], segs[k])
    BY AlongFacts
  <2>1. Along(root, segs)[0] = root /\ Along(root, segs)[1] = Field(Along(root, segs)[0], segs[1])
    BY <2>3
  <2>2. v = HostValue(Field(input.caller, segs[1]))
    BY <2>1 DEF Reach, RootOf
  <2> QED BY <2>2, GroupsSearchable
<1>6. Matches(h, v)
  BY <1>5 DEF Matches
<1>7. Couples(H, W, from, Len(c) + 1, ip + 1 + Len(segs), s, t, v)
  BY <1>2, <1>4, <1>6 DEF Couples, GoesOn
<1> QED BY <1>7

LEMMA PathCouples ==
  ASSUME NEW p \in Exprs, NEW k \in 1 .. Len(p), p[k].e = "path",
         NEW c, IsSeq(c), NEW from \in Nat, from > 0, NEW a, NEW input, PlainFor(input), NEW H, NEW W,
         H = Trace("host", c, from, EmptyInput(a)), W = Trace("wasm", c, from, input),
         H[Len(c) + 1] \notin {Fault, Stray}
  PROVE  NodeCouples(c, from, H, W, p, input, k)
<1> DEFINE r == p[k].root
           segs == p[k].segs
           code == LowerPath(p[k])
           v == Reach(RootOf(r, input), segs)
<1>1. r \in {"LOAD_CALLER", "LOAD_SELF"} /\ segs \in Seq(STRING) /\ p[k] = PathOf(r, segs)
  <2>1. p[k] \in Nodes
    BY ExprFacts
  <2>2. r \in {"LOAD_CALLER", "LOAD_SELF"} /\ segs \in Seq(Names) /\ p[k] = PathOf(r, segs)
    BY <2>1 DEF Nodes, Other, PathOf
  <2> QED BY <2>2, NamesAreStrings
<1>2. Lowered(p)[k] = code /\ Meanings(p, input)[k] = v
  <2>1. LowerNode(Lowered(p), p[k]) = code /\ NodeMeaning(Meanings(p, input), p[k], input) = v
    BY DEF LowerNode, NodeMeaning
  <2> QED BY <2>1, LoweredFacts, MeaningsFacts
<1>3. /\ IsSeq(code) /\ Len(code) = Len(segs) + 1 /\ code[1] = Cell(r, Len(segs))
      /\ \A i \in 1 .. Len(segs) : code[i + 1] = Cell("seg", segs[i])
  BY <1>1, PathCode
<1> HIDE DEF r, segs, code, v
<1> SUFFICES ASSUME NEW o \in Nat, NEW s, NEW t, Embedded(c, o, code),
                    IsSeq(s), IsSeq(t), Len(s) = Len(t),
                    Reaches(H, from, o + 1, s), Reaches(W, from, o + 1, t)
             PROVE  Couples(H, W, from, Len(c) + 1, o + Len(code) + 1, s, t, v)
  BY <1>2 DEF NodeCouples
<1>4. Len(segs) \in Nat /\ Len(c) \in Nat
  BY <1>1, SeqType
<1>5. PICK ip \in Nat : ip = o + 1
  OBVIOUS
<1>6. ip + Len(segs) <= Len(c)
  BY <1>3, <1>4, <1>5 DEF Embedded
<1>7. \A i \in 1 .. Len(code) : c[o + i] = code[i]
  BY DEF Embedded
<1>8. PathAt(c, ip, r, segs)
  <2>1. c[ip] = Cell(r, Len(segs))
    BY <1>3, <1>4, <1>5, <1>7
  <2>2. ASSUME NEW i \in 1 .. Len(segs) PROVE c[ip + i] = Cell("seg", segs[i])
    <3>1. i + 1 \in 1 .. (Len(segs) + 1) /\ o + (i + 1) = ip + i
      BY <1>4, <1>5
    <3> QED BY <1>3, <1>7, <3>1
  <2> QED BY <2>1, <2>2 DEF PathAt
<1>9. Couples(H, W, from, Len(c) + 1, ip + 1 + Len(segs), s, t, v)
  BY <1>1, <1>5, <1>6, <1>8, PathBoth DEF v
<1>10. ip + 1 + Len(segs) = o + Len(code) + 1
  BY <1>3, <1>4, <1>5
<1> QED BY <1>9, <1>10

LEMMA NotCouples ==
  ASSUME NEW p \in Exprs, Lowerable(p), NEW k \in 1 .. Len(p), p[k].e = "not",
         NEW c, IsSeq(c), NEW from \in Nat, from > 0, NEW empty, NEW input, NEW H, NEW W,
         H = Trace("host", c, from, empty), W = Trace("wasm", c, from, input), H[Len(c) + 1] # Fault,
         \A j \in 1 .. (k - 1) : NodeCouples(c, from, H, W, p, input, j)
  PROVE  NodeCouples(c, from, H, W, p, input, k)
<1> DEFINE x == p[k].x
           inner == Lowered(p)[x]
           cell == Cell("NOT", 0)
           u == Meanings(p, input)[x]
           v == IF Is(u, "bool") THEN Bool(~u.bool) ELSE Fault
<1>1. x \in 1 .. (k - 1) /\ x \in 1 .. Len(p) /\ k \in Nat
  <2>1. PartsOf(p[k]) \subseteq 1 .. (k - 1) /\ Len(p) \in Nat
    BY ExprFacts
  <2> QED BY <2>1 DEF PartsOf
<1>2. Lowered(p)[k] = Append(inner, cell) /\ Meanings(p, input)[k] = v
  <2>1. LowerNode(Lowered(p), p[k]) = Append(inner, cell)
    BY DEF LowerNode
  <2>2. NodeMeaning(Meanings(p, input), p[k], input) = v
    BY DEF NodeMeaning
  <2> QED BY <2>1, <2>2, LoweredFacts, MeaningsFacts
<1>3. IsSeq(inner)
  BY <1>1, LoweredType
<1>4. NodeCouples(c, from, H, W, p, input, x)
  BY <1>1
<1>5. Append(inner, cell) = inner \o <<cell>> /\ IsSeq(<<cell>>) /\ Len(<<cell>>) = 1 /\ <<cell>>[1] = cell
  <2> HIDE DEF inner, cell
  <2>1. Append(inner, cell) = inner \o <<cell>>
    BY <1>3, AppendIsConcat
  <2>2. IsSeq(<<cell>>) /\ Len(<<cell>>) = 1 /\ <<cell>>[1] = cell
    BY OneCell
  <2> QED BY <2>1, <2>2
<1> HIDE DEF x, inner, v
<1> SUFFICES ASSUME NEW o \in Nat, NEW s, NEW t, Embedded(c, o, Append(inner, cell)),
                    IsSeq(s), IsSeq(t), Len(s) = Len(t),
                    Reaches(H, from, o + 1, s), Reaches(W, from, o + 1, t)
             PROVE  Couples(H, W, from, Len(c) + 1, o + Len(Append(inner, cell)) + 1, s, t, v)
  BY <1>2 DEF NodeCouples
<1>6. Embedded(c, o, inner) /\ Embedded(c, o + Len(inner), <<cell>>)
  <2>1. Embedded(c, o, inner \o <<cell>>)
    BY <1>5
  <2> HIDE DEF cell
  <2> QED BY <1>3, <1>5, <2>1, EmbeddedConcat
<1>7. PICK ip \in Nat : ip = o + Len(inner) + 1 /\ ip <= Len(c) /\ c[ip] = cell
  <2>1. Len(inner) \in Nat /\ Len(c) \in Nat
    BY <1>3, SeqType
  <2> HIDE DEF cell
  <2> QED BY <1>5, <1>6, <2>1 DEF Embedded
<1>8. Couples(H, W, from, Len(c) + 1, ip, s, t, u)
  <2>1. Couples(H, W, from, Len(c) + 1, o + Len(inner) + 1, s, t, u)
    BY <1>4, <1>6 DEF NodeCouples, inner, u
  <2> HIDE DEF u
  <2> QED BY <1>7, <2>1
<1>9. o + Len(Append(inner, cell)) + 1 = ip + 1
  <2>1. Len(Append(inner, cell)) = Len(inner) + 1 /\ Len(inner) \in Nat
    BY <1>3, AppendFacts, SeqType
  <2> QED BY <1>7, <2>1
<1> HIDE DEF u
<1>10. CASE u = Fault
  <2>1. W[Len(c) + 1] = Fault
    BY <1>8, <1>10 DEF Couples
  <2>2. v = Fault
    BY <1>10 DEF v, Is, Fault
  <2> QED BY <2>1, <2>2 DEF Couples
<1>11. CASE u # Fault
  <2>1. PICK h : Reaches(H, from, ip, Append(s, h)) /\ Reaches(W, from, ip, Append(t, u)) /\ Matches(h, u)
    BY <1>8, <1>11 DEF Couples
  <2>2. Couples(H, W, from, Len(c) + 1, ip + 1, s, t, v)
    BY <1>7, <2>1, NotBoth DEF v
  <2> QED BY <1>9, <2>2
<1> QED BY <1>10, <1>11

LEMMA BinaryCouples ==
  ASSUME NEW p \in Exprs, Lowerable(p), NEW k \in 1 .. Len(p), p[k].e = "bin",
         NEW c, IsSeq(c), NEW from \in Nat, from > 0, NEW empty, NEW input, PlainFor(input), NEW H, NEW W,
         H = Trace("host", c, from, empty), W = Trace("wasm", c, from, input), H[Len(c) + 1] # Fault,
         \A j \in 1 .. (k - 1) : NodeCouples(c, from, H, W, p, input, j)
  PROVE  NodeCouples(c, from, H, W, p, input, k)
<1> DEFINE op == p[k].op
           l == p[k].l
           r == p[k].r
           first == Lowered(p)[l]
           second == Lowered(p)[r]
           cell == Cell(op, 0)
           a == Meanings(p, input)[l]
           b == Meanings(p, input)[r]
           v == Combined(op, a, b, input)
           code == (first \o second) \o <<cell>>
<1>1. /\ l \in 1 .. (k - 1) /\ l \in 1 .. Len(p) /\ r \in 1 .. (k - 1) /\ r \in 1 .. Len(p)
      /\ op \in Binaries
  <2>1. PartsOf(p[k]) \subseteq 1 .. (k - 1) /\ Len(p) \in Nat /\ p[k] \in Nodes
    BY ExprFacts
  <2>2. op \in Binaries
    BY <2>1 DEF Nodes, Other
  <2> QED BY <2>1, <2>2 DEF PartsOf
<1>2. Lowered(p)[k] = code /\ Meanings(p, input)[k] = v
  <2>1. LowerNode(Lowered(p), p[k]) = code
    BY DEF LowerNode, LowerBinary
  <2>2. NodeMeaning(Meanings(p, input), p[k], input) = v
    BY DEF NodeMeaning
  <2> QED BY <2>1, <2>2, LoweredFacts, MeaningsFacts
<1>3. IsSeq(first) /\ IsSeq(second)
  BY <1>1, LoweredType
<1>4. NodeCouples(c, from, H, W, p, input, l) /\ NodeCouples(c, from, H, W, p, input, r)
  BY <1>1
<1>5. IsSeq(<<cell>>) /\ Len(<<cell>>) = 1 /\ <<cell>>[1] = cell
  BY OneCell
<1>6. IsSeq(first \o second) /\ Len(first \o second) = Len(first) + Len(second)
  BY <1>3, ConcatFacts
<1>7. Len(code) = Len(first) + Len(second) + 1 /\ Len(first) \in Nat /\ Len(second) \in Nat
      /\ Len(c) \in Nat
  <2> HIDE DEF cell, first, second
  <2>1. Len(code) = Len(first \o second) + Len(<<cell>>)
    BY <1>5, <1>6, ConcatFacts
  <2> QED BY <1>3, <1>5, <1>6, <2>1, SeqType
<1> HIDE DEF op, l, r, first, second, a, b, v, cell, code
<1> SUFFICES ASSUME NEW o \in Nat, NEW s, NEW t, Embedded(c, o, code),
                    IsSeq(s), IsSeq(t), Len(s) = Len(t),
                    Reaches(H, from, o + 1, s), Reaches(W, from, o + 1, t)
             PROVE  Couples(H, W, from, Len(c) + 1, o + Len(code) + 1, s, t, v)
  BY <1>2 DEF NodeCouples
<1>8. Embedded(c, o, first) /\ Embedded(c, o + Len(first), second)
      /\ Embedded(c, o + Len(first) + Len(second), <<cell>>)
  <2>1. Embedded(c, o, (first \o second) \o <<cell>>)
    BY DEF code
  <2>2. Embedded(c, o, first \o second) /\ Embedded(c, o + Len(first \o second), <<cell>>)
    BY <1>5, <1>6, <2>1, EmbeddedConcat
  <2>3. Embedded(c, o, first) /\ Embedded(c, o + Len(first), second)
    BY <1>3, <2>2, EmbeddedConcat
  <2>4. o + Len(first \o second) = o + Len(first) + Len(second)
    BY <1>6, <1>7
  <2> QED BY <2>2, <2>3, <2>4
<1>9. PICK o2 \in Nat : o2 = o + Len(first)
  BY <1>7
<1>10. PICK ip \in Nat : ip = o2 + Len(second) + 1 /\ ip <= Len(c) /\ c[ip] = cell
  <2>1. c[o + Len(first) + Len(second) + 1] = cell /\ o + Len(first) + Len(second) + 1 <= Len(c)
    BY <1>5, <1>8 DEF Embedded
  <2> QED BY <1>7, <1>9, <2>1
<1>11. o + Len(code) + 1 = ip + 1
  BY <1>7, <1>9, <1>10
<1>12. Couples(H, W, from, Len(c) + 1, o2 + 1, s, t, a)
  <2>1. Couples(H, W, from, Len(c) + 1, o + Len(first) + 1, s, t, a)
    BY <1>4, <1>8 DEF NodeCouples, first, a
  <2> QED BY <1>9, <2>1
<1>13. CASE a = Fault
  <2>1. W[Len(c) + 1] = Fault
    BY <1>12, <1>13 DEF Couples
  <2>2. v = Fault
    BY <1>13 DEF v, Combined
  <2> QED BY <2>1, <2>2 DEF Couples
<1>14. CASE a # Fault
  <2>1. PICK h1 : /\ Reaches(H, from, o2 + 1, Append(s, h1)) /\ Reaches(W, from, o2 + 1, Append(t, a))
                  /\ Matches(h1, a)
    BY <1>12, <1>14 DEF Couples
  <2>2. IsSeq(Append(s, h1)) /\ IsSeq(Append(t, a)) /\ Len(Append(s, h1)) = Len(Append(t, a))
    <3>1. Len(Append(s, h1)) = Len(s) + 1 /\ Len(Append(t, a)) = Len(t) + 1
      BY AppendFacts
    <3> QED BY <3>1, AppendFacts
  <2>3. Couples(H, W, from, Len(c) + 1, ip, Append(s, h1), Append(t, a), b)
    <3>1. Embedded(c, o2, second)
      BY <1>8, <1>9
    <3>2. Couples(H, W, from, Len(c) + 1, o2 + Len(second) + 1, Append(s, h1), Append(t, a), b)
      BY <1>4, <2>1, <2>2, <3>1 DEF NodeCouples, second, b
    <3> QED BY <1>10, <3>2
  <2>4. CASE b = Fault
    <3>1. W[Len(c) + 1] = Fault
      BY <2>3, <2>4 DEF Couples
    <3>2. v = Fault
      BY <2>4 DEF v, Combined
    <3> QED BY <3>1, <3>2 DEF Couples
  <2>5. CASE b # Fault
    <3>1. PICK h2 : /\ Reaches(H, from, ip, Append(Append(s, h1), h2))
                    /\ Reaches(W, from, ip, Append(Append(t, a), b))
                    /\ Matches(h2, b)
      BY <2>3, <2>5 DEF Couples
    <3>2. c[ip] = Cell(op, 0)
      BY <1>10 DEF cell
    <3>3. Couples(H, W, from, Len(c) + 1, ip + 1, s, t, v)
      BY <1>1, <1>10, <1>14, <2>1, <2>5, <3>1, <3>2, BinaryBoth DEF v
    <3> QED BY <1>11, <3>3
  <2> QED BY <2>4, <2>5
<1> QED BY <1>13, <1>14

LEMMA PredicateCouples ==
  ASSUME NEW p \in Exprs, Lowerable(p),
         NEW c, IsSeq(c), NEW from \in Nat, from > 0, NEW a, NEW input, PlainFor(input), NEW H, NEW W,
         H = Trace("host", c, from, EmptyInput(a)), W = Trace("wasm", c, from, input),
         H[Len(c) + 1] \notin {Fault, Stray}
  PROVE  \A k \in 1 .. Len(p) : NodeCouples(c, from, H, W, p, input, k)
<1> DEFINE S == {k \in 1 .. Len(p) : NodeCouples(c, from, H, W, p, input, k)}
<1>1. Len(p) \in Nat /\ DOMAIN p = 1 .. Len(p)
  BY ExprFacts
<1>2. ASSUME NEW k \in 1 .. Len(p), \A j \in 1 .. (k - 1) : j \in S PROVE k \in S
  <2>1. \A j \in 1 .. (k - 1) : NodeCouples(c, from, H, W, p, input, j)
    BY <1>2
  <2>2. p[k] \in Nodes /\ p[k].e # "other"
    BY <1>1, ExprFacts DEF Lowerable
  <2>3. p[k].e \in {"lit", "path", "not", "bin"}
    BY <2>2 DEF Nodes, Other
  <2>4. NodeCouples(c, from, H, W, p, input, k)
    <3>1. CASE p[k].e = "lit"
      BY <3>1, LiteralCouples
    <3>2. CASE p[k].e = "path"
      BY <3>2, PathCouples
    <3>3. CASE p[k].e = "not"
      BY <2>1, <3>3, NotCouples
    <3>4. CASE p[k].e = "bin"
      BY <2>1, <3>4, BinaryCouples
    <3> QED BY <2>3, <3>1, <3>2, <3>3, <3>4
  <2> QED BY <2>4
<1>3. S \in SUBSET (1 .. Len(p))
  OBVIOUS
<1> HIDE DEF S
<1>4. S = 1 .. Len(p)
  BY <1>1, <1>2, <1>3, ByPosition
<1> QED BY <1>4 DEF S

-----------------------------------------------------------------------------
(* Blocks.                                                                  *)

IsBlock(b) == b \in Seq([actions : SUBSET Actions, predicate : Exprs])

LEMMA EmbeddedBefore ==
  ASSUME NEW s, IsSeq(s), NEW t, IsSeq(t), NEW o \in Nat, NEW d, IsSeq(d), Embedded(s, o, d)
  PROVE  Embedded(s \o t, o, d)
<1>1. /\ Len(s) \in Nat /\ Len(t) \in Nat /\ Len(d) \in Nat /\ Len(s \o t) = Len(s) + Len(t)
      /\ \A i \in 1 .. Len(s) : (s \o t)[i] = s[i]
  BY SeqType, ConcatFacts
<1>2. o + Len(d) <= Len(s) /\ \A i \in 1 .. Len(d) : s[o + i] = d[i]
  BY DEF Embedded
<1>3. o + Len(d) <= Len(s \o t)
  BY <1>1, <1>2
<1>4. ASSUME NEW i \in 1 .. Len(d) PROVE (s \o t)[o + i] = d[i]
  <2>1. o + i \in 1 .. Len(s)
    BY <1>1, <1>2
  <2> QED BY <1>1, <1>2, <2>1
<1> QED BY <1>3, <1>4 DEF Embedded

LEMMA EmbeddedBehind ==
  ASSUME NEW s, IsSeq(s), NEW t, IsSeq(t)
  PROVE  Embedded(s \o t, Len(s), t)
<1>1. /\ Len(s) \in Nat /\ Len(t) \in Nat /\ Len(s \o t) = Len(s) + Len(t)
      /\ \A i \in 1 .. Len(t) : (s \o t)[Len(s) + i] = t[i]
  BY SeqType, ConcatFacts
<1> QED BY <1>1 DEF Embedded

LEMMA BlockFacts ==
  ASSUME NEW b, IsBlock(b)
  PROVE  /\ Len(b) \in Nat /\ DOMAIN b = 1 .. Len(b)
         /\ \A i \in 1 .. Len(b) : b[i].predicate \in Exprs /\ b[i].actions \in SUBSET Actions
<1> DEFINE Rules == [actions : SUBSET Actions, predicate : Exprs]
<1>1. b \in Seq(Rules)
  BY DEF IsBlock
<1>2. \A r \in Rules : r.predicate \in Exprs /\ r.actions \in SUBSET Actions
  OBVIOUS
<1> HIDE DEF Rules
<1>3. Len(b) \in Nat /\ DOMAIN b = 1 .. Len(b) /\ \A i \in 1 .. Len(b) : b[i] \in Rules
  BY <1>1
<1> QED BY <1>2, <1>3

(* The code of a rule is behind that of the rules before it.                *)
LEMMA RuleEmbedded ==
  ASSUME NEW b, IsBlock(b), \A i \in DOMAIN b : Lowerable(b[i].predicate)
  PROVE  /\ IsSeq(Streams(b)[Len(b)])
         /\ \A i \in 1 .. Len(b) : /\ RuleOffset(b, i) \in Nat
                                   /\ Embedded(Streams(b)[Len(b)], RuleOffset(b, i), RuleCode(b[i]))
<1> DEFINE N == Len(b)
           X == Streams(b)
           Fine(n) == /\ IsSeq(X[n])
                      /\ \A i \in 1 .. n : Len(X[i - 1]) \in Nat /\ Embedded(X[n], Len(X[i - 1]), RuleCode(b[i]))
           S == {n \in 0 .. N : Fine(n)}
<1>1. N \in Nat /\ DOMAIN b = 1 .. N
  BY BlockFacts
<1>2. X[0] = << >> /\ \A n \in 1 .. N : X[n] = X[n - 1] \o RuleCode(b[n])
  BY <1>1, StreamsFacts
<1>3. \A i \in 1 .. N : IsSeq(RuleCode(b[i]))
  <2> SUFFICES ASSUME NEW i \in 1 .. N PROVE IsSeq(RuleCode(b[i]))
    OBVIOUS
  <2>1. PICK p \in Exprs : p = b[i].predicate /\ Lowerable(p)
    BY <1>1, BlockFacts
  <2>2. Len(p) \in 1 .. Len(p)
    BY ExprFacts
  <2>3. IsSeq(Lower(p))
    BY <2>1, <2>2, LoweredType DEF Lower
  <2> QED BY <2>1, <2>3, AppendFacts DEF RuleCode
<1> HIDE DEF X, N
<1>4. Fine(0)
  BY <1>2, EmptyIsSeq
<1>5. ASSUME NEW n \in 1 .. N, n - 1 \in S PROVE n \in S
  <2>1. Fine(n - 1) /\ X[n] = X[n - 1] \o RuleCode(b[n]) /\ IsSeq(RuleCode(b[n])) /\ n \in Nat
    BY <1>1, <1>2, <1>3, <1>5
  <2>2. IsSeq(X[n]) /\ Len(X[n - 1]) \in Nat
    <3>1. IsSeq(X[n - 1])
      BY <2>1
    <3>2. IsSeq(X[n - 1] \o RuleCode(b[n]))
      BY <2>1, <3>1, ConcatFacts
    <3> QED BY <2>1, <3>1, <3>2, SeqType
  <2>3. ASSUME NEW i \in 1 .. n
        PROVE  Len(X[i - 1]) \in Nat /\ Embedded(X[n], Len(X[i - 1]), RuleCode(b[i]))
    <3>1. CASE i = n
      BY <2>1, <2>2, <3>1, EmbeddedBehind
    <3>2. CASE i # n
      <4>1. i \in 1 .. (n - 1) /\ i \in 1 .. N
        BY <1>1, <2>1, <3>2
      <4>2. Len(X[i - 1]) \in Nat /\ Embedded(X[n - 1], Len(X[i - 1]), RuleCode(b[i]))
        BY <2>1, <4>1
      <4>3. IsSeq(RuleCode(b[i])) /\ IsSeq(X[n - 1])
        BY <1>3, <2>1, <4>1
      <4> QED BY <2>1, <4>2, <4>3, EmbeddedBefore
    <3> QED BY <3>1, <3>2
  <2>4. Fine(n) /\ n \in 0 .. N
    BY <1>1, <2>1, <2>2, <2>3
  <2> HIDE DEF Fine
  <2> QED BY <2>4
<1>6. 0 \in S /\ S \in SUBSET (0 .. N)
  BY <1>1, <1>4
<1>7. N \in S
  <2> HIDE DEF S
  <2>1. S = 0 .. N
    BY <1>1, <1>5, <1>6, UpTo
  <2> QED BY <1>1, <2>1
<1> QED BY <1>7 DEF RuleOffset, N, X

LEMMA TraceStarts ==
  ASSUME NEW m, NEW c, IsSeq(c), NEW from \in Nat, NEW input, NEW T, T = Trace(m, c, from, input)
  PROVE  Reaches(T, from, from, << >>)
<1>1. Len(c) \in Nat
  BY SeqType
<1>2. T[0] = At(from, << >>)
  BY <1>1, TraceFacts
<1>3. 0 \in Nat /\ 0 <= from - from
  OBVIOUS
<1> QED BY <1>2, <1>3 DEF Reaches

LEMMA ResultEnds ==
  ASSUME NEW m, NEW c, IsSeq(c), NEW from \in Nat, from > 0, NEW input, NEW T,
         T = Trace(m, c, from, input), NEW ip \in Nat, ip <= Len(c), c[ip] = Cell("RESULT", 0),
         NEW s, IsSeq(s), NEW a, Reaches(T, from, ip, Append(s, a))
  PROVE  T[Len(c) + 1] = IF Is(a, "bool") THEN Done(a.bool) ELSE Fault
<1>1. PICK succ : succ = Step(m, c, At(ip, Append(s, a)), input)
  OBVIOUS
<1>2. succ = IF Is(a, "bool") THEN Done(a.bool) ELSE Fault
  BY <1>1, StepResult
<1>3. ~Is(succ, "ip")
  BY <1>2, StateKinds
<1>4. T[Len(c) + 1] = succ
  BY <1>1, <1>3, StepOn
<1> QED BY <1>2, <1>4

LEMMA CoupledEnds ==
  ASSUME NEW c, IsSeq(c), NEW from \in Nat, from > 0, NEW input, NEW H, NEW W,
         W = Trace("wasm", c, from, input), NEW ip \in Nat, ip <= Len(c), c[ip] = Cell("RESULT", 0),
         NEW s, IsSeq(s), NEW v, Couples(H, W, from, Len(c) + 1, ip, s, s, v)
  PROVE  W[Len(c) + 1] = IF Is(v, "bool") THEN Done(v.bool) ELSE Fault
<1>1. CASE v = Fault
  <2>1. W[Len(c) + 1] = Fault /\ ~Is(v, "bool")
    BY <1>1 DEF Couples, Fault, Is
  <2> QED BY <2>1
<1>2. CASE v # Fault
  <2>1. Reaches(W, from, ip, Append(s, v))
    BY <1>2 DEF Couples
  <2> QED BY <2>1, ResultEnds
<1> QED BY <1>1, <1>2

(* A rule that the host gets through on the empty input says on the bundle  *)
(* what its predicate means.                                                *)
LEMMA RuleIsMeaning ==
  ASSUME NEW b, IsBlock(b), \A i \in DOMAIN b : Lowerable(b[i].predicate), NEW i \in 1 .. Len(b),
         NEW a, NEW input, PlainFor(input),
         Run("host", Streams(b)[Len(b)], RuleOffset(b, i) + 1, EmptyInput(a)) \notin {"error", "stray"},
         NEW v, v = Meaning(b[i].predicate, input)
  PROVE  Run("wasm", Streams(b)[Len(b)], RuleOffset(b, i) + 1, input) =
           IF ~Is(v, "bool") THEN "error" ELSE IF v.bool THEN "allow" ELSE "deny"
<1>1. PICK c : c = Streams(b)[Len(b)] /\ IsSeq(c)
  BY RuleEmbedded
<1>2. PICK o \in Nat : o = RuleOffset(b, i) /\ Embedded(c, o, RuleCode(b[i]))
  BY <1>1, RuleEmbedded
<1>3. PICK p \in Exprs : p = b[i].predicate /\ Lowerable(p)
  BY BlockFacts
<1>4. PICK from \in Nat : from = o + 1 /\ from > 0
  OBVIOUS
<1>5. PICK H : H = Trace("host", c, from, EmptyInput(a))
  OBVIOUS
<1>6. PICK W : W = Trace("wasm", c, from, input)
  OBVIOUS
<1>7. Is(H[Len(c) + 1], "done") /\ H[Len(c) + 1] \notin {Fault, Stray}
  BY <1>1, <1>2, <1>4, <1>5, StateKinds DEF Run
<1>8. PICK d : d = Lower(p) /\ IsSeq(d)
  <2>1. Len(p) \in 1 .. Len(p)
    BY ExprFacts
  <2> QED BY <1>3, <2>1, LoweredType DEF Lower
<1> DEFINE cell == Cell("RESULT", 0)
<1>9. IsSeq(<<cell>>) /\ Len(<<cell>>) = 1 /\ <<cell>>[1] = cell
  BY OneCell
<1>10. RuleCode(b[i]) = d \o <<cell>>
  BY <1>3, <1>8, AppendIsConcat DEF RuleCode
<1> HIDE DEF cell
<1>11. Embedded(c, o, d) /\ Embedded(c, o + Len(d), <<cell>>)
  BY <1>1, <1>2, <1>8, <1>9, <1>10, EmbeddedConcat
<1>12. PICK ip \in Nat : ip = o + Len(d) + 1 /\ ip <= Len(c) /\ c[ip] = cell
  <2>1. Len(d) \in Nat /\ Len(c) \in Nat
    BY <1>1, <1>8, SeqType
  <2> QED BY <1>9, <1>11, <2>1 DEF Embedded
<1>13. Reaches(H, from, o + 1, << >>) /\ Reaches(W, from, o + 1, << >>)
  BY <1>1, <1>4, <1>5, <1>6, TraceStarts
<1>14. Couples(H, W, from, Len(c) + 1, ip, << >>, << >>, v)
  <2>1. Len(p) \in 1 .. Len(p)
    BY ExprFacts
  <2>2. NodeCouples(c, from, H, W, p, input, Len(p))
    BY <1>1, <1>3, <1>4, <1>5, <1>6, <1>7, <2>1, PredicateCouples
  <2>3. Lowered(p)[Len(p)] = d /\ Meanings(p, input)[Len(p)] = v
    BY <1>3, <1>8 DEF Lower, Meaning
  <2>4. Couples(H, W, from, Len(c) + 1, o + Len(d) + 1, << >>, << >>, v)
    BY <1>11, <1>13, <2>2, <2>3, EmptyIsSeq DEF NodeCouples
  <2> QED BY <1>12, <2>4
<1>15. W[Len(c) + 1] = IF Is(v, "bool") THEN Done(v.bool) ELSE Fault
  <2>1. PICK e : e = << >> /\ IsSeq(e)
    BY EmptyIsSeq
  <2>2. Couples(H, W, from, Len(c) + 1, ip, e, e, v)
    BY <1>14, <2>1
  <2>3. c[ip] = Cell("RESULT", 0) /\ ip <= Len(c)
    BY <1>12 DEF cell
  <2>4. IsSeq(c) /\ from > 0 /\ IsSeq(e)
    BY <1>1, <1>4, <2>1
  <2> QED BY <1>6, <2>2, <2>3, <2>4, CoupledEnds
<1>16. Run("wasm", c, from, input) =
         IF ~Is(W[Len(c) + 1], "done") THEN "error"
         ELSE IF W[Len(c) + 1].done THEN "allow" ELSE "deny"
  <2>1. W[Len(c) + 1] # Stray
    BY <1>15, StateKinds
  <2> QED BY <1>6, <2>1 DEF Run
<1>17. Run("wasm", c, from, input) =
         IF ~Is(v, "bool") THEN "error" ELSE IF v.bool THEN "allow" ELSE "deny"
  <2>1. CASE ~Is(v, "bool")
    BY <1>15, <1>16, <2>1, StateKinds
  <2>2. CASE Is(v, "bool")
    <3>1. W[Len(c) + 1] = Done(v.bool)
      BY <1>15, <2>2
    <3>2. Is(W[Len(c) + 1], "done") /\ W[Len(c) + 1].done = v.bool
      BY <3>1, StateKinds
    <3> QED BY <1>16, <2>2, <3>2
  <2> QED BY <2>1, <2>2
<1> QED BY <1>1, <1>2, <1>4, <1>17

(* The entry for an action is that of the first rule that names it.         *)
LEMMA EntryForFacts ==
  ASSUME NEW b, IsBlock(b), NEW a
  PROVE  LET at == EntryFor(TableOf(b), a)
         IN  IF \E i \in 1 .. Len(b) : a \in b[i].actions
             THEN /\ at \in 1 .. Len(b) /\ a \in b[at].actions
                  /\ \A j \in 1 .. Len(b) : a \in b[j].actions => at <= j
                  /\ TableOf(b)[at].offset = RuleOffset(b, at)
             ELSE at = 0
<1> DEFINE T == TableOf(b)
           I == {i \in 1 .. Len(T) : a \in T[i].mask}
           at == EntryFor(T, a)
<1>1. Len(b) \in Nat /\ DOMAIN b = 1 .. Len(b)
  BY BlockFacts
<1>2. Len(T) = Len(b) /\ \A i \in 1 .. Len(b) : T[i].mask = b[i].actions /\ T[i].offset = RuleOffset(b, i)
  <2> DEFINE E(i) == [mask |-> b[i].actions, offset |-> RuleOffset(b, i)]
             R == {E(i) : i \in 1 .. Len(b)}
  <2>1. T = [i \in 1 .. Len(b) |-> E(i)]
    BY <1>1 DEF TableOf
  <2>2. \A i \in 1 .. Len(b) : E(i).mask = b[i].actions /\ E(i).offset = RuleOffset(b, i)
    OBVIOUS
  <2> HIDE DEF T, E
  <2>3. T \in Seq(R) /\ DOMAIN T = 1 .. Len(b)
    BY <1>1, <2>1
  <2>4. Len(T) = Len(b)
    BY <1>1, <2>3
  <2> QED BY <2>1, <2>2, <2>4
<1>3. at = IF I # {} THEN Min(I) ELSE 0
  BY DEF EntryFor, SelectInSeq
<1> HIDE DEF T, at
<1>4. I \in SUBSET Nat /\ \A i : i \in I <=> i \in 1 .. Len(b) /\ a \in b[i].actions
  BY <1>1, <1>2
<1>5. I # {} => at \in I /\ \A y \in I : at <= y
  <2> HIDE DEF I
  <2> QED BY <1>3, <1>4, MinFacts
<1> HIDE DEF I
<1>6. CASE I = {}
  <2>1. at = 0 /\ ~ \E i \in 1 .. Len(b) : a \in b[i].actions
    BY <1>3, <1>4, <1>6
  <2> QED BY <2>1 DEF at, T
<1>7. CASE I # {}
  <2>1. /\ at \in 1 .. Len(b) /\ a \in b[at].actions /\ T[at].offset = RuleOffset(b, at)
        /\ \A j \in 1 .. Len(b) : a \in b[j].actions => at <= j
    BY <1>2, <1>4, <1>5, <1>7
  <2>2. \E i \in 1 .. Len(b) : a \in b[i].actions
    BY <2>1
  <2> QED BY <2>1, <2>2 DEF at, T
<1> QED BY <1>6, <1>7

(* A block that compiles and that the self-pass follows is run as it reads, *)
(* on every plain input.                                                    *)
LEMMA CompiledIsRight ==
  ASSUME NEW b, IsBlock(b), Compiles(b), ~Strays(Assemble(b)), NEW input, PlainFor(input), input.action \in Actions
  PROVE  Interpret("wasm", Assemble(b), input) = Decision(b, input)
<1> DEFINE a == input.action
           c == Streams(b)[Len(b)]
           at == EntryFor(TableOf(b), a)
<1>1. Len(b) \in Nat /\ DOMAIN b = 1 .. Len(b)
  BY BlockFacts
<1>2. Assemble(b).table = TableOf(b) /\ Assemble(b).code = c
  BY DEF Assemble
<1>3. \A i \in DOMAIN b : Lowerable(b[i].predicate)
  BY DEF Compiles, Lowers
<1>4. Interpret("host", Assemble(b), EmptyInput(a)) \notin {"error", "stray"}
  <2>1. Interpret("host", Assemble(b), EmptyInput(a)) \in SelfPass(Assemble(b))
    BY DEF SelfPass
  <2> QED BY <2>1 DEF Compiles, SelfPasses, Strays
<1>5. EmptyInput(a).action = a
  BY DEF EmptyInput
<1> HIDE DEF a, c, at
<1>6. CASE \E i \in 1 .. Len(b) : a \in b[i].actions
  <2>1. /\ at \in 1 .. Len(b) /\ a \in b[at].actions /\ at # 0
        /\ \A j \in 1 .. Len(b) : a \in b[j].actions => at <= j
        /\ TableOf(b)[at].offset = RuleOffset(b, at)
    BY <1>1, <1>6, EntryForFacts DEF at
  <2> DEFINE v == Meaning(b[at].predicate, input)
             First(i) == i \in DOMAIN b /\ a \in b[i].actions /\ \A j \in 1 .. (i - 1) : a \notin b[j].actions
  <2>2. Run("host", c, RuleOffset(b, at) + 1, EmptyInput(a)) \notin {"error", "stray"}
    BY <1>2, <1>4, <1>5, <2>1 DEF Interpret, at
  <2>3. Run("wasm", c, RuleOffset(b, at) + 1, input) =
          IF ~Is(v, "bool") THEN "error" ELSE IF v.bool THEN "allow" ELSE "deny"
    BY <1>3, <2>1, <2>2, RuleIsMeaning DEF c
  <2>4. Interpret("wasm", Assemble(b), input) = Run("wasm", c, RuleOffset(b, at) + 1, input)
    BY <1>2, <2>1 DEF Interpret, at, a
  <2>5. \A i : First(i) <=> i = at
    <3>1. ASSUME NEW i, First(i) PROVE i = at
      <4>1. i \in 1 .. Len(b) /\ at <= i
        BY <1>1, <2>1, <3>1
      <4>2. ~(at \in 1 .. (i - 1))
        BY <2>1, <3>1
      <4> QED BY <1>1, <2>1, <4>1, <4>2
    <3>2. First(at)
      <4>1. ASSUME NEW j \in 1 .. (at - 1) PROVE a \notin b[j].actions
        <5>1. j \in 1 .. Len(b) /\ ~(at <= j)
          BY <1>1, <2>1
        <5> QED BY <2>1, <5>1
      <4> QED BY <1>1, <2>1, <4>1
    <3> QED BY <3>1, <3>2
  <2>6. at = CHOOSE i \in DOMAIN b : /\ a \in b[i].actions
                                     /\ \A j \in 1 .. (i - 1) : a \notin b[j].actions
    BY <2>5
  <2>7. ~(\A i \in DOMAIN b : a \notin b[i].actions)
    BY <1>1, <2>1
  <2>8. Decision(b, input) = IF ~Is(v, "bool") THEN "error" ELSE IF v.bool THEN "allow" ELSE "deny"
    BY <2>6, <2>7 DEF Decision, a
  <2> QED BY <2>3, <2>4, <2>8
<1>7. CASE ~ \E i \in 1 .. Len(b) : a \in b[i].actions
  <2>1. at = 0
    BY <1>7, EntryForFacts DEF at
  <2>2. Interpret("wasm", Assemble(b), input) = "deny"
    BY <1>2, <2>1 DEF Interpret, at, a
  <2>3. Decision(b, input) = "deny"
    BY <1>1, <1>7 DEF Decision, a
  <2> QED BY <2>2, <2>3
<1> QED BY <1>6, <1>7

-----------------------------------------------------------------------------
(* The inductive invariant: what the bundle and the engine were made of,    *)
(* and that every verdict is what the engine says of its record.  The       *)
(* engine speaks of the block only because a gateway that runs the bundle   *)
(* was started behind a compilation that succeeded.                         *)

Booted == stage \in {"up", "asked", "answered", "failed"}
Asked == stage \in {"asked", "answered", "failed"}

MadeOfBlock == Compiles(block) /\ bundle = Assemble(block)
EngineOK ==
    /\ block \in Blocks
    /\ stage \in {"source", "rejected", "compiled"} \/ Booted
    /\ stage = "compiled" \/ RunsBundle => MadeOfBlock
    /\ IF Booted THEN deployed \in Deployments /\ engine = PolicyFromDir(deployed)
       ELSE deployed = << >> /\ engine = NoEngine
RequestOK ==
    IF Asked THEN request.caller \in Callers /\ request.action \in Actions /\ request.records \in Batches
    ELSE verdicts = << >>
VerdictOK(i) == verdicts[i] \in BOOLEAN /\ (verdicts[i] <=> Evaluate(InputFor(i)) = "allow")
VerdictsOK ==
    /\ IsSeq(verdicts)
    /\ Asked => Len(verdicts) <= Len(request.records)
    /\ \A i \in 1 .. Len(verdicts) : VerdictOK(i)
    /\ stage = "failed" => /\ Len(verdicts) < Len(request.records)
                           /\ Evaluate(InputFor(Len(verdicts) + 1)) = "error"
PolicyInv == EngineOK /\ RequestOK /\ VerdictsOK

LEMMA EvaluateFacts ==
  ASSUME NEW input
  PROVE  /\ RunsBundle => Evaluate(input) = Interpret("wasm", bundle, input)
         /\ engine.kind # "allow_all" /\ ~engine.loaded => Evaluate(input) = engine.default
         /\ engine.kind = "cedar" /\ engine.loaded => Evaluate(input) = CedarVerdict(input)
<1>1. RunsBundle => Evaluate(input) = Interpret("wasm", bundle, input)
  BY DEF RunsBundle, Evaluate, WasmVerdict
<1>2. engine.kind # "allow_all" /\ ~engine.loaded => Evaluate(input) = engine.default
  BY DEF Evaluate
<1>3. engine.kind = "cedar" /\ engine.loaded => Evaluate(input) = CedarVerdict(input)
  BY DEF Evaluate
<1> QED BY <1>1, <1>2, <1>3

LEMMA EvaluateStays ==
  ASSUME UNCHANGED <<bundle, engine, request>>, NEW i
  PROVE  (Evaluate(InputFor(i)))' = Evaluate(InputFor(i))
BY DEF Evaluate, InputFor, WasmVerdict

(* The engine of a gateway that read its directory.                         *)
LEMMA LoadedFacts ==
  ASSUME NEW d \in Deployments
  PROVE  /\ LoadFromDir(d).kind = Backend(d.backend)
         /\ LoadFromDir(d).loaded = Loaded(d)
         /\ LoadFromDir(d).default = DefaultVerdict(d)
         /\ Loaded(d) \in BOOLEAN
<1>1. LoadFromDir(d).kind = Backend(d.backend)
  BY DEF LoadFromDir
<1>2. LoadFromDir(d).loaded = Loaded(d)
  BY DEF LoadFromDir
<1>3. LoadFromDir(d).default = DefaultVerdict(d)
  BY DEF LoadFromDir
<1>4. Loaded(d) \in BOOLEAN
  BY DEF Loaded
<1> QED BY <1>1, <1>2, <1>3, <1>4

LEMMA BatchLen == ASSUME NEW r \in Batches PROVE Len(r) \in Nat /\ r \in Seq(Records)
<1>1. PICK n \in 1 .. BatchMax : r \in [1 .. n -> Records]
  BY DEF Batches
<1>2. n \in Nat
  BY PolicyAssumption
<1> QED BY <1>1, <1>2

LEMMA PolicyInvInit == PolicyInit => PolicyInv
<1> SUFFICES ASSUME PolicyInit PROVE PolicyInv
  OBVIOUS
<1>1. ~RunsBundle /\ stage = "source" /\ block \in Blocks /\ deployed = << >> /\ engine = NoEngine
  BY DEF PolicyInit, RunsBundle, NoEngine
<1>2. verdicts = << >> /\ ~Asked /\ ~Booted
  BY DEF PolicyInit, Asked, Booted
<1>3. EngineOK
  BY <1>1, <1>2 DEF EngineOK
<1>4. RequestOK
  BY <1>2 DEF RequestOK
<1>5. VerdictsOK
  BY <1>1, <1>2, EmptyIsSeq DEF VerdictsOK
<1> QED BY <1>3, <1>4, <1>5 DEF PolicyInv

LEMMA PolicyInvNext == PolicyInv /\ [PolicyNext]_policyVars => PolicyInv'
<1> SUFFICES ASSUME PolicyInv, [PolicyNext]_policyVars PROVE PolicyInv'
  OBVIOUS
<1> USE DEF PolicyInv
<1>0. ~Asked => verdicts = << >>
  BY DEF RequestOK
<1>1. CASE Compile
  <2>1. stage = "source" /\ ~Booted /\ ~Asked
    BY <1>1 DEF Compile, Booted, Asked
  <2>2. /\ stage' \in {"compiled", "rejected"} /\ ~Booted' /\ ~Asked'
        /\ stage' = "compiled" => Compiles(block) /\ bundle' = Assemble(block)
    BY <1>1 DEF Compile, Booted, Asked
  <2>3. UNCHANGED <<block, deployed, engine, request, verdicts>>
    BY <1>1 DEF Compile
  <2>4. ~RunsBundle'
    BY <2>1, <2>3 DEF EngineOK, RunsBundle, NoEngine
  <2>5. EngineOK'
    BY <2>1, <2>2, <2>3, <2>4 DEF EngineOK, MadeOfBlock
  <2>6. RequestOK'
    BY <1>0, <2>1, <2>2, <2>3 DEF RequestOK
  <2>7. verdicts' = << >>
    BY <1>0, <2>1, <2>3
  <2>8. VerdictsOK'
    BY <2>2, <2>7, EmptyIsSeq DEF VerdictsOK
  <2> QED BY <2>5, <2>6, <2>8
<1>2. ASSUME NEW d \in Deployments, Boot(d) PROVE PolicyInv'
  <2>1. stage \in {"compiled", "rejected"} /\ ~Asked
    BY <1>2 DEF Boot, Asked
  <2>2. stage' = "up" /\ Booted' /\ ~Asked' /\ deployed' = d /\ engine' = PolicyFromDir(d)
        /\ UNCHANGED <<block, bundle, request, verdicts>>
    BY <1>2 DEF Boot, Booted, Asked
  <2>3. RunsBundle' => MadeOfBlock'
    <3>1. RunsBundle' => engine' = LoadFromDir(d)
      BY <2>2 DEF PolicyFromDir, RunsBundle, AllowAll
    <3>2. RunsBundle' => Backend(d.backend) = "wasm" /\ Loaded(d)
      BY <3>1, LoadedFacts DEF RunsBundle
    <3>3. RunsBundle' => stage = "compiled"
      BY <1>2, <3>2 DEF Boot, Loaded
    <3> QED BY <2>2, <3>3 DEF EngineOK, MadeOfBlock
  <2>4. EngineOK'
    BY <2>2, <2>3 DEF EngineOK
  <2>5. RequestOK'
    BY <1>0, <2>1, <2>2 DEF RequestOK
  <2>6. verdicts' = << >>
    BY <1>0, <2>1, <2>2
  <2>7. VerdictsOK'
    BY <2>2, <2>6, EmptyIsSeq DEF VerdictsOK
  <2> QED BY <2>4, <2>5, <2>7
<1>3. ASSUME NEW cl \in Callers, NEW a \in Actions, NEW b \in Batches, Ask(cl, a, b) PROVE PolicyInv'
  <2>1. stage = "up" /\ Booted /\ ~Asked
    BY <1>3 DEF Ask, Booted, Asked
  <2>2. stage' = "asked" /\ Booted' /\ Asked' /\ request' = [caller |-> cl, action |-> a, records |-> b]
        /\ UNCHANGED <<block, bundle, deployed, engine, verdicts>>
    BY <1>3 DEF Ask, Booted, Asked
  <2>3. EngineOK'
    BY <2>1, <2>2 DEF EngineOK, RunsBundle, MadeOfBlock
  <2>4. request'.caller = cl /\ request'.action = a /\ request'.records = b
    BY <2>2
  <2>5. RequestOK'
    BY <1>3, <2>2, <2>4 DEF RequestOK
  <2>6. verdicts' = << >> /\ Len(b) \in Nat
    BY <1>0, <2>1, <2>2, BatchLen
  <2>7. VerdictsOK'
    BY <2>2, <2>4, <2>6, EmptyIsSeq DEF VerdictsOK
  <2> QED BY <2>3, <2>5, <2>7
<1>4. CASE FilterNext
  <2>1. stage = "asked" /\ Asked /\ Booted /\ Len(verdicts) < Len(request.records)
    BY <1>4 DEF FilterNext, Undecided, Asked, Booted
  <2>2. UNCHANGED <<block, bundle, deployed, engine, request, stage>>
    BY <1>4 DEF FilterNext
  <2>3. EngineOK'
    BY <2>1, <2>2 DEF EngineOK, RunsBundle, MadeOfBlock, Booted
  <2>4. RequestOK'
    BY <2>1, <2>2 DEF RequestOK, Asked
  <2>5. PICK v \in BOOLEAN : (v <=> Evaluate(InputFor(Len(verdicts) + 1)) = "allow") /\ verdicts' = Append(verdicts, v)
    BY <1>4 DEF FilterNext, Decided
  <2>6. /\ IsSeq(verdicts') /\ Len(verdicts') = Len(verdicts) + 1 /\ Len(verdicts) \in Nat
        /\ verdicts'[Len(verdicts) + 1] = v /\ \A i \in 1 .. Len(verdicts) : verdicts'[i] = verdicts[i]
    <3>1. IsSeq(verdicts)
      BY DEF VerdictsOK
    <3> QED BY <2>5, <3>1, AppendFacts, SeqType
  <2>7. ASSUME NEW i \in 1 .. Len(verdicts') PROVE VerdictOK(i)'
    <3>1. (Evaluate(InputFor(i)))' = Evaluate(InputFor(i))
      BY <2>2, EvaluateStays
    <3>2. CASE i = Len(verdicts) + 1
      <4>1. verdicts'[i] = v
        BY <2>6, <3>2
      <4>2. v <=> Evaluate(InputFor(i)) = "allow"
        BY <2>5, <3>2
      <4> QED BY <3>1, <4>1, <4>2 DEF VerdictOK
    <3>3. CASE i # Len(verdicts) + 1
      <4>1. i \in 1 .. Len(verdicts)
        BY <2>6, <3>3
      <4>2. VerdictOK(i) /\ verdicts'[i] = verdicts[i]
        BY <2>6, <4>1 DEF VerdictsOK
      <4> QED BY <3>1, <4>2 DEF VerdictOK
    <3> QED BY <3>2, <3>3
  <2>8. Len(verdicts') <= Len(request'.records)
    <3>1. Len(request.records) \in Nat
      BY <2>1, BatchLen DEF RequestOK
    <3> QED BY <2>1, <2>2, <2>6, <3>1
  <2>9. VerdictsOK'
    BY <2>1, <2>2, <2>6, <2>7, <2>8 DEF VerdictsOK
  <2> QED BY <2>3, <2>4, <2>9
<1>5. CASE FilterFails
  <2>1. stage = "asked" /\ Asked /\ Booted /\ Len(verdicts) < Len(request.records)
        /\ Evaluate(InputFor(Len(verdicts) + 1)) = "error"
    BY <1>5 DEF FilterFails, Undecided, Decided, Asked, Booted
  <2>2. stage' = "failed" /\ Asked' /\ Booted' /\ UNCHANGED <<block, bundle, deployed, engine, request, verdicts>>
    BY <1>5 DEF FilterFails, Asked, Booted
  <2>3. EngineOK'
    BY <2>1, <2>2 DEF EngineOK, RunsBundle, MadeOfBlock
  <2>4. RequestOK'
    BY <2>1, <2>2 DEF RequestOK
  <2>5. \A i : (Evaluate(InputFor(i)))' = Evaluate(InputFor(i))
    BY <2>2, EvaluateStays
  <2>6. \A i \in 1 .. Len(verdicts) : VerdictOK(i)'
    BY <2>2, <2>5 DEF VerdictsOK, VerdictOK
  <2>7. (Evaluate(InputFor(Len(verdicts) + 1)))' = "error"
    BY <2>1, <2>2, EvaluateStays
  <2>8. VerdictsOK'
    BY <2>1, <2>2, <2>6, <2>7 DEF VerdictsOK
  <2> QED BY <2>3, <2>4, <2>8
<1>6. CASE FilterEnds
  <2>1. stage = "asked" /\ Asked /\ Booted
    BY <1>6 DEF FilterEnds, Asked, Booted
  <2>2. stage' = "answered" /\ Asked' /\ Booted' /\ UNCHANGED <<block, bundle, deployed, engine, request, verdicts>>
    BY <1>6 DEF FilterEnds, Asked, Booted
  <2>3. EngineOK'
    BY <2>1, <2>2 DEF EngineOK, RunsBundle, MadeOfBlock
  <2>4. RequestOK'
    BY <2>1, <2>2 DEF RequestOK
  <2>5. \A i \in 1 .. Len(verdicts) : VerdictOK(i)'
    <3>1. \A i : (Evaluate(InputFor(i)))' = Evaluate(InputFor(i))
      BY <2>2, EvaluateStays
    <3> QED BY <2>2, <3>1 DEF VerdictsOK, VerdictOK
  <2>6. VerdictsOK'
    BY <2>1, <2>2, <2>5 DEF VerdictsOK
  <2> QED BY <2>3, <2>4, <2>6
<1>7. CASE UNCHANGED policyVars
  <2>1. UNCHANGED <<block, bundle, deployed, engine, request, verdicts, stage>>
    BY <1>7 DEF policyVars
  <2>2. EngineOK'
    BY <2>1 DEF EngineOK, RunsBundle, MadeOfBlock, Booted
  <2>3. RequestOK'
    BY <2>1 DEF RequestOK, Asked
  <2>4. \A i : (Evaluate(InputFor(i)))' = Evaluate(InputFor(i))
    BY <2>1, EvaluateStays
  <2>5. \A i \in 1 .. Len(verdicts) : VerdictOK(i)'
    BY <2>1, <2>4 DEF VerdictsOK, VerdictOK
  <2>6. (Evaluate(InputFor(Len(verdicts) + 1)))' = Evaluate(InputFor(Len(verdicts) + 1))
    BY <2>1 DEF Evaluate, InputFor, WasmVerdict
  <2>7. VerdictsOK'
    BY <2>1, <2>5, <2>6 DEF VerdictsOK, Asked
  <2> QED BY <2>2, <2>3, <2>7
<1> QED BY <1>1, <1>2, <1>3, <1>4, <1>5, <1>6, <1>7 DEF PolicyNext

LEMMA PolicyInvHolds == PolicySpec => []PolicyInv
<1>1. PolicyInit => PolicyInv
  BY PolicyInvInit
<1>2. PolicyInv /\ [PolicyNext]_policyVars => PolicyInv'
  BY PolicyInvNext
<1> QED BY <1>1, <1>2, PTL DEF PolicySpec

-----------------------------------------------------------------------------
(* The theorems.                                                            *)

LEMMA InputFacts ==
  ASSUME PolicyInv, Asked, NEW i, PlainInput(i)
  PROVE  InputFor(i).action \in Actions /\ PlainFor(InputFor(i))
<1>1. request.caller \in Callers /\ request.action \in Actions
  BY DEF PolicyInv, RequestOK
<1>2. IsCaller(request.caller)
  BY <1>1, PolicyAssumption
<1>3. InputFor(i).caller = request.caller /\ InputFor(i).record = request.records[i]
      /\ InputFor(i).action = request.action
  BY DEF InputFor
<1> QED BY <1>1, <1>2, <1>3 DEF PlainFor, PlainInput

(* The engine that runs a bundle says what the block of the schema says, if *)
(* the self-pass could follow it.                                           *)
LEMMA BundleIsRight ==
  ASSUME PolicyInv, RunsBundle, Followed, Asked, NEW i, PlainInput(i)
  PROVE  Evaluate(InputFor(i)) = Decision(block, InputFor(i))
<1>1. IsBlock(block) /\ Compiles(block) /\ bundle = Assemble(block)
  BY PolicyAssumption DEF PolicyInv, EngineOK, MadeOfBlock, IsBlock
<1>2. Evaluate(InputFor(i)) = Interpret("wasm", Assemble(block), InputFor(i))
  BY <1>1, EvaluateFacts
<1>3. InputFor(i).action \in Actions /\ PlainFor(InputFor(i))
  BY InputFacts
<1>4. ~Strays(Assemble(block))
  BY DEF Followed
<1> QED BY <1>1, <1>2, <1>3, <1>4, CompiledIsRight

LEMMA DecidedFacts ==
  ASSUME PolicyInv, NEW i \in DOMAIN verdicts
  PROVE  Asked /\ verdicts[i] \in BOOLEAN /\ (verdicts[i] <=> Evaluate(InputFor(i)) = "allow")
<1>1. i \in 1 .. Len(verdicts)
  BY SeqType DEF PolicyInv, VerdictsOK
<1>2. Asked
  <2> SUFFICES ASSUME ~Asked PROVE FALSE
    OBVIOUS
  <2>1. verdicts = << >>
    BY DEF PolicyInv, RequestOK
  <2> QED BY <1>1, <2>1
<1> QED BY <1>1, <1>2 DEF PolicyInv, VerdictsOK, VerdictOK

LEMMA InvVerdictIsMeaning == PolicyInv => VerdictIsMeaning
<1> SUFFICES ASSUME PolicyInv, RunsBundle, Followed PROVE VerdictIsMeaning
  BY DEF VerdictIsMeaning
<1>1. ASSUME NEW i \in DOMAIN verdicts, PlainInput(i)
      PROVE  verdicts[i] = (Decision(block, InputFor(i)) = "allow")
  <2>1. Asked /\ verdicts[i] \in BOOLEAN /\ (verdicts[i] <=> Evaluate(InputFor(i)) = "allow")
    BY DecidedFacts
  <2>2. Evaluate(InputFor(i)) = Decision(block, InputFor(i))
    BY <1>1, <2>1, BundleIsRight
  <2> QED BY <2>1, <2>2
<1>2. ASSUME stage = "failed", PlainInput(Len(verdicts) + 1)
      PROVE  Decision(block, InputFor(Len(verdicts) + 1)) = "error"
  <2>1. Asked /\ Evaluate(InputFor(Len(verdicts) + 1)) = "error"
    BY <1>2 DEF PolicyInv, VerdictsOK, Asked
  <2> QED BY <1>2, <2>1, BundleIsRight
<1> QED BY <1>1, <1>2 DEF VerdictIsMeaning

(* For every set of blocks, callers and records and all sizes of the        *)
(* machines: a bundle that the compiler made and the gateway loaded decides *)
(* each plain record of a plain caller as the block reads, and gives up     *)
(* only where the block has no meaning.  Plain is without fractions and     *)
(* without anything JSON escapes, and the block is one that the self-pass   *)
(* could follow: it was not led into the bytes of a name                    *)
(* (codegen/policy.rs, interp.rs, json.rs, PolicyEngine::filter).           *)
THEOREM VerdictsAreMeant == PolicySpec => []VerdictIsMeaning
BY PolicyInvHolds, InvVerdictIsMeaning, PTL

(* Cedar and a reader of the record mean the same owner: an object has no   *)
(* key twice, and plain values that compare equal are equal.                *)
LEMMA EqualIsSame ==
  ASSUME NEW x, IsValue(x), PlainScalar(x), NEW y, IsValue(y), PlainScalar(y), Equal(x, y)
  PROVE  x = y
<1>1. CASE IsNumber(x) /\ IsNumber(y) /\ Number(x) = Number(y)
  <2>1. \A v : IsValue(v) /\ Is(v, "int") => v \in [int : Int]
    <3> SUFFICES ASSUME NEW v, IsValue(v), Is(v, "int") PROVE v \in [int : Int]
      OBVIOUS
    <3>1. v \in Literals
      BY DEF IsValue, Is
    <3>2. v # Null /\ v \notin [bool : BOOLEAN] /\ v \notin [float : Int] /\ v \notin [str : STRING]
      BY NullFacts DEF Is
    <3> QED BY <3>1, <3>2 DEF Literals
  <2>2. Is(x, "int") /\ Is(y, "int")
    BY <1>1 DEF IsNumber, PlainScalar
  <2>3. x \in [int : Int] /\ y \in [int : Int] /\ x.int = y.int
    BY <1>1, <2>1, <2>2 DEF Number
  <2> QED BY <2>3
<1>2. CASE x = y
  BY <1>2
<1> QED BY <1>1, <1>2 DEF Equal

LEMMA CedarMeansOwner ==
  ASSUME NEW input, IsObject(input.record), PlainFor(input), CedarVerdict(input) = "allow"
  PROVE  Field(input.record, "owner") = Field(input.caller, "id")
<1> DEFINE rec == input.record
           cl == input.caller
           id == Field(cl, "id")
<1>1. PICK e \in CedarAttributes(rec) : e.key = "owner" /\ Equal(e.value, id)
  BY DEF CedarVerdict, CedarDecision
<1>2. PICK i \in Places(rec) : e = Entries(rec)[i]
  BY DEF CedarAttributes
<1>3. Entries(rec) = rec.obj
  BY DEF IsObject, Entries
<1>4. HasField(rec, "owner")
  BY <1>1, <1>2, FieldFacts
<1>5. PICK j \in Places(rec) : Entries(rec)[j].key = "owner" /\ Field(rec, "owner") = Entries(rec)[j].value
  BY <1>4, FieldFacts
<1>6. i = j
  BY <1>1, <1>2, <1>3, <1>5 DEF IsObject
<1>7. Field(rec, "owner") = e.value
  BY <1>2, <1>5, <1>6
<1>8. IsValue(e.value) /\ PlainScalar(e.value)
  <2>1. IsValue(e.value)
    BY <1>2, <1>3 DEF IsObject
  <2>2. PlainScalar(Field(rec, "owner"))
    BY PlainField DEF PlainFor
  <2> QED BY <1>7, <2>1, <2>2
<1>9. IsValue(id) /\ PlainScalar(id)
  <2>1. PlainScalar(id)
    BY PlainField DEF PlainFor
  <2>2. IsObject(cl)
    BY DEF PlainFor, IsCaller
  <2>3. CASE HasField(cl, "id")
    <3>1. PICK m \in Places(cl) : id = Entries(cl)[m].value
      BY <2>3, FieldFacts
    <3>2. Entries(cl) = cl.obj
      BY <2>2 DEF IsObject, Entries
    <3> QED BY <2>1, <2>2, <3>1, <3>2 DEF IsObject
  <2>4. CASE ~HasField(cl, "id")
    <3>1. id = Null
      BY <2>4, FieldFacts
    <3>2. IsValue(Null)
      BY DEF IsValue, Literals
    <3> QED BY <2>1, <3>1, <3>2
  <2> QED BY <2>3, <2>4
<1> HIDE DEF rec, cl, id
<1>10. e.value = id
  BY <1>1, <1>8, <1>9, EqualIsSame
<1> QED BY <1>7, <1>10 DEF rec, cl, id

LEMMA InvDenyMissingHolds == PolicyInv => DenyMissingHolds
<1> SUFFICES ASSUME PolicyInv, deployed # << >>, deployed.dir \in {"absent", "read"}, deployed.denyMissing,
                    NEW i \in DOMAIN verdicts, verdicts[i], PlainInput(i)
             PROVE  /\ engine.loaded
                    /\ IF engine.kind = "wasm" THEN Followed => Decision(block, InputFor(i)) = "allow"
                       ELSE Field(request.records[i], "owner") = Field(request.caller, "id")
  BY DEF DenyMissingHolds
<1>1. Asked /\ Evaluate(InputFor(i)) = "allow"
  BY DecidedFacts
<1>2. deployed \in Deployments /\ engine = PolicyFromDir(deployed)
  BY DEF PolicyInv, EngineOK
<1>3. engine = LoadFromDir(deployed)
  BY <1>2 DEF PolicyFromDir
<1>4. engine.kind \in {"wasm", "cedar"} /\ engine.default = "deny" /\ engine.loaded \in BOOLEAN
  <2>1. engine.kind = Backend(deployed.backend) /\ engine.default = DefaultVerdict(deployed)
        /\ engine.loaded \in BOOLEAN
    BY <1>2, <1>3, LoadedFacts
  <2>2. DefaultVerdict(deployed) = "deny"
    BY DEF DefaultVerdict
  <2>3. Backend(deployed.backend) \in {"wasm", "cedar"}
    BY DEF Backend
  <2> QED BY <2>1, <2>2, <2>3
<1>5. engine.loaded
  <2> SUFFICES ASSUME ~engine.loaded PROVE FALSE
    OBVIOUS
  <2>1. Evaluate(InputFor(i)) = "deny"
    BY <1>4, EvaluateFacts
  <2> QED BY <1>1, <2>1
<1>6. CASE engine.kind = "wasm"
  <2>1. RunsBundle
    BY <1>5, <1>6 DEF RunsBundle
  <2>2. Followed => Decision(block, InputFor(i)) = "allow"
    BY <1>1, <2>1, BundleIsRight
  <2> QED BY <1>5, <1>6, <2>2
<1>7. CASE engine.kind = "cedar"
  <2>1. CedarVerdict(InputFor(i)) = "allow"
    BY <1>1, <1>5, <1>7, EvaluateFacts
  <2>2. PlainFor(InputFor(i)) /\ InputFor(i).caller = request.caller /\ InputFor(i).record = request.records[i]
    BY <1>1, InputFacts DEF InputFor
  <2>3. IsObject(request.records[i])
    <3>1. request.records \in Batches
      BY <1>1 DEF PolicyInv, RequestOK
    <3>2. request.records \in Seq(Records) /\ Len(request.records) \in Nat
      BY <3>1, BatchLen
    <3>3. i \in 1 .. Len(request.records)
      <4>1. IsSeq(verdicts) /\ Len(verdicts) <= Len(request.records)
        BY <1>1 DEF PolicyInv, VerdictsOK
      <4>2. i \in 1 .. Len(verdicts) /\ Len(verdicts) \in Nat
        BY <4>1, SeqType
      <4> QED BY <3>2, <4>1, <4>2
    <3>4. request.records[i] \in Records
      BY <3>2, <3>3
    <3> QED BY <3>4, PolicyAssumption
  <2>4. Field(request.records[i], "owner") = Field(request.caller, "id")
    BY <2>1, <2>2, <2>3, CedarMeansOwner
  <2> QED BY <1>5, <1>7, <2>4
<1> QED BY <1>4, <1>6, <1>7

(* For every set of blocks, callers and records: once a directory that can  *)
(* be read is set and deny_missing is on, what is let through was allowed   *)
(* by a policy that was loaded, as far as records and callers are plain and *)
(* the self-pass could follow the block (WasmPolicy::load_impl,             *)
(* CedarPolicy::load_impl).                                                 *)
THEOREM MissingIsDenied == PolicySpec => []DenyMissingHolds
BY PolicyInvHolds, InvDenyMissingHolds, PTL
=============================================================================
