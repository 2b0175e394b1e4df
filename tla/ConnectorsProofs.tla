--------------------------- MODULE ConnectorsProofs ---------------------------
(***************************************************************************)
(* Connectors, for every service, every configuration of the connectors    *)
(* and every budget of one send.                                           *)
(*                                                                         *)
(* The 403 shims: their attempts stay below the limit, and the requests of *)
(* a call are paid for attempt by attempt (Paid).                          *)
(*                                                                         *)
(* The listings: what is where by the kind of the connector (Shape); what  *)
(* has been taken lies before the cursor and is not taken again (Once);    *)
(* what stayed and lies before the cursor has been taken, and what is owed *)
(* is listed, skipped or still ahead (All).  They rest on what one page    *)
(* holds (KeysetPage, OffsetPage, OneShotPage), which follows from the     *)
(* places of InOrder being the ranks of a finite set, and on what one turn *)
(* of each walk makes of it (KeysetAsk, OffsetAsk, OneShotAsk).            *)
(***************************************************************************)
EXTENDS Connectors, FiniteSetTheorems, FunctionTheorems, SequenceTheorems, TLAPS

\* What an attempt may have cost so far; while the shim is about to send, its
\* current attempt has cost nothing yet.
Paid ==
    /\ attempt \in Nat /\ attempt < Tries
    /\ sent \in Nat /\ sent <= (attempt + 1) * SendBudget
    /\ pc = "shim" => sent <= attempt * SendBudget

-----------------------------------------------------------------------------
LEMMA BudgetType == SendBudget \in Nat \ {0}
  BY ConnectorsAssumption DEF ConnectorsAssumption

\* Both limits are positive.
LEMMA TriesType == Tries \in Nat \ {0}
  BY DEF Tries, DriveTries, GithubTries

\* One attempt more costs at most one budget more.
LEMMA OneMore ==
  ASSUME NEW a \in Nat
  PROVE  /\ a * SendBudget \in Nat
         /\ (a + 1) * SendBudget = a * SendBudget + SendBudget
  BY BudgetType, SMT

\* A refusal is tried again only below the limit.
LEMMA RetriesBelow ==
  ASSUME NEW signals, attempt \in Nat, Retries(signals)
  PROVE  attempt + 1 < Tries
  BY DEF Retries, DriveRetries, GithubRetries, Tries, DriveTries, GithubTries

\* A send of the shim's current attempt stays within the attempt's share.
LEMMA SendPaid ==
  ASSUME Paid, pc = "shim", Sends
  PROVE  sent' \in Nat /\ sent' <= (attempt + 1) * SendBudget
  <1>1. PICK n \in 1..SendBudget : sent' = sent + n
    BY DEF Sends
  <1>2. attempt \in Nat /\ sent \in Nat /\ sent <= attempt * SendBudget
    BY DEF Paid
  <1> QED BY <1>1, <1>2, OneMore, BudgetType, SMT

-----------------------------------------------------------------------------
LEMMA InitPaid == Init => Paid
  BY TriesType, OneMore, BudgetType, SMT DEF Init, Paid

\* A step that leaves the shim alone, outside it and without entering it.
LEMMA ShimIdle ==
  ASSUME Paid, UNCHANGED <<shim, cfg>>, pc' = "shim" => pc = "shim"
  PROVE  Paid'
  BY DEF Paid, shim, Tries

\* The shim is entered with nothing spent.
LEMMA ShimEntered ==
  ASSUME attempt' = 0, sent' = 0, UNCHANGED cfg
  PROVE  Paid'
  <1>1. Tries' \in Nat \ {0}
    BY DEF Tries, DriveTries, GithubTries
  <1> QED BY <1>1, OneMore, BudgetType, SMT DEF Paid

\* The shim is left after a send.
LEMMA ShimLeft ==
  ASSUME Paid, pc = "shim", Sends, UNCHANGED <<attempt, cfg>>, pc' # "shim"
  PROVE  Paid'
  BY SendPaid DEF Paid, Tries

LEMMA RefusedPaid ==
  ASSUME Paid, NEW signals, ShimRefused(signals)
  PROVE  Paid'
  <1>1. pc = "shim" /\ Sends /\ UNCHANGED cfg
    BY DEF ShimRefused
  <1>2. CASE Retries(signals)
    <2>1. attempt' = attempt + 1 /\ attempt \in Nat /\ pc' = pc
      BY <1>2 DEF ShimRefused, Paid
    <2>2. attempt' < Tries'
      BY <1>1, <1>2, <2>1, RetriesBelow DEF Tries
    <2>3. sent' \in Nat /\ sent' <= attempt' * SendBudget
      BY <1>1, <2>1, SendPaid
    <2>4. (attempt' + 1) * SendBudget = attempt' * SendBudget + SendBudget /\ attempt' * SendBudget \in Nat
      BY <2>1, OneMore
    <2> QED BY <2>1, <2>2, <2>3, <2>4, BudgetType, SMT DEF Paid
  <1>3. CASE ~Retries(signals)
    BY <1>1, <1>3, ShimLeft DEF ShimRefused
  <1> QED BY <1>2, <1>3

LEMMA FailsPaid ==
  ASSUME Paid, ShimFails
  PROVE  Paid'
  <1>1. pc = "shim" /\ pc' = "failed" /\ UNCHANGED <<attempt, cfg>>
    BY DEF ShimFails
  <1>2. CASE Sends
    BY <1>1, <1>2, ShimLeft
  <1>3. CASE sent' = sent
    BY <1>1, <1>3, ShimIdle DEF shim
  <1> QED BY <1>2, <1>3 DEF ShimFails

\* Every step keeps what is paid.
LEMMA StepPaid == Paid /\ [Next]_vars => Paid'
  <1> SUFFICES ASSUME Paid, [Next]_vars PROVE Paid'
    OBVIOUS
  <1>1. ASSUME NEW f, NEW env, Construct(f, env) PROVE Paid'
    BY <1>1, ShimIdle DEF Construct
  <1>2. CASE AskPage \/ AskFails \/ CursorLoop \/ EndOfWalk \/ LastScope \/ BodiesEnd \/ DrivePageEnds
    BY <1>2, ShimIdle
    DEF AskPage, AskFails, CursorLoop, WalkFails, EndOfWalk, LastScope, BodiesEnd, DrivePageEnds, shim
  <1>3. CASE NextScope
    BY <1>3, ShimEntered DEF NextScope
  <1>4. CASE GithubAnswered
    <2>1. pc' # "shim" /\ pc = "shim" /\ Sends /\ UNCHANGED <<attempt, cfg>>
      BY <1>4 DEF GithubAnswered
    <2> QED BY <2>1, ShimLeft
  <1>5. CASE ShimFails
    BY <1>5, FailsPaid
  <1>6. ASSUME NEW shape, BodyTaken(shape) \/ BodySkipped(shape) \/ RowPanics(shape) PROVE Paid'
    BY <1>6, ShimIdle DEF BodyTaken, BodySkipped, RowPanics, shim
  <1>7. ASSUME NEW shape, DriveFile(shape) PROVE Paid'
    BY <1>7, ShimIdle, ShimEntered DEF DriveFile, shim
  <1>8. ASSUME NEW shape, NEW exported, DriveAnswered(shape, exported) PROVE Paid'
    <2>1. pc' # "shim" /\ pc = "shim" /\ Sends /\ UNCHANGED <<attempt, cfg>>
      BY <1>8 DEF DriveAnswered
    <2> QED BY <2>1, ShimLeft
  <1>9. ASSUME NEW signals, ShimRefused(signals) PROVE Paid'
    BY <1>9, RefusedPaid
  <1>10. ASSUME NEW i, Come(i) \/ Go(i) PROVE Paid'
    BY <1>10, ShimIdle DEF Come, Go, shim
  <1>11. CASE UNCHANGED vars
    BY <1>11, ShimIdle DEF vars, shim
  <1> QED
    BY <1>1, <1>2, <1>3, <1>4, <1>5, <1>6, <1>7, <1>8, <1>9, <1>10, <1>11 DEF Next, ListStep

-----------------------------------------------------------------------------
(***************************************************************************)
(* The attempts a shim makes stay below its limit, and what an attempt     *)
(* sends is within its share.                                              *)
(***************************************************************************)
THEOREM AttemptsArePaid == Spec => []Paid
  BY InitPaid, StepPaid, PTL DEF Spec

(***************************************************************************)
(* Whatever a service answers, a file of Drive costs at most five sends'   *)
(* requests and a README of GitHub two (retry_shim.rs of both connectors). *)
(***************************************************************************)
THEOREM ShimsAreBounded == Spec => []ShimIsBounded
  <1>1. Paid => ShimIsBounded
    <2> SUFFICES ASSUME Paid PROVE ShimIsBounded
      OBVIOUS
    <2>1. attempt \in Nat /\ attempt + 1 <= Tries /\ Tries \in Nat /\ sent \in Nat
      BY TriesType DEF Paid
    <2>2. (attempt + 1) * SendBudget <= Tries * SendBudget
      BY <2>1, BudgetType, SMT
    <2> QED BY <2>1, <2>2, BudgetType, SMT DEF Paid, ShimIsBounded
  <1> QED BY <1>1, AttemptsArePaid, PTL

-----------------------------------------------------------------------------
(* Sequences without repetition, and what is in them.                      *)
Has(s, x) == \E n \in 1..Len(s) : s[n] = x
Distinct(s) == \A m, n \in 1..Len(s) : s[m] = s[n] => m = n

LEMMA HasIsMember ==
  ASSUME NEW T, NEW s \in Seq(T)
  PROVE  /\ \A x : x \in ToSet(s) <=> Has(s, x)
         /\ IsInjective(s) <=> Distinct(s)
         /\ \A x : Has(s, x) => x \in T
  <1>1. DOMAIN s = 1..Len(s)
    OBVIOUS
  <1>2. \A x : x \in ToSet(s) <=> Has(s, x)
    BY <1>1 DEF ToSet, Has
  <1>3. IsInjective(s) <=> Distinct(s)
    BY <1>1 DEF IsInjective, Distinct
  <1>4. \A x : Has(s, x) => x \in T
    BY DEF Has
  <1> QED BY <1>2, <1>3, <1>4

LEMMA HasNothing == Distinct(<<>>) /\ \A x : ~Has(<<>>, x)
  BY DEF Distinct, Has

LEMMA HasConcat ==
  ASSUME NEW T, NEW s \in Seq(T), NEW t \in Seq(T)
  PROVE  /\ s \o t \in Seq(T) /\ Len(s \o t) = Len(s) + Len(t)
         /\ \A x : Has(s \o t, x) <=> Has(s, x) \/ Has(t, x)
         /\ (Distinct(s) /\ Distinct(t) /\ \A x : ~(Has(s, x) /\ Has(t, x))) => Distinct(s \o t)
  <1> DEFINE c == s \o t
  <1>1. /\ c \in Seq(T) /\ Len(c) = Len(s) + Len(t) /\ Len(s) \in Nat /\ Len(t) \in Nat
        /\ \A n \in 1..Len(s) : c[n] = s[n]
        /\ \A n \in 1..Len(t) : c[Len(s) + n] = t[n]
    OBVIOUS
  <1>2. \A n \in 1..Len(c) : n \in 1..Len(s) \/ (\E k \in 1..Len(t) : n = Len(s) + k)
    <2> SUFFICES ASSUME NEW n \in 1..Len(c), n \notin 1..Len(s) PROVE \E k \in 1..Len(t) : n = Len(s) + k
      OBVIOUS
    <2>1. n - Len(s) \in 1..Len(t) /\ n = Len(s) + (n - Len(s))
      BY <1>1
    <2> QED BY <2>1
  <1>3. \A n \in 1..Len(s) : n \in 1..Len(c)
    BY <1>1
  <1>4. \A n \in 1..Len(t) : Len(s) + n \in 1..Len(c)
    BY <1>1
  <1> HIDE DEF c
  <1>5. ASSUME NEW x PROVE Has(c, x) <=> Has(s, x) \/ Has(t, x)
    <2>1. ASSUME Has(c, x) PROVE Has(s, x) \/ Has(t, x)
      <3>1. PICK n \in 1..Len(c) : c[n] = x
        BY <2>1 DEF Has
      <3> QED BY <1>1, <1>2, <3>1 DEF Has
    <2>2. Has(s, x) => Has(c, x)
      BY <1>1, <1>3 DEF Has
    <2>3. Has(t, x) => Has(c, x)
      BY <1>1, <1>4 DEF Has
    <2> QED BY <2>1, <2>2, <2>3
  <1>6. ASSUME Distinct(s), Distinct(t), \A x : ~(Has(s, x) /\ Has(t, x)),
               NEW m \in 1..Len(c), NEW n \in 1..Len(c), c[m] = c[n]
        PROVE  m = n
    <2>1. CASE m \in 1..Len(s) /\ n \in 1..Len(s)
      BY <1>1, <1>6, <2>1 DEF Distinct
    <2>2. CASE m \in 1..Len(s) /\ n \notin 1..Len(s)
      <3>1. PICK k \in 1..Len(t) : n = Len(s) + k
        BY <1>2, <2>2
      <3>2. Has(s, c[m]) /\ Has(t, c[m])
        BY <1>1, <1>6, <2>2, <3>1 DEF Has
      <3> QED BY <1>6, <3>2
    <2>3. CASE m \notin 1..Len(s) /\ n \in 1..Len(s)
      <3>1. PICK k \in 1..Len(t) : m = Len(s) + k
        BY <1>2, <2>3
      <3>2. Has(s, c[n]) /\ Has(t, c[n])
        BY <1>1, <1>6, <2>3, <3>1 DEF Has
      <3> QED BY <1>6, <3>2
    <2>4. CASE m \notin 1..Len(s) /\ n \notin 1..Len(s)
      BY <1>1, <1>2, <1>6, <2>4 DEF Distinct
    <2> QED BY <2>1, <2>2, <2>3, <2>4
  <1> QED BY <1>1, <1>5, <1>6 DEF c, Distinct

\* A list cut at the cap.
LEMMA UptoCuts ==
  ASSUME NEW T, NEW s \in Seq(T), NEW cap \in Nat
  PROVE  /\ Upto(cap, s) \in Seq(T) /\ Len(Upto(cap, s)) \in Nat
         /\ Len(Upto(cap, s)) < cap => Upto(cap, s) = s
         /\ Len(Upto(cap, s)) = Least(cap, Len(s))
         /\ \A n \in 1..Len(Upto(cap, s)) : n \in 1..Len(s) /\ Upto(cap, s)[n] = s[n]
         /\ \A x : Has(Upto(cap, s), x) => Has(s, x)
         /\ Distinct(s) => Distinct(Upto(cap, s))
  <1>1. CASE Len(s) <= cap
    <2>1. Upto(cap, s) = s /\ Len(s) \in Nat
      BY <1>1 DEF Upto
    <2> QED BY <1>1, <2>1 DEF Least
  <1>2. CASE Len(s) > cap
    <2> DEFINE u == Upto(cap, s)
    <2>1. u = SubSeq(s, 1, cap)
      BY <1>2 DEF Upto
    <2>2. \A n \in 1..cap : n \in 1..Len(s) /\ s[n] \in T
      BY <1>2
    <2>3. u \in Seq(T) /\ Len(u) = cap /\ \A n \in 1..cap : u[n] = s[n]
      BY <2>1, <2>2
    <2> HIDE DEF u
    <2>4. \A x : Has(u, x) => Has(s, x)
      BY <2>2, <2>3 DEF Has
    <2>5. Distinct(s) => Distinct(u)
      BY <2>2, <2>3 DEF Distinct
    <2> QED BY <1>2, <2>2, <2>3, <2>4, <2>5 DEF u, Least
  <1> QED BY <1>1, <1>2

LEMMA HasAppend ==
  ASSUME NEW T, NEW s \in Seq(T), NEW e \in T
  PROVE  /\ Append(s, e) \in Seq(T)
         /\ \A x : Has(Append(s, e), x) <=> Has(s, x) \/ x = e
         /\ (Distinct(s) /\ ~Has(s, e)) => Distinct(Append(s, e))
  <1> DEFINE a == Append(s, e)
  <1>1. /\ a \in Seq(T) /\ Len(a) = Len(s) + 1 /\ Len(s) \in Nat
        /\ \A n \in 1..Len(s) : a[n] = s[n]
        /\ a[Len(s) + 1] = e
        /\ \A n \in 1..Len(a) : n \in 1..Len(s) \/ n = Len(s) + 1
        /\ \A n \in 1..Len(s) : n \in 1..Len(a)
        /\ Len(s) + 1 \in 1..Len(a)
    OBVIOUS
  <1> HIDE DEF a
  <1>2. \A x : Has(a, x) <=> Has(s, x) \/ x = e
    BY <1>1 DEF Has
  <1>3. (Distinct(s) /\ ~Has(s, e)) => Distinct(a)
    <2> SUFFICES ASSUME Distinct(s), ~Has(s, e), NEW m \in 1..Len(a), NEW n \in 1..Len(a), a[m] = a[n]
                 PROVE  m = n
      BY DEF Distinct
    <2>1. CASE m \in 1..Len(s) /\ n \in 1..Len(s)
      BY <1>1, <2>1 DEF Distinct
    <2>2. CASE m = Len(s) + 1 \/ n = Len(s) + 1
      BY <1>1, <2>2 DEF Has
    <2> QED BY <1>1, <2>1, <2>2
  <1> QED BY <1>1, <1>2, <1>3 DEF a

LEMMA HasTail ==
  ASSUME NEW T, NEW s \in Seq(T), s # <<>>
  PROVE  /\ Tail(s) \in Seq(T) /\ Head(s) \in T
         /\ \A x : Has(s, x) <=> x = Head(s) \/ Has(Tail(s), x)
         /\ Distinct(s) => Distinct(Tail(s)) /\ ~Has(Tail(s), Head(s))
  <1> DEFINE t == Tail(s)
  <1>1. /\ t \in Seq(T) /\ Len(s) \in Nat /\ Len(s) = Len(t) + 1 /\ Len(t) \in Nat
        /\ Head(s) = s[1] /\ Head(s) \in T
        /\ \A n \in 1..Len(t) : t[n] = s[n + 1] /\ n + 1 \in 1..Len(s)
        /\ 1 \in 1..Len(s)
    OBVIOUS
  <1>2. \A n \in 1..Len(s) : n = 1 \/ \E k \in 1..Len(t) : n = k + 1
    <2> SUFFICES ASSUME NEW n \in 1..Len(s), n # 1 PROVE \E k \in 1..Len(t) : n = k + 1
      OBVIOUS
    <2>1. n - 1 \in 1..Len(t) /\ n = (n - 1) + 1
      BY <1>1
    <2> QED BY <2>1
  <1> HIDE DEF t
  <1>3. \A x : Has(s, x) <=> x = Head(s) \/ Has(t, x)
    BY <1>1, <1>2 DEF Has
  <1>4. Distinct(s) => Distinct(t)
    <2> SUFFICES ASSUME Distinct(s), NEW m \in 1..Len(t), NEW n \in 1..Len(t), t[m] = t[n] PROVE m = n
      BY DEF Distinct
    <2>1. m + 1 = n + 1
      BY <1>1 DEF Distinct
    <2> QED BY <2>1
  <1>5. Distinct(s) => ~Has(t, Head(s))
    <2> SUFFICES ASSUME Distinct(s), NEW n \in 1..Len(t), t[n] = Head(s) PROVE FALSE
      BY DEF Has
    <2>1. n + 1 = 1
      BY <1>1 DEF Distinct
    <2> QED BY <2>1
  <1> QED BY <1>1, <1>3, <1>4, <1>5 DEF t

-----------------------------------------------------------------------------
(* InOrder(S) lists a finite set of numbers, the least first; an element's  *)
(* place is its rank.                                                       *)
Below(S, x) == Cardinality({y \in S : y < x})
Rank(S, x) == Cardinality({y \in S : y <= x})

LEMMA BelowType ==
  ASSUME NEW S \in SUBSET Nat, IsFiniteSet(S), NEW x \in S
  PROVE  /\ Below(S, x) \in 0..(Cardinality(S) - 1)
         /\ Rank(S, x) = Below(S, x) + 1
         /\ Cardinality(S) \in Nat
  <1> DEFINE B == {y \in S : y < x}
  <1>1. B \in SUBSET (S \ {x}) /\ x \notin B /\ {y \in S : y <= x} = B \cup {x}
    <2>1. \A y \in S : /\ y <= x <=> (y < x \/ y = x)
                       /\ y < x => y # x
      OBVIOUS
    <2>2. B \in SUBSET (S \ {x}) /\ x \notin B
      BY <2>1
    <2>3. {y \in S : y <= x} = B \cup {x}
      BY <2>1
    <2> QED BY <2>2, <2>3
  <1> HIDE DEF B
  <1>2. IsFiniteSet(S \ {x}) /\ Cardinality(S \ {x}) = Cardinality(S) - 1
    BY FS_RemoveElement
  <1>3. IsFiniteSet(B) /\ Cardinality(B) <= Cardinality(S) - 1
    BY <1>1, <1>2, FS_Subset
  <1>4. Cardinality(B \cup {x}) = Cardinality(B) + 1
    BY <1>1, <1>3, FS_AddElement
  <1>5. Cardinality(B) \in Nat /\ Cardinality(S) \in Nat
    BY <1>3, FS_CardinalityType
  <1>6. Below(S, x) = Cardinality(B) /\ Rank(S, x) = Cardinality(B \cup {x})
    BY <1>1 DEF Below, Rank, B
  <1> QED BY <1>3, <1>4, <1>5, <1>6

LEMMA BelowGrows ==
  ASSUME NEW S \in SUBSET Nat, IsFiniteSet(S), NEW x \in S, NEW y \in S, x < y
  PROVE  Below(S, x) < Below(S, y)
  <1> DEFINE B == {z \in S : z < x}
             C == {z \in S : z < y}
  <1>1. B \in SUBSET C /\ x \in C /\ x \notin B
    <2>1. \A z \in S : z < x => z < y
      OBVIOUS
    <2>2. ~(x < x)
      OBVIOUS
    <2> QED BY <2>1, <2>2
  <1>2. IsFiniteSet(C) /\ C \in SUBSET S
    BY FS_Subset
  <1> HIDE DEF B, C
  <1>3. Cardinality(B) <= Cardinality(C) /\ Cardinality(B) # Cardinality(C)
    BY <1>1, <1>2, FS_Subset
  <1>4. Cardinality(B) \in Nat /\ Cardinality(C) \in Nat
    BY <1>1, <1>2, FS_Subset, FS_CardinalityType
  <1> QED BY <1>3, <1>4 DEF Below, B, C

LEMMA EveryPlaceTaken ==
  ASSUME NEW S \in SUBSET Nat, IsFiniteSet(S), NEW n \in 1..Cardinality(S)
  PROVE  \E x \in S : Below(S, x) = n - 1
  <1> DEFINE k == Cardinality(S)
             below == [x \in S |-> Below(S, x)]
  <1>0. k \in Nat
    BY FS_CardinalityType
  <1>1. below \in [S -> 0..(k - 1)]
    BY BelowType
  <1>2. ASSUME NEW x \in S, NEW y \in S, below[x] = below[y] PROVE x = y
    <2>1. Below(S, x) \in Int /\ Below(S, y) \in Int
      BY BelowType
    <2>2. x < y \/ y < x \/ x = y
      OBVIOUS
    <2> QED BY <1>2, <2>1, <2>2, BelowGrows
  <1>3. below \in Injection(S, 0..(k - 1))
    BY <1>1, <1>2 DEF Injection, IsInjective
  <1>4. IsFiniteSet(0..(k - 1)) /\ Cardinality(0..(k - 1)) = k
    <2>1. ASSUME NEW j \in Nat PROVE IsFiniteSet(0..(j - 1)) /\ Cardinality(0..(j - 1)) = j
      BY FS_Interval
    <2> QED BY <1>0, <2>1
  <1> HIDE DEF below
  <1>5. below \in Surjection(S, 0..(k - 1))
    BY <1>3, <1>4, FS_Injection
  <1>6. \A m \in 0..(k - 1) : \E x \in S : below[x] = m
    BY <1>5 DEF Surjection
  <1>7. n - 1 \in 0..(k - 1)
    BY <1>0
  <1> QED BY <1>6, <1>7 DEF below

LEMMA InOrderSpec ==
  ASSUME NEW S \in SUBSET Nat, IsFiniteSet(S)
  PROVE  /\ InOrder(S) \in Seq(S) /\ Len(InOrder(S)) = Cardinality(S) /\ Cardinality(S) \in Nat
         /\ \A n \in 1..Cardinality(S) : InOrder(S)[n] \in S /\ Rank(S, InOrder(S)[n]) = n
         /\ \A x \in S : Rank(S, x) \in 1..Cardinality(S) /\ InOrder(S)[Rank(S, x)] = x
  <1> DEFINE s == InOrder(S)
             k == Cardinality(S)
             Nth(n) == CHOOSE x \in S : Below(S, x) = n - 1
  <1>0. k \in Nat
    BY FS_CardinalityType
  <1>1. s = [n \in 1..k |-> Nth(n)]
    BY DEF InOrder, Below
  <1>2. \A n \in 1..k : Nth(n) \in S /\ Below(S, Nth(n)) = n - 1
    BY EveryPlaceTaken
  <1> HIDE DEF s, k, Nth
  <1>3. \A n \in 1..k : s[n] \in S /\ Below(S, s[n]) = n - 1
    BY <1>1, <1>2
  <1>4. s \in Seq(S) /\ Len(s) = k
    BY <1>0, <1>1, <1>2
  <1>5. \A n \in 1..k : Rank(S, s[n]) = n
    <2> SUFFICES ASSUME NEW n \in 1..k PROVE Rank(S, s[n]) = n
      OBVIOUS
    <2>1. Rank(S, s[n]) = (n - 1) + 1
      BY <1>3, BelowType
    <2> QED BY <2>1
  <1>6. ASSUME NEW x \in S PROVE Rank(S, x) \in 1..k /\ s[Rank(S, x)] = x
    <2>1. Rank(S, x) \in 1..k /\ Rank(S, x) = Below(S, x) + 1 /\ Below(S, x) \in Int
      BY <1>0, BelowType DEF k
    <2> DEFINE y == s[Rank(S, x)]
    <2>2. y \in S /\ Below(S, y) = Below(S, x)
      <3>1. y \in S /\ Below(S, y) = Rank(S, x) - 1
        BY <1>3, <2>1
      <3> QED BY <2>1, <3>1
    <2> HIDE DEF y
    <2>3. x < y \/ y < x \/ x = y
      BY <2>2
    <2>4. y = x
      BY <2>1, <2>2, <2>3, BelowGrows
    <2> QED BY <2>1, <2>4 DEF y
  <1> QED BY <1>0, <1>3, <1>4, <1>5, <1>6 DEF s, k

LEMMA RankGrows ==
  ASSUME NEW S \in SUBSET Nat, IsFiniteSet(S), NEW x \in S, NEW y \in S
  PROVE  /\ Rank(S, x) \in Nat
         /\ Rank(S, x) <= Rank(S, y) <=> x <= y
         /\ Rank(S, x) = Rank(S, y) => x = y
  <1>1. /\ Rank(S, x) = Below(S, x) + 1 /\ Rank(S, y) = Below(S, y) + 1
        /\ Below(S, x) \in Nat /\ Below(S, y) \in Nat
    BY BelowType
  <1>2. x < y => Below(S, x) < Below(S, y)
    BY BelowGrows
  <1>3. y < x => Below(S, y) < Below(S, x)
    BY BelowGrows
  <1> QED BY <1>1, <1>2, <1>3

\* All of a finite set in order, without repetition.
LEMMA InOrderHas ==
  ASSUME NEW S \in SUBSET Nat, IsFiniteSet(S)
  PROVE  /\ InOrder(S) \in Seq(S) /\ Distinct(InOrder(S))
         /\ \A x : Has(InOrder(S), x) <=> x \in S
  <1>1. Distinct(InOrder(S))
    BY InOrderSpec DEF Distinct
  <1>2. \A x \in S : Has(InOrder(S), x)
    BY InOrderSpec DEF Has
  <1>3. \A x : Has(InOrder(S), x) => x \in S
    BY InOrderSpec DEF Has
  <1> QED BY <1>1, <1>2, <1>3, InOrderSpec

\* A selection from a sequence by position.
LEMMA PickHas ==
  ASSUME NEW T, NEW s \in Seq(T), NEW P \in SUBSET (1..Len(s))
  PROVE  /\ Pick(s, P) \in Seq(T)
         /\ \A x : Has(Pick(s, P), x) <=> \E n \in P : s[n] = x
         /\ Distinct(s) => Distinct(Pick(s, P))
  <1> DEFINE p == Pick(s, P)
             at == InOrder(P)
             k == Cardinality(P)
  <1>1. IsFiniteSet(P) /\ P \in SUBSET Nat
    <2>1. IsFiniteSet(1..Len(s))
      BY FS_Interval
    <2>2. IsFiniteSet(P)
      BY <2>1, FS_Subset
    <2> QED BY <2>2
  <1>2. /\ at \in Seq(P) /\ Len(at) = k /\ k \in Nat /\ Distinct(at)
        /\ \A x : Has(at, x) <=> x \in P
    BY <1>1, InOrderSpec, InOrderHas
  <1>3. p = [n \in 1..k |-> s[at[n]]]
    BY DEF Pick
  <1> HIDE DEF p, at, k
  <1>4. \A n \in 1..k : at[n] \in P /\ at[n] \in 1..Len(s) /\ p[n] = s[at[n]] /\ s[at[n]] \in T
    <2> SUFFICES ASSUME NEW n \in 1..k
                 PROVE  at[n] \in P /\ at[n] \in 1..Len(s) /\ p[n] = s[at[n]] /\ s[at[n]] \in T
      OBVIOUS
    <2>1. at[n] \in P
      BY <1>2
    <2>2. at[n] \in 1..Len(s)
      BY <2>1
    <2>3. s[at[n]] \in T
      BY <2>2
    <2> QED BY <1>3, <2>1, <2>2, <2>3
  <1>5. p \in Seq(T) /\ Len(p) = k
    BY <1>2, <1>3, <1>4
  <1>6. \A x : Has(p, x) => \E n \in P : s[n] = x
    BY <1>4, <1>5 DEF Has
  <1>7. \A n \in P : Has(p, s[n])
    <2> SUFFICES ASSUME NEW n \in P PROVE Has(p, s[n])
      OBVIOUS
    <2>1. PICK m \in 1..k : at[m] = n
      BY <1>2 DEF Has
    <2> QED BY <1>4, <1>5, <2>1 DEF Has
  <1>8. Distinct(s) => Distinct(p)
    BY <1>2, <1>4, <1>5 DEF Distinct
  <1> QED BY <1>5, <1>6, <1>7, <1>8 DEF p

\* The wanted of a page, and of what a walk has collected.
LEMMA WantedHas ==
  ASSUME NEW T, NEW s \in Seq(T)
  PROVE  /\ Wanted(s) \in Seq(T)
         /\ \A x : Has(Wanted(s), x) <=> Has(s, x) /\ x \notin Unwanted
         /\ Distinct(s) => Distinct(Wanted(s))
  <1> DEFINE P == {n \in 1..Len(s) : s[n] \notin Unwanted}
  <1>1. Wanted(s) = Pick(s, P)
    BY DEF Wanted
  <1>2. \A x : (\E n \in P : s[n] = x) <=> Has(s, x) /\ x \notin Unwanted
    BY DEF Has
  <1>3. P \in SUBSET (1..Len(s))
    OBVIOUS
  <1> HIDE DEF P
  <1> QED BY <1>1, <1>2, <1>3, PickHas

-----------------------------------------------------------------------------
(* What a service answers.                                                 *)
Cursors == {None} \cup {<<n>> : n \in Nat}

LEMMA CursorType ==
  ASSUME NEW c \in Cursors
  PROVE  c = None \/ (c # None /\ Len(c) = 1 /\ c[1] \in Nat /\ c = <<c[1]>>)
  BY DEF Cursors, None

LEMMA StartType == cursor \in Cursors => Start \in Nat /\ (cursor # None => Start = cursor[1])
  BY CursorType DEF Start

LEMMA PresentFinite ==
  ASSUME NEW S \in SUBSET Items
  PROVE  S \in SUBSET Nat /\ IsFiniteSet(S) /\ Cardinality(S) \in Nat /\ \A x \in S : x \in Nat /\ x # 0
  <1>1. IsFiniteSet(S)
    BY ConnectorsAssumption, FS_Subset
  <1> QED BY <1>1, ConnectorsAssumption, FS_CardinalityType

\* A page of a service that pages by keys, and what its token promises.
LEMMA KeysetPage ==
  ASSUME present \in SUBSET Items, cursor \in Cursors
  PROVE  LET r == KeysetReply
         IN  /\ r.items \in Seq(Items) /\ Distinct(r.items)
             /\ \A x : Has(r.items, x) => x \in present /\ x > Start
             /\ r.token \in Cursors /\ r.more \in BOOLEAN
             /\ cfg.mode = "sound" =>
                   IF r.more
                   THEN \E n \in Items :
                           /\ r.token = <<n>> /\ Start < n
                           /\ \A x : Has(r.items, x) => x <= n
                           /\ \A x \in present : Start < x /\ x <= n => Has(r.items, x)
                   ELSE /\ \A x \in present : Start < x => Has(r.items, x)
                        /\ r.token = IF cfg.kind = "slack" THEN EmptyText
                                     ELSE IF cfg.kind = "linear" THEN r.token ELSE None
  <1> DEFINE S == {i \in present : i > Start}
             after == InOrder(S)
             reply == Upto(ServerMax, after)
             lastOf == IF reply = <<>> THEN None ELSE <<Last(reply)>>
             more == Len(after) > Len(reply)
             r == KeysetReply
  <1>0. S \in SUBSET Items /\ ServerMax \in Nat \ {0}
    BY ConnectorsAssumption
  <1>1. S \in SUBSET Nat /\ IsFiniteSet(S) /\ \A x \in S : x \in Nat
    BY <1>0, PresentFinite
  <1>2. /\ after \in Seq(S) /\ Len(after) = Cardinality(S) /\ Cardinality(S) \in Nat /\ Distinct(after)
        /\ \A n \in 1..Len(after) : after[n] \in S /\ Rank(S, after[n]) = n
        /\ \A x \in S : Rank(S, x) \in 1..Len(after) /\ after[Rank(S, x)] = x
    BY <1>1, InOrderSpec, InOrderHas
  <1>3. /\ r.items = reply
        /\ cfg.mode = "sound" =>
              /\ r.more = more
              /\ r.token = IF more THEN lastOf
                           ELSE IF cfg.kind = "slack" THEN EmptyText
                           ELSE IF cfg.kind = "linear" THEN lastOf ELSE None
        /\ cfg.mode # "sound" => r.more = TRUE /\ r.token = IF cursor = None THEN lastOf ELSE cursor
    BY DEF KeysetReply
  <1> HIDE DEF S, after, r
  <1>4. /\ reply \in Seq(S) /\ Len(reply) \in Nat /\ Distinct(reply)
        /\ Len(reply) = Least(ServerMax, Len(after))
        /\ \A n \in 1..Len(reply) : n \in 1..Len(after) /\ reply[n] = after[n]
    BY <1>0, <1>2, UptoCuts
  <1> HIDE DEF reply
  <1>5. \A x : Has(reply, x) => x \in S
    BY <1>4, HasIsMember
  <1>6. lastOf \in Cursors
    <2>1. CASE reply = <<>>
      BY <2>1 DEF Cursors
    <2>2. CASE reply # <<>>
      <3>1. Last(reply) \in S
        BY <1>4, <2>2 DEF Last
      <3> QED BY <1>1, <2>2, <3>1 DEF Cursors
    <2> QED BY <2>1, <2>2
  <1>7. EmptyText \in Cursors /\ None \in Cursors
    BY DEF Cursors, EmptyText
  <1>8. r.token \in Cursors /\ r.more \in BOOLEAN
    <2>1. more \in BOOLEAN
      OBVIOUS
    <2> HIDE DEF lastOf, more
    <2>2. CASE cfg.mode = "sound"
      <3>1. r.token \in {lastOf, EmptyText, None}
        BY <1>3, <2>2
      <3>2. r.more \in BOOLEAN
        BY <1>3, <2>1, <2>2
      <3> QED BY <1>6, <1>7, <3>1, <3>2
    <2>3. CASE cfg.mode # "sound"
      <3>1. r.token \in {lastOf, cursor}
        BY <1>3, <2>3
      <3>2. r.more \in BOOLEAN
        BY <1>3, <2>3
      <3> QED BY <1>6, <3>1, <3>2
    <2> QED BY <2>2, <2>3
  <1>9. reply \in Seq(Items)
    BY <1>0, <1>4, SeqMonotonic
  <1>10. ASSUME more
         PROVE  \E n \in Items : /\ lastOf = <<n>> /\ Start < n
                                 /\ \A x : Has(reply, x) => x <= n
                                 /\ \A x \in present : Start < x /\ x <= n => Has(reply, x)
    <2>1. Len(reply) = ServerMax /\ ServerMax \in 1..Len(after) /\ reply # <<>>
      BY <1>0, <1>2, <1>4, <1>10 DEF Least
    <2> DEFINE n == after[ServerMax]
    <2>2. n \in S /\ Rank(S, n) = ServerMax /\ lastOf = <<n>>
      BY <1>2, <1>4, <2>1 DEF Last
    <2> HIDE DEF n, lastOf, more
    <2>3. ASSUME NEW x, Has(reply, x) PROVE x <= n
      <3>1. PICK k \in 1..Len(reply) : reply[k] = x
        BY <2>3 DEF Has
      <3>2. x \in S /\ Rank(S, x) = k /\ k <= ServerMax
        BY <1>2, <1>4, <2>1, <3>1
      <3> QED BY <1>1, <2>2, <3>2, RankGrows
    <2>4. ASSUME NEW x \in present, Start < x, x <= n PROVE Has(reply, x)
      <3>1. x \in S /\ x \in Nat
        BY <1>0, <2>4, PresentFinite DEF S
      <3>2. Rank(S, x) <= ServerMax /\ Rank(S, x) \in Nat
        BY <1>1, <2>2, <2>4, <3>1, RankGrows
      <3>3. Rank(S, x) \in 1..Len(reply) /\ reply[Rank(S, x)] = x
        BY <1>2, <1>4, <2>1, <3>1, <3>2
      <3> QED BY <3>3 DEF Has
    <2>5. Start < n
      BY <2>2 DEF S
    <2> QED BY <1>0, <2>2, <2>3, <2>4, <2>5
  <1>11. ASSUME ~more, NEW x \in present, Start < x PROVE Has(reply, x)
    <2>1. Len(reply) = Len(after)
      BY <1>0, <1>2, <1>4, <1>11 DEF Least
    <2>2. x \in S
      BY <1>11, PresentFinite, StartType DEF S
    <2> QED BY <1>2, <1>4, <2>1, <2>2 DEF Has
  <1>12. \A x : Has(reply, x) => x \in present /\ x > Start
    BY <1>5 DEF S
  <1>13. cfg.mode = "sound" =>
           IF r.more
           THEN \E n \in Items :
                   /\ r.token = <<n>> /\ Start < n
                   /\ \A x : Has(reply, x) => x <= n
                   /\ \A x \in present : Start < x /\ x <= n => Has(reply, x)
           ELSE /\ \A x \in present : Start < x => Has(reply, x)
                /\ r.token = IF cfg.kind = "slack" THEN EmptyText
                             ELSE IF cfg.kind = "linear" THEN r.token ELSE None
    <2> HIDE DEF more, lastOf
    <2> QED BY <1>3, <1>10, <1>11
  <1> QED BY <1>3, <1>4, <1>8, <1>9, <1>12, <1>13 DEF r

\* A page of a service that pages by position.
LEMMA OffsetPage ==
  ASSUME present \in SUBSET Items, cursor \in Cursors, cfg.size \in Nat
  PROVE  LET r == OffsetReply
         IN  /\ r.items \in Seq(Items) /\ Distinct(r.items) /\ Len(r.items) \in Nat
             /\ \A x : Has(r.items, x) <=>
                         /\ x \in present
                         /\ Start < Rank(present, x) /\ Rank(present, x) <= Start + Len(r.items)
             /\ Len(r.items) < PageSize => Start + Len(r.items) >= Cardinality(present)
             /\ r.total = Cardinality(present)
             /\ r.token \in Cursors
             /\ cfg.mode = "sound" =>
                   \/ r.token = <<Start + Len(r.items)>>
                   \/ r.token = None /\ Start + Len(r.items) >= Cardinality(present)
  <1> DEFINE q == InOrder(present)
             N == Cardinality(present)
             t == SubSeq(q, Start + 1, N)
             items == Upto(PageSize, t)
             token == IF cfg.mode = "stuck" THEN IF cursor = None THEN <<PageSize>> ELSE cursor
                      ELSE IF Start + PageSize < N THEN <<Start + PageSize>> ELSE None
  <1>1. OffsetReply.items = items /\ OffsetReply.total = N /\ OffsetReply.token = token
    BY DEF OffsetReply
  <1>2. present \in SUBSET Nat /\ IsFiniteSet(present) /\ N \in Nat
    BY PresentFinite
  <1>3. /\ q \in Seq(present) /\ Len(q) = N
        /\ \A n \in 1..N : q[n] \in present /\ Rank(present, q[n]) = n
        /\ \A x \in present : Rank(present, x) \in 1..N /\ q[Rank(present, x)] = x
    BY <1>2, InOrderSpec
  <1>4. Start \in Nat /\ PageSize \in Nat
    BY StartType, ConnectorsAssumption DEF PageSize, Least
  <1> HIDE DEF q, N
  <1>5. /\ t \in Seq(present) /\ Len(t) = IF Start + 1 <= N THEN N - Start ELSE 0
        /\ \A k \in 1..Len(t) : Start + k \in 1..N /\ t[k] = q[Start + k]
    <2>1. \A i \in (Start + 1)..N : q[i] \in present
      BY <1>2, <1>3, <1>4
    <2>2. /\ t \in Seq(present) /\ Len(t) = IF Start + 1 <= N THEN N - (Start + 1) + 1 ELSE 0
          /\ \A i \in 1..(N - (Start + 1) + 1) : t[i] = q[(Start + 1) + i - 1]
      BY <1>2, <1>4, <2>1, SubSeqProperties
    <2> HIDE DEF t
    <2> QED BY <1>2, <1>4, <2>2
  <1> HIDE DEF t
  <1>6. /\ items \in Seq(present) /\ Len(items) \in Nat /\ Len(items) = Least(PageSize, Len(t))
        /\ \A n \in 1..Len(items) : n \in 1..Len(t) /\ items[n] = t[n]
    BY <1>4, <1>5, UptoCuts
  <1> HIDE DEF items
  <1>7. \A n \in 1..Len(items) : items[n] \in present /\ Rank(present, items[n]) = Start + n
    BY <1>3, <1>5, <1>6
  <1>8. Distinct(items)
    <2> SUFFICES ASSUME NEW m \in 1..Len(items), NEW n \in 1..Len(items), items[m] = items[n] PROVE m = n
      BY DEF Distinct
    <2>1. Start + m = Start + n
      BY <1>7
    <2> QED BY <1>4, <2>1
  <1>9. ASSUME NEW x, Has(items, x)
        PROVE  x \in present /\ Start < Rank(present, x) /\ Rank(present, x) <= Start + Len(items)
    <2>1. PICK n \in 1..Len(items) : items[n] = x
      BY <1>9 DEF Has
    <2> QED BY <1>4, <1>6, <1>7, <2>1
  <1>10. ASSUME NEW x \in present, Start < Rank(present, x), Rank(present, x) <= Start + Len(items)
         PROVE  Has(items, x)
    <2> DEFINE k == Rank(present, x) - Start
    <2>1. Rank(present, x) \in 1..N /\ q[Rank(present, x)] = x
      BY <1>3
    <2>2. k \in 1..Len(items) /\ Start + k = Rank(present, x)
      BY <1>4, <1>6, <1>10, <2>1
    <2> HIDE DEF k
    <2>3. items[k] = x
      BY <1>5, <1>6, <2>1, <2>2
    <2> QED BY <2>2, <2>3 DEF Has
  <1>11. Len(items) < PageSize => Start + Len(items) >= N
    BY <1>2, <1>4, <1>5, <1>6 DEF Least
  <1>12. items \in Seq(Items)
    BY <1>6, SeqMonotonic
  <1>13. token \in Cursors
    BY <1>4 DEF Cursors
  <1>14. Start + PageSize < N => Len(items) = PageSize
    BY <1>2, <1>4, <1>5, <1>6 DEF Least
  <1>15. ~(Start + PageSize < N) => Start + Len(items) >= N
    BY <1>2, <1>4, <1>5, <1>6 DEF Least
  <1>16. cfg.mode = "sound" =>
            token = <<Start + Len(items)>> \/ (token = None /\ Start + Len(items) >= N)
    BY <1>14, <1>15
  <1> HIDE DEF token
  <1> QED BY <1>1, <1>6, <1>8, <1>9, <1>10, <1>11, <1>12, <1>13, <1>16 DEF N

-----------------------------------------------------------------------------
(* What is where: the types, and where list() can be by the kind of its    *)
(* connector.                                                              *)
Offsets == {"jira", "confluence", "offset"}
Resources == (Items \cup {Top}) \X (Items \cup {Readme})

Types ==
    /\ cfg \in PlainConfigs
    /\ secret \in Values \cup {NoSecret}
    /\ pc \in {"new", "refused", "ask", "page", "walked", "scope", "shim", "fetch",
               "done", "failed", "panicked"}
    /\ present \in SUBSET Items /\ stayed \in SUBSET present
    /\ changes \in [ins : Nat, del : Nat]
    /\ scope \in Items \cup {Top}
    /\ parents \in Seq(Items) /\ got \in Seq(Items)
    /\ page \in Seq(Items) /\ todo \in Seq(Items)
    /\ cursor \in Cursors /\ prev \in Cursors /\ total \in Cursors
    /\ out \in Seq(Resources)

Route ==
    /\ cfg.kind \notin Nested => scope = Top /\ parents = <<>>
    /\ cfg.kind \notin Fetching => todo = <<>>
    /\ cfg.kind = "drive" => got = <<>>
    /\ cfg.kind # "drive" => page = <<>>
    /\ pc = "page" => cfg.kind = "drive"
    /\ pc = "fetch" => cfg.kind \in Fetching
    /\ pc = "scope" => cfg.kind \in Nested
    /\ pc = "shim" =>
          \/ cfg.kind = "drive" /\ page # <<>>
          \/ cfg.kind = "github" /\ scope # Top /\ cursor = None /\ got = <<>> /\ total = None
    /\ pc \in {"new", "refused", "ask", "walked"} => todo = <<>>
    /\ pc \in {"new", "ask", "walked"} => page = <<>>
    /\ pc \in {"new", "refused"} => out = <<>> /\ parents = <<>>
    /\ pc = "new" => owed = {}
    /\ pc = "ask" /\ cursor = None => got = <<>> /\ total = None
    /\ pc = "ask" /\ cursor = None /\ cfg.kind = "drive" => out = <<>>
    /\ pc \in {"ask", "walked"} /\ scope = Top /\ cfg.kind # "drive" => out = <<>> /\ parents = <<>>
    /\ pc = "done" => parents = <<>> /\ todo = <<>>

Shape == Types /\ Route

LEMMA ConfigType ==
  ASSUME NEW c \in PlainConfigs
  PROVE  /\ c \in Configs /\ c.kind \in Kinds /\ c.size \in Nat /\ c.cap \in Nat
         /\ c.mode \in {"sound", "stuck"} /\ c.totals \in BOOLEAN /\ c.issues \in BOOLEAN
  BY ConnectorsAssumption DEF PlainConfigs, Configs

\* A credential that is accepted is one of the configuration or none.
LEMMA CredentialType ==
  ASSUME NEW kind, NEW f \in [Parts -> Values], NEW env \in Values,
         Credential(kind, f, env) # Refused
  PROVE  Credential(kind, f, env) \in Values \cup {NoSecret}
  <1> DEFINE Fine(c) == c = Refused \/ c \in Values \cup {NoSecret}
  <1>1. f.secret \in Values
    BY DEF Parts
  <1>2. \A test : Fine(Accept(test, f.secret)) /\ Fine(Accept(test, env)) /\ Fine(Accept(test, NoSecret))
    BY <1>1 DEF Accept
  <1>3. Fine(TokenOrEnv(f, env))
    BY <1>1, <1>2 DEF TokenOrEnv
  <1> HIDE DEF Fine
  <1>4. Fine(NoSecret)
    BY DEF Fine
  <1>5. Fine(Credential(kind, f, env))
    BY <1>2, <1>3, <1>4
    DEF Credential, SlackCredential, GithubCredential, DriveCredential, NotionCredential,
        GmailCredential, LinearCredential, JiraCredential, ConfluenceCredential, S3Credential,
        WebCredential, LocalFilesCredential, PostgresCredential
  <1> QED BY <1>5 DEF Fine

-----------------------------------------------------------------------------
(* One turn of each walk.                                                   *)

\* A turn takes what is wanted of a page into what is collected, up to the cap.
Takes(turn, base, items) ==
    \E new \in Seq(Items) :
        /\ Distinct(items) => Distinct(new)
        /\ \A x : Has(new, x) => Has(items, x)
        /\ \A x \in WantedItems : Has(items, x) => Has(new, x)
        /\ turn.got = IF HasCap THEN Upto(cfg.cap, base \o new) ELSE base \o new

LEMMA TakesAll ==
  ASSUME NEW base \in Seq(Items), NEW items \in Seq(Items), NEW turn,
         turn.got = IF HasCap THEN Upto(cfg.cap, base \o items) ELSE base \o items
  PROVE  Takes(turn, base, items)
  BY DEF Takes

LEMMA TakesWanted ==
  ASSUME NEW base \in Seq(Items), NEW items \in Seq(Items), NEW turn,
         cfg.kind \in Filtering,
         turn.got = IF HasCap THEN Upto(cfg.cap, base \o Wanted(items)) ELSE base \o Wanted(items)
  PROVE  Takes(turn, base, items)
  <1> DEFINE new == Wanted(items)
  <1>1. /\ new \in Seq(Items)
        /\ \A x : Has(new, x) <=> Has(items, x) /\ x \notin Unwanted
        /\ Distinct(items) => Distinct(new)
    BY WantedHas
  <1>2. \A x \in WantedItems : x \notin Unwanted
    BY DEF WantedItems
  <1> HIDE DEF new
  <1>3. turn.got = IF HasCap THEN Upto(cfg.cap, base \o new) ELSE base \o new
    BY DEF new
  <1> QED BY <1>1, <1>2, <1>3 DEF Takes

\* The walks by keys take the wanted of a page and end with the service's last.
LEMMA KeysetTurn ==
  ASSUME cfg.kind \in Keyset, NEW r, r.items \in Seq(Items)
  PROVE  LET base == IF cfg.kind = "drive" THEN <<>> ELSE got
         IN  got \in Seq(Items) =>
               /\ Takes(TurnOf(r), base, r.items)
               /\ TurnOf(r).next \in {r.token, None}
               /\ IF r.more
                  THEN r.token # EmptyText => TurnOf(r).next = r.token
                  ELSE r.token = (IF cfg.kind = "slack" THEN EmptyText
                                  ELSE IF cfg.kind = "linear" THEN r.token ELSE None)
                         => TurnOf(r).next = None
  <1> SUFFICES ASSUME got \in Seq(Items)
               PROVE  LET base == IF cfg.kind = "drive" THEN <<>> ELSE got
                      IN  /\ Takes(TurnOf(r), base, r.items)
                          /\ TurnOf(r).next \in {r.token, None}
                          /\ IF r.more
                             THEN r.token # EmptyText => TurnOf(r).next = r.token
                             ELSE r.token = (IF cfg.kind = "slack" THEN EmptyText
                                             ELSE IF cfg.kind = "linear" THEN r.token ELSE None)
                                    => TurnOf(r).next = None
    OBVIOUS
  <1> USE DEF HasCap, Filtering, Turn, UnlessEmpty
  <1>1. CASE cfg.kind = "slack" /\ scope = Top
    <2>1. TurnOf(r) = SlackChannels(got, r)
      BY <1>1 DEF TurnOf
    <2>2. Takes(TurnOf(r), got, r.items)
      <3>1. TurnOf(r).got = got \o Wanted(r.items)
        BY <2>1 DEF SlackChannels
      <3>2. ~HasCap /\ cfg.kind \in Filtering
        BY <1>1
      <3> HIDE DEF HasCap, Filtering
      <3> QED BY <3>1, <3>2, TakesWanted
    <2> QED BY <1>1, <2>1, <2>2 DEF SlackChannels
  <1>2. CASE cfg.kind = "slack" /\ scope # Top
    <2>1. TurnOf(r) = SlackMessages(got, cfg.cap, r)
      BY <1>2 DEF TurnOf
    <2>2. Takes(TurnOf(r), got, r.items)
      BY <1>2, <2>1, TakesAll DEF SlackMessages
    <2> QED BY <1>2, <2>1, <2>2 DEF SlackMessages
  <1>4. CASE cfg.kind = "drive"
    <2>1. TurnOf(r) = DriveFiles(r)
      BY <1>4 DEF TurnOf
    <2>2. Wanted(r.items) \in Seq(Items)
      BY WantedHas
    <2>3. <<>> \o Wanted(r.items) = Wanted(r.items)
      BY <2>2
    <2>4. Takes(TurnOf(r), <<>>, r.items)
      <3>1. TurnOf(r).got = <<>> \o Wanted(r.items) /\ <<>> \in Seq(Items)
        BY <2>1, <2>3 DEF DriveFiles
      <3>2. ~HasCap /\ cfg.kind \in Filtering
        BY <1>4
      <3> HIDE DEF HasCap, Filtering
      <3> QED BY <3>1, <3>2, TakesWanted
    <2> QED BY <1>4, <2>1, <2>4 DEF DriveFiles
  <1>5. CASE cfg.kind = "notion"
    <2>1. TurnOf(r) = NotionPages(got, cfg.cap, r)
      BY <1>5 DEF TurnOf
    <2>2. Takes(TurnOf(r), got, r.items)
      BY <1>5, <2>1, TakesWanted DEF NotionPages
    <2> QED BY <1>5, <2>1, <2>2 DEF NotionPages
  <1>6. CASE cfg.kind = "gmail"
    <2>1. TurnOf(r) = GmailIds(got, cfg.cap, r)
      BY <1>6 DEF TurnOf
    <2>2. Takes(TurnOf(r), got, r.items)
      BY <1>6, <2>1, TakesAll DEF GmailIds
    <2> QED BY <1>6, <2>1, <2>2 DEF GmailIds
  <1>7. CASE cfg.kind = "linear"
    <2>1. TurnOf(r) = LinearIssues(got, cfg.cap, r)
      BY <1>7 DEF TurnOf
    <2>2. Takes(TurnOf(r), got, r.items)
      BY <1>7, <2>1, TakesAll DEF LinearIssues
    <2> QED BY <1>7, <2>1, <2>2 DEF LinearIssues
  <1>8. CASE cfg.kind = "s3"
    <2>1. TurnOf(r) = S3Keys(got, cfg.cap, r)
      BY <1>8 DEF TurnOf
    <2>2. Takes(TurnOf(r), got, r.items)
      BY <1>8, <2>1, TakesWanted DEF S3Keys
    <2> QED BY <1>8, <2>1, <2>2 DEF S3Keys
  <1> QED BY <1>1, <1>2, <1>4, <1>5, <1>6, <1>7, <1>8 DEF Keyset

\* GitHub's walks take the wanted of a page and go on by its link.
LEMMA PagedTurn ==
  ASSUME cfg.kind = "github", NEW r, r.items \in Seq(Items), got \in Seq(Items)
  PROVE  Takes(TurnOf(r), got, r.items) /\ TurnOf(r).next = r.token
  <1>1. TurnOf(r) \in {GithubRepos(got, r), GithubIssues(got, r)}
    BY DEF TurnOf
  <1>2. TurnOf(r).got = got \o Wanted(r.items) /\ TurnOf(r).next = r.token
    BY <1>1 DEF GithubRepos, GithubIssues, Turn
  <1>3. ~HasCap /\ cfg.kind \in Filtering
    BY DEF HasCap, Filtering
  <1> QED BY <1>2, <1>3, TakesWanted

\* The other walks by position take the whole page.
LEMMA OffsetTurn ==
  ASSUME cfg.kind \in Offsets, NEW r, r.items \in Seq(Items), got \in Seq(Items)
  PROVE  LET end == Start + Len(r.items)
         IN  /\ TurnOf(r).got = IF HasCap THEN Upto(cfg.cap, got \o r.items) ELSE got \o r.items
             /\ TurnOf(r).next = IF \/ cfg.kind = "jira" /\ (r.items = <<>> \/ end >= r.total)
                                    \/ cfg.kind = "confluence" /\ Len(r.items) < cfg.size
                                    \/ cfg.kind = "offset" /\ KnownTotal(r) = None /\ Len(r.items) < cfg.size
                                    \/ cfg.kind = "offset" /\ KnownTotal(r) # None /\ end >= KnownTotal(r)[1]
                                 THEN None ELSE <<end>>
  <1> USE DEF HasCap, Turn
  <1>1. CASE cfg.kind = "jira"
    <2>1. TurnOf(r) = JiraIssues(got, cfg.cap, Start, r)
      BY <1>1 DEF TurnOf
    <2> QED BY <1>1, <2>1 DEF JiraIssues
  <1>2. CASE cfg.kind = "confluence"
    <2>1. TurnOf(r) = ConfluencePages(got, cfg.cap, Start, cfg.size, r)
      BY <1>2 DEF TurnOf
    <2> QED BY <1>2, <2>1 DEF ConfluencePages
  <1>3. CASE cfg.kind = "offset"
    <2>1. TurnOf(r) = OffsetItems(got, Start, cfg.size, KnownTotal(r), r)
      BY <1>3 DEF TurnOf
    <2> QED BY <1>3, <2>1 DEF OffsetItems
  <1> QED BY <1>1, <1>2, <1>3 DEF Offsets

\* URLs, files and rows come in one piece.
LEMMA OneShotTurn ==
  ASSUME cfg.kind \in OneShot, NEW r, r.items \in Seq(Items)
  PROVE  Takes(TurnOf(r), <<>>, r.items) /\ TurnOf(r).next = None
  <1> USE DEF HasCap, Filtering, Turn
  <1>1. <<>> \o r.items = r.items /\ Wanted(r.items) \in Seq(Items) /\ <<>> \in Seq(Items)
    BY WantedHas
  <1>2. CASE cfg.kind = "web"
    <2>1. TurnOf(r) = WebUrls(r)
      BY <1>2 DEF TurnOf
    <2>2. Takes(TurnOf(r), <<>>, r.items)
      BY <1>1, <1>2, <2>1, TakesAll DEF WebUrls
    <2> QED BY <2>1, <2>2 DEF WebUrls
  <1>3. CASE cfg.kind = "local-files"
    <2>1. TurnOf(r) = LocalFiles(r)
      BY <1>3 DEF TurnOf
    <2>2. <<>> \o Wanted(r.items) = Wanted(r.items)
      BY <1>1
    <2>3. Takes(TurnOf(r), <<>>, r.items)
      <3>1. TurnOf(r).got = <<>> \o Wanted(r.items) /\ <<>> \in Seq(Items)
        BY <2>1, <2>2 DEF LocalFiles
      <3>2. ~HasCap /\ cfg.kind \in Filtering
        BY <1>3
      <3> HIDE DEF HasCap, Filtering
      <3> QED BY <3>1, <3>2, TakesWanted
    <2> QED BY <2>1, <2>3 DEF LocalFiles
  <1>4. CASE cfg.kind = "postgres"
    <2>1. TurnOf(r) = PostgresRows(cfg.cap, r)
      BY <1>4 DEF TurnOf
    <2>2. Takes(TurnOf(r), <<>>, r.items)
      BY <1>1, <1>4, <2>1, TakesAll DEF PostgresRows
    <2> QED BY <2>1, <2>2 DEF PostgresRows
  <1> QED BY <1>2, <1>3, <1>4 DEF OneShot

\* What is read in one piece: all there is, or as many rows as the cap allows.
LEMMA OneShotPage ==
  ASSUME cfg.kind \in OneShot, NEW r \in OneShotReplies, present \in SUBSET Items, cfg.cap \in Nat
  PROVE  /\ r.items \in Seq(Items) /\ Distinct(r.items)
         /\ \A x : Has(r.items, x) => x \in present
         /\ \/ \A x \in present : Has(r.items, x)
            \/ cfg.kind = "postgres" /\ Len(r.items) = cfg.cap
  <1>1. PICK S \in SUBSET present :
           /\ r = [items |-> InOrder(S)]
           /\ S = present \/ (cfg.kind = "postgres" /\ Cardinality(S) = Least(cfg.cap, Cardinality(present)))
    BY DEF OneShotReplies
  <1>2. /\ present \in SUBSET Nat /\ IsFiniteSet(present) /\ Cardinality(present) \in Nat
        /\ S \in SUBSET Nat /\ IsFiniteSet(S) /\ Cardinality(S) \in Nat
    BY PresentFinite
  <1>3. /\ r.items \in Seq(S) /\ Distinct(r.items) /\ Len(r.items) = Cardinality(S)
        /\ \A x : Has(r.items, x) <=> x \in S
    BY <1>1, <1>2, InOrderHas, InOrderSpec
  <1>4. S = present \/ Cardinality(S) = cfg.cap \/ Cardinality(S) = Cardinality(present)
    BY <1>1 DEF Least
  <1>5. S = present \/ (cfg.kind = "postgres" /\ Len(r.items) = cfg.cap)
    BY <1>1, <1>2, <1>3, <1>4, FS_Subset
  <1>6. r.items \in Seq(Items)
    BY <1>3, SeqMonotonic
  <1> QED BY <1>3, <1>5, <1>6

\* What a turn makes of what was collected before it.
LEMMA TakesHas ==
  ASSUME NEW turn, NEW base \in Seq(Items), NEW items \in Seq(Items), cfg.cap \in Nat,
         Takes(turn, base, items)
  PROVE  /\ turn.got \in Seq(Items) /\ Len(turn.got) \in Nat
         /\ \A x : Has(turn.got, x) => Has(base, x) \/ Has(items, x)
         /\ (Distinct(base) /\ Distinct(items) /\ \A x : ~(Has(base, x) /\ Has(items, x)))
               => Distinct(turn.got)
         /\ (~HasCap \/ Len(turn.got) < cfg.cap) =>
               /\ \A x : Has(base, x) => Has(turn.got, x)
               /\ \A x \in WantedItems : Has(items, x) => Has(turn.got, x)
  <1>1. PICK new \in Seq(Items) :
          /\ Distinct(items) => Distinct(new)
          /\ \A x : Has(new, x) => Has(items, x)
          /\ \A x \in WantedItems : Has(items, x) => Has(new, x)
          /\ turn.got = IF HasCap THEN Upto(cfg.cap, base \o new) ELSE base \o new
    BY DEF Takes
  <1> DEFINE all == base \o new
  <1>2. /\ all \in Seq(Items)
        /\ \A x : Has(all, x) <=> Has(base, x) \/ Has(new, x)
        /\ (Distinct(base) /\ Distinct(new) /\ \A x : ~(Has(base, x) /\ Has(new, x))) => Distinct(all)
    BY HasConcat
  <1>3. turn.got = IF HasCap THEN Upto(cfg.cap, all) ELSE all
    BY <1>1
  <1> HIDE DEF all
  <1>4. /\ turn.got \in Seq(Items) /\ Len(turn.got) \in Nat
        /\ \A x : Has(turn.got, x) => Has(all, x)
        /\ Distinct(all) => Distinct(turn.got)
        /\ ~HasCap \/ Len(turn.got) < cfg.cap => turn.got = all
    BY <1>2, <1>3, UptoCuts
  <1> QED BY <1>1, <1>2, <1>4

\* A page that is asked for leaves everything well typed.
LEMMA AskType ==
  ASSUME Types, AskPage
  PROVE  /\ got' \in Seq(Items) /\ page' \in Seq(Items)
         /\ cursor' \in Cursors /\ prev' \in Cursors /\ total' \in Cursors
  <1>1. PICK r \in Replies :
          /\ IF cfg.kind = "drive" THEN page' = TurnOf(r).got /\ got' = got
             ELSE page' = page /\ got' = TurnOf(r).got
          /\ total' = IF cfg.kind = "offset" THEN KnownTotal(r) ELSE total
          /\ prev' = cursor /\ cursor' = TurnOf(r).next
    BY DEF AskPage
  <1>2. /\ cfg \in PlainConfigs /\ got \in Seq(Items) /\ page \in Seq(Items)
        /\ cursor \in Cursors /\ total \in Cursors /\ present \in SUBSET Items
    BY DEF Types
  <1>3. cfg.kind \in Kinds /\ cfg.size \in Nat /\ cfg.cap \in Nat
    BY <1>2, ConfigType
  <1>4. <<>> \in Seq(Items) /\ None \in Cursors
    BY DEF Cursors
  <1>5. CASE cfg.kind \in Keyset
    <2>1. r = KeysetReply
      BY <1>5 DEF Replies, Keyset, OneShot
    <2>2. r.items \in Seq(Items) /\ r.token \in Cursors
      BY <1>2, <2>1, KeysetPage
    <2> DEFINE base == IF cfg.kind = "drive" THEN <<>> ELSE got
    <2>3. Takes(TurnOf(r), base, r.items) /\ TurnOf(r).next \in {r.token, None}
      BY <1>2, <1>5, <2>2, KeysetTurn
    <2>4. base \in Seq(Items)
      BY <1>2, <1>4
    <2> HIDE DEF base
    <2>5. TurnOf(r).got \in Seq(Items) /\ TurnOf(r).next \in Cursors
      BY <1>3, <1>4, <2>2, <2>3, <2>4, TakesHas
    <2> QED BY <1>1, <1>2, <1>5, <2>5 DEF Keyset
  <1>6. CASE cfg.kind \in OneShot
    <2>1. r \in OneShotReplies
      BY <1>6 DEF Replies, Keyset, OneShot
    <2>2. r.items \in Seq(Items)
      BY <1>2, <1>3, <1>6, <2>1, OneShotPage
    <2>3. TurnOf(r).got \in Seq(Items) /\ TurnOf(r).next = None
      BY <1>3, <1>4, <1>6, <2>2, OneShotTurn, TakesHas
    <2> QED BY <1>1, <1>2, <1>4, <1>6, <2>3 DEF OneShot
  <1>7. CASE cfg.kind \in Offsets
    <2>1. r = OffsetReply
      BY <1>7 DEF Replies, Keyset, OneShot, Offsets
    <2>2. r.items \in Seq(Items) /\ Len(r.items) \in Nat /\ r.total \in Nat
      BY <1>2, <1>3, <2>1, OffsetPage, PresentFinite
    <2>3. /\ TurnOf(r).got = IF HasCap THEN Upto(cfg.cap, got \o r.items) ELSE got \o r.items
          /\ TurnOf(r).next \in {None, <<Start + Len(r.items)>>}
      BY <1>2, <1>7, <2>2, OffsetTurn
    <2>4. got \o r.items \in Seq(Items)
      BY <1>2, <2>2, HasConcat
    <2>5. TurnOf(r).got \in Seq(Items)
      <3>1. Upto(cfg.cap, got \o r.items) \in Seq(Items)
        BY <1>3, <2>4, UptoCuts
      <3> QED BY <2>3, <2>4, <3>1
    <2>6. Start + Len(r.items) \in Nat
      BY <1>2, <2>2, StartType
    <2>7. TurnOf(r).next \in Cursors
      BY <1>4, <2>3, <2>6 DEF Cursors
    <2>8. KnownTotal(r) \in Cursors
      BY <1>2, <2>2 DEF KnownTotal, Cursors
    <2> QED BY <1>1, <1>2, <1>7, <2>5, <2>7, <2>8 DEF Offsets
  <1>8. CASE cfg.kind = "github"
    <2>1. r = OffsetReply
      BY <1>8 DEF Replies, Keyset, OneShot
    <2>2. r.items \in Seq(Items) /\ r.token \in Cursors
      BY <1>2, <1>3, <2>1, OffsetPage
    <2>3. TurnOf(r).got \in Seq(Items) /\ TurnOf(r).next \in Cursors
      BY <1>2, <1>3, <1>8, <2>2, PagedTurn, TakesHas
    <2> QED BY <1>1, <1>2, <1>8, <2>3
  <1> QED BY <1>3, <1>5, <1>6, <1>7, <1>8 DEF Kinds, Positional, OneShot, Offsets

-----------------------------------------------------------------------------
(* The shape is kept by every step.                                         *)
LEMMA InitShape == Init => Shape
  <1> SUFFICES ASSUME Init PROVE Shape
    OBVIOUS
  <1>1. Types
    <2>1. <<>> \in Seq(Items) /\ <<>> \in Seq(Resources) /\ None \in Cursors
      BY DEF Cursors
    <2> QED BY <2>1 DEF Init, Types, None
  <1>2. Route
    BY DEF Init, Route, None
  <1> QED BY <1>1, <1>2 DEF Shape

LEMMA EnterType ==
  ASSUME NEW s \in Items \cup {Top}, EnterScope(s)
  PROVE  /\ scope' = s /\ cursor' = None /\ total' = None /\ got' = <<>>
         /\ present' \in SUBSET Items /\ stayed' \in SUBSET present'
         /\ changes' = changes
         /\ scope' \in Items \cup {Top} /\ got' \in Seq(Items)
         /\ cursor' \in Cursors /\ prev' \in Cursors /\ total' \in Cursors
  BY DEF EnterScope, Cursors

LEMMA ConstructShape ==
  ASSUME Shape, NEW f \in [Parts -> Values], NEW env \in Values, Construct(f, env)
  PROVE  Shape'
  <1>1. CASE Credential(cfg.kind, f, env) = Refused
    BY <1>1 DEF Construct, Shape, Types, Route, service, walk
  <1>2. CASE Credential(cfg.kind, f, env) # Refused
    <2>1. secret' = Credential(cfg.kind, f, env) /\ secret' \in Values \cup {NoSecret}
      BY <1>2, CredentialType DEF Construct
    <2>2. EnterScope(Top) /\ pc' = "ask" /\ pc = "new" /\ UNCHANGED <<cfg, parents, page, todo, out, owed>>
      BY <1>2 DEF Construct
    <2>3. /\ scope' = Top /\ cursor' = None /\ total' = None /\ got' = <<>>
          /\ present' \in SUBSET Items /\ stayed' \in SUBSET present'
          /\ changes' = changes
          /\ scope' \in Items \cup {Top} /\ got' \in Seq(Items)
          /\ cursor' \in Cursors /\ prev' \in Cursors /\ total' \in Cursors
      BY <2>2, EnterType
    <2>4. Types'
      BY <2>1, <2>2, <2>3 DEF Shape, Types
    <2>5. Route'
      BY <2>2, <2>3 DEF Shape, Route
    <2> QED BY <2>4, <2>5 DEF Shape
  <1> QED BY <1>1, <1>2

LEMMA AskShape ==
  ASSUME Shape, AskPage
  PROVE  Shape'
  <1>1. /\ pc = "ask" /\ UNCHANGED <<cfg, secret, present, changes, stayed, scope, parents, todo, out, owed>>
        /\ cfg.kind = "drive" => got' = got /\ pc' = "page"
        /\ cfg.kind # "drive" => page' = page /\ (pc' = IF cursor' = None THEN "walked" ELSE "ask")
    BY DEF AskPage, service
  <1>2. Types'
    BY <1>1, AskType DEF Shape, Types
  <1>3. Route'
    BY <1>1 DEF Shape, Route
  <1> QED BY <1>2, <1>3 DEF Shape

LEMMA ListedType ==
  ASSUME Types
  PROVE  /\ Listed \in Seq(Resources)
         /\ \A p : Has(Listed, p) <=>
                     \E x : p = <<scope, x>> /\ Has(got, x) /\ x \in WantedItems
         /\ Distinct(got) => Distinct(Listed)
  <1> DEFINE P == {n \in 1..Len(got) : got[n] \in WantedItems}
             kept == Pick(got, P)
  <1>1. got \in Seq(Items) /\ scope \in Items \cup {Top}
    BY DEF Types
  <1>2. Listed = [n \in 1..Len(kept) |-> <<scope, kept[n]>>]
    <2>1. DOMAIN got = 1..Len(got)
      BY <1>1
    <2>2. Listed = LET k == Pick(got, {n \in DOMAIN got : got[n] \in WantedItems})
                   IN  [n \in 1..Len(k) |-> <<scope, k[n]>>]
      BY DEF Listed
    <2> QED BY <2>1, <2>2
  <1>3. P \in SUBSET (1..Len(got)) /\ \A x : (\E n \in P : got[n] = x) <=> Has(got, x) /\ x \in WantedItems
    BY DEF Has
  <1> HIDE DEF P
  <1>4. /\ kept \in Seq(Items) /\ Len(kept) \in Nat
        /\ \A x : Has(kept, x) <=> Has(got, x) /\ x \in WantedItems
        /\ Distinct(got) => Distinct(kept)
    BY <1>1, <1>3, PickHas
  <1> HIDE DEF kept
  <1>5. Listed \in Seq(Resources) /\ Len(Listed) = Len(kept)
    <2>1. \A n \in 1..Len(kept) : <<scope, kept[n]>> \in Resources
      BY <1>1, <1>4 DEF Resources
    <2> QED BY <1>2, <1>4, <2>1
  <1>6. \A n \in 1..Len(Listed) : Listed[n] = <<scope, kept[n]>>
    BY <1>2, <1>5
  <1>7. \A p : Has(Listed, p) <=> \E x : p = <<scope, x>> /\ Has(kept, x)
    BY <1>5, <1>6 DEF Has
  <1>8. Distinct(kept) => Distinct(Listed)
    BY <1>5, <1>6 DEF Distinct
  <1> QED BY <1>4, <1>5, <1>7, <1>8

LEMMA EndShape ==
  ASSUME Shape, EndOfWalk
  PROVE  Shape'
  <1>1. /\ pc \in {"walked", "ask"}
        /\ UNCHANGED <<cfg, secret, present, changes, stayed, scope, cursor, prev, total, got, page>>
    BY DEF EndOfWalk, service, walk
  <1>2. \/ cfg.kind \in Nested /\ scope = Top /\ parents' = got /\ pc' = "scope" /\ UNCHANGED <<todo, out>>
        \/ cfg.kind \in Fetching /\ todo' = got /\ pc' = "fetch" /\ UNCHANGED <<parents, out>>
        \/ /\ cfg.kind \notin Fetching /\ (cfg.kind \in Nested => scope # Top)
           /\ out' = out \o Listed
           /\ (pc' = IF cfg.kind \in Nested THEN "scope" ELSE "done")
           /\ UNCHANGED <<todo, parents>>
    BY DEF EndOfWalk
  <1>3. Listed \in Seq(Resources)
    BY ListedType DEF Shape
  <1>4. out \o Listed \in Seq(Resources)
    BY <1>3 DEF Shape, Types
  <1>5. Types'
    BY <1>1, <1>2, <1>4 DEF Shape, Types
  <1>6. Route'
    BY <1>1, <1>2 DEF Shape, Route, Nested, Fetching, OneShot
  <1> QED BY <1>5, <1>6 DEF Shape

LEMMA ScopeShape ==
  ASSUME Shape, NextScope \/ LastScope
  PROVE  Shape'
  <1>1. CASE NextScope
    <2>1. /\ pc = "scope" /\ parents # <<>> /\ EnterScope(Head(parents)) /\ parents' = Tail(parents)
          /\ (pc' = IF cfg.kind = "github" THEN "shim" ELSE "ask")
          /\ UNCHANGED <<cfg, secret, page, todo, out, owed>>
      BY <1>1 DEF NextScope
    <2>2. Tail(parents) \in Seq(Items) /\ Head(parents) \in Items
      BY <2>1 DEF Shape, Types
    <2>3. /\ scope' = Head(parents) /\ cursor' = None /\ total' = None /\ got' = <<>>
          /\ present' \in SUBSET Items /\ stayed' \in SUBSET present'
          /\ changes' = changes
          /\ scope' \in Items \cup {Top} /\ got' \in Seq(Items)
          /\ cursor' \in Cursors /\ prev' \in Cursors /\ total' \in Cursors
      BY <2>1, <2>2, EnterType
    <2>4. scope' # Top
      BY <2>2, <2>3, ConnectorsAssumption DEF Top
    <2>5. cfg.kind \in Nested
      BY <2>1 DEF Shape, Route
    <2>6. Types'
      BY <2>1, <2>2, <2>3 DEF Shape, Types
    <2>7. Route'
      BY <2>1, <2>3, <2>4, <2>5 DEF Shape, Route, Nested, Fetching, OneShot
    <2> QED BY <2>6, <2>7 DEF Shape
  <1>2. CASE LastScope
    BY <1>2 DEF LastScope, Shape, Types, Route, service, walk, Nested, Fetching, OneShot
  <1> QED BY <1>1, <1>2

LEMMA BodyShape ==
  ASSUME Shape, NEW shape, BodyTaken(shape) \/ BodySkipped(shape)
  PROVE  Shape'
  <1>1. /\ pc = "fetch" /\ todo # <<>> /\ todo' = Tail(todo)
        /\ out' \in {out, Append(out, <<scope, Head(todo)>>)}
        /\ UNCHANGED <<cfg, secret, present, changes, stayed, pc, scope, parents, cursor, prev, total,
                       got, page, owed>>
    BY DEF BodyTaken, BodySkipped, service, walk
  <1>2. Tail(todo) \in Seq(Items) /\ Head(todo) \in Items
    BY <1>1 DEF Shape, Types
  <1>3. Append(out, <<scope, Head(todo)>>) \in Seq(Resources)
    <2>1. <<scope, Head(todo)>> \in Resources
      BY <1>2 DEF Shape, Types, Resources
    <2> QED BY <2>1, HasAppend DEF Shape, Types
  <1>4. Types'
    BY <1>1, <1>2, <1>3 DEF Shape, Types
  <1>5. Route'
    BY <1>1 DEF Shape, Route
  <1> QED BY <1>4, <1>5 DEF Shape

LEMMA DriveShape ==
  ASSUME Shape, NEW shape, DriveFile(shape) \/ \E exported : DriveAnswered(shape, exported)
  PROVE  Shape'
  <1>1. CASE DriveFile(shape)
    <2>1. Tail(page) \in Seq(Items)
      BY <1>1 DEF DriveFile, Shape, Types
    <2>2. Types'
      BY <1>1, <2>1 DEF DriveFile, Shape, Types, service, walk
    <2>3. Route'
      BY <1>1 DEF DriveFile, Shape, Route, service, walk
    <2> QED BY <2>2, <2>3 DEF Shape
  <1>2. ASSUME NEW exported, DriveAnswered(shape, exported) PROVE Shape'
    <2>1. /\ pc = "shim" /\ cfg.kind = "drive" /\ page # <<>>
          /\ \/ pc' = "page" /\ page' = Tail(page)
             \/ pc' = "failed" /\ page' = page
          /\ out' \in {out, Append(out, <<scope, Head(page)>>)}
          /\ UNCHANGED <<cfg, secret, present, changes, stayed, scope, parents, todo, cursor, prev,
                         total, got, owed>>
      BY <1>2 DEF DriveAnswered, service, walk, Shape, Route
    <2>2. Tail(page) \in Seq(Items) /\ Head(page) \in Items
      BY <2>1 DEF Shape, Types
    <2>3. Append(out, <<scope, Head(page)>>) \in Seq(Resources)
      <3>1. <<scope, Head(page)>> \in Resources
        BY <2>2 DEF Shape, Types, Resources
      <3> QED BY <3>1, HasAppend DEF Shape, Types
    <2>4. Types'
      BY <2>1, <2>2, <2>3 DEF Shape, Types
    <2>5. Route'
      BY <2>1 DEF Shape, Route
    <2> QED BY <2>4, <2>5 DEF Shape
  <1> QED BY <1>1, <1>2

LEMMA GithubShape ==
  ASSUME Shape, GithubAnswered
  PROVE  Shape'
  <1>1. /\ pc = "shim" /\ cfg.kind = "github" /\ pc' \in {"ask", "scope"}
        /\ out' \in {out, Append(out, <<scope, Readme>>)}
        /\ UNCHANGED <<cfg, secret, present, changes, stayed, scope, parents, todo, cursor, prev,
                       total, got, page, owed>>
    BY DEF GithubAnswered, service, walk
  <1>2. Append(out, <<scope, Readme>>) \in Seq(Resources)
    <2>1. <<scope, Readme>> \in Resources
      BY DEF Shape, Types, Resources
    <2> QED BY <2>1, HasAppend DEF Shape, Types
  <1>3. Types'
    BY <1>1, <1>2 DEF Shape, Types
  <1>4. Route'
    BY <1>1 DEF Shape, Route, Nested, Fetching, OneShot
  <1> QED BY <1>3, <1>4 DEF Shape

\* The other steps move the listing to another place and leave the rest.
LEMMA PlaceShape ==
  ASSUME Shape,
         \/ AskFails \/ CursorLoop \/ BodiesEnd \/ DrivePageEnds \/ ShimFails
         \/ \E shape : RowPanics(shape)
         \/ \E signals : ShimRefused(signals)
  PROVE  Shape'
  <1>1. UNCHANGED <<cfg, secret, present, changes, stayed, scope, parents, todo, cursor, prev, total,
                    got, page, out, owed>>
    BY DEF AskFails, CursorLoop, WalkFails, BodiesEnd, DrivePageEnds, ShimFails, RowPanics,
           ShimRefused, service, walk
  <1>2. \/ pc' \in {"failed", "panicked"} \/ pc' = pc
        \/ pc' = "scope" /\ cfg.kind = "slack"
        \/ pc = "fetch" /\ pc' = "done" /\ todo = <<>>
        \/ pc = "page" /\ page = <<>> /\ (pc' = IF cursor = None THEN "walked" ELSE "ask")
    BY DEF AskFails, CursorLoop, WalkFails, BodiesEnd, DrivePageEnds, ShimFails, RowPanics, ShimRefused
  <1>3. Types'
    BY <1>1, <1>2 DEF Shape, Types
  <1>4. Route'
    BY <1>1, <1>2 DEF Shape, Route, Nested, Fetching, OneShot
  <1> QED BY <1>3, <1>4 DEF Shape

LEMMA ChangeShape ==
  ASSUME Shape, NEW i \in Items, Come(i) \/ Go(i)
  PROVE  Shape'
  <1>1. changes.ins \in Nat /\ changes.del \in Nat /\ changes \in [ins : Nat, del : Nat]
    BY DEF Shape, Types
  <1>2. changes.ins + 1 \in Nat /\ changes.del + 1 \in Nat
    BY <1>1
  <1>3. changes' \in [ins : Nat, del : Nat]
    BY <1>1, <1>2 DEF Come, Go
  <1>4. present' \in SUBSET Items /\ stayed' \in SUBSET present'
    BY DEF Come, Go, Shape, Types
  <1>5. UNCHANGED <<cfg, secret, pc, scope, parents, cursor, prev, total, got, page, todo, out, owed>>
    BY DEF Come, Go, walk
  <1>6. Types'
    BY <1>3, <1>4, <1>5 DEF Shape, Types
  <1>7. Route'
    BY <1>5 DEF Shape, Route
  <1> QED BY <1>6, <1>7 DEF Shape

LEMMA StutterShape ==
  ASSUME Shape, UNCHANGED vars
  PROVE  Shape'
  BY DEF Shape, Types, Route, vars

LEMMA StepShape == Shape /\ [Next]_vars => Shape'
  <1> SUFFICES ASSUME Shape, [Next]_vars PROVE Shape'
    OBVIOUS
  <1>1. ASSUME NEW f \in [Parts -> Values], NEW env \in Values, Construct(f, env) PROVE Shape'
    BY <1>1, ConstructShape
  <1>2. CASE AskPage
    BY <1>2, AskShape
  <1>3. CASE EndOfWalk
    BY <1>3, EndShape
  <1>4. CASE NextScope \/ LastScope
    BY <1>4, ScopeShape
  <1>5. CASE AskFails \/ CursorLoop \/ BodiesEnd \/ DrivePageEnds \/ ShimFails
    BY <1>5, PlaceShape
  <1>6. CASE GithubAnswered
    BY <1>6, GithubShape
  <1>7. ASSUME NEW shape, BodyTaken(shape) \/ BodySkipped(shape) PROVE Shape'
    BY <1>7, BodyShape
  <1>8. ASSUME NEW shape, RowPanics(shape) PROVE Shape'
    BY <1>8, PlaceShape
  <1>9. ASSUME NEW shape, DriveFile(shape) \/ \E exported \in BOOLEAN : DriveAnswered(shape, exported)
        PROVE  Shape'
    BY <1>9, DriveShape
  <1>10. ASSUME NEW signals, ShimRefused(signals) PROVE Shape'
    BY <1>10, PlaceShape
  <1>11. ASSUME NEW i \in Items, Come(i) \/ Go(i) PROVE Shape'
    BY <1>11, ChangeShape
  <1>12. CASE UNCHANGED vars
    BY <1>12, StutterShape
  <1> QED
    BY <1>1, <1>2, <1>3, <1>4, <1>5, <1>6, <1>7, <1>8, <1>9, <1>10, <1>11, <1>12 DEF Next, ListStep

LEMMA ShapeInvariant == Spec => []Shape
  BY InitShape, StepShape, PTL DEF Spec

(***************************************************************************)
(* The types of Connectors, for every service and every configuration: the *)
(* cursors a walk is given, the items it collects, the attempts of a shim. *)
(***************************************************************************)
THEOREM TypeCorrect == Spec => []TypeOK
  <1>1. Shape /\ Paid => TypeOK
    <2> SUFFICES ASSUME Shape, Paid PROVE TypeOK
      OBVIOUS
    <2>1. cfg \in Configs
      BY ConfigType DEF Shape, Types
    <2>2. \A o \in {cursor, prev, total} : o = None \/ (Len(o) = 1 /\ o[1] \in Nat)
      BY CursorType DEF Shape, Types
    <2>3. attempt < Tries /\ sent \in Nat
      BY DEF Paid
    <2> QED BY <2>1, <2>2, <2>3 DEF TypeOK, Shape, Types, Resources
  <1> QED BY <1>1, ShapeInvariant, AttemptsArePaid, PTL

-----------------------------------------------------------------------------
(* What a request adds to a walk.                                           *)
Collected == IF cfg.kind = "drive" THEN page ELSE got

\* By keys: something of what follows the key, and all that is wanted of it up
\* to the next key.
LEMMA KeysetAsk ==
  ASSUME Shape, AskPage, cfg.kind \in Keyset, cfg.mode = "sound"
  PROVE  /\ IF cfg.kind = "drive" THEN UNCHANGED got ELSE UNCHANGED page
         /\ cursor' # None => cursor'[1] \in Nat /\ Start < cursor'[1]
         /\ \A x : Has(Collected', x) =>
                     \/ Has(Collected, x)
                     \/ x \in present /\ Start < x /\ (cursor' # None => x <= cursor'[1])
         /\ (Distinct(Collected) /\ \A x \in Items : Has(Collected, x) => x <= Start)
               => Distinct(Collected')
         /\ ~Capped' =>
               /\ \A x : Has(Collected, x) => Has(Collected', x)
               /\ \A x \in present \cap WantedItems :
                     Start < x /\ (cursor' # None => x <= cursor'[1]) => Has(Collected', x)
  <1>1. PICK r \in Replies :
          /\ IF cfg.kind = "drive" THEN page' = TurnOf(r).got /\ got' = got
             ELSE page' = page /\ got' = TurnOf(r).got
          /\ cursor' = TurnOf(r).next
    BY DEF AskPage
  <1>2. /\ cfg \in PlainConfigs /\ got \in Seq(Items) /\ page \in Seq(Items)
        /\ cursor \in Cursors /\ present \in SUBSET Items
    BY DEF Shape, Types
  <1>3. cfg.cap \in Nat /\ UNCHANGED <<cfg, scope>> /\ pc = "ask" /\ page = <<>>
    BY <1>2, ConfigType DEF AskPage, Shape, Route
  <1>4. r = KeysetReply
    BY DEF Replies, Keyset, OneShot
  <1>5. /\ r.items \in Seq(Items) /\ Distinct(r.items)
        /\ \A x : Has(r.items, x) => x \in present /\ x > Start
        /\ r.token \in Cursors /\ r.more \in BOOLEAN
        /\ IF r.more
           THEN \E n \in Items :
                   /\ r.token = <<n>> /\ Start < n
                   /\ \A x : Has(r.items, x) => x <= n
                   /\ \A x \in present : Start < x /\ x <= n => Has(r.items, x)
           ELSE /\ \A x \in present : Start < x => Has(r.items, x)
                /\ r.token = IF cfg.kind = "slack" THEN EmptyText
                             ELSE IF cfg.kind = "linear" THEN r.token ELSE None
    BY <1>2, <1>4, KeysetPage
  <1> DEFINE base == IF cfg.kind = "drive" THEN <<>> ELSE got
             turn == TurnOf(r)
  <1>6. /\ Takes(turn, base, r.items)
        /\ turn.next \in {r.token, None}
        /\ IF r.more
           THEN r.token # EmptyText => turn.next = r.token
           ELSE r.token = (IF cfg.kind = "slack" THEN EmptyText
                           ELSE IF cfg.kind = "linear" THEN r.token ELSE None)
                  => turn.next = None
    BY <1>2, <1>5, KeysetTurn
  <1>7. base = Collected /\ base \in Seq(Items) /\ Collected' = turn.got
    BY <1>1, <1>2, <1>3 DEF Collected
  <1> HIDE DEF turn, base
  <1>8. /\ cursor' # None => cursor'[1] \in Nat /\ Start < cursor'[1]
        /\ \A x : Has(r.items, x) /\ cursor' # None => x <= cursor'[1]
        /\ \A x \in present : Start < x /\ (cursor' # None => x <= cursor'[1]) => Has(r.items, x)
    <2>1. CASE r.more
      <3>1. PICK n \in Items :
               /\ r.token = <<n>> /\ Start < n
               /\ \A x : Has(r.items, x) => x <= n
               /\ \A x \in present : Start < x /\ x <= n => Has(r.items, x)
        BY <1>5, <2>1
      <3>2. n \in Nat /\ n # 0
        BY ConnectorsAssumption
      <3>3. r.token # EmptyText
        BY <3>1, <3>2 DEF EmptyText
      <3>4. cursor' = <<n>>
        <4>1. turn.next = r.token
          BY <1>6, <2>1, <3>3
        <4> QED BY <1>1, <3>1, <4>1 DEF turn
      <3>5. cursor'[1] = n /\ cursor' # None
        BY <3>4 DEF None
      <3> QED BY <3>1, <3>2, <3>5
    <2>2. CASE ~r.more
      <3>1. cursor' = None
        BY <1>1, <1>5, <1>6, <2>2 DEF turn
      <3> QED BY <1>5, <2>2, <3>1
    <2> QED BY <2>1, <2>2
  <1>9. /\ \A x : Has(turn.got, x) => Has(base, x) \/ Has(r.items, x)
        /\ (Distinct(base) /\ Distinct(r.items) /\ \A x : ~(Has(base, x) /\ Has(r.items, x)))
              => Distinct(turn.got)
        /\ (~HasCap \/ Len(turn.got) < cfg.cap) =>
              /\ \A x : Has(base, x) => Has(turn.got, x)
              /\ \A x \in WantedItems : Has(r.items, x) => Has(turn.got, x)
        /\ Len(turn.got) \in Nat
    BY <1>3, <1>5, <1>6, <1>7, TakesHas
  <1>10. ~Capped' => ~HasCap \/ Len(turn.got) < cfg.cap
    <2>1. HasCap => got' = turn.got
      BY <1>1 DEF HasCap, turn
    <2>2. Capped' <=> HasCap /\ Len(got') >= cfg.cap
      BY <1>3 DEF Capped, HasCap
    <2> QED BY <1>3, <1>9, <2>1, <2>2
  <1>11. IF cfg.kind = "drive" THEN UNCHANGED got ELSE UNCHANGED page
    BY <1>1
  <1>12. ASSUME Distinct(Collected), \A x \in Items : Has(Collected, x) => x <= Start
         PROVE  Distinct(Collected')
    <2>1. \A x : Has(Collected, x) => x \in Items
      BY <1>7, HasIsMember
    <2>2. \A x : ~(Has(base, x) /\ Has(r.items, x))
      <3> SUFFICES ASSUME NEW x, Has(base, x), Has(r.items, x) PROVE FALSE
        OBVIOUS
      <3>1. x <= Start /\ x > Start /\ x \in Nat
        BY <1>5, <1>7, <1>12, <2>1, <1>2, PresentFinite
      <3>2. Start \in Nat
        BY <1>2, StartType
      <3> QED BY <3>1, <3>2
    <2> QED BY <1>5, <1>7, <1>9, <1>12, <2>2
  <1>13. \A x : Has(Collected', x) =>
            \/ Has(Collected, x)
            \/ x \in present /\ Start < x /\ (cursor' # None => x <= cursor'[1])
    <2> SUFFICES ASSUME NEW x, Has(turn.got, x), ~Has(base, x)
                 PROVE  x \in present /\ Start < x /\ (cursor' # None => x <= cursor'[1])
      BY <1>7
    <2>1. Has(r.items, x)
      BY <1>9
    <2>2. x \in present /\ x > Start /\ x \in Nat /\ Start \in Nat
      BY <1>2, <1>5, <2>1, PresentFinite, StartType
    <2> QED BY <1>8, <2>1, <2>2
  <1>14. ASSUME ~Capped'
         PROVE  /\ \A x : Has(Collected, x) => Has(Collected', x)
                /\ \A x \in present \cap WantedItems :
                      Start < x /\ (cursor' # None => x <= cursor'[1]) => Has(Collected', x)
    BY <1>7, <1>8, <1>9, <1>10, <1>14
  <1> QED BY <1>8, <1>11, <1>12, <1>13, <1>14

\* By position: the items of the page, and the end by the rule of the connector.
LEMMA OffsetAsk ==
  ASSUME Shape, AskPage, cfg.kind \in Offsets
  PROVE  \E items \in Seq(Items) :
           LET end == Start + Len(items)
           IN  /\ UNCHANGED page
               /\ Distinct(items) /\ Len(items) \in Nat
               /\ \A x : Has(items, x) <=> /\ x \in present
                                           /\ Start < Rank(present, x) /\ Rank(present, x) <= end
               /\ Len(items) < PageSize => end >= Cardinality(present)
               /\ got' = IF HasCap THEN Upto(cfg.cap, got \o items) ELSE got \o items
               /\ cursor' = IF \/ cfg.kind = "jira" /\ (items = <<>> \/ end >= Cardinality(present))
                               \/ cfg.kind = "confluence" /\ Len(items) < cfg.size
                               \/ cfg.kind = "offset" /\ total' = None /\ Len(items) < cfg.size
                               \/ cfg.kind = "offset" /\ total' # None /\ end >= total'[1]
                            THEN None ELSE <<end>>
               /\ total' = IF cfg.kind = "offset" /\ cfg.totals /\ total = None
                           THEN <<Cardinality(present)>> ELSE total
  <1>1. PICK r \in Replies :
          /\ page' = page /\ got' = TurnOf(r).got
          /\ total' = IF cfg.kind = "offset" THEN KnownTotal(r) ELSE total
          /\ cursor' = TurnOf(r).next
    BY DEF AskPage, Offsets
  <1>2. /\ cfg \in PlainConfigs /\ got \in Seq(Items) /\ page \in Seq(Items)
        /\ cursor \in Cursors /\ present \in SUBSET Items
    BY DEF Shape, Types
  <1>3. cfg.size \in Nat
    BY <1>2, ConfigType
  <1>4. r = OffsetReply
    BY DEF Replies, Keyset, OneShot, Offsets
  <1>5. /\ r.items \in Seq(Items) /\ Distinct(r.items) /\ Len(r.items) \in Nat
        /\ \A x : Has(r.items, x) <=>
                    /\ x \in present
                    /\ Start < Rank(present, x) /\ Rank(present, x) <= Start + Len(r.items)
        /\ Len(r.items) < PageSize => Start + Len(r.items) >= Cardinality(present)
        /\ r.total = Cardinality(present)
    BY <1>2, <1>3, <1>4, OffsetPage
  <1>6. total' = IF cfg.kind = "offset" /\ cfg.totals /\ total = None
                 THEN <<Cardinality(present)>> ELSE total
    BY <1>1, <1>5 DEF KnownTotal
  <1> DEFINE end == Start + Len(r.items)
  <1>7. /\ got' = IF HasCap THEN Upto(cfg.cap, got \o r.items) ELSE got \o r.items
        /\ cursor' = IF \/ cfg.kind = "jira" /\ (r.items = <<>> \/ end >= r.total)
                        \/ cfg.kind = "confluence" /\ Len(r.items) < cfg.size
                        \/ cfg.kind = "offset" /\ KnownTotal(r) = None /\ Len(r.items) < cfg.size
                        \/ cfg.kind = "offset" /\ KnownTotal(r) # None /\ end >= KnownTotal(r)[1]
                     THEN None ELSE <<end>>
    BY <1>1, <1>2, <1>5, OffsetTurn
  <1>8. cfg.kind = "offset" => total' = KnownTotal(r)
    BY <1>1
  <1> HIDE DEF end
  <1>9. cursor' = IF \/ cfg.kind = "jira" /\ (r.items = <<>> \/ end >= Cardinality(present))
                     \/ cfg.kind = "confluence" /\ Len(r.items) < cfg.size
                     \/ cfg.kind = "offset" /\ total' = None /\ Len(r.items) < cfg.size
                     \/ cfg.kind = "offset" /\ total' # None /\ end >= total'[1]
                  THEN None ELSE <<end>>
    BY <1>5, <1>7, <1>8
  <1> QED BY <1>1, <1>5, <1>6, <1>7, <1>9 DEF end

\* By GitHub's page numbers: what is wanted of the page, and the next page if the
\* present one does not reach the end.
LEMMA PagedAsk ==
  ASSUME Shape, AskPage, cfg.kind = "github", cfg.mode = "sound"
  PROVE  \E end \in Nat :
           /\ UNCHANGED page /\ Start <= end
           /\ cursor' = <<end>> \/ (cursor' = None /\ end >= Cardinality(present))
           /\ \A x : Has(got, x) => Has(got', x)
           /\ \A x : Has(got', x) =>
                  \/ Has(got, x)
                  \/ x \in present /\ Start < Rank(present, x) /\ Rank(present, x) <= end
           /\ \A x \in present \cap WantedItems :
                  Start < Rank(present, x) /\ Rank(present, x) <= end => Has(got', x)
           /\ (Distinct(got) /\ \A x \in present : Has(got, x) => Rank(present, x) <= Start)
                 => Distinct(got')
  <1>1. PICK r \in Replies : page' = page /\ got' = TurnOf(r).got /\ cursor' = TurnOf(r).next
    BY DEF AskPage
  <1>2. /\ cfg \in PlainConfigs /\ got \in Seq(Items)
        /\ cursor \in Cursors /\ present \in SUBSET Items
    BY DEF Shape, Types
  <1>3. cfg.size \in Nat /\ cfg.cap \in Nat /\ ~HasCap /\ Start \in Nat
    BY <1>2, ConfigType, StartType DEF HasCap
  <1>4. r = OffsetReply
    BY DEF Replies, Keyset, OneShot
  <1>5. /\ r.items \in Seq(Items) /\ Distinct(r.items) /\ Len(r.items) \in Nat
        /\ \A x : Has(r.items, x) <=>
                    /\ x \in present
                    /\ Start < Rank(present, x) /\ Rank(present, x) <= Start + Len(r.items)
        /\ \/ r.token = <<Start + Len(r.items)>>
           \/ r.token = None /\ Start + Len(r.items) >= Cardinality(present)
    BY <1>2, <1>3, <1>4, OffsetPage
  <1>6. Takes(TurnOf(r), got, r.items) /\ cursor' = r.token
    BY <1>1, <1>2, <1>5, PagedTurn
  <1> DEFINE end == Start + Len(r.items)
  <1>7. end \in Nat /\ Start <= end
    BY <1>3, <1>5
  <1>8. /\ \A x : Has(got', x) => Has(got, x) \/ Has(r.items, x)
        /\ (Distinct(got) /\ \A x : ~(Has(got, x) /\ Has(r.items, x))) => Distinct(got')
        /\ \A x : Has(got, x) => Has(got', x)
        /\ \A x \in WantedItems : Has(r.items, x) => Has(got', x)
    BY <1>1, <1>2, <1>3, <1>5, <1>6, TakesHas
  <1> HIDE DEF end
  <1>9. \A x : Has(r.items, x) <=>
               x \in present /\ Start < Rank(present, x) /\ Rank(present, x) <= end
    BY <1>5 DEF end
  <1>10. \A x \in present : Rank(present, x) \in Nat
    BY <1>2, PresentFinite, RankGrows
  <1>11. (\A x \in present : Has(got, x) => Rank(present, x) <= Start)
            => \A x : ~(Has(got, x) /\ Has(r.items, x))
    BY <1>3, <1>9, <1>10
  <1>12. cursor' = <<end>> \/ (cursor' = None /\ end >= Cardinality(present))
    BY <1>5, <1>6 DEF end
  <1> QED BY <1>1, <1>7, <1>8, <1>9, <1>11, <1>12

\* In one piece: all that is wanted, or as many rows as the cap allows.
LEMMA OneShotAsk ==
  ASSUME Shape, AskPage, cfg.kind \in OneShot
  PROVE  /\ UNCHANGED page /\ cursor' = None
         /\ Distinct(got')
         /\ ~Capped' => \A x \in present \cap WantedItems : Has(got', x)
  <1>1. PICK r \in Replies : page' = page /\ got' = TurnOf(r).got /\ cursor' = TurnOf(r).next
    BY DEF AskPage, OneShot
  <1>2. /\ cfg \in PlainConfigs /\ got \in Seq(Items) /\ present \in SUBSET Items
        /\ UNCHANGED <<cfg, scope>>
    BY DEF Shape, Types, AskPage
  <1>3. cfg.cap \in Nat
    BY <1>2, ConfigType
  <1>4. r \in OneShotReplies
    BY DEF Replies, Keyset, OneShot
  <1>5. /\ r.items \in Seq(Items) /\ Distinct(r.items)
        /\ \A x : Has(r.items, x) => x \in present
        /\ \/ \A x \in present : Has(r.items, x)
           \/ cfg.kind = "postgres" /\ Len(r.items) = cfg.cap
    BY <1>2, <1>3, <1>4, OneShotPage
  <1>6. Takes(TurnOf(r), <<>>, r.items) /\ TurnOf(r).next = None /\ <<>> \in Seq(Items)
    BY <1>5, OneShotTurn
  <1>7. /\ Distinct(got') /\ Len(got') \in Nat
        /\ (~HasCap \/ Len(got') < cfg.cap) => \A x \in WantedItems : Has(r.items, x) => Has(got', x)
    BY <1>1, <1>3, <1>5, <1>6, HasNothing, TakesHas
  <1>8. Capped' <=> HasCap /\ Len(got') >= cfg.cap
    BY <1>2 DEF Capped, HasCap
  <1>9. cfg.kind = "postgres" /\ Len(r.items) = cfg.cap => Capped'
    <2> SUFFICES ASSUME cfg.kind = "postgres", Len(r.items) = cfg.cap PROVE Capped'
      OBVIOUS
    <2>1. TurnOf(r).got = Upto(cfg.cap, r.items)
      BY DEF TurnOf, PostgresRows, Turn
    <2>2. Len(got') = Least(cfg.cap, Len(r.items))
      BY <1>1, <1>3, <1>5, <2>1, UptoCuts
    <2>3. Len(got') = cfg.cap
      BY <1>3, <2>2 DEF Least
    <2> QED BY <1>3, <1>8, <2>3 DEF HasCap
  <1> QED BY <1>1, <1>3, <1>5, <1>6, <1>7, <1>8, <1>9

-----------------------------------------------------------------------------
(* Nothing is taken twice while the service moves its cursors on and, under *)
(* a walk by position, adds nothing: a walk has taken only what lies before its *)
(* cursor, and what is listed is neither taken again nor left to be.        *)
Calm == cfg.mode = "sound" /\ (cfg.kind \in Positional => changes.ins = 0)

\* What the walk of a scope has given so far; Drive lists it page by page.
Taken(x) == Has(got, x) \/ Has(page, x) \/ (cfg.kind = "drive" /\ Has(out, <<Top, x>>))

WalkOnce ==
    /\ Distinct(got) /\ Distinct(page)
    /\ cfg.kind \in Keyset /\ cursor # None => \A x \in Items : Taken(x) => x <= cursor[1]
    /\ cfg.kind \in Positional /\ cursor # None =>
          \A x \in present : Has(got, x) => Rank(present, x) <= cursor[1]

OutOnce ==
    /\ Distinct(out) /\ Distinct(todo) /\ Distinct(parents)
    /\ \A x : Has(page, x) \/ Has(todo, x) => ~Has(out, <<Top, x>>)
    /\ ~Has(parents, scope)
    /\ \A p : Has(out, p) => ~Has(parents, p[1])
    /\ pc = "shim" /\ cfg.kind = "github" => \A p : Has(out, p) => p[1] # scope
    /\ pc \in {"ask", "walked"} /\ cfg.kind \in Nested =>
          \A p : Has(out, p) /\ p[1] = scope => p[2] = Readme

Once == Calm => WalkOnce /\ OutOnce

LEMMA InitOnce == Init => Once
  BY HasNothing DEF Init, Once, WalkOnce, OutOnce, None

LEMMA ConstructOnce ==
  ASSUME Shape, Once, NEW f, NEW env, Construct(f, env)
  PROVE  Once'
  <1>1. CASE Credential(cfg.kind, f, env) = Refused
    BY <1>1 DEF Construct, Once, Calm, WalkOnce, OutOnce, Taken, service, walk
  <1>2. CASE Credential(cfg.kind, f, env) # Refused
    <2>1. /\ EnterScope(Top) /\ UNCHANGED <<parents, page, todo, out>>
          /\ parents = <<>> /\ page = <<>> /\ todo = <<>> /\ out = <<>>
      BY <1>2 DEF Construct, Shape, Route
    <2>2. cursor' = None /\ got' = <<>>
      BY <2>1 DEF EnterScope
    <2> QED BY <2>1, <2>2, HasNothing DEF Once, WalkOnce, OutOnce
  <1> QED BY <1>1, <1>2

\* At a request, everything taken lies before the start of the page.
LEMMA TakenBefore ==
  ASSUME Shape, WalkOnce, pc = "ask"
  PROVE  /\ Start \in Nat /\ page = <<>>
         /\ cfg.kind \in Keyset => \A x \in Items : Taken(x) => x <= Start
         /\ cfg.kind \in Positional => \A x \in present : Has(got, x) => Rank(present, x) <= Start
  <1>1. Start \in Nat /\ (cursor # None => Start = cursor[1])
    BY StartType DEF Shape, Types
  <1>2. page = <<>>
    BY DEF Shape, Route
  <1>3. CASE cursor = None
    <2>1. got = <<>> /\ (cfg.kind = "drive" => out = <<>>)
      BY <1>3 DEF Shape, Route
    <2>2. \A x : ~Taken(x)
      BY <1>2, <2>1, HasNothing DEF Taken
    <2> QED BY <1>1, <1>2, <2>1, <2>2, HasNothing
  <1>4. CASE cursor # None
    BY <1>1, <1>2, <1>4 DEF WalkOnce
  <1> QED BY <1>3, <1>4

LEMMA AskWalkOnce ==
  ASSUME Shape, WalkOnce, AskPage, cfg.mode = "sound"
  PROVE  WalkOnce'
  <1>1. /\ pc = "ask" /\ UNCHANGED <<cfg, present, out>> /\ page = <<>>
        /\ cfg \in PlainConfigs /\ got \in Seq(Items) /\ page \in Seq(Items) /\ present \in SUBSET Items
    BY DEF AskPage, service, Shape, Types, Route
  <1>2. /\ Start \in Nat
        /\ cfg.kind \in Keyset => \A x \in Items : Taken(x) => x <= Start
        /\ cfg.kind \in Positional => \A x \in present : Has(got, x) => Rank(present, x) <= Start
    BY <1>1, TakenBefore
  <1>3. CASE cfg.kind \in Keyset
    <2>1. /\ IF cfg.kind = "drive" THEN UNCHANGED got ELSE UNCHANGED page
          /\ cursor' # None => cursor'[1] \in Nat /\ Start < cursor'[1]
          /\ \A x : Has(Collected', x) =>
                      \/ Has(Collected, x)
                      \/ x \in present /\ Start < x /\ (cursor' # None => x <= cursor'[1])
          /\ (Distinct(Collected) /\ \A x \in Items : Has(Collected, x) => x <= Start)
                => Distinct(Collected')
      BY <1>3, KeysetAsk
    <2>2. /\ Collected = (IF cfg.kind = "drive" THEN page ELSE got)
          /\ Collected' = (IF cfg.kind = "drive" THEN page' ELSE got')
      BY <1>1 DEF Collected
    <2>3. \A x : Has(Collected, x) => Taken(x)
      BY <2>2 DEF Taken
    <2>4. Distinct(Collected')
      BY <1>2, <1>3, <2>1, <2>2, <2>3 DEF WalkOnce
    <2>5. Distinct(got') /\ Distinct(page')
      BY <2>1, <2>2, <2>4 DEF WalkOnce
    <2>6. ASSUME NEW x \in Items, Taken(x)', cursor' # None PROVE x <= cursor'[1]
      <3>1. Taken(x) \/ Has(Collected', x)
        BY <1>1, <2>1, <2>2, <2>6 DEF Taken
      <3>2. Taken(x) => x <= Start
        BY <1>2, <1>3
      <3>3. x \in Nat
        BY ConnectorsAssumption
      <3>4. Taken(x) => x <= cursor'[1]
        BY <1>2, <2>1, <2>6, <3>2, <3>3
      <3> QED BY <2>1, <2>3, <2>6, <3>1, <3>4
    <2>7. cfg.kind \notin Positional
      BY <1>3 DEF Keyset, Positional
    <2> QED BY <1>1, <2>5, <2>6, <2>7 DEF WalkOnce
  <1>4. CASE cfg.kind \in Offsets
    <2>1. PICK items \in Seq(Items) :
             LET end == Start + Len(items)
             IN  /\ UNCHANGED page
                 /\ Distinct(items) /\ Len(items) \in Nat
                 /\ \A x : Has(items, x) <=> /\ x \in present
                                             /\ Start < Rank(present, x) /\ Rank(present, x) <= end
                 /\ got' = IF HasCap THEN Upto(cfg.cap, got \o items) ELSE got \o items
                 /\ cursor' \in {None, <<end>>}
      BY <1>4, OffsetAsk
    <2>2. \A x : Has(got, x) /\ x \in present => Rank(present, x) \in Nat /\ Rank(present, x) <= Start
      BY <1>1, <1>2, <1>4, PresentFinite, RankGrows DEF Offsets, Positional
    <2>3. \A x : ~(Has(got, x) /\ Has(items, x))
      BY <1>2, <2>1, <2>2
    <2> DEFINE all == got \o items
    <2>4. all \in Seq(Items) /\ Distinct(all) /\ \A x : Has(all, x) <=> Has(got, x) \/ Has(items, x)
      BY <1>1, <2>1, <2>3, HasConcat DEF WalkOnce
    <2>5. got' \in {all, Upto(cfg.cap, all)} /\ cfg.cap \in Nat
      BY <1>1, <2>1, ConfigType
    <2> HIDE DEF all
    <2>6. Distinct(got') /\ \A x : Has(got', x) => Has(got, x) \/ Has(items, x)
      BY <2>4, <2>5, UptoCuts
    <2>7. ASSUME NEW x \in present, Has(got', x), cursor' # None
          PROVE  Rank(present, x) <= cursor'[1]
      <3>1. cursor'[1] = Start + Len(items)
        BY <2>1, <2>7
      <3>2. Has(got, x) => Rank(present, x) <= Start + Len(items)
        BY <1>2, <2>1, <2>2
      <3> QED BY <2>1, <2>6, <2>7, <3>1, <3>2
    <2>8. cfg.kind \notin Keyset
      BY <1>4 DEF Keyset, Offsets
    <2> QED BY <1>1, <2>1, <2>6, <2>7, <2>8 DEF WalkOnce
  <1>7. CASE cfg.kind = "github"
    <2>1. PICK end \in Nat :
             /\ UNCHANGED page /\ Start <= end
             /\ cursor' = <<end>> \/ cursor' = None
             /\ \A x : Has(got', x) =>
                    \/ Has(got, x)
                    \/ x \in present /\ Start < Rank(present, x) /\ Rank(present, x) <= end
             /\ (Distinct(got) /\ \A x \in present : Has(got, x) => Rank(present, x) <= Start)
                   => Distinct(got')
      BY <1>7, PagedAsk
    <2>2. \A x \in present : Has(got, x) => Rank(present, x) <= Start
      BY <1>2, <1>7 DEF Positional
    <2>3. \A x \in present : Rank(present, x) \in Nat
      BY <1>1, PresentFinite, RankGrows
    <2>4. ASSUME NEW x \in present, Has(got', x), cursor' # None PROVE Rank(present, x) <= cursor'[1]
      <3>1. cursor'[1] = end
        BY <2>1, <2>4
      <3>2. Rank(present, x) <= Start \/ Rank(present, x) <= end
        BY <2>1, <2>2, <2>4
      <3> QED BY <1>2, <2>1, <2>3, <3>1, <3>2
    <2>5. Distinct(got')
      BY <2>1, <2>2 DEF WalkOnce
    <2>6. cfg.kind \notin Keyset
      BY <1>7 DEF Keyset
    <2> QED BY <1>1, <2>1, <2>4, <2>5, <2>6 DEF WalkOnce
  <1>5. CASE cfg.kind \in OneShot
    <2>1. cfg.kind \notin Keyset \cup Positional
      BY <1>5 DEF Keyset, Positional, OneShot
    <2> QED BY <1>1, <1>5, <2>1, OneShotAsk DEF WalkOnce
  <1>6. cfg.kind \in Kinds
    BY <1>1, ConfigType
  <1> QED BY <1>3, <1>4, <1>5, <1>6, <1>7 DEF Kinds, Positional, Offsets

LEMMA AskOnce ==
  ASSUME Shape, Once, AskPage
  PROVE  Once'
  <1> SUFFICES ASSUME Calm' PROVE WalkOnce' /\ OutOnce'
    BY DEF Once
  <1>1. /\ pc = "ask" /\ pc' \in {"ask", "walked", "page"}
        /\ UNCHANGED <<cfg, present, changes, scope, parents, todo, out>>
        /\ cfg.kind # "drive" => UNCHANGED page
    BY DEF AskPage, service
  <1>2. WalkOnce /\ OutOnce /\ cfg.mode = "sound"
    BY <1>1 DEF Once, Calm
  <1>3. WalkOnce'
    BY <1>2, AskWalkOnce
  <1>4. ASSUME cfg.kind = "drive", NEW x, Has(page', x) PROVE ~Has(out, <<Top, x>>)
    <2>1. \A y : Has(Collected', y) => Has(Collected, y) \/ (y \in present /\ Start < y)
      BY <1>2, <1>4, KeysetAsk DEF Keyset
    <2>2. Collected = page /\ Collected' = page' /\ page = <<>> /\ present \in SUBSET Items
      BY <1>1, <1>4 DEF Collected, Shape, Types, Route
    <2>3. x \in Items /\ x \in Nat /\ Start < x
      BY <1>4, <2>1, <2>2, HasNothing, ConnectorsAssumption
    <2>4. Start \in Nat /\ (Taken(x) => x <= Start)
      BY <1>1, <1>2, <1>4, <2>3, TakenBefore DEF Keyset
    <2> QED BY <1>4, <2>3, <2>4 DEF Taken
  <1>5. OutOnce'
    <2>1. todo = <<>> /\ page = <<>>
      BY <1>1 DEF Shape, Route
    <2>2. \A x : Has(page', x) \/ Has(todo', x) => ~Has(out', <<Top, x>>)
      BY <1>1, <1>4, <2>1, HasNothing
    <2> QED BY <1>1, <1>2, <2>2 DEF OutOnce
  <1> QED BY <1>3, <1>5

LEMMA EndOnce ==
  ASSUME Shape, Once, EndOfWalk
  PROVE  Once'
  <1> SUFFICES ASSUME Calm' PROVE WalkOnce' /\ OutOnce'
    BY DEF Once
  <1>1. /\ pc \in {"walked", "ask"}
        /\ UNCHANGED <<cfg, present, changes, scope, cursor, got, page>>
        /\ todo = <<>> /\ page = <<>>
        /\ got \in Seq(Items) /\ out \in Seq(Resources)
    BY DEF EndOfWalk, service, walk, Shape, Types, Route
  <1>2. WalkOnce /\ OutOnce
    BY <1>1 DEF Once, Calm
  <1>3. \A x : Has(got, x) => x \in Items /\ x # Top /\ x # Readme
    BY <1>1, HasIsMember, ConnectorsAssumption DEF Top, Readme
  <1>4. CASE cfg.kind \in Nested /\ scope = Top /\ parents' = got /\ pc' = "scope" /\ UNCHANGED <<todo, out>>
    <2>1. out = <<>>
      BY <1>1, <1>4 DEF Shape, Route, Nested
    <2>2. WalkOnce'
      BY <1>1, <1>2, <1>4 DEF WalkOnce, Taken
    <2>3. OutOnce'
      BY <1>1, <1>2, <1>3, <1>4, <2>1, HasNothing DEF OutOnce, WalkOnce
    <2> QED BY <2>2, <2>3
  <1>5. CASE cfg.kind \in Fetching /\ todo' = got /\ pc' = "fetch" /\ UNCHANGED <<parents, out>>
    <2>1. out = <<>> /\ parents = <<>>
      BY <1>1, <1>5 DEF Shape, Route, Nested, Fetching, OneShot
    <2>2. WalkOnce'
      BY <1>1, <1>2, <1>5 DEF WalkOnce, Taken
    <2>3. OutOnce'
      BY <1>1, <1>2, <1>5, <2>1, HasNothing DEF OutOnce, WalkOnce
    <2> QED BY <2>2, <2>3
  <1>6. CASE /\ cfg.kind \notin Fetching /\ (cfg.kind \in Nested => scope # Top)
             /\ out' = out \o Listed
             /\ pc' \in {"scope", "done"}
             /\ UNCHANGED <<todo, parents>>
    <2>1. /\ Listed \in Seq(Resources) /\ Distinct(Listed)
          /\ \A p : Has(Listed, p) => p[1] = scope /\ p[2] # Readme /\ cfg.kind # "drive"
      <3>1. /\ Listed \in Seq(Resources) /\ Distinct(Listed)
            /\ \A p : Has(Listed, p) => \E x : p = <<scope, x>> /\ Has(got, x)
        BY <1>2, ListedType DEF Shape, WalkOnce
      <3>2. cfg.kind = "drive" => got = <<>>
        BY DEF Shape, Route
      <3> QED BY <1>3, <3>1, <3>2, HasNothing
    <2>2. \A p : ~(Has(out, p) /\ Has(Listed, p))
      <3>1. CASE cfg.kind \in Nested
        <4>1. \A p : Has(out, p) /\ p[1] = scope => p[2] = Readme
          BY <1>1, <1>2, <3>1 DEF OutOnce
        <4> QED BY <2>1, <4>1
      <3>2. CASE cfg.kind \notin Nested
        <4>1. scope = Top
          BY <3>2 DEF Shape, Route
        <4>2. cfg.kind # "drive" => out = <<>>
          BY <1>1, <4>1 DEF Shape, Route
        <4> QED BY <2>1, <4>2, HasNothing
      <3> QED BY <3>1, <3>2
    <2>3. Distinct(out') /\ \A p : Has(out', p) <=> Has(out, p) \/ Has(Listed, p)
      BY <1>1, <1>2, <1>6, <2>1, <2>2, HasConcat DEF OutOnce
    <2>4. cfg.kind = "drive" => \A p : Has(out', p) <=> Has(out, p)
      BY <2>1, <2>3
    <2>5. WalkOnce'
      BY <1>1, <1>2, <1>6, <2>4 DEF WalkOnce, Taken
    <2>6. OutOnce'
      BY <1>1, <1>2, <1>6, <2>1, <2>3, HasNothing DEF OutOnce
    <2> QED BY <2>5, <2>6
  <1> QED BY <1>4, <1>5, <1>6 DEF EndOfWalk

LEMMA ScopeOnce ==
  ASSUME Shape, Once, NextScope
  PROVE  Once'
  <1> SUFFICES ASSUME Calm' PROVE WalkOnce' /\ OutOnce'
    BY DEF Once
  <1>1. /\ pc = "scope" /\ parents # <<>> /\ EnterScope(Head(parents)) /\ parents' = Tail(parents)
        /\ UNCHANGED <<cfg, page, todo, out>> /\ pc' \in {"shim", "ask"}
        /\ pc' = "ask" => cfg.kind # "github"
    BY DEF NextScope
  <1>2. cfg.kind \in Nested /\ cfg.kind # "drive" /\ UNCHANGED changes
    BY <1>1 DEF Shape, Route, Nested, EnterScope
  <1>3. WalkOnce /\ OutOnce
    BY <1>1, <1>2 DEF Once, Calm
  <1>4. /\ \A x : Has(parents, x) <=> x = Head(parents) \/ Has(Tail(parents), x)
        /\ Distinct(Tail(parents)) /\ ~Has(Tail(parents), Head(parents))
    BY <1>1, <1>3, HasTail DEF Shape, Types, OutOnce
  <1>5. scope' = Head(parents) /\ cursor' = None /\ got' = <<>>
    BY <1>1 DEF EnterScope
  <1>6. WalkOnce'
    BY <1>1, <1>3, <1>5, HasNothing DEF WalkOnce
  <1>7. OutOnce'
    BY <1>1, <1>3, <1>4, <1>5 DEF OutOnce
  <1> QED BY <1>6, <1>7

LEMMA BodyOnce ==
  ASSUME Shape, Once, NEW shape, BodyTaken(shape) \/ BodySkipped(shape)
  PROVE  Once'
  <1> SUFFICES ASSUME Calm' PROVE WalkOnce' /\ OutOnce'
    BY DEF Once
  <1>1. /\ pc = "fetch" /\ todo # <<>> /\ todo' = Tail(todo)
        /\ out' \in {out, Append(out, <<scope, Head(todo)>>)}
        /\ UNCHANGED <<cfg, present, changes, pc, scope, parents, cursor, got, page>>
    BY DEF BodyTaken, BodySkipped, service, walk
  <1>2. /\ cfg.kind # "drive" /\ page = <<>> /\ scope = Top /\ parents = <<>>
        /\ todo \in Seq(Items) /\ out \in Seq(Resources)
    BY <1>1 DEF Shape, Types, Route, Fetching, Nested, OneShot
  <1>3. WalkOnce /\ OutOnce
    BY <1>1 DEF Once, Calm
  <1>4. /\ Head(todo) \in Items
        /\ \A x : Has(todo, x) <=> x = Head(todo) \/ Has(Tail(todo), x)
        /\ Distinct(Tail(todo)) /\ ~Has(Tail(todo), Head(todo))
    BY <1>1, <1>2, <1>3, HasTail DEF OutOnce
  <1>5. <<scope, Head(todo)>> \in Resources
    BY <1>2, <1>4 DEF Resources
  <1>6. /\ Distinct(out')
        /\ \A p : Has(out', p) => Has(out, p) \/ p = <<Top, Head(todo)>>
    <2> DEFINE e == <<Top, Head(todo)>>
    <2>1. Distinct(out) /\ ~Has(out, e) /\ e \in Resources
      BY <1>2, <1>3, <1>4, <1>5 DEF OutOnce
    <2>2. out' \in {out, Append(out, e)}
      BY <1>1, <1>2
    <2> HIDE DEF e
    <2>3. /\ \A p : Has(Append(out, e), p) <=> Has(out, p) \/ p = e
          /\ Distinct(Append(out, e))
      BY <1>2, <2>1, HasAppend
    <2>4. Distinct(out') /\ \A p : Has(out', p) => Has(out, p) \/ p = e
      BY <2>1, <2>2, <2>3
    <2> QED BY <2>4 DEF e
  <1>7. WalkOnce'
    BY <1>1, <1>2, <1>3 DEF WalkOnce, Taken
  <1>8. OutOnce'
    <2>1. \A x : Has(page', x) \/ Has(todo', x) => ~Has(out', <<Top, x>>)
      <3> SUFFICES ASSUME NEW x, Has(todo', x), Has(out', <<Top, x>>) PROVE FALSE
        BY <1>1, <1>2, HasNothing
      <3>1. Has(todo, x) /\ x # Head(todo)
        BY <1>1, <1>4
      <3>2. Has(out, <<Top, x>>)
        BY <1>6, <3>1
      <3> QED BY <1>3, <3>1, <3>2 DEF OutOnce
    <2> QED BY <1>1, <1>2, <1>3, <1>4, <1>6, <2>1, HasNothing DEF OutOnce, Fetching, Nested, OneShot
  <1> QED BY <1>7, <1>8

LEMMA DriveFileOnce ==
  ASSUME Shape, Once, NEW shape, DriveFile(shape)
  PROVE  Once'
  <1> SUFFICES ASSUME Calm' PROVE WalkOnce' /\ OutOnce'
    BY DEF Once
  <1>1. /\ pc = "page" /\ page # <<>> /\ page' \in {page, Tail(page)} /\ pc' \in {"page", "shim"}
        /\ UNCHANGED <<cfg, present, changes, scope, parents, todo, cursor, got, out>>
    BY DEF DriveFile, service, walk
  <1>2. page \in Seq(Items) /\ cfg.kind = "drive"
    BY <1>1 DEF Shape, Types, Route
  <1>3. WalkOnce /\ OutOnce
    BY <1>1 DEF Once, Calm
  <1>4. Distinct(page') /\ \A x : Has(page', x) => Has(page, x)
    BY <1>1, <1>2, <1>3, HasTail DEF WalkOnce
  <1>5. WalkOnce'
    BY <1>1, <1>3, <1>4 DEF WalkOnce, Taken
  <1>6. OutOnce'
    BY <1>1, <1>2, <1>3, <1>4 DEF OutOnce, Nested
  <1> QED BY <1>5, <1>6

LEMMA DriveAnsweredOnce ==
  ASSUME Shape, Once, NEW shape, NEW exported, DriveAnswered(shape, exported)
  PROVE  Once'
  <1> SUFFICES ASSUME Calm' PROVE WalkOnce' /\ OutOnce'
    BY DEF Once
  <1>1. /\ pc = "shim" /\ cfg.kind = "drive" /\ pc' \in {"page", "failed"}
        /\ \/ page' = Tail(page) /\ out' \in {out, Append(out, <<scope, Head(page)>>)}
           \/ page' = page /\ out' = out
        /\ UNCHANGED <<cfg, present, changes, scope, parents, todo, cursor, got>>
    BY DEF DriveAnswered, service, walk
  <1>2. /\ page \in Seq(Items) /\ page # <<>> /\ out \in Seq(Resources)
        /\ scope = Top /\ parents = <<>> /\ todo = <<>>
    BY <1>1 DEF Shape, Types, Route, Nested, Fetching, OneShot
  <1>3. WalkOnce /\ OutOnce
    BY <1>1 DEF Once, Calm
  <1> DEFINE e == <<Top, Head(page)>>
  <1>4. /\ Head(page) \in Items
        /\ \A x : Has(page, x) <=> x = Head(page) \/ Has(Tail(page), x)
        /\ Distinct(Tail(page)) /\ ~Has(Tail(page), Head(page))
    BY <1>1, <1>2, <1>3, HasTail DEF WalkOnce
  <1>5. e \in Resources /\ Distinct(out) /\ ~Has(out, e)
    BY <1>2, <1>3, <1>4 DEF Resources, OutOnce
  <1>6. \A x : <<Top, x>> = e <=> x = Head(page)
    OBVIOUS
  <1>7. \/ page' = Tail(page) /\ out' \in {out, Append(out, e)}
        \/ page' = page /\ out' = out
    BY <1>1, <1>2
  <1> HIDE DEF e
  <1>8. /\ \A p : Has(Append(out, e), p) <=> Has(out, p) \/ p = e
        /\ Distinct(Append(out, e))
    BY <1>2, <1>5, HasAppend
  <1>9. /\ Distinct(out') /\ Distinct(page')
        /\ \A x : Has(page', x) => Has(page, x) /\ ~Has(out', <<Top, x>>)
        /\ \A x : Has(out', <<Top, x>>) => Has(out, <<Top, x>>) \/ Has(page, x)
    <2>1. /\ Distinct(page) /\ \A x : Has(page, x) => ~Has(out, <<Top, x>>)
      BY <1>3 DEF OutOnce, WalkOnce
    <2>2. CASE page' = page /\ out' = out
      BY <1>5, <2>1, <2>2
    <2>3. CASE page' = Tail(page) /\ out' = out
      BY <1>4, <1>5, <2>1, <2>3
    <2>4. CASE page' = Tail(page) /\ out' = Append(out, e)
      <3>1. ASSUME NEW x, Has(page', x) PROVE Has(page, x) /\ ~Has(out', <<Top, x>>)
        <4>1. Has(page, x) /\ x # Head(page)
          BY <1>4, <2>4, <3>1
        <4> QED BY <1>6, <1>8, <2>1, <2>4, <4>1
      <3>2. ASSUME NEW x, Has(out', <<Top, x>>) PROVE Has(out, <<Top, x>>) \/ Has(page, x)
        BY <1>4, <1>6, <1>8, <2>4, <3>2
      <3>3. Distinct(out') /\ Distinct(page')
        BY <1>4, <1>8, <2>4
      <3> QED BY <3>1, <3>2, <3>3
    <2> QED BY <1>7, <2>2, <2>3, <2>4
  <1>10. WalkOnce'
    <2>1. \A x : Taken(x)' => Taken(x)
      BY <1>1, <1>9 DEF Taken
    <2>2. cfg.kind \notin Positional
      BY <1>1 DEF Positional
    <2> QED BY <1>1, <1>3, <1>9, <2>1, <2>2 DEF WalkOnce
  <1>11. OutOnce'
    BY <1>1, <1>2, <1>3, <1>9, HasNothing DEF OutOnce, Nested
  <1> QED BY <1>10, <1>11

LEMMA GithubOnce ==
  ASSUME Shape, Once, GithubAnswered
  PROVE  Once'
  <1> SUFFICES ASSUME Calm' PROVE WalkOnce' /\ OutOnce'
    BY DEF Once
  <1> DEFINE e == <<scope, Readme>>
  <1>1. /\ pc = "shim" /\ cfg.kind = "github" /\ pc' \in {"ask", "scope"}
        /\ out' \in {out, Append(out, e)}
        /\ UNCHANGED <<cfg, present, changes, scope, parents, todo, cursor, got, page>>
    BY DEF GithubAnswered, service, walk
  <1>2. out \in Seq(Resources) /\ e \in Resources /\ page = <<>> /\ todo = <<>>
    BY <1>1 DEF Shape, Types, Route, Resources, Fetching, OneShot
  <1>3. WalkOnce /\ OutOnce
    BY <1>1 DEF Once, Calm
  <1>4. e[1] = scope /\ e[2] = Readme
    OBVIOUS
  <1>5. ~Has(out, e)
    BY <1>1, <1>3, <1>4 DEF OutOnce
  <1> HIDE DEF e
  <1>6. /\ \A p : Has(Append(out, e), p) <=> Has(out, p) \/ p = e
        /\ Distinct(Append(out, e))
    BY <1>2, <1>3, <1>5, HasAppend DEF OutOnce
  <1>7. Distinct(out') /\ \A p : Has(out', p) => Has(out, p) \/ p = e
    BY <1>1, <1>3, <1>6 DEF OutOnce
  <1>8. WalkOnce'
    BY <1>1, <1>3 DEF WalkOnce, Taken
  <1>9. OutOnce'
    BY <1>1, <1>2, <1>3, <1>4, <1>7, HasNothing DEF OutOnce
  <1> QED BY <1>8, <1>9

LEMMA PlaceOnce ==
  ASSUME Shape, Once,
         \/ AskFails \/ CursorLoop \/ LastScope \/ BodiesEnd \/ DrivePageEnds \/ ShimFails
         \/ \E shape : RowPanics(shape)
         \/ \E signals : ShimRefused(signals)
  PROVE  Once'
  <1> SUFFICES ASSUME Calm' PROVE WalkOnce' /\ OutOnce'
    BY DEF Once
  <1>1. UNCHANGED <<cfg, present, changes, scope, parents, todo, cursor, got, page, out>>
    BY DEF AskFails, CursorLoop, WalkFails, LastScope, BodiesEnd, DrivePageEnds, ShimFails, RowPanics,
           ShimRefused, service, walk
  <1>2. \/ pc' \in {"failed", "panicked", "scope", "done"} \/ pc' = pc
        \/ pc = "page"
    BY DEF AskFails, CursorLoop, WalkFails, LastScope, BodiesEnd, DrivePageEnds, ShimFails, RowPanics,
           ShimRefused
  <1>3. pc = "page" => cfg.kind \notin Nested
    BY DEF Shape, Route, Nested
  <1>4. WalkOnce /\ OutOnce
    BY <1>1 DEF Once, Calm
  <1>5. pc' = "shim" => pc = "shim"
    BY DEF AskFails, CursorLoop, WalkFails, LastScope, BodiesEnd, DrivePageEnds, ShimFails, RowPanics,
           ShimRefused
  <1>6. WalkOnce'
    BY <1>1, <1>4 DEF WalkOnce, Taken
  <1>7. OutOnce'
    BY <1>1, <1>2, <1>3, <1>4, <1>5 DEF OutOnce
  <1> QED BY <1>6, <1>7

\* An item that comes is a change that a walk by position does not survive; one
\* that goes only lowers the ranks of the others.
LEMMA RankShrinks ==
  ASSUME NEW S \in SUBSET Nat, IsFiniteSet(S), NEW R \in SUBSET S, NEW x
  PROVE  Rank(R, x) \in Nat /\ Rank(S, x) \in Nat /\ Rank(R, x) <= Rank(S, x)
  <1> DEFINE A == {y \in R : y <= x}
             B == {y \in S : y <= x}
  <1>1. A \in SUBSET B /\ B \in SUBSET S
    OBVIOUS
  <1> HIDE DEF A, B
  <1>2. IsFiniteSet(B) /\ IsFiniteSet(A)
    BY <1>1, FS_Subset
  <1>3. Cardinality(A) \in Nat /\ Cardinality(B) \in Nat /\ Cardinality(A) <= Cardinality(B)
    BY <1>1, <1>2, FS_Subset, FS_CardinalityType
  <1> QED BY <1>3 DEF Rank, A, B

LEMMA ChangeOnce ==
  ASSUME Shape, Once, NEW i \in Items, Come(i) \/ Go(i)
  PROVE  Once'
  <1> SUFFICES ASSUME Calm' PROVE WalkOnce' /\ OutOnce'
    BY DEF Once
  <1>1. UNCHANGED <<cfg, pc, scope, parents, todo, cursor, got, page, out>>
    BY DEF Come, Go, walk
  <1>2. /\ changes \in [ins : Nat, del : Nat] /\ changes.ins \in Nat
        /\ present \in SUBSET Items /\ cursor \in Cursors
    BY DEF Shape, Types
  <1>3. present' \in SUBSET present \/ cfg.kind \notin Positional
    <2>1. CASE Come(i)
      <3>1. changes'.ins = changes.ins + 1
        BY <1>2, <2>1 DEF Come
      <3> QED BY <1>1, <1>2, <3>1 DEF Calm
    <2>2. CASE Go(i)
      BY <2>2 DEF Go
    <2> QED BY <2>1, <2>2
  <1>4. changes'.ins = 0 => changes.ins = 0
    BY <1>2 DEF Come, Go
  <1>5. WalkOnce /\ OutOnce
    BY <1>1, <1>4 DEF Once, Calm
  <1>6. ASSUME cfg.kind \in Positional, cursor # None, NEW x \in present', Has(got, x)
        PROVE  Rank(present', x) <= cursor[1]
    <2>1. x \in present /\ present' \in SUBSET present
      BY <1>3, <1>6
    <2>2. Rank(present, x) <= cursor[1]
      BY <1>5, <1>6, <2>1 DEF WalkOnce
    <2>3. present \in SUBSET Nat /\ IsFiniteSet(present) /\ cursor[1] \in Nat
      BY <1>2, <1>6, PresentFinite, CursorType
    <2>4. Rank(present', x) \in Nat /\ Rank(present, x) \in Nat /\ Rank(present', x) <= Rank(present, x)
      BY <2>1, <2>3, RankShrinks
    <2> QED BY <2>2, <2>3, <2>4
  <1>7. WalkOnce'
    BY <1>1, <1>5, <1>6 DEF WalkOnce, Taken
  <1>8. OutOnce'
    BY <1>1, <1>5 DEF OutOnce
  <1> QED BY <1>7, <1>8

LEMMA StutterOnce ==
  ASSUME Once, UNCHANGED vars
  PROVE  Once'
  BY DEF Once, Calm, WalkOnce, OutOnce, Taken, vars

LEMMA StepOnce == Shape /\ Once /\ [Next]_vars => Once'
  <1> SUFFICES ASSUME Shape, Once, [Next]_vars PROVE Once'
    OBVIOUS
  <1>1. ASSUME NEW f, NEW env, Construct(f, env) PROVE Once'
    BY <1>1, ConstructOnce
  <1>2. CASE AskPage
    BY <1>2, AskOnce
  <1>3. CASE EndOfWalk
    BY <1>3, EndOnce
  <1>4. CASE NextScope
    BY <1>4, ScopeOnce
  <1>5. CASE AskFails \/ CursorLoop \/ LastScope \/ BodiesEnd \/ DrivePageEnds \/ ShimFails
    BY <1>5, PlaceOnce
  <1>6. CASE GithubAnswered
    BY <1>6, GithubOnce
  <1>7. ASSUME NEW shape, BodyTaken(shape) \/ BodySkipped(shape) PROVE Once'
    BY <1>7, BodyOnce
  <1>8. ASSUME NEW shape, RowPanics(shape) PROVE Once'
    BY <1>8, PlaceOnce
  <1>9. ASSUME NEW shape, DriveFile(shape) PROVE Once'
    BY <1>9, DriveFileOnce
  <1>10. ASSUME NEW shape, NEW exported, DriveAnswered(shape, exported) PROVE Once'
    BY <1>10, DriveAnsweredOnce
  <1>11. ASSUME NEW signals, ShimRefused(signals) PROVE Once'
    BY <1>11, PlaceOnce
  <1>12. ASSUME NEW i \in Items, Come(i) \/ Go(i) PROVE Once'
    BY <1>12, ChangeOnce
  <1>13. CASE UNCHANGED vars
    BY <1>13, StutterOnce
  <1> QED
    BY <1>1, <1>2, <1>3, <1>4, <1>5, <1>6, <1>7, <1>8, <1>9, <1>10, <1>11, <1>12, <1>13
    DEF Next, ListStep

LEMMA OnceInvariant == Spec => []Once
  BY InitOnce, StepOnce, ShapeInvariant, PTL DEF Spec

(***************************************************************************)
(* No resource is listed twice, whatever comes and goes while a service    *)
(* that pages by keys is walked and whatever goes while one that pages by  *)
(* position is: for every connector, page size, cap and number of changes. *)
(***************************************************************************)
THEOREM ResourcesAreListedOnce == Spec => []ListsOnce
  <1>1. Shape /\ Once => ListsOnce
    <2> SUFFICES ASSUME Shape, Once PROVE ListsOnce
      OBVIOUS
    <2>1. out \in Seq(Resources)
      BY DEF Shape, Types
    <2>2. Calm => Distinct(out)
      BY DEF Once, OutOnce
    <2>3. IsInjective(out) <=> Distinct(out)
      BY <2>1, HasIsMember
    <2> QED BY <2>2, <2>3 DEF ListsOnce, Calm
  <1> QED BY <1>1, ShapeInvariant, OnceInvariant, PTL

-----------------------------------------------------------------------------
(* Nothing wanted is passed over: short of the cap, a walk has taken every  *)
(* item that stayed and lies before its cursor, all of them at its end; and *)
(* what is owed is listed, skipped, or still to be done.                    *)
Answered(x) == Taken(x) \/ (cfg.kind = "drive" /\ <<Top, x>> \in settled)

KeysetAll ==
    /\ pc = "walked" \/ (pc \in {"page", "shim"} /\ cfg.kind = "drive" /\ cursor = None) =>
          \A x \in stayed \cap WantedItems : Answered(x)
    /\ pc \in {"ask", "page", "shim"} /\ cursor # None =>
          \A x \in stayed \cap WantedItems : x <= cursor[1] => Answered(x)

\* The first page's total bounds what there is and what has been taken.
TotalBounds ==
    /\ pc = "ask" => Len(got) = Start
    /\ cursor # None => total # None
    /\ total # None => Cardinality(ToSet(got) \cup present) <= total[1]

OffsetAll ==
    /\ pc = "walked" => \A x \in stayed : Has(got, x)
    /\ pc = "ask" /\ cursor # None /\ changes.del = 0 =>
          \A x \in stayed : Rank(present, x) <= cursor[1] => Has(got, x)
    /\ cfg.kind = "offset" /\ cfg.totals => TotalBounds
    /\ cfg.kind = "offset" /\ ~cfg.totals => total = None

\* What comes under a walk by page numbers only moves the others on.
PagedAll ==
    /\ pc = "walked" => \A x \in stayed \cap WantedItems : Has(got, x)
    /\ pc = "ask" /\ cursor # None =>
          \A x \in stayed \cap WantedItems : Rank(present, x) <= cursor[1] => Has(got, x)

OneShotAll == pc = "walked" => \A x \in stayed \cap WantedItems : Has(got, x)

WalkAll ==
    \/ Capped
    \/ /\ cfg.kind \in Keyset => KeysetAll
       /\ cfg.kind \in Offsets => OffsetAll
       /\ cfg.kind = "github" => PagedAll
       /\ cfg.kind \in OneShot => OneShotAll

\* What the listing still has before it.
Ahead(p) ==
    \/ \E x : p = <<Top, x>> /\ (Has(parents, x) \/ Has(todo, x))
    \/ p = <<Top, scope>> /\ scope # Top /\ pc \in {"shim", "ask", "walked"}

OutAll ==
    pc \notin {"failed", "panicked"} =>
        \A p \in owed : Has(out, p) \/ p \in settled \/ Ahead(p)

All == Reliable => WalkAll /\ OutAll

LEMMA DistinctLength ==
  ASSUME NEW T, IsFiniteSet(T), NEW s \in Seq(T), Distinct(s)
  PROVE  IsFiniteSet(ToSet(s)) /\ Len(s) <= Cardinality(ToSet(s)) /\ ToSet(s) \in SUBSET T
  <1>1. DOMAIN s = 1..Len(s) /\ Len(s) \in Nat
    OBVIOUS
  <1>2. ToSet(s) \in SUBSET T /\ s \in [1..Len(s) -> ToSet(s)]
    BY <1>1 DEF ToSet
  <1>3. s \in Injection(1..Len(s), ToSet(s))
    BY <1>2 DEF Injection, IsInjective, Distinct
  <1>4. IsFiniteSet(ToSet(s))
    BY <1>2, FS_Subset
  <1>5. Cardinality(1..Len(s)) <= Cardinality(ToSet(s))
    BY <1>3, <1>4, FS_Injection
  <1>6. Cardinality(1..Len(s)) = Len(s)
    BY <1>1, FS_Interval
  <1> QED BY <1>2, <1>4, <1>5, <1>6

LEMMA InitAll == Init => All
  <1> SUFFICES ASSUME Init PROVE All
    OBVIOUS
  <1>1. ToSet(got) \cup present = {}
    BY DEF Init, ToSet
  <1>2. WalkAll
    BY DEF Init, WalkAll, KeysetAll, OffsetAll, PagedAll, OneShotAll, TotalBounds, None
  <1> QED BY <1>2 DEF Init, All, OutAll

LEMMA ConstructAll ==
  ASSUME Shape, All, NEW f, NEW env, Construct(f, env)
  PROVE  All'
  <1>1. /\ pc = "new" /\ pc' \in {"refused", "ask"} /\ UNCHANGED <<cfg, owed>>
        /\ owed = {}
    BY DEF Construct, Shape, Route
  <1>2. OutAll'
    BY <1>1 DEF OutAll
  <1>3. CASE pc' = "ask"
    <2>1. cursor' = None /\ total' = None /\ got' = <<>>
      BY <1>3 DEF Construct, EnterScope
    <2>2. Start' = 0 /\ Len(got') = 0
      BY <2>1 DEF Start
    <2>3. WalkAll'
      BY <1>3, <2>1, <2>2 DEF WalkAll, KeysetAll, OffsetAll, PagedAll, OneShotAll, TotalBounds
    <2> QED BY <1>2, <2>3 DEF All
  <1>4. CASE pc' = "refused"
    <2>1. UNCHANGED <<cfg, scope, present, changes, stayed, cursor, prev, total, got>>
      BY <1>1, <1>4 DEF Construct, service, walk
    <2>2. UNCHANGED <<Reliable, Capped>>
      BY <2>1 DEF Reliable, Capped, HasCap
    <2>3. WalkAll => WalkAll'
      BY <1>1, <1>4, <2>1, <2>2 DEF WalkAll, KeysetAll, OffsetAll, PagedAll, OneShotAll, TotalBounds
    <2> QED BY <1>2, <2>2, <2>3 DEF All
  <1> QED BY <1>1, <1>3, <1>4

LEMMA KeysetAskAll ==
  ASSUME Shape, AskPage, cfg.kind \in Keyset, cfg.mode = "sound", KeysetAll, ~Capped'
  PROVE  KeysetAll'
  <1>1. /\ pc = "ask" /\ UNCHANGED <<cfg, present, stayed, scope, out, settled>>
        /\ page = <<>> /\ (cfg.kind = "drive" => got = <<>>)
        /\ stayed \in SUBSET present /\ present \in SUBSET Items /\ cursor \in Cursors
        /\ pc' = (IF cfg.kind = "drive" THEN "page" ELSE IF cursor' = None THEN "walked" ELSE "ask")
    BY DEF AskPage, service, Shape, Types, Route
  <1>2. /\ IF cfg.kind = "drive" THEN UNCHANGED got ELSE UNCHANGED page
        /\ cursor' # None => cursor'[1] \in Nat /\ Start < cursor'[1]
        /\ \A x : Has(Collected, x) => Has(Collected', x)
        /\ \A x \in present \cap WantedItems :
              Start < x /\ (cursor' # None => x <= cursor'[1]) => Has(Collected', x)
    BY KeysetAsk
  <1>3. /\ Collected = (IF cfg.kind = "drive" THEN page ELSE got)
        /\ Collected' = (IF cfg.kind = "drive" THEN page' ELSE got')
        /\ WantedItems' = WantedItems
    BY <1>1 DEF Collected, WantedItems
  <1>4. \A x : Answered(x) => Answered(x)'
    BY <1>1, <1>2, <1>3, HasNothing DEF Answered, Taken
  <1>5. \A x : Has(Collected', x) => Answered(x)'
    BY <1>3 DEF Answered, Taken
  <1>6. Start \in Nat /\ (cursor # None => Start = cursor[1]) /\ (cursor = None => Start = 0)
    BY <1>1, StartType DEF Start
  <1>7. ASSUME NEW x \in stayed \cap WantedItems, cursor' # None => x <= cursor'[1]
        PROVE  Answered(x)'
    <2>1. x \in present \cap WantedItems /\ x \in Nat /\ x # 0
      BY <1>1, <1>7, PresentFinite
    <2>2. CASE x <= Start
      <3>1. cursor # None /\ x <= cursor[1]
        BY <1>6, <2>1, <2>2
      <3>2. Answered(x)
        BY <1>1, <1>7, <3>1 DEF KeysetAll
      <3> QED BY <1>4, <3>2
    <2>3. CASE Start < x
      BY <1>2, <1>5, <1>7, <2>1, <2>3
    <2> QED BY <1>6, <2>1, <2>2, <2>3
  <1> QED BY <1>1, <1>3, <1>7 DEF KeysetAll

\* At the end by a walk's own rule, no position lies beyond the page.
LEMMA OffsetEnd ==
  ASSUME Shape, Reliable, cfg.kind \in {"jira", "confluence"} \/ (cfg.kind = "offset" /\ ~cfg.totals),
         total = None \/ cfg.kind # "offset",
         NEW items \in Seq(Items), Len(items) \in Nat,
         Len(items) < PageSize => Start + Len(items) >= Cardinality(present),
         \/ cfg.kind = "jira" /\ (items = <<>> \/ Start + Len(items) >= Cardinality(present))
         \/ cfg.kind = "confluence" /\ Len(items) < cfg.size
         \/ cfg.kind = "offset" /\ Len(items) < cfg.size
  PROVE  Start + Len(items) >= Cardinality(present)
  <1>1. cfg.size \in Nat /\ ServerMax \in Nat \ {0}
    BY ConfigType, ConnectorsAssumption DEF Shape, Types
  <1>2. cfg.kind = "offset" => cfg.size = ServerMax
    BY DEF Shape, Types, PlainConfigs
  <1>3. cfg.kind = "jira" => PageSize > 0
    BY <1>1 DEF PageSize, Least, Reliable
  <1>4. cfg.kind \in {"confluence", "offset"} => PageSize = cfg.size
    BY <1>1, <1>2 DEF PageSize, Least, Reliable
  <1>5. items = <<>> => Len(items) = 0
    OBVIOUS
  <1>6. PageSize \in Nat
    BY <1>1 DEF PageSize, Least
  <1> QED BY <1>1, <1>3, <1>4, <1>5, <1>6

LEMMA OffsetAskAll ==
  ASSUME Shape, WalkOnce, AskPage, cfg.kind \in Offsets, Reliable, OffsetAll, ~Capped'
  PROVE  OffsetAll'
  <1>1. /\ pc = "ask" /\ UNCHANGED <<cfg, present, stayed, changes, scope>>
        /\ stayed \in SUBSET present /\ present \in SUBSET Items
        /\ cursor \in Cursors /\ total \in Cursors /\ got \in Seq(Items)
        /\ cfg \in PlainConfigs /\ changes \in [ins : Nat, del : Nat]
        /\ cfg.kind # "drive"
        /\ pc' = (IF cursor' = None THEN "walked" ELSE "ask")
        /\ cursor = None => got = <<>> /\ total = None
    BY DEF AskPage, service, Shape, Types, Route, Offsets
  <1> DEFINE N == Cardinality(present)
  <1>2. /\ present \in SUBSET Nat /\ IsFiniteSet(present) /\ N \in Nat
        /\ Start \in Nat /\ (cursor # None => Start = cursor[1]) /\ (cursor = None => Start = 0)
        /\ cfg.cap \in Nat
    BY <1>1, PresentFinite, StartType, ConfigType DEF Start
  <1>3. PICK items \in Seq(Items) :
           LET end == Start + Len(items)
           IN  /\ Distinct(items) /\ Len(items) \in Nat
               /\ \A x : Has(items, x) <=> /\ x \in present
                                           /\ Start < Rank(present, x) /\ Rank(present, x) <= end
               /\ Len(items) < PageSize => end >= N
               /\ got' = IF HasCap THEN Upto(cfg.cap, got \o items) ELSE got \o items
               /\ cursor' = IF \/ cfg.kind = "jira" /\ (items = <<>> \/ end >= N)
                               \/ cfg.kind = "confluence" /\ Len(items) < cfg.size
                               \/ cfg.kind = "offset" /\ total' = None /\ Len(items) < cfg.size
                               \/ cfg.kind = "offset" /\ total' # None /\ end >= total'[1]
                            THEN None ELSE <<end>>
               /\ total' = IF cfg.kind = "offset" /\ cfg.totals /\ total = None THEN <<N>> ELSE total
    BY OffsetAsk
  <1> DEFINE all == got \o items
             end == Start + Len(items)
  <1> HIDE DEF N
  <1>4. /\ all \in Seq(Items) /\ Len(all) = Len(got) + Len(items) /\ Len(got) \in Nat
        /\ \A x : Has(all, x) <=> Has(got, x) \/ Has(items, x)
    BY <1>1, <1>3, HasConcat
  <1>5. got' = all
    <2>1. Capped' <=> HasCap /\ Len(got') >= cfg.cap
      BY <1>1 DEF Capped, HasCap
    <2>2. got' = IF HasCap THEN Upto(cfg.cap, all) ELSE all
      BY <1>3
    <2> HIDE DEF all
    <2>3. Len(Upto(cfg.cap, all)) \in Nat /\ (Len(Upto(cfg.cap, all)) < cfg.cap => Upto(cfg.cap, all) = all)
      BY <1>2, <1>4, UptoCuts
    <2> QED BY <1>2, <2>1, <2>2, <2>3
  <1>6. end \in Nat /\ (cursor' # None => cursor' = <<end>> /\ cursor'[1] = end)
    BY <1>2, <1>3
  <1>7. ASSUME changes.del = 0, NEW x \in stayed, Rank(present, x) <= end
        PROVE  Has(got', x)
    <2>1. x \in present /\ Rank(present, x) \in Nat /\ Rank(present, x) >= 1
      BY <1>1, <1>2, InOrderSpec
    <2>2. CASE Rank(present, x) <= Start
      <3>1. cursor # None /\ Rank(present, x) <= cursor[1]
        BY <1>2, <2>1, <2>2
      <3>2. Has(got, x)
        BY <1>1, <1>7, <3>1 DEF OffsetAll
      <3> QED BY <1>4, <1>5, <3>2
    <2>3. CASE Start < Rank(present, x)
      BY <1>3, <1>4, <1>5, <1>7, <2>1, <2>3
    <2> QED BY <1>2, <2>1, <2>2, <2>3
  <1>8. cfg.kind = "offset" /\ ~cfg.totals => total' = None
    BY <1>1, <1>3 DEF OffsetAll
  <1>9. ASSUME cfg.kind = "offset", cfg.totals PROVE TotalBounds'
    <2>1. TotalBounds
      BY <1>9 DEF OffsetAll
    <2>2. Len(got') = end
      BY <1>1, <1>2, <1>4, <1>5, <2>1 DEF TotalBounds
    <2>3. Start' = end \/ cursor' = None
      BY <1>6 DEF Start
    <2>4. total' # None
      BY <1>3, <1>9 DEF None
    <2>5. ToSet(got') \cup present = ToSet(got) \cup present
      <3>1. \A x : Has(items, x) => x \in present
        BY <1>3
      <3>2. \A x : x \in ToSet(got') <=> x \in ToSet(got) \/ Has(items, x)
        <4>1. \A x : x \in ToSet(got) <=> Has(got, x)
          BY <1>1, HasIsMember
        <4>2. \A x : x \in ToSet(got') <=> Has(got', x)
          BY <1>4, <1>5, HasIsMember
        <4> QED BY <1>4, <1>5, <4>1, <4>2
      <3> QED BY <3>1, <3>2
    <2>6. Cardinality(ToSet(got') \cup present) <= total'[1]
      <3>1. CASE total = None
        <4>1. cursor = None /\ got = <<>>
          BY <1>1, <2>1, <3>1 DEF TotalBounds
        <4>2. ToSet(got) = {}
          BY <4>1 DEF ToSet
        <4>3. total'[1] = N
          BY <1>3, <1>9, <3>1
        <4>4. ToSet(got') \cup present = present
          BY <2>5, <4>2
        <4>5. Cardinality(ToSet(got') \cup present) = total'[1]
          BY <4>3, <4>4 DEF N
        <4>6. N <= N
          BY <1>2
        <4> QED BY <4>3, <4>5, <4>6
      <3>2. CASE total # None
        BY <1>3, <2>1, <2>5, <3>2 DEF TotalBounds
      <3> QED BY <3>1, <3>2
    <2> QED BY <1>1, <2>2, <2>3, <2>4, <2>6 DEF TotalBounds
  <1>10. ASSUME cursor' = None, NEW x \in stayed PROVE Has(got', x)
    <2>1. CASE cfg.kind = "offset" /\ cfg.totals
      <3>1. total' # None /\ total'[1] \in Nat /\ end >= total'[1] /\ Len(got') = end
            /\ Cardinality(ToSet(got') \cup present) <= total'[1]
        <4>1. TotalBounds /\ TotalBounds'
          BY <1>9, <2>1 DEF OffsetAll
        <4>2. total' # None
          BY <1>3, <2>1 DEF None
        <4>3. total' \in Cursors
          BY AskType DEF Shape
        <4>4. total'[1] \in Nat
          BY <4>2, <4>3, CursorType
        <4>5. Len(got') = end
          BY <1>1, <1>2, <1>4, <1>5, <4>1 DEF TotalBounds
        <4>6. end >= total'[1]
          BY <1>3, <1>10, <2>1, <4>2 DEF None
        <4>7. Cardinality(ToSet(got') \cup present') <= total'[1]
          BY <4>1, <4>2 DEF TotalBounds
        <4>8. present' = present
          BY <1>1
        <4> QED BY <4>2, <4>4, <4>5, <4>6, <4>7, <4>8
      <3>2. WalkOnce'
        BY AskWalkOnce DEF Reliable
      <3>3. IsFiniteSet(ToSet(got')) /\ Len(got') <= Cardinality(ToSet(got')) /\ ToSet(got') \in SUBSET Items
        BY <1>4, <1>5, <3>2, DistinctLength, ConnectorsAssumption DEF WalkOnce
      <3> DEFINE U == ToSet(got') \cup present
      <3>4. IsFiniteSet(U) /\ ToSet(got') \in SUBSET U
        BY <1>2, <3>3, FS_Union
      <3>5. Cardinality(U) \in Nat /\ Cardinality(ToSet(got')) \in Nat /\ Cardinality(ToSet(got')) <= Cardinality(U)
        BY <3>3, <3>4, FS_Subset, FS_CardinalityType
      <3>6. Cardinality(U) = Cardinality(ToSet(got'))
        BY <1>6, <3>1, <3>3, <3>5
      <3>7. U = ToSet(got')
        BY <3>4, <3>6, FS_Subset
      <3>8. x \in ToSet(got')
        BY <1>1, <3>7
      <3> QED BY <1>4, <1>5, <3>8, HasIsMember
    <2>2. CASE ~(cfg.kind = "offset" /\ cfg.totals)
      <3>1. cfg.kind \in {"jira", "confluence"} \/ (cfg.kind = "offset" /\ ~cfg.totals)
        BY <2>2 DEF Offsets
      <3>2. total = None \/ cfg.kind # "offset"
        BY <2>2, <3>1 DEF OffsetAll
      <3>3. total' = None \/ cfg.kind # "offset"
        BY <1>3, <2>2, <3>2
      <3>4. \/ cfg.kind = "jira" /\ (items = <<>> \/ end >= N)
            \/ cfg.kind = "confluence" /\ Len(items) < cfg.size
            \/ cfg.kind = "offset" /\ Len(items) < cfg.size
        BY <1>3, <1>10, <3>3 DEF None
      <3>5. end >= N
        BY <1>3, <3>1, <3>2, <3>4, OffsetEnd DEF N
      <3>6. changes.del = 0
        BY <1>1, <3>1 DEF Reliable
      <3>7. Rank(present, x) \in Nat /\ Rank(present, x) <= N
        BY <1>1, <1>2, InOrderSpec DEF N
      <3> QED BY <1>2, <1>6, <1>7, <3>5, <3>6, <3>7
    <2> QED BY <2>1, <2>2
  <1> QED BY <1>1, <1>6, <1>7, <1>8, <1>9, <1>10 DEF OffsetAll

LEMMA PagedAskAll ==
  ASSUME Shape, AskPage, cfg.kind = "github", cfg.mode = "sound", PagedAll
  PROVE  PagedAll'
  <1>1. /\ pc = "ask" /\ UNCHANGED <<cfg, present, stayed>>
        /\ stayed \in SUBSET present /\ present \in SUBSET Items /\ cursor \in Cursors
        /\ pc' = (IF cursor' = None THEN "walked" ELSE "ask")
    BY DEF AskPage, service, Shape, Types
  <1>2. PICK end \in Nat :
          /\ Start <= end
          /\ cursor' = <<end>> \/ (cursor' = None /\ end >= Cardinality(present))
          /\ \A x : Has(got, x) => Has(got', x)
          /\ \A x \in present \cap WantedItems :
                 Start < Rank(present, x) /\ Rank(present, x) <= end => Has(got', x)
    BY PagedAsk
  <1>3. /\ Start \in Nat /\ (cursor # None => Start = cursor[1]) /\ (cursor = None => Start = 0)
        /\ present \in SUBSET Nat /\ IsFiniteSet(present) /\ Cardinality(present) \in Nat
        /\ WantedItems' = WantedItems
    BY <1>1, PresentFinite, StartType DEF Start, WantedItems
  <1>4. ASSUME NEW x \in stayed \cap WantedItems, Rank(present, x) <= end PROVE Has(got', x)
    <2>1. x \in present /\ Rank(present, x) \in Nat /\ Rank(present, x) >= 1
      BY <1>1, <1>3, InOrderSpec
    <2>2. CASE Rank(present, x) <= Start
      <3>1. cursor # None /\ Rank(present, x) <= cursor[1]
        BY <1>3, <2>1, <2>2
      <3> QED BY <1>1, <1>2, <3>1 DEF PagedAll
    <2>3. CASE Start < Rank(present, x)
      BY <1>2, <1>4, <2>1, <2>3
    <2> QED BY <1>3, <2>1, <2>2, <2>3
  <1>5. ASSUME cursor' = None, NEW x \in stayed \cap WantedItems PROVE Has(got', x)
    <2>1. Rank(present, x) \in Nat /\ Rank(present, x) <= Cardinality(present)
      BY <1>1, <1>3, InOrderSpec
    <2>2. end >= Cardinality(present)
      BY <1>2, <1>5 DEF None
    <2> QED BY <1>3, <1>4, <2>1, <2>2
  <1>6. cursor' # None => cursor'[1] = end
    BY <1>2
  <1> QED BY <1>1, <1>3, <1>4, <1>5, <1>6 DEF PagedAll

\* An offset walk that is to be complete is one in which nothing is taken twice.
LEMMA ReliableIsCalm == Shape /\ Reliable /\ cfg.kind \in Offsets => Calm
  <1> SUFFICES ASSUME Shape, Reliable, cfg.kind \in Offsets PROVE Calm
    OBVIOUS
  <1>1. changes.ins \in Nat /\ changes.del \in Nat
    BY DEF Shape, Types
  <1> QED BY <1>1 DEF Reliable, Calm, Offsets

LEMMA AskAll ==
  ASSUME Shape, Once, All, AskPage
  PROVE  All'
  <1> SUFFICES ASSUME Reliable' PROVE WalkAll' /\ OutAll'
    BY DEF All
  <1>1. /\ pc = "ask" /\ ~Capped /\ pc' \in {"ask", "walked", "page"}
        /\ UNCHANGED <<cfg, present, changes, stayed, scope, parents, todo, out, owed, settled>>
        /\ cfg \in PlainConfigs /\ stayed \in SUBSET present
    BY DEF AskPage, service, Shape, Types
  <1>2. Reliable /\ cfg.mode = "sound"
    BY <1>1 DEF Reliable
  <1>3. WalkAll /\ OutAll /\ (cfg.kind \in Offsets => WalkOnce)
    BY <1>2, ReliableIsCalm DEF Once, All
  <1>4. cfg.kind \in Keyset => KeysetAll
    BY <1>1, <1>3 DEF WalkAll
  <1>5. cfg.kind \in Offsets => OffsetAll
    BY <1>1, <1>3 DEF WalkAll
  <1>6. ASSUME ~Capped', cfg.kind \in Keyset PROVE KeysetAll'
    BY <1>2, <1>4, <1>6, KeysetAskAll
  <1>7. ASSUME ~Capped', cfg.kind \in Offsets PROVE OffsetAll'
    BY <1>2, <1>3, <1>5, <1>7, OffsetAskAll
  <1>8. ASSUME ~Capped', cfg.kind \in OneShot PROVE OneShotAll'
    <2>1. \A x \in present \cap WantedItems : Has(got', x)
      BY <1>8, OneShotAsk
    <2>2. WantedItems' = WantedItems
      BY <1>1 DEF WantedItems
    <2> QED BY <1>1, <2>1, <2>2 DEF OneShotAll
  <1>11. ASSUME cfg.kind = "github" PROVE PagedAll'
    <2>1. ~Capped
      BY <1>11 DEF Capped, HasCap
    <2> QED BY <1>2, <1>3, <1>11, <2>1, PagedAskAll DEF WalkAll
  <1>9. WalkAll'
    BY <1>1, <1>6, <1>7, <1>8, <1>11 DEF WalkAll
  <1>10. OutAll'
    <2>1. page = <<>> /\ (scope # Top => cfg.kind # "drive")
      BY <1>1 DEF Shape, Route, Nested
    <2>2. scope # Top => pc' \in {"ask", "walked"}
      BY <2>1 DEF AskPage
    <2>3. \A p : Ahead(p) => Ahead(p)'
      BY <1>1, <2>2 DEF Ahead
    <2> QED BY <1>1, <1>3, <2>3 DEF OutAll
  <1> QED BY <1>9, <1>10

\* At the end of a walk everything that stayed and is wanted has its answer.
LEMMA WalkedAll ==
  ASSUME Shape, WalkAll, pc = "walked", ~Capped, NEW x \in stayed \cap WantedItems
  PROVE  Has(got, x) \/ (cfg.kind = "drive" /\ (Has(out, <<Top, x>>) \/ <<Top, x>> \in settled))
  <1>1. cfg.kind \in Keyset \cup Offsets \cup {"github"} \cup OneShot
    BY ConfigType DEF Shape, Types, Kinds, Positional, Offsets
  <1>2. page = <<>>
    BY DEF Shape, Route
  <1>3. CASE cfg.kind \in Keyset
    <2>1. Answered(x)
      BY <1>3 DEF WalkAll, KeysetAll
    <2> QED BY <1>2, <2>1, HasNothing DEF Answered, Taken
  <1>4. CASE cfg.kind \in Offsets
    BY <1>4 DEF WalkAll, OffsetAll
  <1>5. CASE cfg.kind \in OneShot
    BY <1>5 DEF WalkAll, OneShotAll
  <1>6. CASE cfg.kind = "github"
    BY <1>6 DEF WalkAll, PagedAll
  <1> QED BY <1>1, <1>3, <1>4, <1>5, <1>6

\* A walk that is not under way any more leaves nothing to be shown of it.
LEMMA WalkOver ==
  ASSUME Shape, WalkAll, pc' \notin {"walked", "ask", "page", "shim"},
         UNCHANGED <<cfg, scope, present, changes, stayed, cursor, total, got, page>>
  PROVE  WalkAll'
  <1>1. CASE Capped
    BY <1>1 DEF WalkAll, Capped, HasCap
  <1>2. CASE ~Capped
    BY <1>2 DEF WalkAll, KeysetAll, OffsetAll, PagedAll, OneShotAll, TotalBounds
  <1> QED BY <1>1, <1>2

LEMMA EndAll ==
  ASSUME Shape, All, EndOfWalk
  PROVE  All'
  <1> SUFFICES ASSUME Reliable' PROVE WalkAll' /\ OutAll'
    BY DEF All
  <1>1. /\ pc \in {"walked", "ask"} /\ (pc = "ask" => Capped)
        /\ pc' \in {"scope", "fetch", "done"}
        /\ UNCHANGED <<cfg, scope, present, changes, stayed, cursor, total, got, page>>
        /\ todo = <<>> /\ (scope = Top => parents = <<>>)
        /\ got \in Seq(Items) /\ out \in Seq(Resources)
    BY DEF EndOfWalk, service, walk, Shape, Types, Route, Nested
  <1>2. WalkAll /\ OutAll
    BY <1>1 DEF All, Reliable
  <1>3. WalkAll'
    BY <1>1, <1>2, WalkOver
  <1> DEFINE due == {scope} \X ((ToSet(got) \cup IF Capped THEN {} ELSE stayed) \cap WantedItems)
  <1>4. owed' = owed \cup due
    BY DEF EndOfWalk
  <1>5. ASSUME NEW p \in due
        PROVE  \E x \in WantedItems :
                  /\ p = <<scope, x>>
                  /\ Has(got, x) \/ (cfg.kind = "drive" /\ (Has(out, <<Top, x>>) \/ <<Top, x>> \in settled))
    <2>1. PICK x \in WantedItems : p = <<scope, x>> /\ (x \in ToSet(got) \/ (~Capped /\ x \in stayed))
      BY <1>5
    <2>2. x \in ToSet(got) => Has(got, x)
      BY <1>1, HasIsMember
    <2>3. ~Capped /\ x \in stayed =>
             Has(got, x) \/ (cfg.kind = "drive" /\ (Has(out, <<Top, x>>) \/ <<Top, x>> \in settled))
      BY <1>1, <1>2, WalkedAll
    <2> QED BY <2>1, <2>2, <2>3
  <1> HIDE DEF due
  <1>6. CASE cfg.kind \in Nested /\ scope = Top /\ parents' = got /\ pc' = "scope" /\ UNCHANGED <<todo, out, settled>>
    <2>1. \A p : ~Ahead(p)
      BY <1>1, <1>6, HasNothing DEF Ahead
    <2>2. \A p \in due : Ahead(p)'
      BY <1>5, <1>6 DEF Ahead, Nested
    <2> QED BY <1>1, <1>2, <1>3, <1>4, <1>6, <2>1, <2>2 DEF OutAll
  <1>7. CASE cfg.kind \in Fetching /\ todo' = got /\ pc' = "fetch" /\ UNCHANGED <<parents, out, settled>>
    <2>1. scope = Top /\ cfg.kind # "drive"
      BY <1>7 DEF Shape, Route, Fetching, Nested, OneShot
    <2>2. \A p : ~Ahead(p)
      BY <1>1, <2>1, HasNothing DEF Ahead
    <2>3. \A p \in due : Ahead(p)'
      BY <1>5, <1>7, <2>1 DEF Ahead
    <2> QED BY <1>1, <1>2, <1>3, <1>4, <1>7, <2>2, <2>3 DEF OutAll
  <1>8. CASE /\ cfg.kind \notin Fetching
             /\ out' = out \o Listed
             /\ settled' = settled \cup {<<Top, scope>>}
             /\ UNCHANGED <<todo, parents>>
    <2>1. /\ Listed \in Seq(Resources)
          /\ \A p : Has(Listed, p) <=> \E x : p = <<scope, x>> /\ Has(got, x) /\ x \in WantedItems
      BY ListedType DEF Shape
    <2>2. \A p : Has(out', p) <=> Has(out, p) \/ Has(Listed, p)
      BY <1>1, <1>8, <2>1, HasConcat
    <2>3. cfg.kind = "drive" => scope = Top
      BY DEF Shape, Route, Nested
    <2>4. ASSUME NEW p \in due PROVE Has(out', p) \/ p \in settled'
      <3>1. PICK x \in WantedItems :
              /\ p = <<scope, x>>
              /\ Has(got, x) \/ (cfg.kind = "drive" /\ (Has(out, <<Top, x>>) \/ <<Top, x>> \in settled))
        BY <1>5, <2>4
      <3>2. CASE Has(got, x)
        BY <2>1, <2>2, <3>1, <3>2
      <3>3. CASE cfg.kind = "drive" /\ (Has(out, p) \/ p \in settled)
        BY <1>8, <2>2, <3>3
      <3> QED BY <2>3, <3>1, <3>2, <3>3
    <2>5. ASSUME NEW p \in owed PROVE Has(out', p) \/ p \in settled' \/ Ahead(p)'
      <3>1. Has(out, p) \/ p \in settled \/ Ahead(p)
        BY <1>1, <1>2, <2>5 DEF OutAll
      <3>2. ASSUME Ahead(p) PROVE p = <<Top, scope>> \/ Ahead(p)'
        BY <1>8, <3>2 DEF Ahead
      <3> QED BY <1>8, <2>2, <3>1, <3>2
    <2> QED BY <1>3, <1>4, <2>4, <2>5 DEF OutAll
  <1> QED BY <1>6, <1>7, <1>8 DEF EndOfWalk

LEMMA ScopeAll ==
  ASSUME Shape, All, NextScope
  PROVE  All'
  <1> SUFFICES ASSUME Reliable' PROVE WalkAll' /\ OutAll'
    BY DEF All
  <1>1. /\ pc = "scope" /\ parents # <<>> /\ EnterScope(Head(parents)) /\ parents' = Tail(parents)
        /\ UNCHANGED <<cfg, page, todo, out, owed, settled>> /\ pc' \in {"shim", "ask"}
        /\ parents \in Seq(Items)
    BY DEF NextScope, Shape, Types
  <1>2. cfg.kind \in {"slack", "github"}
    BY <1>1 DEF Shape, Route, Nested
  <1>3. OutAll
    BY <1>1, <1>2 DEF All, Reliable, EnterScope
  <1>4. /\ Head(parents) \in Items
        /\ \A x : Has(parents, x) <=> x = Head(parents) \/ Has(Tail(parents), x)
    BY <1>1, HasTail
  <1>5. scope' = Head(parents) /\ cursor' = None
    BY <1>1 DEF EnterScope
  <1>6. WalkAll'
    BY <1>1, <1>2, <1>5 DEF WalkAll, KeysetAll, PagedAll, Offsets, OneShot
  <1>7. scope' # Top
    BY <1>4, <1>5, ConnectorsAssumption DEF Top
  <1>8. \A p : Ahead(p) => Ahead(p)'
    BY <1>1, <1>4, <1>5, <1>7 DEF Ahead
  <1>9. OutAll'
    BY <1>1, <1>3, <1>8 DEF OutAll
  <1> QED BY <1>6, <1>9

LEMMA BodyAll ==
  ASSUME Shape, All, NEW shape, BodyTaken(shape) \/ BodySkipped(shape)
  PROVE  All'
  <1> SUFFICES ASSUME Reliable' PROVE WalkAll' /\ OutAll'
    BY DEF All
  <1> DEFINE e == <<Top, Head(todo)>>
  <1>1. /\ pc = "fetch" /\ todo # <<>> /\ todo' = Tail(todo)
        /\ \/ out' = Append(out, <<scope, Head(todo)>>) /\ settled' = settled
           \/ out' = out /\ settled' = settled \cup {<<scope, Head(todo)>>}
        /\ UNCHANGED <<cfg, present, changes, stayed, pc, scope, parents, cursor, total, got, page, owed>>
    BY DEF BodyTaken, BodySkipped, service, walk
  <1>2. scope = Top /\ todo \in Seq(Items) /\ out \in Seq(Resources)
    BY <1>1 DEF Shape, Types, Route, Fetching, Nested, OneShot
  <1>3. WalkAll /\ OutAll
    BY <1>1 DEF All, Reliable
  <1>4. WalkAll'
    BY <1>1, <1>3, WalkOver
  <1>5. /\ Head(todo) \in Items
        /\ \A x : Has(todo, x) <=> x = Head(todo) \/ Has(Tail(todo), x)
    BY <1>1, <1>2, HasTail
  <1>6. e \in Resources
    BY <1>5 DEF Resources
  <1>7. \A p : Ahead(p) => Ahead(p)' \/ p = e
    BY <1>1, <1>5 DEF Ahead
  <1>8. \/ out' = Append(out, e) /\ settled' = settled
        \/ out' = out /\ settled' = settled \cup {e}
    BY <1>1, <1>2
  <1> HIDE DEF e
  <1>9. \A p : Has(Append(out, e), p) <=> Has(out, p) \/ p = e
    BY <1>2, <1>6, HasAppend
  <1>10. \A p : Has(out, p) \/ p \in settled \/ p = e => Has(out', p) \/ p \in settled'
    BY <1>8, <1>9
  <1>11. OutAll'
    BY <1>1, <1>3, <1>7, <1>10 DEF OutAll
  <1> QED BY <1>4, <1>11

\* The files of a page of Drive are taken or skipped; none is forgotten.
LEMMA DrivePageAll ==
  ASSUME Shape, All, cfg.kind = "drive", pc \in {"page", "shim"}, pc' \in {"page", "shim"},
         UNCHANGED <<cfg, present, changes, stayed, scope, parents, todo, cursor, total, got, owed>>,
         \/ UNCHANGED <<page, out, settled>>
         \/ /\ page # <<>> /\ page' = Tail(page)
            /\ \/ out' = Append(out, <<scope, Head(page)>>) /\ settled' = settled
               \/ out' = out /\ settled' = settled \cup {<<scope, Head(page)>>}
  PROVE  All'
  <1> SUFFICES ASSUME Reliable' PROVE WalkAll' /\ OutAll'
    BY DEF All
  <1>1. WalkAll /\ OutAll
    BY DEF All, Reliable
  <1>2. scope = Top /\ page \in Seq(Items) /\ out \in Seq(Resources)
    BY DEF Shape, Types, Route, Nested
  <1> DEFINE e == <<Top, Head(page)>>
  <1>3. \A x : Has(page, x) \/ Has(out, <<Top, x>>) \/ <<Top, x>> \in settled
               => Has(page', x) \/ Has(out', <<Top, x>>) \/ <<Top, x>> \in settled'
    <2>1. CASE UNCHANGED <<page, out, settled>>
      BY <2>1
    <2>2. CASE page # <<>> /\ page' = Tail(page)
      <3>1. /\ Head(page) \in Items
            /\ \A x : Has(page, x) <=> x = Head(page) \/ Has(Tail(page), x)
        BY <1>2, <2>2, HasTail
      <3>2. e \in Resources /\ \A x : x = Head(page) => <<Top, x>> = e
        BY <3>1 DEF Resources
      <3>3. \/ out' = Append(out, e) /\ settled' = settled
            \/ out' = out /\ settled' = settled \cup {e}
            \/ UNCHANGED <<out, settled>> /\ page' = page
        BY <1>2
      <3> HIDE DEF e
      <3>4. \A p : Has(Append(out, e), p) <=> Has(out, p) \/ p = e
        BY <1>2, <3>2, HasAppend
      <3> QED BY <2>2, <3>1, <3>2, <3>3, <3>4
    <2> QED BY <2>1, <2>2
  <1>4. \A p : Has(out, p) \/ p \in settled => Has(out', p) \/ p \in settled'
    <2>1. CASE UNCHANGED <<page, out, settled>>
      BY <2>1
    <2>2. CASE page # <<>> /\ settled' = settled /\ out' = Append(out, <<scope, Head(page)>>)
      <3>1. <<scope, Head(page)>> \in Resources
        BY <1>2, <2>2, HasTail DEF Resources
      <3> QED BY <1>2, <2>2, <3>1, HasAppend
    <2>3. CASE out' = out /\ settled' = settled \cup {<<scope, Head(page)>>}
      BY <2>3
    <2> QED BY <2>1, <2>2, <2>3
  <1>5. \A x : Answered(x) => Answered(x)'
    BY <1>3 DEF Answered, Taken
  <1>6. ~Capped /\ ~Capped' /\ WantedItems' = WantedItems
    BY DEF Capped, HasCap, WantedItems
  <1>7. KeysetAll
    BY <1>1, <1>6 DEF WalkAll, Keyset
  <1>8. KeysetAll'
    BY <1>5, <1>6, <1>7 DEF KeysetAll
  <1>9. WalkAll'
    BY <1>8 DEF WalkAll, Offsets, OneShot
  <1>10. \A p : Ahead(p) => Ahead(p)'
    BY <1>2 DEF Ahead
  <1>11. OutAll'
    BY <1>1, <1>4, <1>10 DEF OutAll
  <1> QED BY <1>9, <1>11

LEMMA DriveAll ==
  ASSUME Shape, All, NEW shape, DriveFile(shape) \/ \E exported : DriveAnswered(shape, exported)
  PROVE  All'
  <1>1. CASE DriveFile(shape)
    <2>1. pc = "page" /\ cfg.kind = "drive"
      BY <1>1 DEF DriveFile, Shape, Route
    <2> QED BY <1>1, <2>1, DrivePageAll DEF DriveFile, service, walk
  <1>2. ASSUME NEW exported, DriveAnswered(shape, exported) PROVE All'
    <2>1. /\ pc = "shim" /\ cfg.kind = "drive" /\ page # <<>>
          /\ UNCHANGED <<cfg, present, changes, stayed, scope, parents, todo, cursor, total, got, owed>>
          /\ \/ pc' = "failed" /\ UNCHANGED page
             \/ /\ pc' = "page" /\ page' = Tail(page)
                /\ \/ out' = Append(out, <<scope, Head(page)>>) /\ settled' = settled
                   \/ out' = out /\ settled' = settled \cup {<<scope, Head(page)>>}
      BY <1>2 DEF DriveAnswered, service, walk, Shape, Route
    <2>2. CASE pc' = "failed" /\ UNCHANGED page
      BY <2>1, <2>2, WalkOver DEF All, OutAll, Reliable
    <2>3. CASE pc' = "page"
      BY <2>1, <2>3, DrivePageAll
    <2> QED BY <2>1, <2>2, <2>3
  <1> QED BY <1>1, <1>2

LEMMA GithubAll ==
  ASSUME Shape, All, GithubAnswered
  PROVE  All'
  <1> SUFFICES ASSUME Reliable' PROVE WalkAll' /\ OutAll'
    BY DEF All
  <1> DEFINE e == <<scope, Readme>>
  <1>1. /\ pc = "shim" /\ cfg.kind = "github" /\ cursor = None
        /\ out' \in {out, Append(out, e)}
        /\ \/ pc' = "ask" /\ settled' = settled
           \/ pc' = "scope" /\ settled' = settled \cup {<<Top, scope>>}
        /\ UNCHANGED <<cfg, present, changes, stayed, scope, parents, todo, cursor, total, got, page, owed>>
    BY DEF GithubAnswered, service, walk, Shape, Route
  <1>2. OutAll
    BY <1>1 DEF All, Reliable
  <1>3. out \in Seq(Resources) /\ e \in Resources
    BY DEF Shape, Types, Resources
  <1>4. WalkAll'
    BY <1>1 DEF WalkAll, KeysetAll, PagedAll, Offsets, OneShot
  <1> HIDE DEF e
  <1>5. \A p : Has(out, p) => Has(out', p)
    <2>1. \A p : Has(out, p) => Has(Append(out, e), p)
      BY <1>3, HasAppend
    <2> QED BY <1>1, <2>1
  <1>6. \A p : Ahead(p) => Ahead(p)' \/ p \in settled'
    BY <1>1 DEF Ahead
  <1>7. OutAll'
    BY <1>1, <1>2, <1>5, <1>6 DEF OutAll
  <1> QED BY <1>4, <1>7

LEMMA PlaceAll ==
  ASSUME Shape, All,
         \/ AskFails \/ CursorLoop \/ LastScope \/ BodiesEnd \/ DrivePageEnds \/ ShimFails
         \/ \E shape : RowPanics(shape)
         \/ \E signals : ShimRefused(signals)
  PROVE  All'
  <1> SUFFICES ASSUME Reliable' PROVE WalkAll' /\ OutAll'
    BY DEF All
  <1>1. UNCHANGED <<cfg, present, changes, stayed, scope, parents, todo, cursor, total, got, page, out, owed>>
    BY DEF AskFails, CursorLoop, WalkFails, LastScope, BodiesEnd, DrivePageEnds, ShimFails, RowPanics,
           ShimRefused, service, walk
  <1>2. WalkAll /\ OutAll
    BY <1>1 DEF All, Reliable
  <1>3. CASE pc' \in {"failed", "panicked"}
    BY <1>1, <1>2, <1>3, WalkOver DEF OutAll
  <1>4. CASE pc' = "scope" /\ settled' = settled \cup {<<Top, scope>>}
    <2>1. \A p : Ahead(p) => Ahead(p)' \/ p \in settled'
      BY <1>1, <1>4 DEF Ahead
    <2>2. pc \notin {"failed", "panicked"}
      BY <1>4 DEF AskFails, CursorLoop, WalkFails, LastScope, BodiesEnd, DrivePageEnds, ShimFails,
                  RowPanics, ShimRefused
    <2> QED BY <1>1, <1>2, <1>4, <2>1, <2>2, WalkOver DEF OutAll
  <1>5. CASE pc \in {"scope", "fetch"} /\ pc' = "done" /\ UNCHANGED settled
    <2>1. \A p : Ahead(p) => Ahead(p)'
      BY <1>1, <1>5 DEF Ahead
    <2> QED BY <1>1, <1>2, <1>5, <2>1, WalkOver DEF OutAll
  <1>6. CASE pc = "page" /\ page = <<>> /\ (pc' = IF cursor = None THEN "walked" ELSE "ask") /\ UNCHANGED settled
    <2>1. cfg.kind = "drive" /\ scope = Top
      BY <1>6 DEF Shape, Route, Nested
    <2>2. ~Capped /\ WantedItems' = WantedItems
      BY <1>1, <2>1 DEF Capped, HasCap, WantedItems
    <2>3. KeysetAll
      BY <1>2, <2>1, <2>2 DEF WalkAll, Keyset
    <2>4. \A x : Answered(x) => Answered(x)'
      BY <1>1, <1>6 DEF Answered, Taken
    <2>5. KeysetAll'
      BY <1>1, <1>6, <2>1, <2>2, <2>3, <2>4 DEF KeysetAll
    <2>6. WalkAll'
      BY <1>1, <2>1, <2>5 DEF WalkAll, Offsets, OneShot
    <2>7. \A p : Ahead(p) => Ahead(p)'
      BY <1>1, <2>1 DEF Ahead
    <2> QED BY <1>1, <1>2, <1>6, <2>6, <2>7 DEF OutAll
  <1>7. CASE pc' = pc /\ UNCHANGED settled
    <2>1. UNCHANGED <<Capped, WantedItems>> /\ \A x : Answered(x) => Answered(x)'
      BY <1>1, <1>7 DEF Capped, HasCap, WantedItems, Answered, Taken
    <2>2. \A p : Ahead(p) => Ahead(p)'
      BY <1>1, <1>7 DEF Ahead
    <2>3. WalkAll'
      BY <1>1, <1>2, <1>7, <2>1 DEF WalkAll, KeysetAll, OffsetAll, PagedAll, OneShotAll, TotalBounds, Start
    <2> QED BY <1>1, <1>2, <1>7, <2>2, <2>3 DEF OutAll
  <1> QED BY <1>3, <1>4, <1>5, <1>6, <1>7
          DEF AskFails, CursorLoop, WalkFails, LastScope, BodiesEnd, DrivePageEnds, ShimFails, RowPanics,
              ShimRefused

LEMMA ChangeAll ==
  ASSUME Shape, All, NEW i \in Items, Come(i) \/ Go(i)
  PROVE  All'
  <1> SUFFICES ASSUME Reliable' PROVE WalkAll' /\ OutAll'
    BY DEF All
  <1>1. /\ UNCHANGED <<cfg, pc, scope, parents, todo, cursor, total, got, page, out, owed, settled>>
        /\ stayed' \in SUBSET stayed
        /\ changes.ins \in Nat /\ changes.del \in Nat /\ changes \in [ins : Nat, del : Nat]
        /\ present \in SUBSET Items /\ total \in Cursors /\ got \in Seq(Items) /\ cursor \in Cursors
    BY DEF Come, Go, walk, Shape, Types
  <1>2. \/ changes'.ins = changes.ins + 1 /\ changes'.del = changes.del
        \/ changes'.del = changes.del + 1 /\ changes'.ins = changes.ins /\ present' \in SUBSET present
    BY <1>1 DEF Come, Go
  <1>3. Reliable
    BY <1>1, <1>2 DEF Reliable
  <1>4. WalkAll /\ OutAll
    BY <1>3 DEF All
  <1>5. cfg.kind \in Offsets => cfg.kind = "offset" /\ present' \in SUBSET present /\ changes'.del # 0 /\ cfg.totals
    BY <1>1, <1>2 DEF Reliable, Offsets
  <1>6. UNCHANGED <<Capped, WantedItems>> /\ \A x : Answered(x) => Answered(x)'
    BY <1>1 DEF Capped, HasCap, WantedItems, Answered, Taken
  <1>7. OutAll'
    <2>1. \A p : Ahead(p) => Ahead(p)'
      BY <1>1 DEF Ahead
    <2> QED BY <1>1, <1>4, <2>1 DEF OutAll
  <1>8. KeysetAll => KeysetAll'
    BY <1>1, <1>6 DEF KeysetAll
  <1>9. OneShotAll => OneShotAll'
    BY <1>1, <1>6 DEF OneShotAll
  <1>10. ASSUME cfg.kind \in Offsets, OffsetAll PROVE OffsetAll'
    <2>1. TotalBounds /\ cfg.kind = "offset" /\ cfg.totals /\ present' \in SUBSET present /\ changes'.del # 0
      BY <1>5, <1>10 DEF OffsetAll
    <2> DEFINE U == ToSet(got) \cup present
               V == ToSet(got) \cup present'
    <2>2. IsFiniteSet(U)
      <3>1. IsFiniteSet(present) /\ IsFiniteSet(Items)
        BY <1>1, PresentFinite, ConnectorsAssumption
      <3>2. ToSet(got) \in SUBSET Items
        BY <1>1, HasIsMember
      <3> QED BY <3>1, <3>2, FS_Subset, FS_Union
    <2>3. V \in SUBSET U
      BY <2>1
    <2>4. Cardinality(V) \in Nat /\ Cardinality(U) \in Nat /\ Cardinality(V) <= Cardinality(U)
      BY <2>2, <2>3, FS_Subset, FS_CardinalityType
    <2>5. total # None => total[1] \in Nat
      BY <1>1, CursorType
    <2>6. total # None => Cardinality(V) <= total[1]
      BY <2>1, <2>4, <2>5 DEF TotalBounds
    <2>7. TotalBounds'
      BY <1>1, <2>1, <2>6 DEF TotalBounds, Start
    <2> QED BY <1>1, <1>10, <2>1, <2>7 DEF OffsetAll
  <1>12. ASSUME cfg.kind = "github", PagedAll PROVE PagedAll'
    <2>1. present \in SUBSET present'
      <3>1. changes'.del = 0
        BY <1>1, <1>12 DEF Reliable
      <3> QED BY <1>1, <3>1 DEF Come, Go
    <2>2. present' \in SUBSET Nat /\ IsFiniteSet(present')
      <3>1. present' \in SUBSET Items
        BY <1>1 DEF Come, Go
      <3> QED BY <3>1, PresentFinite
    <2>3. ASSUME NEW x \in stayed \cap WantedItems, cursor # None, Rank(present', x) <= cursor[1]
          PROVE  Rank(present, x) <= cursor[1]
      <3>1. cursor[1] \in Nat
        BY <1>1, <2>3, CursorType
      <3>2. Rank(present, x) \in Nat /\ Rank(present', x) \in Nat /\ Rank(present, x) <= Rank(present', x)
        BY <2>1, <2>2, RankShrinks
      <3> QED BY <2>3, <3>1, <3>2
    <2> QED BY <1>1, <1>6, <1>12, <2>3 DEF PagedAll
  <1>11. WalkAll'
    BY <1>1, <1>4, <1>6, <1>8, <1>9, <1>10, <1>12 DEF WalkAll
  <1> QED BY <1>7, <1>11

LEMMA StutterAll ==
  ASSUME All, UNCHANGED vars
  PROVE  All'
  <1>1. UNCHANGED <<Reliable, Capped, WantedItems>> /\ \A x : Answered(x) => Answered(x)'
    BY DEF Reliable, Capped, HasCap, WantedItems, Answered, Taken, vars
  <1>2. WalkAll => WalkAll'
    BY <1>1 DEF WalkAll, KeysetAll, OffsetAll, PagedAll, OneShotAll, TotalBounds, Start, vars
  <1>3. OutAll => OutAll'
    BY DEF OutAll, Ahead, vars
  <1> QED BY <1>1, <1>2, <1>3 DEF All

LEMMA StepAll == Shape /\ Once /\ All /\ [Next]_vars => All'
  <1> SUFFICES ASSUME Shape, Once, All, [Next]_vars PROVE All'
    OBVIOUS
  <1>1. ASSUME NEW f, NEW env, Construct(f, env) PROVE All'
    BY <1>1, ConstructAll
  <1>2. CASE AskPage
    BY <1>2, AskAll
  <1>3. CASE EndOfWalk
    BY <1>3, EndAll
  <1>4. CASE NextScope
    BY <1>4, ScopeAll
  <1>5. CASE AskFails \/ CursorLoop \/ LastScope \/ BodiesEnd \/ DrivePageEnds \/ ShimFails
    BY <1>5, PlaceAll
  <1>6. CASE GithubAnswered
    BY <1>6, GithubAll
  <1>7. ASSUME NEW shape, BodyTaken(shape) \/ BodySkipped(shape) PROVE All'
    BY <1>7, BodyAll
  <1>8. ASSUME NEW shape, RowPanics(shape) PROVE All'
    BY <1>8, PlaceAll
  <1>9. ASSUME NEW shape, DriveFile(shape) \/ \E exported \in BOOLEAN : DriveAnswered(shape, exported)
        PROVE  All'
    BY <1>9, DriveAll
  <1>10. ASSUME NEW signals, ShimRefused(signals) PROVE All'
    BY <1>10, PlaceAll
  <1>11. ASSUME NEW i \in Items, Come(i) \/ Go(i) PROVE All'
    BY <1>11, ChangeAll
  <1>12. CASE UNCHANGED vars
    BY <1>12, StutterAll
  <1> QED
    BY <1>1, <1>2, <1>3, <1>4, <1>5, <1>6, <1>7, <1>8, <1>9, <1>10, <1>11, <1>12
    DEF Next, ListStep

LEMMA AllInvariant == Spec => []All
  BY InitAll, StepAll, ShapeInvariant, OnceInvariant, PTL DEF Spec

(***************************************************************************)
(* A listing that succeeds has an answer for every wanted item that stayed *)
(* while its scope was walked: for every connector, every page size the    *)
(* paging can bear, every cap and every number of changes of the service.  *)
(***************************************************************************)
THEOREM ListingsAreComplete == Spec => []ListsEverything
  <1>1. Shape /\ All => ListsEverything
    <2> SUFFICES ASSUME Shape, All, pc = "done", Reliable
                 PROVE  owed \subseteq ToSet(out) \cup settled
      BY DEF ListsEverything
    <2>1. parents = <<>> /\ todo = <<>> /\ out \in Seq(Resources)
      BY DEF Shape, Types, Route
    <2>2. \A p : ~Ahead(p)
      BY <2>1, HasNothing DEF Ahead
    <2>3. \A p \in owed : Has(out, p) \/ p \in settled
      BY <2>2 DEF All, OutAll
    <2> QED BY <2>1, <2>3, HasIsMember
  <1> QED BY <1>1, ShapeInvariant, AllInvariant, PTL

=============================================================================
