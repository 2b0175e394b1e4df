--------------------------- MODULE HttpSendProofs ---------------------------
(***************************************************************************)
(* Theorems about HttpSend, for any number of tasks, any retry budget and  *)
(* any behaviour of the server and the token endpoint.                     *)
(*                                                                         *)
(* LockInv ties the mutex to the program points: who refreshes owns it,    *)
(* and meanwhile the cache stays as the owner found it.  TokenInv orders   *)
(* the tokens in the cache, in flight and refused.  BudgetInv counts the   *)
(* requests of a call from its locals.                                     *)
(***************************************************************************)
EXTENDS HttpSend, TLAPS

LockInv ==
    /\ \A t \in Tasks : Refreshing(t) => owner = t
    /\ \A t \in Tasks : Refreshing(t) => ~Usable /\ ~Failing

TokenInv ==
    /\ cache.token <= issued
    /\ \A t \in Tasks :
          /\ call[t].header <= issued /\ refused[t] <= issued
          /\ call[t].invalidated_once => cache.token = None \/ cache.token > refused[t]
          /\ At(t, "inflight") /\ call[t].invalidated_once => call[t].header > refused[t]

Free(t) == IF call[t].invalidated_once THEN 1 ELSE 0

\* Points before a request of the current attempt, and while one is out.
Before == {"auth", "refresh", "backoff", "sleep"}

BudgetInv ==
    \A t \in Tasks :
        /\ call[t].pc \in Before \cup {"inflight", "invalidate"} => call[t].attempt < B!Attempts
        /\ call[t].pc \in Before => sent[t] = call[t].attempt + Free(t)
        /\ At(t, "inflight") => sent[t] = call[t].attempt + Free(t) + 1
        /\ At(t, "invalidate") => sent[t] = call[t].attempt + 1 /\ ~call[t].invalidated_once
        /\ At(t, "idle") => call[t] = NoCall /\ sent[t] = 0

-----------------------------------------------------------------------------
(* TypeOK. *)

LEMMA InitType == Init => TypeOK
BY CredentialAssumption
   DEF Init, CredInit, TypeOK, CredTypeOK, CachedAccess, Calls, Points, NoCall, None

\* The shapes in which a step changes the credential.
LEMMA CredentialType ==
    ASSUME CredTypeOK, NEW t \in Tasks,
           \/ FailFast \/ CacheHit \/ BeginRefresh(t) \/ RefreshOk \/ RefreshRefused
           \/ RefreshTransient \/ RefreshGivesUp \/ Invalidate \/ Release(t) \/ ClockTick
           \/ UNCHANGED credVars
    PROVE  CredTypeOK'
<1> USE CredentialAssumption DEF CredTypeOK, CachedAccess, credVars, None
<1>1. CASE FailFast \/ CacheHit \/ BeginRefresh(t)
  BY <1>1 DEF FailFast, CacheHit, BeginRefresh
<1>2. CASE RefreshOk
  <2>1. PICK expires_in \in Lifetimes :
          cache' = [cache EXCEPT !.token = issued + 1, !.until = now + expires_in]
    BY <1>2 DEF RefreshOk
  <2>2. issued + 1 \in 0..MaxIssued
    <3>1. issued < MaxIssued
      BY <1>2 DEF RefreshOk
    <3> QED BY <3>1
  <2>3. now + expires_in \in Nat
    OBVIOUS
  <2>4. cache' \in [token : Nat, until : Nat, negative : Nat]
    <3>1. cache \in [token : Nat, until : Nat, negative : Nat]
      OBVIOUS
    <3>2. issued + 1 \in Nat
      OBVIOUS
    <3> QED BY ONLY <3>1, <3>2, <2>1, <2>3
  <2> QED BY <1>2, <2>2, <2>4 DEF RefreshOk
<1>3. CASE RefreshRefused \/ RefreshTransient \/ RefreshGivesUp
  BY <1>3 DEF RefreshRefused, RefreshTransient, RefreshGivesUp
<1>4. CASE Invalidate
  BY <1>4 DEF Invalidate
<1>5. CASE Release(t) \/ ClockTick
  BY <1>5 DEF Release, ClockTick
<1>6. CASE UNCHANGED credVars
  BY <1>6
<1> QED BY <1>1, <1>2, <1>3, <1>4, <1>5, <1>6

LEMMA RequestType ==
    ASSUME TypeOK, NEW t \in Tasks, NEW token \in Nat, Request(t, token)
    PROVE  /\ call' \in [Tasks -> Calls]
           /\ sent' \in [Tasks -> Nat]
           /\ refused' \in [Tasks -> Nat]
<1>1. call' = [call EXCEPT ![t].pc = "inflight", ![t].header = token]
  BY DEF Request
<1>2. call' \in [Tasks -> Calls]
  <2>1. call[t] \in Calls /\ call \in [Tasks -> Calls]
    BY DEF TypeOK
  <2>2. [call[t] EXCEPT !.pc = "inflight", !.header = token] \in Calls
    BY <2>1 DEF Calls, Points
  <2> QED BY <1>1, <2>1, <2>2
<1>3. sent' \in [Tasks -> Nat]
  BY DEF TypeOK, Request
<1> QED BY <1>2, <1>3 DEF TypeOK, Request

LEMMA TypeInductive == TypeOK /\ [Next]_vars => TypeOK'
<1> SUFFICES ASSUME TypeOK, [Next]_vars PROVE TypeOK'
  OBVIOUS
<1> USE DEF TypeOK
<1>1. ASSUME NEW t \in Tasks, NEW pc \in Points, Goto(t, pc)
      PROVE  call' \in [Tasks -> Calls]
  BY <1>1 DEF Goto, Calls
<1>2. ASSUME NEW t \in Tasks,
             StartSend(t) \/ AuthFailsFast(t) \/ AuthBeginsRefresh(t) \/ TokenRefused(t)
               \/ RefreshBacksOff(t) \/ RefreshAgain(t) \/ Wake(t)
      PROVE  TypeOK'
  <2>1. CredTypeOK'
    BY <1>2, CredentialType DEF StartSend, AuthFailsFast, AuthBeginsRefresh, TokenRefused,
       RefreshBacksOff, RefreshAgain, Wake
  <2>2. call' \in [Tasks -> Calls]
    BY <1>1, <1>2 DEF StartSend, AuthFailsFast, AuthBeginsRefresh, TokenRefused,
       RefreshBacksOff, RefreshAgain, Wake, Points, Results
  <2> QED BY <1>2, <2>1, <2>2 DEF StartSend, AuthFailsFast, AuthBeginsRefresh, TokenRefused,
       RefreshBacksOff, RefreshAgain, Wake
<1>3. ASSUME NEW t \in Tasks, AuthFromCache(t) \/ TokenArrives(t)
      PROVE  TypeOK'
  <2>1. CredTypeOK'
    BY <1>3, CredentialType DEF AuthFromCache, TokenArrives
  <2>2. cache.token \in Nat /\ issued + 1 \in Nat
    BY CredentialAssumption DEF CredTypeOK, CachedAccess
  <2> QED BY <1>3, <2>1, <2>2, RequestType DEF AuthFromCache, TokenArrives
<1>4. ASSUME NEW t \in Tasks, AnswerIsFinal(t) \/ AttemptFails(t)
      PROVE  TypeOK'
  <2>1. CredTypeOK'
    BY <1>4, CredentialType DEF AnswerIsFinal, AttemptFails
  <2>2. call[t] \in Calls
    OBVIOUS
  <2>3. call' \in [Tasks -> Calls]
    BY <1>1, <1>4, <2>2 DEF AnswerIsFinal, AttemptFails, Calls, Points, Results
  <2> QED BY <1>4, <2>1, <2>3 DEF AnswerIsFinal, AttemptFails
<1>5. ASSUME NEW t \in Tasks, Answer401(t)
      PROVE  TypeOK'
  <2>1. CredTypeOK'
    BY <1>5, CredentialType DEF Answer401
  <2>2. call' \in [Tasks -> Calls]
    BY <1>1, <1>5 DEF Answer401, Points, Results
  <2>3. refused' \in [Tasks -> Nat]
    BY <1>5 DEF Answer401, Calls
  <2> QED BY <1>5, <2>1, <2>2, <2>3 DEF Answer401
<1>6. ASSUME NEW t \in Tasks, InvalidateAndRetry(t)
      PROVE  TypeOK'
  <2>1. CredTypeOK'
    BY <1>6, CredentialType DEF InvalidateAndRetry
  <2> QED BY <1>6, <2>1 DEF InvalidateAndRetry, Calls, Points
<1>7. ASSUME NEW t \in Tasks, Leave(t)
      PROVE  TypeOK'
  <2>1. CredTypeOK'
    BY <1>7, CredentialType DEF Leave
  <2> QED BY <1>7, <2>1 DEF Leave, NoCall, Calls, Points, None
<1>8. CASE Clock
  <2>1. CredTypeOK'
    BY <1>8, CredentialAssumption DEF Clock, ClockTick, CredTypeOK
  <2> QED BY <1>8, <2>1 DEF Clock
<1>9. CASE UNCHANGED vars
  BY <1>9 DEF vars, CredTypeOK
<1> QED
  BY <1>2, <1>3, <1>4, <1>5, <1>6, <1>7, <1>8, <1>9 DEF Next, TaskStep

(***************************************************************************)
(* Every state is well typed; the refresh loop stays within its attempts.  *)
(***************************************************************************)
THEOREM TypeCorrect == Spec => []TypeOK
BY InitType, TypeInductive, PTL DEF Spec

-----------------------------------------------------------------------------
(* RefreshOnlyWhenNeeded. *)

LEMMA LockInductive == TypeOK /\ LockInv /\ [Next]_vars => LockInv'
<1> SUFFICES ASSUME TypeOK, LockInv, [Next]_vars PROVE LockInv'
  OBVIOUS
<1> USE DEF LockInv, Refreshing, At, Goto
<1>0. /\ call \in [Tasks -> Calls] /\ now \in Nat /\ cache \in CachedAccess
      /\ Skew \in Nat /\ NoOwner \notin Tasks
  BY CredentialAssumption DEF TypeOK, CredTypeOK
<1>1. ASSUME NEW t \in Tasks,
             StartSend(t) \/ AnswerIsFinal(t) \/ Answer401(t) \/ AttemptFails(t) \/ Wake(t)
               \/ RefreshBacksOff(t) \/ RefreshAgain(t)
      PROVE  LockInv'
  <2>1. UNCHANGED <<now, cache, owner>>
    BY <1>1 DEF StartSend, AnswerIsFinal, Answer401, AttemptFails, Wake, RefreshBacksOff,
       RefreshAgain, RefreshTransient, credVars
  <2>2. \A u \in Tasks : call'[u].pc \in {"refresh", "backoff"} => Refreshing(u)
    BY <1>0, <1>1 DEF StartSend, AnswerIsFinal, Answer401, AttemptFails, Wake,
       RefreshBacksOff, RefreshAgain, Calls
  <2> QED BY <2>1, <2>2 DEF Usable, Failing
<1>2. ASSUME NEW t \in Tasks, AuthFailsFast(t) \/ AuthFromCache(t) \/ InvalidateAndRetry(t)
      PROVE  LockInv'
  <2>1. owner = NoOwner
    BY <1>2 DEF AuthFailsFast, AuthFromCache, InvalidateAndRetry, FailFast, CacheHit, Invalidate
  <2>2. \A u \in Tasks : call'[u].pc \notin {"refresh", "backoff"}
    BY <1>0, <1>2, <2>1 DEF AuthFailsFast, AuthFromCache, InvalidateAndRetry, Request, Calls
  <2> QED BY <2>2
<1>3. ASSUME NEW t \in Tasks, AuthBeginsRefresh(t)
      PROVE  LockInv'
  <2>1. owner = NoOwner /\ owner' = t /\ ~Usable /\ now' = now
        /\ cache' = [cache EXCEPT !.negative = None]
    BY <1>3 DEF AuthBeginsRefresh, BeginRefresh
  <2>2. \A u \in Tasks : u # t => ~Refreshing(u) /\ call'[u] = call[u]
    BY <1>0, <1>3, <2>1 DEF AuthBeginsRefresh
  <2>3. ~Usable' /\ ~Failing'
    BY <1>0, <2>1 DEF Usable, Failing, None, CachedAccess
  <2> QED BY <2>1, <2>2, <2>3
<1>4. ASSUME NEW t \in Tasks, TokenArrives(t) \/ TokenRefused(t)
      PROVE  LockInv'
  <2>1. owner = t
    BY <1>4 DEF TokenArrives, TokenRefused
  <2>2. \A u \in Tasks : call'[u].pc \notin {"refresh", "backoff"}
    BY <1>0, <1>4, <2>1 DEF TokenArrives, TokenRefused, Request, Calls
  <2> QED BY <2>2
<1>5. ASSUME NEW t \in Tasks, Leave(t)
      PROVE  LockInv'
  <2>1. /\ \A u \in Tasks : call'[u].pc \in {"refresh", "backoff"} => u # t /\ Refreshing(u)
        /\ UNCHANGED <<now, cache>>
        /\ owner' = IF owner = t THEN NoOwner ELSE owner
    BY <1>0, <1>5 DEF Leave, Release, NoCall
  <2> QED BY <2>1 DEF Usable, Failing
<1>6. CASE Clock
  <2>1. now' = now + 1 /\ UNCHANGED <<cache, owner, call>>
    BY <1>6 DEF Clock, ClockTick
  <2>2. (~Usable => ~Usable') /\ (~Failing => ~Failing')
    BY <1>0, <2>1 DEF Usable, Failing, CachedAccess
  <2> QED BY <2>1, <2>2
<1>7. CASE UNCHANGED vars
  BY <1>7 DEF vars, Usable, Failing
<1> QED BY <1>1, <1>2, <1>3, <1>4, <1>5, <1>6, <1>7 DEF Next, TaskStep

(***************************************************************************)
(* The token endpoint is never asked by two tasks at once, nor while the   *)
(* cache could answer: the mutex is held from the check to the answer,     *)
(* across every backoff, and let go of when the future is dropped.         *)
(***************************************************************************)
THEOREM RefreshesAreNeeded == Spec => []RefreshOnlyWhenNeeded
<1>1. Init => LockInv
  BY DEF Init, LockInv, Refreshing, NoCall
<1>2. LockInv => RefreshOnlyWhenNeeded
  BY DEF LockInv, RefreshOnlyWhenNeeded
<1> QED BY <1>1, <1>2, InitType, TypeInductive, LockInductive, PTL DEF Spec

-----------------------------------------------------------------------------
(* FreshAfterRefusal. *)

LEMMA TokenInductive == TypeOK /\ TokenInv /\ [Next]_vars => TokenInv'
<1> SUFFICES ASSUME TypeOK, TokenInv, [Next]_vars PROVE TokenInv'
  OBVIOUS
<1> USE DEF TokenInv, At, Goto
<1>0. /\ call \in [Tasks -> Calls] /\ refused \in [Tasks -> Nat]
      /\ cache \in CachedAccess /\ issued \in Nat
  BY CredentialAssumption DEF TypeOK, CredTypeOK
<1>1. ASSUME NEW t \in Tasks,
             StartSend(t) \/ AuthFailsFast(t) \/ AuthBeginsRefresh(t) \/ TokenRefused(t)
               \/ RefreshBacksOff(t) \/ RefreshAgain(t) \/ AnswerIsFinal(t)
               \/ AttemptFails(t) \/ Wake(t)
      PROVE  TokenInv'
  <2>1. cache'.token = cache.token /\ UNCHANGED <<issued, refused>>
    BY <1>0, <1>1 DEF StartSend, AuthFailsFast, AuthBeginsRefresh, TokenRefused, RefreshBacksOff,
       RefreshAgain, AnswerIsFinal, AttemptFails, Wake, credVars, FailFast, BeginRefresh,
       RefreshRefused, RefreshGivesUp, RefreshTransient, CachedAccess
  <2>2. \A u \in Tasks : /\ call'[u].header = call[u].header
                         /\ call'[u].invalidated_once = call[u].invalidated_once
                         /\ call'[u].pc = "inflight" => call[u].pc = "inflight"
    BY <1>0, <1>1 DEF StartSend, AuthFailsFast, AuthBeginsRefresh, TokenRefused, RefreshBacksOff,
       RefreshAgain, AnswerIsFinal, AttemptFails, Wake, Calls
  <2> QED BY <2>1, <2>2
<1>2. ASSUME NEW t \in Tasks, AuthFromCache(t)
      PROVE  TokenInv'
  <2>1. /\ cache.token # None /\ cache'.token = cache.token
        /\ UNCHANGED <<issued, refused>>
        /\ call' = [call EXCEPT ![t].pc = "inflight", ![t].header = cache.token]
    BY <1>0, <1>2 DEF AuthFromCache, CacheHit, Request, Usable, CachedAccess
  <2>2. /\ \A u \in Tasks : u # t => call'[u] = call[u]
        /\ call'[t].header = cache.token
        /\ call'[t].invalidated_once = call[t].invalidated_once
    BY <1>0, <2>1 DEF Calls
  <2> QED BY <2>1, <2>2
<1>3. ASSUME NEW t \in Tasks, TokenArrives(t)
      PROVE  TokenInv'
  <2>1. /\ issued' = issued + 1 /\ cache'.token = issued + 1 /\ refused' = refused
        /\ call' = [call EXCEPT ![t].pc = "inflight", ![t].header = issued + 1]
    BY <1>0, <1>3 DEF TokenArrives, RefreshOk, Request, CachedAccess
  <2>2. /\ \A u \in Tasks : u # t => call'[u] = call[u]
        /\ call'[t].header = issued + 1
        /\ call'[t].invalidated_once = call[t].invalidated_once
    BY <1>0, <2>1 DEF Calls
  <2>3. \A u \in Tasks : /\ call[u].header \in Nat /\ refused[u] \in Nat
                         /\ call[u].header <= issued /\ refused[u] <= issued
    BY <1>0 DEF Calls
  <2>4. \A u \in Tasks : /\ call'[u].header <= issued' /\ refused'[u] <= issued'
                         /\ cache'.token > refused'[u]
    BY <1>0, <2>1, <2>2, <2>3
  <2>5. \A u \in Tasks : call'[u].pc = "inflight" /\ call'[u].invalidated_once =>
                            call'[u].header > refused'[u]
    BY <1>0, <2>1, <2>2, <2>3
  <2> QED BY <1>0, <2>1, <2>4, <2>5
<1>4. ASSUME NEW t \in Tasks, Answer401(t)
      PROVE  TokenInv'
  <2>1. UNCHANGED <<cache, issued>>
    BY <1>4 DEF Answer401, credVars
  <2>2. /\ \A u \in Tasks : u # t => call'[u] = call[u] /\ refused'[u] = refused[u]
        /\ call'[t].header = call[t].header
        /\ call'[t].invalidated_once = call[t].invalidated_once
        /\ call'[t].pc # "inflight"
        /\ refused'[t] = refused[t] \/ (refused'[t] = call[t].header /\ ~call[t].invalidated_once)
    BY <1>0, <1>4 DEF Answer401, Calls
  <2> QED BY <2>1, <2>2
<1>5. ASSUME NEW t \in Tasks, InvalidateAndRetry(t)
      PROVE  TokenInv'
  <2>1. cache'.token = None /\ UNCHANGED <<issued, refused>>
    BY <1>0, <1>5 DEF InvalidateAndRetry, Invalidate, CachedAccess
  <2>2. \A u \in Tasks : /\ call'[u].header = call[u].header
                         /\ call'[u].pc = "inflight" => call'[u] = call[u]
    BY <1>0, <1>5 DEF InvalidateAndRetry, Calls
  <2> QED BY <1>0, <2>1, <2>2 DEF None
<1>6. ASSUME NEW t \in Tasks, Leave(t)
      PROVE  TokenInv'
  <2>1. /\ UNCHANGED <<cache, issued>>
        /\ \A u \in Tasks : u # t => call'[u] = call[u] /\ refused'[u] = refused[u]
        /\ call'[t] = NoCall /\ refused'[t] = None
    BY <1>0, <1>6 DEF Leave, Release
  <2> QED BY <1>0, <2>1 DEF NoCall, None
<1>7. CASE Clock \/ UNCHANGED vars
  BY <1>7 DEF Clock, ClockTick, vars
<1> QED BY <1>1, <1>2, <1>3, <1>4, <1>5, <1>6, <1>7 DEF Next, TaskStep

(***************************************************************************)
(* The retry after a 401 carries a token newer than the refused one.       *)
(***************************************************************************)
THEOREM RetryIsFresh == Spec => []FreshAfterRefusal
<1>1. Init => TokenInv
  BY DEF Init, CredInit, TokenInv, NoCall, None, At
<1>2. TokenInv => FreshAfterRefusal
  BY DEF TokenInv, FreshAfterRefusal
<1> QED BY <1>1, <1>2, InitType, TypeInductive, TokenInductive, PTL DEF Spec

-----------------------------------------------------------------------------
(* ImplementsBoundedSend. *)

LEMMA AttemptsIsNat == B!Attempts \in Nat /\ B!Attempts >= 1 /\ B!Attempts >= MaxAttempts
BY AttemptsAssumption DEF B!Attempts

LEMMA BudgetInductive == TypeOK /\ BudgetInv /\ [Next]_vars => BudgetInv'
<1> SUFFICES ASSUME TypeOK, BudgetInv, [Next]_vars PROVE BudgetInv'
  OBVIOUS
<1> USE AttemptsIsNat, AttemptsAssumption DEF BudgetInv, At, Goto, Before, Free
<1>0. call \in [Tasks -> Calls] /\ sent \in [Tasks -> Nat]
  BY DEF TypeOK
<1>1. ASSUME NEW t \in Tasks, \A u \in Tasks \ {t} : call'[u] = call[u] /\ sent'[u] = sent[u],
             /\ call'[t].pc \in Before \cup {"inflight", "invalidate"}
                   => call'[t].attempt < B!Attempts
             /\ call'[t].pc \in Before
                   => sent'[t] = call'[t].attempt + (IF call'[t].invalidated_once THEN 1 ELSE 0)
             /\ call'[t].pc = "inflight"
                   => sent'[t] = call'[t].attempt + (IF call'[t].invalidated_once THEN 1 ELSE 0) + 1
             /\ call'[t].pc = "invalidate"
                   => sent'[t] = call'[t].attempt + 1 /\ ~call'[t].invalidated_once
             /\ call'[t].pc = "idle" => call'[t] = NoCall /\ sent'[t] = 0
      PROVE  BudgetInv'
  BY <1>1 DEF NoCall, None, B!Attempts
<1>2. ASSUME NEW t \in Tasks, StartSend(t)
      PROVE  BudgetInv'
  <2>1. /\ \A u \in Tasks \ {t} : call'[u] = call[u] /\ sent'[u] = sent[u]
        /\ call'[t].pc \in {"auth", "unsendable"} /\ call'[t].attempt = 0 /\ sent'[t] = 0
        /\ ~call'[t].invalidated_once
    BY <1>0, <1>2 DEF StartSend, NoCall, Calls
  <2> QED BY <1>1, <2>1
<1>3. ASSUME NEW t \in Tasks,
             AuthBeginsRefresh(t) \/ RefreshBacksOff(t) \/ RefreshAgain(t) \/ Wake(t)
      PROVE  BudgetInv'
  <2>1. /\ \A u \in Tasks \ {t} : call'[u] = call[u] /\ sent'[u] = sent[u]
        /\ call[t].pc \in Before /\ call'[t].pc \in Before
        /\ call'[t].attempt = call[t].attempt /\ sent'[t] = sent[t]
        /\ call'[t].invalidated_once = call[t].invalidated_once
    BY <1>0, <1>3 DEF AuthBeginsRefresh, RefreshBacksOff, RefreshAgain, Wake, Calls
  <2> QED BY <1>1, <2>1
<1>4. ASSUME NEW t \in Tasks, AuthFailsFast(t) \/ TokenRefused(t) \/ AnswerIsFinal(t)
      PROVE  BudgetInv'
  <2>1. /\ \A u \in Tasks \ {t} : call'[u] = call[u] /\ sent'[u] = sent[u]
        /\ call'[t].pc \in {"auth_error", "ok", "http_status"}
    BY <1>0, <1>4 DEF AuthFailsFast, TokenRefused, AnswerIsFinal, Calls
  <2> QED BY <1>1, <2>1
<1>5. ASSUME NEW t \in Tasks, NEW token, At(t, "auth") \/ At(t, "refresh"), Request(t, token)
      PROVE  BudgetInv'
  <2>1. sent[t] = call[t].attempt + Free(t) /\ call[t].attempt < B!Attempts
    BY <1>5
  <2>2. call[t].attempt \in Nat
    BY <1>0 DEF Calls
  <2>3. sent[t] <= B!Budget
    BY <1>0, <2>1, <2>2 DEF B!Budget
  <2>4. /\ \A u \in Tasks \ {t} : call'[u] = call[u] /\ sent'[u] = sent[u]
        /\ call'[t].pc = "inflight" /\ call'[t].attempt = call[t].attempt
        /\ call'[t].invalidated_once = call[t].invalidated_once
        /\ sent'[t] = sent[t] + 1
    BY <1>0, <1>5, <2>3 DEF Request, Calls, B!Budget
  <2> QED BY <1>1, <2>1, <2>4
<1>6. ASSUME NEW t \in Tasks, Answer401(t)
      PROVE  BudgetInv'
  <2>1. /\ \A u \in Tasks \ {t} : call'[u] = call[u] /\ sent'[u] = sent[u]
        /\ call'[t].attempt = call[t].attempt /\ sent'[t] = sent[t]
        /\ call'[t].invalidated_once = call[t].invalidated_once
        /\ call'[t].pc = IF call[t].invalidated_once THEN "unauthorized" ELSE "invalidate"
    BY <1>0, <1>6 DEF Answer401, Calls
  <2>2. call[t].pc = "inflight" /\ call[t].attempt \in Nat
    BY <1>0, <1>6 DEF Answer401, Calls
  <2> QED BY <1>1, <2>1, <2>2
<1>7. ASSUME NEW t \in Tasks, InvalidateAndRetry(t)
      PROVE  BudgetInv'
  <2>1. /\ \A u \in Tasks \ {t} : call'[u] = call[u] /\ sent'[u] = sent[u]
        /\ call'[t].attempt = call[t].attempt /\ sent'[t] = sent[t]
        /\ call'[t].invalidated_once /\ call'[t].pc = "auth" /\ call[t].pc = "invalidate"
    BY <1>0, <1>7 DEF InvalidateAndRetry, Calls
  <2> QED BY <1>1, <2>1
<1>8. ASSUME NEW t \in Tasks, AttemptFails(t)
      PROVE  BudgetInv'
  <2>1. call[t].attempt \in Nat /\ call[t].pc = "inflight"
    BY <1>0, <1>8 DEF AttemptFails, Calls
  <2>2. /\ \A u \in Tasks \ {t} : call'[u] = call[u] /\ sent'[u] = sent[u]
        /\ call'[t].attempt = call[t].attempt + 1 /\ sent'[t] = sent[t]
        /\ call'[t].invalidated_once = call[t].invalidated_once
        /\ call'[t].pc = IF call[t].attempt + 1 >= MaxAttempts THEN "exhausted" ELSE "sleep"
    BY <1>0, <1>8 DEF AttemptFails, Calls
  <2> QED BY <1>1, <2>1, <2>2
<1>9. ASSUME NEW t \in Tasks, Leave(t)
      PROVE  BudgetInv'
  <2>1. /\ \A u \in Tasks \ {t} : call'[u] = call[u] /\ sent'[u] = sent[u]
        /\ call'[t] = NoCall /\ sent'[t] = 0 /\ call'[t].pc = "idle"
    BY <1>0, <1>9 DEF Leave, NoCall
  <2> QED BY <1>1, <2>1
<1>10. CASE Clock \/ UNCHANGED vars
  BY <1>10 DEF Clock, vars
<1> QED
  BY <1>2, <1>3, <1>4, <1>5, <1>6, <1>7, <1>8, <1>9, <1>10
     DEF Next, TaskStep, AuthFromCache, TokenArrives

\* A step of a task that only moves its program point shows to the caller as
\* nothing or as the end of the call.
LEMMA StepRefines ==
    ASSUME TypeOK, BudgetInv, [Next]_vars
    PROVE  [B!Next]_(B!vars)
<1> USE DEF At, Goto
<1>0. /\ call \in [Tasks -> Calls] /\ sent \in [Tasks -> Nat]
      /\ AttemptsAssumption /\ MaxAttempts \in Nat
  BY AttemptsAssumption DEF TypeOK
<1> DEFINE Shown(c) == IF c.pc \in Results \cup {"idle"} THEN c.pc ELSE "pending"
<1>1. ASSUME NEW t \in Tasks, NEW c, call' = [call EXCEPT ![t] = c]
      PROVE  outcome' = [outcome EXCEPT ![t] = Shown(c)]
  BY <1>0, <1>1 DEF outcome
<1>2. \A t \in Tasks : outcome[t] = Shown(call[t])
  BY DEF outcome
<1>3. ASSUME NEW t \in Tasks, NEW pc, Goto(t, pc)
      PROVE  outcome' = [outcome EXCEPT ![t] = IF pc \in Results \cup {"idle"} THEN pc ELSE "pending"]
  <2>1. call' = [call EXCEPT ![t] = [call[t] EXCEPT !.pc = pc]]
    BY <1>0, <1>3
  <2> DEFINE c == [call[t] EXCEPT !.pc = pc]
  <2>2. c.pc = pc
    BY <1>0 DEF Calls
  <2>3. outcome' = [outcome EXCEPT ![t] = Shown(c)]
    BY <1>1, <2>1
  <2> HIDE DEF c
  <2> QED BY <2>2, <2>3
<1> HIDE DEF Shown
<1>4. ASSUME NEW t \in Tasks, StartSend(t)
      PROVE  B!Call(t)
  <2>1. \/ outcome' = [outcome EXCEPT ![t] = "pending"]
        \/ outcome' = [outcome EXCEPT ![t] = "unsendable"]
    BY <1>3, <1>4 DEF StartSend, Results
  <2>2. outcome[t] = "idle"
    BY <1>2, <1>4 DEF StartSend, Shown
  <2> QED BY <1>4, <2>1, <2>2 DEF StartSend, B!Call
<1>5. ASSUME NEW t \in Tasks,
             AuthBeginsRefresh(t) \/ RefreshBacksOff(t) \/ RefreshAgain(t) \/ Wake(t)
               \/ InvalidateAndRetry(t)
      PROVE  UNCHANGED B!vars
  <2>1. outcome[t] = "pending" /\ outcome \in [Tasks -> B!Outcomes]
    BY <1>0, <1>2, <1>5 DEF AuthBeginsRefresh, RefreshBacksOff, RefreshAgain, Wake, InvalidateAndRetry,
       Results, Shown, outcome, B!Outcomes, B!Results
  <2>2. outcome' = [outcome EXCEPT ![t] = "pending"]
    <3>1. CASE InvalidateAndRetry(t)
      <4>1. call' = [call EXCEPT ![t] = [call[t] EXCEPT !.pc = "auth", !.invalidated_once = TRUE]]
        BY <1>0, <3>1 DEF InvalidateAndRetry
      <4>2. [call[t] EXCEPT !.pc = "auth", !.invalidated_once = TRUE].pc = "auth"
        BY <1>0 DEF Calls
      <4> QED BY <1>1, <4>1, <4>2 DEF Shown, Results
    <3> QED BY <1>3, <1>5, <3>1 DEF AuthBeginsRefresh, RefreshBacksOff, RefreshAgain, Wake, Results
  <2>3. sent' = sent
    BY <1>5 DEF AuthBeginsRefresh, RefreshBacksOff, RefreshAgain, Wake, InvalidateAndRetry
  <2> QED BY <2>1, <2>2, <2>3 DEF B!vars
<1>6. ASSUME NEW t \in Tasks, NEW token, At(t, "auth") \/ At(t, "refresh"), Request(t, token)
      PROVE  B!Request(t)
  <2>1. outcome[t] = "pending" /\ outcome \in [Tasks -> B!Outcomes]
    BY <1>0, <1>2, <1>6 DEF Results, Shown, outcome, B!Outcomes, B!Results
  <2>2. sent[t] < B!Budget
    <3>1. sent[t] = call[t].attempt + Free(t) /\ call[t].attempt < B!Attempts
      BY <1>6 DEF BudgetInv, Before
    <3>2. call[t].attempt \in Nat
      BY <1>0 DEF Calls
    <3> QED BY <3>1, <3>2, AttemptsIsNat DEF B!Budget, Free
  <2>3. outcome' = [outcome EXCEPT ![t] = "pending"]
    <3>1. call' = [call EXCEPT ![t] = [call[t] EXCEPT !.pc = "inflight", !.header = token]]
      BY <1>0, <1>6 DEF Request
    <3>2. [call[t] EXCEPT !.pc = "inflight", !.header = token].pc = "inflight"
      BY <1>0 DEF Calls
    <3> QED BY <1>1, <3>1, <3>2 DEF Shown, Results
  <2>4. sent' = [sent EXCEPT ![t] = @ + 1]
    <3>1. B!Budget \in Nat /\ sent[t] \in Nat
      BY <1>0, AttemptsIsNat DEF B!Budget
    <3>2. ~(sent[t] > B!Budget)
      BY <2>2, <3>1
    <3> QED BY <1>6, <3>2 DEF Request
  <2> QED BY <2>1, <2>2, <2>3, <2>4 DEF B!Request
<1>7. ASSUME NEW t \in Tasks, NEW r \in Results, outcome[t] = "pending", sent' = sent,
             outcome' = [outcome EXCEPT ![t] = r],
             r \in {"ok", "http_status"} => sent[t] >= 1,
             r = "exhausted" => sent[t] >= B!Attempts,
             r = "unauthorized" => sent[t] >= 2
      PROVE  B!Finish(t)
  BY <1>7 DEF B!Finish, B!Results, Results
<1>8. ASSUME NEW t \in Tasks, AuthFailsFast(t) \/ TokenRefused(t)
      PROVE  B!Finish(t)
  <2>1. outcome[t] = "pending" /\ sent' = sent
    BY <1>2, <1>8 DEF AuthFailsFast, TokenRefused, Shown, Results
  <2>2. outcome' = [outcome EXCEPT ![t] = "auth_error"]
    BY <1>3, <1>8 DEF AuthFailsFast, TokenRefused, Results
  <2> QED BY <1>7, <2>1, <2>2 DEF Results
<1>9. ASSUME NEW t \in Tasks, At(t, "inflight")
      PROVE  /\ outcome[t] = "pending" /\ call[t].attempt \in Nat
             /\ sent[t] = call[t].attempt + Free(t) + 1
             /\ outcome \in [Tasks -> B!Outcomes]
  BY <1>0, <1>2, <1>9 DEF BudgetInv, Results, Shown, outcome, B!Outcomes, B!Results, Calls
<1>10. ASSUME NEW t \in Tasks, AnswerIsFinal(t)
       PROVE  B!Finish(t)
  <2>1. outcome' = [outcome EXCEPT ![t] = "ok"] \/ outcome' = [outcome EXCEPT ![t] = "http_status"]
    <3>1. CASE Goto(t, "ok")
      BY <1>3, <3>1 DEF Results
    <3>2. CASE call' = [call EXCEPT ![t].pc = "http_status", ![t].attempt = @ + 1]
      <4>1. call' = [call EXCEPT ![t] = [call[t] EXCEPT !.pc = "http_status",
                                                        !.attempt = call[t].attempt + 1]]
        BY <1>0, <3>2
      <4>2. [call[t] EXCEPT !.pc = "http_status", !.attempt = call[t].attempt + 1].pc = "http_status"
        BY <1>0 DEF Calls
      <4> QED BY <1>1, <4>1, <4>2 DEF Shown, Results
    <3> QED BY <1>10, <3>1, <3>2 DEF AnswerIsFinal
  <2>2. outcome[t] = "pending" /\ sent[t] >= 1 /\ sent' = sent
    BY <1>9, <1>10 DEF AnswerIsFinal, Free
  <2> QED BY <1>7, <2>1, <2>2 DEF Results
<1>11. ASSUME NEW t \in Tasks, Answer401(t)
       PROVE  B!Finish(t) \/ UNCHANGED B!vars
  <2>1. sent' = sent /\ At(t, "inflight")
    BY <1>11 DEF Answer401
  <2>2. CASE call[t].invalidated_once
    <3>1. outcome' = [outcome EXCEPT ![t] = "unauthorized"]
      BY <1>3, <1>11, <2>2 DEF Answer401, Results
    <3>2. sent[t] >= 2
      BY <1>9, <2>1, <2>2 DEF Free
    <3> QED BY <1>7, <1>9, <2>1, <3>1, <3>2 DEF Results
  <2>3. CASE ~call[t].invalidated_once
    <3>1. outcome' = [outcome EXCEPT ![t] = "pending"]
      BY <1>3, <1>11, <2>3 DEF Answer401, Results
    <3> QED BY <1>9, <2>1, <3>1 DEF B!vars
  <2> QED BY <2>2, <2>3
<1>12. ASSUME NEW t \in Tasks, AttemptFails(t)
       PROVE  B!Finish(t) \/ UNCHANGED B!vars
  <2> DEFINE pc == IF call[t].attempt + 1 >= MaxAttempts THEN "exhausted" ELSE "sleep"
             c == [call[t] EXCEPT !.pc = pc, !.attempt = call[t].attempt + 1]
  <2>1. sent' = sent /\ At(t, "inflight") /\ call' = [call EXCEPT ![t] = c]
    BY <1>0, <1>12 DEF AttemptFails
  <2>2. c.pc = pc
    BY <1>0 DEF Calls
  <2>3. outcome' = [outcome EXCEPT ![t] = IF pc = "exhausted" THEN "exhausted" ELSE "pending"]
    <3> HIDE DEF c
    <3> QED BY <1>1, <2>1, <2>2 DEF Shown, Results
  <2>4. CASE pc = "exhausted"
    <3>1. sent[t] >= B!Attempts
      BY <1>0, <1>9, <2>1, <2>4 DEF Free, B!Attempts
    <3> QED BY <1>7, <1>9, <2>1, <2>3, <2>4, <3>1 DEF Results
  <2>5. CASE pc # "exhausted"
    BY <1>9, <2>1, <2>3, <2>5 DEF B!vars
  <2> QED BY <2>4, <2>5
<1>13. ASSUME NEW t \in Tasks, Leave(t)
       PROVE  B!Leave(t)
  <2>1. outcome' = [outcome EXCEPT ![t] = "idle"]
    <3>1. Shown(NoCall) = "idle"
      BY DEF Shown, NoCall
    <3> QED BY <1>1, <1>13, <3>1 DEF Leave
  <2>2. outcome[t] # "idle"
    BY <1>2, <1>13 DEF Leave, Shown
  <2> QED BY <1>13, <2>1, <2>2 DEF Leave, B!Leave
<1>14. CASE Clock \/ UNCHANGED vars
  BY <1>14 DEF Clock, vars, outcome, B!vars
<1> QED
  BY <1>4, <1>5, <1>6, <1>8, <1>10, <1>11, <1>12, <1>13, <1>14
     DEF Next, TaskStep, AuthFromCache, TokenArrives, B!Next

(***************************************************************************)
(* send() implements BoundedSend for every retry budget, zero included:    *)
(* at most one request more than the budget allows, `exhausted` only after *)
(* every attempt, `unauthorized` only after the second 401.                *)
(***************************************************************************)
THEOREM SendIsBounded == Spec => ImplementsBoundedSend
<1>1. Init => B!Init
  BY DEF Init, B!Init, outcome, NoCall
<1>2. Init => BudgetInv
  <2>1. Init => \A t \in Tasks : call[t] = NoCall /\ call[t].pc = "idle" /\ sent[t] = 0
    <3>1. Init => \A t \in Tasks : call[t] = NoCall /\ sent[t] = 0
      BY DEF Init
    <3>2. NoCall.pc = "idle"
      BY DEF NoCall
    <3> QED BY <3>1, <3>2
  <2>2. "idle" \notin Before \cup {"inflight", "invalidate"}
    BY DEF Before
  <2> QED BY <2>1, <2>2 DEF BudgetInv, At
<1> QED
  BY <1>1, <1>2, InitType, TypeInductive, BudgetInductive, StepRefines, PTL
     DEF Spec, ImplementsBoundedSend, B!Spec
=============================================================================
