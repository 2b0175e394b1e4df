------------------------------ MODULE HttpSend ------------------------------
(***************************************************************************)
(* HttpClient::send of sealstack-connector-sdk (http.rs), the request loop *)
(* every REST connector goes through, over a shared OAuth2Credential.      *)
(* Each task makes one call after another; a step ends at an `.await`.     *)
(***************************************************************************)
EXTENDS Credential

CONSTANT MaxAttempts    \* RetryPolicy::max_attempts

ASSUME AttemptsAssumption == MaxAttempts \in Nat

VARIABLES
    call,           \* call[t]: the locals of t's send()
    sent,           \* sent[t]: requests the server has seen of it (external)
    refused         \* refused[t]: the token it answered 401 to first (external)

vars == <<now, cache, owner, tries, issued, call, sent, refused>>

Results == {"ok", "http_status", "unauthorized", "exhausted", "auth_error", "unsendable"}

\* auth: about to lock the credential; refresh, backoff: inside a refresh;
\* inflight: the request is out; invalidate: about to lock for invalidate();
\* sleep: between attempts.
Points == {"idle", "auth", "refresh", "backoff", "inflight", "invalidate", "sleep"}
          \cup Results

Calls == [pc : Points, attempt : Nat, invalidated_once : BOOLEAN, header : Nat]
NoCall == [pc |-> "idle", attempt |-> 0, invalidated_once |-> FALSE, header |-> None]

\* How a call stands to its caller, and the contract it is held to.
outcome == [t \in Tasks |-> IF call[t].pc \in Results \cup {"idle"} THEN call[t].pc ELSE "pending"]
B == INSTANCE BoundedSend WITH outcome <- outcome

Init ==
    /\ CredInit
    /\ call = [t \in Tasks |-> NoCall]
    /\ sent = [t \in Tasks |-> 0]
    /\ refused = [t \in Tasks |-> None]

At(t, pc) == call[t].pc = pc
Goto(t, pc) == call' = [call EXCEPT ![t].pc = pc]

\* The request goes out with the header just obtained.  (The count of the
\* server stops one past the budget, to keep the state space finite.)
Request(t, token) ==
    /\ call' = [call EXCEPT ![t].pc = "inflight", ![t].header = token]
    /\ sent' = [sent EXCEPT ![t] = IF @ > B!Budget THEN @ ELSE @ + 1]
    /\ UNCHANGED refused

-----------------------------------------------------------------------------
\* The probe: a request that cannot be cloned or built never leaves.
StartSend(t) ==
    /\ At(t, "idle")
    /\ Goto(t, "auth") \/ Goto(t, "unsendable")
    /\ UNCHANGED <<credVars, sent, refused>>

AuthFailsFast(t) ==
    /\ At(t, "auth")
    /\ FailFast
    /\ Goto(t, "auth_error")
    /\ UNCHANGED <<sent, refused>>

AuthFromCache(t) ==
    /\ At(t, "auth")
    /\ CacheHit
    /\ Request(t, cache.token)

AuthBeginsRefresh(t) ==
    /\ At(t, "auth")
    /\ BeginRefresh(t)
    /\ Goto(t, "refresh")
    /\ UNCHANGED <<sent, refused>>

TokenArrives(t) ==
    /\ At(t, "refresh")
    /\ RefreshOk
    /\ Request(t, issued + 1)

\* Mutation: a failed refresh is tried again without touching the budget.
TokenRefusedRetries(t) ==
    /\ At(t, "refresh")
    /\ RefreshRefused \/ RefreshGivesUp
    /\ Goto(t, "auth")
    /\ UNCHANGED <<sent, refused>>

\* The error of authorization_header leaves send by `?`, whatever is left of
\* the budget.
TokenRefused(t) ==
    /\ At(t, "refresh")
    /\ RefreshRefused \/ RefreshGivesUp
    /\ Goto(t, "auth_error")
    /\ UNCHANGED <<sent, refused>>

RefreshBacksOff(t) ==
    /\ At(t, "refresh")
    /\ RefreshTransient
    /\ Goto(t, "backoff")
    /\ UNCHANGED <<sent, refused>>

RefreshAgain(t) ==
    /\ At(t, "backoff")
    /\ Goto(t, "refresh")
    /\ UNCHANGED <<credVars, sent, refused>>

-----------------------------------------------------------------------------
\* 2xx, or a 4xx that is neither 401, 408 nor 429.
AnswerIsFinal(t) ==
    /\ At(t, "inflight")
    /\ \/ Goto(t, "ok")
       \/ call' = [call EXCEPT ![t].pc = "http_status", ![t].attempt = @ + 1]
    /\ UNCHANGED <<credVars, sent, refused>>

\* The first 401 of a call leads to invalidate(), the second is final.
Answer401(t) ==
    /\ At(t, "inflight")
    /\ IF call[t].invalidated_once
       THEN Goto(t, "unauthorized") /\ UNCHANGED refused
       ELSE /\ Goto(t, "invalidate")
            /\ refused' = [refused EXCEPT ![t] = call[t].header]
    /\ UNCHANGED <<credVars, sent>>

\* Mutation: the retry after invalidation is not remembered.
InvalidateAndRetryForgets(t) ==
    /\ At(t, "invalidate")
    /\ Invalidate
    /\ Goto(t, "auth")
    /\ UNCHANGED <<sent, refused>>

\* The retry costs nothing of the budget and does not sleep.
InvalidateAndRetry(t) ==
    /\ At(t, "invalidate")
    /\ Invalidate
    /\ call' = [call EXCEPT ![t].pc = "auth", ![t].invalidated_once = TRUE]
    /\ UNCHANGED <<sent, refused>>

\* 5xx, 408, 429, a redirect not followed, or no answer at all: an attempt is
\* used up.
AttemptFails(t) ==
    /\ At(t, "inflight")
    /\ call' = [call EXCEPT ![t].pc = IF call[t].attempt + 1 >= MaxAttempts
                                      THEN "exhausted" ELSE "sleep",
                            ![t].attempt = @ + 1]
    /\ UNCHANGED <<credVars, sent, refused>>

Wake(t) ==
    /\ At(t, "sleep")
    /\ Goto(t, "auth")
    /\ UNCHANGED <<credVars, sent, refused>>

\* The caller takes the result; or drops the future at an await, with the
\* mutex if it holds it.
Leave(t) ==
    /\ ~At(t, "idle")
    /\ call' = [call EXCEPT ![t] = NoCall]
    /\ sent' = [sent EXCEPT ![t] = 0]
    /\ refused' = [refused EXCEPT ![t] = None]
    /\ Release(t)

Clock == ClockTick /\ UNCHANGED <<call, sent, refused>>

TaskStep(t) ==
    \/ AuthFailsFast(t) \/ AuthFromCache(t) \/ AuthBeginsRefresh(t)
    \/ TokenArrives(t) \/ TokenRefused(t) \/ RefreshBacksOff(t) \/ RefreshAgain(t)
    \/ AnswerIsFinal(t) \/ Answer401(t) \/ InvalidateAndRetry(t)
    \/ AttemptFails(t) \/ Wake(t)

Next == Clock \/ \E t \in Tasks : StartSend(t) \/ TaskStep(t) \/ Leave(t)

Spec == Init /\ [][Next]_vars

\* Every await of a task ends: reqwest has timeouts, sleeps are finite, and
\* tokio's mutex serves its waiters in order, so one that finds the mutex free
\* again and again gets it.
FairSpec == Spec /\ \A t \in Tasks : SF_vars(TaskStep(t))

-----------------------------------------------------------------------------
TypeOK ==
    /\ CredTypeOK
    /\ call \in [Tasks -> Calls]
    /\ sent \in [Tasks -> Nat]
    /\ refused \in [Tasks -> Nat]

Refreshing(t) == call[t].pc \in {"refresh", "backoff"}

(***************************************************************************)
(* The token endpoint is asked by one task at a time, and only while the   *)
(* cache holds neither a usable token nor a recent failure: at every       *)
(* attempt of a refresh, through its backoffs, and although other tasks    *)
(* fail, invalidate and are dropped meanwhile.                             *)
(***************************************************************************)
RefreshOnlyWhenNeeded ==
    /\ \A t, u \in Tasks : Refreshing(t) /\ Refreshing(u) => t = u
    /\ \A t \in Tasks : Refreshing(t) => ~Usable /\ ~Failing

(***************************************************************************)
(* A request that follows a 401 of the same call never carries the token   *)
(* that was refused, whoever refreshes or invalidates in between.          *)
(***************************************************************************)
FreshAfterRefusal ==
    \A t \in Tasks : At(t, "inflight") /\ call[t].invalidated_once =>
        call[t].header > refused[t]

(***************************************************************************)
(* HttpClient::send keeps the contract of BoundedSend: the budget of       *)
(* requests, and what each error says of them.                             *)
(***************************************************************************)
ImplementsBoundedSend == B!Spec

(***************************************************************************)
(* A call of send comes to an end, although the mutex may be held by       *)
(* others, tokens keep being refused and the server keeps failing.         *)
(***************************************************************************)
SendTerminates ==
    \A t \in Tasks : call[t].pc \notin Results \cup {"idle"}
                        ~> call[t].pc \in Results \cup {"idle"}
=============================================================================
