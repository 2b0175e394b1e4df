---------------------------- MODULE BoundedSend -----------------------------
(***************************************************************************)
(* What a connector may rely on when it calls HttpClient::send (http.rs):  *)
(* the remote service sees a bounded number of requests per call, and the  *)
(* error that comes back says truly what was tried.  Credentials, caches,  *)
(* sleeps and locks do not appear.                                         *)
(***************************************************************************)
EXTENDS Naturals

CONSTANTS Tasks, MaxAttempts

VARIABLES
    sent,           \* sent[t]: requests of t's current call
    outcome         \* outcome[t]: how t's current call stands

vars == <<sent, outcome>>

Results == {"ok", "http_status", "unauthorized", "exhausted", "auth_error", "unsendable"}
Outcomes == {"idle", "pending"} \cup Results

\* One attempt is made even under a budget of zero, and one request that was
\* answered 401 is repeated free of charge.
Attempts == IF MaxAttempts = 0 THEN 1 ELSE MaxAttempts
Budget == Attempts + 1

Init ==
    /\ sent = [t \in Tasks |-> 0]
    /\ outcome = [t \in Tasks |-> "idle"]

\* A request that cannot be built or cloned is given back at once.
Call(t) ==
    /\ outcome[t] = "idle"
    /\ \E r \in {"pending", "unsendable"} : outcome' = [outcome EXCEPT ![t] = r]
    /\ UNCHANGED sent

Request(t) ==
    /\ outcome[t] = "pending"
    /\ sent[t] < Budget
    /\ sent' = [sent EXCEPT ![t] = @ + 1]
    /\ UNCHANGED outcome

\* Success and a plain 4xx answer a request; exhaustion means every attempt
\* was made; a 401 is final only the second time.
Finish(t) ==
    /\ outcome[t] = "pending"
    /\ \E r \in Results :
          /\ r \in {"ok", "http_status"} => sent[t] >= 1
          /\ r = "exhausted" => sent[t] >= Attempts
          /\ r = "unauthorized" => sent[t] >= 2
          /\ outcome' = [outcome EXCEPT ![t] = r]
    /\ UNCHANGED sent

\* The caller takes the result, or drops the call.
Leave(t) ==
    /\ outcome[t] # "idle"
    /\ outcome' = [outcome EXCEPT ![t] = "idle"]
    /\ sent' = [sent EXCEPT ![t] = 0]

Next == \E t \in Tasks : Call(t) \/ Request(t) \/ Finish(t) \/ Leave(t)

Spec == Init /\ [][Next]_vars
=============================================================================
