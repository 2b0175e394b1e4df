------------------------------- MODULE McpProofs -------------------------------
(* Theorems about module Mcp: its types, and that no client loses a session   *)
(* it was given and still uses.                                               *)
EXTENDS Mcp, TLAPS

(* Sessions belong to who was given them: whatever a client holds, or has a   *)
(* POST under way for, is a session opened for it, if it is there at all.     *)
OwnHeld == \A c \in Clients : held[c] \in DOMAIN sessions => sessions[held[c]].caller = c
OwnPost ==
    \A c \in Clients : post[c] # Idle /\ post[c].sid \in DOMAIN sessions =>
        sessions[post[c].sid].caller = c

(* A session that no client has deleted is there, and was seen no earlier     *)
(* than at since, while less than the time to live has gone by.               *)
Kept(sid, since) ==
    sid \notin ended /\ now - since < Ttl =>
        sid \in DOMAIN sessions /\ sessions[sid].seen >= since

KeptHeld == \A c \in Clients : held[c] # 0 => Kept(held[c], heldSince[c])
KeptPost == \A c \in Clients : post[c] # Idle => Kept(post[c].sid, post[c].arrived)

Inv == TypeOK /\ OwnHeld /\ OwnPost /\ KeptHeld /\ KeptPost

----------------------------------------------------------------------------
USE McpAssumption

(* A POST that has been accepted is one of its client, for a known session.   *)
LEMMA PostFields ==
    ASSUME TypeOK, NEW c \in Clients, post[c] # Idle
    PROVE  /\ post[c].pc = "dispatch" /\ post[c].body \in Bodies /\ post[c].done \in Nat
           /\ post[c].sid \in Sids /\ post[c].caller \in Clients
           /\ post[c].arrived \in 0 .. now /\ post[c].answers \in Seq(Answers)
<1> post[c] \in Posts
    BY DEF TypeOK
<1> QED
    BY DEF Posts

LEMMA ActivePost == ASSUME NEW c \in Clients, post[c].pc = "dispatch" PROVE post[c] # Idle
BY DEF Idle

THEOREM InitInv == Init => Inv
<1> SUFFICES ASSUME Init PROVE Inv
    OBVIOUS
<1> DOMAIN sessions = {}
    BY DEF Init
<1>1. TypeOK
    BY DEF Init, TypeOK, Posts, Sids
<1> QED
    BY <1>1 DEF Init, Inv, OwnHeld, OwnPost, KeptHeld, KeptPost

(* What resolve_session leaves of the sessions: every known one that is not   *)
(* expired, with its caller and a time that is no earlier; and what it adds   *)
(* has a number no client was ever given.                                     *)
LEMMA PostSessions ==
    ASSUME Inv, NEW c \in Clients, NEW body \in Bodies, Post(c, body)
    PROVE  /\ \A sid \in DOMAIN sessions' :
                 sid \in DOMAIN sessions => /\ sessions'[sid].caller = sessions[sid].caller
                                            /\ sessions'[sid].seen >= sessions[sid].seen
           /\ \A sid \in DOMAIN sessions : now - sessions[sid].seen < Ttl => sid \in DOMAIN sessions'
           /\ \A sid \in DOMAIN sessions' \ DOMAIN sessions : sid = opened + 1
           /\ opened' \in Nat /\ opened' >= opened
           /\ post'[c].sid \in DOMAIN sessions' /\ post'[c].sid \in 1 .. opened'
           /\ sessions'[post'[c].sid] = [caller |-> c, seen |-> now]
           /\ \A sid \in DOMAIN sessions' : sessions'[sid] \in [caller : Clients, seen : 0 .. now]
           /\ DOMAIN sessions' \subseteq 1 .. opened'
<1> USE DEF Inv, TypeOK, Sids
<1>0. post'[c].sid = IF held[c] \in Reaped THEN held[c] ELSE opened + 1
    BY DEF Post
<1>1. CASE held[c] \in Reaped
  <2>1. sessions' = [sid \in Reaped |->
                       IF sid = held[c] THEN [sessions[sid] EXCEPT !.seen = now] ELSE sessions[sid]]
        /\ opened' = opened
    BY <1>1 DEF Post, Touch
  <2>2. held[c] \in DOMAIN sessions /\ sessions[held[c]].caller = c
    BY <1>1 DEF Reaped, OwnHeld
  <2> QED
    BY <1>0, <1>1, <2>1, <2>2 DEF Reaped, Alive
<1>2. CASE held[c] \notin Reaped
  <2>1. sessions' = [sid \in Reaped \cup {opened + 1} |->
                       IF sid = opened + 1 THEN [caller |-> c, seen |-> now] ELSE sessions[sid]]
        /\ opened' = opened + 1
    BY <1>2 DEF Post, Open
  <2>2. opened + 1 \notin DOMAIN sessions
    OBVIOUS
  <2> QED
    BY <1>0, <1>2, <2>1, <2>2 DEF Reaped, Alive
<1> QED
    BY <1>1, <1>2

LEMMA PostKeeps ==
    ASSUME Inv, NEW c \in Clients, NEW body \in Bodies, Post(c, body)
    PROVE  Inv'
<1> DEFINE new == [pc |-> "dispatch", body |-> body, done |-> 0, sid |-> post'[c].sid, caller |-> c,
                   arrived |-> now, answers |-> <<>>]
<1> TypeOK
    BY DEF Inv
<1>1. /\ post[c] = Idle
      /\ UNCHANGED <<now, held, heldSince, ended>>
    BY DEF Post
<1>2. held[c] \in Reaped => sessions[held[c]].caller = c
    BY DEF Reaped, Inv, OwnHeld
<1>3. post' = [post EXCEPT ![c] = new]
    BY <1>2 DEF Post, TypeOK
<1>4. /\ \A sid \in DOMAIN sessions' :
             sid \in DOMAIN sessions => /\ sessions'[sid].caller = sessions[sid].caller
                                        /\ sessions'[sid].seen >= sessions[sid].seen
      /\ \A sid \in DOMAIN sessions : now - sessions[sid].seen < Ttl => sid \in DOMAIN sessions'
      /\ \A sid \in DOMAIN sessions' \ DOMAIN sessions : sid = opened + 1
      /\ opened' \in Nat /\ opened' >= opened
      /\ post'[c].sid \in DOMAIN sessions' /\ post'[c].sid \in 1 .. opened'
      /\ sessions'[post'[c].sid] = [caller |-> c, seen |-> now]
      /\ \A sid \in DOMAIN sessions' : sessions'[sid] \in [caller : Clients, seen : 0 .. now]
      /\ DOMAIN sessions' \subseteq 1 .. opened'
    BY PostSessions
<1>5. \A d \in Clients : post[d] # Idle =>
          post[d].sid \in Sids /\ post[d].arrived \in 0 .. now
    BY PostFields
<1>6. \A d \in Clients : d # c => post'[d] = post[d]
    BY <1>3 DEF TypeOK
<1>7. post'[c] = new
    BY <1>3 DEF TypeOK
<1>8. TypeOK'
  <2>1. new \in Posts'
    BY <1>1, <1>4 DEF Posts, Sids, TypeOK
  <2>2. Posts \subseteq Posts'
    BY <1>1, <1>4 DEF Posts, Sids, TypeOK
  <2>3. post' \in [Clients -> Posts']
    BY <1>3, <2>1, <2>2 DEF TypeOK
  <2>4. Sids \subseteq Sids'
    BY <1>4 DEF Sids, TypeOK
  <2>5. held' \in [Clients -> {0} \cup Sids'] /\ ended' \subseteq Sids' /\ heldSince' \in [Clients -> 0 .. now']
    BY <1>1, <2>4 DEF TypeOK
  <2> QED
    BY <1>1, <1>4, <2>3, <2>5 DEF TypeOK, Sids
<1>9. OwnHeld'
    BY <1>1, <1>4 DEF OwnHeld, Inv, TypeOK, Sids
<1>10. OwnPost'
  <2> SUFFICES ASSUME NEW d \in Clients, post'[d] # Idle, post'[d].sid \in DOMAIN sessions'
               PROVE  sessions'[post'[d].sid].caller = d
    BY DEF OwnPost, Idle
  <2>1. CASE d = c
    BY <1>4, <2>1
  <2>2. CASE d # c
    BY <1>4, <1>5, <1>6, <2>2 DEF Inv, OwnPost, TypeOK, Sids
  <2> QED
    BY <2>1, <2>2
<1>11. KeptHeld'
  <2> SUFFICES ASSUME NEW d \in Clients, held[d] # 0, held[d] \notin ended, now - heldSince[d] < Ttl
               PROVE  held[d] \in DOMAIN sessions' /\ sessions'[held[d]].seen >= heldSince[d]
    BY <1>1 DEF KeptHeld, Kept
  <2>1. held[d] \in DOMAIN sessions /\ sessions[held[d]].seen >= heldSince[d]
    BY DEF Inv, KeptHeld, Kept
  <2>2. sessions[held[d]].seen \in Nat /\ heldSince[d] \in Nat /\ now \in Nat
    BY <2>1 DEF TypeOK
  <2>3. held[d] \in DOMAIN sessions'
    BY <1>4, <2>1, <2>2
  <2>4. sessions'[held[d]].seen \in Nat
    BY <1>4, <2>2, <2>3
  <2> QED
    BY <1>4, <2>1, <2>2, <2>3, <2>4
<1>12. KeptPost'
  <2> SUFFICES ASSUME NEW d \in Clients, post'[d] # Idle, post'[d].sid \notin ended, now - post'[d].arrived < Ttl
               PROVE  post'[d].sid \in DOMAIN sessions' /\ sessions'[post'[d].sid].seen >= post'[d].arrived
    BY <1>1 DEF KeptPost, Kept, Idle
  <2>1. CASE d = c
    BY <1>4, <1>7, <2>1 DEF TypeOK
  <2>2. CASE d # c
    <3>1. post'[d] = post[d] /\ post[d].sid \in DOMAIN sessions /\ sessions[post[d].sid].seen >= post[d].arrived
      BY <1>6, <2>2 DEF Inv, KeptPost, Kept
    <3>2. sessions[post[d].sid].seen \in Nat /\ post[d].arrived \in Nat /\ now \in Nat
      BY <1>5, <3>1 DEF TypeOK
    <3>3. post[d].sid \in DOMAIN sessions'
      BY <1>4, <3>1, <3>2
    <3>4. sessions'[post[d].sid].seen \in Nat
      BY <1>4, <3>2, <3>3
    <3> QED
      BY <1>4, <3>1, <3>2, <3>3, <3>4
  <2> QED
    BY <2>1, <2>2
<1> QED
    BY <1>8, <1>9, <1>10, <1>11, <1>12 DEF Inv

(* An item that is dealt with changes nothing but the POST's progress.        *)
LEMMA DoneKeeps ==
    ASSUME Inv, NEW c \in Clients, post[c].pc = "dispatch", NEW answers \in Seq(Answers), Done(c, answers)
    PROVE  Inv'
<1> TypeOK
    BY DEF Inv
<1>1. post[c] # Idle
    BY ActivePost
<1>2. /\ post' = [post EXCEPT ![c].done = @ + 1, ![c].answers = @ \o answers]
      /\ UNCHANGED <<now, sessions, opened, held, heldSince, ended>>
    BY DEF Done
<1>3. post[c] \in Posts /\ post[c].done \in Nat /\ post[c].answers \in Seq(Answers)
    BY <1>1, PostFields DEF TypeOK
<1>4. post[c].answers \o answers \in Seq(Answers)
    BY <1>3
<1>5. post'[c] = [post[c] EXCEPT !.done = @ + 1, !.answers = @ \o answers]
    BY <1>2 DEF TypeOK
<1>6. post'[c] \in Posts
  <2>1. post[c] \in [pc : {"dispatch"}, body : Bodies, done : Nat, sid : Sids, caller : Clients,
                     arrived : 0 .. now, answers : Seq(Answers)]
    BY <1>1, <1>3 DEF Posts
  <2>2. post[c].done + 1 \in Nat
    BY <1>3
  <2> QED
    BY <1>4, <1>5, <2>1, <2>2 DEF Posts
<1>7. post' \in [Clients -> Posts]
    BY <1>2, <1>6 DEF TypeOK
<1>8. /\ post'[c].sid = post[c].sid /\ post'[c].arrived = post[c].arrived
      /\ \A d \in Clients : d # c => post'[d] = post[d]
    BY <1>1, <1>2, <1>3, <1>5 DEF TypeOK, Posts
<1>9. TypeOK'
    BY <1>2, <1>7 DEF TypeOK, Posts, Sids
<1>10. OwnHeld' /\ KeptHeld'
    BY <1>2 DEF Inv, OwnHeld, KeptHeld, Kept
<1>11. OwnPost' /\ KeptPost'
  <2> SUFFICES ASSUME NEW d \in Clients, post'[d] # Idle
               PROVE  /\ post'[d].sid \in DOMAIN sessions => sessions[post'[d].sid].caller = d
                      /\ Kept(post'[d].sid, post'[d].arrived)
    BY <1>2 DEF OwnPost, KeptPost, Kept, Idle
  <2>1. post[d] # Idle /\ post'[d].sid = post[d].sid /\ post'[d].arrived = post[d].arrived
    BY <1>1, <1>8
  <2> QED
    BY <2>1 DEF Inv, OwnPost, KeptPost
<1> QED
    BY <1>9, <1>10, <1>11 DEF Inv

LEMMA RespondKeeps ==
    ASSUME Inv, NEW c \in Clients, Respond(c)
    PROVE  Inv'
<1> TypeOK
    BY DEF Inv
<1>1. post[c] # Idle /\ post' = [post EXCEPT ![c] = Idle] /\ UNCHANGED <<now, sessions, opened, ended>>
    BY ActivePost DEF Respond
<1>2. post[c].sid \in Sids /\ post[c].arrived \in 0 .. now
    BY <1>1, PostFields
<1>3. \/ UNCHANGED <<held, heldSince>>
      \/ /\ held' = [held EXCEPT ![c] = post[c].sid]
         /\ heldSince' = [heldSince EXCEPT ![c] = post[c].arrived]
    BY DEF Respond
<1>4. TypeOK'
    BY <1>1, <1>2, <1>3 DEF TypeOK, Posts, Sids, Idle
<1>5. \A d \in Clients : \/ held'[d] = held[d] /\ heldSince'[d] = heldSince[d]
                         \/ post[d] # Idle /\ held'[d] = post[d].sid /\ heldSince'[d] = post[d].arrived
    BY <1>1, <1>3 DEF TypeOK
<1>6. \A d \in Clients : post'[d] # Idle => post'[d] = post[d]
    BY <1>1 DEF TypeOK
<1> QED
    BY <1>1, <1>4, <1>5, <1>6 DEF Inv, OwnHeld, OwnPost, KeptHeld, KeptPost, Kept, Idle

LEMMA LoseResponseKeeps ==
    ASSUME Inv, NEW c \in Clients, LoseResponse(c)
    PROVE  Inv'
<1> TypeOK
    BY DEF Inv
<1>1. post' = [post EXCEPT ![c] = Idle] /\ UNCHANGED <<now, sessions, opened, held, heldSince, ended>>
    BY DEF LoseResponse
<1>2. TypeOK'
    BY <1>1 DEF TypeOK, Posts, Sids, Idle
<1>3. \A d \in Clients : post'[d] # Idle => post'[d] = post[d]
    BY <1>1 DEF TypeOK
<1> QED
    BY <1>1, <1>2, <1>3 DEF Inv, OwnHeld, OwnPost, KeptHeld, KeptPost, Kept, Idle

LEMMA DeleteKeeps ==
    ASSUME Inv, NEW c \in Clients, Delete(c)
    PROVE  Inv'
<1> TypeOK
    BY DEF Inv
<1>1. /\ sessions' = [sid \in DOMAIN sessions \ {held[c]} |-> sessions[sid]]
      /\ ended' = ended \cup {held[c]}
      /\ held' = [held EXCEPT ![c] = 0]
      /\ held[c] # 0
      /\ UNCHANGED <<now, opened, post, heldSince>>
    BY DEF Delete
<1>2. TypeOK'
    BY <1>1 DEF TypeOK, Posts, Sids
<1>3. \A d \in Clients : held'[d] # 0 => held'[d] = held[d]
    BY <1>1 DEF TypeOK
<1>4. \A sid \in DOMAIN sessions' : sid \in DOMAIN sessions /\ sessions'[sid] = sessions[sid]
    BY <1>1
<1>5. 0 \notin DOMAIN sessions
    BY DEF TypeOK, Sids
<1>6. OwnHeld' /\ OwnPost'
    BY <1>1, <1>3, <1>4, <1>2, <1>5 DEF Inv, OwnHeld, OwnPost, TypeOK, Sids, Idle
<1>7. \A sid : sid \in DOMAIN sessions /\ sid \notin ended' => sid \in DOMAIN sessions' /\ sessions'[sid] = sessions[sid]
    BY <1>1
<1>8. KeptHeld' /\ KeptPost'
    BY <1>1, <1>3, <1>7 DEF Inv, KeptHeld, KeptPost, Kept, Idle
<1> QED
    BY <1>2, <1>6, <1>8 DEF Inv

LEMMA TickKeeps ==
    ASSUME Inv, Tick
    PROVE  Inv'
<1> TypeOK
    BY DEF Inv
<1>1. now' = now + 1 /\ UNCHANGED <<sessions, opened, post, held, heldSince, ended>>
    BY DEF Tick
<1>2. Posts \subseteq Posts'
    BY <1>1 DEF Posts, Sids, TypeOK
<1>3. TypeOK'
    BY <1>1, <1>2 DEF TypeOK, Sids
<1>4. \A d \in Clients : post[d] # Idle => post[d].arrived \in Nat
    BY PostFields DEF TypeOK
<1>5. OwnHeld' /\ OwnPost'
    BY <1>1 DEF Inv, OwnHeld, OwnPost, Idle
<1>6. \A sid, since : since \in Nat /\ Kept(sid, since) => Kept(sid, since)'
    BY <1>1 DEF Kept, TypeOK
<1>7. KeptHeld'
    BY <1>1, <1>6 DEF Inv, KeptHeld, TypeOK
<1>8. KeptPost'
    BY <1>1, <1>4, <1>6 DEF Inv, KeptPost, Idle
<1> QED
    BY <1>3, <1>5, <1>7, <1>8 DEF Inv

THEOREM StepInv == Inv /\ [Next]_vars => Inv'
<1> SUFFICES ASSUME Inv, [Next]_vars PROVE Inv'
    OBVIOUS
<1>1. ASSUME NEW c \in Clients, NEW body \in Bodies, Post(c, body) PROVE Inv'
    BY <1>1, PostKeeps
<1>2. ASSUME NEW c \in Clients, NEW answer \in Answers, DispatchCall(c, answer) PROVE Inv'
  <2> <<answer>> \in Seq(Answers)
    OBVIOUS
  <2> QED
    BY <1>2, DoneKeeps DEF DispatchCall, Upcoming
<1>3. ASSUME NEW c \in Clients, DropNotification(c) PROVE Inv'
  <2> <<>> \in Seq(Answers)
    OBVIOUS
  <2> QED
    BY <1>3, DoneKeeps DEF DropNotification, Upcoming
<1>4. ASSUME NEW c \in Clients, ParseError(c) PROVE Inv'
  <2> <<"error">> \in Seq(Answers)
    BY DEF Answers
  <2> QED
    BY <1>4, DoneKeeps DEF ParseError, Upcoming
<1>5. ASSUME NEW c \in Clients, Respond(c) PROVE Inv'
    BY <1>5, RespondKeeps
<1>6. ASSUME NEW c \in Clients, LoseResponse(c) PROVE Inv'
    BY <1>6, LoseResponseKeeps
<1>7. ASSUME NEW c \in Clients, Delete(c) PROVE Inv'
    BY <1>7, DeleteKeeps
<1>8. CASE Tick
    BY <1>8, TickKeeps
<1>9. CASE UNCHANGED vars
    BY <1>9 DEF vars, Inv, TypeOK, Posts, Sids, Idle, OwnHeld, OwnPost, KeptHeld, KeptPost, Kept
<1> QED
    BY <1>1, <1>2, <1>3, <1>4, <1>5, <1>6, <1>7, <1>8, <1>9 DEF Next

(* Every variable of the transport keeps its type.                            *)
THEOREM TypeCorrect == Spec => []TypeOK
<1>1. Inv => TypeOK
    BY DEF Inv
<1> QED
    BY <1>1, InitInv, StepInv, PTL DEF Spec

(* For any clients, bodies and time to live: a client keeps the session it    *)
(* was given for as long as it uses it, and under its own identity.           *)
THEOREM SessionsAreKept == Spec => []KeepsSession
<1>1. Inv => KeepsSession
    BY DEF Inv, OwnHeld, KeptHeld, Kept, KeepsSession
<1> QED
    BY <1>1, InitInv, StepInv, PTL DEF Spec
=============================================================================
