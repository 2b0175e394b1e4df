---------------------------------- MODULE Mcp ----------------------------------
(* Sessions and requests of the MCP transport                                 *)
(* (sealstack-gateway/src/mcp/transport.rs, protocol.rs). A POST resolves its *)
(* session, works through its body item by item, and names the session in the *)
(* header of the response; other requests, deletions and time go on           *)
(* meanwhile. A client has one POST under way and sends the session id it was *)
(* given last.                                                                *)
EXTENDS Naturals, Sequences, FiniteSets

CONSTANTS
    Clients,        \* authenticated principals, each an MCP client
    Ttl,            \* session_ttl
    Bodies,         \* bodies a client may post: [batch, items]
    MaxSessions,    \* bound on the sessions opened
    MaxTime         \* bound on the clock

Items == {"call", "notification", "garbage"}
Answers == {"result", "error"}

ASSUME McpAssumption ==
    /\ Ttl \in Nat /\ MaxSessions \in Nat /\ MaxTime \in Nat
    /\ \A b \in Bodies : b.batch \in BOOLEAN /\ b.items \in Seq(Items) /\ (~ b.batch => Len(b.items) = 1)

VARIABLES
    now,            \* the clock
    sessions,       \* sid -> [caller, seen]
    opened,         \* sessions opened so far; sids are drawn in order
    post,           \* post[c]: the POST of client c that is under way
    held,           \* held[c]: the session id client c was given last, or 0
    heldSince,      \* history: when the POST arrived whose response gave held[c]
    ended           \* history: the sids whose session a client has deleted

vars == <<now, sessions, opened, post, held, heldSince, ended>>

Idle == [pc |-> "idle"]

Init ==
    /\ now = 0
    /\ sessions = <<>>
    /\ opened = 0
    /\ post = [c \in Clients |-> Idle]
    /\ held = [c \in Clients |-> 0]
    /\ heldSince = [c \in Clients |-> 0]
    /\ ended = {}

----------------------------------------------------------------------------
(* reap_expired: every request that resolves a session does it first.         *)
Alive(sid) == now - sessions[sid].seen < Ttl
Reaped == {sid \in DOMAIN sessions : Alive(sid)}

(* Mutation of Touch: the session is found but not touched.                   *)
TouchUnseen(c) ==
    /\ sessions' = [sid \in Reaped |-> sessions[sid]]
    /\ UNCHANGED opened

(* Mutation of Touch: the field is given the time the session expires.        *)
TouchExpiry(c) ==
    /\ sessions' = [sid \in Reaped |->
                       IF sid = held[c] THEN [sessions[sid] EXCEPT !.seen = now + Ttl] ELSE sessions[sid]]
    /\ UNCHANGED opened

(* resolve_session of client c: the session it names is touched, whoever      *)
(* opened it; a session it cannot name any more is replaced by a new one, for *)
(* the caller that is authenticated.                                          *)
Touch(c) ==
    /\ sessions' = [sid \in Reaped |->
                       IF sid = held[c] THEN [sessions[sid] EXCEPT !.seen = now] ELSE sessions[sid]]
    /\ UNCHANGED opened

Open(c) ==
    /\ opened < MaxSessions
    /\ opened' = opened + 1
    /\ sessions' = [sid \in Reaped \cup {opened + 1} |->
                       IF sid = opened + 1 THEN [caller |-> c, seen |-> now] ELSE sessions[sid]]

(* handle_post up to its first await.                                         *)
Post(c, body) ==
    /\ post[c] = Idle
    /\ IF held[c] \in Reaped THEN Touch(c) ELSE Open(c)
    /\ post' = [post EXCEPT ![c] =
          [pc      |-> "dispatch",
           body    |-> body,
           done    |-> 0,
           sid     |-> IF held[c] \in Reaped THEN held[c] ELSE opened + 1,
           caller  |-> IF held[c] \in Reaped THEN sessions[held[c]].caller ELSE c,
           arrived |-> now,
           answers |-> <<>>]]
    /\ UNCHANGED <<now, held, heldSince, ended>>

----------------------------------------------------------------------------
(* dispatch and dispatch_batch: a notification is dropped unread, what is no  *)
(* request is answered with a parse error, and a call is answered when its    *)
(* handler is done.                                                           *)
Upcoming(c, item) ==
    /\ post[c].pc = "dispatch"
    /\ post[c].done < Len(post[c].body.items)
    /\ post[c].body.items[post[c].done + 1] = item

Done(c, answers) ==
    /\ post' = [post EXCEPT ![c].done = @ + 1, ![c].answers = @ \o answers]
    /\ UNCHANGED <<now, sessions, opened, held, heldSince, ended>>

DispatchCall(c, answer) == Upcoming(c, "call") /\ Done(c, <<answer>>)
DropNotification(c) == Upcoming(c, "notification") /\ Done(c, <<>>)
ParseError(c) == Upcoming(c, "garbage") /\ Done(c, <<"error">>)

(* The response. A notification on its own gets a bare 202 and a body that    *)
(* cannot be read a bare 400: neither tells the client its session.           *)
TellsSession(body) == body.batch \/ body.items = <<"call">>

Respond(c) ==
    /\ post[c].pc = "dispatch"
    /\ post[c].done = Len(post[c].body.items)
    /\ IF TellsSession(post[c].body)
       THEN /\ held' = [held EXCEPT ![c] = post[c].sid]
            /\ heldSince' = [heldSince EXCEPT ![c] = post[c].arrived]
       ELSE UNCHANGED <<held, heldSince>>
    /\ post' = [post EXCEPT ![c] = Idle]
    /\ UNCHANGED <<now, sessions, opened, ended>>

(* The response is lost, or the client goes away while its POST is under way. *)
LoseResponse(c) ==
    /\ post[c].pc = "dispatch"
    /\ post' = [post EXCEPT ![c] = Idle]
    /\ UNCHANGED <<now, sessions, opened, held, heldSince, ended>>

(* handle_delete, also while a POST of the client is under way.               *)
Delete(c) ==
    /\ held[c] # 0
    /\ sessions' = [sid \in DOMAIN sessions \ {held[c]} |-> sessions[sid]]
    /\ ended' = ended \cup {held[c]}
    /\ held' = [held EXCEPT ![c] = 0]
    /\ UNCHANGED <<now, opened, post, heldSince>>

Tick ==
    /\ now < MaxTime
    /\ now' = now + 1
    /\ UNCHANGED <<sessions, opened, post, held, heldSince, ended>>

Next ==
    \/ \E c \in Clients :
          \/ \E body \in Bodies : Post(c, body)
          \/ \E answer \in Answers : DispatchCall(c, answer)
          \/ DropNotification(c)
          \/ ParseError(c)
          \/ Respond(c)
          \/ LoseResponse(c)
          \/ Delete(c)
    \/ Tick

Spec == Init /\ [][Next]_vars

----------------------------------------------------------------------------
(* Properties.                                                                *)

Sids == 1 .. opened

Posts ==
    {Idle} \cup [pc : {"dispatch"}, body : Bodies, done : Nat, sid : Sids, caller : Clients,
                arrived : 0 .. now, answers : Seq(Answers)]

TypeOK ==
    /\ now \in Nat
    /\ opened \in Nat
    /\ DOMAIN sessions \subseteq Sids
    /\ \A sid \in DOMAIN sessions : sessions[sid] \in [caller : Clients, seen : 0 .. now]
    /\ post \in [Clients -> Posts]
    /\ held \in [Clients -> {0} \cup Sids]
    /\ heldSince \in [Clients -> 0 .. now]
    /\ ended \subseteq Sids

(* A client that was given a session id in answer to a POST of less than the  *)
(* time to live ago, and has not deleted the session, still has its session,  *)
(* under its own identity: other clients, requests that take long, responses  *)
(* that are lost and deletions that overtake them do not cost it the session  *)
(* (resolve_session, reap_expired and handle_delete of transport.rs).         *)
KeepsSession ==
    \A c \in Clients :
        held[c] # 0 /\ held[c] \notin ended /\ now - heldSince[c] < Ttl =>
            /\ held[c] \in DOMAIN sessions
            /\ sessions[held[c]].caller = c
=============================================================================
