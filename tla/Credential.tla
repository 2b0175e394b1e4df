----------------------------- MODULE Credential -----------------------------
(***************************************************************************)
(* OAuth2Credential of sealstack-connector-sdk (auth.rs): one cached       *)
(* access token shared by every request of a connector, behind a mutex     *)
(* that is held across the awaits of a refresh.  Time is counted in        *)
(* seconds of the monotonic clock, access tokens by the order in which the *)
(* token endpoint issues them.                                             *)
(***************************************************************************)
EXTENDS Naturals

CONSTANTS
    Tasks,          \* futures that share the credential
    NoOwner,        \* stands for a free mutex
    Skew,           \* REFRESH_SKEW_SECS
    NegTtl,         \* NEGATIVE_CACHE_SECS
    Lifetimes,      \* expires_in values the endpoint answers with
    RefreshTries,   \* attempts of refresh_with_retry
    MaxTime,        \* bound on the clock
    MaxIssued       \* bound on the tokens the endpoint issues

ASSUME CredentialAssumption ==
    /\ NoOwner \notin Tasks
    /\ Skew \in Nat /\ NegTtl \in Nat
    /\ Lifetimes \subseteq Nat
    /\ RefreshTries \in Nat \ {0}
    /\ MaxTime \in Nat /\ MaxIssued \in Nat

VARIABLES
    now,            \* Instant::now()
    cache,          \* CachedAccess: token and expiry, negative-cache expiry
    owner,          \* who holds the cache mutex across an await
    tries,          \* refreshes the owner has tried
    issued          \* tokens the endpoint has issued (external)

credVars == <<now, cache, owner, tries, issued>>

None == 0           \* no token, no negative cache

CachedAccess == [token : Nat, until : Nat, negative : Nat]

CredInit ==
    /\ now = 1
    /\ cache = [token |-> None, until |-> 0, negative |-> None]
    /\ owner = NoOwner
    /\ tries = 0
    /\ issued = 0

Failing == cache.negative > now
Usable == cache.token # None /\ now + Skew < cache.until

-----------------------------------------------------------------------------
(* authorization_header: from the lock to the first await is one step.     *)

\* A refresh failed less than NegTtl ago: fail without asking.
FailFast ==
    /\ owner = NoOwner
    /\ Failing
    /\ UNCHANGED credVars

CacheHit ==
    /\ owner = NoOwner
    /\ ~Failing /\ Usable
    /\ cache' = [cache EXCEPT !.negative = None]
    /\ UNCHANGED <<now, owner, tries, issued>>

\* Mutation: the guard is dropped before the refresh is awaited.
BeginRefreshUnlocked(t) ==
    /\ owner = NoOwner
    /\ ~Failing /\ ~Usable
    /\ cache' = [cache EXCEPT !.negative = None]
    /\ tries' = 0
    /\ UNCHANGED <<now, owner, issued>>

\* Neither cache answers: refresh, with the mutex held.
BeginRefresh(t) ==
    /\ owner = NoOwner
    /\ ~Failing /\ ~Usable
    /\ cache' = [cache EXCEPT !.negative = None]
    /\ owner' = t
    /\ tries' = 0
    /\ UNCHANGED <<now, issued>>

\* refresh_once returns a token: it is cached and handed out, however soon it
\* expires.
RefreshOk ==
    /\ issued < MaxIssued
    /\ issued' = issued + 1
    /\ \E expires_in \in Lifetimes :
          cache' = [cache EXCEPT !.token = issued + 1, !.until = now + expires_in]
    /\ owner' = NoOwner
    /\ UNCHANGED <<now, tries>>

\* invalid_grant, invalid_client, invalid_scope: no negative cache, and the
\* expired token stays where it is.
RefreshRefused ==
    /\ owner' = NoOwner
    /\ UNCHANGED <<now, cache, tries, issued>>

\* Mutation: one attempt too many.
RefreshTransientOffByOne ==
    /\ tries < RefreshTries
    /\ tries' = tries + 1
    /\ UNCHANGED <<now, cache, owner, issued>>

\* A 5xx, the network or an unreadable body: try again after a sleep ...
RefreshTransient ==
    /\ tries + 1 < RefreshTries
    /\ tries' = tries + 1
    /\ UNCHANGED <<now, cache, owner, issued>>

\* ... or give up and let nobody else try for NegTtl.
RefreshGivesUp ==
    /\ tries + 1 = RefreshTries
    /\ cache' = [cache EXCEPT !.negative = now + NegTtl]
    /\ owner' = NoOwner
    /\ UNCHANGED <<now, tries, issued>>

\* Mutation: invalidate() spares a token that has not expired.
InvalidateIfExpired ==
    /\ owner = NoOwner
    /\ cache' = IF Usable THEN cache ELSE [cache EXCEPT !.token = None, !.until = 0]
    /\ UNCHANGED <<now, owner, tries, issued>>

\* invalidate() forgets whatever token is cached by the time it has the lock,
\* also one that is newer than the refused one; the negative cache stays.
Invalidate ==
    /\ owner = NoOwner
    /\ cache' = [cache EXCEPT !.token = None, !.until = 0]
    /\ UNCHANGED <<now, owner, tries, issued>>

\* A dropped future lets go of the mutex.
Release(t) ==
    /\ owner' = IF owner = t THEN NoOwner ELSE owner
    /\ UNCHANGED <<now, cache, tries, issued>>

ClockTick ==
    /\ now < MaxTime
    /\ now' = now + 1
    /\ UNCHANGED <<cache, owner, tries, issued>>

CredTypeOK ==
    /\ now \in Nat
    /\ cache \in CachedAccess
    /\ owner \in Tasks \cup {NoOwner}
    /\ tries \in 0..(RefreshTries - 1)
    /\ issued \in 0..MaxIssued
=============================================================================
