----------------------------- MODULE Connectors -----------------------------
(***************************************************************************)
(* One call of Connector::list, for every connector of src/connectors:     *)
(* the constructor that accepts its configuration, the walk over the pages *)
(* of a remote service (the SDK's `paginate` or a loop of the connector),  *)
(* the fetch of each body, and the 403 shims around HttpClient::send.  The *)
(* service's content changes while it is walked.  What one send may cost   *)
(* is the promise of BoundedSend: at most SendBudget requests.             *)
(***************************************************************************)
EXTENDS Sources, SequencesExt, FiniteSets

CONSTANTS
    Items,          \* what a scope of the service may hold: ids in its order
    ServerMax,      \* the largest page the service gives, whatever is asked
    Sizes, Caps,    \* page sizes and item caps of configurations
    MaxChanges,     \* bound: changes of the service during one listing
    SendBudget      \* requests one HttpClient::send may cost

ASSUME ConnectorsAssumption ==
    /\ Items \subseteq Nat \ {0} /\ IsFiniteSet(Items)
    /\ Unwanted \subseteq Items
    /\ {ServerMax, SendBudget} \subseteq Nat \ {0}
    /\ Sizes \subseteq Nat /\ Caps \subseteq Nat /\ MaxChanges \in Nat

VARIABLES
    cfg,            \* the connector and its configuration, fixed once built
    secret,         \* the credential it was built with
    pc,             \* where list() is
    present,        \* what the scope being walked holds now
    changes,        \* [ins, del]: items that came and went during the listing
    scope, parents, \* the channel or repository walked (Top at first), and those left
    cursor, prev, total,    \* the walk: cursors as <<>> (None) or <<n>>, first total
    got, page, todo,        \* items collected, of a page under way, still to be fetched
    attempt, sent,  \* the shim's loop, and the requests its call has cost
    out,            \* the resources collected, as <<scope, item>>
    stayed, owed, settled   \* history: what a walk owes, what was skipped or walked

service == <<present, changes, stayed>>
walk == <<cursor, prev, total, got>>
shim == <<attempt, sent>>
vars == <<cfg, secret, pc, present, changes, scope, parents, cursor, prev, total,
          got, page, todo, attempt, sent, out, stayed, owed, settled>>

Top == 0            \* the scope of a flat listing, of channels or repositories
Readme == 0

Nested == {"slack", "github"}
Fetching == {"notion", "gmail", "s3"} \cup OneShot \* a body each, skipped on error

\* What a listing is for; a filter of Slack's is that of empty messages too.
Filtering == {"slack", "notion", "s3", "drive", "github", "local-files"}
WantedItems == IF cfg.kind \in Filtering THEN Items \ Unwanted ELSE Items

\* github, drive and the SDK's paginator collect all there is.
HasCap == cfg.kind \notin {"github", "drive", "offset", "web", "local-files"}
             /\ ~(cfg.kind = "slack" /\ scope = Top)
Capped == HasCap /\ Len(got) >= cfg.cap

Least(a, b) == IF a < b THEN a ELSE b
-----------------------------------------------------------------------------
Configs ==
    [kind : Kinds, size : Sizes, cap : Caps, mode : {"sound", "stuck"},
     totals : BOOLEAN,      \* the service of an OffsetPaginator gives a total
     issues : BOOLEAN]      \* github: include_issues

\* One value for what a connector does not have; only jira and confluence ask
\* for a page size that may be zero or beyond the service's.
PlainConfigs ==
    {c \in Configs :
        /\ c.kind \notin {"jira", "confluence"} => c.size = ServerMax
        /\ c.kind \in OneShot \cup {"jira", "confluence", "offset"} => c.mode = "sound"
        /\ c.kind # "offset" => c.totals
        /\ c.kind # "github" => c.issues
        /\ c.kind \in {"github", "drive", "offset", "web", "local-files"}
              => c.cap = CHOOSE n \in Caps : TRUE}

Init ==
    /\ cfg \in PlainConfigs
    /\ secret = NoSecret /\ pc = "new"
    /\ present = {} /\ stayed = {} /\ changes = [ins |-> 0, del |-> 0]
    /\ scope = Top /\ parents = <<>> /\ page = <<>> /\ todo = <<>>
    /\ cursor = None /\ prev = None /\ total = None /\ got = <<>>
    /\ attempt = 0 /\ sent = 0
    /\ out = <<>> /\ owed = {} /\ settled = {}

\* Entering a scope: its content is whatever it is by now.
EnterScope(s) ==
    /\ scope' = s
    /\ present' \in SUBSET Items
    /\ stayed' = present'
    /\ changes' = changes
    /\ cursor' = None /\ prev' = None /\ total' = None /\ got' = <<>>

\* from_json and new, then list().
Construct(f, env) ==
    /\ pc = "new"
    /\ IF Credential(cfg.kind, f, env) = Refused
       THEN /\ pc' = "refused"
            /\ UNCHANGED <<secret, scope, service, walk>>
       ELSE /\ secret' = Credential(cfg.kind, f, env)
            /\ pc' = "ask"
            /\ EnterScope(Top)
    /\ UNCHANGED <<cfg, parents, page, todo, shim, out, owed, settled>>
-----------------------------------------------------------------------------
\* What the service answers to the walk's next request.
Start == IF cursor = None THEN 0 ELSE cursor[1]
PageSize == Least(cfg.size, ServerMax)

\* Slack closes a walk with an empty token, Linear with the last item's; a
\* stuck service goes on with the token it was sent.
KeysetReply ==
    LET after == InOrder({i \in present : i > Start})
        reply == Upto(ServerMax, after)
        lastOf == IF reply = <<>> THEN None ELSE <<Last(reply)>>
        more == Len(after) > Len(reply)
        closing == CASE cfg.kind = "slack" -> EmptyText
                     [] cfg.kind = "linear" -> lastOf
                     [] OTHER -> None
    IN  IF cfg.mode = "sound"
        THEN [items |-> reply, more |-> more, token |-> IF more THEN lastOf ELSE closing]
        ELSE [items |-> reply, more |-> TRUE, token |-> IF cursor = None THEN lastOf ELSE cursor]

\* A page by its position; GitHub's links to the next one while there is one.
OffsetReply ==
    [items |-> Upto(PageSize, SubSeq(InOrder(present), Start + 1, Cardinality(present))),
     total |-> Cardinality(present),
     token |-> IF cfg.mode = "stuck" THEN IF cursor = None THEN <<PageSize>> ELSE cursor
               ELSE IF Start + PageSize < Cardinality(present) THEN <<Start + PageSize>>
               ELSE None]

\* URLs or files, all of them; rows of the table in whatever order.
OneShotReplies ==
    {[items |-> InOrder(S)] :
        S \in IF cfg.kind = "postgres"
              THEN {P \in SUBSET present : Cardinality(P) = Least(cfg.cap, Cardinality(present))}
              ELSE {present}}

Replies ==
    CASE cfg.kind \in Keyset -> {KeysetReply}
      [] cfg.kind \in OneShot -> OneShotReplies
      [] OTHER -> {OffsetReply}

\* Mutation: the paginator takes the total of every page.
KnownTotalLatest(r) == IF cfg.kind = "offset" /\ cfg.totals THEN <<r.total>> ELSE None

\* OffsetPaginator keeps the total of the first page.
KnownTotal(r) ==
    IF cfg.kind = "offset" /\ cfg.totals /\ total = None THEN <<r.total>> ELSE total

\* One turn of the connector's walk.
TurnOf(r) ==
    CASE cfg.kind = "slack" /\ scope = Top -> SlackChannels(got, r)
      [] cfg.kind = "slack" /\ scope # Top -> SlackMessages(got, cfg.cap, r)
      [] cfg.kind = "github" /\ scope = Top -> GithubRepos(got, r)
      [] cfg.kind = "github" /\ scope # Top -> GithubIssues(got, r)
      [] cfg.kind = "drive" -> DriveFiles(r)
      [] cfg.kind = "notion" -> NotionPages(got, cfg.cap, r)
      [] cfg.kind = "gmail" -> GmailIds(got, cfg.cap, r)
      [] cfg.kind = "linear" -> LinearIssues(got, cfg.cap, r)
      [] cfg.kind = "s3" -> S3Keys(got, cfg.cap, r)
      [] cfg.kind = "jira" -> JiraIssues(got, cfg.cap, Start, r)
      [] cfg.kind = "confluence" -> ConfluencePages(got, cfg.cap, Start, cfg.size, r)
      [] cfg.kind = "offset" -> OffsetItems(got, Start, cfg.size, KnownTotal(r), r)
      [] cfg.kind = "web" -> WebUrls(r)
      [] cfg.kind = "local-files" -> LocalFiles(r)
      [] OTHER -> PostgresRows(cfg.cap, r)

\* Mutation: paginate compares no cursors.
NeverRepeats == FALSE

\* paginate: the cursor about to be sent is the one sent before.
CursorRepeats == cfg.kind \in Sdk /\ cursor # None /\ prev = cursor

\* A malformed token makes no header, or is refused by Google's token endpoint;
\* Jira's and Confluence's is encoded.
Sendable == secret = "bad" => cfg.kind \in {"jira", "confluence"}

\* One page asked for and taken; the cursor of the next is None at the end.
\* Drive fetches the bodies of a page before it asks for the next.
AskPage ==
    /\ pc = "ask" /\ ~Capped /\ ~CursorRepeats /\ Sendable
    /\ \E r \in Replies :
          LET turn == TurnOf(r)
          IN  /\ IF cfg.kind = "drive" THEN page' = turn.got /\ got' = got
                 ELSE page' = page /\ got' = turn.got
              /\ total' = IF cfg.kind = "offset" THEN KnownTotal(r) ELSE total
              /\ prev' = cursor /\ cursor' = turn.next
              /\ pc' = IF cfg.kind = "drive" THEN "page"
                       ELSE IF turn.next = None THEN "walked" ELSE "ask"
    /\ UNCHANGED <<cfg, secret, service, scope, parents, todo, shim, out, owed, settled>>

\* A walk that has failed: Slack skips the channel, all else gives up.
WalkFails ==
    /\ IF cfg.kind = "slack" /\ scope # Top
       THEN pc' = "scope" /\ settled' = settled \cup {<<Top, scope>>}
       ELSE pc' = "failed" /\ settled' = settled
    /\ UNCHANGED <<cfg, secret, service, scope, parents, walk, page, todo, shim, out, owed>>

AskFails == pc = "ask" /\ ~Capped /\ ~CursorRepeats /\ WalkFails
CursorLoop == pc = "ask" /\ ~Capped /\ CursorRepeats /\ WalkFails


-----------------------------------------------------------------------------
\* The resources made of a walk; Slack drops empty messages only here.
Listed ==
    LET kept == Pick(got, {n \in DOMAIN got : got[n] \in WantedItems})
    IN  [n \in 1..Len(kept) |-> <<scope, kept[n]>>]

\* The walk is over: by its last page, or at the cap.  What it owes its caller
\* is what it collected and, short of the cap, every wanted item that was
\* there all along.
EndOfWalk ==
    /\ pc = "walked" \/ (pc = "ask" /\ Capped)
    /\ owed' = owed \cup ({scope} \X ((ToSet(got) \cup IF Capped THEN {} ELSE stayed) \cap WantedItems))
    /\ \/ /\ cfg.kind \in Nested /\ scope = Top
          /\ parents' = got /\ pc' = "scope"
          /\ UNCHANGED <<todo, out, settled>>
       \/ /\ cfg.kind \in Fetching
          /\ todo' = got /\ pc' = "fetch"
          /\ UNCHANGED <<parents, out, settled>>
       \/ /\ cfg.kind \notin Fetching /\ (cfg.kind \in Nested => scope # Top)
          /\ out' = out \o Listed
          /\ settled' = settled \cup {<<Top, scope>>}
          /\ pc' = IF cfg.kind \in Nested THEN "scope" ELSE "done"
          /\ UNCHANGED <<todo, parents>>
    /\ UNCHANGED <<cfg, secret, service, scope, walk, page, shim>>

\* The next channel, or the next repository, whose README comes first.
NextScope ==
    /\ pc = "scope" /\ parents # <<>>
    /\ EnterScope(Head(parents))
    /\ parents' = Tail(parents)
    /\ attempt' = 0 /\ sent' = 0
    /\ pc' = IF cfg.kind = "github" THEN "shim" ELSE "ask"
    /\ UNCHANGED <<cfg, secret, page, todo, out, owed, settled>>

LastScope ==
    /\ pc = "scope" /\ parents = <<>>
    /\ pc' = "done"
    /\ UNCHANGED <<cfg, secret, service, scope, parents, walk, page, todo, shim, out, owed, settled>>

-----------------------------------------------------------------------------
\* The bodies of a collected list, one by one: what cannot be fetched, decoded
\* or read is skipped with a warning, and the rest goes on.
BodyTaken(shape) ==
    /\ pc = "fetch" /\ todo # <<>>
    /\ "ok" \in BodyOf(cfg.kind, shape)
    /\ Head(todo) \in present \/ cfg.kind = "postgres"
    /\ out' = Append(out, <<scope, Head(todo)>>)
    /\ todo' = Tail(todo)
    /\ UNCHANGED <<cfg, secret, service, pc, scope, parents, walk, page, shim, owed, settled>>

BodySkipped(shape) ==
    /\ pc = "fetch" /\ todo # <<>>
    /\ "skip" \in BodyOf(cfg.kind, shape)
    /\ settled' = settled \cup {<<scope, Head(todo)>>}
    /\ todo' = Tail(todo)
    /\ UNCHANGED <<cfg, secret, service, pc, scope, parents, walk, page, shim, out, owed>>

RowPanics(shape) ==
    /\ pc = "fetch" /\ todo # <<>>
    /\ "panic" \in BodyOf(cfg.kind, shape)
    /\ pc' = "panicked"
    /\ UNCHANGED <<cfg, secret, service, scope, parents, walk, page, todo, shim, out, owed, settled>>

BodiesEnd ==
    /\ pc = "fetch" /\ todo = <<>>
    /\ pc' = "done"
    /\ UNCHANGED <<cfg, secret, service, scope, parents, walk, page, todo, shim, out, owed, settled>>

-----------------------------------------------------------------------------
\* Drive: a file of the page is too large and skipped, or its body is asked for.
DriveFile(shape) ==
    /\ pc = "page" /\ page # <<>>
    /\ IF DriveSkipsFile(shape)
       THEN /\ page' = Tail(page)
            /\ settled' = settled \cup {<<scope, Head(page)>>}
            /\ UNCHANGED <<pc, attempt, sent>>
       ELSE /\ pc' = "shim" /\ attempt' = 0 /\ sent' = 0
            /\ UNCHANGED <<page, settled>>
    /\ UNCHANGED <<cfg, secret, service, scope, parents, walk, todo, out, owed>>

DrivePageEnds ==
    /\ pc = "page" /\ page = <<>>
    /\ pc' = IF cursor = None THEN "walked" ELSE "ask"
    /\ UNCHANGED <<cfg, secret, service, scope, parents, walk, page, todo, shim, out, owed, settled>>

\* Each attempt of a shim is a whole HttpClient::send with retries of its own.
\* One that is answered has made a request at least.
Sends == \E n \in 1..SendBudget : sent' = sent + n
Tries == IF cfg.kind = "drive" THEN DriveTries ELSE GithubTries

\* The body of a Drive file: taken, skipped if it is no text, or the end of the
\* listing if it is a broken export.
DriveAnswered(shape, exported) ==
    /\ pc = "shim" /\ cfg.kind = "drive" /\ Sends
    /\ CASE DriveBody(shape, exported) = "ok" ->
               /\ pc' = "page" /\ page' = Tail(page)
               /\ out' = Append(out, <<scope, Head(page)>>) /\ settled' = settled
         [] DriveBody(shape, exported) = "skip" ->
               /\ pc' = "page" /\ page' = Tail(page)
               /\ out' = out /\ settled' = settled \cup {<<scope, Head(page)>>}
         [] OTHER -> pc' = "failed" /\ UNCHANGED <<page, out, settled>>
    /\ UNCHANGED <<cfg, secret, service, scope, parents, walk, todo, attempt, owed>>

\* The README of a repository is there, or not found; its issues come next.
GithubAnswered ==
    /\ pc = "shim" /\ cfg.kind = "github" /\ Sends
    /\ pc' = IF cfg.issues THEN "ask" ELSE "scope"
    /\ out' = Append(out, <<scope, Readme>>) \/ out' = out
    /\ settled' = IF cfg.issues THEN settled ELSE settled \cup {<<Top, scope>>}
    /\ UNCHANGED <<cfg, secret, service, scope, parents, walk, page, todo, attempt, owed>>

\* Mutation: the attempts are counted from one too few.
RetriesOnceMore(signals) ==
    IF cfg.kind = "drive" THEN ClassifyDrive(signals) = "BackoffThenRetry" /\ attempt < DriveTries
    ELSE ClassifyGithub(signals) # "PermissionDenied" /\ attempt < GithubTries

Retries(signals) ==
    IF cfg.kind = "drive" THEN DriveRetries(signals, attempt) ELSE GithubRetries(signals, attempt)

\* A 403: tried again, or the end of the listing.
ShimRefused(signals) ==
    /\ pc = "shim" /\ Sends
    /\ IF Retries(signals) THEN attempt' = attempt + 1 /\ pc' = pc
       ELSE pc' = "failed" /\ attempt' = attempt
    /\ UNCHANGED <<cfg, secret, service, scope, parents, walk, page, todo, out, owed, settled>>

\* Any other error ends the listing, one before the first request too.
ShimFails ==
    /\ pc = "shim"
    /\ Sends \/ sent' = sent
    /\ pc' = "failed"
    /\ UNCHANGED <<cfg, secret, service, scope, parents, walk, page, todo, attempt, out, owed, settled>>

-----------------------------------------------------------------------------
Listing == pc \notin {"new", "refused", "done", "failed", "panicked"}

Come(i) ==
    /\ Listing /\ i \notin present /\ changes.ins + changes.del < MaxChanges
    /\ present' = present \cup {i}
    /\ changes' = [changes EXCEPT !.ins = @ + 1]
    /\ UNCHANGED <<cfg, secret, pc, scope, parents, walk, page, todo, shim, out, stayed, owed, settled>>

Go(i) ==
    /\ Listing /\ i \in present /\ changes.ins + changes.del < MaxChanges
    /\ present' = present \ {i}
    /\ stayed' = stayed \ {i}
    /\ changes' = [changes EXCEPT !.del = @ + 1]
    /\ UNCHANGED <<cfg, secret, pc, scope, parents, walk, page, todo, shim, out, owed, settled>>

ListStep ==
    \/ AskPage \/ AskFails \/ CursorLoop \/ EndOfWalk \/ NextScope \/ LastScope
    \/ BodiesEnd \/ DrivePageEnds \/ GithubAnswered \/ ShimFails
    \/ \E shape \in Shapes :
          \/ BodyTaken(shape) \/ BodySkipped(shape) \/ RowPanics(shape) \/ DriveFile(shape)
          \/ \E exported \in BOOLEAN : DriveAnswered(shape, exported)
    \/ \E signals \in SUBSET Signals : ShimRefused(signals)

Next ==
    \/ \E f \in [Parts -> Values], env \in Values : Construct(f, env)
    \/ ListStep
    \/ \E i \in Items : Come(i) \/ Go(i)

Spec == Init /\ [][Next]_vars

\* A listing that is polled goes on.
FairSpec == Spec /\ WF_vars(ListStep)
-----------------------------------------------------------------------------
TypeOK ==
    /\ cfg \in Configs
    /\ secret \in Values \cup {NoSecret}
    /\ pc \in {"new", "refused", "ask", "page", "walked", "scope", "shim", "fetch",
               "done", "failed", "panicked"}
    /\ present \subseteq Items /\ stayed \subseteq present
    /\ scope \in Items \cup {Top}
    /\ {parents, got, page, todo} \subseteq Seq(Items)
    /\ \A o \in {cursor, prev, total} : o = None \/ (Len(o) = 1 /\ o[1] \in Nat)
    /\ attempt < Tries /\ sent \in Nat
    /\ out \in Seq((Items \cup {Top}) \X (Items \cup {Readme}))

\* When the connector's way of paging gives every item: a walk by offsets needs
\* a table that stands still (with the first page's total it needs only that
\* nothing is added), one by GitHub's page numbers that nothing goes, and
\* Confluence a service that grants its page size.
Reliable ==
    /\ cfg.mode = "sound"
    /\ cfg.kind \in {"jira", "confluence"} => cfg.size > 0 /\ changes.ins + changes.del = 0
    /\ cfg.kind = "confluence" => cfg.size <= ServerMax
    /\ cfg.kind = "offset" => changes.ins = 0 /\ (cfg.totals \/ changes.del = 0)
    /\ cfg.kind = "github" => changes.del = 0

(***************************************************************************)
(* A listing that succeeds has an answer for every wanted item that was in *)
(* the service while its scope was walked: the resource, a skip, or the    *)
(* cap.  A channel, a page or a body that fails hides nothing else.        *)
(***************************************************************************)
ListsEverything == pc = "done" /\ Reliable => owed \subseteq ToSet(out) \cup settled

(***************************************************************************)
(* No resource is listed twice by a service that moves its cursors on,     *)
(* except by a walk by position over which items are added, and GitHub's,  *)
(* Jira's, Confluence's and an OffsetPaginator's are such.                 *)
(***************************************************************************)
ListsOnce ==
    cfg.mode = "sound" /\ (cfg.kind \in Positional => changes.ins = 0)
        => IsInjective(out)

(***************************************************************************)
(* A shim repeats whole sends: five of them for Drive, two for GitHub, and *)
(* no more than that many times the requests of one send.                  *)
(***************************************************************************)
ShimIsBounded == sent <= Tries * SendBudget

(***************************************************************************)
(* A listing ends, also when the service repeats a cursor to a walk of the *)
(* SDK; a Confluence page size of zero is never answered to its end.       *)
(***************************************************************************)
EndsExpected ==
    /\ cfg.mode = "stuck" => cfg.kind \in Sdk
    /\ cfg.kind = "confluence" => cfg.size > 0
ListEnds == Listing /\ EndsExpected ~> ~Listing

(***************************************************************************)
(* A Slack or GitHub connector is never built with an empty token: "Both   *)
(* absent or empty -> returns SealStackError::Config".                     *)
(***************************************************************************)
NoEmptyToken == secret # "empty"

(***************************************************************************)
(* A row that is too long is truncated, one that cannot be read skipped;   *)
(* neither ends the listing.                                               *)
(***************************************************************************)
RowsNeverPanic == pc # "panicked"
=============================================================================
