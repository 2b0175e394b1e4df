------------------------------ MODULE Sources -------------------------------
(***************************************************************************)
(* What each connector of src/connectors decides for itself: whether its   *)
(* configuration is accepted and with which credential, what it filters,   *)
(* where it takes the next cursor from, and what it makes of a body.       *)
(* Connectors puts the decisions into one listing.                         *)
(***************************************************************************)
EXTENDS Naturals, Sequences, FiniteSets

CONSTANT Unwanted       \* items a connector filters out

Sdk == {"slack", "github", "drive", "offset"}      \* walk through paginate
\* These services hand out opaque tokens, taken to stand for the last item given;
\* those count: GitHub's links number its pages, the others pass an offset.
Keyset == {"slack", "drive", "notion", "gmail", "linear", "s3"}
Positional == {"github", "jira", "confluence", "offset"}
OneShot == {"web", "local-files", "postgres"}      \* no pages
Kinds == Keyset \cup Positional \cup OneShot

-----------------------------------------------------------------------------
(* Construction.  A configuration says of each of its parts whether it is   *)
(* left out, empty, malformed or good; a credential is one of these too.    *)
Parts == {"secret", "place", "who", "extra"}
Values == {"absent", "empty", "bad", "good"}
Given == {"bad", "good"}
Refused == "refused"
NoSecret == "none"
Accept(test, credential) == IF test THEN credential ELSE Refused

\* The token of the configuration wins, even when it is empty; that of the
\* environment counts if it is not.
TokenOrEnv(f, env) ==
    IF f.secret # "absent" THEN f.secret ELSE Accept(env \in Given, env)
SlackCredential(f, env) == TokenOrEnv(f, env)
GithubCredential(f, env) == TokenOrEnv(f, env)

\* The secrets of Drive are named in the configuration and read from the
\* environment; only the user corpus is supported.
DriveCredential(f, env) ==
    Accept(/\ f.who # "absent" /\ f.secret # "absent" /\ env \in Given
           /\ f.extra \in {"absent", "good"}, env)

\* A header value is built from the secret, so it must be one.
NotionCredential(f) == Accept(f.secret = "good", f.secret)
GmailCredential(f) == Accept(f.secret = "good", f.secret)
LinearCredential(f) == Accept(f.secret = "good", f.secret)

\* Basic authentication encodes whatever is given.
JiraCredential(f) ==
    Accept(f.place = "good" /\ f.who \in Given /\ f.secret \in Given, f.secret)
ConfluenceCredential(f) ==
    Accept(f.place = "good" /\ f.who \in Given /\ f.secret \in Given
               /\ f.extra \in {"absent", "good"}, f.secret)

S3Credential(f) == Accept(f.place = "good" /\ f.extra # "empty", NoSecret)
WebCredential(f) == Accept(f.place = "good", NoSecret)
LocalFilesCredential(f) == Accept(f.place = "good", NoSecret)
PostgresCredential(f) ==
    Accept(f.place = "good" /\ f.who = "good" /\ f.extra = "good", NoSecret)

Credential(kind, f, env) ==
    CASE kind = "slack" -> SlackCredential(f, env)
      [] kind = "github" -> GithubCredential(f, env)
      [] kind = "drive" -> DriveCredential(f, env)
      [] kind = "notion" -> NotionCredential(f)
      [] kind = "gmail" -> GmailCredential(f)
      [] kind = "linear" -> LinearCredential(f)
      [] kind = "jira" -> JiraCredential(f)
      [] kind = "confluence" -> ConfluenceCredential(f)
      [] kind = "s3" -> S3Credential(f)
      [] kind = "web" -> WebCredential(f)
      [] kind = "local-files" -> LocalFilesCredential(f)
      [] kind = "postgres" -> PostgresCredential(f)
      [] OTHER -> NoSecret

-----------------------------------------------------------------------------
(* Walks.  Cursors are <<>> (None) or <<n>>; <<0>> is the empty string.  One *)
(* turn of a walk makes of a reply what has been collected and the cursor of *)
(* the next request, None at the end.                                        *)
None == <<>>
EmptyText == <<0>>
UnlessEmpty(token) == IF token = EmptyText THEN None ELSE token
\* SetToSortSeq(S, <) and a SelectSeq by position, written by rank: the n-th of a
\* finite set of numbers is the one with n - 1 below it.
InOrder(S) ==
    [n \in 1..Cardinality(S) |-> CHOOSE i \in S : Cardinality({j \in S : j < i}) = n - 1]
Pick(s, positions) == [k \in 1..Cardinality(positions) |-> s[InOrder(positions)[k]]]
Upto(cap, s) == IF Len(s) > cap THEN SubSeq(s, 1, cap) ELSE s
Wanted(items) == Pick(items, {n \in DOMAIN items : items[n] \notin Unwanted})
Turn(collected, next) == [got |-> collected, next |-> next]

\* Channels of the allow-list; a channel's messages up to the cap, empty ones
\* among them.
SlackChannels(got, r) == Turn(got \o Wanted(r.items), UnlessEmpty(r.token))
SlackMessages(got, cap, r) == Turn(Upto(cap, got \o r.items), UnlessEmpty(r.token))

\* Repositories of the allow-list; issues without the pull requests.
GithubRepos(got, r) == Turn(got \o Wanted(r.items), r.token)
GithubIssues(got, r) == Turn(got \o Wanted(r.items), r.token)

\* Files outside Shared Drives with a MIME type that is ingested.
DriveFiles(r) == Turn(Wanted(r.items), r.token)

\* Pages, not databases; the walk ends without has_more or without a cursor.
NotionPages(got, cap, r) ==
    Turn(Upto(cap, got \o Wanted(r.items)), IF r.more THEN r.token ELSE None)
GmailIds(got, cap, r) == Turn(Upto(cap, got \o r.items), UnlessEmpty(r.token))
LinearIssues(got, cap, r) ==
    Turn(Upto(cap, got \o r.items), IF r.more THEN r.token ELSE None)
\* Keys that match a glob.
S3Keys(got, cap, r) ==
    Turn(Upto(cap, got \o Wanted(r.items)), IF r.more THEN r.token ELSE None)

\* Mutation: the next page starts with the last item of this one.
JiraIssuesOverlapping(got, cap, start, r) ==
    LET end == start + Len(r.items)
    IN  Turn(Upto(cap, got \o r.items),
             IF r.items = <<>> \/ end >= r.total THEN None ELSE <<end - 1>>)

\* Jira ends a walk on an empty page or by the total of the page.
JiraIssues(got, cap, start, r) ==
    LET end == start + Len(r.items)
    IN  Turn(Upto(cap, got \o r.items),
             IF r.items = <<>> \/ end >= r.total THEN None ELSE <<end>>)

\* Confluence ends it on a page shorter than it asked for.
ConfluencePages(got, cap, start, size, r) ==
    Turn(Upto(cap, got \o r.items),
         IF Len(r.items) < size THEN None ELSE <<start + Len(r.items)>>)

\* OffsetPaginator goes by the first page's total, if there was one.
OffsetItems(got, start, size, total, r) ==
    LET end == start + Len(r.items)
        done == IF total = None THEN Len(r.items) < size ELSE end >= total[1]
    IN  Turn(got \o r.items, IF done THEN None ELSE <<end>>)

\* The configured URLs; the files of the tree with a known extension; the rows
\* of SELECT ... LIMIT.
WebUrls(r) == Turn(r.items, None)
LocalFiles(r) == Turn(Wanted(r.items), None)
PostgresRows(cap, r) == Turn(Upto(cap, r.items), None)

-----------------------------------------------------------------------------
(* Bodies: plain text, larger than the connector's cap, not text at all,    *)
(* or cut by the cap inside a character.  What becomes of an item, where    *)
(* its body may be had and where it may not.                                *)
Shapes == {"plain", "large", "binary", "wide"}

NotionBody(shape) == {"ok", "skip"}
GmailBody(shape) == {"ok", "skip"}
\* Read up to the cap; what is not UTF-8 is replaced.
S3Body(shape) == {"ok", "skip"}
WebBody(shape) == IF shape = "plain" THEN {"ok", "skip"} ELSE {"skip"}
LocalFilesBody(shape) == IF shape = "plain" THEN {"ok", "skip"} ELSE {"skip"}
\* String::truncate panics inside a character; a row of shape "binary" has no
\* readable primary key.
PostgresBody(shape) ==
    CASE shape = "wide" -> {"panic"} [] shape = "binary" -> {"skip"} [] OTHER -> {"ok"}

BodyOf(kind, shape) ==
    CASE kind = "notion" -> NotionBody(shape)
      [] kind = "gmail" -> GmailBody(shape)
      [] kind = "s3" -> S3Body(shape)
      [] kind = "web" -> WebBody(shape)
      [] kind = "local-files" -> LocalFilesBody(shape)
      [] OTHER -> PostgresBody(shape)

\* Drive skips a file over its cap before it asks for the body, and text that
\* is not UTF-8 after; an exported document must be UTF-8.
DriveSkipsFile(shape) == shape \in {"large", "wide"}
DriveBody(shape, exported) ==
    IF shape # "binary" THEN "ok" ELSE IF exported THEN "abort" ELSE "skip"

-----------------------------------------------------------------------------
(* The 403 shims read from headers and body what kind of refusal it is.      *)
Signals == {"quota", "rate", "reset", "retry_after", "secondary"}
ClassifyDrive(signals) ==
    CASE "quota" \in signals -> "QuotaExhausted"
      [] "quota" \notin signals /\ "rate" \in signals -> "BackoffThenRetry"
      [] OTHER -> "PermissionDenied"
ClassifyGithub(signals) ==
    CASE signals \cap {"reset", "retry_after"} # {} -> "WaitThenRetry"
      [] signals \cap {"reset", "retry_after", "secondary"} = {"secondary"} -> "BackoffThenRetry"
      [] OTHER -> "PermissionDenied"

\* How many sends a shim makes at most, and which refusals it retries.
DriveTries == 5
GithubTries == 2
DriveRetries(signals, attempt) ==
    ClassifyDrive(signals) = "BackoffThenRetry" /\ attempt < DriveTries - 1
GithubRetries(signals, attempt) ==
    ClassifyGithub(signals) # "PermissionDenied" /\ attempt = 0
=============================================================================
