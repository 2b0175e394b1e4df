------------------------------ MODULE Chunker -------------------------------
(***************************************************************************)
(* semantic_chunks of sealstack-engine (ingest.rs), the default chunking   *)
(* of a body: paragraphs are packed into a chunk until the next one would  *)
(* exceed the token budget, and each chunk is seeded with the tail of the  *)
(* one before.  What a chunk holds is always a stretch of the body with    *)
(* its blank paragraphs removed (trimmed of white space at its ends), so a *)
(* chunk is the range of bytes it covers; one step takes one paragraph.    *)
(* Tokens are those of the default counter, CharApprox.                    *)
(***************************************************************************)
EXTENDS Integers, Sequences

CONSTANTS
    Bodies,         \* bodies: the byte lengths of their paragraphs
    Budgets,        \* max_tokens of ChunkingStrategy::Semantic
    Overlaps        \* overlap, in tokens

ASSUME ChunkerAssumption ==
    /\ Bodies \subseteq Seq(Nat \ {0})
    /\ Budgets \subseteq Nat /\ Overlaps \subseteq Nat

VARIABLES
    max_tokens, overlap,
    rest,           \* lengths of the paragraphs the loop has not reached
    from, to,       \* the stretch that `current` holds; nothing if to = 0
    pushed,         \* the chunks pushed so far
    paragraphs      \* history: the stretches of the paragraphs taken

chunkVars == <<max_tokens, overlap, rest, from, to, pushed, paragraphs>>

Stretch == [from : Nat, to : Nat]
Sep == 2            \* "\n\n"

Tokens(n) == (n + 3) \div 4

ChunkInit ==
    /\ max_tokens \in Budgets /\ overlap \in Overlaps
    /\ rest \in Bodies
    /\ from = 0 /\ to = 0
    /\ pushed = {} /\ paragraphs = {}

\* Mutation: the chunk is measured without the paragraph that is to come.
OverBudgetLate(p) == to > 0 /\ Tokens(to - from) > max_tokens

OverBudget(p) == to > 0 /\ Tokens(to - from + Sep + p) > max_tokens

\* Mutation: the chunk is taken to be longer than the overlap.
CarriedUnderflow == IF overlap = 0 THEN {to + Sep} ELSE {to - 4 * overlap}

\* carry_overlap: where the next chunk begins.  At most 4 * overlap bytes are
\* kept, up to three less when the cut falls into a character.
Carried ==
    IF overlap = 0 THEN {to + Sep}
    ELSE IF to - from <= 4 * overlap THEN {from}
    ELSE (to - 4 * overlap)..(to - 4 * overlap + 3)

\* The paragraph goes into `current`, which reaches from `begin` then.
Take(begin, at) ==
    /\ from' = begin
    /\ to' = at + Head(rest)
    /\ paragraphs' = paragraphs \cup {[from |-> at, to |-> at + Head(rest)]}
    /\ rest' = Tail(rest)
    /\ UNCHANGED <<max_tokens, overlap>>

Grow ==
    /\ rest # <<>>
    /\ ~OverBudget(Head(rest))
    /\ Take(from, IF to = 0 THEN 0 ELSE to + Sep)
    /\ UNCHANGED pushed

\* Mutation: the full chunk is replaced before it is pushed.
SplitUnpushed ==
    /\ rest # <<>>
    /\ OverBudget(Head(rest))
    /\ \E begin \in Carried : Take(begin, to + Sep)
    /\ UNCHANGED pushed

Split ==
    /\ rest # <<>>
    /\ OverBudget(Head(rest))
    /\ pushed' = pushed \cup {[from |-> from, to |-> to]}
    /\ \E begin \in Carried : Take(begin, to + Sep)

\* The last chunk is pushed after the loop.
Finish ==
    /\ rest = <<>> /\ to > 0
    /\ pushed' = pushed \cup {[from |-> from, to |-> to]}
    /\ from' = 0 /\ to' = 0
    /\ UNCHANGED <<max_tokens, overlap, rest, paragraphs>>

ChunkNext == Grow \/ Split \/ Finish

ChunkSpec == ChunkInit /\ [][ChunkNext]_chunkVars

Finished == rest = <<>> /\ to = 0

-----------------------------------------------------------------------------
ChunkTypeOK ==
    /\ max_tokens \in Nat /\ overlap \in Nat
    /\ rest \in Seq(Nat \ {0})
    /\ from \in Nat /\ to \in Nat
    /\ IF to = 0 THEN from = 0 ELSE from < to
    /\ pushed \subseteq Stretch /\ paragraphs \subseteq Stretch

Holds(c, p) == c.from <= p.from /\ p.to <= c.to

(***************************************************************************)
(* Every paragraph of the body is whole in some chunk, so the index never  *)
(* lacks a passage of the source or holds it only in halves.               *)
(***************************************************************************)
ParagraphsAreWhole ==
    Finished => \A p \in paragraphs : \E c \in pushed : Holds(c, p)

(***************************************************************************)
(* A chunk keeps to the token budget, or it is one paragraph with no more  *)
(* than the overlap of the chunk before in front of it.                    *)
(***************************************************************************)
BudgetKept ==
    \A c \in pushed :
        \/ Tokens(c.to - c.from) <= max_tokens
        \/ \E p \in paragraphs : p.to = c.to /\ p.from - c.from <= 4 * overlap + Sep

-----------------------------------------------------------------------------
(* What a comment says and the code does not do.                           *)

(***************************************************************************)
(* The total is checked again after the overlap is carried, so chunks stay *)
(* within the budget when every paragraph does.                            *)
(***************************************************************************)
OverlapStaysInBudget ==
    (\A p \in paragraphs : Tokens(p.to - p.from) <= max_tokens)
        => \A c \in pushed : Tokens(c.to - c.from) <= max_tokens
=============================================================================
