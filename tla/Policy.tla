------------------------------- MODULE Policy -------------------------------
(***************************************************************************)
(* The way of a policy from a schema to a verdict: `sealstack compile`     *)
(* makes a bundle of the block, an operator puts it where the gateway      *)
(* reads it, the gateway boots with the backend its environment names      *)
(* (gateway/policy.rs), and the engine filters records with it             *)
(* (engine/policy.rs, sealstack-policy-cedar).                             *)
(***************************************************************************)
EXTENDS PolicyCode, FiniteSets

CONSTANTS
    Blocks,       \* policy blocks a schema may have; << >> when it has none
    Callers, Records,
    BatchMax,     \* records of one filter call
    MaxNesting    \* how deep JSON may nest, 128 for serde_json

Actions == {"read", "list", "write", "delete"}

\* JSON values are of one kind, an object has no key twice, and a caller has the
\* lists of strings groups and roles.
IsValue(v) == v \in Literals \/ DOMAIN v \in {{"arr"}, {"obj"}}
IsObject(v) ==
    /\ Is(v, "obj")
    /\ \A i \in Places(v) : IsValue(v.obj[i].value)
    /\ \A i, j \in Places(v) : v.obj[i].key = v.obj[j].key => i = j
IsCaller(v) ==
    /\ IsObject(v)
    /\ \A k \in {"groups", "roles"} :
          Is(Field(v, k), "arr") /\ \A i \in DOMAIN Field(v, k).arr : Field(v, k).arr[i] \in [str : STRING]

ASSUME PolicyAssumption ==
    /\ \A b \in Blocks : b \in Seq([actions : SUBSET Actions, predicate : Exprs])
    /\ \A v \in Callers : IsCaller(v)
    /\ \A v \in Records : IsObject(v)
    /\ BatchMax \in Nat /\ MaxNesting \in Nat

NoBundle == [table |-> << >>]
NoEngine == [kind |-> "none"]
NoRequest == [records |-> << >>]

VARIABLES
    block,        \* the policy block of the schema
    bundle,       \* what the compiler made of it
    deployed,     \* the policy directory and the settings the gateway started with
    engine,       \* the policy engine of the gateway
    request,      \* the filter call: caller, action, records
    verdicts,     \* one per record decided so far
    stage         \* source, rejected, compiled, up, asked, answered, failed

policyVars == <<block, bundle, deployed, engine, request, verdicts, stage>>

\* A request is decided record by record.
InputFor(i) ==
    [caller |-> request.caller, action |-> request.action, record |-> request.records[i]]

PolicyInit ==
    /\ block \in Blocks
    /\ bundle = NoBundle /\ deployed = << >> /\ engine = NoEngine
    /\ request = NoRequest /\ verdicts = << >> /\ stage = "source"

-----------------------------------------------------------------------------
(* sealstack compile.  The self-pass runs every action on an empty input    *)
(* and gives up on an error; then the code must fit the bundle.  A run that *)
(* strays may come to an error or not.                                      *)
EmptyCaller == Obj(<<Entry("attrs", Obj(<< >>)), Entry("email", Str("")),
                     Entry("groups", Arr(<< >>)), Entry("id", Str("")),
                     Entry("roles", Arr(<< >>)), Entry("team", Str("")),
                     Entry("tenant", Str(""))>>)
EmptyRecord == Obj(<<Entry("tenant", Str(""))>>)
EmptyInput(a) == [caller |-> EmptyCaller, record |-> EmptyRecord, action |-> a]

Lowers(b) == /\ Len(b) <= MaxRules
             /\ \A i \in DOMAIN b : Lowerable(b[i].predicate)
Fits(code) == Len(code.table) + Len(code.code) <= MaxCells
SelfPass(code) == {Interpret("host", code, EmptyInput(a)) : a \in Actions}
SelfPasses(code) == "error" \notin SelfPass(code)
Strays(code) == "stray" \in SelfPass(code)
Compiles(b) ==
    /\ Lowers(b)
    /\ SelfPasses(Assemble(b))
    /\ Fits(Assemble(b))

Compile ==
    /\ stage = "source"
    /\ \/ /\ Compiles(block)
          /\ bundle' = Assemble(block) /\ stage' = "compiled"
       \/ /\ ~Compiles(block) \/ Strays(Assemble(block))
          /\ bundle' = bundle /\ stage' = "rejected"
    /\ UNCHANGED <<block, deployed, engine, request, verdicts>>

-----------------------------------------------------------------------------
(* The gateway starts.  A directory is not set, does not exist, cannot be   *)
(* read, or is read; a file with a name of another form, or one that does   *)
(* not load, is skipped.                                                    *)
Deployments ==
    [dir : {"unset", "absent", "unreadable", "read"},
     file : {"none", "misnamed", "corrupt", "good"},
     backend : {"wasm", "cedar", "typo"},
     denyMissing : BOOLEAN]

Backend(value) == IF value = "cedar" THEN "cedar" ELSE "wasm"
DefaultVerdict(d) == IF d.denyMissing THEN "deny" ELSE "allow"
AllowAll == [kind |-> "allow_all"]
Loaded(d) == d.dir = "read" /\ d.file = "good"

\* Mutation: a bundle that does not load leaves its schema open.
LoadFromDirOpen(d) ==
    [kind |-> Backend(d.backend), loaded |-> Loaded(d),
     default |-> IF d.file = "corrupt" THEN "allow" ELSE DefaultVerdict(d)]

LoadFromDir(d) ==
    [kind |-> Backend(d.backend), loaded |-> Loaded(d), default |-> DefaultVerdict(d)]
PolicyFromDir(d) ==
    IF d.dir \in {"unset", "unreadable"} THEN AllowAll ELSE LoadFromDir(d)

Boot(d) ==
    /\ stage \in {"compiled", "rejected"}
    /\ d.dir # "read" => d.file = "none"
    /\ d.file = "good" /\ Backend(d.backend) = "wasm" => stage = "compiled"
    /\ deployed' = d
    /\ engine' = PolicyFromDir(d)
    /\ stage' = "up"
    /\ UNCHANGED <<block, bundle, request, verdicts>>

-----------------------------------------------------------------------------
(* PolicyEngine::evaluate, by backend.                                      *)
WasmVerdict(input) == Interpret("wasm", bundle, input)

\* Cedar sees the entries of the record as attributes: null is left out, and
\* a number that is no integer becomes a decimal, written without a fraction
\* if it has none; Cedar does not read that as a decimal.
Inside(v) ==
    {Entries(v)[i].value : i \in Places(v)}
      \cup IF Is(v, "arr") THEN {v.arr[i] : i \in DOMAIN v.arr} ELSE {}
Within(values) == UNION {Inside(v) : v \in values}
CedarRejects(v) ==
    LET level[n \in 0..MaxNesting] == IF n = 0 THEN {v} ELSE Within(level[n - 1])
    IN  \E n \in 0..MaxNesting : \E w \in level[n] : Is(w, "float") /\ w.float % 2 = 0
CedarAttributes(v) == {e \in {Entries(v)[i] : i \in Places(v)} : ~Is(e.value, "null")}

\* The set of Cedar policies that is deployed: whoever owns a record.
CedarDecision(caller, attributes) ==
    IF \E e \in attributes : e.key = "owner" /\ Equal(e.value, Field(caller, "id"))
    THEN "allow" ELSE "deny"
CedarVerdict(input) ==
    IF CedarRejects(input.record) \/ CedarRejects(Field(input.caller, "attrs")) THEN "error"
    ELSE CedarDecision(input.caller, CedarAttributes(input.record))

Evaluate(input) ==
    CASE engine.kind = "allow_all" -> "allow"
      [] engine.kind # "allow_all" /\ ~engine.loaded -> engine.default
      [] engine.kind = "wasm" /\ engine.loaded -> WasmVerdict(input)
      [] engine.kind = "cedar" /\ engine.loaded -> CedarVerdict(input)

(* PolicyEngine::filter: in order, and an error gives up the whole batch.   *)
Ask(caller, action, records) ==
    /\ stage = "up"
    /\ request' = [caller |-> caller, action |-> action, records |-> records]
    /\ stage' = "asked"
    /\ UNCHANGED <<block, bundle, deployed, engine, verdicts>>

Undecided == stage = "asked" /\ Len(verdicts) < Len(request.records)
Decided == Evaluate(InputFor(Len(verdicts) + 1))
FilterNext ==
    /\ Undecided
    /\ Decided # "error"
    /\ verdicts' = Append(verdicts, Decided = "allow")
    /\ UNCHANGED <<block, bundle, deployed, engine, request, stage>>
FilterFails ==
    /\ Undecided
    /\ Decided = "error"
    /\ stage' = "failed"
    /\ UNCHANGED <<block, bundle, deployed, engine, request, verdicts>>
FilterEnds ==
    /\ stage = "asked" /\ Len(verdicts) = Len(request.records)
    /\ stage' = "answered"
    /\ UNCHANGED <<block, bundle, deployed, engine, request, verdicts>>

Batches == UNION {[1..n -> Records] : n \in 1..BatchMax}
PolicyNext ==
    \/ Compile
    \/ \E d \in Deployments : Boot(d)
    \/ \E c \in Callers, a \in Actions, b \in Batches : Ask(c, a, b)
    \/ FilterNext \/ FilterFails \/ FilterEnds

PolicySpec == PolicyInit /\ [][PolicyNext]_policyVars

-----------------------------------------------------------------------------
\* Both readers of JSON take these for the same value: no fraction and nothing
\* that JSON escapes, as far as predicates that compile look: their paths have
\* two segments at most, and the arrays they search are groups and roles.
PlainScalar(v) == ~Is(v, "float") /\ (Is(v, "str") => v.str \notin Rewritten)
PlainKeys(v) == \A i \in Places(v) : Entries(v)[i].key \notin Escaped
Plain(v) ==
    /\ \A w \in {v} \cup Within({v}) \cup Within(Within({v})) : PlainScalar(w)
    /\ \A w \in {v} \cup Within({v}) : PlainKeys(w)
PlainInput(i) == Plain(request.caller) /\ Plain(request.records[i])

RunsBundle == engine.kind = "wasm" /\ engine.loaded

\* Of a block on which the self-pass strays, its passing says nothing.
Followed == ~Strays(Assemble(block))

\* Lowering, assembling and the machine of the bundle together decide what the
\* block says, record by record and in the order of the batch; a batch is given
\* up only for a predicate that has no meaning for its record, never because a
\* bundle the compiler accepted runs out of stack or loses its place.  Left out
\* are callers and records that are not plain, and blocks the compiler accepts
\* after running into the name of a segment (codegen/policy.rs, interp.rs,
\* json.rs, PolicyEngine::filter).
VerdictIsMeaning ==
    RunsBundle /\ Followed =>
      /\ \A i \in DOMAIN verdicts :
           PlainInput(i) => verdicts[i] = (Decision(block, InputFor(i)) = "allow")
      /\ stage = "failed" /\ PlainInput(Len(verdicts) + 1)
           => Decision(block, InputFor(Len(verdicts) + 1)) = "error"

\* Once a directory that can be read is set and deny_missing is on, a record
\* is let through only by a policy that was loaded and allows it, whatever
\* became of the file and whether or not the block compiled; in particular an
\* action no rule names is denied.  It holds of the records and blocks of
\* VerdictIsMeaning: a predicate with != lets a name through that the bundle
\* reads in another spelling (WasmPolicy::load_impl, CedarPolicy::load_impl).
DenyMissingHolds ==
    (deployed # << >> /\ deployed.dir \in {"absent", "read"} /\ deployed.denyMissing)
      => \A i \in DOMAIN verdicts :
           verdicts[i] /\ PlainInput(i) =>
             /\ engine.loaded
             /\ IF engine.kind = "wasm" THEN Followed => Decision(block, InputFor(i)) = "allow"
                ELSE Field(request.records[i], "owner") = Field(request.caller, "id")

\* "An error here means the emitter produced an IR the runtime cannot execute"
\* (codegen/policy.rs:46): a block that only the self-pass rejects fails on
\* the machine of the bundle too.
SelfPassIsRight ==
    stage = "rejected" /\ Lowers(block) /\ Fits(Assemble(block))
      => \E a \in Actions : Interpret("wasm", Assemble(block), EmptyInput(a)) = "error"
=============================================================================
