----------------------------- MODULE PolicyCode -----------------------------
(***************************************************************************)
(* The predicate language of policy blocks: expressions, the bytecode they *)
(* are lowered to (sealstack-csl, codegen/policy.rs), and the two machines *)
(* that run it, the one of the compiler's self-pass (sealstack-policy-ir,  *)
(* "host") and the one inside a bundle (sealstack-policy-runtime, "wasm"). *)
(*                                                                         *)
(* Bytecode is a sequence of cells: an opcode with its fixed operand, or   *)
(* one segment of a path.  A segment that is run as an opcode begins with  *)
(* its length: what a machine does from there is followed only as far as   *)
(* to a byte that is no opcode.                                            *)
(***************************************************************************)
EXTENDS Integers, Sequences, SequencesExt

CONSTANTS
    MaxStack,     \* 32, in both machines
    MaxSegs,      \* segments a path of the bundle's machine may have, 8
    MaxCells,     \* room for bytecode in a bundle, 4096 bytes
    MaxRules,     \* 255, the count is a byte
    Escaped,      \* strings that JSON writes with a \u escape
    Spelled,      \* strings it writes with another escape, and the text it writes
    Runnable      \* segments with a length whose low byte is an opcode

ASSUME SizesAssumption ==
    /\ {MaxStack, MaxSegs, MaxCells, MaxRules} \subseteq Nat \ {0}
    /\ MaxSegs >= 2

\* Strings whose JSON text is not the string itself.
Rewritten == Escaped \cup DOMAIN Spelled

-----------------------------------------------------------------------------
(* JSON values, one field named for the kind.  Numbers count in halves, so  *)
(* that 1.5 is [float |-> 3].  An object is the sequence of its entries.    *)
Null == [null |-> 0]
Bool(b) == [bool |-> b]
Num(n) == [int |-> 2 * n]
Str(s) == [str |-> s]
Arr(q) == [arr |-> q]
Obj(entries) == [obj |-> entries]
Entry(k, v) == [key |-> k, value |-> v]
Fault == [fault |-> 0]
Stray == [stray |-> 0]       \* a machine that runs the bytes of a segment

Is(v, kind) == kind \in DOMAIN v
IsNumber(v) == Is(v, "int") \/ Is(v, "float")
Number(v) == IF Is(v, "int") THEN v.int ELSE v.float

Entries(v) == IF Is(v, "obj") THEN v.obj ELSE << >>
Places(v) == 1..Len(Entries(v))
Position(entries, k) == SelectInSeq(entries, LAMBDA e : e.key = k)
HasField(v, k) == Position(Entries(v), k) # 0
Field(v, k) == IF HasField(v, k) THEN Entries(v)[Position(Entries(v), k)].value ELSE Null

-----------------------------------------------------------------------------
(* Predicates.  The nodes of an expression stand in a sequence, each behind *)
(* those it is made of, which it names by their places; the last is the     *)
(* whole.  "other" stands for what the parser accepts and the compiler does *)
(* not lower: arithmetic, minus, durations, lists, other roots of a path,   *)
(* other calls, a wrong number of arguments.                                *)
Lit(v) == [e |-> "lit", v |-> v]
PathOf(root, segs) == [e |-> "path", root |-> root, segs |-> segs]
Bin(op, l, r) == [e |-> "bin", op |-> op, l |-> l, r |-> r]
Not(x) == [e |-> "not", x |-> x]
Other == [e |-> "other"]

Equalities == {"EQ", "NE"}
Orders == {"LT", "LE", "GT", "GE"}
Logic == {"AND", "OR"}
Membership == {"IN", "NOT_IN"}
Calls == {"CALL_HAS_ROLE", "CALL_TENANT_MATCH"}   \* of two arguments
Binaries == Equalities \cup Orders \cup Logic \cup Membership \cup Calls

Literals ==
    {Null} \cup [bool : BOOLEAN] \cup [int : Int] \cup [float : Int] \cup [str : STRING]
Names == STRING \ Rewritten                  \* an identifier has nothing to escape
Nodes ==
    [e : {"lit"}, v : Literals]
      \cup [e : {"path"}, root : {"LOAD_CALLER", "LOAD_SELF"}, segs : Seq(Names)]
      \cup [e : {"bin"}, op : Binaries, l : Nat, r : Nat]
      \cup [e : {"not"}, x : Nat] \cup {Other}
PartsOf(n) ==
    CASE n.e = "bin" -> {n.l, n.r}
      [] n.e = "not" -> {n.x}
      [] OTHER -> {}
Exprs == {p \in Seq(Nodes) \ {<< >>} : \A k \in DOMAIN p : PartsOf(p[k]) \subseteq 1..(k - 1)}

Lowerable(p) == \A k \in DOMAIN p : p[k].e # "other"

Cell(op, arg) == [op |-> op, arg |-> arg]
LowerPath(n) ==
    <<Cell(n.root, Len(n.segs))>> \o [i \in DOMAIN n.segs |-> Cell("seg", n.segs[i])]

(* Operands first, left before right.                                       *)
LowerBinary(first, second, op) == first \o second \o <<Cell(op, 0)>>
LowerNode(code, n) ==
    CASE n.e = "lit" -> <<Cell("LIT", n.v)>>
      [] n.e = "path" -> LowerPath(n)
      [] n.e = "bin" -> LowerBinary(code[n.l], code[n.r], n.op)
      [] n.e = "not" -> Append(code[n.x], Cell("NOT", 0))
      [] n.e = "other" -> << >>
Lowered(p) == LET code[k \in DOMAIN p] == LowerNode(code, p[k]) IN code
Lower(p) == Lowered(p)[Len(p)]

-----------------------------------------------------------------------------
(* A block is a sequence of rules, each with its actions and its predicate. *)
(* It becomes a table of the rules' actions and offsets, and their code one *)
(* after the other.                                                         *)
Rule(actions, predicate) == [actions |-> actions, predicate |-> predicate]
RuleCode(r) == Append(Lower(r.predicate), Cell("RESULT", 0))
Streams(block) ==
    LET upTo[i \in 0..Len(block)] ==
            IF i = 0 THEN << >> ELSE upTo[i - 1] \o RuleCode(block[i])
    IN  upTo
RuleOffset(block, i) == Len(Streams(block)[i - 1])
TableOf(block) ==
    [i \in DOMAIN block |-> [mask |-> block[i].actions, offset |-> RuleOffset(block, i)]]
Assemble(block) == [table |-> TableOf(block), code |-> Streams(block)[Len(block)]]

-----------------------------------------------------------------------------
(* The machines.  An input has a caller, a record and an action.            *)

\* A value as it is pushed.  The bundle reads every number as an integer and
\* cuts what does not fit one (an instance has no negative fractions), and takes
\* a string as the JSON text has it between its quotes.
HostValue(v) == IF Is(v, "obj") THEN Null ELSE v
Truncated(v) == [int |-> 2 * (v.float \div 2)]
WasmValue(v) ==
    CASE Is(v, "obj") -> Null
      [] Is(v, "float") -> Truncated(v)
      [] Is(v, "str") /\ v.str \in DOMAIN Spelled -> Str(Spelled[v.str])
      [] OTHER -> v

\* The values along a path, null behind a segment that is missing.
Along(root, segs) ==
    LET at[k \in 0..Len(segs)] == IF k = 0 THEN root ELSE Field(at[k - 1], segs[k])
    IN  at
Missing(root, segs) == {k \in DOMAIN segs : ~HasField(Along(root, segs)[k - 1], segs[k])}
Operand(code, ip) == [i \in 1..code[ip].arg |-> code[ip + i].arg]

\* The host walks while it decodes and returns at a missing segment, with the
\* rest of the operand still before it.
HostLoad(code, ip, root) ==
    LET segs == Operand(code, ip)
        missing == Missing(root, segs)
    IN  IF missing = {} THEN [ip |-> ip + 1 + Len(segs), v |-> HostValue(Along(root, segs)[Len(segs)])]
        ELSE [ip |-> ip + 1 + Min(missing), v |-> Null]

\* The bundle decodes the operand, then scans the JSON text: a key is found
\* unless it comes to a \u escape on the way, in a key or in a value, that of the
\* key included.  The text of a key with another escape is no identifier.
IsEscaped(v) == Is(v, "str") /\ v.str \in Escaped
Scannable(entries, k) ==
    LET at == Position(entries, k)
    IN  \A i \in 1..Len(entries) :
          (at = 0 \/ i <= at) => entries[i].key \notin Escaped /\ ~IsEscaped(entries[i].value)
WasmWalk(root, segs) ==
    LET at == Along(root, segs)
        missing == Missing(root, segs)
        sought == IF missing = {} THEN Len(segs) ELSE Min(missing)
    IN  IF \E k \in 1..sought : ~Scannable(Entries(at[k - 1]), segs[k]) THEN Fault
        ELSE IF missing # {} THEN Null
        ELSE WasmValue(at[Len(segs)])
WasmLoad(code, ip, root) ==
    LET segs == Operand(code, ip)
    IN  [ip |-> ip + 1 + Len(segs),
         v |-> IF Len(segs) > MaxSegs THEN Fault ELSE WasmWalk(root, segs)]

RootOf(load, input) == IF load = "LOAD_CALLER" THEN input.caller ELSE input.record
Load(m, code, ip, input) ==
    LET root == RootOf(code[ip].op, input)
    IN  IF m = "host" THEN HostLoad(code, ip, root) ELSE WasmLoad(code, ip, root)

\* Values of different kinds are not equal, and that is no error; arrays are
\* equal to nothing.
Equal(a, b) ==
    \/ IsNumber(a) /\ IsNumber(b) /\ Number(a) = Number(b)
    \/ \E k \in {"null", "bool", "str"} : Is(a, k) /\ Is(b, k) /\ a = b

Ordered(op, a, b) ==
    CASE op = "LT" -> a < b
      [] op = "LE" -> a <= b
      [] op = "GT" -> a > b
      [] op = "GE" -> a >= b

\* The host compares elements as it compares values; the bundle only looks
\* for strings, booleans and integers.
HostIn(needle, elem) == Equal(needle, HostValue(elem))
WasmIn(needle, elem) ==
    /\ \E k \in {"str", "bool", "int"} : Is(needle, k)
    /\ ~Is(elem, "null")
    /\ Equal(needle, WasmValue(elem))
Holds(m, needle, elem) == IF m = "host" THEN HostIn(needle, elem) ELSE WasmIn(needle, elem)
HasMember(m, needle, hay) == \E i \in DOMAIN hay.arr : Holds(m, needle, hay.arr[i])

\* The bundle stops at an element with a \u escape unless it is done before it.
Blocked(m, needle, hay) ==
    /\ m = "wasm"
    /\ \E i \in DOMAIN hay.arr :
          IsEscaped(hay.arr[i]) /\ \A j \in 1..(i - 1) : ~WasmIn(needle, hay.arr[j])
Search(m, needle, hay) ==
    IF Blocked(m, needle, hay) THEN Fault ELSE Bool(HasMember(m, needle, hay))

\* What a call finds at a key: for the bundle nothing where it cannot scan.
Sought(m, v, k) == IF m = "wasm" /\ ~Scannable(Entries(v), k) THEN Null ELSE Field(v, k)

\* The subject of has_role is popped and not used, except that the bundle
\* refuses a string or an array.
NoSubject(v) == Is(v, "str") \/ Is(v, "arr")
HasRole(m, subject, role, input) ==
    LET roles == Sought(m, input.caller, "roles")
    IN  IF ~Is(role, "str") \/ (m = "wasm" /\ NoSubject(subject)) THEN Fault
        ELSE IF Is(roles, "arr") THEN Search(m, role, roles)
        ELSE Bool(FALSE)

\* Two texts are the same just if the strings are.
TenantMatch(m, input) ==
    LET a == Sought(m, input.caller, "tenant")
        b == Sought(m, input.record, "tenant")
    IN  Bool(Is(a, "str") /\ Is(b, "str") /\ a = b)

\* What a binary opcode leaves for the two values it pops.
Apply(m, op, a, b, input) ==
    CASE op = "EQ" -> Bool(Equal(a, b))
      [] op = "NE" -> Bool(~Equal(a, b))
      [] op \in Orders ->
           IF IsNumber(a) /\ IsNumber(b) THEN Bool(Ordered(op, Number(a), Number(b))) ELSE Fault
      [] op \in Logic ->
           IF Is(a, "bool") /\ Is(b, "bool")
           THEN Bool(IF op = "AND" THEN a.bool /\ b.bool ELSE a.bool \/ b.bool) ELSE Fault
      [] op \in Membership ->
           IF ~Is(b, "arr") \/ Blocked(m, a, b) THEN Fault
           ELSE Bool(HasMember(m, a, b) <=> (op = "IN"))
      [] op = "CALL_HAS_ROLE" -> HasRole(m, a, b, input)
      [] op = "CALL_TENANT_MATCH" -> TenantMatch(m, input)

\* One opcode: where the machine goes on and the stack it leaves, or a fault.
Pushed(ip, stack, v) ==
    IF v = Fault \/ Len(stack) >= MaxStack THEN Fault
    ELSE [ip |-> ip, stack |-> Append(stack, v)]
Below(stack, n) == SubSeq(stack, 1, Len(stack) - n)
Top(stack, n) == stack[Len(stack) - n]
Opcode(m, code, ip, stack, input) ==
    LET c == code[ip] IN
    CASE c.op = "LIT" -> Pushed(ip + 1, stack, c.arg)
      [] c.op \in {"LOAD_CALLER", "LOAD_SELF"} ->
           LET l == Load(m, code, ip, input) IN Pushed(l.ip, stack, l.v)
      [] c.op = "NOT" ->
           IF stack # << >> /\ Is(Top(stack, 0), "bool")
           THEN Pushed(ip + 1, Below(stack, 1), Bool(~Top(stack, 0).bool)) ELSE Fault
      [] c.op \in Binaries ->
           IF Len(stack) >= 2
           THEN Pushed(ip + 1, Below(stack, 2),
                       Apply(m, c.op, Top(stack, 1), Top(stack, 0), input)) ELSE Fault
      [] c.op = "seg" -> IF c.arg \in Runnable THEN Stray ELSE Fault
      [] OTHER -> Fault

\* A machine is at a cell with its stack, has faulted or strayed, or is done.
At(ip, stack) == [ip |-> ip, stack |-> stack]
Done(b) == [done |-> b]
Step(m, code, s, input) ==
    IF ~Is(s, "ip") THEN s
    ELSE IF s.ip > Len(code) THEN Fault
    ELSE IF code[s.ip].op = "RESULT" THEN
         IF s.stack # << >> /\ Is(Top(s.stack, 0), "bool") THEN Done(Top(s.stack, 0).bool) ELSE Fault
    ELSE Opcode(m, code, s.ip, s.stack, input)

\* Every step goes forward, so there are no more than cells.
Trace(m, code, from, input) ==
    LET at[n \in 0..(Len(code) + 1)] ==
            IF n = 0 THEN At(from, << >>) ELSE Step(m, code, at[n - 1], input)
    IN  at
Run(m, code, from, input) ==
    LET end == Trace(m, code, from, input)[Len(code) + 1]
    IN  IF end = Stray THEN "stray"
        ELSE IF ~Is(end, "done") THEN "error" ELSE IF end.done THEN "allow" ELSE "deny"

\* Mutation of EntryFor: a later rule overrides an earlier one.
EntryForLast(table, action) == SelectLastInSeq(table, LAMBDA t : action \in t.mask)

\* The first rule of the table that names the action decides; without one the
\* answer is no.
EntryFor(table, action) == SelectInSeq(table, LAMBDA t : action \in t.mask)
Interpret(m, bundle, input) ==
    LET at == EntryFor(bundle.table, input.action)
    IN  IF at = 0 THEN "deny"
        ELSE Run(m, bundle.code, bundle.table[at].offset + 1, input)

-----------------------------------------------------------------------------
(* What a block means, read off its expressions: the reference for both     *)
(* machines.  Operands are evaluated whatever they are, there is no short   *)
(* circuit, and an operand of the wrong kind is an error.  It compares as   *)
(* the host does and takes the subject of has_role as the bundle does.      *)
Reach(root, segs) == HostValue(Along(root, segs)[Len(segs)])
Combined(op, a, b, input) ==
    IF a = Fault \/ b = Fault \/ (op = "CALL_HAS_ROLE" /\ NoSubject(a)) THEN Fault
    ELSE Apply("host", op, a, b, input)
NodeMeaning(val, n, input) ==
    CASE n.e = "lit" -> n.v
      [] n.e = "path" -> Reach(RootOf(n.root, input), n.segs)
      [] n.e = "not" -> IF Is(val[n.x], "bool") THEN Bool(~val[n.x].bool) ELSE Fault
      [] n.e = "bin" -> Combined(n.op, val[n.l], val[n.r], input)
      [] n.e = "other" -> Fault
Meanings(p, input) == LET val[k \in DOMAIN p] == NodeMeaning(val, p[k], input) IN val
Meaning(p, input) == Meanings(p, input)[Len(p)]

Decision(block, input) ==
    IF \A i \in DOMAIN block : input.action \notin block[i].actions THEN "deny"
    ELSE LET first == CHOOSE i \in DOMAIN block :
                         /\ input.action \in block[i].actions
                         /\ \A j \in 1..(i - 1) : input.action \notin block[j].actions
             v == Meaning(block[first].predicate, input)
         IN  IF ~Is(v, "bool") THEN "error" ELSE IF v.bool THEN "allow" ELSE "deny"
=============================================================================
