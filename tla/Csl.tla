---------------------------------- MODULE Csl ----------------------------------
(* The CSL compiler (crates/sealstack-csl): how a source file is read and      *)
(* checked, and what each emitter makes of a schema. All operators are pure.   *)
(*                                                                             *)
(* A source file is [ns, items]: the words of its namespace and a sequence of  *)
(* items. An item is                                                           *)
(*   [kind, name, version, head, fields, rels, ctx, policy, tail]              *)
(* where kind is "schema" or "enum", head and tail are the syntax before and   *)
(* behind the fields ("none", or the error found there: "soft" for one that    *)
(* lets the parser go back, "hard" for one behind a cut), ctx is the sequence  *)
(* of the statements of the context block, and policy tells whether the policy *)
(* block compiles (module PolicyCode). Schema names are sequences of runs      *)
(* [w, cap], cap telling whether a run begins with a capital and whether that  *)
(* is one of ASCII, since how a name is spelled in snake case decides about    *)
(* tables and tools; the names of fields and relations are plain and in lower  *)
(* case.                                                                       *)
EXTENDS Integers, Sequences, FiniteSets, SequencesExt

----------------------------------------------------------------------------
(* Names.                                                                      *)

Caps == {"none", "ascii", "other"}
Run(w) == [w |-> w, cap |-> "none"]
Underscore == Run("_")

(* to_ascii_lowercase, of the first letter of a run.                           *)
Small(run) == IF run.cap = "ascii" THEN Run(run.w) ELSE run
Lowered(name) == [i \in DOMAIN name |-> Small(name[i])]

(* In snake case every capital is made small, and all but the first get an     *)
(* underscore in front. Capitals outside ASCII stay; table_name and snake put  *)
(* the underscore in front of them, too, to_snake does not.                    *)
Underscored(name, caps) ==
    FlattenSeq([i \in DOMAIN name |->
        IF name[i].cap \in caps /\ i > 1 THEN <<Underscore, Small(name[i])>>
                                         ELSE <<Small(name[i])>>])

(* table_name of the DDL, and snake of the manifest.                           *)
Snake(name) == Underscored(name, {"ascii", "other"})

(* to_snake, of the metadata and the SDKs.                                     *)
ToSnake(name) == Underscored(name, {"ascii"})

(* Words joined by underscores.                                                *)
Joined(names) ==
    FlattenSeq([i \in DOMAIN names |-> IF i = 1 THEN names[i] ELSE <<Underscore>> \o names[i]])

(* A name, a label or an argument that is not there.                           *)
Empty == ""

Word(w) == <<Run(w)>>
Namespace(file) == IF file.ns = <<>> THEN <<"default">> ELSE file.ns
Qualified(file, s) == <<Namespace(file), s.name>>

----------------------------------------------------------------------------
(* Types: [opt, list, base, of]; List<T>? has both flags.                      *)

TextTypes == {"String", "Text", "Ulid", "Uuid", "Instant", "Duration"}
NumberTypes == {"I32", "I64", "F32", "F64"}

SqlType(ty) ==
    IF ty.list \/ ty.base \in {"Map", "Json"} THEN "jsonb"
    ELSE CASE ty.base \in {"String", "Text", "Ulid", "Ref", "Named"} -> "text"
           [] ty.base = "Uuid" -> "uuid"
           [] ty.base = "Vector" -> "bytea"
           [] ty.base = "Bool" -> "boolean"
           [] ty.base = "Instant" -> "timestamptz"
           [] ty.base = "Duration" -> "interval"
           [] ty.base \in NumberTypes -> "number"

(* The type string of JSON Schema, as the manifest's schemas use it.           *)
JsonType(ty) ==
    IF ty.list \/ ty.base = "Vector" THEN "array"
    ELSE CASE ty.base \in TextTypes \cup {"Ref", "Named"} -> "string"
           [] ty.base \in NumberTypes -> "number"
           [] ty.base = "Bool" -> "boolean"
           [] ty.base \in {"Map", "Json"} -> "object"

----------------------------------------------------------------------------
(* Reading a file.                                                             *)

(* A field of the source is [kw, name, ty, deco, fault]: kw is the keyword of  *)
(* a block its name begins with, or "". The block parsers are tried first and  *)
(* without going back, so the keyword is used up and the rest is read as the   *)
(* name: policy_number becomes _number. A name that is all keyword, or goes on *)
(* with a digit, leaves nothing that is a name, and what is left may not be a  *)
(* reserved word either.                                                       *)
ReservedWords ==
    {"schema", "entity", "relation", "relations", "enum", "policy", "context", "import",
     "namespace", "version", "from", "via", "as", "one", "many", "optional", "required",
     "true", "false", "null", "and", "or", "not", "in", "on_delete", "cascade", "restrict",
     "set_null", "use", "profile"}

(* A type whose name goes on behind Ref, List, Map or Vector is taken for one  *)
(* of them, for good.                                                          *)
TypeWords == {[w |-> w, cap |-> "ascii"] : w \in {"ref", "list", "map", "vector"}}
TakenForOther(ty) == ty.base = "Named" /\ ty.of[1] \in TypeWords

FieldFault(f) ==
    IF f.name = Empty \/ f.name \in ReservedWords THEN "soft"
    ELSE IF TakenForOther(f.ty) THEN "hard" ELSE f.fault

(* What a file consists of, as far as it parses: the shapes of the syntax      *)
(* tree. A bare expression is the only argument of its statement, and a path   *)
(* is not empty.                                                               *)
Bases == {"String", "Text", "Ulid", "Uuid", "Instant", "Duration", "I32", "I64", "F32", "F64",
          "Bool", "Map", "Json", "Ref", "Named", "Vector"}
Faults == {"none", "soft", "hard"}
Names == Seq([w : STRING, cap : Caps])
Types == [opt : BOOLEAN, list : BOOLEAN, base : Bases, of : Names]
Fields == [kw : STRING, name : STRING, ty : Types, deco : SUBSET STRING, fault : Faults]
Relations == [name : STRING, many : BOOLEAN, target : Names, via : Seq(STRING) \ {<<>>}]
Statements ==
    {st \in [key : STRING, call : STRING, args : Seq([label : STRING, kind : STRING, n : Int])] :
        st.call = Empty => Len(st.args) = 1}
Items ==
    [kind : {"schema", "enum"}, name : Names, version : Nat, head : Faults, tail : Faults,
     fields : Seq(Fields), rels : Seq(Relations), ctx : Seq(Statements), policy : BOOLEAN]
SourceFiles == [ns : Seq(STRING), items : Seq(Items)]

ReadField(f) == [name |-> f.name, ty |-> f.ty, deco |-> f.deco]

(* The first error decides.                                                    *)
ItemFault(item) ==
    LET faults == SelectSeq(<<item.head>> \o [i \in DOMAIN item.fields |-> FieldFault(item.fields[i])]
                               \o <<item.tail>>,
                            LAMBDA f : f # "none")
    IN  IF faults = <<>> THEN "none" ELSE Head(faults)

ReadItem(item) ==
    [item EXCEPT !.fields = [i \in DOMAIN item.fields |-> ReadField(item.fields[i])]]

Faulty(file) == {i \in DOMAIN file.items : ItemFault(file.items[i]) # "none"}

(* Declarations are repeated until one does not parse. A soft error ends the   *)
(* repetition, and nothing asks whether the input was used up.                 *)
ParseFails(file) ==
    /\ Faulty(file) # {}
    /\ ItemFault(file.items[Min(Faulty(file))]) = "hard"

Decls(file) ==
    LET n == IF Faulty(file) = {} THEN Len(file.items) ELSE Min(Faulty(file)) - 1
    IN  [i \in 1 .. n |-> ReadItem(file.items[i])]

(* Where the schemas are among the declarations, in the order of the file.     *)
SchemasAt(file) == {i \in DOMAIN Decls(file) : Decls(file)[i].kind = "schema"}
Schemas(file) == {Decls(file)[i] : i \in SchemasAt(file)}
FieldsOf(s) == ToSet(s.fields)
Named(s, n) == {f \in FieldsOf(s) : f.name = n}
Having(s, d) == {f \in FieldsOf(s) : d \in f.deco}
Marked(s, d) == {i \in DOMAIN s.fields : d \in s.fields[i].deco}

----------------------------------------------------------------------------
(* The type checker: no schema twice, one @primary, and every type that is     *)
(* named is declared in the file. What its module comment promises beyond      *)
(* that, it does not look at.                                                  *)

RefsTo(s) == {f.ty.of : f \in {g \in FieldsOf(s) : g.ty.base \in {"Ref", "Named"}}}
DeclaredNames(file) == {d.name : d \in ToSet(Decls(file))}

CheckFails(file) ==
    \/ \E i, j \in SchemasAt(file) : i # j /\ Decls(file)[i].name = Decls(file)[j].name
    \/ \E s \in Schemas(file) :
          \/ ~ \E i \in DOMAIN s.fields : Marked(s, "primary") = {i}
          \/ ~ RefsTo(s) \subseteq DeclaredNames(file)

PrimaryKey(s) == s.fields[Min(Marked(s, "primary"))].name

----------------------------------------------------------------------------
(* SQL: what the table of a schema looks like, and the statements for it.      *)

(* Mutation of TableName: the capitals are made small and nothing else.        *)
TableNameFlat(s) == Lowered(s.name)

TableName(s) == Snake(s.name)

(* filled: an insert may leave the column out. PRIMARY KEY makes the column of *)
(* an optional field NOT NULL, and gives it no default.                        *)
Column(f) ==
    [name |-> f.name, type |-> SqlType(f.ty), filled |-> f.ty.opt /\ "primary" \notin f.deco,
     key |-> f.deco \cap {"primary", "unique"} # {}]

Convention(name, type) == [name |-> name, type |-> type, filled |-> TRUE, key |-> FALSE]

(* Mutation of NeedsBody: the column is added beside chunked fields, too, and  *)
(* whether the schema has one of its own is not asked.                         *)
NeedsBodyAlways(s) == TRUE

NeedsBody(s) == Named(s, "body") = {} /\ Having(s, "chunked") = {}

Unless(s, column) == IF Named(s, column.name) = {} THEN <<column>> ELSE <<>>
Columns(s) ==
    [i \in DOMAIN s.fields |-> Column(s.fields[i])]
      \o (IF NeedsBody(s) THEN <<Convention("body", "text")>> ELSE <<>>)
      \o Unless(s, Convention("created_at", "timestamptz"))
      \o Unless(s, Convention("tenant", "text"))
      \o Unless(s, Convention("metadata", "jsonb"))

ForeignKeys(s) ==
    {[column |-> f.name, type |-> SqlType(f.ty), table |-> Snake(f.ty.of)] :
        f \in {g \in FieldsOf(s) : g.ty.base = "Ref" /\ ~ g.ty.opt /\ ~ g.ty.list}}

(* The indexes of a table, which its columns and the full text of its body ask *)
(* for.                                                                        *)
Index(s, how, column) == [table |-> TableName(s), how |-> how, column |-> column]
Indexes(s) ==
    {Index(s, "btree", "tenant"), Index(s, "fts", "body")}
      \cup {Index(s, "btree", f.name) : f \in Having(s, "indexed")}
      \cup {Index(s, "fts", f.name) : f \in Having(s, "searchable")}

----------------------------------------------------------------------------
(* The context block. A statement is [key, call, args]: call names the call on *)
(* its right side, or is "" for a bare expression, which then is the only      *)
(* argument. An argument is [label, kind, n].                                  *)

(* The label of an argument is dropped, and a minus sign makes an operation of *)
(* a number, which is no literal any more.                                     *)
ReadArg(a) == [kind |-> IF a.n < 0 THEN "operation" ELSE a.kind, n |-> a.n]
Literals(st, kinds) == {i \in DOMAIN st.args : ReadArg(st.args[i]).kind \in kinds}

(* Arguments count by their position among those of a fitting kind.            *)
Nth(st, kinds, k, default) ==
    LET fitting == Literals(st, kinds)
        at == {i \in fitting : Cardinality({j \in fitting : j <= i}) = k}
    IN  IF at = {} THEN default ELSE st.args[Min(at)].n
NthInt(st, k, default) == Nth(st, {"int"}, k, default)
NthDuration(st, default) == Nth(st, {"int", "duration"}, 1, default)

Semantic(max, overlap) == [kind |-> "semantic", max |-> max, overlap |-> overlap]

(* Thirty days, in seconds.                                                    *)
Month == 2592000

IsInt(st) == st.call = Empty /\ Literals(st, {"int"}) # {}

(* The statements that set what their key says: a strategy that is not known,  *)
(* or no number where one is wanted, leaves what was set before.               *)
Sets(st) ==
    CASE st.key \in {"vector_dims", "default_top_k"} -> IsInt(st)
      [] st.key = "chunking" -> st.call \in {"semantic", "fixed"}
      [] st.key = "freshness_decay" -> st.call \in {"exponential", "linear"}
      [] OTHER -> FALSE
Given(s, key) == {i \in DOMAIN s.ctx : s.ctx[i].key = key /\ Sets(s.ctx[i])}

(* One after the other they overwrite the defaults, so the last one decides.   *)
Setting(s, key) == s.ctx[Max(Given(s, key))]

Chunking(st) ==
    CASE st.call = "semantic" -> Semantic(NthInt(st, 1, 512), NthInt(st, 2, 64))
      [] st.call = "fixed" -> [kind |-> "fixed", size |-> NthInt(st, 1, 1024)]

ContextMeta(s) ==
    [dims     |-> IF Given(s, "vector_dims") = {} THEN 64 ELSE Setting(s, "vector_dims").args[1].n,
     topK     |-> IF Given(s, "default_top_k") = {} THEN {} ELSE {Setting(s, "default_top_k").args[1].n},
     chunking |-> IF Given(s, "chunking") = {} THEN Semantic(512, 64) ELSE Chunking(Setting(s, "chunking")),
     decay    |-> IF Given(s, "freshness_decay") = {} THEN [kind |-> "none"]
                  ELSE LET st == Setting(s, "freshness_decay")
                       IN  [kind |-> st.call, secs |-> NthDuration(st, Month)]]

----------------------------------------------------------------------------
(* Metadata for the engine, and the plan of vector collections, which looks    *)
(* the dimensions up on its own and takes all that are given.                  *)

(* The relation of a name; of several of one name, the last.                   *)
RelationsAt(s, n) == {i \in DOMAIN s.rels : s.rels[i].name = n}
RelationNamed(s, n) == s.rels[Max(RelationsAt(s, n))]

RelationMeta(file, r) ==
    [many |-> r.many, target |-> <<Namespace(file), r.target>>, fk |-> r.via]

Meta(file, s) ==
    [name       |-> Qualified(file, s),
     version    |-> s.version,
     primary    |-> PrimaryKey(s),
     facets     |-> {f.name : f \in Having(s, "facet")},
     chunked    |-> {f.name : f \in Having(s, "chunked")},
     relations  |-> [n \in {r.name : r \in ToSet(s.rels)} |->
                        RelationMeta(file, RelationNamed(s, n))],
     context    |-> ContextMeta(s),
     table      |-> ToSnake(s.name),
     collection |-> <<ToSnake(s.name), "_v", s.version>>]

NeedsCollection(s) ==
    Having(s, "chunked") # {} \/ \E f \in FieldsOf(s) : f.ty.base = "Vector" /\ ~ f.ty.opt /\ ~ f.ty.list

VectorPlan(s) ==
    IF NeedsCollection(s)
    THEN {[name |-> <<Lowered(s.name), "_", s.version>>, version |-> s.version,
           dims |-> {s.ctx[i].args[1].n : i \in Given(s, "vector_dims")}]}
    ELSE {}

----------------------------------------------------------------------------
(* Record types of the SDKs. A shape is a set of [name, sort, opt].            *)

Sort(ty) ==
    IF ty.list THEN "list"
    ELSE CASE ty.base \in TextTypes \cup {"Ref"} -> "text"
           [] ty.base \in NumberTypes -> "number"
           [] ty.base = "Bool" -> "bool"
           [] ty.base = "Json" -> "any"
           [] ty.base = "Map" -> "map"
           [] ty.base = "Named" -> "enum"
           [] ty.base = "Vector" -> "missing"

Member(f) == [name |-> f.name, sort |-> Sort(f.ty), opt |-> f.ty.opt]
TenantMember == [name |-> "tenant", sort |-> "text", opt |-> FALSE]

IsVector(ty) == ty.base = "Vector" /\ ~ ty.list

(* A declared tenant has to be plain text.                                     *)
PlainText(ty) == ~ ty.opt /\ ~ ty.list /\ ty.base \in {"String", "Text"}

RustShape(s) == {Member(f) : f \in {g \in FieldsOf(s) : ~ (IsVector(g.ty) /\ ~ g.ty.opt)}} \cup {TenantMember}
TypescriptShape(s) == {Member(f) : f \in {g \in FieldsOf(s) : ~ IsVector(g.ty)}} \cup {TenantMember}
(* Mutation of PythonShape: no tenant is added.                                *)
PythonShapeBare(s) == {Member(f) : f \in {g \in FieldsOf(s) : ~ IsVector(g.ty)}}

PythonShape(s) == {Member(f) : f \in {g \in FieldsOf(s) : ~ IsVector(g.ty)}} \cup {TenantMember}

RustFails(s) == \E f \in Named(s, "tenant") : ~ PlainText(f.ty) /\ ~ (IsVector(f.ty) /\ ~ f.ty.opt)
Unrendered(ty) == ty.base = "Map" \/ (ty.base = "Vector" /\ ty.list)
TypescriptFails(s) ==
    \E f \in FieldsOf(s) : Unrendered(f.ty) \/ (f.name = "tenant" /\ ~ PlainText(f.ty) /\ ~ IsVector(f.ty))
PythonFails(s) ==
    \E f \in FieldsOf(s) : Unrendered(f.ty) \/ (f.name = "tenant" /\ ~ PlainText(f.ty) /\ ~ IsVector(f.ty))

(* The constants beside a record: a relation with the last step of its path.   *)
RustConstants(file, s) ==
    [namespace |-> Namespace(file), table |-> ToSnake(s.name), version |-> s.version,
     primary |-> PrimaryKey(s), relations |-> {<<r.name, r.target, Last(r.via)>> : r \in ToSet(s.rels)}]
TypescriptMeta(file, s) ==
    [namespace |-> Namespace(file), table |-> ToSnake(s.name), version |-> s.version,
     primary |-> PrimaryKey(s), relations |-> {<<r.name, r.target, Last(r.via)>> : r \in ToSet(s.rels)}]
PythonMeta(file, s) ==
    [namespace |-> Namespace(file), table |-> ToSnake(s.name), version |-> s.version,
     primary |-> PrimaryKey(s), relations |-> {<<r.name, r.target, Last(r.via)>> : r \in ToSet(s.rels)}]

----------------------------------------------------------------------------
(* The manifest of MCP servers: one server for each schema, with its tools.    *)

Kinds == {"search", "get", "list"}

ToolName(verb, slug) == Joined(<<Word(verb), slug>>)
SubToolName(verb, slug, w) == Joined(<<Word(verb), slug, Word(w)>>)

ManifestTools(s) ==
    LET slug == Snake(s.name)
    IN  {[name |-> ToolName(k, slug), kind |-> k, arg |-> Empty] : k \in Kinds}
        \cup {[name |-> SubToolName("list", slug, r.name), kind |-> "relation", arg |-> r.name] :
                 r \in {q \in ToSet(s.rels) : q.many}}
        \cup {[name |-> SubToolName("aggregate", slug, f.name), kind |-> "aggregate", arg |-> f.name] :
                 f \in Having(s, "facet")}

RecordSchema(s) ==
    [properties |-> {<<f.name, JsonType(f.ty)>> : f \in FieldsOf(s)},
     required   |-> {f.name : f \in {g \in FieldsOf(s) : ~ g.ty.opt}}]

(* Looked up apart from the metadata, too: the first that is given.            *)
DefaultTopK(s) ==
    IF Given(s, "default_top_k") = {} THEN 12 ELSE s.ctx[Min(Given(s, "default_top_k"))].args[1].n

FilterProperties(s) == {<<f.name, JsonType(f.ty)>> : f \in Having(s, "facet")}

Manifest(file, s) ==
    [server  |-> <<file.ns, s.name>>,
     uri     |-> <<file.ns, Lowered(s.name)>>,
     tools   |-> ManifestTools(s),
     filters |-> FilterProperties(s),
     topK    |-> DefaultTopK(s),
     record  |-> RecordSchema(s)]

----------------------------------------------------------------------------
(* compile with all targets: the first emitter that fails fails the whole.     *)

CodegenFails(file) ==
    \E s \in Schemas(file) :
       RustFails(s) \/ TypescriptFails(s) \/ PythonFails(s) \/ ~ s.policy

Compiles(file) == ~ ParseFails(file) /\ ~ CheckFails(file) /\ ~ CodegenFails(file)

=============================================================================
