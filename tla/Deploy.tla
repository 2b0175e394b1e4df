--------------------------------- MODULE Deploy --------------------------------
(* `sealstack schema apply`: the command line compiles a file, registers each *)
(* schema with the gateway and has the DDL of the whole file run after each;  *)
(* the gateway serves MCP tools of what is registered, over tables in         *)
(* Postgres. Requests fail, and answers get lost. Later applies bring other   *)
(* files, new versions and repetitions.                                       *)
EXTENDS Csl

CONSTANTS
    Files,          \* source files that may be applied
    MaxApplies,     \* bound on the applies that are started
    SqlReserved     \* column and table names that Postgres reserves

(* Postgres reserves no name of a column that the compiler adds.              *)
ASSUME DeployAssumption ==
    /\ Files \subseteq SourceFiles
    /\ MaxApplies \in Nat
    /\ SqlReserved \cap {"body", "created_at", "tenant", "metadata"} = {}

VARIABLES
    cli,            \* the apply that is under way
    applies,        \* applies started so far
    metas,          \* the gateway's schema registry: qualified name -> metadata
    tools,          \* its tool registry: tool name -> handler
    tables,         \* Postgres: table -> [columns, by]; by: the schema that made it
    indexes,        \* Postgres: [table, how, column]
    source,         \* history: qualified name -> [schema, ok]: what was registered
                    \* last under it, and whether that apply has reported success
    reported        \* history: files whose last apply has reported success

vars == <<cli, applies, metas, tools, tables, indexes, source, reported>>

Idle == [pc |-> "idle"]

Init ==
    /\ cli = Idle
    /\ applies = 0
    /\ metas = <<>>
    /\ tools = <<>>
    /\ tables = <<>>
    /\ indexes = {}
    /\ source = <<>>
    /\ reported = {}

----------------------------------------------------------------------------
(* Postgres. A database is [ok, tables, indexes]; ok is FALSE when a          *)
(* statement of the transaction has failed.                                   *)

ColumnsOf(db, table) == ToSet(db.tables[table].columns)
HasColumn(db, table, name, types) ==
    \E c \in ColumnsOf(db, table) : c.name = name /\ c.type \in types

(* A foreign key wants an existing column that is unique, of a type that can  *)
(* be compared.                                                               *)
Referable(columns, type) == \E c \in columns : c.name = "id" /\ c.key /\ c.type = type

(* A function with one more entry, or one entry replaced.                     *)
Put(f, k, v) == [x \in DOMAIN f \cup {k} |-> IF x = k THEN v ELSE f[x]]

Legal(names, table) == names \cap SqlReserved = {} /\ table \notin {Word(n) : n \in SqlReserved}

Distinct(columns) == \A i, j \in DOMAIN columns : columns[i].name = columns[j].name => i = j

CreateRuns(db, s) ==
    /\ Distinct(Columns(s))
    /\ \A fk \in ForeignKeys(s) :
          Referable(IF fk.table = TableName(s) THEN ToSet(Columns(s))
                    ELSE IF fk.table \in DOMAIN db.tables THEN ColumnsOf(db, fk.table)
                    ELSE {}, fk.type)

(* to_tsvector takes text and jsonb.                                          *)
IndexRuns(db, index) ==
    \E c \in ColumnsOf(db, index.table) :
        c.name = index.column /\ (index.how = "fts" => c.type \in {"text", "jsonb"})

Failed(db) == [db EXCEPT !.ok = FALSE]

(* IF NOT EXISTS: a table or an index that is there is left as it is, and so  *)
(* is what the statement says about its columns.                              *)
RunCreate(db, s) ==
    IF \/ ~ Legal({c.name : c \in ToSet(Columns(s))}, TableName(s))
       \/ TableName(s) \notin DOMAIN db.tables /\ ~ CreateRuns(db, s)
    THEN Failed(db)
    ELSE IF TableName(s) \in DOMAIN db.tables THEN db
    ELSE [db EXCEPT !.tables = Put(@, TableName(s), [columns |-> Columns(s), by |-> s])]

RunIndexes(db, s) ==
    IF \A index \in Indexes(s) \ db.indexes : IndexRuns(db, index)
    THEN [db EXCEPT !.indexes = @ \cup Indexes(s)]
    ELSE Failed(db)

(* The statements of one schema: the first that fails fails what follows.     *)
RunSchema(db, s) ==
    LET made == RunCreate(db, s)
    IN  IF made.ok THEN RunIndexes(made, s) ELSE made

(* Store::apply_schema_ddl: all statements in one transaction.                *)
Database == [ok |-> TRUE, tables |-> tables, indexes |-> indexes]

(* The database behind each declaration of the file.                          *)
Executed(file) ==
    LET after[n \in 0 .. Len(Decls(file))] ==
            IF n = 0 THEN Database
            ELSE IF n \in SchemasAt(file) /\ after[n - 1].ok
            THEN RunSchema(after[n - 1], Decls(file)[n])
            ELSE after[n - 1]
    IN  after
AfterDdl(file) == Executed(file)[Len(Decls(file))]

ApplyDdl(file) ==
    LET db == AfterDdl(file)
    IN  IF db.ok THEN tables' = db.tables /\ indexes' = db.indexes
                 ELSE UNCHANGED <<tables, indexes>>

----------------------------------------------------------------------------
(* The gateway.                                                               *)

(* All tools are of one server, "sealstack"; their names spell the schema as  *)
(* it is written, behind its namespace.                                       *)
Slug(q) == Joined([i \in DOMAIN q[1] |-> Word(q[1][i])] \o <<q[2]>>)

SchemaTools(meta) ==
    LET slug == Slug(meta.name)
    IN  {[name |-> ToolName(k, slug), kind |-> k, arg |-> Empty, schema |-> meta.name] : k \in Kinds}
        \cup {[name |-> SubToolName("list", slug, r), kind |-> "relation", arg |-> r, schema |-> meta.name] :
                 r \in {n \in DOMAIN meta.relations : meta.relations[n].many}}
        \cup {[name |-> SubToolName("aggregate", slug, f), kind |-> "aggregate", arg |-> f, schema |-> meta.name] :
                 f \in meta.facets}

(* register_schema: the registry, then the tools. A tool of the same name is  *)
(* replaced, none is taken away.                                              *)
RegisterSchema(meta) ==
    LET fresh == SchemaTools(meta)
        names == {t.name : t \in fresh}
    IN  /\ metas' = Put(metas, meta.name, meta)
        /\ tools' = [n \in names \cup DOMAIN tools |->
                        IF n \in names THEN CHOOSE t \in fresh : t.name = n ELSE tools[n]]

(* What the queries of the engine need of a table in order to run, and its    *)
(* rows in order to be decoded.                                               *)
FetchRuns(db, table) ==
    /\ table \in DOMAIN db.tables
    /\ HasColumn(db, table, "id", {"text"})
    /\ HasColumn(db, table, "title", {"text"})
    /\ HasColumn(db, table, "body", {"text"})
    /\ HasColumn(db, table, "created_at", {"timestamptz"})
    /\ HasColumn(db, table, "metadata", {"jsonb"})

Bm25Runs(db, meta) ==
    \/ meta.chunked = {}
    \/ /\ \A f \in meta.chunked : HasColumn(db, meta.table, f, {"text"})
       /\ HasColumn(db, meta.table, "tenant", {"text"})

(* list_relation: the path of `via` goes into the statement as it is, and     *)
(* only a name without a dot passes is_safe_ident.                            *)
RelationRuns(db, meta, r) ==
    LET rel == meta.relations[r]
    IN  /\ rel.target \in DOMAIN metas
        /\ Len(rel.fk) = 1
        /\ FetchRuns(db, metas[rel.target].table)
        /\ HasColumn(db, metas[rel.target].table, rel.fk[1], {"text"})

(* The key of a bucket is read as text.                                       *)
AggregateRuns(db, meta, facet) ==
    /\ facet \in meta.facets
    /\ meta.table \in DOMAIN db.tables
    /\ HasColumn(db, meta.table, facet, {"text"})

Runs(db, tool) ==
    LET meta == metas[tool.schema]
    IN  CASE tool.kind = "search" -> FetchRuns(db, meta.table) /\ Bm25Runs(db, meta)
          [] tool.kind \in {"get", "list"} -> FetchRuns(db, meta.table)
          [] tool.kind = "relation" -> tool.arg \in DOMAIN meta.relations /\ RelationRuns(db, meta, tool.arg)
          [] tool.kind = "aggregate" -> AggregateRuns(db, meta, tool.arg)

(* upsert_row: six columns, and ON CONFLICT (id).                             *)
Written == {"id", "title", "body", "created_at", "tenant", "metadata"}
InsertRuns(db, table) ==
    /\ FetchRuns(db, table)
    /\ HasColumn(db, table, "tenant", {"text"})
    /\ \E c \in ColumnsOf(db, table) : c.name = "id" /\ c.key
    /\ \A c \in ColumnsOf(db, table) : c.name \in Written \/ c.filled

----------------------------------------------------------------------------
(* The command line.                                                          *)

CurrentSchema == Decls(cli.file)[cli.at]

(* Compile, and give up when the file does not compile or has no schema.      *)
Apply(file) ==
    /\ cli = Idle
    /\ applies < MaxApplies
    /\ applies' = applies + 1
    /\ IF Compiles(file) /\ SchemasAt(file) # {}
       THEN cli' = [pc |-> "register", file |-> file, at |-> Min(SchemasAt(file))]
       ELSE UNCHANGED cli
    /\ reported' = reported \ {file}
    /\ UNCHANGED <<metas, tools, tables, indexes, source>>

GiveUp == cli' = Idle

Registering ==
    /\ cli.pc = "register"
    /\ RegisterSchema(Meta(cli.file, CurrentSchema))
    /\ source' = Put(source, Qualified(cli.file, CurrentSchema), [schema |-> CurrentSchema, ok |-> FALSE])
    /\ UNCHANGED <<applies, tables, indexes, reported>>

Register == Registering /\ cli' = [cli EXCEPT !.pc = "ddl"]
RegisterUnanswered == Registering /\ GiveUp
RegisterFails ==
    /\ cli.pc = "register"
    /\ GiveUp
    /\ UNCHANGED <<applies, metas, tools, tables, indexes, source, reported>>

(* After the last schema the command reports all of them as applied.          *)
AppliedNames == {Qualified(cli.file, s) : s \in Schemas(cli.file)}
Later == {i \in SchemasAt(cli.file) : i > cli.at}

DdlApplied ==
    /\ cli.pc = "ddl"
    /\ AfterDdl(cli.file).ok
    /\ ApplyDdl(cli.file)
    /\ IF Later # {}
       THEN /\ cli' = [cli EXCEPT !.pc = "register", !.at = Min(Later)]
            /\ UNCHANGED <<source, reported>>
       ELSE /\ cli' = Idle
            /\ source' = [q \in DOMAIN source |->
                             IF q \in AppliedNames THEN [source[q] EXCEPT !.ok = TRUE] ELSE source[q]]
            /\ reported' = reported \cup {cli.file}
    /\ UNCHANGED <<applies, metas, tools>>

DdlRejected ==
    /\ cli.pc = "ddl"
    /\ ~ AfterDdl(cli.file).ok
    /\ ApplyDdl(cli.file)
    /\ GiveUp
    /\ UNCHANGED <<applies, metas, tools, source, reported>>

DdlUnanswered ==
    /\ cli.pc = "ddl"
    /\ ApplyDdl(cli.file) \/ UNCHANGED <<tables, indexes>>
    /\ GiveUp
    /\ UNCHANGED <<applies, metas, tools, source, reported>>

Next ==
    \/ \E file \in Files : Apply(file)
    \/ Register \/ RegisterUnanswered \/ RegisterFails
    \/ DdlApplied \/ DdlRejected \/ DdlUnanswered

Spec == Init /\ [][Next]_vars

----------------------------------------------------------------------------
(* What the source says about its tables and tools.                           *)

Sql(s, n) == {SqlType(f.ty) : f \in Named(s, n)}
Fetchable(s) ==
    /\ Sql(s, "id") = {"text"} /\ Sql(s, "title") = {"text"}
    /\ Sql(s, "body") \subseteq {"text"}
    /\ Sql(s, "created_at") \subseteq {"timestamptz"}
    /\ Sql(s, "metadata") \subseteq {"jsonb"}

KeyedId(s) == \E f \in Named(s, "id") : SqlType(f.ty) = "text" /\ f.deco \cap {"primary", "unique"} # {}

Insertable(s) ==
    /\ Fetchable(s) /\ KeyedId(s)
    /\ Sql(s, "tenant") \subseteq {"text"}
    /\ \A f \in FieldsOf(s) : f.name \in Written \/ (f.ty.opt /\ "primary" \notin f.deco)

Searched(s) ==
    /\ Fetchable(s)
    /\ Having(s, "chunked") # {} =>
          /\ Sql(s, "tenant") \subseteq {"text"}
          /\ \A f \in Having(s, "chunked") : SqlType(f.ty) = "text"

(* The table of a registered schema was made by this schema, not by another   *)
(* version or another schema, and the apply that registered it has succeeded. *)
OwnTable(q) ==
    /\ q \in DOMAIN source /\ source[q].ok
    /\ metas[q].table \in DOMAIN tables
    /\ tables[metas[q].table].by = source[q].schema

(* A column that reads as text, declared or added.                            *)
ReadsText(s, n) ==
    \/ Sql(s, n) = {"text"}
    \/ Sql(s, n) = {} /\ n \in {"body", "tenant"}

(* The relation declared last under the name.                                 *)
Walked(q, r) ==
    LET s == source[q].schema
    IN  \E i \in DOMAIN s.rels :
            /\ s.rels[i].name = r /\ \A j \in DOMAIN s.rels : j > i => s.rels[j].name # r
            /\ Len(s.rels[i].via) = 1
            /\ LET target == <<q[1], s.rels[i].target>>
               IN  /\ target \in DOMAIN source
                   /\ Fetchable(source[target].schema)
                   /\ ReadsText(source[target].schema, s.rels[i].via[1])

Decided(q, tool) ==
    tool.kind = "relation" /\ tool.arg \in DOMAIN metas[q].relations =>
        LET target == metas[q].relations[tool.arg].target
        IN  target \in DOMAIN source => OwnTable(target)

Works(q, tool) ==
    LET s == source[q].schema
    IN  CASE tool.kind = "search" -> Searched(s)
          [] tool.kind \in {"get", "list"} -> Fetchable(s)
          [] tool.kind = "relation" -> tool.arg \in DOMAIN metas[q].relations /\ Walked(q, tool.arg)
          [] tool.kind = "aggregate" ->
                \E f \in Having(s, "facet") : f.name = tool.arg /\ SqlType(f.ty) = "text"

(* A name that DDL and metadata spell alike.                                  *)
SpelledAlike(name) == \A i \in DOMAIN name : i > 1 => name[i].cap # "other"

(* No table of the file is there yet, and no two of its names give one.       *)
Fresh(file) ==
    LET names == DeclaredNames(file)
    IN  /\ {Snake(n) : n \in names} \cap DOMAIN tables = {}
        /\ \A m, n \in names : Snake(m) = Snake(n) => m = n

(* Every schema the source requires a reference to is declared before, or is  *)
(* the schema itself, and has a text key that is called id; what is searched  *)
(* can be; the body is declared, or nothing is chunked; no name is taken.     *)
DeployableAt(file, i) ==
    LET s == Decls(file)[i]
    IN  /\ Legal({f.name : f \in FieldsOf(s)}, TableName(s))
        /\ Distinct(s.fields)
        /\ \A f \in FieldsOf(s) :
              /\ f.ty.base = "Ref" /\ ~ f.ty.opt /\ ~ f.ty.list =>
                    \E j \in SchemasAt(file) :
                        j <= i /\ Decls(file)[j].name = f.ty.of /\ KeyedId(Decls(file)[j])
              /\ "searchable" \in f.deco \/ f.name = "body" => SqlType(f.ty) \in {"text", "jsonb"}
        /\ Named(s, "body") = {} => Having(s, "chunked") = {}
Deployable(file) == \A i \in SchemasAt(file) : DeployableAt(file, i)

----------------------------------------------------------------------------
(* Properties.                                                                *)

(* The DDL of a file that meets a database without its tables is accepted     *)
(* exactly when the source is deployable, DDL that was accepted once is       *)
(* accepted ever after, and a rejected file leaves no table behind            *)
(* (emit_schema of codegen/sql.rs against Store::apply_schema_ddl).           *)
DdlOutcome ==
    /\ cli.pc = "ddl" =>
          /\ Fresh(cli.file) => (AfterDdl(cli.file).ok <=> Deployable(cli.file))
          /\ (\A s \in Schemas(cli.file) :
                TableName(s) \in DOMAIN tables /\ tables[TableName(s)].by = s) => AfterDdl(cli.file).ok
    /\ \A t \in DOMAIN tables : [table |-> t, how |-> "fts", column |-> "body"] \in indexes

(* After an apply that reported success every schema of the file has its      *)
(* table, unless a capital outside ASCII makes DDL and metadata spell its     *)
(* name differently; and where the schema made the table itself, ingestion's  *)
(* insert and each tool's query run exactly when the fields of the source     *)
(* allow it, an optional primary key counting as required: the metadata, the  *)
(* DDL, the tool registry and the SQL of the engine fit together              *)
(* (emit_schemas_meta, emit_sql, register_schema_tools, engine.rs and         *)
(* ingest.rs).                                                                *)
ServedRuns ==
    \A q \in DOMAIN source :
        /\ source[q].ok /\ SpelledAlike(source[q].schema.name) => metas[q].table \in DOMAIN tables
        /\ OwnTable(q) =>
              /\ InsertRuns(Database, metas[q].table) <=> Insertable(source[q].schema)
              /\ \A n \in DOMAIN tools :
                    tools[n].schema = q /\ Decided(q, tools[n]) =>
                        (Runs(Database, tools[n]) <=> Works(q, tools[n]))

(* What the context block says: a setting that is given once, by literals; a  *)
(* call whose arguments, if not all, are the first ones, in their order.      *)
SetOnce(s, key, call) ==
    \E i \in DOMAIN s.ctx :
        /\ \A j \in DOMAIN s.ctx : s.ctx[j].key = key <=> j = i
        /\ s.ctx[i].call = call
        /\ \A a \in ToSet(s.ctx[i].args) : a.kind = "int" /\ a.n >= 0
Labelled(st, labels) ==
    /\ Len(st.args) <= Len(labels)
    /\ \A k \in DOMAIN st.args : st.args[k].label = labels[k]
(* A relation whose name no other has.                                        *)
Single(s, n) == \E i \in DOMAIN s.rels : RelationsAt(s, n) = {i}
ArgNamed(st, label, default) ==
    IF \E a \in ToSet(st.args) : a.label = label
    THEN (CHOOSE a \in ToSet(st.args) : a.label = label).n ELSE default

Agrees(file, s) ==
    LET meta == Meta(file, s)
        manifest == Manifest(file, s)
        constants == RustConstants(file, s)
    IN  /\ TypescriptShape(s) = PythonShape(s)
        /\ TypescriptShape(s) = {m \in RustShape(s) : m.sort # "missing"}
        /\ \A m \in TypescriptShape(s) : \E c \in ToSet(Columns(s)) :
              /\ c.name = m.name
              /\ Named(s, m.name) # {} /\ m.name # PrimaryKey(s) => c.filled = m.opt
        /\ {c.name : c \in {d \in ToSet(Columns(s)) : ~ d.filled}}
              = manifest.record.required \cup {PrimaryKey(s)}
        /\ constants = TypescriptMeta(file, s) /\ constants = PythonMeta(file, s)
        /\ <<constants.namespace, s.name>> = meta.name /\ constants.table = meta.table
        /\ constants.version = meta.version /\ constants.primary = meta.primary
        /\ \A r \in constants.relations :
              Single(s, r[1]) => r[2] = meta.relations[r[1]].target[2] /\ Last(meta.relations[r[1]].fk) = r[3]
        /\ (\A r \in ToSet(s.rels) : Single(s, r.name)) =>
              {<<t.kind, t.arg>> : t \in manifest.tools} = {<<t.kind, t.arg>> : t \in SchemaTools(meta)}
        /\ {f[1] : f \in manifest.filters} = meta.facets
        /\ \A p \in VectorPlan(s) :
              /\ p.version = meta.version
              /\ SetOnce(s, "vector_dims", Empty) => p.dims = {meta.context.dims}
        /\ SetOnce(s, "default_top_k", Empty) => meta.context.topK = {manifest.topK}
        /\ \A st \in ToSet(s.ctx) :
              st.key = "chunking" /\ SetOnce(s, "chunking", "semantic") /\ Labelled(st, <<"max_tokens", "overlap">>) =>
                  meta.context.chunking =
                     Semantic(ArgNamed(st, "max_tokens", 512), ArgNamed(st, "overlap", 64))

(* What one compilation says in several places agrees: the record types of    *)
(* the three SDKs with each other, with the columns and with the manifest's   *)
(* record schema, but that a primary key is NOT NULL whatever they say; the   *)
(* constants beside them with the metadata; the manifest's tools with those   *)
(* the gateway makes; the dimensions and the version of the vector plan,      *)
(* though not its name, and the manifest's defaults with the metadata, and    *)
(* the metadata with the labels of the context block (codegen/rust.rs,        *)
(* typescript.rs, python.rs, mcp.rs, mod.rs, sql.rs, and call_arg of          *)
(* parser.rs).                                                                *)
ArtifactsAgree == cli # Idle => \A s \in Schemas(cli.file) : Agrees(cli.file, s)

(* An apply that has reported success serves every schema the file declares:  *)
(* the parser returns an error for input that does not match the grammar      *)
(* (parser.rs:50), and the command reports what it has applied.               *)
AppliedServesAll ==
    \A file \in reported : \A item \in ToSet(file.items) :
        item.kind = "schema" => Qualified(file, item) \in DOMAIN metas

(* What a reader of the source expects, and the code does not do: a schema    *)
(* that an apply has reported has its table, however its name is spelled; and *)
(* the metadata names a collection of the vector plan.                        *)
TableIsThere == \A q \in DOMAIN source : source[q].ok => metas[q].table \in DOMAIN tables
CollectionIsPlanned ==
    cli # Idle => \A s \in Schemas(cli.file) : \A p \in VectorPlan(s) :
                      p.name = Meta(cli.file, s).collection
=============================================================================
