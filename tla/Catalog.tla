------------------------------- MODULE Catalog -------------------------------
(***************************************************************************)
(* What the gateway serves and what it remembers: the schemas, tools and   *)
(* connector bindings of a running process (schema_registry.rs,            *)
(* mcp/registry.rs, registry.rs), the tables sealstack_schemas and         *)
(* sealstack_connectors (store.rs) they are rebuilt from at boot, and the  *)
(* two handlers that change both (rest.rs, server.rs).  Handlers run in    *)
(* parallel threads; the store call is their only await.                   *)
(***************************************************************************)
EXTENDS Naturals, Sequences, FiniteSets

CONSTANTS
    Handlers,       \* register_schema and register_connector calls in flight
    Names,          \* qualified schema names
    Versions,       \* schema versions
    MaxVersion,     \* the largest one the version column holds
    Relations,      \* their relations of kind `many`
    Facets,         \* their facets
    Schemas,        \* the schemas that are compiled or sent
    Slug,           \* the words of a name: it cut wherever a tool name has "_"
    Ids, Configs    \* connector bindings: ids and configurations

\* What a schema has a tool for.
Base == {"search", "get", "list"}
Kinds == Base \cup Relations \cup Facets

ASSUME CatalogAssumption ==
    /\ MaxVersion \in Nat /\ Versions \subseteq 0 .. MaxVersion
    /\ Schemas \subseteq [name : Names, version : Versions,
                          extras : SUBSET (Relations \cup Facets)]
    /\ DOMAIN Slug = Names \cup Relations \cup Facets

Bindings == [id : Ids, config : Configs]

VARIABLES
    compiled,       \* schemas in the compile directory
    schemas,        \* sealstack_schemas
    connectors,     \* sealstack_connectors
    up,             \* the gateway serves
    registry,       \* SchemaRegistry of the process
    tools,          \* ToolRegistry of the process
    bound,          \* ConnectorRegistry of the process
    call,           \* call[h]: the request handler h works on
    acked           \* history: schemas whose registration was answered 200

memory == <<up, registry, tools, bound>>
vars == <<compiled, schemas, connectors, memory, call, acked>>

NoCall == [pc |-> "idle"]
Calls == [pc : {"idle"}]
         \cup [pc : {"put_schema", "insert", "tools"}, schema : Schemas]
         \cup [pc : {"put_connector", "bind"}, binding : Bindings]

At(h, pc) == call[h].pc = pc
Goto(h, pc) == call' = [call EXCEPT ![h].pc = pc]
Leave(h) == call' = [call EXCEPT ![h] = NoCall]

OnePerName(S) == \A x, y \in S : x.name = y.name => x = y

Init ==
    /\ compiled \in SUBSET Schemas /\ OnePerName(compiled)
    /\ schemas = {} /\ connectors = {}
    /\ up = FALSE
    /\ registry = {} /\ tools = {} /\ bound = {}
    /\ call = [h \in Handlers |-> NoCall]
    /\ acked = {}

-----------------------------------------------------------------------------
(* The stores: maps, written by key. *)

\* put_schema: keyed on (name, version).
PutSchema(m) ==
    schemas' = {x \in schemas : x.name # m.name \/ x.version # m.version} \cup {m}

PutConnector(b) == connectors' = {x \in connectors : x.id # b.id} \cup {b}

\* Mutation: ORDER BY version ASC
LatestFirst(S) == {m \in S : \A x \in S : x.name = m.name => m.version <= x.version}

\* list_schemas: DISTINCT ON (name) ... ORDER BY version DESC
Latest(S) == {m \in S : \A x \in S : x.name = m.name => x.version <= m.version}

-----------------------------------------------------------------------------
(* The tools: a map from names to handlers, each for a schema and a kind.  *)
(* A name joins words by underscores, and dots of the schema's name are    *)
(* underscores in it: a.b.C and a_b.C have one slug, and the relation x of *)
(* a.b.C lists under the name of the schema a.b.C_x.                       *)

ToolsOf(m) == {m.name} \X (Base \cup m.extras)

\* The name of a tool, as its words.
ToolName(t) ==
    CASE t[2] \in Base -> <<t[2]>> \o Slug[t[1]]
      [] t[2] \in Relations -> <<"list">> \o Slug[t[1]] \o Slug[t[2]]
      [] OTHER -> <<"aggregate">> \o Slug[t[1]] \o Slug[t[2]]

Offered(t, T) == \E u \in T : ToolName(u) = ToolName(t)

OnePerTool(T) == \A t, u \in T : ToolName(t) = ToolName(u) => t = u

\* What may be left of T registered one after the other: of the tools of one
\* name the last, and which comes last is not known (maps are iterated).
LastOf(T) == {L \in SUBSET T : OnePerTool(L) /\ \A t \in T : Offered(t, L)}

\* T is registered over what is there.
Over(T, L) == {t \in tools : ~Offered(t, T)} \cup L

-----------------------------------------------------------------------------
(* Boot: the compile directory, the schema table over it, tools for what is *)
(* registered then, and the bindings.                                       *)

Serve(registered) ==
    /\ up' = TRUE
    /\ registry' = registered
    /\ tools' \in LastOf(UNION {ToolsOf(m) : m \in registered})
    /\ bound' \in SUBSET connectors   \* less those that cannot be built
    /\ UNCHANGED <<compiled, schemas, connectors, call, acked>>

Boot ==
    /\ ~up
    /\ Serve({m \in compiled : \A x \in schemas : x.name # m.name} \cup Latest(schemas))

\* The schema table cannot be read: an error is logged, and the gateway serves
\* what it compiled.
BootWithoutStore ==
    /\ ~up
    /\ Serve(compiled)

Crash ==
    /\ up
    /\ up' = FALSE
    /\ registry' = {} /\ tools' = {} /\ bound' = {}
    /\ call' = [h \in Handlers |-> NoCall]
    /\ UNCHANGED <<compiled, schemas, connectors, acked>>

-----------------------------------------------------------------------------
(* POST /v1/schemas *)

BeginSchema(h) ==
    /\ up /\ At(h, "idle")
    /\ \E m \in Schemas : call' = [call EXCEPT ![h] = [pc |-> "put_schema", schema |-> m]]
    /\ UNCHANGED <<compiled, schemas, connectors, memory, acked>>

SaveSchema(h) ==
    /\ At(h, "put_schema")
    /\ PutSchema(call[h].schema)
    /\ Goto(h, "insert")
    /\ UNCHANGED <<compiled, connectors, memory, acked>>

\* Mutation: the error of put_schema is logged only.
SaveSchemaFailsOnwards(h) ==
    /\ At(h, "put_schema")
    /\ PutSchema(call[h].schema) \/ UNCHANGED schemas
    /\ Goto(h, "insert")
    /\ UNCHANGED <<compiled, connectors, memory, acked>>

\* The statement fails, or its answer does not come back in time: the request
\* is over, with or without the row.
SaveSchemaFails(h) ==
    /\ At(h, "put_schema")
    /\ PutSchema(call[h].schema) \/ UNCHANGED schemas
    /\ Leave(h)
    /\ UNCHANGED <<compiled, connectors, memory, acked>>

\* Mutation: the entry is added beside the one it should replace.
InsertSchemaBeside(h) ==
    LET m == call[h].schema IN
    /\ At(h, "insert")
    /\ registry' = registry \cup {m}
    /\ Goto(h, "tools")
    /\ UNCHANGED <<compiled, schemas, connectors, up, tools, bound, acked>>

\* The last insert wins, whatever its version.
InsertSchema(h) ==
    LET m == call[h].schema IN
    /\ At(h, "insert")
    /\ registry' = {x \in registry : x.name # m.name} \cup {m}
    /\ Goto(h, "tools")
    /\ UNCHANGED <<compiled, schemas, connectors, up, tools, bound, acked>>

\* Mutation: the tools of a schema replace those it had.
RegisterToolsOnly(h) ==
    LET m == call[h].schema IN
    /\ At(h, "tools")
    /\ tools' = {t \in tools : t[1] # m.name} \cup ToolsOf(m)
    /\ acked' = acked \cup {<<m.name, m.version>>}
    /\ Leave(h)
    /\ UNCHANGED <<compiled, schemas, connectors, up, registry, bound>>

\* Tools are added and replaced, never taken away.
RegisterTools(h) ==
    LET m == call[h].schema IN
    /\ At(h, "tools")
    /\ \E L \in LastOf(ToolsOf(m)) : tools' = Over(ToolsOf(m), L)
    /\ acked' = acked \cup {<<m.name, m.version>>}
    /\ Leave(h)
    /\ UNCHANGED <<compiled, schemas, connectors, up, registry, bound>>

-----------------------------------------------------------------------------
(* POST /v1/connectors *)

BeginConnector(h) ==
    /\ up /\ At(h, "idle")
    /\ \E b \in Bindings : call' = [call EXCEPT ![h] = [pc |-> "put_connector", binding |-> b]]
    /\ UNCHANGED <<compiled, schemas, connectors, memory, acked>>

SaveConnector(h) ==
    /\ At(h, "put_connector")
    /\ PutConnector(call[h].binding)
    /\ Goto(h, "bind")
    /\ UNCHANGED <<compiled, schemas, memory, acked>>

SaveConnectorFails(h) ==
    /\ At(h, "put_connector")
    /\ PutConnector(call[h].binding) \/ UNCHANGED connectors
    /\ Leave(h)
    /\ UNCHANGED <<compiled, schemas, memory, acked>>

BindConnector(h) ==
    LET b == call[h].binding IN
    /\ At(h, "bind")
    /\ bound' = {x \in bound : x.id # b.id} \cup {b}
    /\ Leave(h)
    /\ UNCHANGED <<compiled, schemas, connectors, up, registry, tools, acked>>

-----------------------------------------------------------------------------
HandlerStep(h) ==
    \/ BeginSchema(h) \/ SaveSchema(h) \/ SaveSchemaFails(h)
    \/ InsertSchema(h) \/ RegisterTools(h)
    \/ BeginConnector(h) \/ SaveConnector(h) \/ SaveConnectorFails(h) \/ BindConnector(h)

Next == Boot \/ BootWithoutStore \/ Crash \/ \E h \in Handlers : HandlerStep(h)

Spec == Init /\ [][Next]_vars

-----------------------------------------------------------------------------
TypeOK ==
    /\ compiled \subseteq Schemas /\ schemas \subseteq Schemas
    /\ registry \subseteq Schemas /\ OnePerName(registry)
    /\ connectors \subseteq Bindings /\ bound \subseteq Bindings
    /\ up \in BOOLEAN
    /\ tools \subseteq Names \X Kinds /\ OnePerTool(tools)
    /\ call \in [Handlers -> Calls]
    /\ acked \subseteq Names \X Versions

Stored(name, version) == \E x \in schemas : x.name = name /\ x.version = version

(***************************************************************************)
(* Whatever the process serves can be had again: each schema registered    *)
(* over the API has its row, each binding too, although requests fail or   *)
(* are dropped half way and overtake each other.                           *)
(***************************************************************************)
ServedIsStored ==
    /\ \A m \in registry : m \in compiled \/ Stored(m.name, m.version)
    /\ \A b \in bound : \E c \in connectors : c.id = b.id

\* Under the name of each tool of m there is a tool.
Served(m, T) == \A t \in ToolsOf(m) : Offered(t, T)

(***************************************************************************)
(* As soon as no registration is under way, each tool of a registered      *)
(* schema is offered, whichever of several registrations of one name came  *)
(* last: the tool itself, unless another tool has its very name.  And no   *)
(* tool, replaced or left behind, leads to a schema that is not there.     *)
(***************************************************************************)
AllServed ==
    /\ (\A h \in Handlers : ~At(h, "tools")) => \A m \in registry : Served(m, tools)
    /\ \A t \in tools : \E m \in registry : m.name = t[1]

(***************************************************************************)
(* A restart that can read the store serves every schema whose             *)
(* registration was answered, in that version or a higher one, and offers  *)
(* all its tools (where another tool has the name of one, either of them), *)
(* also when the compile directory holds another version.                  *)
(***************************************************************************)
RestartRestores ==
    [][Boot => \A a \in acked :
                  \E m \in registry' : /\ m.name = a[1] /\ m.version >= a[2]
                                       /\ Served(m, tools')]_vars

-----------------------------------------------------------------------------
(* What a comment says, or a caller expects, and the code does not do.     *)

(***************************************************************************)
(* The registry in memory is what a restarting gateway rehydrates, when no *)
(* registration is under way and every row stems from one that succeeded.  *)
(***************************************************************************)
MemoryMatchesStore ==
    /\ \A h \in Handlers : At(h, "idle")
    /\ \A x \in schemas : <<x.name, x.version>> \in acked
    => registry \subseteq Latest(schemas) \cup compiled

(***************************************************************************)
(* A registered schema has its own tools when no registration is under     *)
(* way: the name of a tool belongs to one schema.                          *)
(***************************************************************************)
ToolsAreOwn ==
    (\A h \in Handlers : ~At(h, "tools")) => \A m \in registry : ToolsOf(m) \subseteq tools
=============================================================================
