---------------------------- MODULE CatalogProofs ----------------------------
(***************************************************************************)
(* Proofs about Catalog: type correctness, ServedIsStored, AllServed and   *)
(* RestartRestores, for any handlers, schemas, tools and bindings.         *)
(*                                                                         *)
(* A handler between its store call and its insert is what makes the       *)
(* invariants inductive: it holds a schema or binding that has its row     *)
(* already (Underway), and it answers for the tools of the schema it has   *)
(* inserted (ToolsOwed), under names that never go away (OverKeeps).  That an answered registration has its row        *)
(* (Answered) is what a restart relies on.                                 *)
(***************************************************************************)
EXTENDS Catalog, FiniteSetTheorems, WellFoundedInduction, TLAPS

\* A handler behind its store call holds what the store has.
Underway ==
    \A h \in Handlers :
        /\ At(h, "insert") \/ At(h, "tools") =>
              Stored(call[h].schema.name, call[h].schema.version)
        /\ At(h, "bind") => \E c \in connectors : c.id = call[h].binding.id

Known(name) == \E m \in registry : m.name = name

\* Tools that are missing are those a handler of this process is about to
\* register, and the schema they are of is registered.
ToolsOwed ==
    /\ \A m \in registry :
        \/ Served(m, tools)
        \/ \E h \in Handlers : At(h, "tools") /\ call[h].schema = m
    /\ \A t \in tools : Known(t[1])
    /\ \A h \in Handlers : At(h, "tools") => Known(call[h].schema.name)
    /\ ~up => \A h \in Handlers : At(h, "idle")

Answered == \A a \in acked : Stored(a[1], a[2])

\* One compiled schema for a name; one row for a name and a version.
OneRow ==
    /\ OnePerName(compiled)
    /\ \A x, y \in schemas : x.name = y.name /\ x.version = y.version => x = y

Inv == TypeOK /\ OneRow /\ Underway /\ ServedIsStored /\ ToolsOwed /\ Answered

-----------------------------------------------------------------------------
LEMMA SchemaFacts ==
  ASSUME NEW m \in Schemas
  PROVE  /\ m.name \in Names /\ m.version \in Versions
         /\ ToolsOf(m) \subseteq Names \X Kinds
         /\ \A t \in ToolsOf(m) : t[1] = m.name
<1>1. m \in [name : Names, version : Versions, extras : SUBSET (Relations \cup Facets)]
  BY CatalogAssumption
<1> QED BY <1>1 DEF ToolsOf, Kinds

-----------------------------------------------------------------------------
(* The tools. *)

\* Of tools registered in some order one stays for each name.
LEMMA LastOfKeeps ==
  ASSUME NEW T, NEW L \in LastOf(T)
  PROVE  /\ L \subseteq T /\ OnePerTool(L)
         /\ \A t \in T : Offered(t, L)
  BY DEF LastOf

\* Registering takes no name away, and leaves one tool for each.
LEMMA OverKeeps ==
  ASSUME NEW T, NEW L \in LastOf(T), OnePerTool(tools)
  PROVE  /\ Over(T, L) \subseteq tools \cup T /\ OnePerTool(Over(T, L))
         /\ \A t : Offered(t, tools) \/ t \in T => Offered(t, Over(T, L))
<1>1. L \subseteq T /\ OnePerTool(L) /\ \A t \in T : Offered(t, L)
  BY LastOfKeeps
<1>2. Over(T, L) \subseteq tools \cup T
  BY <1>1 DEF Over
<1>3. OnePerTool(Over(T, L))
  <2> SUFFICES ASSUME NEW t \in Over(T, L), NEW u \in Over(T, L), ToolName(t) = ToolName(u)
               PROVE  t = u
    BY DEF OnePerTool
  <2>1. CASE t \in L /\ u \in L
    BY <1>1, <2>1 DEF OnePerTool
  <2>2. CASE t \notin L /\ u \notin L
    BY <2>2 DEF Over, OnePerTool
  <2>3. CASE t \in L /\ u \notin L
    BY <1>1, <2>3 DEF Over, Offered
  <2>4. CASE t \notin L /\ u \in L
    BY <1>1, <2>4 DEF Over, Offered
  <2> QED BY <2>1, <2>2, <2>3, <2>4
<1>4. ASSUME NEW t, Offered(t, tools) \/ t \in T
      PROVE  Offered(t, Over(T, L))
  <2>1. CASE t \in T
    BY <1>1, <2>1 DEF Offered, Over
  <2>2. CASE Offered(t, tools)
    <3>1. PICK u \in tools : ToolName(u) = ToolName(t)
      BY <2>2 DEF Offered
    <3>2. CASE Offered(u, T)
      <4>1. PICK v \in T : ToolName(v) = ToolName(u)
        BY <3>2 DEF Offered
      <4>2. PICK w \in L : ToolName(w) = ToolName(v)
        BY <1>1, <4>1 DEF Offered
      <4> QED BY <3>1, <4>1, <4>2 DEF Offered, Over
    <3>3. CASE ~ Offered(u, T)
      BY <3>1, <3>3 DEF Over, Offered
    <3> QED BY <3>2, <3>3
  <2> QED BY <1>4, <2>1, <2>2
<1> QED BY <1>2, <1>3, <1>4

-----------------------------------------------------------------------------
(* The stores. *)

\* put_schema writes the row of its argument and takes no other row away.
LEMMA PutSchemaKeeps ==
  ASSUME NEW m \in Schemas, schemas \subseteq Schemas, PutSchema(m)
  PROVE  /\ schemas' \subseteq Schemas
         /\ Stored(m.name, m.version)'
         /\ \A n, v : Stored(n, v) => Stored(n, v)'
  BY DEF PutSchema, Stored

LEMMA PutSchemaOneRow ==
  ASSUME NEW m \in Schemas, OneRow, PutSchema(m), UNCHANGED compiled
  PROVE  OneRow'
  BY DEF PutSchema, OneRow, OnePerName

LEMMA PutConnectorKeeps ==
  ASSUME NEW b \in Bindings, connectors \subseteq Bindings, PutConnector(b)
  PROVE  /\ connectors' \subseteq Bindings
         /\ \E c \in connectors' : c.id = b.id
         /\ \A i : (\E c \in connectors : c.id = i) => \E c \in connectors' : c.id = i
  BY DEF PutConnector

\* Of every stored name there is a latest row: above it lie the fewest versions.
LEMMA LatestExists ==
  ASSUME schemas \subseteq Schemas, NEW x \in schemas
  PROVE  \E m \in Latest(schemas) : m.name = x.name /\ m.version >= x.version
<1> DEFINE V == 0 .. MaxVersion
           Same == {z \in schemas : z.name = x.name}
           Above(y) == {v \in V : y.version < v}
           T == {Above(y) : y \in Same}
<1>1. \A y \in schemas : y.version \in V
  BY CatalogAssumption, SchemaFacts
<1>2. IsFiniteSet(V)
  BY FS_Interval, CatalogAssumption
<1>3. T \subseteq FiniteSubsetsOf(V) /\ T # {}
  <2>1. \A y \in Same : Above(y) \in FiniteSubsetsOf(V)
    <3> SUFFICES ASSUME NEW y \in Same PROVE Above(y) \in FiniteSubsetsOf(V)
      OBVIOUS
    <3>1. Above(y) \subseteq V
      OBVIOUS
    <3>2. IsFiniteSet(Above(y))
      BY <1>2, <3>1, FS_Subset
    <3> QED BY <3>1, <3>2 DEF FiniteSubsetsOf
  <2>2. x \in Same
    OBVIOUS
  <2> HIDE DEF Above, Same
  <2> QED BY <2>1, <2>2
<1>4. PICK D \in T : \A E \in T : ~ (<<E, D>> \in StrictSubsetOrdering(V))
  BY <1>2, <1>3, FS_StrictSubsetOrderingWellFounded, WFMin
<1>5. PICK m \in Same : D = Above(m)
  BY <1>4
<1>6. \A y \in Same : y.version <= m.version
  <2> SUFFICES ASSUME NEW y \in Same, ~ (y.version <= m.version)
               PROVE  FALSE
    OBVIOUS
  <2>1. m.version < y.version
    BY <1>1, CatalogAssumption
  <2>2. Above(y) \subseteq Above(m)
    BY <2>1, <1>1, CatalogAssumption
  <2>3. y.version \in Above(m) /\ y.version \notin Above(y)
    BY <2>1, <1>1, CatalogAssumption
  <2>4. Above(y) \in T /\ Above(m) \subseteq V
    OBVIOUS
  <2> HIDE DEF Above, T
  <2>5. <<Above(y), Above(m)>> \in StrictSubsetOrdering(V)
    BY <2>2, <2>3, <2>4 DEF StrictSubsetOrdering
  <2> QED BY <2>4, <2>5, <1>4, <1>5
<1>7. m \in schemas /\ m.name = x.name /\ x \in Same
  BY <1>5
<1>8. \A y \in schemas : y.name = m.name => y.version <= m.version
  BY <1>6, <1>7
<1>9. m.version >= x.version
  BY <1>1, <1>7, <1>8, CatalogAssumption
<1> QED BY <1>7, <1>8, <1>9 DEF Latest

\* One row of a name is the latest.
LEMMA LatestIsUnique ==
  ASSUME schemas \subseteq Schemas, NEW x \in Latest(schemas), NEW y \in Latest(schemas),
         x.name = y.name
  PROVE  x.version = y.version
<1>1. x.version \in Int /\ y.version \in Int
  <2>1. x \in Schemas /\ y \in Schemas
    BY DEF Latest
  <2>2. x.version \in Versions /\ y.version \in Versions
    BY <2>1, SchemaFacts
  <2>3. Versions \subseteq Int
    BY CatalogAssumption
  <2> QED BY <2>2, <2>3
<1>2. y.version <= x.version /\ x.version <= y.version
  BY DEF Latest
<1> QED BY <1>1, <1>2
\* What a handler holds, by where it is.
LEMMA CallFacts ==
  ASSUME TypeOK, NEW h \in Handlers
  PROVE  /\ At(h, "put_schema") \/ At(h, "insert") \/ At(h, "tools") =>
               call[h] \in [pc : {"put_schema", "insert", "tools"}, schema : Schemas]
         /\ At(h, "put_connector") \/ At(h, "bind") =>
               call[h] \in [pc : {"put_connector", "bind"}, binding : Bindings]
<1>1. call[h] \in Calls
  BY DEF TypeOK
<1> QED BY <1>1 DEF At, Calls

-----------------------------------------------------------------------------
LEMMA InitInv ==
  Init => Inv
<1> SUFFICES ASSUME Init PROVE Inv
  OBVIOUS
<1> USE DEF Init
<1>1. TypeOK
  <2>1. compiled \subseteq Schemas
    OBVIOUS
  <2>2. call \in [Handlers -> Calls]
    BY DEF Calls, NoCall
  <2> QED BY <2>1, <2>2 DEF TypeOK, OnePerName, OnePerTool
<1>2. Underway
  BY DEF Underway, At, NoCall
<1>3. ToolsOwed
  BY DEF ToolsOwed, At, NoCall
<1> QED BY <1>1, <1>2, <1>3 DEF Inv, OneRow, ServedIsStored, Answered

\* A boot serves one schema of a name, each compiled or stored, with its tools.
LEMMA ServeInv ==
  ASSUME Inv, NEW S, S \subseteq compiled \cup schemas, OnePerName(S), ~up, Serve(S)
  PROVE  Inv'
<1> USE DEF Serve
<1>0. /\ tools' \subseteq UNION {ToolsOf(m) : m \in S} /\ OnePerTool(tools')
      /\ \A m \in S : \A t \in ToolsOf(m) : Offered(t, tools')
  BY LastOfKeeps
<1>1. TypeOK'
  <2>1. registry' \subseteq Schemas /\ OnePerName(registry')
    BY DEF Inv, TypeOK
  <2>2. tools' \subseteq Names \X Kinds /\ OnePerTool(tools')
    <3>1. \A m \in S : ToolsOf(m) \subseteq Names \X Kinds
      BY <2>1, SchemaFacts
    <3> QED BY <1>0, <3>1
  <2>3. bound' \subseteq Bindings /\ up' \in BOOLEAN
    BY DEF Inv, TypeOK
  <2> QED BY <2>1, <2>2, <2>3 DEF Inv, TypeOK
<1>2. Underway' /\ OneRow' /\ Answered'
  BY DEF Inv, Underway, OneRow, Answered, At, Stored
<1>3. ServedIsStored'
  <2>1. \A m \in S : m \in compiled \/ Stored(m.name, m.version)
    BY DEF Stored
  <2> QED BY <2>1 DEF ServedIsStored, Stored
<1>4. ToolsOwed'
  <2>1. \A m \in registry' : Served(m, tools)'
    BY <1>0 DEF Served
  <2>2. ASSUME NEW t \in tools' PROVE Known(t[1])'
    <3>1. PICK m \in S : t \in ToolsOf(m)
      BY <1>0
    <3> QED BY <1>1, <3>1, SchemaFacts DEF Known, TypeOK
  <2>3. \A h \in Handlers : ~ At(h, "tools")' /\ up'
    BY DEF Inv, ToolsOwed, At
  <2> QED BY <2>1, <2>2, <2>3 DEF ToolsOwed
<1> QED BY <1>1, <1>2, <1>3, <1>4 DEF Inv

LEMMA BootInv ==
  ASSUME Inv, Boot
  PROVE  Inv'
<1>0. PICK S : S = {m \in compiled : \A x \in schemas : x.name # m.name} \cup Latest(schemas)
  OBVIOUS
<1> USE <1>0
<1>1. S \subseteq compiled \cup schemas
  BY DEF Latest
<1>2. OnePerName(S)
  <2> SUFFICES ASSUME NEW x \in S, NEW y \in S, x.name = y.name PROVE x = y
    BY DEF OnePerName
  <2>1. CASE x \in Latest(schemas) /\ y \in Latest(schemas)
    <3>1. x.version = y.version
      BY <2>1, LatestIsUnique DEF Inv, TypeOK
    <3>2. x \in schemas /\ y \in schemas
      BY <2>1 DEF Latest
    <3> QED BY <3>1, <3>2 DEF Inv, OneRow
  <2>2. CASE ~ (x \in Latest(schemas) \/ y \in Latest(schemas))
    BY <2>2 DEF Inv, OneRow, OnePerName
  <2>3. CASE ~ (x \in Latest(schemas) <=> y \in Latest(schemas))
    BY <2>3 DEF Latest
  <2> QED BY <2>1, <2>2, <2>3
<1>3. Serve(S) /\ ~up
  BY DEF Boot
<1> QED BY <1>1, <1>2, <1>3, ServeInv

-----------------------------------------------------------------------------
(* The handlers.                                                           *)

\* A step of a handler around its store call, where no row is lost.
LEMMA StoreStepInv ==
  ASSUME Inv, NEW h \in Handlers, NEW c \in Calls,
         c.pc # "tools", ~ At(h, "tools"), up,
         c.pc = "insert" => Stored(c.schema.name, c.schema.version)',
         c.pc = "bind" => \E b \in connectors' : b.id = c.binding.id,
         call' = [call EXCEPT ![h] = c],
         UNCHANGED <<compiled, memory, acked>>,
         schemas' \subseteq Schemas, OneRow',
         \A n, v : Stored(n, v) => Stored(n, v)',
         connectors' \subseteq Bindings,
         \A i : (\E b \in connectors : b.id = i) => \E b \in connectors' : b.id = i
  PROVE  Inv'
<1> USE DEF memory
<1>1. \A g \in Handlers : call'[g] = IF g = h THEN c ELSE call[g]
  BY DEF Inv, TypeOK
<1>2. TypeOK'
  BY DEF Inv, TypeOK
<1>3. Underway'
  <2> SUFFICES ASSUME NEW g \in Handlers
               PROVE  /\ At(g, "insert")' \/ At(g, "tools")' =>
                            Stored(call[g].schema.name, call[g].schema.version)'
                      /\ At(g, "bind")' => \E b \in connectors' : b.id = call'[g].binding.id
    BY DEF Underway
  <2>1. CASE g = h
    BY <1>1, <2>1 DEF At
  <2>2. CASE g # h
    <3>1. call'[g] = call[g]
      BY <1>1, <2>2
    <3>2. /\ At(g, "insert") \/ At(g, "tools") =>
                Stored(call[g].schema.name, call[g].schema.version)
          /\ At(g, "bind") => \E b \in connectors : b.id = call[g].binding.id
      BY DEF Inv, Underway
    <3>3. At(g, "insert") \/ At(g, "tools") =>
             Stored(call[g].schema.name, call[g].schema.version)'
      <4>1. Stored(call[g].schema.name, call[g].schema.version) =>
               \E x \in schemas' : /\ x.name = call[g].schema.name
                                  /\ x.version = call[g].schema.version
        BY DEF Stored
      <4> QED BY <3>1, <3>2, <4>1 DEF Stored
    <3> QED BY <3>1, <3>2, <3>3 DEF At
  <2> QED BY <2>1, <2>2
<1>4. ServedIsStored'
  <2>1. \A m \in registry : m \in compiled \/ Stored(m.name, m.version)
    BY DEF Inv, ServedIsStored
  <2>2. \A m \in registry' : m \in compiled' \/ Stored(m.name, m.version)'
    BY <2>1
  <2> QED BY <2>2 DEF Inv, ServedIsStored, Stored
<1>5. ToolsOwed'
  <2>1. \A g \in Handlers : At(g, "tools")' <=> At(g, "tools")
    BY <1>1 DEF At
  <2>2. \A g \in Handlers : At(g, "tools") => call'[g] = call[g]
    BY <1>1
  <2>3. \A m \in registry : Served(m, tools)' <=> Served(m, tools)
    BY DEF Served
  <2>4. \A n : Known(n)' <=> Known(n)
    BY DEF Known
  <2> QED BY <2>1, <2>2, <2>3, <2>4 DEF Inv, ToolsOwed
<1>6. Answered'
  BY DEF Inv, Answered, Stored
<1> QED BY <1>2, <1>3, <1>4, <1>5, <1>6 DEF Inv

LEMMA BeginInv ==
  ASSUME Inv, NEW h \in Handlers, BeginSchema(h) \/ BeginConnector(h)
  PROVE  Inv'
<1>1. PICK c \in Calls : /\ call' = [call EXCEPT ![h] = c]
                         /\ c.pc \in {"put_schema", "put_connector"}
  <2>1. CASE BeginSchema(h)
    <3>1. PICK m \in Schemas : call' = [call EXCEPT ![h] = [pc |-> "put_schema", schema |-> m]]
      BY <2>1 DEF BeginSchema
    <3>2. [pc |-> "put_schema", schema |-> m] \in Calls
      BY DEF Calls
    <3> QED BY <3>1, <3>2
  <2>2. CASE BeginConnector(h)
    <3>1. PICK b \in Bindings :
             call' = [call EXCEPT ![h] = [pc |-> "put_connector", binding |-> b]]
      BY <2>2 DEF BeginConnector
    <3>2. [pc |-> "put_connector", binding |-> b] \in Calls
      BY DEF Calls
    <3> QED BY <3>1, <3>2
  <2> QED BY <2>1, <2>2
<1>2. /\ ~ At(h, "tools") /\ up
      /\ UNCHANGED <<compiled, schemas, connectors, memory, acked>>
  BY DEF BeginSchema, BeginConnector, At
<1>3. OneRow'
  BY <1>2 DEF Inv, OneRow, OnePerName
<1>4. \A n, v : Stored(n, v) => Stored(n, v)'
  BY <1>2 DEF Stored
<1> QED BY <1>1, <1>2, <1>3, <1>4, StoreStepInv DEF Inv, TypeOK

\* The row of a failed statement may be there.
LEMMA SaveFailsInv ==
  ASSUME Inv, NEW h \in Handlers, SaveSchemaFails(h) \/ SaveConnectorFails(h)
  PROVE  Inv'
<1>1. /\ call' = [call EXCEPT ![h] = NoCall] /\ NoCall \in Calls
      /\ NoCall.pc = "idle" /\ ~ At(h, "tools") /\ ~ At(h, "idle")
      /\ UNCHANGED <<compiled, memory, acked>>
  BY DEF SaveSchemaFails, SaveConnectorFails, Leave, At, NoCall, Calls
<1>4. up
  BY <1>1 DEF Inv, ToolsOwed
<1>2. /\ schemas' \subseteq Schemas /\ OneRow'
      /\ \A n, v : Stored(n, v) => Stored(n, v)'
  <2>1. CASE SaveSchemaFails(h) /\ PutSchema(call[h].schema)
    <3>1. PICK m \in Schemas : m = call[h].schema
      BY <2>1, CallFacts DEF Inv, SaveSchemaFails
    <3>2. PutSchema(m)
      BY <2>1, <3>1
    <3> QED BY <1>1, <3>2, PutSchemaKeeps, PutSchemaOneRow DEF Inv, TypeOK
  <2>2. CASE UNCHANGED schemas
    BY <1>1, <2>2 DEF Inv, TypeOK, OneRow, OnePerName, Stored
  <2> QED BY <2>1, <2>2 DEF SaveSchemaFails, SaveConnectorFails
<1>3. /\ connectors' \subseteq Bindings
      /\ \A i : (\E b \in connectors : b.id = i) => \E b \in connectors' : b.id = i
  <2>1. CASE SaveConnectorFails(h) /\ PutConnector(call[h].binding)
    <3>1. PICK b \in Bindings : b = call[h].binding
      BY <2>1, CallFacts DEF Inv, SaveConnectorFails
    <3>2. PutConnector(b)
      BY <2>1, <3>1
    <3> QED BY <3>2, PutConnectorKeeps DEF Inv, TypeOK
  <2>2. CASE UNCHANGED connectors
    BY <2>2 DEF Inv, TypeOK
  <2> QED BY <2>1, <2>2 DEF SaveSchemaFails, SaveConnectorFails
<1> QED BY <1>1, <1>2, <1>3, <1>4, StoreStepInv

LEMMA SaveInv ==
  ASSUME Inv, NEW h \in Handlers, SaveSchema(h) \/ SaveConnector(h)
  PROVE  Inv'
<1>1. CASE SaveSchema(h)
  <2>1. call[h] \in [pc : {"put_schema", "insert", "tools"}, schema : Schemas]
    BY <1>1, CallFacts DEF Inv, SaveSchema
  <2>2. PICK m \in Schemas : m = call[h].schema
    BY <2>1
  <2>3. [call[h] EXCEPT !.pc = "insert"] \in Calls
    BY <2>1 DEF Calls
  <2>4. PICK c \in Calls : c = [call[h] EXCEPT !.pc = "insert"]
    BY <2>3
  <2>5. c.pc = "insert" /\ c.schema = m
    BY <2>1, <2>2, <2>4
  <2>6. call' = [call EXCEPT ![h] = c] /\ ~ At(h, "tools") /\ up
    BY <1>1, <2>4 DEF SaveSchema, Goto, At, Inv, ToolsOwed
  <2>7. UNCHANGED <<compiled, memory, acked, connectors>> /\ PutSchema(m)
    BY <1>1, <2>2 DEF SaveSchema
  <2>8. /\ schemas' \subseteq Schemas
        /\ Stored(m.name, m.version)'
        /\ \A n, v : Stored(n, v) => Stored(n, v)'
    BY <2>7, PutSchemaKeeps DEF Inv, TypeOK
  <2>9. OneRow'
    BY <2>7, PutSchemaOneRow DEF Inv
  <2>10. /\ connectors' \subseteq Bindings
         /\ \A i : (\E b \in connectors : b.id = i) => \E b \in connectors' : b.id = i
    BY <2>7 DEF Inv, TypeOK
  <2> QED BY <2>5, <2>6, <2>7, <2>8, <2>9, <2>10, StoreStepInv
<1>2. CASE SaveConnector(h)
  <2>1. call[h] \in [pc : {"put_connector", "bind"}, binding : Bindings]
    BY <1>2, CallFacts DEF Inv, SaveConnector
  <2>2. PICK b \in Bindings : b = call[h].binding
    BY <2>1
  <2>3. [call[h] EXCEPT !.pc = "bind"] \in Calls
    BY <2>1 DEF Calls
  <2>4. PICK c \in Calls : c = [call[h] EXCEPT !.pc = "bind"]
    BY <2>3
  <2>5. c.pc = "bind" /\ c.binding = b
    BY <2>1, <2>2, <2>4
  <2>6. call' = [call EXCEPT ![h] = c] /\ ~ At(h, "tools") /\ up
    BY <1>2, <2>4 DEF SaveConnector, Goto, At, Inv, ToolsOwed
  <2>7. UNCHANGED <<compiled, memory, acked, schemas>> /\ PutConnector(b)
    BY <1>2, <2>2 DEF SaveConnector
  <2>8. /\ connectors' \subseteq Bindings
        /\ \E x \in connectors' : x.id = b.id
        /\ \A i : (\E x \in connectors : x.id = i) => \E x \in connectors' : x.id = i
    BY <2>7, PutConnectorKeeps DEF Inv, TypeOK
  <2>9. schemas' \subseteq Schemas /\ OneRow'
    BY <2>7 DEF Inv, TypeOK, OneRow, OnePerName
  <2>10. \A n, v : Stored(n, v) => Stored(n, v)'
    BY <2>7 DEF Stored
  <2> QED BY <2>5, <2>6, <2>7, <2>8, <2>9, <2>10, StoreStepInv
<1> QED BY <1>1, <1>2

\* The schema that enters the registry has its row; its tools are owed.
LEMMA InsertInv ==
  ASSUME Inv, NEW h \in Handlers, InsertSchema(h)
  PROVE  Inv'
<1> DEFINE m == call[h].schema
<1>1. /\ At(h, "insert") /\ registry' = {x \in registry : x.name # m.name} \cup {m}
      /\ call' = [call EXCEPT ![h].pc = "tools"]
      /\ UNCHANGED <<compiled, schemas, connectors, up, tools, bound, acked>>
  BY DEF InsertSchema, Goto
<1>2. call[h] \in [pc : {"put_schema", "insert", "tools"}, schema : Schemas]
  BY <1>1, CallFacts DEF Inv
<1>3. Stored(m.name, m.version)
  BY <1>1 DEF Inv, Underway
<1>4. /\ call'[h].pc = "tools" /\ call'[h].schema = m /\ call'[h] \in Calls
      /\ \A g \in Handlers \ {h} : call'[g] = call[g]
      /\ call' \in [Handlers -> Calls]
  BY <1>1, <1>2 DEF Inv, TypeOK, Calls
<1>5. TypeOK'
  <2>1. registry' \subseteq Schemas /\ OnePerName(registry')
    BY <1>1, <1>2 DEF Inv, TypeOK, OnePerName
  <2> QED BY <1>1, <1>4, <2>1 DEF Inv, TypeOK
<1>6. Underway'
  BY <1>1, <1>3, <1>4 DEF Inv, Underway, At, Stored
<1>7. ServedIsStored'
  BY <1>1, <1>3 DEF Inv, ServedIsStored, Stored
<1>8. ToolsOwed'
  <2>1. ASSUME NEW x \in registry'
        PROVE  \/ Served(x, tools)
               \/ \E g \in Handlers : At(g, "tools")' /\ call'[g].schema = x
    <3>1. CASE x = m
      BY <1>4, <3>1 DEF At
    <3>2. CASE x \in registry /\ ~ Served(x, tools)
      <4>1. PICK g \in Handlers : At(g, "tools") /\ call[g].schema = x
        BY <3>2 DEF Inv, ToolsOwed
      <4>2. g # h
        BY <1>1, <4>1 DEF At
      <4> QED BY <1>4, <4>1, <4>2 DEF At
    <3> QED BY <1>1, <3>1, <3>2
  <2>2. \A n : Known(n) \/ n = m.name => Known(n)'
    BY <1>1 DEF Known
  <2>3. \A t \in tools' : Known(t[1])'
    BY <1>1, <2>2 DEF Inv, ToolsOwed
  <2>4. ASSUME NEW g \in Handlers, At(g, "tools")'
        PROVE  Known(call[g].schema.name)'
    <3>1. CASE g = h
      BY <1>4, <2>2, <3>1
    <3>2. CASE g # h
      BY <1>4, <2>2, <2>4, <3>2 DEF At, Inv, ToolsOwed
    <3> QED BY <3>1, <3>2
  <2>5. up'
    BY <1>1 DEF At, Inv, ToolsOwed
  <2>6. \A x \in registry' : Served(x, tools)' <=> Served(x, tools)
    BY <1>1 DEF Served
  <2> QED BY <2>1, <2>3, <2>4, <2>5, <2>6 DEF ToolsOwed
<1>9. OneRow' /\ Answered'
  BY <1>1 DEF Inv, OneRow, OnePerName, Answered, Stored
<1> QED BY <1>5, <1>6, <1>7, <1>8, <1>9 DEF Inv

\* The tools owed are registered before the answer.
LEMMA RegisterInv ==
  ASSUME Inv, NEW h \in Handlers, RegisterTools(h)
  PROVE  Inv'
<1>1. PICK m \in Schemas : m = call[h].schema
  BY CallFacts DEF Inv, RegisterTools
<1>0. PICK L \in LastOf(ToolsOf(m)) : tools' = Over(ToolsOf(m), L)
  BY <1>1 DEF RegisterTools
<1>2. /\ At(h, "tools")
      /\ tools' \subseteq tools \cup ToolsOf(m) /\ OnePerTool(tools')
      /\ \A t : Offered(t, tools) \/ t \in ToolsOf(m) => Offered(t, tools')
  BY <1>0, OverKeeps DEF RegisterTools, Inv, TypeOK
<1>10. /\ acked' = acked \cup {<<m.name, m.version>>}
      /\ call' = [call EXCEPT ![h] = NoCall]
      /\ UNCHANGED <<compiled, schemas, connectors, up, registry, bound>>
  BY <1>1 DEF RegisterTools, Leave
<1>3. Stored(m.name, m.version)
  BY <1>1, <1>2 DEF Inv, Underway
<1>4. /\ call'[h].pc = "idle"
      /\ \A g \in Handlers \ {h} : call'[g] = call[g]
      /\ call' \in [Handlers -> Calls]
  BY <1>10 DEF Inv, TypeOK, Calls, NoCall
<1>5. TypeOK'
  <2>1. tools' \subseteq Names \X Kinds
    BY <1>2, SchemaFacts DEF Inv, TypeOK
  <2>2. acked' \subseteq Names \X Versions
    BY <1>10, SchemaFacts DEF Inv, TypeOK
  <2> QED BY <1>2, <1>10, <1>4, <2>1, <2>2 DEF Inv, TypeOK
<1>6. Underway'
  BY <1>10, <1>4 DEF Inv, Underway, At, Stored
<1>7. ToolsOwed'
  <2>1. ASSUME NEW x \in registry
        PROVE  \/ Served(x, tools')
               \/ \E g \in Handlers : At(g, "tools")' /\ call'[g].schema = x
    <3>1. CASE Served(x, tools)
      BY <1>2, <3>1 DEF Served
    <3>2. CASE ~ Served(x, tools)
      <4>1. PICK g \in Handlers : At(g, "tools") /\ call[g].schema = x
        BY <3>2 DEF Inv, ToolsOwed
      <4>2. CASE g = h
        BY <1>1, <1>2, <4>1, <4>2 DEF Served
      <4>3. CASE g # h
        BY <1>4, <4>1, <4>3 DEF At
      <4> QED BY <4>2, <4>3
    <3> QED BY <3>1, <3>2
  <2>2. \A n : Known(n) <=> Known(n)'
    BY <1>10 DEF Known
  <2>3. Known(m.name)
    BY <1>1, <1>2 DEF Inv, ToolsOwed
  <2>4. \A t \in tools' : Known(t[1])
    BY <1>1, <1>2, <2>3, SchemaFacts DEF Inv, ToolsOwed
  <2>5. ASSUME NEW g \in Handlers, At(g, "tools")'
        PROVE  Known(call[g].schema.name)'
    BY <1>4, <2>2, <2>5 DEF At, Inv, ToolsOwed
  <2>6. up'
    BY <1>2, <1>10 DEF At, Inv, ToolsOwed
  <2>7. \A x \in registry' : Served(x, tools)' <=> Served(x, tools')
    BY DEF Served
  <2> QED BY <1>10, <2>1, <2>2, <2>4, <2>5, <2>6, <2>7 DEF ToolsOwed
<1>8. OneRow' /\ ServedIsStored'
  BY <1>10 DEF Inv, OneRow, OnePerName, ServedIsStored, Stored
<1>9. Answered'
  <2>1. \A a \in acked' : Stored(a[1], a[2])
    BY <1>10, <1>3 DEF Inv, Answered
  <2> QED BY <1>10, <2>1 DEF Answered, Stored
<1> QED BY <1>5, <1>6, <1>7, <1>8, <1>9 DEF Inv

LEMMA BindInv ==
  ASSUME Inv, NEW h \in Handlers, BindConnector(h)
  PROVE  Inv'
<1>1. PICK b \in Bindings : b = call[h].binding
  BY CallFacts DEF Inv, BindConnector
<1>2. /\ At(h, "bind") /\ bound' = {x \in bound : x.id # b.id} \cup {b}
      /\ call' = [call EXCEPT ![h] = NoCall]
      /\ UNCHANGED <<compiled, schemas, connectors, up, registry, tools, acked>>
  BY <1>1 DEF BindConnector, Leave
<1>3. \E c \in connectors : c.id = b.id
  BY <1>1, <1>2 DEF Inv, Underway
<1>4. /\ call'[h].pc = "idle"
      /\ \A g \in Handlers \ {h} : call'[g] = call[g]
      /\ call' \in [Handlers -> Calls]
  BY <1>2 DEF Inv, TypeOK, Calls, NoCall
<1>5. TypeOK'
  <2>1. bound' \subseteq Bindings
    BY <1>2 DEF Inv, TypeOK
  <2> QED BY <1>2, <1>4, <2>1 DEF Inv, TypeOK
<1>6. Underway'
  BY <1>2, <1>4 DEF Inv, Underway, At, Stored
<1>7. ServedIsStored'
  BY <1>2, <1>3 DEF Inv, ServedIsStored, Stored
<1>8. ToolsOwed'
  <2>1. ASSUME NEW x \in registry, ~ Served(x, tools)
        PROVE  \E g \in Handlers : At(g, "tools")' /\ call'[g].schema = x
    <3>1. PICK g \in Handlers : At(g, "tools") /\ call[g].schema = x
      BY <2>1 DEF Inv, ToolsOwed
    <3>2. g # h
      BY <1>2, <3>1 DEF At
    <3> QED BY <1>4, <3>1, <3>2 DEF At
  <2>2. \A n : Known(n) <=> Known(n)'
    BY <1>2 DEF Known
  <2>3. ASSUME NEW g \in Handlers, At(g, "tools")'
        PROVE  Known(call[g].schema.name)'
    BY <1>4, <2>2, <2>3 DEF At, Inv, ToolsOwed
  <2>4. up'
    BY <1>2 DEF At, Inv, ToolsOwed
  <2>5. \A x \in registry' : Served(x, tools)' <=> Served(x, tools)
    BY <1>2 DEF Served
  <2> QED BY <1>2, <2>1, <2>2, <2>3, <2>4, <2>5 DEF Inv, ToolsOwed
<1>9. OneRow' /\ Answered'
  BY <1>2 DEF Inv, OneRow, OnePerName, Answered, Stored
<1> QED BY <1>5, <1>6, <1>7, <1>8, <1>9 DEF Inv

LEMMA CrashInv ==
  ASSUME Inv, Crash
  PROVE  Inv'
<1> USE DEF Crash
<1>1. call' \in [Handlers -> Calls] /\ \A h \in Handlers : call'[h].pc = "idle"
  BY DEF Calls, NoCall
<1>2. TypeOK'
  BY <1>1 DEF Inv, TypeOK, OnePerName, OnePerTool
<1>3. Underway'
  BY <1>1 DEF Underway, At
<1>4. OneRow' /\ ServedIsStored' /\ Answered'
  BY DEF Inv, OneRow, OnePerName, ServedIsStored, Answered, Stored
<1>5. ToolsOwed'
  BY <1>1 DEF ToolsOwed, At
<1> QED BY <1>2, <1>3, <1>4, <1>5 DEF Inv

-----------------------------------------------------------------------------
LEMMA StepInv ==
  Inv /\ [Next]_vars => Inv'
<1> SUFFICES ASSUME Inv, [Next]_vars PROVE Inv'
  OBVIOUS
<1>1. CASE Boot
  BY <1>1, BootInv
<1>2. CASE BootWithoutStore
  <2>1. Serve(compiled) /\ ~up
    BY <1>2 DEF BootWithoutStore
  <2>2. OnePerName(compiled)
    BY DEF Inv, OneRow
  <2>3. PICK S : S = compiled
    OBVIOUS
  <2> QED BY <2>1, <2>2, <2>3, ServeInv
<1>3. CASE Crash
  BY <1>3, CrashInv
<1>4. ASSUME NEW h \in Handlers, HandlerStep(h) PROVE Inv'
  <2>1. CASE BeginSchema(h) \/ BeginConnector(h)
    BY <2>1, BeginInv
  <2>2. CASE SaveSchema(h) \/ SaveConnector(h)
    BY <2>2, SaveInv
  <2>3. CASE SaveSchemaFails(h) \/ SaveConnectorFails(h)
    BY <2>3, SaveFailsInv
  <2>4. CASE InsertSchema(h)
    BY <2>4, InsertInv
  <2>5. CASE RegisterTools(h)
    BY <2>5, RegisterInv
  <2>6. CASE BindConnector(h)
    BY <2>6, BindInv
  <2> QED BY <1>4, <2>1, <2>2, <2>3, <2>4, <2>5, <2>6 DEF HandlerStep
<1>5. CASE UNCHANGED vars
  BY <1>5 DEF vars, memory, Inv, TypeOK, OneRow, OnePerName, OnePerTool, Underway, At,
              ServedIsStored, ToolsOwed, Served, Known, Answered, Stored
<1> QED BY <1>1, <1>2, <1>3, <1>4, <1>5 DEF Next

LEMMA Invariance == Spec => []Inv
  BY InitInv, StepInv, PTL DEF Spec

\* Every variable keeps its type; one schema of a name is registered.
THEOREM TypeCorrect == Spec => []TypeOK
<1>1. Inv => TypeOK
  BY DEF Inv
<1> QED BY <1>1, Invariance, PTL

\* Whatever is served has its row, at every step of every handler.
THEOREM WhatIsServedIsStored == Spec => []ServedIsStored
<1>1. Inv => ServedIsStored
  BY DEF Inv
<1> QED BY <1>1, Invariance, PTL

\* Between registrations each tool of a registered schema is offered, itself
\* or one that has its name; no tool ever leads to a schema that is not there.
THEOREM NoToolNameIsMissing == Spec => []AllServed
<1>1. Inv => AllServed
  BY DEF Inv, AllServed, ToolsOwed, Known
<1> QED BY <1>1, Invariance, PTL

\* A restart brings back what was answered, in that version or a later one,
\* and offers each of its tools, itself or one that has its name.
THEOREM RestartIsLossless == Spec => RestartRestores
<1>1. ASSUME Inv, Boot, NEW a \in acked
      PROVE  \E m \in registry' : /\ m.name = a[1] /\ m.version >= a[2]
                                  /\ Served(m, tools')
  <2>1. PICK x \in schemas : x.name = a[1] /\ x.version = a[2]
    BY <1>1 DEF Inv, Answered, Stored
  <2>2. PICK m \in Latest(schemas) : m.name = x.name /\ m.version >= x.version
    BY <1>1, LatestExists DEF Inv, TypeOK
  <2>3. m \in registry'
    BY <1>1 DEF Boot, Serve
  <2>4. PICK T : T = UNION {ToolsOf(y) : y \in registry'}
    OBVIOUS
  <2>5. tools' \in LastOf(T)
    BY <1>1, <2>4 DEF Boot, Serve
  <2>6. Served(m, tools')
    BY <2>3, <2>4, <2>5, LastOfKeeps DEF Served
  <2> QED BY <2>1, <2>2, <2>3, <2>6
<1>2. Inv => [Boot => \A a \in acked :
                \E m \in registry' : /\ m.name = a[1] /\ m.version >= a[2]
                                     /\ Served(m, tools')]_vars
  BY <1>1
<1> QED BY <1>2, Invariance, PTL DEF RestartRestores
=============================================================================
