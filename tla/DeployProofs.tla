----------------------------- MODULE DeployProofs -----------------------------
(* Proofs about Deploy and the compiler it rests on: for every set of files    *)
(* that parse as syntax trees, what one compilation says in several places     *)
(* agrees, the DDL of a file is accepted when the source says it should be,    *)
(* and what is served runs.                                                    *)
EXTENDS Deploy, FiniteSetTheorems, WellFoundedInduction, TLAPS

-----------------------------------------------------------------------------
(* Positions.                                                                  *)

(* A set of naturals has a least element, which is what Min picks.             *)
LEMMA MinFacts ==
  ASSUME NEW S \in SUBSET Nat, S # {}
  PROVE  Min(S) \in S /\ \A y \in S : Min(S) <= y
<1>1. PICK x \in S : \A y \in S : ~ (<<y, x>> \in OpToRel(<, Nat))
  BY NatLessThanWellFounded, WFMin
<1>2. \A y \in S : x <= y
  <2> SUFFICES ASSUME NEW y \in S, y < x PROVE FALSE
    OBVIOUS
  <2>1. <<y, x>> \in OpToRel(<, Nat)
    BY DEF OpToRel
  <2> QED BY <1>1, <2>1
<1> QED BY <1>2 DEF Min

(* Positions below a bound have a greatest one.                                *)
LEMMA MaxFacts ==
  ASSUME NEW n \in Nat, NEW S \in SUBSET (1 .. n), S # {}
  PROVE  Max(S) \in S /\ \A y \in S : y <= Max(S)
<1> DEFINE T == {n - x : x \in S}
<1>1. T \in SUBSET Nat /\ T # {}
  OBVIOUS
<1>2. Min(T) \in T /\ \A y \in T : Min(T) <= y
  <2> HIDE DEF T
  <2> QED BY <1>1, MinFacts
<1>3. PICK m \in S : Min(T) = n - m
  BY <1>2
<1>4. \A y \in S : y <= m
  <2> SUFFICES ASSUME NEW y \in S PROVE y <= m
    OBVIOUS
  <2>1. n - y \in T
    OBVIOUS
  <2>2. n - m <= n - y
    BY <1>2, <1>3, <2>1
  <2> QED BY <2>2
<1> QED BY <1>4 DEF Max

-----------------------------------------------------------------------------
(* What is read of a file.                                                     *)

ReadFields == [name : STRING, ty : Types, deco : SUBSET STRING]
ReadItems ==
    [kind : {"schema", "enum"}, name : Names, version : Nat, head : Faults, tail : Faults,
     fields : Seq(ReadFields), rels : Seq(Relations), ctx : Seq(Statements), policy : BOOLEAN]

LEMMA ReadItemType == ASSUME NEW item \in Items PROVE ReadItem(item) \in ReadItems
<1>1. item.fields \in Seq(Fields)
  BY DEF Items
<1>2. \A i \in DOMAIN item.fields : ReadField(item.fields[i]) \in ReadFields
  <2> SUFFICES ASSUME NEW i \in DOMAIN item.fields PROVE ReadField(item.fields[i]) \in ReadFields
    OBVIOUS
  <2>1. item.fields[i] \in Fields
    BY <1>1
  <2> QED BY <2>1 DEF Fields, ReadFields, ReadField
<1>3. [i \in DOMAIN item.fields |-> ReadField(item.fields[i])] \in Seq(ReadFields)
  BY <1>1, <1>2
<1> QED BY <1>3 DEF Items, ReadItems, ReadItem

LEMMA DeclsType ==
  ASSUME NEW file \in SourceFiles
  PROVE  /\ Decls(file) \in Seq(ReadItems)
         /\ SchemasAt(file) \subseteq 1 .. Len(Decls(file))
         /\ Schemas(file) \subseteq ReadItems
<1>1. file.items \in Seq(Items)
  BY DEF SourceFiles
<1>2. Faulty(file) \in SUBSET Nat /\ Faulty(file) \subseteq 1 .. Len(file.items)
  BY <1>1 DEF Faulty
<1> DEFINE n == IF Faulty(file) = {} THEN Len(file.items) ELSE Min(Faulty(file)) - 1
<1>3. n \in Nat /\ n <= Len(file.items)
  <2>1. CASE Faulty(file) = {}
    BY <1>1, <2>1
  <2>2. CASE Faulty(file) # {}
    <3>1. Min(Faulty(file)) \in Faulty(file)
      BY <1>2, <2>2, MinFacts
    <3>2. Min(Faulty(file)) \in 1 .. Len(file.items)
      BY <1>2, <3>1
    <3> QED BY <1>1, <2>2, <3>2
  <2> QED BY <2>1, <2>2
<1>4. Decls(file) = [i \in 1 .. n |-> ReadItem(file.items[i])]
  BY DEF Decls
<1> HIDE DEF n
<1>5. \A i \in 1 .. n : ReadItem(file.items[i]) \in ReadItems
  BY <1>1, <1>3, ReadItemType
<1>6. Decls(file) \in Seq(ReadItems)
  BY <1>3, <1>4, <1>5
<1> QED BY <1>6 DEF SchemasAt, Schemas

(* The type names of the three languages cover every type.                     *)
LEMMA SqlTypes ==
  ASSUME NEW ty \in Types
  PROVE  SqlType(ty) \in {"jsonb", "text", "uuid", "bytea", "boolean", "timestamptz", "interval", "number"}
  BY DEF Types, Bases, SqlType, NumberTypes

LEMMA ReferenceIsText ==
  ASSUME NEW ty \in Types, ty.base = "Ref", ~ ty.list PROVE SqlType(ty) = "text"
  BY DEF SqlType, Types, Bases, NumberTypes

LEMMA MissingIsVector ==
  ASSUME NEW ty \in Types PROVE Sort(ty) = "missing" <=> IsVector(ty)
  BY DEF Types, Bases, Sort, IsVector, TextTypes, NumberTypes

-----------------------------------------------------------------------------
(* The columns of a table.                                                     *)

(* What a sequence that is put together holds.                                 *)
LEMMA ConcatFacts ==
  ASSUME NEW S, NEW a \in Seq(S), NEW b \in Seq(S)
  PROVE  /\ a \o b \in Seq(S)
         /\ ToSet(a \o b) = ToSet(a) \cup ToSet(b)
         /\ Distinct(a \o b) <=>
              Distinct(a) /\ Distinct(b) /\ \A x \in ToSet(a), y \in ToSet(b) : x.name # y.name
<1> DEFINE ab == a \o b
           m == Len(a)
           n == Len(b)
<1>1. ab \in Seq(S) /\ m \in Nat /\ n \in Nat /\ Len(ab) = m + n
  OBVIOUS
<1>2. DOMAIN a = 1 .. m /\ DOMAIN b = 1 .. n /\ DOMAIN ab = 1 .. (m + n)
  BY <1>1
<1>3. \A i \in 1 .. m : i \in DOMAIN ab /\ ab[i] = a[i]
  OBVIOUS
<1>4. \A i \in 1 .. n : m + i \in DOMAIN ab /\ ab[m + i] = b[i]
  OBVIOUS
<1>5. \A k \in 1 .. (m + n) : k \in 1 .. m \/ \E i \in 1 .. n : k = m + i
  <2> SUFFICES ASSUME NEW k \in 1 .. (m + n), k \notin 1 .. m PROVE \E i \in 1 .. n : k = m + i
    OBVIOUS
  <2>1. k - m \in 1 .. n /\ k = m + (k - m)
    BY <1>1
  <2> QED BY <2>1
<1> HIDE DEF ab, m, n
<1>6. ToSet(ab) = ToSet(a) \cup ToSet(b)
  <2>1. ToSet(ab) \subseteq ToSet(a) \cup ToSet(b)
    <3> SUFFICES ASSUME NEW k \in 1 .. (m + n) PROVE ab[k] \in ToSet(a) \cup ToSet(b)
      BY <1>2 DEF ToSet
    <3> QED BY <1>2, <1>3, <1>4, <1>5 DEF ToSet
  <2>2. ToSet(a) \subseteq ToSet(ab)
    BY <1>2, <1>3 DEF ToSet
  <2>3. ToSet(b) \subseteq ToSet(ab)
    BY <1>2, <1>4 DEF ToSet
  <2> QED BY <2>1, <2>2, <2>3
<1>7. ASSUME Distinct(ab)
      PROVE  Distinct(a) /\ Distinct(b) /\ \A x \in ToSet(a), y \in ToSet(b) : x.name # y.name
  <2>1. Distinct(a)
    BY <1>2, <1>3, <1>7 DEF Distinct
  <2>2. Distinct(b)
    <3> SUFFICES ASSUME NEW i \in 1 .. n, NEW j \in 1 .. n, b[i].name = b[j].name PROVE i = j
      BY <1>2 DEF Distinct
    <3>1. ab[m + i].name = ab[m + j].name
      BY <1>4
    <3>2. m + i = m + j
      BY <1>4, <1>7, <3>1 DEF Distinct
    <3> QED BY <1>1, <3>2
  <2>3. ASSUME NEW i \in 1 .. m, NEW j \in 1 .. n, a[i].name = b[j].name PROVE FALSE
    <3>1. ab[i].name = ab[m + j].name
      BY <1>3, <1>4, <2>3
    <3>2. i = m + j
      BY <1>3, <1>4, <1>7, <3>1 DEF Distinct
    <3> QED BY <1>1, <3>2
  <2> QED BY <1>2, <2>1, <2>2, <2>3 DEF ToSet
<1>8. ASSUME Distinct(a), Distinct(b), \A x \in ToSet(a), y \in ToSet(b) : x.name # y.name
      PROVE  Distinct(ab)
  <2> SUFFICES ASSUME NEW k \in 1 .. (m + n), NEW l \in 1 .. (m + n), ab[k].name = ab[l].name
               PROVE  k = l
    BY <1>2 DEF Distinct
  <2>0. \A i \in 1 .. m, j \in 1 .. n : a[i].name # b[j].name
    BY <1>2, <1>8 DEF ToSet
  <2>1. CASE k \in 1 .. m /\ l \in 1 .. m
    BY <1>2, <1>3, <1>8, <2>1 DEF Distinct
  <2>2. CASE k \in 1 .. m /\ l \notin 1 .. m
    BY <1>3, <1>4, <1>5, <2>0, <2>2
  <2>3. CASE k \notin 1 .. m /\ l \in 1 .. m
    BY <1>3, <1>4, <1>5, <2>0, <2>3
  <2>4. CASE k \notin 1 .. m /\ l \notin 1 .. m
    <3>1. PICK i \in 1 .. n : k = m + i
      BY <1>5, <2>4
    <3>2. PICK j \in 1 .. n : l = m + j
      BY <1>5, <2>4
    <3>3. b[i].name = b[j].name
      BY <1>4, <3>1, <3>2
    <3> QED BY <1>2, <1>8, <3>1, <3>2, <3>3 DEF Distinct
  <2> QED BY <2>1, <2>2, <2>3, <2>4
<1> QED BY <1>1, <1>6, <1>7, <1>8 DEF ab

(* At most one column, which may be added.                                     *)
LEMMA OptionalColumn ==
  ASSUME NEW S, NEW c \in S, NEW given \in BOOLEAN,
         NEW p, p = IF given THEN <<c>> ELSE <<>>
  PROVE  /\ p \in Seq(S) /\ Distinct(p)
         /\ ToSet(p) = IF given THEN {c} ELSE {}
<1>1. CASE given
  BY <1>1 DEF ToSet, Distinct
<1>2. CASE ~ given
  BY <1>2 DEF ToSet, Distinct
<1> QED BY <1>1, <1>2

Body == Convention("body", "text")
CreatedAt == Convention("created_at", "timestamptz")
Tenant == Convention("tenant", "text")
Metadata == Convention("metadata", "jsonb")

(* The columns that are added to those of the fields.                          *)
Added(s) ==
    {c \in {Body, CreatedAt, Tenant, Metadata} :
        IF c = Body THEN NeedsBody(s) ELSE Named(s, c.name) = {}}

LEMMA ConventionFacts ==
  /\ Body.name = "body" /\ CreatedAt.name = "created_at" /\ Tenant.name = "tenant" /\ Metadata.name = "metadata"
  /\ Body.type = "text" /\ CreatedAt.type = "timestamptz" /\ Tenant.type = "text" /\ Metadata.type = "jsonb"
  /\ \A c \in {Body, CreatedAt, Tenant, Metadata} : c.filled /\ ~ c.key
<1>1. ASSUME NEW n, NEW y
      PROVE  /\ Convention(n, y).name = n /\ Convention(n, y).type = y
             /\ Convention(n, y).filled /\ ~ Convention(n, y).key
  BY DEF Convention
<1> QED BY <1>1 DEF Body, CreatedAt, Tenant, Metadata

LEMMA FieldFacts ==
  ASSUME NEW s \in ReadItems
  PROVE  /\ s.fields \in Seq(ReadFields)
         /\ FieldsOf(s) \subseteq ReadFields
         /\ \A f \in FieldsOf(s) : \E i \in DOMAIN s.fields : f = s.fields[i]
         /\ \A i \in DOMAIN s.fields : s.fields[i] \in FieldsOf(s)
  BY DEF ReadItems, FieldsOf, ToSet

LEMMA ColumnType ==
  ASSUME NEW f
  PROVE  Column(f).name = f.name /\ Column(f).type = SqlType(f.ty)
         /\ Column(f).filled = (f.ty.opt /\ "primary" \notin f.deco)
         /\ Column(f).key = (f.deco \cap {"primary", "unique"} # {})
  BY DEF Column

(* The columns the table of a schema may have.                                 *)
ColumnSet(s) == {Column(f) : f \in FieldsOf(s)} \cup {Body, CreatedAt, Tenant, Metadata}

LEMMA ColumnsFacts ==
  ASSUME NEW s \in ReadItems
  PROVE  /\ Columns(s) \in Seq(ColumnSet(s))
         /\ ToSet(Columns(s)) = {Column(f) : f \in FieldsOf(s)} \cup Added(s)
         /\ Distinct(Columns(s)) <=> Distinct(s.fields)
<1> DEFINE p0 == [i \in DOMAIN s.fields |-> Column(s.fields[i])]
           p1 == IF NeedsBody(s) THEN <<Body>> ELSE <<>>
           p2 == Unless(s, CreatedAt)
           p3 == Unless(s, Tenant)
           p4 == Unless(s, Metadata)
           A1 == IF NeedsBody(s) THEN {Body} ELSE {}
           A2 == IF Named(s, "created_at") = {} THEN {CreatedAt} ELSE {}
           A3 == IF Named(s, "tenant") = {} THEN {Tenant} ELSE {}
           A4 == IF Named(s, "metadata") = {} THEN {Metadata} ELSE {}
<1>1. Columns(s) = (((p0 \o p1) \o p2) \o p3) \o p4
  BY DEF Columns, Body, CreatedAt, Tenant, Metadata
<1>2. /\ p0 \in Seq(ColumnSet(s)) /\ ToSet(p0) = {Column(f) : f \in FieldsOf(s)}
      /\ Distinct(p0) <=> Distinct(s.fields)
  <2>0. \A i \in DOMAIN s.fields : Column(s.fields[i]) \in ColumnSet(s) /\ Column(s.fields[i]).name = s.fields[i].name
    BY FieldFacts, ColumnType DEF ColumnSet
  <2>1. p0 \in Seq(ColumnSet(s))
    BY <2>0, FieldFacts
  <2>2. ToSet(p0) = {Column(f) : f \in FieldsOf(s)}
    <3>1. DOMAIN p0 = DOMAIN s.fields /\ \A i \in DOMAIN s.fields : p0[i] = Column(s.fields[i])
      OBVIOUS
    <3>2. ToSet(p0) = {p0[i] : i \in DOMAIN p0}
      BY DEF ToSet
    <3>3. /\ \A f \in FieldsOf(s) : \E i \in DOMAIN s.fields : f = s.fields[i]
          /\ \A i \in DOMAIN s.fields : s.fields[i] \in FieldsOf(s)
      BY FieldFacts
    <3> HIDE DEF p0
    <3> QED BY <3>1, <3>2, <3>3
  <2>3. Distinct(p0) <=> Distinct(s.fields)
    BY <2>0 DEF Distinct
  <2> QED BY <2>1, <2>2, <2>3
<1>3. p1 \in Seq(ColumnSet(s)) /\ Distinct(p1) /\ ToSet(p1) = A1
  BY OptionalColumn DEF NeedsBody, ColumnSet
<1>4. p2 \in Seq(ColumnSet(s)) /\ Distinct(p2) /\ ToSet(p2) = A2
  BY OptionalColumn, ConventionFacts DEF Unless, ColumnSet
<1>5. p3 \in Seq(ColumnSet(s)) /\ Distinct(p3) /\ ToSet(p3) = A3
  BY OptionalColumn, ConventionFacts DEF Unless, ColumnSet
<1>6. p4 \in Seq(ColumnSet(s)) /\ Distinct(p4) /\ ToSet(p4) = A4
  BY OptionalColumn, ConventionFacts DEF Unless, ColumnSet
<1>7. A1 \cup A2 \cup A3 \cup A4 = Added(s)
  BY ConventionFacts DEF Added
<1>8. \A x \in {Column(f) : f \in FieldsOf(s)} : \E f \in Named(s, x.name) : x = Column(f)
  BY FieldFacts, ColumnType DEF Named
<1>9. /\ A1 # {} => Named(s, "body") = {} /\ A1 = {Body}
      /\ A2 # {} => Named(s, "created_at") = {} /\ A2 = {CreatedAt}
      /\ A3 # {} => Named(s, "tenant") = {} /\ A3 = {Tenant}
      /\ A4 # {} => Named(s, "metadata") = {} /\ A4 = {Metadata}
  BY DEF NeedsBody
<1> HIDE DEF p0, p1, p2, p3, p4, A1, A2, A3, A4
<1> DEFINE C == {Column(f) : f \in FieldsOf(s)}
<1>10. /\ \A x \in C, y \in A1 : x.name # y.name
       /\ \A x \in C \cup A1, y \in A2 : x.name # y.name
       /\ \A x \in C \cup A1 \cup A2, y \in A3 : x.name # y.name
       /\ \A x \in C \cup A1 \cup A2 \cup A3, y \in A4 : x.name # y.name
  BY <1>8, <1>9, ConventionFacts
<1> HIDE DEF C
<1> DEFINE q1 == p0 \o p1
           q2 == q1 \o p2
           q3 == q2 \o p3
           q4 == q3 \o p4
<1>11. q1 \in Seq(ColumnSet(s)) /\ ToSet(q1) = C \cup A1 /\ (Distinct(q1) <=> Distinct(s.fields))
  BY <1>2, <1>3, <1>10, ConcatFacts DEF C
<1> HIDE DEF q1
<1>12. q2 \in Seq(ColumnSet(s)) /\ ToSet(q2) = C \cup A1 \cup A2 /\ (Distinct(q2) <=> Distinct(s.fields))
  BY <1>11, <1>4, <1>10, ConcatFacts
<1> HIDE DEF q2
<1>13. q3 \in Seq(ColumnSet(s)) /\ ToSet(q3) = C \cup A1 \cup A2 \cup A3 /\ (Distinct(q3) <=> Distinct(s.fields))
  BY <1>12, <1>5, <1>10, ConcatFacts
<1> HIDE DEF q3
<1>14. q4 \in Seq(ColumnSet(s)) /\ ToSet(q4) = C \cup A1 \cup A2 \cup A3 \cup A4 /\ (Distinct(q4) <=> Distinct(s.fields))
  BY <1>13, <1>6, <1>10, ConcatFacts
<1> HIDE DEF q4
<1>15. Columns(s) = q4
  BY <1>1 DEF q1, q2, q3, q4
<1> QED BY <1>7, <1>14, <1>15 DEF C

-----------------------------------------------------------------------------
(* What one compilation says in several places.                                *)

LEMMA CompiledFacts ==
  ASSUME NEW file \in SourceFiles, Compiles(file), NEW s \in Schemas(file)
  PROVE  s \in ReadItems /\ ~ RustFails(s) /\ ~ TypescriptFails(s)
  BY DeclsType DEF Compiles, CodegenFails

(* The record types of the SDKs.                                               *)
LEMMA ShapesAgree ==
  ASSUME NEW s \in ReadItems
  PROVE  /\ TypescriptShape(s) = PythonShape(s)
         /\ TypescriptShape(s) = {m \in RustShape(s) : m.sort # "missing"}
<1>1. TypescriptShape(s) = PythonShape(s)
  BY DEF TypescriptShape, PythonShape
<1>2. \A f \in FieldsOf(s) : Member(f).sort = "missing" <=> IsVector(f.ty)
  <2> SUFFICES ASSUME NEW f \in FieldsOf(s) PROVE Member(f).sort = "missing" <=> IsVector(f.ty)
    OBVIOUS
  <2>1. f.ty \in Types
    BY FieldFacts DEF ReadFields
  <2> QED BY <2>1, MissingIsVector DEF Member
<1>3. TenantMember.sort # "missing"
  BY DEF TenantMember
<1>4. TypescriptShape(s) \subseteq {m \in RustShape(s) : m.sort # "missing"}
  BY <1>2, <1>3 DEF TypescriptShape, RustShape
<1>5. {m \in RustShape(s) : m.sort # "missing"} \subseteq TypescriptShape(s)
  BY <1>2, <1>3 DEF TypescriptShape, RustShape
<1> QED BY <1>1, <1>4, <1>5

(* The field the primary key is called by.                                     *)
LEMMA PrimaryFacts ==
  ASSUME NEW file \in SourceFiles, Compiles(file), NEW s \in Schemas(file)
  PROVE  /\ \E f \in FieldsOf(s) : "primary" \in f.deco /\ f.name = PrimaryKey(s)
         /\ \A f \in FieldsOf(s) : "primary" \in f.deco => f.name = PrimaryKey(s)
<1>1. s \in ReadItems
  BY CompiledFacts
<1>2. \E i \in DOMAIN s.fields : Marked(s, "primary") = {i}
  BY DEF Compiles, CheckFails
<1>3. PICK i \in DOMAIN s.fields : Marked(s, "primary") = {i}
  BY <1>2
<1>4. i \in Nat
  BY <1>1, FieldFacts
<1>5. Min({i}) = i
  BY <1>4 DEF Min
<1>6. PrimaryKey(s) = s.fields[i].name
  BY <1>3, <1>5 DEF PrimaryKey
<1>7. "primary" \in s.fields[i].deco
  BY <1>3 DEF Marked
<1>8. ASSUME NEW f \in FieldsOf(s), "primary" \in f.deco PROVE f = s.fields[i]
  <2>1. PICK j \in DOMAIN s.fields : f = s.fields[j]
    BY <1>1, FieldFacts
  <2>2. j \in Marked(s, "primary")
    BY <1>8, <2>1 DEF Marked
  <2> QED BY <1>3, <2>1, <2>2
<1> QED BY <1>1, <1>6, <1>7, <1>8, FieldFacts

(* Every member of a record type is a column, and is optional when the column  *)
(* may be left out, but for the primary key; what the manifest requires is     *)
(* what may not, and the primary key never may.                                *)
LEMMA MembersAreColumns ==
  ASSUME NEW file \in SourceFiles, Compiles(file), NEW s \in Schemas(file)
  PROVE  \A m \in TypescriptShape(s) : \E c \in ToSet(Columns(s)) :
            /\ c.name = m.name
            /\ Named(s, m.name) # {} /\ m.name # PrimaryKey(s) => c.filled = m.opt
<1>1. s \in ReadItems /\ ~ RustFails(s) /\ ~ TypescriptFails(s)
  BY CompiledFacts
<1>2. ToSet(Columns(s)) = {Column(f) : f \in FieldsOf(s)} \cup Added(s)
  BY <1>1, ColumnsFacts
<1> SUFFICES ASSUME NEW m \in TypescriptShape(s)
             PROVE  \E c \in ToSet(Columns(s)) :
                       /\ c.name = m.name
                       /\ Named(s, m.name) # {} /\ m.name # PrimaryKey(s) => c.filled = m.opt
  OBVIOUS
<1>3. CASE \E f \in FieldsOf(s) : m = Member(f)
  <2>1. PICK f \in FieldsOf(s) : m = Member(f)
    BY <1>3
  <2>2. Column(f).name = m.name /\ Column(f).filled = (m.opt /\ "primary" \notin f.deco)
    BY <2>1, ColumnType DEF Member
  <2>3. m.name = f.name /\ m.opt = f.ty.opt
    BY <2>1 DEF Member
  <2>4. m.name # PrimaryKey(s) => Column(f).filled = m.opt
    <3>1. f.ty.opt \in BOOLEAN
      BY <1>1, FieldFacts DEF ReadFields, Types
    <3>2. m.name # PrimaryKey(s) => "primary" \notin f.deco
      BY <2>3, PrimaryFacts
    <3> QED BY <2>2, <2>3, <3>1, <3>2
  <2> QED BY <1>2, <2>2, <2>4
<1>4. CASE m = TenantMember
  <2>0. m.name = "tenant" /\ m.opt = FALSE
    BY <1>4 DEF TenantMember
  <2>1. CASE Named(s, "tenant") = {}
    <3>1. Tenant \in Added(s)
      BY <2>1, ConventionFacts DEF Added
    <3> QED BY <1>2, <2>0, <2>1, <3>1, ConventionFacts
  <2>2. CASE Named(s, "tenant") # {}
    <3>1. PICK f \in FieldsOf(s) : f.name = "tenant"
      BY <2>2 DEF Named
    <3>2. f \in Named(s, "tenant") /\ f.ty.opt \in BOOLEAN
      BY <1>1, <3>1, FieldFacts DEF Named, ReadFields, Types
    <3>3. f.ty.opt = FALSE
      BY <1>1, <3>1, <3>2 DEF RustFails, TypescriptFails, PlainText
    <3>4. Column(f).name = "tenant" /\ Column(f).filled = FALSE
      BY <3>1, <3>3, ColumnType
    <3> QED BY <1>2, <2>0, <3>1, <3>4
  <2> QED BY <2>1, <2>2
<1> QED BY <1>3, <1>4 DEF TypescriptShape

LEMMA RequiredColumns ==
  ASSUME NEW file \in SourceFiles, Compiles(file), NEW s \in Schemas(file)
  PROVE  {c.name : c \in {d \in ToSet(Columns(s)) : ~ d.filled}}
           = Manifest(file, s).record.required \cup {PrimaryKey(s)}
<1>0. s \in ReadItems
  BY CompiledFacts
<1>1. Manifest(file, s).record.required = {f.name : f \in {g \in FieldsOf(s) : ~ g.ty.opt}}
  BY DEF Manifest, RecordSchema
<1>2. ToSet(Columns(s)) = {Column(f) : f \in FieldsOf(s)} \cup Added(s)
  BY <1>0, ColumnsFacts
<1>3. \A c \in Added(s) : c.filled
  BY ConventionFacts DEF Added
<1> DEFINE Forced(f) == ~ f.ty.opt \/ "primary" \in f.deco
<1>4. \A f \in FieldsOf(s) : Column(f).name = f.name /\ (~ Column(f).filled <=> Forced(f))
  BY ColumnType
<1>5. {c.name : c \in {d \in ToSet(Columns(s)) : ~ d.filled}} = {f.name : f \in {g \in FieldsOf(s) : Forced(g)}}
  <2> HIDE DEF Forced
  <2> QED BY <1>2, <1>3, <1>4
<1>6. {f.name : f \in {g \in FieldsOf(s) : Forced(g)}}
         = {f.name : f \in {g \in FieldsOf(s) : ~ g.ty.opt}} \cup {PrimaryKey(s)}
  BY PrimaryFacts
<1> QED BY <1>1, <1>5, <1>6

(* The constants of the SDKs and the metadata.                                 *)
LEMMA ConstantsAgree ==
  ASSUME NEW file, NEW s
  PROVE  LET meta == Meta(file, s)
             constants == RustConstants(file, s)
         IN  /\ constants = TypescriptMeta(file, s) /\ constants = PythonMeta(file, s)
             /\ <<constants.namespace, s.name>> = meta.name /\ constants.table = meta.table
             /\ constants.version = meta.version /\ constants.primary = meta.primary
             /\ {f[1] : f \in Manifest(file, s).filters} = meta.facets
<1>1. {f[1] : f \in FilterProperties(s)} = {f.name : f \in Having(s, "facet")}
  <2>1. \A f \in Having(s, "facet") : <<f.name, JsonType(f.ty)>> \in FilterProperties(s)
    BY DEF FilterProperties
  <2>2. \A p \in FilterProperties(s) : \E f \in Having(s, "facet") : p[1] = f.name
    BY DEF FilterProperties
  <2>3. \A f \in Having(s, "facet") : \E p \in FilterProperties(s) : p[1] = f.name
    BY <2>1
  <2> QED BY <2>2, <2>3
<1> QED BY <1>1 DEF Meta, RustConstants, TypescriptMeta, PythonMeta, Qualified, Manifest

(* A relation that shares its name with no other is the one of the metadata.   *)
LEMMA SingleRelation ==
  ASSUME NEW s \in ReadItems, NEW r \in ToSet(s.rels), Single(s, r.name)
  PROVE  RelationNamed(s, r.name) = r
<1>1. s.rels \in Seq(Relations)
  BY DEF ReadItems
<1>2. PICK i \in DOMAIN s.rels : RelationsAt(s, r.name) = {i}
  BY DEF Single
<1>3. PICK k \in DOMAIN s.rels : r = s.rels[k]
  BY DEF ToSet
<1>4. k = i
  BY <1>2, <1>3 DEF RelationsAt
<1>5. Max({i}) = i
  BY <1>1 DEF Max
<1> QED BY <1>2, <1>3, <1>4, <1>5 DEF RelationNamed

LEMMA RelationFacts ==
  ASSUME NEW file, NEW s
  PROVE  /\ DOMAIN Meta(file, s).relations = {r.name : r \in ToSet(s.rels)}
         /\ \A n \in DOMAIN Meta(file, s).relations :
               /\ Meta(file, s).relations[n].many = RelationNamed(s, n).many
               /\ Meta(file, s).relations[n].target = <<Namespace(file), RelationNamed(s, n).target>>
               /\ Meta(file, s).relations[n].fk = RelationNamed(s, n).via
  BY DEF Meta, RelationMeta

LEMMA RelationsAgree ==
  ASSUME NEW file, NEW s \in ReadItems, NEW r \in RustConstants(file, s).relations, Single(s, r[1])
  PROVE  r[2] = Meta(file, s).relations[r[1]].target[2] /\ Last(Meta(file, s).relations[r[1]].fk) = r[3]
<1>1. PICK x \in ToSet(s.rels) : r = <<x.name, x.target, Last(x.via)>>
  BY DEF RustConstants
<1>2. RelationNamed(s, x.name) = x
  BY <1>1, SingleRelation
<1>3. x.name \in DOMAIN Meta(file, s).relations
  BY RelationFacts
<1> QED BY <1>1, <1>2, <1>3, RelationFacts

LEMMA ToolsAgree ==
  ASSUME NEW file, NEW s \in ReadItems, \A r \in ToSet(s.rels) : Single(s, r.name)
  PROVE  {<<t.kind, t.arg>> : t \in Manifest(file, s).tools}
           = {<<t.kind, t.arg>> : t \in SchemaTools(Meta(file, s))}
<1> DEFINE meta == Meta(file, s)
           many == {r.name : r \in {q \in ToSet(s.rels) : q.many}}
           facets == {f.name : f \in Having(s, "facet")}
           calls == {<<k, Empty>> : k \in Kinds} \cup {<<"relation", r>> : r \in many}
                      \cup {<<"aggregate", f>> : f \in facets}
<1>1. {<<t.kind, t.arg>> : t \in Manifest(file, s).tools} = calls
  <2>1. Manifest(file, s).tools = ManifestTools(s)
    BY DEF Manifest
  <2> DEFINE a == {[name |-> ToolName(k, Snake(s.name)), kind |-> k, arg |-> Empty] : k \in Kinds}
             b == {[name |-> SubToolName("list", Snake(s.name), r.name), kind |-> "relation", arg |-> r.name] :
                     r \in {q \in ToSet(s.rels) : q.many}}
             c == {[name |-> SubToolName("aggregate", Snake(s.name), f.name), kind |-> "aggregate", arg |-> f.name] :
                     f \in Having(s, "facet")}
  <2>2. {<<t.kind, t.arg>> : t \in ManifestTools(s)} = calls
    <3>1. ManifestTools(s) = a \cup b \cup c
      BY DEF ManifestTools
    <3>2. {<<t.kind, t.arg>> : t \in a} = {<<k, Empty>> : k \in Kinds}
      <4>1. \A t \in a : \E k \in Kinds : t.kind = k /\ t.arg = Empty
        OBVIOUS
      <4>2. \A k \in Kinds : \E t \in a : t.kind = k /\ t.arg = Empty
        <5> SUFFICES ASSUME NEW k \in Kinds PROVE \E t \in a : t.kind = k /\ t.arg = Empty
          OBVIOUS
        <5>1. [name |-> ToolName(k, Snake(s.name)), kind |-> k, arg |-> Empty] \in a
          OBVIOUS
        <5> HIDE DEF a
        <5> QED BY <5>1
      <4> HIDE DEF a
      <4> QED BY <4>1, <4>2
    <3>3. {<<t.kind, t.arg>> : t \in b} = {<<"relation", r>> : r \in many}
      <4>1. \A t \in b : \E r \in many : t.kind = "relation" /\ t.arg = r
        OBVIOUS
      <4>2. \A r \in many : \E t \in b : t.kind = "relation" /\ t.arg = r
        <5> SUFFICES ASSUME NEW r \in many PROVE \E t \in b : t.kind = "relation" /\ t.arg = r
          OBVIOUS
        <5>1. [name |-> SubToolName("list", Snake(s.name), r), kind |-> "relation", arg |-> r] \in b
          OBVIOUS
        <5> HIDE DEF b
        <5> QED BY <5>1
      <4> HIDE DEF b
      <4> QED BY <4>1, <4>2
    <3>4. {<<t.kind, t.arg>> : t \in c} = {<<"aggregate", f>> : f \in facets}
      <4>1. \A t \in c : \E f \in facets : t.kind = "aggregate" /\ t.arg = f
        OBVIOUS
      <4>2. \A f \in facets : \E t \in c : t.kind = "aggregate" /\ t.arg = f
        <5> SUFFICES ASSUME NEW f \in facets PROVE \E t \in c : t.kind = "aggregate" /\ t.arg = f
          OBVIOUS
        <5>1. [name |-> SubToolName("aggregate", Snake(s.name), f), kind |-> "aggregate", arg |-> f] \in c
          OBVIOUS
        <5> HIDE DEF c
        <5> QED BY <5>1
      <4> HIDE DEF c
      <4> QED BY <4>1, <4>2
    <3> HIDE DEF a, b, c, many, facets
    <3> QED BY <3>1, <3>2, <3>3, <3>4
  <2> QED BY <2>1, <2>2
<1>2. \A r \in ToSet(s.rels) : RelationNamed(s, r.name) = r
  BY SingleRelation
<1>3. {n \in DOMAIN meta.relations : meta.relations[n].many} = many
  <2>1. DOMAIN meta.relations = {r.name : r \in ToSet(s.rels)}
    BY RelationFacts
  <2>2. \A r \in ToSet(s.rels) : meta.relations[r.name].many = r.many
    BY <1>2, RelationFacts
  <2> HIDE DEF meta
  <2>3. {n \in DOMAIN meta.relations : meta.relations[n].many} \subseteq many
    BY <2>1, <2>2
  <2>4. many \subseteq {n \in DOMAIN meta.relations : meta.relations[n].many}
    <3> SUFFICES ASSUME NEW r \in ToSet(s.rels), r.many
                 PROVE  r.name \in DOMAIN meta.relations /\ meta.relations[r.name].many
      OBVIOUS
    <3> QED BY <2>1, <2>2
  <2> QED BY <2>3, <2>4
<1>4. meta.facets = facets
  BY DEF Meta
<1> HIDE DEF meta, many, facets
<1>5. {<<t.kind, t.arg>> : t \in SchemaTools(meta)} = calls
  <2> DEFINE slug == Slug(meta.name)
             a == {[name |-> ToolName(k, slug), kind |-> k, arg |-> Empty, schema |-> meta.name] : k \in Kinds}
             b == {[name |-> SubToolName("list", slug, r), kind |-> "relation", arg |-> r, schema |-> meta.name] :
                     r \in many}
             c == {[name |-> SubToolName("aggregate", slug, f), kind |-> "aggregate", arg |-> f, schema |-> meta.name] :
                     f \in facets}
  <2>1. SchemaTools(meta) = a \cup b \cup c
    BY <1>3, <1>4 DEF SchemaTools
  <2>2. {<<t.kind, t.arg>> : t \in a} = {<<k, Empty>> : k \in Kinds}
    <3>1. \A t \in a : \E k \in Kinds : t.kind = k /\ t.arg = Empty
      OBVIOUS
    <3>2. \A k \in Kinds : \E t \in a : t.kind = k /\ t.arg = Empty
      <4> SUFFICES ASSUME NEW k \in Kinds PROVE \E t \in a : t.kind = k /\ t.arg = Empty
        OBVIOUS
      <4>1. [name |-> ToolName(k, slug), kind |-> k, arg |-> Empty, schema |-> meta.name] \in a
        OBVIOUS
      <4> HIDE DEF a
      <4> QED BY <4>1
    <3> HIDE DEF a
    <3> QED BY <3>1, <3>2
  <2>3. {<<t.kind, t.arg>> : t \in b} = {<<"relation", r>> : r \in many}
    <3>1. \A t \in b : \E r \in many : t.kind = "relation" /\ t.arg = r
      OBVIOUS
    <3>2. \A r \in many : \E t \in b : t.kind = "relation" /\ t.arg = r
      <4> SUFFICES ASSUME NEW r \in many PROVE \E t \in b : t.kind = "relation" /\ t.arg = r
        OBVIOUS
      <4>1. [name |-> SubToolName("list", slug, r), kind |-> "relation", arg |-> r, schema |-> meta.name] \in b
        OBVIOUS
      <4> HIDE DEF b
      <4> QED BY <4>1
    <3> HIDE DEF b
    <3> QED BY <3>1, <3>2
  <2>4. {<<t.kind, t.arg>> : t \in c} = {<<"aggregate", f>> : f \in facets}
    <3>1. \A t \in c : \E f \in facets : t.kind = "aggregate" /\ t.arg = f
      OBVIOUS
    <3>2. \A f \in facets : \E t \in c : t.kind = "aggregate" /\ t.arg = f
      <4> SUFFICES ASSUME NEW f \in facets PROVE \E t \in c : t.kind = "aggregate" /\ t.arg = f
        OBVIOUS
      <4>1. [name |-> SubToolName("aggregate", slug, f), kind |-> "aggregate", arg |-> f, schema |-> meta.name] \in c
        OBVIOUS
      <4> HIDE DEF c
      <4> QED BY <4>1
    <3> HIDE DEF c
    <3> QED BY <3>1, <3>2
  <2> HIDE DEF a, b, c
  <2> QED BY <2>1, <2>2, <2>3, <2>4
<1> QED BY <1>1, <1>5 DEF meta

(* A setting that is given once is the one that every reader of the context    *)
(* block finds.                                                                *)
LEMMA OnceFacts ==
  ASSUME NEW s \in ReadItems, NEW key, NEW call, SetOnce(s, key, call)
  PROVE  \E i \in DOMAIN s.ctx :
            /\ i \in Nat /\ s.ctx[i] \in Statements
            /\ \A j \in DOMAIN s.ctx : s.ctx[j].key = key <=> j = i
            /\ s.ctx[i].key = key /\ s.ctx[i].call = call
            /\ Literals(s.ctx[i], {"int"}) = 1 .. Len(s.ctx[i].args)
            /\ Sets(s.ctx[i]) => Given(s, key) = {i} /\ Setting(s, key) = s.ctx[i]
<1>1. PICK i \in DOMAIN s.ctx :
         /\ \A j \in DOMAIN s.ctx : s.ctx[j].key = key <=> j = i
         /\ s.ctx[i].call = call
         /\ \A a \in ToSet(s.ctx[i].args) : a.kind = "int" /\ a.n >= 0
  BY DEF SetOnce
<1> DEFINE st == s.ctx[i]
<1>2. i \in Nat /\ st \in Statements
  BY DEF ReadItems
<1>3. st.args \in Seq([label : STRING, kind : STRING, n : Int])
  BY <1>2 DEF Statements
<1>4. Literals(st, {"int"}) = 1 .. Len(st.args)
  <2>1. \A k \in DOMAIN st.args : ReadArg(st.args[k]).kind = "int"
    <3> SUFFICES ASSUME NEW k \in DOMAIN st.args PROVE ReadArg(st.args[k]).kind = "int"
      OBVIOUS
    <3>1. st.args[k].kind = "int" /\ st.args[k].n >= 0 /\ st.args[k].n \in Int
      <4>1. st.args[k] \in [label : STRING, kind : STRING, n : Int]
        <5> DEFINE A == [label : STRING, kind : STRING, n : Int]
                   args == st.args
        <5>1. args \in Seq(A) /\ k \in DOMAIN args
          BY <1>3
        <5> HIDE DEF A, args
        <5>2. args[k] \in A
          BY <5>1
        <5> QED BY <5>2 DEF A, args
      <4>2. st.args[k] \in ToSet(st.args)
        BY DEF ToSet
      <4> QED BY <1>1, <4>1, <4>2
    <3>2. ~ st.args[k].n < 0
      BY <3>1
    <3> QED BY <3>1, <3>2 DEF ReadArg
  <2> QED BY <1>3, <2>1 DEF Literals
<1>5. ASSUME Sets(st) PROVE Given(s, key) = {i} /\ Setting(s, key) = st
  <2>1. Given(s, key) = {i}
    BY <1>1, <1>5 DEF Given
  <2>2. Max({i}) = i
    BY <1>2 DEF Max
  <2> QED BY <2>1, <2>2 DEF Setting
<1> QED BY <1>1, <1>2, <1>4, <1>5

(* A number that is given once.                                                *)
LEMMA NumberOnce ==
  ASSUME NEW s \in ReadItems, NEW key \in {"vector_dims", "default_top_k"}, SetOnce(s, key, Empty)
  PROVE  \E i \in DOMAIN s.ctx : Given(s, key) = {i} /\ Setting(s, key) = s.ctx[i] /\ Min(Given(s, key)) = i
<1>1. PICK i \in DOMAIN s.ctx :
         /\ i \in Nat /\ s.ctx[i] \in Statements
         /\ s.ctx[i].key = key /\ s.ctx[i].call = Empty
         /\ Literals(s.ctx[i], {"int"}) = 1 .. Len(s.ctx[i].args)
         /\ Sets(s.ctx[i]) => Given(s, key) = {i} /\ Setting(s, key) = s.ctx[i]
  BY OnceFacts
<1>2. Len(s.ctx[i].args) = 1
  BY <1>1 DEF Statements
<1>3. IsInt(s.ctx[i])
  BY <1>1, <1>2 DEF IsInt
<1>4. Sets(s.ctx[i])
  BY <1>1, <1>3 DEF Sets
<1>5. Min({i}) = i
  BY <1>1 DEF Min
<1> QED BY <1>1, <1>4, <1>5

LEMMA VectorPlanAgrees ==
  ASSUME NEW file, NEW s \in ReadItems, NEW p \in VectorPlan(s)
  PROVE  /\ p.version = Meta(file, s).version
         /\ SetOnce(s, "vector_dims", Empty) => p.dims = {Meta(file, s).context.dims}
<1>0. p = [name |-> <<Lowered(s.name), "_", s.version>>, version |-> s.version,
           dims |-> {s.ctx[i].args[1].n : i \in Given(s, "vector_dims")}]
  BY DEF VectorPlan
<1>1. p.version = s.version /\ p.dims = {s.ctx[i].args[1].n : i \in Given(s, "vector_dims")}
  BY <1>0
<1>2. Meta(file, s).version = s.version /\ Meta(file, s).context = ContextMeta(s)
  BY DEF Meta
<1>3. ASSUME SetOnce(s, "vector_dims", Empty) PROVE p.dims = {ContextMeta(s).dims}
  <2>1. PICK i \in DOMAIN s.ctx : Given(s, "vector_dims") = {i} /\ Setting(s, "vector_dims") = s.ctx[i]
    BY <1>3, NumberOnce
  <2>2. ContextMeta(s).dims = s.ctx[i].args[1].n
    BY <2>1 DEF ContextMeta
  <2> QED BY <1>1, <2>1, <2>2
<1> QED BY <1>1, <1>2, <1>3

LEMMA TopKAgrees ==
  ASSUME NEW file, NEW s \in ReadItems, SetOnce(s, "default_top_k", Empty)
  PROVE  Meta(file, s).context.topK = {Manifest(file, s).topK}
<1>1. PICK i \in DOMAIN s.ctx :
         Given(s, "default_top_k") = {i} /\ Setting(s, "default_top_k") = s.ctx[i] /\ Min(Given(s, "default_top_k")) = i
  BY NumberOnce
<1>2. ContextMeta(s).topK = {s.ctx[i].args[1].n}
  BY <1>1 DEF ContextMeta
<1>3. DefaultTopK(s) = s.ctx[i].args[1].n
  BY <1>1 DEF DefaultTopK
<1> QED BY <1>2, <1>3 DEF Meta, Manifest

(* Where all arguments are integers, the k-th of them is the k-th argument.    *)
LEMMA NthFacts ==
  ASSUME NEW st \in Statements, Literals(st, {"int"}) = 1 .. Len(st.args), NEW k \in Nat \ {0}, NEW default
  PROVE  NthInt(st, k, default) = IF k <= Len(st.args) THEN st.args[k].n ELSE default
<1> DEFINE n == Len(st.args)
           fitting == Literals(st, {"int"})
           at == {i \in fitting : Cardinality({j \in fitting : j <= i}) = k}
<1>1. n \in Nat
  BY DEF Statements
<1>2. \A i \in 1 .. n : Cardinality({j \in 1 .. n : j <= i}) = i
  <2> SUFFICES ASSUME NEW i \in 1 .. n PROVE Cardinality({j \in 1 .. n : j <= i}) = i
    OBVIOUS
  <2>1. {j \in 1 .. n : j <= i} = 1 .. i
    BY <1>1
  <2>2. Cardinality(1 .. i) = i
    BY FS_Interval
  <2> QED BY <2>1, <2>2
<1>3. at = {i \in 1 .. n : i = k}
  BY <1>2
<1>4. NthInt(st, k, default) = IF at = {} THEN default ELSE st.args[Min(at)].n
  BY DEF NthInt, Nth
<1>5. CASE k <= n
  <2>1. at = {k}
    BY <1>3, <1>5, <1>1
  <2>2. Min({k}) = k
    BY DEF Min
  <2> QED BY <1>4, <1>5, <2>1, <2>2
<1>6. CASE ~ (k <= n)
  <2>1. at = {}
    BY <1>3, <1>6, <1>1
  <2> QED BY <1>4, <1>6, <2>1
<1> QED BY <1>5, <1>6

LEMMA ChunkingAgrees ==
  ASSUME NEW file, NEW s \in ReadItems, NEW st \in ToSet(s.ctx), st.key = "chunking",
         SetOnce(s, "chunking", "semantic"), Labelled(st, <<"max_tokens", "overlap">>)
  PROVE  Meta(file, s).context.chunking = Semantic(ArgNamed(st, "max_tokens", 512), ArgNamed(st, "overlap", 64))
<1>1. PICK i \in DOMAIN s.ctx :
         /\ i \in Nat /\ s.ctx[i] \in Statements
         /\ \A j \in DOMAIN s.ctx : s.ctx[j].key = "chunking" <=> j = i
         /\ s.ctx[i].key = "chunking" /\ s.ctx[i].call = "semantic"
         /\ Literals(s.ctx[i], {"int"}) = 1 .. Len(s.ctx[i].args)
         /\ Sets(s.ctx[i]) => Given(s, "chunking") = {i} /\ Setting(s, "chunking") = s.ctx[i]
  BY OnceFacts
<1>2. st = s.ctx[i]
  BY <1>1 DEF ToSet
<1>3. Given(s, "chunking") = {i} /\ Setting(s, "chunking") = st
  <2>1. Sets(st)
    BY <1>1, <1>2 DEF Sets
  <2> QED BY <1>1, <1>2, <2>1
<1>4. Meta(file, s).context.chunking = Chunking(st)
  <2>1. ContextMeta(s).chunking = Chunking(st)
    BY <1>3 DEF ContextMeta
  <2> QED BY <2>1 DEF Meta
<1>5. Chunking(st) = Semantic(NthInt(st, 1, 512), NthInt(st, 2, 64))
  BY <1>1, <1>2 DEF Chunking
<1> DEFINE n == Len(st.args)
<1>6. st \in Statements /\ st.args \in Seq([label : STRING, kind : STRING, n : Int]) /\ n \in Nat
  BY <1>1, <1>2 DEF Statements
<1>7. n <= 2 /\ \A k \in 1 .. n : st.args[k].label = <<"max_tokens", "overlap">>[k]
  BY <1>6 DEF Labelled
<1>8. /\ 1 <= n => st.args[1].label = "max_tokens"
      /\ 2 <= n => st.args[2].label = "overlap"
  BY <1>6, <1>7
<1>9. ToSet(st.args) = {st.args[k] : k \in 1 .. n}
  BY <1>6 DEF ToSet
<1>10. \A a \in ToSet(st.args) : \/ 1 <= n /\ a = st.args[1] /\ a.label = "max_tokens"
                                 \/ 2 <= n /\ a = st.args[2] /\ a.label = "overlap"
  <2> SUFFICES ASSUME NEW k \in 1 .. n
               PROVE  \/ 1 <= n /\ st.args[k] = st.args[1] /\ st.args[k].label = "max_tokens"
                      \/ 2 <= n /\ st.args[k] = st.args[2] /\ st.args[k].label = "overlap"
    BY <1>9
  <2>1. k = 1 \/ k = 2
    BY <1>6, <1>7
  <2> QED BY <1>6, <1>8, <2>1
<1> HIDE DEF n
<1>11. ArgNamed(st, "max_tokens", 512) = IF 1 <= n THEN st.args[1].n ELSE 512
  <2>1. CASE 1 <= n
    <3>1. st.args[1] \in ToSet(st.args) /\ st.args[1].label = "max_tokens"
      BY <1>6, <1>8, <1>9, <2>1
    <3>2. \A a \in ToSet(st.args) : a.label = "max_tokens" => a = st.args[1]
      BY <1>10
    <3> QED BY <2>1, <3>1, <3>2 DEF ArgNamed
  <2>2. CASE ~ (1 <= n)
    <3>1. \A a \in ToSet(st.args) : a.label # "max_tokens"
      BY <1>10, <2>2
    <3> QED BY <2>2, <3>1 DEF ArgNamed
  <2> QED BY <2>1, <2>2
<1>12. ArgNamed(st, "overlap", 64) = IF 2 <= n THEN st.args[2].n ELSE 64
  <2>1. CASE 2 <= n
    <3>1. st.args[2] \in ToSet(st.args) /\ st.args[2].label = "overlap"
      BY <1>6, <1>8, <1>9, <2>1
    <3>2. \A a \in ToSet(st.args) : a.label = "overlap" => a = st.args[2]
      BY <1>10
    <3> QED BY <2>1, <3>1, <3>2 DEF ArgNamed
  <2>2. CASE ~ (2 <= n)
    <3>1. \A a \in ToSet(st.args) : a.label # "overlap"
      BY <1>10, <2>2
    <3> QED BY <2>2, <3>1 DEF ArgNamed
  <2> QED BY <2>1, <2>2
<1>13. NthInt(st, 1, 512) = (IF 1 <= n THEN st.args[1].n ELSE 512)
       /\ NthInt(st, 2, 64) = (IF 2 <= n THEN st.args[2].n ELSE 64)
  BY <1>1, <1>2, <1>6, NthFacts DEF n
<1> QED BY <1>4, <1>5, <1>11, <1>12, <1>13

-----------------------------------------------------------------------------
(* The apply that is under way.                                                *)

(* It is of a file that compiles, and stands at one of its schemas.            *)
CliOK ==
    cli # Idle =>
        /\ cli = [pc |-> cli.pc, file |-> cli.file, at |-> cli.at]
        /\ cli.pc \in {"register", "ddl"}
        /\ cli.file \in Files /\ Compiles(cli.file)
        /\ cli.at \in SchemasAt(cli.file)

LEMMA FileType == ASSUME NEW file \in Files PROVE file \in SourceFiles
  BY DeployAssumption

LEMMA Busy == (cli.pc = "register" => cli # Idle) /\ (cli.pc = "ddl" => cli # Idle)
  BY DEF Idle

(* The first and the next schema of a file.                                    *)
LEMMA FirstSchema ==
  ASSUME NEW file \in Files, NEW S \in SUBSET SchemasAt(file), S # {}
  PROVE  Min(S) \in S /\ \A j \in S : Min(S) <= j
<1>1. SchemasAt(file) \in SUBSET Nat
  <2>1. SchemasAt(file) \subseteq 1 .. Len(Decls(file)) /\ Decls(file) \in Seq(ReadItems)
    BY FileType, DeclsType
  <2> QED BY <2>1
<1> QED BY <1>1, MinFacts

LEMMA CliInit == Init => CliOK
  BY DEF Init, CliOK

LEMMA CliNext == CliOK /\ [Next]_vars => CliOK'
<1> SUFFICES ASSUME CliOK, [Next]_vars PROVE CliOK'
  OBVIOUS
<1>1. ASSUME NEW file \in Files, Apply(file) PROVE CliOK'
  <2>1. CASE Compiles(file) /\ SchemasAt(file) # {}
    <3>1. cli' = [pc |-> "register", file |-> file, at |-> Min(SchemasAt(file))]
      BY <1>1, <2>1 DEF Apply
    <3>2. Min(SchemasAt(file)) \in SchemasAt(file)
      BY <2>1, FirstSchema
    <3> QED BY <2>1, <3>1, <3>2 DEF CliOK
  <2>2. CASE ~ (Compiles(file) /\ SchemasAt(file) # {})
    BY <1>1, <2>2 DEF Apply, CliOK
  <2> QED BY <2>1, <2>2
<1>2. CASE Register
  <2>1. cli # Idle /\ cli' = [cli EXCEPT !.pc = "ddl"]
    BY <1>2, Busy DEF Register, Registering
  <2>2. cli' = [pc |-> "ddl", file |-> cli.file, at |-> cli.at]
    BY <2>1 DEF CliOK
  <2> QED BY <2>1, <2>2 DEF CliOK
<1>3. CASE RegisterUnanswered \/ RegisterFails \/ DdlRejected \/ DdlUnanswered
  BY <1>3 DEF RegisterUnanswered, RegisterFails, DdlRejected, DdlUnanswered, GiveUp, CliOK
<1>4. CASE DdlApplied
  <2>1. cli # Idle
    BY <1>4, Busy DEF DdlApplied
  <2>2. CASE Later # {}
    <3>1. cli' = [cli EXCEPT !.pc = "register", !.at = Min(Later)]
      BY <1>4, <2>2 DEF DdlApplied
    <3>2. cli' = [pc |-> "register", file |-> cli.file, at |-> Min(Later)]
      BY <2>1, <3>1 DEF CliOK
    <3>3. Min(Later) \in SchemasAt(cli.file)
      BY <2>1, <2>2, FirstSchema DEF CliOK, Later
    <3> QED BY <2>1, <3>2, <3>3 DEF CliOK
  <2>3. CASE Later = {}
    BY <1>4, <2>3 DEF DdlApplied, CliOK
  <2> QED BY <2>2, <2>3
<1>5. CASE UNCHANGED vars
  BY <1>5 DEF vars, CliOK
<1> QED BY <1>1, <1>2, <1>3, <1>4, <1>5 DEF Next

(* Whatever files there are, what one compilation says in several places       *)
(* agrees whenever the command line has compiled one.                          *)
THEOREM OneCompilationAgrees == Spec => []ArtifactsAgree
<1>1. CliOK => ArtifactsAgree
  <2> SUFFICES ASSUME CliOK, cli # Idle, NEW s \in Schemas(cli.file) PROVE Agrees(cli.file, s)
    BY DEF ArtifactsAgree
  <2> DEFINE file == cli.file
             meta == Meta(file, s)
             manifest == Manifest(file, s)
             constants == RustConstants(file, s)
  <2>1. file \in SourceFiles /\ Compiles(file) /\ s \in Schemas(file) /\ s \in ReadItems
    BY FileType, CompiledFacts DEF CliOK
  <2> HIDE DEF file
  <2>2. TypescriptShape(s) = PythonShape(s) /\ TypescriptShape(s) = {m \in RustShape(s) : m.sort # "missing"}
    BY <2>1, ShapesAgree
  <2>3. \A m \in TypescriptShape(s) : \E c \in ToSet(Columns(s)) :
           /\ c.name = m.name
           /\ Named(s, m.name) # {} /\ m.name # PrimaryKey(s) => c.filled = m.opt
    BY <2>1, MembersAreColumns
  <2>4. {c.name : c \in {d \in ToSet(Columns(s)) : ~ d.filled}} = manifest.record.required \cup {PrimaryKey(s)}
    BY <2>1, RequiredColumns
  <2>5. /\ constants = TypescriptMeta(file, s) /\ constants = PythonMeta(file, s)
        /\ <<constants.namespace, s.name>> = meta.name /\ constants.table = meta.table
        /\ constants.version = meta.version /\ constants.primary = meta.primary
        /\ {f[1] : f \in manifest.filters} = meta.facets
    BY ConstantsAgree
  <2>6. \A r \in constants.relations :
           Single(s, r[1]) => r[2] = meta.relations[r[1]].target[2] /\ Last(meta.relations[r[1]].fk) = r[3]
    BY <2>1, RelationsAgree
  <2>7. (\A r \in ToSet(s.rels) : Single(s, r.name)) =>
           {<<t.kind, t.arg>> : t \in manifest.tools} = {<<t.kind, t.arg>> : t \in SchemaTools(meta)}
    BY <2>1, ToolsAgree
  <2>8. \A p \in VectorPlan(s) :
           p.version = meta.version /\ (SetOnce(s, "vector_dims", Empty) => p.dims = {meta.context.dims})
    BY <2>1, VectorPlanAgrees
  <2>9. SetOnce(s, "default_top_k", Empty) => meta.context.topK = {manifest.topK}
    BY <2>1, TopKAgrees
  <2>10. \A st \in ToSet(s.ctx) :
            st.key = "chunking" /\ SetOnce(s, "chunking", "semantic") /\ Labelled(st, <<"max_tokens", "overlap">>) =>
               meta.context.chunking = Semantic(ArgNamed(st, "max_tokens", 512), ArgNamed(st, "overlap", 64))
    BY <2>1, ChunkingAgrees
  <2> HIDE DEF meta, manifest, constants
  <2>11. Agrees(file, s)
    BY <2>2, <2>3, <2>4, <2>5, <2>6, <2>7, <2>8, <2>9, <2>10 DEF Agrees, meta, manifest, constants
  <2> QED BY <2>11 DEF file
<1> QED BY <1>1, CliInit, CliNext, PTL DEF Spec

-----------------------------------------------------------------------------
(* What holds of the database and of the registries at every moment. A         *)
(* database is meant as it is, or as it is behind a statement that succeeded.  *)

(* A table has the columns of the schema that made it, which Postgres took;    *)
(* its indexes are there, and no index is of a table that is not.              *)
TableOK(db, t) ==
    LET by == db.tables[t].by
    IN  /\ db.tables[t] = [columns |-> Columns(by), by |-> by]
        /\ by \in ReadItems /\ TableName(by) = t
        /\ Distinct(by.fields)
        /\ Legal({c.name : c \in ToSet(Columns(by))}, t)
        /\ Named(by, "body") = {} => Having(by, "chunked") = {}
        /\ Indexes(by) \subseteq db.indexes
DatabaseOK(db) ==
    /\ \A t \in DOMAIN db.tables : TableOK(db, t)
    /\ \A index \in db.indexes : index.table \in DOMAIN db.tables

(* What is registered under a name is the metadata of a schema of a file that  *)
(* compiles, and the history knows which schema.                               *)
EntryOK(q) ==
    \E file \in Files : \E s \in Schemas(file) :
        /\ Compiles(file)
        /\ q = Qualified(file, s) /\ metas[q] = Meta(file, s)
        /\ source[q] \in [schema : {s}, ok : BOOLEAN]
RegistryOK ==
    /\ DOMAIN metas = DOMAIN source
    /\ \A q \in DOMAIN source : EntryOK(q)
    /\ \A n \in DOMAIN tools : tools[n].kind \in Kinds \cup {"relation", "aggregate"}

(* A schema whose apply has reported success has a table of its name.          *)
TablesServed == \A q \in DOMAIN source : source[q].ok => Snake(q[2]) \in DOMAIN tables

DeployInv == CliOK /\ DatabaseOK(Database) /\ RegistryOK /\ TablesServed

-----------------------------------------------------------------------------
(* Running the statements of a file.                                           *)

(* The database behind a declaration is what running it makes of the one       *)
(* before it: some function on the positions says so, by induction over how    *)
(* far it does.                                                                *)
LEMMA ExecutedFacts ==
  ASSUME NEW file \in SourceFiles
  PROVE  /\ Executed(file)[0] = Database
         /\ \A n \in 1 .. Len(Decls(file)) :
               Executed(file)[n] =
                 IF n \in SchemasAt(file) /\ Executed(file)[n - 1].ok
                 THEN RunSchema(Executed(file)[n - 1], Decls(file)[n])
                 ELSE Executed(file)[n - 1]
<1> DEFINE N == Len(Decls(file))
           Behind(db, n) == IF n \in SchemasAt(file) /\ db.ok THEN RunSchema(db, Decls(file)[n]) ELSE db
           Value(g, n) == IF n = 0 THEN Database ELSE Behind(g[n - 1], n)
           Until(g, m) == g = [n \in 0 .. N |-> g[n]] /\ \A n \in 0 .. m : g[n] = Value(g, n)
           Missing == {m \in 0 .. N : ~ \E g : Until(g, m)}
<1>1. N \in Nat
  BY DeclsType
<1> HIDE DEF N
<1>2. Missing = {}
  <2> SUFFICES ASSUME Missing # {} PROVE FALSE
    OBVIOUS
  <2>1. Missing \in SUBSET Nat
    BY <1>1
  <2> DEFINE m == Min(Missing)
  <2>2. m \in Missing /\ \A k \in Missing : m <= k
    <3> HIDE DEF Missing
    <3> QED BY <2>1, MinFacts
  <2>3. m \in 0 .. N /\ ~ \E g : Until(g, m)
    BY <2>2
  <2> HIDE DEF m, Value
  <2>4. CASE m = 0
    <3> DEFINE g == [n \in 0 .. N |-> Database]
    <3>1. Until(g, 0)
      BY <1>1 DEF Value
    <3> QED BY <2>3, <2>4, <3>1
  <2>5. CASE m # 0
    <3>1. m - 1 \in 0 .. N /\ m - 1 \notin Missing
      <4> HIDE DEF Missing
      <4> QED BY <1>1, <2>2, <2>3, <2>5
    <3>2. PICK g : Until(g, m - 1)
      BY <3>1
    <3> DEFINE h == [n \in 0 .. N |-> IF n = m THEN Value(g, m) ELSE g[n]]
    <3>3. \A n \in 0 .. m : Value(h, n) = Value(g, n)
      <4> SUFFICES ASSUME NEW n \in 0 .. m PROVE Value(h, n) = Value(g, n)
        OBVIOUS
      <4>1. CASE n = 0
        BY <4>1 DEF Value
      <4>2. CASE n # 0
        <5>1. n - 1 \in 0 .. N /\ n - 1 # m
          BY <1>1, <2>3, <4>2
        <5>2. h[n - 1] = g[n - 1]
          BY <5>1
        <5> QED BY <4>2, <5>2 DEF Value
      <4> QED BY <4>1, <4>2
    <3>4. \A n \in 0 .. m : h[n] = Value(g, n)
      BY <1>1, <2>3, <3>2
    <3>5. h = [n \in 0 .. N |-> h[n]]
      OBVIOUS
    <3> HIDE DEF h
    <3>6. Until(h, m)
      BY <3>3, <3>4, <3>5
    <3> QED BY <2>3, <3>6
  <2> QED BY <2>4, <2>5
<1>3. PICK g : Until(g, N)
  <2>1. N \in 0 .. N /\ N \notin Missing
    BY <1>1, <1>2
  <2> HIDE DEF Until
  <2> QED BY <2>1
<1>4. Executed(file) =
        CHOOSE f : f = [n \in 0 .. N |-> IF n = 0 THEN Database
                                         ELSE IF n \in SchemasAt(file) /\ f[n - 1].ok
                                         THEN RunSchema(f[n - 1], Decls(file)[n])
                                         ELSE f[n - 1]]
  BY DEF Executed, N
<1>5. g = [n \in 0 .. N |-> IF n = 0 THEN Database
                            ELSE IF n \in SchemasAt(file) /\ g[n - 1].ok
                            THEN RunSchema(g[n - 1], Decls(file)[n])
                            ELSE g[n - 1]]
  BY <1>3
<1>6. Executed(file) =
        [n \in 0 .. N |-> IF n = 0 THEN Database
                          ELSE IF n \in SchemasAt(file) /\ Executed(file)[n - 1].ok
                          THEN RunSchema(Executed(file)[n - 1], Decls(file)[n])
                          ELSE Executed(file)[n - 1]]
  BY <1>4, <1>5
<1> HIDE DEF Until, Missing
<1>7. Executed(file)[0] = Database
  <2>1. 0 \in 0 .. N
    BY <1>1
  <2> QED BY <1>6, <2>1
<1>8. \A n \in 1 .. N : n \in 0 .. N /\ n # 0
  BY <1>1
<1>9. \A n \in 1 .. N :
         Executed(file)[n] = IF n \in SchemasAt(file) /\ Executed(file)[n - 1].ok
                             THEN RunSchema(Executed(file)[n - 1], Decls(file)[n])
                             ELSE Executed(file)[n - 1]
  <2> SUFFICES ASSUME NEW n \in 1 .. N
               PROVE  Executed(file)[n] = IF n \in SchemasAt(file) /\ Executed(file)[n - 1].ok
                             THEN RunSchema(Executed(file)[n - 1], Decls(file)[n])
                             ELSE Executed(file)[n - 1]
    OBVIOUS
  <2> QED BY <1>6, <1>8
<1> QED BY <1>7, <1>9 DEF N

(* A database as the statements find it.                                       *)
IsDatabase(db) ==
    /\ db = [ok |-> db.ok, tables |-> db.tables, indexes |-> db.indexes]
    /\ db.ok \in BOOLEAN

(* When the statements of a schema succeed.                                    *)
Creatable(db, s) ==
    /\ Legal({c.name : c \in ToSet(Columns(s))}, TableName(s))
    /\ TableName(s) \in DOMAIN db.tables \/ CreateRuns(db, s)
IndexesPass(db, made, s) == \A index \in Indexes(s) \ db.indexes : IndexRuns(made, index)

(* Nothing is taken from a database or replaced in it.                         *)
Keeps(old, new) == \A t \in DOMAIN old.tables : new.tables[t] = old.tables[t]

LEMMA DatabaseUpdates ==
  ASSUME NEW db, IsDatabase(db)
  PROVE  /\ Failed(db) = [ok |-> FALSE, tables |-> db.tables, indexes |-> db.indexes]
         /\ \A x : [db EXCEPT !.tables = x] = [ok |-> db.ok, tables |-> x, indexes |-> db.indexes]
         /\ \A x : [db EXCEPT !.indexes = x] = [ok |-> db.ok, tables |-> db.tables, indexes |-> x]
<1>1. ASSUME NEW a, NEW b, NEW c, db = [ok |-> a, tables |-> b, indexes |-> c]
      PROVE  /\ \A x : [db EXCEPT !.ok = x] = [ok |-> x, tables |-> b, indexes |-> c]
             /\ \A x : [db EXCEPT !.tables = x] = [ok |-> a, tables |-> x, indexes |-> c]
             /\ \A x : [db EXCEPT !.indexes = x] = [ok |-> a, tables |-> b, indexes |-> x]
  <2>1. ASSUME NEW x PROVE [db EXCEPT !.ok = x] = [ok |-> x, tables |-> b, indexes |-> c]
    BY <1>1
  <2>2. ASSUME NEW x PROVE [db EXCEPT !.tables = x] = [ok |-> a, tables |-> x, indexes |-> c]
    BY <1>1
  <2>3. ASSUME NEW x PROVE [db EXCEPT !.indexes = x] = [ok |-> a, tables |-> b, indexes |-> x]
    BY <1>1
  <2> QED BY <2>1, <2>2, <2>3
<1>2. db = [ok |-> db.ok, tables |-> db.tables, indexes |-> db.indexes]
  BY DEF IsDatabase
<1>3. /\ \A x : [db EXCEPT !.ok = x] = [ok |-> x, tables |-> db.tables, indexes |-> db.indexes]
      /\ \A x : [db EXCEPT !.tables = x] = [ok |-> db.ok, tables |-> x, indexes |-> db.indexes]
      /\ \A x : [db EXCEPT !.indexes = x] = [ok |-> db.ok, tables |-> db.tables, indexes |-> x]
  BY <1>1, <1>2, Zenon
<1> QED BY <1>3, Zenon DEF Failed

LEMMA RunCreateFacts ==
  ASSUME NEW db, IsDatabase(db), db.ok, NEW s, NEW made, made = RunCreate(db, s)
  PROVE  /\ IsDatabase(made) /\ made.indexes = db.indexes
         /\ made.ok <=> Creatable(db, s)
         /\ made.ok /\ TableName(s) \in DOMAIN db.tables => made.tables = db.tables
         /\ made.ok /\ TableName(s) \notin DOMAIN db.tables =>
               made.tables = Put(db.tables, TableName(s), [columns |-> Columns(s), by |-> s])
<1> DEFINE L == Legal({c.name : c \in ToSet(Columns(s))}, TableName(s))
           new == Put(db.tables, TableName(s), [columns |-> Columns(s), by |-> s])
<1>1. CASE ~ L \/ (TableName(s) \notin DOMAIN db.tables /\ ~ CreateRuns(db, s))
  <2>1. made = Failed(db)
    BY <1>1 DEF RunCreate
  <2>2. made = [ok |-> FALSE, tables |-> db.tables, indexes |-> db.indexes]
    BY <2>1, DatabaseUpdates
  <2> HIDE DEF L, new
  <2> QED BY <1>1, <2>2 DEF L, IsDatabase, Creatable
<1>2. CASE L /\ TableName(s) \in DOMAIN db.tables
  <2>1. made = db
    BY <1>2 DEF RunCreate
  <2> HIDE DEF L, new
  <2> QED BY <1>2, <2>1 DEF L, Creatable
<1>3. CASE L /\ TableName(s) \notin DOMAIN db.tables /\ CreateRuns(db, s)
  <2>1. made = [db EXCEPT !.tables = new]
    BY <1>3 DEF RunCreate
  <2> HIDE DEF L, new
  <2>2. made = [ok |-> db.ok, tables |-> new, indexes |-> db.indexes]
    BY <2>1, DatabaseUpdates
  <2> QED BY <1>3, <2>2 DEF L, new, IsDatabase, Creatable
<1> HIDE DEF L, new
<1> QED BY <1>1, <1>2, <1>3

LEMMA RunSchemaFacts ==
  ASSUME NEW db, IsDatabase(db), db.ok, NEW s,
         NEW made, made = RunCreate(db, s), NEW after, after = RunSchema(db, s)
  PROVE  /\ IsDatabase(after)
         /\ after.ok <=> made.ok /\ IndexesPass(db, made, s)
         /\ after.ok => after.tables = made.tables /\ after.indexes = db.indexes \cup Indexes(s)
<1> DEFINE I == IndexesPass(db, made, s)
<1> HIDE DEF I
<1>1. IsDatabase(made) /\ made.indexes = db.indexes
  BY RunCreateFacts
<1>2. after = IF made.ok THEN RunIndexes(made, s) ELSE made
  BY DEF RunSchema
<1>3. RunIndexes(made, s) = IF I THEN [made EXCEPT !.indexes = @ \cup Indexes(s)] ELSE Failed(made)
  BY <1>1 DEF RunIndexes, IndexesPass, I
<1>4. [made EXCEPT !.indexes = @ \cup Indexes(s)]
        = [ok |-> made.ok, tables |-> made.tables, indexes |-> db.indexes \cup Indexes(s)]
  <2>1. \A x : [made EXCEPT !.indexes = x] = [ok |-> made.ok, tables |-> made.tables, indexes |-> x]
    BY <1>1, DatabaseUpdates
  <2> QED BY <1>1, <2>1
<1>5. Failed(made) = [ok |-> FALSE, tables |-> made.tables, indexes |-> db.indexes]
  BY <1>1, DatabaseUpdates
<1>6. CASE ~ made.ok
  BY <1>1, <1>2, <1>6
<1>7. CASE made.ok /\ I
  <2>1. after = [ok |-> made.ok, tables |-> made.tables, indexes |-> db.indexes \cup Indexes(s)]
    BY <1>2, <1>3, <1>4, <1>7
  <2> QED BY <1>1, <1>7, <2>1 DEF I, IsDatabase
<1>8. CASE made.ok /\ ~ I
  <2>1. after = [ok |-> FALSE, tables |-> made.tables, indexes |-> db.indexes]
    BY <1>2, <1>3, <1>5, <1>8
  <2> QED BY <1>8, <2>1 DEF I, IsDatabase
<1> QED BY <1>6, <1>7, <1>8

(* A column is the one field of its name, or was added for want of one.        *)
LEMMA ColumnFacts ==
  ASSUME NEW s \in ReadItems, Distinct(s.fields)
  PROVE  /\ \A f \in FieldsOf(s) :
              /\ Column(f) \in ToSet(Columns(s))
              /\ \A c \in ToSet(Columns(s)) : c.name = f.name => c = Column(f)
              /\ \A g \in FieldsOf(s) : g.name = f.name => g = f
         /\ \A c \in ToSet(Columns(s)) : Named(s, c.name) = {} => c \in Added(s)
         /\ \A c \in Added(s) : c \in ToSet(Columns(s)) /\ Named(s, c.name) = {}
<1>1. ToSet(Columns(s)) = {Column(f) : f \in FieldsOf(s)} \cup Added(s)
  BY ColumnsFacts
<1>2. \A c \in Added(s) : Named(s, c.name) = {}
  BY ConventionFacts DEF Added, NeedsBody
<1>3. \A f, g \in FieldsOf(s) : g.name = f.name => g = f
  BY FieldFacts DEF Distinct
<1>4. \A f \in FieldsOf(s) : Column(f).name = f.name /\ f \in Named(s, f.name)
  BY ColumnType DEF Named
<1>5. \A f \in FieldsOf(s) : \A c \in ToSet(Columns(s)) : c.name = f.name => c = Column(f)
  BY <1>1, <1>2, <1>3, <1>4
<1>6. \A c \in ToSet(Columns(s)) : Named(s, c.name) = {} => c \in Added(s)
  BY <1>1, <1>4
<1> QED BY <1>1, <1>2, <1>3, <1>5, <1>6

(* What the source has to say for the indexes of a table to be made.           *)
Indexable(s) ==
    /\ \A f \in FieldsOf(s) : "searchable" \in f.deco \/ f.name = "body" => SqlType(f.ty) \in {"text", "jsonb"}
    /\ Named(s, "body") = {} => Having(s, "chunked") = {}

LEMMA IndexesOf ==
  ASSUME NEW s
  PROVE  \A index \in Indexes(s) : index.table = TableName(s)
  BY DEF Indexes, Index

LEMMA IndexesRunWhen ==
  ASSUME NEW s \in ReadItems, Distinct(s.fields),
         NEW db, db.tables[TableName(s)].columns = Columns(s)
  PROVE  (\A index \in Indexes(s) : IndexRuns(db, index)) <=> Indexable(s)
<1> DEFINE Found(how, column) ==
             \E c \in ToSet(Columns(s)) : c.name = column /\ (how = "fts" => c.type \in {"text", "jsonb"})
<1>1. ASSUME NEW how, NEW column
      PROVE  IndexRuns(db, Index(s, how, column)) <=> Found(how, column)
  BY DEF IndexRuns, Index, ColumnsOf
<1>2. (\A index \in Indexes(s) : IndexRuns(db, index)) <=>
         /\ Found("btree", "tenant") /\ Found("fts", "body")
         /\ \A f \in Having(s, "indexed") : Found("btree", f.name)
         /\ \A f \in Having(s, "searchable") : Found("fts", f.name)
  <2> HIDE DEF Found
  <2> QED BY <1>1 DEF Indexes
<1>3. \A f \in FieldsOf(s) : Found("btree", f.name)
  BY ColumnFacts, ColumnType
<1>4. \A f \in FieldsOf(s) : Found("fts", f.name) <=> SqlType(f.ty) \in {"text", "jsonb"}
  BY ColumnFacts, ColumnType
<1>5. Found("btree", "tenant")
  <2>1. CASE Named(s, "tenant") = {}
    BY <2>1, ColumnFacts, ColumnsFacts, ConventionFacts DEF Added
  <2>2. CASE Named(s, "tenant") # {}
    <3>1. PICK f \in FieldsOf(s) : f.name = "tenant"
      BY <2>2 DEF Named
    <3> HIDE DEF Found
    <3> QED BY <1>3, <3>1
  <2> QED BY <2>1, <2>2
<1>6. Found("fts", "body") <=>
        /\ \A f \in FieldsOf(s) : f.name = "body" => SqlType(f.ty) \in {"text", "jsonb"}
        /\ Named(s, "body") = {} => Having(s, "chunked") = {}
  <2>1. CASE Named(s, "body") = {}
    <3>1. Body \in Added(s) <=> Having(s, "chunked") = {}
      BY <2>1 DEF Added, NeedsBody
    <3>2. Found("fts", "body") <=> Body \in Added(s)
      <4>1. ASSUME Body \in Added(s) PROVE Found("fts", "body")
        BY <4>1, ColumnFacts, ConventionFacts
      <4>2. ASSUME Found("fts", "body") PROVE Body \in Added(s)
        <5>1. PICK c \in ToSet(Columns(s)) : c.name = "body"
          BY <4>2
        <5>2. c \in Added(s)
          BY <2>1, <5>1, ColumnFacts
        <5> QED BY <5>1, <5>2, ConventionFacts DEF Added
      <4> QED BY <4>1, <4>2
    <3>3. \A f \in FieldsOf(s) : f.name # "body"
      BY <2>1 DEF Named
    <3> HIDE DEF Found
    <3> QED BY <2>1, <3>1, <3>2, <3>3
  <2>2. CASE Named(s, "body") # {}
    <3>1. PICK f \in FieldsOf(s) : f.name = "body"
      BY <2>2 DEF Named
    <3>2. \A g \in FieldsOf(s) : g.name = "body" => g = f
      BY <3>1, ColumnFacts
    <3> HIDE DEF Found
    <3> QED BY <1>4, <2>2, <3>1, <3>2
  <2> QED BY <2>1, <2>2
<1> HIDE DEF Found
<1>7. ASSUME NEW f PROVE f \in Having(s, "searchable") <=> f \in FieldsOf(s) /\ "searchable" \in f.deco
  BY DEF Having
<1>8. \A f \in Having(s, "indexed") : Found("btree", f.name)
  BY <1>3 DEF Having
<1> QED BY <1>2, <1>4, <1>5, <1>6, <1>7, <1>8 DEF Indexable

(* A schema whose statements succeed leaves a database in order, with its      *)
(* table and indexes in it and nothing else touched.                           *)
LEMMA RunSchemaKeeps ==
  ASSUME NEW db, IsDatabase(db), db.ok, DatabaseOK(db), NEW s \in ReadItems,
         NEW after, after = RunSchema(db, s), after.ok
  PROVE  /\ DatabaseOK(after)
         /\ DOMAIN after.tables = DOMAIN db.tables \cup {TableName(s)}
         /\ Keeps(db, after)
         /\ TableName(s) \notin DOMAIN db.tables =>
               after.tables[TableName(s)] = [columns |-> Columns(s), by |-> s]
<1> DEFINE made == RunCreate(db, s)
           T == TableName(s)
           new == [columns |-> Columns(s), by |-> s]
<1>1. /\ made.ok /\ \A index \in Indexes(s) \ db.indexes : IndexRuns(made, index)
      /\ after.tables = made.tables /\ after.indexes = db.indexes \cup Indexes(s)
  BY RunSchemaFacts DEF IndexesPass
<1>2. Legal({c.name : c \in ToSet(Columns(s))}, T) /\ (T \in DOMAIN db.tables \/ CreateRuns(db, s))
  BY <1>1, RunCreateFacts DEF Creatable
<1>3. T \in DOMAIN db.tables => made.tables = db.tables
  BY <1>1, RunCreateFacts
<1>4. T \notin DOMAIN db.tables => made.tables = Put(db.tables, T, new)
  BY <1>1, RunCreateFacts
<1> HIDE DEF made, T
<1>5. /\ DOMAIN after.tables = DOMAIN db.tables \cup {T}
      /\ \A t \in DOMAIN db.tables : after.tables[t] = db.tables[t]
      /\ T \notin DOMAIN db.tables => after.tables[T] = new
  <2>1. CASE T \in DOMAIN db.tables
    BY <1>1, <1>3, <2>1
  <2>2. CASE T \notin DOMAIN db.tables
    <3> HIDE DEF new
    <3> QED BY <1>1, <1>4, <2>2 DEF Put
  <2> QED BY <2>1, <2>2
<1>6. \A index \in after.indexes : index.table \in DOMAIN after.tables
  BY <1>1, <1>5, IndexesOf DEF T, DatabaseOK
<1>7. ASSUME NEW t \in DOMAIN db.tables PROVE TableOK(after, t)
  BY <1>1, <1>5 DEF DatabaseOK, TableOK
<1>8. ASSUME T \notin DOMAIN db.tables PROVE TableOK(after, T)
  <2>1. after.tables[T] = new
    BY <1>5, <1>8
  <2>2. Distinct(s.fields)
    BY <1>2, <1>8, ColumnsFacts DEF CreateRuns
  <2>3. \A index \in Indexes(s) : index \notin db.indexes
    BY <1>8, IndexesOf DEF T, DatabaseOK
  <2>4. Indexable(s)
    <3>1. made.tables[TableName(s)].columns = Columns(s)
      BY <1>1, <2>1 DEF T
    <3> QED BY <1>1, <2>2, <2>3, <3>1, IndexesRunWhen
  <2>5. new.by = s /\ new.columns = Columns(s)
    OBVIOUS
  <2> HIDE DEF new
  <2> QED BY <1>1, <1>2, <2>1, <2>2, <2>4, <2>5 DEF TableOK, Indexable, T, new
<1>9. DatabaseOK(after)
  BY <1>5, <1>6, <1>7, <1>8 DEF DatabaseOK
<1> QED BY <1>5, <1>9 DEF T, Keeps

(* Induction over positions.                                                   *)
LEMMA UpTo ==
  ASSUME NEW N \in Nat, NEW S \in SUBSET (0 .. N), 0 \in S,
         \A n \in 1 .. N : n - 1 \in S => n \in S
  PROVE  S = 0 .. N
<1> DEFINE Rest == (0 .. N) \ S
<1>1. ASSUME Rest # {} PROVE FALSE
  <2>1. Rest \in SUBSET Nat
    OBVIOUS
  <2> HIDE DEF Rest
  <2>2. Min(Rest) \in Rest /\ \A y \in Rest : Min(Rest) <= y
    BY <1>1, <2>1, MinFacts
  <2>3. PICK m \in Rest : \A y \in Rest : m <= y
    BY <2>2
  <2>4. m \in 1 .. N /\ m \notin S
    BY <2>3 DEF Rest
  <2>5. m - 1 \in S
    BY <2>3, <2>4 DEF Rest
  <2> QED BY <2>4, <2>5
<1> QED BY <1>1

(* The schemas up to a position.                                               *)
UpToAt(file, n) == {j \in SchemasAt(file) : j <= n}

(* Behind any declaration, if nothing has failed, the database is in order and *)
(* has what it had, and the tables of the schemas so far.                      *)
LEMMA ExecutedKeeps ==
  ASSUME NEW file \in SourceFiles, DatabaseOK(Database), NEW n \in 0 .. Len(Decls(file))
  PROVE  LET db == Executed(file)[n]
         IN  /\ IsDatabase(db)
             /\ db.ok =>
                  /\ DatabaseOK(db)
                  /\ DOMAIN db.tables = DOMAIN tables \cup {TableName(Decls(file)[j]) : j \in UpToAt(file, n)}
                  /\ Keeps(Database, db)
<1> DEFINE N == Len(Decls(file))
           D == Decls(file)
           E == Executed(file)
           P(m) == /\ IsDatabase(E[m])
                   /\ E[m].ok =>
                        /\ DatabaseOK(E[m])
                        /\ DOMAIN E[m].tables = DOMAIN tables \cup {TableName(D[j]) : j \in UpToAt(file, m)}
                        /\ Keeps(Database, E[m])
<1>1. N \in Nat /\ SchemasAt(file) \subseteq 1 .. N
  BY DeclsType
<1>2. \A j \in SchemasAt(file) : D[j] \in ReadItems
  BY DeclsType DEF Schemas
<1>3. /\ E[0] = Database
      /\ \A m \in 1 .. N : E[m] = IF m \in SchemasAt(file) /\ E[m - 1].ok THEN RunSchema(E[m - 1], D[m]) ELSE E[m - 1]
  BY ExecutedFacts
<1> HIDE DEF N, D, E
<1>4. P(0)
  <2>1. UpToAt(file, 0) = {}
    BY <1>1 DEF UpToAt
  <2>2. IsDatabase(Database) /\ Database.tables = tables
    BY DEF IsDatabase, Database
  <2>3. Keeps(Database, Database)
    BY DEF Keeps
  <2> QED BY <1>3, <2>1, <2>2, <2>3
<1>5. ASSUME NEW m \in 1 .. N, P(m - 1) PROVE P(m)
  <2>0. m - 1 <= m /\ m \in Nat
    OBVIOUS
  <2>1. CASE m \in SchemasAt(file) /\ E[m - 1].ok
    <3> DEFINE before == E[m - 1]
    <3>1. IsDatabase(before) /\ before.ok /\ DatabaseOK(before)
      BY <1>5, <2>1
    <3>2. E[m] = RunSchema(before, D[m])
      BY <1>3, <2>1
    <3>3. IsDatabase(E[m])
      BY <3>1, <3>2, RunSchemaFacts
    <3>4. ASSUME E[m].ok
          PROVE  /\ DatabaseOK(E[m])
                 /\ DOMAIN E[m].tables = DOMAIN before.tables \cup {TableName(D[m])}
                 /\ Keeps(before, E[m])
      <4> DEFINE s == D[m]
                 after == E[m]
      <4>1. s \in ReadItems /\ after = RunSchema(before, s) /\ after.ok
        BY <1>2, <2>1, <3>2, <3>4
      <4> HIDE DEF before, s, after
      <4>2. /\ DatabaseOK(after)
            /\ DOMAIN after.tables = DOMAIN before.tables \cup {TableName(s)}
            /\ Keeps(before, after)
        BY <3>1, <4>1, RunSchemaKeeps
      <4> QED BY <4>2 DEF s, after
    <3>5. UpToAt(file, m) = UpToAt(file, m - 1) \cup {m}
      BY <1>1, <2>1 DEF UpToAt
    <3>6. {TableName(D[j]) : j \in UpToAt(file, m)} = {TableName(D[j]) : j \in UpToAt(file, m - 1)} \cup {TableName(D[m])}
      BY <3>5
    <3>7. ASSUME E[m].ok
          PROVE  /\ DOMAIN E[m].tables = DOMAIN tables \cup {TableName(D[j]) : j \in UpToAt(file, m)}
                 /\ Keeps(Database, E[m])
      <4>1. DOMAIN E[m].tables = DOMAIN tables \cup {TableName(D[j]) : j \in UpToAt(file, m)}
        BY <1>5, <2>1, <3>4, <3>6, <3>7
      <4>2. DOMAIN Database.tables \subseteq DOMAIN before.tables
        BY <1>5, <2>1 DEF Database
      <4>3. Keeps(Database, before)
        BY <1>5, <2>1
      <4> QED BY <3>4, <3>7, <4>1, <4>2, <4>3 DEF Keeps
    <3> QED BY <3>3, <3>4, <3>7
  <2>2. CASE m \in SchemasAt(file) /\ ~ E[m - 1].ok
    <3>1. E[m] = E[m - 1]
      BY <1>3, <2>2
    <3> QED BY <1>5, <2>2, <3>1
  <2>3. CASE m \notin SchemasAt(file)
    <3>1. E[m] = E[m - 1]
      BY <1>3, <2>3
    <3>2. UpToAt(file, m) = UpToAt(file, m - 1)
      BY <1>1, <2>3 DEF UpToAt
    <3> QED BY <1>5, <3>1, <3>2
  <2> QED BY <2>1, <2>2, <2>3
<1> DEFINE S == {m \in 0 .. N : P(m)}
<1> HIDE DEF P
<1>6. 0 \in S /\ \A m \in 1 .. N : m - 1 \in S => m \in S
  BY <1>1, <1>4, <1>5
<1>7. S = 0 .. N
  <2>1. S \in SUBSET (0 .. N)
    OBVIOUS
  <2> HIDE DEF S
  <2> QED BY <1>1, <1>6, <2>1, UpTo
<1>8. P(n)
  BY <1>7 DEF N
<1> QED BY <1>8 DEF P, E, D

(* Tables that the schemas of the file made themselves are left as they are.   *)
LEMMA OwnTablesPass ==
  ASSUME NEW file \in SourceFiles, DatabaseOK(Database),
         \A s \in Schemas(file) : TableName(s) \in DOMAIN tables /\ tables[TableName(s)].by = s
  PROVE  AfterDdl(file).ok
<1> DEFINE N == Len(Decls(file))
           D == Decls(file)
           E == Executed(file)
           P(m) == E[m].ok /\ E[m].tables = tables /\ E[m].indexes = indexes
<1>1. N \in Nat /\ SchemasAt(file) \subseteq 1 .. N
  BY DeclsType
<1>2. \A j \in SchemasAt(file) : D[j] \in Schemas(file) /\ D[j] \in ReadItems
  BY DeclsType DEF Schemas
<1>3. /\ E[0] = Database
      /\ \A m \in 1 .. N : E[m] = IF m \in SchemasAt(file) /\ E[m - 1].ok THEN RunSchema(E[m - 1], D[m]) ELSE E[m - 1]
  BY ExecutedFacts
<1>4. \A m \in 0 .. N : IsDatabase(E[m])
  BY ExecutedKeeps
<1> HIDE DEF N, D, E
<1>5. P(0)
  BY <1>3 DEF Database
<1>6. ASSUME NEW m \in 1 .. N, P(m - 1) PROVE P(m)
  <2>1. CASE m \in SchemasAt(file)
    <3> DEFINE before == E[m - 1]
               s == D[m]
               made == RunCreate(before, s)
    <3>1. IsDatabase(before) /\ before.ok /\ before.tables = tables /\ before.indexes = indexes
      BY <1>1, <1>4, <1>6
    <3>2. E[m] = RunSchema(before, s)
      BY <1>3, <1>6, <2>1
    <3>3. TableName(s) \in DOMAIN tables /\ tables[TableName(s)].by = s
      BY <1>2, <2>1
    <3>4. TableOK(Database, TableName(s))
      BY <3>3 DEF DatabaseOK, Database
    <3>5. Legal({c.name : c \in ToSet(Columns(s))}, TableName(s)) /\ Indexes(s) \subseteq indexes
      BY <3>3, <3>4 DEF TableOK, Database
    <3>9. Creatable(before, s)
      BY <3>1, <3>3, <3>5 DEF Creatable
    <3> DEFINE after == E[m]
    <3>0. made = RunCreate(before, s) /\ after = RunSchema(before, s)
      BY <3>2
    <3> HIDE DEF before, s, made, after
    <3>6. made.ok /\ made.tables = tables
      <4>0. IsDatabase(before) /\ before.ok /\ TableName(s) \in DOMAIN before.tables
        BY <3>1, <3>3
      <4>1. made.ok
        BY <3>0, <3>9, <4>0, RunCreateFacts
      <4>2. made.tables = before.tables
        BY <3>0, <4>0, <4>1, RunCreateFacts
      <4> QED BY <3>1, <4>1, <4>2
    <3>7. IndexesPass(before, made, s) /\ before.indexes \cup Indexes(s) = indexes
      BY <3>1, <3>5 DEF IndexesPass
    <3>8. after.ok /\ after.tables = made.tables /\ after.indexes = indexes
      <4>1. after.ok
        BY <3>0, <3>1, <3>6, <3>7, RunSchemaFacts
      <4>2. after.tables = made.tables /\ after.indexes = before.indexes \cup Indexes(s)
        BY <3>0, <3>1, <4>1, RunSchemaFacts
      <4> QED BY <3>7, <4>1, <4>2
    <3> QED BY <3>6, <3>8 DEF after
  <2>2. CASE m \notin SchemasAt(file)
    BY <1>3, <1>6, <2>2
  <2> QED BY <2>1, <2>2
<1> DEFINE S == {m \in 0 .. N : P(m)}
<1> HIDE DEF P
<1>7. 0 \in S /\ \A m \in 1 .. N : m - 1 \in S => m \in S
  BY <1>1, <1>5, <1>6
<1>8. S = 0 .. N
  <2>1. S \in SUBSET (0 .. N)
    OBVIOUS
  <2> HIDE DEF S
  <2> QED BY <1>1, <1>7, <2>1, UpTo
<1>9. P(N)
  BY <1>1, <1>8
<1> QED BY <1>9 DEF P, E, N, AfterDdl

(* The names the compiler adds are not reserved.                               *)
LEMMA LegalWhen ==
  ASSUME NEW s \in ReadItems, NEW T
  PROVE  Legal({c.name : c \in ToSet(Columns(s))}, T) <=> Legal({f.name : f \in FieldsOf(s)}, T)
<1> DEFINE C == {c.name : c \in ToSet(Columns(s))}
           F == {f.name : f \in FieldsOf(s)}
           A == {"body", "created_at", "tenant", "metadata"}
<1>1. F \subseteq C
  <2> SUFFICES ASSUME NEW f \in FieldsOf(s) PROVE f.name \in C
    OBVIOUS
  <2>1. Column(f) \in ToSet(Columns(s)) /\ Column(f).name = f.name
    BY ColumnsFacts, ColumnType
  <2> QED BY <2>1
<1>2. C \subseteq F \cup A
  <2> SUFFICES ASSUME NEW c \in ToSet(Columns(s)) PROVE c.name \in F \cup A
    OBVIOUS
  <2>1. CASE c \in Added(s)
    BY <2>1, ConventionFacts DEF Added
  <2>2. CASE c \notin Added(s)
    BY <2>2, ColumnsFacts, ColumnType
  <2> QED BY <2>1, <2>2
<1>3. SqlReserved \cap A = {}
  BY DeployAssumption
<1> HIDE DEF C, F, A
<1>4. C \cap SqlReserved = {} <=> F \cap SqlReserved = {}
  BY <1>1, <1>2, <1>3
<1> QED BY <1>4 DEF Legal, C, F

(* A reference asks for a key called id that is text.                          *)
LEMMA ReferableWhen ==
  ASSUME NEW s \in ReadItems
  PROVE  Referable(ToSet(Columns(s)), "text") <=> KeyedId(s)
<1>1. \A c \in ToSet(Columns(s)) : c.name = "id" => \E f \in FieldsOf(s) : c = Column(f)
  BY ColumnsFacts, ConventionFacts DEF Added
<1>2. \A f \in FieldsOf(s) : Column(f) \in ToSet(Columns(s))
  BY ColumnsFacts
<1>3. ASSUME Referable(ToSet(Columns(s)), "text") PROVE KeyedId(s)
  <2>1. PICK c \in ToSet(Columns(s)) : c.name = "id" /\ c.key /\ c.type = "text"
    BY <1>3 DEF Referable
  <2>2. PICK f \in FieldsOf(s) : c = Column(f)
    BY <1>1, <2>1
  <2>3. f.name = "id" /\ SqlType(f.ty) = "text" /\ f.deco \cap {"primary", "unique"} # {}
    BY <2>1, <2>2, ColumnType
  <2> QED BY <2>3 DEF KeyedId, Named
<1>4. ASSUME KeyedId(s) PROVE Referable(ToSet(Columns(s)), "text")
  <2>1. PICK f \in FieldsOf(s) :
          f.name = "id" /\ SqlType(f.ty) = "text" /\ f.deco \cap {"primary", "unique"} # {}
    BY <1>4 DEF KeyedId, Named
  <2>2. Column(f).name = "id" /\ Column(f).key /\ Column(f).type = "text"
    BY <2>1, ColumnType
  <2> QED BY <1>2, <2>2 DEF Referable
<1> QED BY <1>3, <1>4

Required(f) == f.ty.base = "Ref" /\ ~ f.ty.opt /\ ~ f.ty.list

(* What a compiled file says about the names in it.                            *)
LEMMA NamesFacts ==
  ASSUME NEW file \in SourceFiles, Compiles(file)
  PROVE  /\ \A i, j \in SchemasAt(file) : Decls(file)[i].name = Decls(file)[j].name => i = j
         /\ \A i \in SchemasAt(file) :
              /\ Decls(file)[i] \in Schemas(file) /\ Decls(file)[i] \in ReadItems
              /\ Decls(file)[i].name \in DeclaredNames(file)
              /\ \A f \in FieldsOf(Decls(file)[i]) : Required(f) => f.ty.of \in DeclaredNames(file)
<1>1. ~ CheckFails(file)
  BY DEF Compiles
<1>2. \A i, j \in SchemasAt(file) : Decls(file)[i].name = Decls(file)[j].name => i = j
  BY <1>1 DEF CheckFails
<1> SUFFICES ASSUME NEW i \in SchemasAt(file)
             PROVE  /\ Decls(file)[i] \in Schemas(file) /\ Decls(file)[i] \in ReadItems
                    /\ Decls(file)[i].name \in DeclaredNames(file)
                    /\ \A f \in FieldsOf(Decls(file)[i]) : Required(f) => f.ty.of \in DeclaredNames(file)
  BY <1>2
<1>3. Decls(file)[i] \in Schemas(file) /\ Decls(file)[i] \in ReadItems
  BY DeclsType DEF Schemas
<1>4. Decls(file)[i] \in ToSet(Decls(file))
  BY DEF SchemasAt, ToSet
<1>5. RefsTo(Decls(file)[i]) \subseteq DeclaredNames(file)
  BY <1>1, <1>3 DEF CheckFails
<1>6. \A f \in FieldsOf(Decls(file)[i]) : Required(f) => f.ty.of \in RefsTo(Decls(file)[i])
  BY DEF RefsTo, Required
<1> QED BY <1>3, <1>4, <1>5, <1>6 DEF DeclaredNames

(* The tables that the schemas of the file so far have made.                   *)
MadeUpTo(file, n, db) ==
    \A j \in UpToAt(file, n) :
        db.tables[TableName(Decls(file)[j])] = [columns |-> Columns(Decls(file)[j]), by |-> Decls(file)[j]]

ReferencesDeclared(file, i) ==
    \A f \in FieldsOf(Decls(file)[i]) :
        Required(f) => \E j \in UpToAt(file, i) : Decls(file)[j].name = f.ty.of /\ KeyedId(Decls(file)[j])

(* The next table of a file that met none of its own is made exactly when what *)
(* it refers to is there, and what is there are the tables before it.          *)
LEMMA FreshCreate ==
  ASSUME NEW file \in SourceFiles, Compiles(file), Fresh(file),
         NEW i \in SchemasAt(file), NEW db,
         DOMAIN db.tables = DOMAIN tables \cup {TableName(Decls(file)[j]) : j \in UpToAt(file, i - 1)},
         MadeUpTo(file, i - 1, db)
  PROVE  /\ TableName(Decls(file)[i]) \notin DOMAIN db.tables
         /\ CreateRuns(db, Decls(file)[i]) <=> Distinct(Decls(file)[i].fields) /\ ReferencesDeclared(file, i)
<1> DEFINE D == Decls(file)
           s == D[i]
           T == TableName(s)
           Before == UpToAt(file, i - 1)
           Target(table) == IF table = T THEN ToSet(Columns(s))
                            ELSE IF table \in DOMAIN db.tables THEN ColumnsOf(db, table) ELSE {}
<1>1. SchemasAt(file) \subseteq Nat /\ i \in Nat
  <2>1. Len(Decls(file)) \in Nat /\ SchemasAt(file) \subseteq 1 .. Len(Decls(file))
    BY DeclsType
  <2> QED BY <2>1
<1>2. UpToAt(file, i) = Before \cup {i} /\ i \notin Before /\ Before \subseteq SchemasAt(file)
  BY <1>1 DEF UpToAt
<1>3. \A j \in SchemasAt(file) : D[j] \in ReadItems /\ D[j].name \in DeclaredNames(file)
  BY NamesFacts
<1>4. \A j, k \in SchemasAt(file) : D[j].name = D[k].name => j = k
  BY NamesFacts
<1>5. \A f \in FieldsOf(s) : Required(f) => f.ty.of \in DeclaredNames(file)
  BY NamesFacts
<1>6. \A m, n \in DeclaredNames(file) : Snake(m) = Snake(n) => m = n
  BY DEF Fresh
<1>7. \A m \in DeclaredNames(file) : Snake(m) \notin DOMAIN tables
  BY DEF Fresh
<1>8. \A j \in SchemasAt(file) : TableName(D[j]) = Snake(D[j].name)
  BY DEF TableName
<1>9. \A j \in Before : TableName(D[j]) \in DOMAIN db.tables /\ ColumnsOf(db, TableName(D[j])) = ToSet(Columns(D[j]))
  <2> SUFFICES ASSUME NEW j \in Before
               PROVE  TableName(D[j]) \in DOMAIN db.tables /\ ColumnsOf(db, TableName(D[j])) = ToSet(Columns(D[j]))
    OBVIOUS
  <2>1. TableName(D[j]) \in DOMAIN db.tables
    OBVIOUS
  <2>2. db.tables[TableName(D[j])] = [columns |-> Columns(D[j]), by |-> D[j]]
    BY DEF MadeUpTo
  <2>3. db.tables[TableName(D[j])].columns = Columns(D[j])
    BY <2>2
  <2> QED BY <2>1, <2>3 DEF ColumnsOf
<1>10. \A n \in DeclaredNames(file) :
          Snake(n) \in DOMAIN db.tables => \E j \in Before : n = D[j].name
  BY <1>2, <1>3, <1>6, <1>7, <1>8
<1> HIDE DEF D, Before
<1>11. T \notin DOMAIN db.tables
  BY <1>2, <1>3, <1>4, <1>8, <1>10
<1>12. ASSUME NEW f \in FieldsOf(s), Required(f)
       PROVE  Referable(Target(Snake(f.ty.of)), SqlType(f.ty)) <=>
                \E j \in UpToAt(file, i) : D[j].name = f.ty.of /\ KeyedId(D[j])
  <2>0. f.ty \in Types
    BY <1>3, FieldFacts DEF ReadFields
  <2>1. SqlType(f.ty) = "text"
    BY <1>12, <2>0, ReferenceIsText DEF Required
  <2>2. f.ty.of \in DeclaredNames(file)
    BY <1>5, <1>12
  <2>3. CASE f.ty.of = s.name
    <3>1. Target(Snake(f.ty.of)) = ToSet(Columns(s))
      BY <1>8, <2>3
    <3>2. \A j \in UpToAt(file, i) : D[j].name = f.ty.of <=> j = i
      BY <1>2, <1>4, <2>3
    <3>3. Referable(ToSet(Columns(s)), "text") <=> KeyedId(s)
      BY <1>3, ReferableWhen
    <3> HIDE DEF Target
    <3> QED BY <1>2, <2>1, <3>1, <3>2, <3>3
  <2>4. CASE f.ty.of # s.name /\ \E j \in Before : D[j].name = f.ty.of
    <3>1. PICK j \in Before : D[j].name = f.ty.of
      BY <2>4
    <3>2. Snake(f.ty.of) # T /\ Snake(f.ty.of) = TableName(D[j])
      BY <1>2, <1>3, <1>6, <1>8, <2>2, <2>4, <3>1
    <3>3. Target(Snake(f.ty.of)) = ToSet(Columns(D[j]))
      BY <1>9, <3>2
    <3>4. \A k \in UpToAt(file, i) : D[k].name = f.ty.of <=> k = j
      BY <1>2, <1>4, <2>4, <3>1
    <3>5. Referable(ToSet(Columns(D[j])), "text") <=> KeyedId(D[j])
      BY <1>2, <1>3, ReferableWhen
    <3> HIDE DEF Target
    <3> QED BY <1>2, <2>1, <3>1, <3>3, <3>4, <3>5
  <2>5. CASE f.ty.of # s.name /\ ~ \E j \in Before : D[j].name = f.ty.of
    <3>1. Snake(f.ty.of) # T
      BY <1>3, <1>6, <1>8, <2>2, <2>5
    <3>2. Snake(f.ty.of) \notin DOMAIN db.tables
      BY <1>10, <2>2, <2>5
    <3>3. Target(Snake(f.ty.of)) = {}
      BY <3>1, <3>2
    <3>4. ~ Referable({}, SqlType(f.ty))
      BY DEF Referable
    <3> HIDE DEF Target
    <3> QED BY <1>2, <2>5, <3>3, <3>4
  <2> QED BY <2>3, <2>4, <2>5
<1>13. (\A fk \in ForeignKeys(s) : Referable(Target(fk.table), fk.type)) <=> ReferencesDeclared(file, i)
  <2>1. (\A fk \in ForeignKeys(s) : Referable(Target(fk.table), fk.type)) <=>
           \A f \in FieldsOf(s) : Required(f) => Referable(Target(Snake(f.ty.of)), SqlType(f.ty))
    <3> DEFINE Key(f) == [column |-> f.name, type |-> SqlType(f.ty), table |-> Snake(f.ty.of)]
    <3>1. ForeignKeys(s) = {Key(f) : f \in {g \in FieldsOf(s) : Required(g)}}
      BY DEF ForeignKeys, Required
    <3>2. \A f : Key(f).type = SqlType(f.ty) /\ Key(f).table = Snake(f.ty.of)
      OBVIOUS
    <3> HIDE DEF Target, Key
    <3> QED BY <3>1, <3>2
  <2> HIDE DEF Target, s
  <2>2. (\A f \in FieldsOf(s) : Required(f) => Referable(Target(Snake(f.ty.of)), SqlType(f.ty))) <=>
           \A f \in FieldsOf(s) : Required(f) => \E j \in UpToAt(file, i) : D[j].name = f.ty.of /\ KeyedId(D[j])
    BY <1>12
  <2> QED BY <2>1, <2>2 DEF ReferencesDeclared, s, D
<1>14. CreateRuns(db, s) <=> Distinct(Columns(s)) /\ \A fk \in ForeignKeys(s) : Referable(Target(fk.table), fk.type)
  BY DEF CreateRuns
<1>15. Distinct(Columns(s)) <=> Distinct(s.fields)
  BY <1>3, ColumnsFacts
<1> HIDE DEF Target
<1> QED BY <1>11, <1>13, <1>14, <1>15 DEF D

LEMMA FreshStep ==
  ASSUME NEW file \in SourceFiles, Compiles(file), Fresh(file),
         NEW i \in SchemasAt(file), NEW db, IsDatabase(db), db.ok, DatabaseOK(db),
         DOMAIN db.tables = DOMAIN tables \cup {TableName(Decls(file)[j]) : j \in UpToAt(file, i - 1)},
         MadeUpTo(file, i - 1, db)
  PROVE  RunSchema(db, Decls(file)[i]).ok <=> DeployableAt(file, i)
<1> DEFINE s == Decls(file)[i]
           made == RunCreate(db, s)
           after == RunSchema(db, s)
           L == Legal({f.name : f \in FieldsOf(s)}, TableName(s))
           R == ReferencesDeclared(file, i)
           new == [columns |-> Columns(s), by |-> s]
<1>1. s \in ReadItems
  BY NamesFacts
<1>2. TableName(s) \notin DOMAIN db.tables /\ (CreateRuns(db, s) <=> Distinct(s.fields) /\ R)
  BY FreshCreate
<1>3. Legal({c.name : c \in ToSet(Columns(s))}, TableName(s)) <=> L
  BY <1>1, LegalWhen
<1>4. Creatable(db, s) <=> L /\ Distinct(s.fields) /\ R
  BY <1>2, <1>3 DEF Creatable
<1>5. DeployableAt(file, i) <=> L /\ Distinct(s.fields) /\ R /\ Indexable(s)
  BY DEF DeployableAt, Indexable, ReferencesDeclared, UpToAt, Required
<1>6. new.columns = Columns(s)
  OBVIOUS
<1>7. made = RunCreate(db, s) /\ after = RunSchema(db, s)
  OBVIOUS
<1> HIDE DEF s, made, after, L, R, new
<1>8. made.ok <=> Creatable(db, s)
  BY <1>7, RunCreateFacts
<1>9. after.ok <=> made.ok /\ IndexesPass(db, made, s)
  BY <1>7, RunSchemaFacts
<1>10. ASSUME made.ok PROVE IndexesPass(db, made, s) <=> Indexable(s)
  <2>1. made.tables = Put(db.tables, TableName(s), new)
    BY <1>2, <1>7, <1>10, RunCreateFacts DEF new
  <2>2. made.tables[TableName(s)] = new
    BY <2>1 DEF Put
  <2>3. made.tables[TableName(s)].columns = Columns(s)
    BY <1>6, <2>2
  <2>4. Distinct(s.fields)
    BY <1>4, <1>8, <1>10
  <2>5. \A index \in Indexes(s) : index \notin db.indexes
    BY <1>2, IndexesOf DEF DatabaseOK
  <2>6. IndexesPass(db, made, s) <=> \A index \in Indexes(s) : IndexRuns(made, index)
    BY <2>5 DEF IndexesPass
  <2> QED BY <1>1, <2>3, <2>4, <2>6, IndexesRunWhen
<1>11. after.ok <=> DeployableAt(file, i)
  BY <1>4, <1>5, <1>8, <1>9, <1>10
<1> QED BY <1>11 DEF after, s

(* The DDL of a file that meets a database without its tables is accepted      *)
(* exactly when the source is deployable.                                      *)
LEMMA FreshDdl ==
  ASSUME NEW file \in SourceFiles, Compiles(file), Fresh(file), DatabaseOK(Database)
  PROVE  AfterDdl(file).ok <=> Deployable(file)
<1> DEFINE N == Len(Decls(file))
           D == Decls(file)
           E == Executed(file)
           P(m) == /\ E[m].ok <=> \A j \in UpToAt(file, m) : DeployableAt(file, j)
                   /\ E[m].ok => MadeUpTo(file, m, E[m])
<1>1. N \in Nat /\ SchemasAt(file) \subseteq 1 .. N
  BY DeclsType
<1>2. /\ E[0] = Database
      /\ \A m \in 1 .. N : E[m] = IF m \in SchemasAt(file) /\ E[m - 1].ok THEN RunSchema(E[m - 1], D[m]) ELSE E[m - 1]
  BY ExecutedFacts
<1>3. \A m \in 0 .. N :
         /\ IsDatabase(E[m])
         /\ E[m].ok =>
              /\ DatabaseOK(E[m])
              /\ DOMAIN E[m].tables = DOMAIN tables \cup {TableName(D[j]) : j \in UpToAt(file, m)}
  BY ExecutedKeeps
<1> HIDE DEF N, D, E
<1>4. P(0)
  <2>1. UpToAt(file, 0) = {}
    BY <1>1 DEF UpToAt
  <2>2. E[0].ok
    BY <1>2 DEF Database
  <2> QED BY <2>1, <2>2 DEF MadeUpTo
<1>5. ASSUME NEW m \in 1 .. N, P(m - 1) PROVE P(m)
  <2>0. m - 1 \in 0 .. N /\ m \in Nat
    BY <1>1
  <2>1. CASE m \in SchemasAt(file) /\ E[m - 1].ok
    <3> DEFINE before == E[m - 1]
               s == D[m]
               after == E[m]
    <3>1. /\ IsDatabase(before) /\ before.ok /\ DatabaseOK(before)
          /\ DOMAIN before.tables = DOMAIN tables \cup {TableName(D[j]) : j \in UpToAt(file, m - 1)}
          /\ MadeUpTo(file, m - 1, before)
      BY <1>3, <1>5, <2>0, <2>1
    <3>2. after = RunSchema(before, s)
      BY <1>2, <2>1
    <3>3. after.ok <=> DeployableAt(file, m)
      <4> HIDE DEF before
      <4>1. DOMAIN before.tables = DOMAIN tables \cup {TableName(Decls(file)[j]) : j \in UpToAt(file, m - 1)}
        BY <3>1 DEF D
      <4>2. RunSchema(before, Decls(file)[m]).ok <=> DeployableAt(file, m)
        BY <2>1, <3>1, <4>1, FreshStep
      <4> QED BY <3>2, <4>2 DEF D
    <3>4. UpToAt(file, m) = UpToAt(file, m - 1) \cup {m}
      BY <1>1, <2>1 DEF UpToAt
    <3>5. after.ok <=> \A j \in UpToAt(file, m) : DeployableAt(file, j)
      BY <1>5, <2>1, <3>3, <3>4
    <3>6. ASSUME after.ok PROVE MadeUpTo(file, m, after)
      <4>1. s \in ReadItems
        BY <2>1, NamesFacts DEF D
      <4>2. TableName(s) \notin DOMAIN before.tables
        <5> HIDE DEF before
        <5>1. DOMAIN before.tables = DOMAIN tables \cup {TableName(Decls(file)[j]) : j \in UpToAt(file, m - 1)}
          BY <3>1 DEF D
        <5> QED BY <2>1, <3>1, <5>1, FreshCreate DEF D
      <4> DEFINE entry(j) == [columns |-> Columns(D[j]), by |-> D[j]]
                 new == [columns |-> Columns(s), by |-> s]
      <4>3. /\ Keeps(before, after)
            /\ after.tables[TableName(s)] = new
        <5> HIDE DEF before, s, after
        <5>1. Keeps(before, after)
          BY <3>1, <3>2, <3>6, <4>1, RunSchemaKeeps
        <5>2. after.tables[TableName(s)] = new
          BY <3>1, <3>2, <3>6, <4>1, <4>2, RunSchemaKeeps
        <5> QED BY <5>1, <5>2
      <4>4. \A j \in UpToAt(file, m - 1) : before.tables[TableName(D[j])] = entry(j)
        BY <3>1 DEF MadeUpTo, D
      <4>5. \A j \in UpToAt(file, m - 1) : TableName(D[j]) \in DOMAIN before.tables
        BY <3>1
      <4>6. new = entry(m)
        OBVIOUS
      <4> HIDE DEF entry, new, before, after
      <4>7. \A j \in UpToAt(file, m) : after.tables[TableName(D[j])] = entry(j)
        BY <3>4, <4>3, <4>4, <4>5, <4>6 DEF Keeps
      <4> QED BY <4>7 DEF MadeUpTo, entry, D
    <3> QED BY <3>5, <3>6
  <2>2. CASE m \in SchemasAt(file) /\ ~ E[m - 1].ok
    <3>1. E[m] = E[m - 1]
      BY <1>2, <2>2
    <3>2. UpToAt(file, m - 1) \subseteq UpToAt(file, m)
      BY <1>1, <2>0 DEF UpToAt
    <3> QED BY <1>5, <2>2, <3>1, <3>2
  <2>3. CASE m \notin SchemasAt(file)
    <3>1. E[m] = E[m - 1]
      BY <1>2, <2>3
    <3>2. UpToAt(file, m) = UpToAt(file, m - 1)
      BY <1>1, <2>3 DEF UpToAt
    <3> QED BY <1>5, <3>1, <3>2 DEF MadeUpTo
  <2> QED BY <2>1, <2>2, <2>3
<1> DEFINE S == {m \in 0 .. N : P(m)}
<1> HIDE DEF P
<1>6. 0 \in S /\ \A m \in 1 .. N : m - 1 \in S => m \in S
  BY <1>1, <1>4, <1>5
<1>7. S = 0 .. N
  <2>1. S \in SUBSET (0 .. N)
    OBVIOUS
  <2> HIDE DEF S
  <2> QED BY <1>1, <1>6, <2>1, UpTo
<1>8. P(N)
  BY <1>1, <1>7
<1>9. UpToAt(file, N) = SchemasAt(file)
  BY <1>1 DEF UpToAt
<1>10. AfterDdl(file) = E[N]
  BY DEF AfterDdl, E, N
<1>11. AfterDdl(file).ok <=> \A j \in SchemasAt(file) : DeployableAt(file, j)
  BY <1>8, <1>9, <1>10 DEF P
<1> QED BY <1>11 DEF Deployable

-----------------------------------------------------------------------------
(* The invariant.                                                              *)

LEMMA DeployInvInit == Init => DeployInv
<1> SUFFICES ASSUME Init PROVE DeployInv
  OBVIOUS
<1>1. CliOK
  BY CliInit
<1>2. DOMAIN tables = {} /\ indexes = {} /\ DOMAIN metas = {} /\ DOMAIN source = {} /\ DOMAIN tools = {}
  BY DEF Init
<1>3. DatabaseOK(Database)
  BY <1>2 DEF DatabaseOK, Database
<1>4. RegistryOK /\ TablesServed
  BY <1>2 DEF RegistryOK, TablesServed
<1> QED BY <1>1, <1>3, <1>4 DEF DeployInv

(* Whether the DDL of a file is accepted or not, the database stays in order   *)
(* and loses no table; if it is, every schema has its table.                   *)
LEMMA ApplyDdlKeeps ==
  ASSUME NEW file \in SourceFiles, DatabaseOK(Database),
         ApplyDdl(file) \/ UNCHANGED <<tables, indexes>>
  PROVE  /\ DatabaseOK(Database)' /\ DOMAIN tables \subseteq DOMAIN tables'
         /\ ApplyDdl(file) /\ AfterDdl(file).ok => \A s \in Schemas(file) : TableName(s) \in DOMAIN tables'
<1> DEFINE N == Len(Decls(file))
           db == AfterDdl(file)
<1>1. N \in 0 .. N /\ SchemasAt(file) \subseteq 1 .. N /\ N \in Nat
  BY DeclsType
<1>2. db.ok =>
        /\ DatabaseOK(db)
        /\ DOMAIN db.tables = DOMAIN tables \cup {TableName(Decls(file)[j]) : j \in UpToAt(file, N)}
  BY <1>1, ExecutedKeeps DEF AfterDdl
<1>3. UpToAt(file, N) = SchemasAt(file)
  BY <1>1 DEF UpToAt
<1> HIDE DEF N, db
<1>4. CASE db.ok /\ tables' = db.tables /\ indexes' = db.indexes
  <2>1. DatabaseOK(db)
    BY <1>2, <1>4
  <2>2. DatabaseOK(Database)'
    BY <1>4, <2>1 DEF DatabaseOK, TableOK, Database
  <2>3. \A s \in Schemas(file) : TableName(s) \in DOMAIN tables'
    BY <1>2, <1>3, <1>4 DEF Schemas
  <2> QED BY <1>2, <1>4, <2>2, <2>3
<1>5. CASE UNCHANGED <<tables, indexes>> /\ ~ (ApplyDdl(file) /\ db.ok)
  <2>1. DatabaseOK(Database)'
    BY <1>5 DEF DatabaseOK, TableOK, Database
  <2> QED BY <1>5, <2>1 DEF db
<1>6. ApplyDdl(file) /\ db.ok => tables' = db.tables /\ indexes' = db.indexes
  BY DEF ApplyDdl, db
<1>7. ApplyDdl(file) /\ ~ db.ok => UNCHANGED <<tables, indexes>>
  BY DEF ApplyDdl, db
<1> QED BY <1>4, <1>5, <1>6, <1>7

(* The steps of the database server.                                           *)
LEMMA DatabaseNext == DeployInv /\ [Next]_vars => DatabaseOK(Database)' /\ DOMAIN tables \subseteq DOMAIN tables'
<1> SUFFICES ASSUME DeployInv, [Next]_vars
             PROVE  DatabaseOK(Database)' /\ DOMAIN tables \subseteq DOMAIN tables'
  OBVIOUS
<1>0. DatabaseOK(Database) /\ CliOK
  BY DEF DeployInv
<1>1. ASSUME UNCHANGED <<tables, indexes>>
      PROVE  DatabaseOK(Database)' /\ DOMAIN tables \subseteq DOMAIN tables'
  BY <1>0, <1>1 DEF DatabaseOK, TableOK, Database
<1>2. ASSUME NEW file \in Files, Apply(file) PROVE UNCHANGED <<tables, indexes>>
  BY <1>2 DEF Apply
<1>3. CASE Register \/ RegisterUnanswered \/ RegisterFails
  BY <1>1, <1>3 DEF Register, RegisterUnanswered, RegisterFails, Registering
<1>4. CASE DdlApplied \/ DdlRejected \/ DdlUnanswered
  <2>1. cli # Idle /\ (ApplyDdl(cli.file) \/ UNCHANGED <<tables, indexes>>)
    BY <1>4, Busy DEF DdlApplied, DdlRejected, DdlUnanswered
  <2>2. cli.file \in SourceFiles
    BY <1>0, <2>1, FileType DEF CliOK
  <2> QED BY <1>0, <2>1, <2>2, ApplyDdlKeeps
<1>5. CASE UNCHANGED vars
  BY <1>1, <1>5 DEF vars
<1> QED BY <1>1, <1>2, <1>3, <1>4, <1>5 DEF Next

(* An entry that a step leaves alone, or whose success is noted.               *)
LEMMA EntryKept ==
  ASSUME NEW q, EntryOK(q), metas'[q] = metas[q],
         source'[q] = source[q] \/ source'[q] = [source[q] EXCEPT !.ok = TRUE]
  PROVE  EntryOK(q)'
<1>1. PICK file \in Files : \E s \in Schemas(file) :
         /\ Compiles(file)
         /\ q = Qualified(file, s) /\ metas[q] = Meta(file, s)
         /\ source[q] \in [schema : {s}, ok : BOOLEAN]
  BY DEF EntryOK
<1>2. PICK s \in Schemas(file) :
         /\ Compiles(file)
         /\ q = Qualified(file, s) /\ metas[q] = Meta(file, s)
         /\ source[q] \in [schema : {s}, ok : BOOLEAN]
  BY <1>1
<1>3. source'[q] \in [schema : {s}, ok : BOOLEAN]
  BY <1>2
<1> QED BY <1>2, <1>3 DEF EntryOK

(* What the gateway makes tools of has one of five kinds.                      *)
LEMMA ToolKinds ==
  ASSUME NEW meta, NEW t \in SchemaTools(meta)
  PROVE  t.kind \in Kinds \cup {"relation", "aggregate"}
  BY DEF SchemaTools

LEMMA EntryMade ==
  ASSUME NEW file \in Files, NEW s \in Schemas(file), Compiles(file),
         metas'[Qualified(file, s)] = Meta(file, s),
         source'[Qualified(file, s)] \in [schema : {s}, ok : BOOLEAN]
  PROVE  EntryOK(Qualified(file, s))'
BY DEF EntryOK

LEMMA RegisteringKeeps ==
  ASSUME DeployInv, Registering, NEW file, file = cli.file, NEW s, s = CurrentSchema
  PROVE  RegistryOK' /\ TablesServed'
<1> DEFINE q0 == Qualified(file, s)
           meta == Meta(file, s)
           entry == [schema |-> s, ok |-> FALSE]
<1>1. cli # Idle /\ RegistryOK /\ TablesServed
  BY Busy DEF Registering, DeployInv
<1>2. file \in Files /\ Compiles(file) /\ s \in Schemas(file)
  BY <1>1 DEF DeployInv, CliOK, CurrentSchema, Schemas
<1>3. meta.name = q0
  BY DEF Meta
<1>4. metas' = Put(metas, q0, meta) /\ source' = Put(source, q0, entry) /\ tables' = tables
  BY <1>3 DEF Registering, RegisterSchema
<1>5. DOMAIN metas' = DOMAIN metas \cup {q0} /\ DOMAIN source' = DOMAIN source \cup {q0}
  BY <1>4 DEF Put
<1>6. metas'[q0] = meta /\ source'[q0] = entry
  BY <1>4 DEF Put
<1>7. \A q \in DOMAIN source : q # q0 => metas'[q] = metas[q] /\ source'[q] = source[q]
  BY <1>1, <1>4 DEF Put, RegistryOK
<1>8. EntryOK(q0)'
  <2>1. entry \in [schema : {s}, ok : BOOLEAN]
    OBVIOUS
  <2>2. metas'[Qualified(file, s)] = Meta(file, s) /\ source'[Qualified(file, s)] = entry
    BY <1>6
  <2> QED BY <1>2, <2>1, <2>2, EntryMade
<1>9. ASSUME NEW q \in DOMAIN source, q # q0 PROVE EntryOK(q)'
  <2> HIDE DEF q0
  <2> QED BY <1>1, <1>7, <1>9, EntryKept DEF RegistryOK
<1>10. \A n \in DOMAIN tools' : tools'[n].kind \in Kinds \cup {"relation", "aggregate"}
  <2> DEFINE fresh == SchemaTools(meta)
             names == {t.name : t \in fresh}
  <2>1. tools' = [n \in names \cup DOMAIN tools |->
                     IF n \in names THEN CHOOSE t \in fresh : t.name = n ELSE tools[n]]
    BY DEF Registering, RegisterSchema
  <2>2. \A t \in fresh : t.kind \in Kinds \cup {"relation", "aggregate"}
    BY ToolKinds
  <2>3. \A n \in DOMAIN tools : tools[n].kind \in Kinds \cup {"relation", "aggregate"}
    BY <1>1 DEF RegistryOK
  <2> HIDE DEF fresh
  <2>4. \A n \in names : (CHOOSE t \in fresh : t.name = n) \in fresh
    OBVIOUS
  <2> HIDE DEF names
  <2> QED BY <2>1, <2>2, <2>3, <2>4
<1>11. \A q \in DOMAIN source' : source'[q].ok => Snake(q[2]) \in DOMAIN tables'
  <2>1. ~ entry.ok
    OBVIOUS
  <2> HIDE DEF entry, q0
  <2> QED BY <1>1, <1>4, <1>5, <1>6, <1>7, <2>1 DEF TablesServed
<1>12. \A q \in DOMAIN source' : EntryOK(q)'
  <2> HIDE DEF q0
  <2> QED BY <1>5, <1>8, <1>9
<1>13. DOMAIN metas' = DOMAIN source'
  BY <1>1, <1>5 DEF RegistryOK
<1>14. RegistryOK'
  BY <1>10, <1>12, <1>13 DEF RegistryOK
<1>15. TablesServed'
  BY <1>11 DEF TablesServed
<1> QED BY <1>14, <1>15

LEMMA RegistryNext == DeployInv /\ [Next]_vars => RegistryOK' /\ TablesServed'
<1> SUFFICES ASSUME DeployInv, [Next]_vars PROVE RegistryOK' /\ TablesServed'
  OBVIOUS
<1>0. RegistryOK /\ TablesServed /\ CliOK /\ DOMAIN tables \subseteq DOMAIN tables'
  BY DatabaseNext DEF DeployInv
<1>1. ASSUME UNCHANGED <<metas, tools, source>> PROVE RegistryOK' /\ TablesServed'
  <2>1. RegistryOK'
    BY <1>0, <1>1 DEF RegistryOK, EntryOK
  <2>2. TablesServed'
    BY <1>0, <1>1 DEF TablesServed
  <2> QED BY <2>1, <2>2
<1>2. ASSUME NEW file \in Files, Apply(file) PROVE UNCHANGED <<metas, tools, source>>
  BY <1>2 DEF Apply
<1>3. CASE Register \/ RegisterUnanswered
  <2>1. Registering
    BY <1>3 DEF Register, RegisterUnanswered
  <2>2. PICK file, s : file = cli.file /\ s = CurrentSchema
    OBVIOUS
  <2> QED BY <2>1, <2>2, RegisteringKeeps
<1>4. CASE RegisterFails \/ DdlRejected \/ DdlUnanswered
  BY <1>1, <1>4 DEF RegisterFails, DdlRejected, DdlUnanswered
<1>5. CASE DdlApplied
  <2>1. CASE Later # {}
    BY <1>1, <1>5, <2>1 DEF DdlApplied
  <2>2. CASE Later = {}
    <3> DEFINE names == AppliedNames
    <3>1. /\ source' = [q \in DOMAIN source |->
                          IF q \in names THEN [source[q] EXCEPT !.ok = TRUE] ELSE source[q]]
          /\ UNCHANGED <<metas, tools>>
          /\ cli # Idle /\ ApplyDdl(cli.file) /\ AfterDdl(cli.file).ok
      BY <1>5, <2>2, Busy DEF DdlApplied
    <3> HIDE DEF names
    <3>2. DOMAIN source' = DOMAIN source
      BY <3>1
    <3>3. \A q \in DOMAIN source : source'[q] = source[q] \/ source'[q] = [source[q] EXCEPT !.ok = TRUE]
      BY <3>1
    <3>4. \A q \in DOMAIN source : EntryOK(q)'
      BY <1>0, <3>1, <3>3, EntryKept DEF RegistryOK
    <3>5. RegistryOK'
      BY <1>0, <3>1, <3>2, <3>4 DEF RegistryOK
    <3>6. \A s \in Schemas(cli.file) : TableName(s) \in DOMAIN tables'
      BY <1>0, <3>1, ApplyDdlKeeps, FileType DEF CliOK, DeployInv
    <3>7. \A q \in names : Snake(q[2]) \in DOMAIN tables'
      BY <3>6 DEF names, AppliedNames, Qualified, TableName
    <3>8. \A q \in DOMAIN source : q \notin names => source'[q] = source[q]
      BY <3>1
    <3>9. TablesServed'
      BY <1>0, <3>2, <3>7, <3>8 DEF TablesServed
    <3> QED BY <3>5, <3>9
  <2> QED BY <2>1, <2>2
<1>6. CASE UNCHANGED vars
  BY <1>1, <1>6 DEF vars
<1> QED BY <1>1, <1>2, <1>3, <1>4, <1>5, <1>6 DEF Next

LEMMA DeployInvInductive == Spec => []DeployInv
<1>1. DeployInv /\ [Next]_vars => DeployInv'
  <2> SUFFICES ASSUME DeployInv, [Next]_vars PROVE DeployInv'
    OBVIOUS
  <2>1. CliOK'
    BY CliNext DEF DeployInv
  <2>2. DatabaseOK(Database)'
    BY DatabaseNext
  <2>3. RegistryOK' /\ TablesServed'
    BY RegistryNext
  <2> QED BY <2>1, <2>2, <2>3 DEF DeployInv
<1> QED BY <1>1, DeployInvInit, PTL DEF Spec

(* DDL is accepted when the source says it should be and once it has been, and *)
(* no table is without its full-text index.                                    *)
THEOREM DdlIsDecided == Spec => []DdlOutcome
<1>1. DeployInv => DdlOutcome
  <2> SUFFICES ASSUME DeployInv PROVE DdlOutcome
    OBVIOUS
  <2>1. DatabaseOK(Database)
    BY DEF DeployInv
  <2>2. ASSUME cli.pc = "ddl" PROVE cli.file \in SourceFiles /\ Compiles(cli.file)
    BY <2>2, Busy, FileType DEF DeployInv, CliOK
  <2>3. ASSUME cli.pc = "ddl", Fresh(cli.file) PROVE AfterDdl(cli.file).ok <=> Deployable(cli.file)
    BY <2>1, <2>2, <2>3, FreshDdl
  <2>4. ASSUME cli.pc = "ddl",
               \A s \in Schemas(cli.file) : TableName(s) \in DOMAIN tables /\ tables[TableName(s)].by = s
        PROVE  AfterDdl(cli.file).ok
    BY <2>1, <2>2, <2>4, OwnTablesPass
  <2>5. ASSUME NEW t \in DOMAIN tables PROVE [table |-> t, how |-> "fts", column |-> "body"] \in indexes
    <3>1. TableOK(Database, t)
      BY <2>1 DEF DatabaseOK, Database
    <3>2. TableName(tables[t].by) = t /\ Indexes(tables[t].by) \subseteq indexes
      BY <3>1 DEF TableOK, Database
    <3>3. Index(tables[t].by, "fts", "body") \in Indexes(tables[t].by)
      BY DEF Indexes
    <3> QED BY <3>2, <3>3 DEF Index
  <2> QED BY <2>3, <2>4, <2>5 DEF DdlOutcome
<1> QED BY <1>1, DeployInvInductive, PTL

-----------------------------------------------------------------------------
(* The statements of the engine over the table of a schema.                    *)

(* Table t is as schema s wants it.                                            *)
MadeBy(t, s) ==
    /\ t \in DOMAIN tables /\ tables[t].columns = Columns(s)
    /\ s \in ReadItems /\ Distinct(s.fields)
    /\ Named(s, "body") = {} => Having(s, "chunked") = {}

(* A column is there with a type when the field of its name says so, or when   *)
(* there is no such field and the convention says so.                          *)
LEMMA ColumnThere ==
  ASSUME NEW t, NEW s, MadeBy(t, s), NEW n, NEW types
  PROVE  HasColumn(Database, t, n, types) <=>
           \/ \E f \in Named(s, n) : Sql(s, n) = {SqlType(f.ty)} /\ SqlType(f.ty) \in types
           \/ Named(s, n) = {} /\ Sql(s, n) = {} /\ \E c \in Added(s) : c.name = n /\ c.type \in types
<1>1. HasColumn(Database, t, n, types) <=> \E c \in ToSet(Columns(s)) : c.name = n /\ c.type \in types
  BY DEF HasColumn, ColumnsOf, Database, MadeBy
<1>2. CASE Named(s, n) = {}
  <2>1. Sql(s, n) = {}
    BY <1>2 DEF Sql
  <2>2. \A c \in ToSet(Columns(s)) : c.name = n => c \in Added(s)
    BY <1>2, ColumnFacts DEF MadeBy
  <2>3. \A c \in Added(s) : c \in ToSet(Columns(s))
    BY ColumnFacts DEF MadeBy
  <2> QED BY <1>1, <1>2, <2>1, <2>2, <2>3
<1>3. CASE Named(s, n) # {}
  <2>1. PICK f \in FieldsOf(s) : f.name = n
    BY <1>3 DEF Named
  <2>2. /\ Column(f) \in ToSet(Columns(s))
        /\ \A c \in ToSet(Columns(s)) : c.name = n => c = Column(f)
        /\ \A g \in FieldsOf(s) : g.name = n => g = f
    BY <2>1, ColumnFacts DEF MadeBy
  <2>3. Named(s, n) = {f}
    BY <2>1, <2>2 DEF Named
  <2>4. Sql(s, n) = {SqlType(f.ty)}
    BY <2>3 DEF Sql
  <2>5. Column(f).name = n /\ Column(f).type = SqlType(f.ty)
    BY <2>1, ColumnType
  <2> QED BY <1>1, <2>2, <2>3, <2>4, <2>5
<1> QED BY <1>2, <1>3

(* The columns of the convention and the others.                               *)
LEMMA ColumnsThere ==
  ASSUME NEW t, NEW s, MadeBy(t, s)
  PROVE  /\ HasColumn(Database, t, "body", {"text"}) <=> Sql(s, "body") \subseteq {"text"}
         /\ HasColumn(Database, t, "created_at", {"timestamptz"}) <=> Sql(s, "created_at") \subseteq {"timestamptz"}
         /\ HasColumn(Database, t, "tenant", {"text"}) <=> Sql(s, "tenant") \subseteq {"text"}
         /\ HasColumn(Database, t, "metadata", {"jsonb"}) <=> Sql(s, "metadata") \subseteq {"jsonb"}
         /\ \A n : HasColumn(Database, t, n, {"text"}) <=> ReadsText(s, n)
<1>0. ASSUME NEW n, NEW y
      PROVE  /\ Named(s, n) # {} =>
                   \E f \in Named(s, n) : /\ Sql(s, n) = {SqlType(f.ty)}
                                          /\ HasColumn(Database, t, n, {y}) <=> SqlType(f.ty) = y
             /\ Named(s, n) = {} =>
                   /\ Sql(s, n) = {}
                   /\ HasColumn(Database, t, n, {y}) <=> \E c \in Added(s) : c.name = n /\ c.type = y
  <2>1. HasColumn(Database, t, n, {y}) <=>
           \/ \E f \in Named(s, n) : Sql(s, n) = {SqlType(f.ty)} /\ SqlType(f.ty) \in {y}
           \/ Named(s, n) = {} /\ Sql(s, n) = {} /\ \E c \in Added(s) : c.name = n /\ c.type \in {y}
    BY ColumnThere
  <2>2. \A f, g \in Named(s, n) : f = g
    BY ColumnFacts DEF Named, MadeBy
  <2>3. CASE Named(s, n) = {}
    BY <2>1, <2>3 DEF Sql
  <2>4. CASE Named(s, n) # {}
    <3>1. PICK f \in Named(s, n) : TRUE
      BY <2>4
    <3>2. Sql(s, n) = {SqlType(f.ty)}
      BY <2>2, <3>1 DEF Sql
    <3> QED BY <2>1, <2>2, <2>4, <3>2
  <2> QED BY <2>3, <2>4
<1>1. ASSUME NEW c \in {Body, CreatedAt, Tenant, Metadata}
      PROVE  HasColumn(Database, t, c.name, {c.type}) <=> Sql(s, c.name) \subseteq {c.type}
  <2>1. Named(s, c.name) = {} => c \in Added(s)
    BY <1>1, ConventionFacts DEF Added, NeedsBody, MadeBy
  <2>2. CASE Named(s, c.name) = {}
    <3>1. HasColumn(Database, t, c.name, {c.type})
      BY <2>1, <2>2, <1>0
    <3>2. Sql(s, c.name) = {}
      BY <2>2 DEF Sql
    <3> QED BY <3>1, <3>2
  <2>3. CASE Named(s, c.name) # {}
    <3>1. PICK f \in Named(s, c.name) : /\ Sql(s, c.name) = {SqlType(f.ty)}
                                        /\ HasColumn(Database, t, c.name, {c.type}) <=> SqlType(f.ty) = c.type
      BY <2>3, <1>0
    <3> QED BY <3>1
  <2> QED BY <2>2, <2>3
<1>2. ASSUME NEW n PROVE HasColumn(Database, t, n, {"text"}) <=> ReadsText(s, n)
  <2>1. Sql(s, n) = {} <=> Named(s, n) = {}
    BY DEF Sql
  <2>2. Named(s, n) = {} =>
          ((\E c \in Added(s) : c.name = n /\ c.type \in {"text"}) <=> n \in {"body", "tenant"})
    BY ConventionFacts DEF Added, NeedsBody, MadeBy
  <2>3. CASE Named(s, n) = {}
    BY <1>0, <2>1, <2>2, <2>3 DEF ReadsText
  <2>4. CASE Named(s, n) # {}
    <3>1. PICK f \in Named(s, n) : /\ Sql(s, n) = {SqlType(f.ty)}
                                   /\ HasColumn(Database, t, n, {"text"}) <=> SqlType(f.ty) = "text"
      BY <1>0, <2>4
    <3>2. {SqlType(f.ty)} = {"text"} <=> SqlType(f.ty) = "text"
      OBVIOUS
    <3> QED BY <2>1, <2>4, <3>1, <3>2 DEF ReadsText
  <2> QED BY <2>3, <2>4
<1> QED BY <1>1, <1>2, ConventionFacts

(* A declared column.                                                          *)
LEMMA DeclaredThere ==
  ASSUME NEW t, NEW s, MadeBy(t, s), NEW f \in FieldsOf(s)
  PROVE  HasColumn(Database, t, f.name, {"text"}) <=> SqlType(f.ty) = "text"
<1>1. HasColumn(Database, t, f.name, {"text"}) <=> ReadsText(s, f.name)
  BY ColumnsThere
<1>2. Named(s, f.name) = {f}
  BY ColumnFacts DEF Named, MadeBy
<1>3. Sql(s, f.name) = {SqlType(f.ty)}
  BY <1>2 DEF Sql
<1> QED BY <1>1, <1>3 DEF ReadsText

LEMMA FetchRunsWhen ==
  ASSUME NEW t, NEW s, MadeBy(t, s) PROVE FetchRuns(Database, t) <=> Fetchable(s)
<1>1. t \in DOMAIN Database.tables
  BY DEF Database, MadeBy
<1>2. \A n : n \notin {"body", "tenant"} => (ReadsText(s, n) <=> Sql(s, n) = {"text"})
  BY DEF ReadsText
<1>3. /\ HasColumn(Database, t, "id", {"text"}) <=> Sql(s, "id") = {"text"}
      /\ HasColumn(Database, t, "title", {"text"}) <=> Sql(s, "title") = {"text"}
  BY <1>2, ColumnsThere
<1> QED BY <1>1, <1>3, ColumnsThere DEF FetchRuns, Fetchable

LEMMA InsertRunsWhen ==
  ASSUME NEW t, NEW s, MadeBy(t, s) PROVE InsertRuns(Database, t) <=> Insertable(s)
<1>1. ColumnsOf(Database, t) = ToSet(Columns(s))
  BY DEF ColumnsOf, Database, MadeBy
<1>2. \A c \in Added(s) : c.name \in Written /\ c.filled /\ ~ c.key
  BY ConventionFacts DEF Added, Written
<1>3. ToSet(Columns(s)) = {Column(f) : f \in FieldsOf(s)} \cup Added(s)
  BY ColumnsFacts DEF MadeBy
<1>4. (\A c \in ToSet(Columns(s)) : c.name \in Written \/ c.filled)
        <=> (\A f \in FieldsOf(s) : f.name \in Written \/ (f.ty.opt /\ "primary" \notin f.deco))
  <2> DEFINE Fills(f) == f.ty.opt /\ "primary" \notin f.deco
  <2>1. \A f \in FieldsOf(s) : Column(f).name = f.name /\ (Column(f).filled <=> Fills(f))
    BY ColumnType
  <2>2. (\A c \in ToSet(Columns(s)) : c.name \in Written \/ c.filled)
          <=> \A f \in FieldsOf(s) : f.name \in Written \/ Fills(f)
    <3> HIDE DEF Fills, Written
    <3> QED BY <1>2, <1>3, <2>1
  <2> QED BY <2>2
<1>5. Fetchable(s) => ((\E c \in ToSet(Columns(s)) : c.name = "id" /\ c.key) <=> KeyedId(s))
  <2>1. (\E c \in ToSet(Columns(s)) : c.name = "id" /\ c.key)
          <=> \E f \in FieldsOf(s) : f.name = "id" /\ f.deco \cap {"primary", "unique"} # {}
    BY <1>2, <1>3, ColumnType
  <2>2. KeyedId(s) <=> \E f \in FieldsOf(s) : /\ f.name = "id" /\ SqlType(f.ty) = "text"
                                              /\ f.deco \cap {"primary", "unique"} # {}
    BY DEF KeyedId, Named
  <2>3. ASSUME Fetchable(s), NEW f \in FieldsOf(s), f.name = "id" PROVE SqlType(f.ty) = "text"
    <3>1. Sql(s, "id") = {"text"}
      BY <2>3 DEF Fetchable
    <3>2. SqlType(f.ty) \in Sql(s, "id")
      BY <2>3 DEF Sql, Named
    <3> QED BY <3>1, <3>2
  <2> QED BY <2>1, <2>2, <2>3
<1> HIDE DEF Written
<1>6. FetchRuns(Database, t) <=> Fetchable(s)
  BY FetchRunsWhen
<1>7. HasColumn(Database, t, "tenant", {"text"}) <=> Sql(s, "tenant") \subseteq {"text"}
  BY ColumnsThere
<1> QED BY <1>1, <1>4, <1>5, <1>6, <1>7 DEF InsertRuns, Insertable

(* What is registered under a name.                                            *)
LEMMA EntryFacts ==
  ASSUME DeployInv, NEW q \in DOMAIN source
  PROVE  \E file \in Files : \E s \in Schemas(file) :
           /\ s \in ReadItems /\ source[q].schema = s
           /\ metas[q] = Meta(file, s) /\ metas[q].table = ToSnake(s.name)
           /\ q[1] = Namespace(file) /\ q[2] = s.name
<1>1. EntryOK(q)
  BY DEF DeployInv, RegistryOK
<1>2. PICK file \in Files : \E s \in Schemas(file) :
         q = Qualified(file, s) /\ metas[q] = Meta(file, s) /\ source[q] \in [schema : {s}, ok : BOOLEAN]
  BY <1>1 DEF EntryOK
<1>3. PICK s \in Schemas(file) :
         q = Qualified(file, s) /\ metas[q] = Meta(file, s) /\ source[q] \in [schema : {s}, ok : BOOLEAN]
  BY <1>2
<1>4. s \in ReadItems
  BY DeclsType, FileType DEF Schemas
<1>5. q[1] = Namespace(file) /\ q[2] = s.name
  BY <1>3 DEF Qualified
<1>6. Meta(file, s).table = ToSnake(s.name)
  BY DEF Meta
<1> QED BY <1>3, <1>4, <1>5, <1>6

(* Without capitals outside ASCII the two spellings are one.                   *)
LEMMA SpelledAlikeIsOne ==
  ASSUME NEW name \in Names, SpelledAlike(name)
  PROVE  Snake(name) = ToSnake(name)
<1> DEFINE Piece(i, caps) == IF name[i].cap \in caps /\ i > 1 THEN <<Underscore, Small(name[i])>>
                                                             ELSE <<Small(name[i])>>
<1>1. \A i \in DOMAIN name : Piece(i, {"ascii", "other"}) = Piece(i, {"ascii"})
  BY DEF SpelledAlike
<1>2. [i \in DOMAIN name |-> Piece(i, {"ascii", "other"})] = [i \in DOMAIN name |-> Piece(i, {"ascii"})]
  <2> HIDE DEF Piece
  <2> QED BY <1>1
<1>3. /\ Underscored(name, {"ascii", "other"}) = FlattenSeq([i \in DOMAIN name |-> Piece(i, {"ascii", "other"})])
      /\ Underscored(name, {"ascii"}) = FlattenSeq([i \in DOMAIN name |-> Piece(i, {"ascii"})])
  BY DEF Underscored
<1> HIDE DEF Piece
<1> QED BY <1>2, <1>3 DEF Snake, ToSnake

(* A schema's own table is as it wants it, and is called as the metadata says. *)
LEMMA OwnTableMade ==
  ASSUME DeployInv, NEW q \in DOMAIN source
  PROVE  /\ source[q].ok /\ SpelledAlike(source[q].schema.name) => metas[q].table \in DOMAIN tables
         /\ OwnTable(q) => /\ metas[q].table = TableName(source[q].schema)
                           /\ MadeBy(metas[q].table, source[q].schema)
<1>1. PICK s : s \in ReadItems /\ source[q].schema = s /\ metas[q].table = ToSnake(s.name) /\ q[2] = s.name
  BY EntryFacts
<1>2. source[q].ok => TableName(s) \in DOMAIN tables
  BY <1>1 DEF DeployInv, TablesServed, TableName
<1>3. ASSUME SpelledAlike(s.name) PROVE metas[q].table = TableName(s)
  <2>1. s.name \in Names
    BY <1>1 DEF ReadItems
  <2> QED BY <1>1, <1>3, <2>1, SpelledAlikeIsOne DEF TableName
<1>4. ASSUME OwnTable(q) PROVE metas[q].table = TableName(s) /\ MadeBy(TableName(s), s)
  <2>1. metas[q].table \in DOMAIN tables /\ tables[metas[q].table].by = s
    BY <1>1, <1>4 DEF OwnTable
  <2>2. TableOK(Database, metas[q].table)
    BY <2>1 DEF DeployInv, DatabaseOK, Database
  <2>3. metas[q].table = TableName(s) /\ tables[TableName(s)] = [columns |-> Columns(s), by |-> s]
    BY <2>1, <2>2 DEF TableOK, Database
  <2>4. Distinct(s.fields) /\ (Named(s, "body") = {} => Having(s, "chunked") = {})
    BY <2>1, <2>2 DEF TableOK, Database
  <2> QED BY <1>1, <2>1, <2>3, <2>4 DEF MadeBy
<1> QED BY <1>1, <1>2, <1>3, <1>4

(* Searching reads the chunked fields and the tenant as text.                  *)
LEMMA SearchRunsWhen ==
  ASSUME NEW file, NEW s, MadeBy(TableName(s), s), Meta(file, s).table = TableName(s)
  PROVE  FetchRuns(Database, TableName(s)) /\ Bm25Runs(Database, Meta(file, s)) <=> Searched(s)
<1> DEFINE t == TableName(s)
<1>1. FetchRuns(Database, t) <=> Fetchable(s)
  BY FetchRunsWhen
<1>2. HasColumn(Database, t, "tenant", {"text"}) <=> Sql(s, "tenant") \subseteq {"text"}
  BY ColumnsThere
<1>3. ASSUME NEW f \in Having(s, "chunked")
      PROVE  HasColumn(Database, t, f.name, {"text"}) <=> SqlType(f.ty) = "text"
  BY DeclaredThere DEF Having
<1>4. Meta(file, s).chunked = {f.name : f \in Having(s, "chunked")} /\ Meta(file, s).table = t
  BY DEF Meta
<1> HIDE DEF t
<1>5. Meta(file, s).chunked = {} <=> Having(s, "chunked") = {}
  BY <1>4
<1>6. (\A n \in Meta(file, s).chunked : HasColumn(Database, t, n, {"text"}))
        <=> \A f \in Having(s, "chunked") : SqlType(f.ty) = "text"
  BY <1>3, <1>4
<1>7. Bm25Runs(Database, Meta(file, s)) <=>
        (Having(s, "chunked") # {} =>
           /\ Sql(s, "tenant") \subseteq {"text"}
           /\ \A f \in Having(s, "chunked") : SqlType(f.ty) = "text")
  BY <1>2, <1>4, <1>5, <1>6 DEF Bm25Runs
<1> QED BY <1>1, <1>7 DEF Searched, t

(* A bucket's key is a facet, and reads as text.                               *)
LEMMA AggregateRunsWhen ==
  ASSUME NEW file, NEW s, MadeBy(TableName(s), s), Meta(file, s).table = TableName(s), NEW n
  PROVE  AggregateRuns(Database, Meta(file, s), n)
           <=> \E f \in Having(s, "facet") : f.name = n /\ SqlType(f.ty) = "text"
<1>1. TableName(s) \in DOMAIN Database.tables
  BY DEF Database, MadeBy
<1>2. Meta(file, s).facets = {f.name : f \in Having(s, "facet")} /\ Meta(file, s).table = TableName(s)
  BY DEF Meta
<1>3. ASSUME NEW f \in Having(s, "facet")
      PROVE  HasColumn(Database, TableName(s), f.name, {"text"}) <=> SqlType(f.ty) = "text"
  BY DeclaredThere DEF Having
<1> QED BY <1>1, <1>2, <1>3 DEF AggregateRuns

(* A relation is walked along the one of its name that is declared last.       *)
LEMMA LastRelation ==
  ASSUME NEW s \in ReadItems, NEW n \in {r.name : r \in ToSet(s.rels)}
  PROVE  \E i \in DOMAIN s.rels :
            /\ RelationNamed(s, n) = s.rels[i] /\ s.rels[i].name = n
            /\ \A j \in DOMAIN s.rels : j > i => s.rels[j].name # n
            /\ \A k \in DOMAIN s.rels :
                  s.rels[k].name = n /\ (\A j \in DOMAIN s.rels : j > k => s.rels[j].name # n) => k = i
<1>1. s.rels \in Seq(Relations) /\ Len(s.rels) \in Nat /\ DOMAIN s.rels = 1 .. Len(s.rels)
  BY DEF ReadItems
<1>2. RelationsAt(s, n) \in SUBSET (1 .. Len(s.rels)) /\ RelationsAt(s, n) # {}
  BY <1>1 DEF RelationsAt, ToSet
<1> DEFINE i == Max(RelationsAt(s, n))
<1>3. i \in RelationsAt(s, n) /\ \A j \in RelationsAt(s, n) : j <= i
  BY <1>1, <1>2, MaxFacts
<1>4. RelationNamed(s, n) = s.rels[i]
  BY DEF RelationNamed
<1> HIDE DEF i
<1> QED BY <1>1, <1>3, <1>4 DEF RelationsAt

LEMMA RelationRunsWhen ==
  ASSUME DeployInv, NEW q \in DOMAIN source, NEW r \in DOMAIN metas[q].relations,
         LET target == metas[q].relations[r].target IN target \in DOMAIN source => OwnTable(target)
  PROVE  RelationRuns(Database, metas[q], r) <=> Walked(q, r)
<1>1. PICK file, s : /\ s \in ReadItems /\ source[q].schema = s
                     /\ metas[q] = Meta(file, s) /\ q[1] = Namespace(file)
  BY EntryFacts
<1>2. r \in {x.name : x \in ToSet(s.rels)}
  BY <1>1, RelationFacts
<1>3. PICK i \in DOMAIN s.rels :
         /\ RelationNamed(s, r) = s.rels[i] /\ s.rels[i].name = r
         /\ \A j \in DOMAIN s.rels : j > i => s.rels[j].name # r
         /\ \A k \in DOMAIN s.rels :
               s.rels[k].name = r /\ (\A j \in DOMAIN s.rels : j > k => s.rels[j].name # r) => k = i
  BY <1>1, <1>2, LastRelation
<1> DEFINE target == <<q[1], s.rels[i].target>>
           via == s.rels[i].via
<1>4. metas[q].relations[r].target = target /\ metas[q].relations[r].fk = via
  BY <1>1, <1>3, RelationFacts
<1> HIDE DEF target, via
<1>5. DOMAIN metas = DOMAIN source
  BY DEF DeployInv, RegistryOK
<1>6. ASSUME target \in DOMAIN source
      PROVE  /\ FetchRuns(Database, metas[target].table) <=> Fetchable(source[target].schema)
             /\ HasColumn(Database, metas[target].table, via[1], {"text"}) <=> ReadsText(source[target].schema, via[1])
  <2>1. MadeBy(metas[target].table, source[target].schema)
    BY <1>4, <1>6, OwnTableMade
  <2> QED BY <2>1, FetchRunsWhen, ColumnsThere
<1>7. RelationRuns(Database, metas[q], r) <=>
        /\ target \in DOMAIN source /\ Len(via) = 1
        /\ Fetchable(source[target].schema) /\ ReadsText(source[target].schema, via[1])
  BY <1>4, <1>5, <1>6 DEF RelationRuns
<1>8. Walked(q, r) <=>
        /\ target \in DOMAIN source /\ Len(via) = 1
        /\ Fetchable(source[target].schema) /\ ReadsText(source[target].schema, via[1])
  BY <1>1, <1>3 DEF Walked, target, via
<1> QED BY <1>7, <1>8

(* What a tool needs and what the source offers, one kind after the other.     *)
LEMMA ToolRunsWhen ==
  ASSUME DeployInv, NEW n \in DOMAIN tools, NEW q \in DOMAIN source,
         tools[n].schema = q, OwnTable(q), Decided(q, tools[n])
  PROVE  Runs(Database, tools[n]) <=> Works(q, tools[n])
<1> DEFINE tool == tools[n]
<1>1. PICK file, s : /\ s \in ReadItems /\ source[q].schema = s
                     /\ metas[q] = Meta(file, s) /\ metas[q].table = TableName(s)
  BY EntryFacts, OwnTableMade
<1>2. MadeBy(TableName(s), s)
  BY <1>1, OwnTableMade
<1>3. tool.kind \in Kinds \cup {"relation", "aggregate"}
  BY DEF DeployInv, RegistryOK
<1> HIDE DEF tool
<1>4. tool.schema = q /\ Decided(q, tool)
  BY DEF tool
<1>5. CASE tool.kind = "search"
  <2>1. Runs(Database, tool) <=> FetchRuns(Database, TableName(s)) /\ Bm25Runs(Database, Meta(file, s))
    BY <1>1, <1>4, <1>5 DEF Runs
  <2>2. Works(q, tool) <=> Searched(s)
    BY <1>1, <1>5 DEF Works
  <2> QED BY <1>1, <1>2, <2>1, <2>2, SearchRunsWhen DEF tool
<1>6. CASE tool.kind \in {"get", "list"}
  <2>1. Runs(Database, tool) <=> FetchRuns(Database, TableName(s))
    BY <1>1, <1>4, <1>6 DEF Runs
  <2>2. Works(q, tool) <=> Fetchable(s)
    BY <1>1, <1>6 DEF Works
  <2> QED BY <1>2, <2>1, <2>2, FetchRunsWhen DEF tool
<1>7. CASE tool.kind = "relation"
  <2>1. Runs(Database, tool) <=> tool.arg \in DOMAIN metas[q].relations /\ RelationRuns(Database, metas[q], tool.arg)
    BY <1>4, <1>7 DEF Runs
  <2>2. Works(q, tool) <=> tool.arg \in DOMAIN metas[q].relations /\ Walked(q, tool.arg)
    BY <1>7 DEF Works
  <2>3. ASSUME tool.arg \in DOMAIN metas[q].relations
        PROVE  LET target == metas[q].relations[tool.arg].target IN target \in DOMAIN source => OwnTable(target)
    BY <1>4, <1>7, <2>3 DEF Decided
  <2>4. ASSUME tool.arg \in DOMAIN metas[q].relations
        PROVE  RelationRuns(Database, metas[q], tool.arg) <=> Walked(q, tool.arg)
    BY <2>3, <2>4, RelationRunsWhen
  <2> QED BY <2>1, <2>2, <2>4 DEF tool
<1>8. CASE tool.kind = "aggregate"
  <2>1. Runs(Database, tool) <=> AggregateRuns(Database, Meta(file, s), tool.arg)
    BY <1>1, <1>4, <1>8 DEF Runs
  <2>2. Works(q, tool) <=> \E f \in Having(s, "facet") : f.name = tool.arg /\ SqlType(f.ty) = "text"
    BY <1>1, <1>8 DEF Works
  <2> QED BY <1>1, <1>2, <2>1, <2>2, AggregateRunsWhen DEF tool
<1> QED BY <1>3, <1>5, <1>6, <1>7, <1>8 DEF Kinds

(* After an apply that reported success every schema of the file whose name    *)
(* DDL and metadata spell alike has its table, and where the schema made it    *)
(* itself, the insert of ingestion and the query of each tool run exactly when *)
(* the fields of the source allow it.                                          *)
THEOREM ServedIsDecided == Spec => []ServedRuns
<1>1. DeployInv => ServedRuns
  <2> SUFFICES ASSUME DeployInv, NEW q \in DOMAIN source
               PROVE  /\ source[q].ok /\ SpelledAlike(source[q].schema.name) => metas[q].table \in DOMAIN tables
                      /\ OwnTable(q) =>
                            /\ InsertRuns(Database, metas[q].table) <=> Insertable(source[q].schema)
                            /\ \A n \in DOMAIN tools :
                                  tools[n].schema = q /\ Decided(q, tools[n]) =>
                                      (Runs(Database, tools[n]) <=> Works(q, tools[n]))
    BY DEF ServedRuns
  <2>1. source[q].ok /\ SpelledAlike(source[q].schema.name) => metas[q].table \in DOMAIN tables
    BY OwnTableMade
  <2>2. ASSUME OwnTable(q) PROVE InsertRuns(Database, metas[q].table) <=> Insertable(source[q].schema)
    BY <2>2, OwnTableMade, InsertRunsWhen
  <2>3. ASSUME OwnTable(q), NEW n \in DOMAIN tools, tools[n].schema = q, Decided(q, tools[n])
        PROVE  Runs(Database, tools[n]) <=> Works(q, tools[n])
    BY <2>3, ToolRunsWhen
  <2> QED BY <2>1, <2>2, <2>3
<1> QED BY <1>1, DeployInvInductive, PTL

=============================================================================
