------------------------------ MODULE MCPolicy ------------------------------
EXTENDS Policy

\* Predicates put together: the parts, then the whole.
Moved(p, d) ==
    [k \in DOMAIN p |-> CASE p[k].e = "bin" -> Bin(p[k].op, p[k].l + d, p[k].r + d)
                          [] p[k].e = "not" -> Not(p[k].x + d)
                          [] OTHER -> p[k]]
Join(op, p, q) == p \o Moved(q, Len(p)) \o <<Bin(op, Len(p), Len(p) + Len(q))>>
Negated(p) == Append(p, Not(Len(p)))

Value(v) == <<Lit(v)>>
CallerPath(k) == <<PathOf("LOAD_CALLER", <<k>>)>>
SelfPath(k) == <<PathOf("LOAD_SELF", <<k>>)>>
Whole == <<PathOf("LOAD_CALLER", << >>)>>
Self == <<PathOf("LOAD_SELF", << >>)>>
Mine == Join("EQ", CallerPath("id"), SelfPath("owner"))
Region(r) == Join("EQ", <<PathOf("LOAD_CALLER", <<"attrs", "regional">>)>>, Value(Str(r)))
Yes == Value(Bool(TRUE))
OneOf == Join("IN", SelfPath("owner"), CallerPath("groups"))

\* Strings that JSON escapes, and a name of four bytes (0x04 is LIT_F64).
MCEscaped == {"bell"}
MCSpelled == [s \in {"a\nb"} |-> "a\\nb"]
MCRunnable == {"team"}

\* One predicate of each form, some with an operand that is absent.
Predicates ==
    {Yes, Value(Str("ann")), Mine, Negated(Mine), Negated(SelfPath("level")), Region("eu"),
     Join("NE", SelfPath("level"), Value(Num(1))), OneOf,
     Join("NOT_IN", Value(Str("ann")), CallerPath("groups")),
     Join("IN", Value(Str("ann")), SelfPath("owner")),
     Join("CALL_HAS_ROLE", Whole, Value(Str("admin"))),
     Join("CALL_HAS_ROLE", SelfPath("owner"), Value(Str("admin"))),
     Join("CALL_HAS_ROLE", Whole, Value(Num(1))),
     Join("CALL_TENANT_MATCH", Whole, Self),
     Join("OR", Mine, SelfPath("level")), Join("AND", Mine, Region("eu")),
     Join("OR", Region("eu"), Join("AND", Mine, Mine)),
     Join("OR", Yes, Join("OR", Yes, Join("OR", Yes, Mine))),
     Join("EQ", <<PathOf("LOAD_SELF", <<"customer", "manager">>)>>, CallerPath("team")),
     Join("EQ", <<PathOf("LOAD_SELF", <<"tenant", "manager">>)>>, Value(Null)),
     Join("EQ", <<PathOf("LOAD_SELF", <<"customer", "team", "manager">>)>>, CallerPath("team")),
     Join("NE", SelfPath("owner"), Value(Str("a\nb"))),
     Join("EQ", CallerPath("id"), SelfPath("tenant")), <<Other>>}
    \cup {Join(op, Value(Num(1)), Value([float |-> 3])) : op \in Orders}
    \cup {Join(op, SelfPath("level"), Value(Num(1))) : op \in {"LT", "GE"}}

MCBlocks ==
    {<< >>}
    \cup {<<Rule({"read"}, p)>> : p \in Predicates}
    \cup {<<Rule({"read", "list"}, Mine), Rule({"read", "write"}, Region("eu"))>>,
          <<Rule({"list"}, Negated(Mine)), Rule({"read", "list"}, Yes)>>,
          <<Rule({"read"}, Mine), Rule({"list"}, Mine), Rule({"write"}, Mine)>>}

MCCaller(id, groups, roles, attrs) ==
    Obj(<<Entry("id", Str(id)), Entry("tenant", Str("acme")), Entry("groups", Arr(groups)),
          Entry("roles", Arr(roles)), Entry("attrs", Obj(attrs))>>)
MCCallers ==
    {MCCaller("ann", <<Str("bob")>>, <<Str("admin")>>, << >>),
     MCCaller("bob", << >>, << >>, <<Entry("regional", Str("eu"))>>)}

MCRecord(body, level, owner, tenant) ==
    Obj(<<Entry("body", body), Entry("level", level), Entry("owner", owner),
          Entry("tenant", tenant)>>)
MCRecords ==
    {MCRecord(Str("x"), Num(1), Str("ann"), Str("acme")),
     MCRecord(Str("x"), [float |-> 3], Str("bob"), Str("other")),
     MCRecord(Str("bell"), Bool(TRUE), Str("ann"), Str("acme")),
     MCRecord(Str("x"), Num(1), Str("a\nb"), Str("acme")),
     Obj(<<Entry("level", [float |-> 2]), Entry("tenant", Null)>>)}
=============================================================================
