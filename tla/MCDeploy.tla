------------------------------- MODULE MCDeploy -------------------------------
(* Files for Deploy: a customer schema in many shapes, and files of several   *)
(* schemas with references, relations, enums, and syntax the parser stops at. *)
EXTENDS Deploy

Cap(w) == [w |-> w, cap |-> "ascii"]
CapAbroad(w) == [w |-> w, cap |-> "other"]
Customer == <<Cap("customer")>>
SupportTicket == <<Cap("support"), Cap("ticket")>>

Ty(base) == [opt |-> FALSE, list |-> FALSE, base |-> base, of |-> <<>>]
Opt(ty) == [ty EXCEPT !.opt = TRUE]
List(ty) == [ty EXCEPT !.list = TRUE]
Ref(name) == [Ty("Ref") EXCEPT !.of = name]

Field(name, ty, deco) == [kw |-> "", name |-> name, ty |-> ty, deco |-> deco, fault |-> "none"]
Schema(name, fields, rels) ==
    [kind |-> "schema", name |-> name, version |-> 1, head |-> "none", fields |-> fields,
     rels |-> rels, ctx |-> <<>>, policy |-> TRUE, tail |-> "none"]
Enum(name) == [Schema(name, <<>>, <<>>) EXCEPT !.kind = "enum"]
File(items) == [ns |-> <<"acme">>, items |-> items]
Many(name, target, via) == [name |-> name, many |-> TRUE, target |-> target, via |-> via]

Id == Field("id", Ty("Ulid"), {"primary"})
Title == Field("title", Ty("String"), {"searchable"})
Body == Field("body", Ty("Text"), {"chunked"})
Notes == Field("notes", Ty("Text"), {"chunked"})

Ids == {Id, Field("id", Ty("Uuid"), {"primary"}), Field("key", Ty("String"), {"primary"})}
Bodies == {<<>>, <<Body>>, <<Notes>>, <<Field("body", Ty("Json"), {})>>}
Extras ==
    {Field("seats", Opt(Ty("I64")), {"facet", "indexed"}),
     Field("seats", Ty("I64"), {}), Field("seats", Opt(Ty("I64")), {"searchable"}),
     Field("created_at", Ty("Instant"), {}), Field("created_at", Ty("String"), {}),
     Field("metadata", Ty("Json"), {}), Field("tenant", Ty("Text"), {"indexed"}),
     Field("title", Ty("String"), {}), Field("order", Opt(Ty("I32")), {}),
     Field("parent", Ref(Customer), {}), Field("parent", Opt(Ref(Customer)), {}),
     Field("vec", Opt(Ty("Vector")), {}), Field("vec", Ty("Vector"), {}),
     Field("tags", Opt(List(Ty("String"))), {"facet"})}

Arg(label, kind, n) == [label |-> label, kind |-> kind, n |-> n]
Number(key, n) == [key |-> key, call |-> "", args |-> <<Arg("", "int", n)>>]
Call(key, name, args) == [key |-> key, call |-> name, args |-> args]
MaxTokens == Arg("max_tokens", "int", 256)
Overlap == Arg("overlap", "int", 32)
Contexts ==
    {<<Number("vector_dims", 32), Number("default_top_k", 8)>>,
     <<Number("vector_dims", 32), Number("vector_dims", 16)>>,
     <<Number("default_top_k", 8), Number("default_top_k", 20)>>,
     <<Number("default_top_k", -1), Number("vector_dims", -1)>>,
     <<Call("chunking", "semantic", <<MaxTokens, Overlap>>), Call("freshness_decay", "linear", <<>>)>>,
     <<Call("chunking", "semantic", <<Overlap, MaxTokens>>)>>,
     <<Call("chunking", "semantic", <<MaxTokens>>), Call("freshness_decay", "exponential", <<Arg("half_life", "duration", 60)>>)>>,
     <<Call("vector_dims", "of", <<Arg("", "int", 32)>>), Number("default_top_k", 8),
       Call("chunking", "semantic", <<MaxTokens, Overlap, Overlap>>)>>,
     <<Call("chunking", "fixed", <<>>), Call("chunking", "recursive", <<MaxTokens>>), Call("freshness_decay", "step", <<>>)>>}

OneSchema(id, body, extra) == File(<<Schema(Customer, <<id, Title>> \o body \o <<extra>>, <<>>)>>)
Tier == Field("tier", Opt(Ty("String")), {"facet"})
Shapes ==
    {OneSchema(Id, body, extra) : body \in Bodies, extra \in Extras}
    \cup {OneSchema(id, body, Tier) : id \in Ids, body \in Bodies}

Plain(name, more) == Schema(name, <<Id, Title, Body>> \o more, <<>>)
Tickets(via) == <<Many("tickets", SupportTicket, via)>>
Ticket(ty, more) == Plain(SupportTicket, <<Field("customer", ty, {"facet"})>> \o more)
OptCustomer == Opt(Ref(Customer))

Several ==
    {File(<<Plain(Customer, <<>>), Ticket(Ref(Customer), <<>>)>>),
     File(<<Ticket(Ref(Customer), <<>>), Plain(Customer, <<>>)>>),
     File(<<[Plain(Customer, <<>>) EXCEPT !.rels = Tickets(<<"customer">>)], Ticket(OptCustomer, <<>>)>>),
     File(<<[Plain(Customer, <<>>) EXCEPT !.rels = Tickets(<<"Ticket", "customer">>)], Ticket(OptCustomer, <<>>)>>),
     File(<<[Plain(Customer, <<>>) EXCEPT !.rels = Tickets(<<"customer">>), !.version = 2],
            Ticket([Ty("Named") EXCEPT !.of = <<Cap("tier")>>], <<>>), Enum(<<Cap("tier")>>)>>),
     File(<<[Plain(Customer, <<>>) EXCEPT !.rels = Tickets(<<"tenant">>)], Ticket(OptCustomer, <<>>)>>),
     File(<<[Plain(Customer, <<>>) EXCEPT !.rels =
               Tickets(<<"customer">>) \o <<[Tickets(<<"id">>)[1] EXCEPT !.target = Customer, !.many = FALSE]>>],
            Ticket(OptCustomer, <<>>)>>),
     File(<<Plain(Customer, <<Field("tags", Ty("Map"), {})>>)>>),
     File(<<Plain(Customer, <<Field("tenant", Ty("I64"), {})>>)>>),
     File(<<Plain(Customer, <<Field("other", Ref(SupportTicket), {})>>)>>),
     File(<<Plain(Customer, <<Field("second", Ty("String"), {"primary"})>>)>>),
     File(<<Plain(Customer, <<>>), Plain(Customer, <<>>)>>),
     File(<<[Plain(Customer, <<>>) EXCEPT !.policy = FALSE]>>),
     File(<<Plain(Customer, <<[Field("_number", Opt(Ty("String")), {"facet"}) EXCEPT !.kw = "policy"]>>)>>),
     File(<<Plain(Customer, <<[Field("target", Ty("Ref"), {}) EXCEPT !.fault = "hard"]>>)>>),
     File(<<Ticket([Ty("Named") EXCEPT !.of = <<Cap("list"), Run("ing")>>], <<>>),
            Enum(<<Cap("list"), Run("ing")>>)>>),
     File(<<Plain(<<Cap("order")>>, <<>>)>>),
     File(<<Plain(SupportTicket, <<>>), Plain(<<Cap("support"), Underscore, Run("ticket")>>, <<>>)>>),
     [File(<<Plain(Customer, <<Field("seats", Opt(Ty("I64")), {"indexed"})>>)>>) EXCEPT !.ns = <<"acme", "crm">>],
     [File(<<Plain(Customer, <<>>)>>) EXCEPT !.ns = <<>>],
     File(<<Schema(Customer, <<Field("id", Ty("Ulid"), {"unique"}), Title, Body,
                               Field("key", Opt(Ty("String")), {"primary"})>>, <<>>)>>),
     File(<<Schema(Customer, <<Field("id", Opt(Ty("Ulid")), {"primary"}), Title, Body>>, <<>>)>>),
     File(<<Plain(<<CapAbroad("etat")>>, <<>>), Plain(<<Cap("customer"), CapAbroad("etat")>>, <<>>)>>),
     File(<<Plain(Customer, <<[Field("from", Ty("String"), {}) EXCEPT !.kw = "policy"]>>)>>)}

(* A field called `from` in the second schema.                                *)
Cut == File(<<Plain(Customer, <<>>), Ticket(OptCustomer, <<Field("from", Ty("String"), {})>>)>>)

Tuned == {File(<<[Plain(Customer, <<>>) EXCEPT !.ctx = ctx]>>) : ctx \in Contexts}

AllFiles == Shapes \cup Several \cup Tuned \cup {Cut}
FewFiles == {Cut, File(<<Plain(Customer, <<>>)>>)}
=============================================================================
