------------------------------ MODULE MCCatalog ------------------------------
(* Small instances of Catalog: two handlers, one binding in two shapes, and *)
(* a schema in two versions, one with a facet and one with a relation,      *)
(* beside one that shares its slug.                                         *)
EXTENDS Catalog, TLC

HandlerSymmetry == Permutations(Handlers)

\* doc is a.b.Doc, twin is a_b.Doc.
MCSlug == [doc |-> <<"a", "b", "Doc">>, twin |-> <<"a", "b", "Doc">>,
           parts |-> <<"parts">>, kind |-> <<"kind">>]

Schema(name, version, extras) == [name |-> name, version |-> version, extras |-> extras]

MCSchemas == {Schema("doc", 1, {"kind"}), Schema("doc", 2, {"parts"}),
              Schema("twin", 1, {"parts"})}
=============================================================================
