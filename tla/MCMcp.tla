--------------------------------- MODULE MCMcp ---------------------------------
(* Bodies for Mcp: each kind of item on its own, a batch of a notification   *)
(* and a call, and an empty batch.                                            *)
EXTENDS Mcp

Single(item) == [batch |-> FALSE, items |-> <<item>>]
SomeBodies ==
    {Single(item) : item \in Items}
    \cup {[batch |-> TRUE, items |-> <<"notification", "call">>], [batch |-> TRUE, items |-> <<>>]}
=============================================================================
