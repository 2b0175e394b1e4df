------------------------------ MODULE MCIngest ------------------------------
(* Small instances of IngestRuntime for TLC: one schema, one long document  *)
(* (two chunks) and one whose body is empty.                                *)
EXTENDS IngestRuntime, TLC

CONSTANTS s1, t1, long, empty, b1

MCChunkCount == [d \in Docs |-> IF d = long THEN 2 ELSE 0]
MCTarget == b1 :> s1
MCTenantOf == b1 :> t1
WorkerSymmetry == Permutations(Workers)
=============================================================================
