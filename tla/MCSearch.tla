------------------------------ MODULE MCSearch ------------------------------
(* Small instances of Search for TLC: two rows of one tenant, one of none,  *)
(* and a piece of the text of two of them.                                  *)
EXTENDS Search, TLC

CONSTANTS r1, r2, r3, p1, p3, acme

MCRecordOf == p1 :> r1 @@ p3 :> r3
MCTenantOf == r1 :> acme @@ r2 :> acme @@ r3 :> NoTenant
=============================================================================
