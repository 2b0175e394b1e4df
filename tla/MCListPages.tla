---------------------------- MODULE MCListPages -----------------------------
(* ListPages over four ids and pages of up to two rows; a limit of three    *)
(* is cut to the cap.                                                       *)
EXTENDS ListPages
=============================================================================
