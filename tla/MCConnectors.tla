---------------------------- MODULE MCConnectors ----------------------------
(* Connectors over three items and pages of two; the page size asked for is *)
(* none, granted, or more than the service gives.                           *)
EXTENDS Connectors
=============================================================================
