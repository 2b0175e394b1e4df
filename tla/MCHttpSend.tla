----------------------------- MODULE MCHttpSend -----------------------------
(* A small instance of HttpSend for TLC.                                    *)
EXTENDS HttpSend
=============================================================================
