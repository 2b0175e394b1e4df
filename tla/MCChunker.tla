----------------------------- MODULE MCChunker ------------------------------
(* Bodies of up to four short paragraphs; budgets below and above them.     *)
EXTENDS Chunker

MCBodies == UNION {[1..n -> {1, 4, 7}] : n \in 0..4}
=============================================================================
