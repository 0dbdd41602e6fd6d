--------------------------- MODULE MCCompletions ---------------------------
(* Small instances of Completions.                                         *)
EXTENDS Completions
=============================================================================
