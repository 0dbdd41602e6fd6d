---------------------------- MODULE MCAttachment ----------------------------
(* Small instances of Attachment.                                          *)
EXTENDS Attachment, TLC

Symmetry == Permutations(Nonces) \cup Permutations(Tokens)
            \cup Permutations(Handlers) \cup Permutations(Detachers)
=============================================================================
