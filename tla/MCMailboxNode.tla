--------------------------- MODULE MCMailboxNode ----------------------------
(* Instances of MailboxNode for TLC. *)
EXTENDS MailboxNode, TLC

Symmetry == Permutations(Msgs) \cup Permutations(Users)
=============================================================================
