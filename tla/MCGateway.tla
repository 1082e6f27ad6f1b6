------------------------------ MODULE MCGateway ------------------------------
(***************************************************************************)
(* Instances of Gateway for TLC.  The history variables decide no step, so *)
(* that states which differ only in those that no property of a run reads  *)
(* are one state to it.                                                    *)
(***************************************************************************)
EXTENDS Gateway, TLC

MsgSymmetry == Permutations(Msgs)
Symmetry == Permutations(Conns) \cup Permutations(Msgs)

\* What the code has, and what its connections have sent.
Present == <<conns, delivered, persisted, persists, handler, outside, got>>

\* With what NoRepeat and RemovedWasMarked look back at.
PresentAndPast == <<Present, past, marked>>
=============================================================================
