----------------------------- MODULE MCProfiles -----------------------------
(* Instances of Profiles for TLC. *)
EXTENDS Profiles, TLC

CONSTANTS c1, c2

\* One client comes back after the other has had a turn.
Requests == c1 :> 2 @@ c2 :> 1
=============================================================================
