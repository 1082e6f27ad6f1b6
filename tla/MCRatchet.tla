------------------------------ MODULE MCRatchet ------------------------------
(* Instances of Ratchet for TLC. *)
EXTENDS Ratchet, TLC

\* Long chains one way, with several turns ...
Uneven == Alice :> 4 @@ Bob :> 2

\* ... and more turns both ways.
Even == Alice :> 3 @@ Bob :> 3
=============================================================================
