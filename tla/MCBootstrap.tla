---------------------------- MODULE MCBootstrap -----------------------------
(* Alice writes first and may be late; Bob rotates more often than he keeps *)
(* prekeys, so that an init can outlive the prekey it was made for.         *)
EXTENDS Bootstrap, TLC

MCParties == {"A", "B"}
MCMaxRotations == "A" :> 0 @@ "B" :> 3
MCMaxSends == "A" :> 2 @@ "B" :> 1
=============================================================================
