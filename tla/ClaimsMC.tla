------------------------------ MODULE ClaimsMC ------------------------------
(* Model-checking instances of Claims: the end of a session.                *)
EXTENDS Claims, TLC

BellRings == 0 :> "OPEN" @@ 1 :> "CLOSED"
Weekend == 0 :> "OPEN" @@ 1 :> "CLOSED" @@ 2 :> "CLOSED"
=============================================================================
