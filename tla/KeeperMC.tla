------------------------------ MODULE KeeperMC ------------------------------
(* Model-checking instances of Keeper: a session shorter than a suspension, *)
(* then a closure longer than StaleBound, then another opening.             *)
EXTENDS Keeper

Bells == {3, 5, 18}
DawnOrMidday == {1, 4}
=============================================================================
