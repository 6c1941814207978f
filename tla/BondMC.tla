------------------------------- MODULE BondMC -------------------------------
(* Model-checking instances of Bond: two claims, a body that is true and one that lies. *)
EXTENDS Bond, TLC

CONSTANTS claimA, claimB, honest, gamed, alice, bob, carol

TwoClaims == {claimA, claimB}
TwoBodies == {honest, gamed}
OneLie == {gamed}
ThreeNodes == {alice, bob, carol}
TwoSizes == {10, 30}
OneSize == {10}
OneTick == {1}

\* Nothing distinguishes one node, or one id, from another.
NodeSymmetry == Permutations(ThreeNodes) \cup Permutations(TwoClaims)
=============================================================================
