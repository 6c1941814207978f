----------------------------- MODULE CollapseMC -----------------------------
(***************************************************************************)
(* Three transfers in three blocks among two boundary contracts, an        *)
(* intermediary and two accounts; vaults with a crowded slot, with a page  *)
(* ending at the edge of the window, and with a signature without time;    *)
(* books that break at no, some and every gap, one with two positions      *)
(* alike.                                                                  *)
(***************************************************************************)
EXTENDS Collapse

CONSTANTS market, vaultB, router, alice, bob
AllAccounts == {market, vaultB, router, alice, bob}
TheBoundary == {market, vaultB}
TheRouter == {router}
CodeOf == [a \in AllAccounts |-> IF a = bob THEN "eoa" ELSE IF a = alice THEN "y" ELSE "x"]

Move(b, f, t, v) == [block |-> b, from |-> f, to |-> t, value |-> v]
\* Three transfers: out, in or across the boundary, in every mix of directions and blocks.
Mixed ==
  { <<Move(1, market, a, v), t, u>> : a \in {alice, router}, v \in {1, 2},
      t \in {Move(b, f, market, w) : b \in {1, 2}, f \in {alice, bob}, w \in {1, 3}}
              \cup {Move(2, market, vaultB, 1)},
      u \in {Move(b, market, a, 2) : b \in {2, 3}, a \in {alice, bob}}
              \cup {Move(b, alice, vaultB, 2) : b \in {2, 3}} }

Sig(t, s, b) == [time |-> t, slot |-> s, bal |-> b]
FourVaults ==
  { <<Sig(1, 1, 5), Sig(2, 2, 5), Sig(2, 3, 4), Sig(3, 4, 6), Sig(3, 5, 2), Sig(4, 6, 3)>>,
    <<Sig(1, 1, 2), Sig(2, 2, 3), Sig(3, 3, 1), Sig(3, 3, 4), Sig(3, 4, 2), Sig(5, 5, 0)>>,
    <<Sig(2, 1, 3), Sig(2, 2, 1), Sig(3, 3, 2), Sig(3, 4, 0)>>,
    <<Sig(1, 1, 1), Sig(2, 2, 2), Sig(0, 3, 1), Sig(3, 4, 4)>> }

ThreeSizes == <<2, 4, 6>>
ThreeDepths == {1, 4, 9}
Position(k, q, d, only) == [pk |-> k, qty |-> q, debt |-> d, supplyOnly |-> only]
FiveBooks ==
  { {Position(1, 2, 3, FALSE), Position(2, 4, 2, FALSE), Position(3, 1, 0, TRUE)},
    {Position(1, 3, 5, FALSE), Position(2, 2, 4, FALSE), Position(3, 5, 8, FALSE)},
    {Position(1, 4, 7, FALSE), Position(2, 1, 2, FALSE), Position(3, 1, 2, FALSE)},
    {Position(1, 4, 1, FALSE)},
    {Position(1, 1, 3, FALSE), Position(2, 6, 6, FALSE)} }
=============================================================================
