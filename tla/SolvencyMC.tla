----------------------------- MODULE SolvencyMC -----------------------------
(***************************************************************************)
(* Marinade sound, short of stake, minted in excess, out of date, with a   *)
(* ticket its header does not know, and with an unusable stake account; a  *)
(* reserve with all guards, one without any, and one of another asset.     *)
(***************************************************************************)
EXTENDS Solvency

Whole ==
  [state |-> [supply |-> 3, available |-> 2, active |-> 2, cooling |-> 1, tickets |-> 1],
   mint |-> 3, reserve |-> 3, stamp |-> 1, stake |-> 3, usable |-> TRUE, open |-> 1, epoch |-> 1]
SixPools ==
  { Whole, [Whole EXCEPT !.stake = 1], [Whole EXCEPT !.mint = 4], [Whole EXCEPT !.epoch = 2],
    [Whole EXCEPT !.open = 2], [Whole EXCEPT !.usable = FALSE] }
OneAmount == {1}

Guarded == [heuristicLo |-> 1, heuristicHi |-> 2, maxTwapDivPct |-> 5, maxAgePrice |-> 2]
ThreeReserves ==
  { [name |-> "SPYx", guards |-> Guarded],
    [name |-> "SPYx", guards |-> [heuristicLo |-> 0, heuristicHi |-> 0,
                                  maxTwapDivPct |-> 100, maxAgePrice |-> 61]],
    [name |-> "AAPLx", guards |-> Guarded] }
=============================================================================
