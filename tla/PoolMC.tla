------------------------------- MODULE PoolMC -------------------------------
(* Model-checking instances of PoolCheck: pools that are sound, short of stake, *)
(* minted in excess, out of date, or whose validator account is not usable.     *)
EXTENDS PoolCheck

Whole ==
  [total |-> 4, supply |-> 4, updated |-> 1, mint |-> 4, reserve |-> 3,
   list |-> [active |-> 2, transient |-> 0, seed |-> 0, stamp |-> 1],
   stake |-> [active |-> 2, transient |-> 0], usable |-> TRUE, parked |-> 0, epoch |-> 1]

FivePools ==
  { Whole,
    [Whole EXCEPT !.stake.active = 1],
    [Whole EXCEPT !.mint = 5],
    [Whole EXCEPT !.epoch = 2],
    [Whole EXCEPT !.usable = FALSE] }
OneAmount == {1}
=============================================================================
