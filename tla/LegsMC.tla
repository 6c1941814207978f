------------------------------- MODULE LegsMC -------------------------------
(***************************************************************************)
(* Issuers of every kind of reserve, one of them with an address listed    *)
(* twice; Lido and Rocket Pool covered and not, a bridge at rest, with     *)
(* tokens on their way and short of one.                                   *)
(***************************************************************************)
EXTENDS Legs

CONSTANTS ethereum, solana, hot, cold
BothChains == {ethereum, solana}
FineOnes == {ethereum}
BothAddresses == {hot, cold}

Issuers ==
  LET both == <<ethereum, solana>>
      entry(kind, unpinned, list) ==
        [legs |-> both, unpinned |-> unpinned, reserve |-> kind, addrs |-> list]
  IN { entry("custodian", {}, <<>>), entry("derived", {}, <<>>),
       entry("env", {}, <<>>), entry("env", {solana}, <<hot>>),
       entry("env", {}, <<hot, cold>>), entry("env", {}, <<cold, cold>>) }

OnChain(fine, plain, h, c) ==
  [supply |-> (ethereum :> fine @@ solana :> plain), balance |-> (hot :> h @@ cold :> c),
   buckets |-> <<cold>>]
ThreeStates == { OnChain(3, 2, 1, 1), OnChain(3, 2, 1, 2), OnChain(1, 2, 0, 1) }

\* The bridge at rest; then with tokens on their way, with all of them on the way back,
\* and with an escrow that has lost one.
Quiet ==
  [supply |-> 2, pooled |-> 2, buffer |-> 1, rethSupply |-> 2, rate |-> 2, rethHeld |-> 1,
   oracle |-> 3, resolved |-> TRUE, locked |-> 2, toBase |-> 0, base |-> 2, fromBase |-> 0,
   lockedSum |-> 0, mintedSum |-> 0, burntSum |-> 0, releasedSum |-> 0]
EightBlocks ==
  { Quiet, [Quiet EXCEPT !.buffer = 2, !.rethHeld = 2], [Quiet EXCEPT !.pooled = 3],
    [Quiet EXCEPT !.resolved = FALSE], [Quiet EXCEPT !.rate = 5],
    [Quiet EXCEPT !.toBase = 1, !.base = 1, !.fromBase = 1],
    [Quiet EXCEPT !.base = 0, !.fromBase = 2], [Quiet EXCEPT !.locked = 1] }
=============================================================================
