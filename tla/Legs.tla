-------------------------------- MODULE Legs --------------------------------
(***************************************************************************)
(* Redde beyond the stake pools: an operator runs verify-btc, verify-eth,  *)
(* or signs what a checker reported and has it verified.  The three share  *)
(* nothing, and one of them is run.                                        *)
(***************************************************************************)
EXTENDS Wrapped, Ethereum, Attestation

VARIABLE script  \* the script that is run
vars == <<btcVars, ethVars, attVars, script>>

Init ==
  /\ script \in {"verify-btc", "verify-eth", "attest"}
  /\ WrappedInit /\ EthInit /\ AttInit

Next ==
  \/ script = "verify-btc" /\ WrappedNext /\ UNCHANGED <<ethVars, attVars, script>>
  \/ script = "verify-eth" /\ EthNext /\ UNCHANGED <<btcVars, attVars, script>>
  \/ script = "attest" /\ AttNext /\ UNCHANGED <<btcVars, ethVars, script>>

Spec == Init /\ [][Next]_vars
=============================================================================
