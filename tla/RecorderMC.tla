----------------------------- MODULE RecorderMC -----------------------------
(***************************************************************************)
(* Two recorder calls, one claim and one challenge over a history of three *)
(* updates: on a half day, then closed twice.                              *)
(***************************************************************************)
EXTENDS FraudProof

MCMarket == [t \in 0..MaxTime |-> <<"HALF_DAY", "CLOSED", "CLOSED">>[t + 1]]
=============================================================================
