------------------------------ MODULE Collapse ------------------------------
(***************************************************************************)
(* The surfaces that look at collapses: praeda reconstructs one that was,  *)
(* on Solana by crawling and on Ethereum from logs, and ruptor prices one  *)
(* that might be.  They share nothing, and one of them is run.             *)
(***************************************************************************)
EXTENDS Praeda, Crawl, Ruptor

VARIABLE surface  \* the one that is run
vars == <<praedaVars, crawlVars, ruptorVars, surface>>

Init ==
  /\ surface \in {"praeda/evm", "praeda", "ruptor"}
  /\ PraedaInit /\ CrawlInit /\ RuptorInit

Next ==
  \/ surface = "praeda/evm" /\ PraedaNext /\ UNCHANGED <<crawlVars, ruptorVars, surface>>
  \/ surface = "praeda" /\ CrawlNext /\ UNCHANGED <<praedaVars, ruptorVars, surface>>
  \/ surface = "ruptor" /\ RuptorNext /\ UNCHANGED <<praedaVars, crawlVars, surface>>

Spec == Init /\ [][Next]_vars
=============================================================================
