------------------------------- MODULE Ruptor -------------------------------
(***************************************************************************)
(* ruptor/measure.mjs, ruptor.mjs and ariete.mjs --measured: how much of a *)
(* collateral can be sold is probed size by size while liquidity comes and *)
(* goes; then a live book is put through a gap in price, at a venue that   *)
(* sells into what was measured and at one that clamps and suspends.       *)
(* Fractions are in Whole-ths; prices are in dollars.                      *)
(***************************************************************************)
EXTENDS Integers, Sequences, SequencesExt, FiniteSetsExt, Functions, FiniteSets

CONSTANTS
  Whole,           \* a hundred per cent
  Lt, Bonus, Cf, Band,  \* liquidation threshold and bonus, close factor, clamp band
  Fair,            \* the fair price
  GapStep, MaxGap, \* the grid of the search for g*
  Sizes,           \* the sizes probed, in dollars, ascending
  Depths,          \* what can be sold, in dollars, at some moment
  Lenders,         \* the accounts of a vault: collateral, debt, whether supply only
  NoSeizure

ASSUME RuptorAssumption ==
  /\ {Whole, Lt, Fair, GapStep} \subseteq Nat \ {0}
  /\ {Bonus, Cf, Band, MaxGap} \subseteq 0 .. Whole
  /\ Sizes \in Seq(Nat) /\ \A i \in 1 .. Len(Sizes) - 1 : Sizes[i] < Sizes[i + 1]
  /\ Depths \subseteq Nat
\* Quantities, in whole tokens, and debts, in dollars, are whole here and fractions there;
\* positions that are alike differ in their accounts.
Positions == [pk : Nat, qty : Nat, debt : Nat, supplyOnly : BOOLEAN]
ASSUME LendersAssumption ==
  \A positions \in Lenders : positions \subseteq Positions /\ IsFiniteSet(positions)

VARIABLES
  depth,     \* what can be sold now
  quotes,    \* what each probe was told, and what could be sold then
  seizure    \* the report

ruptorVars == <<depth, quotes, seizure>>

RuptorInit == depth = 0 /\ quotes = <<>> /\ seizure = NoSeizure

-----------------------------------------------------------------------------
DepthMoves ==
  /\ seizure = NoSeizure /\ depth' \in Depths \ {depth}
  /\ UNCHANGED <<quotes, seizure>>

\* One quote: a route if the size can be sold, none if not, and none if the call fails.
Quote ==
  LET usd == Sizes[Len(quotes) + 1]
      told(routed, failed) ==
        Append(quotes, [usd |-> usd, routed |-> routed, failed |-> failed, depth |-> depth])
  IN /\ seizure = NoSeizure /\ Len(quotes) < Len(Sizes)
     /\ quotes' \in {told(usd <= depth, FALSE), told(FALSE, TRUE)}
     /\ UNCHANGED <<depth, seizure>>

\* The first size without a route, and 0 where every size has one: `ceiling` is null then,
\* and compares as 0.
NoRoutes == {i \in DOMAIN quotes : ~quotes[i].routed}
Ceiling == IF NoRoutes = {} THEN 0 ELSE quotes[Min(NoRoutes)].usd

-----------------------------------------------------------------------------
\* The live book: who borrows against collateral, worst first; among equals, in whichever
\* order the node lists them.
LiveBooks(positions) ==
  {book \in SetToSeqs({p \in positions : ~p.supplyOnly /\ p.qty > 0}) :
     \A i, j \in DOMAIN book :
       i < j => book[i].debt * book[j].qty >= book[j].debt * book[i].qty}

\* The collateral's value after the gap, in Whole-ths of a dollar.
CollVal(p, g) == p.qty * Fair * (Whole - g)
Liquidatable(p, g) == p.debt * Whole * Whole >= Lt * CollVal(p, g)
\* What a liquidator sells: min(cf * debt, collVal / (1 + bonus)) * (1 + bonus), in
\* Whole-by-Whole-ths, and the shortfall, in (Whole + Bonus)-ths; nothing of a position
\* that survives the gap.
SellUSD(p, g) ==
  IF Liquidatable(p, g) THEN Min({Cf * p.debt * (Whole + Bonus), CollVal(p, g) * Whole}) ELSE 0
Shortfall(p, g) ==
  IF Liquidatable(p, g) THEN Max({0, p.debt * (Whole + Bonus) - CollVal(p, g)}) ELSE 0

BadDebt(book, g) == SumFunction([i \in DOMAIN book |-> Shortfall(book[i], g)])

\* The gap is clamped to the band where prices are.
SmallerGap(g) == IF g > Band THEN Band ELSE g
LargerGap(g) == IF g < Band THEN Band ELSE g
ClampedGap(g) == SmallerGap(g)

\* Worst first, each position is sold whole if the rest of the budget has room for it, and
\* stranded if not; a smaller one after it may still be sold.  Sold(...)[k] is what the
\* first k have brought.
Sold(budget, book, g) ==
  LET sold[k \in 0 .. Len(book)] ==
        IF k = 0 THEN 0
        ELSE LET more == sold[k - 1] + SellUSD(book[k], g)
             IN IF more <= budget THEN more ELSE sold[k - 1]
  IN sold

\* What would have been sold with each that was stranded.
Stranded(budget, book, g) ==
  LET sold == Sold(budget, book, g)
  IN {more \in {sold[k - 1] + SellUSD(book[k], g) : k \in DOMAIN book} : more > budget}

\* Sell into the ceiling at the gapped price; or clamp, suspend, and sell at leisure.
SellDemand(book, g) == SumFunction([i \in DOMAIN book |-> SellUSD(book[i], g)])
MeasuredBreak(book, g, clamp) ==
  LET at == IF clamp THEN ClampedGap(g) ELSE g
      budget == IF clamp THEN SellDemand(book, at) ELSE Ceiling * Whole * Whole
  IN [sold |-> Sold(budget, book, at)[Len(book)], stranded |-> Stranded(budget, book, at),
      badDebt |-> BadDebt(book, at)]

\* The first gap of the grid with bad debt, -1 where there is none.
Grid == {n \in 0 .. MaxGap : n % GapStep = 0}
GStar(book) ==
  LET breaking == {n \in Grid : BadDebt(book, n) > 0}
  IN IF breaking = {} THEN -1 ELSE Min(breaking)

-----------------------------------------------------------------------------
\* All sizes are probed; ruptor and ariete then read the book, at a gap of the caller's.
\* Without a single route there is no impact to look up, and ariete throws.
RunAriete ==
  /\ seizure = NoSeizure /\ Len(quotes) = Len(Sizes)
  /\ \E i \in DOMAIN quotes : quotes[i].routed
  /\ \E positions \in Lenders, g \in 0 .. MaxGap : \E book \in LiveBooks(positions) :
       /\ book # <<>>
       /\ seizure' = [gap |-> g, book |-> book, gStar |-> GStar(book),
                      naive |-> MeasuredBreak(book, g, FALSE),
                      green |-> MeasuredBreak(book, g, TRUE)]
  /\ UNCHANGED <<depth, quotes>>

RuptorNext == DepthMoves \/ Quote \/ RunAriete

\* ruptor by itself.
RuptorSpec == RuptorInit /\ [][RuptorNext]_ruptorVars

-----------------------------------------------------------------------------
\* What is called stranded had no buyer: when some probe was made, less could be sold than
\* it and what was sold before it; unless a probe failed, which counts as no route, or
\* every probe found one.  A venue that clamps strands nothing and loses no more than one
\* that does not, and g* parts the gaps the book survives from those it does not.
StrandedHadNoBuyer ==
  seizure # NoSeizure =>
    /\ NoRoutes # {} /\ (\A i \in DOMAIN quotes : ~quotes[i].failed) =>
         \A more \in seizure.naive.stranded :
           \E i \in DOMAIN quotes : quotes[i].depth * Whole * Whole < more
    /\ seizure.green.stranded = {} /\ seizure.green.badDebt <= seizure.naive.badDebt
    /\ \A n \in Grid :
         BadDebt(seizure.book, n) > 0 <=> (seizure.gStar # -1 /\ n >= seizure.gStar)
=============================================================================
