--------------------------- MODULE SolvencyProofs ---------------------------
(***************************************************************************)
(* What the verifiers accept of an edited claim file and what the registry *)
(* says of posted ones, for any state of Marinade, any reserves and any    *)
(* number of rows.  Both rest on the address: it is of the whole body, so  *)
(* two claims with fitting addresses have the same verdict if they have    *)
(* the same address.                                                       *)
(***************************************************************************)
EXTENDS Solvency, FiniteSetTheorems, TLAPS

\* A claim file has these fields, whatever was edited in it.
IsClaim(c) ==
  \E type, window, inputs, computation, flag, id :
    c = [type |-> type, window |-> window, inputs |-> inputs,
         computation |-> computation, flag |-> flag, claim_id |-> id]

\* What was emitted verifies, and is what was edited.
Emitted ==
  claim # NoClaim => /\ IsClaim(claim) /\ IsClaim(original) /\ VerifyLevel1(original)

\* A row whose address fits has the verdict that is in the address.
RowFits(r) == r.genuine => r.claim_id[5] = r.flag

Posted ==
  /\ \E S : rows \in Seq(S)
  /\ \A i \in 1..Len(rows) : RowFits(rows[i])

-----------------------------------------------------------------------------
\* What Build makes is a claim that verifies.
LEMMA BuildVerifies ==
  ASSUME NEW type, NEW window, NEW inputs
  PROVE  IsClaim(Build(type, window, inputs)) /\ VerifyLevel1(Build(type, window, inputs))
<1> DEFINE r == Reexec(type, inputs)
           c == Build(type, window, inputs)
<1>1. c = [type |-> type, window |-> window, inputs |-> inputs, computation |-> r.computation,
           flag |-> r.flag, claim_id |-> <<type, window, inputs, r.computation, r.flag>>]
  BY DEF Build, Addressed, ClaimId
<1> HIDE DEF r
<1>2. IsClaim(c)
  BY <1>1 DEF IsClaim
<1>3. Reexec(c.type, c.inputs) = r
  BY <1>1 DEF r
<1>4. c.computation = r.computation /\ c.flag = r.flag /\ ClaimId(c) = c.claim_id
  BY <1>1 DEF ClaimId
<1> QED
  BY <1>2, <1>3, <1>4 DEF VerifyLevel1

\* An edit leaves a claim file a claim file.
LEMMA EditsAreClaims ==
  ASSUME NEW c, IsClaim(c), NEW d \in Edits(c)
  PROVE  IsClaim(d) /\ IsClaim(Addressed(d))
<1>1. PICK type, window, inputs, computation, flag, id :
        c = [type |-> type, window |-> window, inputs |-> inputs,
             computation |-> computation, flag |-> flag, claim_id |-> id]
  BY DEF IsClaim
<1>2. \/ \E f : d = [c EXCEPT !.flag = f]
      \/ \E k : d = [c EXCEPT !.computation = [c.computation EXCEPT ![k] = ~ c.computation[k]]]
      \/ \E q : d = [c EXCEPT !.inputs = q]
  BY DEF Edits
<1>3. IsClaim(d)
  <2>1. ASSUME NEW f, d = [c EXCEPT !.flag = f] PROVE IsClaim(d)
    <3>1. d = [type |-> type, window |-> window, inputs |-> inputs,
               computation |-> computation, flag |-> f, claim_id |-> id]
      BY <1>1, <2>1
    <3> QED
      BY <3>1 DEF IsClaim
  <2>2. ASSUME NEW p, d = [c EXCEPT !.computation = p] PROVE IsClaim(d)
    <3>1. d = [type |-> type, window |-> window, inputs |-> inputs,
               computation |-> p, flag |-> flag, claim_id |-> id]
      BY <1>1, <2>2
    <3> QED
      BY <3>1 DEF IsClaim
  <2>3. ASSUME NEW q, d = [c EXCEPT !.inputs = q] PROVE IsClaim(d)
    <3>1. d = [type |-> type, window |-> window, inputs |-> q,
               computation |-> computation, flag |-> flag, claim_id |-> id]
      BY <1>1, <2>3
    <3> QED
      BY <3>1 DEF IsClaim
  <2> QED
    BY <1>2, <2>1, <2>2, <2>3
<1>4. IsClaim(Addressed(d))
  BY DEF Addressed, IsClaim
<1> QED
  BY <1>3, <1>4

\* Two claims with fitting addresses are one claim if they have one address.
LEMMA AddressIsOfTheBody ==
  ASSUME NEW c, NEW d, IsClaim(c), IsClaim(d),
         ClaimId(c) = c.claim_id, ClaimId(d) = d.claim_id, c.claim_id = d.claim_id
  PROVE  c = d
<1>1. c.type = d.type /\ c.window = d.window /\ c.inputs = d.inputs
        /\ c.computation = d.computation /\ c.flag = d.flag
  BY DEF ClaimId
<1>2. \A x : IsClaim(x) => x = [type |-> x.type, window |-> x.window, inputs |-> x.inputs,
                               computation |-> x.computation, flag |-> x.flag,
                               claim_id |-> x.claim_id]
  BY DEF IsClaim
<1> QED
  BY <1>1, <1>2

\* A claim that verifies is upheld by the judge and rebuilt by the second node.
LEMMA VerifiedAgrees ==
  ASSUME NEW c, IsClaim(c), VerifyLevel1(c)
  PROVE  Adjudicate(c) /\ Agrees(c)
<1>1. Adjudicate(c) /\ Reexec(c.type, c.inputs).flag = c.flag /\ ClaimId(c) = c.claim_id
  BY DEF VerifyLevel1, Adjudicate
<1>2. [c EXCEPT !.flag = c.flag] = c
  BY DEF IsClaim
<1> QED
  BY <1>1, <1>2 DEF Agrees

-----------------------------------------------------------------------------
LEMMA EmittedInductive ==
  /\ Init => Emitted
  /\ Emitted /\ [Next]_vars => Emitted'
<1>1. Init => Emitted
  BY DEF Init, Emitted
<1> SUFFICES ASSUME Emitted, [Next]_vars PROVE Emitted'
  BY <1>1
<1>2. CASE UNCHANGED <<claim, original>>
  BY <1>2 DEF Emitted
<1>3. ASSUME NEW type, NEW window, NEW inputs, Written(Build(type, window, inputs))
      PROVE  Emitted'
  BY <1>3, BuildVerifies DEF Written, Emitted
<1>4. CASE EmitSolvency
  BY <1>3, <1>4 DEF EmitSolvency
<1>5. CASE EmitGuard
  BY <1>3, <1>5 DEF EmitGuard
<1>6. CASE Tamper
  <2>1. PICK c \in Edits(claim) : claim' = c \/ claim' = Addressed(c)
    BY <1>6 DEF Tamper
  <2>2. claim # NoClaim /\ original' = original
    BY <1>6 DEF Tamper
  <2>3. IsClaim(claim')
    BY <2>1, <2>2, EditsAreClaims DEF Emitted
  <2> QED
    BY <2>2, <2>3 DEF Emitted
<1> QED
  BY <1>2, <1>4, <1>5, <1>6 DEF Next, vars, claimVars, Resolve, PostRow, SendMemo, AppendRow, DieBetween

\* For any claim and any edit of it that verify.mjs accepts: the judge upholds it, the
\* second node rebuilds it, the emitted one does not win against it, and if it is not the
\* emitted one it has another address.
THEOREM AcceptedIsUpheld == Spec => []VerifiedIsUpheld
<1>1. Emitted => VerifiedIsUpheld
  <2> SUFFICES ASSUME Emitted, claim # NoClaim, VerifyLevel1(claim)
               PROVE  /\ claim # original => claim.claim_id # original.claim_id
                      /\ Adjudicate(claim) /\ Agrees(claim) /\ Winner(claim, original) # "B"
    BY DEF VerifiedIsUpheld
  <2>1. IsClaim(claim) /\ IsClaim(original) /\ VerifyLevel1(original)
    BY DEF Emitted
  <2>2. claim # original => claim.claim_id # original.claim_id
    BY <2>1, AddressIsOfTheBody DEF VerifyLevel1
  <2>3. Adjudicate(claim) /\ Agrees(claim) /\ Adjudicate(original)
    BY <2>1, VerifiedAgrees
  <2>4. Winner(claim, original) # "B"
    BY <2>3 DEF Winner
  <2> QED
    BY <2>2, <2>3, <2>4
<1> QED
  BY <1>1, EmittedInductive, PTL DEF Spec

-----------------------------------------------------------------------------
\* A row is made of a claim.
LEMMA RowsFit == \A c, sig : RowFits(Row(c, sig))
<1> SUFFICES ASSUME NEW c, NEW sig, Row(c, sig).genuine
             PROVE  Row(c, sig).claim_id[5] = Row(c, sig).flag
  BY DEF RowFits
<1>1. Row(c, sig).genuine = (ClaimId(c) = c.claim_id)
  BY DEF Row
<1>2. Row(c, sig).claim_id = c.claim_id /\ Row(c, sig).flag = c.flag
  BY DEF Row
<1>3. ClaimId(c)[5] = c.flag
  BY DEF ClaimId
<1> QED
  BY <1>1, <1>2, <1>3

LEMMA PostedInductive ==
  /\ Init => Posted
  /\ Posted /\ [Next]_vars => Posted'
<1>1. Init => Posted
  <2> SUFFICES ASSUME Init PROVE Posted
    OBVIOUS
  <2>1. rows = <<>>
    BY DEF Init
  <2>2. rows \in Seq({}) /\ Len(rows) = 0
    BY <2>1
  <2> QED
    BY <2>2 DEF Posted
<1> SUFFICES ASSUME Posted, [Next]_vars PROVE Posted'
  BY <1>1
<1>2. CASE rows' = rows
  BY <1>2 DEF Posted
<1>3. ASSUME NEW c, NEW sig, rows' = Append(rows, Row(c, sig))
      PROVE  Posted'
  <2>1. PICK S : rows \in Seq(S)
    BY DEF Posted
  <2>2. rows \in Seq(S \cup {Row(c, sig)})
    BY <2>1
  <2>3. rows' \in Seq(S \cup {Row(c, sig)})
    BY <1>3, <2>2
  <2>4. /\ Len(rows) \in Nat /\ Len(rows') = Len(rows) + 1 /\ rows'[Len(rows) + 1] = Row(c, sig)
        /\ \A i \in 1..Len(rows) : rows'[i] = rows[i]
    BY <1>3, <2>2
  <2>5. \A i \in 1..Len(rows') : i \in 1..Len(rows) \/ i = Len(rows) + 1
    BY <2>4
  <2>6. \A i \in 1..Len(rows') : RowFits(rows'[i])
    BY <2>4, <2>5, RowsFit DEF Posted
  <2> QED
    BY <2>3, <2>6 DEF Posted
<1>4. CASE PostRow
  BY <1>3, <1>4 DEF PostRow
<1>5. CASE AppendRow
  BY <1>3, <1>5 DEF AppendRow
<1> QED
  BY <1>2, <1>4, <1>5 DEF Next, vars, claimVars, EmitSolvency, EmitGuard, Written, Tamper, Resolve, SendMemo, DieBetween

\* Two rows of a group are two.
LEMMA TwoInGroup ==
  ASSUME Len(rows) \in Nat, NEW r \in 1..Len(rows), NEW i \in GroupOf(r), i # r
  PROVE  Cardinality(GroupOf(r)) >= 2
<1>1. IsFiniteSet(1..Len(rows)) /\ IsFiniteSet(GroupOf(r))
  <2>1. IsFiniteSet(1..Len(rows))
    BY FS_Interval
  <2> QED
    BY <2>1, FS_Subset DEF GroupOf
<1>2. {r, i} \subseteq GroupOf(r)
  BY DEF GroupOf
<1>3. Cardinality({r, i}) = 2
  <2>1. IsFiniteSet({r}) /\ Cardinality({r}) = 1
    BY FS_Singleton
  <2>2. Cardinality({r} \cup {i}) = Cardinality({r}) + 1
    BY <2>1, FS_AddElement
  <2>3. Cardinality({r}) + 1 = 2
    BY <2>1
  <2>4. {r, i} = {r} \cup {i}
    OBVIOUS
  <2> QED
    BY <2>2, <2>3, <2>4, Zenon
<1>4. Cardinality({r, i}) <= Cardinality(GroupOf(r)) /\ Cardinality(GroupOf(r)) \in Nat
  BY <1>1, <1>2, FS_Subset, FS_CardinalityType
<1> QED
  BY <1>3, <1>4

\* For any number of rows: among claims whose addresses fit, AGREE is said of one verdict,
\* and two verdicts on one question are a DISPUTE.
THEOREM AgreementIsOfVerdicts == Spec => []ConsensusIsOfVerdicts
<1>1. Posted => ConsensusIsOfVerdicts
  <2> SUFFICES ASSUME Posted, NEW r \in 1..Len(rows), \A i \in GroupOf(r) : rows[i].genuine
               PROVE  /\ Consensus(r) = "AGREE" => \A i \in GroupOf(r) : rows[i].flag = rows[r].flag
                      /\ (\E i \in GroupOf(r) : rows[i].flag # rows[r].flag)
                           => Consensus(r) = "DISPUTE"
    BY DEF ConsensusIsOfVerdicts
  <2>1. Len(rows) \in Nat /\ r \in GroupOf(r) /\ GroupOf(r) \subseteq 1..Len(rows)
    <3>1. PICK S : rows \in Seq(S)
      BY DEF Posted
    <3> QED
      BY <3>1 DEF GroupOf
  <2>2. \A i \in GroupOf(r) : rows[i].claim_id = rows[r].claim_id => rows[i].flag = rows[r].flag
    BY <2>1 DEF Posted, RowFits
  <2> DEFINE same == \A i, j \in GroupOf(r) : rows[i].claim_id = rows[j].claim_id
             n == Cardinality(GroupOf(r))
  <2>3. Consensus(r) = CASE n < 2 -> "SINGLE" [] n >= 2 /\ same -> "AGREE" [] OTHER -> "DISPUTE"
    BY DEF Consensus
  <2>4. n \in Nat
    <3>1. IsFiniteSet(1..Len(rows))
      BY <2>1, FS_Interval
    <3>2. IsFiniteSet(GroupOf(r))
      BY <2>1, <3>1, FS_Subset
    <3> QED
      BY <3>2, FS_CardinalityType
  <2>5. Consensus(r) = "AGREE" => same
    <3> HIDE DEF same, n
    <3> QED
      BY <2>3, <2>4
  <2>6. ASSUME NEW i \in GroupOf(r), rows[i].flag # rows[r].flag
        PROVE  Consensus(r) = "DISPUTE"
    <3>1. ~same
      BY <2>1, <2>2, <2>6
    <3>2. n >= 2
      BY <2>1, <2>6, TwoInGroup
    <3> HIDE DEF same, n
    <3> QED
      BY <2>3, <2>4, <3>1, <3>2
  <2> QED
    BY <2>1, <2>2, <2>5, <2>6
<1> QED
  BY <1>1, PostedInductive, PTL DEF Spec
-----------------------------------------------------------------------------
(* Marinade's checker: the chain moves on while it reads, but what the     *)
(* guard compares cannot stay as it is while tickets are opened or paid.   *)

IsPool(p) ==
  /\ DOMAIN p = {"state", "mint", "reserve", "stamp", "stake", "usable", "open", "epoch"}
  /\ DOMAIN p.state = {"supply", "available", "active", "cooling", "tickets"}
  /\ p.state.supply \in Nat /\ p.state.available \in Int /\ p.state.active \in Int
  /\ p.state.cooling \in Int /\ p.state.tickets \in Int
  /\ p.mint \in Int /\ p.reserve \in Int /\ p.stake \in Int /\ p.open \in Int

\* Shares and lamports are whole numbers, and shares are not negative.
LEMMA ValuesAreWhole ==
  ASSUME NEW p, IsPool(p), NEW n \in Nat
  PROVE  /\ Shares(p.state, n) \in Nat /\ Lamports(p.state, n) \in Int
         /\ VirtualValue(p.state) \in Int
<1>1. VirtualValue(p.state) \in Int /\ p.state.supply \in Nat
  BY DEF IsPool, VirtualValue
<1>2. Shares(p.state, n) \in Nat
  <2>1. CASE VirtualValue(p.state) <= 0
    BY <2>1 DEF Shares
  <2>2. CASE VirtualValue(p.state) > 0
    <3>1. n * p.state.supply \in Nat
      BY <1>1
    <3>2. (n * p.state.supply) \div VirtualValue(p.state) \in Nat
      BY <1>1, <2>2, <3>1
    <3> QED
      BY <1>1, <2>2, <3>2 DEF Shares
  <2> QED
    BY <1>1, <2>1, <2>2
<1>3. Lamports(p.state, n) \in Int
  <2>1. CASE p.state.supply = 0
    BY <2>1 DEF Lamports
  <2>2. CASE p.state.supply # 0
    <3>1. n * VirtualValue(p.state) \in Int
      BY <1>1
    <3>2. (n * VirtualValue(p.state)) \div p.state.supply \in Int
      BY <1>1, <2>2, <3>1
    <3> QED
      BY <2>2, <3>2 DEF Lamports
  <2> QED
    BY <2>1, <2>2
<1> QED
  BY <1>1, <1>2, <1>3

\* An operation that leaves state, mint, reserve and list alone leaves the tickets alone.
LEMMA SuccessorIsPool ==
  ASSUME NEW p, IsPool(p), NEW q \in Successors(p)
  PROVE  IsPool(q) /\ (Unmutated(q, p) => q.open = p.open)
<1> USE MarinadeAssumption
<1>1. ASSUME NEW x, x \in Amounts, q = Deposit(p, x)
      PROVE  IsPool(q) /\ (Unmutated(q, p) => q.open = p.open)
  <2> DEFINE m == Shares(p.state, x)
  <2>1. m \in Nat /\ x \in Int
    BY <1>1, ValuesAreWhole
  <2> HIDE DEF m
  <2>2. DOMAIN q = DOMAIN p /\ DOMAIN q.state = DOMAIN p.state
    BY <1>1 DEF IsPool, Deposit, m
  <2>3. q.mint = p.mint + m /\ q.reserve = p.reserve + x /\ q.stake = p.stake /\ q.open = p.open
    BY <1>1 DEF IsPool, Deposit, m
  <2>4. q.state.supply = p.state.supply + m /\ q.state.available = p.state.available + x
    BY <1>1 DEF IsPool, Deposit, m
  <2>5. q.state.active = p.state.active /\ q.state.cooling = p.state.cooling /\ q.state.tickets = p.state.tickets
    BY <1>1 DEF IsPool, Deposit, m
  <2>6. IsPool(q)
    BY <2>2, <2>3, <2>4, <2>5, <2>1 DEF IsPool
  <2> QED
    BY <2>3, <2>6
<1>2. ASSUME NEW x, x \in Amounts, q = Donate(p, x)
      PROVE  IsPool(q) /\ (Unmutated(q, p) => q.open = p.open)
  <2>1. x \in Int
    BY <1>2
  <2>2. DOMAIN q = DOMAIN p /\ DOMAIN q.state = DOMAIN p.state
    BY <1>2 DEF IsPool, Donate
  <2>3. q.mint = p.mint /\ q.reserve = p.reserve + x /\ q.stake = p.stake /\ q.open = p.open
    BY <1>2 DEF IsPool, Donate
  <2>4. q.state.supply = p.state.supply /\ q.state.available = p.state.available
    BY <1>2 DEF IsPool, Donate
  <2>5. q.state.active = p.state.active /\ q.state.cooling = p.state.cooling /\ q.state.tickets = p.state.tickets
    BY <1>2 DEF IsPool, Donate
  <2>6. IsPool(q)
    BY <2>2, <2>3, <2>4, <2>5, <2>1 DEF IsPool
  <2> QED
    BY <2>3, <2>6
<1>3. ASSUME NEW m, m \in Amounts, m <= p.state.supply, q = OrderUnstake(p, m)
      PROVE  IsPool(q) /\ (Unmutated(q, p) => q.open = p.open)
  <2> DEFINE l == Lamports(p.state, m)
  <2>1. l \in Int /\ m \in Nat /\ m # 0 /\ m <= p.state.supply
    BY <1>3, ValuesAreWhole
  <2> HIDE DEF l
  <2>2. DOMAIN q = DOMAIN p /\ DOMAIN q.state = DOMAIN p.state
    BY <1>3 DEF IsPool, OrderUnstake, l
  <2>3. q.mint = p.mint - m /\ q.reserve = p.reserve /\ q.stake = p.stake /\ q.open = p.open + l
    BY <1>3 DEF IsPool, OrderUnstake, l
  <2>4. q.state.supply = p.state.supply - m /\ q.state.available = p.state.available
    BY <1>3 DEF IsPool, OrderUnstake, l
  <2>5. q.state.active = p.state.active /\ q.state.cooling = p.state.cooling /\ q.state.tickets = p.state.tickets + l
    BY <1>3 DEF IsPool, OrderUnstake, l
  <2>6. IsPool(q)
    BY <2>2, <2>3, <2>4, <2>5, <2>1 DEF IsPool
  <2>7. q.mint # p.mint
    BY <1>3, <2>1, <2>3 DEF IsPool
  <2> QED
    BY <2>6, <2>7 DEF Unmutated
<1>4. ASSUME NEW m, m \in Amounts, q = Burn(p, m)
      PROVE  IsPool(q) /\ (Unmutated(q, p) => q.open = p.open)
  <2>1. m \in Int
    BY <1>4
  <2>2. DOMAIN q = DOMAIN p /\ DOMAIN q.state = DOMAIN p.state
    BY <1>4 DEF IsPool, Burn
  <2>3. q.mint = p.mint - m /\ q.reserve = p.reserve /\ q.stake = p.stake /\ q.open = p.open
    BY <1>4 DEF IsPool, Burn
  <2>4. q.state.supply = p.state.supply /\ q.state.available = p.state.available
    BY <1>4 DEF IsPool, Burn
  <2>5. q.state.active = p.state.active /\ q.state.cooling = p.state.cooling /\ q.state.tickets = p.state.tickets
    BY <1>4 DEF IsPool, Burn
  <2>6. IsPool(q)
    BY <2>2, <2>3, <2>4, <2>5, <2>1 DEF IsPool
  <2> QED
    BY <2>3, <2>6
<1>5. ASSUME NEW x, x \in Amounts, q = Delegate(p, x)
      PROVE  IsPool(q) /\ (Unmutated(q, p) => q.open = p.open)
  <2>1. x \in Int
    BY <1>5
  <2>2. DOMAIN q = DOMAIN p /\ DOMAIN q.state = DOMAIN p.state
    BY <1>5 DEF IsPool, Delegate
  <2>3. q.mint = p.mint /\ q.reserve = p.reserve - x /\ q.stake = p.stake + x /\ q.open = p.open
    BY <1>5 DEF IsPool, Delegate
  <2>4. q.state.supply = p.state.supply /\ q.state.available = p.state.available - x
    BY <1>5 DEF IsPool, Delegate
  <2>5. q.state.active = p.state.active + x /\ q.state.cooling = p.state.cooling /\ q.state.tickets = p.state.tickets
    BY <1>5 DEF IsPool, Delegate
  <2>6. IsPool(q)
    BY <2>2, <2>3, <2>4, <2>5, <2>1 DEF IsPool
  <2> QED
    BY <2>3, <2>6
<1>6. ASSUME NEW x, x \in Amounts, q = Deactivate(p, x)
      PROVE  IsPool(q) /\ (Unmutated(q, p) => q.open = p.open)
  <2>1. x \in Int
    BY <1>6
  <2>2. DOMAIN q = DOMAIN p /\ DOMAIN q.state = DOMAIN p.state
    BY <1>6 DEF IsPool, Deactivate
  <2>3. q.mint = p.mint /\ q.reserve = p.reserve /\ q.stake = p.stake /\ q.open = p.open
    BY <1>6 DEF IsPool, Deactivate
  <2>4. q.state.supply = p.state.supply /\ q.state.available = p.state.available
    BY <1>6 DEF IsPool, Deactivate
  <2>5. q.state.active = p.state.active - x /\ q.state.cooling = p.state.cooling + x /\ q.state.tickets = p.state.tickets
    BY <1>6 DEF IsPool, Deactivate
  <2>6. IsPool(q)
    BY <2>2, <2>3, <2>4, <2>5, <2>1 DEF IsPool
  <2> QED
    BY <2>3, <2>6
<1>7. ASSUME NEW x, x \in Amounts, q = Return(p, x)
      PROVE  IsPool(q) /\ (Unmutated(q, p) => q.open = p.open)
  <2>1. x \in Int
    BY <1>7
  <2>2. DOMAIN q = DOMAIN p /\ DOMAIN q.state = DOMAIN p.state
    BY <1>7 DEF IsPool, Return
  <2>3. q.mint = p.mint /\ q.reserve = p.reserve + x /\ q.stake = p.stake - x /\ q.open = p.open
    BY <1>7 DEF IsPool, Return
  <2>4. q.state.supply = p.state.supply /\ q.state.available = p.state.available + x
    BY <1>7 DEF IsPool, Return
  <2>5. q.state.active = p.state.active /\ q.state.cooling = p.state.cooling - x /\ q.state.tickets = p.state.tickets
    BY <1>7 DEF IsPool, Return
  <2>6. IsPool(q)
    BY <2>2, <2>3, <2>4, <2>5, <2>1 DEF IsPool
  <2> QED
    BY <2>3, <2>6
<1>8. ASSUME p.open > 0, q = ClaimTickets(p)
      PROVE  IsPool(q) /\ (Unmutated(q, p) => q.open = p.open)
  <2>1. DOMAIN q = DOMAIN p /\ DOMAIN q.state = DOMAIN p.state
    BY <1>8 DEF IsPool, ClaimTickets
  <2>2. q.mint = p.mint /\ q.reserve = p.reserve - p.open /\ q.stake = p.stake /\ q.open = 0
    BY <1>8 DEF IsPool, ClaimTickets
  <2>3. q.state.supply = p.state.supply /\ q.state.available = p.state.available - p.state.tickets
    BY <1>8 DEF IsPool, ClaimTickets
  <2>4. q.state.active = p.state.active /\ q.state.cooling = p.state.cooling /\ q.state.tickets = 0
    BY <1>8 DEF IsPool, ClaimTickets
  <2>5. IsPool(q)
    BY <2>1, <2>2, <2>3, <2>4 DEF IsPool
  <2>6. q.reserve # p.reserve
    BY <1>8, <2>2 DEF IsPool
  <2> QED
    BY <2>5, <2>6 DEF Unmutated
<1>9. ASSUME q = TurnEpoch(p)
      PROVE  IsPool(q) /\ (Unmutated(q, p) => q.open = p.open)
  <2>1. DOMAIN q = DOMAIN p /\ DOMAIN q.state = DOMAIN p.state
    BY <1>9 DEF IsPool, TurnEpoch
  <2>2. q.mint = p.mint /\ q.reserve = p.reserve /\ q.stake = (IF p.stake > 0 THEN p.stake + 1 ELSE 0) /\ q.open = p.open
    BY <1>9 DEF IsPool, TurnEpoch
  <2>3. q.state.supply = p.state.supply /\ q.state.available = p.state.available
    BY <1>9 DEF IsPool, TurnEpoch
  <2>4. q.state.active = p.state.active /\ q.state.cooling = p.state.cooling /\ q.state.tickets = p.state.tickets
    BY <1>9 DEF IsPool, TurnEpoch
  <2>5. IsPool(q)
    BY <2>1, <2>2, <2>3, <2>4 DEF IsPool
  <2> QED
    BY <2>2, <2>5
<1>10. ASSUME q = Update(p)
      PROVE  IsPool(q) /\ (Unmutated(q, p) => q.open = p.open)
  <2>1. DOMAIN q = DOMAIN p /\ DOMAIN q.state = DOMAIN p.state
    BY <1>10 DEF IsPool, Update
  <2>2. q.mint = p.mint /\ q.reserve = p.reserve /\ q.stake = p.stake /\ q.open = p.open
    BY <1>10 DEF IsPool, Update
  <2>3. q.state.supply = p.state.supply /\ q.state.available = p.state.available
    BY <1>10 DEF IsPool, Update
  <2>4. q.state.active = p.stake - p.state.cooling /\ q.state.cooling = p.state.cooling /\ q.state.tickets = p.state.tickets
    BY <1>10 DEF IsPool, Update
  <2>5. IsPool(q)
    BY <2>1, <2>2, <2>3, <2>4 DEF IsPool
  <2> QED
    BY <2>2, <2>5
<1> QED
  BY <1>1, <1>2, <1>3, <1>4, <1>5, <1>6, <1>7, <1>8, <1>9, <1>10 DEF Successors

\* Tickets over any stretch of slots the guard could not tell from its first.
ChainOk ==
  /\ \E S : chain \in Seq(S)
  /\ Len(chain) >= 1
  /\ \A i \in 1..Len(chain) : IsPool(chain[i])
  /\ \A i, j \in 1..Len(chain) :
       i <= j /\ (\A k \in i..j : Unmutated(chain[k], chain[i])) => chain[j].open = chain[i].open

\* What a report says, by what was read.
Compared ==
  IF BackingOf(chain[snap], chain[stakes], chain[scan]) >= Liability(chain[snap])
  THEN "holds" ELSE "fails"
Reported ==
  \/ result = Stale
  \/ reread = 0 /\ snap \in 1..Len(chain) /\ result = Report(chain[snap], "unknown")
  \/ /\ snap \in 1..Len(chain) /\ stakes \in snap..Len(chain) /\ scan \in snap..Len(chain)
     /\ reread \in snap..Len(chain) /\ result = Report(chain[snap], Compared)

\* How far the reads have come.
ReadsOk ==
  /\ pc \in {"state", "epoch", "snap"} => snap = 0 /\ reread = 0
  /\ pc \in {"stakes", "scan", "reread"} => snap \in 1..Len(chain) /\ reread = 0
  /\ pc \in {"scan", "reread"} => stakes \in snap..Len(chain)
  /\ pc = "reread" => scan \in snap..Len(chain)
  /\ pc = "done" => Reported

\* After the checker its report is one of a pool.
ReportIsOfAPool ==
  pc \in {"done", "exited"} =>
    \/ result = Stale
    \/ \E p, inv2b : IsPool(p) /\ result = Report(p, inv2b)

CheckInv == ChainOk /\ ReadsOk /\ ReportIsOfAPool

LEMMA PoolsAreIsPool ==
  ASSUME NEW p \in Pools
  PROVE  IsPool(p)
  BY DEF IsPool, Pools, States

\* A slot more.
LEMMA NextSlotKeepsChain == ChainOk /\ NextSlot => ChainOk'
<1> SUFFICES ASSUME ChainOk, NextSlot PROVE ChainOk'
  OBVIOUS
<1>1. PICK S : chain \in Seq(S)
  BY DEF ChainOk
<1>2. PICK p \in Successors(chain[Len(chain)]) : chain' = Append(chain, p)
  BY DEF NextSlot
<1> DEFINE n == Len(chain)
<1>3. n \in Nat /\ n >= 1
  BY <1>1 DEF ChainOk
<1>4. chain \in Seq(S \cup {p})
  BY <1>1
<1>5. /\ chain' \in Seq(S \cup {p}) /\ Len(chain') = n + 1 /\ chain'[n + 1] = p
      /\ \A i \in 1..n : chain'[i] = chain[i]
  BY <1>2, <1>4
<1>6. IsPool(chain[n])
  BY <1>3 DEF ChainOk
<1>7. IsPool(p) /\ (Unmutated(p, chain[n]) => p.open = chain[n].open)
  BY <1>2, <1>6, SuccessorIsPool
<1> HIDE DEF n
<1>8. \A i \in 1..Len(chain') : i \in 1..n \/ i = n + 1
  BY <1>3, <1>5
<1>9. \A i \in 1..Len(chain') : IsPool(chain'[i])
  BY <1>5, <1>7, <1>8 DEF ChainOk, n
<1>10. ASSUME NEW i \in 1..Len(chain'), NEW j \in 1..Len(chain'), i <= j,
              \A k \in i..j : Unmutated(chain'[k], chain'[i])
       PROVE  chain'[j].open = chain'[i].open
  <2>1. CASE j \in 1..n
    <3>1. i \in 1..n /\ \A k \in i..j : k \in 1..n
      BY <1>3, <1>10, <2>1
    <3>2. chain[j].open = chain[i].open
      BY <1>5, <1>10, <2>1, <3>1 DEF ChainOk, n
    <3> QED
      BY <1>5, <2>1, <3>1, <3>2
  <2>2. CASE j = n + 1 /\ i = n + 1
    BY <2>2
  <2>3. CASE j = n + 1 /\ i \in 1..n
    <3>1. n \in 1..n /\ n \in i..j /\ j \in i..j /\ \A k \in i..n : k \in i..j /\ k \in 1..n
      BY <1>3, <2>3
    <3>2. chain[n].open = chain[i].open
      <4>1. \A k \in i..n : Unmutated(chain[k], chain[i])
        BY <1>5, <1>10, <2>3, <3>1
      <4>2. i <= n
        BY <1>3, <2>3
      <4> QED
        BY <2>3, <3>1, <4>1, <4>2 DEF ChainOk, n
    <3>3. Unmutated(p, chain[i]) /\ Unmutated(chain[n], chain[i])
      BY <1>5, <1>10, <2>3, <3>1
    <3>4. p.open = chain[n].open
      BY <1>7, <3>3 DEF Unmutated
    <3> QED
      BY <1>5, <2>3, <3>2, <3>4
  <2> QED
    BY <1>8, <2>1, <2>2, <2>3
<1> QED
  BY <1>3, <1>5, <1>9, <1>10 DEF ChainOk

\* The past stays as it was.
LEMMA NextSlotKeepsPast ==
  ASSUME ChainOk, NextSlot
  PROVE  /\ Len(chain) \in Nat /\ Len(chain') = Len(chain) + 1
         /\ \A i \in 1..Len(chain) : chain'[i] = chain[i]
<1>1. PICK S : chain \in Seq(S)
  BY DEF ChainOk
<1>2. PICK p : chain' = Append(chain, p)
  BY DEF NextSlot
<1>3. chain \in Seq(S \cup {p})
  BY <1>1
<1> QED
  BY <1>2, <1>3

LEMMA CheckInductive ==
  /\ Init => CheckInv
  /\ CheckInv /\ [Next]_vars => CheckInv'
<1>1. Init => CheckInv
  <2> SUFFICES ASSUME Init PROVE CheckInv
    OBVIOUS
  <2>1. PICK p \in Genesis : chain = <<p>>
    BY DEF Init, CheckInit
  <2>2. IsPool(p)
    BY <2>1, CheckAssumption, PoolsAreIsPool
  <2>3. chain \in Seq({p}) /\ Len(chain) = 1 /\ chain[1] = p
    BY <2>1
  <2>4. pc = "state" /\ snap = 0 /\ reread = 0
    BY DEF Init, CheckInit
  <2>5. ChainOk
    BY <2>2, <2>3 DEF ChainOk
  <2> QED
    BY <2>4, <2>5 DEF CheckInv, ReadsOk, ReportIsOfAPool
<1> SUFFICES ASSUME CheckInv, [Next]_vars PROVE CheckInv'
  BY <1>1
<1>2. CASE UNCHANGED checkVars
  BY <1>2 DEF checkVars, reads, CheckInv, ChainOk, ReadsOk, ReportIsOfAPool, Reported, Compared,
              Report, VerdictOf, StaleRecords, Stale
<1>3. ASSUME UNCHANGED chain PROVE ChainOk'
  BY <1>3 DEF CheckInv, ChainOk
<1>4. Len(chain) \in Nat /\ Len(chain) >= 1 /\ \A i \in 1..Len(chain) : IsPool(chain[i])
  <2>1. PICK S : chain \in Seq(S)
    BY DEF CheckInv, ChainOk
  <2> QED
    BY <2>1 DEF CheckInv, ChainOk
<1>5. CASE ReadState \/ ReadEpoch
  <2>1. /\ pc \in {"state", "epoch"} /\ pc' \in {"epoch", "snap"}
        /\ UNCHANGED <<chain, snap, reread>>
    BY <1>5 DEF ReadState, ReadEpoch, Proceed
  <2> QED
    BY <1>3, <2>1 DEF CheckInv, ReadsOk, ReportIsOfAPool
<1>6. CASE ReadSnap
  <2>1. /\ pc = "snap" /\ UNCHANGED <<chain, reread>> /\ snap' \in 1..Len(chain)
        /\ \/ pc' = "stakes"
           \/ pc' = "done" /\ result' = Stale
    BY <1>6 DEF ReadSnap, Proceed, Render, Answered
  <2>2. reread = 0
    BY <2>1 DEF CheckInv, ReadsOk
  <2> QED
    BY <1>3, <2>1, <2>2 DEF CheckInv, ReadsOk, ReportIsOfAPool, Reported, Stale
<1>7. CASE ReadStakes
  <2>1. /\ pc = "stakes" /\ pc' = "scan" /\ UNCHANGED <<chain, snap, reread>>
        /\ stakes' \in 1..Len(chain) /\ stakes' >= snap
    BY <1>7 DEF ReadStakes, Proceed, Answered
  <2>2. snap \in 1..Len(chain) /\ reread = 0
    BY <2>1 DEF CheckInv, ReadsOk
  <2>3. stakes' \in snap..Len(chain)
    BY <1>4, <2>1, <2>2
  <2> QED
    BY <1>3, <2>1, <2>2, <2>3 DEF CheckInv, ReadsOk, ReportIsOfAPool
<1>8. CASE ReadTickets
  <2>1. /\ pc = "scan" /\ UNCHANGED <<chain, snap, stakes, reread>>
        /\ scan' \in 1..Len(chain) /\ scan' >= snap
        /\ \/ pc' = "reread"
           \/ pc' = "done" /\ result' = Stale
    BY <1>8 DEF ReadTickets, Proceed, Render, Answered
  <2>2. snap \in 1..Len(chain) /\ reread = 0 /\ stakes \in snap..Len(chain)
    BY <2>1 DEF CheckInv, ReadsOk
  <2>3. scan' \in snap..Len(chain)
    BY <1>4, <2>1, <2>2
  <2> QED
    BY <1>3, <2>1, <2>2, <2>3 DEF CheckInv, ReadsOk, ReportIsOfAPool, Reported, Stale
<1>9. CASE ReadAgain
  <2>1. /\ pc = "reread" /\ pc' = "done" /\ UNCHANGED <<chain, current, snap, stakes, scan>>
        /\ reread' \in 1..Len(chain) /\ reread' >= snap
        /\ result' = Stale \/ result' = Report(chain[snap], Compared)
    BY <1>9 DEF ReadAgain, Render, Answered, Compared
  <2>2. snap \in 1..Len(chain) /\ stakes \in snap..Len(chain) /\ scan \in snap..Len(chain)
    BY <2>1 DEF CheckInv, ReadsOk
  <2>3. reread' \in snap..Len(chain)
    BY <1>4, <2>1, <2>2
  <2>4. Compared' = Compared /\ Stale' = Stale
    BY <2>1 DEF Compared, Stale
  <2>5. \A p, inv2b : Report(p, inv2b)' = Report(p, inv2b)
    BY <2>1 DEF Report, VerdictOf, StaleRecords
  <2>6. Reported'
    BY <2>1, <2>2, <2>3, <2>4 DEF Reported, Report, VerdictOf, StaleRecords
  <2>7. IsPool(chain[snap])
    BY <1>4, <2>2
  <2>8. ReportIsOfAPool'
    BY <2>1, <2>4, <2>7 DEF ReportIsOfAPool, Report, VerdictOf, StaleRecords
  <2> QED
    BY <1>3, <2>1, <2>6, <2>8 DEF CheckInv, ReadsOk
<1>10. CASE ReadFails
  <2>1. /\ pc' = "done" /\ UNCHANGED <<chain, current, snap, stakes, scan, reread>>
        /\ \/ result' = Stale
           \/ pc \in {"stakes", "scan", "reread"} /\ result' = Report(chain[snap], "unknown")
    BY <1>10 DEF ReadFails, Render, reads
  <2>2. CASE result' = Stale
    BY <1>3, <2>1, <2>2 DEF CheckInv, ReadsOk, ReportIsOfAPool, Reported, Stale
  <2>3. CASE pc \in {"stakes", "scan", "reread"} /\ result' = Report(chain[snap], "unknown")
    <3>1. snap \in 1..Len(chain) /\ reread = 0 /\ IsPool(chain[snap])
      BY <1>4, <2>3 DEF CheckInv, ReadsOk
    <3>2. Reported'
      BY <2>1, <2>3, <3>1 DEF Reported, Report, VerdictOf, StaleRecords
    <3>3. ReportIsOfAPool'
      BY <2>1, <2>3, <3>1 DEF ReportIsOfAPool, Report, VerdictOf, StaleRecords
    <3> QED
      BY <1>3, <2>1, <3>2, <3>3 DEF CheckInv, ReadsOk
  <2> QED
    BY <2>1, <2>2, <2>3
<1>11. CASE NextSlot
  <2>1. pc' = pc /\ pc \notin {"done", "exited"} /\ UNCHANGED reads
    BY <1>11 DEF NextSlot
  <2>2. ChainOk' /\ Len(chain') = Len(chain) + 1
    BY <1>11, NextSlotKeepsChain, NextSlotKeepsPast DEF CheckInv
  <2>3. ReadsOk'
    BY <1>4, <2>1, <2>2 DEF CheckInv, ReadsOk, reads
  <2> QED
    BY <2>1, <2>2, <2>3 DEF CheckInv, ReportIsOfAPool
<1>12. CASE Exit
  <2>1. pc = "done" /\ pc' = "exited" /\ chain' = <<chain[1]>> /\ UNCHANGED <<current, result>>
    BY <1>12 DEF Exit
  <2>2. IsPool(chain[1])
    BY <1>4
  <2>3. chain' \in Seq({chain[1]}) /\ Len(chain') = 1 /\ chain'[1] = chain[1]
    BY <2>1
  <2>4. ChainOk'
    BY <2>2, <2>3 DEF ChainOk
  <2>5. ReportIsOfAPool'
    BY <2>1 DEF CheckInv, ReportIsOfAPool, Report, VerdictOf, StaleRecords, Stale
  <2> QED
    BY <2>1, <2>4, <2>5 DEF CheckInv, ReadsOk
<1> QED
  BY <1>2, <1>5, <1>6, <1>7, <1>8, <1>9, <1>10, <1>11, <1>12
  DEF Next, vars, CheckNext, EmitSolvency, EmitGuard, Written, Tamper, Resolve, PostRow, SendMemo,
      AppendRow, DieBetween

\* For any pool and any operations between the reads: GREEN is true of some slot of the
\* window and RED of some slot since, if the guard covers the window.
THEOREM MarinadeVerdictIsEarned == Spec => []VerdictIsEarned
<1>1. CheckInv => VerdictIsEarned
  <2> SUFFICES ASSUME CheckInv, pc = "done", reread # 0 => GuardCovers
               PROVE  /\ result.verdict = "GREEN" => \E s \in snap .. reread : Sound(chain[s])
                      /\ result.verdict = "RED" => \E s \in snap .. Len(chain) : ~Sound(chain[s])
    BY DEF VerdictIsEarned
  <2>1. Reported /\ ChainOk /\ Len(chain) \in Nat
    <3>1. PICK S : chain \in Seq(S)
      BY DEF CheckInv, ChainOk
    <3> QED
      BY <3>1 DEF CheckInv, ReadsOk
  <2>2. CASE result = Stale
    BY <2>2 DEF Stale
  <2>3. CASE reread = 0 /\ snap \in 1..Len(chain) /\ result = Report(chain[snap], "unknown")
    <3>1. result.verdict = VerdictOf(chain[snap], "unknown") /\ snap \in snap..Len(chain)
      BY <2>1, <2>3 DEF Report
    <3>2. /\ result.verdict # "GREEN"
          /\ result.verdict = "RED" => ~Inv1(chain[snap])
      BY <3>1 DEF VerdictOf
    <3> QED
      BY <3>1, <3>2 DEF Sound, Inv1
  <2>4. CASE /\ snap \in 1..Len(chain) /\ stakes \in snap..Len(chain) /\ scan \in snap..Len(chain)
             /\ reread \in snap..Len(chain) /\ result = Report(chain[snap], Compared)
    <3> DEFINE p == chain[snap]
               q == chain[stakes]
    <3>1. result.verdict = VerdictOf(p, Compared)
      BY <2>4 DEF Report
    <3>2. GuardCovers
      BY <2>1, <2>4
    <3>3. /\ stakes \in snap..reread /\ scan \in snap..reread
          /\ \A s \in snap..reread : Unmutated(chain[s], p)
          /\ \A s \in snap..stakes : s \in snap..reread
          /\ \A s \in snap..scan : s \in snap..reread
      BY <2>1, <2>4, <3>2 DEF GuardCovers
    <3>4. snap <= stakes /\ snap <= scan /\ stakes \in 1..Len(chain) /\ scan \in 1..Len(chain)
      BY <2>1, <2>4
    <3>5. q.open = p.open
      BY <2>1, <2>4, <3>3, <3>4 DEF ChainOk
    <3>6. chain[scan].open = p.open
      BY <2>1, <2>4, <3>3, <3>4 DEF ChainOk
    <3>7. q.state = p.state /\ q.mint = p.mint /\ q.reserve = p.reserve
      BY <3>3 DEF Unmutated
    <3>8. Backing(q) = BackingOf(p, q, chain[scan]) /\ Lamports(q.state, q.mint) = Liability(p)
      BY <3>5, <3>6, <3>7 DEF Backing, BackingOf, NetBacking, StakeSum, Liability
    <3>9. Sound(q) <=> Inv1(p) /\ Compared = "holds"
      BY <3>7, <3>8 DEF Sound, Inv1, Compared
    <3>10. /\ result.verdict = "GREEN" => Inv1(p) /\ Compared = "holds"
           /\ result.verdict = "RED" => ~Inv1(p) \/ Compared = "fails"
      BY <3>1 DEF VerdictOf
    <3> QED
      BY <2>4, <3>3, <3>9, <3>10
  <2> QED
    BY <2>1, <2>2, <2>3, <2>4 DEF Reported
<1> QED
  BY <1>1, CheckInductive, PTL DEF Spec

-----------------------------------------------------------------------------
(* From the report to the market. *)

\* With a price of one lamport or more, shares minted in excess show in the liability.
LEMMA ExcessShows ==
  ASSUME NEW m \in Int, NEW v \in Int, NEW s \in Nat \ {0}, v >= s
  PROVE  v >= (m * v) \div s <=> m <= s
<1> DEFINE x == m * v
           q == x \div s
<1>1. x \in Int
  OBVIOUS
<1>2. q \in Int /\ s * q <= x /\ x < s * (q + 1)
  BY <1>1
<1>3. ASSUME m <= s PROVE q <= v
  <2>1. x <= s * v
    BY <1>3
  <2> HIDE DEF x, q
  <2>2. s * q <= s * v
    <3>1. s * q \in Int /\ s * v \in Int
      BY <1>2
    <3> QED
      BY <1>1, <1>2, <2>1, <3>1
  <2> QED
    BY <1>2, <2>2
<1>4. ASSUME m > s PROVE q > v
  <2>1. m >= s + 1
    BY <1>4
  <2>2. x >= (s + 1) * v
    BY <2>1
  <2>3. (s + 1) * v = s * v + v /\ s * (v + 1) = s * v + s /\ s * v \in Int
    OBVIOUS
  <2> HIDE DEF x, q
  <2>4. x >= s * (v + 1)
    <3>1. (s + 1) * v \in Int /\ s * (v + 1) \in Int
      OBVIOUS
    <3> QED
      BY <1>1, <2>2, <2>3, <3>1
  <2>5. s * (v + 1) < s * (q + 1)
    <3>1. s * (v + 1) \in Int /\ s * (q + 1) \in Int
      BY <1>2
    <3> QED
      BY <1>1, <1>2, <2>4, <3>1
  <2> QED
    BY <1>2, <2>5
<1> HIDE DEF q
<1>5. q \in Int
  BY <1>2
<1>6. v >= q <=> m <= s
  BY <1>3, <1>4, <1>5
<1> QED
  BY <1>6 DEF q

\* What was emitted is what the checker reported, and verifies.
OriginalOk ==
  /\ IsClaim(original) /\ VerifyLevel1(original)
  /\ original.type = "solvency" =>
       /\ pc = "exited" /\ original = Build("solvency", current, QuantitiesOf(result))
       /\ \E p, inv2b : IsPool(p) /\ result = Report(p, inv2b)

\* An outcome is of some claim file.
OutcomeOf(c) ==
  /\ resolution.resolved = IF c.flag = "GREEN" THEN "YES" ELSE "NO"
  /\ resolution.reproduces = VerifyLevel1(c)
  /\ resolution.basis = c.claim_id

MarketInv ==
  /\ claim # NoClaim \/ resolution # NoClaim => OriginalOk
  /\ resolution # NoClaim => \E c : IsClaim(c) /\ OutcomeOf(c)

\* The checker's verdict is the claim's, where the claim can tell.
LEMMA FlagIsVerdict ==
  ASSUME OriginalOk, original.type = "solvency", ~PricedBelowOne
  PROVE  original.flag = "GREEN" <=> result.verdict = "GREEN"
<1>1. PICK p, inv2b : IsPool(p) /\ result = Report(p, inv2b)
  BY DEF OriginalOk
<1> DEFINE v == VirtualValue(p.state)
           holds == inv2b = "holds"
           fresh == StaleRecords(p) = 0
<1>2. /\ result.verdict = VerdictOf(p, inv2b) /\ result.virtualValue = v
      /\ result.liability = Liability(p) /\ result.staleRecords = StaleRecords(p)
      /\ result.inv2b = inv2b /\ result.msolSupply = p.state.supply
  BY <1>1 DEF Report
<1>3. original.flag = ReexecSolvency(QuantitiesOf(result)).flag
  <2>1. original = Build("solvency", current, QuantitiesOf(result))
    BY DEF OriginalOk
  <2> QED
    BY <2>1 DEF Build, Addressed, Reexec
<1>4. v >= Liability(p) <=> Inv1(p)
  <2>1. p.state.supply \in Nat \ {0} /\ p.mint \in Int /\ v \in Int /\ v >= p.state.supply
    <3>1. p.state.supply \in Nat /\ p.mint \in Int /\ v \in Int
      BY <1>1, ValuesAreWhole DEF IsPool, VirtualValue
    <3>2. ~(p.state.supply = 0) /\ ~(v < p.state.supply)
      BY <1>2 DEF PricedBelowOne
    <3> HIDE DEF v
    <3> QED
      BY <3>1, <3>2
  <2>2. Liability(p) = (p.mint * v) \div p.state.supply
    BY <2>1 DEF Liability, Lamports
  <2> HIDE DEF v
  <2>3. v >= (p.mint * v) \div p.state.supply <=> p.mint <= p.state.supply
    BY <2>1, ExcessShows
  <2> QED
    BY <2>2, <2>3 DEF Inv1
<1> HIDE DEF v
<1>5. /\ QuantitiesOf(result).virtualValue = v /\ QuantitiesOf(result).liability = Liability(p)
      /\ QuantitiesOf(result).staleRecords = StaleRecords(p) /\ QuantitiesOf(result).inv2b_ok = holds
  BY <1>2 DEF QuantitiesOf
<1>6. original.flag = "GREEN" <=> v >= Liability(p) /\ holds /\ fresh
  <2> DEFINE z == QuantitiesOf(result)
  <2>1. ReexecSolvency(z).flag =
          CASE ~(z.virtualValue >= z.liability) \/ ~z.inv2b_ok -> "RED"
            [] (z.virtualValue >= z.liability) /\ z.inv2b_ok /\ (z.staleRecords = 0) -> "GREEN"
            [] OTHER -> "STALE"
    BY DEF ReexecSolvency
  <2>2. ReexecSolvency(z).flag =
          CASE ~(v >= Liability(p)) \/ ~holds -> "RED"
            [] (v >= Liability(p)) /\ holds /\ fresh -> "GREEN"
            [] OTHER -> "STALE"
    BY <1>5, <2>1
  <2> HIDE DEF z, holds, fresh
  <2> QED
    BY <1>3, <2>2 DEF z
<1>7. result.verdict = "GREEN" <=> Inv1(p) /\ holds /\ fresh
  <2>1. result.verdict = CASE ~Inv1(p) \/ inv2b = "fails" -> "RED"
                           [] Inv1(p) /\ holds /\ fresh -> "GREEN"
                           [] OTHER -> "STALE"
    BY <1>2 DEF VerdictOf
  <2>2. holds => inv2b # "fails"
    OBVIOUS
  <2> HIDE DEF holds, fresh
  <2> QED
    BY <2>1, <2>2
<1> QED
  BY <1>4, <1>6, <1>7

LEMMA MarketInductive ==
  /\ Init => MarketInv
  /\ CheckInv /\ Emitted /\ MarketInv /\ [Next]_vars => MarketInv'
<1>1. Init => MarketInv
  BY DEF Init, MarketInv
<1> SUFFICES ASSUME CheckInv, Emitted, MarketInv, [Next]_vars PROVE MarketInv'
  BY <1>1
<1>2. ASSUME UNCHANGED <<original, resolution>>, OriginalOk => OriginalOk',
             claim' # NoClaim => claim # NoClaim
      PROVE  MarketInv'
  BY <1>2 DEF MarketInv, OutcomeOf
<1>3. ASSUME UNCHANGED <<checkVars, original>>, OriginalOk PROVE OriginalOk'
  <2>1. original' = original /\ pc' = pc /\ current' = current /\ result' = result
    BY <1>3 DEF checkVars, reads
  <2>2. \A p, inv2b : Report(p, inv2b)' = Report(p, inv2b)
    BY <2>1 DEF Report, VerdictOf, StaleRecords
  <2>3. CASE original.type = "solvency"
    <3>1. PICK p, inv2b : IsPool(p) /\ result = Report(p, inv2b)
      BY <1>3, <2>3 DEF OriginalOk
    <3>2. IsPool(p) /\ result' = Report(p, inv2b)'
      BY <2>1, <2>2, <3>1
    <3>3. \E q, b : IsPool(q) /\ result' = Report(q, b)'
      BY <3>2
    <3>4. original = Build("solvency", current, QuantitiesOf(result)) /\ pc = "exited"
      BY <1>3, <2>3 DEF OriginalOk
    <3>5. original' = Build("solvency", current', QuantitiesOf(result'))
      BY <2>1, <3>4
    <3> QED
      BY <1>3, <2>1, <3>3, <3>4, <3>5 DEF OriginalOk
  <2>4. CASE original.type # "solvency"
    BY <1>3, <2>1, <2>4 DEF OriginalOk
  <2> QED
    BY <2>3, <2>4
<1>4. CASE UNCHANGED vars
  BY <1>2, <1>3, <1>4 DEF vars, claimVars
<1>5. CASE claim = NoClaim /\ CheckNext /\ UNCHANGED claimVars
  <2>1. pc # "exited"
    BY <1>5 DEF CheckNext, ReadState, ReadEpoch, ReadSnap, ReadStakes, ReadTickets, ReadAgain,
                ReadFails, NextSlot, Exit
  <2>2. OriginalOk => OriginalOk'
    BY <1>5, <2>1 DEF OriginalOk, claimVars
  <2> QED
    BY <1>2, <1>5, <2>2 DEF claimVars
<1>6. CASE EmitSolvency
  <2>1. /\ pc = "exited" /\ result.full /\ UNCHANGED <<checkVars, resolution>>
        /\ original' = Build("solvency", current, QuantitiesOf(result))
    BY <1>6 DEF EmitSolvency, Written
  <2>2. PICK p, inv2b : IsPool(p) /\ result = Report(p, inv2b)
    BY <2>1 DEF CheckInv, ReportIsOfAPool, Stale
  <2>3. IsClaim(original') /\ VerifyLevel1(original')
    BY <2>1, BuildVerifies
  <2>4. pc' = "exited" /\ current' = current /\ result' = result
    BY <2>1 DEF checkVars, reads
  <2>5. IsPool(p) /\ result' = Report(p, inv2b)'
    BY <2>2, <2>4 DEF Report, VerdictOf, StaleRecords
  <2>6. \E q, b : IsPool(q) /\ result' = Report(q, b)'
    BY <2>5
  <2>7. original' = Build("solvency", current', QuantitiesOf(result'))
    BY <2>1, <2>4
  <2>8. OriginalOk'
    BY <2>3, <2>4, <2>6, <2>7 DEF OriginalOk
  <2> QED
    BY <2>1, <2>8 DEF MarketInv, OutcomeOf
<1>7. CASE EmitGuard
  <2>1. PICK reserve : original' = Build("guard", 0, reserve.guards)
    BY <1>7 DEF EmitGuard, Written
  <2>2. UNCHANGED <<checkVars, resolution>>
    BY <1>7 DEF EmitGuard, Written
  <2>3. IsClaim(original') /\ VerifyLevel1(original') /\ original'.type = "guard"
    BY <2>1, BuildVerifies DEF Build, Addressed
  <2>4. OriginalOk'
    BY <2>3 DEF OriginalOk
  <2> QED
    BY <2>2, <2>4 DEF MarketInv, OutcomeOf
<1>8. CASE Tamper \/ PostRow \/ SendMemo \/ AppendRow \/ DieBetween
  <2>1. UNCHANGED <<checkVars, original, resolution>> /\ (claim' # NoClaim => claim # NoClaim)
    BY <1>8 DEF Tamper, PostRow, SendMemo, AppendRow, DieBetween
  <2> QED
    BY <1>2, <1>3, <2>1
<1>9. CASE Resolve
  <2>1. /\ claim # NoClaim /\ UNCHANGED <<checkVars, claim, original>>
        /\ resolution' = [resolved |-> IF claim.flag = "GREEN" THEN "YES" ELSE "NO",
                          reproduces |-> VerifyLevel1(claim), basis |-> claim.claim_id]
    BY <1>9 DEF Resolve
  <2>2. IsClaim(claim) /\ OutcomeOf(claim)'
    BY <2>1 DEF Emitted, OutcomeOf
  <2>3. OriginalOk'
    BY <1>3, <2>1 DEF MarketInv
  <2>4. \E c : IsClaim(c) /\ OutcomeOf(c)'
    BY <2>1, <2>2 DEF OutcomeOf
  <2> QED
    BY <2>3, <2>4 DEF MarketInv
<1> QED
  BY <1>4, <1>5, <1>6, <1>7, <1>8, <1>9 DEF Next

\* For any pool, any edit of the claim and any order of steps: a market settled by a claim
\* that reproduces, and is the one emitted, is settled YES exactly where the checker found
\* Marinade GREEN, at a price of one lamport or more.
THEOREM MarketSettlesByTheVerdict == Spec => []YesMeansSolvent
<1>1. MarketInv => YesMeansSolvent
  <2> SUFFICES ASSUME MarketInv, resolution # NoClaim, resolution.reproduces,
                      original.type = "solvency", resolution.basis = original.claim_id,
                      ~PricedBelowOne
               PROVE  resolution.resolved = "YES" <=> result.verdict = "GREEN"
    BY DEF YesMeansSolvent
  <2>1. PICK c : IsClaim(c) /\ OutcomeOf(c)
    BY DEF MarketInv
  <2>2. OriginalOk
    BY DEF MarketInv
  <2>3. VerifyLevel1(c) /\ c.claim_id = original.claim_id
    BY <2>1 DEF OutcomeOf
  <2>4. c = original
    BY <2>1, <2>2, <2>3, AddressIsOfTheBody DEF OriginalOk, VerifyLevel1
  <2>5. resolution.resolved = "YES" <=> original.flag = "GREEN"
    BY <2>1, <2>4 DEF OutcomeOf
  <2> QED
    BY <2>2, <2>5, FlagIsVerdict
<1> QED
  BY <1>1, CheckInductive, EmittedInductive, MarketInductive, PTL DEF Spec
=============================================================================
