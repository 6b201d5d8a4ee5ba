--------------------------- MODULE EscrowSwapProofs ---------------------------
(***************************************************************************)
(* Escrow implements Swap, for any finite set of token accounts.  Every    *)
(* instruction makes at most one transfer of each of two mints, so a step  *)
(* of Swap is found by what the owners of these four accounts hold.        *)
(***************************************************************************)
EXTENDS EscrowSwap, EscrowProofs, TokenTotalsProofs

\* Totals are numbers.
LEMMA HoldingIsNat ==
    ASSUME NEW b \in [Acct -> Nat], NEW o, NEW k
    PROVE  Total(b, AccountsOf(o, k)) \in Nat
<1>1. IsFiniteSet(AccountsOf(o, k)) /\ \A a \in AccountsOf(o, k) : b[a] \in Nat
  BY AccountsAreFinite, FS_Subset DEF AccountsOf
<1> QED
  BY <1>1, TotalIsNat

\* A transfer takes from what the source's owner holds, and adds to what the
\* target's owner holds.
LEMMA HoldingMoves ==
    ASSUME NEW b \in [Acct -> Nat], NEW from \in Acct, NEW to \in Acct, from # to,
           NEW n \in Nat, b[from] >= n, NEW o, NEW k
    PROVE  /\ Total(b, AccountsOf(o, k)) \in Nat
           /\ from.owner = o /\ from.mint = k => Total(b, AccountsOf(o, k)) >= n
           /\ Total(Transferred(b, from, to, n), AccountsOf(o, k))
                = (IF from.owner = o /\ from.mint = k THEN Total(b, AccountsOf(o, k)) - n
                                                      ELSE Total(b, AccountsOf(o, k)))
                    + (IF to.owner = o /\ to.mint = k THEN n ELSE 0)
<1> DEFINE A == AccountsOf(o, k)
<1>1. /\ A \in SUBSET Acct
      /\ from \in A <=> (from.owner = o /\ from.mint = k)
      /\ to \in A <=> (to.owner = o /\ to.mint = k)
  BY DEF AccountsOf
<1> HIDE DEF A
<1>2. /\ Total(b, A) \in Nat
      /\ from \in A => Total(b, A) >= n
      /\ Total(Transferred(b, from, to, n), A)
           = (IF from \in A THEN Total(b, A) - n ELSE Total(b, A))
               + (IF to \in A THEN n ELSE 0)
  BY <1>1, AccountsAreFinite, TotalOfTransferred
<1> QED
  BY <1>1, <1>2 DEF A

\* Two transfers of different mints, the first of mint m: what everybody holds
\* of each mint changes by the transfer of that mint alone.
LEMMA TwoTransfers ==
    ASSUME NEW b \in [Acct -> Nat], NEW m \in Mints, NEW w \in Mints, m # w,
           NEW f1 \in Acct, NEW t1 \in Acct, f1.mint = m, t1.mint = m, f1 # t1,
           NEW n1 \in Nat, b[f1] >= n1,
           NEW f2 \in Acct, NEW t2 \in Acct, f2.mint = w, t2.mint = w, f2 # t2,
           NEW n2 \in Nat, b[f2] >= n2,
           NEW c, c = Transferred(Transferred(b, f1, t1, n1), f2, t2, n2),
           NEW o, NEW k
    PROVE  /\ Total(b, AccountsOf(o, k)) \in Nat
           /\ f1.owner = o /\ k = m => Total(b, AccountsOf(o, k)) >= n1
           /\ f2.owner = o /\ k = w => Total(b, AccountsOf(o, k)) >= n2
           /\ k = m => Total(c, AccountsOf(o, k))
                = (IF f1.owner = o THEN Total(b, AccountsOf(o, k)) - n1
                                   ELSE Total(b, AccountsOf(o, k)))
                    + (IF t1.owner = o THEN n1 ELSE 0)
           /\ k = w => Total(c, AccountsOf(o, k))
                = (IF f2.owner = o THEN Total(b, AccountsOf(o, k)) - n2
                                   ELSE Total(b, AccountsOf(o, k)))
                    + (IF t2.owner = o THEN n2 ELSE 0)
           /\ k # m /\ k # w => Total(c, AccountsOf(o, k)) = Total(b, AccountsOf(o, k))
<1> DEFINE mid == Transferred(b, f1, t1, n1)
<1>1. mid \in [Acct -> Nat] /\ mid[f2] >= n2
  <2>1. f2 # f1 /\ f2 # t1
    OBVIOUS
  <2> QED
    BY <2>1, TransferredFacts
<1>2. /\ Total(b, AccountsOf(o, k)) \in Nat
      /\ f1.owner = o /\ k = m => Total(b, AccountsOf(o, k)) >= n1
      /\ Total(mid, AccountsOf(o, k))
           = (IF f1.owner = o /\ k = m THEN Total(b, AccountsOf(o, k)) - n1
                                       ELSE Total(b, AccountsOf(o, k)))
               + (IF t1.owner = o /\ k = m THEN n1 ELSE 0)
  BY HoldingMoves
<1>3. f2.owner = o /\ k = w => Total(b, AccountsOf(o, k)) >= n2
  BY HoldingMoves
<1>4. /\ Total(mid, AccountsOf(o, k)) \in Nat
      /\ Total(c, AccountsOf(o, k))
           = (IF f2.owner = o /\ k = w THEN Total(mid, AccountsOf(o, k)) - n2
                                       ELSE Total(mid, AccountsOf(o, k)))
               + (IF t2.owner = o /\ k = w THEN n2 ELSE 0)
  <2>1. c = Transferred(mid, f2, t2, n2)
    OBVIOUS
  <2> HIDE DEF mid
  <2> QED
    BY <1>1, <2>1, HoldingMoves
<1> HIDE DEF mid
<1> QED
  BY <1>2, <1>3, <1>4

\* Sweeping an account is a transfer of all it holds, of nothing too.
LEMMA SweptIsTransferred ==
    ASSUME NEW b \in [Acct -> Nat], NEW from \in Acct, NEW to \in Acct
    PROVE  Swept(b, from, to) = Transferred(b, from, to, b[from])
<1>1. b[from] \in Nat
  OBVIOUS
<1>2. b[from] = 0 => Transferred(b, from, to, b[from]) = b
  BY DEF Transferred
<1> QED
  BY <1>1, <1>2 DEF Swept

\* Nor does a transfer of nothing change anything.
LEMMA NothingTransferred ==
    ASSUME NEW b \in [Acct -> Nat], NEW from \in Acct, NEW to \in Acct
    PROVE  Transferred(b, from, to, 0) = b
BY DEF Transferred

\* Types of the abstract state, before and after a step.
LEMMA AbstractTypes ==
    ASSUME TypeOK, TypeOK'
    PROVE  /\ Purses \in [Users -> [Mints -> Nat]] /\ Purses' \in [Users -> [Mints -> Nat]]
           /\ InPots \in [Escrows -> [Mints -> Nat]] /\ InPots' \in [Escrows -> [Mints -> Nat]]
           /\ \A o, k : Holding(o, k) \in Nat
<1>1. \A o, k : Holding(o, k) \in Nat
  BY HoldingIsNat DEF Holding, TypeOK
<1>2. \A o, k : Holding(o, k)' \in Nat
  BY HoldingIsNat DEF Holding, TypeOK, AccountsOf
<1> QED
  BY <1>1, <1>2 DEF Purses, InPots

\* The deal of an open offer.
LEMMA OpenDeals ==
    ASSUME Inv, NEW e \in Escrows
    PROVE  /\ IsOpen(e) =>
                /\ Deals[e] # NoDeal
                /\ Deals[e].give = offer[e].mint_x /\ Deals[e].want = offer[e].mint_y
                /\ Deals[e].gives = offer[e].amount_x /\ Deals[e].wants = offer[e].amount_y
                /\ e[1] = offer[e].maker
           /\ ~IsOpen(e) => Deals[e] = NoDeal
<1>1. Deals[e] = Terms(offer[e])
  BY DEF Deals
<1>2. CASE IsOpen(e)
  <2>1. offer[e] \in Offer /\ EscrowPda(offer[e].maker, offer[e].id) = e
    BY <1>2 DEF Inv, TypeOK, SeedsDerivePda, IsOpen
  <2>2. offer[e].amount_x # 0 /\ e[1] = offer[e].maker
    BY <2>1 DEF Offer, EscrowPda
  <2> QED
    BY <1>1, <1>2, <2>2 DEF Terms, IsOpen, NoDeal
<1> QED
  BY <1>1, <1>2 DEF Terms, IsOpen

\* What changes neither balances nor offers is a stuttering step.
LEMMA Stutters ==
    ASSUME UNCHANGED <<bal, offer>>
    PROVE  UNCHANGED S!vars
BY DEF S!vars, Purses, InPots, Deals, Holding, AccountsOf, Terms, NoDeal

(***************************************************************************)
(* What it is to change an entry of a table of holdings.                   *)
(***************************************************************************)
\* An entry less.
LEMMA TakenIs ==
    ASSUME NEW D, NEW f \in [D -> [Mints -> Nat]], NEW g \in [D -> [Mints -> Nat]],
           NEW d \in D, NEW m \in Mints, NEW p \in Nat,
           \A v \in D, k \in Mints :
               g[v][k] = IF v = d /\ k = m THEN f[v][k] - p ELSE f[v][k]
    PROVE  g = [f EXCEPT ![d][m] = @ - p]
<1>1. ASSUME NEW v \in D PROVE g[v] = [f EXCEPT ![d][m] = @ - p][v]
  OBVIOUS
<1> QED
  BY <1>1

\* An entry more.
LEMMA AddedIs ==
    ASSUME NEW D, NEW f \in [D -> [Mints -> Nat]], NEW g \in [D -> [Mints -> Nat]],
           NEW d \in D, NEW m \in Mints, NEW p \in Nat,
           \A v \in D, k \in Mints :
               g[v][k] = IF v = d /\ k = m THEN f[v][k] + p ELSE f[v][k]
    PROVE  g = [f EXCEPT ![d][m] = @ + p]
<1>1. ASSUME NEW v \in D PROVE g[v] = [f EXCEPT ![d][m] = @ + p][v]
  OBVIOUS
<1> QED
  BY <1>1

(***************************************************************************)
(* The instructions                                                        *)
(***************************************************************************)
\* EscrowTokMake posts a deal.
LEMMA MakeImplements ==
    ASSUME Inv,
           NEW maker \in Makers, NEW id \in Ids, NEW mx \in Mints, NEW my \in Mints,
           NEW ax \in Amounts, NEW ay \in Amounts,
           EscrowTokMake(maker, id, mx, my, ax, ay)
    PROVE  S!Next
<1> DEFINE e == EscrowPda(maker, id)
           new == [maker |-> maker, id |-> id, mint_x |-> mx,
                   mint_y |-> my, amount_x |-> ax, amount_y |-> ay]
<1>1. PICK src \in Existing(maker, mx), dst \in Usable(e, mx) :
         /\ MakeChecks(src, mx, my, ax, ay)
         /\ CanCreateEscrow(e)
         /\ bal' = Transferred(bal, src, dst, ax)
         /\ offer' = [offer EXCEPT ![e] = new]
  BY DEF EscrowTokMake
<1>2. /\ maker \in Users /\ e \in Escrows /\ maker # e /\ e[1] = maker
      /\ ax \in Nat \ {0} /\ ay \in Nat \ {0} /\ mx # my
  BY <1>1, MakersAreUsers, OwnersDiffer, AmountsAreNat DEF Escrows, EscrowPda, MakeChecks
<1>3. /\ src \in Acct /\ src.owner = maker /\ src.mint = mx
      /\ dst \in Acct /\ dst.owner = e /\ dst.mint = mx
      /\ src # dst /\ bal[src] >= ax
  BY <1>1, <1>2 DEF Inv, TypeOK, Existing, Usable, CheckAta, FindOrCreateAta, Ata, MakeChecks
<1>4. TypeOK /\ TypeOK'
  BY MakeStep DEF Inv
<1>5. \A o, k :
         /\ Holding(o, k) \in Nat
         /\ o = maker /\ k = mx => Holding(o, k) >= ax
         /\ Holding(o, k)' = (IF o = maker /\ k = mx THEN Holding(o, k) - ax ELSE Holding(o, k))
                               + (IF o = e /\ k = mx THEN ax ELSE 0)
  <2> HIDE DEF e
  <2> SUFFICES ASSUME NEW o, NEW k
               PROVE  /\ Holding(o, k) \in Nat
                      /\ o = maker /\ k = mx => Holding(o, k) >= ax
                      /\ Holding(o, k)'
                           = (IF o = maker /\ k = mx THEN Holding(o, k) - ax ELSE Holding(o, k))
                               + (IF o = e /\ k = mx THEN ax ELSE 0)
    OBVIOUS
  <2>1. Holding(o, k)' = Total(Transferred(bal, src, dst, ax), AccountsOf(o, k))
    BY <1>1 DEF Holding, AccountsOf
  <2>2. bal \in [Acct -> Nat]
    BY <1>4 DEF TypeOK
  <2> QED
    BY <1>2, <1>3, <2>1, <2>2, HoldingMoves DEF Holding
<1> HIDE DEF e
<1>6. Purses' = [Purses EXCEPT ![maker][mx] = @ - ax] /\ Purses[maker][mx] >= ax
  <2>1. \A v \in Users, k \in Mints :
           Purses'[v][k] = IF v = maker /\ k = mx THEN Purses[v][k] - ax ELSE Purses[v][k]
    BY <1>2, <1>5, OwnersDiffer DEF Purses
  <2>2. Purses[maker][mx] >= ax
    BY <1>2, <1>5 DEF Purses
  <2> QED
    BY <1>2, <1>4, <2>1, <2>2, AbstractTypes, TakenIs
<1>7. InPots' = [InPots EXCEPT ![e][mx] = @ + ax]
  <2>1. \A v \in Escrows, k \in Mints :
           InPots'[v][k] = IF v = e /\ k = mx THEN InPots[v][k] + ax ELSE InPots[v][k]
    BY <1>2, <1>5, OwnersDiffer DEF InPots
  <2> QED
    BY <1>2, <1>4, <2>1, AbstractTypes, AddedIs
<1>8. Deals' = [Deals EXCEPT ![e] = [give |-> mx, want |-> my, gives |-> ax, wants |-> ay]]
  <2>1. new \in Offer
    BY <1>2 DEF Offer
  <2>2. Terms(new) = [give |-> mx, want |-> my, gives |-> ax, wants |-> ay]
    BY <2>1, NoOfferIsNoOffer DEF Terms
  <2>3. \A d \in Escrows : offer'[d] = IF d = e THEN new ELSE offer[d]
    BY <1>1, <1>4 DEF TypeOK
  <2>4. \A d \in Escrows : Deals'[d] = IF d = e THEN Terms(new) ELSE Deals[d]
    <3> HIDE DEF new
    <3> QED
      BY <2>3 DEF Deals, Terms, NoDeal
  <2> QED
    BY <1>2, <2>2, <2>4 DEF Deals
<1>9. Deals[e] = NoDeal
  BY <1>1, <1>2, OpenDeals DEF CanCreateEscrow
<1>10. S!Post(e, mx, my, ax, ay)
  BY <1>2, <1>6, <1>7, <1>8 DEF S!Post
<1>11. e \in S!Pots
  BY <1>2 DEF Escrows, EscrowPda, S!Pots
<1>12. S!Dealing(e)
  BY <1>2, <1>9, <1>10 DEF S!Dealing, S!Posting
<1> QED
  BY <1>11, <1>12 DEF S!Next

\* EscrowTokTake settles a deal at its terms.
LEMMA TakeImplements ==
    ASSUME Inv,
           NEW taker \in Users, NEW e \in Escrows, NEW mx \in Mints, NEW my \in Mints,
           NEW ax \in Amounts, NEW ay \in Amounts, NEW id \in Ids,
           EscrowTokTake(taker, e, mx, my, ax, ay, id)
    PROVE  S!Next
<1>1. PICK takerY \in Existing(taker, my), escX \in Existing(e, mx),
           takerX \in Usable(taker, mx), escY \in Usable(e, my) :
         /\ TakeChecks(ax, ay, mx, my, takerY, escX)
         /\ bal' = Transferred(Transferred(bal, takerY, escY, ay), escX, takerX, ax)
  BY DEF EscrowTokTake
<1>2. /\ UNCHANGED offer /\ IsOpen(e)
      /\ offer[e].mint_x = mx /\ offer[e].mint_y = my
      /\ offer[e].amount_x = ax /\ offer[e].amount_y = ay
      /\ ax \in Nat /\ ay \in Nat /\ mx # my /\ taker # e
  BY <1>1, OwnersDiffer, AmountsAreNat DEF EscrowTokTake, TermsMatch, TakeChecks
<1>3. /\ takerY \in Acct /\ takerY.owner = taker /\ takerY.mint = my
      /\ takerX \in Acct /\ takerX.owner = taker /\ takerX.mint = mx
      /\ escX \in Acct /\ escX.owner = e /\ escX.mint = mx
      /\ escY \in Acct /\ escY.owner = e /\ escY.mint = my
      /\ bal[takerY] >= ay /\ bal[escX] >= ax
  BY <1>1 DEF Inv, TypeOK, Existing, Usable, CheckAta, FindOrCreateAta, Ata, TakeChecks
<1>4. TypeOK /\ TypeOK'
  BY TakeStep DEF Inv
<1>5. \A o, k :
         /\ Holding(o, k) \in Nat
         /\ o = taker /\ k = my => Holding(o, k) >= ay
         /\ o = e /\ k = mx => Holding(o, k) >= ax
         /\ k = my => Holding(o, k)' = (IF o = taker THEN Holding(o, k) - ay ELSE Holding(o, k))
                                         + (IF o = e THEN ay ELSE 0)
         /\ k = mx => Holding(o, k)' = (IF o = e THEN Holding(o, k) - ax ELSE Holding(o, k))
                                         + (IF o = taker THEN ax ELSE 0)
         /\ k # my /\ k # mx => Holding(o, k)' = Holding(o, k)
  <2> DEFINE after == Transferred(Transferred(bal, takerY, escY, ay), escX, takerX, ax)
  <2>1. takerY # escY /\ escX # takerX /\ bal \in [Acct -> Nat]
    BY <1>2, <1>3, <1>4 DEF TypeOK
  <2>2. \A o, k : Holding(o, k)' = Total(after, AccountsOf(o, k))
    BY <1>1 DEF Holding, AccountsOf
  <2>3. after = Transferred(Transferred(bal, takerY, escY, ay), escX, takerX, ax)
    OBVIOUS
  <2> HIDE DEF after
  <2> QED
    BY <1>2, <1>3, <2>1, <2>2, <2>3, TwoTransfers DEF Holding
<1>6. /\ Purses' = [Purses EXCEPT ![taker][my] = @ - ay, ![taker][mx] = @ + ax]
      /\ Purses[taker][my] >= ay
  <2>1. \A v \in Users, k \in Mints :
           Purses'[v][k] = IF v = taker /\ k = my THEN Purses[v][k] - ay
                           ELSE IF v = taker /\ k = mx THEN Purses[v][k] + ax
                           ELSE Purses[v][k]
    BY <1>2, <1>5, OwnersDiffer DEF Purses
  <2>2. Purses[taker][my] >= ay
    BY <1>2, <1>5 DEF Purses
  <2>3. Purses \in [Users -> [Mints -> Nat]] /\ Purses' \in [Users -> [Mints -> Nat]]
    BY <1>4, AbstractTypes
  <2>4. Purses' = [Purses EXCEPT ![taker][my] = @ - ay, ![taker][mx] = @ + ax]
    <3>1. ASSUME NEW v \in Users
          PROVE  Purses'[v] = [Purses EXCEPT ![taker][my] = @ - ay, ![taker][mx] = @ + ax][v]
      BY <1>2, <2>1, <2>3
    <3> QED
      BY <3>1, <2>3
  <2> QED
    BY <2>2, <2>4
<1>7. /\ InPots' = [InPots EXCEPT ![e][my] = @ + ay, ![e][mx] = @ - ax]
      /\ InPots[e][mx] >= ax
  <2>1. \A v \in Escrows, k \in Mints :
           InPots'[v][k] = IF v = e /\ k = my THEN InPots[v][k] + ay
                           ELSE IF v = e /\ k = mx THEN InPots[v][k] - ax
                           ELSE InPots[v][k]
    BY <1>2, <1>5, OwnersDiffer DEF InPots
  <2>2. InPots[e][mx] >= ax
    BY <1>2, <1>5 DEF InPots
  <2>3. InPots \in [Escrows -> [Mints -> Nat]] /\ InPots' \in [Escrows -> [Mints -> Nat]]
    BY <1>4, AbstractTypes
  <2>4. InPots' = [InPots EXCEPT ![e][my] = @ + ay, ![e][mx] = @ - ax]
    <3>1. ASSUME NEW v \in Escrows
          PROVE  InPots'[v] = [InPots EXCEPT ![e][my] = @ + ay, ![e][mx] = @ - ax][v]
      BY <1>2, <2>1, <2>3
    <3> QED
      BY <3>1, <2>3
  <2> QED
    BY <2>2, <2>4
<1>8. UNCHANGED Deals
  BY <1>2 DEF Deals, Terms, NoDeal
<1>9. /\ Deals[e] # NoDeal
      /\ Deals[e].give = mx /\ Deals[e].want = my
      /\ Deals[e].gives = ax /\ Deals[e].wants = ay
  BY <1>2, OpenDeals
<1>10. S!Settle(taker, e)
  BY <1>6, <1>7, <1>8, <1>9 DEF S!Settle
<1>11. e \in S!Pots
  BY DEF Escrows, EscrowPda, S!Pots
<1>12. S!Dealing(e)
  BY <1>9, <1>10 DEF S!Dealing
<1> QED
  BY <1>11, <1>12 DEF S!Next

\* What the two closing handlers have in common: the maker ends the deal, and
\* gets ng of X and nw of Y.
LEMMA ClosingEnds ==
    ASSUME Inv, TypeOK', NEW e \in Escrows, IsOpen(e), CloseEscrow(e),
           NEW u \in Users, NEW mx \in Mints, NEW my \in Mints, mx # my,
           offer[e].maker = u, offer[e].mint_x = mx, offer[e].mint_y = my,
           NEW ng \in Nat, NEW nw \in Nat,
           ng >= offer[e].amount_x \/ nw >= offer[e].amount_y,
           \A o, k :
              /\ Holding(o, k) \in Nat
              /\ o = e /\ k = mx => Holding(o, k) >= ng
              /\ o = e /\ k = my => Holding(o, k) >= nw
              /\ k = mx => Holding(o, k)' = (IF o = e THEN Holding(o, k) - ng ELSE Holding(o, k))
                                              + (IF o = u THEN ng ELSE 0)
              /\ k = my => Holding(o, k)' = (IF o = e THEN Holding(o, k) - nw ELSE Holding(o, k))
                                              + (IF o = u THEN nw ELSE 0)
              /\ k # mx /\ k # my => Holding(o, k)' = Holding(o, k)
    PROVE  S!Next
<1>1. u # e /\ TypeOK
  BY OwnersDiffer DEF Inv
<1>2. Purses' = [Purses EXCEPT ![u][mx] = @ + ng, ![u][my] = @ + nw]
  <2>1. \A v \in Users, k \in Mints :
           Purses'[v][k] = IF v = u /\ k = mx THEN Purses[v][k] + ng
                           ELSE IF v = u /\ k = my THEN Purses[v][k] + nw
                           ELSE Purses[v][k]
    BY OwnersDiffer DEF Purses
  <2>2. Purses \in [Users -> [Mints -> Nat]] /\ Purses' \in [Users -> [Mints -> Nat]]
    BY <1>1, AbstractTypes
  <2> QED
    <3>1. ASSUME NEW v \in Users
          PROVE  Purses'[v] = [Purses EXCEPT ![u][mx] = @ + ng, ![u][my] = @ + nw][v]
      BY <2>1, <2>2
    <3> QED
      BY <3>1, <2>2
<1>3. /\ InPots' = [InPots EXCEPT ![e][mx] = @ - ng, ![e][my] = @ - nw]
      /\ ng \in 0 .. InPots[e][mx] /\ nw \in 0 .. InPots[e][my]
  <2>1. \A v \in Escrows, k \in Mints :
           InPots'[v][k] = IF v = e /\ k = mx THEN InPots[v][k] - ng
                           ELSE IF v = e /\ k = my THEN InPots[v][k] - nw
                           ELSE InPots[v][k]
    BY OwnersDiffer DEF InPots
  <2>2. ng \in 0 .. InPots[e][mx] /\ nw \in 0 .. InPots[e][my]
    BY DEF InPots
  <2>3. InPots \in [Escrows -> [Mints -> Nat]] /\ InPots' \in [Escrows -> [Mints -> Nat]]
    BY <1>1, AbstractTypes
  <2>4. InPots' = [InPots EXCEPT ![e][mx] = @ - ng, ![e][my] = @ - nw]
    <3>1. ASSUME NEW v \in Escrows
          PROVE  InPots'[v] = [InPots EXCEPT ![e][mx] = @ - ng, ![e][my] = @ - nw][v]
      BY <2>1, <2>3
    <3> QED
      BY <3>1, <2>3
  <2> QED
    BY <2>2, <2>4
<1>4. Deals' = [Deals EXCEPT ![e] = NoDeal]
  <2>1. \A d \in Escrows : offer'[d] = IF d = e THEN NoOffer ELSE offer[d]
    BY <1>1 DEF CloseEscrow, TypeOK
  <2>2. \A d \in Escrows : Deals'[d] = IF d = e THEN NoDeal ELSE Deals[d]
    BY <2>1 DEF Deals, Terms, NoDeal
  <2> QED
    BY <2>2 DEF Deals
<1>5. /\ Deals[e] # NoDeal /\ e[1] = u
      /\ Deals[e].give = mx /\ Deals[e].want = my
      /\ ng >= Deals[e].gives \/ nw >= Deals[e].wants
  BY OpenDeals
<1>6. S!End(e, ng, nw)
  BY <1>2, <1>3, <1>4, <1>5 DEF S!End
<1>7. e \in S!Pots
  BY DEF Escrows, EscrowPda, S!Pots
<1>8. S!Dealing(e)
  BY <1>3, <1>5, <1>6 DEF S!Dealing, S!Ending
<1> QED
  BY <1>7, <1>8 DEF S!Next

\* EscrowTokWithdraw ends a deal with the price for its poster.
LEMMA WithdrawImplements ==
    ASSUME Inv,
           NEW u \in Users, NEW e \in Escrows, NEW mx \in Mints, NEW my \in Mints,
           EscrowTokWithdraw(u, e, mx, my)
    PROVE  S!Next
<1> DEFINE ay == offer[e].amount_y
<1>1. PICK escX \in Existing(e, mx), escY \in Existing(e, my),
           makerX \in Usable(u, mx), makerY \in Usable(u, my) :
         /\ bal[escY] >= ay
         /\ bal' = Swept(Transferred(bal, escY, makerY, ay), escX, makerX)
  BY DEF EscrowTokWithdraw, WithdrawOk, WithdrawPays
<1>2. /\ IsOpen(e) /\ CloseEscrow(e)
      /\ offer[e].maker = u /\ offer[e].mint_x = mx /\ offer[e].mint_y = my
      /\ ay \in Nat /\ mx # my /\ u # e
  BY OwnersDiffer DEF EscrowTokWithdraw, OnlyMaker, Inv, TypeOK, SeedsDerivePda, IsOpen, Offer
<1>3. /\ makerY \in Acct /\ makerY.owner = u /\ makerY.mint = my
      /\ makerX \in Acct /\ makerX.owner = u /\ makerX.mint = mx
      /\ escX \in Acct /\ escX.owner = e /\ escX.mint = mx
      /\ escY \in Acct /\ escY.owner = e /\ escY.mint = my
  BY DEF Inv, TypeOK, Existing, Usable, CheckAta, FindOrCreateAta, Ata
<1>4. TypeOK /\ TypeOK' /\ bal \in [Acct -> Nat]
  BY WithdrawStep DEF Inv, TypeOK
<1> DEFINE ng == bal[escX]
           paid == Transferred(bal, escY, makerY, ay)
<1>5. escX # makerX /\ escY # makerY /\ ng \in Nat /\ bal[escX] >= ng
  BY <1>2, <1>3, <1>4
<1>6. bal' = Transferred(paid, escX, makerX, ng)
  <2>1. escX # escY /\ escX # makerY
    BY <1>2, <1>3
  <2>2. paid \in [Acct -> Nat] /\ paid[escX] = ng
    BY <1>1, <1>2, <1>3, <1>4, <2>1, TransferredFacts
  <2> HIDE DEF ng, ay
  <2>3. bal' = Swept(paid, escX, makerX)
    BY <1>1 DEF ay
  <2> HIDE DEF paid
  <2> QED
    BY <1>3, <2>2, <2>3, SweptIsTransferred
<1>7. \A o, k :
         /\ Holding(o, k) \in Nat
         /\ o = e /\ k = mx => Holding(o, k) >= ng
         /\ o = e /\ k = my => Holding(o, k) >= ay
         /\ k = mx => Holding(o, k)' = (IF o = e THEN Holding(o, k) - ng ELSE Holding(o, k))
                                         + (IF o = u THEN ng ELSE 0)
         /\ k = my => Holding(o, k)' = (IF o = e THEN Holding(o, k) - ay ELSE Holding(o, k))
                                         + (IF o = u THEN ay ELSE 0)
         /\ k # mx /\ k # my => Holding(o, k)' = Holding(o, k)
  <2> DEFINE after == Transferred(paid, escX, makerX, ng)
  <2> HIDE DEF ng, ay
  <2>1. \A o, k : Holding(o, k)' = Total(after, AccountsOf(o, k))
    BY <1>6 DEF Holding, AccountsOf
  <2>2. after = Transferred(Transferred(bal, escY, makerY, ay), escX, makerX, ng)
    OBVIOUS
  <2>3. bal[escY] >= ay /\ ay \in Nat
    BY <1>1, <1>2 DEF ay
  <2> HIDE DEF after, paid
  <2> QED
    BY <1>2, <1>3, <1>4, <1>5, <2>1, <2>2, <2>3, TwoTransfers DEF Holding
<1> HIDE DEF ng
<1>8. ay >= offer[e].amount_y
  BY <1>2
<1> QED
  BY <1>2, <1>4, <1>5, <1>7, <1>8, ClosingEnds

\* What Cancel sweeps, it sweeps out of an account for Y of the PDA: if the
\* account passed as escrow_ata_y is not such a one, nothing is left in it, and
\* it is as if nothing were taken from the ATA.
LEMMA CancelTransfers ==
    ASSUME TypeOK, NEW u \in Users, NEW e \in Escrows, NEW mx \in Mints, NEW my \in Mints,
           mx # my, offer[e].amount_x \in Nat,
           NEW escX \in Acct, escX.owner = e, escX.mint = mx, bal[escX] >= offer[e].amount_x,
           NEW makerX \in Acct, makerX.owner = u, makerX.mint = mx,
           NEW makerY \in Acct, makerY.owner = u, makerY.mint = my,
           NEW escY \in Acct \cup {NoAccount},
           CancelOk(e, mx, my, makerX, makerY, escX, escY)
    PROVE  \E fromY \in Acct, nw \in Nat :
              /\ fromY.owner = e /\ fromY.mint = my /\ bal[fromY] >= nw
              /\ CancelPays(e, makerX, makerY, escX, escY)
                   = Transferred(Transferred(bal, escX, makerX, offer[e].amount_x),
                                 fromY, makerY, nw)
<1> DEFINE ret == Returned(e, makerX, escX)
           pays == CancelPays(e, makerX, makerY, escX, escY)
<1>1. /\ bal \in [Acct -> Nat] /\ u # e /\ escX # makerX
  BY OwnersDiffer DEF TypeOK
<1>2. /\ ret = Transferred(bal, escX, makerX, offer[e].amount_x)
      /\ ret \in [Acct -> Nat]
      /\ \A a \in Acct : a # escX /\ a # makerX => ret[a] = bal[a]
  BY <1>1, TransferredFacts DEF Returned
<1>3. CASE escY \in live \cup {makerX} /\ ret[escY] > 0
  <2>1. /\ escY \in Acct /\ escY.owner = e /\ escY.mint = my
        /\ pays = Swept(ret, escY, makerY)
    BY <1>3 DEF CancelOk, CanTransfer, CancelPays, TypeOK
  <2>2. escY # escX /\ escY # makerX
    BY <1>1, <2>1
  <2> HIDE DEF ret, pays
  <2>3. ret[escY] = bal[escY] /\ bal[escY] \in Nat
    BY <1>1, <1>2, <2>1, <2>2
  <2>4. pays = Transferred(ret, escY, makerY, bal[escY])
    BY <1>2, <2>1, <2>3, SweptIsTransferred
  <2> QED
    BY <1>2, <2>1, <2>3, <2>4 DEF pays
<1>4. CASE ~(escY \in live \cup {makerX} /\ ret[escY] > 0)
  <2>1. pays = ret
    BY <1>4 DEF CancelPays, Swept
  <2> DEFINE ata == Ata(e, my)
  <2>2. ata \in Acct /\ ata.owner = e /\ ata.mint = my
    BY DEF Acct, Holders, Ata
  <2> HIDE DEF ret, pays, ata
  <2>3. Transferred(ret, ata, makerY, 0) = ret
    BY <1>2, <2>2, NothingTransferred
  <2>4. bal[ata] >= 0
    BY <1>1, <2>2
  <2> QED
    BY <1>2, <2>1, <2>2, <2>3, <2>4 DEF pays
<1> QED
  BY <1>3, <1>4

\* EscrowTokCancel ends a deal with the offered tokens for its poster.
LEMMA CancelImplements ==
    ASSUME Inv,
           NEW u \in Users, NEW e \in Escrows, NEW mx \in Mints, NEW my \in Mints,
           EscrowTokCancel(u, e, mx, my)
    PROVE  S!Next
<1> DEFINE ax == offer[e].amount_x
<1>1. PICK escX \in Existing(e, mx), escY \in Acct \cup {NoAccount},
           makerX \in Usable(u, mx), makerY \in Usable(u, my) :
         /\ CancelOk(e, mx, my, makerX, makerY, escX, escY)
         /\ bal' = CancelPays(e, makerX, makerY, escX, escY)
  BY DEF EscrowTokCancel
<1>2. /\ IsOpen(e) /\ CloseEscrow(e)
      /\ offer[e].maker = u /\ offer[e].mint_x = mx /\ offer[e].mint_y = my
      /\ ax \in Nat /\ mx # my /\ u # e
  BY OwnersDiffer DEF EscrowTokCancel, OnlyMaker, Inv, TypeOK, SeedsDerivePda, IsOpen, Offer
<1>3. /\ makerY \in Acct /\ makerY.owner = u /\ makerY.mint = my
      /\ makerX \in Acct /\ makerX.owner = u /\ makerX.mint = mx
      /\ escX \in Acct /\ escX.owner = e /\ escX.mint = mx
      /\ bal[escX] >= ax
  BY <1>1 DEF Inv, TypeOK, Existing, Usable, CheckAta, FindOrCreateAta, Ata, CancelOk, CanTransfer
<1>4. TypeOK /\ TypeOK' /\ bal \in [Acct -> Nat]
  BY CancelStep DEF Inv, TypeOK
<1>5. PICK fromY \in Acct, nw \in Nat :
         /\ fromY.owner = e /\ fromY.mint = my /\ bal[fromY] >= nw
         /\ bal' = Transferred(Transferred(bal, escX, makerX, ax), fromY, makerY, nw)
  BY <1>1, <1>2, <1>3, <1>4, CancelTransfers
<1>6. escX # makerX /\ fromY # makerY
  BY <1>2, <1>3, <1>5
<1> HIDE DEF ax
<1>7. \A o, k :
         /\ Holding(o, k) \in Nat
         /\ o = e /\ k = mx => Holding(o, k) >= ax
         /\ o = e /\ k = my => Holding(o, k) >= nw
         /\ k = mx => Holding(o, k)' = (IF o = e THEN Holding(o, k) - ax ELSE Holding(o, k))
                                         + (IF o = u THEN ax ELSE 0)
         /\ k = my => Holding(o, k)' = (IF o = e THEN Holding(o, k) - nw ELSE Holding(o, k))
                                         + (IF o = u THEN nw ELSE 0)
         /\ k # mx /\ k # my => Holding(o, k)' = Holding(o, k)
  <2> DEFINE after == Transferred(Transferred(bal, escX, makerX, ax), fromY, makerY, nw)
  <2>1. \A o, k : Holding(o, k)' = Total(after, AccountsOf(o, k))
    BY <1>5 DEF Holding, AccountsOf
  <2>2. after = Transferred(Transferred(bal, escX, makerX, ax), fromY, makerY, nw)
    OBVIOUS
  <2> HIDE DEF after
  <2> QED
    BY <1>2, <1>3, <1>4, <1>5, <1>6, <2>1, <2>2, TwoTransfers DEF Holding
<1>8. nw \in Nat /\ (ax >= offer[e].amount_x \/ nw >= offer[e].amount_y)
  BY <1>2, <1>5 DEF ax
<1> QED
  BY <1>2, <1>4, <1>7, <1>8, ClosingEnds

(***************************************************************************)
(* Everything else                                                         *)
(***************************************************************************)
\* Tokens that a wallet sends are a gift to a wallet or put into a pot; from
\* one account of a wallet to another of its own, they stay in its purse.
LEMMA SendImplements ==
    ASSUME Inv, TypeOK', NEW from \in live, NEW to \in live, NEW n \in Amounts,
           SendTokens(from, to, n)
    PROVE  S!Next \/ UNCHANGED S!vars
<1> DEFINE u == from.owner  w == to.owner  m == from.mint
<1>1. /\ from \in Acct /\ to \in Acct /\ from # to /\ n \in Nat \ {0} /\ bal[from] >= n
      /\ u \in Users /\ to.mint = m /\ TypeOK /\ bal \in [Acct -> Nat]
      /\ bal' = Transferred(bal, from, to, n) /\ UNCHANGED offer
  BY AmountsAreNat DEF SendTokens, CanTransfer, Inv, TypeOK
<1>2. m \in Mints /\ w \in Users \cup Escrows
  BY <1>1, AcctFields DEF Holders
<1>3. /\ Purses \in [Users -> [Mints -> Nat]] /\ Purses' \in [Users -> [Mints -> Nat]]
      /\ InPots \in [Escrows -> [Mints -> Nat]] /\ InPots' \in [Escrows -> [Mints -> Nat]]
  BY <1>1, AbstractTypes
<1>4. \A o, k :
         /\ Holding(o, k) \in Nat
         /\ o = u /\ k = m => Holding(o, k) >= n
         /\ Holding(o, k)' = (IF o = u /\ k = m THEN Holding(o, k) - n ELSE Holding(o, k))
                               + (IF o = w /\ k = m THEN n ELSE 0)
  <2>1. \A o, k : Holding(o, k)' = Total(Transferred(bal, from, to, n), AccountsOf(o, k))
    BY <1>1 DEF Holding, AccountsOf
  <2> QED
    BY <1>1, <2>1, HoldingMoves DEF Holding
<1> HIDE DEF u, w, m
<1>5. n \in 1 .. Purses[u][m]
  BY <1>1, <1>2, <1>4 DEF Purses
<1>6. \A v \in Users, k \in Mints :
         Purses'[v][k] = (IF v = u /\ k = m THEN Purses[v][k] - n ELSE Purses[v][k])
                           + (IF v = w /\ k = m THEN n ELSE 0)
  BY <1>4 DEF Purses
<1>7. \A v \in Escrows, k \in Mints :
         InPots'[v][k] = InPots[v][k] + (IF v = w /\ k = m THEN n ELSE 0)
  BY <1>1, <1>4, OwnersDiffer DEF InPots
<1>8. UNCHANGED Deals
  BY <1>1 DEF Deals, Terms, NoDeal
<1>9. CASE w \in Users
  <2>1. UNCHANGED InPots
    BY <1>3, <1>7, <1>9, OwnersDiffer
  <2>2. CASE w = u
    <3>1. \A v \in Users, k \in Mints : Purses'[v][k] = Purses[v][k]
      BY <1>1, <1>3, <1>6, <2>2
    <3>2. UNCHANGED Purses
      BY <1>3, <3>1
    <3> QED
      BY <1>8, <2>1, <3>2 DEF S!vars
  <2>3. CASE w # u
    <3>1. Purses' = [Purses EXCEPT ![u][m] = @ - n, ![w][m] = @ + n]
      <4>1. ASSUME NEW v \in Users
            PROVE  Purses'[v] = [Purses EXCEPT ![u][m] = @ - n, ![w][m] = @ + n][v]
        <5>1. \A k \in Mints : /\ Purses[v][k] \in Nat
                               /\ Purses'[v][k] = IF v = u /\ k = m THEN Purses[v][k] - n
                                                 ELSE IF v = w /\ k = m THEN Purses[v][k] + n
                                                 ELSE Purses[v][k]
          BY <1>1, <1>3, <1>6, <2>3
        <5>2. Purses[v] \in [Mints -> Nat] /\ Purses'[v] \in [Mints -> Nat]
          BY <1>3
        <5>3. CASE v = u
          <6>1. Purses'[v] = [Purses[v] EXCEPT ![m] = @ - n]
            BY <2>3, <5>1, <5>2, <5>3
          <6> QED
            BY <1>1, <1>3, <2>3, <5>3, <6>1
        <5>4. CASE v = w
          <6>1. Purses'[v] = [Purses[v] EXCEPT ![m] = @ + n]
            BY <2>3, <5>1, <5>2, <5>4
          <6> QED
            BY <1>3, <1>9, <2>3, <5>4, <6>1
        <5>5. CASE v # u /\ v # w
          <6>1. Purses'[v] = Purses[v]
            BY <5>1, <5>2, <5>5
          <6> QED
            BY <1>3, <5>5, <6>1
        <5> QED
          BY <5>3, <5>4, <5>5
      <4> QED
        BY <1>3, <4>1
    <3>2. S!Give(u, w, m, n)
      BY <1>8, <2>1, <2>3, <3>1 DEF S!Give
    <3> QED
      BY <1>1, <1>2, <1>5, <1>9, <3>2 DEF S!Next, S!Gifts
  <2> QED
    BY <2>2, <2>3
<1>10. CASE w \in Escrows
  <2>1. Purses' = [Purses EXCEPT ![u][m] = @ - n]
    <3>1. \A v \in Users, k \in Mints :
             Purses'[v][k] = IF v = u /\ k = m THEN Purses[v][k] - n ELSE Purses[v][k]
      <4>1. \A v \in Users : v # w
        BY <1>10, OwnersDiffer
      <4>2. \A v \in Users, k \in Mints : Purses[v][k] \in Nat
        BY <1>3
      <4> QED
        BY <1>1, <1>6, <4>1, <4>2
    <3> QED
      BY <1>1, <1>2, <1>3, <3>1, TakenIs
  <2>2. InPots' = [InPots EXCEPT ![w][m] = @ + n]
    <3>1. \A v \in Escrows, k \in Mints :
             InPots'[v][k] = IF v = w /\ k = m THEN InPots[v][k] + n ELSE InPots[v][k]
      BY <1>3, <1>7
    <3> QED
      BY <1>1, <1>2, <1>3, <1>10, <3>1, AddedIs
  <2>3. S!PutIn(u, w, m, n)
    BY <1>8, <2>1, <2>2 DEF S!PutIn
  <2>4. w \in S!Pots
    BY <1>10 DEF Escrows, EscrowPda, S!Pots
  <2> QED
    BY <1>1, <1>2, <1>5, <2>3, <2>4 DEF S!Next, S!Gifts
<1> QED
  BY <1>2, <1>9, <1>10

\* Nothing else that happens between instructions moves tokens.
LEMMA EnvironmentImplements ==
    ASSUME Inv, Environment
    PROVE  S!Next \/ UNCHANGED S!vars
<1>1. TypeOK'
  BY EnvironmentStep DEF Inv
<1>2. CASE \E from \in live, to \in live, n \in Amounts : SendTokens(from, to, n)
  BY <1>1, <1>2, SendImplements
<1>3. CASE \/ \E a \in Acct : OpenTokenAccount(a)
           \/ \E a \in live : CloseTokenAccount(a)
           \/ \E e \in Escrows : PrefundEscrow(e)
           \/ \E c \in ConfigOwners : InitConfig(c)
           \/ \E c \in ConfigOwners : CloseConfigPda(c)
  BY <1>3, Stutters
  DEF OpenTokenAccount, CloseTokenAccount, PrefundEscrow, InitConfig, CloseConfigPda
<1> QED
  BY <1>2, <1>3 DEF Environment

\* At the start all tokens are in purses and nothing is offered.
LEMMA InitImplements == Init => S!Init
<1> SUFFICES ASSUME Init PROVE S!Init
  OBVIOUS
<1>1. bal \in [Acct -> Nat]
  BY InvInit DEF Inv, TypeOK
<1>2. \A a \in Acct : bal[a] > 0 => a.owner \in Users /\ a = Ata(a.owner, a.mint)
  <2> SUFFICES ASSUME NEW a \in Acct, bal[a] > 0
               PROVE  a.owner \in Users /\ a = Ata(a.owner, a.mint)
    OBVIOUS
  <2>1. a.owner \in Users /\ a.slot = 0
    BY DEF Init
  <2> QED
    BY <2>1, ExtraAccounts DEF Acct, Ata
<1>3. ASSUME NEW u \in Users, NEW m \in Mints PROVE Holding(u, m) = Funds[u][m]
  <2> DEFINE ata == Ata(u, m)  A == AccountsOf(u, m)
  <2>1. /\ ata \in A /\ A \subseteq Acct
        /\ ata \in Acct /\ ata.owner = u /\ ata.mint = m /\ ata.slot = 0
    BY DEF Ata, Acct, Holders, AccountsOf
  <2>2. IsFiniteSet(A) /\ \A a \in A : bal[a] \in Nat
    BY <1>1, <2>1, AccountsAreFinite, FS_Subset
  <2>3. \A a \in A \ {ata} : bal[a] = 0
    BY <1>1, <1>2 DEF AccountsOf
  <2>4. Funds[u][m] \in Nat
    BY FundsAreNat
  <2> HIDE DEF ata, A
  <2>5. Total(bal, A) = bal[ata]
    BY <2>1, <2>2, <2>3, TotalOfOne
  <2>6. bal[ata] = Funds[u][m]
    BY <2>1, <2>4 DEF Init
  <2> QED
    BY <2>5, <2>6 DEF Holding, A
<1>4. Purses = Funds
  BY <1>3, FundsAreNat DEF Purses
<1>5. InPots = [e \in Escrows |-> [m \in Mints |-> 0]]
  <2>1. ASSUME NEW e \in Escrows, NEW m \in Mints PROVE Holding(e, m) = 0
    <3>1. \A a \in AccountsOf(e, m) : bal[a] = 0
      BY <1>1, <1>2, OwnersDiffer DEF AccountsOf
    <3> QED
      BY <3>1, TotalOfEmpty DEF Holding
  <2> QED
    BY <2>1 DEF InPots
<1>6. Deals = [e \in Escrows |-> NoDeal]
  BY DEF Init, Deals, Terms
<1>7. S!Pots = Escrows
  BY DEF S!Pots, Escrows, EscrowPda
<1> QED
  BY <1>4, <1>5, <1>6, <1>7 DEF S!Init

\* Whichever accounts are named, created, closed or topped up: tokens enter and
\* leave an offer's PDA at the posted terms, to end it for its maker, or as gifts.
THEOREM SwapIsKept == Spec => ImplementsSwap
<1>1. Inv /\ [Next]_vars => [S!Next]_S!vars
  <2> SUFFICES ASSUME Inv, [Next]_vars PROVE [S!Next]_S!vars
    OBVIOUS
  <2>1. CASE Make
    BY <2>1, MakeImplements DEF Make
  <2>2. CASE Take
    BY <2>2, TakeImplements DEF Take
  <2>3. CASE Withdraw
    BY <2>3, WithdrawImplements DEF Withdraw
  <2>4. CASE Cancel
    BY <2>4, CancelImplements DEF Cancel
  <2>5. CASE Environment
    BY <2>5, EnvironmentImplements
  <2>6. CASE UNCHANGED vars
    BY <2>6, Stutters DEF vars
  <2> QED
    BY <2>1, <2>2, <2>3, <2>4, <2>5, <2>6 DEF Next
<1> QED
  BY <1>1, InitImplements, InvAlways, PTL DEF Spec, ImplementsSwap, S!Spec
==============================================================================
