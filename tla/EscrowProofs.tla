---------------------------- MODULE EscrowProofs -----------------------------
(***************************************************************************)
(* Theorems about Escrow, for any sets of users, offers, mints, accounts   *)
(* and amounts.                                                            *)
(***************************************************************************)
EXTENDS Escrow, TLAPS

USE DEF EscrowPda

\* The address of a token account tells who owns it and what it holds.
LEMMA AcctFields ==
    ASSUME NEW a \in Acct
    PROVE  a.owner \in Holders /\ a.mint \in Mints
BY ExtraAccounts DEF Acct, Ata

\* A wallet is not an escrow PDA, so their accounts differ.
LEMMA OwnersDiffer ==
    ASSUME NEW u \in Users, NEW e \in Escrows
    PROVE  u # e
BY PdasAreNotWallets

\* A transfer moves n tokens between two accounts and touches no other.
LEMMA TransferredFacts ==
    ASSUME NEW b \in [Acct -> Nat], NEW from \in Acct, NEW to \in Acct,
           NEW n \in Nat, b[from] >= n
    PROVE  /\ Transferred(b, from, to, n) \in [Acct -> Nat]
           /\ \A a \in Acct : a # from /\ a # to => Transferred(b, from, to, n)[a] = b[a]
           /\ from # to => /\ Transferred(b, from, to, n)[from] = b[from] - n
                           /\ Transferred(b, from, to, n)[to] = b[to] + n
BY DEF Transferred

\* Sweeping an account empties it into another one.
LEMMA SweptFacts ==
    ASSUME NEW b \in [Acct -> Nat], NEW from \in Acct, NEW to \in Acct, from # to
    PROVE  /\ Swept(b, from, to) \in [Acct -> Nat]
           /\ \A a \in Acct : a # from /\ a # to => Swept(b, from, to)[a] = b[a]
           /\ Swept(b, from, to)[from] = 0
           /\ Swept(b, from, to)[to] = b[to] + b[from]
<1>1. b[from] \in Nat /\ b[to] \in Nat /\ b[from] >= b[from]
  OBVIOUS
<1>2. CASE b[from] > 0
  BY <1>1, <1>2, TransferredFacts DEF Swept
<1>3. CASE b[from] = 0
  BY <1>1, <1>3 DEF Swept
<1> QED
  BY <1>1, <1>2, <1>3
(***************************************************************************)
(* One lemma per kind of step: it keeps the types, it leaves the accounts  *)
(* of everybody but the signer and the PDA it is about at least as full as *)
(* they were, and what it does to that PDA.                                *)
(***************************************************************************)
Untouched(o) ==
    \A a \in Acct : a.owner = o => bal'[a] >= bal[a] /\ (a \in live => a \in live')

\* EscrowTokMake puts amount_x into an account of the new offer's PDA, and takes
\* nothing from anybody but the maker.
LEMMA MakeStep ==
    ASSUME TypeOK,
           NEW maker \in Makers, NEW id \in Ids, NEW mx \in Mints, NEW my \in Mints,
           NEW ax \in Amounts, NEW ay \in Amounts,
           EscrowTokMake(maker, id, mx, my, ax, ay)
    PROVE  /\ TypeOK'
           /\ mx # my
           /\ \A o \in Holders \ {maker} : Untouched(o)
           /\ Holds(EscrowPda(maker, id), mx, ax)'
<1> DEFINE e0 == EscrowPda(maker, id)
<1>1. PICK src \in Existing(maker, mx), dst \in Usable(e0, mx) :
         /\ MakeChecks(src, mx, my, ax, ay)
         /\ live' = live \cup {dst}
         /\ CanTransfer(live', bal, src, dst, mx, maker, ax)
         /\ bal' = Transferred(bal, src, dst, ax)
         /\ offer' = [offer EXCEPT ![e0] =
                         [maker |-> maker, id |-> id, mint_x |-> mx,
                          mint_y |-> my, amount_x |-> ax, amount_y |-> ay]]
         /\ UNCHANGED <<prefunded, configs>>
  BY DEF EscrowTokMake
<1>2. /\ maker \in Users /\ e0 \in Escrows /\ maker # e0
      /\ ax \in Nat \ {0} /\ ay \in Nat \ {0} /\ mx # my
  BY <1>1, MakersAreUsers, OwnersDiffer, AmountsAreNat DEF Escrows, MakeChecks
<1>3. /\ src \in Acct /\ src \in live /\ src.owner = maker
      /\ dst \in Acct /\ dst.owner = e0 /\ dst.mint = mx
      /\ src # dst /\ bal[src] >= ax
  BY <1>1, <1>2 DEF TypeOK, Existing, Usable, CheckAta, FindOrCreateAta, Ata, MakeChecks
<1>4. /\ bal' \in [Acct -> Nat]
      /\ \A a \in Acct : a # src /\ a # dst => bal'[a] = bal[a]
      /\ bal'[dst] = bal[dst] + ax
  BY <1>1, <1>2, <1>3, TransferredFacts DEF TypeOK
<1>5. TypeOK'
  <2>1. live' \subseteq Acct /\ \A a \in Acct \ live' : bal'[a] = 0
    BY <1>1, <1>3, <1>4 DEF TypeOK
  <2>2. [maker |-> maker, id |-> id, mint_x |-> mx,
         mint_y |-> my, amount_x |-> ax, amount_y |-> ay] \in Offer
    BY <1>2 DEF Offer
  <2>3. offer' \in [Escrows -> Offer \cup {NoOffer}]
    BY <1>1, <2>2 DEF TypeOK
  <2> QED
    BY <1>1, <1>4, <2>1, <2>3 DEF TypeOK
<1>6. ASSUME NEW o \in Holders \ {maker} PROVE Untouched(o)
  <2> SUFFICES ASSUME NEW a \in Acct, a.owner = o
               PROVE  bal'[a] >= bal[a] /\ (a \in live => a \in live')
    BY DEF Untouched
  <2>1. a # src
    BY <1>3
  <2>2. bal[a] \in Nat
    BY DEF TypeOK
  <2> QED
    BY <1>1, <1>2, <1>3, <1>4, <2>1, <2>2
<1>7. Holds(e0, mx, ax)'
  <2>1. bal[dst] \in Nat /\ dst \in live'
    BY <1>1, <1>3 DEF TypeOK
  <2>2. bal'[dst] >= ax
    BY <1>2, <1>4, <2>1
  <2> QED
    BY <1>3, <2>1, <2>2 DEF Holds
<1> QED
  BY <1>2, <1>5, <1>6, <1>7

\* EscrowTokTake pays the price into an account of the PDA, and takes amount_x
\* from one; nobody but the taker and the PDA loses anything.
LEMMA TakeStep ==
    ASSUME TypeOK,
           NEW taker \in Users, NEW e \in Escrows, NEW mx \in Mints, NEW my \in Mints,
           NEW ax \in Amounts, NEW ay \in Amounts, NEW id \in Ids,
           EscrowTokTake(taker, e, mx, my, ax, ay, id)
    PROVE  /\ TypeOK'
           /\ \A o \in Holders \ {taker, e} : Untouched(o)
           /\ Holds(e, offer[e].mint_y, offer[e].amount_y)'
           /\ \A a \in Acct : (a.owner = e /\ bal'[a] < bal[a]) =>
                /\ a.mint = offer[e].mint_x
                /\ bal[a] = bal'[a] + offer[e].amount_x
           /\ \E b \in Acct : /\ b.owner = e /\ b.mint = offer[e].mint_y
                              /\ bal'[b] = bal[b] + offer[e].amount_y
<1>1. PICK takerY \in Existing(taker, my), escX \in Existing(e, mx),
           takerX \in Usable(taker, mx), escY \in Usable(e, my) :
         LET paid == Transferred(bal, takerY, escY, ay)
         IN  /\ TakeChecks(ax, ay, mx, my, takerY, escX)
             /\ live' = live \cup {escY, takerX}
             /\ bal' = Transferred(paid, escX, takerX, ax)
  BY DEF EscrowTokTake
<1> DEFINE paid == Transferred(bal, takerY, escY, ay)
<1>2. /\ UNCHANGED <<offer, prefunded, configs>>
      /\ offer[e].mint_x = mx /\ offer[e].mint_y = my
      /\ offer[e].amount_x = ax /\ offer[e].amount_y = ay
      /\ ax \in Nat \ {0} /\ ay \in Nat \ {0} /\ mx # my /\ taker # e
  BY <1>1, OwnersDiffer, AmountsAreNat DEF EscrowTokTake, TermsMatch, TakeChecks
<1>3. /\ takerY \in Acct /\ takerY.owner = taker /\ takerY.mint = my
      /\ takerX \in Acct /\ takerX.owner = taker /\ takerX.mint = mx
      /\ escX \in Acct /\ escX.owner = e /\ escX.mint = mx
      /\ escY \in Acct /\ escY.owner = e /\ escY.mint = my
      /\ takerY \in live /\ escX \in live
      /\ bal[takerY] >= ay /\ bal[escX] >= ax
  BY <1>1 DEF TypeOK, Existing, Usable, CheckAta, FindOrCreateAta, Ata, TakeChecks
<1>4. /\ takerY # escY /\ escX # takerX /\ escX # escY
      /\ takerX # takerY /\ escX # takerY /\ takerX # escY
  BY <1>2, <1>3
<1>5. /\ paid \in [Acct -> Nat]
      /\ \A a \in Acct : a # takerY /\ a # escY => paid[a] = bal[a]
      /\ paid[escY] = bal[escY] + ay
      /\ paid[escX] >= ax
  BY <1>2, <1>3, <1>4, TransferredFacts DEF TypeOK
<1>6. bal' = Transferred(paid, escX, takerX, ax) /\ live' = live \cup {escY, takerX}
  BY <1>1
<1>7. /\ bal' \in [Acct -> Nat]
      /\ \A a \in Acct : a # escX /\ a # takerX => bal'[a] = paid[a]
      /\ bal'[escX] = paid[escX] - ax
  <2> HIDE DEF paid
  <2> QED
    BY <1>2, <1>3, <1>4, <1>5, <1>6, TransferredFacts
<1>8. /\ bal'[escX] = bal[escX] - ax
      /\ bal'[escY] = bal[escY] + ay
      /\ \A a \in Acct : a \notin {takerX, takerY, escX, escY} => bal'[a] = bal[a]
  BY <1>3, <1>4, <1>5, <1>7
<1>9. TypeOK'
  BY <1>2, <1>3, <1>6, <1>7, <1>8 DEF TypeOK
<1>10. ASSUME NEW o \in Holders \ {taker, e} PROVE Untouched(o)
  <2> SUFFICES ASSUME NEW a \in Acct, a.owner = o
               PROVE  bal'[a] >= bal[a] /\ (a \in live => a \in live')
    BY DEF Untouched
  <2>1. a \notin {takerX, takerY, escX, escY}
    BY <1>3
  <2> QED
    BY <1>6, <1>8, <2>1 DEF TypeOK
<1>11. Holds(e, offer[e].mint_y, offer[e].amount_y)'
  BY <1>2, <1>3, <1>6, <1>8 DEF Holds, TypeOK
<1>12. ASSUME NEW a \in Acct, a.owner = e, bal'[a] < bal[a]
       PROVE  a.mint = offer[e].mint_x /\ bal[a] = bal'[a] + offer[e].amount_x
  <2>1. bal[a] \in Nat /\ bal[escY] \in Nat
    BY <1>3 DEF TypeOK
  <2>2. a = escX
    BY <1>2, <1>3, <1>8, <1>12, <2>1
  <2> QED
    BY <1>2, <1>3, <1>8, <2>1, <2>2
<1>13. \E b \in Acct : /\ b.owner = e /\ b.mint = offer[e].mint_y
                      /\ bal'[b] = bal[b] + offer[e].amount_y
  BY <1>2, <1>3, <1>8
<1> QED
  BY <1>9, <1>10, <1>11, <1>12, <1>13

\* EscrowTokWithdraw pays the maker the price, and takes nothing from others.
LEMMA WithdrawStep ==
    ASSUME TypeOK, SeedsDerivePda,
           NEW u \in Users, NEW e \in Escrows, NEW mx \in Mints, NEW my \in Mints,
           EscrowTokWithdraw(u, e, mx, my)
    PROVE  /\ TypeOK'
           /\ \A o \in Holders \ {u, e} : Untouched(o)
           /\ Gains(offer[e].maker, offer[e].mint_y, offer[e].amount_y)
<1> DEFINE ay == offer[e].amount_y
<1>1. PICK escX \in Existing(e, mx), escY \in Existing(e, my),
           makerX \in Usable(u, mx), makerY \in Usable(u, my) :
         /\ WithdrawOk(e, makerX, makerY, escX, escY)
         /\ bal' = WithdrawPays(e, makerX, makerY, escX, escY)
         /\ live' = (live \cup {makerY} \cup
                       (IF bal[escX] > 0 THEN {makerX} ELSE {})) \ {escX, escY}
  BY DEF EscrowTokWithdraw
<1>2. /\ offer' = [offer EXCEPT ![e] = NoOffer] /\ UNCHANGED <<prefunded, configs>>
      /\ offer[e].maker = u /\ offer[e].mint_x = mx /\ offer[e].mint_y = my
      /\ offer[e] \in Offer /\ ay \in Nat \ {0} /\ mx # my /\ u # e
  BY OwnersDiffer DEF EscrowTokWithdraw, OnlyMaker, CloseEscrow, TypeOK, SeedsDerivePda, IsOpen, Offer
<1>3. /\ makerY \in Acct /\ makerY.owner = u /\ makerY.mint = my
      /\ makerX \in Acct /\ makerX.owner = u /\ makerX.mint = mx
      /\ escX \in Acct /\ escX.owner = e /\ escX.mint = mx
      /\ escY \in Acct /\ escY.owner = e /\ escY.mint = my
      /\ bal[escY] >= ay
  BY <1>1 DEF TypeOK, Existing, Usable, CheckAta, FindOrCreateAta, Ata, WithdrawOk
<1>4. /\ escY # makerY /\ escX # makerX /\ escX # escY
      /\ makerX # makerY /\ escX # makerY /\ makerX # escY
  BY <1>2, <1>3
<1> DEFINE paid == Transferred(bal, escY, makerY, ay)
<1>5. /\ paid \in [Acct -> Nat]
      /\ \A a \in Acct : a # makerY /\ a # escY => paid[a] = bal[a]
      /\ paid[makerY] = bal[makerY] + ay
  BY <1>2, <1>3, <1>4, TransferredFacts DEF TypeOK
<1>6. bal' = Swept(paid, escX, makerX)
  BY <1>1 DEF WithdrawPays
<1>7. /\ bal' \in [Acct -> Nat]
      /\ \A a \in Acct : a # escX /\ a # makerX => bal'[a] = paid[a]
      /\ bal'[escX] = 0
      /\ bal'[makerX] = bal[makerX] + bal[escX]
  <2> HIDE DEF paid
  <2> QED
    BY <1>3, <1>4, <1>5, <1>6, SweptFacts
<1>8. bal'[escY] = 0 /\ bal'[makerY] = bal[makerY] + ay
  BY <1>1, <1>3, <1>4, <1>5, <1>7 DEF WithdrawOk, CanCloseAccount
<1>9. TypeOK'
  <2>1. live' \subseteq Acct /\ \A a \in Acct \ live' : bal'[a] = 0
    <3>1. live' \subseteq Acct
      BY <1>1, <1>3 DEF TypeOK
    <3>2. ASSUME NEW a \in Acct \ live' PROVE bal'[a] = 0
      <4>1. CASE a \in {escX, escY}
        BY <1>7, <1>8, <4>1
      <4>2. CASE a \notin {escX, escY} /\ a = makerX
        BY <1>1, <1>3, <1>7, <3>2, <4>2 DEF TypeOK
      <4>3. CASE a \notin {escX, escY, makerX}
        BY <1>1, <1>5, <1>7, <3>2, <4>3 DEF TypeOK
      <4> QED
        BY <4>1, <4>2, <4>3
    <3> QED
      BY <3>1, <3>2
  <2> QED
    BY <1>2, <1>7, <2>1 DEF TypeOK
<1>10. ASSUME NEW o \in Holders \ {u, e} PROVE Untouched(o)
  <2> SUFFICES ASSUME NEW a \in Acct, a.owner = o
               PROVE  bal'[a] >= bal[a] /\ (a \in live => a \in live')
    BY DEF Untouched
  <2>1. a \notin {makerX, makerY, escX, escY}
    BY <1>3
  <2> QED
    BY <1>1, <1>5, <1>7, <2>1 DEF TypeOK
<1>11. Gains(offer[e].maker, offer[e].mint_y, ay)
  <2>1. makerY \in live'
    BY <1>1, <1>4
  <2> QED
    BY <1>2, <1>3, <1>8, <2>1 DEF Gains, TypeOK
<1> QED
  BY <1>9, <1>10, <1>11

\* EscrowTokCancel pays the maker amount_x back, and takes nothing from others,
\* whatever account was passed as escrow_ata_y.
LEMMA CancelStep ==
    ASSUME TypeOK, SeedsDerivePda,
           NEW u \in Users, NEW e \in Escrows, NEW mx \in Mints, NEW my \in Mints,
           EscrowTokCancel(u, e, mx, my)
    PROVE  /\ TypeOK'
           /\ \A o \in Holders \ {u, e} : Untouched(o)
           /\ Gains(offer[e].maker, offer[e].mint_x, offer[e].amount_x)
<1> DEFINE ax == offer[e].amount_x
<1>1. PICK escX \in Existing(e, mx), escY \in Acct \cup {NoAccount},
           makerX \in Usable(u, mx), makerY \in Usable(u, my) :
         /\ CancelOk(e, mx, my, makerX, makerY, escX, escY)
         /\ bal' = CancelPays(e, makerX, makerY, escX, escY)
         /\ live' = CancelFound(e, makerX, makerY, escX, escY) \ {escX, escY}
  BY DEF EscrowTokCancel
<1> DEFINE found == CancelFound(e, makerX, makerY, escX, escY)
           ret   == Returned(e, makerX, escX)
<1>2. /\ offer' = [offer EXCEPT ![e] = NoOffer] /\ UNCHANGED <<prefunded, configs>>
      /\ offer[e].maker = u /\ offer[e].mint_x = mx /\ offer[e].mint_y = my
      /\ offer[e] \in Offer /\ ax \in Nat \ {0} /\ mx # my /\ u # e
  BY OwnersDiffer DEF EscrowTokCancel, OnlyMaker, CloseEscrow, TypeOK, SeedsDerivePda, IsOpen, Offer
<1>3. /\ makerY \in Acct /\ makerY.owner = u /\ makerY.mint = my
      /\ makerX \in Acct /\ makerX.owner = u /\ makerX.mint = mx
      /\ escX \in Acct /\ escX.owner = e /\ escX.mint = mx /\ escX \in live
      /\ bal[escX] >= ax
  BY <1>1 DEF TypeOK, Existing, Usable, CheckAta, FindOrCreateAta, Ata, CancelOk, CanTransfer
<1>4. escX # makerX /\ makerX # makerY /\ escX # makerY
  BY <1>2, <1>3
<1>5. /\ ret \in [Acct -> Nat]
      /\ \A a \in Acct : a # makerX /\ a # escX => ret[a] = bal[a]
      /\ ret[makerX] = bal[makerX] + ax
  BY <1>2, <1>3, <1>4, TransferredFacts DEF TypeOK, Returned
<1>6. /\ bal' \in [Acct -> Nat]
      /\ \A a \in Acct : a \notin {escX, escY, makerX, makerY} => bal'[a] = bal[a]
      /\ bal'[escX] = 0 /\ (escY \in Acct => bal'[escY] = 0)
      /\ bal'[makerX] = bal[makerX] + ax /\ makerX # escY
      /\ bal'[makerY] = bal[makerY] \/ makerY \in found
      /\ escY.owner = e \/ escY \notin live
  <2>1. escX # escY => bal'[escX] = 0
    BY <1>1 DEF CancelOk, CanCloseAccount
  <2>2. CASE escY \in live \cup {makerX}
    <3>1. bal' = Swept(ret, escY, makerY) /\ escY.owner = e
      BY <1>1, <2>2 DEF CancelPays, CancelOk, CanCloseAccount
    <3>2. escY # makerX /\ escY # makerY /\ escY \in Acct
      BY <1>2, <1>3, <2>2, <3>1 DEF TypeOK
    <3>3. /\ bal' \in [Acct -> Nat]
          /\ \A a \in Acct : a # escY /\ a # makerY => bal'[a] = ret[a]
          /\ bal'[escY] = 0
          /\ bal'[makerY] = ret[makerY] + ret[escY]
      <4> HIDE DEF ret
      <4> QED
        BY <1>3, <1>5, <3>1, <3>2, SweptFacts
    <3>4. ret[escY] = 0 \/ makerY \in found
      BY <1>5, <2>2, <3>2 DEF CancelFound
    <3> QED
      BY <1>3, <1>4, <1>5, <2>1, <3>1, <3>2, <3>3, <3>4 DEF TypeOK
  <2>3. CASE escY \notin live \cup {makerX}
    <3>1. bal' = ret
      BY <1>1, <2>3 DEF CancelPays
    <3>2. escY # escX /\ (escY \in Acct => bal[escY] = 0)
      BY <1>3, <2>3 DEF TypeOK
    <3> QED
      BY <1>3, <1>4, <1>5, <2>1, <2>3, <3>1, <3>2 DEF TypeOK
  <2> QED
    BY <2>2, <2>3
<1>7. /\ live' = found \ {escX, escY}
      /\ found \subseteq Acct /\ live \subseteq found /\ makerX \in found
      /\ found \subseteq live \cup {makerX, makerY}
  BY <1>1, <1>3 DEF CancelFound, TypeOK
<1>8. TypeOK'
  <2>1. ASSUME NEW a \in Acct \ live' PROVE bal'[a] = 0
    <3>1. CASE a \in {escX, escY}
      BY <1>6, <3>1
    <3>2. CASE a \notin {escX, escY}
      <4>1. a \notin found /\ a \notin live /\ a # makerX
        BY <1>7, <2>1, <3>2
      <4>2. bal[a] = 0
        BY <4>1 DEF TypeOK
      <4> QED
        BY <1>6, <3>2, <4>1, <4>2
    <3> QED
      BY <3>1, <3>2
  <2>2. live' \subseteq Acct
    BY <1>7
  <2> QED
    BY <1>2, <1>6, <2>1, <2>2 DEF TypeOK
<1>9. ASSUME NEW o \in Holders \ {u, e} PROVE Untouched(o)
  <2> SUFFICES ASSUME NEW a \in Acct, a.owner = o
               PROVE  bal'[a] >= bal[a] /\ (a \in live => a \in live')
    BY DEF Untouched
  <2>1. a \notin {makerX, makerY, escX}
    BY <1>3
  <2>2. bal[a] \in Nat /\ (a \notin live => bal[a] = 0)
    BY DEF TypeOK
  <2>3. CASE a = escY
    BY <1>6, <1>9, <2>2, <2>3
  <2>4. CASE a # escY
    BY <1>6, <1>7, <2>1, <2>2, <2>4
  <2> QED
    BY <2>3, <2>4
<1>10. Gains(offer[e].maker, offer[e].mint_x, ax)
  <2>1. makerX \in live'
    BY <1>4, <1>6, <1>7
  <2> QED
    BY <1>2, <1>3, <1>6, <2>1 DEF Gains, TypeOK
<1> QED
  BY <1>8, <1>9, <1>10

\* What happens between the instructions takes nothing from any PDA.
LEMMA EnvironmentStep ==
    ASSUME TypeOK, Environment
    PROVE  /\ TypeOK'
           /\ UNCHANGED offer
           /\ \A e \in Escrows : Untouched(e)
<1> USE DEF TypeOK
<1>1. ASSUME NEW a \in Acct, OpenTokenAccount(a)
      PROVE  TypeOK' /\ UNCHANGED offer /\ \A e \in Escrows : Untouched(e)
  BY <1>1 DEF OpenTokenAccount, Untouched
<1>2. ASSUME NEW from \in live, NEW to \in live, NEW n \in Amounts, SendTokens(from, to, n)
      PROVE  TypeOK' /\ UNCHANGED offer /\ \A e \in Escrows : Untouched(e)
  <2>1. /\ from \in Acct /\ to \in Acct /\ from # to /\ n \in Nat
        /\ from.owner \in Users /\ bal[from] >= n
        /\ bal' = Transferred(bal, from, to, n)
        /\ UNCHANGED <<live, offer, prefunded, configs>>
    BY <1>2, AmountsAreNat DEF SendTokens, CanTransfer
  <2>2. /\ bal' \in [Acct -> Nat]
        /\ \A a \in Acct : a # from /\ a # to => bal'[a] = bal[a]
        /\ bal'[to] = bal[to] + n
    BY <2>1, TransferredFacts
  <2>3. TypeOK'
    BY <1>2, <2>1, <2>2
  <2>4. ASSUME NEW e \in Escrows, NEW a \in Acct, a.owner = e
        PROVE  bal'[a] >= bal[a] /\ (a \in live => a \in live')
    <3>1. a # from
      BY <2>1, <2>4, OwnersDiffer
    <3> QED
      BY <2>1, <2>2, <3>1
  <2> QED
    BY <2>1, <2>3, <2>4 DEF Untouched
<1>3. ASSUME NEW a \in live, CloseTokenAccount(a)
      PROVE  TypeOK' /\ UNCHANGED offer /\ \A e \in Escrows : Untouched(e)
  <2>1. /\ a.owner \in Users /\ bal[a] = 0 /\ live' = live \ {a}
        /\ UNCHANGED <<bal, offer, prefunded, configs>>
    BY <1>3 DEF CloseTokenAccount, CanCloseAccount
  <2>2. TypeOK'
    BY <2>1
  <2>3. \A e \in Escrows : Untouched(e)
    BY <2>1, OwnersDiffer DEF Untouched
  <2> QED
    BY <2>1, <2>2, <2>3
<1>4. ASSUME NEW e \in Escrows, PrefundEscrow(e)
      PROVE  TypeOK' /\ UNCHANGED offer /\ \A d \in Escrows : Untouched(d)
  BY <1>4 DEF PrefundEscrow, Untouched
<1>5. ASSUME NEW c \in ConfigOwners, InitConfig(c) \/ CloseConfigPda(c)
      PROVE  TypeOK' /\ UNCHANGED offer /\ \A e \in Escrows : Untouched(e)
  BY <1>5 DEF InitConfig, CloseConfigPda, Untouched
<1> QED
  BY <1>1, <1>2, <1>3, <1>4, <1>5 DEF Environment

(***************************************************************************)
(* The inductive invariant.  OfferCovered alone is not inductive: that a   *)
(* payment reaches another account than the one the offered X leaves rests *)
(* on the two mints being different and on PDAs not being wallets.         *)
(***************************************************************************)
Inv == TypeOK /\ SeedsDerivePda /\ OfferCovered

\* An offer that a step neither makes, takes nor closes stays covered.
LEMMA StaysCovered ==
    ASSUME Inv, TypeOK', NEW e \in Escrows, Untouched(e), offer'[e] = offer[e], IsOpen(e)
    PROVE  \/ Holds(e, offer[e].mint_x, offer[e].amount_x)'
           \/ Holds(e, offer[e].mint_y, offer[e].amount_y)'
<1>1. /\ offer[e] \in Offer /\ offer'[e] = offer[e]
      /\ offer[e].amount_x \in Nat /\ offer[e].amount_y \in Nat
  BY DEF Inv, TypeOK, IsOpen, Offer
<1>2. CASE Holds(e, offer[e].mint_x, offer[e].amount_x)
  BY <1>1, <1>2 DEF Inv, Holds, Untouched, TypeOK
<1>3. CASE Holds(e, offer[e].mint_y, offer[e].amount_y)
  BY <1>1, <1>3 DEF Inv, Holds, Untouched, TypeOK
<1> QED
  BY <1>2, <1>3 DEF Inv, OfferCovered

\* There is no offer at the start.
LEMMA InvInit == Init => Inv
<1> SUFFICES ASSUME Init PROVE Inv
  OBVIOUS
<1>1. TypeOK
  <2>1. \A a \in live : a.owner \in Users /\ a.mint \in Mints /\ a \in Acct
    BY AcctFields DEF Init
  <2>2. \A a \in live : Funds[a.owner][a.mint] \in Nat
    BY <2>1, FundsAreNat
  <2>3. bal \in [Acct -> Nat] /\ \A a \in Acct \ live : bal[a] = 0
    BY <2>2 DEF Init
  <2> QED
    BY <2>1, <2>3 DEF Init, TypeOK
<1>2. \A e \in Escrows : ~IsOpen(e)
  BY DEF Init, IsOpen
<1> QED
  BY <1>1, <1>2 DEF Inv, SeedsDerivePda, OfferCovered

\* A new offer is covered by the X just paid in; the others stay covered.
LEMMA MakeKeepsInv ==
    ASSUME Inv, Make
    PROVE  Inv'
<1>1. PICK maker \in Makers, id \in Ids, mx \in Mints, my \in Mints,
           ax \in Amounts, ay \in Amounts : EscrowTokMake(maker, id, mx, my, ax, ay)
  BY DEF Make
<1> DEFINE e0 == EscrowPda(maker, id)
<1>2. /\ TypeOK' /\ mx # my
      /\ \A e \in Escrows : Untouched(e)
      /\ Holds(e0, mx, ax)'
  BY <1>1, MakeStep, MakersAreUsers, OwnersDiffer DEF Inv, Holders
<1>3. /\ e0 \in Escrows
      /\ offer' = [offer EXCEPT ![e0] =
                     [maker |-> maker, id |-> id, mint_x |-> mx,
                      mint_y |-> my, amount_x |-> ax, amount_y |-> ay]]
      /\ offer \in [Escrows -> Offer \cup {NoOffer}]
  BY <1>1 DEF EscrowTokMake, Escrows, Inv, TypeOK
<1>4. /\ offer'[e0].maker = maker /\ offer'[e0].id = id
      /\ offer'[e0].mint_x = mx /\ offer'[e0].mint_y = my /\ offer'[e0].amount_x = ax
  BY <1>3
<1>5. ASSUME NEW e \in Escrows, e # e0 PROVE offer'[e] = offer[e]
  BY <1>3, <1>5
<1>6. SeedsDerivePda'
  BY <1>2, <1>3, <1>4, <1>5 DEF Inv, SeedsDerivePda, IsOpen
<1>7. OfferCovered'
  <2> SUFFICES ASSUME NEW e \in Escrows, IsOpen(e)'
               PROVE  \/ Holds(e, offer[e].mint_x, offer[e].amount_x)'
                      \/ Holds(e, offer[e].mint_y, offer[e].amount_y)'
    BY DEF OfferCovered
  <2>1. CASE e = e0
    BY <1>2, <1>4, <2>1 DEF Holds
  <2>2. CASE e # e0
    BY <1>2, <1>5, <2>2, StaysCovered DEF IsOpen
  <2> QED
    BY <2>1, <2>2
<1> QED
  BY <1>2, <1>6, <1>7 DEF Inv

\* An offer just taken is covered by the Y just paid in.
LEMMA TakeKeepsInv ==
    ASSUME Inv, Take
    PROVE  Inv'
<1>1. PICK taker \in Users, e0 \in Escrows, mx \in Mints, my \in Mints,
           ax \in Amounts, ay \in Amounts, id \in Ids :
             EscrowTokTake(taker, e0, mx, my, ax, ay, id)
  BY DEF Take
<1>2. /\ TypeOK'
      /\ \A e \in Escrows : e # e0 => Untouched(e)
      /\ Holds(e0, offer[e0].mint_y, offer[e0].amount_y)'
  BY <1>1, TakeStep, OwnersDiffer DEF Inv, Holders
<1>3. offer' = offer
  BY <1>1 DEF EscrowTokTake
<1>4. OfferCovered'
  <2> SUFFICES ASSUME NEW e \in Escrows, IsOpen(e)'
               PROVE  \/ Holds(e, offer[e].mint_x, offer[e].amount_x)'
                      \/ Holds(e, offer[e].mint_y, offer[e].amount_y)'
    BY DEF OfferCovered
  <2> QED
    BY <1>2, <1>3, StaysCovered DEF IsOpen
<1> QED
  BY <1>2, <1>3, <1>4 DEF Inv, SeedsDerivePda, IsOpen

\* Withdraw and Cancel empty one escrow PDA and leave the others as they are.
LEMMA CloseKeepsInv ==
    ASSUME Inv, TypeOK', NEW e0 \in Escrows, CloseEscrow(e0),
           \A e \in Escrows : e # e0 => Untouched(e)
    PROVE  Inv'
<1>1. offer \in [Escrows -> Offer \cup {NoOffer}]
  BY DEF Inv, TypeOK
<1>2. ~IsOpen(e0)' /\ \A e \in Escrows : e # e0 => offer'[e] = offer[e]
  BY <1>1 DEF CloseEscrow, IsOpen
<1>3. SeedsDerivePda'
  BY <1>2 DEF Inv, SeedsDerivePda, IsOpen
<1>4. OfferCovered'
  <2> SUFFICES ASSUME NEW e \in Escrows, IsOpen(e)'
               PROVE  \/ Holds(e, offer[e].mint_x, offer[e].amount_x)'
                      \/ Holds(e, offer[e].mint_y, offer[e].amount_y)'
    BY DEF OfferCovered
  <2> QED
    BY <1>2, StaysCovered DEF IsOpen
<1> QED
  BY <1>3, <1>4 DEF Inv

\* Whatever leaves the offers as they are and takes nothing from their PDAs
\* keeps the invariant.
LEMMA UntouchedKeepsInv ==
    ASSUME Inv, TypeOK', UNCHANGED offer, \A e \in Escrows : Untouched(e)
    PROVE  Inv'
<1>1. OfferCovered'
  <2> SUFFICES ASSUME NEW e \in Escrows, IsOpen(e)'
               PROVE  \/ Holds(e, offer[e].mint_x, offer[e].amount_x)'
                      \/ Holds(e, offer[e].mint_y, offer[e].amount_y)'
    BY DEF OfferCovered
  <2> QED
    BY StaysCovered DEF IsOpen
<1> QED
  BY <1>1 DEF Inv, SeedsDerivePda, IsOpen

\* The invariant is inductive.
LEMMA NextKeepsInv == Inv /\ [Next]_vars => Inv'
<1> SUFFICES ASSUME Inv, [Next]_vars PROVE Inv'
  OBVIOUS
<1>1. CASE Make
  BY <1>1, MakeKeepsInv
<1>2. CASE Take
  BY <1>2, TakeKeepsInv
<1>3. CASE Withdraw
  <2>1. PICK u \in Users, e \in Escrows, mx \in Mints, my \in Mints :
               EscrowTokWithdraw(u, e, mx, my)
    BY <1>3 DEF Withdraw
  <2>2. TypeOK' /\ \A d \in Escrows : d # e => Untouched(d)
    BY <2>1, WithdrawStep, OwnersDiffer DEF Inv, Holders
  <2>3. CloseEscrow(e)
    BY <2>1 DEF EscrowTokWithdraw
  <2> QED
    BY <2>2, <2>3, CloseKeepsInv
<1>4. CASE Cancel
  <2>1. PICK u \in Users, e \in Escrows, mx \in Mints, my \in Mints :
               EscrowTokCancel(u, e, mx, my)
    BY <1>4 DEF Cancel
  <2>2. TypeOK' /\ \A d \in Escrows : d # e => Untouched(d)
    BY <2>1, CancelStep, OwnersDiffer DEF Inv, Holders
  <2>3. CloseEscrow(e)
    BY <2>1 DEF EscrowTokCancel
  <2> QED
    BY <2>2, <2>3, CloseKeepsInv
<1>5. CASE Environment
  BY <1>5, EnvironmentStep, UntouchedKeepsInv DEF Inv
<1>6. CASE UNCHANGED vars
  BY <1>6 DEF vars, Inv, TypeOK, SeedsDerivePda, OfferCovered, IsOpen, Holds
<1> QED
  BY <1>1, <1>2, <1>3, <1>4, <1>5, <1>6 DEF Next

\* TypeOK, SeedsDerivePda and OfferCovered hold in every reachable state.
THEOREM InvAlways == Spec => []Inv
BY InvInit, NextKeepsInv, PTL DEF Spec

\* Every reachable state is well formed, whatever accounts callers pass.
THEOREM TypesAreKept == Spec => []TypeOK
<1>1. Inv => TypeOK
  BY DEF Inv
<1> QED
  BY <1>1, InvAlways, PTL

\* The seeds that Take, Withdraw and Cancel sign with, read from the record
\* or from the caller, always derive the escrow PDA whose tokens they move.
THEOREM SeedsAlwaysDerivePda == Spec => []SeedsDerivePda
<1>1. Inv => SeedsDerivePda
  BY DEF Inv
<1> QED
  BY <1>1, InvAlways, PTL

\* Every open offer is covered by the offered X or by the price in Y, for any
\* number of offers, takers and token accounts.
THEOREM OffersAreCovered == Spec => []OfferCovered
<1>1. Inv => OfferCovered
  BY DEF Inv
<1> QED
  BY <1>1, InvAlways, PTL

(***************************************************************************)
(* The action properties follow from the same invariant.                   *)
(***************************************************************************)
LEMMA ClosingPays ==
    ASSUME Inv, [Next]_vars, NEW e \in Escrows, IsOpen(e), ~IsOpen(e)'
    PROVE  PaysMaker(e)
<1>1. offer \in [Escrows -> Offer \cup {NoOffer}]
  BY DEF Inv, TypeOK
<1>2. offer'[e] # offer[e]
  BY DEF IsOpen
<1>3. CASE Make
  <2>1. PICK maker \in Makers, id \in Ids, mx \in Mints, my \in Mints,
             ax \in Amounts, ay \in Amounts : EscrowTokMake(maker, id, mx, my, ax, ay)
    BY <1>3 DEF Make
  <2>2. offer'[e] = offer[e]
    BY <1>1, <2>1 DEF EscrowTokMake, CanCreateEscrow
  <2> QED
    BY <1>2, <2>2
<1>4. CASE Take
  BY <1>2, <1>4 DEF Take, EscrowTokTake
<1>5. CASE Withdraw
  <2>1. PICK u \in Users, d \in Escrows, mx \in Mints, my \in Mints :
               EscrowTokWithdraw(u, d, mx, my)
    BY <1>5 DEF Withdraw
  <2>2. d = e
    BY <1>1, <1>2, <2>1 DEF EscrowTokWithdraw, CloseEscrow
  <2> QED
    BY <2>1, <2>2, WithdrawStep DEF Inv, PaysMaker
<1>6. CASE Cancel
  <2>1. PICK u \in Users, d \in Escrows, mx \in Mints, my \in Mints :
               EscrowTokCancel(u, d, mx, my)
    BY <1>6 DEF Cancel
  <2>2. d = e
    BY <1>1, <1>2, <2>1 DEF EscrowTokCancel, CloseEscrow
  <2> QED
    BY <2>1, <2>2, CancelStep DEF Inv, PaysMaker
<1>7. CASE Environment
  BY <1>2, <1>7, EnvironmentStep DEF Inv
<1>8. CASE UNCHANGED vars
  BY <1>2, <1>8 DEF vars
<1> QED
  BY <1>3, <1>4, <1>5, <1>6, <1>7, <1>8 DEF Next

\* An offer ends, by Withdraw or by Cancel, only in a step that pays its maker
\* the offered X or the whole price.
THEOREM MakersAreMadeWhole == Spec => MakerMadeWhole
<1>1. Inv /\ [Next]_vars =>
        [\A e \in Escrows : IsOpen(e) /\ ~IsOpen(e)' => PaysMaker(e)]_vars
  BY ClosingPays
<1> QED
  BY <1>1, InvAlways, PTL DEF Spec, MakerMadeWhole

\* Nothing leaves accounts that are untouched.
LEMMA UntouchedAtTerms ==
    ASSUME TypeOK, TypeOK', NEW e \in Escrows, Untouched(e), offer'[e] = offer[e]
    PROVE  AtTerms(e)
<1>1. \A a \in Acct : bal[a] \in Nat /\ bal'[a] \in Nat
  BY DEF TypeOK
<1> QED
  BY <1>1 DEF AtTerms, Untouched

\* A step that leaves offer e open takes nothing from its PDA but at its terms.
LEMMA OpenOffersTradeAtTerms ==
    ASSUME Inv, [Next]_vars, NEW e \in Escrows, IsOpen(e), IsOpen(e)'
    PROVE  AtTerms(e)
<1>1. offer \in [Escrows -> Offer \cup {NoOffer}] /\ TypeOK /\ TypeOK'
  BY NextKeepsInv DEF Inv, TypeOK
<1>2. CASE Make
  <2>1. PICK maker \in Makers, id \in Ids, mx \in Mints, my \in Mints,
             ax \in Amounts, ay \in Amounts : EscrowTokMake(maker, id, mx, my, ax, ay)
    BY <1>2 DEF Make
  <2>2. offer'[e] = offer[e]
    BY <1>1, <2>1 DEF EscrowTokMake, CanCreateEscrow
  <2>3. Untouched(e)
    BY <1>1, <2>1, MakeStep, MakersAreUsers, OwnersDiffer DEF Holders
  <2> QED
    BY <1>1, <2>2, <2>3, UntouchedAtTerms
<1>3. CASE Take
  <2>1. PICK taker \in Users, d \in Escrows, mx \in Mints, my \in Mints,
             ax \in Amounts, ay \in Amounts, id \in Ids :
               EscrowTokTake(taker, d, mx, my, ax, ay, id)
    BY <1>3 DEF Take
  <2>2. offer' = offer
    BY <2>1 DEF EscrowTokTake
  <2>3. CASE d = e
    BY <1>1, <2>1, <2>2, <2>3, TakeStep DEF AtTerms
  <2>4. CASE d # e
    BY <1>1, <2>1, <2>2, <2>4, TakeStep, UntouchedAtTerms, OwnersDiffer DEF Holders
  <2> QED
    BY <2>3, <2>4
<1>4. CASE Withdraw
  <2>1. PICK u \in Users, d \in Escrows, mx \in Mints, my \in Mints :
               EscrowTokWithdraw(u, d, mx, my)
    BY <1>4 DEF Withdraw
  <2>2. d # e /\ offer'[e] = offer[e]
    BY <1>1, <2>1 DEF EscrowTokWithdraw, CloseEscrow, IsOpen
  <2>3. Untouched(e)
    BY <2>1, <2>2, WithdrawStep, OwnersDiffer DEF Inv, Holders
  <2> QED
    BY <1>1, <2>2, <2>3, UntouchedAtTerms
<1>5. CASE Cancel
  <2>1. PICK u \in Users, d \in Escrows, mx \in Mints, my \in Mints :
               EscrowTokCancel(u, d, mx, my)
    BY <1>5 DEF Cancel
  <2>2. d # e /\ offer'[e] = offer[e]
    BY <1>1, <2>1 DEF EscrowTokCancel, CloseEscrow, IsOpen
  <2>3. Untouched(e)
    BY <2>1, <2>2, CancelStep, OwnersDiffer DEF Inv, Holders
  <2> QED
    BY <1>1, <2>2, <2>3, UntouchedAtTerms
<1>6. CASE Environment
  BY <1>1, <1>6, EnvironmentStep, UntouchedAtTerms
<1>7. CASE UNCHANGED vars
  <2>1. Untouched(e) /\ offer'[e] = offer[e]
    BY <1>1, <1>7 DEF vars, Untouched, TypeOK
  <2> QED
    BY <1>1, <2>1, UntouchedAtTerms
<1> QED
  BY <1>2, <1>3, <1>4, <1>5, <1>6, <1>7 DEF Next

\* While an offer is open its terms stand, and nothing leaves its PDA's
\* accounts but amount_x of X against amount_y of Y.
THEOREM TradesAreAtTerms == Spec => TradeAtTerms
<1>1. Inv /\ [Next]_vars =>
        [\A e \in Escrows : IsOpen(e) /\ IsOpen(e)' => AtTerms(e)]_vars
  BY OpenOffersTradeAtTerms
<1> QED
  BY <1>1, InvAlways, PTL DEF Spec, TradeAtTerms

(***************************************************************************)
(* The maker's two ways out.                                               *)
(***************************************************************************)
\* Where an account of the PDA holds exactly the price, Withdraw succeeds,
\* whatever its X account holds and whichever accounts the maker passes.
LEMMA ExactPriceWithdraws ==
    ASSUME TypeOK, SeedsDerivePda, NEW e \in Escrows, IsOpen(e),
           NEW makerX \in Acct, makerX.owner = offer[e].maker,
           NEW makerY \in Acct, makerY.owner = offer[e].maker,
           NEW escX \in Existing(e, offer[e].mint_x),
           NEW escY \in Existing(e, offer[e].mint_y),
           bal[escY] = offer[e].amount_y
    PROVE  WithdrawOk(e, makerX, makerY, escX, escY)
<1> DEFINE ay == offer[e].amount_y
           paid == Transferred(bal, escY, makerY, ay)
           after == WithdrawPays(e, makerX, makerY, escX, escY)
<1>1. offer[e] \in Offer /\ ay \in Nat /\ offer[e].maker \in Users
  BY MakersAreUsers DEF TypeOK, IsOpen, Offer
<1>2. /\ escX \in Acct /\ escX \in live /\ escX.owner = e
      /\ escY \in Acct /\ escY \in live /\ escY.owner = e
      /\ escX # escY
  BY DEF TypeOK, Existing, CheckAta, SeedsDerivePda
<1>3. makerX # escX /\ makerX # escY /\ makerY # escX /\ makerY # escY
  BY <1>1, <1>2, OwnersDiffer
<1>4. /\ paid \in [Acct -> Nat] /\ paid[escY] = 0
  <2>1. bal \in [Acct -> Nat] /\ bal[escY] >= ay /\ bal[escY] - ay = 0
    BY <1>1 DEF TypeOK
  <2> HIDE DEF ay
  <2> QED
    BY <1>1, <1>2, <1>3, <2>1, TransferredFacts
<1>5. after[escX] = 0 /\ after[escY] = 0
  <2>1. after = Swept(paid, escX, makerX)
    BY DEF WithdrawPays
  <2> HIDE DEF after, paid
  <2> QED
    BY <1>2, <1>3, <1>4, <2>1, SweptFacts
<1>6. bal[escY] >= ay
  BY <1>1
<1> QED
  BY <1>2, <1>5, <1>6 DEF WithdrawOk, CanCloseAccount

\* Where the X account holds exactly the offered X and the account named for
\* Y less than the price, or is not there, Cancel succeeds.
LEMMA ExactOfferCancels ==
    ASSUME TypeOK, SeedsDerivePda, NEW e \in Escrows, IsOpen(e),
           NEW makerX \in Acct, makerX = Ata(offer[e].maker, offer[e].mint_x),
           NEW makerY \in Acct, makerY = Ata(offer[e].maker, offer[e].mint_y),
           NEW escX \in Existing(e, offer[e].mint_x), bal[escX] = offer[e].amount_x,
           NEW escY \in Acct, escY = Ata(e, offer[e].mint_y), bal[escY] < offer[e].amount_y
    PROVE  CancelOk(e, offer[e].mint_x, offer[e].mint_y, makerX, makerY, escX, escY)
<1> DEFINE ax == offer[e].amount_x
           found == CancelFound(e, makerX, makerY, escX, escY)
           returned == Returned(e, makerX, escX)
           after == CancelPays(e, makerX, makerY, escX, escY)
<1>1. /\ offer[e] \in Offer /\ ax \in Nat /\ offer[e].amount_y \in Nat
      /\ offer[e].maker \in Users /\ offer[e].mint_x # offer[e].mint_y
      /\ bal \in [Acct -> Nat]
  BY MakersAreUsers DEF TypeOK, IsOpen, Offer, SeedsDerivePda
<1>2. /\ escX \in Acct /\ escX \in live /\ escX.owner = e /\ escX.mint = offer[e].mint_x
      /\ escY.owner = e /\ escY.mint = offer[e].mint_y /\ escX # escY
  BY <1>1 DEF TypeOK, Existing, CheckAta, Ata
<1>3. /\ makerX.owner = offer[e].maker /\ makerX.mint = offer[e].mint_x
      /\ makerY.owner = offer[e].maker /\ makerY.mint = offer[e].mint_y
  BY DEF Ata
<1>4. /\ makerX # escX /\ makerX # escY /\ makerY # escX /\ makerY # escY
      /\ makerX # makerY
  BY <1>1, <1>2, <1>3, OwnersDiffer
<1>5. /\ returned \in [Acct -> Nat] /\ returned[escX] = 0 /\ returned[escY] = bal[escY]
  <2>1. bal[escX] >= ax /\ bal[escX] - ax = 0
    BY <1>1
  <2>2. returned = Transferred(bal, escX, makerX, ax)
    BY DEF Returned
  <2> HIDE DEF ax, returned
  <2> QED
    BY <1>1, <1>2, <1>4, <2>1, <2>2, TransferredFacts
<1>6. live \subseteq found /\ makerX \in found
  BY DEF CancelFound
<1>7. ~PaymentArrived(e, escY)
  BY <1>1 DEF PaymentArrived
<1>8. CanTransfer(found, bal, escX, makerX, offer[e].mint_x, e, ax)
  BY <1>1, <1>2, <1>3, <1>6 DEF CanTransfer
<1>9. CASE escY \in live
  <2>1. returned[escY] > 0 =>
          CanTransfer(found, returned, escY, makerY, offer[e].mint_y, e, returned[escY])
    <3> SUFFICES ASSUME returned[escY] > 0
                 PROVE  CanTransfer(found, returned, escY, makerY, offer[e].mint_y, e,
                                    returned[escY])
      OBVIOUS
    <3>1. makerY \in found
      BY <1>9 DEF CancelFound
    <3>2. returned[escY] \in Nat
      BY <1>5
    <3> QED
      BY <1>2, <1>3, <1>6, <1>9, <3>1, <3>2 DEF CanTransfer
  <2>2. after[escY] = 0 /\ after[escX] = 0
    <3>1. after = Swept(returned, escY, makerY)
      BY <1>9 DEF CancelPays
    <3> HIDE DEF after, returned
    <3> QED
      BY <1>2, <1>4, <1>5, <3>1, SweptFacts
  <2> QED
    BY <1>2, <1>6, <1>7, <1>8, <1>9, <2>1, <2>2 DEF CancelOk, CanCloseAccount
<1>10. CASE escY \notin live
  <2>1. after = returned /\ escY \notin live \cup {makerX}
    BY <1>4, <1>10 DEF CancelPays
  <2> QED
    BY <1>2, <1>5, <1>6, <1>7, <1>8, <2>1 DEF CancelOk, CanCloseAccount
<1> QED
  BY <1>9, <1>10

\* With exact holdings the maker can withdraw or cancel.
LEMMA InvMakesClosable == Inv => ClosableWhenExact
<1> SUFFICES ASSUME Inv, NEW e \in Escrows, IsOpen(e), SomeConfig,
                    Ata(e, offer[e].mint_x) \in live,
                    \/ /\ bal[Ata(e, offer[e].mint_x)] = offer[e].amount_x
                       /\ bal[Ata(e, offer[e].mint_y)] <= offer[e].amount_y
                    \/ bal[Ata(e, offer[e].mint_y)] = offer[e].amount_y
             PROVE  MakerCanClose(e)
  BY DEF ClosableWhenExact
<1> DEFINE o == offer[e]
           makerX == Ata(o.maker, o.mint_x)
           makerY == Ata(o.maker, o.mint_y)
           escX == Ata(e, o.mint_x)
           escY == Ata(e, o.mint_y)
<1>1. /\ TypeOK /\ SeedsDerivePda /\ o \in Offer /\ o.maker \in Users
      /\ o.mint_x \in Mints /\ o.mint_y \in Mints
      /\ o.amount_y \in Nat \ {0} /\ EscrowPda(o.maker, o.id) = e
  BY MakersAreUsers DEF Inv, TypeOK, SeedsDerivePda, IsOpen, Offer
<1>2. OnlyMaker(o.maker, e, o.mint_x, o.mint_y)
  BY <1>1 DEF OnlyMaker, SeedsSignFor
<1>3. /\ makerX \in Acct /\ makerY \in Acct /\ escX \in Acct /\ escY \in Acct
      /\ makerX.owner = o.maker /\ makerY.owner = o.maker
  BY <1>1 DEF Acct, Holders, Ata
<1>4. escX \in Existing(e, o.mint_x)
  BY DEF Existing, CheckAta, Ata
<1>5. bal[escY] \in Nat
  BY <1>1, <1>3 DEF TypeOK
<1>6. CASE bal[escY] = o.amount_y
  <2>1. escY \in live
    BY <1>1, <1>3, <1>6 DEF TypeOK
  <2>2. escY \in Existing(e, o.mint_y)
    BY <2>1 DEF Existing, CheckAta, Ata
  <2>3. WithdrawOk(e, makerX, makerY, escX, escY)
    BY <1>1, <1>3, <1>4, <1>6, <2>2, ExactPriceWithdraws
  <2> QED
    BY <1>2, <2>3 DEF MakerCanClose
<1>7. CASE bal[escY] # o.amount_y
  <2>1. bal[escX] = o.amount_x /\ bal[escY] < o.amount_y
    BY <1>1, <1>5, <1>7
  <2>2. CancelOk(e, o.mint_x, o.mint_y, makerX, makerY, escX, escY)
    BY <1>1, <1>3, <1>4, <2>1, ExactOfferCancels
  <2> QED
    BY <1>2, <2>2 DEF MakerCanClose
<1> QED
  BY <1>6, <1>7

\* Between "paid" and "unpaid" there is no gap: with exact holdings the maker
\* can withdraw or cancel, in every reachable state (ClosableWhenExact).
THEOREM ExactOffersAreClosable == Spec => []ClosableWhenExact
BY InvMakesClosable, InvAlways, PTL
==============================================================================
