---------------------------- MODULE ProgramProofs -----------------------------
(***************************************************************************)
(* Theorems about Program: what is proved of the escrow and of the token   *)
(* vaults alone holds of the two together, and a step takes tokens from    *)
(* one PDA at most, by its own rule.                                       *)
(*                                                                         *)
(* The step lemmas of the components are cited, not repeated: each says    *)
(* what an instruction does to the accounts of everybody, so that the      *)
(* other component's promises are seen to survive it.                      *)
(***************************************************************************)
EXTENDS Program, TLAPS

(***************************************************************************)
(* The components' names and assumptions.                                  *)
(***************************************************************************)
\* Both components have the same owners and the same token accounts.
LEMMA SameAccounts ==
    /\ E!Escrows = Escrows
    /\ E!Holders = V!Holders
    /\ E!Acct = V!Acct
<1>1. E!Escrows = Escrows
  BY DEF E!Escrows, E!EscrowPda, Escrows
<1>2. E!Holders = V!Holders
  BY <1>1 DEF E!Holders, V!Holders, V!Pdas, Parties
<1>3. E!Acct = V!Acct
  BY <1>2 DEF E!Acct, V!Acct, E!Ata, V!Ata
<1> QED
  BY <1>1, <1>2, <1>3

\* What TokenVault assumes holds of its instance (whose own IsFiniteSet says the
\* same of the same set).
LEMMA VaultsApply ==
    /\ ProgOwners \subseteq Users
    /\ Users \cap V!Pdas = {}
    /\ Escrows \cap (V!Vaults \cup V!ConfigPdas) = {}
    /\ Extra \subseteq [owner : V!Holders, mint : Mints, slot : Nat \ {0}]
    /\ Opened \subseteq V!Acct
    /\ V!IsFiniteSet(V!Acct)
    /\ Amounts \subseteq Nat
    /\ Funds \in [Users -> [Mints -> Nat]]
    /\ NoConfig \notin V!Record
BY OwnersAreUsers, PdasAreNotWallets, EscrowsAreOthers, ExtraAccounts,
   OpenedAreAccounts, AccountsAreFinite, AmountsAreNat, FundsAreNat, NoneIsSome
   DEF IsFiniteSet, V!IsFiniteSet

\* What Escrow assumes holds of its instance.
LEMMA EscrowApplies ==
    /\ Makers \subseteq Parties
    /\ Parties \cap E!Escrows = {}
    /\ Extra \subseteq [owner : E!Holders, mint : Mints, slot : Nat \ {0}]
    /\ Amounts \subseteq Nat
    /\ PartyFunds \in [Parties -> [Mints -> Nat]]
    /\ NoAccount \notin E!Acct
    /\ NoOffer \notin E!Offer
<1>1. Makers \subseteq Parties
  BY MakersAreUsers DEF Parties
<1>2. Parties \cap E!Escrows = {}
  BY SameAccounts, PdasAreNotWallets, EscrowsAreOthers DEF Parties, V!Pdas
<1>3. PartyFunds \in [Parties -> [Mints -> Nat]]
  BY FundsAreNat DEF PartyFunds
<1> QED
  BY <1>1, <1>2, <1>3, SameAccounts, ExtraAccounts, AmountsAreNat, NoneIsSome

\* Both components mean the same by accounts from which nothing is taken.
LEMMA SameUntouched == \A o : E!Untouched(o) <=> V!Untouched(o)
BY SameAccounts DEF E!Untouched, V!Untouched

\* Who is who: a wallet is no PDA, and escrows, vaults and Configs are PDAs.
LEMMA Addresses ==
    /\ \A u \in Users : u \notin V!Pdas /\ u \in V!Holders /\ u \in Parties
    /\ V!Pdas \subseteq V!Holders
    /\ Escrows \subseteq V!Pdas /\ V!Vaults \subseteq V!Pdas
    /\ Escrows \cap V!Vaults = {}
BY PdasAreNotWallets, EscrowsAreOthers DEF V!Holders, V!Pdas, Parties

(***************************************************************************)
(* The invariant: those of the components, and vaults are vaults.          *)
(***************************************************************************)
PInv == V!IInv /\ E!Inv /\ vaults \subseteq V!Vaults

\* Balances are numbers, before and after a step.
LEMMA Balances ==
    ASSUME PInv, PInv', NEW a \in V!Acct
    PROVE  bal[a] \in Nat /\ bal'[a] \in Nat
BY DEF PInv, V!IInv, V!TypeOK

\* A PDA from whose accounts nothing is taken loses nothing.
LEMMA UntouchedLosesNothing ==
    ASSUME PInv, PInv', NEW p, V!Untouched(p)
    PROVE  ~Loses(p)
<1> SUFFICES ASSUME NEW a \in live, a.owner = p PROVE ~(bal'[a] < bal[a])
  BY DEF Loses
<1>1. a \in V!Acct
  BY DEF PInv, V!IInv, V!TypeOK
<1> QED
  BY <1>1, Balances DEF V!Untouched

\* Init is the initial state of both.
LEMMA InitMakesPInv == Init => PInv
<1> SUFFICES ASSUME Init PROVE PInv
  OBVIOUS
<1>1. V!IInv
  BY VaultsApply, V!InitKeeps DEF V!InitKeeps, Init
<1>2. E!Init
  <2>1. ASSUME NEW a \in V!Acct
        PROVE  /\ a.owner \in Parties => PartyFunds[a.owner][a.mint] =
                     (IF a.owner \in Users THEN Funds[a.owner][a.mint] ELSE 0)
               /\ a.owner \in Users => a.owner \in Parties
    <3>1. a.mint \in Mints
      BY VaultsApply, V!AcctFields DEF V!AcctFields
    <3> QED
      BY <3>1 DEF PartyFunds, Parties
  <2>2. live = {a \in V!Acct : a.owner \in Users /\ a.slot = 0 /\ Funds[a.owner][a.mint] > 0}
    BY DEF Init, V!Init
  <2>3. live = {a \in E!Acct : a.owner \in Parties /\ a.slot = 0
                                 /\ PartyFunds[a.owner][a.mint] > 0}
    BY <2>1, <2>2, SameAccounts
  <2>4. bal = [a \in E!Acct |-> IF a \in live THEN PartyFunds[a.owner][a.mint] ELSE 0]
    <3>1. bal = [a \in V!Acct |-> IF a \in live THEN Funds[a.owner][a.mint] ELSE 0]
      BY DEF Init, V!Init
    <3>2. \A a \in V!Acct : a \in live => Funds[a.owner][a.mint] = PartyFunds[a.owner][a.mint]
      BY <2>1, <2>2
    <3> QED
      BY <3>1, <3>2, SameAccounts
  <2>5. {c \in ProgOwners : config[c] # NoConfig} = {}
    BY DEF Init, V!Init
  <2> QED
    BY <2>3, <2>4, <2>5, SameAccounts DEF Init, E!Init
<1>3. E!Inv
  BY <1>2, EscrowApplies, E!InvInit DEF E!InvInit
<1> QED
  BY <1>1, <1>3 DEF PInv, Init

(***************************************************************************)
(* The escrow's instructions.                                              *)
(***************************************************************************)
\* They are steps of Escrow, and take nothing from a PDA but from one escrow,
\* whose offer is open.
LEMMA EscrowSideSteps ==
    ASSUME PInv, EscrowSide
    PROVE  /\ E!Next
           /\ \E e \in Escrows :
                (\A p \in V!Pdas \ {e} : V!Untouched(p)) /\ (E!IsOpen(e) \/ V!Untouched(e))
<1> USE SameAccounts, Addresses
<1>1. E!TypeOK /\ E!SeedsDerivePda
  BY DEF PInv, E!Inv
<1>2. PICK u \in Users, mx \in Mints, my \in Mints :
         \/ \E id \in Ids, ax, ay \in Amounts :
               u \in Makers /\ E!EscrowTokMake(u, id, mx, my, ax, ay)
         \/ \E e \in Escrows, id \in Ids, ax, ay \in Amounts :
               E!EscrowTokTake(u, e, mx, my, ax, ay, id)
         \/ \E e \in Escrows :
               E!EscrowTokWithdraw(u, e, mx, my) \/ E!EscrowTokCancel(u, e, mx, my)
  BY DEF EscrowSide, Signed
<1>3. ASSUME NEW id \in Ids, NEW ax \in Amounts, NEW ay \in Amounts,
             u \in Makers, E!EscrowTokMake(u, id, mx, my, ax, ay)
      PROVE  E!Make /\ \A p \in V!Pdas : V!Untouched(p)
  <2>1. \A o \in E!Holders \ {u} : E!Untouched(o)
    BY <1>1, <1>3, EscrowApplies, E!MakeStep DEF E!MakeStep
  <2> QED
    BY <1>3, <2>1, SameUntouched DEF E!Make
<1>4. ASSUME NEW e \in Escrows, NEW id \in Ids, NEW ax \in Amounts, NEW ay \in Amounts,
             E!EscrowTokTake(u, e, mx, my, ax, ay, id)
      PROVE  E!Take /\ E!IsOpen(e) /\ \A p \in V!Pdas \ {e} : V!Untouched(p)
  <2>1. \A o \in E!Holders \ {u, e} : E!Untouched(o)
    BY <1>1, <1>4, EscrowApplies, E!TakeStep DEF E!TakeStep
  <2> QED
    BY <1>4, <2>1, SameUntouched DEF E!Take, E!EscrowTokTake
<1>5. ASSUME NEW e \in Escrows, E!EscrowTokWithdraw(u, e, mx, my)
      PROVE  E!Withdraw /\ E!IsOpen(e) /\ \A p \in V!Pdas \ {e} : V!Untouched(p)
  <2>1. \A o \in E!Holders \ {u, e} : E!Untouched(o)
    BY <1>1, <1>5, EscrowApplies, E!WithdrawStep DEF E!WithdrawStep
  <2> QED
    BY <1>5, <2>1, SameUntouched DEF E!Withdraw, E!EscrowTokWithdraw, E!OnlyMaker
<1>6. ASSUME NEW e \in Escrows, E!EscrowTokCancel(u, e, mx, my)
      PROVE  E!Cancel /\ E!IsOpen(e) /\ \A p \in V!Pdas \ {e} : V!Untouched(p)
  <2>1. \A o \in E!Holders \ {u, e} : E!Untouched(o)
    BY <1>1, <1>6, EscrowApplies, E!CancelStep DEF E!CancelStep
  <2>2. E!IsOpen(e)
    BY <1>6 DEF E!EscrowTokCancel, E!OnlyMaker
  <2> QED
    BY <1>6, <2>1, <2>2, SameUntouched DEF E!Cancel
<1>7. CASE \E id \in Ids, ax, ay \in Amounts :
               u \in Makers /\ E!EscrowTokMake(u, id, mx, my, ax, ay)
  <2>1. PICK id \in Ids, ax \in Amounts, ay \in Amounts :
               u \in Makers /\ E!EscrowTokMake(u, id, mx, my, ax, ay)
    BY <1>7
  <2>2. <<u, id>> \in Escrows
    BY <2>1 DEF Escrows
  <2>3. E!Make /\ \A p \in V!Pdas : V!Untouched(p)
    BY <1>3, <2>1
  <2> QED
    BY <2>2, <2>3 DEF E!Next
<1>8. CASE \E e \in Escrows, id \in Ids, ax, ay \in Amounts :
               E!EscrowTokTake(u, e, mx, my, ax, ay, id)
  BY <1>4, <1>8 DEF E!Next
<1>9. CASE \E e \in Escrows :
               E!EscrowTokWithdraw(u, e, mx, my) \/ E!EscrowTokCancel(u, e, mx, my)
  BY <1>5, <1>6, <1>9 DEF E!Next
<1> QED
  BY <1>2, <1>7, <1>8, <1>9

\* They keep the promises of the vaults: no vault loses anything, and what is
\* due, the Configs and the tills are as they were.
LEMMA EscrowSideKeepsPInv ==
    ASSUME PInv, EscrowSide
    PROVE  PInv'
<1>1. E!Inv'
  BY EscrowSideSteps, EscrowApplies, E!NextKeepsInv DEF E!NextKeepsInv, PInv
<1>2. UNCHANGED <<vaults, config, tilled, due>>
  BY DEF EscrowSide
<1>3. \A v \in V!Vaults : V!Untouched(v)
  BY EscrowSideSteps, Addresses
<1>4. V!TypeOK'
  BY <1>1, <1>2, SameAccounts
     DEF PInv, V!IInv, V!TypeOK, E!Inv, E!TypeOK, OpenOffers
<1>5. V!DueIsThere'
  <2> SUFFICES ASSUME NEW a \in V!Acct, due[a] > 0
               PROVE  /\ a.owner \in V!Vaults /\ <<a.owner, a.mint>> \notin tilled
                      /\ bal'[a] >= due[a]
    BY <1>2 DEF V!DueIsThere
  <2>1. a.owner \in V!Vaults /\ <<a.owner, a.mint>> \notin tilled /\ bal[a] >= due[a]
    BY DEF PInv, V!IInv, V!DueIsThere
  <2>2. bal'[a] >= bal[a]
    BY <1>3, <2>1 DEF V!Untouched
  <2>3. bal[a] \in Nat /\ bal'[a] \in Nat /\ due[a] \in Nat
    BY <1>4 DEF PInv, V!IInv, V!TypeOK
  <2> QED
    BY <2>1, <2>2, <2>3
<1>6. V!ConfigNames'
  BY <1>2 DEF PInv, V!IInv, V!ConfigNames, V!IsInit
<1> QED
  BY <1>1, <1>2, <1>4, <1>5, <1>6 DEF PInv, V!IInv

(***************************************************************************)
(* The vaults' instructions, the Configs and the wallets.                  *)
(***************************************************************************)
\* They are steps of TokenVault, and take nothing from a PDA but from one vault.
LEMMA VaultSideSteps ==
    ASSUME PInv, VaultSide
    PROVE  /\ V!Next
           /\ \/ \A p \in V!Pdas : V!Untouched(p)
              \/ \E v \in V!Vaults : \A p \in V!Pdas \ {v} : V!Untouched(p)
<1> USE Addresses
<1>1. V!IInv
  BY DEF PInv
<1>2. CASE V!Deposit
  <2>1. PICK u \in Users, w \in V!Pdas, m \in Mints, n \in Amounts : V!TokLgcDeposit(u, w, m, n)
    BY <1>2 DEF V!Deposit
  <2>2. \A o \in V!Holders \ {u} : V!Untouched(o)
    BY <1>1, <2>1, VaultsApply, V!DepositStep DEF V!DepositStep
  <2> QED
    BY <1>2, <2>2 DEF V!Next
<1>3. CASE V!Withdraw
  <2>1. PICK u \in Users, v \in V!Vaults, m \in Mints, n \in Amounts :
               V!TokLgcWithdraw(u, v, m, n)
    BY <1>3 DEF V!Withdraw
  <2>2. \A o \in V!Holders \ {v} : V!Untouched(o)
    BY <1>1, <2>1, VaultsApply, V!WithdrawStep DEF V!WithdrawStep
  <2> QED
    BY <1>3, <2>2 DEF V!Next
<1>4. CASE V!Pay
  <2>1. PICK u \in Users, c \in ProgOwners, v \in V!Vaults, m \in Mints, n \in Amounts :
               V!TokLgcPay(u, c, v, m, n)
    BY <1>4 DEF V!Pay
  <2>2. \A o \in V!Holders \ {u} : V!Untouched(o)
    BY <1>1, <2>1, VaultsApply, V!PayStep DEF V!PayStep
  <2> QED
    BY <1>4, <2>2 DEF V!Next
<1>5. CASE V!Redeem
  <2>1. PICK u \in Users, c \in ProgOwners, v \in V!Vaults, m \in Mints, n \in Amounts :
               V!TokLgcRedeem(u, c, v, m, n)
    BY <1>5 DEF V!Redeem
  <2>2. \A o \in V!Holders \ {v} : V!Untouched(o)
    BY <1>1, <2>1, VaultsApply, V!RedeemStep DEF V!RedeemStep
  <2> QED
    BY <1>5, <2>2 DEF V!Next
<1>6. CASE V!Accounts
  <2>1. UNCHANGED <<live, bal>>
    BY <1>1, <1>6, VaultsApply, V!AccountsStep DEF V!AccountsStep
  <2>2. \A p \in V!Pdas : V!Untouched(p)
    BY <1>1, <2>1 DEF V!Untouched, V!IInv, V!TypeOK
  <2> QED
    BY <1>6, <2>2 DEF V!Next
<1>7. CASE V!Wallets
  <2>1. \A p \in V!Pdas : V!Untouched(p)
    BY <1>1, <1>7, VaultsApply, V!WalletsStep DEF V!WalletsStep
  <2> QED
    BY <1>7, <2>1 DEF V!Next
<1>8. (ConfigSide \/ \E u \in Users : V!MakeVault(u)) => V!Accounts
  BY DEF ConfigSide, V!Accounts
<1> QED
  BY <1>2, <1>3, <1>4, <1>5, <1>6, <1>7, <1>8 DEF VaultSide

\* They keep the promises of the escrow: no escrow PDA loses anything, and
\* the offers are as they were.
LEMMA VaultSideKeepsPInv ==
    ASSUME PInv, VaultSide
    PROVE  PInv'
<1>1. V!IInv'
  BY VaultSideSteps, VaultsApply, V!StepKeeps DEF V!StepKeeps, PInv
<1>2. UNCHANGED offer /\ vaults' \subseteq V!Vaults
  BY DEF VaultSide, VaultMade, PInv
<1>3. E!TypeOK'
  BY <1>1, <1>2, SameAccounts DEF PInv, V!IInv, V!TypeOK, E!Inv, E!TypeOK
<1>4. \A e \in E!Escrows : E!Untouched(e)
  BY VaultSideSteps, Addresses, SameAccounts, SameUntouched
<1>5. E!Inv'
  BY <1>2, <1>3, <1>4, EscrowApplies, E!UntouchedKeepsInv DEF E!UntouchedKeepsInv, PInv
<1> QED
  BY <1>1, <1>2, <1>5 DEF PInv

(***************************************************************************)
(* Theorems                                                                *)
(***************************************************************************)
\* The invariants of the components hold together in every reachable state.
THEOREM PInvAlways == Spec => []PInv
<1>1. PInv /\ UNCHANGED vars => PInv'
  BY DEF vars, PInv, V!IInv, V!TypeOK, V!DueIsThere, V!ConfigNames, V!IsInit, OpenOffers,
         E!Inv, E!TypeOK, E!SeedsDerivePda, E!OfferCovered, E!IsOpen, E!Holds
<1>2. PInv /\ [Next]_vars => PInv'
  BY <1>1, EscrowSideKeepsPInv, VaultSideKeepsPInv DEF Next
<1> QED
  BY <1>2, InitMakesPInv, PTL DEF Spec

\* Every reachable state is well formed for both components.
THEOREM TypesAreKept == Spec => []TypeOK
<1>1. PInv => TypeOK
  BY DEF PInv, V!IInv, E!Inv, TypeOK
<1> QED
  BY <1>1, PInvAlways, PTL

\* Escrow, vaults and Configs keep their promises side by side: open offers
\* stay covered and closable, deposits withdrawable, tills redeemable.
THEOREM PromisesAreKept == Spec => []PromisesKept
<1>1. PInv => PromisesKept
  <2> SUFFICES ASSUME PInv PROVE PromisesKept
    OBVIOUS
  <2>1. E!OfferCovered
    BY DEF PInv, E!Inv
  <2>2. E!ClosableWhenExact
    BY EscrowApplies, E!InvMakesClosable DEF E!InvMakesClosable, PInv
  <2>3. V!DepositIsWithdrawable
    BY VaultsApply, V!InvMakesWithdrawable DEF V!InvMakesWithdrawable, PInv
  <2>4. V!PaidIsRedeemable
    BY VaultsApply, V!InvMakesRedeemable DEF V!InvMakesRedeemable, PInv
  <2> QED
    BY <2>1, <2>2, <2>3, <2>4 DEF PromisesKept
<1> QED
  BY <1>1, PInvAlways, PTL

\* The escrow's instructions take from at most one PDA, an escrow, and what
\* they take is a trade at its terms or the end of its offer.
LEMMA EscrowSidePays ==
    ASSUME PInv, EscrowSide, NEW p \in V!Pdas, Loses(p)
    PROVE  p \in Escrows /\ EscrowPays(p) /\ \A q \in V!Pdas \ {p} : ~Loses(q)
<1>1. PICK e \in Escrows :
        (\A q \in V!Pdas \ {e} : V!Untouched(q)) /\ (E!IsOpen(e) \/ V!Untouched(e))
  BY EscrowSideSteps
<1>2. \A q \in V!Pdas : V!Untouched(q) => ~Loses(q)
  BY EscrowSideKeepsPInv, UntouchedLosesNothing
<1>3. p = e /\ E!IsOpen(e)
  BY <1>1, <1>2
<1>4. CASE E!IsOpen(e)'
  <2>1. E!AtTerms(e)
    BY <1>3, <1>4, SameAccounts, EscrowSideSteps, EscrowApplies, E!OpenOffersTradeAtTerms
       DEF E!OpenOffersTradeAtTerms, PInv
  <2> QED
    BY <1>1, <1>2, <1>3, <1>4, <2>1 DEF EscrowPays
<1>5. CASE ~E!IsOpen(e)'
  <2>1. E!PaysMaker(e)
    BY <1>3, <1>5, SameAccounts, EscrowSideSteps, EscrowApplies, E!ClosingPays
       DEF E!ClosingPays, PInv
  <2> QED
    BY <1>1, <1>2, <1>3, <1>5, <2>1 DEF EscrowPays
<1> QED
  BY <1>4, <1>5

\* All others take from at most one PDA, a vault, for its own user or as a till.
LEMMA VaultSidePays ==
    ASSUME PInv, VaultSide, NEW p \in V!Pdas, Loses(p)
    PROVE  p \in V!Vaults /\ VaultPays(p) /\ \A q \in V!Pdas \ {p} : ~Loses(q)
<1>1. \A q \in V!Pdas : V!Untouched(q) => ~Loses(q)
  BY VaultSideKeepsPInv, UntouchedLosesNothing
<1>2. p \in V!Vaults /\ \A q \in V!Pdas \ {p} : ~Loses(q)
  BY <1>1, VaultSideSteps
<1>3. PICK a \in live : a.owner = p /\ bal'[a] < bal[a]
  BY DEF Loses
<1>4. a \in V!Acct
  BY DEF PInv, V!IInv, V!TypeOK
<1>5. V!Leaves(a)
  BY <1>4, VaultSideSteps, VaultsApply, V!StepKeeps DEF V!StepKeeps, PInv
<1>6. VaultPays(p)
  BY <1>2, <1>3, <1>4, <1>5 DEF V!Leaves, VaultPays
<1> QED
  BY <1>2, <1>6

\* Whatever the instruction, one PDA at most pays, an escrow with an open
\* offer or a vault, and by its own rule.
THEOREM OnlyOnePays == Spec => OnePaysByRight
<1> DEFINE Rule == \A p \in V!Pdas : Loses(p) =>
                      /\ \/ p \in Escrows /\ EscrowPays(p)
                         \/ p \in V!Vaults /\ VaultPays(p)
                      /\ \A q \in V!Pdas \ {p} : ~Loses(q)
<1>1. PInv /\ [Next]_vars => [Rule]_vars
  BY EscrowSidePays, VaultSidePays DEF Next
<1> QED
  BY <1>1, PInvAlways, PTL DEF Spec, OnePaysByRight
==============================================================================
