---------------------------- MODULE EscrowRecovery ----------------------------
(***************************************************************************)
(* Liveness of the escrow: can a maker get out of his offer?               *)
(*                                                                         *)
(* For a while everybody acts as in Escrow.  From some moment on, `calm`,  *)
(* nobody trades, sends tokens or closes a Config any more; accounts may   *)
(* still be opened, addresses be sent lamports and Configs be made.  A     *)
(* maker who wants out then goes through the steps that the handlers leave *)
(* him: he withdraws or cancels if some accounts allow it; otherwise he    *)
(* has a Config made if there is none, and brings an account of the PDA to *)
(* exactly the price, because Withdraw closes the account it pays from.    *)
(***************************************************************************)
EXTENDS Escrow

VARIABLE calm

recoveryVars == <<live, bal, offer, prefunded, configs, calm>>

RecoveryInit == Init /\ calm = FALSE

Bustle == ~calm /\ Next /\ calm' = calm

CalmDown == ~calm /\ calm' = TRUE /\ UNCHANGED vars

Harmless ==
    /\ calm /\ calm' = calm
    /\ \/ \E a \in Acct : OpenTokenAccount(a)
       \/ \E e \in Escrows : PrefundEscrow(e)
       \/ \E c \in ConfigOwners : InitConfig(c)

(***************************************************************************)
(* The maker's steps out.                                                  *)
(***************************************************************************)
\* 17 or 18, with any accounts that the handler takes.
CloseOffer(e) ==
    \E mx, my \in Mints : \/ EscrowTokWithdraw(offer[e].maker, e, mx, my)
                          \/ EscrowTokCancel(offer[e].maker, e, mx, my)

HaveConfig == ~SomeConfig /\ \E c \in ConfigOwners : InitConfig(c)

PriceAccounts(e) == {a \in Acct : a.owner = e /\ a.mint = offer[e].mint_y}

\* No account of the PDA is at the price, but one is below it.
HasRoom(e) ==
    /\ \A a \in PriceAccounts(e) \cap live : bal[a] # offer[e].amount_y
    /\ \E a \in PriceAccounts(e) : bal[a] < offer[e].amount_y

OpenRoom(e) ==
    /\ HasRoom(e)
    /\ \A a \in PriceAccounts(e) \cap live : bal[a] >= offer[e].amount_y
    /\ \E a \in PriceAccounts(e) : OpenTokenAccount(a)

FillRoom(e) ==
    /\ HasRoom(e)
    /\ \E from, to \in live :
          /\ from.owner = offer[e].maker
          /\ to \in PriceAccounts(e) /\ bal[to] < offer[e].amount_y
          /\ SendTokens(from, to, offer[e].amount_y - bal[to])

MakerPersists(e) ==
    /\ calm /\ IsOpen(e) /\ calm' = calm
    /\ CloseOffer(e) \/ HaveConfig \/ OpenRoom(e) \/ FillRoom(e)

RecoveryNext ==
    \/ Bustle \/ CalmDown \/ Harmless
    \/ \E e \in Escrows : MakerPersists(e)

\* The maker's client sends again until it is done; nobody else need act.
RecoverySpec ==
    /\ RecoveryInit /\ [][RecoveryNext]_recoveryVars
    /\ \A e \in Escrows : WF_recoveryVars(MakerPersists(e))

(***************************************************************************)
(* Properties                                                              *)
(***************************************************************************)
AtPrice(e) == \E a \in PriceAccounts(e) \cap live : bal[a] = offer[e].amount_y

\* The maker can raise the price himself, and has an address for it that is
\* not yet above it (beyond the bounded set Acct there always is one).
CanRaise(e) ==
    /\ \E a \in PriceAccounts(e) : bal[a] < offer[e].amount_y
    /\ \E a \in live : /\ a.owner = offer[e].maker /\ a.mint = offer[e].mint_y
                       /\ bal[a] >= offer[e].amount_y

\* Whatever was sent to the PDA's accounts and however often the offer was
\* taken, surplus X and Y included, a maker who persists closes his offer if
\* the price was paid into an account by itself, or if he holds the price:
\* he pays himself, and Withdraw sweeps all X (EscrowTokWithdraw).
MakerGetsOut ==
    \A e \in Escrows :
        calm /\ IsOpen(e) /\ (AtPrice(e) \/ CanRaise(e)) ~> ~IsOpen(e)
==============================================================================
