----------------------------- MODULE EscrowSwap ------------------------------
(***************************************************************************)
(* Escrow implements Swap: what a party owns, and what a pot holds, is the *)
(* total of its token accounts; the deal is what the escrow record says.   *)
(***************************************************************************)
EXTENDS Escrow, TokenTotals

\* Totals are of finitely many accounts.
ASSUME AccountsAreFinite == IsFiniteSet(Acct)

AccountsOf(o, m) == {a \in Acct : a.owner = o /\ a.mint = m}
Holding(o, m) == Total(bal, AccountsOf(o, m))

\* A deal that offers nothing is none.
NoDeal == [gives |-> 0]

Terms(o) == IF o = NoOffer THEN NoDeal
            ELSE [give |-> o.mint_x, want |-> o.mint_y,
                  gives |-> o.amount_x, wants |-> o.amount_y]

Purses == [u \in Users |-> [m \in Mints |-> Holding(u, m)]]
InPots == [e \in Escrows |-> [m \in Mints |-> Holding(e, m)]]
Deals  == [e \in Escrows |-> Terms(offer[e])]

S == INSTANCE Swap WITH
        Parties <- Users, Posters <- Makers, Numbers <- Ids, Kinds <- Mints,
        Start   <- Funds,
        purse   <- Purses, pot <- InPots, deal <- Deals

\* However accounts are chosen, created, closed and topped up, every
\* instruction is a posting, a settlement at the posted terms or an ending
\* that pays the poster, and nothing else moves tokens out of an escrow PDA.
ImplementsSwap == S!Spec
==============================================================================
