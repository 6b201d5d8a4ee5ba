-------------------------- MODULE TokenVaultCustody ---------------------------
(***************************************************************************)
(* TokenVault implements Custody: a user's purse is what the token         *)
(* accounts of his wallet hold together, his vault what those of his vault *)
(* PDA hold, and a till is a vault whose Config accepts the mint.          *)
(***************************************************************************)
EXTENDS TokenVault, TokenTotals

\* Totals are of finitely many accounts.
ASSUME AccountsAreFinite == IsFiniteSet(Acct)

\* What the accounts of these owners hold of mint m.
AccountsOf(owners, m) == {a \in Acct : a.owner \in owners /\ a.mint = m}
Held(owners, m) == Total(bal, AccountsOf(owners, m))

Purses == [u \in Users |-> [m \in Mints |-> Held({u}, m)]]
InVaults == [u \in Users |-> [m \in Mints |-> Held({VaultPda(u)}, m)]]
Elsewhere == [m \in Mints |-> Held(ConfigPdas \cup Escrows, m)]
Tills == {cm \in ProgOwners \times Mints : Accepts(cm[1], cm[2])}

Abstract == INSTANCE Custody WITH
    purse <- Purses, vault <- InVaults, kept <- Elsewhere, tills <- Tills

\* Whatever token accounts are created, named or closed on the way, tokens
\* are never lost or doubled, nobody but its user takes from a vault that is
\* no till at that moment, and making a vault, paying, or a Config of another
\* owner opens no till (TokLgcDeposit, TokLgcWithdraw, TokLgcPay, TokLgcRedeem).
ImplementsCustody == Abstract!Spec
==============================================================================
