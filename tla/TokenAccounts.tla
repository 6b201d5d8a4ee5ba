---------------------------- MODULE TokenAccounts ----------------------------
(***************************************************************************)
(* SPL token accounts as the program's instructions see them.              *)
(*                                                                         *)
(* A token account's address is a record: the wallet or PDA that owns it,  *)
(* its mint, and a slot.  Slot 0 is the associated token account (ATA),    *)
(* whose address is derived from owner and mint; other slots are accounts  *)
(* opened at a keypair address.  Two pieces of state describe them all:    *)
(*   live  the addresses that hold an initialised account (data_len > 0),  *)
(*   bal   the amount each address holds, 0 where no account is.           *)
(* The operators are pure: the modules that own live and bal pass them in. *)
(* Mints are initialised legacy mints with fixed decimals, so the checks   *)
(* on mint length, owner, rent and decimals always pass and are left out.  *)
(***************************************************************************)
EXTENDS Naturals

\* The associated token account of owner o for mint m.
Ata(o, m) == [owner |-> o, mint |-> m, slot |-> 0]

\* Mutant: the account's owner is not compared.
CheckAtaAnyOwner(live, a, o, m) == a \in live /\ a.mint = m

\* check_ata and check_ata_escrow: the account exists and names this owner
\* and this mint.  The address itself is not compared with the derived one.
CheckAta(live, a, o, m) == a \in live /\ a.owner = o /\ a.mint = m

\* The handlers' "if ata.is_data_empty() {Create} else {check_ata}": the ATA
\* program creates an account at the derived address only.
FindOrCreateAta(live, a, o, m) ==
    \/ a \notin live /\ a = Ata(o, m)
    \/ CheckAta(live, a, o, m)

\* The token program's TransferChecked of n tokens of mint m, when the
\* authority owns the source account: both accounts exist, hold that mint,
\* and the source holds enough.
CanTransfer(live, bal, from, to, m, authority, n) ==
    /\ from \in live /\ to \in live
    /\ from.owner = authority
    /\ from.mint = m /\ to.mint = m
    /\ bal[from] >= n

\* Its effect; sending to the source account itself changes nothing.
Transferred(bal, from, to, n) ==
    IF from = to THEN bal ELSE [bal EXCEPT ![from] = @ - n, ![to] = @ + n]

\* The token program's CloseAccount: only by the owner, only when empty.
CanCloseAccount(live, bal, a, authority) ==
    a \in live /\ a.owner = authority /\ bal[a] = 0
==============================================================================
