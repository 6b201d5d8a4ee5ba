------------------------------ MODULE SolVault -------------------------------
(***************************************************************************)
(* The SOL vaults: instructions 0 DepositSol and 1 WithdrawSol, and the    *)
(* creation of a vault that DepositSol shares with TokLgcDeposit.          *)
(*                                                                         *)
(* A vault is the PDA of ("vault", user), owned by the program, with       *)
(* VAULT_SIZE bytes that nobody reads: all its state is its lamports, of   *)
(* which VaultMin must stay for rent.  Any program-owned account passes    *)
(* for the vault of a deposit; a withdrawal takes the user's own.          *)
(*                                                                         *)
(* Other instructions create, credit and close the program's other PDAs,   *)
(* and anybody sends lamports anywhere: these are the environment here.    *)
(* The runtime's own rule against leaving an account below its rent        *)
(* minimum is not used: what holds, holds by the program's checks alone.   *)
(***************************************************************************)
EXTENDS Naturals

CONSTANTS
    Users,     \* wallets, each with a signing key
    Pdas,      \* addresses of the program's other accounts
    VaultMin,  \* rent minimum of an account of VAULT_SIZE bytes
    PdaMin,    \* rent minimum of the program's other accounts
    Amounts,   \* lamports that an instruction may name
    Purse      \* lamports of each wallet at the start

\* derive_pda1(user, VAULT_SEED)
VaultPda(u) == <<"vault", u>>
Vaults == {VaultPda(u) : u \in Users}
Address == Users \cup Vaults \cup Pdas

\* PDAs are off the curve, and differ when their seeds do.
ASSUME VaultsAreNotWallets == Users \cap Vaults = {}
ASSUME PdasAreOthers == Pdas \cap (Users \cup Vaults) = {}
ASSUME MinimaArePositive == VaultMin \in Nat \ {0} /\ PdaMin \in Nat \ {0}
ASSUME AmountsAreNat == Amounts \subseteq Nat
ASSUME PurseIsNat == Purse \in [Users -> Nat]

VARIABLES
    lam,    \* lamports of each address
    owned,  \* addresses whose account the program owns
    due     \* what each user has deposited into his vault and not withdrawn

vars == <<lam, owned, due>>

Init ==
    /\ lam = [a \in Address |-> IF a \in Users THEN Purse[a] ELSE 0]
    /\ owned = {}
    /\ due = [u \in Users |-> 0]

\* The system program's Transfer, and what a program may do with an account
\* of its own: n lamports go from one address to another.
Moved(l, from, to, n) ==
    IF from = to THEN l ELSE [l EXCEPT ![from] = @ - n, ![to] = @ + n]

\* CreateAccount pays the new account's rent minimum; it fails on an address
\* that holds lamports already, whoever sent them.
CanCreate(l, payer, a, min) == l[a] = 0 /\ l[payer] >= min

\* check_pda
IsPda(a) == lam[a] > 0 /\ a \in owned

(***************************************************************************)
(* 0 DepositSol                                                            *)
(***************************************************************************)
\* Mutant: an account is created for the vault at any address.
AnyVaultEnsured(u, v) == CanCreate(lam, u, v, VaultMin) \/ IsPda(v)

\* Mutant: the new vault's rent minimum is not paid on top of the deposit.
AfterEnsureUnpaid(u, v) == lam

\* ensure_deposit_accounts: the lamports after it, when it succeeds.
VaultEnsured(u, v) ==
    \/ v = VaultPda(u) /\ CanCreate(lam, u, v, VaultMin)
    \/ IsPda(v)

AfterEnsure(u, v) == IF lam[v] = 0 THEN Moved(lam, u, v, VaultMin) ELSE lam

CanDeposit(u, v, n) ==
    /\ n > 0
    /\ lam[u] >= n
    /\ VaultEnsured(u, v)
    /\ AfterEnsure(u, v)[u] >= n

DepositSol(u, v, n) ==
    /\ CanDeposit(u, v, n)
    /\ lam' = Moved(AfterEnsure(u, v), u, v, n)
    /\ owned' = owned \cup {v}
    /\ due' = IF v = VaultPda(u) THEN [due EXCEPT ![u] = @ + n] ELSE due

(***************************************************************************)
(* 1 WithdrawSol                                                           *)
(***************************************************************************)
\* Mutants: the vault's balance is not looked at; any user's vault is taken;
\* the amount is counted twice against the rent minimum.
CanOverdraw(u, v, n) == IsPda(v) /\ n > 0 /\ v = VaultPda(u)
CanWithdrawAny(u, v, n) == IsPda(v) /\ n > 0 /\ lam[v] > VaultMin + n
CanWithdrawHalf(u, v, n) ==
    IsPda(v) /\ n > 0 /\ v = VaultPda(u) /\ lam[v] > VaultMin + n + n

CanWithdraw(u, v, n) ==
    /\ IsPda(v)
    /\ n > 0
    /\ v = VaultPda(u)
    /\ lam[v] >= VaultMin
    /\ lam[v] >= n
    /\ lam[v] > VaultMin + n

WithdrawSol(u, v, n) ==
    /\ CanWithdraw(u, v, n)
    /\ lam' = Moved(lam, v, u, n)
    /\ due' = [due EXCEPT ![u] = IF @ > n THEN @ - n ELSE 0]
    /\ UNCHANGED owned

(***************************************************************************)
(* 5 TokLgcDeposit creates the user's vault when nothing is at its address *)
(***************************************************************************)
MakeToWallet(u) ==
    /\ CanCreate(lam, u, VaultPda(u), VaultMin)
    /\ lam' = Moved(lam, u, VaultPda(u), VaultMin)
    /\ owned' = owned \cup {VaultPda(u)}
    /\ UNCHANGED due

(***************************************************************************)
(* The environment                                                         *)
(***************************************************************************)
\* A wallet sends lamports to any address.
SendLamports(u, a, n) ==
    /\ n > 0 /\ lam[u] >= n /\ a # u
    /\ lam' = Moved(lam, u, a, n)
    /\ UNCHANGED <<owned, due>>

\* An instruction creates one of the program's other accounts.
CreatePda(u, p) ==
    /\ CanCreate(lam, u, p, PdaMin)
    /\ lam' = Moved(lam, u, p, PdaMin)
    /\ owned' = owned \cup {p}
    /\ UNCHANGED due

\* And closes it: all its lamports go to another address, any address.
ClosePda(p, dest) ==
    /\ p \in owned /\ dest # p
    /\ lam' = Moved(lam, p, dest, lam[p])
    /\ owned' = owned \ {p}
    /\ UNCHANGED due

(***************************************************************************)
(* The specification                                                       *)
(***************************************************************************)
\* What a transaction signed by u does to vaults, and with the system program.
VaultSteps(u) ==
    \/ \E v \in Address, n \in Amounts : DepositSol(u, v, n) \/ WithdrawSol(u, v, n)
    \/ MakeToWallet(u)

Sending(u) == \E a \in Address, n \in Amounts : SendLamports(u, a, n)

OtherPdas ==
    \/ \E u \in Users, p \in Pdas : CreatePda(u, p)
    \/ \E p \in Pdas, dest \in Address : ClosePda(p, dest)

Next == (\E u \in Users : VaultSteps(u) \/ Sending(u)) \/ OtherPdas

Spec == Init /\ [][Next]_vars

(***************************************************************************)
(* Properties                                                              *)
(***************************************************************************)
\* Types; wallets are never the program's.
VaultTypeOK ==
    /\ lam \in [Address -> Nat]
    /\ owned \subseteq Vaults \cup Pdas
    /\ due \in [Users -> Nat]

\* What a user put into his vault and has not taken out is there, above the
\* rent minimum, whatever others deposit, send, create or close; and nothing
\* is owed where no vault is (DepositSol, WithdrawSol).
VaultCoversDeposits ==
    \A u \in Users :
        IF VaultPda(u) \in owned
        THEN lam[VaultPda(u)] >= VaultMin + due[u]
        ELSE due[u] = 0

\* All of it but the last lamport can be withdrawn at once: the check on the
\* rent minimum is strict (WithdrawSol).
DueIsWithdrawable ==
    \A u \in Users : due[u] > 1 => CanWithdraw(u, VaultPda(u), due[u] - 1)

\* Lamports leave a vault only into its own user's wallet, every one of them
\* in the same step (WithdrawSol).
PaysOwner(u) ==
    lam'[VaultPda(u)] < lam[VaultPda(u)] =>
        /\ VaultPda(u) \in owned'
        /\ lam'[VaultPda(u)] + lam'[u] = lam[VaultPda(u)] + lam[u]

OnlyOwnerIsPaid == [][\A u \in Users : PaysOwner(u)]_vars

\* WithdrawSol leaves "the rent minimum in place": whatever a vault holds
\* above it can be withdrawn.
SurplusIsWithdrawable ==
    \A u \in Users :
        LET v == VaultPda(u)
        IN  v \in owned /\ lam[v] > VaultMin => CanWithdraw(u, v, lam[v] - VaultMin)

\* DepositSol ensures that the vault exists and creates it if it does not: a
\* user with enough lamports can deposit into his own vault.
DepositEnsuresVault ==
    \A u \in Users : lam[u] > VaultMin => CanDeposit(u, VaultPda(u), 1)
==============================================================================
