----------------------------- MODULE TokenVault -----------------------------
(***************************************************************************)
(* The token side of the vaults: instructions 5 TokLgcDeposit, 6           *)
(* TokLgcWithdraw, 7 TokLgcPay and 8 TokLgcRedeem.                         *)
(*                                                                         *)
(* A user's vault is the PDA of ("vault", user).  Token accounts that it   *)
(* owns hold what the user deposits and withdraws; those of the vault that *)
(* a Config names, the program owner's, hold what anybody pays in a mint   *)
(* that the Config accepts, and anybody redeems from it.  One account      *)
(* serves both uses: nothing tells an owner's deposit from a payment.      *)
(*                                                                         *)
(* As in Escrow, one action is one successful instruction, and in between  *)
(* anybody may act on the token and system programs directly, make vaults  *)
(* by DepositSol, and create and close Configs and escrows.  Lamports are  *)
(* told apart only as none or some.                                        *)
(***************************************************************************)
EXTENDS Naturals, TokenAccounts

CONSTANTS
    Users,         \* wallets, each with a signing key
    ProgOwners,    \* wallets for which a Config may be created
    Escrows,       \* addresses of escrow PDAs
    Mints,         \* legacy SPL mints
    Extra,         \* token accounts at addresses other than the derived one
    Opened,        \* token accounts that may be opened outside the program
    Amounts,       \* amounts that instruction data may carry
    Funds,         \* tokens each wallet starts with, per mint
    NoConfig       \* content of a Config PDA that does not exist

\* derive_pda1(user, VAULT_SEED) and derive_pda1(prog_owner, Config::SEED)
VaultPda(u) == <<"vault", u>>
ConfigPda(c) == <<"config", c>>
Vaults == {VaultPda(u) : u \in Users}
ConfigPdas == {ConfigPda(c) : c \in ProgOwners}
Pdas == Vaults \cup ConfigPdas \cup Escrows

Holders == Users \cup Pdas
Acct == {Ata(o, m) : o \in Holders, m \in Mints} \cup Extra

\* The fields of a Config that these instructions read.  Of the four mints
\* only membership is asked, and what is listed need not be a mint.
Record == [vault : Vaults, prog_owner : ProgOwners, mints : SUBSET Mints]

\* A PDA is off the curve, and two of them differ when their seeds do.
ASSUME OwnersAreUsers == ProgOwners \subseteq Users
ASSUME PdasAreNotWallets == Users \cap Pdas = {}
ASSUME EscrowsAreOthers == Escrows \cap (Vaults \cup ConfigPdas) = {}
ASSUME ExtraAccounts == Extra \subseteq [owner : Holders, mint : Mints, slot : Nat \ {0}]
ASSUME OpenedAreAccounts == Opened \subseteq Acct
ASSUME AmountsAreNat == Amounts \subseteq Nat
ASSUME FundsAreNat == Funds \in [Users -> [Mints -> Nat]]
ASSUME NoConfigIsNoRecord == NoConfig \notin Record

VARIABLES
    live,       \* token accounts that exist
    bal,        \* tokens in each of them
    made,       \* vaults and escrow PDAs that are accounts of the program
    prefunded,  \* vault addresses with lamports but without an account
    config,     \* content of each Config PDA
    tilled,     \* history: vaults a Config opened for redemption, with the mints
    due         \* history: what a vault's user has deposited into an account of
                \* it and not withdrawn, as long as it is no till for the mint

vars == <<live, bal, made, prefunded, config, tilled, due>>

Init ==
    /\ live = {a \in Acct : a.owner \in Users /\ a.slot = 0 /\ Funds[a.owner][a.mint] > 0}
    /\ bal = [a \in Acct |-> IF a \in live THEN Funds[a.owner][a.mint] ELSE 0]
    /\ made = {}
    /\ prefunded = {}
    /\ config = [c \in ProgOwners |-> NoConfig]
    /\ tilled = {}
    /\ due = [a \in Acct |-> 0]

IsInit(c) == config[c] # NoConfig

\* check_pda: an account with lamports that the program owns.
IsPda(p) == p \in made \/ \E c \in ProgOwners : p = ConfigPda(c) /\ IsInit(c)

\* The accounts a caller may pass where a handler calls check_ata, and where
\* it creates the account if there is none.
Existing(o, m) == {a \in live : CheckAta(live, a, o, m)}
Usable(o, m) == {a \in Acct : FindOrCreateAta(live, a, o, m)}

\* none_zero_u64 and ata_balc, which every handler here begins with.
AmountOk(from, n) == n > 0 /\ bal[from] >= n

\* n tokens go from one account to another, which is created if there is
\* none; `authority` has signed, itself or by its seeds.
Pays(from, to, m, authority, n) ==
    /\ live' = live \cup {to}
    /\ CanTransfer(live', bal, from, to, m, authority, n)
    /\ bal' = Transferred(bal, from, to, n)

(***************************************************************************)
(* 5 TokLgcDeposit: into an account of the vault that the user names.  His *)
(* own is made if nothing is at its address; otherwise any account of the  *)
(* program passes for a vault.  Some Config, any, must accept the mint.    *)
(***************************************************************************)
Accepts(c, m) == IsInit(c) /\ m \in config[c].mints

\* Mutant: the vault that is made need not be the user's.
AnyWalletReady(u, w) == IsPda(w) \/ w \notin prefunded

WalletReady(u, w) ==
    \/ IsPda(w)
    \/ w = VaultPda(u) /\ w \notin prefunded

TokLgcDeposit(u, w, m, n) ==
    /\ \E c \in ProgOwners : Accepts(c, m)
    /\ WalletReady(u, w)
    /\ made' = IF IsPda(w) THEN made ELSE made \cup {w}
    /\ \E from \in Existing(u, m), to \in Usable(w, m) :
          /\ AmountOk(from, n)
          /\ Pays(from, to, m, u, n)
          /\ due' = IF w = VaultPda(u) /\ <<w, m>> \notin tilled
                    THEN [due EXCEPT ![to] = @ + n] ELSE due
    /\ UNCHANGED <<prefunded, config, tilled>>

(***************************************************************************)
(* 6 TokLgcWithdraw: from an account of the user's own vault, which needs  *)
(* no account of the program at its address, and no Config.                *)
(***************************************************************************)
\* Mutants: a Config must accept the mint, as on the way in; and the vault
\* need not be the signer's.
CanTokWithdrawAccepted(u, v, from, m, n) ==
    /\ from \in Existing(v, m)
    /\ AmountOk(from, n)
    /\ v = VaultPda(u)
    /\ \E c \in ProgOwners : Accepts(c, m)
CanTokWithdrawAny(u, v, from, m, n) ==
    from \in Existing(v, m) /\ AmountOk(from, n)

CanTokWithdraw(u, v, from, m, n) ==
    /\ from \in Existing(v, m)
    /\ AmountOk(from, n)
    /\ v = VaultPda(u)

TokLgcWithdraw(u, v, m, n) ==
    /\ \E from \in Existing(v, m), to \in Usable(u, m) :
          /\ CanTokWithdraw(u, v, from, m, n)
          /\ Pays(from, to, m, v, n)
          /\ due' = [due EXCEPT ![from] = IF @ > n THEN @ - n ELSE 0]
    /\ UNCHANGED <<made, prefunded, config, tilled>>

(***************************************************************************)
(* 7 TokLgcPay and 8 TokLgcRedeem: into and out of the vault of a Config   *)
(* that accepts the mint.  Whoever asks is paid.                           *)
(***************************************************************************)
\* check_vault(vault, config.vault())
IsVaultOf(c, v) == v \in made /\ v = config[c].vault

TokLgcPay(u, c, v, m, n) ==
    /\ Accepts(c, m)
    /\ IsVaultOf(c, v)
    /\ \E from \in Existing(u, m), to \in Usable(v, m) :
          AmountOk(from, n) /\ Pays(from, to, m, u, n)
    /\ UNCHANGED <<made, prefunded, config, tilled, due>>

\* The handler signs with the seeds ("vault", config.prog_owner).
CanTokRedeem(c, v, from, m, n) ==
    /\ from \in Existing(v, m)
    /\ AmountOk(from, n)
    /\ Accepts(c, m)
    /\ IsVaultOf(c, v)
    /\ VaultPda(config[c].prog_owner) = v

TokLgcRedeem(u, c, v, m, n) ==
    /\ \E from \in Existing(v, m), to \in Usable(u, m) :
          CanTokRedeem(c, v, from, m, n) /\ Pays(from, to, m, v, n)
    /\ UNCHANGED <<made, prefunded, config, tilled, due>>

(***************************************************************************)
(* What may happen between the vaults' instructions.                       *)
(***************************************************************************)
\* Mutant: the vault is not derived from the program owner.
AnyVaultNamed(c, v) == TRUE

VaultNamed(c, v) == v = VaultPda(c)

\* 12 InitConfig: anybody, for any owner, with any mints.
InitConfig(c, v, ms) ==
    /\ ~IsInit(c)
    /\ VaultNamed(c, v)
    /\ config' = [config EXCEPT ![c] = [vault |-> v, prog_owner |-> c, mints |-> ms]]
    /\ tilled' = tilled \cup {<<v, m>> : m \in ms}
    /\ due' = [a \in Acct |-> IF <<a.owner, a.mint>> \in tilled' THEN 0 ELSE due[a]]
    /\ UNCHANGED <<live, bal, made, prefunded>>

\* 14 CloseConfigPda.
CloseConfigPda(c) ==
    /\ IsInit(c)
    /\ config' = [config EXCEPT ![c] = NoConfig]
    /\ UNCHANGED <<live, bal, made, prefunded, tilled, due>>

\* 0 DepositSol makes a user's vault, and nothing unmakes it.
MakeVault(u) ==
    /\ VaultPda(u) \notin made \cup prefunded
    /\ made' = made \cup {VaultPda(u)}
    /\ UNCHANGED <<live, bal, prefunded, config, tilled, due>>

\* Somebody sends lamports to the address of a vault that is not there.
PrefundVault(v) ==
    /\ v \notin made \cup prefunded
    /\ prefunded' = prefunded \cup {v}
    /\ UNCHANGED <<live, bal, made, config, tilled, due>>

\* 15 EscrowTokMake creates an escrow PDA, 17 and 18 close it.
MakeEscrow(e) ==
    /\ e \notin made
    /\ made' = made \cup {e}
    /\ UNCHANGED <<live, bal, prefunded, config, tilled, due>>

CloseEscrow(e) ==
    /\ e \in made
    /\ made' = made \ {e}
    /\ UNCHANGED <<live, bal, prefunded, config, tilled, due>>

\* Anybody opens a token account, for any owner.
OpenTokenAccount(a) ==
    /\ a \notin live
    /\ live' = live \cup {a}
    /\ UNCHANGED <<bal, made, prefunded, config, tilled, due>>

\* A wallet sends tokens to any account.
SendTokens(from, to, n) ==
    /\ from.owner \in Users /\ from # to /\ n > 0
    /\ CanTransfer(live, bal, from, to, from.mint, from.owner, n)
    /\ bal' = Transferred(bal, from, to, n)
    /\ UNCHANGED <<live, made, prefunded, config, tilled, due>>

\* A wallet closes an empty account of its own.
CloseTokenAccount(a) ==
    /\ a.owner \in Users
    /\ CanCloseAccount(live, bal, a, a.owner)
    /\ live' = live \ {a}
    /\ UNCHANGED <<bal, made, prefunded, config, tilled, due>>

(***************************************************************************)
(* The specification                                                       *)
(***************************************************************************)
Deposit == \E u \in Users, w \in Pdas, m \in Mints, n \in Amounts : TokLgcDeposit(u, w, m, n)

Withdraw == \E u \in Users, v \in Vaults, m \in Mints, n \in Amounts :
                TokLgcWithdraw(u, v, m, n)

Pay == \E u \in Users, c \in ProgOwners, v \in Vaults, m \in Mints, n \in Amounts :
           TokLgcPay(u, c, v, m, n)

Redeem == \E u \in Users, c \in ProgOwners, v \in Vaults, m \in Mints, n \in Amounts :
              TokLgcRedeem(u, c, v, m, n)

Accounts ==
    \/ \E c \in ProgOwners, v \in Vaults, ms \in SUBSET Mints : InitConfig(c, v, ms)
    \/ \E c \in ProgOwners : CloseConfigPda(c)
    \/ \E u \in Users : MakeVault(u)
    \/ \E v \in Vaults : PrefundVault(v)
    \/ \E e \in Escrows : MakeEscrow(e) \/ CloseEscrow(e)

Wallets ==
    \/ \E a \in Opened : OpenTokenAccount(a)
    \/ \E from, to \in live, n \in Amounts : SendTokens(from, to, n)
    \/ \E a \in live : CloseTokenAccount(a)

Next == Deposit \/ Withdraw \/ Pay \/ Redeem \/ Accounts \/ Wallets

Spec == Init /\ [][Next]_vars

(***************************************************************************)
(* Properties                                                              *)
(***************************************************************************)
\* Types, and that an address without an account holds nothing.
TypeOK ==
    /\ live \subseteq Acct
    /\ bal \in [Acct -> Nat]
    /\ \A a \in Acct \ live : bal[a] = 0
    /\ made \subseteq Vaults \cup Escrows
    /\ prefunded \subseteq Vaults
    /\ config \in [ProgOwners -> Record \cup {NoConfig}]
    /\ tilled \subseteq Vaults \times Mints
    /\ due \in [Acct -> Nat]

\* What a user deposited into an account of his vault and has not withdrawn
\* can be withdrawn from it at once, whatever others pay, redeem, send,
\* create or close, unless some Config has made that vault a till for the
\* mint (TokLgcWithdraw asks for no Config and no vault account).
DepositIsWithdrawable ==
    \A u \in Users, a \in Acct :
        a.owner = VaultPda(u) /\ due[a] > 0
            => CanTokWithdraw(u, a.owner, a, a.mint, due[a])

\* What the accounts of a Config's vault hold in a mint that it accepts can
\* be redeemed once the vault is made: the Config names the vault that its
\* program owner's seeds sign for, however it was created again.
PaidIsRedeemable ==
    \A c \in ProgOwners, a \in live :
        /\ IsInit(c)
        /\ a.owner = config[c].vault /\ a.owner \in made
        /\ Accepts(c, a.mint)
        /\ bal[a] > 0
        => CanTokRedeem(c, a.owner, a, a.mint, bal[a])

IsTill(v, m) == \E c \in ProgOwners : VaultPda(c) = v /\ Accepts(c, m)

\* Tokens leave an account of a vault only whole: what it loses, an account of
\* a wallet gains in the same step, and that wallet is the vault's own user
\* or the vault is a till for the mint at that moment.
LeavesByRight ==
    [][\A a \in Acct : a.owner \in Vaults /\ bal'[a] < bal[a] =>
         \E b \in Acct :
            /\ b.owner \in Users /\ b.mint = a.mint
            /\ bal'[a] + bal'[b] = bal[a] + bal[b]
            /\ VaultPda(b.owner) = a.owner \/ IsTill(a.owner, a.mint)]_vars
==============================================================================
