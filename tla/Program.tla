------------------------------- MODULE Program --------------------------------
(***************************************************************************)
(* The program's token custody as a whole: the escrow (15 to 18), the      *)
(* token vaults (5 to 8) and the Configs (12, 14) over one ledger of token *)
(* accounts.                                                               *)
(*                                                                         *)
(* Escrow and TokenVault each model the other as something that happens in *)
(* between.  Here both act: what one hands out the other takes in, a       *)
(* deposit may go to an escrow PDA, an offer comes and goes as a `vault'   *)
(* that a deposit accepts, and the Config that opens a till is the one     *)
(* without which no offer can be closed.  Gifts of lamports to addresses   *)
(* where no account is are left to the component modules.                  *)
(***************************************************************************)
EXTENDS Naturals, FiniteSets, TokenAccounts

CONSTANTS
    Users, Makers, Ids, ProgOwners, Mints, Extra, Opened, Amounts, Funds,
    NoAccount, NoOffer, NoConfig   \* as in Escrow and TokenVault

VARIABLES
    live,    \* token accounts that exist
    bal,     \* tokens in each of them
    offer,   \* content of each escrow PDA
    vaults,  \* vaults that are accounts of the program
    config,  \* content of each Config PDA
    tilled,  \* history, see TokenVault
    due      \* history, see TokenVault

vars == <<live, bal, offer, vaults, config, tilled, due>>

Escrows == Makers \X Ids
OpenOffers == {e \in Escrows : offer[e] # NoOffer}

\* The components come with what is proved of them, for ProgramProofs to cite.
V == INSTANCE TokenVaultProofs WITH prefunded <- {}, made <- vaults \cup OpenOffers

\* For the escrow, whatever else holds tokens is one more party, which starts
\* with none.
Parties == Users \cup V!Vaults \cup V!ConfigPdas

PartyFunds ==
    [p \in Parties |-> IF p \in Users THEN Funds[p] ELSE [m \in Mints |-> 0]]

E == INSTANCE EscrowProofs WITH
        Users        <- Parties,
        Funds        <- PartyFunds,
        ConfigOwners <- ProgOwners,
        prefunded    <- {},
        configs      <- {c \in ProgOwners : config[c] # NoConfig}

\* What the components assume, of the whole.
ASSUME OwnersAreUsers == ProgOwners \subseteq Users
ASSUME MakersAreUsers == Makers \subseteq Users
ASSUME PdasAreNotWallets == Users \cap V!Pdas = {}
ASSUME EscrowsAreOthers == Escrows \cap (V!Vaults \cup V!ConfigPdas) = {}
ASSUME ExtraAccounts == Extra \subseteq [owner : V!Holders, mint : Mints, slot : Nat \ {0}]
ASSUME OpenedAreAccounts == Opened \subseteq V!Acct
ASSUME AccountsAreFinite == IsFiniteSet(V!Acct)
ASSUME AmountsAreNat == Amounts \subseteq Nat
ASSUME FundsAreNat == Funds \in [Users -> [Mints -> Nat]]
ASSUME NoneIsSome == NoConfig \notin V!Record /\ NoOffer \notin E!Offer /\ NoAccount \notin V!Acct

Init ==
    /\ offer = [e \in Escrows |-> NoOffer]
    /\ vaults = {}
    /\ V!Init

Signed(u) ==
    \E mx, my \in Mints :
        \/ \E id \in Ids, ax, ay \in Amounts :
              u \in Makers /\ E!EscrowTokMake(u, id, mx, my, ax, ay)
        \/ \E e \in Escrows, id \in Ids, ax, ay \in Amounts :
              E!EscrowTokTake(u, e, mx, my, ax, ay, id)
        \/ \E e \in Escrows :
              E!EscrowTokWithdraw(u, e, mx, my) \/ E!EscrowTokCancel(u, e, mx, my)

EscrowSide ==
    /\ UNCHANGED <<vaults, config, tilled, due>>
    /\ \E u \in Users : Signed(u)

ConfigSide ==
    \E c \in ProgOwners :
        \/ \E v \in V!Vaults, ms \in SUBSET Mints : V!InitConfig(c, v, ms)
        \/ V!CloseConfigPda(c)

\* 5 TokLgcDeposit and 0 DepositSol may make a vault.
VaultMade == vaults' \in {vaults} \cup {vaults \cup {v} : v \in V!Vaults}

VaultSide ==
    /\ UNCHANGED offer
    /\ \/ VaultMade /\ (V!Deposit \/ \E u \in Users : V!MakeVault(u))
       \/ UNCHANGED vaults /\ (V!Withdraw \/ V!Pay \/ V!Redeem \/ ConfigSide \/ V!Wallets)

Next == EscrowSide \/ VaultSide

Spec == Init /\ [][Next]_vars

(***************************************************************************)
(* Properties                                                              *)
(***************************************************************************)
\* Types, as in the components, and no account outside them.
TypeOK ==
    /\ E!TypeOK /\ V!TypeOK
    /\ vaults \subseteq V!Vaults

\* What the components promise alone they promise together, although vaults,
\* deposits, Configs and offers act on the same accounts: open offers stay
\* covered and can be closed when exact (Escrow), deposits stay withdrawable
\* and tills redeemable (TokenVault).
PromisesKept ==
    /\ E!OfferCovered /\ E!ClosableWhenExact
    /\ V!DepositIsWithdrawable /\ V!PaidIsRedeemable

Loses(p) == \E a \in live : a.owner = p /\ bal'[a] < bal[a]

\* An escrow PDA pays out while its offer is open: at the posted terms, or
\* as the offer ends and its maker is made whole.
EscrowPays(e) ==
    /\ E!IsOpen(e)
    /\ IF E!IsOpen(e)' THEN E!AtTerms(e) ELSE E!PaysMaker(e)

\* A vault pays its own user, or anybody while it is a till.
VaultPays(v) ==
    \E a, b \in V!Acct :
        /\ a.owner = v /\ b.owner \in Users /\ a.mint = b.mint
        /\ bal'[a] < bal[a] /\ bal'[a] + bal'[b] = bal[a] + bal[b]
        /\ V!VaultPda(b.owner) = v \/ V!IsTill(v, a.mint)

\* Whatever instruction it is: of all PDAs at most one pays, an escrow or a
\* vault, and by its own rule; escrows without an offer and Configs never do,
\* although deposits and offers reach each other's accounts.
OnePaysByRight ==
    [][\A p \in V!Pdas : Loses(p) =>
         /\ \/ p \in Escrows /\ EscrowPays(p)
            \/ p \in V!Vaults /\ VaultPays(p)
         /\ \A q \in V!Pdas \ {p} : ~Loses(q)]_vars
==============================================================================
