------------------------------ MODULE TokenMint -------------------------------
(***************************************************************************)
(* Mints and their token accounts: instructions 2 TokenLgcInitMint, 3      *)
(* TokenLgcInitAta and 4 TokLgcMintToken for the legacy token program, and *)
(* 9 Token2022InitMint, 10 Token2022InitAta and 11 Token2022MintToken for  *)
(* Token-2022.                                                             *)
(*                                                                         *)
(* The two families are the same but for what a caller passes as freeze    *)
(* authority and the token program that is asked for; a Token-2022 mint is *)
(* made without extensions, its name, symbol and uri are not stored.       *)
(* Whether an address holds lamports is what most checks here are about:   *)
(* it tells a new mint from an old one, and a wallet that exists.          *)
(*                                                                         *)
(* The token programs do the issuing, and wallets use them directly, too:  *)
(* they pass authority on, transfer, burn, open and close accounts.        *)
(***************************************************************************)
EXTENDS Naturals, TokenAccounts

CONSTANTS
    Users,          \* wallets, each with a signing key
    Funded,         \* the wallets that hold lamports at the start
    Mints,          \* addresses, each with a key, where a mint may be made
    Extra,          \* token accounts at addresses other than the derived one
    Amounts,        \* amounts that instruction data may carry
    Decimals,       \* decimals that instruction data may carry
    MaxSupply,      \* the largest u64
    Legacy,         \* spl-token
    T22,            \* spl-token-2022
    SystemProgram,
    Nobody,         \* no authority, or nobody signed
    NoMint          \* content of a mint address without a mint

Programs == {Legacy, T22}
Acct == {Ata(u, m) : u \in Users, m \in Mints} \cup Extra
Address == Users \cup Mints \cup Acct

\* check_decimals_max(decimals, 18)
MaxDecimals == 18

Record == [prog : Programs, auth : Users \cup {Nobody},
           freeze : Programs \cup {SystemProgram, Nobody},
           decimals : 0 .. MaxDecimals, supply : 0 .. MaxSupply]

\* A program's address, a wallet's and a mint's are never the same.
ASSUME ProgramsAreOthers ==
    /\ Legacy # T22 /\ SystemProgram \notin Programs
    /\ Users \cap (Programs \cup {SystemProgram, Nobody}) = {}
    /\ Nobody \notin Programs \cup {SystemProgram}
ASSUME AddressesDiffer == Users \cap Mints = {} /\ (Users \cup Mints) \cap Acct = {}
ASSUME FundedAreUsers == Funded \subseteq Users
ASSUME ExtraAccounts == Extra \subseteq [owner : Users, mint : Mints, slot : Nat \ {0}]
ASSUME NumbersAreNat == Amounts \subseteq Nat /\ Decimals \subseteq Nat /\ MaxSupply \in Nat
ASSUME NoMintIsNoRecord == NoMint \notin Record

VARIABLES
    mint,    \* content of each mint address
    live,    \* token accounts that exist
    bal,     \* tokens in each of them
    funded,  \* addresses that hold lamports
    signer   \* history: who signed the last transaction about a mint's supply

vars == <<mint, live, bal, funded, signer>>

Init ==
    /\ mint = [m \in Mints |-> NoMint]
    /\ live = {}
    /\ bal = [a \in Acct |-> 0]
    /\ funded = Funded
    /\ signer = Nobody

IsMint(m) == mint[m] # NoMint

(***************************************************************************)
(* 2 TokenLgcInitMint and 9 Token2022InitMint.                             *)
(***************************************************************************)
\* Mutants: a mint may be made where one is; the decimals are not bounded.
CanInitMintAgain(payer, m, auth, dec) ==
    payer \in funded /\ auth \in funded /\ dec <= MaxDecimals
CanInitMintAnyDecimals(payer, m, auth, dec) ==
    payer \in funded /\ m \notin funded /\ auth \in funded

\* not_initialized(mint), which CreateAccount demands as well, and
\* initialized(mint_authority).
CanInitMint(payer, m, auth, dec) ==
    /\ payer \in funded
    /\ m \notin funded
    /\ auth \in funded
    /\ dec <= MaxDecimals

NewMint(m, prog, auth, freeze, dec) ==
    [mint EXCEPT ![m] = [prog |-> prog, auth |-> auth, freeze |-> freeze,
                         decimals |-> dec, supply |-> 0]]

\* The account passed becomes the freeze authority when it is the system
\* program (legacy), or the token program (Token-2022); a wallet passed is
\* dropped, and the mint has none.
FreezeLgc(passed) == IF passed = SystemProgram THEN passed ELSE Nobody
Freeze22(passed, prog) == IF passed = prog THEN passed ELSE Nobody

InitMint(payer, m, prog, auth, freeze, dec) ==
    /\ CanInitMint(payer, m, auth, dec)
    /\ mint' = NewMint(m, prog, auth, freeze, dec)
    /\ funded' = funded \cup {m}
    /\ signer' = payer
    /\ UNCHANGED <<live, bal>>

\* InitializeMint2 of spl-token: no other program's account will do.
TokenLgcInitMint(payer, m, auth, passed, dec) ==
    InitMint(payer, m, Legacy, auth, FreezeLgc(passed), dec)

\* InitializeMint2 goes to the program that the caller passes, either one.
Token2022InitMint(payer, m, prog, auth, passed, dec) ==
    InitMint(payer, m, prog, auth, Freeze22(passed, prog), dec)

(***************************************************************************)
(* 3 TokenLgcInitAta and 10 Token2022InitAta: an account at the derived    *)
(* address, for a wallet that holds lamports; the address must hold none.  *)
(***************************************************************************)
CanInitAta(payer, w, m) ==
    /\ payer \in funded
    /\ Ata(w, m) \notin funded
    /\ w \in funded

InitAta(payer, w, m, prog) ==
    /\ CanInitAta(payer, w, m)
    /\ IsMint(m) /\ mint[m].prog = prog
    /\ live' = live \cup {Ata(w, m)}
    /\ funded' = funded \cup {Ata(w, m)}
    /\ UNCHANGED <<mint, bal, signer>>

TokenLgcInitAta(payer, w, m) == InitAta(payer, w, m, Legacy)
Token2022InitAta(payer, w, m) == InitAta(payer, w, m, T22)

(***************************************************************************)
(* 4 TokLgcMintToken and 11 Token2022MintToken.                            *)
(***************************************************************************)
\* Mutant: all that check_mint0b asks, which lets a mint without authority pass.
MayIssueUnlessOthers(s, m) == mint[m].auth \in {s, Nobody}

\* check_mint0b and check_mint22b, and the token program that comes after them
\* and refuses where there is no authority.
MayIssue(s, m) == mint[m].auth = s

\* Mutant: an account is taken to exist when its address holds lamports.
AccountReadyIfFunded(s, w, m, a) ==
    \/ a = Ata(w, m) /\ a \notin funded /\ s \in funded
    \/ CheckAta(live, a, w, m)

\* is_data_empty() decides, so that an address with lamports only is created.
AccountReady(s, w, m, a) ==
    \/ a = Ata(w, m) /\ a \notin live /\ s \in funded
    \/ CheckAta(live, a, w, m)

\* check_mint0b, check_mint22b; none_zero_u64; and MintToChecked, which does not
\* let the supply go past u64.
CanMintToken(s, w, m, a, prog, dec, n) ==
    /\ n > 0
    /\ IsMint(m) /\ mint[m].prog = prog
    /\ MayIssue(s, m)
    /\ dec = mint[m].decimals
    /\ AccountReady(s, w, m, a)
    /\ mint[m].supply + n <= MaxSupply

MintToken(s, w, m, a, prog, dec, n) ==
    /\ CanMintToken(s, w, m, a, prog, dec, n)
    /\ mint' = [mint EXCEPT ![m].supply = @ + n]
    /\ live' = live \cup {a}
    /\ bal' = [bal EXCEPT ![a] = @ + n]
    /\ funded' = funded \cup {a}
    /\ signer' = s

TokLgcMintToken(s, w, m, a, dec, n) == MintToken(s, w, m, a, Legacy, dec, n)
Token2022MintToken(s, w, m, a, dec, n) == MintToken(s, w, m, a, T22, dec, n)

(***************************************************************************)
(* What wallets do with the token and system programs directly.            *)
(***************************************************************************)
\* The authority names another, or none for good.
SetAuthority(s, m, to) ==
    /\ IsMint(m) /\ mint[m].auth = s
    /\ mint' = [mint EXCEPT ![m].auth = to]
    /\ signer' = s
    /\ UNCHANGED <<live, bal, funded>>

Burn(a, n) ==
    /\ a \in live /\ n > 0 /\ bal[a] >= n /\ mint[a.mint].supply >= n
    /\ bal' = [bal EXCEPT ![a] = @ - n]
    /\ mint' = [mint EXCEPT ![a.mint].supply = @ - n]
    /\ signer' = a.owner
    /\ UNCHANGED <<live, funded>>

SendTokens(from, to, n) ==
    /\ from # to /\ n > 0
    /\ CanTransfer(live, bal, from, to, from.mint, from.owner, n)
    /\ bal' = Transferred(bal, from, to, n)
    /\ UNCHANGED <<mint, live, funded, signer>>

OpenTokenAccount(a) ==
    /\ a \notin live /\ IsMint(a.mint)
    /\ live' = live \cup {a}
    /\ funded' = funded \cup {a}
    /\ UNCHANGED <<mint, bal, signer>>

\* All lamports of the account go with it.
CloseTokenAccount(a) ==
    /\ CanCloseAccount(live, bal, a, a.owner)
    /\ live' = live \ {a}
    /\ funded' = funded \ {a}
    /\ UNCHANGED <<mint, bal, signer>>

\* Somebody sends lamports to an address.
FundAddress(x) ==
    /\ x \notin funded
    /\ funded' = funded \cup {x}
    /\ UNCHANGED <<mint, live, bal, signer>>

\* The holder of an address' key sends all its lamports away; those of a mint
\* and of a token account are the token program's.
DrainAddress(x) ==
    /\ x \in funded
    /\ x \in Mints => ~IsMint(x)
    /\ funded' = funded \ {x}
    /\ UNCHANGED <<mint, live, bal, signer>>

(***************************************************************************)
(* The specification                                                       *)
(***************************************************************************)
MakeMints ==
    \E payer, auth \in Users, m \in Mints, dec \in Decimals,
       passed \in Users \cup Programs \cup {SystemProgram} :
        \/ TokenLgcInitMint(payer, m, auth, passed, dec)
        \/ \E prog \in Programs : Token2022InitMint(payer, m, prog, auth, passed, dec)

MakeAccounts ==
    \E payer, w \in Users, m \in Mints :
        TokenLgcInitAta(payer, w, m) \/ Token2022InitAta(payer, w, m)

Issue ==
    \E s, w \in Users, m \in Mints, a \in Acct, dec \in Decimals, n \in Amounts :
        TokLgcMintToken(s, w, m, a, dec, n) \/ Token2022MintToken(s, w, m, a, dec, n)

Wallets ==
    \/ \E s \in Users, m \in Mints, to \in Users \cup {Nobody} : SetAuthority(s, m, to)
    \/ \E a \in live, n \in Amounts : Burn(a, n)
    \/ \E from, to \in live, n \in Amounts : SendTokens(from, to, n)
    \/ \E a \in Acct : OpenTokenAccount(a)
    \/ \E a \in live : CloseTokenAccount(a)
    \/ \E x \in Address : FundAddress(x)
    \/ \E x \in Users \cup Mints : DrainAddress(x)

Next == MakeMints \/ MakeAccounts \/ Issue \/ Wallets

Spec == Init /\ [][Next]_vars

(***************************************************************************)
(* Properties                                                              *)
(***************************************************************************)
\* Types; what exists holds lamports, and token accounts belong to mints.
TypeOK ==
    /\ mint \in [Mints -> Record \cup {NoMint}]
    /\ live \subseteq Acct
    /\ bal \in [Acct -> Nat]
    /\ \A a \in Acct \ live : bal[a] = 0
    /\ funded \subseteq Address
    /\ live \subseteq funded
    /\ \A m \in Mints : IsMint(m) => m \in funded
    /\ \A a \in live : IsMint(a.mint)
    /\ signer \in Users \cup {Nobody}

\* The authority of a mint can issue tokens to any wallet's ATA while u64 has
\* room, whether the account is there, was closed, or its address was sent
\* lamports before: the handlers look for data, not for lamports, before they
\* create it (TokLgcMintToken, Token2022MintToken).
AuthorityCanIssue ==
    \A m \in Mints, u, w \in Users :
        /\ IsMint(m) /\ mint[m].auth = u /\ u \in funded
        /\ mint[m].supply < MaxSupply
        => CanMintToken(u, w, m, Ata(w, m), mint[m].prog, mint[m].decimals, 1)

Supply(m) == IF IsMint(m) THEN mint[m].supply ELSE 0

\* Tokens are issued only in a transaction that the mint's authority signed,
\* the one it had then: not one it had before, and never again once it was
\* given up, although the program's own check lets such a mint pass.
OnlyAuthorityIssues ==
    [][\A m \in Mints : Supply(m)' > Supply(m) => mint[m].auth = signer']_vars

\* What a mint is never changes once it is made: its program, decimals and
\* freeze authority, whoever funds its address or asks for it to be made again
\* (TokenLgcInitMint, Token2022InitMint).
MintIsFixed ==
    [][\A m \in Mints : IsMint(m) =>
         /\ IsMint(m)'
         /\ mint'[m].prog = mint[m].prog
         /\ mint'[m].decimals = mint[m].decimals
         /\ mint'[m].freeze = mint[m].freeze]_vars
==============================================================================
