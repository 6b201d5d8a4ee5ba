-------------------------- MODULE TokenVaultProofs ---------------------------
(***************************************************************************)
(* Theorems about TokenVault, for any sets of users, owners, escrows,      *)
(* mints, accounts and amounts: its invariants, what leaves a vault, and   *)
(* that it implements Custody.                                             *)
(***************************************************************************)
EXTENDS TokenVaultCustody, TokenTotalsProofs

(***************************************************************************)
(* The inductive invariant.                                                *)
(***************************************************************************)
\* What is due lies in an account of a vault that never was a till.
DueIsThere ==
    \A a \in Acct : due[a] > 0 =>
        /\ a.owner \in Vaults /\ <<a.owner, a.mint>> \notin tilled
        /\ bal[a] >= due[a]

\* A Config names its owner and his vault, and the mints it accepts are on record.
ConfigNames ==
    \A c \in ProgOwners : IsInit(c) =>
        /\ config[c].prog_owner = c
        /\ config[c].vault = VaultPda(c)
        /\ \A m \in config[c].mints : <<VaultPda(c), m>> \in tilled

IInv == TypeOK /\ DueIsThere /\ ConfigNames

\* The part of the type invariant that is about token accounts.
AccountsOK ==
    /\ live \subseteq Acct
    /\ bal \in [Acct -> Nat]
    /\ \A a \in Acct \ live : bal[a] = 0

(***************************************************************************)
(* Lemmas                                                                  *)
(***************************************************************************)
\* The address of a token account tells who owns it and what it holds.
LEMMA AcctFields ==
    ASSUME NEW a \in Acct
    PROVE  a.owner \in Holders /\ a.mint \in Mints
BY ExtraAccounts DEF Acct, Ata

\* A wallet is none of the program's addresses.
LEMMA OwnersDiffer ==
    ASSUME NEW u \in Users, NEW p \in Pdas
    PROVE  u # p
BY PdasAreNotWallets

\* Vaults are PDAs, and a user's is one of them.
LEMMA VaultFacts ==
    /\ Vaults \subseteq Pdas
    /\ \A u \in Users : VaultPda(u) \in Vaults
    /\ \A c \in ProgOwners : VaultPda(c) \in Vaults
BY OwnersAreUsers DEF Vaults, Pdas

\* The accounts a caller may name.
LEMMA NamedAccounts ==
    ASSUME AccountsOK, NEW o, NEW m
    PROVE  /\ \A a \in Existing(o, m) : a \in Acct /\ a \in live /\ a.owner = o /\ a.mint = m
           /\ \A a \in Usable(o, m) : a \in Acct /\ a.owner = o /\ a.mint = m
BY DEF AccountsOK, Existing, Usable, CheckAta, FindOrCreateAta, Ata

\* A transfer moves n tokens between two accounts and touches no other.
LEMMA TransferredFacts ==
    ASSUME NEW b \in [Acct -> Nat], NEW from \in Acct, NEW to \in Acct,
           NEW n \in Nat, from # to, b[from] >= n
    PROVE  /\ Transferred(b, from, to, n) \in [Acct -> Nat]
           /\ \A a \in Acct : a # from /\ a # to => Transferred(b, from, to, n)[a] = b[a]
           /\ Transferred(b, from, to, n)[from] = b[from] - n
           /\ Transferred(b, from, to, n)[to] = b[to] + n
BY DEF Transferred

\* Nothing is taken from the accounts of o, and none of them is closed.
Untouched(o) ==
    \A a \in Acct : a.owner = o => bal'[a] >= bal[a] /\ (a \in live => a \in live')

\* Every payment of the program is between two owners: it takes n tokens from
\* one account and adds them to another.
LEMMA PaysStep ==
    ASSUME AccountsOK,
           NEW from \in Acct, NEW to \in Acct, NEW m, NEW authority, NEW n \in Amounts,
           from \in live, from # to, AmountOk(from, n), Pays(from, to, m, authority, n)
    PROVE  /\ AccountsOK'
           /\ n \in Nat /\ n > 0
           /\ bal[from] \in Nat /\ bal[to] \in Nat
           /\ bal'[from] = bal[from] - n
           /\ bal'[to] = bal[to] + n
           /\ \A a \in Acct : a # from /\ a # to => bal'[a] = bal[a]
           /\ \A o \in Holders \ {from.owner} : Untouched(o)
<1>1. n \in Nat /\ n > 0 /\ bal[from] >= n
  BY AmountsAreNat DEF AmountOk
<1>2. bal' = Transferred(bal, from, to, n) /\ live' = live \cup {to}
  BY DEF Pays
<1>3. /\ bal' \in [Acct -> Nat]
      /\ \A a \in Acct : a # from /\ a # to => bal'[a] = bal[a]
      /\ bal'[from] = bal[from] - n /\ bal'[to] = bal[to] + n
  BY <1>1, <1>2, TransferredFacts DEF AccountsOK
<1>4. AccountsOK'
  BY <1>2, <1>3 DEF AccountsOK
<1>5. ASSUME NEW o \in Holders \ {from.owner} PROVE Untouched(o)
  <2> SUFFICES ASSUME NEW a \in Acct, a.owner = o
               PROVE  bal'[a] >= bal[a] /\ (a \in live => a \in live')
    BY DEF Untouched
  <2>1. a # from /\ bal[a] \in Nat
    BY DEF AccountsOK
  <2> QED
    BY <1>1, <1>2, <1>3, <2>1
<1> QED
  BY <1>1, <1>3, <1>4, <1>5 DEF AccountsOK

(***************************************************************************)
(* One lemma per instruction: it keeps the invariant, takes from one owner *)
(* at most, and from vaults only by right.                                 *)
(***************************************************************************)
Leaves(a) ==
    a.owner \in Vaults /\ bal'[a] < bal[a] =>
       \E b \in Acct :
          /\ b.owner \in Users /\ b.mint = a.mint
          /\ bal'[a] + bal'[b] = bal[a] + bal[b]
          /\ VaultPda(b.owner) = a.owner \/ IsTill(a.owner, a.mint)

\* TokLgcDeposit takes from a wallet's account only.
LEMMA DepositStep ==
    ASSUME IInv, NEW u \in Users, NEW w \in Pdas, NEW m \in Mints, NEW n \in Amounts,
           TokLgcDeposit(u, w, m, n)
    PROVE  /\ IInv' /\ \A a \in Acct : Leaves(a)
           /\ \A o \in Holders \ {u} : Untouched(o)
<1>1. PICK from \in Existing(u, m), to \in Usable(w, m) :
         /\ AmountOk(from, n)
         /\ Pays(from, to, m, u, n)
         /\ due' = IF w = VaultPda(u) /\ <<w, m>> \notin tilled
                   THEN [due EXCEPT ![to] = @ + n] ELSE due
  BY DEF TokLgcDeposit
<1>2. AccountsOK
  BY DEF IInv, TypeOK, AccountsOK
<1>3. /\ from \in Acct /\ from \in live /\ from.owner = u
      /\ to \in Acct /\ to.owner = w /\ to.mint = m
  BY <1>1, <1>2, NamedAccounts
<1>4. from # to
  BY <1>3, OwnersDiffer
<1>5. /\ AccountsOK' /\ n \in Nat /\ n > 0
      /\ bal[from] \in Nat /\ bal[to] \in Nat
      /\ bal'[to] = bal[to] + n
      /\ \A a \in Acct : a # from /\ a # to => bal'[a] = bal[a]
      /\ \A o \in Holders \ {u} : Untouched(o)
  BY <1>1, <1>2, <1>3, <1>4, PaysStep
<1>6. UNCHANGED <<prefunded, config, tilled>>
  BY DEF TokLgcDeposit
<1>7. made' \subseteq Vaults \cup Escrows
  <2>1. IsPda(w) \/ w \in Vaults
    BY VaultFacts DEF TokLgcDeposit, WalletReady
  <2>2. made' = IF IsPda(w) THEN made ELSE made \cup {w}
    BY DEF TokLgcDeposit
  <2> QED
    BY <2>1, <2>2 DEF IInv, TypeOK
<1>8. due' \in [Acct -> Nat]
  BY <1>1, <1>3, <1>5 DEF IInv, TypeOK
<1>9. TypeOK'
  BY <1>5, <1>6, <1>7, <1>8 DEF IInv, TypeOK, AccountsOK
<1>10. DueIsThere'
  <2> SUFFICES ASSUME NEW a \in Acct, due'[a] > 0
               PROVE  /\ a.owner \in Vaults /\ <<a.owner, a.mint>> \notin tilled
                      /\ bal'[a] >= due'[a]
    BY <1>6 DEF DueIsThere
  <2>1. due[a] \in Nat /\ bal[a] \in Nat /\ bal[a] >= due[a]
    <3>1. due[a] \in Nat /\ bal[a] \in Nat
      BY DEF IInv, TypeOK
    <3>2. due[a] > 0 => bal[a] >= due[a]
      BY DEF IInv, DueIsThere
    <3> QED
      BY <3>1, <3>2
  <2>2. CASE a = to /\ w = VaultPda(u) /\ <<w, m>> \notin tilled
    <3>1. due'[a] = due[a] + n
      BY <1>1, <1>3, <2>2 DEF IInv, TypeOK
    <3> QED
      BY <1>3, <1>5, <2>1, <2>2, <3>1, VaultFacts
  <2>3. CASE ~(a = to /\ w = VaultPda(u) /\ <<w, m>> \notin tilled)
    <3>1. due'[a] = due[a]
      BY <1>1, <2>3 DEF IInv, TypeOK
    <3>2. a.owner \in Vaults /\ <<a.owner, a.mint>> \notin tilled
      BY <3>1 DEF IInv, DueIsThere
    <3>3. a # from
      BY <1>3, <3>2, OwnersDiffer, VaultFacts
    <3>4. bal'[a] >= bal[a]
      BY <1>3, <1>5, <2>1, <3>3
    <3> QED
      BY <1>8, <2>1, <3>1, <3>2, <3>4, <1>5 DEF AccountsOK
  <2> QED
    BY <2>2, <2>3
<1>11. ConfigNames'
  BY <1>6 DEF IInv, ConfigNames, IsInit
<1>12. ASSUME NEW a \in Acct PROVE Leaves(a)
  <2> SUFFICES ASSUME a.owner \in Vaults PROVE bal'[a] >= bal[a]
    BY <1>2, <1>5 DEF Leaves, AccountsOK
  <2>1. a # from
    BY <1>3, OwnersDiffer, VaultFacts
  <2>2. bal[a] \in Nat
    BY <1>2 DEF AccountsOK
  <2> QED
    BY <1>3, <1>5, <2>1, <2>2
<1> QED
  BY <1>5, <1>9, <1>10, <1>11, <1>12 DEF IInv

\* TokLgcWithdraw pays the vault's own user, and what it takes is no longer due.
LEMMA WithdrawStep ==
    ASSUME IInv, NEW u \in Users, NEW v \in Vaults, NEW m \in Mints, NEW n \in Amounts,
           TokLgcWithdraw(u, v, m, n)
    PROVE  /\ IInv' /\ \A a \in Acct : Leaves(a)
           /\ \A o \in Holders \ {v} : Untouched(o)
<1>1. PICK from \in Existing(v, m), to \in Usable(u, m) :
         /\ CanTokWithdraw(u, v, from, m, n)
         /\ Pays(from, to, m, v, n)
         /\ due' = [due EXCEPT ![from] = IF @ > n THEN @ - n ELSE 0]
  BY DEF TokLgcWithdraw
<1>2. AccountsOK
  BY DEF IInv, TypeOK, AccountsOK
<1>3. /\ from \in Acct /\ from \in live /\ from.owner = v /\ from.mint = m
      /\ to \in Acct /\ to.owner = u /\ to.mint = m
  BY <1>1, <1>2, NamedAccounts
<1>4. from # to
  BY <1>3, OwnersDiffer, VaultFacts
<1>5. /\ AccountsOK' /\ n \in Nat /\ n > 0
      /\ bal[from] \in Nat /\ bal[to] \in Nat
      /\ bal'[from] = bal[from] - n
      /\ bal'[to] = bal[to] + n
      /\ \A a \in Acct : a # from /\ a # to => bal'[a] = bal[a]
      /\ \A o \in Holders \ {v} : Untouched(o)
  BY <1>1, <1>2, <1>3, <1>4, PaysStep DEF CanTokWithdraw
<1>6. UNCHANGED <<made, prefunded, config, tilled>> /\ v = VaultPda(u)
  BY <1>1 DEF TokLgcWithdraw, CanTokWithdraw
<1>7. /\ due' \in [Acct -> Nat]
      /\ due'[from] = IF due[from] > n THEN due[from] - n ELSE 0
      /\ \A a \in Acct : a # from => due'[a] = due[a]
  BY <1>1, <1>3, <1>5 DEF IInv, TypeOK
<1>8. TypeOK'
  BY <1>5, <1>6, <1>7 DEF IInv, TypeOK, AccountsOK
<1>9. DueIsThere'
  <2> SUFFICES ASSUME NEW a \in Acct, due'[a] > 0
               PROVE  /\ a.owner \in Vaults /\ <<a.owner, a.mint>> \notin tilled
                      /\ bal'[a] >= due'[a]
    BY <1>6 DEF DueIsThere
  <2>1. due[a] \in Nat /\ bal[a] \in Nat /\ due[from] \in Nat
    BY <1>3 DEF IInv, TypeOK
  <2>2. due[a] > 0
    BY <1>5, <1>7, <2>1
  <2>3. a.owner \in Vaults /\ <<a.owner, a.mint>> \notin tilled /\ bal[a] >= due[a]
    BY <2>2 DEF IInv, DueIsThere
  <2>4. a # to
    BY <1>3, <2>3, OwnersDiffer, VaultFacts
  <2> QED
    BY <1>5, <1>7, <2>1, <2>3, <2>4
<1>10. ConfigNames'
  BY <1>6 DEF IInv, ConfigNames, IsInit
<1>11. ASSUME NEW a \in Acct PROVE Leaves(a)
  <2> SUFFICES ASSUME a.owner \in Vaults, bal'[a] < bal[a]
               PROVE  \E b \in Acct :
                         /\ b.owner \in Users /\ b.mint = a.mint
                         /\ bal'[a] + bal'[b] = bal[a] + bal[b]
                         /\ VaultPda(b.owner) = a.owner
    BY DEF Leaves
  <2>1. a = from
    BY <1>2, <1>3, <1>5, OwnersDiffer, VaultFacts DEF AccountsOK
  <2> QED
    BY <1>3, <1>5, <1>6, <2>1
<1> QED
  BY <1>5, <1>8, <1>9, <1>10, <1>11 DEF IInv

\* TokLgcPay takes from a wallet's account only.
LEMMA PayStep ==
    ASSUME IInv, NEW u \in Users, NEW c \in ProgOwners, NEW v \in Vaults,
           NEW m \in Mints, NEW n \in Amounts, TokLgcPay(u, c, v, m, n)
    PROVE  /\ IInv' /\ \A a \in Acct : Leaves(a)
           /\ \A o \in Holders \ {u} : Untouched(o)
<1>1. PICK from \in Existing(u, m), to \in Usable(v, m) :
         AmountOk(from, n) /\ Pays(from, to, m, u, n)
  BY DEF TokLgcPay
<1>2. AccountsOK
  BY DEF IInv, TypeOK, AccountsOK
<1>3. /\ from \in Acct /\ from \in live /\ from.owner = u
      /\ to \in Acct /\ to.owner = v /\ to.mint = m
  BY <1>1, <1>2, NamedAccounts
<1>4. from # to
  BY <1>3, OwnersDiffer, VaultFacts
<1>5. /\ AccountsOK' /\ n \in Nat /\ n > 0
      /\ bal[from] \in Nat /\ bal[to] \in Nat
      /\ bal'[to] = bal[to] + n
      /\ \A a \in Acct : a # from /\ a # to => bal'[a] = bal[a]
      /\ \A o \in Holders \ {u} : Untouched(o)
  BY <1>1, <1>2, <1>3, <1>4, PaysStep
<1>6. UNCHANGED <<made, prefunded, config, tilled, due>>
  BY DEF TokLgcPay
<1>7. TypeOK'
  BY <1>5, <1>6 DEF IInv, TypeOK, AccountsOK
<1>8. ASSUME NEW a \in Acct, a.owner \in Vaults PROVE bal'[a] >= bal[a]
  <2>1. a # from
    BY <1>3, <1>8, OwnersDiffer, VaultFacts
  <2>2. bal[a] \in Nat
    BY <1>2 DEF AccountsOK
  <2> QED
    BY <1>3, <1>5, <2>1, <2>2
<1>9. DueIsThere'
  <2> SUFFICES ASSUME NEW a \in Acct, due[a] > 0
               PROVE  /\ a.owner \in Vaults /\ <<a.owner, a.mint>> \notin tilled
                      /\ bal'[a] >= due[a]
    BY <1>6 DEF DueIsThere
  <2>1. a.owner \in Vaults /\ <<a.owner, a.mint>> \notin tilled /\ bal[a] >= due[a]
    BY DEF IInv, DueIsThere
  <2>2. bal'[a] \in Nat /\ bal[a] \in Nat /\ due[a] \in Nat
    BY <1>5 DEF IInv, TypeOK, AccountsOK
  <2> QED
    BY <1>8, <2>1, <2>2
<1>10. ConfigNames'
  BY <1>6 DEF IInv, ConfigNames, IsInit
<1>11. ASSUME NEW a \in Acct PROVE Leaves(a)
  BY <1>2, <1>5, <1>8 DEF Leaves, AccountsOK
<1> QED
  BY <1>5, <1>7, <1>9, <1>10, <1>11 DEF IInv

\* TokLgcRedeem takes only from a till, where nothing is due.
LEMMA RedeemStep ==
    ASSUME IInv, NEW u \in Users, NEW c \in ProgOwners, NEW v \in Vaults,
           NEW m \in Mints, NEW n \in Amounts, TokLgcRedeem(u, c, v, m, n)
    PROVE  /\ IInv' /\ \A a \in Acct : Leaves(a)
           /\ \A o \in Holders \ {v} : Untouched(o)
<1>1. PICK from \in Existing(v, m), to \in Usable(u, m) :
         CanTokRedeem(c, v, from, m, n) /\ Pays(from, to, m, v, n)
  BY DEF TokLgcRedeem
<1>2. AccountsOK
  BY DEF IInv, TypeOK, AccountsOK
<1>3. /\ from \in Acct /\ from \in live /\ from.owner = v /\ from.mint = m
      /\ to \in Acct /\ to.owner = u /\ to.mint = m
  BY <1>1, <1>2, NamedAccounts
<1>4. from # to
  BY <1>3, OwnersDiffer, VaultFacts
<1>5. /\ AccountsOK' /\ n \in Nat /\ n > 0
      /\ bal[from] \in Nat /\ bal[to] \in Nat
      /\ bal'[from] = bal[from] - n
      /\ bal'[to] = bal[to] + n
      /\ \A a \in Acct : a # from /\ a # to => bal'[a] = bal[a]
      /\ \A o \in Holders \ {v} : Untouched(o)
  BY <1>1, <1>2, <1>3, <1>4, PaysStep DEF CanTokRedeem
<1>6. UNCHANGED <<made, prefunded, config, tilled, due>>
  BY DEF TokLgcRedeem
<1>7. v = VaultPda(c) /\ Accepts(c, m) /\ <<v, m>> \in tilled
  BY <1>1 DEF CanTokRedeem, Accepts, IsVaultOf, IInv, ConfigNames
<1>8. TypeOK'
  BY <1>5, <1>6 DEF IInv, TypeOK, AccountsOK
<1>9. DueIsThere'
  <2> SUFFICES ASSUME NEW a \in Acct, due[a] > 0
               PROVE  /\ a.owner \in Vaults /\ <<a.owner, a.mint>> \notin tilled
                      /\ bal'[a] >= due[a]
    BY <1>6 DEF DueIsThere
  <2>1. a.owner \in Vaults /\ <<a.owner, a.mint>> \notin tilled /\ bal[a] >= due[a]
    BY DEF IInv, DueIsThere
  <2>2. a # from /\ a # to
    BY <1>3, <1>7, <2>1, OwnersDiffer, VaultFacts
  <2> QED
    BY <1>5, <2>1, <2>2
<1>10. ConfigNames'
  BY <1>6 DEF IInv, ConfigNames, IsInit
<1>11. ASSUME NEW a \in Acct PROVE Leaves(a)
  <2> SUFFICES ASSUME a.owner \in Vaults, bal'[a] < bal[a]
               PROVE  \E b \in Acct :
                         /\ b.owner \in Users /\ b.mint = a.mint
                         /\ bal'[a] + bal'[b] = bal[a] + bal[b]
                         /\ IsTill(a.owner, a.mint)
    BY DEF Leaves
  <2>1. a = from
    BY <1>2, <1>3, <1>5, OwnersDiffer, VaultFacts DEF AccountsOK
  <2>2. IsTill(a.owner, a.mint)
    BY <1>3, <1>7, <2>1 DEF IsTill
  <2> QED
    BY <1>3, <1>5, <2>1, <2>2
<1> QED
  BY <1>5, <1>8, <1>9, <1>10, <1>11 DEF IInv

\* The other steps of the program take from no account and owe no more than
\* before; a new Config records the mints that it accepts.
LEMMA AccountsStep ==
    ASSUME IInv, Accounts
    PROVE  IInv' /\ UNCHANGED <<live, bal>> /\ \A a \in Acct : Leaves(a)
<1>1. UNCHANGED <<live, bal>>
  BY DEF Accounts, InitConfig, CloseConfigPda, MakeVault, PrefundVault, MakeEscrow, CloseEscrow
<1>2. ASSUME NEW a \in Acct PROVE Leaves(a)
  BY <1>1 DEF Leaves, IInv, TypeOK
<1>3. ASSUME NEW c \in ProgOwners, NEW v \in Vaults, NEW ms \in SUBSET Mints, InitConfig(c, v, ms)
      PROVE  IInv'
  <2>1. /\ v = VaultPda(c)
        /\ config' = [config EXCEPT ![c] = [vault |-> v, prog_owner |-> c, mints |-> ms]]
        /\ tilled' = tilled \cup {<<v, m>> : m \in ms}
        /\ due' = [a \in Acct |-> IF <<a.owner, a.mint>> \in tilled' THEN 0 ELSE due[a]]
        /\ UNCHANGED <<made, prefunded>>
    BY <1>3 DEF InitConfig, VaultNamed
  <2>2. [vault |-> v, prog_owner |-> c, mints |-> ms] \in Record
    BY DEF Record
  <2>3. config' \in [ProgOwners -> Record \cup {NoConfig}]
    BY <2>1, <2>2 DEF IInv, TypeOK
  <2>4. tilled' \subseteq Vaults \X Mints
    BY <2>1 DEF IInv, TypeOK
  <2>5. due' \in [Acct -> Nat]
    BY <2>1 DEF IInv, TypeOK
  <2>6. TypeOK'
    BY <1>1, <2>1, <2>3, <2>4, <2>5 DEF IInv, TypeOK
  <2>7. DueIsThere'
    BY <1>1, <2>1 DEF IInv, DueIsThere
  <2>8. ASSUME NEW d \in ProgOwners, config'[d] # NoConfig
        PROVE  /\ config'[d].prog_owner = d
               /\ config'[d].vault = VaultPda(d)
               /\ \A m \in config'[d].mints : <<VaultPda(d), m>> \in tilled'
    <3>1. CASE d = c
      <4>1. config'[d] = [vault |-> v, prog_owner |-> c, mints |-> ms]
        BY <2>1, <3>1 DEF IInv, TypeOK
      <4> QED
        BY <2>1, <3>1, <4>1
    <3>2. CASE d # c
      <4>1. config'[d] = config[d]
        BY <2>1, <3>2 DEF IInv, TypeOK
      <4> QED
        BY <2>1, <2>8, <4>1 DEF IInv, ConfigNames, IsInit
    <3> QED
      BY <3>1, <3>2
  <2> QED
    BY <2>6, <2>7, <2>8 DEF IInv, ConfigNames, IsInit
<1>4. ASSUME NEW c \in ProgOwners, CloseConfigPda(c) PROVE IInv'
  <2>1. UNCHANGED <<made, prefunded, tilled, due>> /\ config' = [config EXCEPT ![c] = NoConfig]
    BY <1>4 DEF CloseConfigPda
  <2>2. TypeOK'
    BY <1>1, <2>1 DEF IInv, TypeOK
  <2>3. ASSUME NEW d \in ProgOwners, config'[d] # NoConfig PROVE config'[d] = config[d]
    BY <2>1, <2>3 DEF IInv, TypeOK
  <2> QED
    BY <1>1, <2>1, <2>2, <2>3 DEF IInv, DueIsThere, ConfigNames, IsInit
<1>5. ASSUME NEW u \in Users, MakeVault(u) PROVE IInv'
  BY <1>1, <1>5, VaultFacts DEF MakeVault, IInv, TypeOK, DueIsThere, ConfigNames, IsInit
<1>6. ASSUME NEW v \in Vaults, PrefundVault(v) PROVE IInv'
  BY <1>1, <1>6 DEF PrefundVault, IInv, TypeOK, DueIsThere, ConfigNames, IsInit
<1>7. ASSUME NEW e \in Escrows, MakeEscrow(e) \/ CloseEscrow(e) PROVE IInv'
  BY <1>1, <1>7 DEF MakeEscrow, CloseEscrow, IInv, TypeOK, DueIsThere, ConfigNames, IsInit
<1> QED
  BY <1>1, <1>2, <1>3, <1>4, <1>5, <1>6, <1>7 DEF Accounts

\* What wallets do with the token program takes nothing from a PDA.
LEMMA WalletsStep ==
    ASSUME IInv, Wallets
    PROVE  /\ IInv' /\ \A a \in Acct : Leaves(a)
           /\ \A p \in Pdas : Untouched(p)
<1>1. UNCHANGED <<made, prefunded, config, tilled, due>>
  BY DEF Wallets, OpenTokenAccount, SendTokens, CloseTokenAccount
<1>2. AccountsOK
  BY DEF IInv, TypeOK, AccountsOK
<1>3. AccountsOK' /\ \A p \in Pdas : Untouched(p)
  <2>1. ASSUME NEW a \in Opened, OpenTokenAccount(a)
        PROVE  AccountsOK' /\ \A p \in Pdas : Untouched(p)
    BY <1>2, <2>1, OpenedAreAccounts DEF OpenTokenAccount, AccountsOK, Untouched
  <2>2. ASSUME NEW a \in live, CloseTokenAccount(a)
        PROVE  AccountsOK' /\ \A p \in Pdas : Untouched(p)
    <3>1. a.owner \in Users /\ bal[a] = 0 /\ live' = live \ {a} /\ bal' = bal
      BY <2>2 DEF CloseTokenAccount, CanCloseAccount
    <3>2. \A p \in Pdas : Untouched(p)
      BY <1>2, <3>1, OwnersDiffer DEF AccountsOK, Untouched
    <3> QED
      BY <1>2, <3>1, <3>2 DEF AccountsOK
  <2>3. ASSUME NEW from \in live, NEW to \in live, NEW n \in Amounts, SendTokens(from, to, n)
        PROVE  AccountsOK' /\ \A p \in Pdas : Untouched(p)
    <3>1. /\ from \in Acct /\ to \in Acct /\ from # to /\ n \in Nat /\ bal[from] >= n
          /\ from.owner \in Users /\ live' = live /\ bal' = Transferred(bal, from, to, n)
      BY <1>2, <2>3, AmountsAreNat DEF SendTokens, CanTransfer, AccountsOK
    <3>2. /\ bal' \in [Acct -> Nat]
          /\ \A a \in Acct : a # from /\ a # to => bal'[a] = bal[a]
          /\ bal'[to] = bal[to] + n
      BY <1>2, <3>1, TransferredFacts DEF AccountsOK
    <3>3. AccountsOK'
      BY <1>2, <3>1, <3>2, <2>3 DEF AccountsOK
    <3>4. ASSUME NEW p \in Pdas, NEW a \in Acct, a.owner = p PROVE bal'[a] >= bal[a]
      <4>1. a # from /\ bal[a] \in Nat
        BY <1>2, <3>1, <3>4, OwnersDiffer DEF AccountsOK
      <4> QED
        BY <3>1, <3>2, <4>1
    <3> QED
      BY <3>1, <3>3, <3>4 DEF Untouched
  <2> QED
    BY <2>1, <2>2, <2>3 DEF Wallets
<1>4. DueIsThere'
  <2> SUFFICES ASSUME NEW a \in Acct, due[a] > 0
               PROVE  /\ a.owner \in Vaults /\ <<a.owner, a.mint>> \notin tilled
                      /\ bal'[a] >= due[a]
    BY <1>1 DEF DueIsThere
  <2>1. a.owner \in Vaults /\ <<a.owner, a.mint>> \notin tilled /\ bal[a] >= due[a]
    BY DEF IInv, DueIsThere
  <2>2. bal'[a] \in Nat /\ bal[a] \in Nat /\ due[a] \in Nat
    BY <1>3 DEF IInv, TypeOK, AccountsOK
  <2>3. bal'[a] >= bal[a]
    BY <1>3, <2>1, VaultFacts DEF Untouched
  <2> QED
    BY <2>1, <2>2, <2>3
<1>5. TypeOK'
  BY <1>1, <1>3 DEF IInv, TypeOK, AccountsOK
<1>6. ConfigNames'
  BY <1>1 DEF IInv, ConfigNames, IsInit
<1>7. ASSUME NEW a \in Acct PROVE Leaves(a)
  <2>1. bal'[a] \in Nat /\ bal[a] \in Nat
    BY <1>2, <1>3 DEF AccountsOK
  <2>2. a.owner \in Vaults => bal'[a] >= bal[a]
    BY <1>3, VaultFacts DEF Untouched
  <2> QED
    BY <2>1, <2>2 DEF Leaves
<1> QED
  BY <1>3, <1>4, <1>5, <1>6, <1>7 DEF IInv

(***************************************************************************)
(* Theorems                                                                *)
(***************************************************************************)
\* Every step of the specification keeps the invariant and takes from vaults
\* only by right.
LEMMA StepKeeps ==
    ASSUME IInv, Next
    PROVE  IInv' /\ \A a \in Acct : Leaves(a)
<1>1. CASE Deposit
  BY <1>1, DepositStep DEF Deposit
<1>2. CASE Withdraw
  BY <1>2, WithdrawStep DEF Withdraw
<1>3. CASE Pay
  BY <1>3, PayStep DEF Pay
<1>4. CASE Redeem
  BY <1>4, RedeemStep DEF Redeem
<1> QED
  BY <1>1, <1>2, <1>3, <1>4, AccountsStep, WalletsStep DEF Next

\* Nothing is due and no Config is there at the start.
LEMMA InitKeeps == Init => IInv
<1> SUFFICES ASSUME Init PROVE IInv
  OBVIOUS
<1>1. bal \in [Acct -> Nat]
  <2> SUFFICES ASSUME NEW a \in Acct, a \in live PROVE Funds[a.owner][a.mint] \in Nat
    BY DEF Init
  <2>1. a.owner \in Users /\ a.mint \in Mints
    BY AcctFields DEF Init
  <2> QED
    BY <2>1, FundsAreNat
<1> QED
  BY <1>1 DEF Init, IInv, TypeOK, DueIsThere, ConfigNames, IsInit

\* The inductive invariant holds throughout.
THEOREM Invariant == Spec => []IInv
<1>1. IInv /\ UNCHANGED vars => IInv'
  BY DEF IInv, TypeOK, DueIsThere, ConfigNames, IsInit, vars
<1>2. IInv /\ [Next]_vars => IInv'
  BY <1>1, StepKeeps
<1> QED
  BY <1>2, InitKeeps, PTL DEF Spec

\* Types, for every instance.
THEOREM TypeCorrect == Spec => []TypeOK
BY Invariant, PTL DEF IInv

\* Withdraw's guard holds for all that is due.
LEMMA InvMakesWithdrawable == IInv => DepositIsWithdrawable
<1> SUFFICES ASSUME IInv, NEW u \in Users, NEW a \in Acct,
                    a.owner = VaultPda(u), due[a] > 0
             PROVE  CanTokWithdraw(u, a.owner, a, a.mint, due[a])
  BY DEF DepositIsWithdrawable
<1>1. bal[a] >= due[a] /\ bal[a] \in Nat /\ due[a] \in Nat
  BY DEF IInv, DueIsThere, TypeOK
<1>2. a \in live
  BY <1>1 DEF IInv, TypeOK
<1> QED
  BY <1>1, <1>2 DEF CanTokWithdraw, Existing, CheckAta, AmountOk

\* A user's deposit in a vault that never was a till for the mint stays
\* withdrawable, in one instruction and without anybody's Config.
THEOREM DepositsWithdrawable == Spec => []DepositIsWithdrawable
BY InvMakesWithdrawable, Invariant, PTL

\* Redeem's guard holds for all that a made till holds.
LEMMA InvMakesRedeemable == IInv => PaidIsRedeemable
<1> SUFFICES ASSUME IInv, NEW c \in ProgOwners, NEW a \in live,
                    IsInit(c), a.owner = config[c].vault, a.owner \in made,
                    Accepts(c, a.mint), bal[a] > 0
             PROVE  CanTokRedeem(c, a.owner, a, a.mint, bal[a])
  BY DEF PaidIsRedeemable
<1>1. a \in Acct /\ bal[a] \in Nat /\ bal[a] >= bal[a]
  BY DEF IInv, TypeOK
<1>2. config[c].prog_owner = c /\ config[c].vault = VaultPda(c)
  BY DEF IInv, ConfigNames
<1> QED
  BY <1>1, <1>2 DEF CanTokRedeem, Existing, CheckAta, AmountOk, IsVaultOf

\* What lies in a till can be redeemed: through every closing and re-creation
\* of a Config its owner's seeds sign for the vault that it names.
THEOREM TillsRedeemable == Spec => []PaidIsRedeemable
BY InvMakesRedeemable, Invariant, PTL

\* No step of any instruction takes tokens from a vault but for its user or
\* out of a till, whole.
THEOREM VaultsPayByRight == Spec => LeavesByRight
<1>1. IInv /\ [Next]_vars => [\A a \in Acct : Leaves(a)]_vars
  BY StepKeeps
<1>2. [\A a \in Acct : Leaves(a)]_vars
         => [\A a \in Acct : a.owner \in Vaults /\ bal'[a] < bal[a] =>
               \E b \in Acct :
                  /\ b.owner \in Users /\ b.mint = a.mint
                  /\ bal'[a] + bal'[b] = bal[a] + bal[b]
                  /\ VaultPda(b.owner) = a.owner \/ IsTill(a.owner, a.mint)]_vars
  BY DEF Leaves
<1> QED
  BY <1>1, <1>2, Invariant, PTL DEF Spec, LeavesByRight

(***************************************************************************)
(* TokenVault implements Custody.  Every instruction moves tokens between  *)
(* two accounts or none, so the steps of Custody are found by the owners   *)
(* of these two.                                                           *)
(***************************************************************************)
\* A transfer takes from what the source's owner holds, and adds to what the
\* target's owner holds.
LEMMA HeldMoves ==
    ASSUME AccountsOK, NEW from \in Acct, NEW to \in Acct, from # to,
           NEW n \in Nat, bal[from] >= n, bal' = Transferred(bal, from, to, n),
           NEW O, NEW k
    PROVE  /\ Held(O, k) \in Nat
           /\ from.owner \in O /\ from.mint = k => Held(O, k) >= n
           /\ Held(O, k)' = (IF from.owner \in O /\ from.mint = k THEN Held(O, k) - n
                                                                  ELSE Held(O, k))
                               + (IF to.owner \in O /\ to.mint = k THEN n ELSE 0)
<1> DEFINE S == AccountsOf(O, k)
<1>1. S \in SUBSET Acct /\ bal \in [Acct -> Nat]
  BY DEF AccountsOf, AccountsOK
<1>2. /\ from \in S <=> (from.owner \in O /\ from.mint = k)
      /\ to \in S <=> (to.owner \in O /\ to.mint = k)
  BY DEF AccountsOf
<1>3. Held(O, k) = Total(bal, S) /\ Held(O, k)' = Total(Transferred(bal, from, to, n), S)
  BY DEF Held, AccountsOf
<1> HIDE DEF S
<1>4. /\ Total(bal, S) \in Nat
      /\ from \in S => Total(bal, S) >= n
      /\ Total(Transferred(bal, from, to, n), S)
           = (IF from \in S THEN Total(bal, S) - n ELSE Total(bal, S))
               + (IF to \in S THEN n ELSE 0)
  BY <1>1, AccountsAreFinite, TotalOfTransferred
<1> QED
  BY <1>2, <1>3, <1>4

\* Totals are numbers.
LEMMA HeldIsNat ==
    ASSUME NEW b \in [Acct -> Nat], NEW O, NEW k
    PROVE  Total(b, AccountsOf(O, k)) \in Nat
<1>1. IsFiniteSet(AccountsOf(O, k)) /\ \A a \in AccountsOf(O, k) : b[a] \in Nat
  BY AccountsAreFinite, FS_Subset DEF AccountsOf
<1> QED
  BY <1>1, TotalIsNat

\* Types of the abstract state, before and after a step.
LEMMA AbstractTypes ==
    ASSUME AccountsOK, AccountsOK'
    PROVE  /\ Purses \in [Users -> [Mints -> Nat]] /\ Purses' \in [Users -> [Mints -> Nat]]
           /\ InVaults \in [Users -> [Mints -> Nat]] /\ InVaults' \in [Users -> [Mints -> Nat]]
           /\ Elsewhere \in [Mints -> Nat] /\ Elsewhere' \in [Mints -> Nat]
<1>1. \A O, k : Held(O, k) \in Nat
  BY HeldIsNat DEF Held, AccountsOK
<1>2. \A O, k : Held(O, k)' \in Nat
  BY HeldIsNat DEF Held, AccountsOK, AccountsOf
<1> QED
  BY <1>1, <1>2 DEF Purses, InVaults, Elsewhere

\* What adding tokens to a table of holdings does.
LEMMA AddedIs ==
    ASSUME NEW f \in [Users -> [Mints -> Nat]], NEW g \in [Users -> [Mints -> Nat]],
           NEW u \in Users, NEW m \in Mints, NEW n \in Nat,
           \A v \in Users, k \in Mints :
               g[v][k] = f[v][k] + (IF v = u /\ k = m THEN n ELSE 0)
    PROVE  g = [f EXCEPT ![u][m] = @ + n]
<1>1. ASSUME NEW v \in Users PROVE g[v] = [f EXCEPT ![u][m] = @ + n][v]
  OBVIOUS
<1> QED
  BY <1>1

\* What taking tokens from a table of holdings does.
LEMMA TakenIs ==
    ASSUME NEW f \in [Users -> [Mints -> Nat]], NEW g \in [Users -> [Mints -> Nat]],
           NEW u \in Users, NEW m \in Mints, NEW n \in Nat,
           \A v \in Users, k \in Mints :
               g[v][k] = IF v = u /\ k = m THEN f[v][k] - n ELSE f[v][k]
    PROVE  g = [f EXCEPT ![u][m] = @ - n]
<1>1. ASSUME NEW v \in Users PROVE g[v] = [f EXCEPT ![u][m] = @ - n][v]
  OBVIOUS
<1> QED
  BY <1>1

\* No two users have the same vault, and a vault is neither a wallet nor any
\* other PDA.
LEMMA VaultsDiffer ==
    /\ \A u, v : VaultPda(u) = VaultPda(v) <=> u = v
    /\ Users \cap (ConfigPdas \cup Escrows) = {}
    /\ \A u \in Users : VaultPda(u) \notin Users /\ VaultPda(u) \notin ConfigPdas \cup Escrows
BY PdasAreNotWallets, EscrowsAreOthers DEF VaultPda, ConfigPda, ConfigPdas, Vaults, Pdas

\* A transfer out of a wallet is a gift, a payment into a vault, or is kept.
LEMMA WalletTransfers ==
    ASSUME AccountsOK, AccountsOK', UNCHANGED config,
           NEW from \in Acct, NEW to \in Acct, from # to,
           NEW m \in Mints, from.mint = m, to.mint = m,
           NEW n \in Nat \ {0}, bal[from] >= n, bal' = Transferred(bal, from, to, n),
           NEW u \in Users, from.owner = u
    PROVE  Abstract!Next
<1>1. /\ n \in 1 .. Purses[u][m]
      /\ \A v \in Users, k \in Mints :
            Purses'[v][k] = (IF v = u /\ k = m THEN Purses[v][k] - n ELSE Purses[v][k])
                              + (IF v = to.owner /\ k = m THEN n ELSE 0)
      /\ \A v \in Users, k \in Mints :
            InVaults'[v][k] = InVaults[v][k] + (IF VaultPda(v) = to.owner /\ k = m THEN n ELSE 0)
      /\ \A k \in Mints :
            Elsewhere'[k] = Elsewhere[k]
                              + (IF to.owner \in ConfigPdas \cup Escrows /\ k = m THEN n ELSE 0)
  <2>2. Held({u}, m) >= n /\ Held({u}, m) \in Nat
    BY HeldMoves
  <2>3. \A v \in Users, k \in Mints : 
            Held({v}, k)' = (IF v = u /\ k = m THEN Held({v}, k) - n ELSE Held({v}, k))
                              + (IF v = to.owner /\ k = m THEN n ELSE 0)
    BY HeldMoves
  <2>4. \A v \in Users, k \in Mints : 
            Held({VaultPda(v)}, k)' = Held({VaultPda(v)}, k)
                              + (IF VaultPda(v) = to.owner /\ k = m THEN n ELSE 0)
    BY HeldMoves, VaultsDiffer
  <2>5. \A k \in Mints : 
            Held(ConfigPdas \cup Escrows, k)' = Held(ConfigPdas \cup Escrows, k)
                              + (IF to.owner \in ConfigPdas \cup Escrows /\ k = m THEN n ELSE 0)
    BY HeldMoves, VaultsDiffer
  <2>6. n \in 1 .. Purses[u][m]
    BY <2>2 DEF Purses
  <2>7. \A v \in Users, k \in Mints :
            Purses'[v][k] = (IF v = u /\ k = m THEN Purses[v][k] - n ELSE Purses[v][k])
                              + (IF v = to.owner /\ k = m THEN n ELSE 0)
    BY <2>3 DEF Purses
  <2>8. \A v \in Users, k \in Mints :
            InVaults'[v][k] = InVaults[v][k] + (IF VaultPda(v) = to.owner /\ k = m THEN n ELSE 0)
    BY <2>4 DEF InVaults
  <2>9. \A k \in Mints :
            Elsewhere'[k] = Elsewhere[k]
                              + (IF to.owner \in ConfigPdas \cup Escrows /\ k = m THEN n ELSE 0)
    BY <2>5 DEF Elsewhere
  <2> QED
    BY <2>6, <2>7, <2>8, <2>9
<1>2. /\ Purses \in [Users -> [Mints -> Nat]] /\ Purses' \in [Users -> [Mints -> Nat]]
      /\ InVaults \in [Users -> [Mints -> Nat]] /\ InVaults' \in [Users -> [Mints -> Nat]]
      /\ Elsewhere \in [Mints -> Nat] /\ Elsewhere' \in [Mints -> Nat]
  BY AbstractTypes
<1>3. UNCHANGED Tills
  BY DEF Tills, Accepts, IsInit
<1>4. ASSUME NEW w \in Users, to.owner = w PROVE Abstract!Give(u, w, m, n)
  <2>1. InVaults' = InVaults
    <3>1. \A v \in Users : VaultPda(v) # w
      BY VaultsDiffer
    <3> QED
      BY <1>1, <1>2, <1>4, <3>1
  <2>2. Elsewhere' = Elsewhere
    BY <1>1, <1>2, <1>4, VaultsDiffer
  <2> DEFINE mid == Abstract!Taken(Purses, u, m, n)
  <2>3. /\ mid \in [Users -> [Mints -> Nat]]
        /\ \A v \in Users, k \in Mints :
              mid[v][k] = IF v = u /\ k = m THEN Purses[v][k] - n ELSE Purses[v][k]
    BY <1>1, <1>2 DEF Abstract!Taken
  <2>4. Purses' = Abstract!Added(mid, w, m, n)
    <3> HIDE DEF mid
    <3>1. \A v \in Users, k \in Mints :
              Purses'[v][k] = mid[v][k] + (IF v = w /\ k = m THEN n ELSE 0)
      BY <1>1, <1>4, <2>3
    <3> QED
      BY <1>2, <2>3, <3>1, AddedIs DEF Abstract!Added
  <2> QED
    BY <1>3, <2>1, <2>2, <2>4 DEF Abstract!Give
<1>5. to.owner \notin Users => Purses' = Abstract!Taken(Purses, u, m, n)
  <2> SUFFICES ASSUME to.owner \notin Users PROVE Purses' = Abstract!Taken(Purses, u, m, n)
    OBVIOUS
  <2>1. \A v \in Users, k \in Mints :
              Purses'[v][k] = IF v = u /\ k = m THEN Purses[v][k] - n ELSE Purses[v][k]
    BY <1>1, <1>2
  <2> QED
    BY <1>2, <2>1, TakenIs DEF Abstract!Taken
<1>6. ASSUME NEW v \in Users, to.owner = VaultPda(v) PROVE Abstract!PutIn(u, v, m, n)
  <2>1. Elsewhere' = Elsewhere
    BY <1>1, <1>2, <1>6, VaultsDiffer
  <2>2. \A w \in Users, k \in Mints :
              InVaults'[w][k] = InVaults[w][k] + (IF w = v /\ k = m THEN n ELSE 0)
    BY <1>1, <1>6, VaultsDiffer
  <2>3. InVaults' = Abstract!Added(InVaults, v, m, n)
    BY <1>2, <2>2, AddedIs DEF Abstract!Added
  <2> QED
    BY <1>3, <1>5, <1>6, <2>1, <2>3, VaultsDiffer DEF Abstract!PutIn
<1>7. ASSUME to.owner \in ConfigPdas \cup Escrows PROVE Abstract!GiveAway(u, m, n)
  <2>1. InVaults' = InVaults
    BY <1>1, <1>2, <1>7, VaultsDiffer
  <2>2. Elsewhere' = [Elsewhere EXCEPT ![m] = @ + n]
    BY <1>1, <1>2, <1>7
  <2> QED
    BY <1>3, <1>5, <1>7, <2>1, <2>2, VaultsDiffer DEF Abstract!GiveAway
<1>8. to.owner \in Users \/ to.owner \in ConfigPdas \cup Escrows
         \/ \E v \in Users : to.owner = VaultPda(v)
  BY AcctFields DEF Holders, Pdas, Vaults
<1> QED
  BY <1>1, <1>4, <1>6, <1>7, <1>8 DEF Abstract!Next

\* A transfer from a vault to a wallet takes out of it.
LEMMA VaultTransfers ==
    ASSUME AccountsOK, AccountsOK', UNCHANGED config,
           NEW from \in Acct, NEW to \in Acct, from # to,
           NEW m \in Mints, from.mint = m, to.mint = m,
           NEW n \in Nat \ {0}, bal[from] >= n, bal' = Transferred(bal, from, to, n),
           NEW v \in Users, from.owner = VaultPda(v), NEW u \in Users, to.owner = u,
           u = v \/ <<v, m>> \in Tills
    PROVE  Abstract!Next
<1>1. n \in Nat
  OBVIOUS
<1>2. n \in 1 .. InVaults[v][m]
  <2>1. Held({VaultPda(v)}, m) >= n /\ Held({VaultPda(v)}, m) \in Nat
    BY HeldMoves
  <2> QED
    BY <1>1, <2>1 DEF InVaults
<1>3. \A w \in Users, k \in Mints :
            Purses'[w][k] = Purses[w][k] + (IF w = u /\ k = m THEN n ELSE 0)
  <2>1. \A w \in Users, k \in Mints :
            Held({w}, k)' = Held({w}, k) + (IF w = u /\ k = m THEN n ELSE 0)
    BY HeldMoves, VaultsDiffer
  <2> QED
    BY <2>1 DEF Purses
<1>4. \A w \in Users, k \in Mints :
            InVaults'[w][k] = IF w = v /\ k = m THEN InVaults[w][k] - n ELSE InVaults[w][k]
  <2>1. \A w \in Users, k \in Mints :
            Held({VaultPda(w)}, k)' = IF w = v /\ k = m THEN Held({VaultPda(w)}, k) - n
                                                        ELSE Held({VaultPda(w)}, k)
    BY HeldMoves, VaultsDiffer
  <2> QED
    BY <2>1 DEF InVaults
<1>5. \A k \in Mints : Elsewhere'[k] = Elsewhere[k]
  <2>1. \A k \in Mints : Held(ConfigPdas \cup Escrows, k)' = Held(ConfigPdas \cup Escrows, k)
    BY HeldMoves, VaultsDiffer
  <2> QED
    BY <2>1 DEF Elsewhere
<1>6. /\ Purses' = Abstract!Added(Purses, u, m, n)
      /\ InVaults' = Abstract!Taken(InVaults, v, m, n)
      /\ Elsewhere' = Elsewhere
  <2>1. Purses' = Abstract!Added(Purses, u, m, n)
    BY <1>3, AbstractTypes, AddedIs DEF Abstract!Added
  <2>2. InVaults' = Abstract!Taken(InVaults, v, m, n)
    BY <1>4, AbstractTypes, TakenIs DEF Abstract!Taken
  <2>3. Elsewhere' = Elsewhere
    BY <1>5, AbstractTypes
  <2> QED
    BY <2>1, <2>2, <2>3
<1>7. UNCHANGED Tills
  BY DEF Tills, Accepts, IsInit
<1>8. Abstract!TakeOut(u, v, m, n)
  BY <1>6, <1>7 DEF Abstract!TakeOut
<1> QED
  BY <1>1, <1>2, <1>8 DEF Abstract!Next

\* What changes neither balances nor Configs is a stuttering step.
LEMMA Stutters ==
    ASSUME UNCHANGED <<bal, config>>
    PROVE  UNCHANGED Abstract!vars
BY DEF Abstract!vars, Purses, InVaults, Elsewhere, Tills, Held, AccountsOf, Accepts, IsInit

\* Every instruction that moves tokens is a step of Custody.
LEMMA PaymentsImplement ==
    ASSUME IInv, Deposit \/ Withdraw \/ Pay \/ Redeem
    PROVE  Abstract!Next
<1>1. AccountsOK /\ AccountsOK'
  BY StepKeeps DEF Next, IInv, TypeOK, AccountsOK
<1>2. UNCHANGED config
  BY DEF Deposit, TokLgcDeposit, Withdraw, TokLgcWithdraw, Pay, TokLgcPay, Redeem, TokLgcRedeem
<1>3. ASSUME NEW u \in Users, NEW w \in Pdas, NEW m \in Mints, NEW n \in Amounts,
             NEW from \in Existing(u, m), NEW to \in Usable(w, m), AmountOk(from, n),
             Pays(from, to, m, u, n)
      PROVE  Abstract!Next
  <2>1. /\ from \in Acct /\ from.owner = u /\ from.mint = m
        /\ to \in Acct /\ to.owner = w /\ to.mint = m
    BY <1>1, NamedAccounts
  <2>2. n \in Nat \ {0} /\ bal[from] >= n /\ bal' = Transferred(bal, from, to, n)
    BY <1>3, AmountsAreNat DEF AmountOk, Pays
  <2>3. from # to
    BY <2>1, OwnersDiffer
  <2> QED
    BY <1>1, <1>2, <2>1, <2>2, <2>3, WalletTransfers
<1>4. ASSUME NEW u \in Users, NEW v \in Users, NEW m \in Mints, NEW n \in Amounts,
             u = v \/ <<v, m>> \in Tills,
             NEW from \in Existing(VaultPda(v), m), NEW to \in Usable(u, m), AmountOk(from, n),
             Pays(from, to, m, VaultPda(v), n)
      PROVE  Abstract!Next
  <2>1. /\ from \in Acct /\ from.owner = VaultPda(v) /\ from.mint = m
        /\ to \in Acct /\ to.owner = u /\ to.mint = m
    BY <1>1, NamedAccounts
  <2>2. n \in Nat \ {0} /\ bal[from] >= n /\ bal' = Transferred(bal, from, to, n)
    BY <1>4, AmountsAreNat DEF AmountOk, Pays
  <2>3. from # to
    BY <2>1, OwnersDiffer, VaultFacts
  <2> QED
    BY <1>1, <1>2, <1>4, <2>1, <2>2, <2>3, VaultTransfers
<1>5. CASE Deposit
  BY <1>3, <1>5 DEF Deposit, TokLgcDeposit
<1>6. CASE Withdraw
  BY <1>4, <1>6 DEF Withdraw, TokLgcWithdraw, CanTokWithdraw
<1>7. CASE Pay
  BY <1>3, <1>7, VaultFacts DEF Pay, TokLgcPay
<1>8. CASE Redeem
  <2>1. PICK u \in Users, c \in ProgOwners, v \in Vaults, m \in Mints, n \in Amounts :
               TokLgcRedeem(u, c, v, m, n)
    BY <1>8 DEF Redeem
  <2>2. PICK from \in Existing(v, m), to \in Usable(u, m) :
               CanTokRedeem(c, v, from, m, n) /\ Pays(from, to, m, v, n)
    BY <2>1 DEF TokLgcRedeem
  <2>3. c \in Users /\ VaultPda(c) = v /\ Accepts(c, m) /\ AmountOk(from, n)
    BY <2>2, OwnersAreUsers DEF CanTokRedeem, Accepts, IInv, ConfigNames
  <2>4. <<c, m>> \in Tills
    BY <2>3 DEF Tills
  <2> QED
    BY <1>4, <2>2, <2>3, <2>4
<1> QED
  BY <1>5, <1>6, <1>7, <1>8

\* A Config opens its owner's till, if it accepts any mint, and its closing
\* closes the till; nothing else does.
LEMMA AccountsImplement ==
    ASSUME IInv, Accounts
    PROVE  Abstract!Next \/ UNCHANGED Abstract!vars
<1>1. UNCHANGED bal
  BY AccountsStep
<1>2. UNCHANGED <<Purses, InVaults, Elsewhere>>
  BY <1>1 DEF Purses, InVaults, Elsewhere, Held, AccountsOf
<1>3. config \in [ProgOwners -> Record \cup {NoConfig}]
  BY DEF IInv, TypeOK
<1>4. ASSUME NEW c \in ProgOwners, NEW v \in Vaults, NEW ms \in SUBSET Mints,
             InitConfig(c, v, ms)
      PROVE  Abstract!Next
  <2> DEFINE new == [vault |-> v, prog_owner |-> c, mints |-> ms]
  <2>1. ~IsInit(c) /\ config' = [config EXCEPT ![c] = new]
    BY <1>4 DEF InitConfig
  <2>2. new \in Record /\ new.mints = ms
    BY DEF Record
  <2>3. \A d \in ProgOwners, m \in Mints :
          /\ d # c => (Accepts(d, m)' <=> Accepts(d, m))
          /\ d = c => ~Accepts(d, m) /\ (Accepts(d, m)' <=> m \in ms)
    <3> HIDE DEF new
    <3> QED
      BY <1>3, <2>1, <2>2, NoConfigIsNoRecord DEF Accepts, IsInit
  <2>4. Tills' = Tills \cup ({c} \X ms) /\ \A m \in Mints : <<c, m>> \notin Tills
    BY <2>3 DEF Tills
  <2> QED
    BY <1>2, <2>4, OwnersAreUsers DEF Abstract!Next, Abstract!OpenTill, Abstract!IsTill
<1>5. ASSUME NEW c \in ProgOwners, CloseConfigPda(c)
      PROVE  Abstract!Next \/ UNCHANGED Abstract!vars
  <2>1. \A d \in ProgOwners, m \in Mints :
          /\ d # c => (Accepts(d, m)' <=> Accepts(d, m))
          /\ d = c => ~Accepts(d, m)'
    BY <1>3, <1>5 DEF CloseConfigPda, Accepts, IsInit
  <2>2. Tills' = Tills \ ({c} \X Mints)
    BY <2>1 DEF Tills
  <2>3. CASE Abstract!IsTill(c)
    BY <1>2, <2>2, <2>3, OwnersAreUsers DEF Abstract!Next, Abstract!CloseTill
  <2>4. CASE ~Abstract!IsTill(c)
    <3>1. Tills' = Tills
      BY <2>2, <2>4 DEF Abstract!IsTill
    <3> QED
      BY <1>2, <3>1 DEF Abstract!vars
  <2> QED
    BY <2>3, <2>4
<1>6. (\/ \E u \in Users : MakeVault(u)
       \/ \E v \in Vaults : PrefundVault(v)
       \/ \E e \in Escrows : MakeEscrow(e) \/ CloseEscrow(e)) => UNCHANGED Abstract!vars
  BY Stutters DEF MakeVault, PrefundVault, MakeEscrow, CloseEscrow
<1> QED
  BY <1>4, <1>5, <1>6 DEF Accounts

\* Wallets give tokens away, and their accounts come and go empty.
LEMMA WalletsImplement ==
    ASSUME IInv, Wallets
    PROVE  Abstract!Next \/ UNCHANGED Abstract!vars
<1>1. AccountsOK /\ AccountsOK'
  BY WalletsStep DEF IInv, TypeOK, AccountsOK
<1>2. ASSUME NEW from \in live, NEW to \in live, NEW n \in Amounts, SendTokens(from, to, n)
      PROVE  Abstract!Next
  <2>1. /\ from \in Acct /\ to \in Acct /\ from # to /\ n \in Nat \ {0} /\ bal[from] >= n
        /\ from.owner \in Users /\ to.mint = from.mint
        /\ bal' = Transferred(bal, from, to, n) /\ UNCHANGED config
    BY <1>1, <1>2, AmountsAreNat DEF SendTokens, CanTransfer, AccountsOK
  <2>2. from.mint \in Mints
    BY <2>1, AcctFields
  <2> QED
    BY <1>1, <2>1, <2>2, WalletTransfers
<1>3. (\/ \E a \in Opened : OpenTokenAccount(a)
       \/ \E a \in live : CloseTokenAccount(a)) => UNCHANGED Abstract!vars
  BY Stutters DEF OpenTokenAccount, CloseTokenAccount
<1> QED
  BY <1>2, <1>3 DEF Wallets

\* At the start all tokens are in purses.
LEMMA InitImplements == Init => Abstract!Init
<1> SUFFICES ASSUME Init PROVE Abstract!Init
  OBVIOUS
<1>1. bal \in [Acct -> Nat]
  BY InitKeeps DEF IInv, TypeOK
<1>2. \A a \in Acct : bal[a] > 0 => a.owner \in Users /\ a = Ata(a.owner, a.mint)
  <2> SUFFICES ASSUME NEW a \in Acct, bal[a] > 0
               PROVE  a.owner \in Users /\ a = Ata(a.owner, a.mint)
    OBVIOUS
  <2>1. a.owner \in Users /\ a.slot = 0
    BY DEF Init
  <2> QED
    BY <2>1, ExtraAccounts DEF Acct, Ata
<1>3. \A O, k : Held(O, k) # 0 => \E a \in Acct : a.owner \in O /\ bal[a] > 0
  <2> SUFFICES ASSUME NEW O, NEW k, \A a \in Acct : ~(a.owner \in O /\ bal[a] > 0)
               PROVE  Held(O, k) = 0
    OBVIOUS
  <2>1. \A a \in AccountsOf(O, k) : bal[a] = 0
    BY <1>1 DEF AccountsOf
  <2> QED
    BY <2>1, TotalOfEmpty DEF Held
<1>4. ASSUME NEW u \in Users, NEW m \in Mints PROVE Held({u}, m) = Funds[u][m]
  <2> DEFINE ata == Ata(u, m)  S == AccountsOf({u}, m)
  <2>1. ata \in S /\ S \subseteq Acct
    BY DEF Ata, Acct, Holders, AccountsOf
  <2>2. IsFiniteSet(S)
    BY <2>1, AccountsAreFinite, FS_Subset
  <2>3. \A a \in S \ {ata} : bal[a] = 0
    BY <1>1, <1>2 DEF AccountsOf
  <2>4. Held({u}, m) = bal[ata]
    <3> HIDE DEF ata, S
    <3>1. \A a \in S : bal[a] \in Nat
      BY <1>1, <2>1
    <3>2. Total(bal, S) = bal[ata]
      BY <2>1, <2>2, <2>3, <3>1, TotalOfOne
    <3> QED
      BY <3>2 DEF Held, S
  <2>5. bal[ata] = Funds[u][m]
    <3>1. Funds[u][m] \in Nat
      BY FundsAreNat
    <3>2. ata \in Acct /\ ata.owner = u /\ ata.mint = m /\ ata.slot = 0
      BY <2>1 DEF Ata
    <3> HIDE DEF ata
    <3> QED
      BY <3>1, <3>2 DEF Init
  <2> QED
    BY <2>4, <2>5
<1>5. Purses = Funds
  BY <1>4, FundsAreNat DEF Purses
<1>6. /\ InVaults = [u \in Users |-> [m \in Mints |-> 0]]
      /\ Elsewhere = [m \in Mints |-> 0]
  <2>1. \A u \in Users, m \in Mints : Held({VaultPda(u)}, m) = 0
    BY <1>2, <1>3, VaultsDiffer
  <2>2. \A m \in Mints : Held(ConfigPdas \cup Escrows, m) = 0
    BY <1>2, <1>3, VaultsDiffer
  <2> QED
    BY <2>1, <2>2 DEF InVaults, Elsewhere
<1>7. Tills = {}
  BY DEF Init, Tills, Accepts, IsInit
<1> QED
  BY <1>5, <1>6, <1>7 DEF Abstract!Init

\* Whichever accounts are named, created or closed: tokens are neither lost
\* nor doubled, and leave a vault for its user or out of a till only.
THEOREM CustodyIsKept == Spec => ImplementsCustody
<1>1. IInv /\ [Next]_vars => [Abstract!Next]_Abstract!vars
  <2>1. ASSUME IInv, Next PROVE [Abstract!Next]_Abstract!vars
    BY <2>1, PaymentsImplement, AccountsImplement, WalletsImplement DEF Next
  <2>2. UNCHANGED vars => UNCHANGED Abstract!vars
    BY Stutters DEF vars
  <2> QED
    BY <2>1, <2>2
<1> QED
  BY <1>1, InitImplements, Invariant, PTL DEF Spec, ImplementsCustody, Abstract!Spec
==============================================================================
