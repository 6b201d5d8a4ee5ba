--------------------------- MODULE TokenMintProofs ----------------------------
(***************************************************************************)
(* Theorems about TokenMint, for any sets of users, mints, accounts and    *)
(* amounts and any limit of the supply.                                    *)
(***************************************************************************)
EXTENDS TokenMint, TLAPS

(***************************************************************************)
(* The type invariant is inductive; the rest follows from it.              *)
(***************************************************************************)
\* The address of a token account tells who owns it and what it holds.
LEMMA AcctFields ==
    ASSUME NEW a \in Acct
    PROVE  a.owner \in Users /\ a.mint \in Mints
BY ExtraAccounts DEF Acct, Ata

\* Every wallet has an ATA for every mint.
LEMMA AtaFacts ==
    ASSUME NEW w \in Users, NEW m \in Mints
    PROVE  Ata(w, m) \in Acct /\ Ata(w, m).owner = w /\ Ata(w, m).mint = m
BY DEF Acct, Ata

\* What a step does to the mints that there are, and who signed for a supply
\* that grows.
Fixed ==
    \A m \in Mints : IsMint(m) =>
        /\ IsMint(m)'
        /\ mint'[m].prog = mint[m].prog
        /\ mint'[m].decimals = mint[m].decimals
        /\ mint'[m].freeze = mint[m].freeze

Issued == \A m \in Mints : Supply(m)' > Supply(m) => mint[m].auth = signer'

\* A new mint is a record, where none was.
LEMMA InitMintStep ==
    ASSUME TypeOK, NEW payer \in Users, NEW m \in Mints, NEW prog \in Programs,
           NEW auth \in Users, NEW dec \in Decimals,
           NEW freeze \in Programs \cup {SystemProgram, Nobody},
           InitMint(payer, m, prog, auth, freeze, dec)
    PROVE  TypeOK' /\ Fixed /\ Issued
<1> DEFINE new == [prog |-> prog, auth |-> auth, freeze |-> freeze,
                   decimals |-> dec, supply |-> 0]
<1>1. new \in Record /\ new # NoMint
  <2>1. dec \in 0 .. MaxDecimals /\ 0 \in 0 .. MaxSupply
    BY NumbersAreNat DEF InitMint, CanInitMint, MaxDecimals
  <2> QED
    BY <2>1, NoMintIsNoRecord DEF Record
<1>2. /\ mint' = [mint EXCEPT ![m] = new]
      /\ funded' = funded \cup {m}
      /\ signer' = payer
      /\ UNCHANGED <<live, bal>>
  BY DEF InitMint, NewMint
<1>3. ~IsMint(m)
  BY DEF InitMint, CanInitMint, TypeOK
<1>4. /\ mint' \in [Mints -> Record \cup {NoMint}]
      /\ mint'[m] = new
      /\ \A k \in Mints : k # m => mint'[k] = mint[k]
  BY <1>1, <1>2 DEF TypeOK
<1>5. TypeOK'
  <2>1. funded' \subseteq Address /\ live' \subseteq funded'
    BY <1>2 DEF TypeOK, Address
  <2>2. \A k \in Mints : IsMint(k)' => k \in funded'
    BY <1>2, <1>4 DEF TypeOK, IsMint
  <2>3. \A a \in live' : IsMint(a.mint)'
    <3> SUFFICES ASSUME NEW a \in live PROVE mint'[a.mint] # NoMint
      BY <1>2 DEF IsMint
    <3>1. a.mint \in Mints /\ mint[a.mint] # NoMint
      BY AcctFields DEF TypeOK, IsMint
    <3> QED
      BY <1>1, <1>4, <3>1
  <2> QED
    BY <1>2, <1>4, <2>1, <2>2, <2>3 DEF TypeOK
<1>6. Fixed
  BY <1>3, <1>4 DEF Fixed, IsMint
<1>7. Issued
  <2> SUFFICES ASSUME NEW k \in Mints PROVE ~(Supply(k)' > Supply(k))
    BY DEF Issued
  <2>1. CASE k = m
    <3>1. Supply(k)' = 0 /\ Supply(k) = 0
      BY <1>1, <1>3, <1>4, <2>1 DEF Supply, IsMint
    <3> QED
      BY <3>1
  <2>2. CASE k # m
    <3>1. Supply(k)' = Supply(k)
      BY <1>4, <2>2 DEF Supply, IsMint
    <3>2. Supply(k) \in Nat
      BY NumbersAreNat DEF Supply, IsMint, TypeOK, Record
    <3> QED
      BY <3>1, <3>2
  <2> QED
    BY <2>1, <2>2
<1> QED
  BY <1>5, <1>6, <1>7

\* An instruction that changes no mint keeps them all as they are.
LEMMA MintsUnchanged ==
    ASSUME TypeOK, mint' = mint
    PROVE  Fixed /\ Issued
<1>1. Fixed
  BY DEF Fixed, IsMint
<1>2. ASSUME NEW m \in Mints PROVE Supply(m)' = Supply(m) /\ Supply(m) \in Nat
  BY NumbersAreNat DEF Supply, IsMint, TypeOK, Record
<1> QED
  BY <1>1, <1>2 DEF Issued

\* A step that only replaces the authority or the supply of a mint keeps what
\* the mint is.
LEMMA MintUpdated ==
    ASSUME TypeOK, NEW m \in Mints, IsMint(m), NEW rec \in Record,
           mint' = [mint EXCEPT ![m] = rec],
           rec.prog = mint[m].prog, rec.decimals = mint[m].decimals,
           rec.freeze = mint[m].freeze,
           rec.supply > mint[m].supply => mint[m].auth = signer'
    PROVE  /\ mint' \in [Mints -> Record \cup {NoMint}]
           /\ \A k \in Mints : IsMint(k)' <=> IsMint(k)
           /\ Fixed /\ Issued
<1>1. /\ mint' \in [Mints -> Record \cup {NoMint}]
      /\ mint'[m] = rec /\ rec # NoMint
      /\ \A k \in Mints : k # m => mint'[k] = mint[k]
  BY NoMintIsNoRecord DEF TypeOK
<1>2. \A k \in Mints : IsMint(k)' <=> IsMint(k)
  BY <1>1 DEF IsMint
<1>3. Fixed
  BY <1>1, <1>2 DEF Fixed
<1>4. ASSUME NEW k \in Mints, Supply(k)' > Supply(k) PROVE mint[k].auth = signer'
  <2>1. CASE k = m
    BY <1>1, <1>4, <2>1 DEF Supply, IsMint
  <2>2. CASE k # m
    <3>1. Supply(k)' = Supply(k)
      BY <1>1, <2>2 DEF Supply, IsMint
    <3>2. Supply(k) \in Nat
      BY NumbersAreNat DEF Supply, IsMint, TypeOK, Record
    <3> QED
      BY <1>4, <3>1, <3>2
  <2> QED
    BY <2>1, <2>2
<1> QED
  BY <1>1, <1>2, <1>3, <1>4 DEF Issued

\* An account for a wallet is one more account of a mint that there is.
LEMMA InitAtaStep ==
    ASSUME TypeOK, NEW payer \in Users, NEW w \in Users, NEW m \in Mints,
           NEW prog \in Programs, InitAta(payer, w, m, prog)
    PROVE  TypeOK' /\ Fixed /\ Issued
<1>1. Fixed /\ Issued
  BY MintsUnchanged DEF InitAta
<1>2. Ata(w, m) \in Acct /\ Ata(w, m).mint = m
  BY AtaFacts
<1> QED
  BY <1>1, <1>2 DEF InitAta, TypeOK, Address, IsMint

\* Issuing adds to the supply, signed by the authority.
LEMMA MintTokenStep ==
    ASSUME TypeOK, NEW s \in Users, NEW w \in Users, NEW m \in Mints, NEW a \in Acct,
           NEW prog \in Programs, NEW dec \in Decimals, NEW n \in Amounts,
           MintToken(s, w, m, a, prog, dec, n)
    PROVE  TypeOK' /\ Fixed /\ Issued
<1> DEFINE rec == [mint[m] EXCEPT !.supply = @ + n]
<1>1. /\ IsMint(m) /\ mint[m].auth = s /\ n \in Nat /\ n > 0
      /\ mint[m].supply + n <= MaxSupply
      /\ mint' = [mint EXCEPT ![m].supply = @ + n]
      /\ live' = live \cup {a}
      /\ bal' = [bal EXCEPT ![a] = @ + n]
      /\ funded' = funded \cup {a}
      /\ signer' = s
  BY NumbersAreNat DEF MintToken, CanMintToken, MayIssue
<1>2. a.mint = m
  BY AtaFacts DEF MintToken, CanMintToken, AccountReady, CheckAta
<1>3. mint[m] \in Record
  BY <1>1 DEF TypeOK, IsMint
<1>4. rec \in Record /\ rec.prog = mint[m].prog /\ rec.decimals = mint[m].decimals
        /\ rec.freeze = mint[m].freeze /\ rec.supply = mint[m].supply + n
  BY <1>1, <1>3, NumbersAreNat DEF Record
<1>5. mint' = [mint EXCEPT ![m] = rec]
  BY <1>1
<1>6. /\ mint' \in [Mints -> Record \cup {NoMint}]
      /\ \A k \in Mints : IsMint(k)' <=> IsMint(k)
      /\ Fixed /\ Issued
  <2> HIDE DEF rec
  <2> QED
    BY <1>1, <1>4, <1>5, MintUpdated
<1>7. bal' \in [Acct -> Nat] /\ \A b \in Acct \ live' : bal'[b] = 0
  BY <1>1 DEF TypeOK
<1>8. \A b \in live' : IsMint(b.mint)'
  <2> SUFFICES ASSUME NEW b \in live' PROVE IsMint(b.mint)'
    OBVIOUS
  <2>1. b \in Acct /\ b.mint \in Mints
    BY <1>1, AcctFields DEF TypeOK
  <2>2. IsMint(b.mint)
    BY <1>1, <1>2 DEF TypeOK
  <2> QED
    BY <1>6, <2>1, <2>2
<1>9. funded' \subseteq Address /\ live' \subseteq funded' /\ live' \subseteq Acct
  BY <1>1 DEF TypeOK, Address
<1>10. \A k \in Mints : IsMint(k)' => k \in funded'
  BY <1>1, <1>6 DEF TypeOK
<1>11. TypeOK'
  BY <1>1, <1>6, <1>7, <1>8, <1>9, <1>10 DEF TypeOK
<1> QED
  BY <1>6, <1>11

\* The authority's own hand on a mint does not add to its supply.
LEMMA SetAuthorityStep ==
    ASSUME TypeOK, NEW s \in Users, NEW m \in Mints, NEW to \in Users \cup {Nobody},
           SetAuthority(s, m, to)
    PROVE  TypeOK' /\ Fixed /\ Issued
<1> DEFINE rec == [mint[m] EXCEPT !.auth = to]
<1>1. /\ IsMint(m) /\ mint' = [mint EXCEPT ![m].auth = to] /\ signer' = s
      /\ UNCHANGED <<live, bal, funded>>
  BY DEF SetAuthority
<1>2. mint[m] \in Record
  BY <1>1 DEF TypeOK, IsMint
<1>3. rec \in Record /\ rec.prog = mint[m].prog /\ rec.decimals = mint[m].decimals
        /\ rec.freeze = mint[m].freeze /\ rec.supply = mint[m].supply
  BY <1>2 DEF Record
<1>4. mint' = [mint EXCEPT ![m] = rec] /\ ~(rec.supply > mint[m].supply)
  BY <1>1, <1>2, <1>3, NumbersAreNat DEF Record
<1>5. /\ mint' \in [Mints -> Record \cup {NoMint}]
      /\ \A k \in Mints : IsMint(k)' <=> IsMint(k)
      /\ Fixed /\ Issued
  <2> HIDE DEF rec
  <2> QED
    BY <1>1, <1>3, <1>4, MintUpdated
<1>6. \A b \in live' : IsMint(b.mint)'
  BY <1>1, <1>5, AcctFields DEF TypeOK
<1> QED
  BY <1>1, <1>5, <1>6 DEF TypeOK

\* Burning only takes.
LEMMA BurnStep ==
    ASSUME TypeOK, NEW a \in live, NEW n \in Amounts, Burn(a, n)
    PROVE  TypeOK' /\ Fixed /\ Issued
<1> DEFINE m == a.mint
           rec == [mint[m] EXCEPT !.supply = @ - n]
<1>1. a \in Acct /\ m \in Mints /\ IsMint(m) /\ a.owner \in Users
  BY AcctFields DEF TypeOK
<1>2. /\ n \in Nat /\ n > 0 /\ bal[a] >= n /\ mint[m].supply >= n
      /\ bal' = [bal EXCEPT ![a] = @ - n]
      /\ mint' = [mint EXCEPT ![m].supply = @ - n]
      /\ signer' = a.owner
      /\ UNCHANGED <<live, funded>>
  BY NumbersAreNat DEF Burn
<1>3. mint[m] \in Record
  BY <1>1 DEF TypeOK, IsMint
<1>4. rec \in Record /\ rec.prog = mint[m].prog /\ rec.decimals = mint[m].decimals
        /\ rec.freeze = mint[m].freeze /\ rec.supply = mint[m].supply - n
  BY <1>2, <1>3, NumbersAreNat DEF Record
<1>5. mint' = [mint EXCEPT ![m] = rec] /\ ~(rec.supply > mint[m].supply)
  BY <1>2, <1>3, <1>4, NumbersAreNat DEF Record
<1>6. /\ mint' \in [Mints -> Record \cup {NoMint}]
      /\ \A k \in Mints : IsMint(k)' <=> IsMint(k)
      /\ Fixed /\ Issued
  <2> HIDE DEF rec, m
  <2> QED
    BY <1>1, <1>4, <1>5, MintUpdated
<1>7. bal' \in [Acct -> Nat] /\ \A b \in Acct \ live' : bal'[b] = 0
  BY <1>1, <1>2 DEF TypeOK
<1>8. \A b \in live' : IsMint(b.mint)'
  BY <1>2, <1>6, AcctFields DEF TypeOK
<1> QED
  BY <1>1, <1>2, <1>6, <1>7, <1>8 DEF TypeOK

\* What wallets do with token accounts and lamports changes no mint.
LEMMA WalletsStep ==
    ASSUME TypeOK, Wallets
    PROVE  TypeOK' /\ Fixed /\ Issued
<1>1. ASSUME NEW from \in live, NEW to \in live, NEW n \in Amounts, SendTokens(from, to, n)
      PROVE  TypeOK' /\ Fixed /\ Issued
  <2>1. from \in Acct /\ to \in Acct /\ n \in Nat /\ bal[from] >= n
    BY <1>1, NumbersAreNat DEF TypeOK, SendTokens, CanTransfer
  <2>2. bal' \in [Acct -> Nat] /\ \A b \in Acct \ live : bal'[b] = 0
    BY <1>1, <2>1 DEF TypeOK, SendTokens, Transferred
  <2> QED
    BY <1>1, <2>2, MintsUnchanged DEF SendTokens, TypeOK, IsMint
<1>2. ASSUME NEW a \in Acct, OpenTokenAccount(a) PROVE TypeOK' /\ Fixed /\ Issued
  BY <1>2, MintsUnchanged DEF OpenTokenAccount, TypeOK, IsMint, Address
<1>3. ASSUME NEW a \in live, CloseTokenAccount(a) PROVE TypeOK' /\ Fixed /\ Issued
  <2>1. a \in Acct /\ \A m \in Mints : m # a
    BY AddressesDiffer DEF TypeOK
  <2> QED
    BY <1>3, <2>1, MintsUnchanged DEF CloseTokenAccount, CanCloseAccount, TypeOK, IsMint
<1>4. ASSUME NEW x \in Address, FundAddress(x) PROVE TypeOK' /\ Fixed /\ Issued
  BY <1>4, MintsUnchanged DEF FundAddress, TypeOK, IsMint
<1>5. ASSUME NEW x \in Users \cup Mints, DrainAddress(x) PROVE TypeOK' /\ Fixed /\ Issued
  <2>1. x \notin Acct /\ \A m \in Mints : IsMint(m) => m # x
    BY <1>5, AddressesDiffer DEF DrainAddress
  <2> QED
    BY <1>5, <2>1, MintsUnchanged DEF DrainAddress, TypeOK, IsMint
<1> QED
  BY <1>1, <1>2, <1>3, <1>4, <1>5, SetAuthorityStep, BurnStep DEF Wallets

\* Every step of the specification.
LEMMA StepKeeps ==
    ASSUME TypeOK, Next
    PROVE  TypeOK' /\ Fixed /\ Issued
<1>1. CASE MakeMints
  <2>1. ASSUME NEW payer \in Users, NEW auth \in Users, NEW m \in Mints, NEW dec \in Decimals,
               NEW passed \in Users \cup Programs \cup {SystemProgram},
               TokenLgcInitMint(payer, m, auth, passed, dec)
        PROVE  TypeOK' /\ Fixed /\ Issued
    BY <2>1, InitMintStep DEF TokenLgcInitMint, FreezeLgc, Programs
  <2>2. ASSUME NEW payer \in Users, NEW auth \in Users, NEW m \in Mints, NEW dec \in Decimals,
               NEW passed \in Users \cup Programs \cup {SystemProgram},
               NEW prog \in Programs, Token2022InitMint(payer, m, prog, auth, passed, dec)
        PROVE  TypeOK' /\ Fixed /\ Issued
    BY <2>2, InitMintStep DEF Token2022InitMint, Freeze22
  <2> QED
    BY <1>1, <2>1, <2>2 DEF MakeMints
<1>2. CASE MakeAccounts
  BY <1>2, InitAtaStep DEF MakeAccounts, TokenLgcInitAta, Token2022InitAta, Programs
<1>3. CASE Issue
  BY <1>3, MintTokenStep DEF Issue, TokLgcMintToken, Token2022MintToken, Programs
<1> QED
  BY <1>1, <1>2, <1>3, WalletsStep DEF Next

(***************************************************************************)
(* Theorems                                                                *)
(***************************************************************************)
\* Types, for every instance.
THEOREM TypeCorrect == Spec => []TypeOK
<1>1. Init => TypeOK
  BY FundedAreUsers DEF Init, TypeOK, IsMint, Address
<1>2. TypeOK /\ UNCHANGED vars => TypeOK'
  BY DEF TypeOK, vars, IsMint
<1>3. TypeOK /\ [Next]_vars => TypeOK'
  BY <1>2, StepKeeps
<1> QED
  BY <1>1, <1>3, PTL DEF Spec

\* A mint's authority that holds lamports can issue to every wallet's ATA at
\* every moment, whatever was sent to the address or closed there.
THEOREM AuthoritiesCanIssue == Spec => []AuthorityCanIssue
<1>1. TypeOK => AuthorityCanIssue
  <2> SUFFICES ASSUME TypeOK, NEW m \in Mints, NEW u \in Users, NEW w \in Users,
                      IsMint(m), mint[m].auth = u, u \in funded, mint[m].supply < MaxSupply
               PROVE  CanMintToken(u, w, m, Ata(w, m), mint[m].prog, mint[m].decimals, 1)
    BY DEF AuthorityCanIssue
  <2>1. mint[m].supply \in Nat /\ mint[m].supply + 1 <= MaxSupply
    BY NumbersAreNat DEF TypeOK, IsMint, Record
  <2>2. AccountReady(u, w, m, Ata(w, m))
    BY AtaFacts DEF AccountReady, CheckAta
  <2> QED
    BY <2>1, <2>2 DEF CanMintToken, MayIssue
<1> QED
  BY <1>1, TypeCorrect, PTL

\* The supply of a mint grows only by the hand of the authority of that
\* moment, however authority was passed on or given up before.
THEOREM AuthoritiesIssue == Spec => OnlyAuthorityIssues
<1>1. TypeOK /\ [Next]_vars => [Issued]_vars
  BY StepKeeps
<1>2. [Issued]_vars => [\A m \in Mints : Supply(m)' > Supply(m) => mint[m].auth = signer']_vars
  BY DEF Issued
<1> QED
  BY <1>1, <1>2, TypeCorrect, PTL DEF Spec, OnlyAuthorityIssues

\* A mint stays what it was made.
THEOREM MintsStay == Spec => MintIsFixed
<1>1. TypeOK /\ [Next]_vars => [Fixed]_vars
  BY StepKeeps
<1>2. [Fixed]_vars => [\A m \in Mints : IsMint(m) =>
                          /\ IsMint(m)'
                          /\ mint'[m].prog = mint[m].prog
                          /\ mint'[m].decimals = mint[m].decimals
                          /\ mint'[m].freeze = mint[m].freeze]_vars
  BY DEF Fixed
<1> QED
  BY <1>1, <1>2, TypeCorrect, PTL DEF Spec, MintIsFixed
==============================================================================
