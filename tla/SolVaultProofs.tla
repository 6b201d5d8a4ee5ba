--------------------------- MODULE SolVaultProofs ----------------------------
(***************************************************************************)
(* Theorems about SolVault, for any users, PDAs, rent minima and amounts.  *)
(***************************************************************************)
EXTENDS SolVault, TLAPS

\* The three kinds of addresses are apart, and every user has his own vault.
LEMMA Addresses ==
    /\ \A u \in Users : VaultPda(u) \in Vaults
    /\ \A u, w \in Users : VaultPda(u) = VaultPda(w) => u = w
    /\ \A v \in Vaults : v \in Address /\ v \notin Users /\ v \notin Pdas
    /\ \A u \in Users : u \in Address /\ u \notin Pdas
    /\ \A p \in Pdas : p \in Address
BY VaultsAreNotWallets, PdasAreOthers DEF VaultPda, Vaults, Address

\* Lamports move between two addresses and no other is touched.
LEMMA MovedFacts ==
    ASSUME NEW l \in [Address -> Nat], NEW from \in Address, NEW to \in Address,
           NEW n \in Nat, l[from] >= n
    PROVE  /\ Moved(l, from, to, n) \in [Address -> Nat]
           /\ \A a \in Address : a # from /\ a # to => Moved(l, from, to, n)[a] = l[a]
           /\ from # to => /\ Moved(l, from, to, n)[from] = l[from] - n
                           /\ Moved(l, from, to, n)[to] = l[to] + n
           /\ \A a \in Address : a # from => Moved(l, from, to, n)[a] >= l[a]
BY DEF Moved

(***************************************************************************)
(* The inductive invariant.  That a vault is never short rests on nothing  *)
(* but WithdrawSol taking from it, which the types of PDAs rule out for    *)
(* the environment.                                                        *)
(***************************************************************************)
Inv == VaultTypeOK /\ VaultCoversDeposits

\* A step that takes nothing from the vaults, settles no dues and closes none
\* keeps the invariant.
Kept(v) == lam'[v] >= lam[v] /\ (v \in owned' <=> v \in owned)

\* A step that takes nothing from a vault, and leaves it to the program, keeps
\* its deposits covered.
LEMMA KeptCovers ==
    ASSUME Inv, VaultTypeOK', UNCHANGED due, \A v \in Vaults : Kept(v)
    PROVE  Inv'
<1> SUFFICES ASSUME NEW u \in Users
             PROVE  IF VaultPda(u) \in owned'
                    THEN lam'[VaultPda(u)] >= VaultMin + due[u]
                    ELSE due[u] = 0
  BY DEF Inv, VaultCoversDeposits
<1>1. VaultPda(u) \in Vaults /\ VaultPda(u) \in Address /\ due[u] \in Nat
  BY Addresses DEF Inv, VaultTypeOK
<1>2. lam[VaultPda(u)] \in Nat /\ lam'[VaultPda(u)] \in Nat
  BY <1>1 DEF Inv, VaultTypeOK
<1> QED
  BY <1>1, <1>2, MinimaArePositive DEF Inv, VaultCoversDeposits, Kept

(***************************************************************************)
(* Each step keeps the invariant and pays nobody else from a vault.        *)
(***************************************************************************)
\* Creating the user's vault: it starts with the rent minimum.
LEMMA EnsureFacts ==
    ASSUME VaultTypeOK, NEW u \in Users, NEW v \in Address, VaultEnsured(u, v)
    PROVE  /\ v \in Vaults \cup Pdas
           /\ AfterEnsure(u, v) \in [Address -> Nat]
           /\ \A a \in Address : a # u => AfterEnsure(u, v)[a] >= lam[a]
           /\ v \in owned \/ (v = VaultPda(u) /\ AfterEnsure(u, v)[v] >= VaultMin)
           /\ v \in owned \/ lam[v] = 0
<1>1. CASE v = VaultPda(u) /\ CanCreate(lam, u, v, VaultMin)
  <2>1. /\ u \in Address /\ v \in Vaults /\ u # v
        /\ VaultMin \in Nat /\ lam[u] >= VaultMin /\ lam[v] = 0
    BY <1>1, Addresses, MinimaArePositive DEF CanCreate
  <2>2. AfterEnsure(u, v) = Moved(lam, u, v, VaultMin)
    BY <2>1 DEF AfterEnsure
  <2> QED
    BY <1>1, <2>1, <2>2, MovedFacts DEF VaultTypeOK
<1>2. CASE IsPda(v)
  <2>1. AfterEnsure(u, v) = lam
    BY <1>2 DEF AfterEnsure, IsPda, VaultTypeOK
  <2> QED
    BY <1>2, <2>1 DEF IsPda, VaultTypeOK
<1> QED
  BY <1>1, <1>2 DEF VaultEnsured

\* DepositSol adds at least as much to the vault as it adds to what is due.
LEMMA DepositStep ==
    ASSUME Inv, NEW u \in Users, NEW v \in Address, NEW n \in Amounts,
           DepositSol(u, v, n)
    PROVE  Inv' /\ \A w \in Users : PaysOwner(w)
<1> DEFINE after == AfterEnsure(u, v)
<1>1. /\ n \in Nat /\ VaultTypeOK /\ VaultMin \in Nat /\ u \in Address
      /\ VaultEnsured(u, v) /\ after[u] >= n
      /\ lam' = Moved(after, u, v, n) /\ owned' = owned \cup {v}
      /\ due' = IF v = VaultPda(u) THEN [due EXCEPT ![u] = @ + n] ELSE due
  BY AmountsAreNat, MinimaArePositive, Addresses DEF DepositSol, CanDeposit, Inv
<1>2. /\ v \in Vaults \cup Pdas
      /\ after \in [Address -> Nat]
      /\ \A a \in Address : a # u => after[a] >= lam[a]
      /\ v \in owned \/ (v = VaultPda(u) /\ after[v] >= VaultMin)
  BY <1>1, EnsureFacts
<1>3. u # v
  BY <1>2, Addresses
<1>4. /\ lam' \in [Address -> Nat]
      /\ \A a \in Address : a # u => lam'[a] >= after[a]
      /\ lam'[v] = after[v] + n
  BY <1>1, <1>2, <1>3, MovedFacts
<1>5. VaultTypeOK'
  BY <1>1, <1>2, <1>4 DEF VaultTypeOK
<1>6. ASSUME NEW w \in Users
      PROVE  lam'[VaultPda(w)] >= lam[VaultPda(w)]
  <2>1. VaultPda(w) \in Address /\ VaultPda(w) # u
    BY Addresses
  <2>2. /\ after[VaultPda(w)] >= lam[VaultPda(w)] /\ lam'[VaultPda(w)] >= after[VaultPda(w)]
        /\ after[VaultPda(w)] \in Nat /\ lam[VaultPda(w)] \in Nat /\ lam'[VaultPda(w)] \in Nat
    BY <1>1, <1>2, <1>4, <2>1 DEF VaultTypeOK
  <2> QED
    BY <2>2
<1>7. VaultCoversDeposits'
  <2> SUFFICES ASSUME NEW w \in Users
               PROVE  IF VaultPda(w) \in owned'
                      THEN lam'[VaultPda(w)] >= VaultMin + due'[w]
                      ELSE due'[w] = 0
    BY DEF VaultCoversDeposits
  <2>1. /\ VaultPda(w) \in Address /\ lam[VaultPda(w)] \in Nat /\ due[w] \in Nat
        /\ after[VaultPda(w)] \in Nat /\ lam'[VaultPda(w)] \in Nat
    BY <1>1, <1>2, <1>4, Addresses DEF VaultTypeOK
  <2>2. CASE VaultPda(w) = v
    <3>1. lam'[v] = after[v] + n /\ after[v] >= lam[v]
      BY <1>2, <1>3, <1>4
    <3>2. due'[w] <= due[w] + n
      BY <1>1, <2>1, <2>2, Addresses DEF VaultTypeOK
    <3>3. due'[w] \in Nat
      BY <1>5 DEF VaultTypeOK
    <3>4. after[v] >= VaultMin + due[w]
      BY <1>1, <1>2, <2>1, <2>2, <3>1 DEF Inv, VaultCoversDeposits
    <3> QED
      BY <1>1, <2>1, <2>2, <3>1, <3>2, <3>3, <3>4
  <2>3. CASE VaultPda(w) # v
    <3>1. due'[w] = due[w] /\ (VaultPda(w) \in owned' <=> VaultPda(w) \in owned)
      BY <1>1, <2>3 DEF VaultTypeOK
    <3> QED
      BY <1>1, <1>6, <2>1, <3>1 DEF Inv, VaultCoversDeposits
  <2> QED
    BY <2>2, <2>3
<1>8. ASSUME NEW w \in Users PROVE PaysOwner(w)
  <2>1. VaultPda(w) \in Address /\ lam[VaultPda(w)] \in Nat /\ lam'[VaultPda(w)] \in Nat
    BY <1>1, <1>4, Addresses DEF VaultTypeOK
  <2> QED
    BY <1>6, <2>1 DEF PaysOwner
<1> QED
  BY <1>5, <1>7, <1>8 DEF Inv

\* WithdrawSol takes from the signer's vault only, and no more than it takes off
\* what is due or lies above it.
LEMMA WithdrawStep ==
    ASSUME Inv, NEW u \in Users, NEW v \in Address, NEW n \in Amounts,
           WithdrawSol(u, v, n)
    PROVE  Inv' /\ \A w \in Users : PaysOwner(w)
<1>1. /\ n \in Nat /\ VaultTypeOK /\ VaultMin \in Nat
      /\ u \in Address /\ v \in Vaults /\ v = VaultPda(u) /\ u # v
      /\ v \in owned /\ lam[v] > VaultMin + n
      /\ lam' = Moved(lam, v, u, n) /\ owned' = owned
      /\ due' = [due EXCEPT ![u] = IF @ > n THEN @ - n ELSE 0]
  BY AmountsAreNat, MinimaArePositive, Addresses DEF WithdrawSol, CanWithdraw, IsPda, Inv
<1>2. /\ lam' \in [Address -> Nat]
      /\ \A a \in Address : a # v => lam'[a] >= lam[a]
      /\ lam'[v] = lam[v] - n /\ lam'[u] = lam[u] + n
  BY <1>1, MovedFacts DEF VaultTypeOK
<1>3. due' \in [Users -> Nat]
  BY <1>1 DEF VaultTypeOK
<1>4. VaultTypeOK'
  BY <1>1, <1>2, <1>3 DEF VaultTypeOK
<1>5. VaultCoversDeposits'
  <2> SUFFICES ASSUME NEW w \in Users
               PROVE  IF VaultPda(w) \in owned'
                      THEN lam'[VaultPda(w)] >= VaultMin + due'[w]
                      ELSE due'[w] = 0
    BY DEF VaultCoversDeposits
  <2>1. /\ VaultPda(w) \in Address /\ lam[VaultPda(w)] \in Nat
        /\ lam'[VaultPda(w)] \in Nat /\ due[w] \in Nat
    BY <1>1, <1>2, Addresses DEF VaultTypeOK
  <2>2. CASE w = u
    <3>1. lam[v] >= VaultMin + due[u]
      BY <1>1 DEF Inv, VaultCoversDeposits
    <3>2. due'[u] = IF due[u] > n THEN due[u] - n ELSE 0
      BY <1>1 DEF VaultTypeOK
    <3> QED
      BY <1>1, <1>2, <2>1, <2>2, <3>1, <3>2
  <2>3. CASE w # u
    <3>1. VaultPda(w) # v /\ due'[w] = due[w]
      BY <1>1, <2>3, Addresses DEF VaultTypeOK
    <3> QED
      BY <1>1, <1>2, <2>1, <3>1 DEF Inv, VaultCoversDeposits
  <2> QED
    BY <2>2, <2>3
<1>6. ASSUME NEW w \in Users PROVE PaysOwner(w)
  <2>1. /\ VaultPda(w) \in Address /\ lam[VaultPda(w)] \in Nat
        /\ lam'[VaultPda(w)] \in Nat /\ lam[u] \in Nat
    BY <1>1, <1>2, Addresses DEF VaultTypeOK
  <2>2. CASE w = u
    BY <1>1, <1>2, <2>1, <2>2 DEF PaysOwner
  <2>3. CASE w # u
    <3>1. VaultPda(w) # v
      BY <1>1, <2>3, Addresses
    <3> QED
      BY <1>2, <2>1, <3>1 DEF PaysOwner
  <2> QED
    BY <2>2, <2>3
<1> QED
  BY <1>4, <1>5, <1>6 DEF Inv

\* A step that takes nothing from any vault pays nobody from one.
LEMMA KeptPaysNobody ==
    ASSUME VaultTypeOK, VaultTypeOK', \A v \in Vaults : lam'[v] >= lam[v],
           NEW w \in Users
    PROVE  PaysOwner(w)
<1>1. /\ VaultPda(w) \in Vaults
      /\ lam[VaultPda(w)] \in Nat /\ lam'[VaultPda(w)] \in Nat
  BY Addresses DEF VaultTypeOK
<1> QED
  BY <1>1 DEF PaysOwner

\* TokLgcDeposit creates a vault where none was and nothing was due.
LEMMA MakeStep ==
    ASSUME Inv, NEW u \in Users, MakeToWallet(u)
    PROVE  Inv' /\ \A w \in Users : PaysOwner(w)
<1> DEFINE v == VaultPda(u)
<1>1. /\ VaultTypeOK /\ VaultMin \in Nat
      /\ u \in Address /\ v \in Vaults /\ v \in Address /\ u # v
      /\ lam[v] = 0 /\ lam[u] >= VaultMin
      /\ lam' = Moved(lam, u, v, VaultMin) /\ owned' = owned \cup {v} /\ due' = due
  BY MinimaArePositive, Addresses DEF MakeToWallet, CanCreate, Inv
<1>2. /\ lam' \in [Address -> Nat]
      /\ \A a \in Address : a # u => lam'[a] >= lam[a]
      /\ lam'[v] = VaultMin
  BY <1>1, MovedFacts DEF VaultTypeOK
<1>3. VaultTypeOK'
  BY <1>1, <1>2 DEF VaultTypeOK
<1>4. v \notin owned /\ due[u] = 0
  BY <1>1, MinimaArePositive DEF Inv, VaultCoversDeposits, VaultTypeOK
<1>5. VaultCoversDeposits'
  <2> SUFFICES ASSUME NEW w \in Users
               PROVE  IF VaultPda(w) \in owned'
                      THEN lam'[VaultPda(w)] >= VaultMin + due'[w]
                      ELSE due'[w] = 0
    BY DEF VaultCoversDeposits
  <2>1. CASE w = u
    BY <1>1, <1>2, <1>4, <2>1
  <2>2. CASE w # u
    <3>1. VaultPda(w) # v /\ VaultPda(w) # u /\ VaultPda(w) \in Address
      BY <2>2, Addresses
    <3>2. lam'[VaultPda(w)] >= lam[VaultPda(w)] /\ due[w] \in Nat
          /\ lam[VaultPda(w)] \in Nat /\ lam'[VaultPda(w)] \in Nat
      BY <1>1, <1>2, <3>1 DEF VaultTypeOK
    <3> QED
      BY <1>1, <3>1, <3>2 DEF Inv, VaultCoversDeposits
  <2> QED
    BY <2>1, <2>2
<1>6. \A a \in Vaults : lam'[a] >= lam[a]
  BY <1>2, Addresses
<1> QED
  BY <1>1, <1>3, <1>5, <1>6, KeptPaysNobody DEF Inv

\* Lamports that a wallet sends take nothing from a vault.
LEMMA SendStep ==
    ASSUME Inv, NEW u \in Users, NEW a \in Address, NEW n \in Amounts,
           SendLamports(u, a, n)
    PROVE  Inv' /\ \A w \in Users : PaysOwner(w)
<1>1. /\ n \in Nat /\ VaultTypeOK /\ u \in Address /\ lam[u] >= n
      /\ lam' = Moved(lam, u, a, n) /\ owned' = owned /\ due' = due
  BY AmountsAreNat, Addresses DEF SendLamports, Inv
<1>2. /\ lam' \in [Address -> Nat]
      /\ \A b \in Address : b # u => lam'[b] >= lam[b]
  BY <1>1, MovedFacts DEF VaultTypeOK
<1>3. VaultTypeOK' /\ \A v \in Vaults : Kept(v)
  BY <1>1, <1>2, Addresses DEF VaultTypeOK, Kept
<1> QED
  BY <1>1, <1>3, KeptCovers, KeptPaysNobody DEF Kept, Inv

\* Creating and closing other accounts of the program takes nothing from a vault.
LEMMA OtherPdasStep ==
    ASSUME Inv, OtherPdas
    PROVE  Inv' /\ \A w \in Users : PaysOwner(w)
<1>1. ASSUME NEW u \in Users, NEW p \in Pdas, CreatePda(u, p)
      PROVE  VaultTypeOK' /\ UNCHANGED due /\ \A v \in Vaults : Kept(v)
  <2>1. /\ VaultTypeOK /\ PdaMin \in Nat /\ u \in Address /\ p \in Address
        /\ p \notin Vaults /\ lam[u] >= PdaMin
        /\ lam' = Moved(lam, u, p, PdaMin) /\ owned' = owned \cup {p} /\ due' = due
    BY <1>1, MinimaArePositive, Addresses DEF CreatePda, CanCreate, Inv
  <2>2. /\ lam' \in [Address -> Nat]
        /\ \A b \in Address : b # u => lam'[b] >= lam[b]
    BY <2>1, MovedFacts DEF VaultTypeOK
  <2> QED
    BY <2>1, <2>2, Addresses DEF VaultTypeOK, Kept
<1>2. ASSUME NEW p \in Pdas, NEW dest \in Address, ClosePda(p, dest)
      PROVE  VaultTypeOK' /\ UNCHANGED due /\ \A v \in Vaults : Kept(v)
  <2>1. /\ VaultTypeOK /\ p \in Address /\ p \notin Vaults
        /\ lam[p] \in Nat /\ lam[p] >= lam[p]
        /\ lam' = Moved(lam, p, dest, lam[p]) /\ owned' = owned \ {p} /\ due' = due
    BY <1>2, Addresses DEF ClosePda, Inv, VaultTypeOK
  <2>2. /\ lam' \in [Address -> Nat]
        /\ \A b \in Address : b # p => lam'[b] >= lam[b]
    BY <2>1, MovedFacts DEF VaultTypeOK
  <2> QED
    BY <2>1, <2>2, Addresses DEF VaultTypeOK, Kept
<1>3. VaultTypeOK' /\ UNCHANGED due /\ \A v \in Vaults : Kept(v)
  BY <1>1, <1>2 DEF OtherPdas
<1> QED
  BY <1>3, KeptCovers, KeptPaysNobody DEF Kept, Inv

\* There is no vault at the start, and nothing is due.
LEMMA InvInit == Init => Inv
<1> SUFFICES ASSUME Init PROVE Inv
  OBVIOUS
<1>1. lam \in [Address -> Nat]
  BY PurseIsNat DEF Init
<1> QED
  BY <1>1 DEF Init, Inv, VaultTypeOK, VaultCoversDeposits

\* The invariant is inductive, and vaults lose lamports to their users only.
LEMMA NextStep ==
    ASSUME Inv, [Next]_vars
    PROVE  Inv' /\ \A w \in Users : PaysOwner(w)
<1>1. CASE \E u \in Users : VaultSteps(u)
  BY <1>1, DepositStep, WithdrawStep, MakeStep DEF VaultSteps
<1>2. CASE \E u \in Users : Sending(u)
  BY <1>2, SendStep DEF Sending
<1>3. CASE OtherPdas
  BY <1>3, OtherPdasStep
<1>4. CASE UNCHANGED vars
  <2>1. VaultTypeOK' /\ UNCHANGED due /\ \A v \in Vaults : Kept(v)
    BY <1>4, Addresses DEF vars, Inv, VaultTypeOK, Kept
  <2> QED
    BY <2>1, KeptCovers, KeptPaysNobody DEF Kept, Inv
<1> QED
  BY <1>1, <1>2, <1>3, <1>4 DEF Next

\* The invariant holds in every behaviour of vaults and environment.
THEOREM InvAlways == Spec => []Inv
<1>1. Inv /\ [Next]_vars => Inv'
  BY NextStep
<1> QED
  BY <1>1, InvInit, PTL DEF Spec

\* Every reachable state is well formed, and no wallet becomes a PDA.
THEOREM TypesAreKept == Spec => []VaultTypeOK
<1>1. Inv => VaultTypeOK
  BY DEF Inv
<1> QED
  BY <1>1, InvAlways, PTL

\* For any number of users and any amounts, a vault holds its rent minimum and
\* all that its user deposited and has not withdrawn.
THEOREM VaultsCoverDeposits == Spec => []VaultCoversDeposits
<1>1. Inv => VaultCoversDeposits
  BY DEF Inv
<1> QED
  BY <1>1, InvAlways, PTL

\* So WithdrawSol grants at once all but one lamport of what is due.
THEOREM DuesAreWithdrawable == Spec => []DueIsWithdrawable
<1>1. Inv => DueIsWithdrawable
  <2> SUFFICES ASSUME Inv, NEW u \in Users, due[u] > 1
               PROVE  CanWithdraw(u, VaultPda(u), due[u] - 1)
    BY DEF DueIsWithdrawable
  <2>1. /\ due[u] \in Nat /\ VaultMin \in Nat \ {0}
        /\ VaultPda(u) \in Address /\ lam[VaultPda(u)] \in Nat
    BY MinimaArePositive, Addresses DEF Inv, VaultTypeOK
  <2>2. VaultPda(u) \in owned /\ lam[VaultPda(u)] >= VaultMin + due[u]
    BY <2>1 DEF Inv, VaultCoversDeposits
  <2> QED
    BY <2>1, <2>2 DEF CanWithdraw, IsPda
<1> QED
  BY <1>1, InvAlways, PTL

\* Lamports leave a vault only into the wallet of its own user.
THEOREM OnlyOwnersArePaid == Spec => OnlyOwnerIsPaid
<1>1. Inv /\ [Next]_vars => [\A u \in Users : PaysOwner(u)]_vars
  BY NextStep
<1> QED
  BY <1>1, InvAlways, PTL DEF Spec, OnlyOwnerIsPaid
==============================================================================
