---------------------------- MODULE ConfigProofs -----------------------------
(***************************************************************************)
(* Theorems about Config, for any owners, users, fees and status bytes.    *)
(***************************************************************************)
EXTENDS Config, SolVaultProofs

\* Every owner has a Config PDA of his own, which is no wallet and no vault.
LEMMA ConfigAddresses ==
    /\ \A c \in ProgOwners : /\ c \in Users
                             /\ ConfigPda(c) \in Pdas
                             /\ ConfigPda(c) \in Address
                             /\ VaultPda(c) \in Address
    /\ \A c, d \in ProgOwners : ConfigPda(c) = ConfigPda(d) => c = d
BY OwnersAreUsers, ConfigsArePdas, Addresses DEF ConfigPda

(***************************************************************************)
(* The Config steps are SolVault steps.                                    *)
(***************************************************************************)
LEMMA ConfigStepsKeepVaults ==
    ASSUME NEW s \in Users, NEW c \in ProgOwners, ConfigSteps(s, c)
    PROVE  [Next]_vars
<1>1. ConfigPda(c) \in Pdas
  BY ConfigAddresses
<1>2. ASSUME NEW v \in Address, NEW a \in Address, NEW f \in Fees, NEW st \in StatusBytes,
             InitConfig(s, c, v, a, f, st)
      PROVE  CreatePda(s, ConfigPda(c))
  BY <1>2 DEF InitConfig, CanInitConfig, CreatePda
<1>3. ASSUME NEW st \in StatusBytes, UpdateStatus(s, c, st)
      PROVE  UNCHANGED vars
  BY <1>3 DEF UpdateStatus, vars
<1>4. ASSUME NEW st \in StatusBytes, NEW f \in Fees, NEW a \in Address,
             UpdateFee(s, c, st, f, a)
      PROVE  UNCHANGED vars
  BY <1>4 DEF UpdateFee, vars
<1>5. ASSUME NEW st \in StatusBytes, NEW a \in Address, UpdateAdmin(s, c, st, a)
      PROVE  UNCHANGED vars
  BY <1>5 DEF UpdateAdmin, vars
<1>6. ASSUME NEW dest \in Address, CloseConfigPda(s, c, dest)
      PROVE  ClosePda(ConfigPda(c), dest)
  BY <1>6 DEF CloseConfigPda, ClosePda, IsPda
<1> QED
  BY <1>1, <1>2, <1>3, <1>4, <1>5, <1>6 DEF ConfigSteps, Next, OtherPdas

\* Every step of Config and the vaults together is a step of the vaults, or none.
LEMMA ConfigNextKeepsVaults ==
    ASSUME [ConfigNext]_configVars
    PROVE  [Next]_vars
<1>1. CASE \E s \in Users, c \in ProgOwners : ConfigSteps(s, c)
  BY <1>1, ConfigStepsKeepVaults
<1>2. CASE \E s \in Users : VaultSide(s)
  BY <1>2 DEF VaultSide, Next
<1>3. CASE UNCHANGED configVars
  BY <1>3 DEF configVars, vars
<1> QED
  BY <1>1, <1>2, <1>3 DEF ConfigNext

\* The program with its Configs implements SolVault: creating, changing and
\* closing a Config is, for the vaults, a step of SolVault's environment.
THEOREM ConfigKeepsVaults == ConfigSpec => KeepsVaults
<1>1. ConfigInit => Init
  BY DEF ConfigInit
<1>2. [ConfigNext]_configVars => [Next]_vars
  BY ConfigNextKeepsVaults
<1> QED
  BY <1>1, <1>2, PTL DEF ConfigSpec, Spec, KeepsVaults

\* So what SolVault promises its users holds in the whole.
THEOREM VaultsStillCoverDeposits == ConfigSpec => []VaultCoversDeposits
BY ConfigKeepsVaults, VaultsCoverDeposits, PTL DEF KeepsVaults

(***************************************************************************)
(* The inductive invariant.  A record is at its owner's address because it *)
(* is made there and no update names another owner; the account stays      *)
(* funded because only CloseConfigPda takes lamports from it.              *)
(***************************************************************************)
ConfigInv == Inv /\ ConfigTypeOK /\ ConfigDerivesVault /\ NoOrphans

\* What the vault side does to the program's other accounts: lamports may
\* come in, and none of them appears or goes.
LEMMA VaultSideKeepsPdas ==
    ASSUME Inv, NEW s \in Users, VaultSide(s), NEW p \in Pdas
    PROVE  lam'[p] >= lam[p] /\ (p \in owned' <=> p \in owned)
<1>1. /\ VaultTypeOK /\ VaultMin \in Nat /\ p \in Address /\ p # s
      /\ \A v \in Vaults : v # p
      /\ s \in Address /\ VaultPda(s) \in Vaults /\ VaultPda(s) \in Address
  BY MinimaArePositive, Addresses DEF Inv
<1>2. lam[p] \in Nat
  BY <1>1 DEF VaultTypeOK
<1>3. ASSUME NEW v \in Address, NEW n \in Amounts, DepositSol(s, v, n)
      PROVE  lam'[p] >= lam[p] /\ (p \in owned' <=> p \in owned)
  <2>1. /\ n \in Nat /\ VaultEnsured(s, v) /\ AfterEnsure(s, v)[s] >= n
        /\ lam' = Moved(AfterEnsure(s, v), s, v, n) /\ owned' = owned \cup {v}
    BY <1>3, AmountsAreNat DEF DepositSol, CanDeposit
  <2>2. /\ AfterEnsure(s, v) \in [Address -> Nat]
        /\ AfterEnsure(s, v)[p] >= lam[p]
        /\ v \in owned \/ v = VaultPda(s)
    BY <1>1, <2>1, EnsureFacts
  <2>3. /\ lam' \in [Address -> Nat]
        /\ lam'[p] >= AfterEnsure(s, v)[p]
    BY <1>1, <2>1, <2>2, MovedFacts
  <2>4. AfterEnsure(s, v)[p] \in Nat /\ lam'[p] \in Nat
    BY <1>1, <2>2, <2>3
  <2> QED
    BY <1>1, <1>2, <2>1, <2>2, <2>3, <2>4
<1>4. ASSUME NEW v \in Address, NEW n \in Amounts, WithdrawSol(s, v, n)
      PROVE  lam'[p] >= lam[p] /\ (p \in owned' <=> p \in owned)
  <2>1. /\ n \in Nat /\ v = VaultPda(s) /\ lam[v] >= n
        /\ lam' = Moved(lam, v, s, n) /\ owned' = owned
    BY <1>4, AmountsAreNat DEF WithdrawSol, CanWithdraw
  <2> QED
    BY <1>1, <2>1, MovedFacts DEF VaultTypeOK
<1>5. CASE MakeToWallet(s)
  <2>1. /\ lam[s] >= VaultMin
        /\ lam' = Moved(lam, s, VaultPda(s), VaultMin)
        /\ owned' = owned \cup {VaultPda(s)}
    BY <1>5 DEF MakeToWallet, CanCreate
  <2> QED
    BY <1>1, <2>1, MovedFacts DEF VaultTypeOK
<1>6. ASSUME NEW a \in Address, NEW n \in Amounts, SendLamports(s, a, n)
      PROVE  lam'[p] >= lam[p] /\ (p \in owned' <=> p \in owned)
  <2>1. n \in Nat /\ lam[s] >= n /\ lam' = Moved(lam, s, a, n) /\ owned' = owned
    BY <1>6, AmountsAreNat DEF SendLamports
  <2> QED
    BY <1>1, <2>1, MovedFacts DEF VaultTypeOK
<1> QED
  BY <1>3, <1>4, <1>5, <1>6 DEF VaultSide, VaultSteps, Sending

\* A step of the vaults, or a sending of lamports, leaves every Config valid.
LEMMA VaultSideKeepsInv ==
    ASSUME ConfigInv, NEW s \in Users, VaultSide(s)
    PROVE  ConfigInv'
<1>1. Inv /\ Inv' /\ config' = config /\ signer' = s
  BY NextStep DEF ConfigInv, VaultSide, Next
<1>2. ConfigTypeOK'
  BY <1>1 DEF ConfigInv, ConfigTypeOK, Inv
<1>3. ASSUME NEW c \in ProgOwners
      PROVE  /\ lam'[ConfigPda(c)] >= lam[ConfigPda(c)]
             /\ lam[ConfigPda(c)] \in Nat /\ lam'[ConfigPda(c)] \in Nat
             /\ (ConfigPda(c) \in owned' <=> ConfigPda(c) \in owned)
  BY <1>1, ConfigAddresses, VaultSideKeepsPdas DEF Inv, VaultTypeOK
<1>4. ConfigDerivesVault'
  BY <1>1, <1>3 DEF ConfigInv, ConfigDerivesVault, IsInit, IsPda
<1>5. NoOrphans'
  BY <1>1, <1>3 DEF ConfigInv, NoOrphans, IsInit
<1> QED
  BY <1>1, <1>2, <1>4, <1>5 DEF ConfigInv

\* A step that only writes the record of c: everything but prog_owner and
\* vault may change.
LEMMA UpdateKeepsInv ==
    ASSUME ConfigInv, ConfigTypeOK', UNCHANGED <<lam, owned, due>>,
           NEW c \in ProgOwners, IsInit(c), IsInit(c)',
           config'[c].prog_owner = config[c].prog_owner,
           config'[c].vault = config[c].vault,
           \A d \in ProgOwners : d # c => config'[d] = config[d]
    PROVE  ConfigInv'
<1>1. Inv'
  BY NextStep DEF ConfigInv, vars
<1>2. ConfigDerivesVault'
  BY DEF ConfigInv, ConfigDerivesVault, IsInit, IsPda
<1>3. NoOrphans'
  BY DEF ConfigInv, NoOrphans, IsInit
<1> QED
  BY <1>1, <1>2, <1>3 DEF ConfigInv

\* Nothing about the other Configs changes when the record of c does.
LEMMA ConfigStepKeepsInv ==
    ASSUME ConfigInv, NEW s \in Users, NEW c \in ProgOwners, ConfigSteps(s, c)
    PROVE  /\ ConfigInv'
           /\ IsInit(c) => MayAdminister(s, c)
           /\ signer' = s
           /\ \A d \in ProgOwners : d # c => config'[d] = config[d]
<1>1. /\ config \in [ProgOwners -> Record \cup {NoConfig}]
      /\ VaultTypeOK /\ VaultTypeOK' /\ Inv'
      /\ ConfigPda(c) \in Address /\ ConfigPda(c) \in Pdas
  BY ConfigAddresses, ConfigStepsKeepVaults, NextStep DEF ConfigInv, ConfigTypeOK, Inv
<1>2. IsInit(c) => config[c] \in Record
  BY <1>1 DEF IsInit
<1>3. ASSUME NEW v \in Address, NEW a \in Address, NEW f \in Fees, NEW st \in StatusBytes,
             InitConfig(s, c, v, a, f, st)
      PROVE  /\ ConfigInv' /\ ~IsInit(c) /\ signer' = s
             /\ \A d \in ProgOwners : d # c => config'[d] = config[d]
  <2> DEFINE r == [vault |-> v, prog_owner |-> c, admin |-> a, fee |-> f, status |-> st]
  <2>1. /\ v = VaultPda(c) /\ f \in Nat \ {0} /\ c \in Address
        /\ lam[ConfigPda(c)] = 0 /\ lam[s] >= PdaMin /\ PdaMin \in Nat \ {0}
        /\ lam' = Moved(lam, s, ConfigPda(c), PdaMin)
        /\ owned' = owned \cup {ConfigPda(c)}
        /\ config' = [config EXCEPT ![c] = r] /\ signer' = s
    BY <1>3, FeesAreNat, MinimaArePositive, ConfigAddresses, Addresses
    DEF InitConfig, CanInitConfig, CanCreate
  <2>2. r \in Record
    BY <2>1 DEF Record
  <2>3. /\ config' \in [ProgOwners -> Record \cup {NoConfig}]
        /\ config'[c] = r /\ \A d \in ProgOwners : d # c => config'[d] = config[d]
    BY <1>1, <2>1, <2>2
  <2>4. ~IsInit(c)
    BY <2>1 DEF ConfigInv, ConfigDerivesVault, IsPda
  <2>5. /\ lam'[ConfigPda(c)] = PdaMin
        /\ \A d \in ProgOwners : d # c => lam'[ConfigPda(d)] = lam[ConfigPda(d)]
    <3>1. s \in Address /\ s # ConfigPda(c) /\ PdaMin \in Nat
          /\ \A d \in ProgOwners : ConfigPda(d) # s /\ ConfigPda(d) \in Address
      BY <2>1, Addresses, ConfigAddresses
    <3>2. /\ lam'[ConfigPda(c)] = lam[ConfigPda(c)] + PdaMin
          /\ \A b \in Address : b # s /\ b # ConfigPda(c) => lam'[b] = lam[b]
      <4>1. lam \in [Address -> Nat] /\ lam[s] >= PdaMin /\ ConfigPda(c) \in Address
        BY <1>1, <2>1 DEF VaultTypeOK
      <4>2. lam' = Moved(lam, s, ConfigPda(c), PdaMin)
        BY <2>1
      <4> HIDE DEF r
      <4> QED
        BY <3>1, <4>1, <4>2, MovedFacts
    <3>3. lam'[ConfigPda(c)] = PdaMin
      BY <2>1, <3>1, <3>2
    <3>4. \A d \in ProgOwners : d # c => ConfigPda(d) # ConfigPda(c)
      BY ConfigAddresses
    <3> QED
      BY <3>1, <3>2, <3>3, <3>4
  <2>6. ConfigTypeOK'
    BY <1>1, <2>1, <2>3 DEF ConfigTypeOK
  <2>7. ConfigDerivesVault'
    <3> SUFFICES ASSUME NEW d \in ProgOwners, IsInit(d)'
                 PROVE  /\ config'[d].prog_owner = d
                        /\ config'[d].vault = VaultPda(config'[d].prog_owner)
                        /\ IsPda(ConfigPda(d))'
      BY DEF ConfigDerivesVault
    <3>1. CASE d = c
      BY <2>1, <2>3, <2>5, <3>1 DEF IsPda
    <3>2. CASE d # c
      BY <2>1, <2>3, <2>5, <3>2 DEF ConfigInv, ConfigDerivesVault, IsInit, IsPda
    <3> QED
      BY <3>1, <3>2
  <2>8. NoOrphans'
    <3>1. IsInit(c)'
      BY <2>2, <2>3, NoConfigIsNoRecord DEF IsInit
    <3> QED
      BY <2>1, <2>3, <3>1, ConfigAddresses DEF ConfigInv, NoOrphans, IsInit
  <2> QED
    BY <1>1, <2>1, <2>3, <2>4, <2>6, <2>7, <2>8 DEF ConfigInv
<1>4. ASSUME UNCHANGED <<lam, owned, due>>, IsInit(c), MayAdminister(s, c), signer' = s,
             NEW r \in Record, config' = [config EXCEPT ![c] = r],
             r.prog_owner = config[c].prog_owner, r.vault = config[c].vault
      PROVE  /\ ConfigInv' /\ signer' = s
             /\ \A d \in ProgOwners : d # c => config'[d] = config[d]
  <2>1. /\ config' \in [ProgOwners -> Record \cup {NoConfig}]
        /\ config'[c] = r /\ \A d \in ProgOwners : d # c => config'[d] = config[d]
    BY <1>1, <1>4
  <2>2. ConfigTypeOK'
    BY <1>1, <1>4, <2>1 DEF ConfigTypeOK
  <2>3. IsInit(c)'
    BY <2>1, NoConfigIsNoRecord DEF IsInit
  <2> QED
    BY <1>4, <2>1, <2>2, <2>3, UpdateKeepsInv
<1>5. ASSUME NEW st \in StatusBytes, UpdateStatus(s, c, st)
      PROVE  /\ ConfigInv' /\ MayAdminister(s, c) /\ signer' = s
             /\ \A d \in ProgOwners : d # c => config'[d] = config[d]
  <2> DEFINE r == [config[c] EXCEPT !.status = st]
  <2>1. /\ UNCHANGED <<lam, owned, due>> /\ IsInit(c) /\ MayAdminister(s, c)
        /\ signer' = s /\ config' = [config EXCEPT ![c] = r]
    BY <1>5 DEF UpdateStatus, CanUpdate
  <2>2. /\ r \in Record
        /\ r.prog_owner = config[c].prog_owner /\ r.vault = config[c].vault
    BY <1>2, <2>1 DEF Record
  <2> QED
    BY <1>4, <2>1, <2>2
<1>6. ASSUME NEW st \in StatusBytes, NEW f \in Fees, NEW a \in Address,
             UpdateFee(s, c, st, f, a)
      PROVE  /\ ConfigInv' /\ MayAdminister(s, c) /\ signer' = s
             /\ \A d \in ProgOwners : d # c => config'[d] = config[d]
  <2> DEFINE r == [config[c] EXCEPT !.fee = f, !.status = st, !.admin = a]
  <2>1. /\ UNCHANGED <<lam, owned, due>> /\ IsInit(c) /\ MayAdminister(s, c)
        /\ signer' = s /\ f \in Nat \ {0}
    BY <1>6, FeesAreNat DEF UpdateFee, CanUpdate
  <2>2. config' = [config EXCEPT ![c] = r]
    BY <1>1, <1>6 DEF UpdateFee
  <2>3. /\ r \in Record
        /\ r.prog_owner = config[c].prog_owner /\ r.vault = config[c].vault
    BY <1>2, <2>1 DEF Record
  <2> QED
    BY <1>4, <2>1, <2>2, <2>3
<1>7. ASSUME NEW st \in StatusBytes, NEW a \in Address, UpdateAdmin(s, c, st, a)
      PROVE  /\ ConfigInv' /\ MayAdminister(s, c) /\ signer' = s
             /\ \A d \in ProgOwners : d # c => config'[d] = config[d]
  <2> DEFINE r == [config[c] EXCEPT !.admin = a]
  <2>1. /\ UNCHANGED <<lam, owned, due>> /\ IsInit(c) /\ MayAdminister(s, c)
        /\ signer' = s /\ config' = [config EXCEPT ![c] = r]
    BY <1>7 DEF UpdateAdmin, CanUpdate
  <2>2. /\ r \in Record
        /\ r.prog_owner = config[c].prog_owner /\ r.vault = config[c].vault
    BY <1>2, <2>1 DEF Record
  <2> QED
    BY <1>4, <2>1, <2>2
<1>8. ASSUME NEW dest \in Address, CloseConfigPda(s, c, dest)
      PROVE  /\ ConfigInv' /\ MayAdminister(s, c) /\ signer' = s
             /\ \A d \in ProgOwners : d # c => config'[d] = config[d]
  <2>1. /\ MayAdminister(s, c) /\ dest # ConfigPda(c)
        /\ lam' = Moved(lam, ConfigPda(c), dest, lam[ConfigPda(c)])
        /\ owned' = owned \ {ConfigPda(c)}
        /\ config' = [config EXCEPT ![c] = NoConfig] /\ signer' = s
    BY <1>8 DEF CloseConfigPda
  <2>2. /\ config' \in [ProgOwners -> Record \cup {NoConfig}]
        /\ ~IsInit(c)' /\ \A d \in ProgOwners : d # c => config'[d] = config[d]
    BY <1>1, <2>1 DEF IsInit
  <2>3. ASSUME NEW d \in ProgOwners, d # c
        PROVE  /\ lam'[ConfigPda(d)] >= lam[ConfigPda(d)]
               /\ lam[ConfigPda(d)] \in Nat /\ lam'[ConfigPda(d)] \in Nat
               /\ (ConfigPda(d) \in owned' <=> ConfigPda(d) \in owned)
    <3>1. ConfigPda(d) # ConfigPda(c) /\ ConfigPda(d) \in Address
      BY <2>3, ConfigAddresses
    <3>2. lam[ConfigPda(c)] \in Nat /\ lam[ConfigPda(c)] >= lam[ConfigPda(c)]
      BY <1>1 DEF VaultTypeOK
    <3> QED
      BY <1>1, <2>1, <3>1, <3>2, MovedFacts DEF VaultTypeOK
  <2>4. ConfigTypeOK'
    BY <1>1, <2>1, <2>2 DEF ConfigTypeOK
  <2>5. ConfigDerivesVault'
    BY <2>2, <2>3 DEF ConfigInv, ConfigDerivesVault, IsInit, IsPda
  <2>6. NoOrphans'
    BY <2>1, <2>2, <2>3 DEF ConfigInv, NoOrphans, IsInit
  <2> QED
    BY <1>1, <2>1, <2>2, <2>4, <2>5, <2>6 DEF ConfigInv
<1> QED
  BY <1>3, <1>5, <1>6, <1>7, <1>8 DEF ConfigSteps

\* There is no Config at the start.
LEMMA ConfigInvInit == ConfigInit => ConfigInv
<1> SUFFICES ASSUME ConfigInit PROVE ConfigInv
  OBVIOUS
<1>1. Inv /\ owned = {} /\ \A c \in ProgOwners : ~IsInit(c)
  BY InvInit DEF ConfigInit, Init, IsInit
<1>2. ConfigTypeOK
  BY <1>1 DEF ConfigInit, ConfigTypeOK, Inv
<1> QED
  BY <1>1, <1>2 DEF ConfigInv, ConfigDerivesVault, NoOrphans

\* The invariant is inductive.
LEMMA ConfigNextKeepsInv ==
    ASSUME ConfigInv, [ConfigNext]_configVars
    PROVE  ConfigInv'
<1>1. CASE \E s \in Users, c \in ProgOwners : ConfigSteps(s, c)
  BY <1>1, ConfigStepKeepsInv
<1>2. CASE \E s \in Users : VaultSide(s)
  BY <1>2, VaultSideKeepsInv
<1>3. CASE UNCHANGED configVars
  <2>1. Inv'
    BY <1>3, NextStep DEF configVars, vars, ConfigInv
  <2> QED
    BY <1>3, <2>1 DEF configVars, ConfigInv, ConfigTypeOK, Inv, ConfigDerivesVault,
                      NoOrphans, IsInit, IsPda
<1> QED
  BY <1>1, <1>2, <1>3 DEF ConfigNext

\* The invariant holds in every behaviour of Configs and vaults together.
THEOREM ConfigInvAlways == ConfigSpec => []ConfigInv
BY ConfigInvInit, ConfigNextKeepsInv, PTL DEF ConfigSpec

\* Every reachable state of Configs and vaults is well formed.
THEOREM ConfigTypesAreKept == ConfigSpec => []ConfigTypeOK
<1>1. ConfigInv => ConfigTypeOK
  BY DEF ConfigInv
<1> QED
  BY <1>1, ConfigInvAlways, PTL

\* Whoever creates, updates, closes and re-creates Configs, the record at the
\* PDA of an owner names him and his vault.
THEOREM ConfigsDeriveVaults == ConfigSpec => []ConfigDerivesVault
<1>1. ConfigInv => ConfigDerivesVault
  BY DEF ConfigInv
<1> QED
  BY <1>1, ConfigInvAlways, PTL

\* No account of the program stays at a Config's address without a record.
THEOREM NoConfigIsOrphaned == ConfigSpec => []NoOrphans
<1>1. ConfigInv => NoOrphans
  BY DEF ConfigInv
<1> QED
  BY <1>1, ConfigInvAlways, PTL

\* Only the owner, and the admin named at that moment, change or close a Config.
THEOREM OnlyAuthoritiesAct == ConfigSpec => AuthoritiesOnly
<1>1. ASSUME ConfigInv, [ConfigNext]_configVars,
             NEW c \in ProgOwners, IsInit(c), config'[c] # config[c]
      PROVE  MayAdminister(signer', c)
  <2>1. PICK s \in Users, d \in ProgOwners : ConfigSteps(s, d)
    BY <1>1 DEF ConfigNext, VaultSide, configVars
  <2> QED
    BY <1>1, <2>1, ConfigStepKeepsInv
<1>2. ConfigInv /\ [ConfigNext]_configVars =>
        [\A c \in ProgOwners :
            IsInit(c) /\ config'[c] # config[c] => MayAdminister(signer', c)]_configVars
  BY <1>1
<1> QED
  BY <1>2, ConfigInvAlways, PTL DEF ConfigSpec, AuthoritiesOnly

\* Creating a Config needs an address without lamports, where none lies.
LEMMA CreatedAnew ==
    ASSUME ConfigInv, NEW c \in ProgOwners, IsInit(c), NEW s, NEW v, NEW f
    PROVE  ~CanInitConfig(s, c, v, f)
BY DEF ConfigInv, ConfigDerivesVault, IsPda, CanInitConfig, CanCreate

\* No step that leaves a Config in place gives it an unknown status byte that
\* it did not have.
THEOREM StatusesStayKnown == ConfigSpec => StatusStaysKnown
<1> DEFINE StatusKept(c) == config'[c].status \in KnownStatus \cup {config[c].status}
<1>1. ASSUME ConfigInv, [ConfigNext]_configVars,
             NEW c \in ProgOwners, IsInit(c), IsInit(c)', config'[c] # config[c]
      PROVE  StatusKept(c)
  <2>1. /\ config \in [ProgOwners -> Record \cup {NoConfig}]
        /\ config[c] \in Record
    BY <1>1 DEF ConfigInv, ConfigTypeOK, IsInit
  <2>2. PICK s \in Users : ConfigSteps(s, c)
    <3>1. PICK s \in Users, d \in ProgOwners : ConfigSteps(s, d)
      BY <1>1 DEF ConfigNext, VaultSide, configVars
    <3>2. d = c
      BY <1>1, <3>1, ConfigStepKeepsInv
    <3> QED
      BY <3>1, <3>2
  <2>3. ASSUME NEW v \in Address, NEW a \in Address, NEW f \in Fees, NEW st \in StatusBytes,
               InitConfig(s, c, v, a, f, st)
        PROVE  StatusKept(c)
    BY <1>1, <2>3, CreatedAnew DEF InitConfig
  <2>4. ASSUME NEW st \in StatusBytes, UpdateStatus(s, c, st)
        PROVE  StatusKept(c)
    BY <2>1, <2>4 DEF UpdateStatus, CanUpdate, Record
  <2>5. ASSUME NEW st \in StatusBytes, NEW f \in Fees, NEW a \in Address,
               UpdateFee(s, c, st, f, a)
        PROVE  StatusKept(c)
    BY <2>1, <2>5 DEF UpdateFee, CanUpdate, Record
  <2>6. ASSUME NEW st \in StatusBytes, NEW a \in Address, UpdateAdmin(s, c, st, a)
        PROVE  StatusKept(c)
    BY <2>1, <2>6 DEF UpdateAdmin, CanUpdate, Record
  <2>7. ASSUME NEW dest \in Address, CloseConfigPda(s, c, dest)
        PROVE  StatusKept(c)
    BY <1>1, <2>1, <2>7 DEF CloseConfigPda, IsInit
  <2> QED
    BY <2>2, <2>3, <2>4, <2>5, <2>6, <2>7 DEF ConfigSteps
<1>2. ConfigInv /\ [ConfigNext]_configVars =>
        [\A c \in ProgOwners : IsInit(c) /\ IsInit(c)' => StatusKept(c)]_configVars
  BY <1>1
<1> QED
  BY <1>2, ConfigInvAlways, PTL DEF ConfigSpec, StatusStaysKnown
==============================================================================
