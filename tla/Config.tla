------------------------------- MODULE Config --------------------------------
(***************************************************************************)
(* The Config PDA: instructions 12 InitConfig, 13 UpdateConfig (with its   *)
(* selectors 0 status, 1 fee, 2 admin), 14 CloseConfigPda and 19           *)
(* ConfigResize, together with the SOL vaults whose program it configures. *)
(*                                                                         *)
(* There is one Config per program owner, in the PDA of ("config", owner). *)
(* It names the owner's vault, the owner and an admin.  Anybody may create *)
(* it, for any owner; the admin and the owner may change and close it.     *)
(* The Config steps create and close accounts of the program and move      *)
(* lamports: for the vaults, they are the environment of SolVault.         *)
(*                                                                         *)
(* add_tokens and update_prog_owner are in the code but never called.      *)
(***************************************************************************)
EXTENDS SolVault

CONSTANTS
    ProgOwners,   \* addresses for which a Config is created
    Fees,         \* fees that instruction data may carry
    StatusBytes,  \* status bytes that instruction data may carry
    Nobody,       \* no transaction was signed yet
    NoConfig      \* content of a Config PDA that does not exist

\* derive_pda1(prog_owner, Config::SEED)
ConfigPda(c) == <<"config", c>>

Record == [vault : Address, prog_owner : Address, admin : Address,
           fee : Nat \ {0}, status : StatusBytes]

ASSUME OwnersAreUsers == ProgOwners \subseteq Users
ASSUME ConfigsArePdas == {ConfigPda(c) : c \in ProgOwners} \subseteq Pdas
ASSUME FeesAreNat == Fees \subseteq Nat
ASSUME NoConfigIsNoRecord == NoConfig \notin Record
ASSUME NobodyIsNoUser == Nobody \notin Users

VARIABLES
    config,  \* content of each Config PDA
    signer   \* who signed the last transaction

configVars == <<lam, owned, due, config, signer>>

ConfigInit ==
    /\ Init
    /\ config = [c \in ProgOwners |-> NoConfig]
    /\ signer = Nobody

IsInit(c) == config[c] # NoConfig

(***************************************************************************)
(* 12 InitConfig.  The signer pays; neither the owner nor the admin signs, *)
(* and the status byte is stored as it comes.                              *)
(***************************************************************************)
\* Mutants: the fee may be zero; the vault is not derived from the owner.
CanInitConfigFree(s, c, vault, fee) ==
    vault = VaultPda(c) /\ CanCreate(lam, s, ConfigPda(c), PdaMin)
CanInitConfigAnyVault(s, c, vault, fee) ==
    CanCreate(lam, s, ConfigPda(c), PdaMin) /\ fee > 0

CanInitConfig(s, c, vault, fee) ==
    /\ vault = VaultPda(c)
    /\ CanCreate(lam, s, ConfigPda(c), PdaMin)
    /\ fee > 0

InitConfig(s, c, vault, admin, fee, status) ==
    /\ CanInitConfig(s, c, vault, fee)
    /\ lam' = Moved(lam, s, ConfigPda(c), PdaMin)
    /\ owned' = owned \cup {ConfigPda(c)}
    /\ config' = [config EXCEPT ![c] =
                    [vault |-> vault, prog_owner |-> c, admin |-> admin,
                     fee |-> fee, status |-> status]]
    /\ signer' = s
    /\ UNCHANGED due

(***************************************************************************)
(* 13 UpdateConfig.  Every selector validates the status byte first.       *)
(***************************************************************************)
\* u8_to_status
KnownStatus == 0 .. 4

MayAdminister(s, c) == s = config[c].admin \/ s = config[c].prog_owner

\* Mutant: the signer need not be an authority.
CanUpdateUnasked(s, c, status) ==
    IsInit(c) /\ IsPda(ConfigPda(c)) /\ status \in KnownStatus

\* Mutant: the status byte is stored unvalidated here as well.
CanUpdateAnyStatus(s, c, status) ==
    IsInit(c) /\ IsPda(ConfigPda(c)) /\ MayAdminister(s, c)

CanUpdate(s, c, status) ==
    /\ IsInit(c) /\ IsPda(ConfigPda(c))
    /\ status \in KnownStatus
    /\ MayAdminister(s, c)

UpdateStatus(s, c, status) ==
    /\ CanUpdate(s, c, status)
    /\ config' = [config EXCEPT ![c].status = status]
    /\ signer' = s
    /\ UNCHANGED <<lam, owned, due>>

UpdateFee(s, c, status, fee, account1) ==
    /\ CanUpdate(s, c, status)
    /\ fee > 0
    /\ config' = [config EXCEPT ![c].fee = fee, ![c].status = status,
                                ![c].admin = account1]
    /\ signer' = s
    /\ UNCHANGED <<lam, owned, due>>

OnlyOwner(s, c) == s = config[c].prog_owner

UpdateAdmin(s, c, status, account1) ==
    /\ CanUpdate(s, c, status)
    /\ OnlyOwner(s, c)
    /\ config' = [config EXCEPT ![c].admin = account1]
    /\ signer' = s
    /\ UNCHANGED <<lam, owned, due>>

(***************************************************************************)
(* 14 CloseConfigPda.  All lamports of the PDA go to dest, deposits that   *)
(* took it for a vault included.  With dest the PDA itself the sums do not *)
(* balance and the runtime rejects the transaction.                        *)
(***************************************************************************)
\* Mutant: the lamports are taken, the account stays the program's.
EmptyConfigPda(s, c, dest) ==
    /\ IsInit(c) /\ IsPda(ConfigPda(c))
    /\ MayAdminister(s, c)
    /\ dest # ConfigPda(c)
    /\ lam' = Moved(lam, ConfigPda(c), dest, lam[ConfigPda(c)])
    /\ config' = [config EXCEPT ![c] = NoConfig]
    /\ signer' = s
    /\ UNCHANGED <<owned, due>>

CloseConfigPda(s, c, dest) ==
    /\ IsInit(c) /\ IsPda(ConfigPda(c))
    /\ MayAdminister(s, c)
    /\ dest # ConfigPda(c)
    /\ lam' = Moved(lam, ConfigPda(c), dest, lam[ConfigPda(c)])
    /\ owned' = owned \ {ConfigPda(c)}
    /\ config' = [config EXCEPT ![c] = NoConfig]
    /\ signer' = s
    /\ UNCHANGED due

(***************************************************************************)
(* 19 ConfigResize asks the system program to allocate space.  It does so  *)
(* only for an account without data that it owns itself, and a Config PDA  *)
(* is neither: the instruction succeeds in no state, and is no step here.  *)
(***************************************************************************)
Allocatable(a) == a \notin owned

CanResize(c) == IsInit(c) /\ IsPda(ConfigPda(c)) /\ Allocatable(ConfigPda(c))

(***************************************************************************)
(* The specification                                                       *)
(***************************************************************************)
ConfigSteps(s, c) ==
    \/ \E v, a \in Address, f \in Fees, st \in StatusBytes : InitConfig(s, c, v, a, f, st)
    \/ \E st \in StatusBytes : UpdateStatus(s, c, st)
    \/ \E st \in StatusBytes, f \in Fees, a \in Address : UpdateFee(s, c, st, f, a)
    \/ \E st \in StatusBytes, a \in Address : UpdateAdmin(s, c, st, a)
    \/ \E dest \in Address : CloseConfigPda(s, c, dest)

\* The steps of SolVault that no Config takes part in.
VaultSide(s) == (VaultSteps(s) \/ Sending(s)) /\ signer' = s /\ UNCHANGED config

ConfigNext ==
    \E s \in Users : VaultSide(s) \/ \E c \in ProgOwners : ConfigSteps(s, c)

ConfigSpec == ConfigInit /\ [][ConfigNext]_configVars

(***************************************************************************)
(* Properties                                                              *)
(***************************************************************************)
ConfigTypeOK ==
    /\ VaultTypeOK
    /\ config \in [ProgOwners -> Record \cup {NoConfig}]
    /\ signer \in Users \cup {Nobody}

\* Redeem signs with the seeds ("vault", config.prog_owner) for the vault that
\* the Config names, and the PDA is found again from its owner: through
\* updates, closings and re-creations by anybody, the record in the PDA of
\* owner c names c and the vault of c, and it lies in a funded account.
ConfigDerivesVault ==
    \A c \in ProgOwners : IsInit(c) =>
        /\ config[c].prog_owner = c
        /\ config[c].vault = VaultPda(config[c].prog_owner)
        /\ IsPda(ConfigPda(c))

\* No Config is left behind or orphaned: the program owns an account at the
\* PDA's address only while there is a record in it.
NoOrphans == \A c \in ProgOwners : ConfigPda(c) \in owned => IsInit(c)

\* A Config is changed or closed only by a transaction that its owner or the
\* admin it then named has signed, also after it was closed and created
\* again by somebody else.
AuthoritiesOnly ==
    [][\A c \in ProgOwners : IsInit(c) /\ config'[c] # config[c] => MayAdminister(signer', c)]_configVars

\* InitConfig stores any status byte, and one that stands for no status reads
\* back as Canceled.  Only the creation of a Config brings such a byte in:
\* whichever updates follow, of the status, the fee or the admin, a byte that
\* they change is known afterwards, so a known status stays a known one until
\* the Config is closed.
StatusStaysKnown ==
    [][\A c \in ProgOwners :
         IsInit(c) /\ IsInit(c)'
            => config'[c].status \in KnownStatus \cup {config[c].status}]_configVars

\* For the vaults, the Config instructions are part of the environment that
\* SolVault allows: every behaviour of the two together is one of SolVault.
KeepsVaults == Spec

\* A fee update leaves the admin as it was.
FeeUpdateKeepsAdmin ==
    [][\A c \in ProgOwners :
         IsInit(c) /\ IsInit(c)' /\ config'[c].fee # config[c].fee
            => config'[c].admin = config[c].admin]_configVars

\* ConfigResize resizes: it can succeed on a Config that there is.
ConfigIsResizable == \A c \in ProgOwners : IsInit(c) => CanResize(c)
==============================================================================
