# Verification of the vault program

TLA+ models of the on-chain program in `src/` (a Solana program written with
pinocchio), model-checked with TLC, with theorems proved by TLAPS. Paths such
as `escrowTokTake.rs:70` are in `src/src/instructions/`, `pda.rs` is
`src/src/state/pda.rs`.

## The system

The program has one entry point (`lib.rs:24-61`). The first byte of the
instruction data selects one of twenty instructions; each is a `try_from`, which
checks accounts and arguments, and a `process`, which acts through calls of the
system program, the token programs and the associated-token-account (ATA)
program. The program keeps all its state in accounts. An instruction that
returns an error aborts its transaction, and the runtime undoes every write.
Transactions that touch the same account do not overlap. Concurrency is
therefore an interleaving of whole instructions by mutually distrusting signers,
who also call the token and system programs directly; nothing retries, and
nothing is ever scheduled.

| Component | State | Operations | Interacts with |
|---|---|---|---|
| SOL vaults | lamports of the PDA `("vault", user)`, 16 bytes nobody reads | 0 DepositSol, 1 WithdrawSol | TokLgcDeposit (creates the same PDA), every close (sends lamports anywhere) |
| Config PDA | record in the PDA `("config", owner)`: mints, vault, owner, admin, fee, status, ... | 12 InitConfig, 13 UpdateConfig (status, fee, admin), 14 CloseConfigPda, 19 ConfigResize | SOL vaults (names one), token vaults (mints, vault), escrows (must exist) |
| Token escrow | record in the PDA `("escrow", maker, id)`, token accounts the PDA owns | 15 Make, 16 Take, 17 Withdraw, 18 Cancel | Config, token program, ATA program |
| Token vaults | token accounts owned by vault PDAs | 5 Deposit, 6 Withdraw, 7 Pay, 8 Redeem | Config (mints, vault), SOL vaults (make the PDA), escrows (a deposit may go to one) |
| Mints and ATAs | mints and token accounts of the legacy and the 2022 token program | 2 and 9 InitMint, 3 and 10 InitAta, 4 and 11 MintToken | token programs only |
| Checks, parsers, errors | none | `utils.rs` | all |

What is hard here is not timing but **sequences of legal calls by several
people**. The offer record does not say whether it was taken. Token balances
are public mail boxes: anybody can add to them between two instructions. An
account's existence is tested in three different ways (lamports, data length,
owner), which disagree about an address that was sent lamports before it was
created. PDAs are closed and come back at the same address. Some accounts that
are passed in are not checked (`escrowTokCancel.rs:245`), or only loosely (any
account of the program for a deposit, any Config for an escrow).
`PROJECT.json` lists these hazards at their lines.

What makes each component correct:

- *Escrow*: an open offer is always backed by the offered X or the price in Y;
  tokens leave its PDA only at the posted terms; it ends only by its maker, who
  then holds one or the other; a maker can get out.
- *SOL vaults*: what a user deposited is there on top of the rent minimum; only
  he gets it, and he can get it.
- *Config*: only authorities change it; an update leaves no unknown status byte
  that was not there from its creation; what it says of the vault stays in the
  relation that redeem's signature needs; closing it harms no vault.
- *Token vaults*: a vault's tokens leave only to its user, or to anybody while a
  Config has made it a till for the mint; what a user deposited into a vault that
  is no till he can withdraw, and what lies in a till can be redeemed.
- *Mints*: only the authority of the moment issues, it can always issue, and a
  mint stays what it was made.
- *Together*: no step takes tokens from two PDAs, and each PDA pays by its own
  component's rule although all of them reach each other's accounts.

## Modules

| Module | What it is |
|---|---|
| `TokenAccounts` | pure operators: ATA addresses, the program's ATA checks, and the token program's TransferChecked and CloseAccount |
| `Escrow` | instructions 15-18, what others do to the same accounts, and the properties |
| `Swap` | what the escrow promises, without accounts: deals are posted, settled, ended |
| `TokenTotals` | how many tokens a set of token accounts holds together |
| `TokenTotalsProofs` | lemmas about totals: split, of one account, under a transfer |
| `EscrowSwap` | the refinement mapping from `Escrow` to `Swap` |
| `EscrowSwapProofs` | the proof that `Escrow` implements `Swap` |
| `EscrowRecovery` | extends `Escrow` by a maker who persists, for liveness |
| `EscrowProofs` | inductive invariant and theorems about `Escrow` |
| `SolVault` | instructions 0 and 1, vault creation by 5, other PDAs as environment |
| `SolVaultProofs` | theorems about `SolVault` |
| `Config` | extends `SolVault` by instructions 12, 13, 14, 19 |
| `ConfigProofs` | theorems about `Config`, refinement of `SolVault` included |
| `TokenVault` | instructions 5-8, what others do to the same accounts, and the properties |
| `Custody` | what the token vaults promise, without accounts, PDAs or Configs: purses, vaults, tills |
| `TokenVaultCustody` | the refinement mapping from `TokenVault` to `Custody` |
| `TokenVaultProofs` | inductive invariant and theorems about `TokenVault`, and the proof that it implements `Custody` |
| `TokenMint` | instructions 2-4 and 9-11, authorities, supply, and which addresses hold lamports |
| `TokenMintProofs` | theorems about `TokenMint` |
| `Program` | `Escrow` and `TokenVault` with its Configs, composed by INSTANCE over one ledger of token accounts |
| `ProgramProofs` | inductive invariant and theorems about `Program` |
| `MC*` | small instances for TLC |

**One action is one successful instruction.** `try_from` and `process` are taken
together; a failing handler is no step, as its transaction is undone. The order
of the checks within a handler is therefore immaterial, except where a check
reads what the handler has changed: those are modelled in order. A handler that
creates an ATA, transfers, sweeps and closes does all of it in its one action,
with the balance after each transfer computed from the one before. Accounts the
caller passes are chosen by `\E` among all that pass the handler's checks: the
ATA need not be the derived one, as `check_ata` compares owner and mint, not the
address. The account that Cancel does not check ranges over all accounts and
`NoAccount`.

*Escrow state.* `live` and `bal` are the token accounts that exist and their
amounts; `offer` is the record of each escrow PDA or `NoOffer`; `prefunded` are
absent escrow PDAs whose address holds lamports, where CreateAccount fails;
`configs` are the Config PDAs that exist, of which the handlers require one
(`Config::from_account_view`) and accept any. Environment actions open token
accounts for any owner, send tokens to any account, close empty accounts, send
lamports to PDA addresses, create and close Configs.

*SolVault state.* `lam` is the lamports of every address, `owned` the addresses
whose account the program owns. `due` is a history variable: what each user put
into his own vault and has not withdrawn. It appears in no guard.

*Config state.* `config` is each record, and `signer` (history) who signed the
last transaction. ConfigResize invokes the system program's Allocate on an
account that its own checks require to have data and to be the program's;
Allocate refuses both. It succeeds in no state, so it is the predicate
`CanResize` and no action.

*TokenVault state.* `live` and `bal` as in `Escrow`; `made` are the vaults and
escrow PDAs that are accounts of the program, which is all that a deposit asks
of the account it is given for a vault; `prefunded` are vault addresses with
lamports but no account; `config` is the part of each Config that instructions
5-8 read: `vault`, `prog_owner` and the accepted mints. `tilled` and `due` are
history: the pairs of a vault and a mint for which a Config was ever made, and
what a vault's own user deposited into an account of it and has not withdrawn,
counted only while the pair is not tilled. Neither appears in a guard. `Custody`
has one purse and one vault per user and mint, the tokens `kept` where the
program's vault instructions never pay from (Configs, escrows), and the open
tills.

*TokenMint state.* `mint` is the record of each mint address: which token program
it belongs to, authority, freeze authority, decimals, supply. `funded` are the
addresses with lamports. The handlers ask for lamports where they mean
existence (`initialized`, `not_initialized`) in InitMint and InitAta, and for
data in MintToken; `funded` and `live` keep the two questions apart. `signer`
(history) signed the last transaction about a supply. The same actions serve
both token programs: InitMint of Token-2022 hands its instruction to whichever
token program the caller passes, so the program is a parameter there.

*EscrowRecovery state.* `calm` is false at first and everything of `Escrow` may
happen; once it is true nobody trades, sends tokens or closes a Config, while
accounts may still be opened, addresses be sent lamports and Configs be made.
The maker's steps (`CloseOffer`, `HaveConfig`, `OpenRoom`, `FillRoom`) are actions
of `Escrow` under the conditions in which he has a use for them.

*Program state.* The union of the above: token accounts, offers, vaults, Configs.
Each component is instantiated with the others' state in the place of its own
environment: what `TokenVault` calls `made` is the vaults and the open offers;
what `Escrow` calls a Config is one with a record, and to it a vault is one more
party. The handlers are those of the component modules, not copies. The
environment of one component is the other component, or a wallet. `Program`
instantiates the proof modules of the components (which extend the models), so
that what is proved of a component can be cited of its instance.

*Totals.* `Swap` and `Custody` speak of what a party, a pot or a vault owns. In
the refinement mappings that is `Total` over its token accounts of a mint: the
number of tokens in them, a token being an account and a number from 1 to the
account's balance. As a cardinality it has its lemmas in the library of finite
sets. The accounts are therefore assumed to be finitely many
(`AccountsAreFinite`), as they are on the chain.

Operators named as *Mutant* in a comment are not part of the models: each is a
plausible bug that the corresponding property is shown to catch
(`PROJECT.json`, "mutants").

### Abstractions

- Amounts are naturals. The sum of all balances of a mint, or of all lamports,
  is bounded by a supply below 2^64, so the additions of u64 in the code and in
  the token program cannot overflow in a reachable state; subtractions are
  guarded in the model as in the code.
- Mints are initialised legacy mints with fixed decimals, so checks of mint
  length, owner, rent and decimals pass. Token accounts have no delegate, no
  close authority, are not frozen and do not change owner.
- Rent minima are two positive constants. `Rent::from_account_view` is called on
  the account itself; it is taken to yield the rent minimum, as everything the
  tests do depends on it. The runtime's own rule against leaving an account
  below its rent minimum and transaction fees are left out, so the models allow
  more than the runtime does.
- Of the Config record, the fields no modelled handler decides on are left out:
  is_authorized, text, time, bumps, and the two balances, which nothing writes.
  `add_tokens` and `update_prog_owner` are never called. The accepted mints are
  a set in `TokenVault`, where they are asked for, and left out of `Config`; no
  instruction changes them. The four slots of the record are that set: a listed
  address that is no mint is accepted by no instruction, as none of them can
  transfer it.
- That `("vault", u)`, `("config", o)` and `("escrow", m, i)` derive different
  addresses, none of them a wallet's, is assumed (PDAs are off the curve).
- Lamports of escrow PDAs and token accounts are not counted in `Escrow`;
  `SolVault` contains their creation and closing as CreatePda and ClosePda.
  `TokenVault` and `TokenMint` tell only no lamports from some. `Program` leaves
  out gifts of lamports to empty addresses and accounts at other addresses than
  the derived one; both are in the component modules.
- A Token-2022 mint has no extensions: the handler allocates the base length and
  drops name, symbol and uri after parsing them.
- What wallets do with token accounts and mints outside the program is kept to
  what changes an answer of the program: opening, transferring, burning, closing
  when empty, passing an authority on or giving it up, sending lamports.

## What the runs check

| Run | Instance | Question |
|---|---|---|
| `escrow_one` | `MCEscrowOne`: one maker (X2, Y1), one id, another user (Y2), two mints, amounts 0-2, a second Y account of the PDA | over everything that can happen to one offer: `TypeOK`, `OfferCovered`, `ClosableWhenExact`, `MakerMadeWhole`, `TradeAtTerms`; every step is one of `Swap` or a stutter (`ImplementsSwap`); a maker who persists closes his offer (`MakerGetsOut`) |
| `escrow_two` | `MCEscrow`: two makers who are each other's takers, amounts 0-1 | `OfferCovered`, `MakerMadeWhole`, `TradeAtTerms` of two offers that draw on the same wallets |
| `sol_vault` | `MCSolVault`: two users with 7 and 4 lamports, VaultMin 2, amounts 0-2, one other PDA | `VaultTypeOK`, `VaultCoversDeposits`, `DueIsWithdrawable`, `OnlyOwnerIsPaid` |
| `config` | `MCConfig`: one owner, two users, fees 0-2, a known and an unknown status byte | `ConfigTypeOK`, `ConfigDerivesVault`, `NoOrphans`, `AuthoritiesOnly`, `StatusStaysKnown`, `KeepsVaults` |
| `token_vault` | `MCTokenVault`: two users, both program owners, one mint of which one user holds 2, amounts 0-2, a second account of his vault, one escrow PDA | `TypeOK`, `DepositIsWithdrawable`, `PaidIsRedeemable`, `LeavesByRight`; `Custody` is implemented (`ImplementsCustody`) |
| `token_mint` | `MCTokenMint`: one mint address, two wallets of which one starts without lamports, a second token account, decimals 0, 18, 19, largest supply 2 | `TypeOK`, `AuthorityCanIssue`, `OnlyAuthorityIssues`, `MintIsFixed` |
| `program` | `MCProgram`: one maker, one program owner, two mints, one token of each, amounts 0-1 | `TypeOK`, `OnePaysByRight`, and `PromisesKept`: `OfferCovered`, `ClosableWhenExact`, `DepositIsWithdrawable` and `PaidIsRedeemable` of the components together |
| `escrow_told_to_withdraw`, `sol_vault_surplus`, `sol_vault_prefunded`, `config_fee`, `config_resize` | as their components' | the disagreements below |

**Bounds.** Wallets start with the supply; but for `TokenMint` nothing else
bounds the state, since the program mints nothing there. Two tokens per kind
with amounts up to two are enough for an offer that is paid in part, exactly or
in excess, taken twice after a top-up of X, priced higher than it offers or
lower, and made again on the leftovers of an earlier one. In `escrow_one` the
maker holds one Y of his own, so that he can bring an account to a price of one
by himself but not to a price of two; the other user's two Y make a surplus, or a
surplus in both Y accounts. In `sol_vault` a user can afford the rent minimum and
two deposits of two, a gift to another's vault, and the creation of the other
PDA. In `token_vault` two tokens are a deposit and a payment, or a deposit that
is withdrawn in two parts; two program owners are needed for one vault to be a
till while the other is not; acceptance of a second mint is the same as a Config
that lists no mint, and two different mints meet in `program`. `Opened` bounds
which token accounts wallets open directly: the others are opened by the
handlers. In `token_mint` `MaxSupply` stands for the largest u64 and is reached,
19 is one more than the largest decimals. Model symmetry is not used.

Deadlock is checked in `escrow_two`, `token_vault`, `token_mint` and `program`. It
is not in `escrow_one`, where after the calm a maker may have no way out left and
nobody else need act; nor in the vault and Config runs, where wallets can run out
of lamports, and then the model, like the program, has nothing left to do.

**Fairness.** Nobody is obliged to send a transaction, so the component
specifications have none, and what a maker, a depositor or an authority can do
*next* is stated as a state predicate: the guard of the instruction is true
(`ClosableWhenExact`, `DueIsWithdrawable`, `DepositIsWithdrawable`,
`PaidIsRedeemable`, `AuthorityCanIssue`). The one liveness property is
`MakerGetsOut`. `RecoverySpec` assumes weak fairness of one action per offer,
`MakerPersists(e)`: a maker who wants out sends again until it is done, which is
what a client does with a transaction that was not included. It assumes nothing
of anybody else, and not that the calm ever comes; the property speaks of the
time after it, because before it every step of the maker can be undone by another
payment into the account he has just brought to the price. `CanRaise` asks for an
address of the PDA that is below the price. In the model addresses are few; on
the chain the maker can always open a new one.

### Disagreements

Five runs show that the code does not do what a comment, a document or a test
of the repository says of it. `PROJECT.json`, "findings", quotes each.

- `escrow_told_to_withdraw`: Cancel answers a paid offer with
  MakerToWithdrawTokenY; with one surplus Y token in the account Withdraw fails
  as well, since it pays out exactly the price and then closes the account. A way
  out needs other accounts and new tokens: a second Y account of the PDA with
  exactly the price, or the offered X put back and a Cancel that names no
  account for Y. What lies in the first Y account stays with the PDA.
- `sol_vault_surplus`: "everything above the rent minimum" is everything but one
  lamport.
- `sol_vault_prefunded`: a vault address that holds lamports is never created.
- `config_fee`: a fee update replaces the admin; one test expects it to stay
  (`tests/test3.ts:94`), another expects the replacement (`tests/litesvm3.ts:186`).
- `config_resize`: the resize instruction cannot succeed.

One more is not a run, since no line of the repository promises otherwise in
words: `instructions/mod.rs:94` and `:171` list a freeze authority, and the tests
pass one (`tests/test1.ts:118`, `tests/test2.ts:39`). A legacy mint gets it only
if it is the system program (`tokLgcInitMint.rs:93`), a Token-2022 mint only if it
is the token program (`tok22InitMint.rs:143`). A wallet that is passed is dropped and
the mint has no freeze authority (`FreezeLgc`, `Freeze22`).

Two limits of what holds are worth knowing: `DueIsWithdrawable` says *all but one
lamport* for the reason above, and `ClosableWhenExact` assumes that some Config
exists, because while none does no escrow handler succeeds.

## What is proved

The theorems hold for every value of the constants that satisfies the named
assumptions: makers and program owners are users, PDAs are not wallets, amounts
and funds are naturals, rent minima are positive, `NoOffer`, `NoConfig` and
`NoAccount` are no records; for the refinements of `Swap` and `Custody`, and for
`Program`, also that the token accounts are finitely many. TLC evaluates each
assumption on the instances it checks.

- **Escrow.** `OfferCovered` is not inductive alone: that a payment lands in
  another account than the one X leaves rests on the mints being different, and
  that Take's signature concerns this PDA rests on the record deriving its PDA.
  `Inv == TypeOK /\ SeedsDerivePda /\ OfferCovered` is. The four step lemmas
  (`MakeStep`, `TakeStep`, `WithdrawStep`, `CancelStep`) say what an instruction
  does to the accounts of its PDA and that it takes nothing from those of others
  (`Untouched`); the environment takes nothing from any PDA. From these follow
  `OffersAreCovered`, `MakersAreMadeWhole` (a closing step pays) and
  `TradesAreAtTerms` (a step that leaves the offer open takes nothing but at
  its terms). `ExactOffersAreClosable` follows from the invariant state by state,
  with the maker's own ATAs as the accounts that he names
  (`ExactPriceWithdraws`, `ExactOfferCancels`). At the price Withdraw succeeds
  whatever surplus X there is.
- **Escrow implements Swap** (`SwapIsKept`). An instruction makes at most one
  transfer of each of two mints, so what anybody holds of a mint changes by one
  transfer (`TwoTransfers`), and each instruction is one step of `Swap`:
  `MakeImplements` (Post), `TakeImplements` (Settle), `WithdrawImplements` and
  `CancelImplements` (End, by `ClosingEnds`). The delicate one is Cancel, whose
  account for Y is unchecked: `CancelTransfers` shows that if anything is swept
  from it, the token program's own checks make it an account of this PDA for Y,
  and that otherwise it is as if nothing were taken from the ATA. That the poster
  is the one who is paid rests on `SeedsDerivePda`. Tokens a wallet sends are a
  gift, a payment into a pot, or stay in its purse.
- **SolVault.** `Inv == VaultTypeOK /\ VaultCoversDeposits` is inductive; the
  lemma `KeptCovers` reduces every step but deposits and withdrawals to "no
  vault loses a lamport". `DuesAreWithdrawable` follows from the invariant:
  lam >= VaultMin + due > VaultMin + (due - 1). `OnlyOwnersArePaid` is an action
  property of the same step lemmas.
- **Config.** `ConfigKeepsVaults` proves a refinement: every Config step is a
  CreatePda, a ClosePda or a stutter of `SolVault`, so that all theorems about
  vaults carry over (`VaultsStillCoverDeposits`). `ConfigInv` adds that a record
  lies in a funded account of the program at the PDA of the owner it names, and
  that no account is left there without a record; both are needed for either,
  since InitConfig's guard speaks of lamports only. From it also follow the two
  action properties: `OnlyAuthoritiesAct`, and `StatusesStayKnown`, for which it
  shows that InitConfig never overwrites a record.
- **TokenVault.** `IInv == TypeOK /\ DueIsThere /\ ConfigNames` is inductive.
  `DueIsThere` says that what is due lies in the account, and that nothing is due
  in a vault that was ever a till for the mint; without the second part a
  redemption would take from what is due. `ConfigNames` says that a record in the
  PDA of owner c names c and the vault of c, and that its mints are tilled. From
  these follow `DepositsWithdrawable` and `TillsRedeemable`, and of the step
  lemmas `VaultsPayByRight`.
- **TokenVault implements Custody** (`CustodyIsKept`). Every instruction makes one
  transfer or none, so its step of `Custody` follows from the owners of the two
  accounts: out of a wallet (`WalletTransfers`) it is a gift, PutIn or GiveAway,
  out of a vault (`VaultTransfers`) it is TakeOut. A Config opens its owner's
  till and closes it (`AccountsImplement`); one that lists no mint is a stutter.
- **Program.** `PInv == V!IInv /\ E!Inv /\ vaults \subseteq V!Vaults` is inductive.
  Half of the work is in the components' lemmas, which apply to the instances
  (`VaultsApply`, `EscrowApplies`: the assumptions of the components follow from
  those of `Program`). The other half is that each component survives the
  other's steps: an escrow step takes nothing from any vault and changes no
  Config, so what is due stays due; a vault step takes nothing from any escrow
  PDA (`Untouched`), although a deposit may put tokens into one, and leaves the
  offers alone, so they stay covered (`E!UntouchedKeepsInv`). From these follow
  `TypesAreKept`, `PromisesAreKept` (the components' lemmas
  `InvMakesClosable`, `InvMakesWithdrawable`, `InvMakesRedeemable`) and
  `OnlyOnePays`, where addresses of different kinds being different matters.
- **TokenMint.** `TypeOK` is inductive; it contains that what exists holds
  lamports and that accounts belong to mints, on which `AuthoritiesCanIssue` and
  `MintsStay` rest. `AuthoritiesIssue` needs no more than the guards of the one
  action that raises a supply.

**Checked by TLC only:** `MakerGetsOut`, as liveness under fairness is out of the
prover's reach; no theorem speaks of ENABLED, and what can be done next is
stated by the handlers' guards. Every other property of a passing run is the
property of a theorem. The properties of the runs in "Disagreements" are false
and have their counterexamples.

## Plan

Done: escrow, SOL vaults, Config, token vaults, mints, the composition of escrow,
token vaults and Configs, the recovery of a maker, both refinements, and their
proofs. Left:

1. *Lamports in `Program`*: rent of escrow PDAs and token accounts in one ledger
   with the vaults, which `SolVault` has as CreatePda and ClosePda.
2. *Safety behind `MakerGetsOut`*: each of the maker's steps enables the next one
   (`HaveConfig`, `OpenRoom`, `FillRoom`, `CloseOffer`), stated with the guards
   instead of ENABLED, as lemmas about `EscrowRecovery`.
3. *Custody and Swap of the whole*: `Program` implements both at once, each with
   the other's PDAs as parties.

## Not modelled

Byte parsing, error numbering and logging: a failed check is an aborted
transaction whatever its code. The IDL in `instructions/mod.rs`, the tests and the
clients: no effect at run time. `updated_at` and its truncation to 32 bits, name,
symbol and uri of a Token-2022 mint, and the Config fields listed under
Abstractions: written or parsed and never decided on by the program.
