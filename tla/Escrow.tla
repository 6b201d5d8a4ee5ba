------------------------------- MODULE Escrow --------------------------------
(***************************************************************************)
(* The token-for-token escrow of the program: instructions 15 to 18,       *)
(* EscrowTokMake, EscrowTokTake, EscrowTokWithdraw and EscrowTokCancel.    *)
(*                                                                         *)
(* A maker offers amount_x of mint_x for amount_y of mint_y.  The offer is *)
(* an Escrow record in the PDA derived from (maker, id); the offered       *)
(* tokens lie in token accounts that the PDA owns.  A taker pays           *)
(* amount_y into an account of the PDA and receives amount_x; the maker    *)
(* then withdraws the payment, or cancels the offer if it was never paid;  *)
(* both close the PDA.  Nothing in the record says whether it was taken.   *)
(*                                                                         *)
(* One action is one successful instruction: a handler's try_from followed *)
(* by its process.  The runtime rolls back every write of a failed         *)
(* transaction, so a failing handler is a step that does not happen.       *)
(* Between instructions anybody may act on the token and system programs   *)
(* directly: open accounts, send tokens or lamports, and close accounts.   *)
(***************************************************************************)
EXTENDS Naturals, TokenAccounts

CONSTANTS
    Users,         \* wallets, each with a signing key
    Makers,        \* the wallets that make offers
    Ids,           \* offer ids a maker may use
    Mints,         \* legacy SPL mints
    Extra,         \* token accounts at addresses other than the derived one
    Amounts,       \* amounts that instruction data may carry
    Funds,         \* tokens each wallet starts with, per mint
    ConfigOwners,  \* wallets that may have a Config PDA
    NoAccount,     \* an address without an account
    NoOffer        \* content of an escrow PDA that does not exist

\* The escrow PDA of an offer: find_program_address("escrow", maker, id).
EscrowPda(maker, id) == <<maker, id>>
Escrows == {EscrowPda(m, i) : m \in Makers, i \in Ids}

Holders == Users \cup Escrows
Acct == {Ata(o, m) : o \in Holders, m \in Mints} \cup Extra

\* The fields of the Escrow record.  The decimals repeat those of the mints
\* and the bump follows from the address: neither is kept.
Offer == [maker : Makers, id : Ids, mint_x : Mints, mint_y : Mints,
          amount_x : Nat \ {0}, amount_y : Nat \ {0}]

ASSUME MakersAreUsers == Makers \subseteq Users
\* A PDA is off the curve: no wallet has its address.
ASSUME PdasAreNotWallets == Users \cap Escrows = {}
ASSUME ExtraAccounts == Extra \subseteq [owner : Holders, mint : Mints, slot : Nat \ {0}]
ASSUME AmountsAreNat == Amounts \subseteq Nat
ASSUME FundsAreNat == Funds \in [Users -> [Mints -> Nat]]
ASSUME NoAccountIsNoAccount == NoAccount \notin Acct
ASSUME NoOfferIsNoOffer == NoOffer \notin Offer

VARIABLES
    live,       \* token accounts that exist
    bal,        \* tokens in each of them
    offer,      \* content of each escrow PDA
    prefunded,  \* absent escrow PDAs whose address already holds lamports
    configs     \* owners whose Config PDA exists

vars == <<live, bal, offer, prefunded, configs>>

Init ==
    /\ live = {a \in Acct : a.owner \in Users /\ a.slot = 0 /\ Funds[a.owner][a.mint] > 0}
    /\ bal = [a \in Acct |-> IF a \in live THEN Funds[a.owner][a.mint] ELSE 0]
    /\ offer = [e \in Escrows |-> NoOffer]
    /\ prefunded = {}
    /\ configs = {}

IsOpen(e) == offer[e] # NoOffer

\* The accounts a caller may pass where a handler calls check_ata, and where
\* it creates the account if there is none.
Existing(o, m) == {a \in live : CheckAta(live, a, o, m)}
Usable(o, m) == {a \in Acct : FindOrCreateAta(live, a, o, m)}

\* Config::from_account_view(config_pda): every handler of this module wants
\* some Config account of the program, and accepts any.
SomeConfig == configs # {}

\* invoke_signed with the seeds (maker, id): the runtime lends the signature
\* of the address that the seeds derive.
SeedsSignFor(maker, id, e) == EscrowPda(maker, id) = e

(***************************************************************************)
(* 15 EscrowTokMake                                                        *)
(***************************************************************************)
\* Mutant: amount_x may be zero.
MakeChecksZeroX(src, mx, my, ax, ay) == bal[src] >= ax /\ ay > 0 /\ mx # my

MakeChecks(src, mx, my, ax, ay) ==
    /\ ax > 0
    /\ bal[src] >= ax
    /\ ay > 0
    /\ mx # my

\* An escrow PDA is created only where nothing is: CreateAccount of the
\* system program also fails on an address that already holds lamports.
CanCreateEscrow(e) == ~IsOpen(e) /\ e \notin prefunded

EscrowTokMake(maker, id, mx, my, ax, ay) ==
    LET e == EscrowPda(maker, id)
    IN  \E src \in Existing(maker, mx), dst \in Usable(e, mx) :
          /\ MakeChecks(src, mx, my, ax, ay)
          /\ SomeConfig
          /\ CanCreateEscrow(e)
          /\ live' = live \cup {dst}
          /\ CanTransfer(live', bal, src, dst, mx, maker, ax)
          /\ bal' = Transferred(bal, src, dst, ax)
          /\ offer' = [offer EXCEPT ![e] =
                         [maker |-> maker, id |-> id, mint_x |-> mx,
                          mint_y |-> my, amount_x |-> ax, amount_y |-> ay]]
          /\ UNCHANGED <<prefunded, configs>>

(***************************************************************************)
(* 16 EscrowTokTake                                                        *)
(***************************************************************************)
TakeChecks(ax, ay, mx, my, takerY, escX) ==
    /\ ax > 0
    /\ bal[escX] >= ax
    /\ ay > 0
    /\ bal[takerY] >= ay
    /\ mx # my

\* Mutants: each amount, and the pair of mints, not compared.
TermsMatchAnyX(o, mx, my, ax, ay, id) ==
    o.mint_x = mx /\ o.mint_y = my /\ o.amount_y = ay /\ o.id = id
TermsMatchAnyY(o, mx, my, ax, ay, id) ==
    o.mint_x = mx /\ o.mint_y = my /\ o.amount_x = ax /\ o.id = id
TermsMatchAnyMints(o, mx, my, ax, ay, id) ==
    o.amount_x = ax /\ o.amount_y = ay /\ o.id = id

\* The taker names the terms; they must be those of the record.
TermsMatch(o, mx, my, ax, ay, id) ==
    /\ o.mint_x = mx /\ o.mint_y = my
    /\ o.amount_x = ax /\ o.amount_y = ay
    /\ o.id = id

EscrowTokTake(taker, e, mx, my, ax, ay, id) ==
    /\ IsOpen(e)
    /\ SomeConfig
    /\ TermsMatch(offer[e], mx, my, ax, ay, id)
    /\ SeedsSignFor(offer[e].maker, id, e)
    /\ \E takerY \in Existing(taker, my), escX \in Existing(e, mx),
          takerX \in Usable(taker, mx), escY \in Usable(e, my) :
        LET paid == Transferred(bal, takerY, escY, ay)
        IN  /\ TakeChecks(ax, ay, mx, my, takerY, escX)
            /\ live' = live \cup {escY, takerX}
            /\ CanTransfer(live', bal, takerY, escY, my, taker, ay)
            /\ CanTransfer(live', paid, escX, takerX, mx, e, ax)
            /\ bal' = Transferred(paid, escX, takerX, ax)
    /\ UNCHANGED <<offer, prefunded, configs>>

(***************************************************************************)
(* Closing an offer.  Both closing handlers begin with the same checks of  *)
(* the record and end alike: the escrow PDA is emptied, its lamports go to *)
(* the maker, and its address is free again.                               *)
(***************************************************************************)
\* Mutant: the signer is not compared with the record's maker, from whom the
\* seeds are taken, as in Take.
AnySigner(maker, e, mx, my) ==
    /\ IsOpen(e)
    /\ SomeConfig
    /\ offer[e].mint_x = mx
    /\ offer[e].mint_y = my
    /\ SeedsSignFor(offer[e].maker, offer[e].id, e)

OnlyMaker(maker, e, mx, my) ==
    /\ IsOpen(e)
    /\ SomeConfig
    /\ offer[e].maker = maker
    /\ offer[e].mint_x = mx
    /\ offer[e].mint_y = my
    /\ SeedsSignFor(maker, offer[e].id, e)

CloseEscrow(e) == offer' = [offer EXCEPT ![e] = NoOffer]

\* Whatever is left in account `from` goes to account `to`; a transfer is
\* made only if something is left.
Swept(b, from, to) == IF b[from] > 0 THEN Transferred(b, from, to, b[from]) ELSE b

(***************************************************************************)
(* 17 EscrowTokWithdraw: the maker collects the payment.  Exactly amount_y *)
(* is paid out, all X is, and both escrow accounts must then be empty to   *)
(* be closed.                                                              *)
(***************************************************************************)
\* Mutant: X that is left over stays.
WithdrawPaysY(e, makerX, makerY, escX, escY) ==
    Transferred(bal, escY, makerY, offer[e].amount_y)

WithdrawPays(e, makerX, makerY, escX, escY) ==
    Swept(Transferred(bal, escY, makerY, offer[e].amount_y), escX, makerX)

WithdrawOk(e, makerX, makerY, escX, escY) ==
    LET after == WithdrawPays(e, makerX, makerY, escX, escY)
    IN  /\ bal[escY] >= offer[e].amount_y
        /\ CanCloseAccount(live, after, escY, e)
        /\ CanCloseAccount(live, after, escX, e)

EscrowTokWithdraw(maker, e, mx, my) ==
    /\ OnlyMaker(maker, e, mx, my)
    /\ \E escX \in Existing(e, mx), escY \in Existing(e, my),
          makerX \in Usable(maker, mx), makerY \in Usable(maker, my) :
        /\ WithdrawOk(e, makerX, makerY, escX, escY)
        /\ bal' = WithdrawPays(e, makerX, makerY, escX, escY)
        /\ live' = (live \cup {makerY} \cup
                      (IF bal[escX] > 0 THEN {makerX} ELSE {})) \ {escX, escY}
    /\ CloseEscrow(e)
    /\ UNCHANGED <<prefunded, configs>>

(***************************************************************************)
(* 18 EscrowTokCancel: the maker takes an unpaid offer back.  The account  *)
(* passed as escrow_ata_y is not checked: it may be any, or none.          *)
(***************************************************************************)
\* Mutant: any payment counts, a partial one too.
AnyPaymentArrived(e, escY) == escY \in live /\ bal[escY] > 0

\* Error MakerToWithdrawTokenY.
PaymentArrived(e, escY) == escY \in live /\ bal[escY] >= offer[e].amount_y

\* Exactly amount_x goes back, then all that escY holds.
Returned(e, makerX, escX) == Transferred(bal, escX, makerX, offer[e].amount_x)

CancelPays(e, makerX, makerY, escX, escY) ==
    IF escY \in live \cup {makerX}
    THEN Swept(Returned(e, makerX, escX), escY, makerY)
    ELSE Returned(e, makerX, escX)

\* The accounts there are before the escrow's own are closed.
CancelFound(e, makerX, makerY, escX, escY) ==
    live \cup {makerX} \cup
        (IF escY \in live \cup {makerX} /\ Returned(e, makerX, escX)[escY] > 0
         THEN {makerY} ELSE {})

CancelOk(e, mx, my, makerX, makerY, escX, escY) ==
    LET found    == CancelFound(e, makerX, makerY, escX, escY)
        returned == Returned(e, makerX, escX)
        after    == CancelPays(e, makerX, makerY, escX, escY)
    IN  /\ ~PaymentArrived(e, escY)
        /\ CanTransfer(found, bal, escX, makerX, mx, e, offer[e].amount_x)
        /\ escY \in live \cup {makerX} =>
              /\ returned[escY] > 0 =>
                    CanTransfer(found, returned, escY, makerY, my, e, returned[escY])
              /\ CanCloseAccount(found, after, escY, e)
        /\ escX # escY => CanCloseAccount(found, after, escX, e)

EscrowTokCancel(maker, e, mx, my) ==
    /\ OnlyMaker(maker, e, mx, my)
    /\ \E escX \in Existing(e, mx), escY \in Acct \cup {NoAccount},
          makerX \in Usable(maker, mx), makerY \in Usable(maker, my) :
        /\ CancelOk(e, mx, my, makerX, makerY, escX, escY)
        /\ bal' = CancelPays(e, makerX, makerY, escX, escY)
        /\ live' = CancelFound(e, makerX, makerY, escX, escY) \ {escX, escY}
    /\ CloseEscrow(e)
    /\ UNCHANGED <<prefunded, configs>>

(***************************************************************************)
(* What may happen between the escrow's instructions.                      *)
(***************************************************************************)
\* Anybody opens a token account, for any owner: the ATA program and the
\* token program ask for no signature of the owner.
OpenTokenAccount(a) ==
    /\ a \notin live
    /\ live' = live \cup {a}
    /\ UNCHANGED <<bal, offer, prefunded, configs>>

\* A wallet sends tokens, to an account of a wallet or of an escrow PDA.
SendTokens(from, to, n) ==
    /\ from.owner \in Users /\ from # to /\ n > 0
    /\ CanTransfer(live, bal, from, to, from.mint, from.owner, n)
    /\ bal' = Transferred(bal, from, to, n)
    /\ UNCHANGED <<live, offer, prefunded, configs>>

\* A wallet closes an empty account of its own.
CloseTokenAccount(a) ==
    /\ a.owner \in Users
    /\ CanCloseAccount(live, bal, a, a.owner)
    /\ live' = live \ {a}
    /\ UNCHANGED <<bal, offer, prefunded, configs>>

\* Somebody sends lamports to the address of an escrow that is not there.
PrefundEscrow(e) ==
    /\ ~IsOpen(e)
    /\ prefunded' = prefunded \cup {e}
    /\ UNCHANGED <<live, bal, offer, configs>>

\* Config PDAs come and go (instructions 12 and 14); the escrow only asks
\* whether there is one.
InitConfig(c) ==
    /\ c \notin configs
    /\ configs' = configs \cup {c}
    /\ UNCHANGED <<live, bal, offer, prefunded>>

CloseConfigPda(c) ==
    /\ c \in configs
    /\ configs' = configs \ {c}
    /\ UNCHANGED <<live, bal, offer, prefunded>>

(***************************************************************************)
(* The specification                                                       *)
(***************************************************************************)
Make == \E maker \in Makers, id \in Ids, mx, my \in Mints, ax, ay \in Amounts :
            EscrowTokMake(maker, id, mx, my, ax, ay)

Take == \E taker \in Users, e \in Escrows, mx, my \in Mints,
           ax, ay \in Amounts, id \in Ids :
            EscrowTokTake(taker, e, mx, my, ax, ay, id)

Withdraw == \E u \in Users, e \in Escrows, mx, my \in Mints :
                EscrowTokWithdraw(u, e, mx, my)

Cancel == \E u \in Users, e \in Escrows, mx, my \in Mints :
              EscrowTokCancel(u, e, mx, my)

Environment ==
    \/ \E a \in Acct : OpenTokenAccount(a)
    \/ \E from, to \in live, n \in Amounts : SendTokens(from, to, n)
    \/ \E a \in live : CloseTokenAccount(a)
    \/ \E e \in Escrows : PrefundEscrow(e)
    \/ \E c \in ConfigOwners : InitConfig(c)
    \/ \E c \in ConfigOwners : CloseConfigPda(c)

Next == Make \/ Take \/ Withdraw \/ Cancel \/ Environment

Spec == Init /\ [][Next]_vars

(***************************************************************************)
(* Properties                                                              *)
(***************************************************************************)
\* Types, and that an address without an account holds nothing.
TypeOK ==
    /\ live \subseteq Acct
    /\ bal \in [Acct -> Nat]
    /\ \A a \in Acct \ live : bal[a] = 0
    /\ offer \in [Escrows -> Offer \cup {NoOffer}]
    /\ prefunded \subseteq Escrows
    /\ configs \subseteq ConfigOwners

\* The fields of an open offer derive the PDA it lies in, so that the seeds
\* the handlers sign with are the PDA's own, and the offer is for two
\* different mints.
SeedsDerivePda ==
    \A e \in Escrows : IsOpen(e) =>
        /\ EscrowPda(offer[e].maker, offer[e].id) = e
        /\ offer[e].mint_x # offer[e].mint_y

Holds(e, m, n) == \E a \in live : a.owner = e /\ a.mint = m /\ bal[a] >= n

\* However takers, other offers and gifts interleave, an open offer is
\* covered: an account of its PDA holds the offered X, or one holds the
\* price in Y.  The record itself cannot tell which.
OfferCovered ==
    \A e \in Escrows : IsOpen(e) =>
        \/ Holds(e, offer[e].mint_x, offer[e].amount_x)
        \/ Holds(e, offer[e].mint_y, offer[e].amount_y)

Gains(u, m, n) ==
    \E a \in Acct : a.owner = u /\ a.mint = m /\ a \in live' /\ bal'[a] >= bal[a] + n

\* What the maker of offer e is due, in one step: X back or the price in Y.
PaysMaker(e) ==
    \/ Gains(offer[e].maker, offer[e].mint_x, offer[e].amount_x)
    \/ Gains(offer[e].maker, offer[e].mint_y, offer[e].amount_y)

\* An offer ends only in a step that pays its maker: the offered X back, or
\* the whole price in Y (Withdraw and Cancel).
MakerMadeWhole ==
    [][\A e \in Escrows : IsOpen(e) /\ ~IsOpen(e)' => PaysMaker(e)]_vars

\* Tokens leave the PDA's accounts only as a trade at the terms of offer e:
\* exactly amount_x goes out of one account while exactly amount_y comes
\* into another.
AtTerms(e) ==
    /\ offer'[e] = offer[e]
    /\ \A a \in Acct : a.owner = e /\ bal'[a] < bal[a] =>
         /\ a.mint = offer[e].mint_x
         /\ bal[a] = bal'[a] + offer[e].amount_x
         /\ \E b \in Acct : /\ b.owner = e /\ b.mint = offer[e].mint_y
                            /\ bal'[b] = bal[b] + offer[e].amount_y

\* While an offer stays open its terms stand, and its PDA pays nothing out
\* but at these terms, whoever takes it and however often (Take).
TradeAtTerms ==
    [][\A e \in Escrows : IsOpen(e) /\ IsOpen(e)' => AtTerms(e)]_vars

\* The maker's two ways out leave no gap between them: an offer whose ATAs
\* hold exactly what it was made or taken for can be withdrawn or cancelled
\* at once, with the derived accounts and whoever's Config there is.
MakerCanClose(e) ==
    LET o == offer[e]
        makerX == Ata(o.maker, o.mint_x)  makerY == Ata(o.maker, o.mint_y)
        escX == Ata(e, o.mint_x)          escY == Ata(e, o.mint_y)
    IN  /\ OnlyMaker(o.maker, e, o.mint_x, o.mint_y)
        /\ \/ WithdrawOk(e, makerX, makerY, escX, escY)
           \/ CancelOk(e, o.mint_x, o.mint_y, makerX, makerY, escX, escY)

ClosableWhenExact ==
    \A e \in Escrows :
        LET o == offer[e]  escX == Ata(e, o.mint_x)  escY == Ata(e, o.mint_y)
        IN  /\ IsOpen(e) /\ SomeConfig /\ escX \in live
            /\ \/ bal[escX] = o.amount_x /\ bal[escY] <= o.amount_y
               \/ bal[escY] = o.amount_y
            => MakerCanClose(e)

\* Cancel refuses a paid offer with MakerToWithdrawTokenY: the maker is to
\* withdraw instead, from the same account.
WithdrawWhenToldTo ==
    \A e \in Escrows :
        LET o == offer[e]  escX == Ata(e, o.mint_x)  escY == Ata(e, o.mint_y)
        IN  /\ IsOpen(e) /\ SomeConfig /\ escX \in live
            /\ PaymentArrived(e, escY)
            => WithdrawOk(e, Ata(o.maker, o.mint_x), Ata(o.maker, o.mint_y), escX, escY)
==============================================================================
