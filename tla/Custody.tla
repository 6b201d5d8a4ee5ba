------------------------------- MODULE Custody --------------------------------
(***************************************************************************)
(* What the token vaults promise, without token accounts, PDAs, seeds or   *)
(* Configs: every user has a purse and a vault, whole tokens move between  *)
(* them, and only a user takes out of his vault, or anybody does while it  *)
(* is a till for the mint.                                                 *)
(***************************************************************************)
EXTENDS Naturals

CONSTANTS
    Users,
    Mints,
    Funds   \* tokens in each purse at the start, per mint

VARIABLES
    purse,  \* tokens of each user, per mint
    vault,  \* tokens in each user's vault, per mint
    kept,   \* tokens given to the program's other accounts, per mint
    tills   \* <<user, mint>>: the user's vault pays whoever asks

vars == <<purse, vault, kept, tills>>

Init ==
    /\ purse = Funds
    /\ vault = [u \in Users |-> [m \in Mints |-> 0]]
    /\ kept = [m \in Mints |-> 0]
    /\ tills = {}

Added(held, u, m, n) == [held EXCEPT ![u][m] = @ + n]
Taken(held, u, m, n) == [held EXCEPT ![u][m] = @ - n]

\* User u puts n tokens into the vault of v: TokLgcDeposit, TokLgcPay, a gift.
PutIn(u, v, m, n) ==
    /\ purse' = Taken(purse, u, m, n)
    /\ vault' = Added(vault, v, m, n)
    /\ UNCHANGED <<kept, tills>>

\* Tokens of v's vault go to user u: his own (TokLgcWithdraw) or a till's
\* (TokLgcRedeem).
TakeOut(u, v, m, n) ==
    /\ u = v \/ <<v, m>> \in tills
    /\ vault' = Taken(vault, v, m, n)
    /\ purse' = Added(purse, u, m, n)
    /\ UNCHANGED <<kept, tills>>

\* A user gives tokens to another, or to an account the program never pays from.
Give(u, w, m, n) ==
    /\ purse' = Added(Taken(purse, u, m, n), w, m, n)
    /\ UNCHANGED <<vault, kept, tills>>

GiveAway(u, m, n) ==
    /\ purse' = Taken(purse, u, m, n)
    /\ kept' = [kept EXCEPT ![m] = @ + n]
    /\ UNCHANGED <<vault, tills>>

\* A vault becomes a till for some mints, and is one no longer.
IsTill(v) == \E m \in Mints : <<v, m>> \in tills

OpenTill(v, ms) ==
    /\ ~IsTill(v)
    /\ tills' = tills \cup ({v} \times ms)
    /\ UNCHANGED <<purse, vault, kept>>

CloseTill(v) ==
    /\ IsTill(v)
    /\ tills' = tills \ ({v} \times Mints)
    /\ UNCHANGED <<purse, vault, kept>>

Next ==
    \E u \in Users :
       \/ \E m \in Mints :
            \/ \E n \in 1 .. purse[u][m] :
                  \/ \E v \in Users : PutIn(u, v, m, n) \/ Give(u, v, m, n)
                  \/ GiveAway(u, m, n)
            \/ \E v \in Users : \E n \in 1 .. vault[v][m] : TakeOut(u, v, m, n)
       \/ \E ms \in SUBSET Mints : OpenTill(u, ms)
       \/ CloseTill(u)

Spec == Init /\ [][Next]_vars
==============================================================================
