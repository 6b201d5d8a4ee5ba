-------------------------------- MODULE Swap ---------------------------------
(***************************************************************************)
(* What the escrow promises, without token accounts, instruction arguments *)
(* or Config: parties own totals of tokens, and a deal is                  *)
(*   - posted by putting the offered tokens into its pot,                  *)
(*   - settled, any number of times, by exchanging exactly the posted      *)
(*     amounts with the pot,                                               *)
(*   - ended by its poster alone, who then receives the offered amount or  *)
(*     the price at least, and may leave or collect whatever else the pot  *)
(*     holds.                                                              *)
(* Tokens also move by gifts of parties; a pot gives nothing away.         *)
(***************************************************************************)
EXTENDS Naturals

CONSTANTS
    Parties,      \* who has a key
    Posters,      \* who posts deals
    Numbers,      \* a poster's deals are numbered
    Kinds,        \* kinds of tokens
    Amounts,      \* amounts that a deal may name
    Start,        \* tokens of each party at the start
    NoDeal

Pots == Posters \X Numbers

VARIABLES purse,  \* total owned by each party, per kind
          pot,    \* total held for each deal, per kind
          deal    \* [Pots -> the posted terms]

vars == <<purse, pot, deal>>

Init ==
    /\ purse = Start
    /\ pot = [d \in Pots |-> [k \in Kinds |-> 0]]
    /\ deal = [d \in Pots |-> NoDeal]

\* Poster d[1] puts gn tokens of kind g into pot d and asks wn of kind w.
Post(d, g, w, gn, wn) ==
    /\ g # w /\ purse[d[1]][g] >= gn
    /\ deal' = [deal EXCEPT ![d] = [give |-> g, want |-> w, gives |-> gn, wants |-> wn]]
    /\ purse' = [purse EXCEPT ![d[1]][g] = @ - gn]
    /\ pot' = [pot EXCEPT ![d][g] = @ + gn]

\* Party t exchanges the posted amounts with pot d.
Settle(t, d) ==
    LET c == deal[d]
    IN  /\ purse[t][c.want] >= c.wants
        /\ pot[d][c.give] >= c.gives
        /\ UNCHANGED deal
        /\ purse' = [purse EXCEPT ![t][c.want] = @ - c.wants, ![t][c.give] = @ + c.gives]
        /\ pot' = [pot EXCEPT ![d][c.want] = @ + c.wants, ![d][c.give] = @ - c.gives]

\* Its poster, d[1], ends deal d and takes ng of what was offered and nw of
\* what was wanted.
End(d, ng, nw) ==
    LET c == deal[d]
    IN  /\ ng >= c.gives \/ nw >= c.wants
        /\ deal' = [deal EXCEPT ![d] = NoDeal]
        /\ purse' = [purse EXCEPT ![d[1]][c.give] = @ + ng, ![d[1]][c.want] = @ + nw]
        /\ pot' = [pot EXCEPT ![d][c.give] = @ - ng, ![d][c.want] = @ - nw]

Give(from, to, k, n) ==
    /\ from # to
    /\ UNCHANGED <<deal, pot>>
    /\ purse' = [purse EXCEPT ![from][k] = @ - n, ![to][k] = @ + n]

PutIn(from, d, k, n) ==
    /\ UNCHANGED deal
    /\ purse' = [purse EXCEPT ![from][k] = @ - n]
    /\ pot' = [pot EXCEPT ![d][k] = @ + n]

Posting(d) ==
    \E g, w \in Kinds, gn, wn \in Amounts \ {0} : Post(d, g, w, gn, wn)

Ending(d) ==
    \E ng \in 0 .. pot[d][deal[d].give], nw \in 0 .. pot[d][deal[d].want] : End(d, ng, nw)

Dealing(d) ==
    \/ deal[d] = NoDeal /\ Posting(d)
    \/ deal[d] # NoDeal /\ ((\E t \in Parties : Settle(t, d)) \/ Ending(d))

Gifts(from, k, n) ==
    \/ \E to \in Parties : Give(from, to, k, n)
    \/ \E d \in Pots : PutIn(from, d, k, n)

Next ==
    \/ \E d \in Pots : Dealing(d)
    \/ \E from \in Parties, k \in Kinds : \E n \in 1 .. purse[from][k] : Gifts(from, k, n)

Spec == Init /\ [][Next]_vars
==============================================================================
