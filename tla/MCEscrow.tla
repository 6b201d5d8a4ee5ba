------------------------------ MODULE MCEscrow -------------------------------
(***************************************************************************)
(* Small instances of Escrow for TLC.                                      *)
(***************************************************************************)
EXTENDS Escrow

CONSTANTS ann, bob, X, Y

MCUsers == {ann, bob}
MCMints == {X, Y}

\* One offer of ann's.  Its PDA has a second account for Y next to the ATA.
MCFunds == [u \in MCUsers |-> [m \in MCMints |->
               IF <<u, m>> \in {<<ann, X>>, <<bob, Y>>} THEN 2 ELSE 0]]
MCExtraOne == {[owner |-> <<ann, 1>>, mint |-> Y, slot |-> 1]}

\* Two offers, one of each user or both of ann's, and no other accounts.
MCExtraNone == {}
==============================================================================
