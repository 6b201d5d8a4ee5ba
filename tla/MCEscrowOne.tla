----------------------------- MODULE MCEscrowOne -----------------------------
(***************************************************************************)
(* One offer of ann's.  There is an X over when she offers one, and Y for  *)
(* two payments of one next to the one that she can make herself.  Its PDA *)
(* can have a second account for Y next to the ATA.                        *)
(***************************************************************************)
EXTENDS EscrowSwap, EscrowRecovery

CONSTANTS ann, bob, X, Y

MCUsers == {ann, bob}
MCMints == {X, Y}
MCFunds == [u \in MCUsers |-> [m \in MCMints |->
               CASE u = ann -> IF m = X THEN 2 ELSE 1
                 [] u = bob -> IF m = X THEN 0 ELSE 2]]
MCSecond == {[owner |-> <<ann, 1>>, mint |-> Y, slot |-> 1]}
==============================================================================
