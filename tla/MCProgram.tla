------------------------------ MODULE MCProgram -------------------------------
(***************************************************************************)
(* A small instance of Program: ann makes offers, bob owns a Config, and   *)
(* there is one token of each of two mints.                                *)
(***************************************************************************)
EXTENDS Program

CONSTANTS ann, bob, X, Y

MCUsers == {ann, bob}
MCMints == {X, Y}
MCFunds == [u \in MCUsers |-> [m \in MCMints |->
               IF <<u, m>> \in {<<ann, X>>, <<bob, Y>>} THEN 1 ELSE 0]]
==============================================================================
