----------------------------- MODULE MCSolVault ------------------------------
(***************************************************************************)
(* A small instance of SolVault: two users, one other PDA.                 *)
(***************************************************************************)
EXTENDS SolVault

CONSTANTS ann, bob, pda

MCUsers == {ann, bob}
MCPurse == [u \in MCUsers |-> IF u = ann THEN 7 ELSE 4]
==============================================================================
