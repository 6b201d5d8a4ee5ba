----------------------------- MODULE MCTokenMint ------------------------------
(***************************************************************************)
(* A small instance of TokenMint: one mint address, two wallets of which   *)
(* one holds no lamports yet, and a second account of one of them.         *)
(***************************************************************************)
EXTENDS TokenMint

CONSTANTS ann, bob, M

MCUsers == {ann, bob}
MCSecond == {[owner |-> bob, mint |-> M, slot |-> 1]}
==============================================================================
