---------------------------- MODULE MCTokenVault ----------------------------
(***************************************************************************)
(* A small instance of TokenVault for TLC.                                 *)
(***************************************************************************)
EXTENDS TokenVaultCustody

CONSTANTS ann, bob, X, esc

MCUsers == {ann, bob}

\* Both users are program owners.  There is one mint and bob's vault has a
\* second account for it; an escrow's PDA may be named as the vault.
MCMints == {X}
MCFunds == [u \in MCUsers |-> [m \in MCMints |-> IF u = bob THEN 2 ELSE 0]]
MCSecond == {[owner |-> VaultPda(bob), mint |-> X, slot |-> 1]}
==============================================================================
