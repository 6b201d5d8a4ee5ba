------------------------------ MODULE MCConfig -------------------------------
(***************************************************************************)
(* A small instance of Config: the Config of one owner, and two wallets.   *)
(***************************************************************************)
EXTENDS Config

CONSTANTS ann, bob

MCUsers == {ann, bob}
MCOwners == {ann}
MCPdas == {ConfigPda(ann)}
MCPurse == [u \in MCUsers |-> 3]
==============================================================================
