----------------------------- MODULE TokenTotals ------------------------------
(***************************************************************************)
(* How many tokens a set of token accounts holds together.  Tokens are     *)
(* counted: <<a, k>> stands for the k-th token of account a.               *)
(***************************************************************************)
EXTENDS Naturals, FiniteSets

TokensIn(bal, accounts) == UNION {{a} \X (1 .. bal[a]) : a \in accounts}

Total(bal, accounts) == Cardinality(TokensIn(bal, accounts))
==============================================================================
