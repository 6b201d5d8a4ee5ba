-------------------------- MODULE TokenTotalsProofs ---------------------------
(***************************************************************************)
(* What becomes of totals when tokens move: lemmas for the proofs that     *)
(* Escrow implements Swap and TokenVault implements Custody.               *)
(***************************************************************************)
EXTENDS TokenTotals, TokenAccounts, FiniteSetTheorems, TLAPS

\* A total of finitely many accounts is a number.
LEMMA TotalIsNat ==
    ASSUME NEW S, IsFiniteSet(S), NEW b, \A a \in S : b[a] \in Nat
    PROVE  IsFiniteSet(TokensIn(b, S)) /\ Total(b, S) \in Nat
<1> DEFINE Of == [a \in S |-> {a} \X (1 .. b[a])]
           Sets == {{a} \X (1 .. b[a]) : a \in S}
<1>1. Of \in Surjection(S, Sets)
  BY DEF Surjection
<1>2. IsFiniteSet(Sets)
  BY <1>1, FS_Surjection
<1>3. ASSUME NEW a \in S PROVE IsFiniteSet({a} \X (1 .. b[a]))
  <2>1. IsFiniteSet({a})
    BY FS_Singleton
  <2>2. IsFiniteSet(1 .. b[a])
    BY FS_Interval
  <2> QED
    BY <2>1, <2>2, FS_Product
<1>4. \A T \in Sets : IsFiniteSet(T)
  BY <1>3
<1>5. IsFiniteSet(UNION Sets)
  BY <1>2, <1>4, FS_UNION
<1> QED
  BY <1>5, FS_CardinalityType DEF TokensIn, Total

\* One account's tokens are told apart from those of the others.
LEMMA TotalSplit ==
    ASSUME NEW S, IsFiniteSet(S), NEW b, \A a \in S : b[a] \in Nat, NEW x \in S
    PROVE  /\ Total(b, S \ {x}) \in Nat
           /\ Total(b, S) = Total(b, S \ {x}) + b[x]
<1> DEFINE Rest == TokensIn(b, S \ {x})
           Own == {x} \X (1 .. b[x])
<1>1. IsFiniteSet(S \ {x})
  BY FS_RemoveElement
<1>2. IsFiniteSet(Rest) /\ Total(b, S \ {x}) \in Nat
  BY <1>1, TotalIsNat
<1>3. IsFiniteSet(Own) /\ Cardinality(Own) = b[x]
  <2>1. IsFiniteSet({x}) /\ Cardinality({x}) = 1
    BY FS_Singleton
  <2>2. IsFiniteSet(1 .. b[x]) /\ Cardinality(1 .. b[x]) = b[x]
    BY FS_Interval
  <2>3. IsFiniteSet(Own) /\ Cardinality(Own) = Cardinality({x}) * Cardinality(1 .. b[x])
    BY <2>1, <2>2, FS_Product
  <2> QED
    BY <2>1, <2>2, <2>3
<1>4. Rest \cap Own = {}
  BY DEF TokensIn
<1>5. TokensIn(b, S) = Rest \cup Own
  BY DEF TokensIn
<1>6. Cardinality(Rest \cup Own) = Cardinality(Rest) + Cardinality(Own) - 0
  <2> HIDE DEF Rest, Own
  <2> QED
    BY <1>2, <1>3, <1>4, FS_Union, FS_EmptySet
<1> QED
  BY <1>2, <1>3, <1>5, <1>6 DEF Total

\* A total depends on the accounts' own balances alone.
LEMMA TotalOfSame ==
    ASSUME NEW S, NEW b, NEW c, \A a \in S : b[a] = c[a]
    PROVE  Total(b, S) = Total(c, S)
BY DEF Total, TokensIn

\* Empty accounts hold nothing together.
LEMMA TotalOfEmpty ==
    ASSUME NEW S, NEW b, \A a \in S : b[a] = 0
    PROVE  Total(b, S) = 0
<1>1. TokensIn(b, S) = {}
  BY DEF TokensIn
<1> QED
  BY <1>1, FS_EmptySet DEF Total

\* If one account only holds anything, the total is what it holds.
LEMMA TotalOfOne ==
    ASSUME NEW S, IsFiniteSet(S), NEW b, \A a \in S : b[a] \in Nat, NEW x \in S,
           \A a \in S \ {x} : b[a] = 0
    PROVE  Total(b, S) = b[x]
<1>1. Total(b, S \ {x}) = 0
  BY TotalOfEmpty
<1> QED
  BY <1>1, TotalSplit

\* When one account changes, the total changes as much.
LEMMA TotalOfChanged ==
    ASSUME NEW S, IsFiniteSet(S), NEW b, NEW c,
           \A a \in S : b[a] \in Nat /\ c[a] \in Nat,
           NEW x \in S, \A a \in S \ {x} : b[a] = c[a]
    PROVE  Total(c, S) + b[x] = Total(b, S) + c[x]
<1>1. Total(b, S \ {x}) = Total(c, S \ {x})
  BY TotalOfSame
<1>2. /\ Total(b, S \ {x}) \in Nat /\ b[x] \in Nat /\ c[x] \in Nat
      /\ Total(b, S) = Total(b, S \ {x}) + b[x]
      /\ Total(c, S) = Total(c, S \ {x}) + c[x]
  BY TotalSplit
<1> QED
  BY <1>1, <1>2

\* A transfer takes from the accounts that hold the source what it gives to
\* those that hold the target.
LEMMA TotalOfTransferred ==
    ASSUME NEW A, IsFiniteSet(A), NEW b \in [A -> Nat], NEW S \in SUBSET A,
           NEW from \in A, NEW to \in A, from # to, NEW n \in Nat, b[from] >= n
    PROVE  /\ Total(b, S) \in Nat
           /\ from \in S => Total(b, S) >= n
           /\ Total(Transferred(b, from, to, n), S)
                = (IF from \in S THEN Total(b, S) - n ELSE Total(b, S))
                    + (IF to \in S THEN n ELSE 0)
<1> DEFINE c == [b EXCEPT ![from] = @ - n]
           d == [c EXCEPT ![to] = @ + n]
<1>1. IsFiniteSet(S) /\ Total(b, S) \in Nat
  BY FS_Subset, TotalIsNat
<1>2. /\ c \in [A -> Nat] /\ d \in [A -> Nat]
      /\ c[from] = b[from] - n /\ \A a \in A \ {from} : b[a] = c[a]
      /\ d[to] = c[to] + n /\ \A a \in A \ {to} : c[a] = d[a]
  OBVIOUS
<1>3. Transferred(b, from, to, n) = d
  BY DEF Transferred
<1>4. Total(c, S) \in Nat /\ Total(d, S) \in Nat
  BY <1>1, <1>2, TotalIsNat
<1> HIDE DEF c, d
<1>5. Total(c, S) = (IF from \in S THEN Total(b, S) - n ELSE Total(b, S))
  <2>1. CASE from \in S
    <3>1. Total(c, S) + b[from] = Total(b, S) + c[from]
      BY <1>1, <1>2, <2>1, TotalOfChanged
    <3>2. b[from] \in Nat
      OBVIOUS
    <3> QED
      BY <1>1, <1>2, <1>4, <2>1, <3>1, <3>2
  <2>2. CASE from \notin S
    BY <1>2, <2>2, TotalOfSame
  <2> QED
    BY <2>1, <2>2
<1>6. Total(d, S) = Total(c, S) + (IF to \in S THEN n ELSE 0)
  <2>1. CASE to \in S
    <3>1. Total(d, S) + c[to] = Total(c, S) + d[to]
      BY <1>1, <1>2, <2>1, TotalOfChanged
    <3>2. c[to] \in Nat
      BY <1>2
    <3> QED
      BY <1>2, <1>4, <2>1, <3>1, <3>2
  <2>2. CASE to \notin S
    <3>1. Total(d, S) = Total(c, S)
      BY <1>2, <2>2, TotalOfSame
    <3> QED
      BY <1>4, <2>2, <3>1
  <2> QED
    BY <2>1, <2>2
<1>7. from \in S => Total(b, S) >= n
  <2> SUFFICES ASSUME from \in S PROVE Total(b, S) >= n
    OBVIOUS
  <2>1. Total(b, S \ {from}) \in Nat /\ Total(b, S) = Total(b, S \ {from}) + b[from]
    BY <1>1, TotalSplit
  <2> QED
    BY <2>1
<1> QED
  BY <1>1, <1>3, <1>5, <1>6, <1>7
==============================================================================
