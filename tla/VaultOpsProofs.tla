---------------------------- MODULE VaultOpsProofs ----------------------------
(***************************************************************************)
(* Lemmas about the arithmetic of the vault, for every width of an amount   *)
(* and every protocol limit.  The one fact that is not linear is that a fee *)
(* of at most the whole is between zero and the amount: FeeIsPart.  Then     *)
(* what the other proofs need of numbers: induction, and sums over sets.    *)
(***************************************************************************)
EXTENDS VaultOps, WellFoundedInduction, FiniteSetTheorems, TLAPS

\* The books in exact arithmetic, without the wrap of audit_solvency.
Balanced(v) == v.collateral = v.circulating + v.pool

\* safe_fee_calc: a rate up to 10000 bps takes a part of the amount.
LEMMA FeeIsPart ==
    ASSUME NEW amount \in Nat, NEW bps \in Nat, bps <= BpsOfWhole
    PROVE  /\ FeeOf(amount, bps) \in 0 .. amount
           /\ NetOf(amount, bps) \in 0 .. amount
<1>1. amount * bps \in Nat /\ amount * bps <= amount * 10000
  BY DEF BpsOfWhole
<1>2. \A p, a \in Nat : p <= a * 10000 => p \div 10000 \in 0 .. a
  OBVIOUS
<1>3. (amount * bps) \div 10000 \in 0 .. amount
  BY <1>1, <1>2
<1>4. FeeOf(amount, bps) \in 0 .. amount
  BY <1>3 DEF FeeOf, BpsOfWhole
<1> QED BY <1>4 DEF NetOf

\* Where the books balance, audit_solvency says so: nothing wraps.
LEMMA BalancedIsSolvent ==
    ASSUME NEW v \in VaultState, Balanced(v)
    PROVE  Solvent(v) /\ v.circulating <= v.collateral
<1>1. v.circulating + v.pool \in 0 .. AmountMax
  BY DEF Balanced, VaultState, Amount
<1>2. \A s \in Nat : s <= AmountMax => s % (AmountMax + 1) = s
  BY VaultLimits
<1>3. v.circulating \in Nat /\ v.pool \in Nat
  BY VaultLimits DEF VaultState, Amount
<1> QED BY <1>1, <1>2, <1>3, VaultLimits DEF Balanced, Solvent

\* Vault::deposit keeps the books.
LEMMA DepositBalances ==
    ASSUME NEW v \in VaultState, NEW gross \in Nat, NEW bps \in Nat,
           Balanced(v), DepositOK(v, gross, bps)
    PROVE  AfterDeposit(v, gross, bps) \in VaultState /\ Balanced(AfterDeposit(v, gross, bps))
<1> DEFINE fee == FeeOf(gross, bps)
           net == NetOf(gross, bps)
<1>1. fee \in Nat /\ net \in Nat /\ fee + net = gross
  BY FeeIsPart DEF DepositOK, NetOf
<1>2. v.collateral \in Nat /\ v.circulating \in Nat /\ v.pool \in Nat
  BY VaultLimits DEF VaultState, Amount
<1>3. /\ v.collateral + gross <= AmountMax
      /\ v.circulating + net <= AmountMax
      /\ v.pool + fee <= AmountMax
  BY DEF DepositOK, Fits
<1> HIDE DEF fee, net
<1>4. AfterDeposit(v, gross, bps) =
        [collateral |-> v.collateral + gross, circulating |-> v.circulating + net,
         pool |-> v.pool + fee]
  BY DEF AfterDeposit, fee, net
<1> QED BY <1>1, <1>2, <1>3, <1>4, VaultLimits DEF Balanced, VaultState, Amount

\* Vault::request_withdrawal keeps the books.
LEMMA WithdrawBalances ==
    ASSUME NEW v \in VaultState, NEW gross \in Nat, NEW bps \in Nat,
           Balanced(v), WithdrawOK(v, gross, bps)
    PROVE  AfterWithdraw(v, gross, bps) \in VaultState /\ Balanced(AfterWithdraw(v, gross, bps))
<1> DEFINE fee == FeeOf(gross, bps)
           net == NetOf(gross, bps)
<1>1. fee \in Nat /\ net \in Nat /\ fee + net = gross
  BY FeeIsPart DEF WithdrawOK, NetOf
<1>2. v.collateral \in 0 .. AmountMax /\ v.circulating \in 0 .. AmountMax /\ v.pool \in Nat
  BY VaultLimits DEF VaultState, Amount
<1>3. gross <= v.circulating /\ net <= v.collateral /\ v.pool + fee <= AmountMax
  BY DEF WithdrawOK, Fits
<1> HIDE DEF fee, net
<1>4. AfterWithdraw(v, gross, bps) =
        [collateral |-> v.collateral - net, circulating |-> v.circulating - gross,
         pool |-> v.pool + fee]
  BY DEF AfterWithdraw, fee, net
<1> QED BY <1>1, <1>2, <1>3, <1>4, VaultLimits DEF Balanced, VaultState, Amount

\* Vault::claim_fees keeps the books.
LEMMA ClaimBalances ==
    ASSUME NEW v \in VaultState, NEW amount \in Nat, Balanced(v), ClaimOK(v, amount)
    PROVE  AfterClaim(v, amount) \in VaultState /\ Balanced(AfterClaim(v, amount))
<1> DEFINE w == AfterClaim(v, amount)
<1>1. v.collateral \in 0 .. AmountMax /\ v.circulating \in 0 .. AmountMax /\ v.pool \in 0 .. AmountMax
  BY DEF VaultState, Amount
<1>2. v.collateral - amount \in Amount /\ v.pool - amount \in Amount
  BY <1>1, VaultLimits DEF ClaimOK, Amount
<1>3. w \in VaultState
  BY <1>2 DEF AfterClaim, VaultState
<1>4. w.collateral = v.collateral - amount /\ w.circulating = v.circulating /\ w.pool = v.pool - amount
  BY DEF AfterClaim, VaultState
<1>5. Balanced(w)
  BY <1>1, <1>4, VaultLimits DEF Balanced
<1> QED BY <1>3, <1>5

-----------------------------------------------------------------------------
(***************************************************************************)
(* Induction                                                                *)
(***************************************************************************)

\* A set of naturals with a member has a least one.
LEMMA Least ==
    ASSUME NEW T \in SUBSET Nat, T # {}
    PROVE  \E x \in T : \A y \in T : x <= y
<1> DEFINE R == OpToRel(<, Nat)
<1>1. IsWellFoundedOn(R, Nat)
  BY NatLessThanWellFounded
<1>a. T \subseteq Nat OBVIOUS
<1> HIDE DEF R
<1>2. \E x \in T : \A y \in T : ~ (<<y, x>> \in R)
  BY <1>1, <1>a, WFMin
<1>3. \A x, y \in Nat : y < x => <<y, x>> \in R
  BY DEF R, OpToRel
<1>4. PICK x \in T : \A y \in T : ~ (<<y, x>> \in R)
  BY <1>2
<1>5. \A y \in T : y \in Nat /\ x \in Nat /\ ~ (y < x)
  BY <1>4, <1>3, <1>a
<1>6. \A y \in T : x <= y
  BY <1>5
<1> QED
  BY <1>6

\* Induction on the naturals, the statement being membership of a set: lemmas of
\* other modules about lengths and heights use it.
LEMMA SetInduction ==
    ASSUME NEW S, 0 \in S, \A n \in Nat : n \in S => n + 1 \in S
    PROVE  Nat \subseteq S
<1> SUFFICES ASSUME Nat \ S # {} PROVE FALSE
  OBVIOUS
<1>1. PICK x \in Nat \ S : \A y \in Nat \ S : x <= y
  BY Least
<1>2. x # 0 /\ x - 1 \in Nat /\ x - 1 \in S
  BY <1>1
<1> QED
  BY <1>2, <1>1

-----------------------------------------------------------------------------
(***************************************************************************)
(* Sums over finite sets, the way MapThenSumSet of the community modules    *)
(* makes them: a function on the subsets that takes out a chosen element at *)
(* a time.  The weights are a function, so that the lemmas can be stated.   *)
(***************************************************************************)

Some(s) == CHOOSE x \in s : TRUE

Sums(it, w, S) ==
    it = [s \in SUBSET S |-> IF s = {} THEN 0 ELSE w[Some(s)] + it[s \ {Some(s)}]]

Weighed(w, S) == \A x \in S : w[x] \in Int

\* A set without its chosen element is one smaller.
LEMMA SomeTaken ==
    ASSUME NEW s, IsFiniteSet(s), s # {}
    PROVE  /\ Some(s) \in s
           /\ IsFiniteSet(s \ {Some(s)})
           /\ Cardinality(s) \in Nat
           /\ Cardinality(s \ {Some(s)}) = Cardinality(s) - 1
<1>1. Some(s) \in s
  BY DEF Some
<1> QED BY <1>1, FS_RemoveElement, FS_CardinalityType

\* There is such a function for every finite set.
LEMMA SumsExist ==
    ASSUME NEW S, IsFiniteSet(S), NEW w
    PROVE  \E it : Sums(it, w, S)
<1> DEFINE Small(n) == {s \in SUBSET S : Cardinality(s) <= n}
           IsPart(g, n) == g = [s \in Small(n) |-> IF s = {} THEN 0
                                                   ELSE w[Some(s)] + g[s \ {Some(s)}]]
           N == {n \in Nat : \E g : IsPart(g, n)}
<1>f. \A s \in SUBSET S : IsFiniteSet(s) /\ Cardinality(s) \in Nat
  BY FS_Subset, FS_CardinalityType
<1>1. 0 \in N
  <2> DEFINE g == [s \in Small(0) |-> 0]
  <2>1. \A s \in Small(0) : s = {}
    BY <1>f, FS_EmptySet
  <2>2. IsPart(g, 0)
    BY <2>1
  <2> QED BY <2>2
<1>2. ASSUME NEW n \in Nat, n \in N PROVE n + 1 \in N
  <2>1. PICK g : IsPart(g, n)
    BY <1>2
  <2> DEFINE h == [s \in Small(n + 1) |-> IF s = {} THEN 0
                                          ELSE w[Some(s)] + g[s \ {Some(s)}]]
  <2>2. \A s \in Small(n) : g[s] = IF s = {} THEN 0 ELSE w[Some(s)] + g[s \ {Some(s)}]
    BY <2>1
  <2>3. \A s \in Small(n) : s \in Small(n + 1)
    BY <1>f
  <2>4. \A s \in Small(n) : h[s] = g[s]
    BY <2>2, <2>3
  <2>5. \A s \in Small(n + 1) : s # {} => s \ {Some(s)} \in Small(n)
    BY <1>f, SomeTaken
  <2>6. \A s \in Small(n + 1) : h[s] = IF s = {} THEN 0 ELSE w[Some(s)] + g[s \ {Some(s)}]
    OBVIOUS
  <2>7. h = [s \in Small(n + 1) |-> h[s]]
    OBVIOUS
  <2> HIDE DEF h, Small
  <2>8. \A s \in Small(n + 1) : h[s] = IF s = {} THEN 0 ELSE w[Some(s)] + h[s \ {Some(s)}]
    BY <2>4, <2>5, <2>6
  <2>9. IsPart(h, n + 1)
    BY <2>7, <2>8
  <2> HIDE DEF IsPart
  <2> QED BY <2>9
<1> HIDE DEF N
<1>3. Nat \subseteq N
  BY <1>1, <1>2, SetInduction
<1>4. Cardinality(S) \in Nat
  BY <1>f
<1>5. PICK g : IsPart(g, Cardinality(S))
  BY <1>3, <1>4 DEF N
<1>6. Small(Cardinality(S)) = SUBSET S
  BY FS_Subset
<1> QED BY <1>5, <1>6 DEF Sums

\* Any element may be taken out first.
LEMMA SumsRemove ==
    ASSUME NEW S, IsFiniteSet(S), NEW w, Weighed(w, S),
           NEW it, Sums(it, w, S)
    PROVE  \A s \in SUBSET S : it[s] \in Int /\ \A a \in s : it[s] = w[a] + it[s \ {a}]
<1> DEFINE Fine(s) == it[s] \in Int /\ \A a \in s : it[s] = w[a] + it[s \ {a}]
           N == {n \in Nat : \A s \in SUBSET S : Cardinality(s) <= n => Fine(s)}
<1>f. \A s \in SUBSET S : IsFiniteSet(s) /\ Cardinality(s) \in Nat
  BY FS_Subset, FS_CardinalityType
<1>s. \A s \in SUBSET S : it[s] = IF s = {} THEN 0 ELSE w[Some(s)] + it[s \ {Some(s)}]
  BY DEF Sums
<1>1. 0 \in N
  <2>1. \A s \in SUBSET S : Cardinality(s) <= 0 => s = {}
    BY <1>f, FS_EmptySet
  <2>2. Fine({})
    <3>1. {} \in SUBSET S
      OBVIOUS
    <3>2. it[{}] = 0
      BY <3>1, <1>s
    <3> QED BY <3>2
  <2> HIDE DEF Fine
  <2> QED BY <2>1, <2>2
<1>2. ASSUME NEW n \in Nat, n \in N PROVE n + 1 \in N
  <2> SUFFICES ASSUME NEW s \in SUBSET S, Cardinality(s) <= n + 1 PROVE Fine(s)
    OBVIOUS
  <2>1. CASE s = {}
    <3>1. it[s] = 0
      BY <2>1, <1>s
    <3> QED BY <2>1, <3>1
  <2>2. CASE s # {}
    <3> DEFINE x == Some(s)
    <3>1. x \in s /\ Cardinality(s \ {x}) <= n /\ s \ {x} \in SUBSET S
      BY <2>2, <1>f, SomeTaken
    <3>2. it[s] = w[x] + it[s \ {x}] /\ w[x] \in Int
      BY <2>2, <3>1, <1>s DEF Weighed
    <3> HIDE DEF x
    <3>3. Fine(s \ {x})
      BY <1>2, <3>1
    <3>4. it[s] \in Int
      BY <3>2, <3>3
    <3>5. ASSUME NEW a \in s, a # x PROVE it[s] = w[a] + it[s \ {a}]
      <4>1. Cardinality(s \ {a}) <= n /\ s \ {a} \in SUBSET S
        BY <1>f, FS_RemoveElement
      <4>2. Fine(s \ {a})
        BY <1>2, <4>1
      <4>3. (s \ {a}) \ {x} = (s \ {x}) \ {a} /\ a \in s \ {x} /\ x \in s \ {a}
        BY <3>1, <3>5
      <4>4. it[s \ {a}] = w[x] + it[(s \ {x}) \ {a}]
        BY <4>2, <4>3
      <4>5. it[s \ {x}] = w[a] + it[(s \ {x}) \ {a}]
        BY <3>3, <4>3
      <4>6. w[a] \in Int /\ it[s \ {x}] \in Int /\ it[s \ {a}] \in Int
        BY <3>3, <4>2 DEF Weighed
      <4>7. (s \ {x}) \ {a} \in SUBSET S /\ Cardinality((s \ {x}) \ {a}) <= n
        <5> DEFINE r == s \ {x}
                   q == r \ {a}
        <5>1. r \in SUBSET S /\ q \in SUBSET S
          BY <3>1
        <5>2. Cardinality(r) <= n
          BY <3>1
        <5> HIDE DEF r
        <5>3. IsFiniteSet(r) /\ Cardinality(r) \in Nat
          BY <5>1, <1>f
        <5>4. Cardinality(q) <= Cardinality(r)
          <6>1. Cardinality(r \ {a}) = IF a \in r THEN Cardinality(r) - 1 ELSE Cardinality(r)
            BY <5>3, FS_RemoveElement
          <6> QED BY <5>3, <6>1
        <5> HIDE DEF q
        <5>5. Cardinality(q) \in Nat
          BY <5>1, <1>f
        <5>6. q \in SUBSET S /\ Cardinality(q) <= n
          BY <5>1, <5>2, <5>3, <5>4, <5>5
        <5> QED BY <5>6 DEF q, r
      <4>8. it[(s \ {x}) \ {a}] \in Int
        BY <1>2, <4>7
      <4> HIDE DEF Fine
      <4> QED BY <3>2, <4>4, <4>5, <4>6, <4>8
    <3> QED BY <3>2, <3>4, <3>5
  <2> QED BY <2>1, <2>2
<1> HIDE DEF N, Fine
<1>3. Nat \subseteq N
  BY <1>1, <1>2, SetInduction
<1>4. \A s \in SUBSET S : Fine(s)
  BY <1>3, <1>f DEF N
<1> QED BY <1>4 DEF Fine

\* The sum of a set depends on the weights of its elements only.
LEMMA SumsAgree ==
    ASSUME NEW S, IsFiniteSet(S), NEW w, NEW it, Sums(it, w, S),
           NEW T, NEW v, NEW jt, Sums(jt, v, T),
           S \subseteq T, \A x \in S : w[x] = v[x]
    PROVE  \A s \in SUBSET S : it[s] = jt[s]
<1> DEFINE N == {n \in Nat : \A s \in SUBSET S : Cardinality(s) <= n => it[s] = jt[s]}
<1>f. \A s \in SUBSET S : IsFiniteSet(s) /\ Cardinality(s) \in Nat
  BY FS_Subset, FS_CardinalityType
<1>s. \A s \in SUBSET S : it[s] = IF s = {} THEN 0 ELSE w[Some(s)] + it[s \ {Some(s)}]
  BY DEF Sums
<1>t. \A s \in SUBSET S : jt[s] = IF s = {} THEN 0 ELSE v[Some(s)] + jt[s \ {Some(s)}]
  BY DEF Sums
<1>1. 0 \in N
  <2>1. \A s \in SUBSET S : Cardinality(s) <= 0 => s = {}
    BY <1>f, FS_EmptySet
  <2> QED BY <2>1, <1>s, <1>t
<1>2. ASSUME NEW n \in Nat, n \in N PROVE n + 1 \in N
  <2> SUFFICES ASSUME NEW s \in SUBSET S, Cardinality(s) <= n + 1 PROVE it[s] = jt[s]
    OBVIOUS
  <2>1. CASE s = {}
    BY <2>1, <1>s, <1>t
  <2>2. CASE s # {}
    <3>1. Some(s) \in s /\ Cardinality(s \ {Some(s)}) <= n /\ s \ {Some(s)} \in SUBSET S
      BY <2>2, <1>f, SomeTaken
    <3>2. it[s \ {Some(s)}] = jt[s \ {Some(s)}]
      BY <1>2, <3>1
    <3> QED BY <2>2, <3>1, <3>2, <1>s, <1>t
  <2> QED BY <2>1, <2>2
<1> HIDE DEF N
<1>3. Nat \subseteq N
  BY <1>1, <1>2, SetInduction
<1> QED BY <1>3, <1>f DEF N

\* The sum of the weights of a set.
SumBy(w, S) == (CHOOSE it : Sums(it, w, S))[S]

\* It is read off the function of any finite set around it.
LEMMA SumByWithin ==
    ASSUME NEW U, IsFiniteSet(U), NEW w, NEW jt, Sums(jt, w, U)
    PROVE  \A S \in SUBSET U : SumBy(w, S) = jt[S]
<1> TAKE S \in SUBSET U
<1>1. IsFiniteSet(S)
  BY FS_Subset
<1> DEFINE it == CHOOSE it : Sums(it, w, S)
<1>2. Sums(it, w, S)
  BY <1>1, SumsExist
<1>3. SumBy(w, S) = it[S]
  BY DEF SumBy
<1> HIDE DEF it
<1>4. \A s \in SUBSET S : it[s] = jt[s]
  BY <1>1, <1>2, SumsAgree
<1> QED BY <1>3, <1>4

\* A sum counts the weights it is given and no other.
LEMMA SumByAgrees ==
    ASSUME NEW S, IsFiniteSet(S), NEW w, NEW v, \A x \in S : w[x] = v[x]
    PROVE  SumBy(w, S) = SumBy(v, S)
<1>1. PICK it : Sums(it, w, S)
  BY SumsExist
<1>2. PICK jt : Sums(jt, v, S)
  BY SumsExist
<1>3. SumBy(w, S) = it[S] /\ SumBy(v, S) = jt[S]
  BY <1>1, <1>2, SumByWithin
<1>4. \A s \in SUBSET S : it[s] = jt[s]
  BY <1>1, <1>2, SumsAgree
<1> QED BY <1>3, <1>4

\* Nothing weighs nothing; an element weighs what it weighs.
LEMMA SumByTakes ==
    ASSUME NEW U, IsFiniteSet(U), NEW w, Weighed(w, U)
    PROVE  /\ SumBy(w, {}) = 0
           /\ \A S \in SUBSET U :
                /\ SumBy(w, S) \in Int
                /\ \A a \in S : SumBy(w, S) = w[a] + SumBy(w, S \ {a})
<1>1. PICK it : Sums(it, w, U)
  BY SumsExist
<1>2. \A S \in SUBSET U : SumBy(w, S) = it[S]
  BY <1>1, SumByWithin
<1>3. it[{}] = 0
  <2>1. {} \in SUBSET U
    OBVIOUS
  <2> QED BY <1>1, <2>1 DEF Sums
<1>4. \A s \in SUBSET U : it[s] \in Int /\ \A a \in s : it[s] = w[a] + it[s \ {a}]
  BY <1>1, SumsRemove
<1>5. \A S \in SUBSET U : \A a \in S : S \ {a} \in SUBSET U
  OBVIOUS
<1>6. SumBy(w, {}) = 0
  <2>1. {} \in SUBSET U
    OBVIOUS
  <2> QED BY <2>1, <1>2, <1>3
<1>7. ASSUME NEW S \in SUBSET U
      PROVE  SumBy(w, S) \in Int /\ \A a \in S : SumBy(w, S) = w[a] + SumBy(w, S \ {a})
  <2>1. SumBy(w, S) = it[S] /\ it[S] \in Int
    BY <1>2, <1>4
  <2>2. \A a \in S : it[S] = w[a] + it[S \ {a}] /\ SumBy(w, S \ {a}) = it[S \ {a}]
    BY <1>2, <1>4, <1>5
  <2> QED BY <2>1, <2>2
<1> QED BY <1>6, <1>7

\* Two sets that have nothing in common weigh together what they weigh apart.
LEMMA SumByUnion ==
    ASSUME NEW U, IsFiniteSet(U), NEW w, Weighed(w, U),
           NEW S \in SUBSET U
    PROVE  \A T \in SUBSET U : S \cap T = {} => SumBy(w, S \cup T) = SumBy(w, S) + SumBy(w, T)
<1> DEFINE Fine(T) == S \cap T = {} => SumBy(w, S \cup T) = SumBy(w, S) + SumBy(w, T)
           N == {n \in Nat : \A T \in SUBSET U : Cardinality(T) <= n => Fine(T)}
<1>f. \A T \in SUBSET U : IsFiniteSet(T) /\ Cardinality(T) \in Nat
  BY FS_Subset, FS_CardinalityType
<1>0. /\ SumBy(w, {}) = 0
      /\ \A T \in SUBSET U :
            /\ SumBy(w, T) \in Int
            /\ \A a \in T : SumBy(w, T) = w[a] + SumBy(w, T \ {a})
  BY SumByTakes
<1>1. 0 \in N
  <2>1. \A T \in SUBSET U : Cardinality(T) <= 0 => T = {}
    BY <1>f, FS_EmptySet
  <2>2. Fine({})
    <3>1. S \cup {} = S
      OBVIOUS
    <3>2. SumBy(w, S) + 0 = SumBy(w, S)
      BY <1>0
    <3> QED BY <1>0, <3>1, <3>2
  <2> HIDE DEF Fine
  <2> QED BY <2>1, <2>2
<1>2. ASSUME NEW n \in Nat, n \in N PROVE n + 1 \in N
  <2> SUFFICES ASSUME NEW T \in SUBSET U, Cardinality(T) <= n + 1, S \cap T = {}, T # {}
               PROVE  SumBy(w, S \cup T) = SumBy(w, S) + SumBy(w, T)
    <3>1. \A T \in SUBSET U : T = {} => Fine(T)
      <4>1. {} \in SUBSET U /\ Cardinality({}) <= n
        BY FS_EmptySet
      <4> HIDE DEF Fine
      <4> QED BY <1>2, <4>1
    <3> QED BY <3>1
  <2> DEFINE a == Some(T)
             R == T \ {a}
  <2>1. a \in T /\ Cardinality(R) <= n /\ R \in SUBSET U
    BY <1>f, SomeTaken
  <2> HIDE DEF a
  <2>2. SumBy(w, S \cup R) = SumBy(w, S) + SumBy(w, R)
    <3>1. S \cap R = {}
      OBVIOUS
    <3> HIDE DEF R
    <3> QED BY <1>2, <2>1, <3>1
  <2>3. SumBy(w, T) = w[a] + SumBy(w, R)
    BY <1>0, <2>1
  <2>4. SumBy(w, S \cup T) = w[a] + SumBy(w, S \cup R)
    <3> DEFINE Q == S \cup T
    <3>1. Q \in SUBSET U /\ a \in Q /\ Q \ {a} = S \cup R
      BY <2>1
    <3> HIDE DEF Q, R
    <3>2. SumBy(w, Q) = w[a] + SumBy(w, Q \ {a})
      BY <1>0, <3>1
    <3> QED BY <3>1, <3>2 DEF Q
  <2>5. w[a] \in Int /\ SumBy(w, S) \in Int /\ SumBy(w, R) \in Int
    BY <1>0, <2>1 DEF Weighed
  <2> HIDE DEF R
  <2> QED BY <2>2, <2>3, <2>4, <2>5
<1> HIDE DEF N
<1>3. Nat \subseteq N
  BY <1>1, <1>2, SetInduction
<1> QED BY <1>3, <1>f DEF N

\* What weighs nothing less than zero adds up to nothing less.
LEMMA SumByNat ==
    ASSUME NEW S, IsFiniteSet(S), NEW w, \A x \in S : w[x] \in Nat
    PROVE  SumBy(w, S) \in Nat
<1> DEFINE N == {n \in Nat : \A T \in SUBSET S : Cardinality(T) <= n => SumBy(w, T) \in Nat}
<1>f. \A T \in SUBSET S : IsFiniteSet(T) /\ Cardinality(T) \in Nat
  BY FS_Subset, FS_CardinalityType
<1>0. /\ SumBy(w, {}) = 0
      /\ \A T \in SUBSET S : \A a \in T : SumBy(w, T) = w[a] + SumBy(w, T \ {a})
  <2>1. Weighed(w, S)
    BY DEF Weighed
  <2> QED BY <2>1, SumByTakes
<1>1. 0 \in N
  <2>1. \A T \in SUBSET S : Cardinality(T) <= 0 => T = {}
    BY <1>f, FS_EmptySet
  <2> QED BY <1>0, <2>1
<1>2. ASSUME NEW n \in Nat, n \in N PROVE n + 1 \in N
  <2> SUFFICES ASSUME NEW T \in SUBSET S, Cardinality(T) <= n + 1, T # {}
               PROVE  SumBy(w, T) \in Nat
    <3>1. \A T \in SUBSET S : T = {} => SumBy(w, T) \in Nat
      BY <1>0
    <3> QED BY <3>1
  <2> DEFINE a == Some(T)
             R == T \ {a}
  <2>1. a \in T /\ Cardinality(R) <= n /\ R \in SUBSET S
    BY <1>f, SomeTaken
  <2> HIDE DEF a
  <2>2. SumBy(w, R) \in Nat
    <3> HIDE DEF R
    <3> QED BY <1>2, <2>1
  <2>3. SumBy(w, T) = w[a] + SumBy(w, R) /\ w[a] \in Nat
    BY <1>0, <2>1
  <2> HIDE DEF R
  <2> QED BY <2>2, <2>3
<1> HIDE DEF N
<1>3. Nat \subseteq N
  BY <1>1, <1>2, SetInduction
<1>4. Cardinality(S) \in N
  BY <1>3, <1>f
<1>5. \A T \in SUBSET S : Cardinality(T) <= Cardinality(S) => SumBy(w, T) \in Nat
  BY <1>4 DEF N
<1>6. Cardinality(S) <= Cardinality(S)
  BY <1>f
<1> QED BY <1>5, <1>6

=============================================================================
