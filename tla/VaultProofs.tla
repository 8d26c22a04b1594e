------------------------------ MODULE VaultProofs ------------------------------
(***************************************************************************)
(* The vault never loses its books: the type invariant, the strict 1:1      *)
(* equation, the backing of the tokens and the conservation of value hold   *)
(* in every reachable state, for every width of an amount, every protocol   *)
(* limit, every supply, every set of amounts and every rate.                *)
(*                                                                         *)
(* Each property is weaker than an inductive one: Solvent wraps like the    *)
(* uint64_t sum it models, so the books are kept in exact arithmetic        *)
(* (Balanced) and shown to fit the width.                                   *)
(***************************************************************************)
EXTENDS Vault, VaultOpsProofs

\* The inductive invariant.
Books ==
    /\ TypeOK
    /\ Balanced(vault)
    /\ ValueConserved

\* The empty vault balances.
LEMMA BooksInit == Init => Books
BY VaultInputs, VaultLimits
DEF Init, Books, TypeOK, Balanced, ValueConserved, EmptyVault, VaultState, Amount

\* Every operation keeps the books.
LEMMA BooksNext == Books /\ [Next]_vars => Books'
<1> SUFFICES ASSUME Books, [Next]_vars PROVE Books'
  OBVIOUS
<1>t. /\ vault \in VaultState /\ depositBps \in Nat /\ withdrawBps \in Nat
      /\ users \in Nat /\ treasury \in Nat
      /\ vault.collateral \in Nat /\ vault.circulating \in Nat /\ vault.pool \in Nat
  BY VaultLimits DEF Books, TypeOK, VaultState, Amount
<1>b. Balanced(vault) /\ users + vault.circulating + vault.pool + treasury = Supply
  BY DEF Books, ValueConserved
<1>1. ASSUME NEW gross \in Amounts, Deposit(gross) PROVE Books'
  <2>1. gross \in Nat /\ DepositOK(vault, gross, depositBps) /\ gross <= users
    BY <1>1, VaultInputs DEF Deposit
  <2>2. vault' \in VaultState /\ Balanced(vault)'
    BY <2>1, <1>1, <1>t, <1>b, DepositBalances DEF Deposit, Balanced
  <2>3. FeeOf(gross, depositBps) \in Nat
        /\ NetOf(gross, depositBps) = gross - FeeOf(gross, depositBps)
    BY <2>1, <1>t, FeeIsPart DEF DepositOK, NetOf
  <2>4. /\ vault'.circulating = vault.circulating + NetOf(gross, depositBps)
        /\ vault'.pool = vault.pool + FeeOf(gross, depositBps)
    BY <1>1 DEF Deposit, AfterDeposit
  <2>5. users' = users - gross /\ users' \in Nat
    BY <1>1, <2>1, <1>t DEF Deposit
  <2>6. ValueConserved'
    BY <2>1, <2>3, <2>4, <2>5, <1>1, <1>t, <1>b DEF Deposit, ValueConserved
  <2> QED BY <2>2, <2>5, <2>6, <1>1, <1>t DEF Books, TypeOK, Deposit
<1>2. ASSUME NEW gross \in Amounts, RequestWithdrawal(gross) PROVE Books'
  <2>1. gross \in Nat /\ WithdrawOK(vault, gross, withdrawBps)
    BY <1>2, VaultInputs DEF RequestWithdrawal
  <2>2. vault' \in VaultState /\ Balanced(vault)'
    BY <2>1, <1>2, <1>t, <1>b, WithdrawBalances DEF RequestWithdrawal, Balanced
  <2>3. /\ FeeOf(gross, withdrawBps) \in Nat
        /\ NetOf(gross, withdrawBps) \in Nat
        /\ NetOf(gross, withdrawBps) = gross - FeeOf(gross, withdrawBps)
    BY <2>1, <1>t, FeeIsPart DEF WithdrawOK, NetOf
  <2>4. /\ vault'.circulating = vault.circulating - gross
        /\ vault'.pool = vault.pool + FeeOf(gross, withdrawBps)
    BY <1>2 DEF RequestWithdrawal, AfterWithdraw
  <2>5. users' = users + NetOf(gross, withdrawBps) /\ users' \in Nat
    BY <1>2, <2>3, <1>t DEF RequestWithdrawal
  <2>6. ValueConserved'
    BY <2>1, <2>3, <2>4, <2>5, <1>2, <1>t, <1>b DEF RequestWithdrawal, ValueConserved
  <2> QED BY <2>2, <2>5, <2>6, <1>2, <1>t DEF Books, TypeOK, RequestWithdrawal
<1>3. ASSUME NEW amount \in Amounts, ClaimFees(amount) PROVE Books'
  <2>1. amount \in Nat /\ ClaimOK(vault, amount)
    BY <1>3, VaultInputs DEF ClaimFees
  <2>2. vault' \in VaultState /\ Balanced(vault)'
    BY <2>1, <1>3, <1>t, <1>b, ClaimBalances DEF ClaimFees, Balanced
  <2>3. vault'.circulating = vault.circulating /\ vault'.pool = vault.pool - amount
    BY <1>3, <1>t DEF ClaimFees, AfterClaim, VaultState
  <2>4. treasury' = treasury + amount /\ treasury' \in Nat /\ users' = users
    BY <1>3, <2>1, <1>t DEF ClaimFees
  <2>5. ValueConserved'
    BY <2>1, <2>3, <2>4, <1>t, <1>b DEF ValueConserved
  <2> QED BY <2>2, <2>4, <2>5, <1>3, <1>t DEF Books, TypeOK, ClaimFees
<1>4. ASSUME NEW deposit \in Rates, NEW withdraw \in Rates, SetFeeBps(deposit, withdraw)
      PROVE  Books'
  BY <1>4, VaultInputs DEF SetFeeBps, Books, TypeOK, Balanced, ValueConserved
<1>5. CASE UNCHANGED vars
  BY <1>5 DEF vars, Books, TypeOK, Balanced, ValueConserved
<1> QED BY <1>1, <1>2, <1>3, <1>4, <1>5 DEF Next

\* The books of a vault always balance: collateral is circulation plus pool (vault.cpp, audit_solvency).
THEOREM BooksInvariant == Spec => []Books
BY BooksInit, BooksNext, PTL DEF Spec

-----------------------------------------------------------------------------

\* The vault's fields stay in the width of uint64_t.
THEOREM TypeCorrect == Spec => []TypeOK
<1>1. Books => TypeOK
  BY DEF Books
<1> QED BY <1>1, BooksInvariant, PTL

\* audit_solvency is true after any sequence of operations, so none of the
\* exceptions of the "critical invariant" is ever thrown.
THEOREM SolventAlways == Spec => []AlwaysSolvent
<1>1. Books => AlwaysSolvent
  BY BalancedIsSolvent DEF Books, TypeOK, AlwaysSolvent
<1> QED BY <1>1, BooksInvariant, PTL

\* The collateral covers every token in circulation.
THEOREM BackedAlways == Spec => []FullyBacked
<1>1. Books => FullyBacked
  BY BalancedIsSolvent DEF Books, TypeOK, FullyBacked
<1> QED BY <1>1, BooksInvariant, PTL

\* USDT and tokens of the users, fee pool and treasury add up to the supply.
THEOREM ConservedAlways == Spec => []ValueConserved
<1>1. Books => ValueConserved
  BY DEF Books
<1> QED BY <1>1, BooksInvariant, PTL

\* No operation makes the users richer: the fee of a deposit or a withdrawal is
\* never negative.
THEOREM RoundTripsCost == Spec => NoRoundTripProfits
<1> DEFINE Costs == users' + vault'.circulating <= users + vault.circulating
<1>1. ASSUME Books, [Next]_vars PROVE [Costs]_vars
  <2>t. /\ depositBps \in Nat /\ withdrawBps \in Nat /\ users \in Nat
        /\ vault \in VaultState /\ vault.circulating \in Nat
    BY <1>1, VaultLimits DEF Books, TypeOK, VaultState, Amount
  <2>1. ASSUME NEW gross \in Amounts, Deposit(gross) PROVE Costs
    <3>1. NetOf(gross, depositBps) \in 0 .. gross /\ gross \in Nat
      BY <2>1, <2>t, VaultInputs, FeeIsPart DEF Deposit, DepositOK
    <3> QED BY <3>1, <2>1, <2>t DEF Deposit, AfterDeposit
  <2>2. ASSUME NEW gross \in Amounts, RequestWithdrawal(gross) PROVE Costs
    <3>1. NetOf(gross, withdrawBps) \in 0 .. gross /\ gross \in Nat
      BY <2>2, <2>t, VaultInputs, FeeIsPart DEF RequestWithdrawal, WithdrawOK
    <3> QED BY <3>1, <2>2, <2>t DEF RequestWithdrawal, AfterWithdraw
  <2>3. ASSUME NEW amount \in Amounts, ClaimFees(amount) PROVE Costs
    BY <2>3, <2>t DEF ClaimFees, AfterClaim, VaultState
  <2>4. ASSUME NEW deposit \in Rates, NEW withdraw \in Rates, SetFeeBps(deposit, withdraw)
        PROVE  Costs
    BY <2>4, <2>t DEF SetFeeBps
  <2> QED BY <1>1, <2>1, <2>2, <2>3, <2>4 DEF Next
<1> QED BY <1>1, BooksInvariant, PTL DEF Spec, NoRoundTripProfits
=============================================================================
