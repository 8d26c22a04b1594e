------------------------------- MODULE VaultOps -------------------------------
(***************************************************************************)
(* The arithmetic of the collateral vault (src/vault.cpp, include/types.hpp)*)
(* as operators on a vault record.  Amounts are micro-USDT held in a       *)
(* uint64_t: AmountMax is UINT64_MAX and every addition is the checked one  *)
(* of the code.  The state machine is in Vault, the node that owns a vault  *)
(* in NodeLedger.                                                           *)
(***************************************************************************)
EXTENDS Integers

CONSTANTS
    AmountMax,              \* the largest uint64_t
    MaxTransactionAmount    \* the protocol limit of one operation

ASSUME VaultLimits ==
    /\ AmountMax \in Nat
    /\ MaxTransactionAmount \in 1 .. AmountMax

Amount == 0 .. AmountMax

\* Basis points of a whole: a rate above it is refused by safe_fee_calc.
BpsOfWhole == 10000

VaultState == [collateral : Amount, circulating : Amount, pool : Amount]

EmptyVault == [collateral |-> 0, circulating |-> 0, pool |-> 0]

\* safe_add_amount: the sum fits the width.
Fits(a, b) == a + b <= AmountMax

\* safe_fee_calc: the fee, rounded down.  The product is 128 bits wide.
FeeOf(amount, bps) == (amount * bps) \div BpsOfWhole

\* Fault: the net rounded on its own, a unit short of amount minus fee.
NetRoundedApart(amount, bps) == (amount * (BpsOfWhole - bps)) \div BpsOfWhole

NetOf(amount, bps) == amount - FeeOf(amount, bps)

\* audit_solvency: the sum on the right is an unchecked uint64_t addition.
Solvent(v) == v.collateral = (v.circulating + v.pool) % (AmountMax + 1)

-----------------------------------------------------------------------------
(***************************************************************************)
(* Each operation is the condition under which the code does not throw,     *)
(* and the vault it leaves.                                                 *)
(***************************************************************************)

DepositOK(v, gross, bps) ==
    /\ gross \in 1 .. MaxTransactionAmount
    /\ bps <= BpsOfWhole
    /\ Fits(v.collateral, gross)
    /\ Fits(v.circulating, NetOf(gross, bps))
    /\ Fits(v.pool, FeeOf(gross, bps))

\* Fault: the fee is taken from the depositor and kept by nobody.
DepositLosesFee(v, gross, bps) ==
    [v EXCEPT !.collateral = @ + gross, !.circulating = @ + NetOf(gross, bps)]

AfterDeposit(v, gross, bps) ==
    [collateral  |-> v.collateral + gross,
     circulating |-> v.circulating + NetOf(gross, bps),
     pool        |-> v.pool + FeeOf(gross, bps)]

WithdrawOK(v, gross, bps) ==
    /\ gross \in 1 .. MaxTransactionAmount
    /\ gross <= v.circulating
    /\ bps <= BpsOfWhole
    /\ NetOf(gross, bps) <= v.collateral
    /\ Fits(v.pool, FeeOf(gross, bps))

\* Fault: the tokens are paid out and not burned.
WithdrawWithoutBurn(v, gross, bps) ==
    [v EXCEPT !.collateral = @ - NetOf(gross, bps), !.pool = @ + FeeOf(gross, bps)]

AfterWithdraw(v, gross, bps) ==
    [collateral  |-> v.collateral - NetOf(gross, bps),
     circulating |-> v.circulating - gross,
     pool        |-> v.pool + FeeOf(gross, bps)]

ClaimOK(v, amount) ==
    /\ amount \in 1 .. MaxTransactionAmount
    /\ amount <= v.pool
    /\ amount <= v.collateral

\* Fault: the pool is not charged for the claim.
ClaimLeavesPool(v, amount) == [v EXCEPT !.collateral = @ - amount]

AfterClaim(v, amount) ==
    [v EXCEPT !.collateral = @ - amount, !.pool = @ - amount]
=============================================================================
