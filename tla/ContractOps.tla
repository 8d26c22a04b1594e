----------------------------- MODULE ContractOps -----------------------------
(***************************************************************************)
(* The books of a CryptoPegVault contract on L2: the USDT it holds, the     *)
(* fees in it that belong to the treasury, and the orders it has paid.  V2  *)
(* (CryptoPegVaultV2.sol) and V3 keep them alike and differ in who may      *)
(* order a payment.  An operation is the condition under which the          *)
(* transaction does not revert, and the books it leaves.                    *)
(***************************************************************************)
EXTENDS VaultOps, FiniteSetsExt

CONSTANTS
    Orders,         \* withdrawal orders, by their order id
    OrderGross,     \* tokens burned by each
    DepositBps,     \* the fee rates, the same in the contract and in the nodes
    WithdrawBps

ASSUME ContractConstants ==
    /\ OrderGross \in [Orders -> Nat \ {0}]
    /\ DepositBps \in 0 .. 1000
    /\ WithdrawBps \in 0 .. 1000

Books == [balance : Nat, fees : Nat, executed : SUBSET Orders, paused : BOOLEAN]

NewContract == [balance |-> 0, fees |-> 0, executed |-> {}, paused |-> FALSE]

\* What an order asks the contract for: the burned amount less the node's fee.
OrderFee(o) == FeeOf(OrderGross[o], WithdrawBps)
OrderAmount(o) == OrderGross[o] - OrderFee(o)

\* deposit has a minimum and no maximum.
ContractTakesDeposit(c, gross) == gross > 0 /\ ~ c.paused

DepositInContract(c, gross) ==
    [c EXCEPT !.balance = @ + gross, !.fees = @ + FeeOf(gross, DepositBps)]

\* The largest fee a withdrawal of this net amount may declare.
FeeCap(amount, bps) ==
    IF bps = 0 THEN 0 ELSE (amount * bps) \div (BpsOfWhole - bps) + 1

\* Fault: an order may be executed again.
ContractPaysAgain(c, o) ==
    /\ ~ c.paused
    /\ OrderAmount(o) > 0
    /\ OrderFee(o) <= FeeCap(OrderAmount(o), WithdrawBps)
    /\ OrderAmount(o) <= c.balance

ContractPays(c, o) ==
    /\ ~ c.paused
    /\ o \notin c.executed
    /\ OrderAmount(o) > 0
    /\ OrderFee(o) <= FeeCap(OrderAmount(o), WithdrawBps)
    /\ OrderAmount(o) <= c.balance

PaidByContract(c, o) ==
    [c EXCEPT !.balance = @ - OrderAmount(o),
              !.fees = @ + OrderFee(o),
              !.executed = @ \cup {o}]

ContractPaysTreasury(c, amount) == amount > 0 /\ amount <= c.fees

TreasuryPaid(c, amount) == [c EXCEPT !.fees = @ - amount, !.balance = @ - amount]

\* getCirculatingBacking: what the holders of tokens are owed.
CirculatingBacking(c) == c.balance - c.fees
=============================================================================
