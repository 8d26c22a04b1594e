--------------------------------- MODULE Vault ---------------------------------
(***************************************************************************)
(* The vault as the one object it is in the process: every operation runs   *)
(* under Vault::mutex_, so each is one step.  The money outside the vault   *)
(* (the users' USDT, what the treasury has collected) is kept next to it,   *)
(* which closes the system: USDT only moves, it is never made.              *)
(***************************************************************************)
EXTENDS VaultOps

CONSTANTS
    Amounts,    \* the amounts the callers ask for
    Rates,      \* the fee rates an operator may configure
    Supply      \* all the USDT there is

ASSUME VaultInputs ==
    /\ Amounts \subseteq Nat
    /\ Rates \subseteq Nat
    /\ Supply \in Nat

\* set_fee_bps refuses more than ten percent.
MaxConfiguredBps == 1000

VARIABLES
    vault,          \* total_collateral_, circulating_supply_, fee_pool_reserve_
    depositBps,
    withdrawBps,
    users,          \* USDT in the users' hands
    treasury        \* USDT paid to the treasury

vars == <<vault, depositBps, withdrawBps, users, treasury>>

TypeOK ==
    /\ vault \in VaultState
    /\ depositBps \in Nat
    /\ withdrawBps \in Nat
    /\ users \in Nat
    /\ treasury \in Nat

Init ==
    /\ vault = EmptyVault
    /\ depositBps \in Rates
    /\ withdrawBps \in Rates
    /\ users = Supply
    /\ treasury = 0

Deposit(gross) ==
    /\ gross <= users
    /\ DepositOK(vault, gross, depositBps)
    /\ vault' = AfterDeposit(vault, gross, depositBps)
    /\ users' = users - gross
    /\ UNCHANGED <<depositBps, withdrawBps, treasury>>

RequestWithdrawal(gross) ==
    /\ WithdrawOK(vault, gross, withdrawBps)
    /\ vault' = AfterWithdraw(vault, gross, withdrawBps)
    /\ users' = users + NetOf(gross, withdrawBps)
    /\ UNCHANGED <<depositBps, withdrawBps, treasury>>

ClaimFees(amount) ==
    /\ ClaimOK(vault, amount)
    /\ vault' = AfterClaim(vault, amount)
    /\ treasury' = treasury + amount
    /\ UNCHANGED <<depositBps, withdrawBps, users>>

SetFeeBps(deposit, withdraw) ==
    /\ deposit <= MaxConfiguredBps
    /\ withdraw <= MaxConfiguredBps
    /\ depositBps' = deposit
    /\ withdrawBps' = withdraw
    /\ UNCHANGED <<vault, users, treasury>>

Next ==
    \/ \E gross \in Amounts : Deposit(gross)
    \/ \E gross \in Amounts : RequestWithdrawal(gross)
    \/ \E amount \in Amounts : ClaimFees(amount)
    \/ \E deposit, withdraw \in Rates : SetFeeBps(deposit, withdraw)

Spec == Init /\ [][Next]_vars

-----------------------------------------------------------------------------
(***************************************************************************)
(* Properties                                                               *)
(***************************************************************************)

\* The strict 1:1 equation audit_solvency reports, and with it the "critical
\* invariant" exceptions at the end of each operation, which run after the
\* assignments and would leave the vault half accepted: they never fire.
AlwaysSolvent == Solvent(vault)

\* Value is conserved across the whole system: what users hold in USDT and in
\* tokens, the fee pool and the treasury always add up to the supply.  Rounding
\* of the fees loses or creates nothing in any order of operations.
ValueConserved ==
    users + vault.circulating + vault.pool + treasury = Supply

\* Every token in circulation can be redeemed: the collateral covers all of
\* them, whatever the treasury has claimed.
FullyBacked == vault.circulating <= vault.collateral

\* No operation enriches the users (tokens plus USDT): fees round in favour of
\* nobody but are never negative, so no round trip pays.
NoRoundTripProfits ==
    [][users' + vault'.circulating <= users + vault.circulating]_vars
=============================================================================
