------------------------------ MODULE Tumbler ------------------------------
(***************************************************************************)
(* The planning of a payout (src/tumbler.cpp): the net amount is cut into    *)
(* fragments, and each travels a route of hops from the vault to its         *)
(* destination.  The random draws (weights, numbers of hops) are arguments.  *)
(* Delays and the hashes of simulated transfers are left out.                *)
(***************************************************************************)
EXTENDS Integers, Sequences, SequencesExt

Origin == <<"vault">>
Destination == <<"destination">>

\* The fresh addresses between them.
Address == {Origin, Destination} \cup (Nat \X Nat)

Hop == [from : Address, to : Address, amount : Nat]

Plan == [net : Nat, parts : Seq(Nat), routes : Seq(Seq(Hop))]

TotalOf(amounts) == FoldLeft(LAMBDA sum, a : sum + a, 0, amounts)

\* What is left after the first i shares, when each is the rounded part of what
\* remains that its weight has in the sum of all weights.
Remaining(reserve, weights) ==
    LET left[i \in 0 .. Len(weights)] ==
            IF i = 0 THEN reserve
            ELSE left[i - 1] - (left[i - 1] * weights[i]) \div TotalOf(weights)
    IN  left

\* Fault: the last fragment gets its share like the others.
PartitionRoundingAll(total, weights) ==
    LET n == Len(weights)
        left == Remaining(total - n, weights)
    IN  IF n <= 1 \/ total < n THEN <<total>>
        ELSE [i \in 1 .. n |-> 1 + left[i - 1] - left[i]]

\* partition_amount: one unit for each fragment, a share for all but the last,
\* which takes the rest.
PartitionAmount(total, weights) ==
    LET n == Len(weights)
        left == Remaining(total - n, weights)
    IN  IF n <= 1 \/ total < n THEN <<total>>
        ELSE [i \in 1 .. n |-> 1 + left[i - 1] - IF i = n THEN 0 ELSE left[i]]

\* The hops of fragment i: through fresh addresses, the last to the destination.
HopsOf(i, count, amount) ==
    [h \in 1 .. count |->
        [from |-> IF h = 1 THEN Origin ELSE <<i, h - 1>>,
         to |-> IF h = count THEN Destination ELSE <<i, h>>,
         amount |-> amount]]

\* plan_withdrawal_tumbling: hops holds a number of hops for each fragment drawn.
PlanWithdrawal(net, weights, hops) ==
    LET parts == PartitionAmount(net, weights)
    IN  [net |-> net, parts |-> parts,
         routes |-> [i \in DOMAIN parts |-> HopsOf(i, hops[i], parts[i])]]

\* execute_tumbling_plan reports whether the fragments add up to the order.
ExecutePlan(plan) == TotalOf(plan.parts) = plan.net

=============================================================================
