------------------------------ MODULE MCBridgeV3 ------------------------------
(***************************************************************************)
(* Two branches above one block:                                            *)
(*                                                                         *)
(*      g - b1 - a2 - a3 - a4                                               *)
(*            \- c2 - c3 - c4                                               *)
(*                                                                         *)
(* with a withdrawal in a2 and another in c3: no branch has both.  In a3 is *)
(* one that the relayer will not take.                                      *)
(***************************************************************************)
EXTENDS BridgeV3

CONSTANTS b1, a2, a3, a4, c2, c3, c4, oa, ob, oc, v1, v2, v3, vr

MCParent == [b \in Blocks |-> CASE b = b1 -> Genesis
                                [] b \in {a2, c2} -> b1
                                [] b = a3 -> a2 [] b = a4 -> a3
                                [] b = c3 -> c2 [] b = c4 -> c3]

MCHeight == [b \in Tree |-> CASE b = Genesis -> 0 [] b = b1 -> 1
                                [] b \in {a2, c2} -> 2 [] b \in {a3, c3} -> 3
                                [] OTHER -> 4]

MCOrdersIn == [b \in Blocks |-> CASE b = a2 -> {oa} [] b = a3 -> {ob} [] b = c3 -> {oc} [] OTHER -> {}]

\* A quorum and the relayer on one branch, v3 on the other.
Forked == [n \in Nodes |-> IF n = v3 THEN c3 ELSE a3]

\* The relayer's node has just been set up and follows the others.
Syncing == [n \in Nodes |-> CASE n = vr -> Genesis [] n = v3 -> c3 [] OTHER -> a3]

Left(moves, resyncs, restarts, faults, pauses) ==
    [moves |-> moves, resyncs |-> resyncs, restarts |-> restarts,
     faults |-> faults, pauses |-> pauses]

\* The nodes may be given other chains; or the relayer restarts while it
\* catches up and cosigners fail; or one fails and the owner pauses.
SafetyStarts ==
    { [tips |-> Forked, left |-> Left(4, 2, 0, 0, 0)],
      [tips |-> Syncing, left |-> Left(4, 0, 2, 1, 0)],
      [tips |-> Forked, left |-> Left(0, 0, 0, 1, 1)] }

LivenessStarts == { [tips |-> Forked, left |-> Left(1, 0, 1, 1, 1)] }

MCOrderGross == [o \in Orders |-> 200]
=============================================================================
