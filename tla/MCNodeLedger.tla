----------------------------- MODULE MCNodeLedger -----------------------------
(***************************************************************************)
(* Small nodes.  Two events of 400 mint equal outputs of 398 (each other's  *)
(* decoy); a fee of 50 bps is 2 on 400, 1 on 200 and 0 on 199 or less.      *)
(***************************************************************************)
EXTENDS NodeLedger, TLC

CONSTANTS
    v1, v2, v3,
    Oversized   \* events above the limit of one operation: the L2 contract has none

MCGross == [e \in Events |-> IF e \in Oversized THEN 600 ELSE IF e \in NoPoints THEN 199 ELSE 400]

\* Peers sign with one validator or two, v1 being this node.
MCPeerSignatures == {[validator |-> v2, signers |-> {v2}],
                     [validator |-> v2, signers |-> {v2, v3}]}

NoSignatures == {}

KeySymmetry == Permutations(FreshKeys)
=============================================================================
