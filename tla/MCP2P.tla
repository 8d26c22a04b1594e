------------------------------- MODULE MCP2P -------------------------------
(***************************************************************************)
(* Small networks: n1 and n2 know each other by their seeds, n3 knows n2.     *)
(***************************************************************************)
EXTENDS P2PNetwork

CONSTANTS n1, n2, n3

Line == [n \in Nodes |-> CASE n = n1 -> {n2} [] n = n2 -> {n1} [] n = n3 -> {n2}]

\* n2 knows n1, and n1's operator may add n2.
OneSeed == [n \in Nodes |-> IF n = n2 THEN {n1} ELSE {}]

ByHand == {<<n1, n2>>}

\* n2's block wins the fork choice against the first of n1, which may mine another.
TwoMiners == [n \in Nodes |-> CASE n = n1 -> {2, 3} [] n = n2 -> {1} [] n = n3 -> {}]

\* One block each.
OneEach == [n \in Nodes |-> CASE n = n1 -> {2} [] n = n2 -> {1} [] n = n3 -> {}]

\* Blocks signed by their miner only.
OneSignature == [h \in Hashes |-> 1]
=============================================================================
