------------------------------ MODULE MCWallet ------------------------------
(* Two wallet programs and two identities; the first owns two outputs. *)
EXTENDS Wallet, TLC

CONSTANTS alice, bob, pc, phone, main

TwoOutputs ==
    << [key |-> 1, owner |-> alice, amount |-> 2],
       [key |-> 2, owner |-> alice, amount |-> 3] >>

\* The programs differ in nothing but their names.
Programs == Permutations({pc, phone})

=============================================================================
