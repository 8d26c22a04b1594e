------------------------------ MODULE MCBlock ------------------------------
(* Two transactions, two deposits of the same money to two recipients, and a  *)
(* withdrawal with and one without change.                                  *)
EXTENDS BlockWire

Point(n) == Filled(n, Key)
MCOutput(n, amount) == <<Point(n), Point(n + 1), <<amount, 0>>>>
MCTx(n) ==
    [part |-> "tx", outputs |-> <<>>,
     item |-> << Point(n), <<Point(1), Point(7), <<<<Point(n)>>>>, <<<<Point(2)>>>>>>,
                 <<MCOutput(1, n)>>, <<1, 0>>, <<n>> >>]
MCDeposit(recipient) ==
    [part |-> "deposit", outputs |-> <<MCOutput(recipient, 2)>>,
     item |-> <<<<3, 0>>, <<1, 0>>, <<2, 0>>, <<5>>, Point(recipient), Point(recipient)>>]
MCWithdrawal(change) ==
    [part |-> "withdrawal",
     outputs |-> IF change = 0 THEN <<>> ELSE <<MCOutput(change - 1, 1)>>,
     item |-> <<<<2, 0>>, <<0, 0>>, <<2, 0>>, <<6, change>>, <<7>>,
                Point(3), Point(1), Point(7), Point(7), Point(change)>>]

MCOperations ==
    {MCTx(1), MCTx(2), MCDeposit(1), MCDeposit(2), MCWithdrawal(0), MCWithdrawal(3)}

MCHeader ==
    [version |-> <<3>>, height |-> <<1, 0>>, prev |-> Point(9),
     time |-> <<4, 0>>, nonce |-> <<8, 0>>]

=============================================================================
