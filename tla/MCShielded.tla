----------------------------- MODULE MCShielded -----------------------------
(* A group of five points, bytes of two bits and words of three. *)
EXTENDS ShieldedFlow

MCHash(numbers) ==
    FoldLeft(LAMBDA acc, x : (3 * acc + x * x + x + 1) % 997, 7, numbers) % Q

MCSha(bytes) ==
    FoldLeft(LAMBDA acc, x : (5 * acc + 3 * x + 1) % 4, 3, bytes)

MCPayee == [spend |-> 2, view |-> 3]

=============================================================================
