---------------------------- MODULE BlockFormat ----------------------------
(***************************************************************************)
(* A block as bytes: ByteWriter and ByteReader (serialization.hpp), the      *)
(* readers and writers of each part, the merkle root and the quorum of a     *)
(* header (block.cpp).  A wire is a sequence of words of four bytes: u32 is  *)
(* one word, u64 two, a key or hash eight, a signature sixteen, and a string *)
(* its length and that many words.  A read item is the tuple of its fields,  *)
(* each a sequence of words.  Hashes and signatures are ideal: a hash is a   *)
(* record of what was hashed, a signature of its signer and the message.     *)
(***************************************************************************)
EXTENDS Integers, FiniteSets, Sequences, SequencesExt

CONSTANTS
    MaxRing, MaxTxOutputs, MaxQuorum, MaxString,
    MaxTransactions, MaxDeposits, MaxWithdrawals, MaxOutputs,
    Points              \* the words that repeat into a point of the curve

ASSUME FormatConstants ==
    /\ {MaxRing, MaxTxOutputs, MaxQuorum, MaxString, MaxTransactions, MaxDeposits,
        MaxWithdrawals, MaxOutputs} \subseteq Nat \ {0}
    /\ Points \subseteq Nat \ {0}

U32 == 1
U64 == 2
Key == 8
Sig == 16

Filled(word, width) == [i \in 1 .. width |-> word]
Zeros(width) == Filled(0, width)
ValidPoint(words) == \E p \in Points : words = Filled(p, Key)

-----------------------------------------------------------------------------
(* Writing. *)

WriteString(s) == <<Len(s)>> \o s
WriteList(items, One(_)) ==
    <<Len(items)>> \o FlattenSeq([i \in DOMAIN items |-> One(items[i])])

\* ephemeral key, one-time destination, amount
WriteOutput(out) == FlattenSeq(out)

\* key image, c0, responses, ring
WriteRingSig(sig) ==
    sig[1] \o sig[2] \o WriteList(sig[3], FlattenSeq) \o WriteList(sig[4], FlattenSeq)

\* hash, ring signature, outputs, fee, timestamp
WriteTx(tx) ==
    tx[1] \o WriteRingSig(tx[2]) \o WriteList(tx[3], WriteOutput) \o tx[4] \o WriteString(tx[5])

\* gross, fee, net, deposit transaction, view and spend key of the recipient
WriteDeposit(dep) ==
    dep[1] \o dep[2] \o dep[3] \o WriteString(dep[4]) \o dep[5] \o dep[6]

\* gross, fee, net, order, destination, key image, burned output, burn
\* signature (c0 and s), change output
WriteWithdrawal(wdr) ==
    wdr[1] \o wdr[2] \o wdr[3] \o WriteString(wdr[4]) \o WriteString(wdr[5])
        \o FlattenSeq(SubSeq(wdr, 6, 10))

\* the bytes that are signed: everything but the signatures
SigningHash(h) == [version |-> h.version, height |-> h.height, prev |-> h.prev,
                   root |-> h.root, time |-> h.time, nonce |-> h.nonce]

WriteHeader(h) ==
    h.version \o h.height \o h.prev \o h.root \o h.time \o h.nonce
        \o h.validator \o h.signature \o WriteList(h.quorum, LAMBDA q : q[1] \o q[2])

\* Fault: the two sections of outputs change places.
SerializeSwapped(header, body) ==
    WriteHeader(header) \o WriteList(body.txs, WriteTx)
        \o WriteList(body.deposits, WriteDeposit)
        \o WriteList(body.withdrawals, WriteWithdrawal)
        \o WriteList(body.withdrawal_outputs, WriteOutput)
        \o WriteList(body.deposit_outputs, WriteOutput)

Serialize(header, body) ==
    WriteHeader(header) \o WriteList(body.txs, WriteTx)
        \o WriteList(body.deposits, WriteDeposit)
        \o WriteList(body.withdrawals, WriteWithdrawal)
        \o WriteList(body.deposit_outputs, WriteOutput)
        \o WriteList(body.withdrawal_outputs, WriteOutput)

-----------------------------------------------------------------------------
(* Reading.  A reader is where it stands in the wire, the fields it has read   *)
(* of the item at hand, and whether it has thrown.                           *)

Reader(wire) == [wire |-> wire, at |-> 0, got |-> <<>>, ok |-> TRUE]
Left(r) == Len(r.wire) - r.at
Require(r, condition) == [r EXCEPT !.ok = @ /\ condition]
With(r, field) == [r EXCEPT !.got = Append(@, field)]

Read(r, width) ==
    IF r.ok /\ width <= Left(r)
    THEN [With(r, SubSeq(r.wire, r.at + 1, r.at + width)) EXCEPT !.at = @ + width]
    ELSE Require(r, FALSE)

ReadAll(r, widths) == FoldLeft(Read, r, widths)

\* What is wrong with the fields throws.
Check(r, Good(_)) == IF r.ok THEN Require(r, Good(r.got)) ELSE r

\* A count, and how many items it promises.
Counted(c, limit, Items(_, _)) ==
    IF c.ok /\ Last(c.got)[1] <= limit
    THEN Items([c EXCEPT !.got = Front(@)], Last(c.got)[1])
    ELSE Require(c, FALSE)

ReadString(r) == Counted(Read(r, U32), MaxString, Read)

\* An item that is a tuple of its own.
Alone(r) == [r EXCEPT !.got = <<>>]
Within(r, item) == [item EXCEPT !.got = Append(r.got, @)]
ReadItem(r, One(_)) == Within(r, One(Alone(r)))

ReadItems(r, n, One(_)) ==
    Within(r, FoldLeft(LAMBDA acc, i : ReadItem(acc, One), Alone(r), [i \in 1 .. n |-> i]))

ReadList(r, limit, One(_)) ==
    Counted(Read(r, U32), limit, LAMBDA c, n : ReadItems(c, n, One))

\* The optional end of an item: all of it, or zeros.
ReadOptional(r, widths) ==
    IF Left(r) >= FoldLeft(+, 0, widths) THEN ReadAll(r, widths)
    ELSE FoldLeft(LAMBDA acc, w : With(acc, Zeros(w)), r, widths)

ReadOutput(r) ==
    Check(ReadAll(r, <<Key, Key, U64>>), LAMBDA got : ValidPoint(got[1]) /\ ValidPoint(got[2]))

ReadKeys(r, limit) == ReadList(r, limit, LAMBDA x : Read(x, Key))

ReadRingSig(r) ==
    Check(ReadKeys(ReadKeys(ReadAll(r, <<Key, Key>>), MaxRing), MaxRing),
          LAMBDA got : /\ ValidPoint(got[1])
                       /\ Len(got[3]) >= 1
                       /\ Len(got[4]) = Len(got[3])
                       /\ \A i \in DOMAIN got[4] : ValidPoint(got[4][i][1]))

ReadTx(r) ==
    ReadString(Read(ReadList(ReadItem(Read(r, Key), ReadRingSig), MaxTxOutputs, ReadOutput), U64))

ReadDeposit(r) ==
    ReadOptional(ReadString(ReadAll(r, <<U64, U64, U64>>)), <<Key, Key>>)

ReadDestination(r) == IF Left(r) > U32 THEN ReadString(r) ELSE With(r, <<>>)

ReadWithdrawal(r) ==
    ReadOptional(ReadOptional(ReadOptional(
        ReadDestination(ReadString(ReadAll(r, <<U64, U64, U64>>))),
        <<Key>>), <<Key, Key, Key>>), <<Key>>)

ReadQuorum(r) ==
    IF r.ok /\ r.got[1][1] >= 3 /\ Left(r) >= U32
    THEN ReadList(r, MaxQuorum, LAMBDA q : ReadAll(q, <<Key, Sig>>))
    ELSE With(r, <<>>)

ReadHeader(r) == ReadQuorum(ReadAll(r, <<U32, U64, Key, Key, U64, U64, Key, Sig>>))

\* A section of outputs may be missing altogether.
ReadOutputs(r) ==
    IF Left(r) >= U32 THEN ReadList(r, MaxOutputs, ReadOutput) ELSE With(r, <<>>)

Thrown == [thrown |-> TRUE]

ReadBody(r) ==
    ReadOutputs(ReadOutputs(
        ReadList(ReadList(ReadList(r, MaxTransactions, ReadTx),
                          MaxDeposits, ReadDeposit), MaxWithdrawals, ReadWithdrawal)))

Fields(got) ==
    [header |-> [version |-> got[1], height |-> got[2], prev |-> got[3],
                 root |-> got[4], time |-> got[5], nonce |-> got[6],
                 validator |-> got[7], signature |-> got[8], quorum |-> got[9]],
     body |-> [txs |-> got[10], deposits |-> got[11], withdrawals |-> got[12],
               deposit_outputs |-> got[13], withdrawal_outputs |-> got[14]]]

Deserialize(wire) ==
    LET r == ReadBody(ReadHeader(Reader(wire)))
    IN  IF r.ok THEN Fields(r.got) ELSE Thrown

-----------------------------------------------------------------------------
(* The merkle root. *)

\* Fault: the leaf of a deposit leaves its output out.
DepositLeafOfReceipt(body, i) ==
    LET dep == body.deposits[i]
    IN  [hashed |-> WriteString(dep[4]) \o dep[1] \o dep[2] \o dep[3] \o dep[5] \o dep[6]]

DepositLeaf(body, i) ==
    LET dep == body.deposits[i]
    IN  [hashed |-> WriteString(dep[4]) \o dep[1] \o dep[2] \o dep[3] \o dep[5] \o dep[6]
                    \o IF i <= Len(body.deposit_outputs)
                       THEN WriteOutput(body.deposit_outputs[i]) ELSE <<>>]

\* The change output is not part of a withdrawal's leaf.
WithdrawalLeaf(wdr) ==
    [hashed |-> WriteString(wdr[4]) \o wdr[1] \o wdr[2] \o wdr[3] \o WriteString(wdr[5])
                \o FlattenSeq(SubSeq(wdr, 6, 9))]

Leaves(body) ==
    [i \in DOMAIN body.txs |-> [given |-> body.txs[i][1]]]
        \o [i \in DOMAIN body.deposits |-> DepositLeaf(body, i)]
        \o [i \in DOMAIN body.withdrawals |-> WithdrawalLeaf(body.withdrawals[i])]
        \o [i \in DOMAIN body.withdrawal_outputs |->
              [hashed |-> WriteOutput(body.withdrawal_outputs[i])]]

\* Fault: an odd hash at the end is dropped.
LevelDroppingOdd(hashes) ==
    [i \in 1 .. (IF Len(hashes) = 1 THEN 1 ELSE Len(hashes) \div 2) |->
        IF Len(hashes) = 1 THEN hashes[1]
        ELSE [left |-> hashes[2 * i - 1], right |-> hashes[2 * i]]]

\* Pairs are hashed; the last hash of an odd row is paired with itself.
Level(hashes) ==
    IF Len(hashes) <= 1 THEN hashes
    ELSE [i \in 1 .. (Len(hashes) + 1) \div 2 |->
            [left |-> hashes[2 * i - 1],
             right |-> hashes[IF 2 * i <= Len(hashes) THEN 2 * i ELSE 2 * i - 1]]]

\* As many rows as there are leaves are more than enough.
MerkleRoot(body) ==
    LET leaves == Leaves(body)
    IN  IF leaves = <<>> THEN [empty |-> TRUE]
        ELSE FoldLeft(LAMBDA row, i : Level(row), leaves, [i \in DOMAIN leaves |-> i])[1]

-----------------------------------------------------------------------------
(* The signatures of a header.  Keys are words, ordered like their bytes.     *)

Signed(k, h) == Filled([by |-> k, of |-> SigningHash(h)], Sig)
VerifiesUnder(k, sig, h) == sig[1].by = k /\ sig[1].of = SigningHash(h)

\* add_quorum_signature: one signature a key, in the order of the keys.
AddQuorumSignature(h, k, sig) ==
    IF \E q \in ToSet(h.quorum) : q[1] = Filled(k, Key) THEN h
    ELSE LET before == Cardinality({i \in DOMAIN h.quorum : h.quorum[i][1][1] < k})
         IN  [h EXCEPT !.quorum = InsertAt(@, before + 1, <<Filled(k, Key), sig>>)]

\* BlockHeader::sign
SignHeader(h, k) ==
    AddQuorumSignature([h EXCEPT !.validator = Filled(k, Key), !.signature = Signed(k, h)],
                       k, Signed(k, h))

VerifySignature(h) ==
    /\ h.validator # Zeros(Key)
    /\ VerifiesUnder(h.validator[1], h.signature, h)

\* Fault: every entry that verifies counts.
VerifyQuorumEntries(h, authorized) ==
    (IF VerifySignature(h) /\ h.validator[1] \in authorized THEN 1 ELSE 0)
        + Cardinality({i \in DOMAIN h.quorum :
                         /\ h.quorum[i][1][1] \in authorized
                         /\ VerifiesUnder(h.quorum[i][1][1], h.quorum[i][2], h)})

\* verify_quorum: entry by entry, skipping keys that are not authorized or that
\* already count.
VerifyQuorum(h, authorized) ==
    LET primary == IF VerifySignature(h) /\ h.validator[1] \in authorized
                   THEN <<h.validator[1]>> ELSE <<>>
        Entry(counted, q) ==
            IF /\ q[1][1] \in authorized \ ToSet(counted)
               /\ VerifiesUnder(q[1][1], q[2], h)
            THEN Append(counted, q[1][1]) ELSE counted
    IN  Len(FoldLeft(Entry, primary, h.quorum))

=============================================================================
