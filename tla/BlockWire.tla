----------------------------- MODULE BlockWire -----------------------------
(***************************************************************************)
(* The life of a block between two nodes: operations are put into its body,  *)
(* it is sealed with the merkle root and signed, the other validators sign   *)
(* it in any order (two nodes may each collect the signatures), and its      *)
(* bytes are read by another node or by LMDB's reader, whole or cut short.   *)
(***************************************************************************)
EXTENDS BlockFormat

CONSTANTS
    Validators,     \* authorized_validators_, as the words of their keys
    Miners,         \* those of them that mine
    Threshold,      \* validator_quorum_threshold_
    Operations,     \* what can be put into a body: records [part, item, outputs]
    MaxOperations,  \* bound
    Header          \* version, height, previous block, time and nonce

ASSUME WireConstants ==
    /\ IsFiniteSet(Validators) /\ Validators \subseteq Nat \ {0}
    /\ Threshold \in 1 .. Cardinality(Validators)
    /\ Miners \subseteq Validators
    /\ MaxOperations \in Nat

VARIABLES
    body,       \* the operations of the block
    header,     \* the header one node holds
    other,      \* the same header at another node that collects signatures
    wire,       \* the bytes
    received    \* [at |-> how many words arrived, block |-> what they read as]

vars == <<body, header, other, wire, received>>

None == [none |-> TRUE]

Empty == [txs |-> <<>>, deposits |-> <<>>, withdrawals |-> <<>>,
          deposit_outputs |-> <<>>, withdrawal_outputs |-> <<>>]

\* A node puts a deposit in together with its output, a withdrawal with the
\* change it has, if any.
Put(b, op) ==
    CASE op.part = "tx" -> [b EXCEPT !.txs = Append(@, op.item)]
      [] op.part = "deposit" -> [b EXCEPT !.deposits = Append(@, op.item),
                                          !.deposit_outputs = @ \o op.outputs]
      [] op.part = "withdrawal" -> [b EXCEPT !.withdrawals = Append(@, op.item),
                                             !.withdrawal_outputs = @ \o op.outputs]

Operated(b) == Len(b.txs) + Len(b.deposits) + Len(b.withdrawals)

Sealed(b) ==
    Header @@ [root |-> Filled(MerkleRoot(b), Key),
               validator |-> Zeros(Key), signature |-> Zeros(Sig), quorum |-> <<>>]

Init ==
    /\ body = Empty /\ wire = <<>>
    /\ header = None /\ other = None /\ received = None

\* An operation is not mined twice: its event or key image is known.
Add(op) ==
    /\ header = None /\ Operated(body) < MaxOperations
    /\ op.item \notin ToSet(body.txs) \cup ToSet(body.deposits) \cup ToSet(body.withdrawals)
    /\ body' = Put(body, op)
    /\ UNCHANGED <<header, other, wire, received>>

\* The miner computes the root and signs; the other node gets the same header.
Seal(k) ==
    /\ header = None
    /\ header' = SignHeader(Sealed(body), k)
    /\ other' = header'
    /\ UNCHANGED <<body, wire, received>>

Cosign(k) ==
    /\ header # None /\ wire = <<>>
    /\ \/ header' = AddQuorumSignature(header, k, Signed(k, header)) /\ UNCHANGED other
       \/ other' = AddQuorumSignature(other, k, Signed(k, other)) /\ UNCHANGED header
    /\ <<header, other>>' # <<header, other>>
    /\ UNCHANGED <<body, wire, received>>

\* With the quorum the block goes to the peers and to the disk.
Publish ==
    /\ header # None /\ wire = <<>>
    /\ VerifyQuorum(header, Validators) >= Threshold
    /\ wire' = Serialize(header, body)
    /\ other' = None
    /\ UNCHANGED <<body, header, received>>

\* A reader gets the first words of it.
Receive(n) ==
    /\ wire # <<>> /\ received = None
    /\ received' = [at |-> n, block |-> Deserialize(SubSeq(wire, 1, n))]
    /\ UNCHANGED <<body, header, other, wire>>

Next ==
    \/ \E op \in Operations : Add(op)
    \/ \E k \in Miners : Seal(k)
    \/ \E k \in Validators : Cosign(k)
    \/ Publish
    \/ \E n \in 0 .. Len(wire) : Receive(n)

Spec == Init /\ [][Next]_vars

-----------------------------------------------------------------------------
(* Properties. *)

TypeOK ==
    /\ Operated(body) <= MaxOperations
    /\ Len(body.deposits) = Len(body.deposit_outputs)
    /\ \A h \in {header, other} \ {None} :
         /\ \A i, j \in DOMAIN h.quorum : i < j => h.quorum[i][1][1] < h.quorum[j][1][1]
         /\ h.validator[1] \in {h.quorum[i][1][1] : i \in DOMAIN h.quorum}

Sent == [header |-> header, body |-> body]

\* Node A's block is node B's block: what serialize writes, deserialize reads.
RoundTrip == received # None /\ received.at = Len(wire) => received.block = Sent

\* A block cut short is refused or is the same block: whatever the optional ends
\* of deposits, withdrawals and sections fill with zeros, the root shows it.
CutIsNoOtherBlock ==
    received # None /\ received.block # Thrown =>
        \/ received.block = Sent
        \/ received.block.header.root # Filled(MerkleRoot(received.block.body), Key)

\* What the root has to say of a body: everything but a withdrawal's mention of
\* its change output, which is only matched with the outputs.
Committed(b) ==
    [b EXCEPT !.withdrawals = [i \in DOMAIN b.withdrawals |-> SubSeq(b.withdrawals[i], 1, 9)]]

Bodies ==
    {FoldLeft(Put, Empty, ops) : ops \in {s \in UNION {[1 .. n -> Operations] : n \in 0 .. MaxOperations} :
                                \A i, j \in DOMAIN s : i # j => s[i] # s[j]}}

\* No two bodies of different operations share a root.
RootCommits ==
    header # None /\ wire = <<>> =>
        \A b \in Bodies : MerkleRoot(b) = header.root[1] => Committed(b) = Committed(body)

\* A certificate is the set of its signers.  verify_quorum counts the authorized
\* validators that signed the header, also when one from elsewhere names one
\* twice, signs for another block, or lists the primary signer again; and the
\* same signers make the same header in whatever order they sign, since the
\* hash of the block covers their list.
QuorumCountsSigners ==
    header # None /\ wire = <<>> =>
        LET fresh == [header EXCEPT !.nonce = <<0, 0>>]
            entries == {<<Filled(v, Key), Signed(w, h)>> :
                          v \in Validators, w \in Validators, h \in {header, fresh}}
            authorized == Validators \ {CHOOSE v \in Validators : TRUE}
        IN  \A list \in UNION {[1 .. n -> entries] : n \in 0 .. 2} :
              VerifyQuorum([header EXCEPT !.quorum = list], authorized)
                = Cardinality({v \in authorized :
                                 \/ v = header.validator[1]
                                 \/ <<Filled(v, Key), Signed(v, header)>> \in ToSet(list)})

CanonicalHeader ==
    header # None /\ other # None
        /\ {header.quorum[i][1] : i \in DOMAIN header.quorum}
             = {other.quorum[i][1] : i \in DOMAIN other.quorum}
        => header = other

CertificateIsItsSigners == QuorumCountsSigners /\ CanonicalHeader

=============================================================================
