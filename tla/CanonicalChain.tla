---------------------------- MODULE CanonicalChain ----------------------------
(***************************************************************************)
(* What a CryptoPeg node promises of its chain, without tables, caches,     *)
(* handlers or certificates: it grows by blocks that conserve value, spend  *)
(* what exists and was not spent, and mint each event once; and its tip     *)
(* gives way only to a better block with the same parent, or comes back.    *)
(* NodeLedger implements it while its process lives.                        *)
(***************************************************************************)
EXTENDS Integers, Sequences, FiniteSetsExt

CONSTANTS
    Better(_, _),   \* the fork choice between two blocks with one parent
    Genesis         \* the hash the first block links to

VARIABLES
    chain,      \* the blocks from height 1 on
    displaced   \* the tip that is being replaced: at most one

vars == <<chain, displaced>>

Spends == UNION {chain[i].op.spends : i \in DOMAIN chain}
Minted == UNION {chain[i].op.events : i \in DOMAIN chain}
Outputs == UNION {chain[i].op.outs : i \in DOMAIN chain}

ValueOf(outs) == MapThenSumSet(LAMBDA o : o.amount, outs)

Link == IF chain = <<>> THEN Genesis ELSE chain[Len(chain)].hash

\* What goes in comes out: minted, passed on, or burned.
Conserves(op) ==
    LET input == ValueOf({o \in Outputs : o.key \in op.spends})
    IN  CASE op.kind = "deposit"  -> op.gross = op.fee + ValueOf(op.outs)
          [] op.kind = "transfer" -> input = op.fee + ValueOf(op.outs)
          [] op.kind = "withdraw" -> input = op.gross + ValueOf(op.outs)

Acceptable(b) ==
    /\ b.height = Len(chain) + 1
    /\ b.prev = Link
    /\ b.op.spends \cap Spends = {}
    /\ b.op.spends \cup b.op.ring \subseteq {o.key : o \in Outputs}
    /\ b.op.events \cap Minted = {}
    /\ Conserves(b.op)

Appended(b) == Acceptable(b) /\ chain' = Append(chain, b)

Init == chain = <<>> /\ displaced = {}

\* A block mined here or sent by a peer.
Extend(b) ==
    /\ displaced = {}
    /\ Appended(b)
    /\ UNCHANGED displaced

\* The tip steps back for a competitor.
Displace ==
    /\ displaced = {}
    /\ chain # <<>>
    /\ displaced' = {chain[Len(chain)]}
    /\ chain' = SubSeq(chain, 1, Len(chain) - 1)

\* The competitor takes its place, or it returns.
Settle(b) ==
    /\ \E old \in displaced : b = old \/ Better(b, old)
    /\ Appended(b)
    /\ displaced' = {}

\* The block that a step appends, if it appends one.
NewBlocks == {chain'[i] : i \in DOMAIN chain' \ DOMAIN chain}

Next ==
    \/ \E b \in NewBlocks : Extend(b)
    \/ Displace
    \/ \E b \in NewBlocks : Settle(b)

Spec == Init /\ [][Next]_vars
=============================================================================
