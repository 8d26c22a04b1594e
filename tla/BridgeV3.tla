------------------------------- MODULE BridgeV3 -------------------------------
(***************************************************************************)
(* Bridge V3: the vault contract with quorum finality, one independent      *)
(* cosigner per validator, each with a node of its own, and the relayer     *)
(* that collects signatures and pays the gas                                *)
(* (CryptoPegVaultV3.sol, validator_cosigner_v3.js,                        *)
(* withdrawal_relayer_v3.js).                                              *)
(*                                                                         *)
(* Cosigners keep no state between requests; a request is a sequence of     *)
(* awaits, reads of the contract and of the node, and either chain may move *)
(* between two of them.  A node holds a path of the tree of blocks; it      *)
(* grows and replaces its tip as NodeLedger allows, and the nodes may be on *)
(* different branches.  L2 itself is external.                              *)
(***************************************************************************)
EXTENDS ContractOps, Sequences, SequencesExt

CONSTANTS
    Genesis,            \* the root of the tree of blocks
    Blocks,             \* the other blocks of the confidential chain,
    Parent,             \* the block each follows,
    HeightOf,           \* the height in its header, one more than its parent's
    OrdersIn,           \* and the withdrawals in it
    BadOrders,          \* those to what ethers takes for no address, or of no amount
    Cosigners,
    Threshold,          \* validatorThreshold
    RelayerNode,        \* the relayer's node; a cosigner's bears its name
    Starts,             \* where the nodes are when the bridge starts, and the bounds
                        \* of the model on what then happens
    Backing,            \* USDT deposited by then
    Confirmations,      \* CONFIDENTIAL_CHAIN_CONFIRMATIONS
    NodePrefixes        \* whether a node's answers carry the 0x of a bytes32: the
                        \* scripts count on it, to_hex leaves it out

Tree == Blocks \cup {Genesis}
Nodes == Cosigners \cup {RelayerNode}
Bounds == [moves : Nat, resyncs : Nat, restarts : Nat, faults : Nat, pauses : Nat]

ASSUME BridgeV3Constants ==
    /\ Genesis \notin Blocks
    /\ Parent \in [Blocks -> Tree]
    /\ HeightOf \in [Tree -> Nat] /\ HeightOf[Genesis] = 0
    /\ \A b \in Blocks : HeightOf[b] = HeightOf[Parent[b]] + 1
    /\ OrdersIn \in [Blocks -> SUBSET Orders]
    /\ BadOrders \subseteq Orders
    /\ \A b1, b2 \in Blocks : OrdersIn[b1] \cap OrdersIn[b2] # {} => b1 = b2
    /\ IsFiniteSet(Cosigners) /\ Cardinality(Cosigners) >= 3
    /\ Threshold \in 2 .. Cardinality(Cosigners)
    /\ 2 * Threshold > Cardinality(Cosigners)
    /\ \A start \in Starts : start.tips \in [Nodes -> Tree] /\ start.left \in Bounds
    /\ Backing \in Nat
    /\ Confirmations \in Nat \ {0}
    /\ NodePrefixes \in BOOLEAN

\* The blocks of the chain that ends in a block: those in every set with it that
\* has the parents of its members.
Ancestral == {S \in SUBSET Tree : \A b \in S \cap Blocks : Parent[b] \in S}
PathTo == [b \in Tree |-> {a \in Tree : \A S \in Ancestral : b \in S => a \in S}]

\* A block hash as a script holds it.  The contract's are 0x-prefixed bytes32;
\* isHexString wants the prefix and a comparison of strings sees it.  The node's
\* to_hex writes the digits alone, NodePrefixes = FALSE: then the bridge stops
\* short of its first checkpoint (BuriedIsFinalized).  What it does after that is
\* the protocol of contract and scripts, which is this module with
\* NodePrefixes = TRUE.
Hash == [block : Tree, prefixed : BOOLEAN]
OnChainHash(b) == [block |-> b, prefixed |-> TRUE]
NodeHash(b) == [block |-> b, prefixed |-> NodePrefixes]
IsHexString(h) == h.prefixed

CheckpointRequest == [kind : {"checkpoint"}, hash : Hash, parent : Hash]
WithdrawalRequest == [kind : {"withdrawal"}, order : Orders, hash : Hash, checkpoint : Hash]
Request == CheckpointRequest \cup WithdrawalRequest
NoRequest == [kind |-> "none"]

\* What a cosigner has read for a request, and how far it is.
Stage == [pc : {"none", "height", "hash", "status", "candidate", "ancestor",
                "checkpoint", "block", "signed", "refused"},
          height : Nat, hash : Hash]
NotAsked == [pc |-> "none", height |-> 0, hash |-> OnChainHash(Genesis)]

\* Where the relayer's tick is, and what it has read.
Tick == [pc : {"idle", "latest", "parent", "target", "collect", "wait",
               "height", "hash", "local", "scan", "orders"},
         target : Nat, height : Nat, hash : Hash, scan : Nat,
         todo : SUBSET Orders, request : Request \cup {NoRequest}]

VARIABLES
    tips,       \* the tip of each node's chain
    latest,     \* latestFinalizedBlockHash (latestFinalizedHeight is its height)
    books,      \* the contract's money and executed orders
    mempool,    \* transactions on their way to L2, with the signatures they carry
    relayer,    \* the relayer's tick
    asked,      \* the cosigners' progress with the relayer's request
    cursor,     \* state.lastWithdrawalHeight, saved after every block
    finalized,  \* history: the checkpoints in order
    payouts,    \* history: the orders paid, in order
    left,       \* how many moves, resyncs, restarts, faults and pauses may follow
    resynced    \* history: the nodes that were given another chain

contract == <<latest, books, finalized, payouts>>
ghost == <<left, resynced>>
vars == <<tips, latest, books, mempool, relayer, asked, cursor, finalized, payouts, ghost>>

Resting == [pc |-> "idle", target |-> 0, height |-> 0, hash |-> OnChainHash(Genesis),
            scan |-> 0, todo |-> {}, request |-> NoRequest]

TypeOK ==
    /\ tips \in [Nodes -> Tree]
    /\ latest \in Tree
    /\ books \in Books
    /\ mempool \subseteq [request : Request, signers : SUBSET Cosigners]
    /\ relayer \in Tick
    /\ asked \in [Cosigners -> Stage]
    /\ cursor \in Nat
    /\ finalized \in Seq(Blocks)
    /\ payouts \in Seq(Orders)
    /\ left \in Bounds /\ resynced \subseteq Nodes

Init ==
    /\ \E start \in Starts : tips = start.tips /\ left = start.left
    /\ resynced = {}
    /\ latest = Genesis
    /\ books = [NewContract EXCEPT !.balance = Backing]
    /\ mempool = {}
    /\ relayer = Resting
    /\ asked = [c \in Cosigners |-> NotAsked]
    /\ cursor = 0
    /\ finalized = <<>>
    /\ payouts = <<>>

-----------------------------------------------------------------------------
(***************************************************************************)
(* The nodes                                                                *)
(***************************************************************************)

NodeHeight(n) == HeightOf[tips[n]]

\* What GET /api/v1/chain/block/<h> answers with: the block, or none.
BlockAt(n, h) == {b \in PathTo[tips[n]] : HeightOf[b] = h}

NodeSays(n, h, hash) == \E b \in BlockAt(n, h) : NodeHash(b) = hash

\* A node's chain grows, or its tip gives way to another block.
NodeMoves(n) ==
    /\ left.moves > 0
    /\ left' = [left EXCEPT !.moves = @ - 1]
    /\ \E b \in Blocks :
        /\ \/ Parent[b] = tips[n]
           \/ tips[n] \in Blocks /\ b # tips[n] /\ Parent[b] = Parent[tips[n]]
        /\ tips' = [tips EXCEPT ![n] = b]
    /\ UNCHANGED <<contract, mempool, relayer, asked, cursor, resynced>>

\* A node that lost its data downloads the chain of another: the one way to
\* another branch once a fork is deeper than the tip.
NodeResyncs(n) ==
    /\ left.resyncs > 0
    /\ left' = [left EXCEPT !.resyncs = @ - 1]
    /\ \E m \in Nodes :
        /\ tips[m] # tips[n]
        /\ tips' = [tips EXCEPT ![n] = tips[m]]
    /\ resynced' = resynced \cup {n}
    /\ UNCHANGED <<contract, mempool, relayer, asked, cursor>>

-----------------------------------------------------------------------------
(***************************************************************************)
(* The contract                                                             *)
(***************************************************************************)

\* _verifyQuorum: distinct validators, as many as the threshold.
QuorumOf(signers) == Cardinality(signers) >= Threshold

LatestHeight == HeightOf[latest]

CheckpointOK(r) ==
    /\ ~ books.paused
    /\ HeightOf[r.hash.block] > LatestHeight
    /\ r.parent = OnChainHash(latest)

WithdrawalOK(r) ==
    /\ ContractPays(books, r.order)
    /\ LatestHeight > 0
    /\ r.checkpoint = OnChainHash(latest)
    /\ HeightOf[r.hash.block] <= LatestHeight

Accepted(tx) ==
    /\ QuorumOf(tx.signers)
    /\ CASE tx.request.kind = "checkpoint" -> CheckpointOK(tx.request)
         [] tx.request.kind = "withdrawal" -> WithdrawalOK(tx.request)

FinalizeCheckpoint(r) ==
    /\ latest' = r.hash.block
    /\ finalized' = Append(finalized, r.hash.block)
    /\ UNCHANGED <<books, payouts>>

Withdraw(r) ==
    /\ books' = PaidByContract(books, r.order)
    /\ payouts' = Append(payouts, r.order)
    /\ UNCHANGED <<latest, finalized>>

\* A transaction reaches a block of L2, takes effect or reverts.
L2Executes ==
    /\ \E tx \in mempool :
        /\ mempool' = mempool \ {tx}
        /\ \/ /\ Accepted(tx)
              /\ \/ tx.request.kind = "checkpoint" /\ FinalizeCheckpoint(tx.request)
                 \/ tx.request.kind = "withdrawal" /\ Withdraw(tx.request)
           \/ ~ Accepted(tx) /\ UNCHANGED contract
    /\ UNCHANGED <<tips, relayer, asked, cursor, ghost>>

OwnerPauses ==
    /\ left.pauses > 0
    /\ ~ books.paused
    /\ books' = [books EXCEPT !.paused = TRUE]
    /\ left' = [left EXCEPT !.pauses = @ - 1]
    /\ UNCHANGED <<tips, latest, finalized, payouts, mempool, relayer, asked, cursor, resynced>>

OwnerUnpauses ==
    /\ books.paused
    /\ books' = [books EXCEPT !.paused = FALSE]
    /\ UNCHANGED <<tips, latest, finalized, payouts, mempool, relayer, asked, cursor, ghost>>

-----------------------------------------------------------------------------
(***************************************************************************)
(* The cosigners                                                            *)
(***************************************************************************)

\* One answer to a cosigner: it goes on to the next read, or refuses.
CosignerReads(c, pc, ok, next) ==
    /\ asked[c].pc = pc
    /\ asked' = [asked EXCEPT ![c].pc = IF ok THEN next ELSE "refused"]
    /\ UNCHANGED <<tips, contract, mempool, relayer, cursor, ghost>>

\* await vault.latestFinalizedHeight()
CosignerReadsHeight(c) ==
    /\ asked[c].pc = "height"
    /\ asked' = [asked EXCEPT ![c].pc = "hash", ![c].height = LatestHeight]
    /\ UNCHANGED <<tips, contract, mempool, relayer, cursor, ghost>>

\* The request agrees with the height read before and the hash read now.
Current(r, height) ==
    IF r.kind = "checkpoint"
      THEN HeightOf[r.hash.block] > height /\ r.parent = OnChainHash(latest)
      ELSE /\ HeightOf[r.checkpoint.block] = height
           /\ r.checkpoint = OnChainHash(latest)
           /\ HeightOf[r.hash.block] <= height

\* await vault.latestFinalizedBlockHash()
CosignerReadsHash(c) ==
    /\ asked[c].pc = "hash"
    /\ asked' = [asked EXCEPT
                   ![c].pc = IF ~ Current(relayer.request, asked[c].height) THEN "refused"
                             ELSE IF relayer.request.kind = "checkpoint" THEN "status"
                             ELSE "checkpoint",
                   ![c].hash = OnChainHash(latest)]
    /\ UNCHANGED <<tips, contract, mempool, relayer, cursor, ghost>>

RequestHeight == HeightOf[relayer.request.hash.block]

\* verifyCanonicalCheckpoint: deep enough in its own chain, ...
CosignerReadsStatus(c) ==
    CosignerReads(c, "status", NodeHeight(c) >= RequestHeight + Confirmations, "candidate")

\* ... the same block at that height, ...
CosignerReadsCandidate(c) ==
    CosignerReads(c, "candidate", NodeSays(c, RequestHeight, relayer.request.hash), "ancestor")

\* Fault: the last checkpoint is not looked up.
SignsWithoutAncestor(c) == CosignerReads(c, "ancestor", TRUE, "signed")

\* ... and below it the last checkpoint, unless there is none.
CosignerReadsAncestor(c) ==
    CosignerReads(c, "ancestor",
                  asked[c].height > 0 => NodeSays(c, asked[c].height, asked[c].hash), "signed")

\* signWithdrawal: its own chain contains the checkpoint, ...
CosignerReadsCheckpoint(c) ==
    CosignerReads(c, "checkpoint", NodeSays(c, asked[c].height, asked[c].hash), "block")

\* ... and the order in the block that is named.
CosignerReadsBlock(c) ==
    LET r == relayer.request
    IN  CosignerReads(c, "block",
                      NodeSays(c, RequestHeight, r.hash) /\ r.order \in OrdersIn[r.hash.block],
                      "signed")

\* A cosigner or its connections fail.
CosignerFails(c) ==
    /\ asked[c].pc \notin {"none", "signed", "refused"}
    /\ left.faults > 0
    /\ left' = [left EXCEPT !.faults = @ - 1]
    /\ asked' = [asked EXCEPT ![c].pc = "refused"]
    /\ UNCHANGED <<tips, contract, mempool, relayer, cursor, resynced>>

Cosigns(c) ==
    \/ CosignerReadsHeight(c) \/ CosignerReadsHash(c)
    \/ CosignerReadsStatus(c) \/ CosignerReadsCandidate(c) \/ CosignerReadsAncestor(c)
    \/ CosignerReadsCheckpoint(c) \/ CosignerReadsBlock(c)

-----------------------------------------------------------------------------
(***************************************************************************)
(* The relayer: finalizeSafeCheckpoint, then processFinalizedWithdrawals    *)
(***************************************************************************)

\* A step of the relayer alone: from one await to the next.
RelayerGoes(pc, next) ==
    /\ relayer.pc = pc
    /\ relayer' = next
    /\ UNCHANGED <<tips, contract, mempool, asked, cursor, ghost>>

GiveUp == relayer' = Resting

\* Where processFinalizedWithdrawals begins.
Withdrawals == [Resting EXCEPT !.pc = "height"]

Target == NodeHeight(RelayerNode) - Confirmations

\* tick: the node's status.  A chain that is too short leaves the withdrawals.
RelayerTicks ==
    RelayerGoes("idle", IF Target > 0 THEN [Resting EXCEPT !.pc = "latest", !.target = Target]
                                      ELSE Withdrawals)

RelayerReadsLatest ==
    RelayerGoes("latest", IF relayer.target > LatestHeight
                            THEN [relayer EXCEPT !.pc = "parent"] ELSE Withdrawals)

RelayerReadsParent ==
    RelayerGoes("parent", [relayer EXCEPT !.pc = "target", !.hash = OnChainHash(latest)])

\* Every configured cosigner is asked at once.
Collect(request) ==
    /\ relayer' = [relayer EXCEPT !.pc = "collect", !.request = request]
    /\ asked' = [c \in Cosigners |-> [NotAsked EXCEPT !.pc = "height"]]

\* The block of the relayer's node at a height, with a hash isHexString takes.
ReadBlock(h) == {b \in BlockAt(RelayerNode, h) : IsHexString(NodeHash(b))}

RelayerReadsTarget ==
    /\ relayer.pc = "target"
    /\ \/ \E b \in ReadBlock(relayer.target) :
            Collect([kind |-> "checkpoint", hash |-> NodeHash(b), parent |-> relayer.hash])
       \/ ReadBlock(relayer.target) = {} /\ GiveUp /\ UNCHANGED asked
    /\ UNCHANGED <<tips, contract, mempool, cursor, ghost>>

Signed == {c \in Cosigners : asked[c].pc = "signed"}

\* All have settled: with a quorum the transaction is sent, unless its estimate
\* already reverts.
RelayerSends ==
    /\ relayer.pc = "collect"
    /\ \A c \in Cosigners : asked[c].pc \in {"signed", "refused"}
    /\ \E signers \in SUBSET Signed :
        /\ Cardinality(signers) = (IF QuorumOf(Signed) THEN Threshold ELSE Cardinality(Signed))
        /\ LET tx == [request |-> relayer.request, signers |-> signers]
           IN  \/ /\ Accepted(tx)
                  /\ mempool' = mempool \cup {tx}
                  /\ relayer' = [relayer EXCEPT !.pc = "wait"]
               \/ /\ ~ Accepted(tx)
                  /\ GiveUp
                  /\ UNCHANGED mempool
    /\ asked' = [c \in Cosigners |-> NotAsked]
    /\ UNCHANGED <<tips, contract, cursor, ghost>>

InMempool(request) == \E tx \in mempool : tx.request = request

Confirmed(r) ==
    IF r.kind = "checkpoint" THEN r.hash.block \in ToSet(finalized) ELSE r.order \in books.executed

\* tx.wait(): the checkpoint is final and the withdrawals follow, the order is
\* paid and the next follows; or the transaction reverted, be it because another
\* of before a restart did its work, and the tick ends.
RelayerConfirms ==
    /\ relayer.pc = "wait"
    /\ ~ InMempool(relayer.request)
    /\ \/ /\ Confirmed(relayer.request)
          /\ relayer' = IF relayer.request.kind = "checkpoint"
                          THEN Withdrawals
                          ELSE [relayer EXCEPT !.pc = "orders", !.request = NoRequest,
                                               !.todo = @ \ {relayer.request.order}]
       \/ GiveUp
    /\ UNCHANGED <<tips, contract, mempool, asked, cursor, ghost>>

RelayerReadsHeight ==
    RelayerGoes("height", [relayer EXCEPT !.pc = "hash", !.height = LatestHeight])

RelayerReadsHash ==
    RelayerGoes("hash", IF relayer.height = 0 THEN Resting
                          ELSE [relayer EXCEPT !.pc = "local", !.hash = OnChainHash(latest)])

\* The relayer's own node has to contain the checkpoint.
RelayerChecksLocal ==
    RelayerGoes("local", IF NodeSays(RelayerNode, relayer.height, relayer.hash)
                           THEN [relayer EXCEPT !.pc = "scan", !.scan = cursor + 1] ELSE Resting)

RelayerScans ==
    \/ /\ relayer.scan <= relayer.height
       /\ \E b \in ReadBlock(relayer.scan) :
            RelayerGoes("scan", [relayer EXCEPT !.pc = "orders", !.todo = OrdersIn[b]])
    \/ /\ relayer.scan > relayer.height \/ ReadBlock(relayer.scan) = {}
       /\ RelayerGoes("scan", Resting)

\* The block an order was read from.
BlockWith(o) == CHOOSE b \in Blocks : o \in OrdersIn[b]

\* The next order of the block: executed already, or not to be paid, which ends
\* the tick, this one and all to come; or to be signed.
RelayerTakesOrder ==
    /\ relayer.pc = "orders"
    /\ \E o \in relayer.todo :
        \/ /\ o \in books.executed
           /\ relayer' = [relayer EXCEPT !.todo = @ \ {o}]
           /\ UNCHANGED asked
        \/ /\ o \notin books.executed /\ o \in BadOrders
           /\ GiveUp
           /\ UNCHANGED asked
        \/ /\ o \notin books.executed /\ o \notin BadOrders
           /\ Collect([kind |-> "withdrawal", order |-> o, hash |-> NodeHash(BlockWith(o)),
                       checkpoint |-> relayer.hash])
    /\ UNCHANGED <<tips, contract, mempool, cursor, ghost>>

\* Fault: the height of the checkpoint is saved for every block.
SavesCheckpointHeight ==
    /\ relayer.pc = "orders"
    /\ relayer.todo = {}
    /\ cursor' = relayer.height
    /\ relayer' = [relayer EXCEPT !.pc = "scan", !.scan = @ + 1]
    /\ UNCHANGED <<tips, contract, mempool, asked, ghost>>

\* The block is done: the cursor is saved and the next is scanned.
RelayerSaves ==
    /\ relayer.pc = "orders"
    /\ relayer.todo = {}
    /\ cursor' = relayer.scan
    /\ relayer' = [relayer EXCEPT !.pc = "scan", !.scan = @ + 1]
    /\ UNCHANGED <<tips, contract, mempool, asked, ghost>>

\* An await fails, or the relayer stops at it and starts again from its state
\* file, which is empty when it stopped while writing it.  What it sent stays
\* sent.
RelayerRestarts ==
    /\ left.restarts > 0
    /\ relayer # Resting
    /\ left' = [left EXCEPT !.restarts = @ - 1]
    /\ GiveUp
    /\ asked' = [c \in Cosigners |-> NotAsked]
    /\ cursor' \in {cursor, 0}
    /\ UNCHANGED <<tips, contract, mempool, resynced>>

Relays ==
    \/ RelayerTicks \/ RelayerReadsLatest \/ RelayerReadsParent \/ RelayerReadsTarget
    \/ RelayerSends \/ RelayerConfirms
    \/ RelayerReadsHeight \/ RelayerReadsHash \/ RelayerChecksLocal
    \/ RelayerScans \/ RelayerTakesOrder \/ RelayerSaves

Next ==
    \/ \E n \in Nodes : NodeMoves(n) \/ NodeResyncs(n)
    \/ L2Executes \/ OwnerPauses \/ OwnerUnpauses
    \/ \E c \in Cosigners : Cosigns(c) \/ CosignerFails(c)
    \/ Relays \/ RelayerRestarts

Spec == Init /\ [][Next]_vars

\* The relayer's interval, the cosigners' servers and L2 go on; a pause ends.
FairSpec ==
    /\ Spec
    /\ WF_vars(Relays)
    /\ \A c \in Cosigners : WF_vars(Cosigns(c))
    /\ WF_vars(L2Executes)
    /\ WF_vars(OwnerUnpauses)

-----------------------------------------------------------------------------
(***************************************************************************)
(* Properties                                                               *)
(***************************************************************************)

\* Any two quorums share a cosigner whose node never lost its data.
QuorumsMeet ==
    \A Q1, Q2 \in SUBSET Cosigners :
        QuorumOf(Q1) /\ QuorumOf(Q2) => (Q1 \cap Q2) \ resynced # {}

\* "A deep private-chain fork must not be able to release USDT from two
\* competing histories" (docs/BRIDGE_V3_FINALITY.md:7): the checkpoints follow
\* one another on one branch unless a whole quorum of nodes was given other
\* chains; while any two quorums share a node that was not, what was paid is
\* orders of that branch; and each is paid once, whatever the relayer had sent
\* before it stopped.
OneHistory ==
    /\ ~ QuorumOf(resynced \cap Cosigners) =>
           \A i, j \in DOMAIN finalized : i < j => finalized[i] \in PathTo[finalized[j]]
    /\ QuorumsMeet => \A i \in DOMAIN payouts : BlockWith(payouts[i]) \in PathTo[latest]
    /\ IsInjective(payouts)

\* The saved cursor never passes an order of the finalized branch that is not
\* paid: the relayer reads its own node block by block and never comes back.  A
\* node that is given another chain while it is being read may answer for two.
NoOrderPassed ==
    RelayerNode \notin resynced =>
        \A b \in PathTo[latest] \ {Genesis} :
            HeightOf[b] <= cursor => OrdersIn[b] \subseteq books.executed

BuriedAt(n, b) == b \in PathTo[tips[n]] /\ HeightOf[b] + Confirmations <= NodeHeight(n)

\* A quorum of nodes holds buried what the relayer's node does.
QuorumFollows ==
    \A b \in Tree : BuriedAt(RelayerNode, b)
                      => QuorumOf({c \in Cosigners : BuriedAt(c, b)})

\* When a quorum comes to follow the relayer's node, finality never stops short of
\* what is buried: a cosigner that finds the checkpoint in its chain, deep enough
\* and above the last one, signs it (docs/BRIDGE_V3_FINALITY.md:27-32).
BuriedIsFinalized ==
    <>[]QuorumFollows
      => []<>(\A b \in Blocks : BuriedAt(RelayerNode, b) => b \in PathTo[latest])
=============================================================================
