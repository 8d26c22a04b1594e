---------------------------- MODULE BridgeV3Proofs ----------------------------
(***************************************************************************)
(* Bridge V3 pays one history, for every tree of blocks, every set of       *)
(* cosigners, every threshold of more than half of them and every depth of  *)
(* confirmation.                                                            *)
(***************************************************************************)
EXTENDS BridgeV3, VaultOpsProofs, FiniteSetTheorems, SequenceTheorems

-----------------------------------------------------------------------------
(***************************************************************************)
(* The tree                                                                 *)
(***************************************************************************)

\* The chain that ends in a block has it, the parents of its members, and
\* nothing else.
LEMMA PathBasics ==
    ASSUME NEW b \in Tree
    PROVE  /\ PathTo[b] \subseteq Tree
           /\ b \in PathTo[b]
           /\ PathTo[b] \in Ancestral
           /\ \A S \in Ancestral : b \in S => PathTo[b] \subseteq S
<1>1. PathTo[b] = {a \in Tree : \A S \in Ancestral : b \in S => a \in S}
  BY DEF PathTo
<1>2. \A a \in PathTo[b] \cap Blocks : Parent[a] \in Tree
  BY BridgeV3Constants
<1>3. \A a \in PathTo[b] \cap Blocks : Parent[a] \in PathTo[b]
  BY <1>1, <1>2 DEF Ancestral
<1> QED BY <1>1, <1>3 DEF Ancestral

\* The chain of an ancestor is part of the chain.
LEMMA PathDown ==
    ASSUME NEW b \in Tree, NEW a \in PathTo[b]
    PROVE  PathTo[a] \subseteq PathTo[b]
BY PathBasics

\* The chain of a block is the block and the chain of its parent.
LEMMA PathStep ==
    ASSUME NEW b \in Blocks
    PROVE  /\ b \in Tree /\ Parent[b] \in Tree
           /\ PathTo[b] = {b} \cup PathTo[Parent[b]]
<1>1. b \in Tree /\ Parent[b] \in Tree
  BY BridgeV3Constants DEF Tree
<1> DEFINE S == {b} \cup PathTo[Parent[b]]
<1>2. S \in Ancestral
  BY <1>1, PathBasics DEF Ancestral
<1>3. PathTo[b] \subseteq S
  BY <1>1, <1>2, PathBasics
<1>4. Parent[b] \in PathTo[b]
  BY <1>1, PathBasics DEF Ancestral
<1>5. PathTo[Parent[b]] \subseteq PathTo[b]
  BY <1>1, <1>4, PathDown
<1> QED BY <1>1, <1>3, <1>5, PathBasics

\* Heights fall along a chain.
LEMMA PathHeights ==
    ASSUME NEW b \in Tree, NEW a \in PathTo[b]
    PROVE  /\ a \in Tree /\ HeightOf[a] \in Nat /\ HeightOf[b] \in Nat
           /\ a = b \/ HeightOf[a] < HeightOf[b]
<1> DEFINE S == {x \in Tree : x = b \/ HeightOf[x] < HeightOf[b]}
<1>1. \A x \in Tree : HeightOf[x] \in Nat
  BY BridgeV3Constants
<1>2. \A x \in Blocks : Parent[x] \in Tree /\ HeightOf[x] = HeightOf[Parent[x]] + 1
  BY BridgeV3Constants
<1>3. ASSUME NEW x \in S \cap Blocks PROVE Parent[x] \in S
  <2>1. HeightOf[Parent[x]] < HeightOf[x] /\ Parent[x] \in Tree
    BY <1>1, <1>2
  <2>2. x = b \/ HeightOf[x] < HeightOf[b]
    OBVIOUS
  <2> QED BY <2>1, <2>2, <1>1
<1>4. S \in Ancestral
  BY <1>3 DEF Ancestral
<1>5. a \in S
  BY <1>4, PathBasics
<1> QED BY <1>5, <1>1

\* A chain has one branch: of two of its blocks the lower is in the chain of the
\* higher.
LEMMA PathLinear ==
    ASSUME NEW b \in Tree, NEW x \in PathTo[b], NEW y \in PathTo[b],
           HeightOf[x] <= HeightOf[y]
    PROVE  x \in PathTo[y]
<1> DEFINE S == {u \in PathTo[b] : \A v \in PathTo[b] : u \in PathTo[v] \/ v \in PathTo[u]}
<1>1. PathTo[b] \subseteq Tree /\ PathTo[b] \in Ancestral
  BY PathBasics
<1>2. ASSUME NEW u \in S \cap Blocks PROVE Parent[u] \in S
  <2>1. Parent[u] \in PathTo[b]
    BY <1>1 DEF Ancestral
  <2>2. ASSUME NEW v \in PathTo[b]
        PROVE  Parent[u] \in PathTo[v] \/ v \in PathTo[Parent[u]]
    <3>1. CASE u \in PathTo[v]
      BY <3>1, <1>1, PathBasics DEF Ancestral
    <3>2. CASE v \in PathTo[u] /\ v = u
      BY <3>2, <1>1, PathBasics DEF Ancestral
    <3>3. CASE v \in PathTo[u] /\ v # u
      BY <3>3, PathStep
    <3> QED BY <3>1, <3>2, <3>3
  <2> QED BY <2>1, <2>2
<1>3. S \in Ancestral
  BY <1>1, <1>2 DEF Ancestral
<1>4. b \in S
  BY PathBasics
<1>5. x \in S
  BY <1>3, <1>4, PathBasics
<1>6. x \in PathTo[y] \/ y \in PathTo[x]
  BY <1>5
<1>7. ASSUME y \in PathTo[x] PROVE x = y
  BY <1>1, <1>7, PathHeights
<1> QED BY <1>6, <1>7, <1>1, PathBasics

\* Every chain starts at the root.
LEMMA PathRoot ==
    ASSUME NEW b \in Tree
    PROVE  Genesis \in PathTo[b]
<1> DEFINE S == {n \in Nat : \A x \in Tree : HeightOf[x] = n => Genesis \in PathTo[x]}
<1>1. \A x \in Blocks : /\ Parent[x] \in Tree /\ HeightOf[Parent[x]] \in Nat
                        /\ HeightOf[x] = HeightOf[Parent[x]] + 1
  BY BridgeV3Constants
<1>2. \A x \in Tree : x \in Blocks \/ x = Genesis
  BY DEF Tree
<1>3. \A x \in Tree : x = Genesis => Genesis \in PathTo[x]
  BY PathBasics
<1>4. 0 \in S
  BY <1>1, <1>2, <1>3
<1>5. ASSUME NEW n \in Nat, n \in S PROVE n + 1 \in S
  <2>1. ASSUME NEW x \in Blocks, HeightOf[x] = n + 1 PROVE Genesis \in PathTo[x]
    <3>1. HeightOf[Parent[x]] = n
      BY <2>1, <1>1
    <3>2. Genesis \in PathTo[Parent[x]]
      BY <3>1, <1>1, <1>5
    <3> QED BY <3>2, PathStep
  <2> QED BY <2>1, <1>2, <1>3
<1> HIDE DEF S
<1>6. Nat \subseteq S
  BY <1>4, <1>5, SetInduction
<1>7. HeightOf[b] \in S
  BY <1>6, BridgeV3Constants
<1> QED BY <1>7 DEF S

-----------------------------------------------------------------------------
(***************************************************************************)
(* Types                                                                    *)
(***************************************************************************)

\* What an order asks for is an amount, and so is its fee.
LEMMA OrderTyped ==
    ASSUME NEW o \in Orders
    PROVE  OrderAmount(o) \in Nat /\ OrderFee(o) \in Nat
<1>1. OrderGross[o] \in Nat /\ WithdrawBps \in Nat /\ WithdrawBps <= BpsOfWhole
  BY ContractConstants DEF BpsOfWhole
<1> QED BY <1>1, FeeIsPart DEF OrderAmount, OrderFee, NetOf

\* Paying an order keeps the books' shape.
LEMMA PaidTyped ==
    ASSUME NEW c \in Books, NEW o \in Orders, ContractPays(c, o)
    PROVE  /\ PaidByContract(c, o) \in Books
           /\ PaidByContract(c, o).executed = c.executed \cup {o}
<1>1. OrderAmount(o) \in Nat /\ OrderFee(o) \in Nat
  BY OrderTyped
<1>2. c.balance \in Nat /\ c.fees \in Nat /\ OrderAmount(o) <= c.balance
  BY DEF Books, ContractPays
<1>3. c.balance - OrderAmount(o) \in Nat /\ c.fees + OrderFee(o) \in Nat
  BY <1>1, <1>2
<1> QED BY <1>3 DEF PaidByContract, Books

\* A block of a node's chain, and its height.
LEMMA BlockAtTyped ==
    ASSUME TypeOK, NEW n \in Nodes, NEW h, NEW b \in BlockAt(n, h)
    PROVE  b \in PathTo[tips[n]] /\ b \in Tree /\ HeightOf[b] = h /\ h \in Nat
<1>1. tips[n] \in Tree
  BY DEF TypeOK
<1> QED BY <1>1, PathBasics, BridgeV3Constants DEF BlockAt

\* Heights are naturals, and only the root is at none.
LEMMA HeightsTyped ==
    ASSUME TypeOK
    PROVE  /\ \A b \in Tree : HeightOf[b] \in Nat
           /\ \A b \in Tree : HeightOf[b] > 0 <=> b \in Blocks
           /\ LatestHeight \in Nat
           /\ \A n \in Nodes : tips[n] \in Tree /\ NodeHeight(n) \in Nat
<1>1. \A b \in Tree : HeightOf[b] \in Nat
  BY BridgeV3Constants
<1>2. \A b \in Blocks : HeightOf[b] > 0
  BY <1>1, BridgeV3Constants DEF Tree
<1>3. \A b \in Tree : b \in Blocks \/ HeightOf[b] = 0
  BY BridgeV3Constants DEF Tree
<1>4. \A b \in Tree : HeightOf[b] > 0 <=> b \in Blocks
  BY <1>1, <1>2, <1>3
<1> QED BY <1>1, <1>4 DEF TypeOK, LatestHeight, NodeHeight

\* Typing needs to know that what is asked for is a request, and that the orders
\* to do come from blocks.
Shape ==
    /\ TypeOK
    /\ relayer.pc = "collect" => relayer.request \in Request
    /\ relayer.pc = "scan" => relayer.scan > 0
    /\ \A o \in relayer.todo : \E b \in Blocks : o \in OrdersIn[b]

\* At first everything has its shape.
LEMMA ShapeInit == Init => Shape
<1> SUFFICES ASSUME Init PROVE Shape
  OBVIOUS
<1>1. \E start \in Starts : tips = start.tips /\ left = start.left
  BY DEF Init
<1>2. tips \in [Nodes -> Tree] /\ left \in Bounds
  BY <1>1, BridgeV3Constants
<1>3. OnChainHash(Genesis) \in Hash
  BY DEF OnChainHash, Hash, Tree
<1>4. relayer \in Tick
  BY <1>3 DEF Init, Resting, Tick
<1>5. asked \in [Cosigners -> Stage]
  BY <1>3 DEF Init, NotAsked, Stage
<1>6. books \in Books
  BY BridgeV3Constants DEF Init, NewContract, Books
<1>7. TypeOK
  BY <1>2, <1>4, <1>5, <1>6 DEF Init, TypeOK, Tree
<1> QED BY <1>7 DEF Init, Shape, Resting

\* The block an order is in.
LEMMA BlockWithTyped ==
    ASSUME NEW b \in Blocks, NEW o \in OrdersIn[b]
    PROVE  BlockWith(o) = b /\ o \in Orders
<1>1. BlockWith(o) \in Blocks /\ o \in OrdersIn[BlockWith(o)]
  BY DEF BlockWith
<1>2. OrdersIn[BlockWith(o)] \cap OrdersIn[b] # {}
  BY <1>1
<1> QED BY <1>1, <1>2, BridgeV3Constants

\* A step that leaves the relayer resting, or as it was, keeps its shape.
LEMMA RestingTyped ==
    /\ OnChainHash(Genesis) \in Hash
    /\ Resting \in Tick /\ Withdrawals \in Tick /\ NotAsked \in Stage
    /\ [c \in Cosigners |-> NotAsked] \in [Cosigners -> Stage]
<1>1. OnChainHash(Genesis) \in Hash
  BY DEF OnChainHash, Hash, Tree
<1>2. Resting \in Tick
  BY <1>1 DEF Resting, Tick
<1>3. Withdrawals \in Tick
  BY <1>2 DEF Withdrawals, Tick
<1>4. NotAsked \in Stage
  BY <1>1 DEF NotAsked, Stage
<1> QED BY <1>1, <1>2, <1>3, <1>4

\* What L2 does keeps the shape.
LEMMA ShapeL2 ==
    ASSUME Shape, L2Executes \/ OwnerPauses \/ OwnerUnpauses
    PROVE  Shape'
<1> USE DEF Shape
<1>1. CASE L2Executes
  <2>1. PICK tx \in mempool :
          /\ mempool' = mempool \ {tx}
          /\ \/ /\ Accepted(tx)
                /\ \/ tx.request.kind = "checkpoint" /\ FinalizeCheckpoint(tx.request)
                   \/ tx.request.kind = "withdrawal" /\ Withdraw(tx.request)
             \/ ~ Accepted(tx) /\ UNCHANGED contract
    BY <1>1 DEF L2Executes
  <2>2. tx.request \in Request
    BY DEF TypeOK
  <2>3. UNCHANGED <<tips, relayer, asked, cursor, ghost>>
    BY <1>1 DEF L2Executes
  <2>4. /\ latest' \in Tree /\ books' \in Books
        /\ finalized' \in Seq(Blocks) /\ payouts' \in Seq(Orders)
    <3>1. CASE Accepted(tx) /\ tx.request.kind = "checkpoint" /\ FinalizeCheckpoint(tx.request)
      <4>1. tx.request \in CheckpointRequest
        BY <3>1, <2>2 DEF Request, WithdrawalRequest
      <4>2. tx.request.hash.block \in Tree
        BY <4>1 DEF CheckpointRequest, Hash
      <4>3. HeightOf[tx.request.hash.block] > LatestHeight
        BY <3>1 DEF Accepted, CheckpointOK
      <4>4. tx.request.hash.block \in Blocks
        BY <4>2, <4>3, HeightsTyped
      <4> QED BY <3>1, <4>2, <4>4 DEF FinalizeCheckpoint, TypeOK
    <3>2. CASE Accepted(tx) /\ tx.request.kind = "withdrawal" /\ Withdraw(tx.request)
      <4>1. tx.request \in WithdrawalRequest
        BY <3>2, <2>2 DEF Request, CheckpointRequest
      <4>2. tx.request.order \in Orders /\ ContractPays(books, tx.request.order)
        BY <4>1, <3>2 DEF WithdrawalRequest, Accepted, WithdrawalOK
      <4>3. PaidByContract(books, tx.request.order) \in Books
        BY <4>2, PaidTyped DEF TypeOK
      <4> QED BY <3>2, <4>2, <4>3 DEF Withdraw, TypeOK
    <3>3. CASE UNCHANGED contract
      BY <3>3 DEF contract, TypeOK
    <3> QED BY <3>1, <3>2, <3>3, <2>1
  <2> QED BY <2>1, <2>3, <2>4 DEF TypeOK, ghost
<1>2. CASE OwnerPauses
  <2>1. books' \in Books
    BY <1>2 DEF OwnerPauses, TypeOK, Books
  <2>2. left' \in Bounds
    <3>1. left \in Bounds /\ left.pauses > 0 /\ left' = [left EXCEPT !.pauses = @ - 1]
      BY <1>2 DEF OwnerPauses, TypeOK
    <3>2. left.pauses - 1 \in Nat
      BY <3>1 DEF Bounds
    <3> QED BY <3>1, <3>2 DEF Bounds
  <2> QED BY <1>2, <2>1, <2>2 DEF OwnerPauses, TypeOK
<1>3. CASE OwnerUnpauses
  <2>1. books' \in Books
    BY <1>3 DEF OwnerUnpauses, TypeOK, Books
  <2> QED BY <1>3, <2>1 DEF OwnerUnpauses, TypeOK, ghost
<1> QED BY <1>1, <1>2, <1>3

\* What the nodes do keeps the shape.
LEMMA ShapeNodes ==
    ASSUME Shape, NEW n \in Nodes, NodeMoves(n) \/ NodeResyncs(n)
    PROVE  Shape'
<1> USE DEF Shape
<1>b. left \in Bounds
  BY DEF TypeOK
<1>1. left' \in Bounds
  <2>1. CASE NodeMoves(n)
    <3>1. left' = [left EXCEPT !.moves = @ - 1] /\ left.moves > 0
      BY <2>1 DEF NodeMoves
    <3> QED BY <1>b, <3>1 DEF Bounds
  <2>2. CASE NodeResyncs(n)
    <3>1. left' = [left EXCEPT !.resyncs = @ - 1] /\ left.resyncs > 0
      BY <2>2 DEF NodeResyncs
    <3> QED BY <1>b, <3>1 DEF Bounds
  <2> QED BY <2>1, <2>2
<1>2. tips' \in [Nodes -> Tree]
  BY DEF NodeMoves, NodeResyncs, TypeOK, Tree
<1>3. resynced' \subseteq Nodes
  BY DEF NodeMoves, NodeResyncs, TypeOK
<1>4. UNCHANGED <<contract, mempool, relayer, asked, cursor>>
  BY DEF NodeMoves, NodeResyncs
<1> QED BY <1>1, <1>2, <1>3, <1>4 DEF TypeOK, contract

\* What the cosigners do keeps the shape.
LEMMA ShapeCosigners ==
    ASSUME Shape, NEW c \in Cosigners, Cosigns(c) \/ CosignerFails(c)
    PROVE  Shape'
<1> USE DEF Shape
<1>1. /\ UNCHANGED <<tips, contract, mempool, relayer, cursor, resynced>>
      /\ \/ UNCHANGED left
         \/ left' = [left EXCEPT !.faults = @ - 1] /\ left.faults > 0
  <2>1. CASE CosignerFails(c)
    BY <2>1 DEF CosignerFails
  <2>2. CASE Cosigns(c)
    <3>1. \A pc, ok, next : CosignerReads(c, pc, ok, next)
                            => UNCHANGED <<tips, contract, mempool, relayer, cursor, ghost>>
      BY DEF CosignerReads
    <3>2. UNCHANGED <<tips, contract, mempool, relayer, cursor, ghost>>
      BY <2>2, <3>1
      DEF Cosigns, CosignerReadsHeight, CosignerReadsHash, CosignerReadsStatus,
          CosignerReadsCandidate, CosignerReadsAncestor, CosignerReadsCheckpoint,
          CosignerReadsBlock
    <3> QED BY <3>2 DEF ghost
  <2> QED BY <2>1, <2>2
<1>2. left' \in Bounds
  BY <1>1 DEF TypeOK, Bounds
<1>3. asked' \in [Cosigners -> Stage]
  <2>1. asked[c] \in Stage /\ LatestHeight \in Nat /\ OnChainHash(latest) \in Hash
    BY HeightsTyped DEF TypeOK, OnChainHash, Hash
  <2>2. ASSUME NEW a, asked' = [asked EXCEPT ![c] = a], a \in Stage
        PROVE  asked' \in [Cosigners -> Stage]
    BY <2>2 DEF TypeOK
  <2>3. ASSUME NEW pc, NEW ok, NEW next, CosignerReads(c, pc, ok, next),
               next \in {"candidate", "ancestor", "signed", "block"}
        PROVE  asked' \in [Cosigners -> Stage]
    <3>1. [asked[c] EXCEPT !.pc = IF ok THEN next ELSE "refused"] \in Stage
      BY <2>1, <2>3 DEF Stage
    <3> QED BY <3>1, <2>2, <2>3 DEF CosignerReads
  <2>4. CASE CosignerReadsHeight(c)
    <3>1. [asked[c] EXCEPT !.pc = "hash", !.height = LatestHeight] \in Stage
      BY <2>1 DEF Stage
    <3> QED BY <3>1, <2>2, <2>4 DEF CosignerReadsHeight
  <2>5. CASE CosignerReadsHash(c)
    <3>1. \A pc \in {"refused", "status", "checkpoint"} :
            [asked[c] EXCEPT !.pc = pc, !.hash = OnChainHash(latest)] \in Stage
      BY <2>1 DEF Stage
    <3> DEFINE pc == IF ~ Current(relayer.request, asked[c].height) THEN "refused"
                     ELSE IF relayer.request.kind = "checkpoint" THEN "status"
                     ELSE "checkpoint"
    <3>2. pc \in {"refused", "status", "checkpoint"}
      OBVIOUS
    <3>3. asked' = [asked EXCEPT ![c].pc = pc, ![c].hash = OnChainHash(latest)]
      BY <2>5 DEF CosignerReadsHash
    <3> HIDE DEF pc
    <3>4. asked' = [asked EXCEPT ![c] = [asked[c] EXCEPT !.pc = pc, !.hash = OnChainHash(latest)]]
      BY <3>3 DEF TypeOK
    <3> QED BY <3>1, <3>2, <3>4, <2>2
  <2>6. CASE CosignerFails(c)
    <3>1. [asked[c] EXCEPT !.pc = "refused"] \in Stage
      BY <2>1 DEF Stage
    <3> QED BY <3>1, <2>2, <2>6 DEF CosignerFails
  <2>7. CASE CosignerReadsStatus(c)
    BY <2>7, <2>3 DEF CosignerReadsStatus
  <2>8. CASE CosignerReadsCandidate(c)
    BY <2>8, <2>3 DEF CosignerReadsCandidate
  <2>9. CASE CosignerReadsAncestor(c)
    BY <2>9, <2>3 DEF CosignerReadsAncestor
  <2>10. CASE CosignerReadsCheckpoint(c)
    BY <2>10, <2>3 DEF CosignerReadsCheckpoint
  <2>11. CASE CosignerReadsBlock(c)
    BY <2>11, <2>3 DEF CosignerReadsBlock
  <2> QED BY <2>4, <2>5, <2>6, <2>7, <2>8, <2>9, <2>10, <2>11 DEF Cosigns
<1> QED BY <1>1, <1>2, <1>3 DEF TypeOK, contract

\* What the relayer does alone, from one await to the next.
LEMMA ShapeTick ==
    ASSUME Shape, NEW t \in Tick, t.pc # "collect",
           t.pc = "scan" => t.scan > 0,
           \A o \in t.todo : \E b \in Blocks : o \in OrdersIn[b],
           relayer' = t,
           UNCHANGED <<tips, contract, mempool, asked, cursor, ghost>>
    PROVE  Shape'
BY DEF Shape, TypeOK, contract, ghost

\* Asking the cosigners for a signature.
LEMMA ShapeCollect ==
    ASSUME Shape, NEW r \in Request, Collect(r),
           UNCHANGED <<tips, contract, mempool, cursor, ghost>>
    PROVE  Shape'
<1>1. relayer' = [relayer EXCEPT !.pc = "collect", !.request = r]
  BY DEF Collect
<1>2. relayer' \in Tick /\ relayer'.pc = "collect" /\ relayer'.request = r
      /\ relayer'.todo = relayer.todo
  BY <1>1 DEF Shape, TypeOK, Tick
<1>3. [NotAsked EXCEPT !.pc = "height"] \in Stage
  BY RestingTyped DEF Stage
<1>4. asked' \in [Cosigners -> Stage]
  BY <1>3 DEF Collect
<1>5. TypeOK'
  BY <1>2, <1>4 DEF Shape, TypeOK, contract, ghost
<1> QED BY <1>2, <1>5 DEF Shape

\* The relayer's requests are requests.
LEMMA RequestsTyped ==
    /\ \A b \in Tree : NodeHash(b) \in Hash /\ OnChainHash(b) \in Hash
    /\ \A h \in Hash, g \in Hash :
         [kind |-> "checkpoint", hash |-> h, parent |-> g] \in Request
    /\ \A o \in Orders, h \in Hash, g \in Hash :
         [kind |-> "withdrawal", order |-> o, hash |-> h, checkpoint |-> g] \in Request
<1>1. \A b \in Tree : NodeHash(b) \in Hash /\ OnChainHash(b) \in Hash
  BY BridgeV3Constants DEF NodeHash, OnChainHash, Hash
<1>2. \A h \in Hash, g \in Hash :
         [kind |-> "checkpoint", hash |-> h, parent |-> g] \in CheckpointRequest
  BY DEF CheckpointRequest
<1>3. \A o \in Orders, h \in Hash, g \in Hash :
         [kind |-> "withdrawal", order |-> o, hash |-> h, checkpoint |-> g] \in WithdrawalRequest
  BY DEF WithdrawalRequest
<1> QED BY <1>1, <1>2, <1>3 DEF Request

\* What the relayer does keeps the shape.
LEMMA ShapeRelayer ==
    ASSUME Shape, Relays \/ RelayerRestarts
    PROVE  Shape'
<1>t. /\ relayer \in Tick /\ LatestHeight \in Nat /\ cursor \in Nat
      /\ asked \in [Cosigners -> Stage] /\ latest \in Tree
      /\ OnChainHash(latest) \in Hash
      /\ \A o \in relayer.todo : \E b \in Blocks : o \in OrdersIn[b]
      /\ Resting \in Tick /\ Withdrawals \in Tick
      /\ Resting.todo = {} /\ Withdrawals.todo = {}
      /\ Resting.pc = "idle" /\ Withdrawals.pc = "height"
  BY RestingTyped, RequestsTyped, HeightsTyped DEF Shape, TypeOK, Resting, Withdrawals
<1>1. CASE RelayerTicks
  <2>1. Target \in Int
    BY BridgeV3Constants, HeightsTyped DEF Shape, Target, Nodes
  <2>2. Target > 0 => [Resting EXCEPT !.pc = "latest", !.target = Target] \in Tick
    <3> DEFINE n == Target
    <3>1. n > 0 => n \in Nat
      BY <2>1
    <3> HIDE DEF n
    <3>2. n > 0 => [Resting EXCEPT !.pc = "latest", !.target = n] \in Tick
      BY <3>1, <1>t DEF Tick
    <3> QED BY <3>2 DEF n
  <2>3. CASE Target > 0
    <3>1. relayer' = [Resting EXCEPT !.pc = "latest", !.target = Target]
      BY <2>3, <1>1 DEF RelayerTicks, RelayerGoes
    <3>2. relayer'.pc = "latest" /\ relayer'.todo = {}
      BY <3>1, <1>t DEF Resting
    <3> QED BY <3>1, <3>2, <2>2, <2>3, <1>1, ShapeTick DEF RelayerTicks, RelayerGoes
  <2>4. CASE ~ (Target > 0)
    BY <2>4, <1>1, <1>t, ShapeTick DEF RelayerTicks, RelayerGoes
  <2> QED BY <2>3, <2>4
<1>2. CASE RelayerReadsLatest
  <2>1. [relayer EXCEPT !.pc = "parent"] \in Tick
    BY <1>t DEF Tick
  <2>2. [relayer EXCEPT !.pc = "parent"].pc = "parent"
        /\ [relayer EXCEPT !.pc = "parent"].todo = relayer.todo
    BY <1>t DEF Tick
  <2> QED BY <2>1, <2>2, <1>2, <1>t, ShapeTick DEF RelayerReadsLatest, RelayerGoes
<1>3. CASE RelayerReadsParent
  <2> DEFINE t == [relayer EXCEPT !.pc = "target", !.hash = OnChainHash(latest)]
  <2>1. t \in Tick /\ t.pc = "target" /\ t.todo = relayer.todo
    BY <1>t DEF Tick
  <2> QED BY <2>1, <1>3, <1>t, ShapeTick DEF RelayerReadsParent, RelayerGoes
<1>4. CASE RelayerReadsTarget
  <2>1. CASE UNCHANGED asked /\ relayer' = Resting
    BY <2>1, <1>4, <1>t, ShapeTick DEF RelayerReadsTarget
  <2>2. ASSUME NEW b \in ReadBlock(relayer.target),
               Collect([kind |-> "checkpoint", hash |-> NodeHash(b), parent |-> relayer.hash])
        PROVE  Shape'
    <3>1. b \in Tree /\ relayer.hash \in Hash
      BY BlockAtTyped, <1>t DEF ReadBlock, Shape, Tick, Nodes
    <3> QED BY <3>1, <2>2, <1>4, RequestsTyped, ShapeCollect DEF RelayerReadsTarget
  <2> QED BY <2>1, <2>2, <1>4 DEF RelayerReadsTarget, GiveUp
<1>5. CASE RelayerSends
  <2>1. relayer.request \in Request
    BY <1>5 DEF Shape, RelayerSends
  <2>2. mempool' \subseteq [request : Request, signers : SUBSET Cosigners]
    BY <1>5, <2>1 DEF RelayerSends, Signed, Shape, TypeOK
  <2>3. asked' \in [Cosigners -> Stage]
    BY <1>5, RestingTyped DEF RelayerSends
  <2>4. [relayer EXCEPT !.pc = "wait"] \in Tick
        /\ [relayer EXCEPT !.pc = "wait"].pc = "wait"
        /\ [relayer EXCEPT !.pc = "wait"].todo = relayer.todo
    BY <1>t DEF Tick
  <2>5. relayer' = [relayer EXCEPT !.pc = "wait"] \/ relayer' = Resting
    BY <1>5 DEF RelayerSends, GiveUp
  <2>6. /\ relayer' \in Tick /\ relayer'.pc \in {"wait", "idle"}
        /\ \A o \in relayer'.todo : \E b \in Blocks : o \in OrdersIn[b]
    BY <2>4, <2>5, <1>t
  <2>7. UNCHANGED <<tips, contract, cursor, ghost>>
    BY <1>5 DEF RelayerSends
  <2> QED BY <2>2, <2>3, <2>6, <2>7 DEF Shape, TypeOK, contract, ghost
<1>6. CASE RelayerConfirms
  <2> DEFINE t == [relayer EXCEPT !.pc = "orders", !.request = NoRequest,
                                  !.todo = @ \ {relayer.request.order}]
  <2>1. t \in Tick /\ t.pc = "orders" /\ t.todo \subseteq relayer.todo
    BY <1>t DEF Tick
  <2>2. relayer' \in {Withdrawals, t, Resting}
    BY <1>6 DEF RelayerConfirms, GiveUp
  <2> HIDE DEF t
  <2> QED BY <2>1, <2>2, <1>6, <1>t, ShapeTick DEF RelayerConfirms
<1>7. CASE RelayerReadsHeight
  <2> DEFINE t == [relayer EXCEPT !.pc = "hash", !.height = LatestHeight]
  <2>1. t \in Tick /\ t.pc = "hash" /\ t.todo = relayer.todo
    BY <1>t DEF Tick
  <2> QED BY <2>1, <1>7, <1>t, ShapeTick DEF RelayerReadsHeight, RelayerGoes
<1>8. CASE RelayerReadsHash
  <2> DEFINE t == [relayer EXCEPT !.pc = "local", !.hash = OnChainHash(latest)]
  <2>1. t \in Tick /\ t.pc = "local" /\ t.todo = relayer.todo
    BY <1>t DEF Tick
  <2>2. relayer' \in {t, Resting}
    BY <1>8 DEF RelayerReadsHash, RelayerGoes
  <2> HIDE DEF t
  <2> QED BY <2>1, <2>2, <1>8, <1>t, ShapeTick DEF RelayerReadsHash, RelayerGoes
<1>9. CASE RelayerChecksLocal
  <2> DEFINE n == cursor + 1
             t == [relayer EXCEPT !.pc = "scan", !.scan = n]
  <2>1. n \in Nat /\ n > 0 /\ RelayerGoes("local", IF NodeSays(RelayerNode, relayer.height, relayer.hash)
                                                    THEN t ELSE Resting)
    BY <1>t, <1>9 DEF RelayerChecksLocal
  <2> HIDE DEF n
  <2>3. t \in Tick /\ t.pc = "scan" /\ t.todo = relayer.todo /\ t.scan = n
    BY <2>1, <1>t DEF Tick
  <2>2. relayer' \in {t, Resting}
    BY <2>1 DEF RelayerGoes
  <2> HIDE DEF t
  <2> QED BY <2>1, <2>2, <2>3, <1>t, ShapeTick DEF RelayerGoes
<1>10. CASE RelayerScans
  <2>1. relayer.scan > 0
    BY <1>10 DEF RelayerScans, RelayerGoes, Shape
  <2>2. ASSUME NEW b \in ReadBlock(relayer.scan),
               RelayerGoes("scan", [relayer EXCEPT !.pc = "orders", !.todo = OrdersIn[b]])
        PROVE  Shape'
    <3>1. b \in Tree /\ HeightOf[b] > 0
      BY <2>1, BlockAtTyped DEF ReadBlock, Shape, Nodes
    <3>2. b \in Blocks
      BY <3>1, HeightsTyped DEF Shape
    <3>3. OrdersIn[b] \in SUBSET Orders
      BY <3>2, BridgeV3Constants
    <3> DEFINE t == [relayer EXCEPT !.pc = "orders", !.todo = OrdersIn[b]]
    <3>4. t \in Tick /\ t.pc = "orders" /\ t.todo = OrdersIn[b]
      BY <3>3, <1>t DEF Tick
    <3> QED BY <3>2, <3>4, <2>2, ShapeTick DEF RelayerGoes
  <2>3. CASE RelayerGoes("scan", Resting)
    BY <2>3, <1>t, ShapeTick DEF RelayerGoes
  <2> QED BY <2>2, <2>3, <1>10 DEF RelayerScans
<1>11. CASE RelayerTakesOrder
  <2>1. PICK o \in relayer.todo :
          \/ /\ o \in books.executed
             /\ relayer' = [relayer EXCEPT !.todo = @ \ {o}]
             /\ UNCHANGED asked
          \/ GiveUp /\ UNCHANGED asked
          \/ Collect([kind |-> "withdrawal", order |-> o, hash |-> NodeHash(BlockWith(o)),
                      checkpoint |-> relayer.hash])
    BY <1>11 DEF RelayerTakesOrder
  <2>2. CASE relayer' = [relayer EXCEPT !.todo = @ \ {o}] /\ UNCHANGED asked
    <3> DEFINE t == [relayer EXCEPT !.todo = @ \ {o}]
    <3>1. t \in Tick /\ t.pc = relayer.pc /\ t.todo \subseteq relayer.todo
      BY <1>t DEF Tick
    <3> QED BY <3>1, <2>2, <1>11, <1>t, ShapeTick DEF RelayerTakesOrder
  <2>3. CASE Collect([kind |-> "withdrawal", order |-> o, hash |-> NodeHash(BlockWith(o)),
                      checkpoint |-> relayer.hash])
    <3>1. BlockWith(o) \in Tree /\ o \in Orders /\ relayer.hash \in Hash
      BY <1>t, BlockWithTyped DEF Tick, Tree
    <3> QED BY <3>1, <2>3, <1>11, RequestsTyped, ShapeCollect DEF RelayerTakesOrder
  <2>4. CASE relayer' = Resting /\ UNCHANGED asked
    BY <2>4, <1>11, <1>t, ShapeTick DEF RelayerTakesOrder
  <2> QED BY <2>1, <2>2, <2>3, <2>4 DEF GiveUp
<1>12. CASE RelayerSaves
  <2> DEFINE n == relayer.scan + 1
             t == [relayer EXCEPT !.pc = "scan", !.scan = n]
  <2>1. relayer.scan \in Nat
    BY <1>t DEF Tick
  <2>2. n \in Nat /\ n > 0
    BY <2>1
  <2>3. relayer' = t /\ cursor' = relayer.scan
        /\ UNCHANGED <<tips, contract, mempool, asked, ghost>>
    BY <1>12 DEF RelayerSaves
  <2> HIDE DEF n
  <2>4. t \in Tick /\ t.pc = "scan" /\ t.todo = relayer.todo /\ t.scan = n
    BY <2>2, <1>t DEF Tick
  <2> HIDE DEF t
  <2> QED BY <2>1, <2>2, <2>3, <2>4, <1>t DEF Shape, TypeOK, contract, ghost
<1>13. CASE RelayerRestarts
  <2>1. left' \in Bounds
    <3>1. left.restarts - 1 \in Nat
      BY <1>13 DEF RelayerRestarts, Shape, TypeOK, Bounds
    <3> QED BY <3>1, <1>13 DEF RelayerRestarts, Shape, TypeOK, Bounds
  <2>2. asked' \in [Cosigners -> Stage] /\ cursor' \in Nat /\ relayer' = Resting
        /\ UNCHANGED <<tips, contract, mempool, resynced>>
    BY <1>13, <1>t, RestingTyped DEF RelayerRestarts, GiveUp
  <2> QED BY <2>1, <2>2, <1>t DEF Shape, TypeOK, contract
<1> QED BY <1>1, <1>2, <1>3, <1>4, <1>5, <1>6, <1>7, <1>8, <1>9, <1>10, <1>11, <1>12, <1>13
        DEF Relays

\* No step spoils it.
LEMMA ShapeNext == Shape /\ [Next]_vars => Shape'
<1> SUFFICES ASSUME Shape, [Next]_vars PROVE Shape'
  OBVIOUS
<1>1. CASE Next
  BY <1>1, ShapeNodes, ShapeL2, ShapeCosigners, ShapeRelayer DEF Next
<1>2. CASE UNCHANGED vars
  BY <1>2 DEF vars, ghost, Shape, TypeOK
<1> QED BY <1>1, <1>2

\* The relayer, the contract and the cosigners' requests keep their shape.
THEOREM TypeInvariant == Spec => []TypeOK
<1>1. Shape => TypeOK
  BY DEF Shape
<1> QED BY <1>1, ShapeInit, ShapeNext, PTL DEF Spec

-----------------------------------------------------------------------------
(***************************************************************************)
(* The inductive invariant                                                  *)
(***************************************************************************)

\* A node has a block under its tip: there it stays unless the node is given
\* another chain.
Buried(n, b) == b \in PathTo[tips[n]] /\ HeightOf[b] < NodeHeight(n)

\* The checkpoints so far.
Past == {Genesis} \cup ToSet(finalized)

\* Checkpoints rise, and a quorum has each buried, those given another chain aside.
Holders(Q, b) == QuorumOf(Q) /\ \A c \in Q \ resynced : Buried(c, b)

Finality ==
    /\ latest \in Past
    /\ \A p \in Past : p = latest \/ HeightOf[p] < LatestHeight
    /\ \A p \in Past \ {Genesis} : \E Q \in SUBSET Cosigners : Holders(Q, p)

\* A request names a checkpoint that was, and a withdrawal the block of its order.
RequestOK(r) ==
    /\ r \in Request
    /\ r.kind = "checkpoint" => r.parent.block \in Past
    /\ r.kind = "withdrawal" => /\ r.checkpoint.block \in Past
                                /\ r.hash.block \in Blocks
                                /\ r.order \in OrdersIn[r.hash.block]

\* What a cosigner that was not given another chain vouches for with a checkpoint.
Vouches(c, r) ==
    c \notin resynced => Buried(c, r.hash.block) /\ r.parent.block \in PathTo[r.hash.block]

\* A withdrawal from under the checkpoint; from elsewhere, some quorum will not
\* sign, those given another chain aside.
FromUnder(r) == r.checkpoint.block = Genesis \/ r.hash.block \in PathTo[r.checkpoint.block]

Declined(r, signers) ==
    \E Q \in SUBSET Cosigners : QuorumOf(Q) /\ (Q \ resynced) \cap signers = {}

\* A cosigner asked about a checkpoint: what it has read so far is so.
AskedCheckpoint(c, r) ==
    /\ asked[c].pc \notin {"checkpoint", "block"}
    /\ asked[c].pc = "hash" => /\ HeightOf[r.parent.block] <= asked[c].height
                               /\ asked[c].height <= LatestHeight
    /\ asked[c].pc \in {"status", "candidate", "ancestor"} =>
          /\ asked[c].height = HeightOf[r.parent.block]
          /\ asked[c].hash.block = r.parent.block
          /\ HeightOf[r.parent.block] < HeightOf[r.hash.block]
    /\ asked[c].pc = "candidate" /\ c \notin resynced => HeightOf[r.hash.block] < NodeHeight(c)
    /\ asked[c].pc = "ancestor" /\ c \notin resynced => Buried(c, r.hash.block)
    /\ asked[c].pc = "signed" => Vouches(c, r)

\* A cosigner asked about a withdrawal.
AskedWithdrawal(c, r) ==
    /\ asked[c].pc \notin {"status", "candidate", "ancestor"}
    /\ asked[c].pc \in {"checkpoint", "block"} =>
          HeightOf[r.hash.block] <= HeightOf[r.checkpoint.block]

\* Those who have the checkpoint buried do not sign for a block beside it.
Declining(r) ==
    \E Q \in SUBSET Cosigners :
        Holders(Q, r.checkpoint.block) /\ \A c \in Q \ resynced : asked[c].pc # "signed"

Collecting ==
    /\ relayer.hash.block \in Past
    /\ relayer.pc # "collect" => \A c \in Cosigners : asked[c].pc = "none"
    /\ relayer.pc = "collect" =>
          \A r \in {relayer.request} :
              /\ RequestOK(r)
              /\ r.kind = "checkpoint" => \A c \in Cosigners : AskedCheckpoint(c, r)
              /\ r.kind = "withdrawal" => /\ \A c \in Cosigners : AskedWithdrawal(c, r)
                                          /\ FromUnder(r) \/ Declining(r)

\* What was sent to L2, before a restart of the relayer or after.
Sent ==
    \A tx \in mempool :
        /\ RequestOK(tx.request)
        /\ tx.request.kind = "checkpoint" => \A c \in tx.signers : Vouches(c, tx.request)
        /\ tx.request.kind = "withdrawal" =>
              FromUnder(tx.request) \/ Declined(tx.request, tx.signers)

\* OneHistory, and that the contract remembers what it paid.
History ==
    /\ OneHistory
    /\ ~ QuorumOf(resynced \cap Cosigners) => \A p \in Past : p \in PathTo[latest]
    /\ ToSet(payouts) \subseteq books.executed
    /\ \A o \in ToSet(payouts) : \E b \in Blocks : o \in OrdersIn[b]

OneHistoryInv == Shape /\ Finality /\ Collecting /\ Sent /\ History

-----------------------------------------------------------------------------
(***************************************************************************)
(* What no step takes back                                                  *)
(***************************************************************************)

\* Of the nodes that keep their data: what is buried stays, and chains do not
\* get shorter.
NodesKeep ==
    /\ resynced \subseteq resynced'
    /\ \A n \in Nodes \ resynced' :
          /\ NodeHeight(n) <= NodeHeight(n)'
          /\ \A b : Buried(n, b) => Buried(n, b)'

\* Of the contract: checkpoints, their height, and payments.
ContractKeeps ==
    /\ Past \subseteq Past'
    /\ LatestHeight <= LatestHeight'
    /\ books.executed \subseteq books'.executed

\* A tip that gives way to another block takes nothing buried with it.
LEMMA MovesKeep ==
    ASSUME TypeOK, NEW n \in Nodes, NodeMoves(n)
    PROVE  NodesKeep
<1>1. PICK t \in Blocks :
        /\ \/ Parent[t] = tips[n]
           \/ tips[n] \in Blocks /\ Parent[t] = Parent[tips[n]]
        /\ tips' = [tips EXCEPT ![n] = t]
  BY DEF NodeMoves
<1>2. resynced' = resynced
  BY DEF NodeMoves
<1>3. /\ tips[n] \in Tree /\ HeightOf[tips[n]] \in Nat /\ HeightOf[t] \in Nat
      /\ tips'[n] = t /\ \A m \in Nodes \ {n} : tips'[m] = tips[m]
  BY <1>1, HeightsTyped DEF TypeOK, Tree
<1>4. /\ HeightOf[tips[n]] <= HeightOf[t]
      /\ \A b \in PathTo[tips[n]] : HeightOf[b] < HeightOf[tips[n]]
                                      => b \in PathTo[t] /\ HeightOf[b] < HeightOf[t]
  <2>1. CASE Parent[t] = tips[n]
    <3>1. HeightOf[t] = HeightOf[tips[n]] + 1
      BY <2>1, BridgeV3Constants
    <3>2. PathTo[tips[n]] \subseteq PathTo[t]
      BY <2>1, PathStep
    <3>3. \A b \in PathTo[tips[n]] : HeightOf[b] \in Nat
      BY <1>3, PathHeights
    <3> QED BY <3>1, <3>2, <3>3, <1>3
  <2>2. CASE tips[n] \in Blocks /\ Parent[t] = Parent[tips[n]]
    <3>1. HeightOf[t] = HeightOf[tips[n]]
      BY <2>2, BridgeV3Constants
    <3>2. \A b \in PathTo[tips[n]] : b = tips[n] \/ b \in PathTo[t]
      BY <2>2, PathStep
    <3> QED BY <3>1, <3>2, <1>3
  <2> QED BY <1>1, <2>1, <2>2
<1>5. ASSUME NEW m \in Nodes
      PROVE  /\ NodeHeight(m) <= NodeHeight(m)'
             /\ \A b : Buried(m, b) => Buried(m, b)'
  <2>1. NodeHeight(m)' = HeightOf[tips'[m]] /\ NodeHeight(m) = HeightOf[tips[m]]
    BY DEF NodeHeight
  <2>2. \A b : Buried(m, b)' <=> b \in PathTo[tips'[m]] /\ HeightOf[b] < HeightOf[tips'[m]]
    BY <2>1 DEF Buried
  <2>3. \A b : Buried(m, b) <=> b \in PathTo[tips[m]] /\ HeightOf[b] < HeightOf[tips[m]]
    BY <2>1 DEF Buried
  <2>4. CASE m = n
    BY <2>1, <2>2, <2>3, <2>4, <1>3, <1>4
  <2>5. CASE m # n
    BY <2>1, <2>2, <2>3, <2>5, <1>3, HeightsTyped
  <2> QED BY <2>4, <2>5
<1> QED BY <1>2, <1>5 DEF NodesKeep

\* A node that is given another chain is on the list.
LEMMA ResyncsKeep ==
    ASSUME TypeOK, NEW n \in Nodes, NodeResyncs(n)
    PROVE  NodesKeep
<1>1. resynced' = resynced \cup {n}
  BY DEF NodeResyncs
<1>2. \A m \in Nodes \ {n} : tips'[m] = tips[m]
  BY DEF NodeResyncs, TypeOK
<1>3. \A m \in Nodes \ {n} : NodeHeight(m)' = NodeHeight(m) /\ NodeHeight(m) \in Nat
  BY <1>2, HeightsTyped DEF NodeHeight
<1> QED BY <1>1, <1>2, <1>3 DEF NodesKeep, Buried

\* Where no chain moves, all chains keep what they have.
LEMMA StillKeeps ==
    ASSUME TypeOK, UNCHANGED <<tips, resynced>>
    PROVE  NodesKeep
<1>1. \A m \in Nodes : NodeHeight(m)' = NodeHeight(m) /\ NodeHeight(m) \in Nat
  BY HeightsTyped DEF NodeHeight
<1> QED BY <1>1 DEF NodesKeep, Buried

\* What a transaction does on L2: it finalizes a checkpoint, pays an order, or
\* reverts.
LEMMA L2Cases ==
    ASSUME Shape, L2Executes
    PROVE  /\ UNCHANGED <<tips, relayer, asked, cursor, left, resynced>>
           /\ \E tx \in mempool :
                /\ mempool' = mempool \ {tx}
                /\ tx.request \in Request /\ tx.signers \subseteq Cosigners
                /\ \/ /\ tx.request.kind = "checkpoint" /\ QuorumOf(tx.signers)
                      /\ tx.request.parent.block = latest
                      /\ tx.request.hash.block \in Blocks
                      /\ HeightOf[tx.request.hash.block] > LatestHeight
                      /\ latest' = tx.request.hash.block
                      /\ finalized' = Append(finalized, tx.request.hash.block)
                      /\ UNCHANGED <<books, payouts>>
                   \/ /\ tx.request.kind = "withdrawal" /\ QuorumOf(tx.signers)
                      /\ tx.request.checkpoint.block = latest
                      /\ latest # Genesis
                      /\ tx.request.order \in Orders \ books.executed
                      /\ books'.executed = books.executed \cup {tx.request.order}
                      /\ payouts' = Append(payouts, tx.request.order)
                      /\ UNCHANGED <<latest, finalized>>
                   \/ UNCHANGED contract
<1>1. PICK tx \in mempool :
        /\ mempool' = mempool \ {tx}
        /\ \/ /\ Accepted(tx)
              /\ \/ tx.request.kind = "checkpoint" /\ FinalizeCheckpoint(tx.request)
                 \/ tx.request.kind = "withdrawal" /\ Withdraw(tx.request)
           \/ ~ Accepted(tx) /\ UNCHANGED contract
  BY DEF L2Executes
<1>2. tx.request \in Request /\ tx.signers \subseteq Cosigners
  BY DEF Shape, TypeOK
<1>3. UNCHANGED <<tips, relayer, asked, cursor, left, resynced>>
  BY DEF L2Executes, ghost
<1>4. ASSUME Accepted(tx), tx.request.kind = "checkpoint", FinalizeCheckpoint(tx.request)
      PROVE  /\ QuorumOf(tx.signers)
             /\ tx.request.parent.block = latest
             /\ tx.request.hash.block \in Blocks
             /\ HeightOf[tx.request.hash.block] > LatestHeight
  <2>1. tx.request \in CheckpointRequest
    BY <1>2, <1>4 DEF Request, WithdrawalRequest
  <2>2. tx.request.hash.block \in Tree
    BY <2>1 DEF CheckpointRequest, Hash
  <2>3. QuorumOf(tx.signers) /\ CheckpointOK(tx.request)
    BY <1>4 DEF Accepted
  <2>4. HeightOf[tx.request.hash.block] > LatestHeight
        /\ tx.request.parent = OnChainHash(latest)
    BY <2>3 DEF CheckpointOK
  <2>5. tx.request.hash.block \in Blocks
    BY <2>2, <2>4, HeightsTyped DEF Shape
  <2> QED BY <2>3, <2>4, <2>5 DEF OnChainHash
<1>5. ASSUME Accepted(tx), tx.request.kind = "withdrawal", Withdraw(tx.request)
      PROVE  /\ QuorumOf(tx.signers)
             /\ tx.request.checkpoint.block = latest
             /\ latest # Genesis
             /\ tx.request.order \in Orders \ books.executed
             /\ books'.executed = books.executed \cup {tx.request.order}
  <2>1. tx.request \in WithdrawalRequest
    BY <1>2, <1>5 DEF Request, CheckpointRequest
  <2>2. tx.request.order \in Orders
    BY <2>1 DEF WithdrawalRequest
  <2>3. QuorumOf(tx.signers) /\ WithdrawalOK(tx.request)
    BY <1>5 DEF Accepted
  <2>4. ContractPays(books, tx.request.order) /\ LatestHeight > 0
        /\ tx.request.checkpoint = OnChainHash(latest)
    BY <2>3 DEF WithdrawalOK
  <2>5. latest # Genesis
    BY <2>4, BridgeV3Constants DEF LatestHeight
  <2>6. books' = PaidByContract(books, tx.request.order)
    BY <1>5 DEF Withdraw
  <2>7. books'.executed = books.executed \cup {tx.request.order}
    BY <2>2, <2>4, <2>6, PaidTyped DEF Shape, TypeOK
  <2> QED BY <2>2, <2>3, <2>4, <2>5, <2>7 DEF OnChainHash, ContractPays
<1>6. \/ /\ tx.request.kind = "checkpoint" /\ QuorumOf(tx.signers)
         /\ tx.request.parent.block = latest
         /\ tx.request.hash.block \in Blocks
         /\ HeightOf[tx.request.hash.block] > LatestHeight
         /\ latest' = tx.request.hash.block
         /\ finalized' = Append(finalized, tx.request.hash.block)
         /\ UNCHANGED <<books, payouts>>
      \/ /\ tx.request.kind = "withdrawal" /\ QuorumOf(tx.signers)
         /\ tx.request.checkpoint.block = latest
         /\ latest # Genesis
         /\ tx.request.order \in Orders \ books.executed
         /\ books'.executed = books.executed \cup {tx.request.order}
         /\ payouts' = Append(payouts, tx.request.order)
         /\ UNCHANGED <<latest, finalized>>
      \/ UNCHANGED contract
  <2>1. CASE Accepted(tx) /\ tx.request.kind = "checkpoint" /\ FinalizeCheckpoint(tx.request)
    BY <2>1, <1>4 DEF FinalizeCheckpoint
  <2>2. CASE Accepted(tx) /\ tx.request.kind = "withdrawal" /\ Withdraw(tx.request)
    BY <2>2, <1>5 DEF Withdraw
  <2> QED BY <2>1, <2>2, <1>1
<1> QED BY <1>1, <1>2, <1>3, <1>6

\* A sequence that grows keeps its elements.
LEMMA AppendSet ==
    ASSUME NEW S, NEW s \in Seq(S), NEW e \in S
    PROVE  /\ Append(s, e) \in Seq(S)
           /\ Len(Append(s, e)) = Len(s) + 1
           /\ \A i \in 1 .. Len(s) : Append(s, e)[i] = s[i]
           /\ Append(s, e)[Len(s) + 1] = e
           /\ ToSet(Append(s, e)) = ToSet(s) \cup {e}
<1>1. /\ Append(s, e) \in Seq(S) /\ Len(Append(s, e)) = Len(s) + 1 /\ Len(s) \in Nat
      /\ \A i \in 1 .. Len(s) : Append(s, e)[i] = s[i]
      /\ Append(s, e)[Len(s) + 1] = e
  OBVIOUS
<1>2. DOMAIN s = 1 .. Len(s) /\ DOMAIN Append(s, e) = 1 .. (Len(s) + 1)
  BY <1>1, LenProperties
<1>3. \A i \in 1 .. (Len(s) + 1) : i \in 1 .. Len(s) \/ i = Len(s) + 1
  BY <1>1
<1>4. \A i \in 1 .. Len(s) : i \in 1 .. (Len(s) + 1)
  BY <1>1
<1>5. Len(s) + 1 \in 1 .. (Len(s) + 1)
  BY <1>1
<1> QED BY <1>1, <1>2, <1>3, <1>4, <1>5 DEF ToSet

\* A transaction takes back no checkpoint and no payment.
LEMMA L2KeepsContract ==
    ASSUME Shape, L2Executes
    PROVE  ContractKeeps
<1>1. LatestHeight \in Nat /\ LatestHeight' = HeightOf[latest']
  BY HeightsTyped DEF Shape, LatestHeight
<1>2. PICK tx \in mempool :
        \/ /\ tx.request.hash.block \in Blocks
           /\ HeightOf[tx.request.hash.block] > LatestHeight
           /\ latest' = tx.request.hash.block
           /\ finalized' = Append(finalized, tx.request.hash.block)
           /\ UNCHANGED <<books, payouts>>
        \/ /\ books'.executed = books.executed \cup {tx.request.order}
           /\ UNCHANGED <<latest, finalized>>
        \/ UNCHANGED contract
  BY L2Cases
<1>3. CASE /\ tx.request.hash.block \in Blocks
           /\ HeightOf[tx.request.hash.block] > LatestHeight
           /\ latest' = tx.request.hash.block
           /\ finalized' = Append(finalized, tx.request.hash.block)
           /\ UNCHANGED <<books, payouts>>
  <2>1. ToSet(finalized)' = ToSet(finalized) \cup {tx.request.hash.block}
    BY <1>3, AppendSet DEF Shape, TypeOK
  <2>2. HeightOf[latest'] \in Nat
    BY <1>3, BridgeV3Constants DEF Tree
  <2> QED BY <1>1, <1>3, <2>1, <2>2 DEF ContractKeeps, Past
<1>4. CASE UNCHANGED <<latest, finalized>> /\ books.executed \subseteq books'.executed
  BY <1>1, <1>4 DEF ContractKeeps, Past, LatestHeight
<1> QED BY <1>2, <1>3, <1>4 DEF contract

\* Any other step leaves the contract, or the pause alone changes.
LEMMA StillKeepsContract ==
    ASSUME Shape, UNCHANGED contract \/ OwnerPauses \/ OwnerUnpauses
    PROVE  ContractKeeps /\ UNCHANGED <<latest, finalized, payouts>>
           /\ books'.executed = books.executed
<1>1. UNCHANGED <<latest, finalized, payouts>> /\ books'.executed = books.executed
  BY DEF Shape, TypeOK, contract, OwnerPauses, OwnerUnpauses, Books
<1>2. LatestHeight \in Nat
  BY HeightsTyped DEF Shape
<1> QED BY <1>1, <1>2 DEF ContractKeeps, Past, LatestHeight

\* A quorum that holds a block goes on holding it.
LEMMA HoldersKeep ==
    ASSUME NodesKeep, NEW Q \in SUBSET Cosigners, NEW b, Holders(Q, b)
    PROVE  Holders(Q, b)'
<1>1. \A c \in Q \ resynced' : c \in Q \ resynced /\ c \in Nodes \ resynced'
  BY DEF NodesKeep, Nodes
<1> QED BY <1>1 DEF NodesKeep, Holders, QuorumOf

-----------------------------------------------------------------------------
(***************************************************************************)
(* Quorums                                                                  *)
(***************************************************************************)

\* A part of a quorum that is a quorum makes it one.
LEMMA QuorumGrows ==
    ASSUME NEW Q \in SUBSET Cosigners, NEW P \in SUBSET Q, QuorumOf(P)
    PROVE  QuorumOf(Q)
<1>1. IsFiniteSet(Q)
  BY BridgeV3Constants, FS_Subset
<1>2. /\ Cardinality(P) <= Cardinality(Q)
      /\ Cardinality(P) \in Nat /\ Cardinality(Q) \in Nat
  BY <1>1, FS_Subset, FS_CardinalityType
<1> QED BY <1>2, BridgeV3Constants DEF QuorumOf

\* Unless a whole quorum was given other chains, one of its members was not.
LEMMA SomeSteady ==
    ASSUME NEW Q \in SUBSET Cosigners, QuorumOf(Q), ~ QuorumOf(resynced \cap Cosigners)
    PROVE  \E c \in Q : c \notin resynced
<1>1. ASSUME Q \subseteq resynced PROVE FALSE
  BY <1>1, QuorumGrows
<1> QED BY <1>1

\* Where quorums meet, no quorum was given other chains.
LEMMA MeetMeansSteady ==
    ASSUME QuorumsMeet
    PROVE  ~ QuorumOf(resynced \cap Cosigners)
BY DEF QuorumsMeet

\* As long as no cosigner's node was given another chain, any two quorums meet:
\* more than half of the cosigners make one.
LEMMA QuorumsMeetAtFirst ==
    ASSUME resynced \cap Cosigners = {}
    PROVE  QuorumsMeet
<1> SUFFICES ASSUME NEW Q1 \in SUBSET Cosigners, NEW Q2 \in SUBSET Cosigners,
                    QuorumOf(Q1), QuorumOf(Q2), Q1 \cap Q2 = {}
             PROVE  FALSE
  BY DEF QuorumsMeet
<1>1. /\ IsFiniteSet(Q1) /\ IsFiniteSet(Q2) /\ IsFiniteSet(Cosigners)
      /\ Cardinality(Q1) \in Nat /\ Cardinality(Q2) \in Nat /\ Cardinality(Cosigners) \in Nat
  BY BridgeV3Constants, FS_Subset, FS_CardinalityType
<1>2. Cardinality(Q1 \cup Q2) = Cardinality(Q1) + Cardinality(Q2) - Cardinality(Q1 \cap Q2)
  BY <1>1, FS_Union
<1>3. Cardinality(Q1 \cup Q2) <= Cardinality(Cosigners)
  BY <1>1, FS_Subset, Q1 \cup Q2 \in SUBSET Cosigners
<1>4. Cardinality(Q1 \cap Q2) = 0
  BY FS_EmptySet
<1>5. Cardinality(Q1) >= Threshold /\ Cardinality(Q2) >= Threshold
  BY DEF QuorumOf
<1> QED BY <1>1, <1>2, <1>3, <1>4, <1>5, BridgeV3Constants

\* More resynchronised nodes make neither condition of OneHistory easier.
LEMMA ConditionsFall ==
    ASSUME resynced \subseteq resynced'
    PROVE  /\ QuorumOf(resynced \cap Cosigners) => QuorumOf(resynced \cap Cosigners)'
           /\ QuorumsMeet' => QuorumsMeet
<1>1. resynced \cap Cosigners \in SUBSET (resynced' \cap Cosigners)
  OBVIOUS
<1>2. QuorumOf(resynced \cap Cosigners) => QuorumOf(resynced' \cap Cosigners)
  BY <1>1, QuorumGrows
<1>3. ASSUME QuorumsMeet' PROVE QuorumsMeet
  BY <1>3 DEF QuorumsMeet, QuorumOf
<1> QED BY <1>2, <1>3 DEF QuorumOf

-----------------------------------------------------------------------------
(***************************************************************************)
(* The contract's past                                                      *)
(***************************************************************************)

\* Checkpoints are blocks with heights, and the latest is one of them.
LEMMA PastTyped ==
    ASSUME Shape
    PROVE  /\ Past \subseteq Tree /\ \A p \in Past : HeightOf[p] \in Nat
           /\ latest \in Tree /\ LatestHeight = HeightOf[latest] /\ LatestHeight \in Nat
<1>1. ToSet(finalized) \subseteq Blocks
  BY LenProperties, ElementOfSeq DEF Shape, TypeOK, ToSet
<1> QED BY <1>1, BridgeV3Constants, HeightsTyped DEF Past, Tree, Shape, TypeOK, LatestHeight

\* The quorum behind a checkpoint stays behind it while chains move.
LEMMA FinalityStill ==
    ASSUME Finality, NodesKeep, UNCHANGED <<latest, finalized>>
    PROVE  Finality'
<1>1. Past' = Past /\ LatestHeight' = LatestHeight
  BY DEF Past, LatestHeight
<1>2. ASSUME NEW p \in Past \ {Genesis}
      PROVE  \E Q \in SUBSET Cosigners : Holders(Q, p)'
  BY HoldersKeep DEF Finality
<1> QED BY <1>1, <1>2 DEF Finality

\* A checkpoint that L2 accepts is above the last and has a quorum behind it.
LEMMA FinalityL2 ==
    ASSUME Shape, Finality, Sent, L2Executes
    PROVE  Finality'
<1>1. NodesKeep
  BY L2Cases, StillKeeps DEF Shape
<1>2. PICK tx \in mempool :
        \/ /\ tx.request.kind = "checkpoint" /\ QuorumOf(tx.signers)
           /\ tx.signers \subseteq Cosigners
           /\ tx.request.hash.block \in Blocks
           /\ HeightOf[tx.request.hash.block] > LatestHeight
           /\ latest' = tx.request.hash.block
           /\ finalized' = Append(finalized, tx.request.hash.block)
        \/ UNCHANGED <<latest, finalized>>
  BY L2Cases DEF contract
<1>3. CASE UNCHANGED <<latest, finalized>>
  BY <1>1, <1>3, FinalityStill
<1>4. CASE /\ tx.request.kind = "checkpoint" /\ QuorumOf(tx.signers)
           /\ tx.signers \subseteq Cosigners
           /\ tx.request.hash.block \in Blocks
           /\ HeightOf[tx.request.hash.block] > LatestHeight
           /\ latest' = tx.request.hash.block
           /\ finalized' = Append(finalized, tx.request.hash.block)
  <2> DEFINE h == tx.request.hash.block
  <2>1. Past' = Past \cup {h}
    BY <1>4, AppendSet DEF Shape, TypeOK, Past
  <2>2. LatestHeight' = HeightOf[h] /\ HeightOf[h] \in Nat
    BY <1>4, BridgeV3Constants DEF LatestHeight, Tree
  <2>3. \A p \in Past : HeightOf[p] < HeightOf[h]
    BY <1>4, <2>2, PastTyped DEF Finality
  <2>4. UNCHANGED <<tips, resynced>>
    BY L2Cases
  <2>5. \A c \in tx.signers \ resynced : Buried(c, h)
    BY <1>4 DEF Sent, Vouches
  <2>6. Holders(tx.signers, h)
    BY <1>4, <2>5 DEF Holders
  <2>7. ASSUME NEW p \in Past' \ {Genesis}
        PROVE  \E Q \in SUBSET Cosigners : Holders(Q, p)'
    <3>1. PICK Q \in SUBSET Cosigners : Holders(Q, p)
      BY <2>1, <2>6, <1>4 DEF Finality
    <3> QED BY <3>1, <1>1, HoldersKeep
  <2> QED BY <2>1, <2>2, <2>3, <2>7, <1>4 DEF Finality
<1> QED BY <1>2, <1>3, <1>4

\* A step without a payment or a checkpoint keeps the history, whoever else
\* resynchronises.
LEMMA HistoryStill ==
    ASSUME History, resynced \subseteq resynced',
           UNCHANGED <<latest, finalized, payouts>>, books'.executed = books.executed
    PROVE  History'
<1>1. Past' = Past
  BY DEF Past
<1>2. OneHistory'
  BY ConditionsFall DEF History, OneHistory, QuorumOf
<1> QED BY <1>1, <1>2, ConditionsFall DEF History, QuorumOf

\* A payment or a checkpoint that L2 accepts continues the one history.
LEMMA HistoryL2 ==
    ASSUME Shape, Finality, Sent, History, L2Executes
    PROVE  History'
<1> DEFINE Few == ~ QuorumOf(resynced \cap Cosigners)
<1>t. /\ finalized \in Seq(Blocks) /\ payouts \in Seq(Orders)
      /\ Past \subseteq Tree /\ latest \in Past /\ latest \in Tree
  BY PastTyped DEF Shape, TypeOK, Finality
<1>d. /\ DOMAIN finalized = 1 .. Len(finalized) /\ Len(finalized) \in Nat
      /\ DOMAIN payouts = 1 .. Len(payouts) /\ Len(payouts) \in Nat
  BY <1>t, LenProperties
<1>h. /\ Few => \A i, j \in DOMAIN finalized : i < j => finalized[i] \in PathTo[finalized[j]]
      /\ QuorumsMeet => \A i \in DOMAIN payouts : BlockWith(payouts[i]) \in PathTo[latest]
      /\ IsInjective(payouts)
      /\ Few => \A p \in Past : p \in PathTo[latest]
      /\ ToSet(payouts) \subseteq books.executed
      /\ \A o \in ToSet(payouts) : \E b \in Blocks : o \in OrdersIn[b]
  BY DEF History, OneHistory
<1>r. Few' = Few /\ QuorumsMeet' = QuorumsMeet
  BY L2Cases DEF QuorumsMeet, QuorumOf
<1>1. PICK tx \in mempool :
        /\ tx.request \in Request /\ tx.signers \subseteq Cosigners
        /\ \/ /\ tx.request.kind = "checkpoint" /\ QuorumOf(tx.signers)
              /\ tx.request.parent.block = latest
              /\ tx.request.hash.block \in Blocks
              /\ latest' = tx.request.hash.block
              /\ finalized' = Append(finalized, tx.request.hash.block)
              /\ UNCHANGED <<books, payouts>>
           \/ /\ tx.request.kind = "withdrawal" /\ QuorumOf(tx.signers)
              /\ tx.request.checkpoint.block = latest
              /\ latest # Genesis
              /\ tx.request.order \in Orders \ books.executed
              /\ books'.executed = books.executed \cup {tx.request.order}
              /\ payouts' = Append(payouts, tx.request.order)
              /\ UNCHANGED <<latest, finalized>>
           \/ UNCHANGED contract
  BY L2Cases
<1>2. CASE /\ tx.request.kind = "checkpoint" /\ QuorumOf(tx.signers)
           /\ tx.request.parent.block = latest
           /\ tx.request.hash.block \in Blocks
           /\ latest' = tx.request.hash.block
           /\ finalized' = Append(finalized, tx.request.hash.block)
           /\ UNCHANGED <<books, payouts>>
  <2> DEFINE h == tx.request.hash.block
             n == Len(finalized)
  <2>1. /\ finalized' \in Seq(Blocks) /\ DOMAIN finalized' = 1 .. (n + 1)
        /\ \A i \in 1 .. n : finalized'[i] = finalized[i]
        /\ finalized'[n + 1] = h /\ Past' = Past \cup {h} /\ h \in Tree
    <3>1. /\ finalized' \in Seq(Blocks) /\ Len(finalized') = n + 1
          /\ \A i \in 1 .. n : finalized'[i] = finalized[i]
          /\ finalized'[n + 1] = h /\ ToSet(finalized') = ToSet(finalized) \cup {h}
      BY <1>2, <1>t, AppendSet
    <3>2. DOMAIN finalized' = 1 .. (n + 1)
      BY <3>1, LenProperties
    <3> QED BY <3>1, <3>2, <1>2 DEF Past, Tree
  <2>2. ASSUME Few PROVE PathTo[latest] \subseteq PathTo[h]
    <3>1. PICK c \in tx.signers : c \notin resynced
      BY <2>2, <1>1, <1>2, SomeSteady
    <3>2. latest \in PathTo[h]
      BY <3>1, <1>2 DEF Sent, Vouches
    <3> QED BY <3>2, <2>1, PathDown
  <2>3. ASSUME Few, NEW p \in Past' PROVE p \in PathTo[h]
    BY <2>1, <2>2, <2>3, <1>h, PathBasics
  <2>4. ASSUME Few, NEW i \in DOMAIN finalized', NEW j \in DOMAIN finalized', i < j
        PROVE  finalized'[i] \in PathTo[finalized'[j]]
    <3>1. i \in 1 .. n
      BY <2>1, <2>4, <1>d
    <3>2. CASE j \in 1 .. n
      BY <3>1, <3>2, <2>1, <2>4, <1>h, <1>d
    <3>3. CASE j = n + 1
      <4>1. finalized[i] \in Past
        BY <3>1, <1>d DEF Past, ToSet
      <4> QED BY <4>1, <3>1, <3>3, <2>1, <2>3, <2>4
    <3> QED BY <3>2, <3>3, <2>1, <1>d
  <2>5. ASSUME QuorumsMeet PROVE \A i \in DOMAIN payouts : BlockWith(payouts[i]) \in PathTo[h]
    BY <2>5, <2>2, <1>h, MeetMeansSteady
  <2>6. latest' = h /\ payouts' = payouts /\ books' = books
    BY <1>2
  <2>7. OneHistory'
    <3>1. Few' => \A i, j \in DOMAIN finalized' : i < j => finalized'[i] \in PathTo[finalized'[j]]
      BY <2>4, <1>r
    <3>2. QuorumsMeet' => \A i \in DOMAIN payouts' : BlockWith(payouts'[i]) \in PathTo[latest']
      BY <2>5, <2>6, <1>r
    <3>3. IsInjective(payouts')
      BY <2>6, <1>h
    <3> QED BY <3>1, <3>2, <3>3 DEF OneHistory
  <2>8. Few' => \A p \in Past' : p \in PathTo[latest']
    BY <2>3, <2>6, <1>r
  <2> QED BY <2>6, <2>7, <2>8, <1>h DEF History
<1>3. CASE /\ tx.request.kind = "withdrawal" /\ QuorumOf(tx.signers)
           /\ tx.request.checkpoint.block = latest
           /\ latest # Genesis
           /\ tx.request.order \in Orders \ books.executed
           /\ books'.executed = books.executed \cup {tx.request.order}
           /\ payouts' = Append(payouts, tx.request.order)
           /\ UNCHANGED <<latest, finalized>>
  <2> DEFINE o == tx.request.order
             n == Len(payouts)
  <2>1. /\ DOMAIN payouts' = 1 .. (n + 1)
        /\ \A i \in 1 .. n : payouts'[i] = payouts[i]
        /\ payouts'[n + 1] = o /\ ToSet(payouts') = ToSet(payouts) \cup {o}
    <3>1. /\ payouts' \in Seq(Orders) /\ Len(payouts') = n + 1
          /\ \A i \in 1 .. n : payouts'[i] = payouts[i]
          /\ payouts'[n + 1] = o /\ ToSet(payouts') = ToSet(payouts) \cup {o}
      BY <1>3, <1>t, AppendSet
    <3> QED BY <3>1, LenProperties
  <2>2. /\ o \in OrdersIn[tx.request.hash.block] /\ tx.request.hash.block \in Blocks
        /\ FromUnder(tx.request) \/ Declined(tx.request, tx.signers)
    <3>1. RequestOK(tx.request)
      BY DEF Sent
    <3>2. FromUnder(tx.request) \/ Declined(tx.request, tx.signers)
      BY <1>3 DEF Sent
    <3> QED BY <3>1, <3>2, <1>3 DEF RequestOK
  <2>3. BlockWith(o) = tx.request.hash.block
    BY <2>2, BlockWithTyped
  <2>4. ASSUME QuorumsMeet PROVE BlockWith(o) \in PathTo[latest]
    <3>1. ~ Declined(tx.request, tx.signers)
      BY <2>4, <1>1, <1>3 DEF Declined, QuorumsMeet
    <3> QED BY <3>1, <2>2, <2>3, <1>3 DEF FromUnder
  <2>5. ASSUME QuorumsMeet, NEW i \in DOMAIN payouts' PROVE BlockWith(payouts'[i]) \in PathTo[latest]
    <3>1. CASE i \in 1 .. n
      BY <3>1, <2>1, <2>5, <1>h, <1>d
    <3>2. CASE i = n + 1
      BY <3>2, <2>1, <2>4, <2>5
    <3> QED BY <3>1, <3>2, <2>1, <1>d
  <2>6. \A i \in 1 .. n : payouts[i] # o
    <3>1. \A i \in 1 .. n : payouts[i] \in ToSet(payouts)
      BY <1>d DEF ToSet
    <3> QED BY <3>1, <1>h, <1>3
  <2>7. IsInjective(payouts')
    <3> SUFFICES ASSUME NEW i \in 1 .. (n + 1), NEW j \in 1 .. (n + 1), payouts'[i] = payouts'[j]
                 PROVE  i = j
      BY <2>1 DEF IsInjective
    <3>1. CASE i \in 1 .. n /\ j \in 1 .. n
      <4>1. payouts[i] = payouts[j]
        BY <3>1, <2>1
      <4> QED BY <4>1, <3>1, <1>h, <1>d DEF IsInjective
    <3>2. CASE i = n + 1 \/ j = n + 1
      <4>1. ASSUME NEW k \in 1 .. (n + 1), payouts'[k] = o PROVE k = n + 1
        <5>1. k \notin 1 .. n
          BY <4>1, <2>1, <2>6
        <5> QED BY <5>1, <1>d
      <4> QED BY <4>1, <3>2, <2>1
    <3> QED BY <3>1, <3>2, <1>d
  <2>8. latest' = latest /\ finalized' = finalized /\ Past' = Past
    BY <1>3 DEF Past
  <2>9. OneHistory'
    BY <2>5, <2>7, <2>8, <1>h, <1>r DEF OneHistory
  <2>10. ToSet(payouts') \subseteq books'.executed
    BY <2>1, <1>3, <1>h
  <2> QED BY <2>1, <2>2, <2>8, <2>9, <2>10, <1>h, <1>r DEF History
<1>4. CASE UNCHANGED contract
  BY <1>4, L2Cases, HistoryStill DEF contract
<1> QED BY <1>1, <1>2, <1>3, <1>4

-----------------------------------------------------------------------------
(***************************************************************************)
(* Requests                                                                 *)
(***************************************************************************)

\* What was once asked for, vouched for or declined stays so.
LEMMA RequestStays ==
    ASSUME Past \subseteq Past', NEW r, RequestOK(r)
    PROVE  RequestOK(r)'
BY DEF RequestOK

\* A cosigner goes on vouching for what it vouched for.
LEMMA VouchesStays ==
    ASSUME NodesKeep, NEW c \in Cosigners, NEW r, Vouches(c, r)
    PROVE  Vouches(c, r)'
<1>1. c \notin resynced' => c \notin resynced /\ c \in Nodes \ resynced'
  BY DEF NodesKeep, Nodes
<1> QED BY <1>1 DEF NodesKeep, Vouches

\* A quorum that declined goes on declining.
LEMMA DeclinedStays ==
    ASSUME resynced \subseteq resynced', NEW r, NEW signers, Declined(r, signers)
    PROVE  Declined(r, signers)'
BY DEF Declined, QuorumOf

\* What is on its way stays justified while chains and contract move.
LEMMA SentStill ==
    ASSUME Shape, Sent, NodesKeep, ContractKeeps, mempool' \subseteq mempool
    PROVE  Sent'
<1> SUFFICES ASSUME NEW tx \in mempool'
             PROVE  /\ RequestOK(tx.request)'
                    /\ tx.request.kind = "checkpoint" =>
                          \A c \in tx.signers : Vouches(c, tx.request)'
                    /\ tx.request.kind = "withdrawal" =>
                          FromUnder(tx.request) \/ Declined(tx.request, tx.signers)'
  BY DEF Sent, FromUnder
<1>1. tx \in mempool /\ tx.signers \subseteq Cosigners
  BY DEF Shape, TypeOK
<1>2. RequestOK(tx.request)'
  BY <1>1, RequestStays DEF Sent, ContractKeeps
<1>3. ASSUME tx.request.kind = "checkpoint", NEW c \in tx.signers
      PROVE  Vouches(c, tx.request)'
  BY <1>1, <1>3, VouchesStays DEF Sent
<1>4. ASSUME tx.request.kind = "withdrawal"
      PROVE  FromUnder(tx.request) \/ Declined(tx.request, tx.signers)'
  BY <1>1, <1>4, DeclinedStays DEF Sent, NodesKeep
<1> QED BY <1>2, <1>3, <1>4

\* The blocks of a request have heights.
LEMMA HeightsAreNat ==
    ASSUME NEW r, RequestOK(r)
    PROVE  /\ r.hash.block \in Tree
           /\ HeightOf[r.hash.block] \in Nat
           /\ r.kind \in {"checkpoint", "withdrawal"}
           /\ r.kind = "checkpoint" =>
                /\ r.parent.block \in Tree
                /\ HeightOf[r.parent.block] \in Nat
           /\ r.kind = "withdrawal" =>
                /\ r.checkpoint.block \in Tree
                /\ HeightOf[r.checkpoint.block] \in Nat
<1>1. r \in Request
  BY DEF RequestOK
<1>2. CASE r \in CheckpointRequest
  <2>1. r.kind = "checkpoint" /\ r.hash.block \in Tree /\ r.parent.block \in Tree
    BY <1>2 DEF CheckpointRequest, Hash
  <2> QED BY <2>1, BridgeV3Constants
<1>3. CASE r \in WithdrawalRequest
  <2>1. r.kind = "withdrawal" /\ r.hash.block \in Tree /\ r.checkpoint.block \in Tree
    BY <1>3 DEF WithdrawalRequest, Hash
  <2> QED BY <2>1, BridgeV3Constants
<1> QED BY <1>1, <1>2, <1>3 DEF Request

\* A cosigner that is not stepping, while others do.
LEMMA AskedStays ==
    ASSUME Shape, Shape', NodesKeep, ContractKeeps, NEW c \in Cosigners, NEW r,
           asked'[c] = asked[c], HeightOf[r.hash.block] \in Nat
    PROVE  /\ AskedCheckpoint(c, r) => AskedCheckpoint(c, r)'
           /\ AskedWithdrawal(c, r) => AskedWithdrawal(c, r)'
<1>1. asked[c].height \in Nat /\ LatestHeight \in Nat /\ LatestHeight <= LatestHeight'
  BY HeightsTyped DEF Shape, TypeOK, Stage, ContractKeeps
<1>2. LatestHeight' \in Nat
  BY BridgeV3Constants DEF LatestHeight, Shape, TypeOK
<1>3. NodeHeight(c) \in Nat /\ NodeHeight(c)' \in Nat
  BY BridgeV3Constants DEF NodeHeight, Shape, TypeOK, Nodes
<1>4. c \notin resynced' => /\ c \notin resynced
                            /\ NodeHeight(c) <= NodeHeight(c)'
                            /\ \A b : Buried(c, b) => Buried(c, b)'
  BY DEF NodesKeep, Nodes
<1>5. AskedWithdrawal(c, r) => AskedWithdrawal(c, r)'
  BY DEF AskedWithdrawal
<1>6. ASSUME AskedCheckpoint(c, r) PROVE AskedCheckpoint(c, r)'
  <2>1. asked[c].pc = "hash" => asked[c].height <= LatestHeight'
    BY <1>1, <1>2, <1>6 DEF AskedCheckpoint
  <2>2. asked[c].pc = "candidate" /\ c \notin resynced' => HeightOf[r.hash.block] < NodeHeight(c)'
    BY <1>3, <1>4, <1>6 DEF AskedCheckpoint
  <2>3. asked[c].pc = "ancestor" /\ c \notin resynced' => Buried(c, r.hash.block)'
    BY <1>4, <1>6 DEF AskedCheckpoint
  <2>4. asked[c].pc = "signed" => Vouches(c, r)'
    BY <1>6, VouchesStays DEF AskedCheckpoint
  <2> QED BY <2>1, <2>2, <2>3, <2>4, <1>6 DEF AskedCheckpoint
<1> QED BY <1>5, <1>6

\* Those who declined go on declining, as long as they do not sign.
LEMMA DecliningStays ==
    ASSUME NodesKeep, NEW r, Declining(r),
           \A c \in Cosigners : Buried(c, r.checkpoint.block) /\ asked'[c].pc = "signed"
                                   => asked[c].pc = "signed"
    PROVE  Declining(r)'
<1>1. PICK Q \in SUBSET Cosigners :
        Holders(Q, r.checkpoint.block) /\ \A c \in Q \ resynced : asked[c].pc # "signed"
  BY DEF Declining
<1>2. Holders(Q, r.checkpoint.block)'
  BY <1>1, HoldersKeep
<1>3. \A c \in Q \ resynced' : asked'[c].pc # "signed"
  BY <1>1 DEF Holders, NodesKeep
<1> QED BY <1>2, <1>3 DEF Declining

\* What is being asked for stays justified while chains and contract move.
LEMMA CollectingStill ==
    ASSUME Shape, Shape', Collecting, NodesKeep, ContractKeeps, UNCHANGED <<relayer, asked>>
    PROVE  Collecting'
<1>1. relayer'.hash.block \in Past'
  BY DEF Collecting, ContractKeeps
<1>2. ASSUME relayer'.pc = "collect", NEW r \in {relayer'.request}
      PROVE  /\ RequestOK(r)'
             /\ r.kind = "checkpoint" => \A c \in Cosigners : AskedCheckpoint(c, r)'
             /\ r.kind = "withdrawal" => /\ \A c \in Cosigners : AskedWithdrawal(c, r)'
                                         /\ FromUnder(r) \/ Declining(r)'
  <2>1. r \in {relayer.request}
    OBVIOUS
  <2>2. /\ RequestOK(r) /\ HeightOf[r.hash.block] \in Nat
        /\ r.kind = "checkpoint" => \A c \in Cosigners : AskedCheckpoint(c, r)
        /\ r.kind = "withdrawal" => /\ \A c \in Cosigners : AskedWithdrawal(c, r)
                                    /\ FromUnder(r) \/ Declining(r)
    BY <1>2, <2>1, HeightsAreNat DEF Collecting
  <2>3. RequestOK(r)'
    BY <2>2, RequestStays DEF ContractKeeps
  <2>4. r.kind = "checkpoint" => \A c \in Cosigners : AskedCheckpoint(c, r)'
    BY <2>2, AskedStays
  <2>5. r.kind = "withdrawal" => \A c \in Cosigners : AskedWithdrawal(c, r)'
    BY <2>2, AskedStays
  <2>6. r.kind = "withdrawal" => FromUnder(r) \/ Declining(r)'
    BY <2>2, DecliningStays
  <2> QED BY <2>3, <2>4, <2>5, <2>6
<1>3. relayer'.pc # "collect" => \A c \in Cosigners : asked'[c].pc = "none"
  BY DEF Collecting
<1> QED BY <1>1, <1>2, <1>3 DEF Collecting, FromUnder

-----------------------------------------------------------------------------
(***************************************************************************)
(* The cosigners                                                            *)
(***************************************************************************)

\* What a node says of a height is what its chain has there.
LEMMA SaysWhatItHas ==
    ASSUME NEW n, NEW h, NEW hash, NodeSays(n, h, hash)
    PROVE  hash.block \in PathTo[tips[n]] /\ HeightOf[hash.block] = h
BY DEF NodeSays, BlockAt, NodeHash

\* What one answer changes.
LEMMA CosignerChanges ==
    ASSUME Shape, NEW c \in Cosigners, Cosigns(c) \/ CosignerFails(c)
    PROVE  /\ UNCHANGED <<tips, contract, mempool, relayer, cursor, resynced>>
           /\ asked[c].pc # "none"
           /\ \A d \in Cosigners \ {c} : asked'[d] = asked[d]
<1>a. asked \in [Cosigners -> Stage]
  BY DEF Shape, TypeOK
<1>1. CASE CosignerFails(c)
  BY <1>1, <1>a DEF CosignerFails
<1>2. CASE Cosigns(c)
  <2>1. ASSUME NEW pc, NEW ok, NEW next, CosignerReads(c, pc, ok, next), pc # "none"
        PROVE  /\ UNCHANGED <<tips, contract, mempool, relayer, cursor, ghost>>
               /\ asked[c].pc # "none" /\ \A d \in Cosigners \ {c} : asked'[d] = asked[d]
    BY <2>1, <1>a DEF CosignerReads
  <2>2. CASE CosignerReadsHeight(c) \/ CosignerReadsHash(c)
    BY <2>2, <1>a DEF CosignerReadsHeight, CosignerReadsHash, ghost
  <2>3. CASE \/ CosignerReadsStatus(c) \/ CosignerReadsCandidate(c) \/ CosignerReadsAncestor(c)
             \/ CosignerReadsCheckpoint(c) \/ CosignerReadsBlock(c)
    BY <2>3, <2>1 DEF CosignerReadsStatus, CosignerReadsCandidate, CosignerReadsAncestor,
                      CosignerReadsCheckpoint, CosignerReadsBlock, ghost
  <2> QED BY <1>2, <2>2, <2>3 DEF Cosigns
<1> QED BY <1>1, <1>2

\* The answer of a chain that is asked: on to the next read, or refused.
LEMMA CosignerAnswered ==
    ASSUME Shape, NEW c \in Cosigners, NEW pc, NEW ok, NEW next,
           CosignerReads(c, pc, ok, next)
    PROVE  /\ asked[c].pc = pc
           /\ asked'[c].height = asked[c].height /\ asked'[c].hash = asked[c].hash
           /\ \/ ok /\ asked'[c].pc = next
              \/ asked'[c].pc = "refused"
BY DEF CosignerReads, Shape, TypeOK, Stage

\* Asked about a checkpoint, a cosigner signs what its own chain has.
LEMMA CheckpointAnswered ==
    ASSUME Shape, Finality, NEW c \in Cosigners, NEW r, r = relayer.request, RequestOK(r),
           r.kind = "checkpoint", AskedCheckpoint(c, r), Cosigns(c) \/ CosignerFails(c)
    PROVE  AskedCheckpoint(c, r)'
<1>t. /\ asked \in [Cosigners -> Stage] /\ asked[c] \in Stage /\ asked[c].height \in Nat
      /\ c \in Nodes /\ NodeHeight(c) \in Nat /\ tips[c] \in Tree
      /\ r.hash.block \in Tree /\ r.parent.block \in Tree /\ r.parent.block \in Past
      /\ HeightOf[r.hash.block] \in Nat /\ HeightOf[r.parent.block] \in Nat
      /\ LatestHeight \in Nat /\ LatestHeight = HeightOf[latest]
  BY HeightsAreNat, HeightsTyped, PastTyped DEF Shape, TypeOK, Stage, Nodes, RequestOK
<1>u. UNCHANGED <<tips, latest, resynced>>
  BY CosignerChanges DEF contract
<1>v. /\ NodeHeight(c)' = NodeHeight(c) /\ LatestHeight' = LatestHeight
      /\ \A b : Buried(c, b)' <=> Buried(c, b)
      /\ Vouches(c, r)' <=> Vouches(c, r)
  BY <1>u DEF NodeHeight, LatestHeight, Buried, Vouches
<1>w. RequestHeight = HeightOf[r.hash.block]
  BY DEF RequestHeight
<1>p. HeightOf[r.parent.block] <= LatestHeight
  BY <1>t DEF Finality
<1>0. CASE asked'[c].pc = "refused"
  BY <1>0 DEF AskedCheckpoint
<1>1. CASE CosignerReadsHeight(c)
  <2>1. asked'[c].pc = "hash" /\ asked'[c].height = LatestHeight
    BY <1>1, <1>t DEF CosignerReadsHeight, Stage
  <2> QED BY <2>1, <1>p, <1>t, <1>v DEF AskedCheckpoint
<1>2. CASE CosignerReadsHash(c)
  <2>1. /\ asked[c].pc = "hash" /\ asked'[c].height = asked[c].height
        /\ asked'[c].hash = OnChainHash(latest)
        /\ asked'[c].pc = IF ~ Current(r, asked[c].height) THEN "refused" ELSE "status"
    BY <1>2, <1>t DEF CosignerReadsHash, Stage
  <2>2. CASE Current(r, asked[c].height)
    <3>1. HeightOf[r.hash.block] > asked[c].height /\ r.parent.block = latest
      BY <2>2 DEF Current, OnChainHash
    <3>2. asked[c].height = HeightOf[r.parent.block]
      BY <3>1, <2>1, <1>t DEF AskedCheckpoint
    <3>3. asked'[c].pc = "status" /\ asked'[c].hash.block = r.parent.block
      BY <2>1, <2>2, <3>1 DEF OnChainHash
    <3> QED BY <3>1, <3>2, <3>3, <2>1 DEF AskedCheckpoint
  <2> QED BY <2>1, <2>2, <1>0
<1>3. CASE CosignerReadsStatus(c)
  <2>1. CASE NodeHeight(c) >= RequestHeight + Confirmations /\ asked'[c].pc = "candidate"
    <3>1. HeightOf[r.hash.block] < NodeHeight(c)
      BY <2>1, <1>t, <1>w, BridgeV3Constants
    <3>2. /\ asked[c].pc = "status" /\ asked'[c].height = asked[c].height
          /\ asked'[c].hash = asked[c].hash
      BY <1>3, CosignerAnswered DEF CosignerReadsStatus
    <3>3. /\ asked'[c].height = HeightOf[r.parent.block]
          /\ asked'[c].hash.block = r.parent.block
          /\ HeightOf[r.parent.block] < HeightOf[r.hash.block]
      BY <3>2 DEF AskedCheckpoint
    <3>4. HeightOf[r.hash.block] < NodeHeight(c)'
      BY <3>1, <1>v
    <3>5. asked'[c].pc = "candidate"
      BY <2>1
    <3> QED BY <3>3, <3>4, <3>5 DEF AskedCheckpoint
  <2>2. \/ NodeHeight(c) >= RequestHeight + Confirmations /\ asked'[c].pc = "candidate"
        \/ asked'[c].pc = "refused"
    BY <1>3, <1>t DEF CosignerReadsStatus, CosignerReads, Stage
  <2> QED BY <2>1, <2>2, <1>0
<1>4. CASE CosignerReadsCandidate(c)
  <2>1. CASE NodeSays(c, RequestHeight, r.hash) /\ asked'[c].pc = "ancestor"
    <3>1. r.hash.block \in PathTo[tips[c]]
      BY <2>1, SaysWhatItHas
    <3>2. /\ asked[c].pc = "candidate" /\ asked'[c].height = asked[c].height
          /\ asked'[c].hash = asked[c].hash
      BY <1>4, CosignerAnswered DEF CosignerReadsCandidate
    <3>3. c \notin resynced => Buried(c, r.hash.block)
      BY <3>1, <3>2 DEF AskedCheckpoint, Buried
    <3> QED BY <2>1, <3>2, <3>3, <1>u, <1>v DEF AskedCheckpoint
  <2> QED BY <2>1, <1>0, <1>4, CosignerAnswered DEF CosignerReadsCandidate
<1>5. CASE CosignerReadsAncestor(c)
  <2>1. CASE /\ asked[c].height > 0 => NodeSays(c, asked[c].height, asked[c].hash)
             /\ asked'[c].pc = "signed"
    <3>1. /\ asked[c].pc = "ancestor" /\ asked[c].height = HeightOf[r.parent.block]
          /\ asked[c].hash.block = r.parent.block
          /\ HeightOf[r.parent.block] < HeightOf[r.hash.block]
          /\ c \notin resynced => Buried(c, r.hash.block)
      BY <1>5, CosignerAnswered DEF CosignerReadsAncestor, AskedCheckpoint
    <3>2. ASSUME c \notin resynced PROVE r.parent.block \in PathTo[r.hash.block]
      <4>1. CASE asked[c].height > 0
        <5>1. r.parent.block \in PathTo[tips[c]]
          BY <4>1, <2>1, <3>1, SaysWhatItHas
        <5>2. r.hash.block \in PathTo[tips[c]]
          BY <3>1, <3>2 DEF Buried
        <5> QED BY <5>1, <5>2, <3>1, <1>t, PathLinear
      <4>2. CASE ~ (asked[c].height > 0)
        <5>1. r.parent.block = Genesis
          BY <4>2, <3>1, <1>t, HeightsTyped DEF Tree, Shape
        <5> QED BY <5>1, <1>t, PathRoot
      <4> QED BY <4>1, <4>2
    <3>3. Vouches(c, r)
      BY <3>1, <3>2 DEF Vouches
    <3> QED BY <2>1, <3>3, <1>v DEF AskedCheckpoint
  <2> QED BY <2>1, <1>0, <1>5, CosignerAnswered DEF CosignerReadsAncestor
<1>6. CASE CosignerReadsCheckpoint(c) \/ CosignerReadsBlock(c)
  BY <1>6, CosignerAnswered DEF CosignerReadsCheckpoint, CosignerReadsBlock, AskedCheckpoint
<1>7. CASE CosignerFails(c)
  BY <1>0, <1>7, <1>t DEF CosignerFails, Stage
<1> QED BY <1>1, <1>2, <1>3, <1>4, <1>5, <1>6, <1>7 DEF Cosigns

\* Asked about a withdrawal, a cosigner that has the checkpoint buried signs for
\* blocks under it.
LEMMA WithdrawalAnswered ==
    ASSUME Shape, NEW c \in Cosigners, NEW r, r = relayer.request, RequestOK(r),
           r.kind = "withdrawal", AskedWithdrawal(c, r), Cosigns(c) \/ CosignerFails(c)
    PROVE  /\ AskedWithdrawal(c, r)'
           /\ Buried(c, r.checkpoint.block) /\ asked'[c].pc = "signed" => FromUnder(r)
<1>t. /\ asked \in [Cosigners -> Stage] /\ asked[c] \in Stage /\ asked[c].height \in Nat
      /\ c \in Nodes /\ tips[c] \in Tree
      /\ HeightOf[r.hash.block] \in Nat /\ HeightOf[r.checkpoint.block] \in Nat
  BY HeightsAreNat, HeightsTyped DEF Shape, TypeOK, Stage, Nodes
<1>0. CASE asked'[c].pc = "refused"
  BY <1>0 DEF AskedWithdrawal
<1>1. CASE CosignerReadsHeight(c)
  <2>1. asked'[c].pc = "hash"
    BY <1>1, <1>t DEF CosignerReadsHeight, Stage
  <2> QED BY <2>1 DEF AskedWithdrawal
<1>2. CASE CosignerReadsHash(c)
  <2>1. asked'[c].pc = IF ~ Current(r, asked[c].height) THEN "refused" ELSE "checkpoint"
    BY <1>2, <1>t DEF CosignerReadsHash, Stage
  <2>2. CASE Current(r, asked[c].height)
    <3>1. HeightOf[r.hash.block] <= HeightOf[r.checkpoint.block]
      BY <2>2 DEF Current
    <3> QED BY <3>1, <2>1, <2>2 DEF AskedWithdrawal
  <2> QED BY <2>1, <2>2, <1>0
<1>3. CASE CosignerReadsCheckpoint(c)
  <2>1. CASE asked[c].pc = "checkpoint" /\ asked'[c].pc = "block"
    BY <2>1 DEF AskedWithdrawal
  <2> QED BY <2>1, <1>0, <1>3, CosignerAnswered DEF CosignerReadsCheckpoint
<1>4. CASE CosignerReadsBlock(c)
  <2>1. CASE /\ NodeSays(c, RequestHeight, r.hash)
             /\ asked[c].pc = "block" /\ asked'[c].pc = "signed"
    <3>1. HeightOf[r.hash.block] <= HeightOf[r.checkpoint.block]
      BY <2>1 DEF AskedWithdrawal
    <3>2. r.hash.block \in PathTo[tips[c]]
      BY <2>1, SaysWhatItHas
    <3>3. Buried(c, r.checkpoint.block) => r.hash.block \in PathTo[r.checkpoint.block]
      BY <3>1, <3>2, <1>t, PathLinear DEF Buried
    <3> QED BY <2>1, <3>3 DEF AskedWithdrawal, FromUnder
  <2> QED BY <2>1, <1>0, <1>4, CosignerAnswered DEF CosignerReadsBlock
<1>5. CASE CosignerReadsStatus(c) \/ CosignerReadsCandidate(c) \/ CosignerReadsAncestor(c)
  BY <1>5, CosignerAnswered
  DEF CosignerReadsStatus, CosignerReadsCandidate, CosignerReadsAncestor, AskedWithdrawal
<1>6. CASE CosignerFails(c)
  BY <1>0, <1>6, <1>t DEF CosignerFails, Stage
<1> QED BY <1>1, <1>2, <1>3, <1>4, <1>5, <1>6 DEF Cosigns

\* One cosigner's answer, among those of the others.
LEMMA CollectingCosigner ==
    ASSUME Shape, Shape', Finality, Collecting, NEW c \in Cosigners, Cosigns(c) \/ CosignerFails(c)
    PROVE  Collecting'
<1>1. /\ UNCHANGED <<tips, contract, relayer, resynced>> /\ asked[c].pc # "none"
      /\ \A d \in Cosigners \ {c} : asked'[d] = asked[d]
  BY CosignerChanges
<1>2. NodesKeep /\ ContractKeeps /\ Past' = Past
  BY <1>1, StillKeeps, StillKeepsContract DEF Shape, contract, Past
<1>3. relayer.pc = "collect"
  BY <1>1 DEF Collecting
<1>4. ASSUME NEW r \in {relayer'.request}
      PROVE  /\ RequestOK(r)'
             /\ r.kind = "checkpoint" => \A d \in Cosigners : AskedCheckpoint(d, r)'
             /\ r.kind = "withdrawal" => /\ \A d \in Cosigners : AskedWithdrawal(d, r)'
                                         /\ FromUnder(r) \/ Declining(r)'
  <2>1. r = relayer.request
    BY <1>1
  <2>2. /\ RequestOK(r) /\ HeightOf[r.hash.block] \in Nat
        /\ r.kind = "checkpoint" => \A d \in Cosigners : AskedCheckpoint(d, r)
        /\ r.kind = "withdrawal" => /\ \A d \in Cosigners : AskedWithdrawal(d, r)
                                    /\ FromUnder(r) \/ Declining(r)
    BY <1>3, <2>1, HeightsAreNat DEF Collecting
  <2>3. RequestOK(r)'
    BY <2>2, <1>2, RequestStays
  <2>4. ASSUME r.kind = "checkpoint", NEW d \in Cosigners PROVE AskedCheckpoint(d, r)'
    <3>1. CASE d = c
      BY <3>1, <2>1, <2>2, <2>4, CheckpointAnswered
    <3>2. CASE d # c
      BY <3>2, <2>2, <2>4, <1>1, <1>2, AskedStays
    <3> QED BY <3>1, <3>2
  <2>5. ASSUME r.kind = "withdrawal", NEW d \in Cosigners PROVE AskedWithdrawal(d, r)'
    <3>1. CASE d = c
      BY <3>1, <2>1, <2>2, <2>5, WithdrawalAnswered
    <3>2. CASE d # c
      BY <3>2, <2>2, <2>5, <1>1, <1>2, AskedStays
    <3> QED BY <3>1, <3>2
  <2>6. ASSUME r.kind = "withdrawal", ~ FromUnder(r) PROVE Declining(r)'
    <3>1. ~ (Buried(c, r.checkpoint.block) /\ asked'[c].pc = "signed")
      BY <2>1, <2>2, <2>6, WithdrawalAnswered
    <3> QED BY <3>1, <2>2, <2>6, <1>1, <1>2, DecliningStays
  <2> QED BY <2>3, <2>4, <2>5, <2>6
<1>5. relayer'.hash.block \in Past' /\ relayer'.pc = "collect"
  BY <1>1, <1>2, <1>3 DEF Collecting
<1> QED BY <1>4, <1>5 DEF Collecting, FromUnder

-----------------------------------------------------------------------------
(***************************************************************************)
(* The relayer                                                              *)
(***************************************************************************)

\* The relayer asks for the signature of a request.
Asks(r) ==
    /\ Collect(r) /\ UNCHANGED mempool
    /\ r.kind = "checkpoint" => r.parent = relayer.hash
    /\ r.kind = "withdrawal" => /\ r.checkpoint = relayer.hash
                                /\ r.order \in relayer.todo
                                /\ r.hash.block = BlockWith(r.order)

\* It goes on alone, or gives up: what it has read of the contract is a checkpoint
\* that was, and nobody is being asked.
Goes ==
    /\ relayer'.pc # "collect"
    /\ relayer'.hash.block \in {relayer.hash.block, latest, Genesis}
    /\ \/ asked' = [c \in Cosigners |-> NotAsked]
       \/ UNCHANGED asked /\ relayer.pc # "collect"

\* Every step of the relayer is one of these two, and only sending adds to what is
\* on its way.
LEMMA RelayerChanges ==
    ASSUME Shape, Relays \/ RelayerRestarts
    PROVE  /\ UNCHANGED <<tips, contract, resynced>>
           /\ \/ \E r \in Request : Asks(r)
              \/ Goes /\ (UNCHANGED mempool \/ RelayerSends)
<1>t. /\ relayer \in Tick /\ Resting.pc = "idle" /\ Resting.hash.block = Genesis
      /\ Withdrawals.pc = "height" /\ Withdrawals.hash.block = Genesis
      /\ OnChainHash(latest).block = latest
  BY DEF Shape, TypeOK, Resting, Withdrawals, OnChainHash
<1>g. ASSUME NEW pc, NEW next, RelayerGoes(pc, next), pc # "collect", next.pc # "collect",
             next.hash.block \in {relayer.hash.block, latest, Genesis}
      PROVE  Goes /\ UNCHANGED mempool /\ UNCHANGED <<tips, contract, resynced>>
  BY <1>g DEF RelayerGoes, Goes, ghost
<1>1. CASE RelayerTicks
  <2> DEFINE t == [Resting EXCEPT !.pc = "latest", !.target = Target]
  <2>1. t.pc = "latest" /\ t.hash.block = Genesis
    BY DEF Resting, OnChainHash
  <2>2. RelayerGoes("idle", t) \/ RelayerGoes("idle", Withdrawals)
    BY <1>1 DEF RelayerTicks
  <2> HIDE DEF t
  <2> QED BY <2>1, <2>2, <1>t, <1>g
<1>2. CASE RelayerReadsLatest
  <2> DEFINE t == [relayer EXCEPT !.pc = "parent"]
  <2>1. t.pc = "parent" /\ t.hash = relayer.hash
    BY <1>t DEF Tick
  <2>2. RelayerGoes("latest", t) \/ RelayerGoes("latest", Withdrawals)
    BY <1>2 DEF RelayerReadsLatest
  <2> HIDE DEF t
  <2> QED BY <2>1, <2>2, <1>t, <1>g
<1>3. CASE RelayerReadsParent
  <2> DEFINE t == [relayer EXCEPT !.pc = "target", !.hash = OnChainHash(latest)]
  <2>1. t.pc = "target" /\ t.hash = OnChainHash(latest)
    BY <1>t DEF Tick
  <2>2. RelayerGoes("parent", t)
    BY <1>3 DEF RelayerReadsParent
  <2> HIDE DEF t
  <2> QED BY <2>1, <2>2, <1>t, <1>g
<1>4. CASE RelayerReadsTarget
  <2>1. CASE UNCHANGED asked /\ relayer' = Resting
    BY <2>1, <1>4, <1>t DEF RelayerReadsTarget, Goes, ghost
  <2>2. ASSUME NEW b \in ReadBlock(relayer.target),
               Collect([kind |-> "checkpoint", hash |-> NodeHash(b), parent |-> relayer.hash])
        PROVE  \E r \in Request : Asks(r)
    <3>1. b \in Tree /\ relayer.hash \in Hash
      BY BlockAtTyped, <1>t DEF ReadBlock, Shape, Tick, Nodes
    <3> DEFINE r == [kind |-> "checkpoint", hash |-> NodeHash(b), parent |-> relayer.hash]
    <3>2. r \in Request /\ r.kind = "checkpoint" /\ r.parent = relayer.hash
      BY <3>1, RequestsTyped
    <3> HIDE DEF r
    <3>3. Asks(r)
      BY <3>2, <2>2, <1>4 DEF RelayerReadsTarget, Asks, r
    <3> QED BY <3>2, <3>3
  <2> QED BY <2>1, <2>2, <1>4 DEF RelayerReadsTarget, GiveUp, ghost
<1>5. CASE RelayerSends
  <2>1. relayer' = [relayer EXCEPT !.pc = "wait"] \/ relayer' = Resting
    BY <1>5 DEF RelayerSends, GiveUp
  <2>2. relayer'.pc \in {"wait", "idle"} /\ relayer'.hash.block \in {relayer.hash.block, Genesis}
    BY <2>1, <1>t DEF Tick
  <2> QED BY <2>2, <1>5 DEF RelayerSends, Goes, ghost
<1>6. CASE RelayerConfirms
  <2> DEFINE t == [relayer EXCEPT !.pc = "orders", !.request = NoRequest,
                                  !.todo = @ \ {relayer.request.order}]
  <2>1. t.pc = "orders" /\ t.hash = relayer.hash
    BY <1>t DEF Tick
  <2>2. relayer.pc = "wait" /\ relayer' \in {Withdrawals, t, Resting}
    BY <1>6 DEF RelayerConfirms, GiveUp
  <2>3. UNCHANGED <<tips, contract, mempool, asked, cursor, ghost>>
    BY <1>6 DEF RelayerConfirms
  <2> HIDE DEF t
  <2> QED BY <2>1, <2>2, <2>3, <1>t DEF Goes, ghost
<1>7. CASE RelayerReadsHeight
  <2> DEFINE t == [relayer EXCEPT !.pc = "hash", !.height = LatestHeight]
  <2>1. t.pc = "hash" /\ t.hash = relayer.hash
    BY <1>t DEF Tick
  <2>2. RelayerGoes("height", t)
    BY <1>7 DEF RelayerReadsHeight
  <2> HIDE DEF t
  <2> QED BY <2>1, <2>2, <1>t, <1>g
<1>8. CASE RelayerReadsHash
  <2> DEFINE t == [relayer EXCEPT !.pc = "local", !.hash = OnChainHash(latest)]
  <2>1. t.pc = "local" /\ t.hash = OnChainHash(latest)
    BY <1>t DEF Tick
  <2>2. RelayerGoes("hash", t) \/ RelayerGoes("hash", Resting)
    BY <1>8 DEF RelayerReadsHash
  <2> HIDE DEF t
  <2> QED BY <2>1, <2>2, <1>t, <1>g
<1>9. CASE RelayerChecksLocal
  <2> DEFINE t == [relayer EXCEPT !.pc = "scan", !.scan = cursor + 1]
  <2>1. t.pc = "scan" /\ t.hash = relayer.hash
    BY <1>t DEF Tick
  <2>2. RelayerGoes("local", t) \/ RelayerGoes("local", Resting)
    BY <1>9 DEF RelayerChecksLocal
  <2> HIDE DEF t
  <2> QED BY <2>1, <2>2, <1>t, <1>g
<1>10. CASE RelayerScans
  <2>1. ASSUME NEW b, RelayerGoes("scan", [relayer EXCEPT !.pc = "orders", !.todo = OrdersIn[b]])
        PROVE  Goes /\ UNCHANGED mempool /\ UNCHANGED <<tips, contract, resynced>>
    <3> DEFINE t == [relayer EXCEPT !.pc = "orders", !.todo = OrdersIn[b]]
    <3>1. t.pc = "orders" /\ t.hash = relayer.hash
      BY <1>t DEF Tick
    <3> HIDE DEF t
    <3> QED BY <3>1, <2>1, <1>t, <1>g DEF t
  <2>2. CASE RelayerGoes("scan", Resting)
    BY <2>2, <1>t, <1>g
  <2> QED BY <2>1, <2>2, <1>10 DEF RelayerScans
<1>11. CASE RelayerTakesOrder
  <2>0. relayer.pc = "orders" /\ UNCHANGED <<tips, contract, mempool, cursor, ghost>>
    BY <1>11 DEF RelayerTakesOrder
  <2>1. PICK o \in relayer.todo :
          \/ /\ o \in books.executed
             /\ relayer' = [relayer EXCEPT !.todo = @ \ {o}]
             /\ UNCHANGED asked
          \/ GiveUp /\ UNCHANGED asked
          \/ Collect([kind |-> "withdrawal", order |-> o, hash |-> NodeHash(BlockWith(o)),
                      checkpoint |-> relayer.hash])
    BY <1>11 DEF RelayerTakesOrder
  <2>2. CASE relayer' = [relayer EXCEPT !.todo = @ \ {o}] /\ UNCHANGED asked
    <3>1. relayer'.pc = "orders" /\ relayer'.hash = relayer.hash
      BY <2>0, <2>2, <1>t DEF Tick
    <3> QED BY <3>1, <2>0, <2>2 DEF Goes, ghost
  <2>3. CASE Collect([kind |-> "withdrawal", order |-> o, hash |-> NodeHash(BlockWith(o)),
                      checkpoint |-> relayer.hash])
    <3>1. BlockWith(o) \in Tree /\ o \in Orders /\ relayer.hash \in Hash
      BY <1>t, BlockWithTyped DEF Tick, Tree, Shape
    <3> DEFINE r == [kind |-> "withdrawal", order |-> o, hash |-> NodeHash(BlockWith(o)),
                     checkpoint |-> relayer.hash]
    <3>2. /\ r \in Request /\ r.kind = "withdrawal" /\ r.checkpoint = relayer.hash
          /\ r.order = o /\ r.hash = NodeHash(BlockWith(o))
      BY <3>1, RequestsTyped
    <3>3. Collect(r)
      BY <2>3
    <3> HIDE DEF r
    <3>4. r.hash.block = BlockWith(o)
      BY <3>2 DEF NodeHash
    <3>5. Asks(r)
      BY <3>2, <3>3, <3>4, <2>0 DEF Asks
    <3> QED BY <3>2, <3>5, <2>0 DEF ghost
  <2>4. CASE relayer' = Resting /\ UNCHANGED asked
    BY <2>4, <2>0, <1>t DEF Goes, ghost
  <2> QED BY <2>1, <2>2, <2>3, <2>4 DEF GiveUp
<1>12. CASE RelayerSaves
  <2>1. relayer'.pc = "scan" /\ relayer'.hash = relayer.hash /\ relayer.pc = "orders"
        /\ UNCHANGED <<tips, contract, mempool, asked, ghost>>
    BY <1>12, <1>t DEF RelayerSaves, Tick
  <2> QED BY <2>1 DEF Goes, ghost
<1>13. CASE RelayerRestarts
  BY <1>13, <1>t DEF RelayerRestarts, GiveUp, Goes
<1> QED BY <1>1, <1>2, <1>3, <1>4, <1>5, <1>6, <1>7, <1>8, <1>9, <1>10, <1>11, <1>12, <1>13
        DEF Relays

\* A request of the relayer starts justified: nobody has answered it, and the last
\* checkpoint has its quorum.
LEMMA CollectingRelayer ==
    ASSUME Shape, Finality, Collecting, Relays \/ RelayerRestarts
    PROVE  Collecting'
<1>1. /\ UNCHANGED <<tips, contract, resynced>>
      /\ Past' = Past /\ latest \in Past /\ Genesis \in Past /\ relayer.hash.block \in Past
  BY RelayerChanges DEF Past, contract, Finality, Collecting
<1>2. NodesKeep
  BY <1>1, StillKeeps DEF Shape
<1>3. CASE Goes
  <2>1. relayer'.pc # "collect" /\ relayer'.hash.block \in Past'
    BY <1>1, <1>3 DEF Goes
  <2>2. \A c \in Cosigners : asked'[c].pc = "none"
    BY <1>3 DEF Goes, NotAsked, Collecting
  <2> QED BY <2>1, <2>2 DEF Collecting
<1>4. ASSUME NEW q \in Request, Asks(q) PROVE Collecting'
  <2>1. /\ relayer'.pc = "collect" /\ relayer'.request = q /\ relayer'.hash = relayer.hash
        /\ \A c \in Cosigners : asked'[c].pc = "height"
    <3>1. relayer' = [relayer EXCEPT !.pc = "collect", !.request = q]
      BY <1>4 DEF Asks, Collect
    <3>2. \A c \in Cosigners : asked'[c].pc = "height"
      BY <1>4 DEF Asks, Collect, NotAsked
    <3> QED BY <3>1, <3>2 DEF Shape, TypeOK, Tick
  <2>2. RequestOK(q)
    <3>1. CASE q.kind = "checkpoint"
      BY <3>1, <1>1, <1>4 DEF RequestOK, Asks
    <3>2. CASE q.kind = "withdrawal"
      <4>1. PICK b \in Blocks : q.order \in OrdersIn[b]
        BY <3>2, <1>4 DEF Asks, Shape
      <4>2. q.hash.block = b
        BY <4>1, <3>2, <1>4, BlockWithTyped DEF Asks
      <4> QED BY <4>1, <4>2, <3>2, <1>1, <1>4 DEF RequestOK, Asks
    <3> QED BY <3>1, <3>2 DEF RequestOK
  <2>3. RequestOK(q)'
    BY <2>2, <1>1, RequestStays
  <2>4. \A c \in Cosigners : AskedCheckpoint(c, q)' /\ AskedWithdrawal(c, q)'
    BY <2>1 DEF AskedCheckpoint, AskedWithdrawal
  <2>5. ASSUME q.kind = "withdrawal", ~ FromUnder(q) PROVE Declining(q)'
    <3>1. q.checkpoint.block \in Past \ {Genesis}
      BY <2>2, <2>5 DEF RequestOK, FromUnder
    <3>2. PICK Q \in SUBSET Cosigners : Holders(Q, q.checkpoint.block)
      BY <3>1 DEF Finality
    <3>3. Holders(Q, q.checkpoint.block)'
      BY <3>2, <1>2, HoldersKeep
    <3> QED BY <3>3, <2>1 DEF Declining
  <2>6. ASSUME NEW r \in {relayer'.request}
        PROVE  /\ RequestOK(r)'
               /\ r.kind = "checkpoint" => \A c \in Cosigners : AskedCheckpoint(c, r)'
               /\ r.kind = "withdrawal" => /\ \A c \in Cosigners : AskedWithdrawal(c, r)'
                                           /\ FromUnder(r) \/ Declining(r)'
    <3>1. r = q
      BY <2>1
    <3> QED BY <3>1, <2>3, <2>4, <2>5
  <2>7. relayer'.hash.block \in Past' /\ relayer'.pc = "collect"
    BY <2>1, <1>1
  <2> QED BY <2>6, <2>7 DEF Collecting, FromUnder
<1> QED BY <1>3, <1>4, RelayerChanges

\* What the relayer sends is justified by what the cosigners signed.
LEMMA SentRelayer ==
    ASSUME Shape, Collecting, Sent, Relays \/ RelayerRestarts
    PROVE  Sent'
<1>1. UNCHANGED <<tips, contract, resynced>>
  BY RelayerChanges
<1>2. NodesKeep /\ ContractKeeps
  BY <1>1, StillKeeps, StillKeepsContract DEF Shape
<1>3. CASE UNCHANGED mempool
  BY <1>2, <1>3, SentStill
<1>4. CASE RelayerSends
  <2>1. relayer.pc = "collect"
    BY <1>4 DEF RelayerSends
  <2>2. PICK signers \in SUBSET Signed :
          LET tx == [request |-> relayer.request, signers |-> signers]
          IN  mempool' \subseteq mempool \cup {tx}
    BY <1>4 DEF RelayerSends
  <2>3. PICK r : r = relayer.request
    OBVIOUS
  <2>4. /\ RequestOK(r)
        /\ r.kind = "checkpoint" => \A c \in Cosigners : AskedCheckpoint(c, r)
        /\ r.kind = "withdrawal" => FromUnder(r) \/ Declining(r)
    BY <2>1, <2>3 DEF Collecting
  <2>5. \A c \in signers : c \in Cosigners /\ asked[c].pc = "signed"
    BY DEF Signed
  <2>6. RequestOK(r)'
    BY <2>4, <1>2, RequestStays DEF ContractKeeps
  <2>7. ASSUME r.kind = "checkpoint", NEW c \in signers PROVE Vouches(c, r)'
    <3>1. Vouches(c, r)
      BY <2>4, <2>5, <2>7 DEF AskedCheckpoint
    <3> QED BY <3>1, <2>5, <1>2, VouchesStays
  <2>8. ASSUME r.kind = "withdrawal" PROVE FromUnder(r) \/ Declined(r, signers)'
    <3>1. ASSUME Declining(r) PROVE Declined(r, signers)
      <4>1. PICK Q \in SUBSET Cosigners :
              Holders(Q, r.checkpoint.block) /\ \A c \in Q \ resynced : asked[c].pc # "signed"
        BY <3>1 DEF Declining
      <4>2. (Q \ resynced) \cap signers = {}
        BY <4>1, <2>5
      <4> QED BY <4>1, <4>2 DEF Declined, Holders
    <3>2. Declined(r, signers) => Declined(r, signers)'
      BY <1>2, DeclinedStays DEF NodesKeep
    <3> QED BY <3>1, <3>2, <2>4, <2>8
  <2>9. ASSUME NEW tx \in mempool', tx \in mempool
        PROVE  /\ RequestOK(tx.request)'
               /\ tx.request.kind = "checkpoint" =>
                     \A c \in tx.signers : Vouches(c, tx.request)'
               /\ tx.request.kind = "withdrawal" =>
                     FromUnder(tx.request) \/ Declined(tx.request, tx.signers)'
    <3>1. tx.signers \subseteq Cosigners
      BY <2>9 DEF Shape, TypeOK
    <3>2. RequestOK(tx.request)'
      BY <2>9, <1>2, RequestStays DEF Sent, ContractKeeps
    <3>3. ASSUME tx.request.kind = "checkpoint", NEW c \in tx.signers
          PROVE  Vouches(c, tx.request)'
      BY <2>9, <3>1, <3>3, <1>2, VouchesStays DEF Sent
    <3>4. ASSUME tx.request.kind = "withdrawal"
          PROVE  FromUnder(tx.request) \/ Declined(tx.request, tx.signers)'
      BY <2>9, <3>4, <1>2, DeclinedStays DEF Sent, NodesKeep
    <3> QED BY <3>2, <3>3, <3>4
  <2>10. ASSUME NEW tx \in mempool', tx \notin mempool
         PROVE  tx.request = r /\ tx.signers = signers
    BY <2>2, <2>3, <2>10
  <2>11. ASSUME NEW tx \in mempool'
         PROVE  /\ RequestOK(tx.request)'
                /\ tx.request.kind = "checkpoint" =>
                      \A c \in tx.signers : Vouches(c, tx.request)'
                /\ tx.request.kind = "withdrawal" =>
                      FromUnder(tx.request) \/ Declined(tx.request, tx.signers)'
    BY <2>6, <2>7, <2>8, <2>9, <2>10
  <2> QED BY <2>11 DEF Sent, FromUnder
<1> QED BY <1>3, <1>4, RelayerChanges DEF Asks

-----------------------------------------------------------------------------
(***************************************************************************)
(* One history                                                              *)
(***************************************************************************)

\* The invariant holds at first,
LEMMA OneHistoryInit == Init => OneHistoryInv
<1> SUFFICES ASSUME Init PROVE OneHistoryInv
  OBVIOUS
<1>1. /\ latest = Genesis /\ finalized = <<>> /\ payouts = <<>> /\ mempool = {}
      /\ relayer = Resting /\ asked = [c \in Cosigners |-> NotAsked]
  BY DEF Init
<1>2. DOMAIN finalized = {} /\ DOMAIN payouts = {}
  BY <1>1
<1>3. Past = {Genesis} /\ ToSet(payouts) = {}
  BY <1>2 DEF Past, ToSet
<1>4. Genesis \in PathTo[Genesis]
  BY PathBasics DEF Tree
<1>5. Finality
  BY <1>1, <1>3 DEF Finality
<1>6. Collecting
  BY <1>1, <1>3 DEF Collecting, Resting, NotAsked, OnChainHash
<1>7. Sent
  BY <1>1 DEF Sent
<1>8. OneHistory
  BY <1>2 DEF OneHistory, IsInjective
<1>9. History
  BY <1>1, <1>3, <1>4, <1>8 DEF History
<1> QED BY <1>5, <1>6, <1>7, <1>9, ShapeInit DEF OneHistoryInv

\* and every step keeps it.
LEMMA OneHistoryNext == OneHistoryInv /\ [Next]_vars => OneHistoryInv'
<1> SUFFICES ASSUME OneHistoryInv, [Next]_vars PROVE OneHistoryInv'
  OBVIOUS
<1>i. Shape /\ Finality /\ Collecting /\ Sent /\ History /\ TypeOK
  BY DEF OneHistoryInv, Shape
<1>s. Shape'
  BY <1>i, ShapeNext
<1> USE DEF OneHistoryInv
\* What the relayer and the cosigners leave alone, nodes and contract keep.
<1>1. ASSUME NodesKeep, UNCHANGED contract \/ OwnerPauses \/ OwnerUnpauses
      PROVE  Finality' /\ History' /\ ContractKeeps
  BY <1>1, <1>i, FinalityStill, HistoryStill, StillKeepsContract DEF NodesKeep
<1>2. ASSUME NEW n \in Nodes, NodeMoves(n) \/ NodeResyncs(n) PROVE OneHistoryInv'
  <2>1. NodesKeep /\ UNCHANGED <<contract, mempool, relayer, asked>>
    BY <1>2, <1>i, MovesKeep, ResyncsKeep DEF NodeMoves, NodeResyncs
  <2> QED BY <2>1, <1>1, <1>i, <1>s, SentStill, CollectingStill
<1>3. CASE L2Executes
  <2>1. UNCHANGED <<tips, relayer, asked, resynced>> /\ mempool' \subseteq mempool
    BY <1>3, <1>i, L2Cases
  <2>2. NodesKeep /\ ContractKeeps
    BY <2>1, <1>3, <1>i, StillKeeps, L2KeepsContract
  <2> QED BY <2>1, <2>2, <1>3, <1>i, <1>s, FinalityL2, HistoryL2, SentStill, CollectingStill
<1>4. CASE OwnerPauses \/ OwnerUnpauses
  <2>1. UNCHANGED <<tips, mempool, relayer, asked, resynced>>
    BY <1>4 DEF OwnerPauses, OwnerUnpauses, ghost
  <2> QED BY <2>1, <1>1, <1>4, <1>i, <1>s, StillKeeps, SentStill, CollectingStill
<1>5. ASSUME NEW c \in Cosigners, Cosigns(c) \/ CosignerFails(c) PROVE OneHistoryInv'
  <2>1. UNCHANGED <<tips, contract, mempool, resynced>>
    BY <1>5, <1>i, CosignerChanges
  <2> QED BY <2>1, <1>1, <1>5, <1>i, <1>s, StillKeeps, SentStill, CollectingCosigner
<1>6. CASE Relays \/ RelayerRestarts
  <2>1. UNCHANGED <<tips, contract, resynced>>
    BY <1>6, <1>i, RelayerChanges
  <2> QED BY <2>1, <1>1, <1>6, <1>i, <1>s, StillKeeps, SentRelayer, CollectingRelayer
<1>7. CASE UNCHANGED vars
  <2>1. UNCHANGED <<tips, contract, mempool, relayer, asked, resynced>>
    BY <1>7 DEF vars, ghost, contract
  <2> QED BY <2>1, <1>1, <1>i, <1>s, StillKeeps, SentStill, CollectingStill
<1> QED BY <1>2, <1>3, <1>4, <1>5, <1>6, <1>7 DEF Next

\* Checkpoints follow one another on one branch unless a quorum of nodes was given
\* other chains; while any two quorums share a node that was not, only orders of
\* that branch are paid; and no order is paid twice.
THEOREM OnePaidHistory == Spec => []OneHistory
<1>1. OneHistoryInv => OneHistory
  BY DEF OneHistoryInv, History
<1> QED BY <1>1, OneHistoryInit, OneHistoryNext, PTL DEF Spec

-----------------------------------------------------------------------------
(***************************************************************************)
(* The cursor                                                               *)
(***************************************************************************)

\* What the relayer asked to finalize its own node has buried, and so every
\* checkpoint is on its node's chain.
Branch ==
    /\ \A p \in Past : p = Genesis \/ Buried(RelayerNode, p)
    /\ \A tx \in mempool :
          tx.request.kind = "checkpoint" => Buried(RelayerNode, tx.request.hash.block)
    /\ relayer.pc \in {"latest", "parent", "target"} =>
          relayer.target + Confirmations <= NodeHeight(RelayerNode)
    /\ relayer.pc = "collect" /\ relayer.request.kind = "checkpoint" =>
          \A r \in {relayer.request} : Buried(RelayerNode, r.hash.block)

\* The relayer is at the orders of the block after the cursor.
AtOrders ==
    \/ relayer.pc = "orders"
    \/ relayer.pc \in {"collect", "wait"} /\ relayer.request.kind # "checkpoint"

\* The cursor stays under the checkpoint; the block that is scanned is the next one,
\* under the checkpoint too, and its orders are paid or still to do.
Reading ==
    /\ cursor <= LatestHeight
    /\ relayer.pc \in {"hash", "local", "scan"} \/ AtOrders => relayer.height <= LatestHeight
    /\ relayer.pc = "scan" \/ AtOrders => relayer.scan = cursor + 1
    /\ AtOrders =>
          /\ relayer.scan <= relayer.height
          /\ \A b \in PathTo[latest] \ {Genesis} :
                HeightOf[b] = relayer.scan => OrdersIn[b] \subseteq relayer.todo \cup books.executed
    /\ \A b \in PathTo[latest] \ {Genesis} :
          HeightOf[b] <= cursor => OrdersIn[b] \subseteq books.executed

CursorInv == OneHistoryInv /\ (RelayerNode \notin resynced => Branch /\ Reading)

\* The relayer's node is one of the nodes: what it has buried stays.
LEMMA RelayerKeeps ==
    ASSUME TypeOK, TypeOK', NodesKeep, RelayerNode \notin resynced'
    PROVE  /\ RelayerNode \notin resynced
           /\ NodeHeight(RelayerNode) \in Nat /\ tips[RelayerNode] \in Tree
           /\ NodeHeight(RelayerNode)' \in Nat
           /\ NodeHeight(RelayerNode) <= NodeHeight(RelayerNode)'
           /\ \A b : Buried(RelayerNode, b) => Buried(RelayerNode, b)'
<1>1. RelayerNode \in Nodes /\ RelayerNode \notin resynced
  BY DEF NodesKeep, Nodes
<1>2. NodeHeight(RelayerNode)' \in Nat
  BY <1>1, BridgeV3Constants DEF NodeHeight, TypeOK
<1> QED BY <1>1, <1>2, HeightsTyped DEF NodesKeep

\* Steps that send nothing, leave the relayer where it is and finalize nothing.
LEMMA BranchStill ==
    ASSUME Shape, Shape', Branch, NodesKeep, RelayerNode \notin resynced',
           mempool' \subseteq mempool, UNCHANGED <<relayer, latest, finalized>>
    PROVE  Branch'
<1>1. Past' = Past
  BY DEF Past
<1>2. \A p \in Past' : p = Genesis \/ Buried(RelayerNode, p)'
  BY <1>1, RelayerKeeps DEF Branch, Shape
<1>3. \A tx \in mempool' :
        tx.request.kind = "checkpoint" => Buried(RelayerNode, tx.request.hash.block)'
  BY RelayerKeeps DEF Branch, Shape
<1>4. ASSUME relayer'.pc \in {"latest", "parent", "target"}
      PROVE  relayer'.target + Confirmations <= NodeHeight(RelayerNode)'
  <2>1. /\ NodeHeight(RelayerNode) \in Nat /\ NodeHeight(RelayerNode)' \in Nat
        /\ NodeHeight(RelayerNode) <= NodeHeight(RelayerNode)'
        /\ relayer.target \in Nat
    BY RelayerKeeps DEF Shape, TypeOK, Tick
  <2> QED BY <2>1, <1>4, BridgeV3Constants DEF Branch
<1>5. ASSUME relayer'.pc = "collect" /\ relayer'.request.kind = "checkpoint",
             NEW r \in {relayer'.request}
      PROVE  Buried(RelayerNode, r.hash.block)'
  BY <1>5, RelayerKeeps DEF Branch, Shape
<1> QED BY <1>2, <1>3, <1>4, <1>5 DEF Branch

\* A transaction on L2 finalizes what the relayer's node has buried.
LEMMA BranchL2 ==
    ASSUME Shape, Shape', Branch, RelayerNode \notin resynced', L2Executes
    PROVE  Branch'
<1>1. /\ UNCHANGED <<tips, relayer, resynced>>
      /\ mempool' \subseteq mempool
  BY L2Cases
<1>2. NodesKeep
  BY <1>1, StillKeeps DEF Shape
<1>3. PICK tx \in mempool :
        \/ /\ tx.request.kind = "checkpoint"
           /\ tx.request.hash.block \in Blocks
           /\ finalized' = Append(finalized, tx.request.hash.block)
        \/ UNCHANGED <<latest, finalized>>
  BY L2Cases DEF contract
<1>4. CASE UNCHANGED <<latest, finalized>>
  BY <1>1, <1>2, <1>4, BranchStill
<1>5. CASE /\ tx.request.kind = "checkpoint"
           /\ tx.request.hash.block \in Blocks
           /\ finalized' = Append(finalized, tx.request.hash.block)
  <2>1. Past' = Past \cup {tx.request.hash.block}
    BY <1>5, AppendSet DEF Shape, TypeOK, Past
  <2>2. \A p \in Past' : p = Genesis \/ Buried(RelayerNode, p)
    BY <2>1, <1>5 DEF Branch
  <2>3. /\ \A b : Buried(RelayerNode, b)' = Buried(RelayerNode, b)
        /\ NodeHeight(RelayerNode)' = NodeHeight(RelayerNode)
    BY <1>1 DEF Buried, NodeHeight
  <2> QED BY <1>1, <2>2, <2>3 DEF Branch
<1> QED BY <1>3, <1>4, <1>5

\* Steps of others than the relayer leave its reading as it is: a new checkpoint is
\* above what it reads, on the same branch.
LEMMA ReadingStill ==
    ASSUME Shape, Shape', Branch', Reading, UNCHANGED <<relayer, cursor>>,
           books.executed \subseteq books'.executed,
           \/ UNCHANGED latest
           \/ latest \in Past' /\ latest' \in Past' /\ LatestHeight < LatestHeight'
    PROVE  Reading'
<1>t. /\ latest \in Tree /\ latest' \in Tree /\ cursor \in Nat
      /\ LatestHeight = HeightOf[latest] /\ LatestHeight' = HeightOf[latest']
      /\ LatestHeight \in Nat /\ LatestHeight' \in Nat
      /\ relayer.height \in Nat /\ relayer.scan \in Nat /\ tips'[RelayerNode] \in Tree
  BY BridgeV3Constants DEF Shape, TypeOK, Tick, LatestHeight, Nodes
<1>1. LatestHeight <= LatestHeight'
  BY <1>t
<1>2. latest \in PathTo[latest']
  <2>1. CASE latest' = latest
    BY <2>1, <1>t, PathBasics
  <2>2. CASE latest \in Past' /\ latest' \in Past' /\ LatestHeight < LatestHeight'
    <3>1. latest \in PathTo[tips'[RelayerNode]] /\ latest' \in PathTo[tips'[RelayerNode]]
      BY <2>2, <1>t, PathRoot DEF Branch, Buried
    <3> QED BY <3>1, <1>1, <1>t, PathLinear
  <2> QED BY <2>1, <2>2
<1>3. ASSUME NEW b \in PathTo[latest'] \ {Genesis}, HeightOf[b] <= LatestHeight
      PROVE  b \in PathTo[latest] \ {Genesis}
  BY <1>2, <1>3, <1>t, PathLinear
<1>4. /\ cursor' <= LatestHeight'
      /\ relayer'.pc \in {"hash", "local", "scan"} \/ AtOrders' => relayer'.height <= LatestHeight'
      /\ relayer'.pc = "scan" \/ AtOrders' => relayer'.scan = cursor' + 1
      /\ AtOrders' => relayer'.scan <= relayer'.height
  BY <1>1, <1>t DEF Reading, AtOrders
<1>5. ASSUME AtOrders', NEW b \in PathTo[latest'] \ {Genesis}, HeightOf[b] = relayer'.scan
      PROVE  OrdersIn[b] \subseteq relayer'.todo \cup books'.executed
  <2>1. relayer.scan <= LatestHeight /\ AtOrders
    BY <1>5, <1>t DEF Reading, AtOrders
  <2>2. b \in PathTo[latest] \ {Genesis}
    BY <1>3, <1>5, <2>1
  <2> QED BY <2>1, <2>2, <1>5 DEF Reading
<1>6. ASSUME NEW b \in PathTo[latest'] \ {Genesis}, HeightOf[b] <= cursor'
      PROVE  OrdersIn[b] \subseteq books'.executed
  <2>1. HeightOf[b] \in Nat
    BY <1>t, PathHeights
  <2>2. b \in PathTo[latest] \ {Genesis}
    BY <1>3, <1>6, <1>t, <2>1 DEF Reading
  <2> QED BY <2>2, <1>6 DEF Reading
<1> QED BY <1>4, <1>5, <1>6 DEF Reading

\* What the fields of its tick say about the relayer's next step.
Rests == relayer'.pc \in {"idle", "height"} /\ cursor' \in {cursor, 0} /\ UNCHANGED mempool
Aims == /\ relayer'.pc \in {"latest", "parent", "target"}
        /\ \/ relayer'.target = Target
           \/ relayer.pc \in {"latest", "parent"} /\ relayer'.target = relayer.target
        /\ UNCHANGED <<mempool, cursor>>
Proposes == /\ relayer.pc = "target" /\ relayer'.pc = "collect"
            /\ relayer'.request.kind = "checkpoint"
            /\ relayer'.request.hash.block \in BlockAt(RelayerNode, relayer.target)
            /\ UNCHANGED <<mempool, cursor>>
Submits == /\ relayer.pc = "collect" /\ relayer'.pc = "wait"
           /\ relayer'.request = relayer.request
           /\ relayer'.height = relayer.height /\ relayer'.scan = relayer.scan
           /\ relayer'.todo = relayer.todo
           /\ \A tx \in mempool' : tx \in mempool \/ tx.request = relayer.request
           /\ UNCHANGED cursor
Looks == /\ UNCHANGED <<mempool, cursor>>
         /\ \/ relayer.pc = "height" /\ relayer'.pc = "hash" /\ relayer'.height = LatestHeight
            \/ /\ relayer.pc = "hash" /\ relayer'.pc = "local"
               /\ relayer'.height = relayer.height
            \/ /\ relayer.pc = "local" /\ relayer'.pc = "scan"
               /\ relayer'.height = relayer.height /\ relayer'.scan = cursor + 1
Opens == /\ relayer.pc = "scan" /\ relayer'.pc = "orders"
         /\ relayer.scan <= relayer.height
         /\ relayer'.height = relayer.height /\ relayer'.scan = relayer.scan
         /\ \E b \in BlockAt(RelayerNode, relayer.scan) : relayer'.todo = OrdersIn[b]
         /\ UNCHANGED <<mempool, cursor>>
Handles == /\ AtOrders /\ relayer'.pc \in {"orders", "collect"}
           /\ relayer'.pc = "collect" => relayer'.request.kind = "withdrawal"
           /\ relayer'.height = relayer.height /\ relayer'.scan = relayer.scan
           /\ relayer.todo \subseteq relayer'.todo \cup books.executed
           /\ UNCHANGED <<mempool, cursor>>
Advances == /\ relayer.pc = "orders" /\ relayer'.pc = "scan"
            /\ relayer.todo = {}
            /\ cursor' = relayer.scan /\ relayer'.scan = relayer.scan + 1
            /\ relayer'.height = relayer.height
            /\ UNCHANGED mempool

\* Every step of the relayer is one of these.
LEMMA RelayerMoves ==
    ASSUME Shape, Relays \/ RelayerRestarts
    PROVE  Rests \/ Aims \/ Proposes \/ Submits \/ Looks \/ Opens \/ Handles \/ Advances
<1>t. /\ relayer \in Tick /\ Resting.pc = "idle" /\ Withdrawals.pc = "height"
  BY DEF Shape, TypeOK, Resting, Withdrawals
<1>1. CASE RelayerTicks
  <2> DEFINE n == Target
             t == [Resting EXCEPT !.pc = "latest", !.target = n]
  <2>1. t.pc = "latest" /\ t.target = n
    BY DEF Resting
  <2>2. relayer' \in {t, Withdrawals} /\ UNCHANGED <<mempool, cursor>>
    BY <1>1 DEF RelayerTicks, RelayerGoes
  <2> HIDE DEF t
  <2> QED BY <2>1, <2>2, <1>t DEF Rests, Aims
<1>2. CASE RelayerReadsLatest
  <2> DEFINE t == [relayer EXCEPT !.pc = "parent"]
  <2>1. t.pc = "parent" /\ t.target = relayer.target
    BY <1>t DEF Tick
  <2>2. /\ relayer' \in {t, Withdrawals} /\ UNCHANGED <<mempool, cursor>>
        /\ relayer.pc = "latest"
    BY <1>2 DEF RelayerReadsLatest, RelayerGoes
  <2> HIDE DEF t
  <2> QED BY <2>1, <2>2, <1>t DEF Rests, Aims
<1>3. CASE RelayerReadsParent
  <2> DEFINE t == [relayer EXCEPT !.pc = "target", !.hash = OnChainHash(latest)]
  <2>1. t.pc = "target" /\ t.target = relayer.target
    BY <1>t DEF Tick
  <2>2. relayer' = t /\ UNCHANGED <<mempool, cursor>> /\ relayer.pc = "parent"
    BY <1>3 DEF RelayerReadsParent, RelayerGoes
  <2> HIDE DEF t
  <2> QED BY <2>1, <2>2 DEF Aims
<1>4. CASE RelayerReadsTarget
  <2>1. relayer.pc = "target" /\ UNCHANGED <<mempool, cursor>>
    BY <1>4 DEF RelayerReadsTarget
  <2>2. ASSUME NEW b \in ReadBlock(relayer.target),
               Collect([kind |-> "checkpoint", hash |-> NodeHash(b), parent |-> relayer.hash])
        PROVE  Proposes
    <3> DEFINE r == [kind |-> "checkpoint", hash |-> NodeHash(b), parent |-> relayer.hash]
    <3>1. r.kind = "checkpoint" /\ r.hash.block = b
      BY DEF NodeHash
    <3>2. relayer' = [relayer EXCEPT !.pc = "collect", !.request = r]
      BY <2>2 DEF Collect
    <3> HIDE DEF r
    <3>3. relayer'.pc = "collect" /\ relayer'.request = r
      BY <3>2, <1>t DEF Tick
    <3> QED BY <3>1, <3>3, <2>1 DEF Proposes, ReadBlock
  <2> QED BY <2>1, <2>2, <1>4, <1>t DEF RelayerReadsTarget, GiveUp, Rests
<1>5. CASE RelayerSends
  <2> DEFINE t == [relayer EXCEPT !.pc = "wait"]
  <2>1. /\ t.pc = "wait" /\ t.request = relayer.request /\ t.height = relayer.height
        /\ t.scan = relayer.scan /\ t.todo = relayer.todo
    BY <1>t DEF Tick
  <2>2. PICK signers \in SUBSET Signed :
          \/ /\ mempool' = mempool \cup {[request |-> relayer.request, signers |-> signers]}
             /\ relayer' = t
          \/ relayer' = Resting /\ UNCHANGED mempool
    BY <1>5 DEF RelayerSends, GiveUp
  <2>3. UNCHANGED cursor /\ relayer.pc = "collect"
    BY <1>5 DEF RelayerSends
  <2> HIDE DEF t
  <2>4. CASE relayer' = Resting /\ UNCHANGED mempool
    BY <2>3, <2>4, <1>t DEF Rests
  <2>5. CASE /\ mempool' = mempool \cup {[request |-> relayer.request, signers |-> signers]}
             /\ relayer' = t
    BY <2>1, <2>3, <2>5 DEF Submits
  <2> QED BY <2>2, <2>4, <2>5
<1>6. CASE RelayerConfirms
  <2> DEFINE t == [relayer EXCEPT !.pc = "orders", !.request = NoRequest,
                                  !.todo = @ \ {relayer.request.order}]
  <2>1. /\ t.pc = "orders" /\ t.todo = relayer.todo \ {relayer.request.order}
        /\ t.height = relayer.height /\ t.scan = relayer.scan
    BY <1>t DEF Tick
  <2>2. /\ relayer.pc = "wait" /\ UNCHANGED <<mempool, cursor>>
        /\ \/ relayer' \in {Withdrawals, Resting}
           \/ /\ relayer' = t /\ relayer.request.kind # "checkpoint"
              /\ Confirmed(relayer.request)
    BY <1>6 DEF RelayerConfirms, GiveUp
  <2> HIDE DEF t
  <2>3. CASE relayer' = t /\ relayer.request.kind # "checkpoint" /\ Confirmed(relayer.request)
    <3>1. relayer.request.order \in books.executed
      BY <2>3 DEF Confirmed
    <3> QED BY <3>1, <2>1, <2>2, <2>3 DEF Handles, AtOrders
  <2> QED BY <2>2, <2>3, <1>t DEF Rests
<1>7. CASE RelayerReadsHeight
  <2> DEFINE n == LatestHeight
             t == [relayer EXCEPT !.pc = "hash", !.height = n]
  <2>1. t.pc = "hash" /\ t.height = n
    BY <1>t DEF Tick
  <2>2. relayer' = t /\ UNCHANGED <<mempool, cursor>> /\ relayer.pc = "height"
    BY <1>7 DEF RelayerReadsHeight, RelayerGoes
  <2> HIDE DEF t
  <2> QED BY <2>1, <2>2 DEF Looks
<1>8. CASE RelayerReadsHash
  <2> DEFINE t == [relayer EXCEPT !.pc = "local", !.hash = OnChainHash(latest)]
  <2>1. t.pc = "local" /\ t.height = relayer.height
    BY <1>t DEF Tick
  <2>2. relayer' \in {t, Resting} /\ UNCHANGED <<mempool, cursor>> /\ relayer.pc = "hash"
    BY <1>8 DEF RelayerReadsHash, RelayerGoes
  <2> HIDE DEF t
  <2> QED BY <2>1, <2>2, <1>t DEF Looks, Rests
<1>9. CASE RelayerChecksLocal
  <2> DEFINE n == cursor + 1
             t == [relayer EXCEPT !.pc = "scan", !.scan = n]
  <2>2. relayer' \in {t, Resting} /\ UNCHANGED <<mempool, cursor>> /\ relayer.pc = "local"
    BY <1>9 DEF RelayerChecksLocal, RelayerGoes
  <2> HIDE DEF n
  <2>1. t.pc = "scan" /\ t.height = relayer.height /\ t.scan = n
    BY <1>t DEF Tick
  <2> HIDE DEF t
  <2> QED BY <2>1, <2>2, <1>t DEF Looks, Rests, n
<1>10. CASE RelayerScans
  <2>1. ASSUME NEW b \in ReadBlock(relayer.scan), relayer.scan <= relayer.height,
               RelayerGoes("scan", [relayer EXCEPT !.pc = "orders", !.todo = OrdersIn[b]])
        PROVE  Opens
    <3> DEFINE t == [relayer EXCEPT !.pc = "orders", !.todo = OrdersIn[b]]
    <3>1. /\ t.pc = "orders" /\ t.todo = OrdersIn[b]
          /\ t.height = relayer.height /\ t.scan = relayer.scan
      BY <1>t DEF Tick
    <3>2. relayer' = t /\ UNCHANGED <<mempool, cursor>> /\ relayer.pc = "scan"
      BY <2>1 DEF RelayerGoes
    <3> HIDE DEF t
    <3> QED BY <3>1, <3>2, <2>1 DEF Opens, ReadBlock
  <2>2. CASE RelayerGoes("scan", Resting)
    BY <2>2, <1>t DEF RelayerGoes, Rests
  <2> QED BY <2>1, <2>2, <1>10 DEF RelayerScans
<1>11. CASE RelayerTakesOrder
  <2>1. relayer.pc = "orders" /\ UNCHANGED <<mempool, cursor>>
    BY <1>11 DEF RelayerTakesOrder
  <2>2. PICK o \in relayer.todo :
          \/ o \in books.executed /\ relayer' = [relayer EXCEPT !.todo = @ \ {o}]
          \/ GiveUp
          \/ Collect([kind |-> "withdrawal", order |-> o, hash |-> NodeHash(BlockWith(o)),
                      checkpoint |-> relayer.hash])
    BY <1>11 DEF RelayerTakesOrder
  <2>3. CASE o \in books.executed /\ relayer' = [relayer EXCEPT !.todo = @ \ {o}]
    <3>1. /\ relayer'.pc = "orders" /\ relayer'.todo = relayer.todo \ {o}
          /\ relayer'.height = relayer.height /\ relayer'.scan = relayer.scan
      BY <2>1, <2>3, <1>t DEF Tick
    <3> QED BY <3>1, <2>1, <2>3 DEF Handles, AtOrders
  <2>4. CASE Collect([kind |-> "withdrawal", order |-> o, hash |-> NodeHash(BlockWith(o)),
                      checkpoint |-> relayer.hash])
    <3> DEFINE r == [kind |-> "withdrawal", order |-> o, hash |-> NodeHash(BlockWith(o)),
                     checkpoint |-> relayer.hash]
    <3>1. relayer' = [relayer EXCEPT !.pc = "collect", !.request = r] /\ r.kind = "withdrawal"
      BY <2>4 DEF Collect
    <3> HIDE DEF r
    <3>2. /\ relayer'.pc = "collect" /\ relayer'.request = r /\ relayer'.todo = relayer.todo
          /\ relayer'.height = relayer.height /\ relayer'.scan = relayer.scan
      BY <3>1, <1>t DEF Tick
    <3> QED BY <3>1, <3>2, <2>1 DEF Handles, AtOrders
  <2>5. CASE relayer' = Resting
    BY <2>5, <2>1, <1>t DEF Rests
  <2> QED BY <2>2, <2>3, <2>4, <2>5 DEF GiveUp
<1>12. CASE RelayerSaves
  <2> DEFINE n == relayer.scan + 1
             t == [relayer EXCEPT !.pc = "scan", !.scan = n]
  <2>1. /\ relayer' = t /\ cursor' = relayer.scan /\ relayer.pc = "orders"
        /\ relayer.todo = {} /\ UNCHANGED mempool
    BY <1>12 DEF RelayerSaves
  <2> HIDE DEF n
  <2>2. t.pc = "scan" /\ t.scan = n /\ t.height = relayer.height
    BY <1>t DEF Tick
  <2> HIDE DEF t
  <2> QED BY <2>1, <2>2 DEF Advances, n
<1>13. CASE RelayerRestarts
  BY <1>13, <1>t DEF RelayerRestarts, GiveUp, Rests
<1> QED BY <1>1, <1>2, <1>3, <1>4, <1>5, <1>6, <1>7, <1>8, <1>9, <1>10, <1>11, <1>12, <1>13
        DEF Relays

\* What the relayer proposes to finalize its own node has buried: the chain has not
\* become shorter since the tick began.
LEMMA BranchRelayer ==
    ASSUME Shape, Shape', Branch, RelayerNode \notin resynced', Relays \/ RelayerRestarts
    PROVE  Branch'
<1>1. UNCHANGED <<tips, contract, resynced>>
  BY RelayerChanges
<1>2. /\ Past' = Past /\ NodeHeight(RelayerNode)' = NodeHeight(RelayerNode)
      /\ \A b : Buried(RelayerNode, b)' = Buried(RelayerNode, b)
  BY <1>1 DEF Past, contract, NodeHeight, Buried
<1>t. /\ NodeHeight(RelayerNode) \in Nat /\ RelayerNode \in Nodes /\ Confirmations \in Nat \ {0}
      /\ relayer.target \in Nat
  BY HeightsTyped, BridgeV3Constants DEF Nodes, Shape, TypeOK, Tick
<1> SUFFICES /\ \A tx \in mempool' :
                   tx.request.kind = "checkpoint" => Buried(RelayerNode, tx.request.hash.block)
             /\ relayer'.pc \in {"latest", "parent", "target"} =>
                   relayer'.target + Confirmations <= NodeHeight(RelayerNode)
             /\ relayer'.pc = "collect" /\ relayer'.request.kind = "checkpoint" =>
                   Buried(RelayerNode, relayer'.request.hash.block)
  BY <1>2 DEF Branch
<1>3. CASE Rests
  BY <1>3 DEF Branch, Rests
<1>4. CASE Aims
  <2>1. Target + Confirmations <= NodeHeight(RelayerNode)
    BY <1>t DEF Target
  <2>2. \/ relayer'.target = Target
        \/ relayer'.target = relayer.target /\ relayer.target + Confirmations <= NodeHeight(RelayerNode)
    BY <1>4 DEF Aims, Branch
  <2> QED BY <2>1, <2>2, <1>4 DEF Aims, Branch
<1>5. CASE Proposes
  <2> DEFINE b == relayer'.request.hash.block
  <2>1. b \in PathTo[tips[RelayerNode]] /\ HeightOf[b] = relayer.target
    BY <1>5, <1>t, BlockAtTyped DEF Proposes, Shape
  <2>2. relayer.target + Confirmations <= NodeHeight(RelayerNode)
    BY <1>5 DEF Proposes, Branch
  <2>3. Buried(RelayerNode, b)
    BY <2>1, <2>2, <1>t DEF Buried
  <2> QED BY <2>3, <1>5 DEF Proposes, Branch
<1>6. CASE Submits
  BY <1>6 DEF Submits, Branch
<1>7. CASE Looks \/ Opens \/ Handles \/ Advances
  BY <1>7 DEF Looks, Opens, Handles, Advances, Branch
<1> QED BY <1>3, <1>4, <1>5, <1>6, <1>7, RelayerMoves

\* The relayer reads block after block under the checkpoint, and the one at a height
\* is the checkpoint's ancestor at that height.
LEMMA ReadingRelayer ==
    ASSUME Shape, Finality, Branch, Reading, Relays \/ RelayerRestarts
    PROVE  Reading'
<1>1. UNCHANGED <<latest, LatestHeight, books>>
  BY RelayerChanges DEF contract, LatestHeight
<1>t. /\ latest \in Tree /\ cursor \in Nat /\ LatestHeight = HeightOf[latest]
      /\ LatestHeight \in Nat /\ relayer.height \in Nat /\ relayer.scan \in Nat
      /\ tips[RelayerNode] \in Tree /\ RelayerNode \in Nodes
      /\ \A b \in PathTo[latest] : HeightOf[b] \in Nat
  BY BridgeV3Constants, PathHeights DEF Shape, TypeOK, Tick, LatestHeight, Nodes
<1>p. \A b \in PathTo[latest] \ {Genesis} :
        HeightOf[b] <= cursor => OrdersIn[b] \subseteq books.executed
  BY DEF Reading
<1> SUFFICES /\ cursor' <= LatestHeight
             /\ relayer'.pc \in {"hash", "local", "scan"} \/ AtOrders' => relayer'.height <= LatestHeight
             /\ relayer'.pc = "scan" \/ AtOrders' => relayer'.scan = cursor' + 1
             /\ AtOrders' =>
                   /\ relayer'.scan <= relayer'.height
                   /\ \A b \in PathTo[latest] \ {Genesis} :
                        HeightOf[b] = relayer'.scan
                          => OrdersIn[b] \subseteq relayer'.todo \cup books.executed
             /\ \A b \in PathTo[latest] \ {Genesis} :
                   HeightOf[b] <= cursor' => OrdersIn[b] \subseteq books.executed
  BY <1>1 DEF Reading
<1>3. CASE Rests
  <2>1. cursor' <= cursor /\ cursor' \in Nat /\ ~ AtOrders'
        /\ relayer'.pc \notin {"hash", "local", "scan"}
    BY <1>3, <1>t DEF Rests, AtOrders
  <2> QED BY <2>1, <1>t, <1>p DEF Reading
<1>4. CASE Aims \/ Proposes
  <2>1. cursor' = cursor /\ ~ AtOrders' /\ relayer'.pc \notin {"hash", "local", "scan"}
    BY <1>4 DEF Aims, Proposes, AtOrders
  <2> QED BY <2>1, <1>t, <1>p DEF Reading
<1>5. CASE Submits
  <2>1. /\ cursor' = cursor /\ AtOrders' = AtOrders
        /\ relayer'.pc \notin {"hash", "local", "scan"}
        /\ relayer'.height = relayer.height /\ relayer'.scan = relayer.scan
        /\ relayer'.todo = relayer.todo
    BY <1>5 DEF Submits, AtOrders
  <2> QED BY <2>1, <1>t, <1>p DEF Reading
<1>6. CASE Looks
  <2>1. /\ cursor' = cursor /\ ~ AtOrders'
        /\ relayer'.height \in {LatestHeight, relayer.height}
        /\ relayer'.height = LatestHeight \/ relayer.height <= LatestHeight
        /\ relayer'.pc = "scan" => relayer'.scan = cursor + 1
    BY <1>6 DEF Looks, AtOrders, Reading
  <2> QED BY <2>1, <1>t, <1>p DEF Reading
<1>7. CASE Opens
  <2>1. /\ cursor' = cursor /\ relayer.scan = cursor + 1
        /\ relayer.scan <= relayer.height /\ relayer.height <= LatestHeight
        /\ relayer'.height = relayer.height /\ relayer'.scan = relayer.scan
        /\ relayer'.pc = "orders"
    BY <1>7 DEF Opens, Reading
  <2>2. PICK a \in BlockAt(RelayerNode, relayer.scan) : relayer'.todo = OrdersIn[a]
    BY <1>7 DEF Opens
  <2>3. ASSUME NEW b \in PathTo[latest] \ {Genesis}, HeightOf[b] = relayer'.scan PROVE b = a
    <3>1. latest \in PathTo[tips[RelayerNode]]
      BY <1>t, PathRoot DEF Branch, Buried, Finality
    <3>2. b \in PathTo[tips[RelayerNode]]
      BY <3>1, <1>t, PathDown
    <3>3. a \in PathTo[tips[RelayerNode]] /\ HeightOf[a] = HeightOf[b]
      BY <2>1, <2>3, <1>t, BlockAtTyped DEF Shape
    <3>4. a \in Tree /\ HeightOf[a] \in Nat
      BY <3>3, <1>t, PathHeights
    <3>5. b \in PathTo[a]
      BY <3>2, <3>3, <3>4, <1>t, PathLinear
    <3> QED BY <3>3, <3>4, <3>5, PathHeights
  <2> QED BY <2>1, <2>2, <2>3, <1>t, <1>p DEF AtOrders
<1>8. CASE Handles
  <2>1. /\ cursor' = cursor /\ AtOrders /\ relayer'.pc # "scan"
        /\ relayer'.height = relayer.height /\ relayer'.scan = relayer.scan
        /\ relayer.todo \subseteq relayer'.todo \cup books.executed
    BY <1>8 DEF Handles
  <2> QED BY <2>1, <1>t, <1>p DEF Reading
<1>9. CASE Advances
  <2>1. /\ AtOrders /\ cursor' = relayer.scan /\ relayer'.scan = relayer.scan + 1
        /\ relayer'.height = relayer.height /\ relayer.todo = {} /\ ~ AtOrders'
    BY <1>9 DEF Advances, AtOrders
  <2>2. /\ relayer.scan = cursor + 1 /\ relayer.scan <= relayer.height
        /\ relayer.height <= LatestHeight
        /\ \A b \in PathTo[latest] \ {Genesis} :
              HeightOf[b] = relayer.scan => OrdersIn[b] \subseteq books.executed
    BY <2>1 DEF Reading
  <2>3. ASSUME NEW b \in PathTo[latest] \ {Genesis}, HeightOf[b] <= relayer.scan
        PROVE  OrdersIn[b] \subseteq books.executed
    <3>1. HeightOf[b] <= cursor \/ HeightOf[b] = relayer.scan
      BY <2>2, <2>3, <1>t
    <3> QED BY <3>1, <2>2, <1>p
  <2> QED BY <2>1, <2>2, <2>3, <1>t
<1> QED BY <1>3, <1>4, <1>5, <1>6, <1>7, <1>8, <1>9, RelayerMoves

\* The cursor starts below every order,
LEMMA CursorInit == Init => CursorInv
<1> SUFFICES ASSUME Init PROVE Branch /\ Reading
  BY OneHistoryInit DEF CursorInv
<1>1. /\ latest = Genesis /\ finalized = <<>> /\ mempool = {} /\ relayer = Resting /\ cursor = 0
  BY DEF Init
<1>2. relayer.pc = "idle"
  BY <1>1 DEF Resting
<1>3. Past = {Genesis}
  BY <1>1 DEF Past, ToSet
<1>4. \A b \in PathTo[Genesis] : b = Genesis
  BY PathHeights, BridgeV3Constants DEF Tree
<1>5. LatestHeight = 0
  BY <1>1, BridgeV3Constants DEF LatestHeight
<1>6. Branch
  BY <1>1, <1>2, <1>3 DEF Branch
<1>7. Reading
  BY <1>1, <1>2, <1>4, <1>5 DEF Reading, AtOrders
<1> QED BY <1>6, <1>7

\* and no step moves it, or the checkpoint, past one that is not paid.
LEMMA CursorNext == CursorInv /\ [Next]_vars => CursorInv'
<1> SUFFICES ASSUME CursorInv, [Next]_vars, RelayerNode \notin resynced'
             PROVE  Branch' /\ Reading'
  BY OneHistoryNext DEF CursorInv
<1>i. Shape /\ TypeOK /\ Finality /\ Shape' /\ Finality'
  BY OneHistoryNext DEF CursorInv, OneHistoryInv, Shape
<1>k. ASSUME NodesKeep PROVE Branch /\ Reading
  BY <1>k DEF CursorInv, NodesKeep
\* What others do without the contract.
<1>s. ASSUME NodesKeep, UNCHANGED <<mempool, relayer, latest, finalized, cursor>>,
             books.executed \subseteq books'.executed
      PROVE  Branch' /\ Reading'
  <2>1. Branch'
    BY <1>s, <1>k, <1>i, BranchStill
  <2> QED BY <2>1, <1>s, <1>k, <1>i, ReadingStill
<1>1. ASSUME NEW n \in Nodes, NodeMoves(n) \/ NodeResyncs(n) PROVE Branch' /\ Reading'
  <2>1. NodesKeep /\ UNCHANGED <<contract, mempool, relayer, cursor>>
    BY <1>1, <1>i, MovesKeep, ResyncsKeep DEF NodeMoves, NodeResyncs
  <2> QED BY <2>1, <1>s DEF contract
<1>2. CASE L2Executes
  <2>1. UNCHANGED <<tips, relayer, cursor, resynced>>
    BY <1>2, <1>i, L2Cases
  <2>2. NodesKeep /\ ContractKeeps
    BY <2>1, <1>2, <1>i, StillKeeps, L2KeepsContract
  <2>3. Branch'
    BY <2>2, <1>2, <1>i, <1>k, BranchL2
  <2>4. UNCHANGED latest \/ LatestHeight < LatestHeight'
    <3>1. UNCHANGED latest \/ \E h \in Blocks : latest' = h /\ HeightOf[h] > LatestHeight
      BY <1>2, <1>i, L2Cases DEF contract
    <3>2. LatestHeight' = HeightOf[latest'] /\ LatestHeight \in Nat
          /\ \A h \in Blocks : HeightOf[h] \in Nat
      BY <1>i, HeightsTyped DEF LatestHeight, Tree
    <3> QED BY <3>1, <3>2
  <2>5. latest \in Past' /\ latest' \in Past'
    BY <2>2, <1>i DEF Finality, ContractKeeps
  <2> QED BY <2>1, <2>2, <2>3, <2>4, <2>5, <1>i, <1>k, ReadingStill DEF ContractKeeps
<1>3. CASE OwnerPauses \/ OwnerUnpauses
  <2>1. UNCHANGED <<tips, mempool, relayer, cursor, resynced>>
    BY <1>3 DEF OwnerPauses, OwnerUnpauses, ghost
  <2>2. UNCHANGED <<latest, finalized>> /\ books'.executed = books.executed
    BY <1>3, <1>i, StillKeepsContract
  <2> QED BY <2>1, <2>2, <1>i, <1>s, StillKeeps
<1>4. ASSUME NEW c \in Cosigners, Cosigns(c) \/ CosignerFails(c) PROVE Branch' /\ Reading'
  <2>1. UNCHANGED <<tips, contract, mempool, relayer, cursor, resynced>>
    BY <1>4, <1>i, CosignerChanges
  <2> QED BY <2>1, <1>i, <1>s, StillKeeps DEF contract
<1>5. CASE Relays \/ RelayerRestarts
  <2>1. UNCHANGED <<tips, resynced>>
    BY <1>5, <1>i, RelayerChanges
  <2>2. Branch /\ Reading
    BY <2>1, <1>i, <1>k, StillKeeps
  <2> QED BY <2>2, <1>5, <1>i, BranchRelayer, ReadingRelayer
<1>6. CASE UNCHANGED vars
  <2>1. UNCHANGED <<tips, contract, mempool, relayer, cursor, resynced>>
    BY <1>6 DEF vars, ghost, contract
  <2> QED BY <2>1, <1>i, <1>s, StillKeeps DEF contract
<1> QED BY <1>1, <1>2, <1>3, <1>4, <1>5, <1>6 DEF Next

\* The relayer's saved cursor never passes an order of the finalized branch that is
\* not paid, unless its node was given another chain; it may be restarted at any
\* await and begin again from an empty state file.
THEOREM CursorPassesNothing == Spec => []NoOrderPassed
<1>1. CursorInv => NoOrderPassed
  BY DEF CursorInv, Reading, NoOrderPassed
<1> QED BY <1>1, CursorInit, CursorNext, PTL DEF Spec

=============================================================================
