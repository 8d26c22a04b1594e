--------------------------- MODULE NodeLedgerProofs ---------------------------
(***************************************************************************)
(* The node, for every set of keys, events, hashes and validators, every    *)
(* threshold and fee rate, any number of RPC threads, and any interleaving  *)
(* of handlers, peers' blocks, reorganisations, disk faults and crashes.    *)
(*                                                                         *)
(* PART ONE.  No output is spent twice on the chain a node stores.  And no  *)
(* event is minted twice when deposits do not come through the RPC          *)
(* endpoint, whose check is not atomic with the deposit.                    *)
(*                                                                         *)
(* NoDoubleSpend is not inductive: that a block may be committed depends on *)
(* the index of key images covering the chain (Indexed), that a rollback    *)
(* keeps the index right on the blocks being apart already, and that a tip  *)
(* may return depends on what the reorganisation holds on its stack         *)
(* (Reversible).  The cached top may lag behind the chain after a failed    *)
(* rollback, so nothing here assumes that they agree.                       *)
(***************************************************************************)
EXTENDS NodeLedger, VaultOpsProofs, SequenceTheorems

\* The endpoint of the deposits is not used: its check and the deposit are two
\* steps, so an event may be minted twice by two of its threads.
Sequential == RpcThreads = {}

\* Two operations on one chain have nothing in common that may happen once.
Apart(p, q) ==
    /\ p.spends \cap q.spends = {}
    /\ Sequential => p.events \cap q.events = {}

ChainTyped ==
    /\ disk.chain \in Seq(Block)
    /\ disk.utxos \subseteq Output
    /\ mem.utxos \subseteq Output
    /\ top \in 0 .. Len(disk.chain)
    /\ \A i \in 1 .. Len(disk.chain) : disk.chain[i].height = i

OnceOnly ==
    \A i, j \in 1 .. Len(disk.chain) :
        i # j => Apart(disk.chain[i].op, disk.chain[j].op)

Covered(op) ==
    /\ op.spends \subseteq disk.spent
    /\ Sequential => op.events \subseteq disk.events

Indexed == \A i \in 1 .. Len(disk.chain) : Covered(disk.chain[i].op)

\* What a handler puts in a block: a mint that spends nothing, or a spend that
\* mints nothing.
WellBuilt(op) ==
    /\ op \in Op
    /\ op.kind = "deposit" => op.spends = {}
    /\ op.kind # "deposit" => op.events = {}

Reversible ==
    /\ reorg.active \in BOOLEAN
    /\ reorg.active =>
        /\ top = Len(disk.chain)
        /\ reorg.block \in Block
        /\ reorg.block.height = top + 1
        /\ WellBuilt(reorg.block.op)
        /\ reorg.localTop \in Block
        /\ reorg.localTop.height = top + 1
        /\ \A i \in 1 .. Len(disk.chain) : Apart(disk.chain[i].op, reorg.localTop.op)

\* The inductive invariant.
Once == ChainTyped /\ OnceOnly /\ Indexed /\ Reversible

-----------------------------------------------------------------------------
(***************************************************************************)
(* Lemmas on the operations a handler builds                                *)
(***************************************************************************)

\* Vault::deposit writes a well-built block.
LEMMA DepositBuilt ==
    ASSUME NEW event \in Events, NEW bps \in Nat, bps <= BpsOfWhole
    PROVE  WellBuilt(DepositOp(event, bps))
<1>1. Gross[event] \in Nat
  BY LedgerConstants
<1>2. FeeOf(Gross[event], bps) \in Int
  BY <1>1 DEF FeeOf, BpsOfWhole
<1>3. NetOf(Gross[event], bps) \in Nat
  BY <1>1, FeeIsPart
<1>4. DepositOp(event, bps).outs \subseteq Output
  BY <1>3 DEF DepositOp, Output, Keys
<1> QED BY <1>1, <1>2, <1>4 DEF DepositOp, WellBuilt, Op

\* What is left of a spent output is no output or one.
LEMMA ChangeBuilt ==
    ASSUME NEW key \in Keys, NEW amount \in Int
    PROVE  Change(key, amount) \subseteq Output
BY DEF Change, Output

\* Node::transfer_shielded writes a well-built block.
LEMMA TransferBuilt ==
    ASSUME NEW u \in Output, NEW ring \in SUBSET Keys, NEW send \in Nat, NEW fee \in Nat,
           NEW k1 \in Keys, NEW k2 \in Keys
    PROVE  WellBuilt(TransferOp(u, ring, send, fee, k1, k2))
<1>1. u.key \in Keys /\ u.amount \in Nat
  BY DEF Output
<1>2. Change(k2, u.amount - send - fee) \subseteq Output
  BY <1>1, ChangeBuilt
<1>3. TransferOp(u, ring, send, fee, k1, k2).outs \subseteq Output
  BY <1>2 DEF TransferOp, Output
<1> QED BY <1>1, <1>3 DEF TransferOp, WellBuilt, Op

\* Node::withdraw_shielded writes a well-built block.
LEMMA WithdrawBuilt ==
    ASSUME NEW u \in Output, NEW gross \in Nat, NEW bps \in Nat, NEW k \in Keys
    PROVE  WellBuilt(WithdrawOp(u, gross, bps, k))
<1>1. u.key \in Keys /\ u.amount \in Nat
  BY DEF Output
<1>2. Change(k, u.amount - gross) \subseteq Output
  BY <1>1, ChangeBuilt
<1>3. FeeOf(gross, bps) \in Int
  BY DEF FeeOf, BpsOfWhole
<1> QED BY <1>1, <1>2, <1>3 DEF WithdrawOp, WellBuilt, Op

\* A ring is made of keys.
LEMMA RingBuilt ==
    ASSUME NEW utxos \in SUBSET Output, NEW u \in utxos, NEW ring \in RingsAround(u, utxos)
    PROVE  ring \in SUBSET Keys
<1>1. KeysOf(utxos) \subseteq Keys
  BY DEF KeysOf, Output
<1>2. ring \subseteq {u.key} \cup KeysOf(utxos)
  BY DEF RingsAround, kSubset, KeysOf
<1> QED BY <1>1, <1>2 DEF KeysOf

-----------------------------------------------------------------------------
(***************************************************************************)
(* Lemmas on the steps shared by the handlers                               *)
(***************************************************************************)

\* The chain commit_block leaves: the block on top of those below its height.
LEMMA ChainAfterCommit ==
    ASSUME NEW chain \in Seq(Block), NEW h \in 0 .. Len(chain), NEW b \in Block,
           NEW new, new = Append(SubSeq(chain, 1, h), b)
    PROVE  /\ new \in Seq(Block)
           /\ Len(new) = h + 1
           /\ \A i \in 1 .. h : new[i] = chain[i]
           /\ new[h + 1] = b
<1>1. /\ SubSeq(chain, 1, h) \in Seq(Block)
      /\ Len(SubSeq(chain, 1, h)) = h
      /\ \A i \in 1 .. h : SubSeq(chain, 1, h)[i] = chain[i]
  <2>1. h \in Int /\ 1 \in Int /\ \A i \in 1 .. h : chain[i] \in Block
    BY ElementOfSeq, LenProperties
  <2> QED BY <2>1, SubSeqProperties
<1> HIDE DEF Block
<1> QED BY <1>1, AppendProperties, LenProperties

\* Put keeps the outputs outputs.
LEMMA PutTyped ==
    ASSUME NEW utxos \in SUBSET Output, NEW outs \in SUBSET Output
    PROVE  Put(utxos, outs) \subseteq Output
BY DEF Put

\* A commit of a block that is apart from the chain below it keeps the
\* invariant of the chain.  Disk and RAM may lose nothing they had, so a block
\* that the index has not seen is apart from all of it.
LEMMA CommitKeeps ==
    ASSUME ChainTyped, OnceOnly, Indexed,
           NEW b \in Block, NEW v,
           b.height = top + 1,
           \A i \in 1 .. top : Apart(disk.chain[i].op, b.op),
           Commit(b, v),
           mem'.utxos \subseteq Output
    PROVE  ChainTyped' /\ OnceOnly' /\ Indexed' /\ top' = Len(disk.chain)'
<1> DEFINE new == disk'.chain
<1>1. disk.chain \in Seq(Block) /\ top \in 0 .. Len(disk.chain) /\ Len(disk.chain) \in Nat
  BY LenProperties DEF ChainTyped
<1>2. new = Append(SubSeq(disk.chain, 1, top), b)
  <2>1. b.height - 1 = top
    BY <1>1
  <2> QED BY <2>1 DEF Commit, Committed
<1>3. /\ new \in Seq(Block)
      /\ Len(new) = top + 1
      /\ \A i \in 1 .. top : new[i] = disk.chain[i]
      /\ new[top + 1] = b
  BY <1>1, <1>2, ChainAfterCommit
<1>4. \A i \in 1 .. Len(new) : i \in 1 .. top \/ i = top + 1
  BY <1>1, <1>3
<1>5. 1 .. top \subseteq 1 .. Len(disk.chain)
  BY <1>1
<1>6. ChainTyped'
  <2>1. disk'.utxos \subseteq Output
    <3>1. b.op.outs \subseteq Output
      BY DEF Block, Op
    <3> QED BY <3>1, PutTyped DEF Commit, Committed, ChainTyped
  <2>2. top' \in 0 .. Len(new)
    BY <1>1, <1>3 DEF Commit
  <2>3. \A i \in 1 .. Len(new) : new[i].height = i
    BY <1>3, <1>4, <1>5 DEF ChainTyped
  <2> QED BY <1>3, <2>1, <2>2, <2>3 DEF ChainTyped
<1>7. OnceOnly'
  <2> SUFFICES ASSUME NEW i \in 1 .. Len(new), NEW j \in 1 .. Len(new), i # j
               PROVE  Apart(new[i].op, new[j].op)
    BY DEF OnceOnly, Apart, Sequential
  <2>1. CASE i \in 1 .. top /\ j \in 1 .. top
    BY <2>1, <1>3, <1>5 DEF OnceOnly
  <2>2. CASE i \in 1 .. top /\ j = top + 1
    BY <2>2, <1>3
  <2>3. CASE j \in 1 .. top /\ i = top + 1
    <3>1. Apart(new[j].op, new[i].op)
      BY <2>3, <1>3
    <3> QED BY <3>1 DEF Apart
  <2> QED BY <1>4, <2>1, <2>2, <2>3
<1>8. Indexed'
  <2> SUFFICES ASSUME NEW i \in 1 .. Len(new)
               PROVE  /\ new[i].op.spends \subseteq disk'.spent
                      /\ Sequential => new[i].op.events \subseteq disk'.events
    BY DEF Indexed, Covered, Sequential
  <2>1. disk'.spent = disk.spent \cup b.op.spends /\ disk'.events = disk.events \cup b.op.events
    BY DEF Commit, Committed
  <2>2. CASE i \in 1 .. top
    <3>1. Covered(disk.chain[i].op)
      BY <2>2, <1>5 DEF Indexed
    <3> QED BY <3>1, <2>1, <2>2, <1>3 DEF Covered
  <2>3. CASE i = top + 1
    BY <2>1, <2>3, <1>3
  <2> QED BY <1>4, <2>2, <2>3
<1> QED BY <1>1, <1>3, <1>6, <1>7, <1>8 DEF Commit

\* An operation none of whose parts the indexes know is apart from the chain.
Unseen(op) ==
    /\ op.spends \cap disk.spent = {}
    /\ Sequential => op.events \cap disk.events = {}

\* A key image the index does not know is on no block of the chain.
LEMMA UnseenIsApart ==
    ASSUME Indexed, NEW op, Unseen(op)
    PROVE  \A i \in 1 .. Len(disk.chain) : Apart(disk.chain[i].op, op)
BY DEF Indexed, Covered, Unseen, Apart

\* A step that leaves the chain and its indexes alone.
LEMMA ChainKept ==
    ASSUME ChainTyped, OnceOnly, Indexed,
           disk'.chain = disk.chain, disk'.utxos = disk.utxos,
           disk'.spent = disk.spent, disk'.events = disk.events,
           mem'.utxos \subseteq Output,
           top' \in 0 .. Len(disk.chain)
    PROVE  ChainTyped' /\ OnceOnly' /\ Indexed'
BY DEF ChainTyped, OnceOnly, Indexed, Covered, Apart, Sequential

\* Without a reorganisation there is nothing to reverse.
LEMMA NothingToReverse ==
    ASSUME reorg' = NoReorg PROVE Reversible' /\ Unlocked'
BY DEF Reversible, NoReorg, Unlocked

\* Nobody else disturbs a replay that is not under way.
LEMMA UnlockedKept ==
    ASSUME Reversible, Unlocked, UNCHANGED reorg PROVE Reversible' /\ Unlocked'
BY DEF Reversible, Unlocked

\* The tip has a hash.
LEMMA LinkTyped ==
    ASSUME ChainTyped PROVE HashAt(disk, top) \in Hashes \cup {GenesisHash}
<1>1. CASE top = 0
  BY <1>1 DEF HashAt
<1>2. CASE top # 0
  <2>1. top \in 1 .. Len(disk.chain)
    BY <1>2, LenProperties DEF ChainTyped
  <2>2. disk.chain[top] \in Block
    BY <2>1, ElementOfSeq DEF ChainTyped
  <2> QED BY <2>2, <1>2 DEF HashAt, Block
<1> QED BY <1>1, <1>2

\* What a node seals is a block.
LEMMA NextBlockTyped ==
    ASSUME ChainTyped, NEW op \in Op, NEW h \in NewHashes(top + 1),
           NEW validator \in Validators, NEW signers \in SUBSET Validators
    PROVE  [height |-> top + 1, hash |-> h, prev |-> HashAt(disk, top),
            validator |-> validator, signers |-> signers, op |-> op] \in Block
<1>1. top + 1 \in Nat
  BY LenProperties DEF ChainTyped
<1>2. h \in Hashes
  BY DEF NewHashes
<1> QED BY <1>1, <1>2, LinkTyped DEF Block

\* The tail of the local handlers.
LEMMA MineKeeps ==
    ASSUME Once, Unlocked, UNCHANGED reorg,
           NEW op, WellBuilt(op), Unseen(op), Mine(op)
    PROVE  Once'
<1>r. Reversible' /\ Unlocked'
  BY UnlockedKept DEF Once
<1>u. op.outs \subseteq Output /\ op \in Op
  BY DEF WellBuilt, Op
<1>1. ASSUME NEW h \in NewHashes(top + 1), NEW v,
             Commit([height |-> top + 1, hash |-> h, prev |-> HashAt(disk, top),
                     validator |-> Self, signers |-> {Self}, op |-> op], v),
             mem' = Grown(op, v)
      PROVE  Once'
  <2> DEFINE b == [height |-> top + 1, hash |-> h, prev |-> HashAt(disk, top),
                   validator |-> Self, signers |-> {Self}, op |-> op]
  <2>1. b \in Block
    BY <1>u, NextBlockTyped, LedgerConstants DEF Once
  <2>2. b.height = top + 1 /\ b.op = op
    OBVIOUS
  <2>3. \A i \in 1 .. top : Apart(disk.chain[i].op, b.op)
    <3>1. 1 .. top \subseteq 1 .. Len(disk.chain)
      BY LenProperties DEF Once, ChainTyped
    <3> QED BY <2>2, <3>1, UnseenIsApart DEF Once
  <2>4. mem'.utxos \subseteq Output
    BY <1>1, <1>u DEF Grown, Once, ChainTyped
  <2> HIDE DEF b
  <2>5. Commit(b, v)
    BY <1>1 DEF b
  <2> QED BY <2>1, <2>2, <2>3, <2>4, <2>5, <1>r, CommitKeeps DEF Once
<1>2. ASSUME UNCHANGED disk, mem' = Load(disk), UNCHANGED top
      PROVE  Once'
  <2>1. mem'.utxos \subseteq Output
    BY <1>2 DEF Load, Once, ChainTyped
  <2>2. top' \in 0 .. Len(disk.chain)
    BY <1>2 DEF Once, ChainTyped
  <2> QED BY <1>2, <2>1, <2>2, <1>r, ChainKept DEF Once
<1> QED BY <1>1, <1>2 DEF Mine, DiskFault

\* A block that passes validation brings nothing the chain has.
LEMMA ValidIsUnseen ==
    ASSUME NEW b, WellBuilt(b.op), ValidBlock(b, mem, disk, top)
    PROVE  Unseen(b.op)
<1>1. b.op.kind \in {"deposit", "transfer", "withdraw"}
  BY DEF WellBuilt, Op
<1>2. CASE b.op.kind = "deposit"
  BY <1>2 DEF ValidBlock, MintOK, Processed, WellBuilt, Unseen
<1>3. CASE b.op.kind = "transfer"
  BY <1>3 DEF ValidBlock, TransferOK, Spent, WellBuilt, Unseen
<1>4. CASE b.op.kind = "withdraw"
  BY <1>4 DEF ValidBlock, BurnOK, Spent, WellBuilt, Unseen
<1> QED BY <1>1, <1>2, <1>3, <1>4

\* The rates, events and amounts of the peers are those of the constants.
LEMMA PeerInputs ==
    /\ \A bps \in PeerBps : bps \in Nat /\ bps <= BpsOfWhole
    /\ PeerEvents \subseteq Events
    /\ WithdrawAmounts \subseteq Nat
<1>1. PeerBps \subseteq 0 .. BpsOfWhole /\ BpsOfWhole \in Nat
  BY NodeConstants DEF BpsOfWhole
<1>2. \A bps \in PeerBps : bps \in Nat /\ bps <= BpsOfWhole
  BY <1>1
<1> QED BY <1>2, NodeConstants

\* The operations of the peers are built like the node's own.
LEMMA PeerOpsBuilt ==
    ASSUME ChainTyped PROVE \A op \in PeerOps : WellBuilt(op)
<1> SUFFICES ASSUME NEW op \in PeerOps PROVE WellBuilt(op)
  OBVIOUS
<1>k. UnusedKeys \subseteq Keys /\ mem.utxos \subseteq Output
  BY DEF UnusedKeys, Keys, ChainTyped
<1>1. ASSUME NEW event \in PeerEvents, NEW bps \in PeerBps, op = DepositOp(event, bps)
      PROVE  WellBuilt(op)
  <2>1. event \in Events /\ bps \in Nat /\ bps <= BpsOfWhole
    BY PeerInputs
  <2> QED BY <1>1, <2>1, DepositBuilt
<1>2. ASSUME NEW u \in mem.utxos, NEW fee \in TxFees, NEW ring \in RingsAround(u, mem.utxos),
             NEW k \in UnusedKeys, NEW send \in {u.amount - fee} \cap Nat,
             op = TransferOp(u, ring, send, fee, k, k)
      PROVE  WellBuilt(op)
  <2>1. ring \in SUBSET Keys
    BY <1>k, RingBuilt
  <2> QED BY <1>2, <2>1, <1>k, NodeConstants, TransferBuilt
<1>3. ASSUME NEW u \in mem.utxos, NEW gross \in WithdrawAmounts, NEW bps \in PeerBps,
             NEW k \in UnusedKeys, op = WithdrawOp(u, gross, bps, k)
      PROVE  WellBuilt(op)
  <2>1. bps \in Nat /\ gross \in Nat
    BY PeerInputs
  <2> QED BY <1>3, <2>1, <1>k, WithdrawBuilt
<1> QED BY <1>1, <1>2, <1>3 DEF PeerOps, PeerTransfers

-----------------------------------------------------------------------------
(***************************************************************************)
(* The invariant                                                            *)
(***************************************************************************)

\* The invariant holds on an empty disk.
LEMMA OnceInit == Init => Once
<1> SUFFICES ASSUME Init PROVE Once
  OBVIOUS
<1>1. disk.chain = <<>> /\ Len(disk.chain) = 0 /\ disk.chain \in Seq(Block)
  BY EmptySeq DEF Init, EmptyDisk
<1>2. disk.utxos = {} /\ mem.utxos = {} /\ top = 0 /\ reorg = NoReorg
  BY DEF Init, EmptyDisk, Load
<1>3. ChainTyped
  BY <1>1, <1>2 DEF ChainTyped
<1>4. OnceOnly /\ Indexed
  BY <1>1 DEF OnceOnly, Indexed
<1>5. Reversible
  BY <1>2 DEF Reversible, NoReorg
<1> QED BY <1>3, <1>4, <1>5 DEF Once

\* The deposit of an event, checked against the index in the same step or not
\* at all: without RPC threads only the first is left.
LEMMA DepositKeeps ==
    ASSUME Once, Unlocked, UNCHANGED reorg, NEW event \in Events,
           Sequential => event \notin disk.events,
           DepositMined(event)
    PROVE  Once'
<1>1. DepositBps \in Nat /\ DepositBps <= BpsOfWhole
  BY LedgerConstants DEF DepositMined, DepositOK
<1>2. WellBuilt(DepositOp(event, DepositBps))
  BY <1>1, DepositBuilt
<1>3. Unseen(DepositOp(event, DepositBps))
  BY DEF Unseen, DepositOp
<1> QED BY <1>2, <1>3, MineKeeps DEF DepositMined

\* The deposit endpoint of an RPC thread.
LEMMA RpcDepositKeeps ==
    ASSUME Once, NEW t \in RpcThreads, RpcDeposit(t), rpc[t] \subseteq Events
    PROVE  Once'
<1>1. Unlocked /\ UNCHANGED reorg /\ ~ Sequential
  BY DEF RpcDeposit, Sequential
<1>2. ASSUME NEW event \in rpc[t], DepositMined(event) PROVE Once'
  BY <1>1, <1>2, DepositKeeps
<1>3. ASSUME UNCHANGED <<disk, top>>, mem'.utxos = mem.utxos PROVE Once'
  BY <1>1, <1>3, UnlockedKept, ChainKept DEF Once, ChainTyped
<1>4. ASSUME NEW event \in rpc[t], DepositThrows(event) PROVE Once'
  BY <1>3, <1>4 DEF DepositThrows, WithVault
<1>5. ASSUME NEW event \in rpc[t], DepositRefused(event) PROVE Once'
  BY <1>3, <1>5 DEF DepositRefused, ledger
<1> QED BY <1>2, <1>4, <1>5 DEF RpcDeposit, BuyShielded

\* A transfer the node builds itself.
LEMMA TransferKeeps ==
    ASSUME Once, TransferShielded PROVE Once'
<1>1. PICK u \in mem.utxos, send \in SendAmounts, fee \in TxFees :
        /\ ~ Spent(u.key, mem, disk)
        /\ \E ring \in RingsAround(u, mem.utxos), k1, k2 \in UnusedKeys :
             Mine(TransferOp(u, ring, send, fee, k1, k2))
  BY DEF TransferShielded
<1>2. PICK ring \in RingsAround(u, mem.utxos), k1 \in UnusedKeys, k2 \in UnusedKeys :
        Mine(TransferOp(u, ring, send, fee, k1, k2))
  BY <1>1
<1>3. u \in Output /\ ring \in SUBSET Keys /\ send \in Nat /\ fee \in Nat
      /\ k1 \in Keys /\ k2 \in Keys
  BY NodeConstants, RingBuilt DEF Once, ChainTyped, UnusedKeys, Keys
<1>4. WellBuilt(TransferOp(u, ring, send, fee, k1, k2))
  BY <1>3, TransferBuilt
<1>5. Unseen(TransferOp(u, ring, send, fee, k1, k2))
  BY <1>1 DEF Unseen, TransferOp, Spent
<1> QED BY <1>2, <1>4, <1>5, MineKeeps DEF TransferShielded

\* A transaction the wallet signed.
LEMMA SubmitKeeps ==
    ASSUME Once, SubmitPreSigned PROVE Once'
<1>1. PICK u \in mem.utxos, send \in SendAmounts, fee \in TxFees :
        \E ring \in RingsAround(u, mem.utxos), k1, k2 \in UnusedKeys :
            /\ TransferOK(TransferOp(u, ring, send, fee, k1, k2), mem, disk)
            /\ Mine(TransferOp(u, ring, send, fee, k1, k2))
  BY DEF SubmitPreSigned
<1>2. PICK ring \in RingsAround(u, mem.utxos), k1 \in UnusedKeys, k2 \in UnusedKeys :
        /\ TransferOK(TransferOp(u, ring, send, fee, k1, k2), mem, disk)
        /\ Mine(TransferOp(u, ring, send, fee, k1, k2))
  BY <1>1
<1>3. u \in Output /\ ring \in SUBSET Keys /\ send \in Nat /\ fee \in Nat
      /\ k1 \in Keys /\ k2 \in Keys
  BY NodeConstants, RingBuilt DEF Once, ChainTyped, UnusedKeys, Keys
<1>4. WellBuilt(TransferOp(u, ring, send, fee, k1, k2))
  BY <1>3, TransferBuilt
<1>5. Unseen(TransferOp(u, ring, send, fee, k1, k2))
  BY <1>2 DEF Unseen, TransferOK, TransferOp, Spent
<1> QED BY <1>2, <1>4, <1>5, MineKeeps DEF SubmitPreSigned

\* A withdrawal.
LEMMA WithdrawKeeps ==
    ASSUME Once, WithdrawShielded PROVE Once'
<1>1. PICK u \in mem.utxos, gross \in WithdrawAmounts, k \in UnusedKeys :
        /\ ~ Spent(u.key, mem, disk)
        /\ Mine(WithdrawOp(u, gross, WithdrawBps, k))
  BY DEF WithdrawShielded
<1>2. u \in Output /\ gross \in Nat /\ WithdrawBps \in Nat /\ k \in Keys
  BY NodeConstants, LedgerConstants DEF Once, ChainTyped, UnusedKeys, Keys
<1>3. WellBuilt(WithdrawOp(u, gross, WithdrawBps, k))
  BY <1>2, WithdrawBuilt
<1>4. Unseen(WithdrawOp(u, gross, WithdrawBps, k))
  BY <1>1 DEF Unseen, WithdrawOp, Spent
<1> QED BY <1>1, <1>3, <1>4, MineKeeps DEF WithdrawShielded

\* The treasury takes fees.
LEMMA ClaimKeeps ==
    ASSUME Once, ClaimTreasuryFees PROVE Once'
<1>1. Reversible' /\ Unlocked'
  BY UnlockedKept DEF Once, ClaimTreasuryFees
<1>2. /\ disk'.chain = disk.chain /\ disk'.utxos = disk.utxos
      /\ disk'.spent = disk.spent /\ disk'.events = disk.events
  BY DEF ClaimTreasuryFees, ClaimFromVault, Saved, DiskFault
<1>3. mem'.utxos = mem.utxos /\ top' = top
  BY DEF ClaimTreasuryFees, ClaimFromVault, WithVault
<1> QED BY <1>1, <1>2, <1>3, ChainKept DEF Once, ChainTyped

\* No event is in the index, so the mint is checked against it in one step.
LEMMA DirectDepositKeeps ==
    ASSUME Once, DirectDeposit PROVE Once'
<1>1. PICK event \in DirectEvents : event \notin disk.events /\ DepositMined(event)
  BY DEF DirectDeposit
<1>2. event \in Events
  BY NodeConstants
<1> QED BY <1>1, <1>2, DepositKeeps DEF DirectDeposit

\* A block of a peer.
LEMMA RemoteKeeps ==
    ASSUME Once, ApplyRemoteBlock PROVE Once'
<1>r. Reversible' /\ Unlocked'
  BY UnlockedKept DEF Once, ApplyRemoteBlock
<1>1. ASSUME NEW s \in PeerSignatures, NEW h \in NewHashes(top + 1), NEW op \in PeerOps, NEW v,
             ValidBlock([height |-> top + 1, hash |-> h, prev |-> HashAt(disk, top),
                         validator |-> s.validator, signers |-> s.signers, op |-> op],
                        mem, disk, top),
             Commit([height |-> top + 1, hash |-> h, prev |-> HashAt(disk, top),
                     validator |-> s.validator, signers |-> s.signers, op |-> op], v),
             mem' = Grown(op, v)
      PROVE  Once'
  <2> DEFINE b == [height |-> top + 1, hash |-> h, prev |-> HashAt(disk, top),
                   validator |-> s.validator, signers |-> s.signers, op |-> op]
  <2>1. WellBuilt(op) /\ op \in Op /\ op.outs \subseteq Output
    BY PeerOpsBuilt DEF Once, WellBuilt, Op
  <2>2. s.validator \in Validators /\ s.signers \in SUBSET Validators
    BY NodeConstants
  <2>3. b \in Block
    BY <2>1, <2>2, NextBlockTyped DEF Once
  <2>4. b.height = top + 1 /\ b.op = op
    OBVIOUS
  <2>5. mem'.utxos \subseteq Output
    BY <1>1, <2>1 DEF Grown, Once, ChainTyped
  <2>6. Commit(b, v) /\ ValidBlock(b, mem, disk, top)
    BY <1>1
  <2> HIDE DEF b
  <2>7. Unseen(op)
    BY <2>1, <2>4, <2>6, ValidIsUnseen
  <2>8. \A i \in 1 .. top : Apart(disk.chain[i].op, b.op)
    <3>1. 1 .. top \subseteq 1 .. Len(disk.chain)
      BY LenProperties DEF Once, ChainTyped
    <3> QED BY <2>4, <2>7, <3>1, UnseenIsApart DEF Once
  <2> QED BY <2>3, <2>4, <2>5, <2>6, <2>8, <1>r, CommitKeeps DEF Once
<1>2. ASSUME UNCHANGED disk, mem' = Load(disk), UNCHANGED top
      PROVE  Once'
  <2>1. mem'.utxos \subseteq Output
    BY <1>2 DEF Load, Once, ChainTyped
  <2>2. top' \in 0 .. Len(disk.chain)
    BY <1>2 DEF Once, ChainTyped
  <2> QED BY <1>2, <2>1, <2>2, <1>r, ChainKept DEF Once
<1> QED BY <1>1, <1>2 DEF ApplyRemoteBlock, DiskFault

\* A block of a peer that is refused.
LEMMA RejectKeeps ==
    ASSUME Once, RejectRemoteBlock PROVE Once'
<1>r. Reversible' /\ Unlocked'
  BY UnlockedKept DEF Once, RejectRemoteBlock
<1>1. mem'.utxos \subseteq Output /\ top' \in 0 .. Len(disk.chain) /\ disk' = disk
  BY DEF RejectRemoteBlock, Load, Once, ChainTyped
<1> QED BY <1>1, <1>r, ChainKept DEF Once

\* The block that competes with the tip is typed, whatever becomes of it.
LEMMA CompetitorTyped ==
    ASSUME ChainTyped, top > 0, NEW s \in PeerSignatures, NEW h \in NewHashes(top),
           NEW op \in PeerOps
    PROVE  /\ disk.chain[top] \in Block
           /\ disk.chain[top].height = top
           /\ [height |-> top, hash |-> h, prev |-> disk.chain[top].prev,
               validator |-> s.validator, signers |-> s.signers, op |-> op] \in Block
<1>1. top \in 1 .. Len(disk.chain) /\ top \in Nat
  BY LenProperties DEF ChainTyped
<1>2. disk.chain[top] \in Block /\ disk.chain[top].height = top
  BY <1>1, ElementOfSeq DEF ChainTyped
<1>3. disk.chain[top].prev \in Hashes \cup {GenesisHash}
  BY <1>2 DEF Block
<1>4. op \in Op /\ h \in Hashes
  BY PeerOpsBuilt DEF WellBuilt, NewHashes
<1>5. s.validator \in Validators /\ s.signers \in SUBSET Validators
  BY NodeConstants
<1> QED BY <1>1, <1>2, <1>3, <1>4, <1>5 DEF Block

\* The rollback of the tip: what it takes out of the indexes is the tip's alone,
\* because the blocks are apart.
LEMMA RollbackKeeps ==
    ASSUME ChainTyped, OnceOnly, Indexed, top > 0,
           disk' = RolledBack(disk, top), mem' = Load(disk)', top' = top - 1
    PROVE  /\ ChainTyped' /\ OnceOnly' /\ Indexed'
           /\ top' = Len(disk'.chain)
           /\ \A i \in 1 .. Len(disk'.chain) : Apart(disk'.chain[i].op, disk.chain[top].op)
<1> DEFINE new == disk'.chain
<1>1. top \in 1 .. Len(disk.chain) /\ Len(disk.chain) \in Nat
  BY LenProperties DEF ChainTyped
<1>2. new = SubSeq(disk.chain, 1, top - 1)
  BY DEF RolledBack
<1>3. /\ new \in Seq(Block)
      /\ Len(new) = top - 1
      /\ \A i \in 1 .. top - 1 : new[i] = disk.chain[i]
  <2>1. top - 1 \in Int /\ 1 \in Int /\ \A i \in 1 .. top - 1 : disk.chain[i] \in Block
    BY <1>1, ElementOfSeq DEF ChainTyped
  <2> QED BY <1>1, <1>2, <2>1, SubSeqProperties DEF ChainTyped
<1>4. \A i \in 1 .. Len(new) : i \in 1 .. Len(disk.chain) /\ i # top /\ new[i] = disk.chain[i]
  BY <1>1, <1>3
<1>5. ChainTyped'
  <2>1. disk'.utxos \subseteq Output /\ mem'.utxos \subseteq Output
    BY DEF RolledBack, Load, ChainTyped
  <2>2. \A i \in 1 .. Len(new) : new[i].height = i
    BY <1>4 DEF ChainTyped
  <2>3. top' \in 0 .. Len(new)
    BY <1>1, <1>3
  <2> QED BY <1>3, <2>1, <2>2, <2>3 DEF ChainTyped
<1>6. OnceOnly'
  <2> SUFFICES ASSUME NEW i \in 1 .. Len(new), NEW j \in 1 .. Len(new), i # j
               PROVE  Apart(new[i].op, new[j].op)
    BY DEF OnceOnly, Apart, Sequential
  <2> QED BY <1>4 DEF OnceOnly
<1>7. \A i \in 1 .. Len(new) : Apart(new[i].op, disk.chain[top].op)
  BY <1>1, <1>4 DEF OnceOnly
<1>8. Indexed'
  <2> SUFFICES ASSUME NEW i \in 1 .. Len(new)
               PROVE  /\ new[i].op.spends \subseteq disk'.spent
                      /\ Sequential => new[i].op.events \subseteq disk'.events
    BY DEF Indexed, Covered, Sequential
  <2>1. /\ disk'.spent = disk.spent \ disk.chain[top].op.spends
        /\ disk'.events = disk.events \ disk.chain[top].op.events
    BY DEF RolledBack
  <2>2. Covered(disk.chain[i].op) /\ new[i] = disk.chain[i]
    BY <1>4 DEF Indexed
  <2> QED BY <2>1, <2>2, <1>7 DEF Covered, Apart
<1> QED BY <1>3, <1>5, <1>6, <1>7, <1>8

\* The tip is taken off for a better one.
LEMMA BeginReorgKeeps ==
    ASSUME Once, BeginReorg PROVE Once'
<1>1. ASSUME NEW s \in PeerSignatures, NEW h \in NewHashes(top), NEW op \in PeerOps,
             top' = top - 1, disk' = RolledBack(disk, top), mem' = Load(disk)',
             reorg' = [active |-> TRUE,
                       block |-> [height |-> top, hash |-> h, prev |-> disk.chain[top].prev,
                                  validator |-> s.validator, signers |-> s.signers, op |-> op],
                       localTop |-> disk.chain[top],
                       savedVault |-> mem.vault]
      PROVE  Once'
  <2> DEFINE b == [height |-> top, hash |-> h, prev |-> disk.chain[top].prev,
                   validator |-> s.validator, signers |-> s.signers, op |-> op]
  <2>1. top > 0 /\ top \in Nat
    BY LenProperties DEF BeginReorg, Once, ChainTyped
  <2>2. disk.chain[top] \in Block /\ disk.chain[top].height = top /\ b \in Block
    BY <2>1, CompetitorTyped DEF Once
  <2>3. WellBuilt(b.op)
    BY PeerOpsBuilt DEF Once
  <2>4. /\ ChainTyped' /\ OnceOnly' /\ Indexed'
        /\ top' = Len(disk'.chain)
        /\ \A i \in 1 .. Len(disk'.chain) : Apart(disk'.chain[i].op, disk.chain[top].op)
    BY <1>1, <2>1, RollbackKeeps DEF Once
  <2>5. /\ reorg'.active = TRUE
        /\ reorg'.block = b
        /\ reorg'.localTop = disk.chain[top]
    BY <1>1
  <2>6. b.height = top' + 1 /\ disk.chain[top].height = top' + 1
    BY <1>1, <2>1, <2>2
  <2> HIDE DEF b
  <2>7. reorg'.block.height = top' + 1 /\ reorg'.localTop.height = top' + 1
    BY <2>5, <2>6
  <2>8. reorg'.block \in Block /\ reorg'.localTop \in Block /\ WellBuilt(reorg'.block.op)
    BY <2>2, <2>3, <2>5
  <2>9. \A i \in 1 .. Len(disk'.chain) :
          /\ disk'.chain[i].op.spends \cap reorg'.localTop.op.spends = {}
          /\ Sequential => disk'.chain[i].op.events \cap reorg'.localTop.op.events = {}
    BY <2>4, <2>5 DEF Apart
  <2>10. Reversible'
    BY <2>4, <2>5, <2>7, <2>8, <2>9 DEF Reversible, Apart, Sequential, WellBuilt
  <2> QED BY <2>4, <2>10 DEF Once
<1>2. ASSUME top' \in {top, top - 1}, top > 0, UNCHANGED <<disk, mem, reorg>>, Unlocked
      PROVE  Once'
  <2>1. top' \in 0 .. Len(disk.chain) /\ mem'.utxos \subseteq Output
    BY <1>2, LenProperties DEF Once, ChainTyped
  <2>2. Reversible' /\ Unlocked'
    BY <1>2, UnlockedKept DEF Once
  <2> QED BY <1>2, <2>1, <2>2, ChainKept DEF Once
<1>3. PICK s \in PeerSignatures, h \in NewHashes(top), op \in PeerOps :
        \/ /\ top' = top - 1
           /\ disk' = RolledBack(disk, top)
           /\ mem' = Load(disk)'
           /\ reorg' = [active |-> TRUE,
                        block |-> [height |-> top, hash |-> h, prev |-> disk.chain[top].prev,
                                   validator |-> s.validator, signers |-> s.signers,
                                   op |-> op],
                        localTop |-> disk.chain[top],
                        savedVault |-> mem.vault]
        \/ /\ top' \in {top, top - 1}
           /\ UNCHANGED <<disk, mem, reorg>>
  BY DEF BeginReorg, DiskFault, Load
<1>4. top > 0 /\ Unlocked
  BY DEF BeginReorg
<1> QED BY <1>1, <1>2, <1>3, <1>4

\* The better one is committed, or the old tip again.
LEMMA FinishKeeps ==
    ASSUME Once, FinishReorg PROVE Once'
<1> DEFINE b == reorg.block
<1>1. PICK v : ValidBlock(b, mem, disk, top) /\ Commit(b, v) /\ mem' = Grown(b.op, v)
  BY DEF FinishReorg
<1>2. /\ b \in Block /\ b.height = top + 1 /\ WellBuilt(b.op)
      /\ top = Len(disk.chain)
  BY DEF FinishReorg, Once, Reversible
<1>3. Unseen(b.op)
  BY <1>1, <1>2, ValidIsUnseen
<1>4. \A i \in 1 .. top : Apart(disk.chain[i].op, b.op)
  BY <1>2, <1>3, UnseenIsApart DEF Once
<1>5. mem'.utxos \subseteq Output
  BY <1>1, <1>2 DEF Grown, Once, ChainTyped, WellBuilt, Op
<1>6. Reversible' /\ Unlocked'
  BY NothingToReverse DEF FinishReorg
<1> HIDE DEF b
<1> QED BY <1>1, <1>2, <1>4, <1>5, <1>6, CommitKeeps DEF Once

\* The old tip returns: it was apart from the chain when it was rolled back.
LEMMA AbandonKeeps ==
    ASSUME Once, AbandonReorg PROVE Once'
<1> DEFINE b == reorg.localTop
<1>1. Commit(b, reorg.savedVault) /\ mem' = Load(disk)'
  BY DEF AbandonReorg, Load
<1>2. /\ b \in Block /\ b.height = top + 1 /\ top = Len(disk.chain)
      /\ \A i \in 1 .. top : Apart(disk.chain[i].op, b.op)
  BY DEF AbandonReorg, Once, Reversible
<1>3. mem'.utxos \subseteq Output
  <2>1. b.op.outs \subseteq Output
    BY <1>2 DEF Block, Op
  <2>2. mem'.utxos = Put(disk.utxos, b.op.outs)
    BY <1>1 DEF Load, Commit, Committed
  <2> QED BY <2>1, <2>2, PutTyped DEF Once, ChainTyped
<1>4. Reversible' /\ Unlocked'
  BY NothingToReverse DEF AbandonReorg
<1> HIDE DEF b
<1> QED BY <1>1, <1>2, <1>3, <1>4, CommitKeeps DEF Once

\* Whatever was on the stack is gone; the disk is as some commit left it.
LEMMA RestartKeeps ==
    ASSUME Once, Restarted PROVE Once'
<1>1. Reversible' /\ Unlocked'
  BY NothingToReverse DEF Restarted
<1>2. disk' = disk /\ mem'.utxos \subseteq Output /\ top' \in 0 .. Len(disk.chain)
  BY LenProperties DEF Restarted, Load, Once, ChainTyped
<1> QED BY <1>1, <1>2, ChainKept DEF Once

\* What the threads of the endpoint have found unprocessed are events.
Reported == rpc \in [RpcThreads -> SUBSET Events]

\* Events in flight are events the oracle reported.
LEMMA ReportedKept ==
    ASSUME Reported, Next PROVE Reported'
<1>1. ASSUME NEW t \in RpcThreads, RpcDepositCheck(t) PROVE Reported'
  <2>1. PICK event \in RpcEvents : rpc' = [rpc EXCEPT ![t] = {event}]
    BY <1>1 DEF RpcDepositCheck
  <2> QED BY <2>1, NodeConstants DEF Reported
<1>2. ASSUME NEW t \in RpcThreads, RpcDeposit(t) PROVE Reported'
  BY <1>2 DEF RpcDeposit, Reported
<1>3. ASSUME Restarted PROVE Reported'
  BY <1>3 DEF Restarted, Reported
<1>4. ASSUME UNCHANGED rpc PROVE Reported'
  BY <1>4 DEF Reported
<1> QED BY <1>1, <1>2, <1>3, <1>4
    DEF Next, DirectDeposit, TransferShielded, SubmitPreSigned, WithdrawShielded,
        ClaimTreasuryFees, ApplyRemoteBlock, RejectRemoteBlock, BeginReorg, FinishReorg,
        AbandonReorg, Crash, GuardTerminates

\* Every step keeps the invariant.
LEMMA OnceNext ==
    ASSUME Once, Reported, [Next]_vars PROVE Once'
<1>1. ASSUME NEW t \in RpcThreads, RpcDepositCheck(t) PROVE Once'
  BY <1>1, ChainKept DEF RpcDepositCheck, ledger, Once, ChainTyped, Reversible, Apart,
                         Sequential, WellBuilt
<1>2. ASSUME NEW t \in RpcThreads, RpcDeposit(t) PROVE Once'
  BY <1>2, RpcDepositKeeps DEF Reported
<1>3. CASE Crash
  BY <1>3, RestartKeeps DEF Crash
<1>4. CASE GuardTerminates
  BY <1>4, RestartKeeps DEF GuardTerminates
<1>5. CASE UNCHANGED vars
  BY <1>5 DEF vars, Once, ChainTyped, OnceOnly, Indexed, Covered, Reversible, Apart,
              Sequential, WellBuilt
<1> QED BY <1>1, <1>2, <1>3, <1>4, <1>5, DirectDepositKeeps, TransferKeeps, SubmitKeeps,
           WithdrawKeeps, ClaimKeeps, RemoteKeeps, RejectKeeps, BeginReorgKeeps,
           FinishKeeps, AbandonKeeps
    DEF Next

\* The inductive invariant holds in every behaviour.
THEOREM OnceInvariant == Spec => [](Once /\ Reported)
<1>1. Init => Once /\ Reported
  <2>1. Init => Reported
    BY DEF Init, Reported
  <2> QED BY <2>1, OnceInit
<1>2. Once /\ Reported /\ [Next]_vars => (Once /\ Reported)'
  <2>1. ASSUME Reported, UNCHANGED vars PROVE Reported'
    BY <2>1 DEF vars, Reported
  <2> QED BY <2>1, OnceNext, ReportedKept
<1> QED BY <1>1, <1>2, PTL DEF Spec

-----------------------------------------------------------------------------
(***************************************************************************)
(* What follows for the chain                                               *)
(***************************************************************************)

\* The chain on disk is numbered from one.
LEMMA ChainDomain == ChainTyped => DOMAIN disk.chain = 1 .. Len(disk.chain)
BY LenProperties DEF ChainTyped

\* No output is spent twice on the stored chain: the check against the index of
\* key images (src/node.cpp) is enough, with reorganisations, faults, crashes
\* and concurrent deposits.
THEOREM NeverSpentTwice == Spec => []NoDoubleSpend
<1>1. Once => NoDoubleSpend
  BY ChainDomain DEF Once, OnceOnly, Apart, NoDoubleSpend
<1> QED BY <1>1, OnceInvariant, PTL

\* Without requests on the deposit endpoint (src/rpc_server.cpp), whose check
\* is not atomic with the deposit, no event is minted twice: neither by direct
\* deposits nor by the blocks of peers.
THEOREM NeverMintedTwice == ASSUME RpcThreads = {} PROVE Spec => []EventMintedOnce
<1>1. Once => EventMintedOnce
  BY ChainDomain DEF Once, OnceOnly, Apart, EventMintedOnce, Sequential
<1> QED BY <1>1, OnceInvariant, PTL

-----------------------------------------------------------------------------
(***************************************************************************)
(* PART TWO.  What a node keeps: the types of its state, the solvency of    *)
(* its vaults, the tables that follow the chain.                            *)
(***************************************************************************)
-----------------------------------------------------------------------------
(***************************************************************************)
(* Replays                                                                  *)
(***************************************************************************)

Started == [ok |-> TRUE, vault |-> EmptyVault]

\* The replay of one more block.
Replayed(before, op, d, w) ==
    IF before.ok /\ VaultTakes(before.vault, op, d, w)
      THEN [ok |-> TRUE, vault |-> VaultAfter(before.vault, op, d, w)]
      ELSE [ok |-> FALSE, vault |-> before.vault]

\* What the first m blocks of a chain make of a vault, one after the other.
IsReplay(f, m, chain, d, w) ==
    f = [n \in 0 .. m |-> IF n = 0 THEN Started ELSE Replayed(f[n - 1], chain[n].op, d, w)]

\* What the steps of such a function say of the replay of a whole chain.
RunsAlong(f, chain, d, w) ==
    /\ f[0] = Started
    /\ \A n \in 1 .. Len(chain) : f[n] = Replayed(f[n - 1], chain[n].op, d, w)
    /\ Replay(chain, d, w) = f[Len(chain)]

\* There is such a function for every chain, and Replay is its last value.
LEMMA ReplaySteps ==
    ASSUME NEW chain \in Seq(Block), NEW d, NEW w
    PROVE  \E f : RunsAlong(f, chain, d, w)
<1> DEFINE S == {m \in Nat : \E f : IsReplay(f, m, chain, d, w)}
<1>1. 0 \in S
  <2> DEFINE g == [n \in 0 .. 0 |-> Started]
  <2>1. IsReplay(g, 0, chain, d, w)
    BY DEF IsReplay
  <2> QED BY <2>1
<1>2. ASSUME NEW m \in Nat, m \in S PROVE m + 1 \in S
  <2>1. PICK f : IsReplay(f, m, chain, d, w)
    BY <1>2
  <2> DEFINE g == [n \in 0 .. m + 1 |-> IF n = m + 1 THEN Replayed(f[m], chain[m + 1].op, d, w)
                                                     ELSE f[n]]
  <2>2. \A n \in 0 .. m : g[n] = f[n]
    OBVIOUS
  <2>3. g[m + 1] = Replayed(g[m], chain[m + 1].op, d, w)
    OBVIOUS
  <2>4. g = [n \in 0 .. m + 1 |-> g[n]]
    OBVIOUS
  <2> HIDE DEF g
  <2>5. \A n \in 0 .. m + 1 : g[n] = IF n = 0 THEN Started
                                              ELSE Replayed(g[n - 1], chain[n].op, d, w)
    <3>1. \A n \in 0 .. m : f[n] = IF n = 0 THEN Started
                                            ELSE Replayed(f[n - 1], chain[n].op, d, w)
      BY <2>1 DEF IsReplay
    <3>2. \A n \in 0 .. m : n # 0 => n - 1 \in 0 .. m
      OBVIOUS
    <3>3. \A n \in 0 .. m + 1 : n \in 0 .. m \/ n = m + 1
      OBVIOUS
    <3>4. (m + 1) - 1 = m /\ m + 1 # 0
      OBVIOUS
    <3> QED BY <3>1, <3>2, <3>3, <3>4, <2>2, <2>3
  <2>6. IsReplay(g, m + 1, chain, d, w)
    BY <2>4, <2>5 DEF IsReplay
  <2>7. m + 1 \in Nat
    OBVIOUS
  <2> QED BY <2>6, <2>7
<1> HIDE DEF S
<1>l. Len(chain) \in Nat
  BY LenProperties
<1>3. Nat \subseteq S
  BY <1>1, <1>2, SetInduction
<1>4. PICK h : IsReplay(h, Len(chain), chain, d, w)
  BY <1>3, <1>l DEF S
<1> DEFINE f == CHOOSE f : IsReplay(f, Len(chain), chain, d, w)
<1>5. IsReplay(f, Len(chain), chain, d, w)
  BY <1>4
<1>6. Replay(chain, d, w) = f[Len(chain)]
  BY DEF Replay, Replayed, IsReplay, Started
<1> HIDE DEF f
<1>7. /\ f[0] = Started
      /\ \A n \in 1 .. Len(chain) : f[n] = Replayed(f[n - 1], chain[n].op, d, w)
  <2>1. \A n \in 0 .. Len(chain) : f[n] = IF n = 0 THEN Started
                                          ELSE Replayed(f[n - 1], chain[n].op, d, w)
    BY <1>5 DEF IsReplay
  <2>2. \A n \in 1 .. Len(chain) : n \in 0 .. Len(chain) /\ n # 0
    BY <1>l
  <2>3. 0 \in 0 .. Len(chain)
    BY <1>l
  <2> QED BY <2>1, <2>2, <2>3
<1> QED BY <1>6, <1>7 DEF RunsAlong

-----------------------------------------------------------------------------
(***************************************************************************)
(* Vaults                                                                   *)
(***************************************************************************)

Sound(v) == v \in VaultState /\ Balanced(v)

\* The empty vault is in order.
LEMMA EmptySound == Sound(EmptyVault)
BY VaultLimits DEF Sound, EmptyVault, VaultState, Amount, Balanced

\* A block a vault takes leaves it in order, whatever the rates.
LEMMA VaultAfterSound ==
    ASSUME NEW v, Sound(v), NEW op \in Op, NEW d \in Nat, NEW w \in Nat,
           VaultTakes(v, op, d, w)
    PROVE  Sound(VaultAfter(v, op, d, w))
<1>1. op.kind \in {"deposit", "transfer", "withdraw"} /\ op.gross \in Nat
  BY DEF Op
<1>2. CASE op.kind = "deposit"
  BY <1>1, <1>2, DepositBalances DEF Sound, VaultTakes, VaultAfter
<1>3. CASE op.kind = "withdraw"
  BY <1>1, <1>3, WithdrawBalances DEF Sound, VaultTakes, VaultAfter
<1>4. CASE op.kind = "transfer"
  BY <1>4 DEF VaultAfter
<1> QED BY <1>1, <1>2, <1>3, <1>4

\* A replay ends in a vault in order, also one that stops at a block the vault
\* does not take.
LEMMA ReplaySound ==
    ASSUME NEW chain \in Seq(Block), NEW d \in Nat, NEW w \in Nat
    PROVE  Sound(Replay(chain, d, w).vault)
<1>r1. PICK f : RunsAlong(f, chain, d, w)
  BY ReplaySteps
<1>1. /\ f[0] = Started
      /\ \A n \in 1 .. Len(chain) : f[n] = Replayed(f[n - 1], chain[n].op, d, w)
      /\ Replay(chain, d, w) = f[Len(chain)]
  BY <1>r1 DEF RunsAlong
<1>l. Len(chain) \in Nat
  BY LenProperties
<1> DEFINE S == {n \in Nat : n <= Len(chain) => Sound(f[n].vault)}
<1>2. 0 \in S
  BY <1>1, EmptySound DEF Started
<1>3. ASSUME NEW n \in Nat, n \in S PROVE n + 1 \in S
  <2> SUFFICES ASSUME n + 1 <= Len(chain) PROVE Sound(f[n + 1].vault)
    OBVIOUS
  <2>1. n + 1 \in 1 .. Len(chain) /\ (n + 1) - 1 = n /\ n <= Len(chain)
    BY <1>l
  <2>2. Sound(f[n].vault)
    BY <1>3, <2>1
  <2>3. f[n + 1] = Replayed(f[n], chain[n + 1].op, d, w)
    BY <1>1, <2>1
  <2>4. chain[n + 1].op \in Op
    <3>1. chain[n + 1] \in Block
      BY <2>1, ElementOfSeq
    <3> QED BY <3>1 DEF Block
  <2>5. CASE f[n].ok /\ VaultTakes(f[n].vault, chain[n + 1].op, d, w)
    <3>1. f[n + 1].vault = VaultAfter(f[n].vault, chain[n + 1].op, d, w)
      BY <2>3, <2>5 DEF Replayed
    <3> QED BY <2>2, <2>4, <2>5, <3>1, VaultAfterSound
  <2>6. CASE ~ (f[n].ok /\ VaultTakes(f[n].vault, chain[n + 1].op, d, w))
    <3>1. f[n + 1].vault = f[n].vault
      BY <2>3, <2>6 DEF Replayed
    <3> QED BY <2>2, <3>1
  <2> QED BY <2>5, <2>6
<1> HIDE DEF S
<1>4. Len(chain) \in S
  BY <1>2, <1>3, <1>l, SetInduction
<1> QED BY <1>1, <1>4, <1>l DEF S

\* What a node accepts from a peer its vault takes.
LEMMA ValidIsTaken ==
    ASSUME NEW b, b.op \in Op, ValidBlock(b, mem, disk, top)
    PROVE  VaultTakes(mem.vault, b.op, DepositBps, WithdrawBps)
<1>1. b.op.kind \in {"deposit", "transfer", "withdraw"}
  BY DEF Op
<1>2. CASE b.op.kind = "deposit"
  BY <1>2 DEF ValidBlock, MintOK, VaultTakes
<1>3. CASE b.op.kind = "withdraw"
  BY <1>3 DEF ValidBlock, BurnOK, VaultTakes
<1>4. CASE b.op.kind = "transfer"
  BY <1>4 DEF VaultTakes
<1> QED BY <1>1, <1>2, <1>3, <1>4

-----------------------------------------------------------------------------
(***************************************************************************)
(* The state of the node, typed and with vaults in order                    *)
(***************************************************************************)

Kept ==
    /\ disk \in Disk
    /\ mem \in Memory
    /\ reorg \in {NoReorg} \cup Reorganisation
    /\ claimed \in Nat /\ claims \in Nat /\ faults \in Nat /\ crashes \in Nat
    /\ Balanced(disk.vault)
    /\ Balanced(mem.vault)
    /\ reorg.active => Balanced(reorg.savedVault)

\* RAM recovered from a disk.
LEMMA LoadTyped ==
    ASSUME NEW d \in Disk
    PROVE  Load(d) \in Memory /\ Load(d).vault = d.vault
BY DEF Load, Disk, Memory

\* RAM after a block.
LEMMA GrownTyped ==
    ASSUME mem \in Memory, NEW op \in Op, NEW v, Sound(v)
    PROVE  Grown(op, v) \in Memory /\ Balanced(Grown(op, v).vault)
BY DEF Grown, Memory, Op, Sound

\* The tables after a commit at a height they can take.
LEMMA CommittedTyped ==
    ASSUME disk \in Disk, NEW b \in Block, NEW h \in 0 .. Len(disk.chain), b.height = h + 1,
           NEW v, Sound(v)
    PROVE  Committed(disk, b, v) \in Disk /\ Balanced(Committed(disk, b, v).vault)
<1> DEFINE new == Append(SubSeq(disk.chain, 1, b.height - 1), b)
<1>1. disk.chain \in Seq(Block) /\ disk.utxos \in SUBSET Output
      /\ disk.spent \in SUBSET Keys /\ disk.events \in SUBSET Events
  BY DEF Disk
<1>2. h \in Int /\ b.height - 1 = h
  BY <1>1, LenProperties
<1>3. new \in Seq(Block)
  BY <1>1, <1>2, ChainAfterCommit
<1>4. b.op.outs \in SUBSET Output /\ b.op.spends \in SUBSET Keys /\ b.op.events \in SUBSET Events
  BY DEF Block, Op
<1>5. Put(disk.utxos, b.op.outs) \in SUBSET Output
  BY <1>1, <1>4, PutTyped
<1> HIDE DEF new
<1>6. Committed(disk, b, v) =
        [chain |-> new, utxos |-> Put(disk.utxos, b.op.outs),
         spent |-> disk.spent \cup b.op.spends, events |-> disk.events \cup b.op.events,
         vault |-> v]
  BY DEF Committed, new
<1> QED BY <1>1, <1>3, <1>4, <1>5, <1>6 DEF Disk, Sound

\* The tables after the rollback of the tip.
LEMMA RolledBackTyped ==
    ASSUME disk \in Disk, NEW h \in 1 .. Len(disk.chain)
    PROVE  RolledBack(disk, h) \in Disk /\ Balanced(RolledBack(disk, h).vault)
<1> DEFINE rest == SubSeq(disk.chain, 1, h - 1)
           gone == disk.chain[h].op
<1>1. disk.chain \in Seq(Block) /\ disk.utxos \in SUBSET Output
      /\ disk.spent \in SUBSET Keys /\ disk.events \in SUBSET Events
  BY DEF Disk
<1>2. rest \in Seq(Block)
  <2>1. Len(disk.chain) \in Nat
    BY <1>1, LenProperties
  <2>2. h - 1 \in Int /\ 1 \in Int /\ \A i \in 1 .. h - 1 : disk.chain[i] \in Block
    BY <1>1, <2>1, ElementOfSeq
  <2> QED BY <1>1, <2>2, SubSeqProperties
<1>3. Sound(ReplayedAtDefaults(rest).vault)
  <2>1. DefaultBps \in Nat
    BY DEF DefaultBps
  <2> QED BY <1>2, <2>1, ReplaySound DEF ReplayedAtDefaults
<1> HIDE DEF rest, gone
<1>4. RolledBack(disk, h) =
        [chain |-> rest, utxos |-> {u \in disk.utxos : u.key \notin KeysOf(gone.outs)},
         spent |-> disk.spent \ gone.spends, events |-> disk.events \ gone.events,
         vault |-> ReplayedAtDefaults(rest).vault]
  BY DEF RolledBack, rest, gone
<1> QED BY <1>1, <1>2, <1>3, <1>4 DEF Disk, Sound

-----------------------------------------------------------------------------
(***************************************************************************)
(* Every step keeps them so                                                 *)
(***************************************************************************)

\* A commit of the next block.
LEMMA CommitKept ==
    ASSUME Kept, ChainTyped, NEW b \in Block, b.height = top + 1, NEW v, Sound(v), Commit(b, v)
    PROVE  disk' \in Disk /\ Balanced(disk'.vault)
<1>1. disk' = Committed(disk, b, v) /\ top \in 0 .. Len(disk.chain)
  BY DEF Commit, ChainTyped
<1> QED BY <1>1, CommittedTyped DEF Kept

\* A commit that fails.
LEMMA FaultKept ==
    ASSUME Kept, DiskFault
    PROVE  faults' \in Nat /\ disk' \in Disk /\ Balanced(disk'.vault)
BY DEF Kept, DiskFault

\* What the handlers that do not reorganise leave alone.
LEMMA RestKept ==
    ASSUME Kept, disk' \in Disk, Balanced(disk'.vault), mem' \in Memory, Balanced(mem'.vault),
           faults' \in Nat, UNCHANGED <<reorg, claimed, claims, crashes>>
    PROVE  Kept'
BY DEF Kept, Balanced

\* A block is committed, or not and RAM reloaded.
LEMMA BlockKept ==
    ASSUME Kept, ChainTyped, NEW b \in Block, b.height = top + 1,
           VaultTakes(mem.vault, b.op, DepositBps, WithdrawBps),
           NEW v, v = VaultAfter(mem.vault, b.op, DepositBps, WithdrawBps),
           UNCHANGED <<reorg, claimed, claims, crashes>>,
           \/ Commit(b, v) /\ mem' = Grown(b.op, v) /\ UNCHANGED faults
           \/ DiskFault /\ mem' = Load(disk)
    PROVE  Kept'
<1>o. b.op \in Op
  BY DEF Block
<1>1. Sound(v)
  BY <1>o, VaultAfterSound, LedgerConstants DEF Kept, Memory, Sound
<1>2. CASE Commit(b, v) /\ mem' = Grown(b.op, v) /\ UNCHANGED faults
  <2>1. disk' \in Disk /\ Balanced(disk'.vault)
    BY <1>1, <1>2, CommitKept
  <2>2. mem' \in Memory /\ Balanced(mem'.vault)
    BY <1>o, <1>1, <1>2, GrownTyped DEF Kept
  <2>3. faults' \in Nat
    BY <1>2 DEF Kept
  <2> QED BY <2>1, <2>2, <2>3, RestKept
<1>3. CASE DiskFault /\ mem' = Load(disk)
  <2>1. mem' \in Memory /\ Balanced(mem'.vault)
    BY <1>3, LoadTyped DEF Kept
  <2> QED BY <1>3, <2>1, FaultKept, RestKept
<1> QED BY <1>2, <1>3

\* The tail of the local handlers.
LEMMA MineKept ==
    ASSUME Kept, ChainTyped, NEW op \in Op, Mine(op),
           VaultTakes(mem.vault, op, DepositBps, WithdrawBps),
           UNCHANGED <<reorg, claimed, claims, crashes>>
    PROVE  Kept'
<1> DEFINE v == VaultAfter(mem.vault, op, DepositBps, WithdrawBps)
           Mined(h) == [height |-> top + 1, hash |-> h, prev |-> HashAt(disk, top),
                        validator |-> Self, signers |-> {Self}, op |-> op]
<1>1. ASSUME NEW h \in NewHashes(top + 1), Commit(Mined(h), v), mem' = Grown(op, v),
             UNCHANGED faults
      PROVE  Kept'
  <2>1. Mined(h) \in Block
    BY NextBlockTyped, LedgerConstants
  <2>2. Mined(h).height = top + 1 /\ Mined(h).op = op
    OBVIOUS
  <2> HIDE DEF Mined, v
  <2>3. v = VaultAfter(mem.vault, Mined(h).op, DepositBps, WithdrawBps)
    BY <2>2 DEF v
  <2> QED BY <1>1, <2>1, <2>2, <2>3, BlockKept
<1>2. ASSUME DiskFault, mem' = Load(disk) PROVE Kept'
  <2>1. mem' \in Memory /\ Balanced(mem'.vault)
    BY <1>2, LoadTyped DEF Kept
  <2> QED BY <1>2, <2>1, FaultKept, RestKept
<1> QED BY <1>1, <1>2 DEF Mine

\* buy_shielded asks the vault before it mines.
LEMMA DepositKept ==
    ASSUME Kept, ChainTyped, NEW event \in Events, DepositMined(event),
           UNCHANGED <<reorg, claimed, claims, crashes>>
    PROVE  Kept'
<1> DEFINE op == DepositOp(event, DepositBps)
<1>1. DepositOK(mem.vault, Gross[event], DepositBps) /\ Mine(op)
  BY DEF DepositMined
<1>2. op \in Op
  BY <1>1, DepositBuilt, LedgerConstants DEF DepositOK, WellBuilt
<1>3. op.kind = "deposit" /\ op.gross = Gross[event]
  BY DEF DepositOp
<1> HIDE DEF op
<1>4. VaultTakes(mem.vault, op, DepositBps, WithdrawBps)
  BY <1>1, <1>3 DEF VaultTakes
<1> QED BY <1>1, <1>2, <1>4, MineKept

\* A deposit that throws leaves RAM a vault that is in order, with the block
\* missing.
LEMMA ThrowKept ==
    ASSUME Kept, NEW event \in Events, DepositThrows(event),
           UNCHANGED <<reorg, claimed, claims, crashes>>
    PROVE  Kept'
<1>1. Gross[event] \in Nat /\ DepositOK(mem.vault, Gross[event], DepositBps)
  BY LedgerConstants DEF DepositThrows
<1> DEFINE v == AfterDeposit(mem.vault, Gross[event], DepositBps)
<1>2. v \in VaultState /\ Balanced(v)
  BY <1>1, DepositBalances, LedgerConstants DEF Kept, Memory
<1>3. mem' = WithVault(mem, v) /\ UNCHANGED <<disk, faults>>
  BY DEF DepositThrows
<1> HIDE DEF v
<1>4. mem' \in Memory /\ Balanced(mem'.vault)
  BY <1>2, <1>3 DEF Kept, Memory, WithVault, Balanced
<1> QED BY <1>3, <1>4, RestKept DEF Kept, Balanced

\* A transfer asks nothing of the vault.
LEMMA TransferTaken ==
    ASSUME ChainTyped, NEW u \in mem.utxos, NEW send \in SendAmounts, NEW fee \in TxFees,
           NEW ring \in RingsAround(u, mem.utxos), NEW k1 \in UnusedKeys, NEW k2 \in UnusedKeys,
           NEW op, op = TransferOp(u, ring, send, fee, k1, k2)
    PROVE  op \in Op /\ VaultTakes(mem.vault, op, DepositBps, WithdrawBps)
<1>1. mem.utxos \in SUBSET Output /\ UnusedKeys \subseteq Keys
  BY DEF ChainTyped, UnusedKeys, Keys
<1>2. ring \in SUBSET Keys
  BY <1>1, RingBuilt
<1>3. WellBuilt(op)
  BY <1>1, <1>2, NodeConstants, TransferBuilt
<1>4. op.kind = "transfer"
  BY DEF TransferOp
<1> QED BY <1>3, <1>4 DEF WellBuilt, VaultTakes

\* withdraw_shielded asks the vault before it mines.
LEMMA WithdrawKept ==
    ASSUME Kept, ChainTyped, WithdrawShielded PROVE Kept'
<1>1. PICK u \in mem.utxos, gross \in WithdrawAmounts, k \in UnusedKeys :
        WithdrawOK(mem.vault, gross, WithdrawBps) /\ Mine(WithdrawOp(u, gross, WithdrawBps, k))
  BY DEF WithdrawShielded
<1> DEFINE op == WithdrawOp(u, gross, WithdrawBps, k)
<1>2. u \in Output /\ gross \in Nat /\ WithdrawBps \in Nat /\ k \in Keys
  BY NodeConstants, LedgerConstants DEF ChainTyped, UnusedKeys, Keys
<1>3. op \in Op
  BY <1>2, WithdrawBuilt DEF WellBuilt
<1>4. op.kind = "withdraw" /\ op.gross = gross
  BY DEF WithdrawOp
<1>6. Mine(op)
  BY <1>1
<1> HIDE DEF op
<1>5. VaultTakes(mem.vault, op, DepositBps, WithdrawBps)
  BY <1>1, <1>4 DEF VaultTakes
<1> QED BY <1>3, <1>5, <1>6, MineKept DEF WithdrawShielded

\* A claim that the disk does not save leaves the two vaults apart, each of
\* them in order.
LEMMA ClaimKept ==
    ASSUME Kept, ClaimTreasuryFees PROVE Kept'
<1>1. PICK amount \in ClaimAmounts : ClaimFromVault(amount) /\ claimed' = claimed + amount
  BY DEF ClaimTreasuryFees
<1> DEFINE v == AfterClaim(mem.vault, amount)
<1>2. amount \in Nat /\ mem.vault \in VaultState /\ Balanced(mem.vault)
  BY NodeConstants DEF Kept, Memory
<1>3. v \in VaultState /\ Balanced(v)
  BY <1>1, <1>2, ClaimBalances DEF ClaimFromVault
<1>4. /\ mem' = WithVault(mem, v)
      /\ \/ disk' = Saved(disk, mem'.vault) /\ UNCHANGED faults
         \/ DiskFault
  BY <1>1 DEF ClaimFromVault
<1> HIDE DEF v
<1>5. mem' \in Memory /\ mem'.vault = v
  BY <1>3, <1>4 DEF WithVault, Kept, Memory
<1>6. disk' \in Disk /\ Balanced(disk'.vault) /\ faults' \in Nat
  <2>1. CASE disk' = Saved(disk, mem'.vault) /\ UNCHANGED faults
    BY <1>3, <1>5, <2>1 DEF Saved, Kept, Disk
  <2>2. CASE DiskFault
    BY <2>2, FaultKept
  <2> QED BY <1>4, <2>1, <2>2
<1>7. UNCHANGED <<reorg, crashes>> /\ claimed' \in Nat /\ claims' \in Nat
  BY <1>1, <1>2 DEF ClaimTreasuryFees, Kept
<1> QED BY <1>3, <1>5, <1>6, <1>7 DEF Kept, Balanced

\* A block of a peer.
LEMMA RemoteKept ==
    ASSUME Kept, ChainTyped, ApplyRemoteBlock PROVE Kept'
<1> DEFINE Sent(s, h, op) == [height |-> top + 1, hash |-> h, prev |-> HashAt(disk, top),
                              validator |-> s.validator, signers |-> s.signers, op |-> op]
<1>1. PICK s \in PeerSignatures, h \in NewHashes(top + 1), op \in PeerOps :
        /\ ValidBlock(Sent(s, h, op), mem, disk, top)
        /\ \/ /\ Commit(Sent(s, h, op), VaultAfter(mem.vault, op, DepositBps, WithdrawBps))
              /\ mem' = Grown(op, VaultAfter(mem.vault, op, DepositBps, WithdrawBps))
              /\ UNCHANGED faults
           \/ DiskFault /\ mem' = Load(disk)
  BY DEF ApplyRemoteBlock
<1> DEFINE b == Sent(s, h, op)
<1>2. op \in Op
  BY PeerOpsBuilt DEF WellBuilt
<1>3. b \in Block
  <2>1. s.validator \in Validators /\ s.signers \in SUBSET Validators
    BY NodeConstants
  <2> QED BY <1>2, <2>1, NextBlockTyped
<1>4. b.height = top + 1 /\ b.op = op
  OBVIOUS
<1>5. ValidBlock(b, mem, disk, top)
  BY <1>1
<1>6. UNCHANGED <<reorg, claimed, claims, crashes>>
  BY DEF ApplyRemoteBlock
<1> HIDE DEF Sent, b
<1>7. VaultTakes(mem.vault, b.op, DepositBps, WithdrawBps)
  BY <1>2, <1>4, <1>5, ValidIsTaken
<1>8. \/ /\ Commit(b, VaultAfter(mem.vault, b.op, DepositBps, WithdrawBps))
         /\ mem' = Grown(b.op, VaultAfter(mem.vault, b.op, DepositBps, WithdrawBps))
         /\ UNCHANGED faults
      \/ DiskFault /\ mem' = Load(disk)
  BY <1>1, <1>4 DEF b
<1> QED BY <1>3, <1>4, <1>6, <1>7, <1>8, BlockKept

\* A block refused.
LEMMA RejectKept ==
    ASSUME Kept, RejectRemoteBlock PROVE Kept'
<1>1. mem' \in Memory /\ Balanced(mem'.vault)
  BY LoadTyped DEF RejectRemoteBlock, Kept
<1>2. disk' = disk /\ UNCHANGED <<reorg, claimed, claims, faults, crashes>>
  BY DEF RejectRemoteBlock, bounded
<1> QED BY <1>1, <1>2, RestKept DEF Kept

\* The rollback: the vault saved on the stack is the one RAM had.
LEMMA BeginKept ==
    ASSUME Kept, ChainTyped, BeginReorg PROVE Kept'
<1>1. PICK s \in PeerSignatures, h \in NewHashes(top), op \in PeerOps :
        \/ /\ disk' = RolledBack(disk, top)
           /\ mem' = Load(disk')
           /\ reorg' = [active |-> TRUE,
                        block |-> [height |-> top, hash |-> h, prev |-> disk.chain[top].prev,
                                   validator |-> s.validator, signers |-> s.signers,
                                   op |-> op],
                        localTop |-> disk.chain[top],
                        savedVault |-> mem.vault]
           /\ UNCHANGED faults
        \/ DiskFault /\ UNCHANGED <<mem, reorg>>
        \/ UNCHANGED <<disk, mem, reorg, faults>>
  BY DEF BeginReorg
<1>2. top > 0 /\ UNCHANGED <<claimed, claims, crashes>>
  BY DEF BeginReorg
<1> DEFINE b == [height |-> top, hash |-> h, prev |-> disk.chain[top].prev,
                 validator |-> s.validator, signers |-> s.signers, op |-> op]
<1>3. CASE /\ disk' = RolledBack(disk, top)
           /\ mem' = Load(disk')
           /\ reorg' = [active |-> TRUE, block |-> b, localTop |-> disk.chain[top],
                        savedVault |-> mem.vault]
           /\ UNCHANGED faults
  <2>1. top \in 1 .. Len(disk.chain)
    BY <1>2, LenProperties DEF ChainTyped
  <2>2. disk' \in Disk /\ Balanced(disk'.vault)
    BY <1>3, <2>1, RolledBackTyped DEF Kept
  <2>3. mem' \in Memory /\ Balanced(mem'.vault)
    BY <1>3, <2>2, LoadTyped
  <2>4. b \in Block /\ disk.chain[top] \in Block
    BY <1>2, CompetitorTyped
  <2> HIDE DEF b
  <2>5. mem.vault \in VaultState /\ Balanced(mem.vault)
    BY DEF Kept, Memory
  <2>6. reorg' \in Reorganisation /\ Balanced(reorg'.savedVault)
    BY <1>3, <2>4, <2>5 DEF Reorganisation
  <2> QED BY <1>2, <1>3, <2>2, <2>3, <2>6 DEF Kept, Balanced
<1>4. CASE DiskFault /\ UNCHANGED <<mem, reorg>>
  <2>1. mem' \in Memory /\ Balanced(mem'.vault)
    BY <1>4 DEF Kept
  <2> QED BY <1>2, <1>4, <2>1, FaultKept, RestKept
<1>5. CASE UNCHANGED <<disk, mem, reorg, faults>>
  BY <1>2, <1>5 DEF Kept, Balanced
<1> QED BY <1>1, <1>3, <1>4, <1>5

\* No reorganisation is left.
LEMMA EndKept ==
    ASSUME Kept, disk' \in Disk, Balanced(disk'.vault), mem' \in Memory, Balanced(mem'.vault),
           faults' \in Nat, crashes' \in Nat, reorg' = NoReorg, UNCHANGED <<claimed, claims>>
    PROVE  Kept'
BY DEF Kept, Balanced, NoReorg

\* The block that won is valid: the vault takes it.
LEMMA FinishKept ==
    ASSUME Kept, ChainTyped, Reversible, FinishReorg PROVE Kept'
<1> DEFINE b == reorg.block
           v == VaultAfter(mem.vault, b.op, DepositBps, WithdrawBps)
<1>1. ValidBlock(b, mem, disk, top) /\ Commit(b, v) /\ mem' = Grown(b.op, v)
  BY DEF FinishReorg
<1>2. b \in Block /\ b.height = top + 1 /\ b.op \in Op
  BY DEF FinishReorg, Reversible, Block
<1>3. VaultTakes(mem.vault, b.op, DepositBps, WithdrawBps)
  BY <1>1, <1>2, ValidIsTaken
<1>4. Sound(mem.vault)
  BY DEF Kept, Memory, Sound
<1> HIDE DEF b
<1>5. Sound(v)
  BY <1>2, <1>3, <1>4, VaultAfterSound, LedgerConstants
<1> HIDE DEF v
<1>6. disk' \in Disk /\ Balanced(disk'.vault)
  BY <1>1, <1>2, <1>5, CommitKept
<1>7. mem' \in Memory /\ Balanced(mem'.vault)
  BY <1>1, <1>2, <1>5, GrownTyped DEF Kept
<1>8. reorg' = NoReorg /\ UNCHANGED <<claimed, claims, faults, crashes>>
  BY DEF FinishReorg, bounded
<1> QED BY <1>6, <1>7, <1>8, EndKept DEF Kept

\* The old tip returns with the vault saved on the stack.
LEMMA AbandonKept ==
    ASSUME Kept, ChainTyped, Reversible, AbandonReorg PROVE Kept'
<1> DEFINE b == reorg.localTop
           v == reorg.savedVault
<1>1. Commit(b, v) /\ mem' = Load(disk')
  BY DEF AbandonReorg
<1>2. b \in Block /\ b.height = top + 1
  BY DEF AbandonReorg, Reversible
<1>3. Sound(v)
  <2>1. reorg.active
    BY DEF AbandonReorg
  <2>2. reorg # NoReorg
    BY <2>1 DEF NoReorg
  <2>3. reorg \in Reorganisation /\ Balanced(reorg.savedVault)
    BY <2>1, <2>2 DEF Kept
  <2>4. v \in VaultState
    BY <2>3 DEF Reorganisation
  <2> QED BY <2>3, <2>4 DEF Sound
<1>4. faults' \in Nat /\ reorg' = NoReorg /\ UNCHANGED <<claimed, claims, crashes>>
  BY DEF AbandonReorg, Kept
<1> HIDE DEF b, v
<1>5. disk' \in Disk /\ Balanced(disk'.vault)
  BY <1>1, <1>2, <1>3, CommitKept
<1>6. mem' \in Memory /\ Balanced(mem'.vault)
  BY <1>1, <1>5, LoadTyped
<1> QED BY <1>4, <1>5, <1>6, EndKept DEF Kept

\* A restart loads the disk.
LEMMA RestartKept ==
    ASSUME Kept, Restarted, faults' \in Nat, crashes' \in Nat PROVE Kept'
<1>1. mem' \in Memory /\ Balanced(mem'.vault)
  BY LoadTyped DEF Restarted, Kept
<1> QED BY <1>1, EndKept DEF Restarted, Kept

\* Every step keeps the types and the vaults.
LEMMA KeptNext ==
    ASSUME Kept, Once, Reported, [Next]_vars PROVE Kept'
<1>1. ASSUME NEW t \in RpcThreads, RpcDepositCheck(t) PROVE Kept'
  BY <1>1 DEF RpcDepositCheck, ledger, bounded, Kept, Balanced
<1>2. ASSUME NEW t \in RpcThreads, RpcDeposit(t) PROVE Kept'
  <2>1. UNCHANGED <<reorg, claimed, claims, crashes>>
    BY <1>2 DEF RpcDeposit
  <2>2. PICK event \in rpc[t] : BuyShielded(event)
    BY <1>2 DEF RpcDeposit
  <2>3. event \in Events
    BY <2>2 DEF Reported
  <2>4. CASE DepositMined(event)
    BY <2>1, <2>3, <2>4, DepositKept DEF Once
  <2>5. CASE DepositThrows(event)
    BY <2>1, <2>3, <2>5, ThrowKept
  <2>6. CASE DepositRefused(event)
    BY <2>1, <2>6 DEF DepositRefused, ledger, Kept, Balanced
  <2> QED BY <2>2, <2>4, <2>5, <2>6 DEF BuyShielded
<1>3. CASE DirectDeposit
  <2>1. PICK event \in DirectEvents : DepositMined(event)
    BY <1>3 DEF DirectDeposit
  <2> QED BY <1>3, <2>1, DepositKept, NodeConstants DEF DirectDeposit, Once
<1>4. CASE TransferShielded
  <2>1. PICK u \in mem.utxos, send \in SendAmounts, fee \in TxFees :
          \E ring \in RingsAround(u, mem.utxos), k1, k2 \in UnusedKeys :
            Mine(TransferOp(u, ring, send, fee, k1, k2))
    BY <1>4 DEF TransferShielded
  <2>2. PICK ring \in RingsAround(u, mem.utxos), k1 \in UnusedKeys, k2 \in UnusedKeys :
          Mine(TransferOp(u, ring, send, fee, k1, k2))
    BY <2>1
  <2> QED BY <1>4, <2>2, TransferTaken, MineKept DEF TransferShielded, Once
<1>5. CASE SubmitPreSigned
  <2>1. PICK u \in mem.utxos, send \in SendAmounts, fee \in TxFees :
          \E ring \in RingsAround(u, mem.utxos), k1, k2 \in UnusedKeys :
            Mine(TransferOp(u, ring, send, fee, k1, k2))
    BY <1>5 DEF SubmitPreSigned
  <2>2. PICK ring \in RingsAround(u, mem.utxos), k1 \in UnusedKeys, k2 \in UnusedKeys :
          Mine(TransferOp(u, ring, send, fee, k1, k2))
    BY <2>1
  <2> QED BY <1>5, <2>2, TransferTaken, MineKept DEF SubmitPreSigned, Once
<1>6. CASE Crash
  <2>1. faults' \in Nat /\ crashes' \in Nat
    BY <1>6 DEF Crash, Kept
  <2> QED BY <1>6, <2>1, RestartKept DEF Crash
<1>7. CASE GuardTerminates
  <2>1. faults' \in Nat /\ crashes' \in Nat
    BY <1>7 DEF GuardTerminates, Kept
  <2> QED BY <1>7, <2>1, RestartKept DEF GuardTerminates
<1>8. CASE UNCHANGED vars
  BY <1>8 DEF vars, Kept, Balanced
<1> QED BY <1>1, <1>2, <1>3, <1>4, <1>5, <1>6, <1>7, <1>8, WithdrawKept, ClaimKept, RemoteKept,
           RejectKept, BeginKept, FinishKept, AbandonKept
    DEF Next, Once

\* They hold on an empty disk.
LEMMA KeptInit == Init => Kept
<1> SUFFICES ASSUME Init PROVE Kept
  OBVIOUS
<1>1. EmptyVault \in VaultState /\ Balanced(EmptyVault)
  BY EmptySound DEF Sound
<1>2. EmptyDisk \in Disk
  BY <1>1, EmptySeq DEF EmptyDisk, Disk
<1>3. EmptyDisk.vault = EmptyVault
  BY DEF EmptyDisk
<1> QED BY <1>1, <1>2, <1>3, LoadTyped DEF Init, Kept, NoReorg

\* The invariant of the chain and that of the rest hold together.
THEOREM StateInvariant == Spec => [](Once /\ Reported /\ Kept)
<1>1. Init => Kept
  BY KeptInit
<1>2. (Once /\ Reported) /\ Kept /\ [Next]_vars => Kept'
  BY KeptNext
<1> QED BY <1>1, <1>2, OnceInvariant, PTL DEF Spec

-----------------------------------------------------------------------------
(***************************************************************************)
(* Deposits that throw                                                      *)
(*                                                                         *)
(* buy_shielded raises the vault in RAM before it makes the output, and     *)
(* puts nothing back when that throws (src/node.cpp:155).  What the vault   *)
(* counts is exact until the first such deposit (NoneThrown) and not after  *)
(* it; the chain, its tables and the solvency of the vaults do not depend   *)
(* on it.                                                                   *)
(***************************************************************************)

NoneThrown == throws = 0

Counted == throws \in Nat

\* No step takes a deposit that threw back.
LEMMA CountedNext ==
    ASSUME Counted, [Next]_vars PROVE Counted' /\ (NoneThrown' => NoneThrown)
<1>1. ASSUME UNCHANGED throws PROVE Counted' /\ (NoneThrown' => NoneThrown)
  BY <1>1 DEF Counted, NoneThrown
<1>2. ASSUME NEW event, DepositThrows(event) PROVE Counted' /\ (NoneThrown' => NoneThrown)
  <2>1. throws \in Nat /\ throws' = throws + 1
    BY <1>2 DEF DepositThrows, Counted
  <2> QED BY <2>1 DEF Counted, NoneThrown
<1>3. ASSUME NEW t \in RpcThreads, RpcDeposit(t)
      PROVE  Counted' /\ (NoneThrown' => NoneThrown)
  BY <1>1, <1>2, <1>3 DEF RpcDeposit, BuyShielded, DepositMined, DepositRefused
<1>4. ASSUME NEW t \in RpcThreads, RpcDepositCheck(t) PROVE UNCHANGED throws
  BY <1>4 DEF RpcDepositCheck, bounded
<1>5. CASE DirectDeposit \/ TransferShielded \/ SubmitPreSigned \/ WithdrawShielded
           \/ ClaimTreasuryFees
  BY <1>1, <1>5 DEF DirectDeposit, DepositMined, TransferShielded, SubmitPreSigned,
                    WithdrawShielded, ClaimTreasuryFees
<1>6. CASE ApplyRemoteBlock \/ RejectRemoteBlock \/ BeginReorg \/ FinishReorg \/ AbandonReorg
  BY <1>1, <1>6 DEF ApplyRemoteBlock, RejectRemoteBlock, BeginReorg, FinishReorg,
                    AbandonReorg, bounded
<1>7. CASE Crash \/ GuardTerminates \/ UNCHANGED vars
  BY <1>1, <1>7 DEF Crash, GuardTerminates, Restarted, vars
<1> QED BY <1>1, <1>3, <1>4, <1>5, <1>6, <1>7 DEF Next

\* The count of deposits that threw is a number.
LEMMA CountedKept == Spec => []Counted
<1>1. Init => Counted
  BY DEF Init, Counted
<1>2. Counted /\ [Next]_vars => Counted'
  BY CountedNext
<1> QED BY <1>1, <1>2, PTL DEF Spec

\* Deposits come through the endpoint, or in the process for a wallet of the node.
\* Without the endpoint none throws.
LEMMA NeverThrows == ASSUME RpcThreads = {} PROVE Spec => []NoneThrown
<1>1. Init => NoneThrown
  BY DEF Init, NoneThrown
<1>2. NoneThrown /\ [Next]_vars => NoneThrown'
  <2> SUFFICES ASSUME [Next]_vars PROVE UNCHANGED throws
    BY DEF NoneThrown
  <2>1. ASSUME NEW t \in RpcThreads PROVE FALSE
    BY <2>1
  <2>2. CASE DirectDeposit \/ TransferShielded \/ SubmitPreSigned \/ WithdrawShielded
             \/ ClaimTreasuryFees
    BY <2>2 DEF DirectDeposit, DepositMined, TransferShielded, SubmitPreSigned,
                WithdrawShielded, ClaimTreasuryFees
  <2>3. CASE ApplyRemoteBlock \/ RejectRemoteBlock \/ BeginReorg \/ FinishReorg \/ AbandonReorg
    BY <2>3 DEF ApplyRemoteBlock, RejectRemoteBlock, BeginReorg, FinishReorg,
                AbandonReorg, bounded
  <2>4. CASE Crash \/ GuardTerminates \/ UNCHANGED vars
    BY <2>4 DEF Crash, GuardTerminates, Restarted, vars
  <2> QED BY <2>1, <2>2, <2>3, <2>4 DEF Next
<1> QED BY <1>1, <1>2, PTL DEF Spec

-----------------------------------------------------------------------------

\* Tables, memory, the stack of a reorganisation and the counters keep their
\* types: amounts fit uint64_t, whatever is deposited, withdrawn, claimed,
\* rolled back, replayed and restored (src/node.cpp, src/vault.cpp).
THEOREM TypesKept == Spec => []TypeOK
<1>1. Once /\ Reported /\ Kept /\ Counted => TypeOK
  BY LenProperties DEF Once, ChainTyped, Reported, Kept, Counted, TypeOK
<1> QED BY <1>1, StateInvariant, CountedKept, PTL

\* The vaults in RAM and in LMDB are solvent after every step of every handler,
\* after a failed write, a rollback at default rates and a crash.
THEOREM NodeVaultsSolvent == Spec => []VaultsSolvent
<1>1. Kept => VaultsSolvent
  BY BalancedIsSolvent DEF Kept, Disk, Memory, VaultsSolvent
<1> QED BY <1>1, StateInvariant, PTL

-----------------------------------------------------------------------------
(***************************************************************************)
(* The tables and the chain                                                 *)
(*                                                                         *)
(* The tables of LMDB are kept block by block.  They are what the chain     *)
(* says while no event is minted twice (EventMintedOnce) and the cached top *)
(* is the chain's (Level): a rollback that fails after it has moved the top *)
(* makes the next commit overwrite a block whose entries stay.              *)
(* IndexesMatchChain is not inductive: a rollback takes out outputs         *)
(* by their keys, so no two blocks may create the same key (Distinct); a    *)
(* peer's deposit is checked against the events only, so an output with the *)
(* key of an event must be that event's (Distinct again); and a block spends*)
(* what RAM knows, so RAM must know what the disk does (Mirrored).          *)
(***************************************************************************)

Level == top = Len(disk.chain)

Mirrored == mem.utxos = disk.utxos /\ mem.spent = disk.spent

\* One key, one block; the key of an event, a block that has the event.
Distinct ==
    /\ \A i, j \in 1 .. Len(disk.chain) :
            i # j => KeysOf(disk.chain[i].op.outs) \cap KeysOf(disk.chain[j].op.outs) = {}
    /\ \A i \in 1 .. Len(disk.chain) :
            KeysOf(disk.chain[i].op.outs) \cap Events \subseteq disk.chain[i].op.events

\* What a block spends or mixes in, some block below it made.
MadeBelow(chain, i) ==
    \A k \in chain[i].op.spends \cup chain[i].op.ring :
        \E j \in 1 .. i - 1 : k \in KeysOf(chain[j].op.outs)

Grounded == \A i \in 1 .. Len(disk.chain) : MadeBelow(disk.chain, i)

\* The keys of what a handler puts in a block: those of its events, or fresh.
WellKeyed(op) ==
    /\ WellBuilt(op)
    /\ op.kind = "deposit" => KeysOf(op.outs) \subseteq op.events
    /\ op.kind # "deposit" => KeysOf(op.outs) \subseteq FreshKeys
    /\ op.kind # "transfer" => op.ring = {}

\* What a reorganisation holds fits the chain it has rolled back.
Restorable ==
    reorg.active =>
        /\ WellKeyed(reorg.block.op)
        /\ KeysOf(reorg.block.op.outs) \cap FreshKeys \cap KeysOf(disk.utxos) = {}
        /\ KeysOf(reorg.localTop.op.outs) \cap KeysOf(disk.utxos) = {}
        /\ KeysOf(reorg.localTop.op.outs) \cap Events \subseteq reorg.localTop.op.events
        /\ reorg.localTop.op.spends \cup reorg.localTop.op.ring \subseteq KeysOf(disk.utxos)

Settled == Mirrored /\ IndexesMatchChain /\ Distinct /\ Grounded /\ Restorable

-----------------------------------------------------------------------------
(***************************************************************************)
(* Lemmas on chains one block apart                                         *)
(***************************************************************************)

OneMore(short, long) ==
    /\ short \in Seq(Block) /\ long \in Seq(Block)
    /\ Len(long) = Len(short) + 1
    /\ \A i \in 1 .. Len(short) : long[i] = short[i]

Tip(chain) == chain[Len(chain)].op

\* What is on the longer chain is on the shorter or in its tip.
LEMMA UnionsGrow ==
    ASSUME NEW short, NEW long, OneMore(short, long)
    PROVE  /\ SpentOn(long) = SpentOn(short) \cup Tip(long).spends
           /\ EventsOn(long) = EventsOn(short) \cup Tip(long).events
           /\ OutputsOn(long) = OutputsOn(short) \cup Tip(long).outs
<1>1. /\ DOMAIN short = 1 .. Len(short) /\ DOMAIN long = 1 .. Len(long)
      /\ Len(short) \in Nat /\ Len(long) \in Nat
  BY LenProperties DEF OneMore
<1>2. \A i : i \in DOMAIN long <=> i \in DOMAIN short \/ i = Len(long)
  BY <1>1 DEF OneMore
<1>3. \A i \in DOMAIN short : long[i] = short[i]
  BY <1>1 DEF OneMore
<1>4. SpentOn(long) = SpentOn(short) \cup Tip(long).spends
  BY <1>2, <1>3 DEF SpentOn, Tip
<1>5. EventsOn(long) = EventsOn(short) \cup Tip(long).events
  BY <1>2, <1>3 DEF EventsOn, Tip
<1>6. OutputsOn(long) = OutputsOn(short) \cup Tip(long).outs
  BY <1>2, <1>3 DEF OutputsOn, Tip
<1> QED BY <1>4, <1>5, <1>6

\* The keys of the outputs on a chain are those its blocks make.
LEMMA KeysOnChain ==
    ASSUME NEW chain \in Seq(Block)
    PROVE  \A k : k \in KeysOf(OutputsOn(chain))
                    <=> \E j \in 1 .. Len(chain) : k \in KeysOf(chain[j].op.outs)
<1>1. DOMAIN chain = 1 .. Len(chain)
  BY LenProperties
<1> QED BY <1>1 DEF KeysOf, OutputsOn

\* RingsAreGrounded, block by block.
LEMMA GroundedIs ==
    ASSUME ChainTyped PROVE RingsAreGrounded <=> Grounded
<1>1. disk.chain \in Seq(Block) /\ DOMAIN disk.chain = 1 .. Len(disk.chain) /\ Len(disk.chain) \in Nat
  BY LenProperties DEF ChainTyped
<1>2. ASSUME NEW i \in 1 .. Len(disk.chain)
      PROVE  disk.chain[i].op.spends \cup disk.chain[i].op.ring
                \subseteq KeysOf(OutputsOn(SubSeq(disk.chain, 1, i - 1)))
             <=> MadeBelow(disk.chain, i)
  <2> DEFINE below == SubSeq(disk.chain, 1, i - 1)
  <2>1. i - 1 \in Int /\ 1 \in Int /\ \A j \in 1 .. i - 1 : disk.chain[j] \in Block
    BY <1>1, ElementOfSeq
  <2>2. /\ below \in Seq(Block)
        /\ Len(below) = i - 1
        /\ \A j \in 1 .. i - 1 : below[j] = disk.chain[j]
    BY <1>1, <2>1, SubSeqProperties
  <2> HIDE DEF below
  <2>3. \A k : k \in KeysOf(OutputsOn(below))
                 <=> \E j \in 1 .. i - 1 : k \in KeysOf(disk.chain[j].op.outs)
    BY <2>2, KeysOnChain
  <2> QED BY <2>3 DEF MadeBelow, below
<1> QED BY <1>1, <1>2 DEF RingsAreGrounded, Grounded

\* An output with the key of an event is there because the event was minted.
LEMMA EventKeys ==
    ASSUME ChainTyped, IndexesMatchChain, Distinct
    PROVE  KeysOf(disk.utxos) \cap Events \subseteq disk.events
<1>1. disk.chain \in Seq(Block) /\ DOMAIN disk.chain = 1 .. Len(disk.chain)
  BY LenProperties DEF ChainTyped
<1>2. \A k \in KeysOf(disk.utxos) :
        \E j \in 1 .. Len(disk.chain) : k \in KeysOf(disk.chain[j].op.outs)
  BY <1>1, KeysOnChain DEF IndexesMatchChain
<1>3. \A j \in 1 .. Len(disk.chain) : disk.chain[j].op.events \subseteq EventsOn(disk.chain)
  BY <1>1 DEF EventsOn
<1> QED BY <1>2, <1>3 DEF Distinct, IndexesMatchChain

-----------------------------------------------------------------------------
(***************************************************************************)
(* Commits and rollbacks settle                                             *)
(***************************************************************************)

\* What Restorable says of a step that leaves no reorganisation.
LEMMA NothingToRestore ==
    ASSUME ~ reorg'.active PROVE Restorable'
BY DEF Restorable

\* A block on top of the chain, with new keys, that spends what is on it.
LEMMA CommitSettles ==
    ASSUME Once, Once', Level, Mirrored, IndexesMatchChain, Distinct, Grounded,
           NEW b \in Block, b.height = top + 1, NEW v, Commit(b, v),
           KeysOf(b.op.outs) \cap KeysOf(disk.utxos) = {},
           KeysOf(b.op.outs) \cap Events \subseteq b.op.events,
           b.op.spends \cup b.op.ring \subseteq KeysOf(disk.utxos),
           mem' = Grown(b.op, v) \/ mem' = Load(disk'),
           ~ reorg'.active
    PROVE  Settled'
<1> DEFINE old == disk.chain
           new == disk'.chain
<1>1. old \in Seq(Block) /\ Len(old) \in Nat /\ top = Len(old) /\ top \in 0 .. Len(old)
  BY LenProperties DEF Once, ChainTyped, Level
<1>2. new = Append(SubSeq(old, 1, top), b)
  <2>1. b.height - 1 = top
    BY <1>1
  <2> QED BY <2>1 DEF Commit, Committed
<1>3. /\ new \in Seq(Block)
      /\ Len(new) = top + 1
      /\ \A i \in 1 .. top : new[i] = old[i]
      /\ new[top + 1] = b
  BY <1>1, <1>2, ChainAfterCommit
<1>4. OneMore(old, new) /\ Tip(new) = b.op
  BY <1>1, <1>3 DEF OneMore, Tip
<1>5. /\ disk'.utxos = disk.utxos \cup b.op.outs
      /\ disk'.spent = disk.spent \cup b.op.spends
      /\ disk'.events = disk.events \cup b.op.events
  <2>1. Put(disk.utxos, b.op.outs) = disk.utxos \cup b.op.outs
    BY DEF Put, KeysOf
  <2> QED BY <2>1 DEF Commit, Committed
<1>6. Mirrored'
  BY <1>5 DEF Mirrored, Grown, Load
<1>7. IndexesMatchChain'
  BY <1>4, <1>5, UnionsGrow DEF IndexesMatchChain
<1>8. \A i \in 1 .. Len(new) : i \in 1 .. top \/ i = top + 1
  BY <1>1, <1>3
<1>9. \A i \in 1 .. top : KeysOf(old[i].op.outs) \cap KeysOf(b.op.outs) = {}
  <2>1. \A i \in 1 .. top : KeysOf(old[i].op.outs) \subseteq KeysOf(OutputsOn(old))
    BY <1>1, KeysOnChain
  <2> QED BY <2>1 DEF IndexesMatchChain
<1>10. Distinct'
  <2>1. ASSUME NEW i \in 1 .. Len(new), NEW j \in 1 .. Len(new), i # j
        PROVE  KeysOf(new[i].op.outs) \cap KeysOf(new[j].op.outs) = {}
    BY <2>1, <1>1, <1>3, <1>8, <1>9 DEF Distinct
  <2>2. ASSUME NEW i \in 1 .. Len(new)
        PROVE  KeysOf(new[i].op.outs) \cap Events \subseteq new[i].op.events
    BY <1>1, <1>3, <1>8 DEF Distinct
  <2> QED BY <2>1, <2>2 DEF Distinct
<1>11. Grounded'
  <2> SUFFICES ASSUME NEW i \in 1 .. Len(new) PROVE MadeBelow(new, i)
    BY DEF Grounded, MadeBelow
  <2>1. CASE i \in 1 .. top
    <3>1. MadeBelow(old, i) /\ new[i] = old[i]
      BY <2>1, <1>1, <1>3 DEF Grounded
    <3>2. \A j \in 1 .. i - 1 : new[j] = old[j]
      BY <2>1, <1>1, <1>3
    <3> QED BY <3>1, <3>2 DEF MadeBelow
  <2>2. CASE i = top + 1
    <3>1. \A k \in b.op.spends \cup b.op.ring :
            \E j \in 1 .. Len(old) : k \in KeysOf(old[j].op.outs)
      BY <1>1, KeysOnChain DEF IndexesMatchChain
    <3>2. 1 .. i - 1 = 1 .. Len(old) /\ new[i] = b
      BY <2>2, <1>1, <1>3
    <3>3. \A j \in 1 .. Len(old) : new[j] = old[j]
      BY <1>1, <1>3
    <3> QED BY <3>1, <3>2, <3>3 DEF MadeBelow
  <2> QED BY <1>8, <2>1, <2>2
<1> QED BY <1>6, <1>7, <1>10, <1>11, NothingToRestore DEF Settled

\* A step that leaves the chain and its tables alone.
LEMMA SettledKept ==
    ASSUME Settled, Mirrored',
           disk'.chain = disk.chain, disk'.utxos = disk.utxos,
           disk'.spent = disk.spent, disk'.events = disk.events,
           reorg' = reorg \/ ~ reorg'.active
    PROVE  Settled'
<1>1. IndexesMatchChain' /\ Distinct' /\ Grounded'
  BY DEF Settled, IndexesMatchChain, Distinct, Grounded, MadeBelow
<1>2. Restorable'
  BY DEF Settled, Restorable, WellKeyed, WellBuilt
<1> QED BY <1>1, <1>2 DEF Settled

\* The rollback of the tip takes out what the tip put in, and nothing else.
LEMMA RollbackSettles ==
    ASSUME Once, Once', Level, Mirrored, IndexesMatchChain, Distinct, Grounded,
           EventMintedOnce, top > 0, disk' = RolledBack(disk, top), mem' = Load(disk')
    PROVE  /\ Mirrored' /\ IndexesMatchChain' /\ Distinct' /\ Grounded'
           /\ disk'.utxos \subseteq disk.utxos
           /\ KeysOf(disk.chain[top].op.outs) \cap KeysOf(disk'.utxos) = {}
           /\ KeysOf(disk.chain[top].op.outs) \cap Events \subseteq disk.chain[top].op.events
           /\ disk.chain[top].op.spends \cup disk.chain[top].op.ring \subseteq KeysOf(disk'.utxos)
<1> DEFINE old == disk.chain
           new == disk'.chain
           gone == disk.chain[top].op
<1>1. old \in Seq(Block) /\ Len(old) \in Nat /\ top = Len(old) /\ top \in 1 .. Len(old)
  BY LenProperties DEF Once, ChainTyped, Level
<1>2. new = SubSeq(old, 1, top - 1)
  BY DEF RolledBack
<1>3. /\ new \in Seq(Block)
      /\ Len(new) = top - 1
      /\ \A i \in 1 .. top - 1 : new[i] = old[i]
  <2>1. /\ top - 1 \in Int /\ 1 \in Int
        /\ \A i \in 1 .. top - 1 : old[i] \in Block
    BY <1>1, ElementOfSeq
  <2>2. /\ SubSeq(old, 1, top - 1) \in Seq(Block)
        /\ Len(SubSeq(old, 1, top - 1)) = IF 1 <= top - 1 THEN (top - 1) - 1 + 1 ELSE 0
        /\ \A i \in 1 .. (top - 1) - 1 + 1 : SubSeq(old, 1, top - 1)[i] = old[1 + i - 1]
    BY <1>1, <2>1, SubSeqProperties
  <2>3. (top - 1) - 1 + 1 = top - 1 /\ \A i \in 1 .. top - 1 : 1 + i - 1 = i
    BY <1>1
  <2>4. Len(SubSeq(old, 1, top - 1)) = top - 1
    BY <1>1, <2>2, <2>3
  <2> QED BY <1>2, <2>2, <2>3, <2>4
<1>4. OneMore(new, old) /\ Tip(old) = gone
  BY <1>1, <1>3 DEF OneMore, Tip
<1>5. /\ disk'.utxos = {u \in disk.utxos : u.key \notin KeysOf(gone.outs)}
      /\ disk'.spent = disk.spent \ gone.spends
      /\ disk'.events = disk.events \ gone.events
  BY DEF RolledBack
<1> HIDE DEF gone
<1>6. /\ SpentOn(old) = SpentOn(new) \cup gone.spends
      /\ EventsOn(old) = EventsOn(new) \cup gone.events
      /\ OutputsOn(old) = OutputsOn(new) \cup gone.outs
  BY <1>4, UnionsGrow
<1>7. \A i \in 1 .. Len(new) : i \in 1 .. Len(old) /\ i # top /\ new[i] = old[i]
  BY <1>1, <1>3
<1>d. DOMAIN new = 1 .. Len(new)
  BY <1>3, LenProperties
<1>8. \A i \in DOMAIN new : /\ new[i].op.spends \cap gone.spends = {}
                            /\ new[i].op.events \cap gone.events = {}
                            /\ KeysOf(new[i].op.outs) \cap KeysOf(gone.outs) = {}
  <2> SUFFICES ASSUME NEW i \in 1 .. Len(new)
               PROVE  /\ new[i].op.spends \cap gone.spends = {}
                      /\ new[i].op.events \cap gone.events = {}
                      /\ KeysOf(new[i].op.outs) \cap KeysOf(gone.outs) = {}
    BY <1>d
  <2>1. i \in 1 .. Len(old) /\ i # top /\ new[i] = old[i]
    BY <1>7
  <2>2. Apart(old[i].op, gone)
    BY <1>1, <2>1 DEF Once, OnceOnly, gone
  <2>3. KeysOf(old[i].op.outs) \cap KeysOf(gone.outs) = {}
    BY <1>1, <2>1 DEF Distinct, gone
  <2>4. old[i].op.events \cap gone.events = {}
    <3>1. DOMAIN old = 1 .. Len(old)
      BY <1>1, LenProperties
    <3> QED BY <1>1, <2>1, <3>1 DEF EventMintedOnce, gone
  <2> QED BY <2>1, <2>2, <2>3, <2>4 DEF Apart
<1>9. SpentOn(new) \cap gone.spends = {} /\ EventsOn(new) \cap gone.events = {}
  <2>1. \A k \in SpentOn(new) : \E i \in DOMAIN new : k \in new[i].op.spends
    BY DEF SpentOn
  <2>2. \A e \in EventsOn(new) : \E i \in DOMAIN new : e \in new[i].op.events
    BY DEF EventsOn
  <2> QED BY <2>1, <2>2, <1>8
<1>10. \A u \in OutputsOn(new) : u.key \notin KeysOf(gone.outs)
  <2>1. \A u \in OutputsOn(new) : u.key \in KeysOf(OutputsOn(new))
    BY DEF KeysOf
  <2> QED BY <2>1, <1>3, <1>8, <1>d, KeysOnChain
<1>11. \A u \in gone.outs : u.key \in KeysOf(gone.outs)
  BY DEF KeysOf
<1>12. IndexesMatchChain'
  <2>1. disk'.utxos = OutputsOn(new)
    BY <1>5, <1>6, <1>10, <1>11 DEF IndexesMatchChain
  <2> QED BY <2>1, <1>5, <1>6, <1>9 DEF IndexesMatchChain
<1>13. Mirrored'
  BY DEF Mirrored, Load
<1>14. disk.utxos = disk'.utxos \cup gone.outs
  BY <1>6, <1>12 DEF IndexesMatchChain
<1>15. KeysOf(gone.outs) \cap KeysOf(disk'.utxos) = {}
  BY <1>5 DEF KeysOf
<1>16. MadeBelow(old, top)
  BY <1>1 DEF Grounded
<1>17. gone.spends \cup gone.ring \subseteq KeysOf(disk'.utxos)
  <2>1. \A k \in gone.spends \cup gone.ring :
            \E j \in 1 .. Len(new) : k \in KeysOf(new[j].op.outs)
    BY <1>3, <1>16 DEF MadeBelow, gone
  <2>2. \A k \in gone.spends \cup gone.ring : k \in KeysOf(OutputsOn(new))
    BY <2>1, <1>3, KeysOnChain
  <2> QED BY <2>2, <1>12 DEF IndexesMatchChain
<1>18. Distinct'
  <2>1. \A i, j \in 1 .. Len(new) :
            i # j => KeysOf(new[i].op.outs) \cap KeysOf(new[j].op.outs) = {}
    BY <1>7 DEF Distinct
  <2>2. \A i \in 1 .. Len(new) : KeysOf(new[i].op.outs) \cap Events \subseteq new[i].op.events
    BY <1>7 DEF Distinct
  <2> QED BY <2>1, <2>2 DEF Distinct
<1>19. Grounded'
  <2> SUFFICES ASSUME NEW i \in 1 .. Len(new) PROVE MadeBelow(new, i)
    BY DEF Grounded, MadeBelow
  <2>1. MadeBelow(old, i)
    BY <1>7 DEF Grounded
  <2>2. new[i] = old[i] /\ \A j \in 1 .. i - 1 : new[j] = old[j]
    BY <1>1, <1>3
  <2> QED BY <2>1, <2>2 DEF MadeBelow
<1>20. KeysOf(gone.outs) \cap Events \subseteq gone.events
  BY <1>1 DEF Distinct, gone
<1> QED BY <1>5, <1>12, <1>13, <1>15, <1>17, <1>18, <1>19, <1>20 DEF gone

-----------------------------------------------------------------------------
(***************************************************************************)
(* What the handlers put in blocks                                          *)
(***************************************************************************)

\* A deposit's output has the key of its event.
LEMMA DepositKeyed ==
    ASSUME NEW event \in Events, NEW bps \in Nat, bps <= BpsOfWhole
    PROVE  WellKeyed(DepositOp(event, bps))
<1>1. WellBuilt(DepositOp(event, bps))
  BY DepositBuilt
<1> QED BY <1>1 DEF WellKeyed, DepositOp, KeysOf

\* The key of a change output is the one drawn for it.
LEMMA ChangeKeyed ==
    ASSUME NEW k \in FreshKeys, NEW amount PROVE KeysOf(Change(k, amount)) \subseteq {k}
BY DEF KeysOf, Change

\* A transfer's outputs have the keys drawn for them.
LEMMA TransferKeyed ==
    ASSUME NEW u \in Output, NEW ring \in SUBSET Keys, NEW send \in Nat, NEW fee \in Nat,
           NEW k1 \in FreshKeys, NEW k2 \in FreshKeys
    PROVE  /\ WellKeyed(TransferOp(u, ring, send, fee, k1, k2))
           /\ KeysOf(TransferOp(u, ring, send, fee, k1, k2).outs) \subseteq {k1, k2}
<1> DEFINE op == TransferOp(u, ring, send, fee, k1, k2)
<1>1. WellBuilt(op)
  BY TransferBuilt DEF Keys
<1>2. op.outs = {[key |-> k1, amount |-> send]} \cup Change(k2, u.amount - send - fee)
  BY DEF TransferOp
<1>3. KeysOf(op.outs) \subseteq {k1, k2}
  <2>1. \A o \in Change(k2, u.amount - send - fee) : o.key = k2
    BY DEF Change
  <2> QED BY <1>2, <2>1 DEF KeysOf
<1> QED BY <1>1, <1>3 DEF WellKeyed, TransferOp

\* A withdrawal's change has the key drawn for it.
LEMMA WithdrawKeyed ==
    ASSUME NEW u \in Output, NEW gross \in Nat, NEW bps \in Nat, NEW k \in FreshKeys,
           NEW op, op = WithdrawOp(u, gross, bps, k)
    PROVE  /\ WellKeyed(op) /\ KeysOf(op.outs) \subseteq {k}
           /\ op.spends = {u.key} /\ op.ring = {}
<1>1. WellBuilt(op)
  BY WithdrawBuilt DEF Keys
<1>2. KeysOf(op.outs) \subseteq {k}
  BY ChangeKeyed DEF WithdrawOp
<1> QED BY <1>1, <1>2 DEF WellKeyed, WithdrawOp

\* What peers send draws its keys from the unused ones.
LEMMA PeerOpsKeyed ==
    ASSUME ChainTyped, NEW op \in PeerOps
    PROVE  WellKeyed(op) /\ KeysOf(op.outs) \cap FreshKeys \cap KeysOf(disk.utxos) = {}
<1>k. UnusedKeys \subseteq FreshKeys \ KeysOf(disk.utxos) /\ mem.utxos \in SUBSET Output
  BY DEF UnusedKeys, ChainTyped, KeysOf
<1>1. ASSUME NEW event \in PeerEvents, NEW bps \in PeerBps, op = DepositOp(event, bps)
      PROVE  WellKeyed(op) /\ KeysOf(op.outs) \cap FreshKeys = {}
  <2>1. event \in Events /\ bps \in Nat /\ bps <= BpsOfWhole
    BY PeerInputs
  <2>2. WellKeyed(op)
    BY <1>1, <2>1, DepositKeyed
  <2>3. op.kind = "deposit" /\ op.events = {event}
    BY <1>1 DEF DepositOp
  <2> QED BY <2>1, <2>2, <2>3, LedgerConstants DEF WellKeyed
<1>2. ASSUME NEW u \in mem.utxos, NEW fee \in TxFees, NEW ring \in RingsAround(u, mem.utxos),
             NEW k \in UnusedKeys, NEW send \in {u.amount - fee} \cap Nat,
             op = TransferOp(u, ring, send, fee, k, k)
      PROVE  WellKeyed(op) /\ KeysOf(op.outs) \subseteq {k}
  <2>1. ring \in SUBSET Keys
    BY <1>k, RingBuilt
  <2>2. u \in Output /\ send \in Nat /\ fee \in Nat /\ k \in FreshKeys
    BY <1>k, NodeConstants
  <2>3. WellKeyed(op) /\ KeysOf(op.outs) \subseteq {k, k}
    BY <1>2, <2>1, <2>2, TransferKeyed
  <2> QED BY <2>3
<1>3. ASSUME NEW u \in mem.utxos, NEW gross \in WithdrawAmounts, NEW bps \in PeerBps,
             NEW k \in UnusedKeys, op = WithdrawOp(u, gross, bps, k)
      PROVE  WellKeyed(op) /\ KeysOf(op.outs) \subseteq {k}
  <2>1. bps \in Nat /\ gross \in Nat
    BY PeerInputs
  <2> QED BY <1>3, <2>1, <1>k, WithdrawKeyed
<1>4. \/ WellKeyed(op) /\ KeysOf(op.outs) \cap FreshKeys = {}
      \/ \E k \in UnusedKeys : WellKeyed(op) /\ KeysOf(op.outs) \subseteq {k}
  BY <1>1, <1>2, <1>3 DEF PeerOps, PeerTransfers
<1> QED BY <1>4, <1>k

\* A ring is made of keys the ledger in RAM has, the spent one among them.
LEMMA RingInside ==
    ASSUME NEW utxos, NEW u \in utxos, NEW ring \in RingsAround(u, utxos)
    PROVE  ring \subseteq KeysOf(utxos) /\ u.key \in KeysOf(utxos)
BY DEF RingsAround, kSubset, KeysOf

\* A block that passes validation creates keys that are new and spends what
\* exists, when its fresh keys were unused.
LEMMA ValidFits ==
    ASSUME ChainTyped, Mirrored, IndexesMatchChain, Distinct,
           NEW b, WellKeyed(b.op), ValidBlock(b, mem, disk, top),
           KeysOf(b.op.outs) \cap FreshKeys \cap KeysOf(disk.utxos) = {}
    PROVE  /\ KeysOf(b.op.outs) \cap KeysOf(disk.utxos) = {}
           /\ KeysOf(b.op.outs) \cap Events \subseteq b.op.events
           /\ b.op.spends \cup b.op.ring \subseteq KeysOf(disk.utxos)
<1>1. b.op.kind \in {"deposit", "transfer", "withdraw"} /\ b.op.events \subseteq Events
  BY DEF WellKeyed, WellBuilt, Op
<1>2. CASE b.op.kind = "deposit"
  <2>1. b.op.events \cap disk.events = {}
    BY <1>2 DEF ValidBlock, MintOK, Processed
  <2>2. KeysOf(b.op.outs) \subseteq b.op.events /\ b.op.spends = {} /\ b.op.ring = {}
    BY <1>2 DEF WellKeyed, WellBuilt
  <2> QED BY <1>1, <2>1, <2>2, EventKeys
<1>3. CASE b.op.kind = "transfer"
  <2>1. b.op.spends \subseteq b.op.ring /\ b.op.ring \subseteq KeysOf(mem.utxos)
    BY <1>3 DEF ValidBlock, TransferOK
  <2>2. KeysOf(b.op.outs) \subseteq FreshKeys
    BY <1>3 DEF WellKeyed
  <2> QED BY <2>1, <2>2, LedgerConstants DEF Mirrored
<1>4. CASE b.op.kind = "withdraw"
  <2>1. b.op.spends \subseteq KeysOf(mem.utxos)
    BY <1>4 DEF ValidBlock, BurnOK, KeysOf
  <2>2. KeysOf(b.op.outs) \subseteq FreshKeys /\ b.op.ring = {}
    BY <1>4 DEF WellKeyed
  <2> QED BY <2>1, <2>2, LedgerConstants DEF Mirrored
<1> QED BY <1>1, <1>2, <1>3, <1>4

\* Only the events of a block lend their keys to its outputs.
LEMMA KeyedEvents ==
    ASSUME NEW op, WellKeyed(op) PROVE KeysOf(op.outs) \cap Events \subseteq op.events
BY LedgerConstants DEF WellKeyed

-----------------------------------------------------------------------------
(***************************************************************************)
(* Every step settles                                                       *)
(***************************************************************************)

\* RAM is what the disk is after a failed write.
LEMMA ReloadSettles ==
    ASSUME Settled, DiskFault, mem' = Load(disk), UNCHANGED reorg PROVE Settled'
<1>1. Mirrored'
  BY DEF Mirrored, Load, DiskFault
<1> QED BY <1>1, SettledKept DEF DiskFault

\* The tail of the local handlers.
LEMMA MineSettles ==
    ASSUME Once, Once', Level, Settled, Unlocked, UNCHANGED reorg,
           NEW op, WellKeyed(op), Mine(op),
           KeysOf(op.outs) \cap KeysOf(disk.utxos) = {},
           op.spends \cup op.ring \subseteq KeysOf(disk.utxos)
    PROVE  Settled'
<1> DEFINE Mined(h) == [height |-> top + 1, hash |-> h, prev |-> HashAt(disk, top),
                        validator |-> Self, signers |-> {Self}, op |-> op]
<1>o. op \in Op
  BY DEF WellKeyed, WellBuilt
<1>1. ASSUME NEW h \in NewHashes(top + 1), NEW v, Commit(Mined(h), v), mem' = Grown(op, v)
      PROVE  Settled'
  <2>1. Mined(h) \in Block
    BY <1>o, NextBlockTyped, LedgerConstants DEF Once
  <2>2. Mined(h).height = top + 1 /\ Mined(h).op = op
    OBVIOUS
  <2>3. ~ reorg'.active
    BY DEF Unlocked
  <2> HIDE DEF Mined
  <2>4. WellBuilt(Mined(h).op) /\ KeysOf(op.outs) \cap Events \subseteq op.events
    BY <2>2, KeyedEvents DEF WellKeyed
  <2> QED BY <1>1, <2>1, <2>2, <2>3, <2>4, CommitSettles DEF Settled
<1> QED BY <1>1, ReloadSettles DEF Mine

\* A deposit in the process: the event is in no table.
LEMMA DirectDepositSettles ==
    ASSUME Once, Once', Level, Settled, DirectDeposit PROVE Settled'
<1>1. PICK event \in DirectEvents :
        event \notin disk.events \cup KeysOf(mem.utxos) /\ DepositMined(event)
  BY DEF DirectDeposit
<1>2. event \in Events
  BY NodeConstants
<1> DEFINE op == DepositOp(event, DepositBps)
<1>3. WellKeyed(op)
  BY <1>1, <1>2, LedgerConstants, DepositKeyed DEF DepositMined, DepositOK
<1>4. op.kind = "deposit" /\ op.spends = {} /\ op.ring = {} /\ op.events = {event}
  BY DEF DepositOp
<1>5. Mine(op)
  BY <1>1 DEF DepositMined
<1> HIDE DEF op
<1>6. KeysOf(op.outs) \cap KeysOf(disk.utxos) = {}
  BY <1>1, <1>3, <1>4 DEF WellKeyed, Settled, Mirrored
<1> QED BY <1>3, <1>4, <1>5, <1>6, MineSettles DEF DirectDeposit

\* An event that is minted once is in no table before its block.
LEMMA EventIsNew ==
    ASSUME ChainTyped, Level, IndexesMatchChain, EventMintedOnce',
           NEW b \in Block, b.height = top + 1, NEW v, Commit(b, v)
    PROVE  b.op.events \cap disk.events = {}
<1> DEFINE old == disk.chain
           new == disk'.chain
<1>1. /\ old \in Seq(Block) /\ Len(old) \in Nat /\ top = Len(old) /\ top \in 0 .. Len(old)
      /\ DOMAIN old = 1 .. Len(old)
  BY LenProperties DEF ChainTyped, Level
<1>2. new = Append(SubSeq(old, 1, top), b)
  <2>1. b.height - 1 = top
    BY <1>1
  <2> QED BY <2>1 DEF Commit, Committed
<1>3. /\ new \in Seq(Block)
      /\ Len(new) = top + 1
      /\ \A i \in 1 .. top : new[i] = old[i]
      /\ new[top + 1] = b
  BY <1>1, <1>2, ChainAfterCommit
<1>4. DOMAIN new = 1 .. top + 1
  BY <1>3, LenProperties
<1>5. \A e \in disk.events : \E i \in 1 .. top : e \in old[i].op.events
  BY <1>1 DEF IndexesMatchChain, EventsOn
<1>6. \A i \in 1 .. top : i \in DOMAIN new /\ top + 1 \in DOMAIN new /\ i # top + 1
  BY <1>1, <1>4
<1>7. \A i \in 1 .. top : old[i].op.events \cap b.op.events = {}
  BY <1>3, <1>6 DEF EventMintedOnce
<1> QED BY <1>5, <1>7

\* A deposit through the endpoint, of an event nobody minted in the meantime.
LEMMA RpcDepositSettles ==
    ASSUME Once, Once', Level, Settled, EventMintedOnce', Reported,
           NEW t \in RpcThreads, RpcDeposit(t)
    PROVE  Settled'
<1>0. Unlocked /\ UNCHANGED reorg
  BY DEF RpcDeposit
<1>1. PICK event \in rpc[t] : BuyShielded(event)
  BY DEF RpcDeposit
<1>2. event \in Events
  BY <1>1 DEF Reported
<1>3. ASSUME UNCHANGED disk, mem'.utxos = mem.utxos, mem'.spent = mem.spent PROVE Settled'
  BY <1>0, <1>3, SettledKept DEF Settled, Mirrored
<1>4. CASE DepositThrows(event)
  BY <1>3, <1>4 DEF DepositThrows, WithVault
<1>5. CASE DepositRefused(event)
  BY <1>3, <1>5 DEF DepositRefused, ledger
<1>6. CASE DepositMined(event)
  <2> DEFINE op == DepositOp(event, DepositBps)
             Mined(h) == [height |-> top + 1, hash |-> h, prev |-> HashAt(disk, top),
                          validator |-> Self, signers |-> {Self}, op |-> op]
  <2>1. WellKeyed(op)
    BY <1>2, <1>6, LedgerConstants, DepositKeyed DEF DepositMined, DepositOK
  <2>2. op.kind = "deposit" /\ op.spends = {} /\ op.ring = {} /\ op.events = {event}
    BY DEF DepositOp
  <2>3. Mine(op)
    BY <1>6 DEF DepositMined
  <2>o. op \in Op
    BY <2>1 DEF WellKeyed, WellBuilt
  <2> HIDE DEF op
  <2>4. ASSUME NEW h \in NewHashes(top + 1), NEW v, Commit(Mined(h), v) PROVE Settled'
    <3>1. Mined(h) \in Block
      BY <2>o, NextBlockTyped, LedgerConstants DEF Once
    <3>2. Mined(h).height = top + 1 /\ Mined(h).op = op
      OBVIOUS
    <3> HIDE DEF Mined
    <3>3. event \notin disk.events
      BY <2>2, <2>4, <3>1, <3>2, EventIsNew DEF Once, Settled
    <3>4. event \notin KeysOf(disk.utxos)
      BY <1>2, <3>3, EventKeys DEF Once, Settled
    <3>5. KeysOf(op.outs) \cap KeysOf(disk.utxos) = {}
      BY <2>1, <2>2, <3>4 DEF WellKeyed
    <3> QED BY <1>0, <2>1, <2>2, <2>3, <3>5, MineSettles
  <2>5. CASE DiskFault /\ mem' = Load(disk)
    BY <1>0, <2>5, ReloadSettles
  <2> QED BY <2>3, <2>4, <2>5 DEF Mine
<1> QED BY <1>1, <1>4, <1>5, <1>6 DEF BuyShielded

\* A transfer, built here or by a client: ring and spent key are in the ledger
\* in RAM, the new keys in none.
LEMMA TransferSettles ==
    ASSUME Once, Once', Level, Settled, Unlocked, UNCHANGED reorg,
           NEW u \in mem.utxos, NEW send \in SendAmounts, NEW fee \in TxFees,
           NEW ring \in RingsAround(u, mem.utxos), NEW k1 \in UnusedKeys, NEW k2 \in UnusedKeys,
           NEW op, op = TransferOp(u, ring, send, fee, k1, k2), Mine(op)
    PROVE  Settled'
<1>1. /\ mem.utxos \in SUBSET Output /\ u \in Output /\ send \in Nat /\ fee \in Nat
      /\ k1 \in FreshKeys /\ k2 \in FreshKeys
      /\ k1 \notin KeysOf(disk.utxos) /\ k2 \notin KeysOf(disk.utxos)
  BY NodeConstants DEF Once, ChainTyped, UnusedKeys, KeysOf
<1>2. ring \in SUBSET Keys /\ ring \subseteq KeysOf(mem.utxos) /\ u.key \in KeysOf(mem.utxos)
  BY <1>1, RingBuilt, RingInside
<1>3. WellKeyed(op) /\ KeysOf(op.outs) \subseteq {k1, k2}
  <2>1. /\ WellKeyed(TransferOp(u, ring, send, fee, k1, k2))
        /\ KeysOf(TransferOp(u, ring, send, fee, k1, k2).outs) \subseteq {k1, k2}
    BY <1>1, <1>2, TransferKeyed
  <2> QED BY <2>1
<1>4. op.spends = {u.key} /\ op.ring = ring
  BY DEF TransferOp
<1> QED BY <1>1, <1>2, <1>3, <1>4, MineSettles DEF Settled, Mirrored

\* A withdrawal.
LEMMA WithdrawSettles ==
    ASSUME Once, Once', Level, Settled, WithdrawShielded PROVE Settled'
<1>1. PICK u \in mem.utxos, gross \in WithdrawAmounts, k \in UnusedKeys :
        Mine(WithdrawOp(u, gross, WithdrawBps, k))
  BY DEF WithdrawShielded
<1> DEFINE op == WithdrawOp(u, gross, WithdrawBps, k)
<1>2. /\ u \in Output /\ gross \in Nat /\ WithdrawBps \in Nat
      /\ k \in FreshKeys /\ k \notin KeysOf(disk.utxos) /\ u.key \in KeysOf(mem.utxos)
  BY NodeConstants, LedgerConstants DEF Once, ChainTyped, UnusedKeys, KeysOf
<1>3. /\ WellKeyed(op) /\ KeysOf(op.outs) \subseteq {k}
      /\ op.spends = {u.key} /\ op.ring = {}
  BY <1>2, WithdrawKeyed
<1>4. Mine(op)
  BY <1>1
<1> HIDE DEF op
<1> QED BY <1>2, <1>3, <1>4, MineSettles DEF WithdrawShielded, Settled, Mirrored

\* A block of a peer.
LEMMA RemoteSettles ==
    ASSUME Once, Once', Level, Settled, ApplyRemoteBlock PROVE Settled'
<1> DEFINE Sent(s, h, op) == [height |-> top + 1, hash |-> h, prev |-> HashAt(disk, top),
                              validator |-> s.validator, signers |-> s.signers, op |-> op]
<1>1. PICK s \in PeerSignatures, h \in NewHashes(top + 1), op \in PeerOps :
        /\ ValidBlock(Sent(s, h, op), mem, disk, top)
        /\ \/ /\ Commit(Sent(s, h, op), VaultAfter(mem.vault, op, DepositBps, WithdrawBps))
              /\ mem' = Grown(op, VaultAfter(mem.vault, op, DepositBps, WithdrawBps))
           \/ DiskFault /\ mem' = Load(disk)
  BY DEF ApplyRemoteBlock
<1> DEFINE b == Sent(s, h, op)
           v == VaultAfter(mem.vault, op, DepositBps, WithdrawBps)
<1>2. WellKeyed(op) /\ KeysOf(op.outs) \cap FreshKeys \cap KeysOf(disk.utxos) = {} /\ op \in Op
  BY PeerOpsKeyed DEF Once, WellKeyed, WellBuilt
<1>3. b \in Block
  <2>1. s.validator \in Validators /\ s.signers \in SUBSET Validators
    BY NodeConstants
  <2> QED BY <1>2, <2>1, NextBlockTyped DEF Once
<1>4. b.height = top + 1 /\ b.op = op
  OBVIOUS
<1>5. ValidBlock(b, mem, disk, top)
  BY <1>1
<1>6. UNCHANGED reorg /\ ~ reorg'.active
  BY DEF ApplyRemoteBlock, Unlocked
<1>7. \/ Commit(b, v) /\ mem' = Grown(op, v)
      \/ DiskFault /\ mem' = Load(disk)
  BY <1>1
<1> HIDE DEF Sent, b, v
<1>8. /\ KeysOf(b.op.outs) \cap KeysOf(disk.utxos) = {}
      /\ KeysOf(b.op.outs) \cap Events \subseteq b.op.events
      /\ b.op.spends \cup b.op.ring \subseteq KeysOf(disk.utxos)
  BY <1>2, <1>4, <1>5, ValidFits DEF Once, Settled
<1>9. WellBuilt(b.op)
  BY <1>2, <1>4 DEF WellKeyed
<1> QED BY <1>3, <1>4, <1>6, <1>7, <1>8, <1>9, CommitSettles, ReloadSettles DEF Settled

\* The rollback of the tip; without one, the top is where it was.
LEMMA BeginSettles ==
    ASSUME Once, Once', Level, Level', Settled, EventMintedOnce, BeginReorg
    PROVE  Settled'
<1>1. PICK s \in PeerSignatures, h \in NewHashes(top), op \in PeerOps :
        \/ /\ disk' = RolledBack(disk, top)
           /\ mem' = Load(disk')
           /\ reorg' = [active |-> TRUE,
                        block |-> [height |-> top, hash |-> h, prev |-> disk.chain[top].prev,
                                   validator |-> s.validator, signers |-> s.signers,
                                   op |-> op],
                        localTop |-> disk.chain[top],
                        savedVault |-> mem.vault]
        \/ UNCHANGED <<disk, mem, reorg>>
  BY DEF BeginReorg, DiskFault
<1> DEFINE b == [height |-> top, hash |-> h, prev |-> disk.chain[top].prev,
                 validator |-> s.validator, signers |-> s.signers, op |-> op]
<1>2. CASE /\ disk' = RolledBack(disk, top)
           /\ mem' = Load(disk')
           /\ reorg' = [active |-> TRUE, block |-> b, localTop |-> disk.chain[top],
                        savedVault |-> mem.vault]
  <2>1. top > 0
    BY DEF BeginReorg
  <2>2. /\ Mirrored' /\ IndexesMatchChain' /\ Distinct' /\ Grounded'
        /\ disk'.utxos \subseteq disk.utxos
        /\ KeysOf(disk.chain[top].op.outs) \cap KeysOf(disk'.utxos) = {}
        /\ KeysOf(disk.chain[top].op.outs) \cap Events \subseteq disk.chain[top].op.events
        /\ disk.chain[top].op.spends \cup disk.chain[top].op.ring \subseteq KeysOf(disk'.utxos)
    BY <1>2, <2>1, RollbackSettles DEF Settled
  <2>3. WellKeyed(op) /\ KeysOf(op.outs) \cap FreshKeys \cap KeysOf(disk'.utxos) = {}
    BY <2>2, PeerOpsKeyed DEF Once, KeysOf
  <2>4. reorg'.block.op = op /\ reorg'.localTop = disk.chain[top]
    BY <1>2
  <2>5. Restorable'
    BY <2>2, <2>3, <2>4 DEF Restorable, WellKeyed, WellBuilt
  <2> QED BY <2>2, <2>5 DEF Settled
<1>3. CASE UNCHANGED <<disk, mem, reorg>>
  BY <1>3, SettledKept DEF Settled, Mirrored
<1> QED BY <1>1, <1>2, <1>3

\* The block that won the fork choice takes the place of the tip.
LEMMA FinishSettles ==
    ASSUME Once, Once', Level, Settled, FinishReorg PROVE Settled'
<1> DEFINE b == reorg.block
<1>1. PICK v : ValidBlock(b, mem, disk, top) /\ Commit(b, v) /\ mem' = Grown(b.op, v)
  BY DEF FinishReorg
<1>2. b \in Block /\ b.height = top + 1
  BY DEF FinishReorg, Once, Reversible
<1>3. WellKeyed(b.op) /\ KeysOf(b.op.outs) \cap FreshKeys \cap KeysOf(disk.utxos) = {}
  BY DEF FinishReorg, Settled, Restorable
<1>4. ~ reorg'.active
  BY DEF FinishReorg, NoReorg
<1> HIDE DEF b
<1>5. /\ KeysOf(b.op.outs) \cap KeysOf(disk.utxos) = {}
      /\ KeysOf(b.op.outs) \cap Events \subseteq b.op.events
      /\ b.op.spends \cup b.op.ring \subseteq KeysOf(disk.utxos)
  BY <1>1, <1>3, ValidFits DEF Once, Settled
<1>6. WellBuilt(b.op)
  BY <1>3 DEF WellKeyed
<1> QED BY <1>1, <1>2, <1>4, <1>5, <1>6, CommitSettles DEF Settled

\* The old tip returns: its keys went with it, and what it spends stayed.
LEMMA AbandonSettles ==
    ASSUME Once, Once', Level, Settled, AbandonReorg PROVE Settled'
<1> DEFINE b == reorg.localTop
<1>1. Commit(b, reorg.savedVault) /\ mem' = Load(disk')
  BY DEF AbandonReorg
<1>2. b \in Block /\ b.height = top + 1
  BY DEF AbandonReorg, Once, Reversible
<1>3. /\ KeysOf(b.op.outs) \cap KeysOf(disk.utxos) = {}
      /\ KeysOf(b.op.outs) \cap Events \subseteq b.op.events
      /\ b.op.spends \cup b.op.ring \subseteq KeysOf(disk.utxos)
  BY DEF AbandonReorg, Settled, Restorable
<1>4. ~ reorg'.active
  BY DEF AbandonReorg, NoReorg
<1> HIDE DEF b
<1> QED BY <1>1, <1>2, <1>3, <1>4, CommitSettles DEF Settled

\* One more step of any handler that leaves the cached top where the chain's is
\* and mints no event again.
LEMMA SettledNext ==
    ASSUME Once, Once', Reported, Level, Level', EventMintedOnce, EventMintedOnce', Settled,
           [Next]_vars
    PROVE  Settled'
<1>1. ASSUME NEW t \in RpcThreads, RpcDeposit(t) \/ RpcDepositCheck(t) PROVE Settled'
  <2>1. CASE RpcDeposit(t)
    BY <2>1, RpcDepositSettles
  <2>2. CASE RpcDepositCheck(t)
    BY <2>2, SettledKept DEF RpcDepositCheck, ledger, Settled, Mirrored
  <2> QED BY <1>1, <2>1, <2>2
<1>2. CASE TransferShielded
  <2>1. PICK u \in mem.utxos, send \in SendAmounts, fee \in TxFees :
          \E ring \in RingsAround(u, mem.utxos), k1, k2 \in UnusedKeys :
            Mine(TransferOp(u, ring, send, fee, k1, k2))
    BY <1>2 DEF TransferShielded
  <2> QED BY <1>2, <2>1, TransferSettles DEF TransferShielded
<1>3. CASE SubmitPreSigned
  <2>1. PICK u \in mem.utxos, send \in SendAmounts, fee \in TxFees :
          \E ring \in RingsAround(u, mem.utxos), k1, k2 \in UnusedKeys :
            Mine(TransferOp(u, ring, send, fee, k1, k2))
    BY <1>3 DEF SubmitPreSigned
  <2> QED BY <1>3, <2>1, TransferSettles DEF SubmitPreSigned
<1>4. CASE ClaimTreasuryFees
  <2>1. /\ disk'.chain = disk.chain /\ disk'.utxos = disk.utxos
        /\ disk'.spent = disk.spent /\ disk'.events = disk.events
    BY <1>4 DEF ClaimTreasuryFees, ClaimFromVault, Saved, DiskFault
  <2>2. mem'.utxos = mem.utxos /\ mem'.spent = mem.spent
    BY <1>4 DEF ClaimTreasuryFees, ClaimFromVault, WithVault
  <2> QED BY <1>4, <2>1, <2>2, SettledKept DEF ClaimTreasuryFees, Settled, Mirrored
<1>5. CASE RejectRemoteBlock
  <2>1. Mirrored'
    BY <1>5 DEF RejectRemoteBlock, Mirrored, Load
  <2> QED BY <1>5, <2>1, SettledKept DEF RejectRemoteBlock
<1>6. ASSUME Restarted PROVE Settled'
  <2>1. Mirrored'
    BY <1>6 DEF Restarted, Mirrored, Load
  <2>2. ~ reorg'.active
    BY <1>6 DEF Restarted, NoReorg
  <2> QED BY <1>6, <2>1, <2>2, SettledKept DEF Restarted
<1>7. CASE UNCHANGED vars
  BY <1>7, SettledKept DEF vars, Settled, Mirrored
<1> QED BY <1>1, <1>2, <1>3, <1>4, <1>5, <1>6, <1>7, DirectDepositSettles, WithdrawSettles,
           RemoteSettles, BeginSettles, FinishSettles, AbandonSettles
    DEF Next, Crash, GuardTerminates

\* The tables of an empty disk are empty.
LEMMA SettledInit == Init => Settled
<1> SUFFICES ASSUME Init PROVE Settled
  OBVIOUS
<1>1. disk.chain = <<>> /\ Len(disk.chain) = 0 /\ DOMAIN disk.chain = {}
  BY EmptySeq, LenProperties DEF Init, EmptyDisk
<1>2. disk.utxos = {} /\ disk.spent = {} /\ disk.events = {} /\ Mirrored
  BY DEF Init, EmptyDisk, Load, Mirrored
<1>3. IndexesMatchChain
  BY <1>1, <1>2 DEF IndexesMatchChain, SpentOn, EventsOn, OutputsOn
<1>4. Distinct /\ Grounded
  BY <1>1 DEF Distinct, Grounded
<1>5. Restorable
  BY DEF Init, NoReorg, Restorable
<1> QED BY <1>2, <1>3, <1>4, <1>5 DEF Settled

\* While no two requests of the deposit endpoint mint one event
\* (src/rpc_server.cpp:404) and no rollback fails with the top already moved
\* (src/blockchain_db.cpp:600), the tables of LMDB are what the stored blocks say:
\* key images, events and outputs, through reorganisations won and abandoned,
\* deposits that throw, failed commits and crashes.
THEOREM TablesFollowChain ==
    Spec /\ []Level /\ []EventMintedOnce => []IndexesMatchChain
<1>1. Init => Settled
  BY SettledInit
<1>2. (Once /\ Reported) /\ (Once /\ Reported)' /\ Level /\ Level' /\ EventMintedOnce
        /\ EventMintedOnce' /\ Settled /\ [Next]_vars => Settled'
  BY SettledNext
<1>3. Settled => IndexesMatchChain
  BY DEF Settled
<1> QED BY <1>1, <1>2, <1>3, OnceInvariant, PTL DEF Spec

\* Under the same hypotheses no block on the chain spends, or mixes in, an output
\* that an earlier block did not make: no reorganisation strands a ring.
THEOREM RingsStayGrounded ==
    Spec /\ []Level /\ []EventMintedOnce => []RingsAreGrounded
<1>1. Init => Settled
  BY SettledInit
<1>2. (Once /\ Reported) /\ (Once /\ Reported)' /\ Level /\ Level' /\ EventMintedOnce
        /\ EventMintedOnce' /\ Settled /\ [Next]_vars => Settled'
  BY SettledNext
<1>3. Once /\ Settled => RingsAreGrounded
  BY GroundedIs DEF Settled, Once
<1> QED BY <1>1, <1>2, <1>3, OnceInvariant, PTL DEF Spec

-----------------------------------------------------------------------------
(***************************************************************************)
(* The vault of the chain                                                   *)
(*                                                                         *)
(* With the rates a default-constructed Vault has and no claim of the       *)
(* treasury, a rollback replays the chain into the very vault it had before *)
(* the tip, and the replay never stops.  Crashes, failed writes and         *)
(* concurrent deposits are not excluded.                                    *)
(***************************************************************************)

DefaultRates == DepositBps = DefaultBps /\ WithdrawBps = DefaultBps /\ MaxClaims = 0

OwnReplay(chain) == Replay(chain, DepositBps, WithdrawBps)

Takes(v, op) == VaultTakes(v, op, DepositBps, WithdrawBps)

After(v, op) == VaultAfter(v, op, DepositBps, WithdrawBps)

Exact ==
    /\ Level
    /\ mem.vault = disk.vault
    /\ claimed = 0
    /\ OwnReplay(disk.chain).ok = TRUE
    /\ OwnReplay(disk.chain).vault = disk.vault
    /\ reorg.active =>
        /\ Takes(disk.vault, reorg.localTop.op)
        /\ reorg.savedVault = After(disk.vault, reorg.localTop.op)

\* A replay says whether every block was taken.
LEMMA ReplayEnds ==
    ASSUME NEW chain \in Seq(Block), NEW d, NEW w
    PROVE  Replay(chain, d, w).ok \in BOOLEAN
<1>r1. PICK f : RunsAlong(f, chain, d, w)
  BY ReplaySteps
<1>1. /\ f[0] = Started
      /\ \A n \in 1 .. Len(chain) : f[n] = Replayed(f[n - 1], chain[n].op, d, w)
      /\ Replay(chain, d, w) = f[Len(chain)]
  BY <1>r1 DEF RunsAlong
<1>2. Len(chain) \in Nat
  BY LenProperties
<1>3. CASE Len(chain) = 0
  <2>1. Replay(chain, d, w) = Started
    BY <1>1, <1>3
  <2>2. Started.ok = TRUE
    BY DEF Started
  <2> QED BY <2>1, <2>2
<1>4. CASE Len(chain) # 0
  <2>1. Len(chain) \in 1 .. Len(chain)
    BY <1>2, <1>4
  <2>2. f[Len(chain)] = Replayed(f[Len(chain) - 1], chain[Len(chain)].op, d, w)
    BY <1>1, <2>1
  <2>3. \A before, op : Replayed(before, op, d, w).ok \in BOOLEAN
    BY DEF Replayed
  <2> QED BY <1>1, <2>2, <2>3
<1> QED BY <1>3, <1>4

\* A longer chain is replayed by replaying its tip after the shorter.
LEMMA ReplayGrows ==
    ASSUME NEW short, NEW long, OneMore(short, long), NEW d, NEW w
    PROVE  Replay(long, d, w) = Replayed(Replay(short, d, w), Tip(long), d, w)
<1>l. Len(short) \in Nat /\ Len(long) = Len(short) + 1
      /\ \A i \in 1 .. Len(short) : long[i] = short[i]
  BY LenProperties DEF OneMore
<1>s. short \in Seq(Block) /\ long \in Seq(Block)
  BY DEF OneMore
<1>r1. PICK f : RunsAlong(f, short, d, w)
  BY <1>s, ReplaySteps
<1>1. /\ f[0] = Started
      /\ \A n \in 1 .. Len(short) : f[n] = Replayed(f[n - 1], short[n].op, d, w)
      /\ Replay(short, d, w) = f[Len(short)]
  BY <1>r1 DEF RunsAlong
<1>r2. PICK g : RunsAlong(g, long, d, w)
  BY <1>s, ReplaySteps
<1>2. /\ g[0] = Started
      /\ \A n \in 1 .. Len(long) : g[n] = Replayed(g[n - 1], long[n].op, d, w)
      /\ Replay(long, d, w) = g[Len(long)]
  BY <1>r2 DEF RunsAlong
<1> DEFINE S == {n \in Nat : n <= Len(short) => f[n] = g[n]}
<1>3. 0 \in S
  BY <1>1, <1>2
<1>4. ASSUME NEW n \in Nat, n \in S PROVE n + 1 \in S
  <2> SUFFICES ASSUME n + 1 <= Len(short) PROVE f[n + 1] = g[n + 1]
    OBVIOUS
  <2>1. /\ n + 1 \in 1 .. Len(short) /\ n + 1 \in 1 .. Len(long)
        /\ (n + 1) - 1 = n /\ n <= Len(short)
    BY <1>l
  <2>2. f[n] = g[n]
    BY <1>4, <2>1
  <2>3. f[n + 1] = Replayed(f[n], short[n + 1].op, d, w)
    BY <1>1, <2>1
  <2>4. g[n + 1] = Replayed(g[n], long[n + 1].op, d, w)
    BY <1>2, <2>1
  <2> QED BY <2>1, <2>2, <2>3, <2>4, <1>l
<1> HIDE DEF S
<1>5. Len(short) \in S
  BY <1>3, <1>4, <1>l, SetInduction
<1>6. f[Len(short)] = g[Len(short)]
  BY <1>5, <1>l DEF S
<1>7. Len(long) \in 1 .. Len(long) /\ Len(long) - 1 = Len(short)
  BY <1>l
<1>8. g[Len(long)] = Replayed(g[Len(short)], long[Len(long)].op, d, w)
  BY <1>2, <1>7
<1> QED BY <1>1, <1>2, <1>6, <1>8 DEF Tip

\* A commit makes the chain one block longer when the top is the chain's.
LEMMA CommitGrows ==
    ASSUME ChainTyped, Level, NEW b \in Block, b.height = top + 1, NEW v, Commit(b, v)
    PROVE  /\ OneMore(disk.chain, disk'.chain) /\ Tip(disk'.chain) = b.op
           /\ Len(disk'.chain) = Len(disk.chain) + 1 /\ disk'.chain[Len(disk'.chain)] = b
           /\ disk'.vault = v /\ Level'
<1>1. disk.chain \in Seq(Block) /\ Len(disk.chain) \in Nat /\ top = Len(disk.chain)
      /\ top \in 0 .. Len(disk.chain)
  BY LenProperties DEF ChainTyped, Level
<1>2. disk'.chain = Append(SubSeq(disk.chain, 1, top), b)
  <2>1. b.height - 1 = top
    BY <1>1
  <2> QED BY <2>1 DEF Commit, Committed
<1>3. /\ disk'.chain \in Seq(Block)
      /\ Len(disk'.chain) = top + 1
      /\ \A i \in 1 .. top : disk'.chain[i] = disk.chain[i]
      /\ disk'.chain[top + 1] = b
  BY <1>1, <1>2, ChainAfterCommit
<1>4. disk'.vault = v /\ top' = top + 1
  BY DEF Commit, Committed
<1> QED BY <1>1, <1>3, <1>4 DEF OneMore, Tip, Level

\* The chain below a block.
LEMMA ChainBelow ==
    ASSUME NEW chain \in Seq(Block), NEW h \in 1 .. Len(chain),
           NEW new, new = SubSeq(chain, 1, h - 1)
    PROVE  /\ new \in Seq(Block)
           /\ Len(new) = h - 1
           /\ \A i \in 1 .. h - 1 : new[i] = chain[i]
<1>l. Len(chain) \in Nat
  BY LenProperties
<1>1. h - 1 \in Int /\ 1 \in Int /\ \A i \in 1 .. h - 1 : i \in 1 .. Len(chain)
  BY <1>l
<1>2. \A i \in 1 .. h - 1 : chain[i] \in Block
  BY <1>1, ElementOfSeq
<1> QED BY <1>1, <1>2, <1>l, SubSeqProperties

\* A rollback makes it one shorter.
LEMMA RollbackShrinks ==
    ASSUME ChainTyped, Level, top > 0, disk' = RolledBack(disk, top)
    PROVE  /\ OneMore(disk'.chain, disk.chain) /\ Tip(disk.chain) = disk.chain[top].op
           /\ disk'.vault = ReplayedAtDefaults(disk'.chain).vault
           /\ disk'.chain = SubSeq(disk.chain, 1, top - 1)
           /\ Len(disk'.chain) = top - 1
<1>1. disk.chain \in Seq(Block) /\ Len(disk.chain) \in Nat /\ top = Len(disk.chain)
      /\ top \in 1 .. Len(disk.chain)
  BY LenProperties DEF ChainTyped, Level
<1>2. disk'.chain = SubSeq(disk.chain, 1, top - 1)
      /\ disk'.vault = ReplayedAtDefaults(SubSeq(disk.chain, 1, top - 1)).vault
  BY DEF RolledBack
<1>3. /\ disk'.chain \in Seq(Block)
      /\ Len(disk'.chain) = top - 1
      /\ \A i \in 1 .. top - 1 : disk'.chain[i] = disk.chain[i]
  BY <1>1, <1>2, ChainBelow
<1>4. OneMore(disk'.chain, disk.chain)
  <2>1. Len(disk.chain) = Len(disk'.chain) + 1
    BY <1>1, <1>3
  <2> QED BY <1>1, <1>3, <2>1 DEF OneMore
<1>5. Tip(disk.chain) = disk.chain[top].op
  BY <1>1 DEF Tip
<1> QED BY <1>2, <1>3, <1>4, <1>5

-----------------------------------------------------------------------------
(***************************************************************************)
(* Every step keeps it                                                      *)
(***************************************************************************)

\* A block is committed with the vault that takes it.
LEMMA CommitExact ==
    ASSUME ChainTyped, Exact, NEW b \in Block, b.height = top + 1,
           NEW v, v = After(disk.vault, b.op), Takes(disk.vault, b.op), Commit(b, v),
           mem'.vault = v, UNCHANGED claimed, ~ reorg'.active
    PROVE  Exact'
<1>1. /\ OneMore(disk.chain, disk'.chain) /\ Tip(disk'.chain) = b.op
      /\ disk'.vault = v /\ Level'
  BY CommitGrows DEF Exact
<1>2. OwnReplay(disk'.chain) = Replayed(OwnReplay(disk.chain), b.op, DepositBps, WithdrawBps)
  BY <1>1, ReplayGrows DEF OwnReplay
<1>3. OwnReplay(disk.chain).ok = TRUE /\ OwnReplay(disk.chain).vault = disk.vault
  BY DEF Exact
<1>4. OwnReplay(disk'.chain) = [ok |-> TRUE, vault |-> v]
  BY <1>2, <1>3 DEF Replayed, Takes, After
<1>5. OwnReplay(disk'.chain).ok = TRUE /\ OwnReplay(disk'.chain).vault = v
  BY <1>4
<1>6. claimed' = 0 /\ mem'.vault = disk'.vault
  BY <1>1 DEF Exact
<1> QED BY <1>1, <1>5, <1>6 DEF Exact, OwnReplay

\* A step that leaves the chain, its vault and the top alone.
LEMMA ExactKept ==
    ASSUME Exact, disk'.chain = disk.chain, disk'.vault = disk.vault, mem'.vault = disk.vault,
           UNCHANGED claimed, Level', reorg' = reorg \/ ~ reorg'.active
    PROVE  Exact'
BY DEF Exact, OwnReplay, Takes, After

\* RAM is reloaded after a failed write.
LEMMA ReloadExact ==
    ASSUME Exact, DiskFault, mem' = Load(disk), UNCHANGED <<reorg, claimed>>, Level'
    PROVE  Exact'
<1>1. disk'.chain = disk.chain /\ disk'.vault = disk.vault /\ mem'.vault = disk.vault
  BY DEF DiskFault, Load
<1> QED BY <1>1, ExactKept

\* A block on the tip, mined here or sent by a peer.
LEMMA BlockExact ==
    ASSUME ChainTyped, Exact, Unlocked, UNCHANGED <<reorg, claimed>>, Level',
           NEW b \in Block, b.height = top + 1, Takes(mem.vault, b.op),
           \/ /\ Commit(b, After(mem.vault, b.op))
              /\ mem' = Grown(b.op, After(mem.vault, b.op))
           \/ DiskFault /\ mem' = Load(disk)
    PROVE  Exact'
<1> DEFINE v == After(mem.vault, b.op)
<1>1. v = After(disk.vault, b.op) /\ Takes(disk.vault, b.op) /\ ~ reorg'.active
  BY DEF Exact, Unlocked
<1>2. Grown(b.op, v).vault = v
  BY DEF Grown
<1>3. CASE Commit(b, v) /\ mem' = Grown(b.op, v)
  <2> HIDE DEF v
  <2> QED BY <1>1, <1>2, <1>3, CommitExact
<1> QED BY <1>3, ReloadExact

\* The tail of the local handlers.
LEMMA MineExact ==
    ASSUME ChainTyped, Exact, Unlocked, UNCHANGED <<reorg, claimed>>, Level',
           NEW op \in Op, Mine(op), Takes(mem.vault, op)
    PROVE  Exact'
<1> DEFINE Mined(h) == [height |-> top + 1, hash |-> h, prev |-> HashAt(disk, top),
                        validator |-> Self, signers |-> {Self}, op |-> op]
           v == After(mem.vault, op)
<1>1. ASSUME NEW h \in NewHashes(top + 1), Commit(Mined(h), v), mem' = Grown(op, v)
      PROVE  Exact'
  <2>1. Mined(h) \in Block
    BY NextBlockTyped, LedgerConstants
  <2>2. Mined(h).height = top + 1 /\ Mined(h).op = op
    OBVIOUS
  <2> HIDE DEF Mined
  <2> QED BY <1>1, <2>1, <2>2, BlockExact
<1> QED BY <1>1, ReloadExact DEF Mine, After

\* The replay of the chain below the tip succeeds, and the tip leads from its
\* vault to the one on disk.
LEMMA BelowReplays ==
    ASSUME Exact, ChainTyped, top > 0, NEW below, below = SubSeq(disk.chain, 1, top - 1)
    PROVE  /\ OneMore(below, disk.chain)
           /\ OwnReplay(below).ok = TRUE
           /\ Takes(OwnReplay(below).vault, disk.chain[top].op)
           /\ disk.vault = After(OwnReplay(below).vault, disk.chain[top].op)
<1>0. disk.chain \in Seq(Block) /\ top = Len(disk.chain) /\ top \in 1 .. Len(disk.chain)
      /\ Len(disk.chain) \in Nat
  BY LenProperties DEF Exact, Level, ChainTyped
<1> DEFINE before == OwnReplay(below)
           gone == disk.chain[top].op
<1>1. OneMore(below, disk.chain) /\ Tip(disk.chain) = gone
  <2>1. below \in Seq(Block) /\ Len(below) = top - 1
        /\ \A i \in 1 .. top - 1 : below[i] = disk.chain[i]
    BY <1>0, ChainBelow
  <2> QED BY <1>0, <2>1 DEF OneMore, Tip
<1>3. OwnReplay(disk.chain) = Replayed(before, gone, DepositBps, WithdrawBps)
  BY <1>1, ReplayGrows DEF OwnReplay
<1>4. OwnReplay(disk.chain).ok = TRUE /\ OwnReplay(disk.chain).vault = disk.vault
  BY DEF Exact
<1>5. before.ok \in BOOLEAN
  BY <1>1, ReplayEnds DEF OneMore, OwnReplay
<1> HIDE DEF before, gone
<1>6. CASE before.ok /\ VaultTakes(before.vault, gone, DepositBps, WithdrawBps)
  <2>1. OwnReplay(disk.chain).vault = VaultAfter(before.vault, gone, DepositBps, WithdrawBps)
    BY <1>3, <1>6 DEF Replayed
  <2>2. before.ok = TRUE
    BY <1>5, <1>6
  <2> QED BY <1>1, <1>4, <1>6, <2>1, <2>2 DEF Takes, After, before, gone
<1>7. CASE ~ (before.ok /\ VaultTakes(before.vault, gone, DepositBps, WithdrawBps))
  <2>1. OwnReplay(disk.chain).ok = FALSE
    BY <1>3, <1>7 DEF Replayed
  <2> QED BY <1>4, <2>1
<1> QED BY <1>6, <1>7

\* The rollback rebuilds the vault from the chain below the tip.
LEMMA RollbackExact ==
    ASSUME DefaultRates, Exact, ChainTyped, top > 0, disk' = RolledBack(disk, top)
    PROVE  /\ OwnReplay(disk'.chain).ok = TRUE
           /\ OwnReplay(disk'.chain).vault = disk'.vault
           /\ Takes(disk'.vault, disk.chain[top].op)
           /\ disk.vault = After(disk'.vault, disk.chain[top].op)
<1>1. /\ disk'.chain = SubSeq(disk.chain, 1, top - 1)
      /\ disk'.vault = ReplayedAtDefaults(disk'.chain).vault
  BY DEF RolledBack
<1>2. disk'.vault = OwnReplay(disk'.chain).vault
  BY <1>1 DEF DefaultRates, OwnReplay, ReplayedAtDefaults
<1> QED BY <1>1, <1>2, BelowReplays

\* The rollback.
LEMMA BeginExact ==
    ASSUME DefaultRates, Exact, ChainTyped, BeginReorg, Level' PROVE Exact'
<1>1. PICK b :
        \/ /\ disk' = RolledBack(disk, top)
           /\ mem' = Load(disk')
           /\ reorg' = [active |-> TRUE, block |-> b, localTop |-> disk.chain[top],
                        savedVault |-> mem.vault]
        \/ UNCHANGED <<disk, mem, reorg>>
  BY DEF BeginReorg, DiskFault
<1>2. top > 0 /\ UNCHANGED claimed
  BY DEF BeginReorg
<1>3. CASE /\ disk' = RolledBack(disk, top)
           /\ mem' = Load(disk')
           /\ reorg' = [active |-> TRUE, block |-> b, localTop |-> disk.chain[top],
                        savedVault |-> mem.vault]
  <2>1. /\ OwnReplay(disk'.chain).ok = TRUE
        /\ OwnReplay(disk'.chain).vault = disk'.vault
        /\ Takes(disk'.vault, disk.chain[top].op)
        /\ disk.vault = After(disk'.vault, disk.chain[top].op)
    BY <1>2, <1>3, RollbackExact
  <2>2. mem'.vault = disk'.vault
    BY <1>3 DEF Load
  <2>3. /\ reorg'.localTop.op = disk.chain[top].op
        /\ reorg'.savedVault = disk.vault
    BY <1>3 DEF Exact
  <2>4. Takes(disk'.vault, reorg'.localTop.op)
        /\ reorg'.savedVault = After(disk'.vault, reorg'.localTop.op)
    BY <2>1, <2>3
  <2> QED BY <1>2, <2>1, <2>2, <2>4 DEF Exact, OwnReplay, Takes, After
<1>4. CASE UNCHANGED <<disk, mem, reorg>>
  <2>1. disk'.chain = disk.chain /\ disk'.vault = disk.vault /\ mem'.vault = disk.vault
    BY <1>4 DEF Exact
  <2> QED BY <1>2, <1>4, <2>1, ExactKept
<1> QED BY <1>1, <1>3, <1>4

\* The block that won.
LEMMA FinishExact ==
    ASSUME Exact, ChainTyped, Reversible, FinishReorg PROVE Exact'
<1> DEFINE b == reorg.block
           v == After(mem.vault, b.op)
<1>1. ValidBlock(b, mem, disk, top) /\ Commit(b, v) /\ mem' = Grown(b.op, v)
  BY DEF FinishReorg, After
<1>2. b \in Block /\ b.height = top + 1 /\ b.op \in Op
  BY DEF FinishReorg, Reversible, Block
<1>3. Takes(mem.vault, b.op)
  BY <1>1, <1>2, ValidIsTaken DEF Takes
<1>4. mem'.vault = v /\ ~ reorg'.active /\ UNCHANGED claimed
  BY <1>1 DEF Grown, FinishReorg, NoReorg
<1>5. v = After(disk.vault, b.op) /\ Takes(disk.vault, b.op)
  BY <1>3 DEF Exact
<1> HIDE DEF b, v
<1> QED BY <1>1, <1>2, <1>4, <1>5, CommitExact

\* The tip that returns, with the vault it had.
LEMMA AbandonExact ==
    ASSUME Exact, ChainTyped, Reversible, AbandonReorg PROVE Exact'
<1> DEFINE b == reorg.localTop
           v == reorg.savedVault
<1>1. Commit(b, v) /\ mem' = Load(disk')
  BY DEF AbandonReorg
<1>2. b \in Block /\ b.height = top + 1
  BY DEF AbandonReorg, Reversible
<1>3. v = After(disk.vault, b.op) /\ Takes(disk.vault, b.op)
  BY DEF AbandonReorg, Exact
<1>4. mem'.vault = v
  BY <1>1 DEF Load, Commit, Committed
<1>5. ~ reorg'.active /\ UNCHANGED claimed
  BY DEF AbandonReorg, NoReorg
<1> HIDE DEF b, v
<1> QED BY <1>1, <1>2, <1>3, <1>4, <1>5, CommitExact

\* A deposit.
LEMMA DepositExact ==
    ASSUME ChainTyped, Exact, Unlocked, UNCHANGED <<reorg, claimed>>, Level',
           NEW event \in Events, DepositMined(event)
    PROVE  Exact'
<1> DEFINE op == DepositOp(event, DepositBps)
<1>1. Mine(op) /\ DepositOK(mem.vault, Gross[event], DepositBps)
  BY DEF DepositMined
<1>2. op \in Op
  BY <1>1, LedgerConstants, DepositBuilt DEF DepositOK, WellBuilt
<1>3. op.kind = "deposit" /\ op.gross = Gross[event]
  BY DEF DepositOp
<1> HIDE DEF op
<1>4. Takes(mem.vault, op)
  BY <1>1, <1>3 DEF Takes, VaultTakes
<1> QED BY <1>1, <1>2, <1>4, MineExact

\* A transfer.
LEMMA TransferExact ==
    ASSUME ChainTyped, Exact, Unlocked, UNCHANGED <<reorg, claimed>>, Level',
           \E u \in mem.utxos, send \in SendAmounts, fee \in TxFees :
             \E ring \in RingsAround(u, mem.utxos), k1, k2 \in UnusedKeys :
               Mine(TransferOp(u, ring, send, fee, k1, k2))
    PROVE  Exact'
<1>1. PICK u \in mem.utxos, send \in SendAmounts, fee \in TxFees :
        \E ring \in RingsAround(u, mem.utxos), k1, k2 \in UnusedKeys :
          Mine(TransferOp(u, ring, send, fee, k1, k2))
  OBVIOUS
<1>2. PICK ring \in RingsAround(u, mem.utxos), k1 \in UnusedKeys, k2 \in UnusedKeys :
        Mine(TransferOp(u, ring, send, fee, k1, k2))
  BY <1>1
<1> DEFINE op == TransferOp(u, ring, send, fee, k1, k2)
<1>3. op \in Op /\ Takes(mem.vault, op)
  BY TransferTaken DEF Takes
<1>4. Mine(op)
  BY <1>2
<1> HIDE DEF op
<1> QED BY <1>3, <1>4, MineExact

\* A withdrawal.
LEMMA WithdrawExact ==
    ASSUME ChainTyped, Exact, WithdrawShielded, Level' PROVE Exact'
<1>1. PICK u \in mem.utxos, gross \in WithdrawAmounts, k \in UnusedKeys :
        WithdrawOK(mem.vault, gross, WithdrawBps) /\ Mine(WithdrawOp(u, gross, WithdrawBps, k))
  BY DEF WithdrawShielded
<1> DEFINE op == WithdrawOp(u, gross, WithdrawBps, k)
<1>2. u \in Output /\ gross \in Nat /\ WithdrawBps \in Nat /\ k \in Keys
  BY NodeConstants, LedgerConstants DEF ChainTyped, UnusedKeys, Keys
<1>3. op \in Op
  BY <1>2, WithdrawBuilt DEF WellBuilt
<1>4. op.kind = "withdraw" /\ op.gross = gross
  BY DEF WithdrawOp
<1>5. Mine(op)
  BY <1>1
<1> HIDE DEF op
<1>6. Takes(mem.vault, op)
  BY <1>1, <1>4 DEF Takes, VaultTakes
<1>7. Unlocked /\ UNCHANGED <<reorg, claimed>>
  BY DEF WithdrawShielded
<1> QED BY <1>3, <1>5, <1>6, <1>7, MineExact

\* A block of a peer.
LEMMA RemoteExact ==
    ASSUME ChainTyped, Exact, ApplyRemoteBlock, Level' PROVE Exact'
<1> DEFINE Sent(s, h, op) == [height |-> top + 1, hash |-> h, prev |-> HashAt(disk, top),
                              validator |-> s.validator, signers |-> s.signers, op |-> op]
<1>1. PICK s \in PeerSignatures, h \in NewHashes(top + 1), op \in PeerOps :
        /\ ValidBlock(Sent(s, h, op), mem, disk, top)
        /\ \/ /\ Commit(Sent(s, h, op), After(mem.vault, op))
              /\ mem' = Grown(op, After(mem.vault, op))
           \/ DiskFault /\ mem' = Load(disk)
  BY DEF ApplyRemoteBlock, After
<1> DEFINE b == Sent(s, h, op)
<1>2. op \in Op
  BY PeerOpsBuilt DEF WellBuilt
<1>3. b \in Block
  <2>1. s.validator \in Validators /\ s.signers \in SUBSET Validators
    BY NodeConstants
  <2> QED BY <1>2, <2>1, NextBlockTyped
<1>4. b.height = top + 1 /\ b.op = op
  OBVIOUS
<1>5. ValidBlock(b, mem, disk, top)
  BY <1>1
<1>6. Unlocked /\ UNCHANGED <<reorg, claimed>>
  BY DEF ApplyRemoteBlock
<1>7. \/ Commit(b, After(mem.vault, op)) /\ mem' = Grown(op, After(mem.vault, op))
      \/ DiskFault /\ mem' = Load(disk)
  BY <1>1
<1> HIDE DEF Sent, b
<1>8. Takes(mem.vault, b.op)
  BY <1>2, <1>4, <1>5, ValidIsTaken DEF Takes
<1> QED BY <1>3, <1>4, <1>6, <1>7, <1>8, BlockExact

\* A restart reads the vault and the top from disk.
LEMMA RestartExact ==
    ASSUME Exact, Restarted, Level' PROVE Exact'
<1>1. mem'.vault = disk.vault /\ ~ reorg'.active /\ UNCHANGED claimed
      /\ disk'.chain = disk.chain /\ disk'.vault = disk.vault
  BY DEF Restarted, Load, NoReorg
<1> QED BY <1>1, ExactKept

\* One step of any handler that leaves the top where the chain ends.
LEMMA ExactNext ==
    ASSUME DefaultRates, Once, Reported, Kept, Counted, Exact, [Next]_vars, Level',
           NoneThrown'
    PROVE  Exact'
<1>0. ChainTyped /\ Reversible
  BY DEF Once
<1>1. ASSUME NEW t \in RpcThreads, RpcDepositCheck(t) PROVE Exact'
  BY <1>1, ExactKept DEF RpcDepositCheck, ledger, Exact
<1>2. ASSUME NEW t \in RpcThreads, RpcDeposit(t) PROVE Exact'
  <2>1. Unlocked /\ UNCHANGED <<reorg, claimed>>
    BY <1>2 DEF RpcDeposit
  <2>2. PICK event \in rpc[t] : BuyShielded(event)
    BY <1>2 DEF RpcDeposit
  <2>3. event \in Events
    BY <2>2 DEF Reported
  <2>4. CASE DepositMined(event)
    BY <1>0, <2>1, <2>3, <2>4, DepositExact
  <2>5. ~ DepositThrows(event)
    BY DEF DepositThrows, Counted, NoneThrown
  <2>6. CASE DepositRefused(event)
    BY <2>1, <2>6, ExactKept DEF DepositRefused, ledger, Exact
  <2> QED BY <2>2, <2>4, <2>5, <2>6 DEF BuyShielded
<1>3. CASE DirectDeposit
  <2>1. PICK event \in DirectEvents : DepositMined(event)
    BY <1>3 DEF DirectDeposit
  <2> QED BY <1>0, <1>3, <2>1, NodeConstants, DepositExact DEF DirectDeposit
<1>4. CASE TransferShielded
  <2>1. \E u \in mem.utxos, send \in SendAmounts, fee \in TxFees :
          \E ring \in RingsAround(u, mem.utxos), k1, k2 \in UnusedKeys :
            Mine(TransferOp(u, ring, send, fee, k1, k2))
    BY <1>4 DEF TransferShielded
  <2> QED BY <1>0, <1>4, <2>1, TransferExact DEF TransferShielded
<1>5. CASE SubmitPreSigned
  <2>1. \E u \in mem.utxos, send \in SendAmounts, fee \in TxFees :
          \E ring \in RingsAround(u, mem.utxos), k1, k2 \in UnusedKeys :
            Mine(TransferOp(u, ring, send, fee, k1, k2))
    BY <1>5 DEF SubmitPreSigned
  <2> QED BY <1>0, <1>5, <2>1, TransferExact DEF SubmitPreSigned
<1>6. ~ ClaimTreasuryFees
  BY DEF ClaimTreasuryFees, DefaultRates, Kept
<1>7. CASE RejectRemoteBlock
  BY <1>7, ExactKept DEF RejectRemoteBlock, Load
<1>8. CASE UNCHANGED vars
  BY <1>8, ExactKept DEF vars, Exact
<1> QED BY <1>0, <1>1, <1>2, <1>3, <1>4, <1>5, <1>6, <1>7, <1>8, WithdrawExact, RemoteExact,
           BeginExact, FinishExact, AbandonExact, RestartExact
    DEF Next, Crash, GuardTerminates

\* The vault of an empty chain is empty.
LEMMA ExactInit == Init => Exact
<1> SUFFICES ASSUME Init PROVE Exact
  OBVIOUS
<1>1. disk.chain = <<>> /\ disk.vault = EmptyVault /\ mem.vault = EmptyVault
  BY DEF Init, EmptyDisk, Load
<1>2. disk.chain \in Seq(Block) /\ Len(disk.chain) = 0
  BY <1>1, EmptySeq, LenProperties
<1> DEFINE none == disk.chain
<1>3. OwnReplay(none) = Started
  <2> HIDE DEF none
  <2>1. none \in Seq(Block) /\ Len(none) = 0
    BY <1>2 DEF none
  <2>r2. PICK f : RunsAlong(f, none, DepositBps, WithdrawBps)
    BY <2>1, ReplaySteps
  <2>2. /\ f[0] = Started
        /\ \A n \in 1 .. Len(none) : f[n] = Replayed(f[n - 1], none[n].op, DepositBps, WithdrawBps)
        /\ Replay(none, DepositBps, WithdrawBps) = f[Len(none)]
    BY <2>r2 DEF RunsAlong
  <2> QED BY <2>1, <2>2 DEF OwnReplay
<1>4. Started.ok = TRUE /\ Started.vault = EmptyVault
  BY DEF Started
<1>5. ~ reorg.active /\ claimed = 0 /\ top = 0
  BY DEF Init, NoReorg
<1> QED BY <1>1, <1>2, <1>3, <1>4, <1>5 DEF Exact, Level

-----------------------------------------------------------------------------
(***************************************************************************)
(* The top                                                                  *)
(***************************************************************************)

\* With no failing write the cached top is the height of the chain: the replay
\* of a rollback, the other way to move the one without the other, succeeds.
LEMMA LevelNext ==
    ASSUME MaxFaults = 0, DefaultRates, Once, Reported, Kept, Exact, [Next]_vars PROVE Level'
<1>0. /\ ChainTyped /\ Reversible /\ Level /\ top = Len(disk.chain)
      /\ disk.chain \in Seq(Block) /\ top \in Nat /\ ~ DiskFault
  BY LenProperties DEF Once, ChainTyped, Exact, Level, DiskFault, Kept
<1>1. ASSUME NEW b \in Block, b.height = top + 1, NEW v, Commit(b, v) PROVE Level'
  BY <1>0, <1>1, CommitGrows
<1>2. ASSUME NEW op \in Op, Mine(op) PROVE Level'
  <2>1. PICK h \in NewHashes(top + 1) : \E v :
          Commit([height |-> top + 1, hash |-> h, prev |-> HashAt(disk, top),
                  validator |-> Self, signers |-> {Self}, op |-> op], v)
    BY <1>0, <1>2 DEF Mine
  <2> DEFINE b == [height |-> top + 1, hash |-> h, prev |-> HashAt(disk, top),
                   validator |-> Self, signers |-> {Self}, op |-> op]
  <2>2. b \in Block /\ b.height = top + 1
    BY <1>0, NextBlockTyped, LedgerConstants
  <2> HIDE DEF b
  <2> QED BY <1>1, <2>1, <2>2 DEF b
<1>3. ASSUME NEW event \in Events, DepositMined(event) PROVE Level'
  <2>1. DepositOp(event, DepositBps) \in Op
    BY <1>3, LedgerConstants, DepositBuilt DEF DepositMined, DepositOK, WellBuilt
  <2> QED BY <1>2, <1>3, <2>1 DEF DepositMined
<1>4. ASSUME \E u \in mem.utxos, send \in SendAmounts, fee \in TxFees :
               \E ring \in RingsAround(u, mem.utxos), k1, k2 \in UnusedKeys :
                 Mine(TransferOp(u, ring, send, fee, k1, k2))
      PROVE  Level'
  <2>1. PICK u \in mem.utxos, send \in SendAmounts, fee \in TxFees :
          \E ring \in RingsAround(u, mem.utxos), k1, k2 \in UnusedKeys :
            Mine(TransferOp(u, ring, send, fee, k1, k2))
    BY <1>4
  <2>2. PICK ring \in RingsAround(u, mem.utxos), k1 \in UnusedKeys, k2 \in UnusedKeys :
          Mine(TransferOp(u, ring, send, fee, k1, k2))
    BY <2>1
  <2>3. TransferOp(u, ring, send, fee, k1, k2) \in Op
    BY <1>0, TransferTaken
  <2> QED BY <1>2, <2>2, <2>3
<1>5. ASSUME UNCHANGED <<disk, top>> PROVE Level'
  BY <1>0, <1>5 DEF Level
<1>6. ASSUME NEW t \in RpcThreads, RpcDepositCheck(t) PROVE Level'
  BY <1>5, <1>6 DEF RpcDepositCheck, ledger
<1>7. ASSUME NEW t \in RpcThreads, RpcDeposit(t) PROVE Level'
  <2>1. PICK event \in rpc[t] : BuyShielded(event)
    BY <1>7 DEF RpcDeposit
  <2>2. event \in Events
    BY <2>1 DEF Reported
  <2> QED BY <1>3, <1>5, <2>1, <2>2 DEF BuyShielded, DepositThrows, DepositRefused, ledger
<1>8. CASE DirectDeposit
  BY <1>3, <1>8, NodeConstants DEF DirectDeposit
<1>9. CASE TransferShielded
  <2>1. \E u \in mem.utxos, send \in SendAmounts, fee \in TxFees :
          \E ring \in RingsAround(u, mem.utxos), k1, k2 \in UnusedKeys :
            Mine(TransferOp(u, ring, send, fee, k1, k2))
    BY <1>9 DEF TransferShielded
  <2> QED BY <1>4, <2>1
<1>10. CASE SubmitPreSigned
  <2>1. \E u \in mem.utxos, send \in SendAmounts, fee \in TxFees :
          \E ring \in RingsAround(u, mem.utxos), k1, k2 \in UnusedKeys :
            Mine(TransferOp(u, ring, send, fee, k1, k2))
    BY <1>10 DEF SubmitPreSigned
  <2> QED BY <1>4, <2>1
<1>11. CASE WithdrawShielded
  <2>1. PICK u \in mem.utxos, gross \in WithdrawAmounts, k \in UnusedKeys :
          Mine(WithdrawOp(u, gross, WithdrawBps, k))
    BY <1>11 DEF WithdrawShielded
  <2>2. u \in Output /\ gross \in Nat /\ WithdrawBps \in Nat /\ k \in Keys
    BY <1>0, NodeConstants, LedgerConstants DEF ChainTyped, UnusedKeys, Keys
  <2>3. WithdrawOp(u, gross, WithdrawBps, k) \in Op
    BY <2>2, WithdrawBuilt DEF WellBuilt
  <2> QED BY <1>2, <2>1, <2>3
<1>12. ~ ClaimTreasuryFees
  BY DEF ClaimTreasuryFees, DefaultRates, Kept
<1>13. CASE ApplyRemoteBlock
  <2>1. PICK s \in PeerSignatures, h \in NewHashes(top + 1), op \in PeerOps : \E v :
          Commit([height |-> top + 1, hash |-> h, prev |-> HashAt(disk, top),
                  validator |-> s.validator, signers |-> s.signers, op |-> op], v)
    BY <1>0, <1>13 DEF ApplyRemoteBlock
  <2> DEFINE b == [height |-> top + 1, hash |-> h, prev |-> HashAt(disk, top),
                   validator |-> s.validator, signers |-> s.signers, op |-> op]
  <2>2. op \in Op
    BY <1>0, PeerOpsBuilt DEF WellBuilt
  <2>3. s.validator \in Validators /\ s.signers \in SUBSET Validators
    BY NodeConstants
  <2>4. b \in Block /\ b.height = top + 1
    BY <1>0, <2>2, <2>3, NextBlockTyped
  <2> HIDE DEF b
  <2> QED BY <1>1, <2>1, <2>4 DEF b
<1>14. CASE RejectRemoteBlock
  BY <1>5, <1>14 DEF RejectRemoteBlock
<1>15. CASE BeginReorg
  <2>1. top > 0
    BY <1>15 DEF BeginReorg
  <2>2. PICK b :
          \/ disk' = RolledBack(disk, top) /\ top' = top - 1
          \/ ~ ReplayedAtDefaults(SubSeq(disk.chain, 1, top - 1)).ok
    BY <1>0, <1>15 DEF BeginReorg
  <2>3. CASE disk' = RolledBack(disk, top) /\ top' = top - 1
    <3>1. Len(disk'.chain) = top - 1
      BY <1>0, <2>1, <2>3, RollbackShrinks
    <3> QED BY <2>3, <3>1 DEF Level
  <2>4. ReplayedAtDefaults(SubSeq(disk.chain, 1, top - 1)).ok
    BY <1>0, <2>1, BelowReplays DEF DefaultRates, OwnReplay, ReplayedAtDefaults
  <2> QED BY <2>2, <2>3, <2>4
<1>16. CASE FinishReorg
  <2>1. PICK v : Commit(reorg.block, v)
    BY <1>16 DEF FinishReorg
  <2>2. reorg.block \in Block /\ reorg.block.height = top + 1
    BY <1>0, <1>16 DEF FinishReorg, Reversible
  <2> QED BY <1>1, <2>1, <2>2
<1>17. CASE AbandonReorg
  <2>1. reorg.localTop \in Block /\ reorg.localTop.height = top + 1
    BY <1>0, <1>17 DEF AbandonReorg, Reversible
  <2> QED BY <1>1, <1>17, <2>1 DEF AbandonReorg
<1>18. ASSUME Restarted PROVE Level'
  BY <1>18 DEF Restarted, Level
<1>19. CASE UNCHANGED vars
  BY <1>5, <1>19 DEF vars
<1> QED BY <1>6, <1>7, <1>8, <1>9, <1>10, <1>11, <1>12, <1>13, <1>14, <1>15, <1>16, <1>17,
           <1>18, <1>19
    DEF Next, Crash, GuardTerminates

\* Exact until a deposit throws.
ExactYet == NoneThrown => Exact

\* One more step, whose end has the top where the chain ends.
LEMMA ExactYetNext ==
    ASSUME DefaultRates, Once, Reported, Kept, Counted, Level' \/ MaxFaults = 0, ExactYet,
           [Next]_vars
    PROVE  ExactYet'
<1> SUFFICES ASSUME NoneThrown' PROVE Exact'
  BY DEF ExactYet
<1>1. Exact
  BY CountedNext DEF ExactYet
<1>2. Level'
  BY <1>1, LevelNext
<1> QED BY <1>1, <1>2, ExactNext

\* The heights agree until a deposit throws, and the vaults.
LEMMA LevelKept ==
    ASSUME DefaultRates, MaxFaults = 0 PROVE Spec => [](NoneThrown => Exact /\ Level)
<1>1. Init => ExactYet
  BY ExactInit DEF ExactYet
<1>2. (Once /\ Reported /\ Kept) /\ Counted /\ ExactYet /\ [Next]_vars => ExactYet'
  BY ExactYetNext
<1>3. ExactYet => (NoneThrown => Exact /\ Level)
  BY DEF ExactYet, Exact
<1> QED BY <1>1, <1>2, <1>3, StateInvariant, CountedKept, PTL DEF Spec

\* What VaultMatchesChain says of a vault that is exact.
LEMMA ExactMatches ==
    ASSUME Kept, Exact PROVE VaultMatchesChain
<1> DEFINE exact == Replay(disk.chain, DepositBps, WithdrawBps).vault
           due == [exact EXCEPT !.collateral = @ - claimed, !.pool = @ - claimed]
<1>1. exact = disk.vault /\ claimed = 0 /\ disk.vault \in VaultState
  BY DEF Exact, OwnReplay, Kept, Disk
<1>2. due = disk.vault
  <2> HIDE DEF exact
  <2>1. exact \in [collateral : Amount, circulating : Amount, pool : Amount]
    BY <1>1 DEF VaultState
  <2>2. exact.collateral - claimed = exact.collateral /\ exact.pool - claimed = exact.pool
    BY <1>1, <2>1 DEF Amount
  <2> QED BY <1>1, <2>1, <2>2
<1>3. Covers(disk.vault, due)
  <2> HIDE DEF due
  <2>1. DOMAIN disk.vault = {"collateral", "circulating", "pool"}
    BY <1>1 DEF VaultState
  <2>2. \A part \in DOMAIN disk.vault : disk.vault[part] \in Int
    BY <1>1 DEF VaultState, Amount
  <2>3. \A part \in DOMAIN disk.vault : disk.vault[part] >= disk.vault[part]
    BY <2>2
  <2> QED BY <1>2, <2>3 DEF Covers
<1> HIDE DEF due
<1> QED BY <1>2, <1>3 DEF VaultMatchesChain, due

\* A node at the default rates whose treasury claims nothing has in LMDB the very
\* vault its chain replays to until a deposit throws between the vault and the
\* block (src/node.cpp:155): after reorganisations won and abandoned, crashes in
\* the middle of them, failed commits and racing deposits, as long as no rollback
\* fails after it moved the top ("exactamente hasta new_height",
\* src/blockchain_db.cpp:611).
THEOREM VaultFollowsChain ==
    ASSUME DefaultRates PROVE Spec /\ []Level => [](NoneThrown => VaultMatchesChain)
<1>1. Init => ExactYet
  BY ExactInit DEF ExactYet
<1>2. (Once /\ Reported /\ Kept) /\ Counted /\ Level' /\ ExactYet /\ [Next]_vars => ExactYet'
  BY ExactYetNext
<1>3. Kept /\ ExactYet => (NoneThrown => VaultMatchesChain)
  BY ExactMatches DEF ExactYet
<1> QED BY <1>1, <1>2, <1>3, StateInvariant, CountedKept, PTL DEF Spec

\* Where no LMDB write fails the heights do agree.
THEOREM VaultExactlyReplayed ==
    ASSUME DefaultRates, MaxFaults = 0 PROVE Spec => [](NoneThrown => VaultMatchesChain)
<1>1. Kept /\ (NoneThrown => Exact /\ Level) => (NoneThrown => VaultMatchesChain)
  BY ExactMatches
<1> QED BY <1>1, LevelKept, StateInvariant, PTL

-----------------------------------------------------------------------------

\* The two invariants together, for a node at the default rates whose writes do
\* not fail.
SettledYet == NoneThrown => Settled /\ Exact

\* One more step that mints no event again.
LEMMA SettledYetNext ==
    ASSUME DefaultRates, MaxFaults = 0, Once, Once', Reported, Kept, Counted,
           EventMintedOnce, EventMintedOnce', SettledYet, [Next]_vars
    PROVE  SettledYet'
<1> SUFFICES ASSUME NoneThrown' PROVE Settled' /\ Exact'
  BY DEF SettledYet
<1>1. Settled /\ Exact
  BY CountedNext DEF SettledYet
<1>2. Level /\ Level'
  BY <1>1, LevelNext DEF Exact
<1>3. Exact'
  BY <1>1, <1>2, ExactNext
<1> QED BY <1>1, <1>2, <1>3, SettledNext

\* They hold until a deposit throws, while no event is minted twice.
LEMMA SettledExact ==
    ASSUME DefaultRates, MaxFaults = 0
    PROVE  Spec /\ []EventMintedOnce => [](NoneThrown => Settled /\ Exact)
<1>1. Init => SettledYet
  BY SettledInit, ExactInit DEF SettledYet
<1>2. (Once /\ Reported /\ Kept) /\ (Once /\ Reported /\ Kept)' /\ Counted
        /\ EventMintedOnce /\ EventMintedOnce' /\ SettledYet /\ [Next]_vars => SettledYet'
  BY SettledYetNext
<1>3. SettledYet => (NoneThrown => Settled /\ Exact)
  BY DEF SettledYet
<1> QED BY <1>1, <1>2, <1>3, StateInvariant, CountedKept, PTL DEF Spec

\* Until a deposit throws, and while no two requests of the endpoint mint one
\* event: when no handler runs, RAM and the cached top are what
\* recover_state_from_db and init_or_recover_database would read (src/node.cpp).
\* No other handler leaves the mirror ahead of the disk or behind it.
THEOREM MirrorFollowsDisk ==
    ASSUME DefaultRates, MaxFaults = 0
    PROVE  Spec /\ []EventMintedOnce => [](NoneThrown => MirrorMatchesDisk)
<1>1. Kept /\ (NoneThrown => Settled /\ Exact) => (NoneThrown => MirrorMatchesDisk)
  <2> SUFFICES ASSUME Kept, Settled, Exact PROVE MirrorMatchesDisk
    OBVIOUS
  <2>1. mem.utxos = disk.utxos /\ mem.spent = disk.spent /\ mem.vault = disk.vault
    BY DEF Settled, Mirrored, Exact
  <2>2. \A part \in DOMAIN disk.vault : disk.vault[part] \in Int
    BY DEF Kept, Disk, VaultState, Amount
  <2>3. \A part \in DOMAIN disk.vault : disk.vault[part] >= disk.vault[part]
    BY <2>2
  <2>4. Covers(mem.vault, disk.vault)
    BY <2>1, <2>3 DEF Covers
  <2> QED BY <2>1, <2>4 DEF MirrorMatchesDisk, Exact, Level
<1> QED BY <1>1, SettledExact, StateInvariant, PTL

\* The tables follow the chain without a word on the heights, which agree there.
THEOREM TablesAlwaysFollow ==
    ASSUME DefaultRates, MaxFaults = 0
    PROVE  Spec /\ []EventMintedOnce => [](NoneThrown => IndexesMatchChain /\ RingsAreGrounded)
<1>1. Once /\ (NoneThrown => Settled /\ Exact)
        => (NoneThrown => IndexesMatchChain /\ RingsAreGrounded)
  BY GroundedIs DEF Once, Settled
<1> QED BY <1>1, SettledExact, StateInvariant, PTL

-----------------------------------------------------------------------------
(***************************************************************************)
(* Reorganisations                                                          *)
(***************************************************************************)

\* What ends a reorganisation, other than the end of the process, is a commit at
\* the height it rolled back.
LEMMA ReorgEnds ==
    ASSUME MaxCrashes = 0, MaxFaults = 0, Once, Kept, Level, [Next]_vars,
           reorg.active, ~ reorg'.active
    PROVE  Len(disk'.chain) = Len(disk.chain) + 1
<1>1. ChainTyped /\ Reversible /\ Level
  BY DEF Once
<1>2. ASSUME NEW b \in Block, b.height = top + 1, NEW v, Commit(b, v)
      PROVE  Len(disk'.chain) = Len(disk.chain) + 1
  BY <1>1, <1>2, CommitGrows
<1>3. CASE FinishReorg
  <2>1. PICK v : Commit(reorg.block, v)
    BY <1>3 DEF FinishReorg
  <2>2. reorg.block \in Block /\ reorg.block.height = top + 1
    BY <1>1 DEF Reversible
  <2> QED BY <1>2, <2>1, <2>2
<1>4. CASE AbandonReorg
  <2>1. reorg.localTop \in Block /\ reorg.localTop.height = top + 1
    BY <1>1 DEF Reversible
  <2> QED BY <1>2, <1>4, <2>1 DEF AbandonReorg
<1>5. ~ Crash
  BY DEF Crash, Kept
<1>6. ~ GuardTerminates
  <2>1. ASSUME NEW failed \in {1, 2}, faults + failed <= MaxFaults PROVE FALSE
    BY <2>1 DEF Kept
  <2> QED BY <2>1 DEF GuardTerminates
<1>7. ~ BeginReorg
  BY DEF BeginReorg, Unlocked
<1>8. ASSUME NEW t \in RpcThreads PROVE ~ RpcDepositCheck(t) /\ ~ RpcDeposit(t)
  BY <1>8 DEF RpcDepositCheck, RpcDeposit, Unlocked
<1>9. /\ ~ DirectDeposit /\ ~ TransferShielded /\ ~ SubmitPreSigned /\ ~ WithdrawShielded
      /\ ~ ClaimTreasuryFees /\ ~ ApplyRemoteBlock /\ ~ RejectRemoteBlock /\ ~ UNCHANGED vars
  BY DEF DirectDeposit, TransferShielded, SubmitPreSigned, WithdrawShielded,
         ClaimTreasuryFees, ApplyRemoteBlock, RejectRemoteBlock, Unlocked, vars
<1> QED BY <1>3, <1>4, <1>5, <1>6, <1>7, <1>8, <1>9 DEF Next

-----------------------------------------------------------------------------
(***************************************************************************)
(* PART THREE.  The value on a node's chain, and the chain a node promises: *)
(* what the blocks take and give, the supply the vault of the chain counts, *)
(* and the steps of CanonicalChain that the handlers are.                   *)
(***************************************************************************)
-----------------------------------------------------------------------------
(***************************************************************************)
(* Amounts of outputs, added up                                             *)
(***************************************************************************)

Amounts == [o \in Output |-> o.amount]

\* The sum of the code's loops over outputs, with weights that are a function.
LEMMA SumOfIs ==
    ASSUME NEW S \in SUBSET Output, IsFiniteSet(S) PROVE SumOf(S) = SumBy(Amounts, S)
<1> DEFINE IsSum(it) == it = [s \in SUBSET S |->
                                IF s = {} THEN 0 ELSE Some(s).amount + it[s \ {Some(s)}]]
<1>1. \A s \in SUBSET S : s # {} => Amounts[Some(s)] = Some(s).amount
  <2>1. \A s \in SUBSET S : s # {} => Some(s) \in Output
    BY DEF Some
  <2> QED BY <2>1 DEF Amounts
<1>2. \A it : IsSum(it) <=> Sums(it, Amounts, S)
  <2> TAKE it
  <2>1. [s \in SUBSET S |-> IF s = {} THEN 0 ELSE Some(s).amount + it[s \ {Some(s)}]]
          = [s \in SUBSET S |-> IF s = {} THEN 0 ELSE Amounts[Some(s)] + it[s \ {Some(s)}]]
    BY <1>1
  <2> QED BY <2>1 DEF Sums
<1>3. PICK jt : Sums(jt, Amounts, S)
  BY SumsExist
<1> DEFINE it == CHOOSE it : IsSum(it)
<1>4. SumOf(S) = it[S]
  BY DEF SumOf, MapThenSumSet, MapThenFoldSet, Some
<1>5. Sums(it, Amounts, S)
  BY <1>2, <1>3
<1> HIDE DEF it
<1>6. SumBy(Amounts, S) = it[S]
  BY <1>5, SumByWithin
<1> QED BY <1>4, <1>6

\* Sums over outputs that have nothing in common.
LEMMA SumOfParts ==
    ASSUME NEW S \in SUBSET Output, IsFiniteSet(S), NEW T \in SUBSET Output, IsFiniteSet(T),
           S \cap T = {}
    PROVE  /\ SumOf(S) \in Int /\ SumOf(T) \in Int
           /\ SumOf(S \cup T) = SumOf(S) + SumOf(T)
<1> DEFINE U == S \cup T
<1>1. U \in SUBSET Output /\ IsFiniteSet(U) /\ S \in SUBSET U /\ T \in SUBSET U
  BY FS_Union
<1> HIDE DEF U
<1>2. Weighed(Amounts, U)
  BY <1>1 DEF Weighed, Amounts, Output
<1>3. /\ SumBy(Amounts, S) \in Int /\ SumBy(Amounts, T) \in Int
  BY <1>1, <1>2, SumByTakes
<1>4. SumBy(Amounts, S \cup T) = SumBy(Amounts, S) + SumBy(Amounts, T)
  BY <1>1, <1>2, SumByUnion
<1>5. SumOf(S) = SumBy(Amounts, S) /\ SumOf(T) = SumBy(Amounts, T)
  BY SumOfIs
<1>6. SumOf(S \cup T) = SumBy(Amounts, S \cup T)
  BY <1>1, SumOfIs DEF U
<1> QED BY <1>3, <1>4, <1>5, <1>6

\* The sums a block of the program can need: of no output, and of one.
LEMMA SumOfFew ==
    /\ SumOf({}) = 0
    /\ \A o \in Output : SumOf({o}) = o.amount
<1>1. SumOf({}) = 0
  <2>1. IsFiniteSet({}) /\ {} \in SUBSET Output /\ Weighed(Amounts, {})
    BY FS_EmptySet DEF Weighed
  <2> QED BY <2>1, SumOfIs, SumByTakes
<1>2. ASSUME NEW o \in Output PROVE SumOf({o}) = o.amount
  <2> DEFINE S == {o}
  <2>1. IsFiniteSet(S) /\ S \in SUBSET Output /\ o \in S /\ S \ {o} = {}
    BY FS_Singleton
  <2> HIDE DEF S
  <2>2. Weighed(Amounts, S)
    BY <2>1 DEF Weighed, Amounts, Output
  <2>3. SumBy(Amounts, {}) = 0
    BY <2>1, <2>2, SumByTakes
  <2>4. SumBy(Amounts, S) = Amounts[o] + SumBy(Amounts, S \ {o})
    BY <2>1, <2>2, SumByTakes
  <2>5. Amounts[o] = o.amount /\ o.amount \in Int
    BY DEF Amounts, Output
  <2>6. SumOf(S) = o.amount
    <3>1. SumOf(S) = SumBy(Amounts, S)
      BY <2>1, SumOfIs
    <3>2. SumBy(Amounts, S \ {o}) = 0
      BY <2>1, <2>3
    <3>3. SumOf(S) = Amounts[o] + 0
      BY <2>4, <3>1, <3>2
    <3> QED BY <2>5, <3>3
  <2> QED BY <2>6 DEF S
<1> QED BY <1>1, <1>2

FeeIn(op) == IF op.kind = "transfer" THEN op.fee ELSE 0

Charged(chain) == [i \in DOMAIN chain |-> FeeIn(chain[i].op)]

\* The fees of the transfers on a chain, with weights that are a function.
LEMMA FeesAre ==
    ASSUME NEW chain, IsFiniteSet(DOMAIN chain)
    PROVE  TransferFees(chain) = SumBy(Charged(chain), DOMAIN chain)
<1> DEFINE S == DOMAIN chain
           w == Charged(chain)
           IsSum(it) == it = [s \in SUBSET S |->
                                IF s = {} THEN 0
                                ELSE (IF chain[Some(s)].op.kind = "transfer"
                                        THEN chain[Some(s)].op.fee ELSE 0)
                                     + it[s \ {Some(s)}]]
<1>1. \A s \in SUBSET S : s # {} =>
        w[Some(s)] = IF chain[Some(s)].op.kind = "transfer" THEN chain[Some(s)].op.fee ELSE 0
  <2>1. \A s \in SUBSET S : s # {} => Some(s) \in S
    BY DEF Some
  <2> QED BY <2>1 DEF Charged, FeeIn
<1>2. \A it : IsSum(it) <=> Sums(it, w, S)
  <2> TAKE it
  <2> HIDE DEF w
  <2>1. [s \in SUBSET S |-> IF s = {} THEN 0
                            ELSE (IF chain[Some(s)].op.kind = "transfer"
                                    THEN chain[Some(s)].op.fee ELSE 0)
                                 + it[s \ {Some(s)}]]
          = [s \in SUBSET S |-> IF s = {} THEN 0 ELSE w[Some(s)] + it[s \ {Some(s)}]]
    BY <1>1
  <2> QED BY <2>1 DEF Sums
<1>3. PICK jt : Sums(jt, w, S)
  BY SumsExist
<1> DEFINE it == CHOOSE it : IsSum(it)
<1>4. TransferFees(chain) = it[S]
  BY DEF TransferFees, MapThenSumSet, MapThenFoldSet, Some
<1> HIDE DEF w
<1>5. Sums(it, w, S)
  BY <1>2, <1>3
<1> HIDE DEF it, S
<1>6. SumBy(w, S) = it[S]
  BY <1>5, SumByWithin DEF S
<1> QED BY <1>4, <1>6 DEF S, w

\* A chain one block longer has the fee of that block on top.
LEMMA FeesGrow ==
    ASSUME NEW short, NEW long, OneMore(short, long)
    PROVE  /\ TransferFees(short) \in Int /\ FeeIn(Tip(long)) \in Int
           /\ TransferFees(long) = TransferFees(short) + FeeIn(Tip(long))
<1>1. /\ DOMAIN short = 1 .. Len(short) /\ DOMAIN long = 1 .. Len(long)
      /\ Len(short) \in Nat /\ Len(long) = Len(short) + 1
      /\ \A i \in 1 .. Len(short) : long[i] = short[i]
  BY LenProperties DEF OneMore
<1> DEFINE S == 1 .. Len(short)
           T == 1 .. Len(long)
           n == Len(long)
<1>2. IsFiniteSet(S) /\ IsFiniteSet(T)
  BY <1>1, FS_Interval
<1>3. n \in T /\ S = T \ {n} /\ S \in SUBSET T /\ T \in SUBSET T
  BY <1>1
<1>4. \A i \in T : FeeIn(long[i].op) \in Int
  <2>1. \A i \in T : long[i] \in Block
    BY <1>1, ElementOfSeq DEF OneMore
  <2> QED BY <2>1 DEF FeeIn, Block, Op
<1>5. Weighed(Charged(long), T)
  BY <1>1, <1>4 DEF Weighed, Charged
<1>6. /\ SumBy(Charged(long), S) \in Int
      /\ SumBy(Charged(long), T) = Charged(long)[n] + SumBy(Charged(long), T \ {n})
  BY <1>2, <1>3, <1>5, SumByTakes
<1>7. \A i \in S : Charged(long)[i] = Charged(short)[i]
  BY <1>1, <1>3 DEF Charged
<1>8. SumBy(Charged(long), S) = SumBy(Charged(short), S)
  BY <1>2, <1>7, SumByAgrees
<1>9. TransferFees(long) = SumBy(Charged(long), T) /\ TransferFees(short) = SumBy(Charged(short), S)
  BY <1>1, <1>2, FeesAre
<1>10. Charged(long)[n] = FeeIn(Tip(long)) /\ FeeIn(Tip(long)) \in Int
  BY <1>1, <1>3, <1>4 DEF Charged, Tip
<1> HIDE DEF S, T, n
<1> QED BY <1>3, <1>6, <1>8, <1>9, <1>10

-----------------------------------------------------------------------------
(***************************************************************************)
(* What the operations take and give                                        *)
(***************************************************************************)

\* What the handlers and the peers put in a block: few outputs, each under a key
\* of its own; a mint of what the event locked less the fee; or one spent key,
\* with the fee a transfer names.
Priced(op) ==
    /\ IsFiniteSet(op.outs)
    /\ \A o, p \in op.outs : o.key = p.key => o = p
    /\ op.kind = "deposit" => op.spends = {} /\ op.gross = op.fee + SumOf(op.outs)
    /\ op.kind # "deposit" => \E k \in op.spends : op.spends = {k}
    /\ op.kind = "transfer" => op.fee \in Nat

\* What an operation that spends costs its spender.
Cost(op) == (IF op.kind = "withdraw" THEN op.gross ELSE op.fee) + SumOf(op.outs)

\* The outputs an operation spends are worth what it costs; a deposit pays the
\* fee of this node.
Paid(op, utxos) ==
    IF op.kind = "deposit"
      THEN op.fee = FeeOf(op.gross, DepositBps)
      ELSE \A u \in utxos : u.key \in op.spends => u.amount = Cost(op)

\* A deposit mints what it locks, less the fee.
LEMMA DepositPriced ==
    ASSUME NEW event \in Events, NEW bps \in Nat, bps <= BpsOfWhole
    PROVE  Priced(DepositOp(event, bps)) /\ DepositOp(event, bps).kind = "deposit"
<1> DEFINE op == DepositOp(event, bps)
           o == [key |-> event, amount |-> NetOf(Gross[event], bps)]
<1>1. op \in Op
  BY DepositBuilt DEF WellBuilt
<1>2. op.outs = {o} /\ op.kind = "deposit" /\ op.gross = Gross[event] /\ op.spends = {}
      /\ op.fee = FeeOf(Gross[event], bps)
  BY DEF DepositOp
<1>3. o \in Output
  BY <1>1, <1>2 DEF Op
<1>4. SumOf(op.outs) = o.amount
  <2> HIDE DEF o
  <2> QED BY <1>2, <1>3, SumOfFew
<1>5. o.amount = Gross[event] - FeeOf(Gross[event], bps)
  BY DEF NetOf
<1>6. op.gross \in Int /\ op.fee \in Int
  BY <1>1 DEF Op
<1>7. op.gross = op.fee + SumOf(op.outs)
  <2> HIDE DEF op, o
  <2> QED BY <1>2, <1>4, <1>5, <1>6
<1> HIDE DEF op, o
<1>8. IsFiniteSet(op.outs) /\ \A p, q \in op.outs : p.key = q.key => p = q
  BY <1>2, FS_Singleton
<1> QED BY <1>2, <1>7, <1>8 DEF Priced, op

\* A change output is what is left, or nothing is left.
LEMMA ChangePriced ==
    ASSUME NEW k \in Keys, NEW amount \in Int
    PROVE  /\ Change(k, amount) \in SUBSET Output
           /\ IsFiniteSet(Change(k, amount))
           /\ \A o \in Change(k, amount) : o = [key |-> k, amount |-> amount]
           /\ amount >= 0 => SumOf(Change(k, amount)) = amount
<1> DEFINE o == [key |-> k, amount |-> amount]
<1>1. CASE amount > 0
  <2>1. Change(k, amount) = {o} /\ o \in Output /\ o.amount = amount
    BY <1>1 DEF Change, Output
  <2> HIDE DEF o
  <2>2. SumOf(Change(k, amount)) = amount
    BY <2>1, SumOfFew
  <2>3. IsFiniteSet(Change(k, amount))
    BY <2>1, FS_Singleton
  <2> QED BY <2>1, <2>2, <2>3 DEF o
<1>2. CASE ~ (amount > 0)
  <2>1. Change(k, amount) = {}
    BY <1>2 DEF Change
  <2> QED BY <1>2, <2>1, FS_EmptySet, SumOfFew
<1> QED BY <1>1, <1>2

\* A transfer gives the recipient and the change, two outputs under two keys, or
\* one when nothing is left.
LEMMA TransferPriced ==
    ASSUME NEW u \in Output, NEW ring, NEW send \in Nat, NEW fee \in Nat,
           NEW k1 \in Keys, NEW k2 \in Keys,
           k1 # k2 \/ u.amount <= send + fee
    PROVE  /\ Priced(TransferOp(u, ring, send, fee, k1, k2))
           /\ TransferOp(u, ring, send, fee, k1, k2).kind = "transfer"
           /\ u.amount >= send + fee =>
                Cost(TransferOp(u, ring, send, fee, k1, k2)) = u.amount
<1> DEFINE op == TransferOp(u, ring, send, fee, k1, k2)
           o == [key |-> k1, amount |-> send]
           rest == u.amount - send - fee
           change == Change(k2, rest)
<1>1. /\ op.kind = "transfer" /\ op.outs = {o} \cup change
      /\ op.spends = {u.key} /\ op.fee = fee
  BY DEF TransferOp
<1>2. o \in Output /\ rest \in Int /\ o.key = k1 /\ o.amount = send /\ u.amount \in Int
  BY DEF Output
<1>3. /\ change \in SUBSET Output /\ IsFiniteSet(change)
      /\ \A p \in change : p = [key |-> k2, amount |-> rest]
      /\ rest >= 0 => SumOf(change) = rest
  <2> HIDE DEF rest
  <2> QED BY <1>2, ChangePriced
<1>4. k1 # k2 \/ change = {}
  <2>1. CASE u.amount <= send + fee
    <3>1. ~ (rest > 0)
      BY <1>2, <2>1
    <3> HIDE DEF rest
    <3> QED BY <3>1 DEF Change
  <2> QED BY <2>1
<1> HIDE DEF change, o
<1>5. \A p \in change : p.key = k2
  BY <1>3
<1>6. {o} \cap change = {}
  BY <1>2, <1>4, <1>5
<1>7. IsFiniteSet({o}) /\ {o} \in SUBSET Output /\ SumOf({o}) = send
  BY <1>2, FS_Singleton, SumOfFew
<1>8. /\ SumOf({o}) \in Int /\ SumOf(change) \in Int
      /\ SumOf(op.outs) = SumOf({o}) + SumOf(change)
  BY <1>1, <1>3, <1>6, <1>7, SumOfParts
<1>9. IsFiniteSet(op.outs)
  <2>1. IsFiniteSet({o} \cup change)
    BY <1>3, <1>7, FS_Union
  <2> QED BY <1>1, <2>1
<1>10. \A p, q \in op.outs : p.key = q.key => p = q
  BY <1>1, <1>2, <1>3, <1>4, <1>5
<1> HIDE DEF op
<1>11. Priced(op)
  BY <1>1, <1>9, <1>10 DEF Priced
<1>12. ASSUME u.amount >= send + fee PROVE Cost(op) = u.amount
  <2>1. rest >= 0
    BY <1>2, <1>12
  <2>2. Cost(op) = fee + (send + rest)
    <3> HIDE DEF rest
    <3> QED BY <2>1, <1>1, <1>3, <1>7, <1>8 DEF Cost
  <2> QED BY <2>2, <1>2
<1> QED BY <1>1, <1>11, <1>12 DEF op

\* A withdrawal burns the gross amount and gives the change.
LEMMA WithdrawPriced ==
    ASSUME NEW u \in Output, NEW gross \in Nat, NEW bps \in Nat, NEW k \in Keys
    PROVE  /\ Priced(WithdrawOp(u, gross, bps, k))
           /\ WithdrawOp(u, gross, bps, k).kind = "withdraw"
           /\ u.amount >= gross => Cost(WithdrawOp(u, gross, bps, k)) = u.amount
<1> DEFINE op == WithdrawOp(u, gross, bps, k)
           rest == u.amount - gross
<1>1. /\ op.kind = "withdraw" /\ op.outs = Change(k, rest)
      /\ op.spends = {u.key} /\ op.gross = gross
  BY DEF WithdrawOp
<1>2. rest \in Int /\ u.amount \in Int
  BY DEF Output
<1>3. /\ Change(k, rest) \in SUBSET Output /\ IsFiniteSet(Change(k, rest))
      /\ \A p \in Change(k, rest) : p = [key |-> k, amount |-> rest]
      /\ rest >= 0 => SumOf(Change(k, rest)) = rest
  <2> HIDE DEF rest
  <2> QED BY <1>2, ChangePriced
<1> HIDE DEF op
<1>4. Priced(op)
  BY <1>1, <1>3 DEF Priced
<1>5. ASSUME u.amount >= gross PROVE Cost(op) = u.amount
  <2>1. rest >= 0
    BY <1>2, <1>5
  <2>2. Cost(op) = gross + rest
    <3> HIDE DEF rest
    <3> QED BY <2>1, <1>1, <1>3 DEF Cost
  <2> QED BY <2>2, <1>2
<1> QED BY <1>1, <1>4, <1>5 DEF op

-----------------------------------------------------------------------------
(***************************************************************************)
(* The invariant                                                            *)
(***************************************************************************)

UniqueKeys(utxos) == \A u, w \in utxos : u.key = w.key => u = w

Free(utxos, spent) == {u \in utxos : u.key \notin spent}

Linked == \A i \in 1 .. Len(disk.chain) : disk.chain[i].prev = HashAt(disk, i - 1)

\* The supply of the vault on disk, at every moment.
Supplied ==
    disk.vault.circulating = SumOf(Free(disk.utxos, disk.spent)) + TransferFees(disk.chain)

\* What a reorganisation holds can be put back: paid for, linked, and less
\* preferred than the block that displaced it.
Returnable ==
    reorg.active =>
        /\ Priced(reorg.block.op)
        /\ Priced(reorg.localTop.op)
        /\ Paid(reorg.localTop.op, disk.utxos)
        /\ reorg.localTop.prev = HashAt(disk, top)
        /\ Preferred(reorg.block, reorg.localTop)

Valued ==
    /\ IsFiniteSet(disk.utxos)
    /\ \A i \in 1 .. Len(disk.chain) :
            Priced(disk.chain[i].op) /\ Paid(disk.chain[i].op, disk.utxos)
    /\ Linked
    /\ Supplied
    /\ Returnable

\* No two outputs on the chain have one key.
LEMMA OneOutput ==
    ASSUME ChainTyped, IndexesMatchChain, Distinct,
           \A i \in 1 .. Len(disk.chain) : Priced(disk.chain[i].op)
    PROVE  UniqueKeys(disk.utxos)
<1>1. DOMAIN disk.chain = 1 .. Len(disk.chain)
  BY LenProperties DEF ChainTyped
<1>2. \A u \in disk.utxos : \E i \in 1 .. Len(disk.chain) : u \in disk.chain[i].op.outs
  BY <1>1 DEF IndexesMatchChain, OutputsOn
<1> SUFFICES ASSUME NEW u \in disk.utxos, NEW w \in disk.utxos, u.key = w.key PROVE u = w
  BY DEF UniqueKeys
<1>3. PICK i \in 1 .. Len(disk.chain) : u \in disk.chain[i].op.outs
  BY <1>2
<1>4. PICK j \in 1 .. Len(disk.chain) : w \in disk.chain[j].op.outs
  BY <1>2
<1>5. u.key \in KeysOf(disk.chain[i].op.outs) /\ u.key \in KeysOf(disk.chain[j].op.outs)
  BY <1>3, <1>4 DEF KeysOf
<1>6. i = j
  BY <1>5 DEF Distinct
<1> QED BY <1>3, <1>4, <1>6 DEF Priced

\* One more block, and the sum of the unspent outputs.
LEMMA FreeMoves ==
    ASSUME NEW utxos \in SUBSET Output, IsFiniteSet(utxos), UniqueKeys(utxos),
           NEW spent, spent \subseteq KeysOf(utxos),
           NEW op \in Op, Priced(op), Paid(op, utxos),
           KeysOf(op.outs) \cap KeysOf(utxos) = {},
           op.spends \subseteq KeysOf(utxos), op.spends \cap spent = {}
    PROVE  /\ SumOf(Free(utxos, spent)) \in Int /\ SumOf(op.outs) \in Int
           /\ SumOf(Free(utxos \cup op.outs, spent \cup op.spends))
                = SumOf(Free(utxos, spent)) + SumOf(op.outs)
                    - (IF op.kind = "deposit" THEN 0 ELSE Cost(op))
<1> DEFINE old == Free(utxos, spent)
           new == Free(utxos \cup op.outs, spent \cup op.spends)
<1>0. op.outs \in SUBSET Output /\ IsFiniteSet(op.outs)
  BY DEF Op, Priced
<1>1. old \in SUBSET Output /\ IsFiniteSet(old) /\ old \subseteq utxos
  BY FS_Subset DEF Free
<1>2. \A o \in op.outs : o.key \notin KeysOf(utxos)
  BY DEF KeysOf
<1>3. \A o \in op.outs : o.key \notin spent /\ o.key \notin op.spends
  BY <1>2
<1>4. \A u \in utxos : u.key \in KeysOf(utxos)
  BY DEF KeysOf
<1>5. old \cap op.outs = {}
  BY <1>1, <1>2, <1>4
<1>6. SumOf(old) \in Int /\ SumOf(op.outs) \in Int
  BY <1>0, <1>1, <1>5, SumOfParts
<1>7. CASE op.kind = "deposit"
  <2>1. op.spends = {}
    BY <1>7 DEF Priced
  <2>2. new = old \cup op.outs
    BY <2>1, <1>3 DEF Free
  <2>3. SumOf(old \cup op.outs) = SumOf(old) + SumOf(op.outs)
    BY <1>0, <1>1, <1>5, SumOfParts
  <2> HIDE DEF old, new
  <2>4. SumOf(new) = SumOf(old) + SumOf(op.outs) - 0
    BY <2>2, <2>3, <1>6
  <2> QED BY <1>6, <1>7, <2>4 DEF old, new
<1>8. CASE op.kind # "deposit"
  <2>1. PICK k : op.spends = {k}
    BY <1>8 DEF Priced
  <2>2. PICK u \in utxos : u.key = k
    BY <2>1 DEF KeysOf
  <2>3. u.amount = Cost(op) /\ u \in Output
    BY <1>8, <2>1, <2>2 DEF Paid
  <2>4. u \in old /\ \A w \in utxos : w.key = k => w = u
    BY <2>1, <2>2 DEF Free, UniqueKeys
  <2> DEFINE rest == old \ {u}
  <2>5. new = rest \cup op.outs
    BY <2>1, <2>2, <2>4, <1>3 DEF Free
  <2>6. rest \in SUBSET Output /\ IsFiniteSet(rest) /\ old = rest \cup {u}
    BY <1>1, <2>4, FS_RemoveElement
  <2>7. rest \cap op.outs = {} /\ rest \cap {u} = {}
    BY <1>5
  <2> HIDE DEF old, new, rest
  <2>8. SumOf(rest \cup op.outs) = SumOf(rest) + SumOf(op.outs) /\ SumOf(rest) \in Int
    BY <1>0, <2>6, <2>7, SumOfParts
  <2>9. SumOf(rest \cup {u}) = SumOf(rest) + SumOf({u})
    <3>1. {u} \in SUBSET Output /\ IsFiniteSet({u})
      BY <2>3, FS_Singleton
    <3> QED BY <2>6, <2>7, <3>1, SumOfParts
  <2>10. SumOf({u}) = Cost(op) /\ Cost(op) \in Int
    BY <2>3, SumOfFew DEF Output
  <2>11. SumOf(new) = SumOf(old) + SumOf(op.outs) - Cost(op)
    BY <2>5, <2>6, <2>8, <2>9, <2>10, <1>6
  <2> QED BY <1>6, <1>8, <2>11 DEF old, new
<1> QED BY <1>7, <1>8

\* The supply follows the outputs when a vault takes an operation.
Follows(utxos, spent, op, v) ==
    /\ SumOf(Free(utxos, spent)) \in Int
    /\ After(v, op).circulating \in Int
    /\ SumOf(Free(utxos \cup op.outs, spent \cup op.spends)) + FeeIn(op)
         - SumOf(Free(utxos, spent)) = After(v, op).circulating - v.circulating

\* The same block, and what the vault counts.
LEMMA SupplyMoves ==
    ASSUME NEW utxos \in SUBSET Output, IsFiniteSet(utxos), UniqueKeys(utxos),
           NEW spent, spent \subseteq KeysOf(utxos),
           NEW op \in Op, Priced(op), Paid(op, utxos),
           KeysOf(op.outs) \cap KeysOf(utxos) = {},
           op.spends \subseteq KeysOf(utxos), op.spends \cap spent = {},
           NEW v \in VaultState
    PROVE  Follows(utxos, spent, op, v)
<1> DEFINE old == SumOf(Free(utxos, spent))
           new == SumOf(Free(utxos \cup op.outs, spent \cup op.spends))
           given == SumOf(op.outs)
<1>1. /\ old \in Int /\ given \in Int
      /\ new = old + given - (IF op.kind = "deposit" THEN 0 ELSE Cost(op))
  BY FreeMoves
<1>2. /\ op.kind \in {"deposit", "transfer", "withdraw"}
      /\ op.gross \in Int /\ op.fee \in Int /\ v.circulating \in Int
  BY DEF Op, VaultState, Amount
<1> SUFFICES /\ old \in Int
             /\ After(v, op).circulating \in Int
             /\ new + FeeIn(op) - old = After(v, op).circulating - v.circulating
  BY DEF Follows, old, new
<1> HIDE DEF old, new
<1>3. CASE op.kind = "deposit"
  <2>1. op.gross = op.fee + given /\ op.fee = FeeOf(op.gross, DepositBps)
    BY <1>3 DEF Priced, Paid
  <2>2. After(v, op).circulating = v.circulating + (op.gross - FeeOf(op.gross, DepositBps))
    BY <1>3 DEF After, VaultAfter, AfterDeposit, NetOf
  <2>3. FeeIn(op) = 0
    BY <1>3 DEF FeeIn
  <2> HIDE DEF given
  <2>4. op.gross - FeeOf(op.gross, DepositBps) = given
    BY <1>1, <1>2, <2>1
  <2>5. After(v, op).circulating = v.circulating + given
    BY <2>2, <2>4
  <2>6. new = old + given
    BY <1>1, <1>3
  <2> QED BY <1>1, <1>2, <2>3, <2>5, <2>6
<1>4. CASE op.kind = "transfer"
  <2>1. Cost(op) = op.fee + given /\ FeeIn(op) = op.fee
    BY <1>4 DEF Cost, FeeIn
  <2>2. After(v, op) = v
    BY <1>4 DEF After, VaultAfter
  <2> HIDE DEF given
  <2> QED BY <1>1, <1>2, <1>4, <2>1, <2>2
<1>5. CASE op.kind = "withdraw"
  <2>1. Cost(op) = op.gross + given /\ FeeIn(op) = 0
    BY <1>5 DEF Cost, FeeIn
  <2>2. After(v, op).circulating = v.circulating - op.gross
    BY <1>5 DEF After, VaultAfter, AfterWithdraw
  <2> HIDE DEF given
  <2> QED BY <1>1, <1>2, <1>5, <2>1, <2>2
<1> QED BY <1>2, <1>3, <1>4, <1>5

-----------------------------------------------------------------------------
(***************************************************************************)
(* The three things a step does to the chain                                *)
(***************************************************************************)

\* It commits a block: on the tip, or in the place of the tip rolled back.
Grows(b) ==
    /\ b \in Block /\ b.height = top + 1 /\ b.prev = HashAt(disk, top)
    /\ Priced(b.op) /\ Paid(b.op, disk.utxos)
    /\ Commit(b, After(disk.vault, b.op))
    /\ ~ reorg'.active
    /\ \/ Unlocked
       \/ b = reorg.localTop
       \/ Preferred(b, reorg.localTop)

\* It rolls the tip back for a block that it prefers.
Rolls ==
    /\ Unlocked /\ top > 0 /\ disk' = RolledBack(disk, top)
    /\ reorg'.active /\ reorg'.localTop = disk.chain[top]
    /\ Priced(reorg'.block.op) /\ Preferred(reorg'.block, disk.chain[top])

\* It leaves the chain and its tables alone.
Stays ==
    /\ disk'.chain = disk.chain /\ disk'.vault = disk.vault
    /\ disk'.utxos = disk.utxos /\ disk'.spent = disk.spent
    /\ reorg' = reorg \/ ~ reorg'.active

\* What the peers send is priced.
LEMMA PeerOpsPriced ==
    ASSUME ChainTyped, NEW op \in PeerOps PROVE Priced(op)
<1>k. UnusedKeys \subseteq Keys /\ mem.utxos \in SUBSET Output
  BY DEF UnusedKeys, Keys, ChainTyped
<1>1. ASSUME NEW event \in PeerEvents, NEW bps \in PeerBps, op = DepositOp(event, bps)
      PROVE  Priced(op)
  <2>1. event \in Events /\ bps \in Nat /\ bps <= BpsOfWhole
    BY PeerInputs
  <2> QED BY <1>1, <2>1, DepositPriced
<1>2. ASSUME NEW u \in mem.utxos, NEW fee \in TxFees, NEW ring \in RingsAround(u, mem.utxos),
             NEW k \in UnusedKeys, NEW send \in {u.amount - fee} \cap Nat,
             op = TransferOp(u, ring, send, fee, k, k)
      PROVE  Priced(op)
  <2>1. u \in Output /\ send \in Nat /\ fee \in Nat /\ k \in Keys
    BY <1>k, NodeConstants
  <2>2. u.amount <= send + fee
    <3>1. u.amount \in Nat /\ send = u.amount - fee
      BY <2>1 DEF Output
    <3> QED BY <2>1, <3>1
  <2> QED BY <1>2, <2>1, <2>2, TransferPriced
<1>3. ASSUME NEW u \in mem.utxos, NEW gross \in WithdrawAmounts, NEW bps \in PeerBps,
             NEW k \in UnusedKeys, op = WithdrawOp(u, gross, bps, k)
      PROVE  Priced(op)
  <2>1. u \in Output /\ gross \in Nat /\ k \in Keys
    BY <1>k, NodeConstants
  <2>2. bps \in Nat
    BY PeerInputs
  <2> QED BY <1>3, <2>1, <2>2, WithdrawPriced
<1> QED BY <1>1, <1>2, <1>3 DEF PeerOps, PeerTransfers

\* What validation accepts is paid.
LEMMA ValidPaid ==
    ASSUME ChainTyped, UniqueKeys(disk.utxos), mem.utxos = disk.utxos,
           NEW b, b.op \in Op, ValidBlock(b, mem, disk, top)
    PROVE  Paid(b.op, disk.utxos)
<1>1. b.op.kind \in {"deposit", "transfer", "withdraw"}
  BY DEF Op
<1>2. CASE b.op.kind = "deposit"
  BY <1>2 DEF ValidBlock, MintOK, Paid
<1>3. CASE b.op.kind = "transfer"
  <2>1. TransferOK(b.op, mem, disk)
    BY <1>3 DEF ValidBlock
  <2>2. \A u \in disk.utxos : u.key \in b.op.spends => u.amount = b.op.fee + SumOf(b.op.outs)
    BY <2>1 DEF TransferOK
  <2> QED BY <1>3, <2>2 DEF Paid, Cost
<1>4. CASE b.op.kind = "withdraw"
  <2>1. BurnOK(b.op, mem, disk)
    BY <1>4 DEF ValidBlock
  <2>2. PICK w \in disk.utxos : /\ b.op.spends = {w.key}
                                /\ SumOf(b.op.outs) = w.amount - b.op.gross
                                /\ w.amount >= b.op.gross
    BY <2>1 DEF BurnOK
  <2>3. \A u \in disk.utxos : u.key \in b.op.spends => u = w
    BY <2>2 DEF UniqueKeys
  <2>4. w.amount \in Int /\ b.op.gross \in Int
    BY DEF ChainTyped, Output, Op
  <2>5. w.amount = b.op.gross + SumOf(b.op.outs)
    BY <2>2, <2>4
  <2> QED BY <1>4, <2>3, <2>5 DEF Paid, Cost
<1> QED BY <1>1, <1>2, <1>3, <1>4

\* The tail of the local handlers.
LEMMA MineGrows ==
    ASSUME ChainTyped, Exact, Unlocked, UNCHANGED reorg, NEW op \in Op, Mine(op),
           Priced(op), Paid(op, disk.utxos)
    PROVE  Stays \/ \E b : Grows(b)
<1> DEFINE Mined(h) == [height |-> top + 1, hash |-> h, prev |-> HashAt(disk, top),
                        validator |-> Self, signers |-> {Self}, op |-> op]
<1>1. ASSUME NEW h \in NewHashes(top + 1), Commit(Mined(h), After(mem.vault, op))
      PROVE  Grows(Mined(h))
  <2>1. Mined(h) \in Block
    BY NextBlockTyped, LedgerConstants
  <2>2. Mined(h).height = top + 1 /\ Mined(h).op = op /\ Mined(h).prev = HashAt(disk, top)
    OBVIOUS
  <2> HIDE DEF Mined
  <2>3. Commit(Mined(h), After(disk.vault, Mined(h).op))
    BY <1>1, <2>2 DEF Exact
  <2> QED BY <2>1, <2>2, <2>3 DEF Grows, Unlocked
<1>2. ASSUME DiskFault PROVE Stays
  BY <1>2 DEF DiskFault, Stays
<1> HIDE DEF Mined
<1> QED BY <1>1, <1>2 DEF Mine, After, Mined
\* A transfer mined here: built here, or built by a client and checked here.
LEMMA TransferGrows ==
    ASSUME ChainTyped, Exact, Unlocked, UNCHANGED reorg,
           UniqueKeys(disk.utxos), mem.utxos = disk.utxos,
           NEW u \in mem.utxos, NEW send \in SendAmounts, NEW fee \in TxFees,
           NEW ring \in RingsAround(u, mem.utxos), NEW k1 \in UnusedKeys, NEW k2 \in UnusedKeys,
           k1 # k2, u.amount >= send + fee \/ TransferOK(TransferOp(u, ring, send, fee, k1, k2), mem, disk),
           Mine(TransferOp(u, ring, send, fee, k1, k2))
    PROVE  Stays \/ \E b : Grows(b)
<1> DEFINE op == TransferOp(u, ring, send, fee, k1, k2)
<1>1. op \in Op /\ Mine(op)
  BY TransferTaken
<1>2. /\ u \in Output /\ send \in Nat /\ fee \in Nat /\ k1 \in Keys /\ k2 \in Keys
  BY NodeConstants DEF ChainTyped, UnusedKeys, Keys
<1>3. /\ Priced(op) /\ op.kind = "transfer"
      /\ u.amount >= send + fee => Cost(op) = u.amount
  BY <1>2, TransferPriced
<1>4. op.spends = {u.key}
  BY DEF TransferOp
<1>5. CASE u.amount >= send + fee
  <2>1. \A w \in disk.utxos : w.key \in op.spends => w.amount = Cost(op)
    BY <1>3, <1>4, <1>5 DEF UniqueKeys
  <2>2. Paid(op, disk.utxos)
    BY <1>3, <2>1 DEF Paid
  <2> HIDE DEF op
  <2> QED BY <1>1, <1>3, <2>2, MineGrows
<1>6. CASE TransferOK(op, mem, disk)
  <2> HIDE DEF op
  <2>1. \A w \in disk.utxos : w.key \in op.spends => w.amount = op.fee + SumOf(op.outs)
    BY <1>6 DEF TransferOK
  <2>2. Paid(op, disk.utxos)
    BY <1>3, <2>1 DEF Paid, Cost
  <2> QED BY <1>1, <1>3, <2>2, MineGrows
<1> QED BY <1>5, <1>6

\* A withdrawal mined here.
LEMMA WithdrawGrows ==
    ASSUME ChainTyped, Exact, UniqueKeys(disk.utxos), mem.utxos = disk.utxos, WithdrawShielded
    PROVE  Stays \/ \E b : Grows(b)
<1>1. PICK u \in mem.utxos, gross \in WithdrawAmounts, k \in UnusedKeys :
        u.amount >= gross /\ Mine(WithdrawOp(u, gross, WithdrawBps, k))
  BY DEF WithdrawShielded
<1> DEFINE op == WithdrawOp(u, gross, WithdrawBps, k)
<1>2. u \in Output /\ gross \in Nat /\ WithdrawBps \in Nat /\ k \in Keys
  BY NodeConstants, LedgerConstants DEF ChainTyped, UnusedKeys, Keys
<1>3. op \in Op
  BY <1>2, WithdrawBuilt DEF WellBuilt
<1>4. Priced(op) /\ op.kind = "withdraw" /\ Cost(op) = u.amount
  BY <1>1, <1>2, WithdrawPriced
<1>5. op.spends = {u.key} /\ Mine(op)
  BY <1>1 DEF WithdrawOp
<1> HIDE DEF op
<1>6. Paid(op, disk.utxos)
  BY <1>4, <1>5 DEF Paid, UniqueKeys
<1> QED BY <1>3, <1>4, <1>5, <1>6, MineGrows DEF WithdrawShielded

\* A deposit mined here.
LEMMA DepositGrows ==
    ASSUME ChainTyped, Exact, Unlocked, UNCHANGED reorg, NEW event \in Events, DepositMined(event)
    PROVE  Stays \/ \E b : Grows(b)
<1> DEFINE op == DepositOp(event, DepositBps)
<1>1. Mine(op) /\ DepositBps \in Nat /\ DepositBps <= BpsOfWhole
  BY LedgerConstants DEF DepositMined, DepositOK
<1>2. op \in Op
  BY <1>1, DepositBuilt DEF WellBuilt
<1>3. Priced(op) /\ op.kind = "deposit"
  BY <1>1, DepositPriced
<1>4. op.fee = FeeOf(op.gross, DepositBps)
  BY DEF DepositOp
<1> HIDE DEF op
<1>5. Paid(op, disk.utxos)
  BY <1>3, <1>4 DEF Paid
<1> QED BY <1>1, <1>2, <1>3, <1>5, MineGrows

\* A block of a peer.
LEMMA RemoteGrows ==
    ASSUME ChainTyped, Exact, UniqueKeys(disk.utxos), mem.utxos = disk.utxos, ApplyRemoteBlock
    PROVE  Stays \/ \E b : Grows(b)
<1> DEFINE Sent(s, h, op) == [height |-> top + 1, hash |-> h, prev |-> HashAt(disk, top),
                              validator |-> s.validator, signers |-> s.signers, op |-> op]
<1>1. PICK s \in PeerSignatures, h \in NewHashes(top + 1), op \in PeerOps :
        /\ ValidBlock(Sent(s, h, op), mem, disk, top)
        /\ Commit(Sent(s, h, op), After(mem.vault, op)) \/ DiskFault
  BY DEF ApplyRemoteBlock, After
<1> DEFINE b == Sent(s, h, op)
<1>2. op \in Op /\ Priced(op)
  BY PeerOpsBuilt, PeerOpsPriced DEF WellBuilt
<1>3. b \in Block
  <2>1. s.validator \in Validators /\ s.signers \in SUBSET Validators
    BY NodeConstants
  <2> QED BY <1>2, <2>1, NextBlockTyped
<1>4. b.height = top + 1 /\ b.op = op /\ b.prev = HashAt(disk, top)
  OBVIOUS
<1>5. ValidBlock(b, mem, disk, top)
  BY <1>1
<1>6. Unlocked /\ ~ reorg'.active /\ UNCHANGED reorg
  BY DEF ApplyRemoteBlock, Unlocked
<1>7. Commit(b, After(mem.vault, op)) \/ DiskFault
  BY <1>1
<1> HIDE DEF Sent, b
<1>8. Paid(b.op, disk.utxos)
  BY <1>2, <1>4, <1>5, ValidPaid
<1>9. CASE Commit(b, After(mem.vault, op))
  BY <1>2, <1>3, <1>4, <1>6, <1>8, <1>9 DEF Grows, Exact
<1>10. CASE DiskFault
  BY <1>6, <1>10 DEF DiskFault, Stays
<1> QED BY <1>7, <1>9, <1>10

\* The block that won the fork choice.
LEMMA FinishGrows ==
    ASSUME ChainTyped, Reversible, Exact, Returnable,
           UniqueKeys(disk.utxos), mem.utxos = disk.utxos, FinishReorg
    PROVE  \E b : Grows(b)
<1> DEFINE b == reorg.block
<1>1. ValidBlock(b, mem, disk, top) /\ Commit(b, After(mem.vault, b.op)) /\ reorg.active
  BY DEF FinishReorg, After
<1>2. b \in Block /\ b.height = top + 1 /\ b.op \in Op
  BY <1>1 DEF Reversible, Block
<1>3. Priced(b.op) /\ Preferred(b, reorg.localTop)
  BY <1>1 DEF Returnable
<1>4. ~ reorg'.active
  BY DEF FinishReorg, NoReorg
<1> HIDE DEF b
<1>5. b.prev = HashAt(disk, top)
  BY <1>1 DEF ValidBlock
<1>6. Paid(b.op, disk.utxos)
  BY <1>1, <1>2, ValidPaid
<1> QED BY <1>1, <1>2, <1>3, <1>4, <1>5, <1>6 DEF Grows, Exact

\* The tip that returns.
LEMMA AbandonGrows ==
    ASSUME ChainTyped, Reversible, Exact, Returnable, AbandonReorg
    PROVE  \E b : Grows(b)
<1> DEFINE b == reorg.localTop
<1>1. Commit(b, reorg.savedVault) /\ reorg.active
  BY DEF AbandonReorg
<1>2. b \in Block /\ b.height = top + 1
  BY <1>1 DEF Reversible
<1>3. Priced(b.op) /\ Paid(b.op, disk.utxos) /\ b.prev = HashAt(disk, top)
  BY <1>1 DEF Returnable
<1>4. reorg.savedVault = After(disk.vault, b.op)
  BY <1>1 DEF Exact
<1>5. ~ reorg'.active
  BY DEF AbandonReorg, NoReorg
<1> QED BY <1>1, <1>2, <1>3, <1>4, <1>5 DEF Grows

\* The rollback, or none.
LEMMA BeginRolls ==
    ASSUME ChainTyped, BeginReorg PROVE Stays \/ Rolls
<1>1. PICK s \in PeerSignatures, h \in NewHashes(top), op \in PeerOps :
        /\ Preferred([height |-> top, hash |-> h, prev |-> disk.chain[top].prev,
                      validator |-> s.validator, signers |-> s.signers, op |-> op],
                     disk.chain[top])
        /\ \/ /\ disk' = RolledBack(disk, top)
              /\ reorg' = [active |-> TRUE,
                           block |-> [height |-> top, hash |-> h, prev |-> disk.chain[top].prev,
                                      validator |-> s.validator, signers |-> s.signers,
                                      op |-> op],
                           localTop |-> disk.chain[top],
                           savedVault |-> mem.vault]
           \/ UNCHANGED <<disk, reorg>>
  BY DEF BeginReorg, DiskFault
<1> DEFINE b == [height |-> top, hash |-> h, prev |-> disk.chain[top].prev,
                 validator |-> s.validator, signers |-> s.signers, op |-> op]
<1>2. Priced(op) /\ b.op = op /\ Preferred(b, disk.chain[top])
  BY <1>1, PeerOpsPriced
<1>3. Unlocked /\ top > 0
  BY DEF BeginReorg
<1>4. \/ /\ disk' = RolledBack(disk, top)
         /\ reorg' = [active |-> TRUE, block |-> b, localTop |-> disk.chain[top],
                      savedVault |-> mem.vault]
      \/ UNCHANGED <<disk, reorg>>
  BY <1>1
<1> HIDE DEF b
<1>5. CASE /\ disk' = RolledBack(disk, top)
           /\ reorg' = [active |-> TRUE, block |-> b, localTop |-> disk.chain[top],
                        savedVault |-> mem.vault]
  <2>1. reorg'.active /\ reorg'.block = b /\ reorg'.localTop = disk.chain[top]
    BY <1>5
  <2> QED BY <1>2, <1>3, <1>5, <2>1 DEF Rolls
<1>6. CASE UNCHANGED <<disk, reorg>>
  BY <1>6 DEF Stays
<1> QED BY <1>4, <1>5, <1>6

\* Every step is one of the three.
LEMMA StepKinds ==
    ASSUME DefaultRates, Once, Reported, Kept, Exact, Settled, Valued, [Next]_vars
    PROVE  Stays \/ Rolls \/ \E b : Grows(b)
<1>0. ChainTyped /\ Reversible /\ Returnable /\ mem.utxos = disk.utxos
  BY DEF Once, Valued, Settled, Mirrored
<1>u. UniqueKeys(disk.utxos)
  BY <1>0, OneOutput DEF Settled, Valued
<1>1. ASSUME NEW t \in RpcThreads, RpcDeposit(t) \/ RpcDepositCheck(t)
      PROVE  Stays \/ \E b : Grows(b)
  <2>1. ASSUME UNCHANGED <<disk, reorg>> PROVE Stays
    BY <2>1 DEF Stays
  <2>2. CASE RpcDepositCheck(t)
    BY <2>1, <2>2 DEF RpcDepositCheck, ledger
  <2>3. CASE RpcDeposit(t)
    <3>1. PICK event \in rpc[t] : BuyShielded(event)
      BY <2>3 DEF RpcDeposit
    <3>2. event \in Events /\ Unlocked /\ UNCHANGED reorg
      BY <2>3, <3>1 DEF Reported, RpcDeposit
    <3>3. CASE DepositMined(event)
      BY <1>0, <3>2, <3>3, DepositGrows
    <3>4. CASE DepositThrows(event) \/ DepositRefused(event)
      BY <2>1, <3>2, <3>4 DEF DepositThrows, DepositRefused, ledger
    <3> QED BY <3>1, <3>3, <3>4 DEF BuyShielded
  <2> QED BY <1>1, <2>2, <2>3
<1>2. CASE DirectDeposit
  <2>1. PICK event \in DirectEvents : DepositMined(event)
    BY <1>2 DEF DirectDeposit
  <2> QED BY <1>0, <1>2, <2>1, NodeConstants, DepositGrows DEF DirectDeposit
<1>3. CASE TransferShielded
  <2>1. PICK u \in mem.utxos, send \in SendAmounts, fee \in TxFees :
          /\ u.amount >= send + fee
          /\ \E ring \in RingsAround(u, mem.utxos), k1, k2 \in UnusedKeys :
                k1 # k2 /\ Mine(TransferOp(u, ring, send, fee, k1, k2))
    BY <1>3 DEF TransferShielded
  <2>2. PICK ring \in RingsAround(u, mem.utxos), k1 \in UnusedKeys, k2 \in UnusedKeys :
          k1 # k2 /\ Mine(TransferOp(u, ring, send, fee, k1, k2))
    BY <2>1
  <2> QED BY <1>0, <1>u, <1>3, <2>1, <2>2, TransferGrows DEF TransferShielded
<1>4. CASE SubmitPreSigned
  <2>1. PICK u \in mem.utxos, send \in SendAmounts, fee \in TxFees :
          \E ring \in RingsAround(u, mem.utxos), k1, k2 \in UnusedKeys :
             /\ k1 # k2
             /\ TransferOK(TransferOp(u, ring, send, fee, k1, k2), mem, disk)
             /\ Mine(TransferOp(u, ring, send, fee, k1, k2))
    BY <1>4 DEF SubmitPreSigned
  <2>2. PICK ring \in RingsAround(u, mem.utxos), k1 \in UnusedKeys, k2 \in UnusedKeys :
          /\ k1 # k2
          /\ TransferOK(TransferOp(u, ring, send, fee, k1, k2), mem, disk)
          /\ Mine(TransferOp(u, ring, send, fee, k1, k2))
    BY <2>1
  <2> QED BY <1>0, <1>u, <1>4, <2>2, TransferGrows DEF SubmitPreSigned
<1>5. CASE WithdrawShielded
  BY <1>0, <1>u, <1>5, WithdrawGrows
<1>6. ~ ClaimTreasuryFees
  BY DEF ClaimTreasuryFees, DefaultRates, Kept
<1>7. CASE ApplyRemoteBlock
  BY <1>0, <1>u, <1>7, RemoteGrows
<1>8. CASE RejectRemoteBlock
  BY <1>8 DEF RejectRemoteBlock, Stays
<1>9. CASE BeginReorg
  BY <1>0, <1>9, BeginRolls
<1>10. CASE FinishReorg
  BY <1>0, <1>u, <1>10, FinishGrows
<1>11. CASE AbandonReorg
  BY <1>0, <1>11, AbandonGrows
<1>12. ASSUME Restarted PROVE Stays
  BY <1>12 DEF Restarted, Stays, NoReorg
<1>13. CASE UNCHANGED vars
  BY <1>13 DEF vars, Stays
<1> QED BY <1>1, <1>2, <1>3, <1>4, <1>5, <1>6, <1>7, <1>8, <1>9, <1>10, <1>11, <1>12, <1>13
    DEF Next, Crash, GuardTerminates

-----------------------------------------------------------------------------
(***************************************************************************)
(* The invariant is kept                                                    *)
(***************************************************************************)

\* A block that joins the chain is new to it: its outputs lie under keys no block
\* has used, and what it spends is there, unspent.
LEMMA GrowsFits ==
    ASSUME Once, Once', Settled, Settled', Level, NEW b, Grows(b)
    PROVE  /\ OneMore(disk.chain, disk'.chain) /\ Tip(disk'.chain) = b.op
           /\ disk'.chain[Len(disk'.chain)] = b
           /\ disk'.vault = After(disk.vault, b.op)
           /\ disk'.utxos = disk.utxos \cup b.op.outs
           /\ disk'.spent = disk.spent \cup b.op.spends
           /\ KeysOf(b.op.outs) \cap KeysOf(disk.utxos) = {}
           /\ b.op.spends \cup b.op.ring \subseteq KeysOf(disk.utxos)
           /\ b.op.spends \cap disk.spent = {}
           /\ EventMintedOnce' => b.op.events \cap disk.events = {}
<1> DEFINE old == disk.chain
           new == disk'.chain
           n == Len(disk'.chain)
<1>1. ChainTyped /\ b \in Block /\ b.height = top + 1 /\ Commit(b, After(disk.vault, b.op))
  BY DEF Grows, Once
<1>2. /\ OneMore(old, new) /\ Tip(new) = b.op /\ n = Len(old) + 1 /\ new[n] = b
      /\ disk'.vault = After(disk.vault, b.op)
  BY <1>1, CommitGrows
<1>3. Len(old) \in Nat /\ n \in 1 .. n
  BY <1>1, <1>2, LenProperties DEF ChainTyped
<1>4. \A i \in 1 .. Len(old) : i \in 1 .. n /\ i # n /\ new[i] = old[i]
  BY <1>2, <1>3 DEF OneMore
<1>5. old \in Seq(Block) /\ new \in Seq(Block)
      /\ DOMAIN old = 1 .. Len(old) /\ DOMAIN new = 1 .. n
  BY <1>2, LenProperties DEF OneMore
<1>6. IndexesMatchChain /\ IndexesMatchChain' /\ Distinct' /\ Grounded'
  BY DEF Settled
<1>7. /\ disk'.utxos = disk.utxos \cup b.op.outs
      /\ disk'.spent = disk.spent \cup b.op.spends
  BY <1>2, <1>6, UnionsGrow DEF IndexesMatchChain
<1> HIDE DEF old, new, n
<1>8. KeysOf(b.op.outs) \cap KeysOf(disk.utxos) = {}
  <2>1. \A i \in 1 .. Len(old) : KeysOf(old[i].op.outs) \cap KeysOf(b.op.outs) = {}
    <3> SUFFICES ASSUME NEW i \in 1 .. Len(old)
                 PROVE  KeysOf(old[i].op.outs) \cap KeysOf(b.op.outs) = {}
      OBVIOUS
    <3>1. KeysOf(new[i].op.outs) \cap KeysOf(new[n].op.outs) = {}
      BY <1>3, <1>4, <1>6 DEF Distinct, new, n
    <3> QED BY <3>1, <1>2, <1>4
  <2>2. \A k \in KeysOf(disk.utxos) : \E i \in 1 .. Len(old) : k \in KeysOf(old[i].op.outs)
    BY <1>5, <1>6, KeysOnChain DEF IndexesMatchChain, old
  <2> QED BY <2>1, <2>2
<1>9. b.op.spends \cup b.op.ring \subseteq KeysOf(disk.utxos)
  <2>1. \A k \in b.op.spends \cup b.op.ring :
          \E j \in 1 .. n - 1 : k \in KeysOf(new[j].op.outs)
    BY <1>2, <1>3, <1>6 DEF Grounded, MadeBelow, new, n
  <2>2. \A j \in 1 .. n - 1 : j \in 1 .. Len(old) /\ new[j] = old[j]
    BY <1>2, <1>3, <1>4
  <2>3. \A j \in 1 .. Len(old) : \A k \in KeysOf(old[j].op.outs) : k \in KeysOf(disk.utxos)
    BY <1>5, <1>6, KeysOnChain DEF IndexesMatchChain, old
  <2> QED BY <2>1, <2>2, <2>3
<1>10. \A i \in 1 .. Len(old) : Apart(old[i].op, b.op)
  <2>1. \A i \in 1 .. Len(old) : Apart(new[i].op, new[n].op)
    BY <1>3, <1>4 DEF Once, OnceOnly, new, n
  <2> QED BY <2>1, <1>2, <1>4
<1>11. \A k \in disk.spent : \E i \in 1 .. Len(old) : k \in old[i].op.spends
  BY <1>5, <1>6 DEF IndexesMatchChain, SpentOn, old
<1>12. b.op.spends \cap disk.spent = {}
  BY <1>10, <1>11 DEF Apart
<1>13. EventMintedOnce' => b.op.events \cap disk.events = {}
  BY <1>1, <1>6, EventIsNew
<1> QED BY <1>2, <1>7, <1>8, <1>9, <1>12, <1>13 DEF old, new, n

\* What was spent was there.
LEMMA SpentInside ==
    ASSUME NEW chain \in Seq(Block), \A i \in 1 .. Len(chain) : MadeBelow(chain, i)
    PROVE  SpentOn(chain) \subseteq KeysOf(OutputsOn(chain))
<1>1. DOMAIN chain = 1 .. Len(chain) /\ Len(chain) \in Nat
  BY LenProperties
<1>2. \A k \in SpentOn(chain) : \E i \in 1 .. Len(chain) : k \in chain[i].op.spends
  BY <1>1 DEF SpentOn
<1>3. \A i \in 1 .. Len(chain) : \A k \in chain[i].op.spends :
        \E j \in 1 .. i - 1 : k \in KeysOf(chain[j].op.outs)
  BY DEF MadeBelow
<1>4. \A i \in 1 .. Len(chain) : \A j \in 1 .. i - 1 : j \in 1 .. Len(chain)
  BY <1>1
<1>5. \A j \in 1 .. Len(chain) : \A k \in KeysOf(chain[j].op.outs) :
        k \in KeysOf(OutputsOn(chain))
  BY KeysOnChain
<1> QED BY <1>2, <1>3, <1>4, <1>5

\* An operation stays paid when outputs join under other keys, or leave.
LEMMA StillPaid ==
    ASSUME NEW op, NEW utxos, Paid(op, utxos), NEW more, more \subseteq utxos
              \/ (op.spends \subseteq KeysOf(utxos)
                    /\ \E new : more = utxos \cup new /\ KeysOf(new) \cap KeysOf(utxos) = {})
    PROVE  Paid(op, more)
<1>1. CASE more \subseteq utxos
  BY <1>1 DEF Paid
<1>2. CASE op.spends \subseteq KeysOf(utxos)
             /\ \E new : more = utxos \cup new /\ KeysOf(new) \cap KeysOf(utxos) = {}
  <2>1. PICK new : more = utxos \cup new /\ KeysOf(new) \cap KeysOf(utxos) = {}
    BY <1>2
  <2>2. \A u \in more : u.key \in op.spends => u \in utxos
    BY <1>2, <2>1 DEF KeysOf
  <2> QED BY <2>2 DEF Paid
<1> QED BY <1>1, <1>2

\* A block more is valued as it takes and gives.
LEMMA ValuedGrows ==
    ASSUME Once, Once', Kept, Settled, Settled', Exact, Exact', Valued, NEW b, Grows(b)
    PROVE  Valued'
<1>0. ChainTyped /\ Level /\ Level' /\ IndexesMatchChain /\ Distinct
  BY DEF Once, Exact, Settled
<1>1. /\ OneMore(disk.chain, disk'.chain) /\ Tip(disk'.chain) = b.op
      /\ disk'.chain[Len(disk'.chain)] = b
      /\ disk'.vault = After(disk.vault, b.op)
      /\ disk'.utxos = disk.utxos \cup b.op.outs
      /\ disk'.spent = disk.spent \cup b.op.spends
      /\ KeysOf(b.op.outs) \cap KeysOf(disk.utxos) = {}
      /\ b.op.spends \cup b.op.ring \subseteq KeysOf(disk.utxos)
      /\ b.op.spends \cap disk.spent = {}
  BY <1>0, GrowsFits
<1>2. b.op \in Op /\ Priced(b.op) /\ Paid(b.op, disk.utxos) /\ b.prev = HashAt(disk, top)
  BY DEF Grows, Block
<1>3. Returnable'
  BY DEF Grows, Returnable
<1>4. IsFiniteSet(disk'.utxos)
  <2>1. IsFiniteSet(disk.utxos) /\ IsFiniteSet(b.op.outs)
    BY <1>2 DEF Valued, Priced
  <2>2. IsFiniteSet(disk.utxos \cup b.op.outs)
    BY <2>1, FS_Union
  <2> QED BY <1>1, <2>2
<1>5. /\ Len(disk.chain) \in Nat /\ Len(disk'.chain) = Len(disk.chain) + 1
      /\ \A i \in 1 .. Len(disk.chain) : disk'.chain[i] = disk.chain[i]
  BY <1>1, LenProperties DEF OneMore
<1>6. \A i \in 1 .. Len(disk'.chain) : i \in 1 .. Len(disk.chain) \/ i = Len(disk'.chain)
  BY <1>5
<1>7. \A i \in 1 .. Len(disk.chain) :
        Priced(disk.chain[i].op) /\ Paid(disk.chain[i].op, disk'.utxos)
  <2> SUFFICES ASSUME NEW i \in 1 .. Len(disk.chain)
               PROVE  Priced(disk.chain[i].op) /\ Paid(disk.chain[i].op, disk'.utxos)
    OBVIOUS
  <2> DEFINE op == disk.chain[i].op
  <2>1. Priced(op) /\ Paid(op, disk.utxos)
    BY DEF Valued
  <2>2. op.spends \subseteq KeysOf(disk.utxos)
    <3>1. op.spends \subseteq disk.spent
      BY DEF Once, Indexed, Covered
    <3>2. SpentOn(disk.chain) \subseteq KeysOf(OutputsOn(disk.chain))
      BY <1>0, SpentInside DEF ChainTyped, Settled, Grounded
    <3> QED BY <1>0, <3>1, <3>2 DEF IndexesMatchChain
  <2> HIDE DEF op
  <2>3. Paid(op, disk'.utxos)
    BY <1>1, <2>1, <2>2, StillPaid
  <2> QED BY <2>1, <2>3 DEF op
<1>8. Paid(b.op, disk'.utxos)
  <2>1. b.op.spends \subseteq KeysOf(disk.utxos)
    BY <1>1
  <2> QED BY <1>1, <1>2, <2>1, StillPaid
<1>9. \A i \in 1 .. Len(disk'.chain) :
        Priced(disk'.chain[i].op) /\ Paid(disk'.chain[i].op, disk'.utxos)
  BY <1>1, <1>2, <1>5, <1>6, <1>7, <1>8
<1>10. Linked'
  <2>1. \A i \in 1 .. Len(disk'.chain) : i - 1 = 0 \/ i - 1 \in 1 .. Len(disk.chain)
    BY <1>5
  <2>2. \A i \in 1 .. Len(disk'.chain) : HashAt(disk', i - 1) = HashAt(disk, i - 1)
    BY <2>1, <1>5 DEF HashAt
  <2>3. \A i \in 1 .. Len(disk.chain) : disk.chain[i].prev = HashAt(disk, i - 1)
    BY DEF Valued, Linked
  <2>4. b.prev = HashAt(disk, Len(disk'.chain) - 1)
    <3>1. Len(disk'.chain) - 1 = top
      BY <1>0, <1>5 DEF Level
    <3> QED BY <1>2, <3>1
  <2>5. ASSUME NEW i \in 1 .. Len(disk'.chain)
        PROVE  disk'.chain[i].prev = HashAt(disk', i - 1)
    <3>1. CASE i \in 1 .. Len(disk.chain)
      BY <1>5, <2>2, <2>3, <3>1
    <3>2. CASE i = Len(disk'.chain)
      BY <1>1, <2>2, <2>4, <3>2
    <3> QED BY <1>6, <3>1, <3>2
  <2> QED BY <2>5 DEF Linked
<1>11. Supplied'
  <2>1. UniqueKeys(disk.utxos) /\ disk.utxos \in SUBSET Output /\ IsFiniteSet(disk.utxos)
    BY <1>0, OneOutput DEF Valued, ChainTyped
  <2>2. disk.spent \subseteq KeysOf(disk.utxos)
    <3>1. SpentOn(disk.chain) \subseteq KeysOf(OutputsOn(disk.chain))
      BY <1>0, SpentInside DEF ChainTyped, Settled, Grounded
    <3> QED BY <1>0, <3>1 DEF IndexesMatchChain
  <2>3. disk.vault \in VaultState
    BY DEF Kept, Disk
  <2>4. b.op.spends \subseteq KeysOf(disk.utxos)
    BY <1>1
  <2>5. /\ SumOf(Free(disk.utxos, disk.spent)) \in Int
        /\ After(disk.vault, b.op).circulating \in Int
        /\ SumOf(Free(disk.utxos \cup b.op.outs, disk.spent \cup b.op.spends)) + FeeIn(b.op)
             - SumOf(Free(disk.utxos, disk.spent))
               = After(disk.vault, b.op).circulating - disk.vault.circulating
    <3>1. Follows(disk.utxos, disk.spent, b.op, disk.vault)
      BY <1>1, <1>2, <2>1, <2>2, <2>3, <2>4, SupplyMoves
    <3> QED BY <3>1 DEF Follows
  <2>6. /\ TransferFees(disk.chain) \in Int /\ FeeIn(b.op) \in Int
        /\ TransferFees(disk'.chain) = TransferFees(disk.chain) + FeeIn(b.op)
    BY <1>1, FeesGrow
  <2>7. disk.vault.circulating = SumOf(Free(disk.utxos, disk.spent)) + TransferFees(disk.chain)
    BY DEF Valued, Supplied
  <2>8. SumOf(Free(disk'.utxos, disk'.spent)) \in Int
    <3>1. Free(disk'.utxos, disk'.spent) \in SUBSET Output
          /\ IsFiniteSet(Free(disk'.utxos, disk'.spent))
      BY <1>4, FS_Subset DEF Free, Once, ChainTyped
    <3> QED BY <3>1, SumOfParts, SumOfFew, FS_EmptySet
  <2>9. disk'.vault.circulating
          = SumOf(Free(disk'.utxos, disk'.spent)) + TransferFees(disk'.chain)
    <3> DEFINE s == SumOf(Free(disk.utxos, disk.spent))
               t == SumOf(Free(disk'.utxos, disk'.spent))
               c == After(disk.vault, b.op).circulating
    <3>1. t + FeeIn(b.op) - s = c - disk.vault.circulating
      BY <1>1, <2>5
    <3>2. s \in Int /\ c \in Int /\ t \in Int
      BY <2>5, <2>8
    <3>3. disk'.vault.circulating = c
      BY <1>1
    <3>4. disk.vault.circulating = s + TransferFees(disk.chain)
      BY <2>7
    <3> HIDE DEF s, t, c
    <3>5. c = t + TransferFees(disk'.chain)
      BY <3>1, <3>2, <3>4, <2>6
    <3> QED BY <3>3, <3>5 DEF t
  <2> QED BY <2>9 DEF Supplied
<1> QED BY <1>3, <1>4, <1>9, <1>10, <1>11 DEF Valued

\* A chain without its tip: everything counted before it is back.
LEMMA ValuedRolls ==
    ASSUME DefaultRates, Once, Once', Kept', Settled, Settled', Exact, Exact',
           Valued, Rolls
    PROVE  Valued'
<1> DEFINE gone == disk.chain[top].op
<1>0. /\ ChainTyped /\ ChainTyped' /\ Level /\ Level' /\ top > 0
      /\ disk' = RolledBack(disk, top) /\ IndexesMatchChain /\ Distinct
      /\ IndexesMatchChain' /\ Distinct'
  BY DEF Once, Exact, Settled, Rolls
<1>1. /\ OneMore(disk'.chain, disk.chain) /\ Tip(disk.chain) = gone
      /\ Len(disk'.chain) = top - 1
  BY <1>0, RollbackShrinks
<1>2. disk.vault = After(disk'.vault, gone)
  BY <1>0, RollbackExact
<1>3. disk.utxos = disk'.utxos \cup gone.outs /\ disk.spent = disk'.spent \cup gone.spends
  BY <1>0, <1>1, UnionsGrow DEF IndexesMatchChain
<1>4. /\ KeysOf(gone.outs) \cap KeysOf(disk'.utxos) = {}
      /\ gone.spends \cap disk'.spent = {}
  BY <1>0 DEF RolledBack, KeysOf
<1>5. top \in 1 .. Len(disk.chain) /\ Len(disk'.chain) \in Nat /\ top \in Nat
      /\ \A i \in 1 .. Len(disk'.chain) : /\ disk'.chain[i] = disk.chain[i]
                                          /\ i \in 1 .. Len(disk.chain)
  BY <1>0, <1>1, LenProperties DEF OneMore, ChainTyped, Level
<1>6. gone.spends \subseteq KeysOf(disk'.utxos)
  <2>1. \A k \in gone.spends : \E j \in 1 .. top - 1 : k \in KeysOf(disk.chain[j].op.outs)
    BY <1>5 DEF Settled, Grounded, MadeBelow
  <2>2. \A j \in 1 .. top - 1 : \A k \in KeysOf(disk.chain[j].op.outs) : k \in KeysOf(disk'.utxos)
    BY <1>0, <1>1, <1>5, KeysOnChain DEF IndexesMatchChain, ChainTyped
  <2> QED BY <2>1, <2>2
<1>7. Priced(gone) /\ Paid(gone, disk.utxos) /\ gone \in Op
  <2>1. disk.chain[top] \in Block
    BY <1>0, <1>5, ElementOfSeq DEF ChainTyped
  <2> QED BY <2>1, <1>5 DEF Valued, Block
<1>8. disk'.utxos \subseteq disk.utxos
  BY <1>3
<1> HIDE DEF gone
<1>9. Paid(gone, disk'.utxos)
  BY <1>7, <1>8, StillPaid
<1>10. IsFiniteSet(disk'.utxos)
  BY <1>8, FS_Subset DEF Valued
<1>11. \A i \in 1 .. Len(disk'.chain) :
         Priced(disk'.chain[i].op) /\ Paid(disk'.chain[i].op, disk'.utxos)
  <2> SUFFICES ASSUME NEW i \in 1 .. Len(disk'.chain)
               PROVE  Priced(disk'.chain[i].op) /\ Paid(disk'.chain[i].op, disk'.utxos)
    OBVIOUS
  <2>1. Priced(disk'.chain[i].op) /\ Paid(disk'.chain[i].op, disk.utxos)
    BY <1>5 DEF Valued
  <2> QED BY <2>1, <1>8, StillPaid
<1>12. \A i \in 1 .. Len(disk'.chain) : HashAt(disk', i - 1) = HashAt(disk, i - 1)
  <2>1. \A i \in 1 .. Len(disk'.chain) : i - 1 = 0 \/ i - 1 \in 1 .. Len(disk'.chain)
    BY <1>5
  <2> QED BY <2>1, <1>5 DEF HashAt
<1>13. Linked'
  BY <1>5, <1>12 DEF Valued, Linked
<1>14. Returnable'
  <2>1. disk.chain[top].prev = HashAt(disk, top - 1)
    BY <1>5 DEF Valued, Linked
  <2>2. HashAt(disk, top - 1) = HashAt(disk', top')
    <3>1. top' = top - 1 /\ (top' = 0 \/ top' \in 1 .. Len(disk'.chain))
      <4>1. top' = Len(disk'.chain)
        BY <1>0 DEF Level
      <4> QED BY <4>1, <1>1, <1>5
    <3> QED BY <3>1, <1>5 DEF HashAt
  <2> QED BY <2>1, <2>2, <1>7, <1>9 DEF Returnable, Rolls, gone
<1>15. Supplied'
  <2>1. UniqueKeys(disk'.utxos) /\ disk'.utxos \in SUBSET Output
    <3>1. UniqueKeys(disk.utxos)
      BY <1>0, OneOutput DEF Valued
    <3> QED BY <1>0, <1>8, <3>1 DEF ChainTyped, UniqueKeys
  <2>2. disk'.spent \subseteq KeysOf(disk'.utxos)
    <3>1. \A i \in 1 .. Len(disk'.chain) : MadeBelow(disk'.chain, i)
      BY DEF Settled, Grounded, MadeBelow
    <3>2. SpentOn(disk'.chain) \subseteq KeysOf(OutputsOn(disk'.chain))
      BY <1>0, <3>1, SpentInside DEF ChainTyped
    <3> QED BY <1>0, <3>2 DEF IndexesMatchChain
  <2>3. disk'.vault \in VaultState
    BY DEF Kept, Disk
  <2>4. Follows(disk'.utxos, disk'.spent, gone, disk'.vault)
    BY <1>4, <1>6, <1>7, <1>9, <1>10, <2>1, <2>2, <2>3, SupplyMoves
  <2>5. /\ TransferFees(disk'.chain) \in Int /\ FeeIn(gone) \in Int
        /\ TransferFees(disk.chain) = TransferFees(disk'.chain) + FeeIn(gone)
    BY <1>1, FeesGrow
  <2>6. disk.vault.circulating = SumOf(Free(disk.utxos, disk.spent)) + TransferFees(disk.chain)
    BY DEF Valued, Supplied
  <2>7. SumOf(Free(disk.utxos, disk.spent)) \in Int
    <3>1. Free(disk.utxos, disk.spent) \in SUBSET Output
          /\ IsFiniteSet(Free(disk.utxos, disk.spent))
      BY <1>0, FS_Subset DEF Free, ChainTyped, Valued
    <3> QED BY <3>1, SumOfParts, SumOfFew, FS_EmptySet
  <2> DEFINE s == SumOf(Free(disk'.utxos, disk'.spent))
             t == SumOf(Free(disk.utxos, disk.spent))
             c == disk'.vault.circulating
  <2>8. /\ s \in Int /\ disk.vault.circulating \in Int
        /\ t + FeeIn(gone) - s = disk.vault.circulating - c
    BY <1>2, <1>3, <2>4 DEF Follows
  <2>9. c \in Int
    BY <2>3 DEF VaultState, Amount
  <2>10. disk.vault.circulating = t + TransferFees(disk.chain) /\ t \in Int
    BY <2>6, <2>7
  <2> HIDE DEF s, t, c
  <2>11. c = s + TransferFees(disk'.chain)
    BY <2>5, <2>8, <2>9, <2>10
  <2> QED BY <2>11 DEF Supplied, s, c
<1> QED BY <1>10, <1>11, <1>13, <1>14, <1>15 DEF Valued

\* The same chain, the same value.
LEMMA ValuedStays ==
    ASSUME Exact, Exact', Valued, Stays PROVE Valued'
<1>1. disk'.chain = disk.chain /\ disk'.vault = disk.vault
      /\ disk'.utxos = disk.utxos /\ disk'.spent = disk.spent /\ top' = top
  BY DEF Stays, Exact, Level
<1>2. \A h : HashAt(disk', h) = HashAt(disk, h)
  BY <1>1 DEF HashAt
<1>3. Linked'
  BY <1>1, <1>2 DEF Valued, Linked
<1>4. Supplied'
  BY <1>1 DEF Valued, Supplied
<1>5. Returnable'
  <2>1. CASE reorg' = reorg
    BY <2>1, <1>1, <1>2 DEF Valued, Returnable
  <2>2. CASE ~ reorg'.active
    BY <2>2 DEF Returnable
  <2> QED BY <2>1, <2>2 DEF Stays
<1> QED BY <1>1, <1>3, <1>4, <1>5 DEF Valued

\* The empty chain.
LEMMA ValuedInit == Init => Valued
<1> SUFFICES ASSUME Init PROVE Valued
  OBVIOUS
<1>1. /\ disk.chain = <<>> /\ disk.utxos = {} /\ disk.spent = {}
      /\ disk.vault = EmptyVault /\ ~ reorg.active
  BY DEF Init, EmptyDisk, NoReorg
<1>2. 1 .. Len(disk.chain) = {} /\ DOMAIN disk.chain = {}
  BY <1>1
<1>3. TransferFees(disk.chain) = 0
  <2>1. Weighed(Charged(disk.chain), {}) /\ IsFiniteSet({})
    BY FS_EmptySet DEF Weighed
  <2>2. SumBy(Charged(disk.chain), {}) = 0
    BY <2>1, SumByTakes
  <2> QED BY <1>2, <2>1, <2>2, FeesAre
<1>4. Free(disk.utxos, disk.spent) = {}
  BY <1>1 DEF Free
<1>5. Supplied
  <2>1. disk.vault.circulating = 0 /\ SumOf({}) = 0
    BY <1>1, SumOfFew DEF EmptyVault
  <2> QED BY <1>3, <1>4, <2>1 DEF Supplied
<1> QED BY <1>1, <1>2, <1>5, FS_EmptySet DEF Valued, Linked, Returnable

-----------------------------------------------------------------------------
(***************************************************************************)
(* The supply                                                               *)
(***************************************************************************)

\* Every step keeps the value on the chain.
LEMMA ValuedNext ==
    ASSUME DefaultRates, Once, Once', Reported, Kept, Kept',
           Settled, Settled', Exact, Exact', Valued, [Next]_vars
    PROVE  Valued'
<1>1. CASE Stays
  BY <1>1, ValuedStays
<1>2. CASE Rolls
  BY <1>2, ValuedRolls
<1>3. ASSUME NEW b, Grows(b) PROVE Valued'
  BY <1>3, ValuedGrows
<1> QED BY <1>1, <1>2, <1>3, StepKinds

\* Tables, vault and value, exact until a deposit throws.
Worth == Settled /\ Exact /\ Valued

WorthYet == NoneThrown => Worth

\* One more step that mints no event again, whose end has the top where the chain
\* ends.
LEMMA WorthYetNext ==
    ASSUME DefaultRates, Once, Once', Reported, Kept, Kept', Counted,
           EventMintedOnce, EventMintedOnce', Level' \/ MaxFaults = 0, WorthYet, [Next]_vars
    PROVE  WorthYet'
<1> SUFFICES ASSUME NoneThrown' PROVE Worth'
  BY DEF WorthYet
<1>1. Settled /\ Exact /\ Valued
  BY CountedNext DEF WorthYet, Worth
<1>2. Level /\ Level'
  BY <1>1, LevelNext DEF Exact
<1>3. Exact'
  BY <1>1, <1>2, ExactNext
<1>4. Settled'
  BY <1>1, <1>2, SettledNext
<1>5. Valued'
  BY <1>1, <1>3, <1>4, ValuedNext
<1> QED BY <1>3, <1>4, <1>5 DEF Worth

\* The value on the chain is invariant for a node whose rates are those the
\* rollback replays with, as long as the cached top is the height of the chain.
LEMMA WorthInvariant ==
    ASSUME DefaultRates PROVE Spec /\ []Level /\ []EventMintedOnce => []WorthYet
<1>1. Init => WorthYet
  BY SettledInit, ExactInit, ValuedInit DEF WorthYet, Worth
<1>2. (Once /\ Reported /\ Kept) /\ (Once /\ Reported /\ Kept)' /\ Counted /\ Level'
        /\ EventMintedOnce /\ EventMintedOnce' /\ WorthYet /\ [Next]_vars => WorthYet'
  BY WorthYetNext
<1> QED BY <1>1, <1>2, StateInvariant, CountedKept, PTL DEF Spec

\* So it is where no LMDB write fails: the heights agree there.
LEMMA WorthAlways ==
    ASSUME DefaultRates, MaxFaults = 0 PROVE Spec /\ []EventMintedOnce => []WorthYet
<1>1. Init => WorthYet
  BY SettledInit, ExactInit, ValuedInit DEF WorthYet, Worth
<1>2. (Once /\ Reported /\ Kept) /\ (Once /\ Reported /\ Kept)' /\ Counted
        /\ EventMintedOnce /\ EventMintedOnce' /\ WorthYet /\ [Next]_vars => WorthYet'
  BY WorthYetNext
<1> QED BY <1>1, <1>2, StateInvariant, CountedKept, PTL DEF Spec

\* The supply of a vault that is exact.
LEMMA WorthMatches ==
    ASSUME Kept, Worth PROVE SupplyMatchesOutputs
<1>0. Exact /\ Valued /\ disk.vault \in VaultState
  BY DEF Worth, Kept, Disk
<1> DEFINE value == SumOf({u \in disk.utxos : u.key \notin disk.spent}) + TransferFees(disk.chain)
<1>1. disk.vault.circulating = value /\ disk.vault.circulating \in Int
  BY <1>0 DEF Valued, Supplied, Free, VaultState, Amount
<1>2. Unlocked => mem.vault = disk.vault
  BY <1>0 DEF Exact
<1> HIDE DEF value
<1>3. Unlocked => mem.vault.circulating >= value /\ mem.vault.circulating = value
  BY <1>1, <1>2
<1> QED BY <1>3 DEF SupplyMatchesOutputs, value

\* The supply the vault counts (src/vault.cpp) is the value of the outputs nobody
\* has spent plus the transfer fees, which no pool collects (src/node.cpp): every
\* mint, burn, transfer and change output, of this node or of a peer, on every
\* path through reorganisations, failed commits and crashes, leaves it so.  That
\* is until a deposit throws between the vault and its block (src/node.cpp:155),
\* while no two requests of the endpoint mint one event and no rollback fails with
\* the top already moved (src/blockchain_db.cpp:600).
THEOREM SupplyFollowsOutputs ==
    ASSUME DefaultRates
    PROVE  Spec /\ []Level /\ []EventMintedOnce => [](NoneThrown => SupplyMatchesOutputs)
<1>1. Kept /\ WorthYet => (NoneThrown => SupplyMatchesOutputs)
  BY WorthMatches DEF WorthYet
<1> QED BY <1>1, WorthInvariant, StateInvariant, PTL

\* Where no LMDB write fails, the supply follows without the last condition.
THEOREM SupplyAlwaysFollows ==
    ASSUME DefaultRates, MaxFaults = 0
    PROVE  Spec /\ []EventMintedOnce => [](NoneThrown => SupplyMatchesOutputs)
<1>1. Kept /\ WorthYet => (NoneThrown => SupplyMatchesOutputs)
  BY WorthMatches DEF WorthYet
<1> QED BY <1>1, WorthAlways, StateInvariant, PTL

\* All of it, with no condition on what happens, for a node that does not serve the
\* deposit endpoint, whose two hazards are the race and the throw: such a node
\* follows its peers, and its own deposits are those of its wallets.
THEOREM ExactWithoutEndpoint ==
    ASSUME RpcThreads = {}, DefaultRates, MaxFaults = 0
    PROVE  Spec => [](MirrorMatchesDisk /\ VaultMatchesChain /\ SupplyMatchesOutputs)
BY MirrorFollowsDisk, VaultExactlyReplayed, SupplyAlwaysFollows, NeverMintedTwice, NeverThrows, PTL

-----------------------------------------------------------------------------
(***************************************************************************)
(* The chain a node promises                                                *)
(***************************************************************************)

\* CanonicalChain counts value as the ledger does.
LEMMA SameValue ==
    ASSUME NEW S PROVE Promise!ValueOf(S) = SumOf(S)
BY DEF Promise!ValueOf, SumOf, MapThenSumSet, MapThenFoldSet,
       Promise!MapThenSumSet, Promise!MapThenFoldSet
\* A key spent is the key of one output, whose amount is what CanonicalChain
\* takes for the input of the block.
LEMMA BlockConserves ==
    ASSUME NEW op \in Op, Priced(op), Paid(op, disk.utxos), UniqueKeys(disk.utxos),
           disk.utxos \in SUBSET Output, op.spends \subseteq KeysOf(disk.utxos)
    PROVE  /\ op.kind \in {"deposit", "transfer", "withdraw"}
           /\ op.kind = "deposit" => op.gross = op.fee + SumOf(op.outs)
           /\ op.kind # "deposit" =>
                SumOf({o \in disk.utxos : o.key \in op.spends}) = Cost(op)
<1>1. op.kind \in {"deposit", "transfer", "withdraw"}
  BY DEF Op
<1>2. ASSUME op.kind # "deposit"
      PROVE  SumOf({o \in disk.utxos : o.key \in op.spends}) = Cost(op)
  <2>1. PICK k : op.spends = {k}
    BY <1>2 DEF Priced
  <2>2. PICK u \in disk.utxos : u.key = k
    BY <2>1 DEF KeysOf
  <2>3. {o \in disk.utxos : o.key \in op.spends} = {u}
    BY <2>1, <2>2 DEF UniqueKeys
  <2>4. u.amount = Cost(op) /\ u \in Output
    BY <1>2, <2>1, <2>2 DEF Paid
  <2> QED BY <2>3, <2>4, SumOfFew
<1> QED BY <1>1, <1>2 DEF Priced

\* A block that the ledger commits is acceptable to CanonicalChain, and the chain
\* has that block at its end.
LEMMA GrowsAppends ==
    ASSUME EventMintedOnce', Once, Once', Settled, Settled', Exact, Valued, NEW b, Grows(b)
    PROVE  Promise!Appended(b) /\ b \in Promise!NewBlocks
<1>0. ChainTyped /\ Level /\ IndexesMatchChain /\ Distinct /\ Len(disk.chain) \in Nat
      /\ disk.chain \in Seq(Block)
  BY LenProperties DEF Once, Exact, Settled, ChainTyped
<1>1. /\ OneMore(disk.chain, disk'.chain)
      /\ disk'.chain[Len(disk'.chain)] = b
      /\ b.op.spends \cup b.op.ring \subseteq KeysOf(disk.utxos)
      /\ b.op.spends \cap disk.spent = {}
      /\ b.op.events \cap disk.events = {}
  BY <1>0, GrowsFits
<1>2. /\ b \in Block /\ b.op \in Op /\ Priced(b.op) /\ Paid(b.op, disk.utxos)
      /\ b.height = top + 1 /\ b.prev = HashAt(disk, top)
  BY DEF Grows, Block
<1>3. /\ Promise!Spends = disk.spent /\ Promise!Minted = disk.events
      /\ Promise!Outputs = disk.utxos
  BY <1>0 DEF Promise!Spends, Promise!Minted, Promise!Outputs,
              IndexesMatchChain, SpentOn, EventsOn, OutputsOn
<1>4. b.prev = Promise!Link
  <2>1. disk.chain = <<>> <=> top = 0
    BY <1>0, EmptySeq DEF Level
  <2> QED BY <1>0, <1>2, <2>1 DEF Promise!Link, HashAt, Level
<1>5. Promise!Conserves(b.op)
  <2>1. UniqueKeys(disk.utxos) /\ disk.utxos \in SUBSET Output
    BY <1>0, OneOutput DEF Valued, ChainTyped
  <2>2. b.op.spends \subseteq KeysOf(disk.utxos)
    BY <1>1
  <2>3. /\ b.op.kind \in {"deposit", "transfer", "withdraw"}
        /\ b.op.kind = "deposit" => b.op.gross = b.op.fee + SumOf(b.op.outs)
        /\ b.op.kind # "deposit" =>
             SumOf({o \in disk.utxos : o.key \in b.op.spends}) = Cost(b.op)
    BY <1>2, <2>1, <2>2, BlockConserves
  <2>4. /\ Promise!ValueOf(b.op.outs) = SumOf(b.op.outs)
        /\ Promise!ValueOf({o \in disk.utxos : o.key \in b.op.spends})
             = SumOf({o \in disk.utxos : o.key \in b.op.spends})
    BY SameValue
  <2> QED BY <1>3, <2>3, <2>4 DEF Promise!Conserves, Cost
<1>6. Promise!Acceptable(b)
  <2>1. b.op.spends \cup b.op.ring \subseteq {o.key : o \in Promise!Outputs}
    BY <1>1, <1>3 DEF KeysOf
  <2>2. b.height = Len(disk.chain) + 1
    BY <1>0, <1>2 DEF Level
  <2> QED BY <1>1, <1>3, <1>4, <1>5, <2>1, <2>2 DEF Promise!Acceptable
<1>7. /\ disk'.chain \in Seq(Block) /\ Len(disk'.chain) = Len(disk.chain) + 1
      /\ \A i \in 1 .. Len(disk.chain) : disk'.chain[i] = disk.chain[i]
  BY <1>1 DEF OneMore
<1>8. disk'.chain = Append(disk.chain, b)
  <2>1. /\ Append(disk.chain, b) \in Seq(Block)
        /\ Len(Append(disk.chain, b)) = Len(disk.chain) + 1
        /\ \A i \in 1 .. Len(disk.chain) : Append(disk.chain, b)[i] = disk.chain[i]
        /\ Append(disk.chain, b)[Len(disk.chain) + 1] = b
    BY <1>0, <1>2, AppendProperties
  <2>2. \A i \in 1 .. Len(disk'.chain) : i \in 1 .. Len(disk.chain) \/ i = Len(disk.chain) + 1
    BY <1>0, <1>7
  <2>3. \A i \in 1 .. Len(disk'.chain) : disk'.chain[i] = Append(disk.chain, b)[i]
    BY <1>1, <1>7, <2>1, <2>2
  <2> QED BY <1>7, <2>1, <2>3, SeqEqual
<1>9. b \in Promise!NewBlocks
  <2>1. DOMAIN disk.chain = 1 .. Len(disk.chain) /\ DOMAIN disk'.chain = 1 .. Len(disk'.chain)
    BY <1>0, <1>7, LenProperties
  <2>2. Len(disk'.chain) \in DOMAIN disk'.chain \ DOMAIN disk.chain
    BY <1>0, <1>7, <2>1
  <2> QED BY <1>1, <2>2 DEF Promise!NewBlocks
<1> QED BY <1>6, <1>8, <1>9 DEF Promise!Appended

\* Every step of the node is a step of CanonicalChain, or none.
LEMMA StepRefines ==
    ASSUME DefaultRates, MaxFaults = 0, MaxCrashes = 0, EventMintedOnce',
           Once, Once', Reported, Kept, Worth, Worth', [Next]_vars
    PROVE  [Promise!Next]_(Promise!vars)
<1> DEFINE old == IF reorg.active THEN {reorg.localTop} ELSE {}
           new == IF reorg'.active THEN {reorg'.localTop} ELSE {}
<1>0. Settled /\ Settled' /\ Exact /\ Valued /\ ChainTyped /\ Level
  BY DEF Once, Exact, Worth
<1>1. CASE Stays
  <2>1. CASE reorg' = reorg
    <3>1. old = new
      BY <2>1
    <3> QED BY <1>1, <3>1 DEF Stays, Promise!vars
  <2>2. CASE ~ reorg'.active /\ ~ reorg.active
    <3>1. old = new
      BY <2>2
    <3> QED BY <1>1, <3>1 DEF Stays, Promise!vars
  <2>3. CASE ~ reorg'.active /\ reorg.active
    <3>1. Len(disk'.chain) = Len(disk.chain) + 1
      BY <1>0, <2>3, ReorgEnds
    <3>2. Len(disk.chain) \in Nat /\ disk'.chain = disk.chain
      BY <1>0, <1>1, LenProperties DEF ChainTyped, Stays
    <3> QED BY <3>1, <3>2
  <2> QED BY <1>1, <2>1, <2>2, <2>3 DEF Stays
<1>2. CASE Rolls
  <2>1. ~ reorg.active /\ reorg'.active /\ reorg'.localTop = disk.chain[top] /\ top > 0
        /\ disk' = RolledBack(disk, top)
    BY <1>2 DEF Rolls, Unlocked
  <2>2. top = Len(disk.chain) /\ disk'.chain = SubSeq(disk.chain, 1, top - 1)
    BY <1>0, <2>1, RollbackShrinks DEF Level
  <2>3. disk.chain # <<>>
    BY <2>1, <2>2
  <2>4. old = {} /\ new = {disk.chain[Len(disk.chain)]}
    BY <2>1, <2>2
  <2>5. Promise!Displace
    BY <2>2, <2>3, <2>4 DEF Promise!Displace
  <2> QED BY <2>5 DEF Promise!Next
<1>3. ASSUME NEW b, Grows(b) PROVE Promise!Next
  <2>1. Promise!Appended(b) /\ b \in Promise!NewBlocks
    BY <1>0, <1>3, GrowsAppends
  <2>2. new = {}
    BY <1>3 DEF Grows
  <2>3. CASE Unlocked
    <3>1. old = {}
      BY <2>3 DEF Unlocked
    <3>2. Promise!Extend(b)
      BY <2>1, <2>2, <3>1 DEF Promise!Extend
    <3> QED BY <2>1, <3>2 DEF Promise!Next
  <2>4. CASE ~ Unlocked
    <3>1. old = {reorg.localTop} /\ (b = reorg.localTop \/ Preferred(b, reorg.localTop))
      BY <1>3, <2>4 DEF Unlocked, Grows
    <3>2. Promise!Settle(b)
      BY <2>1, <2>2, <3>1 DEF Promise!Settle
    <3> QED BY <2>1, <3>2 DEF Promise!Next
  <2> QED BY <2>3, <2>4
<1> QED BY <1>0, <1>1, <1>2, <1>3, StepKinds

\* While its process lives and LMDB writes, a node implements CanonicalChain,
\* reorganisations included (src/node.cpp:600): the chain grows by blocks that
\* conserve value, spend what exists and was not spent and mint an event once,
\* and its tip gives way only to a block the fork choice prefers, or returns.
THEOREM NodeImplementsCanonicalChain ==
    ASSUME RpcThreads = {}, DefaultRates, MaxFaults = 0, MaxCrashes = 0
    PROVE  Spec => ImplementsCanonicalChain
<1>1. Init => Promise!Init
  BY DEF Init, EmptyDisk, NoReorg, Promise!Init
<1>2. (Once /\ Reported /\ Kept) /\ (Once /\ Reported /\ Kept)' /\ EventMintedOnce'
        /\ Worth /\ Worth' /\ [Next]_vars => [Promise!Next]_(Promise!vars)
  BY StepRefines
<1>3. WorthYet => (NoneThrown => Worth)
  BY DEF WorthYet
<1> QED BY <1>1, <1>2, <1>3, WorthAlways, NeverMintedTwice, NeverThrows, StateInvariant, PTL
    DEF Spec, ImplementsCanonicalChain, Promise!Spec

-----------------------------------------------------------------------------
(***************************************************************************)
(* The two validators of a node                                             *)
(***************************************************************************)

\* Outputs weigh what they say, and no less than any of them.
LEMMA SumOfNat ==
    ASSUME NEW S \in SUBSET Output, IsFiniteSet(S)
    PROVE  SumOf(S) \in Nat /\ \A o \in S : o.amount <= SumOf(S)
<1>1. \A o \in Output : Amounts[o] = o.amount /\ Amounts[o] \in Nat
  BY DEF Amounts, Output
<1>2. \A T \in SUBSET S : T \in SUBSET Output /\ IsFiniteSet(T) /\ SumBy(Amounts, T) \in Nat
  <2> SUFFICES ASSUME NEW T \in SUBSET S
               PROVE  T \in SUBSET Output /\ IsFiniteSet(T) /\ SumBy(Amounts, T) \in Nat
    OBVIOUS
  <2>1. T \in SUBSET Output /\ IsFiniteSet(T)
    BY FS_Subset
  <2>2. \A o \in T : Amounts[o] \in Nat
    BY <1>1
  <2> QED BY <2>1, <2>2, SumByNat
<1>3. SumOf(S) = SumBy(Amounts, S) /\ SumBy(Amounts, S) \in Nat
  BY <1>2, SumOfIs
<1>4. Weighed(Amounts, S)
  BY <1>1 DEF Weighed
<1>5. ASSUME NEW o \in S PROVE o.amount <= SumOf(S)
  <2>1. SumBy(Amounts, S) = Amounts[o] + SumBy(Amounts, S \ {o})
    BY <1>4, SumByTakes
  <2>2. SumBy(Amounts, S \ {o}) \in Nat /\ Amounts[o] = o.amount /\ Amounts[o] \in Nat
    BY <1>1, <1>2
  <2> QED BY <1>3, <2>1, <2>2
<1> QED BY <1>3, <1>5

\* No transfer on a chain has a fee below zero.
LEMMA FeesNat ==
    ASSUME NEW chain \in Seq(Block), \A i \in 1 .. Len(chain) : Priced(chain[i].op)
    PROVE  TransferFees(chain) \in Nat
<1>1. DOMAIN chain = 1 .. Len(chain) /\ Len(chain) \in Nat
  BY LenProperties
<1>2. IsFiniteSet(DOMAIN chain)
  BY <1>1, FS_Interval
<1>3. \A i \in DOMAIN chain : Charged(chain)[i] \in Nat
  BY <1>1 DEF Charged, FeeIn, Priced
<1> QED BY <1>2, <1>3, FeesAre, SumByNat

\* An output that nobody spent is within the width of an amount: the vault, whose
\* supply it is part of, never leaves it (src/include/types.hpp).
LEMMA UnspentFits ==
    ASSUME ChainTyped, Kept, Valued, NEW u \in disk.utxos, u.key \notin disk.spent
    PROVE  u.amount <= AmountMax
<1> DEFINE free == Free(disk.utxos, disk.spent)
<1>1. u \in free /\ free \in SUBSET Output /\ IsFiniteSet(free)
  BY FS_Subset DEF Free, ChainTyped, Valued
<1>2. disk.vault.circulating = SumOf(free) + TransferFees(disk.chain)
  BY DEF Valued, Supplied
<1> HIDE DEF free
<1>3. SumOf(free) \in Nat /\ u.amount <= SumOf(free)
  BY <1>1, SumOfNat
<1>4. TransferFees(disk.chain) \in Nat
  BY FeesNat DEF ChainTyped, Valued
<1>5. disk.vault.circulating \in 0 .. AmountMax
  BY DEF Kept, Disk, VaultState, Amount
<1>6. u.amount \in Nat /\ AmountMax \in Int
  BY <1>1, VaultLimits DEF Output
<1> QED BY <1>2, <1>3, <1>4, <1>5, <1>6

\* A ring is among the outputs, and all of one amount.
LEMMA RingWorth ==
    ASSUME NEW utxos \in SUBSET Output, UniqueKeys(utxos), NEW u \in utxos,
           NEW ring \in RingsAround(u, utxos)
    PROVE  /\ u.key \in ring /\ ring \subseteq KeysOf(utxos)
           /\ \A w \in utxos : w.key \in ring => w.amount = u.amount
<1> DEFINE equal == {x \in utxos : x.amount = u.amount}
<1>1. PICK decoys : ring = {u.key} \cup decoys /\ decoys \subseteq {o.key : o \in equal} \ {u.key}
  BY DEF RingsAround, kSubset
<1>2. u \in equal /\ equal \subseteq utxos
  OBVIOUS
<1>3. u.key \in ring /\ ring \subseteq KeysOf(utxos)
  BY <1>1, <1>2 DEF KeysOf
<1>4. ASSUME NEW w \in utxos, w.key \in ring PROVE w.amount = u.amount
  <2>1. PICK x \in equal : x.key = w.key
    BY <1>1, <1>2, <1>4
  <2>2. x = w
    BY <1>2, <2>1 DEF UniqueKeys
  <2> QED BY <2>2
<1> QED BY <1>3, <1>4

\* What a peer asks of an operation, beside the header.
Accepted(op) ==
    /\ op.kind = "deposit" => MintOK(op, mem, disk)
    /\ op.kind = "transfer" => TransferOK(op, mem, disk)
    /\ op.kind = "withdraw" => BurnOK(op, mem, disk)

\* A block that joins the chain is one a peer with that chain accepts.
Welcome ==
    Len(disk'.chain) > Len(disk.chain)
        => ValidBlock(disk'.chain[Len(disk'.chain)], Load(disk), disk, Len(disk.chain))

Agreed == ChainTyped /\ Level /\ mem = Load(disk)

\* A block committed on a chain that it fits.
LEMMA CommitWelcome ==
    ASSUME Agreed, NEW b \in Block, NEW v, Commit(b, v), ValidBlock(b, mem, disk, top)
    PROVE  Welcome
<1>1. disk'.chain[Len(disk'.chain)] = b /\ top = Len(disk.chain)
  BY CommitGrows DEF Agreed, ValidBlock, Level
<1> QED BY <1>1 DEF Agreed, Welcome

\* A block of this node, with its signature alone.
LEMMA MineWelcome ==
    ASSUME Agreed, NEW op \in Op, Mine(op), Accepted(op), Self \in Authorized,
           op.kind = "deposit" => OwnQuorumOK
    PROVE  Welcome
<1> DEFINE Mined(h) == [height |-> top + 1, hash |-> h, prev |-> HashAt(disk, top),
                        validator |-> Self, signers |-> {Self}, op |-> op]
<1>1. ASSUME NEW h \in NewHashes(top + 1), Commit(Mined(h), After(mem.vault, op))
      PROVE  Welcome
  <2>1. Mined(h) \in Block
    BY NextBlockTyped, LedgerConstants DEF Agreed
  <2>2. /\ Mined(h).height = top + 1 /\ Mined(h).prev = HashAt(disk, top)
        /\ Mined(h).op = op /\ Mined(h).signers = {Self} /\ Mined(h).validator = Self
    OBVIOUS
  <2> HIDE DEF Mined
  <2>3. HeaderAuthorized(Mined(h))
    BY <2>2 DEF HeaderAuthorized, Quorum, OwnQuorumOK
  <2>4. op.kind \in {"deposit", "transfer", "withdraw"}
    BY DEF Op
  <2>5. ValidBlock(Mined(h), mem, disk, top)
    BY <2>2, <2>3, <2>4 DEF ValidBlock, Accepted
  <2> QED BY <1>1, <2>1, <2>5, CommitWelcome
<1>2. ASSUME DiskFault PROVE Welcome
  <2>1. Len(disk.chain) \in Nat /\ disk' = disk
    BY <1>2, LenProperties DEF DiskFault, Agreed, ChainTyped
  <2> QED BY <2>1 DEF Welcome
<1> HIDE DEF Mined
<1> QED BY <1>1, <1>2 DEF Mine, After, Mined

\* buy_shielded mints what apply_remote_block lets a peer mint.
LEMMA DepositWelcome ==
    ASSUME Agreed, Self \in Authorized, NEW event \in Events, event \notin disk.events,
           DepositMined(event)
    PROVE  Welcome
<1> DEFINE op == DepositOp(event, DepositBps)
<1>1. /\ Mine(op) /\ DepositOK(mem.vault, Gross[event], DepositBps) /\ OwnQuorumOK
      /\ event \notin NoPoints
  BY DEF DepositMined
<1>2. DepositBps \in Nat /\ DepositBps <= BpsOfWhole
  BY <1>1, LedgerConstants DEF DepositOK
<1>3. op \in Op
  BY <1>2, DepositBuilt DEF WellBuilt
<1>4. /\ op.kind = "deposit" /\ op.events = {event} /\ op.gross = Gross[event]
      /\ op.fee = FeeOf(Gross[event], DepositBps)
      /\ op.outs = {[key |-> event, amount |-> NetOf(Gross[event], DepositBps)]}
  BY DEF DepositOp
<1>5. Gross[event] > 0
  BY <1>1, VaultLimits DEF DepositOK
<1> HIDE DEF op
<1>6. MintOK(op, mem, disk)
  BY <1>1, <1>4, <1>5 DEF MintOK, Processed
<1> QED BY <1>1, <1>3, <1>4, <1>6, MineWelcome DEF Accepted

\* transfer_shielded builds what apply_remote_block accepts, when it sends something.
LEMMA TransferWelcome ==
    ASSUME Agreed, Kept, Valued, UniqueKeys(disk.utxos), Self \in Authorized, 0 \notin SendAmounts,
           NEW u \in mem.utxos, NEW send \in SendAmounts, NEW fee \in TxFees,
           NEW ring \in RingsAround(u, mem.utxos), NEW k1 \in UnusedKeys, NEW k2 \in UnusedKeys,
           k1 # k2,
           \/ u.amount >= send + fee /\ ~ Spent(u.key, mem, disk)
           \/ TransferOK(TransferOp(u, ring, send, fee, k1, k2), mem, disk),
           Mine(TransferOp(u, ring, send, fee, k1, k2))
    PROVE  Welcome
<1> DEFINE op == TransferOp(u, ring, send, fee, k1, k2)
           rest == u.amount - send - fee
<1>0. ChainTyped /\ mem.utxos = disk.utxos /\ mem.spent = disk.spent
  BY DEF Agreed, Load
<1>1. op \in Op /\ Mine(op)
  BY <1>0, TransferTaken
<1>2. /\ u \in Output /\ send \in Nat /\ send > 0 /\ fee \in Nat /\ k1 \in Keys /\ k2 \in Keys
      /\ u \in disk.utxos
  BY <1>0, NodeConstants DEF ChainTyped, UnusedKeys, Keys
<1>3. /\ op.kind = "transfer" /\ op.spends = {u.key} /\ op.ring = ring /\ op.fee = fee
      /\ op.outs = {[key |-> k1, amount |-> send]} \cup Change(k2, rest)
  BY DEF TransferOp
<1>4. u.amount >= send + fee => Cost(op) = u.amount
  BY <1>2, TransferPriced
<1>5. \A o \in op.outs : o.amount > 0
  BY <1>2, <1>3 DEF Change
<1> HIDE DEF op
<1>6. CASE u.amount >= send + fee /\ ~ Spent(u.key, mem, disk)
  <2>1. u.key \in ring /\ ring \subseteq KeysOf(mem.utxos)
        /\ \A w \in mem.utxos : w.key \in ring => w.amount = u.amount
    BY <1>0, RingWorth DEF ChainTyped
  <2>2. op.fee + SumOf(op.outs) = u.amount
    BY <1>3, <1>4, <1>6 DEF Cost
  <2>3. u.amount <= AmountMax
    BY <1>0, <1>2, <1>6, UnspentFits DEF Spent
  <2>4. TransferOK(op, mem, disk)
    BY <1>3, <1>5, <1>6, <2>1, <2>2, <2>3 DEF TransferOK
  <2> QED BY <1>1, <1>3, <2>4, MineWelcome DEF Accepted
<1>7. CASE TransferOK(op, mem, disk)
  BY <1>1, <1>3, <1>7, MineWelcome DEF Accepted
<1> QED BY <1>6, <1>7 DEF op

\* withdraw_shielded burns what apply_remote_block lets a peer burn.
LEMMA WithdrawWelcome ==
    ASSUME Agreed, Self \in Authorized, WithdrawShielded
    PROVE  Welcome
<1>0. ChainTyped /\ mem.utxos = disk.utxos
  BY DEF Agreed, Load
<1>1. PICK u \in mem.utxos, gross \in WithdrawAmounts, k \in UnusedKeys :
        /\ u.amount >= gross
        /\ ~ Spent(u.key, mem, disk)
        /\ WithdrawOK(mem.vault, gross, WithdrawBps)
        /\ Mine(WithdrawOp(u, gross, WithdrawBps, k))
  BY DEF WithdrawShielded
<1> DEFINE op == WithdrawOp(u, gross, WithdrawBps, k)
           rest == u.amount - gross
<1>2. u \in Output /\ gross \in Nat /\ WithdrawBps \in Nat /\ k \in Keys
  BY <1>0, NodeConstants, LedgerConstants DEF ChainTyped, UnusedKeys, Keys
<1>3. op \in Op
  BY <1>2, WithdrawBuilt DEF WellBuilt
<1>4. /\ op.kind = "withdraw" /\ op.spends = {u.key} /\ op.gross = gross
      /\ op.fee = FeeOf(gross, WithdrawBps) /\ op.outs = Change(k, rest)
  BY DEF WithdrawOp
<1>5. Mine(op)
  BY <1>1
<1>6. rest \in Int /\ rest >= 0
  BY <1>1, <1>2 DEF Output
<1> HIDE DEF op, rest
<1>7. SumOf(op.outs) = rest /\ \A o \in op.outs : o.amount = rest /\ o.amount > 0
  <2>1. SumOf(Change(k, rest)) = rest
        /\ \A o \in Change(k, rest) : o = [key |-> k, amount |-> rest]
    BY <1>2, <1>6, ChangePriced
  <2>2. Change(k, rest) # {} => rest > 0
    BY DEF Change
  <2> QED BY <1>4, <2>1, <2>2
<1>8. gross > 0
  BY <1>1, VaultLimits DEF WithdrawOK
<1>9. BurnOK(op, mem, disk)
  BY <1>1, <1>4, <1>7, <1>8 DEF BurnOK, rest
<1> QED BY <1>3, <1>4, <1>5, <1>9, MineWelcome DEF Accepted

\* Whatever a node that reorganises nothing adds to its chain is welcome.
LEMMA StepWelcome ==
    ASSUME RpcThreads = {}, DefaultRates, Self \in Authorized, 0 \notin SendAmounts,
           Once, Kept, Settled, Exact, Valued, Unlocked, [Next]_vars
    PROVE  Welcome
<1>0. ChainTyped /\ Level /\ mem.utxos = disk.utxos
  BY DEF Once, Exact, Settled, Mirrored
<1>m. mem = Load(disk)
  <2>1. mem \in [utxos : SUBSET Output, spent : SUBSET Keys, vault : VaultState]
    BY DEF Kept, Memory
  <2>2. mem.utxos = disk.utxos /\ mem.spent = disk.spent /\ mem.vault = disk.vault
    BY DEF Settled, Mirrored, Exact
  <2> QED BY <2>1, <2>2 DEF Load
<1>a. Agreed
  BY <1>0, <1>m DEF Agreed
<1>u. UniqueKeys(disk.utxos)
  BY <1>0, OneOutput DEF Settled, Valued
<1>n. Len(disk.chain) \in Nat
  BY <1>0, LenProperties DEF ChainTyped
<1>1. ASSUME NEW t \in RpcThreads PROVE FALSE
  BY <1>1
<1>2. CASE DirectDeposit
  <2>1. PICK event \in DirectEvents \ (disk.events \cup KeysOf(mem.utxos)) : DepositMined(event)
    BY <1>2 DEF DirectDeposit
  <2> QED BY <1>a, <2>1, NodeConstants, DepositWelcome
<1>3. CASE TransferShielded
  <2>1. PICK u \in mem.utxos, send \in SendAmounts, fee \in TxFees :
          /\ u.amount >= send + fee /\ ~ Spent(u.key, mem, disk)
          /\ \E ring \in RingsAround(u, mem.utxos), k1, k2 \in UnusedKeys :
                k1 # k2 /\ Mine(TransferOp(u, ring, send, fee, k1, k2))
    BY <1>3 DEF TransferShielded
  <2>2. PICK ring \in RingsAround(u, mem.utxos), k1 \in UnusedKeys, k2 \in UnusedKeys :
          k1 # k2 /\ Mine(TransferOp(u, ring, send, fee, k1, k2))
    BY <2>1
  <2> QED BY <1>a, <1>u, <2>1, <2>2, TransferWelcome
<1>4. CASE SubmitPreSigned
  <2>1. PICK u \in mem.utxos, send \in SendAmounts, fee \in TxFees :
          \E ring \in RingsAround(u, mem.utxos), k1, k2 \in UnusedKeys :
             /\ k1 # k2
             /\ TransferOK(TransferOp(u, ring, send, fee, k1, k2), mem, disk)
             /\ Mine(TransferOp(u, ring, send, fee, k1, k2))
    BY <1>4 DEF SubmitPreSigned
  <2>2. PICK ring \in RingsAround(u, mem.utxos), k1 \in UnusedKeys, k2 \in UnusedKeys :
          /\ k1 # k2
          /\ TransferOK(TransferOp(u, ring, send, fee, k1, k2), mem, disk)
          /\ Mine(TransferOp(u, ring, send, fee, k1, k2))
    BY <2>1
  <2> QED BY <1>a, <1>u, <2>2, TransferWelcome
<1>5. CASE WithdrawShielded
  BY <1>a, <1>5, WithdrawWelcome
<1>6. ~ ClaimTreasuryFees
  BY DEF ClaimTreasuryFees, DefaultRates, Kept
<1>7. CASE ApplyRemoteBlock
  <2> DEFINE Received(s, h, op) == [height |-> top + 1, hash |-> h, prev |-> HashAt(disk, top),
                                    validator |-> s.validator, signers |-> s.signers, op |-> op]
  <2>1. PICK s \in PeerSignatures, h \in NewHashes(top + 1), op \in PeerOps :
          /\ ValidBlock(Received(s, h, op), mem, disk, top)
          /\ Commit(Received(s, h, op), After(mem.vault, op)) \/ DiskFault
    BY <1>7 DEF ApplyRemoteBlock, After
  <2>2. Received(s, h, op) \in Block
    <3>1. s.validator \in Validators /\ s.signers \in SUBSET Validators
      BY NodeConstants
    <3>2. op \in Op
      BY <1>0, PeerOpsBuilt DEF WellBuilt
    <3> QED BY <1>0, <3>1, <3>2, NextBlockTyped
  <2> HIDE DEF Received
  <2>3. CASE Commit(Received(s, h, op), After(mem.vault, op))
    BY <1>a, <2>1, <2>2, <2>3, CommitWelcome
  <2>4. CASE DiskFault
    BY <1>n, <2>4 DEF DiskFault, Welcome
  <2> QED BY <2>1, <2>3, <2>4
<1>8. CASE BeginReorg
  <2>1. Stays \/ Rolls
    BY <1>0, <1>8, BeginRolls
  <2>2. CASE Stays
    BY <1>n, <2>2 DEF Stays, Welcome
  <2>3. CASE Rolls
    <3>1. Len(disk'.chain) = top - 1
      BY <1>0, <2>3, RollbackShrinks DEF Rolls
    <3> QED BY <1>0, <1>n, <3>1 DEF Level, Welcome
  <2> QED BY <2>1, <2>2, <2>3
<1>9. ~ FinishReorg /\ ~ AbandonReorg
  BY DEF FinishReorg, AbandonReorg, Unlocked
<1>10. CASE UNCHANGED disk
  BY <1>n, <1>10 DEF Welcome
<1>11. CASE RejectRemoteBlock
  BY <1>10, <1>11 DEF RejectRemoteBlock
<1>12. ASSUME Restarted PROVE Welcome
  BY <1>10, <1>12 DEF Restarted
<1>13. CASE UNCHANGED vars
  BY <1>10, <1>13 DEF vars
<1> QED BY <1>1, <1>2, <1>3, <1>4, <1>5, <1>6, <1>7, <1>8, <1>9, <1>11, <1>12, <1>13
    DEF Next, Crash, GuardTerminates

\* The two validators of src/node.cpp agree: what the handlers check before they
\* mine is what apply_remote_block asks of the block (node.cpp:713), at a node
\* whose key is on its list and that sends no transfer of zero (node.cpp:935).
THEOREM MinedBlocksAccepted ==
    ASSUME RpcThreads = {}, DefaultRates, Self \in Authorized, 0 \notin SendAmounts
    PROVE  Spec /\ []Level => MinedBlocksAcceptable
<1>1. (Once /\ Reported /\ Kept) /\ Worth /\ [Next]_vars
        => [Unlocked /\ Len(disk'.chain) > Len(disk.chain)
             => ValidBlock(disk'.chain[Len(disk'.chain)], Load(disk), disk, Len(disk.chain))]_vars
  BY StepWelcome DEF Welcome, Worth
<1>2. WorthYet => (NoneThrown => Worth)
  BY DEF WorthYet
<1> QED BY <1>1, <1>2, WorthInvariant, NeverMintedTwice, NeverThrows, StateInvariant, PTL
    DEF Spec, MinedBlocksAcceptable

\* Where no LMDB write fails, they agree always.
THEOREM MinedBlocksAlwaysAccepted ==
    ASSUME RpcThreads = {}, DefaultRates, MaxFaults = 0, Self \in Authorized, 0 \notin SendAmounts
    PROVE  Spec => MinedBlocksAcceptable
<1>1. (NoneThrown => Exact /\ Level) => (NoneThrown => Level)
  OBVIOUS
<1> QED BY <1>1, MinedBlocksAccepted, LevelKept, NeverThrows, PTL

=============================================================================
