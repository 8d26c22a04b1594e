------------------------------ MODULE NodeLedger ------------------------------
(***************************************************************************)
(* One CryptoPeg node: the ledger it keeps in LMDB and mirrors in RAM, the  *)
(* handlers that mine blocks on it, the blocks its peers send, fork choice  *)
(* at the tip, and the crashes and disk faults in between.                  *)
(*                                                                         *)
(* Every handler of src/node.cpp holds node_mutex_ from its first line to   *)
(* its last, so it is one step -- with two exceptions.  The deposit         *)
(* endpoint asks whether an event was processed before it calls the node,   *)
(* outside the mutex: two steps.  And a reorganisation makes two LMDB       *)
(* commits, the rollback of the tip and the block that replaces it: a crash *)
(* or a reader outside the mutex can fall between them.                     *)
(***************************************************************************)
EXTENDS LedgerOps

CONSTANTS
    RpcThreads,         \* HTTP threads serving deposits of L2 events
    RpcEvents,          \* the events the oracle reports to this node
    DirectEvents,       \* deposits made in the process (demo, CLI) for one of
                        \* its wallets, whose transaction hash is drawn at random
    SendAmounts, TxFees, WithdrawAmounts, ClaimAmounts,
    PeerSignatures,     \* [validator, signers] of the blocks that peers send
    PeerEvents,         \* the events those blocks may deposit
    PeerBps,            \* the fee rates the peers run with
    \* bounds of the model
    MaxHeight, MaxClaims, MaxFaults, MaxCrashes, MaxThrows

ASSUME NodeConstants ==
    /\ RpcEvents \subseteq Events
    /\ DirectEvents \subseteq Events \ NoPoints
    /\ PeerEvents \subseteq Events
    /\ SendAmounts \subseteq Nat
    /\ TxFees \subseteq Nat
    /\ WithdrawAmounts \subseteq Nat
    /\ ClaimAmounts \subseteq Nat
    /\ PeerBps \subseteq 0 .. BpsOfWhole
    /\ PeerSignatures \subseteq [validator : Validators, signers : SUBSET Validators]
    /\ MaxHeight \in Nat

VARIABLES
    disk,       \* the LMDB tables
    mem,        \* vault_, utxo_pool_, key_image_ledger_
    top,        \* BlockchainDB::top_height_, the cached height (top_hash_ with it)
    reorg,      \* the reorganisation whose handler holds node_mutex_, if any
    rpc,        \* per thread, the event it found unprocessed and will deposit
    claimed,    \* fees paid to the treasury: what the claim receipts add up to
    claims, faults, crashes,    \* how many of each have happened,
    throws      \* and how many deposits threw between vault and block

ledger == <<disk, mem, top>>
bounded == <<claims, faults, crashes, throws>>
vars == <<disk, mem, top, reorg, rpc, claimed, claims, faults, crashes, throws>>

NoReorg == [active |-> FALSE]

\* What apply_remote_block keeps on its stack while it reorganises: the block
\* to apply, the block it rolled back and the vault from before.
Reorganisation == [active : {TRUE}, block : Block, localTop : Block, savedVault : VaultState]

TypeOK ==
    /\ disk \in Disk
    /\ mem \in Memory
    /\ top \in Nat
    /\ reorg \in {NoReorg} \cup Reorganisation
    /\ rpc \in [RpcThreads -> SUBSET Events]
    /\ claimed \in Nat
    /\ claims \in Nat /\ faults \in Nat /\ crashes \in Nat /\ throws \in Nat

\* init_or_recover_database on an empty directory.
Init ==
    /\ disk = EmptyDisk
    /\ mem = Load(EmptyDisk)
    /\ top = 0
    /\ reorg = NoReorg
    /\ rpc = [t \in RpcThreads |-> {}]
    /\ claimed = 0
    /\ claims = 0 /\ faults = 0 /\ crashes = 0 /\ throws = 0

-----------------------------------------------------------------------------
(***************************************************************************)
(* Steps shared by the handlers                                             *)
(***************************************************************************)

\* node_mutex_ is free.
Unlocked == ~ reorg.active

\* One-time keys no wallet has used yet.
UnusedKeys == FreshKeys \ KeysOf(mem.utxos \cup disk.utxos)

\* The hash of a new block at this height: not one of a block known there.
NewHashes(height) ==
    Hashes \ ({disk.chain[h].hash : h \in DOMAIN disk.chain \cap {height}}
                \cup {b.hash : b \in IF reorg.active THEN {reorg.localTop} ELSE {}})

\* Fault: the key images are not pushed.
GrownWithoutImages(op, vault) ==
    [utxos |-> mem.utxos \cup op.outs, spent |-> mem.spent, vault |-> vault]

\* RAM after a block: outputs and key images pushed, vault replaced.
Grown(op, vault) ==
    [utxos |-> mem.utxos \cup op.outs,
     spent |-> mem.spent \cup op.spends,
     vault |-> vault]

\* commit_block succeeds: LMDB and the cached top move together.
Commit(b, vault) ==
    /\ disk' = Committed(disk, b, vault)
    /\ top' = b.height

\* An LMDB write transaction fails and leaves the disk alone.
DiskFault ==
    /\ faults < MaxFaults
    /\ faults' = faults + 1
    /\ UNCHANGED disk

\* The tail of the local handlers: build the block, sign it with the node's own
\* key, commit it; when LMDB throws, recover RAM from disk.
Mine(op) ==
    LET vault == VaultAfter(mem.vault, op, DepositBps, WithdrawBps)
    IN  /\ top < MaxHeight
        /\ \/ /\ \E h \in NewHashes(top + 1) :
                    Commit([height |-> top + 1, hash |-> h, prev |-> HashAt(disk, top),
                            validator |-> Self, signers |-> {Self}, op |-> op], vault)
              /\ mem' = Grown(op, vault)
              /\ UNCHANGED faults
           \/ /\ DiskFault
              /\ mem' = Load(disk)
              /\ UNCHANGED top

-----------------------------------------------------------------------------
(***************************************************************************)
(* Deposits                                                                 *)
(***************************************************************************)

\* The quorum buy_shielded asks for before it commits.
OwnQuorumOK ==
    Authorized # {} => Cardinality({Self} \cap Authorized) >= RequiredQuorum

\* buy_shielded makes the output, has its quorum and mines the block.
DepositMined(event) ==
    /\ event \notin NoPoints
    /\ DepositOK(mem.vault, Gross[event], DepositBps)
    /\ OwnQuorumOK
    /\ Mine(DepositOp(event, DepositBps))
    /\ UNCHANGED throws

\* The vault in RAM has taken the deposit when create_one_time_output throws,
\* before the quorum is asked for; nothing puts it back.
DepositThrows(event) ==
    /\ throws < MaxThrows
    /\ event \in NoPoints
    /\ DepositOK(mem.vault, Gross[event], DepositBps)
    /\ mem' = WithVault(mem, AfterDeposit(mem.vault, Gross[event], DepositBps))
    /\ throws' = throws + 1
    /\ UNCHANGED <<disk, top, faults>>

\* The vault refuses the amount, or there is no quorum and RAM is put back.
DepositRefused(event) ==
    /\ \/ ~ DepositOK(mem.vault, Gross[event], DepositBps)
       \/ event \notin NoPoints /\ ~ OwnQuorumOK
    /\ UNCHANGED <<ledger, faults, throws>>

BuyShielded(event) ==
    DepositMined(event) \/ DepositThrows(event) \/ DepositRefused(event)

\* POST /api/v1/vault/deposit, up to the call into the node: the event is not
\* in dbi_deposit_txs_ and its certificate carries a quorum of attestations.
RpcDepositCheck(t) ==
    /\ rpc[t] = {}
    /\ Cardinality(Authorized) >= RequiredQuorum
    /\ \E event \in RpcEvents :
            ~ Processed(event, disk) /\ rpc' = [rpc EXCEPT ![t] = {event}]
    /\ UNCHANGED <<ledger, reorg, claimed, bounded>>

\* The call, and the end of the request whatever the node answers.
RpcDeposit(t) ==
    /\ Unlocked
    /\ \E event \in rpc[t] : BuyShielded(event)
    /\ rpc' = [rpc EXCEPT ![t] = {}]
    /\ UNCHANGED <<reorg, claimed, claims, crashes>>

\* A deposit with a transaction hash nobody has used.
DirectDeposit ==
    /\ Unlocked
    /\ \E event \in DirectEvents \ (disk.events \cup KeysOf(mem.utxos)) :
            DepositMined(event)
    /\ UNCHANGED <<reorg, rpc, claimed, claims, crashes>>

-----------------------------------------------------------------------------
(***************************************************************************)
(* Transfers, withdrawals, treasury                                         *)
(***************************************************************************)

\* transfer_shielded: the node builds and signs the transaction.  The amount
\* sent may be zero; the recipient's output is made all the same.
TransferShielded ==
    /\ Unlocked
    /\ \E u \in mem.utxos, send \in SendAmounts, fee \in TxFees :
        /\ Fits(send, fee)
        /\ u.amount >= send + fee
        /\ ~ Spent(u.key, mem, disk)
        /\ \E ring \in RingsAround(u, mem.utxos), k1, k2 \in UnusedKeys :
            /\ k1 # k2
            /\ Mine(TransferOp(u, ring, send, fee, k1, k2))
    /\ UNCHANGED <<reorg, rpc, claimed, claims, crashes, throws>>

\* submit_pre_signed_transaction: the client built it, the node checks it.
SubmitPreSigned ==
    /\ Unlocked
    /\ \E u \in mem.utxos, send \in SendAmounts, fee \in TxFees :
        \E ring \in RingsAround(u, mem.utxos), k1, k2 \in UnusedKeys :
            LET op == TransferOp(u, ring, send, fee, k1, k2)
            IN  /\ k1 # k2
                /\ TransferOK(op, mem, disk)
                /\ Mine(op)
    /\ UNCHANGED <<reorg, rpc, claimed, claims, crashes, throws>>

WithdrawShielded ==
    /\ Unlocked
    /\ \E u \in mem.utxos, gross \in WithdrawAmounts, k \in UnusedKeys :
        /\ u.amount >= gross
        /\ ~ Spent(u.key, mem, disk)
        /\ WithdrawOK(mem.vault, gross, WithdrawBps)
        /\ Mine(WithdrawOp(u, gross, WithdrawBps, k))
    /\ UNCHANGED <<reorg, rpc, claimed, claims, crashes, throws>>

\* claim_treasury_fees: the vault in RAM pays; whether save_vault_state wrote
\* it to LMDB is not looked at.
ClaimFromVault(amount) ==
    /\ ClaimOK(mem.vault, amount)
    /\ mem' = WithVault(mem, AfterClaim(mem.vault, amount))
    /\ \/ /\ disk' = Saved(disk, mem'.vault)
          /\ UNCHANGED faults
       \/ DiskFault

\* POST /api/v1/vault/claim-fees with the token of the administrator.
ClaimTreasuryFees ==
    /\ Unlocked
    /\ claims < MaxClaims
    /\ \E amount \in ClaimAmounts :
        /\ ClaimFromVault(amount)
        /\ claimed' = claimed + amount
    /\ claims' = claims + 1
    /\ UNCHANGED <<top, reorg, rpc, crashes, throws>>

-----------------------------------------------------------------------------
(***************************************************************************)
(* Blocks from peers                                                        *)
(***************************************************************************)

\* What peers put in blocks: operations on outputs this node knows, built with
\* their own fee rates, spent already or not.
PeerTransfers(u, fee) ==
    {TransferOp(u, ring, send, fee, k, k) :
        ring \in RingsAround(u, mem.utxos), k \in UnusedKeys,
        send \in {u.amount - fee} \cap Nat}

PeerOps ==
    {DepositOp(event, bps) : event \in PeerEvents, bps \in PeerBps}
    \cup {WithdrawOp(u, gross, bps, k) :
                u \in mem.utxos, gross \in WithdrawAmounts, bps \in PeerBps, k \in UnusedKeys}
    \cup UNION {PeerTransfers(u, fee) : u \in mem.utxos, fee \in TxFees}

\* apply_remote_block on a block one above the tip.
ApplyRemoteBlock ==
    /\ Unlocked
    /\ top < MaxHeight
    /\ \E s \in PeerSignatures, h \in NewHashes(top + 1), op \in PeerOps :
        LET b == [height |-> top + 1, hash |-> h, prev |-> HashAt(disk, top),
                  validator |-> s.validator, signers |-> s.signers, op |-> op]
            vault == VaultAfter(mem.vault, op, DepositBps, WithdrawBps)
        IN  \/ /\ ValidBlock(b, mem, disk, top)
               /\ Commit(b, vault)
               /\ mem' = Grown(op, vault)
               /\ UNCHANGED faults
            \/ /\ ValidBlock(b, mem, disk, top)
               /\ DiskFault
               /\ mem' = Load(disk)
               /\ UNCHANGED top
    /\ UNCHANGED <<reorg, rpc, claimed, claims, crashes, throws>>

\* A block that fails validation, or is of no height near the tip: RAM is
\* reloaded from disk.
RejectRemoteBlock ==
    /\ Unlocked
    /\ PeerSignatures # {}
    /\ mem' = Load(disk)
    /\ UNCHANGED <<disk, top, reorg, rpc, claimed, bounded>>

\* apply_remote_block on a block that competes with the tip and wins the fork
\* choice: the tip is rolled back and RAM reloaded.  The rollback moves the
\* cached top before it replays the vault and commits; when the replay throws
\* or LMDB fails, the disk keeps the tip and the handler gives up.
BeginReorg ==
    /\ Unlocked
    /\ top > 0
    /\ \E s \in PeerSignatures, h \in NewHashes(top), op \in PeerOps :
        LET local == disk.chain[top]
            b == [height |-> top, hash |-> h, prev |-> local.prev,
                  validator |-> s.validator, signers |-> s.signers, op |-> op]
            replayed == ReplayedAtDefaults(SubSeq(disk.chain, 1, top - 1)).ok
        IN  /\ Preferred(b, local)
            /\ \/ /\ replayed
                  /\ disk' = RolledBack(disk, top)
                  /\ mem' = Load(disk')
                  /\ top' = top - 1
                  /\ reorg' = [active |-> TRUE, block |-> b, localTop |-> local,
                               savedVault |-> mem.vault]
                  /\ UNCHANGED faults
               \/ /\ DiskFault
                  /\ top' \in {top, top - 1}
                  /\ UNCHANGED <<mem, reorg>>
               \/ /\ ~ replayed
                  /\ top' = top - 1
                  /\ UNCHANGED <<disk, mem, reorg, faults>>
    /\ UNCHANGED <<rpc, claimed, claims, crashes, throws>>

\* Fault: the block that won the fork choice is not validated.
FinishUnvalidated ==
    /\ reorg.active
    /\ LET vault == VaultAfter(mem.vault, reorg.block.op, DepositBps, WithdrawBps)
       IN  Commit(reorg.block, vault) /\ mem' = Grown(reorg.block.op, vault)
    /\ reorg' = NoReorg
    /\ UNCHANGED <<rpc, claimed, bounded>>

\* The rest of that handler: the new block is valid and committed.
FinishReorg ==
    /\ reorg.active
    /\ LET b == reorg.block
           vault == VaultAfter(mem.vault, b.op, DepositBps, WithdrawBps)
       IN  /\ ValidBlock(b, mem, disk, top)
           /\ Commit(b, vault)
           /\ mem' = Grown(b.op, vault)
    /\ reorg' = NoReorg
    /\ UNCHANGED <<rpc, claimed, bounded>>

\* Or it is not, or the commit fails: ReorgGuard commits the old tip again
\* with the vault saved before the rollback, and reloads RAM.
AbandonReorg ==
    /\ reorg.active
    /\ \/ /\ ~ ValidBlock(reorg.block, mem, disk, top)
          /\ UNCHANGED faults
       \/ /\ ValidBlock(reorg.block, mem, disk, top)
          /\ faults < MaxFaults
          /\ faults' = faults + 1
    /\ Commit(reorg.localTop, reorg.savedVault)
    /\ mem' = Load(disk')
    /\ reorg' = NoReorg
    /\ UNCHANGED <<rpc, claimed, claims, crashes, throws>>

-----------------------------------------------------------------------------
(***************************************************************************)
(* The process stops and starts again                                       *)
(***************************************************************************)

Restarted ==
    /\ mem' = Load(disk)
    /\ top' = Len(disk.chain)
    /\ reorg' = NoReorg
    /\ rpc' = [t \in RpcThreads |-> {}]
    /\ UNCHANGED <<disk, claimed, claims, throws>>

\* A crash at any moment, and init_or_recover_database.
Crash ==
    /\ crashes < MaxCrashes
    /\ crashes' = crashes + 1
    /\ Restarted
    /\ UNCHANGED faults

\* commit_block fails inside the destructor of ReorgGuard: the exception
\* leaves a destructor, the process is terminated and started again.  When the
\* new block was valid, its own commit has failed before.
GuardTerminates ==
    /\ reorg.active
    /\ LET failed == IF ValidBlock(reorg.block, mem, disk, top) THEN 2 ELSE 1
       IN  /\ faults + failed <= MaxFaults
           /\ faults' = faults + failed
    /\ Restarted
    /\ UNCHANGED crashes

Next ==
    \/ \E t \in RpcThreads : RpcDepositCheck(t)
    \/ \E t \in RpcThreads : RpcDeposit(t)
    \/ DirectDeposit
    \/ TransferShielded
    \/ SubmitPreSigned
    \/ WithdrawShielded
    \/ ClaimTreasuryFees
    \/ ApplyRemoteBlock
    \/ RejectRemoteBlock
    \/ BeginReorg
    \/ FinishReorg
    \/ AbandonReorg
    \/ Crash
    \/ GuardTerminates

Spec == Init /\ [][Next]_vars

-----------------------------------------------------------------------------
(***************************************************************************)
(* Properties                                                               *)
(***************************************************************************)

SpentOn(chain) == UNION {chain[i].op.spends : i \in DOMAIN chain}
EventsOn(chain) == UNION {chain[i].op.events : i \in DOMAIN chain}
OutputsOn(chain) == UNION {chain[i].op.outs : i \in DOMAIN chain}

\* No output is spent twice on the chain the node stores, by whatever mix of
\* transfers, withdrawals, peers' blocks, reorganisations, crashes, disk faults
\* and concurrent deposit requests the chain came about.
NoDoubleSpend ==
    \A i, j \in DOMAIN disk.chain :
        disk.chain[i].op.spends \cap disk.chain[j].op.spends # {} => i = j

\* No deposit event is minted twice on one chain: "idempotencia garantizada",
\* src/rpc_server.cpp:406.
EventMintedOnce ==
    \A i, j \in DOMAIN disk.chain :
        disk.chain[i].op.events \cap disk.chain[j].op.events # {} => i = j

\* The incremental tables are what the stored blocks say, also after rollbacks.
IndexesMatchChain ==
    /\ disk.spent = SpentOn(disk.chain)
    /\ disk.events = EventsOn(disk.chain)
    /\ disk.utxos = OutputsOn(disk.chain)

\* One vault holds at least what another does.
Covers(v, w) == \A part \in DOMAIN w : v[part] >= w[part]

\* Whenever no handler runs, RAM and the cached top agree with the disk.  The one
\* handler that leaves RAM ahead is a deposit that throws before its block
\* (node.cpp:155): it raises the vault, and nothing else.
MirrorMatchesDisk ==
    Unlocked =>
        /\ mem.utxos = disk.utxos /\ mem.spent = disk.spent
        /\ top = Len(disk.chain)
        /\ Covers(mem.vault, disk.vault)
        /\ throws = 0 => mem.vault = disk.vault

\* What a block spends, and every decoy of its ring, was created by an earlier
\* block: no reorganisation leaves a transaction whose ring is gone.
RingsAreGrounded ==
    \A i \in DOMAIN disk.chain :
        disk.chain[i].op.spends \cup disk.chain[i].op.ring
            \subseteq KeysOf(OutputsOn(SubSeq(disk.chain, 1, i - 1)))

\* The supply in circulation is the value of the unspent outputs plus the
\* transfer fees, which no pool collects.  Claims and rollbacks leave it so; after
\* deposits that threw it may be more, whatever is mined or rolled back then, and
\* is never less.
TransferFees(chain) ==
    MapThenSumSet(LAMBDA i : IF chain[i].op.kind = "transfer" THEN chain[i].op.fee ELSE 0,
                  DOMAIN chain)

SupplyMatchesOutputs ==
    LET value == SumOf({u \in disk.utxos : u.key \notin disk.spent}) + TransferFees(disk.chain)
    IN  Unlocked =>
            /\ mem.vault.circulating >= value
            /\ throws = 0 => mem.vault.circulating = value

\* A vault that leaves a handler is solvent in RAM and on disk.
VaultsSolvent == Solvent(mem.vault) /\ Solvent(disk.vault)

\* What the local handlers mine, a peer with the same chain accepts.
MinedBlocksAcceptable ==
    [][Unlocked /\ Len(disk'.chain) > Len(disk.chain)
        => ValidBlock(disk'.chain[Len(disk'.chain)], Load(disk), disk, Len(disk.chain))]_vars

\* The vault on disk is the vault of the chain on disk, replayed at the node's
\* own rates, less what the treasury was paid: a rollback rebuilds it "exactamente
\* hasta new_height" (src/blockchain_db.cpp:611), and a claim stays paid.  A deposit
\* that threw gets into it with the next block, and only ever raises it.
VaultMatchesChain ==
    LET exact == Replay(disk.chain, DepositBps, WithdrawBps).vault
        due == [exact EXCEPT !.collateral = @ - claimed, !.pool = @ - claimed]
    IN  /\ Covers(disk.vault, due)
        /\ throws = 0 => disk.vault = due

\* A live node implements the abstract chain, reorganisations included: the tip
\* gives way only to a block the fork choice prefers, and otherwise returns.
Promise == INSTANCE CanonicalChain
    WITH chain <- disk.chain,
         displaced <- IF reorg.active THEN {reorg.localTop} ELSE {},
         Better <- Preferred,
         Genesis <- GenesisHash

ImplementsCanonicalChain == Promise!Spec
=============================================================================
