# CryptoPeg: a verification project

CryptoPeg is a confidential stablecoin: USDT locked in a contract on Arbitrum backs one-to-one tokens
on a private chain, where ring signatures and stealth addresses hide who pays whom. This directory
holds TLA+ models of the program, the TLC runs that check them and the proofs TLAPS checks. Paths are
relative to the repository; line numbers are those of the commit next to this directory.

    tlc -workers 2 -config MCNodePeers.cfg MCNodeLedger      # a run
    tlapm NodeLedgerProofs.tla                               # a proof

Contents: [1 The system](#1-the-system) · [2 Modules](#2-the-modules) · [3 Runs](#3-the-runs) ·
[4 Fairness](#4-fairness) · [5 Proofs](#5-the-proofs) · [6 Disagreements found](#6-where-code-and-words-disagree) ·
[7 Not modelled](#7-what-is-not-modelled) · [8 Plan](#8-plan)

## 1. The system

Users lock USDT in a vault contract on L2. A script reports the deposit to a node, which mints outputs
for it. Tokens move on the private chain in blocks that each node mines at once, one operation per
block, and gossips to its peers. A withdrawal burns tokens in a block; once the block is deep enough a
script has the contract pay.

                 users                              wallets, web pages
                   | deposit            RPC                   |
        +----------v---------+   +-------------+   +----------v-----------+
        |   vault contract   |<->| oracle (V2) |<->|  node: RPC, handlers | <- P2P -> other nodes
        |  (CryptoPegVault*) |   | or          |   |  vault, RAM, LMDB    |
        |                    |<->| relayer and |<->|                      |
        +--------------------+   | cosigners V3|   +----------------------+
                                 +-------------+

| component | state | operations | talks to |
|---|---|---|---|
| Collateral vault (`src/vault.cpp`, `include/types.hpp`) | collateral, circulating supply, fee pool, two fee rates | deposit, request_withdrawal, claim_fees, set_fee_bps, restore_state | owned by the node |
| Ledger database (`src/blockchain_db.cpp`) | LMDB tables: blocks, outputs, key images, deposit events, vault; a cached top height | commit_block, rollback_top_block, save_vault_state, load_* | the node |
| Node (`src/node.cpp`) | RAM mirror of outputs, key images and vault; authorized validators; node_mutex_ | buy_shielded, transfer_shielded, submit_pre_signed_transaction, withdraw_shielded, claim_treasury_fees, apply_remote_block (fork choice, ReorgGuard), start and recovery | vault, database, RPC, P2P |
| Blocks and quorum (`src/block.cpp`, `include/serialization.hpp`) | header, operations, validator signatures | serialize and deserialize, merkle root, sign, add_quorum_signature, verify_quorum | node, P2P, LMDB |
| RPC server (`src/rpc_server.cpp`) | HTTP threads | deposit, transfer, withdraw, claim, scan, decoys, chain queries, p2p endpoints | node, scripts, wallets |
| P2P (`src/p2p.cpp`) | peer list, is_syncing_ flag | handshake and peer exchange, broadcast, pull and push synchronisation | other nodes over HTTP |
| Vault contracts (`contracts/src`) | USDT balance, fees, executed orders, pause; V3: finalized checkpoint, validators | deposit, withdraw, claimTreasuryFees, pause; V3: finalizeCheckpoint | L2 |
| Oracle listener (`contracts/scripts/oracle_listener.js`) | two cursors, processed and quarantined ids, a state file | two pollers: mint deposits, pay burns | contract V1/V2, node |
| V3 cosigners (`validator_cosigner_v3.js`) | none | check a checkpoint or a withdrawal against their node and sign | contract V3, their node |
| V3 relayer (`withdrawal_relayer_v3.js`) | lastWithdrawalHeight in a file | tick: finalize a checkpoint, pay finalized burns | contract V3, cosigners, its node |
| Wallet (`src/wallet_manager.cpp`, `wallet_cli.cpp`) | keys, scanned outputs, wallet files | create, restore, open, save, close, sync, transfer, withdraw | RPC |
| Browser bindings (`bindings/wasm_bindings.cpp`, `public/`) | none | make outputs, scan, derive keys, hash and sign a transaction | cryptography, RPC |
| Cryptography (`ring_signature`, `stealth`, `pedersen`) | KeyImageLedger: spent images | sign, verify, derive, commit | node, wallets |
| Mnemonics (`mnemonic.cpp`) | none | entropy to 24 words and back, validation | wallet |
| Tumbler (`src/tumbler.cpp`) | none | cut a net amount into weighted random fragments, each with a route of hops | node |

What is hard in each, and what makes it correct:

* **Vault.** Fees round down in integer arithmetic and totals are near nothing or near the width of
  uint64; the invariant check at the end of each operation throws *after* the assignments. Correct when
  no order of operations makes or loses value, claims never eat into the holders' collateral, and the
  check never fires.
* **Database and node.** Each handler runs under node_mutex_, but a reorganisation is two LMDB
  transactions with a C++ guard around the second, the deposit endpoint looks before it takes the
  mutex, tables are updated incrementally and undone incrementally, RAM and a cached height mirror the
  disk, and writes fail. Correct when outputs are spent once and events minted once on the stored
  chain, tables say what the blocks say, RAM agrees with disk, the vault is the one the chain implies,
  and only the tip ever gives way.
* **Blocks.** The readers accept a deposit or a withdrawal whose last fields are missing; the merkle
  root repeats an odd leaf; certificates arrive in any order and may name a signer twice. Correct when
  a block is read as it was written or seen to be another, a root belongs to one list of operations, and
  a certificate is the set of its signers.
* **P2P.** Gossip, pull and push race on several threads behind one flag, mining broadcasts under the
  mutex, posts are sent once and get lost, lists of peers die with the process. Correct when a block has
  one past on every node, nodes on one branch end with one chain, and the flag is always released.
* **Oracle.** Two pollers interleave at every await on common cursors and one file; answers get lost;
  either chain drops tips; the process stops between any two steps. Correct when nothing is minted
  without a deposit or paid without a burn, nothing is done twice, and nothing is passed over.
* **Bridge V3.** Cosigners read contract and node in several awaits while both move; the relayer
  restarts with transactions pending. Correct when all that is finalized and paid is one history, no
  order is paid twice or passed over, and finality goes on while a quorum is on one branch.
* **Wallet.** The node cannot tell a wallet which of its outputs are spent; refusal, timeout and lost
  answer look alike and are retried; identities are exchanged in one program while syncs fail. Correct
  when listings are of the loaded identity, value is conserved and a retry does not pay twice.
* **Cryptography, mnemonics, tumbler.** Sender, scanner and spender compute one secret from different
  keys; key images are stored multiplied by the cofactor; words of 11 bits straddle bytes; shares round
  down; a page rounds typed amounts one by one. Correct when the phrase gives the keys back, what is
  received can be spent, exactly once and whole, and a payout adds up.

`PROJECT.json` lists the hazards one by one with their lines.

## 2. The modules

    VaultOps <- LedgerOps <- NodeLedger ... implements CanonicalChain
       ^  ^                    ^    ^
    Vault  |          MCNodeLedger  NodeLedgerProofs
     ^  ^  VaultOpsProofs
     |  VaultProofs                 VaultOps <- ContractOps <- OracleBridge <- MCOracleBridge, OracleProofs
    MCVault                                              ^---- BridgeV3     <- MCBridgeV3, BridgeV3Proofs

    P2PNetwork <- MCP2P, P2PProofs         Wallet <- MCWallet, WalletProofs
    BlockFormat <- BlockWire <- MCBlock

    ShieldedCrypto <- BrowserWallet \
                          Mnemonic  <- ShieldedFlow <- MCShielded, ShieldedFlowProofs
                          Tumbler   /

| module | models | what its state and actions are in the code |
|---|---|---|
| `VaultOps` | `vault.cpp`, the checked arithmetic of `types.hpp` | operators on a vault's three totals: a guard (`DepositOK`: every early return and throw) and a result (`AfterDeposit`) per operation. Width is `AmountMax`; arithmetic that would not fit is refused, as `safe_add_amount` does |
| `Vault` | one vault and the money around it | an action per method; `users` and `treasury` close the system, so that conservation can be stated |
| `LedgerOps` | `blockchain_db.cpp`, `block.cpp`, validation in `apply_remote_block` | the tables as sets, `Committed` and `RolledBack` as functions of the disk, `Load`, `Replay` (the vault a rollback recomputes), `ValidBlock`, the fork choice `Preferred` |
| `NodeLedger` | `node.cpp`, the mutating endpoints of `rpc_server.cpp` | `disk`, `mem` (the RAM mirror), `top` (the cached height), `reorg` (the stack of a handler inside a reorganisation), `rpc` (what a deposit thread found before it takes the mutex). One action per handler; the deposit endpoint is two, a reorganisation is `BeginReorg` and then `FinishReorg` or `AbandonReorg` (the guard); `Crash`, `GuardTerminates`, and a disk fault at every commit |
| `CanonicalChain` | what a node promises | a chain that grows by acceptable blocks and whose tip gives way only to a better one, or returns |
| `BlockFormat` | the writers and readers of `block.cpp` and `serialization.hpp`, merkle root, quorum certificates | a block as a sequence of words; a writer and a reader per part with its limits and its optional end; `SignHeader`, `AddQuorumSignature`, `VerifyQuorum` |
| `BlockWire` | the life of a block between two nodes | operations are added, the block is sealed, cosigned at two nodes in any order, published and read, whole or cut at any word |
| `P2PNetwork` | `p2p.cpp`, the p2p endpoints, the order of start-up in `main.cpp` | per node its chain, peers, `listening`, `busy` (broadcasting under node_mutex_) and the synchronisation that holds `is_syncing_`; `posts` in flight. A request and its answer are a step, a batch is applied block by block |
| `ContractOps` | books of `CryptoPegVaultV2.sol` and `V3.sol` | balance, fees, executed orders, pause |
| `OracleBridge` | V2 contract, node and `oracle_listener.js` | L2 as a sequence of blocks with the books after each (a reorganisation restores the books and returns the transactions to the mempool), the chain as what each block mints and burns, the script's cursors in RAM and in the file, a program counter per poller |
| `BridgeV3` | V3 contract, cosigners, relayer, their nodes | a tree of blocks and a tip per node; each await of the relayer's tick and of a cosigner's request is a step |
| `Wallet` | `wallet_manager.cpp`, the commands of `wallet_cli.cpp`, the wallet and payment endpoints | per program the identity loaded, the list of outputs, the request it waits for; the node as its pool, spent keys and payments; wallet files |
| `ShieldedCrypto` | `stealth.cpp`, `ring_signature.cpp`, `pedersen.cpp` | operators: outputs, scan and derivation, sign and verify round the ring, burn proofs, commitments |
| `BrowserWallet` | `wasm_bindings.cpp`, hexadecimal and amounts in `types.hpp`, parsing of a pushed transaction | operators on texts: a key's text or one that is none; a binding gives a set of results, empty when it throws |
| `Mnemonic`, `Tumbler` | `mnemonic.cpp`, `tumbler.cpp` | operators: words of a bit stream and back; shares, routes and the check of a plan |
| `ShieldedFlow` | the order in which wallet, page and node call them | from the phrase to the payout: a wallet, an output, an offer signed by the node, by a page or as a burn, the node's checks, its key images in RAM and on disk, the plan |

Modelling choices a reader should know:

* **A handler is a step** because it holds `node_mutex_` from its first to its last line. The places where
  that is not so are modelled as the separate steps they are: the deposit endpoint
  (`rpc_server.cpp:404` against `:471`) and the two LMDB commits of a reorganisation, between which a
  crash or a reader outside the mutex can fall.
* **A deposit that throws.** `buy_shielded` raises the vault in RAM (node.cpp:140) and then calls
  `create_one_time_output` (:155), which throws for keys that are no curve points (stealth.cpp:62, :82);
  the vault is put back only by the exits at :198 and :209. `NoPoints` are the events of such
  recipients, `DepositThrows` is that exit, `MaxThrows` bounds how often a run takes it. The deposit
  endpoint lets it through: it asks of the keys that they are 32 bytes (rpc_server.cpp:369).
* **One operation per block** in `NodeLedger`, as every handler mines; the code's own peers send no other
  blocks. `BlockWire` has blocks of up to three.
* **Amounts are few and chosen**: deposits of 400 mint outputs of 398 at 50 bps, equal so that one can
  be the decoy of the other; the fee is 2 on 400, 1 on 398, 0 on 198.
* **Cryptography in the node's models** is what its verifiers promise: an output's key names it, its key
  image is one-to-one with it, a ring signature shows that one member is spent, a certificate names its
  signers. Hashes are numbers, because the fork choice compares them. `ShieldedFlow` checks what is
  promised, in the integers modulo a small prime with any function as hash: the algebra of honest
  signers and verifiers, and nothing about how hard it is to cheat. `Group` asks of the modulus what
  ristretto255 has, a prime order. In so small a group scalars are often zero, where libsodium fails;
  `Degenerate` says when.
* **A wallet's scan** goes through the node's pool in its order and adds what the view key recognizes.
  `Owned` is that loop as a recursive function of the number of outputs looked at. An output is named by
  its place in `Funded`, the order in which the node first had them.
* **Words of the wire** stand for 4 bytes (a u64 is two, a key eight), so that a cut can fall inside an
  amount or a key; hashes and signatures are ideal: a hash is the value hashed.
* **A disk fault** is a write transaction that fails before its commit and leaves the disk alone.
  `rollback_top_block` lowers the cached height before it commits, and the model does so too.
* **Authorized validators** are the configured keys that parse (`Authorized`); the runs give a fourth
  that does not.
* **Threshold is 1** in the node's runs: `set_quorum_threshold` is called nowhere in `main.cpp`. With two or
  more, the deposit endpoint cannot mint (`OwnQuorumOK`, node.cpp:192), since a node signs with one key.
* **Fork choice** compares quorums, then hashes. Peers' blocks are signed by one or two validators.
* **Network**: a node is its chain, since nodes with one history accept the same operations; a block is
  its hash, height and parent.
* **Oracle**: a block of the private chain is cut to what the script sees, its mints and burns.
  `ImplementsCanonicalChain`, checked of `NodeLedger`, is what lets `TipReplaced` be the
  only way back. `BadOrders` are burns to an address `ethers` refuses: the node checks the form of a
  destination only. `Refused` are the deposits no node ever takes: above the limit, or for keys that are
  no curve points. The batch of events a poll is busy with is a set, out of which `Foremost` takes them
  in the order of their blocks, as the script's sort does; two of one block come in either order.
* **Bridge V3**: the tree of blocks is a constant, `Parent` and `HeightOf` are fields of its headers, and the
  chain below a block (`PathTo`) is the least set that holds it and the parents of its members, which can
  be reasoned about where a recursion cannot. The relayer's requests are pure functions of what it read. Deposits are the backing
  the contract starts with. `NodePrefixes` says whether the node's hashes carry the `0x` of a bytes32.
  They do not: `bridge_v3_live` has FALSE, and shows that the bridge then stops short of its first
  checkpoint (section 6). What contract, cosigners and relayer do once they can read a hash is worth
  knowing before that is repaired: `bridge_v3` has TRUE, what the scripts expect, and the theorems hold
  for both. `BadOrders` are orders for which the relayer's tick fails (withdrawal_relayer_v3.js:134). `NodeResyncs`, a node whose data is lost and
  downloaded again from another, is the only way to another branch once a fork is deeper than the tip, since `apply_remote_block` replaces the
  tip only.

## 3. The runs

| run | question | bounds, and why they are enough | states |
|---|---|---|---|
| `vault` | Is a vault solvent, backed and value-conserving in every order of operations? | amounts 0, 1, at and next to the rounding boundary and above the limit; supply above the width; rates 50, 1000 and above the whole | all |
| `node_peers` | Do chain, tables, RAM, cached height, vault and supply agree through every sequence of handlers, peers' blocks and reorganisations, and is this the abstract chain? | height 4, three events, of which a peer mints one, a wallet one, and the third comes to the endpoint and throws; three more outputs, two hashes: a reorganisation at each height, with every kind of displaced and winning block; peers at the node's and at other rates | 1 009 000 |
| `node_service` | What survives *everything*: deposit threads, claims, disk faults, crashes at any point, and rates at which the replay of a rollback can throw? | height 3; one thread, one claim, fault, crash and throw; an event above the limit and one of keys that are no points; 0 bps on deposits, 50 on withdrawals, while the replay uses 50/50 | 1 794 000 |
| `deposit_race` | Is the deposit endpoint idempotent? (violated) | two threads | - |
| `block` | Is a block read as it was written, and do root and certificate say what it holds and who signed? | up to three of six operations (transfers, deposits of the same money to two recipients, a withdrawal with and one without change), three validators, threshold 2, a cut at every word | 43 000 |
| `p2p` | Has a block one past, do nodes on one branch end with one chain, and does every synchronisation let go of its flag? | two nodes that mine on competing tips up to height 3, answers of one block, so that a batch is followed by another; one lost request, one restart at any point; one of them is only introduced by hand | 138 000 |
| `oracle` | Do the books of both chains agree, and is nothing minted or paid from nothing? | two deposits, one above the node's limit, one burn; one reorganisation on either side, one lost request or answer, one restart, one pause, a claim by the owner | 1 454 000 |
| `oracle_live` | Does every deposit and burn get through? | two deposits, one of them refused by every node; three burns: of 199, too little for a fee, of 200, the least with one, and one to a bad address; one failure, one restart; chains that do not go back | 74 000 |
| `bridge_v3` | Is what is finalized and paid one history, no order paid twice or passed over? | three cosigners, threshold 2, two branches of three blocks; either four moves and two resynchronisations between any reads, or a relayer whose node starts empty, two restarts at any await and one failing cosigner, state file kept or lost; or one failing cosigner and a pause. One of three orders is one the relayer refuses | 2 702 000 |
| `bridge_v3_live` | Does finality go on? (violated) | one move, restart, failure and pause; hashes without `0x` | - |
| `wallet` | Are listings of the loaded identity, is value conserved, and what can be paid twice? | two programs, two identities, one file; two orders and two attempts, one reordering of the node's pool | 899 000 |
| `shielded` | Does a phrase give its wallet back, is an output found and spent once and whole, does a payout add up? | a group of five points; five bytes of two bits and four words of three, which straddle bytes as 8 and 11 do; rings of up to three, amounts on both sides of the number of fragments; typed tenths that round up | 183 000 |

Confirmations are 1 on both sides in the small instances, with as many reorganisations of L2 as there
are confirmations: deeper confirmations lengthen the chains and add no case, since what matters is
whether a block acted upon may still go away.

The properties, by what they protect:

* *Nothing happens twice*: `NoDoubleSpend`, `EventMintedOnce`, `SpentOnceAndWhole`,
  `PaidTwiceOnlyAfterReload`.
* *Derived state is what the blocks say*: `IndexesMatchChain`, `MirrorMatchesDisk`, `VaultMatchesChain`,
  `SupplyMatchesOutputs`, `RingsAreGrounded`, `ListOfIdentity`.
* *Reorganisations*: `ImplementsCanonicalChain`; and the agreement of the two validators in
  `node.cpp`, the local handlers' checks and `apply_remote_block`: `MinedBlocksAcceptable`.
* *Blocks and networks*: `RoundTrip`, `CutIsNoOtherBlock`, `RootCommits`, `CertificateIsItsSigners`,
  `SharedPast`, `NodesCatchUp`, `SyncEnds`.
* *Money*: `AlwaysSolvent`, `FullyBacked`, `ValueConserved` (of the vault and of the wallets),
  `NoRoundTripProfits`, `VaultsSolvent`, `BackedAcrossChains`, `NothingFromNothing`, `PayoutArrives`,
  `BalanceIsConservation`.
* *Keys*: `PhraseIsFaithful`, `OwnerCanSpend`, `SignaturesVerify`.
* *Nothing is forgotten*: `NoOrderPassed`, and the liveness properties `DepositsMinted`,
  `WithdrawalsPaid`, and `BuriedIsFinalized`, which is violated.
* *One history*: `OneHistory`.

`NoOrderPassed` excepts a relayer whose node was given another chain, and `OneHistory` says what holds
while no quorum of the cosigners' nodes was, and while any two quorums share one that was not;
`DepositsMinted` excepts deposits that stand behind one every node refuses, and `VaultMatchesChain` is
checked without claims: section 6 says what happens otherwise.

`MirrorMatchesDisk`, `VaultMatchesChain` and `SupplyMatchesOutputs` say each two things. Always, a deposit
that threw included: keys, outputs and heights agree exactly, and no total of a vault is *below* what it
is compared with (`Covers`) - what is minted is always counted and backed. And exactly, while no deposit has
thrown (`throws = 0`): nothing else, no reorganisation, refusal or reload, moves RAM, vault or supply away
from the blocks. The first part holds through whatever carries the surplus on: the next block stores it, a
rollback recomputes the vault without it.

The node's runs permute the keys of new outputs and `wallet` its programs, under which nothing they
check differs; neither checks liveness. Deadlock is an error but in `deposit_race`, `oracle` and
`oracle_live`, which end when their bounds are used up, and in `block`, which ends when a block has
been read. `TypeOK` is checked in `node_peers`; those of the other modules are stated there. Those of `Vault`,
`NodeLedger`, `P2PNetwork`, `BridgeV3` and `Wallet` are proved.

Every property of a passing run has a mutant in `PROJECT.json`: the definition of the code it is about
with a plausible fault (the operators commented *Fault*), under which TLC finds the property violated.
The run under a mutant is the same, so a property that no state exercises would be noticed.

## 4. Fairness

Safety runs assume none. `oracle_live` assumes that each poller goes on: `setInterval` calls it again
for ever, and a request is answered or times out (weak fairness of `Inbound` and `Outbound`); and that
L2 includes what it was sent (`L2Executes`). Lost requests, restarts and reorganisations are never
fair. `bridge_v3_live` assumes the same of the relayer's interval, of each cosigner's HTTP server and of
L2, and that a pause ends. Its property is conditional on `<>[]QuorumFollows`: in the end a quorum of
cosigners' nodes has buried what the relayer's node has. A minority branch is not to be finalized, and
the counterexample is not one: it has the quorum, the fairness, and a tick that fails at every hash.
That finalized orders are paid is not stated, since it is not so: an order the relayer refuses, and a
checkpoint the contract refuses, throw out of `tick` before what comes after
(withdrawal_relayer_v3.js:134, :170-181).

`p2p` assumes that a broadcast ends (its requests are answered or time out: `EndBroadcast`), that a
synchronisation goes on (`Synchronise`: a thread runs it), that a process that was started comes to
listen (`Listen`; docker-compose.yml says `restart: always`), and that each node greets its seeds again and
again (the background loop of P2PManager). It assumes nothing of gossip, which is sent once, and nothing
of peers learned from others, which a restart forgets: that nodes catch up does not depend on them.
`NodesCatchUp` is of nodes on one branch; `ForksResolved`, of all nodes, is false (section 6).

## 5. The proofs

`tlapm` checks every leaf; nothing is assumed beyond the named assumptions on constants, which TLC
evaluates in the runs (`VaultLimits`, `VaultInputs`, `LedgerConstants`, `NodeConstants`,
`NetworkConstants`, `BridgeConstants`, `BridgeV3Constants`, `WalletConstants`, `Group`, `FlowConstants`).
What a theorem supposes beyond them stands in its statement. `PROJECT.json` lists the theorems; this is how they are argued.

| property | theorem | supposes |
|---|---|---|
| `AlwaysSolvent`, `FullyBacked`, `ValueConserved`, `NoRoundTripProfits` | `SolventAlways`, `BackedAlways`, `ConservedAlways`, `RoundTripsCost` | - |
| `NoDoubleSpend` | `NeverSpentTwice` | - |
| `EventMintedOnce` | `NeverMintedTwice` | no deposit threads |
| `TypeOK`, `VaultsSolvent` of the node | `TypesKept`, `NodeVaultsSolvent` | - |
| `IndexesMatchChain`, `RingsAreGrounded` | `TablesFollowChain`, `RingsStayGrounded` | `[]Level`, `[]EventMintedOnce` |
| `VaultMatchesChain` | `VaultFollowsChain` | default rates, `[]Level`; until a deposit throws |
| `SupplyMatchesOutputs` | `SupplyFollowsOutputs` | default rates, `[]Level`, `[]EventMintedOnce`; until a deposit throws |
| `MirrorMatchesDisk` | `MirrorFollowsDisk` | default rates, no faults, `[]EventMintedOnce`; until a deposit throws |
| these three, always | `ExactWithoutEndpoint` | no deposit threads, default rates, no faults |
| `MinedBlocksAcceptable` | `MinedBlocksAccepted` | no deposit threads, default rates, own key authorized, no transfer of zero, `[]Level` |
| `ImplementsCanonicalChain` | `NodeImplementsCanonicalChain` | no deposit threads, default rates, no faults, no crashes |
| `SharedPast` | `BlocksFixTheirPast` | - |
| `OneHistory`, `NoOrderPassed` | `OnePaidHistory`, `CursorPassesNothing` | - (the conditions are in the properties) |
| `NothingFromNothing`, `BackedAcrossChains` | `NothingIsMadeUp`, `ChainsBackEachOther` | at least one confirmation of a burn |
| `ListOfIdentity`, `ValueConserved` of the wallets | `ListsAreOfIdentity`, `PaymentsConserveValue` | - |
| `PaidTwiceOnlyAfterReload` | `PaidTwiceNeedsReload` | - (the reload is in the property) |
| `OwnerCanSpend`, `SignaturesVerify`, `SpentOnceAndWhole` | `OwnersCanSpend`, `SignedVerifies`, `OutputsAreSpentOnce` | hashes are scalars |
| `PayoutArrives`, `BalanceIsConservation` | `PayoutsArrive`, `CommitmentsBalance` | hashes are scalars |

**The vault** (`VaultOpsProofs`, `VaultProofs`), for every width of an amount, limit, supply, set of
amounts and rate. `AlwaysSolvent` is not inductive: `audit_solvency` adds in uint64 arithmetic, which
wraps, so a wrong sum may look right. The invariant is `Books`: the totals are in the width, the
equation holds *without* wrapping (`Balanced`), and value is conserved. `FeeIsPart` (a fee lies between 0
and its amount) and one lemma per operation do the arithmetic; from `Books` follow

* `TypeCorrect`, `SolventAlways` (so the exceptions after the assignments are dead code),
  `BackedAlways`, `ConservedAlways`, and the action property `RoundTripsCost`.

**The node** (`NodeLedgerProofs`, part one), for every set of keys, events, hashes, validators and signatures, every
threshold and fee rate, any number of deposit threads, claims, faults and crashes:

* `NeverSpentTwice`: no output is spent twice on the stored chain.
* `NeverMintedTwice`: without deposit threads no event is minted twice - so the race of `deposit_race` is
  the only way it can happen.
* `OnceInvariant`: the inductive invariant `Once` of both. `NoDoubleSpend` alone is not inductive, since
  blocks are admitted against the table of key images: the table must cover the chain (`Indexed`); for a
  rollback to keep that, blocks must be apart in what they spend (`OnceOnly`); and for ReorgGuard to put
  the old tip back, what the handler holds on its stack must be apart from the chain (`Reversible`).
  Nothing assumes that the cached height agrees with the disk - after a failed rollback it does not - only
  that it is no greater (`ChainTyped`). One lemma per handler (`DepositKeeps` ... `RestartKeeps`), over
  shared ones for a commit (`CommitKeeps`) and a rollback (`RollbackKeeps`).

**What a node stores** (`NodeLedgerProofs`, part two), for the same constants. `Kept` is what needs no hypothesis: the
types, and a solvent vault on disk, in RAM and in every replay. Everything else a node derives
from its blocks can go wrong in ways section 6 shows, and the hypotheses name them one by one:

* `[]Level` - the cached height is the disk's. `rollback_top_block` lowers it before it commits
  (blockchain_db.cpp:600); after a rollback that fails the next block overwrites a tip whose outputs stay in
  the tables. Where no write fails and the rates are the replay's it is no hypothesis but a lemma
  (`LevelKept`), and `TablesAlwaysFollow`, `VaultExactlyReplayed`, `SupplyAlwaysFollows` and
  `MinedBlocksAlwaysAccepted` do without.
* `[]EventMintedOnce` - the deposit endpoint looks for the event before it takes the mutex
  (rpc_server.cpp:404), so two blocks may hold one event, and a rollback of one unmarks it. The theorems
  hold of a node that serves the endpoint, in every behaviour in which that does not happen.
* *until a deposit throws* - `NoneThrown => ...`: node.cpp:155 leaves the surplus in the vault.
* *no deposit threads* (`RpcThreads = {}`) - nothing of the two can happen: no event is minted twice
  (`NeverMintedTwice`) and nothing throws (`NeverThrows`), so `ExactWithoutEndpoint`, the refinement and
  `MinedBlocksAccepted` have neither condition.
* *default rates* (`DefaultRates`) - a rollback replays at 50 bps (blockchain_db.cpp:611) and knows nothing
  of claims, which are in no block.

Under them the invariants are `Settled` (the tables are what the blocks say, blocks are apart in keys and
events, an input or a decoy of a block is made below it, and what the handler of a reorganisation holds
could go back) and `Exact` (the height is level and the vault is the one its chain replays to). Neither is
inductive alone: that a rollback takes from the tables just what its block put there needs that no other
block put it there as well. `Settled` is kept by a deposit that throws, which touches the vault only; `Exact`
is not, so its invariant is `NoneThrown => Exact` (`ExactYet`, `SettledYet`, `WorthYet`), inductive because
`throws` never falls (`Counted`).

**The chain a node promises** (`NodeLedgerProofs`, part three). `SupplyMatchesOutputs` is a sum over a growing set:
`Valued` adds that every output on the chain has one value and that inputs and outputs of each block
balance, and follows the sums through every kind of block, transfer fees included. The refinement maps
disk and stack to the abstract chain. `StepKinds` sorts the node's steps: the chain stays, grows by an
acceptable block (`GrowsAppends`, which takes `Settled`, `Exact` and `Valued` to say that what the handler
checked against its tables holds of the chain), gives up its tip to a handler that holds it, or gets back
that tip or one that is preferred. A crash between the two commits or a rollback that fails leaves a chain
CanonicalChain does not have, hence the hypotheses. `MinedBlocksAccepted` says that the two validators agree:
what a handler checks of an operation before it mines it is what `apply_remote_block` asks of the block
(`DepositWelcome`, `TransferWelcome`, `WithdrawWelcome`, `StepWelcome`). That an amount sent fits the width
has to be argued from the vault: an unspent output is part of the supply, which fits (`UnspentFits`). The
hypotheses on the node's key and on transfers of zero are where the two do differ (node.cpp:935, section 6).

**The network** (`P2PProofs`), for every set of nodes, seeds and introductions, every set of hashes and
miners, every quorum of a block, every limit of an answer, height and number of losses and restarts:

* `NetworkTypeCorrect`: chains, posts and synchronisations are well formed.
* `BlocksFixTheirPast`: two nodes that have one block have one history below it (`SharedPast`). It is not
  inductive. A block joins a chain where its parent's hash is the tip (`Linked`), but that the parent is
  then the same block in both chains takes more: a hash is of one block wherever it is, in a chain, on
  its way or in a batch (`OneBlock`). Mining keeps that because a new block takes a hash nobody holds.
  A push reads blocks by height from a chain that goes on meanwhile, and must find one there (`Inside`).
  The invariant `Ancestry` is the conjunction. `Placed` does the one hard step, a block put anywhere its
  parent stands; `Adopted` applies it to both ways in which a node takes a block (tip replaced or
  extended); one lemma per action says that it brings no new hash (`...Preserves`).

**Bridge V3** (`BridgeV3Proofs`), for every tree of blocks, set of orders, cosigners, majority and
confirmations, with and without `0x`. `Shape` says that paths are paths: a block's is its parent's and
itself, heights name the blocks on it. A cosigner's awaits are what is hard, since its node and the
contract move between any two reads. What survives them is that a block *under* the tip of a node that is
given no other chain stays there (`Buried`, `NodesKeep`). `OneHistoryInv` says of each stage of a cosigner what
is still so of what it read (`AskedCheckpoint`, `AskedWithdrawal`), of each transaction on its way what its
signers vouch for (`Sent`), and of each checkpoint that a quorum has it buried (`Finality`). Two quorums
meet, so a checkpoint is signed by somebody who has the last one buried, under the new one; and an
order beside a checkpoint is declined by the quorum that holds it, however long ago it was asked. `CursorInv` ties the
relayer's tick to its cursor: orders of a block that was scanned are paid, or still to do in this tick.

**The oracle** (`OracleProofs`), for every set of events and orders, limits, confirmations and numbers of
reorganisations, lost answers, restarts, pauses and claims. `NothingFromNothing` is about what either chain
still says after it dropped its tip, so the invariant `Grounded` is about depth: what the
private chain mints, or a poll holds between two awaits, was deposited in a block L2 no longer gives up
(`Deep`: in all L2 goes back by at most as many blocks as there are confirmations, `BridgeConstants`), and
what is paid, sent to L2's mempool or held by a poll was burned below the tip, which is all that is replaced
(`Final`). `L2StepMoves` and `ChainStepMoves` say
once what any step at all does to either chain, so that the invariant of one poller need not know the
other. `Accounted` adds the books after every block of L2, the ones a reorganisation may restore included, and
adds up by events and orders, whose sets are apart. With no confirmation of burns the script would pay
one that its node then replaces; its default is six (oracle_listener.js:14).

**The wallets** (`WalletProofs`), for any number of programs, identities, outputs, amounts, orders, attempts
and reorderings of the pool. The invariant `Inv` is a conjunction, and each part needs others:

* `Lists` - whatever a program lists is in the pool and belongs to the identity it has loaded now, also
  after a sync that failed (`ListsAreOfIdentity`).
* `Orderly` - within one epoch (between two reorderings) the pool only grows at its end, so a list is a
  beginning of what a scan would give now, and of two lists of one identity one begins with the other
  (the `Owned` lemmas, by induction over the outputs scanned). Therefore the first output that covers an
  amount is the same in each of them, whichever program looks, and a retry chooses what the first attempt
  chose. `PaidOnce`, no output spent by two payments, does the rest: `PaidTwiceNeedsReload`.
* `Keyed` - the pool names each output once, new ones by keys not used before. What is spent and unspent
  can then be added up over sets, and a payment moves one output from one to the other and adds its
  change: `PaymentsConserveValue`.

**Keys, signatures and payouts** (`ShieldedFlowProofs`), for any group of prime order, any ring, decoys, draws,
amounts and weights, and any hash whose values are scalars (`HashesToScalars`, which cannot be a constant's
assumption TLC would evaluate, since it is about every argument):

* `OwnersCanSpend`: sender, scanner and spender multiply different keys into one shared secret (`OwnerFinds`).
* `SignedVerifies`: the signer goes round the ring from behind the real key, the verifier from its
  beginning. `StepOf` says at which of the signer's steps a member is visited; `Steps` shows that this is a
  rotation, so that each of the verifier's challenges is the signer's of that step (`VerifySteps`, by
  induction round the ring), and the response of the real key closes the gap between the last and the
  first (`ResponseCloses`, `ClosedRing`). `Degenerate` excepts the zero scalars at which libsodium fails.
  Texts a page is given are read back as what was written (`TextsRead`, `ParsedBack`).
* `OutputsAreSpentOnce`: key images are stored and compared multiplied by the cofactor, which is no zero of
  the group. `Inv` ties every offer to the one image of the output, whichever ring it comes in (`OfferFine`),
  and RAM and LMDB to the image of what is spent, across restarts (`LedgerFine`).
* `PayoutsArrive`: shares round down and the last takes the rest; the sum of the shares before it is no
  more than the net amount (`ShareIsPart`, `PartsAddUp`). Each route is a chain of hops (`RouteArrives`).
* `CommitmentsBalance`: blinding terms cancel, so the equation of the check says that the difference of
  the amounts times H is zero (`EquationIsAmounts`); H has no multiple below the order that is, and the
  amounts are smaller than it. The node's own group is larger than any amount.

**Induction.** The library's induction theorems take an operator, which the provers cannot instantiate, but
induction over a *set* can be stated without one: `SetInduction` (`VaultOpsProofs`), by well-founded
recursion on the naturals, is behind the sums (`Sums...`, `SumBy...`) and the replay of a chain
(`ReplaySteps`). So recursive functions over the chain, as `Replay` is, over the pool (`Owned`) and round the
ring can be proved about; the folds of the community modules over sequences cannot, since the provers
do not see through them.

**Only model-checked**:

* All liveness (`NodesCatchUp`, `SyncEnds`, `DepositsMinted`, `WithdrawalsPaid`): temporal reasoning under
  fairness, and ENABLED, are beyond the prover.
* `PhraseIsFaithful`: a phrase packs bytes into words bit by bit, with powers of two of a variable width;
  the backends leave exponentiation uninterpreted, and what a bit stream is for every length is an
  induction over data.
* `RoundTrip`, `CutIsNoOtherBlock`, `RootCommits`, `CertificateIsItsSigners` of `BlockWire`: writers and readers are
  folds of operators over sequences of parts.

## 6. Where code and words disagree

Two runs are expected to end in a violation:

* `deposit_race`. The deposit endpoint promises that a processed event is refused ("idempotencia
  garantizada", rpc_server.cpp:406), but asks outside `node_mutex_`: two requests for one event both mint.
* `bridge_v3_live`. "A checkpoint from fork A is finalized on Arbitrum with M-of-N signatures"
  (docs/BRIDGE_V3_FINALITY.md:38): none ever is. The node writes hashes without `0x` (`to_hex`, types.hpp:77),
  the relayer wants `isHexString(blockHash, 32)` (withdrawal_relayer_v3.js:96), which is false without it, and
  each tick fails. The repository's tests only parse these scripts.

More that the models show when a bound is changed; start from the cfg of the run named and keep one
property. The first five, and the one on `OneHistory`, contradict what the repository says of itself:

| change | property violated | what happens |
|---|---|---|
| `node_peers`, `DepositBps = WithdrawBps = 0`, `PeerBps = {0}`, `WithdrawAmounts = {400}` (or `MaxFaults = 1`) | `MirrorMatchesDisk` | "restaurar deterministamente el estado en memoria desde disco ante cualquier fallo" (node.cpp:668). `rollback_top_block` lowers the cached height before its replay and commit, and its failure returns before ReorgGuard exists: the cache stays one below the disk. A chain made without fees makes the replay throw; with a failing disk the next block then overwrites a tip that may be spent from (`RingsAreGrounded`) |
| `oracle_live`, `MaxReorgs = 1`, `Spec` | `DepositsNotSkipped` | "para no omitir depósitos" (oracle_listener.js:242): a deposit counts as processed without confirmations on the private chain (withdrawals have them); a replaced tip loses it, and the cursor is past |
| `p2p`, nodes n1, n2, n3, `Seeds <- Line`, `MinedBy <- OneEach`, no introductions, losses or restarts, `GossipSpec` | `ForksResolved` | "resolución canónica de bifurcaciones" (node.cpp:580): nodes of one height on different tips exchange nothing at the handshake, and a fork deeper than the tip is never left |
| `wallet` | `BalanceIsUnspent` | "SALDO Y SALIDAS NO GASTADAS" (wallet_cli.cpp:425): the node scans with the view key and returns spent outputs too |
| `node_peers`, `throws = 0 =>` left out | `MirrorMatchesDisk`, `VaultMatchesChain`, `SupplyMatchesOutputs` | "never leave a successful-looking mint only in RAM" (node.cpp:208): a deposit for keys that are no curve points raises collateral, supply and fees in RAM (:140), then throws (:155) and is answered with 400. The next block stores the totals, whose treasury share can be claimed; the oracle asks again at each poll and each time adds as much |
| `node_peers`, `DepositBps`, `WithdrawBps` and `PeerBps` 100 | `VaultMatchesChain` | the rollback replays at 50 bps (blockchain_db.cpp:611), whatever the node was started with |
| `node_peers`, `MaxClaims = 1` | `VaultMatchesChain` | claims are in no block: after a reorganisation paid fees are in the pool again |
| `node_peers`, `SendAmounts = {0}`, `PeerSignatures <- NoSignatures` | `MinedBlocksAcceptable` | a transfer of zero is mined here (node.cpp:275) and refused by every peer (node.cpp:935) |
| `oracle_live`, `HeldUp(e)` left out | `DepositsMinted` | the contract has no maximum and asks of keys only that they are not zero, the node refuses for ever, the cursor stays in front, and deposits behind it wait (oracle_listener.js:323) |
| `oracle_live`, `MaxL2Reorgs = 1`, `MaxPauses = 1`, `Spec` | `WithdrawalsNotSkipped` | a payment is done with one confirmation; dropped by L2 and then reverted by a pause, it is never repeated |
| `bridge_v3`, three resynchronisations, `OneHistory` without its conditions | `OneHistory` | "must not be able to release USDT from two competing histories" (docs/BRIDGE_V3_FINALITY.md:7): a cosigner keeps no record of what it signed, so a quorum whose nodes are all given another chain between two checkpoints signs both branches |
| `bridge_v3`, `NoOrderPassed` without its condition | `NoOrderPassed` | the relayer's node is downloaded anew from another branch in the middle of a scan, after the one check of the checkpoint; the cursor passes an order |

Three that follow from the code and need no run:

* "Ejecutar reorg atómico en LMDB" (node.cpp:620) is two transactions. A crash between them leaves the chain
  without its tip, since ReorgGuard dies with the process (`node_service` has that crash).
* A burn that `ethers` takes for no address (a wrong EIP-55 checksum passes rpc_server.cpp:686) makes the
  V3 relayer's tick fail at its block (withdrawal_relayer_v3.js:134), this time and every later time:
  no order of a later block is ever paid. V2's script puts such an order in quarantine and goes on.
* A spend key that is on the curve and outside the group of prime order makes an output, since
  `crypto_core_ed25519_add` asks for the curve only: the node mines the deposit, and its peers refuse the
  block, because `crypto_core_ed25519_is_valid_point` (node.cpp:822) asks for the group.

Met while modelling, and of use to a reviewer of the code:

* *Network.* A block that is already the tip is accepted again, and what is accepted is broadcast
  (rpc_server.cpp:905-919): among three connected nodes a block goes round for ever. Two nodes that
  broadcast under `node_mutex_` wait for one another until the requests time out. Two spellings of one
  URL are two peers. A signal that arrives before `listen` stops P2P, but `main` goes on to serve without
  it; when `listen` fails, `main` returns and destroys the node before the static P2PManager joins its
  thread.
* *Node.* Status, explorer and sync endpoints read height, blocks and vault under separate locks and
  may mix two states. Entries of AUTHORIZED_VALIDATOR_KEYS that do not parse are passed over; when none
  does there is no list and everybody may mine. An unset or malformed VALIDATOR_PRIVATE_KEY gives a new
  random key at every start (node.cpp:21-42).
* *Blocks.* The merkle root does not cover a withdrawal's mention of its change output or repeated
  operations; the node's checks do (node.cpp:737, 1048-1113). One block with two sets of cosignatures has
  two hashes.
* *Wallet.* A payment retried after the node reordered its pool selects another output and is made
  twice. The first output that covers an amount is chosen even when it is spent: the payment is refused
  although change would cover it. `claimfees` sends no X-Admin-Token and is always refused; `deposit`
  always refuses. `create` and `save` overwrite a wallet file of that name; `create` replaces the loaded
  keys before the file is written; a write that fails half-way is not noticed.
* *Browser.* Typed amounts are rounded one by one, so a page's outputs may not add up to its input and
  are refused; `computeCanonicalTxHash` copies 32 bytes of keys of any length.
* *Cryptography.* Nothing in the node calls the Pedersen commitments.

Two more are not changes of a bound because their outcome is not a set a model could list: `commit_block`
aborts a transaction that `mdb_txn_commit` has freed (blockchain_db.cpp:498), and `recover_state_from_db`
swallows read errors and serves from an empty mirror (node.cpp:103).

## 7. What is not modelled

* **The hardness of the cryptography**: that nobody but the owner of a key makes a signature, that
  hashes do not collide, that rings hide their signer. The models of the node assume it.
* **User interfaces**: menus, colours and displays of `wallet_cli.cpp`, the explorer and `public/app.js`,
  which loads the bindings and does not sign with them; the start of a node as a daemon.
* **Parsing**: JSON of most requests, arguments and environment, LMDB's own keys and cursors, the
  splitting of a phrase into words. Headers before version 3, whose certificate is written and not
  read.
* **`CryptoPegVault.sol` (V1) and the test token**: V2 supersedes V1 with the same operations.
* **Inside `BridgeV3`**: claims and fee rates (modelled for V2, whose books they share), more than one
  relayer; the zero hash the contract starts from is the genesis block of the model; a change of the fee
  rates against the contract's cap.
* **Inside `NodeLedger`**: a failed read; recipients' keys on the curve but outside the group of prime order
  (section 6), so that in the model what the node mints its peers take; the order of outputs in the RAM pool (a set; `Wallet` has the
  order); rows a lagging cache leaves in the tables above the new tip - the chain is what is below the
  cached height; `get_block_by_hash`, which nothing calls.
* **Inside `OracleBridge`**: the cut of the id sets to 5000 entries, changes of the fee rates while
  orders are pending, the exit at start-up when the cursor is above L2's tip.
* **Inside `P2PNetwork`**: `remove_peer` and `ping_peer`, called by nothing; a node that takes orders, since
  what a block carries is `NodeLedger`'s; `NodesCatchUp` under the gossip that a block keeps going round.
* **Inside `ShieldedFlow`**: more than one output in a wallet; delays and simulated hashes of the tumbler.
* CI scripts (`scripts/`), Docker and deployment files, `include/httplib.h` and the text of the BIP-39
  word list (a word is its index): tools, third-party code and data. The first two of the longest files
  are these, half of the repository's lines.

## 8. Plan

Done, in this order: `VaultOps`, `Vault` and their proofs; `LedgerOps`, `NodeLedger`, `CanonicalChain`
and the first proofs; `ContractOps`, `OracleBridge`; `BridgeV3`; `P2PNetwork` and its proofs; `Wallet`;
`BlockFormat`, `BlockWire`; `Mnemonic`, `ShieldedCrypto`, `Tumbler`, `BrowserWallet`, `ShieldedFlow`.

Next models:

1. Variants of `OracleBridge`: the id sets cut to a small number, and fee rates that change while orders
   are pending, against the contract's cap.
2. The exit of a node with requests under way (`main.cpp`, the static P2PManager).

Theorems, done: all safety invariants and action properties of `Vault`, `NodeLedger`, `P2PNetwork`,
`OracleBridge`, `BridgeV3` and `Wallet`; those of `ShieldedFlow` but the phrase; and the refinement of
`CanonicalChain`.

Next theorems:

1. `CertificateIsItsSigners`, with the certificate put as a recursive function of the signatures; then the
   round trip of one part at a time, each writer with its reader, before that of a block.
2. The contract's fee cap is never below the honest fee (CryptoPegVaultV3.sol:210).
3. The words of a phrase at the one width the code has, 256 bits of entropy in words of 11.
