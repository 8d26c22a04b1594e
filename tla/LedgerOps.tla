------------------------------- MODULE LedgerOps -------------------------------
(***************************************************************************)
(* The data of a CryptoPeg node: one-time outputs, blocks, the LMDB tables  *)
(* (src/blockchain_db.cpp) and the part of them a node mirrors in RAM       *)
(* (src/node.cpp), with the operations on them as operators.                *)
(*                                                                         *)
(* A one-time key stands for the stealth output it receives and for the     *)
(* key image that spends it (the map from keys to canonical images is       *)
(* one-to-one).  A signature, ring or quorum, is what its verifier accepts: *)
(* a ring signature proves that the spent key is a member of the ring, a    *)
(* header is signed by the validators named in it.                         *)
(***************************************************************************)
EXTENDS VaultOps, Sequences, FiniteSets, FiniteSetsExt

CONSTANTS
    Events,         \* deposit events of the L2 contract; an event also names
                    \* the one-time key its deposit mints, a function of it
    NoPoints,       \* those for a recipient whose keys are no curve points
    FreshKeys,      \* one-time keys drawn at random by the wallets
    Gross,          \* USDT locked by each event
    Hashes,         \* block hashes, in their lexicographic order
    Validators,
    AuthorizedKeys, \* the entries of AUTHORIZED_VALIDATOR_KEYS at this node
    Threshold,      \* validator_quorum_threshold_
    Self,           \* validator_pubkey_ of this node
    DepositBps,     \* the fee rates this node was started with
    WithdrawBps

GenesisHash == 0

ASSUME LedgerConstants ==
    /\ Events \cap FreshKeys = {}
    /\ NoPoints \subseteq Events
    /\ Gross \in [Events -> Nat]
    /\ Hashes \subseteq Nat \ {GenesisHash}
    /\ IsFiniteSet(Validators)
    /\ Self \in Validators
    /\ Threshold \in Nat
    /\ DepositBps \in Nat
    /\ WithdrawBps \in Nat

Keys == Events \cup FreshKeys

\* authorized_validators_: an entry that is not a public key is passed over.
Authorized == AuthorizedKeys \cap Validators

Output == [key : Keys, amount : Nat]

\* What a block carries: one deposit, one ring transaction or one withdrawal
\* (a block mined by any of the handlers has exactly one).  "spends" holds the
\* key image, "outs" the new outputs; the fee is the one the record declares.
Op == [kind   : {"deposit", "transfer", "withdraw"},
       events : SUBSET Events,
       gross  : Nat,
       fee    : Int,
       spends : SUBSET Keys,
       ring   : SUBSET Keys,
       outs   : SUBSET Output]

Block == [height    : Nat,
          hash      : Hashes,
          prev      : Hashes \cup {GenesisHash},
          validator : Validators,
          signers   : SUBSET Validators,
          op        : Op]

-----------------------------------------------------------------------------
(***************************************************************************)
(* Operations as the program builds them                                    *)
(***************************************************************************)

KeysOf(outs) == {o.key : o \in outs}

SumOf(outs) == MapThenSumSet(LAMBDA o : o.amount, outs)

\* buy_shielded: the output is derived from the event, so every validator
\* mints the same one.
DepositOp(event, bps) ==
    [kind   |-> "deposit",
     events |-> {event},
     gross  |-> Gross[event],
     fee    |-> FeeOf(Gross[event], bps),
     spends |-> {},
     ring   |-> {},
     outs   |-> {[key |-> event, amount |-> NetOf(Gross[event], bps)]}]

\* Fault: a change output whatever the difference.
ChangeAlways(key, amount) == {[key |-> key, amount |-> amount]}

\* An output for what is left of a spent one: none when nothing is.
Change(key, amount) == IF amount > 0 THEN {[key |-> key, amount |-> amount]} ELSE {}

\* Fault: the fee is not taken from the change.
TransferOpFeeUnpaid(u, ring, send, fee, recipientKey, changeKey) ==
    [kind   |-> "transfer",
     events |-> {},
     gross  |-> 0,
     fee    |-> fee,
     spends |-> {u.key},
     ring   |-> ring,
     outs   |-> {[key |-> recipientKey, amount |-> send]} \cup Change(changeKey, u.amount - send)]

\* transfer_shielded: the recipient's output and the change.
TransferOp(u, ring, send, fee, recipientKey, changeKey) ==
    [kind   |-> "transfer",
     events |-> {},
     gross  |-> 0,
     fee    |-> fee,
     spends |-> {u.key},
     ring   |-> ring,
     outs   |-> {[key |-> recipientKey, amount |-> send]}
                  \cup Change(changeKey, u.amount - send - fee)]

\* withdraw_shielded: the burn receipt and the change output it binds.
WithdrawOp(u, gross, bps, changeKey) ==
    [kind   |-> "withdraw",
     events |-> {},
     gross  |-> gross,
     fee    |-> FeeOf(gross, bps),
     spends |-> {u.key},
     ring   |-> {},
     outs   |-> Change(changeKey, u.amount - gross)]

\* select_decoys: other outputs of the same amount, as many as there are up
\* to RingSize - 1.  The result is a ring around u.
RingSize == 5

\* Fault: decoys of any amount.
RingsOfAnyAmount(u, utxos) ==
    {{u.key, decoy} : decoy \in {o.key : o \in utxos}}

RingsAround(u, utxos) ==
    LET candidates == {o.key : o \in {x \in utxos : x.amount = u.amount}} \ {u.key}
        wanted == IF Cardinality(candidates) < RingSize - 1
                    THEN Cardinality(candidates) ELSE RingSize - 1
    IN  {{u.key} \cup decoys : decoys \in kSubset(wanted, candidates)}

-----------------------------------------------------------------------------
(***************************************************************************)
(* The LMDB tables and their mirror in RAM                                  *)
(***************************************************************************)

Disk == [chain  : Seq(Block),       \* dbi_blocks_ up to top_height
         utxos  : SUBSET Output,
         spent  : SUBSET Keys,      \* dbi_key_images_
         events : SUBSET Events,    \* dbi_deposit_txs_
         vault  : VaultState]

Memory == [utxos : SUBSET Output, spent : SUBSET Keys, vault : VaultState]

EmptyDisk == [chain  |-> <<>>,
              utxos  |-> {},
              spent  |-> {},
              events |-> {},
              vault  |-> EmptyVault]

\* recover_state_from_db
Load(d) == [utxos |-> d.utxos, spent |-> d.spent, vault |-> d.vault]

\* mdb_put on dbi_utxos_: an output replaces one with the same one-time key.
Put(utxos, outs) == {u \in utxos : u.key \notin KeysOf(outs)} \cup outs

\* Fault: the key images are not written.
CommittedWithoutImages(d, b, v) ==
    [chain  |-> Append(SubSeq(d.chain, 1, b.height - 1), b),
     utxos  |-> Put(d.utxos, b.op.outs),
     spent  |-> d.spent,
     events |-> d.events \cup b.op.events,
     vault  |-> v]

\* commit_block: one LMDB transaction writes the block at its height, the
\* indexes and the vault, and makes that height the top.
Committed(d, b, v) ==
    [chain  |-> Append(SubSeq(d.chain, 1, b.height - 1), b),
     utxos  |-> Put(d.utxos, b.op.outs),
     spent  |-> d.spent \cup b.op.spends,
     events |-> d.events \cup b.op.events,
     vault  |-> v]

\* save_vault_state
Saved(d, v) ==
    [chain |-> d.chain, utxos |-> d.utxos, spent |-> d.spent, events |-> d.events, vault |-> v]

WithVault(m, v) == [utxos |-> m.utxos, spent |-> m.spent, vault |-> v]

\* The effect of one block on a vault, and whether the vault accepts it.
VaultTakes(v, op, depositBps, withdrawBps) ==
    CASE op.kind = "deposit"  -> DepositOK(v, op.gross, depositBps)
      [] op.kind = "withdraw" -> WithdrawOK(v, op.gross, withdrawBps)
      [] OTHER                -> TRUE

VaultAfter(v, op, depositBps, withdrawBps) ==
    CASE op.kind = "deposit"  -> AfterDeposit(v, op.gross, depositBps)
      [] op.kind = "withdraw" -> AfterWithdraw(v, op.gross, withdrawBps)
      [] OTHER                -> v

\* The deposits and withdrawals of a chain replayed into an empty vault.
Replay(chain, depositBps, withdrawBps) ==
    LET after[n \in 0 .. Len(chain)] ==
            IF n = 0
              THEN [ok |-> TRUE, vault |-> EmptyVault]
              ELSE LET before == after[n - 1]
                       op == chain[n].op
                   IN  IF before.ok /\ VaultTakes(before.vault, op, depositBps, withdrawBps)
                         THEN [ok |-> TRUE,
                               vault |-> VaultAfter(before.vault, op, depositBps, withdrawBps)]
                         ELSE [ok |-> FALSE, vault |-> before.vault]
    IN  after[Len(chain)]

\* rollback_top_block replays into a default-constructed Vault.
DefaultBps == 50

ReplayedAtDefaults(chain) == Replay(chain, DefaultBps, DefaultBps)

\* Fault: the outputs of the block stay.
RolledBackKeepsOutputs(d, top) ==
    LET gone == d.chain[top].op
        rest == SubSeq(d.chain, 1, top - 1)
    IN  [chain  |-> rest,
         utxos  |-> d.utxos,
         spent  |-> d.spent \ gone.spends,
         events |-> d.events \ gone.events,
         vault  |-> ReplayedAtDefaults(rest).vault]

\* Fault: the block's deposit events stay marked as processed.
RolledBackKeepsEvents(d, top) ==
    LET gone == d.chain[top].op
        rest == SubSeq(d.chain, 1, top - 1)
    IN  [chain  |-> rest,
         utxos  |-> {u \in d.utxos : u.key \notin KeysOf(gone.outs)},
         spent  |-> d.spent \ gone.spends,
         events |-> d.events,
         vault  |-> ReplayedAtDefaults(rest).vault]

\* Fault: the vault of the block stays.
RolledBackKeepsVault(d, top) ==
    LET gone == d.chain[top].op
        rest == SubSeq(d.chain, 1, top - 1)
    IN  [chain  |-> rest,
         utxos  |-> {u \in d.utxos : u.key \notin KeysOf(gone.outs)},
         spent  |-> d.spent \ gone.spends,
         events |-> d.events \ gone.events,
         vault  |-> d.vault]

\* rollback_top_block on the block at height top.
RolledBack(d, top) ==
    LET gone == d.chain[top].op
        rest == SubSeq(d.chain, 1, top - 1)
    IN  [chain  |-> rest,
         utxos  |-> {u \in d.utxos : u.key \notin KeysOf(gone.outs)},
         spent  |-> d.spent \ gone.spends,
         events |-> d.events \ gone.events,
         vault  |-> ReplayedAtDefaults(rest).vault]

-----------------------------------------------------------------------------
(***************************************************************************)
(* Validation                                                               *)
(***************************************************************************)

HashAt(d, height) == IF height = 0 THEN GenesisHash ELSE d.chain[height].hash

\* BlockHeader::verify_quorum: distinct authorized signers.
Quorum(b) == Cardinality(b.signers \cap Authorized)

RequiredQuorum == IF Threshold < 1 THEN 1 ELSE Threshold

\* Fork choice between two blocks with one parent.
Preferred(remote, local) ==
    \/ Quorum(remote) > Quorum(local)
    \/ Quorum(remote) = Quorum(local) /\ remote.hash < local.hash

\* A key image is spent when RAM or LMDB says so.
Spent(key, m, d) == key \in m.spent \/ key \in d.spent

\* is_deposit_tx_processed asks LMDB.
Processed(event, d) == event \in d.events

\* A transfer as a peer or the submit endpoint checks it.
TransferOK(op, m, d) ==
    /\ \A k \in op.spends : k \in op.ring /\ ~ Spent(k, m, d)
    /\ \A o \in op.outs : o.amount > 0
    /\ op.fee + SumOf(op.outs) <= AmountMax
    /\ op.ring # {}
    /\ op.ring \subseteq KeysOf(m.utxos)
    /\ \A u \in m.utxos :
            u.key \in op.ring => u.amount = op.fee + SumOf(op.outs)

\* A withdrawal: exact fee, burned output in the ledger, one change output
\* for exactly what is left, key image unspent, vault able to pay.
BurnOK(op, m, d) ==
    /\ op.gross > 0
    /\ op.fee = FeeOf(op.gross, WithdrawBps)
    /\ \A k \in op.spends : ~ Spent(k, m, d)
    /\ \E u \in m.utxos :
            /\ op.spends = {u.key}
            /\ u.amount >= op.gross
            /\ SumOf(op.outs) = u.amount - op.gross
            /\ \A o \in op.outs : o.amount = u.amount - op.gross /\ o.amount > 0
    /\ WithdrawOK(m.vault, op.gross, WithdrawBps)

\* Fault: the event is not looked up.
MintEventUnchecked(op, m, d) ==
    /\ op.gross > 0
    /\ op.fee = FeeOf(op.gross, DepositBps)
    /\ op.events \cap NoPoints = {}
    /\ op.outs = {[key |-> e, amount |-> NetOf(op.gross, DepositBps)] : e \in op.events}
    /\ DepositOK(m.vault, op.gross, DepositBps)

\* A deposit: event never seen, exact fee, output derived from the event for
\* keys that are points.
MintOK(op, m, d) ==
    /\ \A event \in op.events : ~ Processed(event, d)
    /\ op.gross > 0
    /\ op.fee = FeeOf(op.gross, DepositBps)
    /\ op.events \cap NoPoints = {}
    /\ op.outs = {[key |-> e, amount |-> NetOf(op.gross, DepositBps)] : e \in op.events}
    /\ DepositOK(m.vault, op.gross, DepositBps)

\* Deposits need a quorum of the authorized validators; any other block, the
\* signature of one of them when there is a list at all.
HeaderAuthorized(b) ==
    IF b.op.kind = "deposit"
      THEN Authorized # {} /\ Quorum(b) >= RequiredQuorum
      ELSE Authorized # {} => b.validator \in Authorized

\* apply_remote_block from the height check to the last solvency check.
ValidBlock(b, m, d, top) ==
    /\ b.height = top + 1
    /\ b.prev = HashAt(d, top)
    /\ HeaderAuthorized(b)
    /\ CASE b.op.kind = "deposit"  -> MintOK(b.op, m, d)
         [] b.op.kind = "transfer" -> TransferOK(b.op, m, d)
         [] b.op.kind = "withdraw" -> BurnOK(b.op, m, d)
=============================================================================
