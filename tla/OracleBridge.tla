----------------------------- MODULE OracleBridge -----------------------------
(***************************************************************************)
(* The V2 bridge: the vault contract on L2, the confidential chain of one   *)
(* node, and contracts/scripts/oracle_listener.js between them.  The script *)
(* has two pollers that interleave at every await: one mints deposits on    *)
(* the node, one pays burned tokens on L2.  Requests and answers get lost,  *)
(* the script stops and starts with the file it saved last, either chain    *)
(* may replace its tip.                                                    *)
(*                                                                         *)
(* The confidential chain is what NodeLedger says of it: a handler is one   *)
(* step, an event is minted if the chain does not have it, and only the tip *)
(* gives way (CanonicalChain).  L2 and the RPC connections are external.   *)
(***************************************************************************)
EXTENDS ContractOps, Sequences, SequencesExt

CONSTANTS
    Events,             \* the deposits users make on L2
    EventGross,         \* USDT of each
    NoPoints,           \* deposits whose keys are no points of the curve
    BadOrders,          \* orders whose destination is not an L2 address
    Claims,             \* amounts the owner takes out of the fees
    L2Confirmations,    \* L2_CONFIRMATION_BLOCKS
    Confirmations,      \* CONFIDENTIAL_CHAIN_CONFIRMATIONS
    \* bounds of the model
    MaxL2Height, MaxHeight, MaxL2Reorgs, MaxReorgs, MaxFaults, MaxCrashes, MaxPauses

ASSUME BridgeConstants ==
    /\ EventGross \in [Events -> Nat \ {0}]
    /\ NoPoints \subseteq Events
    /\ BadOrders \subseteq Orders
    /\ Claims \subseteq Nat
    /\ L2Confirmations \in Nat
    /\ Confirmations \in Nat
    /\ MaxL2Reorgs \in 0 .. L2Confirmations   \* L2 is final below its confirmations

VARIABLES
    l2,         \* the blocks of L2, one transaction each, with the books after it
    mempool,    \* withdrawals sent to L2 and not yet in a block
    chain,      \* the confidential chain: what each block mints and burns
    oracle,     \* the cursors and sets of the script, in RAM
    file,       \* and in its state file
    failures,   \* orderFailures, in RAM only
    inbound,    \* where pollInboundDeposits is
    outbound,   \* where pollOutboundWithdrawals is
    count       \* how many reorganisations, faults, crashes and pauses so far

vars == <<l2, mempool, chain, oracle, file, failures, inbound, outbound, count>>
L2Side == <<l2, mempool>>
Script == <<oracle, file, failures, inbound, outbound>>

MaxFails == 3       \* attempts before an order is put in quarantine

Cursors == [l2 : Nat, chain : Nat,
            minted : SUBSET Events,         \* processedTxHashes
            paid : SUBSET Orders,           \* processedWithdrawalOrders
            quarantined : SUBSET Orders]

Pending == [event : Events, block : Nat]

\* A withdrawal transaction: an order may be in several.
Tx == [order : Orders, id : Nat]

Idle == [pc |-> "idle"]

TypeOK ==
    /\ l2 \in Seq([events : SUBSET Events, books : Books])
    /\ mempool \subseteq Tx
    /\ chain \in Seq([mints : SUBSET Events, burns : SUBSET Orders])
    /\ oracle \in Cursors /\ file \in Cursors
    /\ failures \in [Orders -> 0 .. MaxFails]
    /\ inbound \in {Idle} \cup [pc : {"post"}, batch : SUBSET Pending, to : Nat]
    /\ outbound \in {Idle}
                    \cup [pc : {"fetch"}, height : Nat, safe : Nat]
                    \cup [pc : {"orders", "send"}, height : Nat, safe : Nat,
                          todo : SUBSET Orders]
                    \cup [pc : {"wait"}, height : Nat, safe : Nat,
                          todo : SUBSET Orders, tx : Tx]
    /\ count \in [l2Reorgs : Nat, reorgs : Nat, faults : Nat, crashes : Nat, pauses : Nat]

NothingYet == [l2 |-> 0, chain |-> 0, minted |-> {}, paid |-> {}, quarantined |-> {}]

Init ==
    /\ l2 = <<>>
    /\ mempool = {}
    /\ chain = <<>>
    /\ oracle = NothingYet
    /\ file = NothingYet
    /\ failures = [o \in Orders |-> 0]
    /\ inbound = Idle
    /\ outbound = Idle
    /\ count = [l2Reorgs |-> 0, reorgs |-> 0, faults |-> 0, crashes |-> 0, pauses |-> 0]

-----------------------------------------------------------------------------
(***************************************************************************)
(* L2                                                                       *)
(***************************************************************************)

BooksAt(h) == IF h = 0 THEN NewContract ELSE l2[h].books
Vault == BooksAt(Len(l2))

Locked == UNION {l2[i].events : i \in DOMAIN l2}
BlockOf(e) == CHOOSE i \in DOMAIN l2 : e \in l2[i].events

\* A transaction for the order, other than those in the mempool.
NewTx(o) ==
    [order |-> o,
     id |-> CHOOSE i \in 0 .. Cardinality(mempool) :
                /\ [order |-> o, id |-> i] \notin mempool
                /\ \A j \in 0 .. i - 1 : [order |-> o, id |-> j] \in mempool]

L2Block(events, books) == l2' = Append(l2, [events |-> events, books |-> books])

\* A bound of the model, on what users and owner do.
RoomOnL2 == Len(l2) < MaxL2Height

UserDeposits ==
    /\ RoomOnL2
    /\ \E e \in Events \ Locked :
        /\ ContractTakesDeposit(Vault, EventGross[e])
        /\ L2Block({e}, DepositInContract(Vault, EventGross[e]))
    /\ UNCHANGED <<mempool, chain, Script, count>>

\* A withdrawal the validator signed reaches a block, or reverts there.
L2Executes ==
    /\ \E tx \in mempool :
        /\ mempool' = mempool \ {tx}
        /\ \/ /\ ContractPays(Vault, tx.order)
              /\ L2Block({}, PaidByContract(Vault, tx.order))
           \/ /\ ~ ContractPays(Vault, tx.order)
              /\ UNCHANGED l2
    /\ UNCHANGED <<chain, Script, count>>

OwnerClaims ==
    /\ RoomOnL2
    /\ \E amount \in Claims :
        /\ ContractPaysTreasury(Vault, amount)
        /\ L2Block({}, TreasuryPaid(Vault, amount))
    /\ UNCHANGED <<mempool, chain, Script, count>>

OwnerPauses ==
    /\ RoomOnL2
    /\ ~ Vault.paused
    /\ count.pauses < MaxPauses
    /\ L2Block({}, [Vault EXCEPT !.paused = TRUE])
    /\ count' = [count EXCEPT !.pauses = @ + 1]
    /\ UNCHANGED <<mempool, chain, Script>>

OwnerUnpauses ==
    /\ Vault.paused
    /\ L2Block({}, [Vault EXCEPT !.paused = FALSE])
    /\ UNCHANGED <<mempool, chain, Script, count>>

OtherL2Block ==
    /\ RoomOnL2
    /\ L2Block({}, Vault)
    /\ UNCHANGED <<mempool, chain, Script, count>>

\* L2 drops its last block; a payment in it is pending again, a deposit in it
\* has not happened.
L2Reorg ==
    /\ l2 # <<>>
    /\ count.l2Reorgs < MaxL2Reorgs
    /\ l2' = Front(l2)
    /\ mempool' = mempool \cup {NewTx(o) : o \in Vault.executed \ BooksAt(Len(l2) - 1).executed}
    /\ count' = [count EXCEPT !.l2Reorgs = @ + 1]
    /\ UNCHANGED <<chain, Script>>

-----------------------------------------------------------------------------
(***************************************************************************)
(* The confidential chain                                                   *)
(***************************************************************************)

MintedOn(c) == UNION {c[i].mints : i \in DOMAIN c}
BurnedOn(c) == UNION {c[i].burns : i \in DOMAIN c}

NetOfEvent(e) == NetOf(EventGross[e], DepositBps)

SumOver(S, Value(_)) == MapThenSumSet(Value, S)

\* The supply in circulation after a chain.
CirculatingOn(c) ==
    SumOver(MintedOn(c), NetOfEvent) - SumOver(BurnedOn(c), LAMBDA o : OrderGross[o])

\* Deep enough in L2 for an oracle: this one, or that of another node.
L2Confirmed(e) == e \in Locked /\ BlockOf(e) + L2Confirmations <= Len(l2)

\* No node ever takes it: it is above the limit of a transaction, or no output
\* can be made for its keys.
Refused(e) == EventGross[e] > MaxTransactionAmount \/ e \in NoPoints

NodeMints(c, e) == e \notin MintedOn(c) /\ ~ Refused(e)

Mint(e) == [mints |-> {e}, burns |-> {}]

\* The blocks that may follow a chain: a mint by another oracle's node, a
\* withdrawal, or something the bridge does not see.
BlocksAfter(c) ==
    {Mint(e) : e \in {x \in Events : L2Confirmed(x) /\ NodeMints(c, x)}}
    \cup {[mints |-> {}, burns |-> {o}] :
            o \in {x \in Orders \ BurnedOn(c) : OrderGross[x] <= CirculatingOn(c)}}
    \cup {[mints |-> {}, burns |-> {}]}

ChainGrows ==
    /\ Len(chain) < MaxHeight
    /\ \E b \in BlocksAfter(chain) : chain' = Append(chain, b)
    /\ UNCHANGED <<L2Side, Script, count>>

\* The fork choice replaces the tip.
TipReplaced ==
    /\ chain # <<>>
    /\ count.reorgs < MaxReorgs
    /\ \E b \in BlocksAfter(Front(chain)) : chain' = Append(Front(chain), b)
    /\ count' = [count EXCEPT !.reorgs = @ + 1]
    /\ UNCHANGED <<L2Side, Script>>

-----------------------------------------------------------------------------
(***************************************************************************)
(* pollInboundDeposits                                                      *)
(***************************************************************************)

Fault == count.faults < MaxFaults /\ count' = [count EXCEPT !.faults = @ + 1]

\* saveState writes whatever the cursors and sets are now.
Save(o) == oracle' = o /\ file' = o

\* Fault: the confirmations are not subtracted.
L2TipIsSafe == Len(l2)

SafeL2 == IF Len(l2) > L2Confirmations THEN Len(l2) - L2Confirmations ELSE 0

\* The events of blocks from..to, without those processed before.
EventsBetween(from, to) ==
    {p \in [event : Events, block : from .. to] :
        p.event \in l2[p.block].events /\ p.event \notin oracle.minted}

InboundPoll ==
    /\ inbound = Idle
    /\ SafeL2 > oracle.l2
    /\ inbound' = [pc |-> "post", batch |-> EventsBetween(oracle.l2 + 1, SafeL2), to |-> SafeL2]
    /\ UNCHANGED <<L2Side, chain, oracle, file, failures, outbound, count>>

\* The loop posts them in the order of their blocks.
Foremost(p) == \A q \in inbound.batch : p.block <= q.block

\* The request reaches the node, which mints the event unless it has it.
Delivered(e) ==
    \/ NodeMints(chain, e) /\ chain' = Append(chain, Mint(e))
    \/ ~ NodeMints(chain, e) /\ UNCHANGED chain

\* The node answers 200 or 409.
InboundMinted ==
    /\ inbound.pc = "post"
    /\ \E p \in inbound.batch :
        /\ Foremost(p)
        /\ NodeMints(chain, p.event) \/ p.event \in MintedOn(chain)
        /\ Delivered(p.event)
        /\ oracle' = [oracle EXCEPT !.minted = @ \cup {p.event}]
        /\ inbound' = [inbound EXCEPT !.batch = @ \ {p}]
    /\ UNCHANGED <<L2Side, file, failures, outbound, count>>

\* Fault: the cursor stays in front of the event that failed.
RewoundPast(p) == [oracle EXCEPT !.l2 = p.block]

\* The cursor goes back to just before the event.
Rewound(p) == [oracle EXCEPT !.l2 = p.block - 1]

GiveUp(p) ==
    /\ Save(Rewound(p))
    /\ inbound' = Idle
    /\ UNCHANGED <<L2Side, failures, outbound>>

\* The node refuses the event.
InboundRefused ==
    /\ inbound.pc = "post"
    /\ \E p \in inbound.batch :
        /\ Foremost(p)
        /\ Refused(p.event)
        /\ GiveUp(p)
    /\ UNCHANGED <<chain, count>>

\* The request or the answer is lost.
InboundLost ==
    /\ inbound.pc = "post"
    /\ Fault
    /\ \E p \in inbound.batch :
        /\ Foremost(p)
        /\ UNCHANGED chain \/ Delivered(p.event)
        /\ GiveUp(p)

InboundDone ==
    /\ inbound.pc = "post" /\ inbound.batch = {}
    /\ Save([oracle EXCEPT !.l2 = inbound.to])
    /\ inbound' = Idle
    /\ UNCHANGED <<L2Side, chain, failures, outbound, count>>

\* An L2 request throws: the poll ends where it is, nothing is saved.
InboundThrows ==
    /\ inbound.pc = "post"
    /\ Fault
    /\ inbound' = Idle
    /\ UNCHANGED <<L2Side, chain, oracle, file, failures, outbound>>

-----------------------------------------------------------------------------
(***************************************************************************)
(* pollOutboundWithdrawals                                                  *)
(***************************************************************************)

SafeHeight == IF Len(chain) > Confirmations THEN Len(chain) - Confirmations ELSE 0

OutboundPoll ==
    /\ outbound = Idle
    /\ oracle.chain < SafeHeight
    /\ outbound' = [pc |-> "fetch", height |-> oracle.chain + 1, safe |-> SafeHeight]
    /\ UNCHANGED <<L2Side, chain, oracle, file, failures, inbound, count>>

OutboundFetch ==
    /\ outbound.pc = "fetch"
    /\ outbound' = [pc |-> "orders", height |-> outbound.height, safe |-> outbound.safe,
                    todo |-> IF outbound.height \in DOMAIN chain
                               THEN chain[outbound.height].burns \ (oracle.paid \cup oracle.quarantined)
                               ELSE {}]
    /\ UNCHANGED <<L2Side, chain, oracle, file, failures, inbound, count>>

\* The poller goes on to the next order of the block.
OrderDone(o) ==
    outbound' = [pc |-> "orders", height |-> outbound.height, safe |-> outbound.safe,
                 todo |-> outbound.todo \ {o}]

\* executedWithdrawals says yes, or the destination is no address; otherwise
\* the order is signed.
OutboundCheck ==
    /\ outbound.pc = "orders"
    /\ \E o \in outbound.todo :
        \/ /\ o \in Vault.executed
           /\ oracle' = [oracle EXCEPT !.paid = @ \cup {o}]
           /\ OrderDone(o)
        \/ /\ o \notin Vault.executed /\ o \in BadOrders
           /\ oracle' = [oracle EXCEPT !.quarantined = @ \cup {o}]
           /\ OrderDone(o)
        \/ /\ o \notin Vault.executed /\ o \notin BadOrders
           /\ outbound' = [outbound EXCEPT !.pc = "send"]
           /\ UNCHANGED oracle
    /\ UNCHANGED <<L2Side, chain, file, failures, inbound, count>>

\* The transaction is sent: the RPC node estimates it and takes it.
OutboundSend ==
    /\ outbound.pc = "send"
    /\ \E o \in outbound.todo :
        /\ ContractPays(Vault, o)
        /\ mempool' = mempool \cup {NewTx(o)}
        /\ outbound' = [pc |-> "wait", height |-> outbound.height, safe |-> outbound.safe,
                        todo |-> outbound.todo, tx |-> NewTx(o)]
    /\ UNCHANGED <<l2, chain, oracle, file, failures, inbound, count>>

OutboundPaid ==
    /\ outbound.pc = "wait"
    /\ \E o \in outbound.todo \cap Vault.executed :
        /\ oracle' = [oracle EXCEPT !.paid = @ \cup {o}]
        /\ OrderDone(o)
    /\ UNCHANGED <<L2Side, chain, file, failures, inbound, count>>

\* Fault: a failed order counts as paid.
AfterTxErrorPaid(o) ==
    /\ oracle' = [oracle EXCEPT !.paid = @ \cup {o}]
    /\ OrderDone(o)
    /\ UNCHANGED failures

\* What follows an error of the transaction: the order turns out to be executed,
\* or goes to quarantine at the third failure, or ends the poll.
AfterTxError(o) ==
    \/ /\ o \in Vault.executed
       /\ oracle' = [oracle EXCEPT !.paid = @ \cup {o}]
       /\ OrderDone(o)
       /\ UNCHANGED failures
    \/ /\ o \notin Vault.executed
       /\ failures' = [failures EXCEPT ![o] = @ + 1]
       /\ \/ /\ failures'[o] >= MaxFails
             /\ oracle' = [oracle EXCEPT !.quarantined = @ \cup {o}]
             /\ OrderDone(o)
          \/ /\ failures'[o] < MaxFails
             /\ outbound' = Idle
             /\ UNCHANGED oracle

\* The estimate reverts, the transaction reverted in a block, or the connection
\* failed before or after it was sent.
OutboundTxError ==
    /\ outbound.pc \in {"send", "wait"}
    /\ \E o \in outbound.todo :
        /\ \/ /\ outbound.pc = "send" /\ ~ ContractPays(Vault, o)
              /\ UNCHANGED <<mempool, count>>
           \/ /\ outbound.pc = "wait" /\ outbound.tx \notin mempool /\ o \notin Vault.executed
              /\ UNCHANGED <<mempool, count>>
           \/ /\ outbound.pc = "send" /\ Fault
              /\ mempool' \in {mempool, mempool \cup {NewTx(o)}}
           \/ /\ outbound.pc = "wait" /\ Fault
              /\ UNCHANGED mempool
        /\ AfterTxError(o)
    /\ UNCHANGED <<l2, chain, file, inbound>>

\* A request for the status, a block or executedWithdrawals fails.
OutboundThrows ==
    /\ outbound.pc \in {"fetch", "orders"}
    /\ Fault
    /\ outbound' = Idle
    /\ UNCHANGED <<L2Side, chain, oracle, file, failures, inbound>>

OutboundBlockDone ==
    /\ outbound.pc = "orders" /\ outbound.todo = {}
    /\ Save([oracle EXCEPT !.chain = outbound.height])
    /\ outbound' = IF outbound.height < outbound.safe
                     THEN [pc |-> "fetch", height |-> outbound.height + 1, safe |-> outbound.safe]
                     ELSE Idle
    /\ UNCHANGED <<L2Side, chain, failures, inbound, count>>

-----------------------------------------------------------------------------

\* The script stops at any await and starts again from its file.
Restart ==
    /\ count.crashes < MaxCrashes
    /\ count' = [count EXCEPT !.crashes = @ + 1]
    /\ oracle' = file
    /\ failures' = [o \in Orders |-> 0]
    /\ inbound' = Idle
    /\ outbound' = Idle
    /\ UNCHANGED <<L2Side, chain, file>>

Inbound == InboundPoll \/ InboundMinted \/ InboundRefused \/ InboundDone

Outbound ==
    \/ OutboundPoll \/ OutboundFetch \/ OutboundCheck \/ OutboundSend
    \/ OutboundPaid \/ OutboundTxError \/ OutboundBlockDone

Next ==
    \/ UserDeposits \/ L2Executes \/ OwnerClaims \/ OwnerPauses \/ OwnerUnpauses
    \/ OtherL2Block \/ L2Reorg
    \/ ChainGrows \/ TipReplaced
    \/ Inbound \/ InboundLost \/ InboundThrows
    \/ Outbound \/ OutboundThrows
    \/ Restart

Spec == Init /\ [][Next]_vars

\* setInterval runs both pollers again and again, a request that does not fail
\* is answered, and L2 includes what it was sent.
FairSpec == Spec /\ WF_vars(Inbound) /\ WF_vars(Outbound) /\ WF_vars(L2Executes)

-----------------------------------------------------------------------------
(***************************************************************************)
(* Properties                                                               *)
(***************************************************************************)

\* One-to-one across the two chains ("Paridad 1:1", README.md:25): the USDT of
\* the holders in the contract is what circulates, plus what was locked and is
\* not minted yet, plus what was burned and is not paid yet -- in every order
\* of polls, lost answers, restarts and reorganisations.
BackedAcrossChains ==
    CirculatingBacking(Vault) =
        CirculatingOn(chain)
        + SumOver(Locked \ MintedOn(chain), NetOfEvent)
        + SumOver(BurnedOn(chain) \ Vault.executed, LAMBDA o : OrderGross[o])

\* Nothing is minted for USDT that is not in the contract, nothing is paid for
\* tokens that are not burned, also after either chain replaced its tip.
NothingFromNothing ==
    /\ MintedOn(chain) \subseteq Locked
    /\ Vault.executed \subseteq BurnedOn(chain)

\* The saved cursor never passes a deposit that is not on the chain: "para no
\* omitir depositos ante fallas RPC", oracle_listener.js:242.
DepositsNotSkipped ==
    \A e \in Locked : BlockOf(e) <= file.l2 => e \in MintedOn(chain)

\* The saved cursor never passes a burn that is neither paid, nor on its way,
\* nor in quarantine.
WithdrawalsNotSkipped ==
    \A h \in DOMAIN chain : h <= file.chain =>
        chain[h].burns \subseteq
            Vault.executed \cup {tx.order : tx \in mempool} \cup file.quarantined

\* Each deposit is minted once it is confirmed (README.md:163), unless one that
\* every node refuses stands before it: the cursor never gets past that.
HeldUp(e) ==
    \E j \in DOMAIN l2 :
        e \in l2[j].events /\ \E i \in 1 .. j : \E r \in l2[i].events : Refused(r)

DepositsMinted ==
    \A e \in Events : L2Confirmed(e) ~> e \in MintedOn(chain) \/ HeldUp(e)

\* Each burn to a real address is paid once it is buried, as long as fewer
\* attempts fail than put it in quarantine.
Buried(o) == \E h \in 1 .. SafeHeight : o \in chain[h].burns

WithdrawalsPaid ==
    \A o \in Orders \ BadOrders : Buried(o) ~> o \in Vault.executed
=============================================================================
