------------------------------- MODULE Wallet -------------------------------
(***************************************************************************)
(* The wallet client (src/wallet_manager.cpp, driven by the commands of      *)
(* src/wallet_cli.cpp) against the node that scans and pays for it (the      *)
(* wallet and payment endpoints of src/rpc_server.cpp).                      *)
(*                                                                         *)
(* A wallet file or a seed phrase is the identity it restores; balance_ is   *)
(* the total of owned_utxos_, the two being written together.  The node is   *)
(* what a wallet can tell of it: the order of utxo_pool_, the spent key      *)
(* images and the payments it carried out; NodeLedger has the rest.          *)
(***************************************************************************)
EXTENDS Integers, Sequences, FiniteSets, FiniteSetsExt, SequencesExt

CONSTANTS
    Clients,        \* running wallet programs
    Seeds,          \* identities
    Funded,         \* the outputs in the pool when the model begins
    Amounts,        \* what users ask to send or withdraw
    Names,          \* of wallets and of the files that hold them
    MaxOrders, MaxAttempts, MaxReloads  \* bounds of the model

Output == [key : Nat, owner : Seeds, amount : Nat \ {0}]

ASSUME WalletConstants ==
    /\ Funded \in Seq(Output)
    /\ \A i \in DOMAIN Funded : Funded[i].key = i
    /\ Amounts \subseteq Nat \ {0}
    /\ {MaxOrders, MaxAttempts, MaxReloads} \subseteq Nat
    /\ "no one" \notin Seeds

VARIABLES
    pool,       \* Node::utxo_pool_, spent outputs included
    spent,      \* the keys whose image the node has registered
    paid,       \* the payments the node has carried out
    calls,      \* the requests on their way to the node
    open,       \* per client, the identity loaded
    utxos,      \* per client, owned_utxos_ and the order of the pool they came in
    waiting,    \* per client, the request it waits for
    failed,     \* per client, the payment it last reported as failed
    running,    \* per client, its program runs
    known,      \* the identities created; their users noted the phrases
    files,      \* per name, the identity in the wallet file
    orders, attempts, reloads   \* how many of each have happened

node == <<pool, spent, paid>>
kept == <<known, files>>
bounded == <<orders, attempts, reloads>>
vars == <<pool, spent, paid, calls, open, utxos, waiting, failed, running, known, files,
          orders, attempts, reloads>>

NoOne == "no one"
Nothing == [id |-> 0]

\* What a user wants: an amount sent to someone, or withdrawn (to NoOne).
Order == [id : 1 .. MaxOrders, payer : Seeds, to : Seeds \cup {NoOne}, amount : Amounts]

\* The outputs a wallet lists, and how often the node had reordered its pool
\* when it returned them.
Listing == [outs : Seq(Output), epoch : 0 .. MaxReloads]

Empty == [outs |-> <<>>, epoch |-> 0]

\* A request to pay an order with one output, chosen from a listing of an epoch.
Call == [id : 1 .. MaxAttempts, client : Clients, order : Order, key : Nat,
         epoch : 0 .. MaxReloads, answer : {"none", "made", "refused"}]

Init ==
    /\ pool = Funded
    /\ spent = {} /\ paid = {} /\ calls = {}
    /\ open = [c \in Clients |-> NoOne]
    /\ utxos = [c \in Clients |-> Empty]
    /\ waiting = [c \in Clients |-> Nothing]
    /\ failed = [c \in Clients |-> Nothing]
    /\ running = [c \in Clients |-> FALSE]
    /\ known = {}
    /\ files = [name \in Names |-> NoOne]
    /\ orders = 0 /\ attempts = 0 /\ reloads = 0

-----------------------------------------------------------------------------
(* The node. *)

\* The loop over the pool keeps what scan_output finds.
Owned(s, outs) ==
    LET found[i \in 0 .. Len(outs)] ==
            IF i = 0 THEN <<>>
            ELSE IF outs[i].owner = s THEN Append(found[i - 1], outs[i]) ELSE found[i - 1]
    IN  found[Len(outs)]

\* /wallet/scan with the view key only: without the spend key the node cannot
\* tell which outputs are spent, and returns them all.
Scan(s) == [outs |-> Owned(s, pool), epoch |-> reloads]

Total(outs) == MapThenSumSet(LAMBDA o : o.amount, outs)

Paying(call) == CHOOSE o \in ToSet(pool) : o.key = call.key

\* transfer_shielded and withdraw_shielded: the payer owns the output, which
\* covers the amount, and its key image is new.
Payable(call) ==
    /\ Paying(call).owner = call.order.payer
    /\ Paying(call).amount >= call.order.amount
    /\ call.key \notin spent

\* Fault: the change is forgotten.
NewOutputsWithoutChange(call) ==
    IF call.order.to = NoOne THEN <<>>
    ELSE <<[key |-> Len(Funded) + 2 * Cardinality(paid) + 1, owner |-> call.order.to,
            amount |-> call.order.amount]>>

\* The recipient's output, unless the amount is burned, and the change.
NewOutputs(call) ==
    LET fresh == Len(Funded) + 2 * Cardinality(paid) + 1
        Out(key, owner, amount) ==
            IF owner = NoOne \/ amount = 0 THEN <<>>
            ELSE <<[key |-> key, owner |-> owner, amount |-> amount]>>
    IN  Out(fresh, call.order.to, call.order.amount)
        \o Out(fresh + 1, call.order.payer, Paying(call).amount - call.order.amount)

Answer(call, text) ==
    /\ calls' = calls \ {call}
    /\ waiting' = IF waiting[call.client] = call
                  THEN [waiting EXCEPT ![call.client].answer = text]
                  ELSE waiting

\* /tx/transfer and /vault/withdraw: the node finds the output, pays, answers.
Execute(call) ==
    /\ Payable(call)
    /\ pool' = pool \o NewOutputs(call)
    /\ spent' = spent \cup {call.key}
    /\ paid' = paid \cup {call}
    /\ Answer(call, "made")
    /\ UNCHANGED <<open, utxos, failed, running, kept, bounded>>

\* The node refuses: a double spend, or its vault or database fails.
Refuse(call) ==
    /\ Answer(call, "refused")
    /\ UNCHANGED <<node, open, utxos, failed, running, kept, bounded>>

\* recover_state_from_db, at a restart or after a commit that failed: LMDB hands
\* the outputs back by their keys, which are random points.
Reload ==
    /\ reloads < MaxReloads
    /\ pool' \in SetToSeqs(ToSet(pool))
    /\ reloads' = reloads + 1
    /\ UNCHANGED <<spent, paid, calls, open, utxos, waiting, failed, running, kept,
                   orders, attempts>>

-----------------------------------------------------------------------------
(* The wallet.  The program has one thread: a command runs to its end, and a
   payment waits for the node. *)

\* WalletManager::sync for identity s; when it fails the list stays.
Synced(s, old) == {old, Scan(s)}

\* The loop reads the next command when the one before has ended.
Ready(c) == running[c] /\ waiting[c] = Nothing

Show(c, s, listing) ==
    /\ open' = [open EXCEPT ![c] = s]
    /\ utxos' = [utxos EXCEPT ![c] = listing]
    /\ UNCHANGED <<node, calls, waiting, bounded>>

\* Fault: the list of the identity before is kept until a sync succeeds.
LoadKeepingList(c, s) ==
    \E listing \in Synced(s, utxos[c]) : Show(c, s, listing)

\* restore_wallet: the list is cleared and the command goes on to a first sync.
Load(c, s) ==
    \E listing \in Synced(s, Empty) : Show(c, s, listing)

\* load_wallet: a file that cannot be read or parsed leaves everything as it is.
LoadFile(c, name) == files[name] # NoOne /\ Load(c, files[name])

\* save_wallet replaces what a file of that name held; it may not be writable.
Saved(name, s) == {files, [files EXCEPT ![name] = s]}

\* The program starts, with --wallet or not; a file that cannot be read is reported
\* and passed over.
Start(c) ==
    /\ ~ running[c]
    /\ running' = [running EXCEPT ![c] = TRUE]
    /\ \/ Show(c, NoOne, Empty)
       \/ \E name \in Names : LoadFile(c, name)
    /\ UNCHANGED <<failed, kept>>

\* exit, or the end of the input.
Exit(c) ==
    /\ Ready(c)
    /\ running' = [running EXCEPT ![c] = FALSE]
    /\ Show(c, NoOne, Empty)
    /\ UNCHANGED <<failed, kept>>

\* create: the keys replace those loaded before the file is written; when it cannot
\* be written the command ends without a sync.
Create(c, s, name) ==
    /\ Ready(c)
    /\ s \notin known
    /\ known' = known \cup {s}
    /\ files' \in Saved(name, s)
    /\ IF files' = files THEN Show(c, s, Empty) ELSE Load(c, s)
    /\ failed' = [failed EXCEPT ![c] = Nothing]
    /\ UNCHANGED running

\* restore, from the phrase the user noted.
Restore(c, s) ==
    /\ Ready(c)
    /\ s \in known
    /\ Load(c, s)
    /\ UNCHANGED <<failed, running, kept>>

\* open
Open(c, name) ==
    /\ Ready(c)
    /\ LoadFile(c, name)
    /\ UNCHANGED <<failed, running, kept>>

\* save, under any name.
Save(c, name) ==
    /\ Ready(c)
    /\ open[c] # NoOne
    /\ files' \in Saved(name, open[c])
    /\ UNCHANGED <<node, calls, open, utxos, waiting, failed, running, known, bounded>>

\* close forgets the keys, the phrase and the list.
Close(c) ==
    /\ Ready(c)
    /\ open[c] # NoOne
    /\ Show(c, NoOne, Empty)
    /\ UNCHANGED <<failed, running, kept>>

\* sync and balance.
Refresh(c) ==
    /\ Ready(c)
    /\ open[c] # NoOne
    /\ \E listing \in Synced(open[c], utxos[c]) : Show(c, open[c], listing)
    /\ UNCHANGED <<failed, running, kept>>

\* deposit refuses whatever the amount: deposits are made at the L2 contract.
Deposit(c) == Ready(c) /\ open[c] # NoOne /\ UNCHANGED vars

\* claimfees asks the node without the administrator's token, and is refused.
ClaimFees(c) == Ready(c) /\ UNCHANGED vars

\* Fault: the newest output that covers the amount.
SelectedLast(outs, amount) == SelectLastInSeq(outs, LAMBDA o : o.amount >= amount)

\* The first output of the list that alone covers the amount.
Selected(outs, amount) == SelectInSeq(outs, LAMBDA o : o.amount >= amount)

\* transfer and withdraw: a sync whose failure is ignored, then the request.
Pay(c, order) ==
    /\ Ready(c)
    /\ open[c] = order.payer
    /\ attempts < MaxAttempts
    /\ \E listing \in Synced(open[c], utxos[c]) :
        /\ Selected(listing.outs, order.amount) # 0
        /\ utxos' = [utxos EXCEPT ![c] = listing]
        /\ LET call == [id |-> attempts + 1, client |-> c, order |-> order,
                        key |-> listing.outs[Selected(listing.outs, order.amount)].key,
                        epoch |-> listing.epoch, answer |-> "none"]
           IN  /\ calls' = calls \cup {call}
               /\ waiting' = [waiting EXCEPT ![c] = call]
    /\ attempts' = attempts + 1
    /\ UNCHANGED <<node, open, running, kept, reloads>>

\* A user asks for a payment, or asks again for the one that was reported failed.
NewPayment(c) ==
    /\ orders < MaxOrders
    /\ orders' = orders + 1
    /\ failed' = [failed EXCEPT ![c] = Nothing]
    /\ \E to \in Seeds \cup {NoOne}, amount \in Amounts :
        Pay(c, [id |-> orders + 1, payer |-> open[c], to |-> to, amount |-> amount])

Retry(c) ==
    /\ failed[c] # Nothing
    /\ Pay(c, failed[c])
    /\ UNCHANGED <<orders, failed>>

\* The answer arrives; a payment that was made is followed by a sync.
Made(c) ==
    /\ waiting[c] # Nothing
    /\ waiting[c].answer = "made"
    /\ failed' = [failed EXCEPT ![c] = Nothing]
    /\ \E listing \in Synced(open[c], utxos[c]) :
        utxos' = [utxos EXCEPT ![c] = listing]
    /\ waiting' = [waiting EXCEPT ![c] = Nothing]
    /\ UNCHANGED <<node, calls, open, running, kept, bounded>>

\* A refusal, a lost answer or a timeout: one error message for all of them.
NotMade(c) ==
    /\ waiting[c] # Nothing
    /\ failed' = [failed EXCEPT ![c] = waiting[c].order]
    /\ waiting' = [waiting EXCEPT ![c] = Nothing]
    /\ UNCHANGED <<node, calls, open, utxos, running, kept, bounded>>

\* The program is killed while it waits; the user does not know what became of the
\* payment.
Kill(c) ==
    /\ waiting[c] # Nothing
    /\ failed' = [failed EXCEPT ![c] = waiting[c].order]
    /\ waiting' = [waiting EXCEPT ![c] = Nothing]
    /\ running' = [running EXCEPT ![c] = FALSE]
    /\ open' = [open EXCEPT ![c] = NoOne]
    /\ utxos' = [utxos EXCEPT ![c] = Empty]
    /\ UNCHANGED <<node, calls, kept, bounded>>

Next ==
    \/ \E call \in calls : Execute(call) \/ Refuse(call)
    \/ Reload
    \/ \E c \in Clients : \/ Start(c)
                          \/ Exit(c)
                          \/ \E s \in Seeds, name \in Names : Create(c, s, name)
                          \/ \E s \in Seeds : Restore(c, s)
                          \/ \E name \in Names : Open(c, name) \/ Save(c, name)
                          \/ Close(c)
                          \/ Refresh(c)
                          \/ Deposit(c)
                          \/ ClaimFees(c)
                          \/ NewPayment(c)
                          \/ Retry(c)
                          \/ Made(c)
                          \/ NotMade(c)
                          \/ Kill(c)

Spec == Init /\ [][Next]_vars

-----------------------------------------------------------------------------
(* Properties. *)

TypeOK ==
    /\ pool \in Seq(Output)
    /\ spent \subseteq Nat
    /\ paid \subseteq Call
    /\ calls \subseteq Call
    /\ open \in [Clients -> Seeds \cup {NoOne}]
    /\ utxos \in [Clients -> Listing]
    /\ waiting \in [Clients -> Call \cup {Nothing}]
    /\ failed \in [Clients -> Order \cup {Nothing}]
    /\ running \in [Clients -> BOOLEAN]
    /\ known \subseteq Seeds
    /\ files \in [Names -> known \cup {NoOne}]
    /\ orders \in 0 .. MaxOrders /\ attempts \in 0 .. MaxAttempts /\ reloads \in 0 .. MaxReloads
    /\ \A c \in Clients : open[c] \in known \cup {NoOne}

\* Whatever identities a wallet program has loaded before, and whether its
\* syncs worked or not, the outputs it lists and chooses from belong to the
\* identity that is loaded now; a closed wallet lists none.
ListOfIdentity ==
    \A c \in Clients : \A o \in ToSet(utxos[c].outs) : o.owner = open[c]

\* The shielded value that is not spent is what was there less what has been
\* withdrawn: payments that race, fail and are repeated neither make nor lose any.
ValueConserved ==
    LET unspent == {o \in ToSet(pool) : o.key \notin spent}
        burned == {p \in paid : p.order.to = NoOne}
    IN  Total(unspent) + MapThenSumSet(LAMBDA p : p.order.amount, burned)
            = Total(ToSet(Funded))

\* A payment reported as failed may have been made, and users repeat it.  The
\* repetition chooses the same output again, which the node refuses: paying
\* twice takes a node that reordered its pool between the two attempts.
PaidTwiceOnlyAfterReload ==
    \A p, q \in paid : p.order = q.order /\ p # q => p.epoch # q.epoch

\* What the balance command heads "salidas no gastadas": right after a sync the
\* outputs listed are not spent.  Not so, the node returns them all (README).
BalanceIsUnspent ==
    [][\A c \in Clients : open'[c] # NoOne /\ utxos'[c] # utxos[c]
           => \A o \in ToSet(utxos'[c].outs) : o.key \notin spent']_vars

=============================================================================
