----------------------------- MODULE P2PNetwork -----------------------------
(***************************************************************************)
(* The network of CryptoPeg nodes (src/p2p.cpp and the p2p endpoints of      *)
(* src/rpc_server.cpp): handshakes with peer exchange, gossip of blocks,     *)
(* pull and push synchronisation behind the is_syncing_ flag, and the fork   *)
(* choice at the tip.                                                      *)
(*                                                                         *)
(* A node is its chain: what its blocks carry is NodeLedger's concern, and   *)
(* nodes with one history accept the same operations.  A block is its hash   *)
(* and what the hash binds.                                                *)
(***************************************************************************)
EXTENDS Integers, Sequences, SequencesExt

CONSTANTS
    Nodes,
    Seeds,          \* the peers each node is started with
    Introductions,  \* <<n, p>>: the operator of n adds p by hand
    Hashes,         \* block hashes, in their lexicographic order
    MinedBy,        \* the hashes of the blocks each node mines
    Quorum,         \* verify_quorum of the block with that hash
    Limit,          \* blocks in one answer to /p2p/sync
    MaxHeight, MaxLosses, MaxRestarts   \* bounds of the model

GenesisHash == 0

ASSUME NetworkConstants ==
    /\ Seeds \in [Nodes -> SUBSET Nodes]
    /\ Introductions \subseteq Nodes \X Nodes
    /\ Hashes \subseteq Nat \ {GenesisHash}
    /\ MinedBy \in [Nodes -> SUBSET Hashes]
    /\ Quorum \in [Hashes -> Nat]
    /\ Limit \in Nat \ {0}
    /\ MaxHeight \in Nat

Block == [height : Nat \ {0}, hash : Hashes, prev : Hashes \cup {GenesisHash}]

\* A block on its way to the /p2p/block of a node, with the sender's address.
Post == [to : Nodes, from : Nodes, block : Block]

VARIABLES
    chain,      \* per node, its blocks from height 1 on
    peers,      \* P2PManager::peers_
    connected,  \* those of them with is_connected
    listening,  \* the node's HTTP server answers
    posts,      \* the blocks on their way
    busy,       \* the node broadcasts what it mined and holds node_mutex_
    sync,       \* the synchronisation that holds is_syncing_
    losses, restarts    \* how many of each have happened

network == <<peers, connected, listening>>
bounded == <<losses, restarts>>
vars == <<chain, peers, connected, listening, posts, busy, sync, losses, restarts>>

Idle == [op |-> "idle"]

Pulling(peer) == [op |-> "ask", peer |-> peer]

Sync == {Idle}
        \cup [op : {"ask"}, peer : Nodes]
        \cup [op : {"apply"}, peer : Nodes, batch : Seq(Block), more : BOOLEAN]
        \cup [op : {"push"}, peer : Nodes, next : Nat, last : Nat]

TypeOK ==
    /\ chain \in [Nodes -> Seq(Block)]
    /\ peers \in [Nodes -> SUBSET Nodes]
    /\ connected \in [Nodes -> SUBSET Nodes]
    /\ listening \in [Nodes -> BOOLEAN]
    /\ posts \subseteq Post
    /\ busy \in [Nodes -> BOOLEAN]
    /\ sync \in [Nodes -> Sync]
    /\ losses \in Nat /\ restarts \in Nat

\* A new P2PManager knows nobody; main adds the seeds.
Started(n) ==
    /\ peers' = [peers EXCEPT ![n] = Seeds[n]]
    /\ connected' = [connected EXCEPT ![n] = {}]

Init ==
    /\ chain = [n \in Nodes |-> <<>>]
    /\ peers = Seeds
    /\ connected = [n \in Nodes |-> {}]
    /\ listening = [n \in Nodes |-> FALSE]
    /\ posts = {}
    /\ busy = [n \in Nodes |-> FALSE]
    /\ sync = [n \in Nodes |-> Idle]
    /\ losses = 0 /\ restarts = 0

-----------------------------------------------------------------------------
(***************************************************************************)
(* Chains and blocks                                                        *)
(***************************************************************************)

TipHash(c) == IF c = <<>> THEN GenesisHash ELSE c[Len(c)].hash

IsTip(b, c) == c # <<>> /\ b = c[Len(c)]

\* A competitor of the tip with the same parent wins by its quorum, then by its
\* hash.
Wins(b, c) ==
    /\ c # <<>>
    /\ b.height = Len(c)
    /\ b.prev = c[Len(c)].prev
    /\ \/ Quorum[b.hash] > Quorum[TipHash(c)]
       \/ Quorum[b.hash] = Quorum[TipHash(c)] /\ b.hash < TipHash(c)

\* Fault: the parent is not compared.
ExtendsByHeight(b, c) == b.height = Len(c) + 1

Extends(b, c) == b.height = Len(c) + 1 /\ b.prev = TipHash(c)

\* What apply_remote_block answers, and the chain it leaves.
Accepts(b, c) == IsTip(b, c) \/ Wins(b, c) \/ Extends(b, c)

ChainWith(b, c) ==
    IF IsTip(b, c) THEN c
    ELSE IF Wins(b, c) THEN Append(Front(c), b)
    ELSE Append(c, b)

PostsOf(b, from, targets) == {[to |-> p, from |-> from, block |-> b] : p \in targets}

\* The blocks after height h that one answer to /p2p/sync carries.
BlocksAfter(c, h) == SubSeq(c, h + 1, IF Len(c) < h + Limit THEN Len(c) ELSE h + Limit)

BatchOf(s) == IF s.op = "apply" THEN Range(s.batch) ELSE {}

\* The hashes of all blocks somebody has.
HashesInUse ==
    {b.hash : b \in (UNION {Range(chain[n]) \cup BatchOf(sync[n]) : n \in Nodes})
                    \cup {m.block : m \in posts}}

-----------------------------------------------------------------------------
(***************************************************************************)
(* Gossip                                                                   *)
(***************************************************************************)

\* A request to a node is answered when its server listens and the handler gets
\* node_mutex_.
Answers(n) == listening[n] /\ ~ busy[n]

\* A request fails when nobody listens, and it may be lost anyway.
Fails(n) ==
    \/ ~ listening[n] /\ UNCHANGED losses
    \/ losses < MaxLosses /\ losses' = losses + 1

NewBlock(c, h) == [height |-> Len(c) + 1, hash |-> h, prev |-> TipHash(c)]

\* A local handler mines and broadcasts (on_block_mined_) while it holds
\* node_mutex_.
Mine(n) ==
    /\ ~ busy[n]
    /\ Len(chain[n]) < MaxHeight
    /\ \E h \in MinedBy[n] \ HashesInUse :
        LET b == NewBlock(chain[n], h)
        IN  /\ chain' = [chain EXCEPT ![n] = Append(@, b)]
            /\ posts' = posts \cup PostsOf(b, n, connected[n])
    /\ busy' = [busy EXCEPT ![n] = connected[n] # {}]
    /\ UNCHANGED <<network, sync, bounded>>

\* Every request of the broadcast has been answered or has timed out.
EndBroadcast(n) ==
    /\ busy[n]
    /\ busy' = [busy EXCEPT ![n] = FALSE]
    /\ UNCHANGED <<chain, network, posts, sync, bounded>>

\* POST /p2p/block at a node, with the chain and the posts it leaves: an older
\* block is ignored, an accepted one is passed on to all connected peers but
\* the sender.
Older(b, c) == b.height < Len(c)

ChainAfterPost(b, c) == IF ~ Older(b, c) /\ Accepts(b, c) THEN ChainWith(b, c) ELSE c

PassedOn(m) ==
    IF ~ Older(m.block, chain[m.to]) /\ Accepts(m.block, chain[m.to])
      THEN PostsOf(m.block, m.to, connected[m.to] \ {m.from})
      ELSE {}

\* A refused block from further ahead makes the node pull from the sender,
\* unless it is synchronising already.
SyncAfterPost(m) ==
    IF ~ Accepts(m.block, chain[m.to]) /\ m.block.height > Len(chain[m.to]) + 1 /\ sync[m.to] = Idle
      THEN Pulling(m.from)
      ELSE sync[m.to]

ReceiveBlock(n) ==
    /\ Answers(n)
    /\ \E m \in posts :
        /\ m.to = n
        /\ chain' = [chain EXCEPT ![n] = ChainAfterPost(m.block, @)]
        /\ posts' = (posts \ {m}) \cup PassedOn(m)
        /\ sync' = [sync EXCEPT ![n] = SyncAfterPost(m)]
    /\ UNCHANGED <<network, busy, bounded>>

-----------------------------------------------------------------------------
(***************************************************************************)
(* Handshakes                                                               *)
(***************************************************************************)

\* add_peer takes a node that is not in the list and not the node itself; its
\* handshake is a step of its own.
Unknown(n, named) == named \ (peers[n] \cup {n})

\* POST /p2p/peers: an address that is no URL or is known already changes nothing.
PostPeers(n, named) ==
    /\ Answers(n)
    /\ \E p \in Unknown(n, named) : peers' = [peers EXCEPT ![n] = @ \cup {p}]
    /\ UNCHANGED <<chain, connected, listening, posts, busy, sync, bounded>>

\* addpeer of the wallet program, at the node it is configured for.
AddPeer(n) == PostPeers(n, {p \in Nodes : <<n, p>> \in Introductions})

\* Fault: nothing is pulled.
SyncPushing(p, height, c, s) ==
    IF s = Idle /\ height < Len(c)
      THEN [op |-> "push", peer |-> p, next |-> height + 1, last |-> Len(c)]
      ELSE s

\* The end of a handshake with a peer of that height: pull when it is higher,
\* push when it is lower, unless a synchronisation is under way.
SyncAfterGreeting(p, height, c, s) ==
    CASE s = Idle /\ height > Len(c) -> Pulling(p)
      [] s = Idle /\ height < Len(c) -> [op |-> "push", peer |-> p,
                                         next |-> height + 1, last |-> Len(c)]
      [] OTHER                       -> s

\* register_incoming_peer: the caller is in the list, as connected.
Registered(list, caller) == list \cup {caller}

\* The answer to POST /p2p/handshake.
Greeting(p) == [height |-> Len(chain[p]), known |-> peers[p]]

\* handshake_with_peer: the peer registers the caller and answers; the caller adds
\* the peers it names.
Handshake(n, p) ==
    /\ p \in peers[n]
    /\ ~ busy[n] /\ Answers(p)
    /\ peers' = [peers EXCEPT ![p] = Registered(@, n),
                              ![n] = @ \cup Unknown(n, Greeting(p).known)]
    /\ connected' = [connected EXCEPT ![n] = @ \cup {p}, ![p] = Registered(@, n)]
    /\ sync' = [sync EXCEPT ![n] =
                    SyncAfterGreeting(p, Greeting(p).height, chain[n], @)]
    /\ UNCHANGED <<chain, listening, posts, busy, bounded>>

\* It fails, or its answer is lost.
HandshakeFails(n, p) ==
    /\ p \in peers[n]
    /\ Fails(p)
    /\ connected' = [connected EXCEPT ![n] = @ \ {p}]
    /\ UNCHANGED <<chain, peers, listening, posts, busy, sync, restarts>>

-----------------------------------------------------------------------------
(***************************************************************************)
(* Synchronisation                                                          *)
(***************************************************************************)

\* sync_from_peer asks for the blocks above the own tip.
Ask(n) ==
    /\ sync[n].op = "ask"
    /\ ~ busy[n] /\ Answers(sync[n].peer)
    /\ LET batch == BlocksAfter(chain[sync[n].peer], Len(chain[n]))
       IN  sync' = [sync EXCEPT ![n] =
                        IF batch = <<>>
                          THEN Idle
                          ELSE [op    |-> "apply",
                                peer  |-> @.peer,
                                batch |-> batch,
                                more  |-> Len(batch) = Limit]]
    /\ UNCHANGED <<chain, network, posts, busy, bounded>>

\* Fault: the flag stays set when a block is refused.
SyncKeptOnRefusal(s, ok) ==
    IF ~ ok THEN s
    ELSE IF Len(s.batch) > 1 THEN [s EXCEPT !.batch = Tail(@)]
    ELSE IF s.more THEN Pulling(s.peer)
    ELSE Idle

\* After a block of the answer: the first refusal ends it all, a full answer is
\* followed by another request.
SyncAfterBlock(s, ok) ==
    IF ~ ok THEN Idle
    ELSE IF Len(s.batch) > 1 THEN [s EXCEPT !.batch = Tail(@)]
    ELSE IF s.more THEN Pulling(s.peer)
    ELSE Idle

\* One block of the answer.
ApplyPulled(n) ==
    /\ sync[n].op = "apply"
    /\ ~ busy[n]
    /\ LET b == Head(sync[n].batch)
           ok == Accepts(b, chain[n])
       IN  /\ chain' = [chain EXCEPT ![n] = IF ok THEN ChainWith(b, @) ELSE @]
           /\ sync' = [sync EXCEPT ![n] = SyncAfterBlock(@, ok)]
    /\ UNCHANGED <<network, posts, busy, bounded>>

\* push_blocks_to_peer posts one block and reads the answer: an error ends it.
PushBlock(n) ==
    /\ sync[n].op = "push"
    /\ ~ busy[n] /\ Answers(sync[n].peer)
    /\ LET s == sync[n]
           p == s.peer
           b == chain[n][s.next]
           m == [to |-> p, from |-> n, block |-> b]
           taken == Older(b, chain[p]) \/ Accepts(b, chain[p])
       IN  /\ chain' = [chain EXCEPT ![p] = ChainAfterPost(b, @)]
           /\ posts' = posts \cup PassedOn(m)
           /\ sync' = [sync EXCEPT
                    ![n] = IF taken /\ s.next < s.last THEN [s EXCEPT !.next = @ + 1] ELSE Idle,
                    ![p] = SyncAfterPost(m)]
    /\ UNCHANGED <<network, busy, bounded>>

\* A request of a synchronisation fails, or waits too long for a peer that
\* broadcasts.  A block that was pushed may still arrive.
SyncFails(n) ==
    /\ sync[n].op \in {"ask", "push"}
    /\ \/ Fails(sync[n].peer)
       \/ busy[sync[n].peer] /\ UNCHANGED losses
    /\ \/ UNCHANGED posts
       \/ /\ sync[n].op = "push"
          /\ posts' = posts \cup PostsOf(chain[n][sync[n].next], n, {sync[n].peer})
    /\ sync' = [sync EXCEPT ![n] = Idle]
    /\ UNCHANGED <<chain, network, busy, restarts>>

-----------------------------------------------------------------------------
(***************************************************************************)
(* Failures                                                                 *)
(***************************************************************************)

LosePost ==
    /\ \E m \in posts :
        /\ Fails(m.to)
        /\ posts' = posts \ {m}
    /\ UNCHANGED <<chain, network, busy, sync, restarts>>

\* A signal or a crash: the manager's threads end.  What the node was sent is lost,
\* what it was sending may be.
Halted(n) ==
    /\ busy' = [busy EXCEPT ![n] = FALSE]
    /\ sync' = [sync EXCEPT ![n] = Idle]
    /\ \E kept \in SUBSET {m \in posts : m.from = n} :
            posts' = {m \in posts : n \notin {m.to, m.from}} \cup {m \in kept : m.to # n}

StopsListening(n) == listening' = [listening EXCEPT ![n] = FALSE]

\* The process ends and begins again: the chain is on disk, the list of peers is
\* not.
Restart(n) ==
    /\ restarts < MaxRestarts
    /\ restarts' = restarts + 1
    /\ Halted(n)
    /\ StopsListening(n)
    /\ Started(n)
    /\ UNCHANGED <<chain, losses>>

\* The RPC server begins to listen after the P2P service, which greets and
\* synchronises before others can reach the node.
Listen(n) ==
    /\ ~ listening[n]
    /\ listening' = [listening EXCEPT ![n] = TRUE]
    /\ UNCHANGED <<chain, peers, connected, posts, busy, sync, bounded>>

Synchronise(n) == Ask(n) \/ ApplyPulled(n) \/ PushBlock(n)

Next ==
    \/ \E n \in Nodes : Mine(n)
    \/ \E n \in Nodes : EndBroadcast(n)
    \/ \E n \in Nodes : ReceiveBlock(n)
    \/ \E n \in Nodes : AddPeer(n)
    \/ \E n, p \in Nodes : Handshake(n, p)
    \/ \E n, p \in Nodes : HandshakeFails(n, p)
    \/ \E n \in Nodes : Synchronise(n)
    \/ \E n \in Nodes : SyncFails(n)
    \/ LosePost
    \/ \E n \in Nodes : Restart(n)
    \/ \E n \in Nodes : Listen(n)

Spec == Init /\ [][Next]_vars

\* A process that starts comes to listen.  The background loop greets each peer
\* again and again; requests are answered or time out.  Seeds suffice: they are
\* never forgotten.  Gossip is not relied on.
Fairness ==
    \A n \in Nodes :
        /\ WF_vars(EndBroadcast(n))
        /\ WF_vars(Synchronise(n))
        /\ WF_vars(Listen(n))
        /\ \A p \in Seeds[n] : WF_vars(Handshake(n, p))

FairSpec == Spec /\ Fairness

\* Gossip arrives too.
GossipSpec == FairSpec /\ \A n \in Nodes : WF_vars(ReceiveBlock(n))

-----------------------------------------------------------------------------
(***************************************************************************)
(* Properties                                                               *)
(***************************************************************************)

\* A block fixes its past: two nodes that have it agree on all below it, by
\* whatever mix of gossip, pull, push and fork choice they got there.  It is what
\* lets a checkpoint of Bridge V3 name a history by one hash.
SharedPast ==
    \A n, m \in Nodes :
        \A h \in DOMAIN chain[n] \cap DOMAIN chain[m] :
            chain[n][h].hash = chain[m][h].hash
                => SubSeq(chain[n], 1, h) = SubSeq(chain[m], 1, h)

OneBranch(n, m) == IsPrefix(chain[n], chain[m]) \/ IsPrefix(chain[m], chain[n])

\* Nodes on one branch end up with the same chain: what gossip lost, and what a
\* node missed while it was down, is pulled or pushed after a later handshake.
NodesCatchUp ==
    <>[](\A n, m \in Nodes : OneBranch(n, m) => chain[n] = chain[m])

\* is_syncing_ is released by every synchronisation, refused blocks and lost
\* answers included: a flag left set would end synchronisation for good.
SyncEnds ==
    \A n \in Nodes : sync[n] # Idle ~> sync[n] = Idle

\* node.cpp:580 promises "resolucion canonica de bifurcaciones": in the end all
\* nodes have one chain.  Not so: forks deeper than the tip stay (README).
ForksResolved ==
    <>[](\A n, m \in Nodes : chain[n] = chain[m])
=============================================================================
