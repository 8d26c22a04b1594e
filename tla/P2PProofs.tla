------------------------------ MODULE P2PProofs ------------------------------
(***************************************************************************)
(* A block fixes its past, for every network: any set of nodes and peers,    *)
(* any hashes, quorums and miners, any answer limit, and any number of lost  *)
(* requests and restarts.                                                  *)
(*                                                                         *)
(* SharedPast is not inductive.  A block joins a chain where its parent      *)
(* stands (Linked), and what makes the two chains that end in it agree is    *)
(* that no two blocks have one hash, wherever they are: in a chain, on their *)
(* way, or in the batch of a synchronisation (OneBlock).  A push reads its   *)
(* blocks by their height while the chain goes on (Inside).              *)
(***************************************************************************)
EXTENDS P2PNetwork, SequenceTheorems, TLAPS

PrevAt(c, i) == IF i = 1 THEN GenesisHash ELSE c[i - 1].hash

Linked(ch) ==
    \A n \in Nodes : \A i \in 1 .. Len(ch[n]) : ch[n][i].prev = PrevAt(ch[n], i)

\* SharedPast, block by block.
Past(ch) ==
    \A n, m \in Nodes :
        \A h \in (1 .. Len(ch[n])) \cap (1 .. Len(ch[m])) :
            ch[n][h].hash = ch[m][h].hash => \A i \in 1 .. h : ch[n][i] = ch[m][i]

InChain(ch, b) == \E n \in Nodes : \E i \in 1 .. Len(ch[n]) : b = ch[n][i]

InBatch(s, b) == \E n \in Nodes : /\ s[n].op = "apply"
                                  /\ \E i \in 1 .. Len(s[n].batch) : b = s[n].batch[i]

InPost(p, b) == \E m \in p : b = m.block

\* The blocks somebody has.
Held == {b \in Block : InChain(chain, b) \/ InBatch(sync, b) \/ InPost(posts, b)}

Unique(H) == \A b, d \in H : b.hash = d.hash => b = d

OneBlock == Unique(Held)

\* What a synchronisation still has to send or to apply is there.
Within(s, c) ==
    /\ s.op = "push" => s.next \in 1 .. s.last /\ s.last <= Len(c)
    /\ s.op = "apply" => s.batch # <<>>

Inside == \A n \in Nodes : Within(sync[n], chain[n])

\* The inductive invariant.
Ancestry == TypeOK /\ Inside /\ Linked(chain) /\ Past(chain) /\ OneBlock

-----------------------------------------------------------------------------
(***************************************************************************)
(* Placing a block                                                          *)
(***************************************************************************)

\* A block put where its parent stands leaves the chains linked and their past
\* shared.
LEMMA Placed ==
    ASSUME NEW ch \in [Nodes -> Seq(Block)], Linked(ch), Past(ch),
           NEW n \in Nodes, NEW b \in Block, NEW s \in Seq(Block), NEW k \in Nat,
           k >= 1, k <= Len(ch[n]) + 1, Len(s) = k, s[k] = b,
           \A i \in 1 .. k - 1 : s[i] = ch[n][i],
           b.prev = PrevAt(ch[n], k),
           \A d \in Block : InChain(ch, d) /\ d.hash = b.hash => d = b
    PROVE  Linked([ch EXCEPT ![n] = s]) /\ Past([ch EXCEPT ![n] = s])
<1> DEFINE new == [ch EXCEPT ![n] = s]
<1>0. /\ new \in [Nodes -> Seq(Block)]
      /\ new[n] = s
      /\ \A m \in Nodes : m # n => new[m] = ch[m]
  OBVIOUS
<1>1. Linked(new)
  <2> SUFFICES ASSUME NEW m \in Nodes, NEW i \in 1 .. Len(new[m])
               PROVE  new[m][i].prev = PrevAt(new[m], i)
    BY DEF Linked
  <2>1. CASE m # n
    BY <2>1, <1>0 DEF Linked
  <2>2. CASE m = n /\ i = k
    BY <2>2, <1>0 DEF PrevAt
  <2>3. CASE m = n /\ i # k
    <3>1. i \in 1 .. Len(ch[n]) /\ i \in 1 .. k - 1
      BY <2>3, <1>0
    <3>2. ch[n][i].prev = PrevAt(ch[n], i)
      BY <3>1 DEF Linked
    <3>3. s[i] = ch[n][i] /\ (i # 1 => s[i - 1] = ch[n][i - 1])
      BY <3>1
    <3> QED
      BY <2>3, <1>0, <3>2, <3>3 DEF PrevAt
  <2> QED
    BY <2>1, <2>2, <2>3
<1>2. ASSUME NEW m \in Nodes, m # n,
             NEW h \in (1 .. k) \cap (1 .. Len(ch[m])), s[h].hash = ch[m][h].hash
      PROVE  \A i \in 1 .. h : s[i] = ch[m][i]
  <2>1. CASE h = k
    <3>1. ch[m][k] = b
      <4>1. ch[m] \in Seq(Block) /\ k \in 1 .. Len(ch[m])
        BY <1>2, <2>1
      <4>2. ch[m][k] \in Block /\ InChain(ch, ch[m][k])
        BY <4>1 DEF InChain
      <4> QED
        BY <4>2, <1>2, <2>1
    <3>2. CASE k = 1
      BY <3>1, <3>2, <2>1
    <3>3. CASE k # 1
      <4>1. k - 1 \in (1 .. Len(ch[n])) \cap (1 .. Len(ch[m]))
        BY <1>2, <2>1, <3>3
      <4>2. ch[m][k].prev = PrevAt(ch[m], k)
        BY <1>2, <2>1 DEF Linked
      <4>3. ch[n][k - 1].hash = ch[m][k - 1].hash
        BY <4>2, <3>1, <3>3 DEF PrevAt
      <4>4. \A i \in 1 .. k - 1 : ch[n][i] = ch[m][i]
        BY <4>1, <4>3 DEF Past
      <4> QED
        BY <4>4, <3>1, <2>1
    <3> QED
      BY <3>2, <3>3
  <2>2. CASE h # k
    <3>1. h \in 1 .. k - 1 /\ h \in (1 .. Len(ch[n])) \cap (1 .. Len(ch[m]))
      BY <1>2, <2>2
    <3>2. ch[n][h].hash = ch[m][h].hash
      BY <3>1, <1>2
    <3>3. \A i \in 1 .. h : ch[n][i] = ch[m][i]
      BY <3>1, <3>2 DEF Past
    <3> QED
      BY <3>1, <3>3
  <2> QED
    BY <2>1, <2>2
<1>3. Past(new)
  <2> SUFFICES ASSUME NEW m \in Nodes, NEW l \in Nodes,
                      NEW h \in (1 .. Len(new[m])) \cap (1 .. Len(new[l])),
                      new[m][h].hash = new[l][h].hash
               PROVE  \A i \in 1 .. h : new[m][i] = new[l][i]
    BY DEF Past
  <2>1. CASE m # n /\ l # n
    BY <2>1, <1>0 DEF Past
  <2>2. CASE m = n /\ l # n
    BY <2>2, <1>0, <1>2
  <2>3. CASE m # n /\ l = n
    BY <2>3, <1>0, <1>2
  <2>4. CASE m = n /\ l = n
    BY <2>4
  <2> QED
    BY <2>1, <2>2, <2>3, <2>4
<1> QED
  BY <1>1, <1>3

-----------------------------------------------------------------------------
(***************************************************************************)
(* The forms of a synchronisation                                           *)
(***************************************************************************)

\* The fields of a synchronisation, by what it does.
LEMMA SyncForms ==
    ASSUME NEW s \in Sync
    PROVE  /\ s.op = "ask" => s.peer \in Nodes
           /\ s.op = "apply" => /\ s \in [op : {"apply"}, peer : Nodes,
                                         batch : Seq(Block), more : BOOLEAN]
                                /\ s.peer \in Nodes /\ s.batch \in Seq(Block)
           /\ s.op = "push" => /\ s \in [op : {"push"}, peer : Nodes, next : Nat, last : Nat]
                               /\ s.peer \in Nodes /\ s.next \in Nat /\ s.last \in Nat
<1>1. CASE s = Idle
  BY <1>1 DEF Idle
<1>2. CASE s # Idle
  BY <1>2 DEF Sync
<1> QED
  BY <1>1, <1>2

\* Synchronisations without a batch are within any chain.
LEMMA SyncMade ==
    /\ Idle \in Sync
    /\ \A c : Within(Idle, c)
    /\ \A p \in Nodes : Pulling(p) \in Sync /\ \A c : Within(Pulling(p), c)
BY DEF Idle, Pulling, Sync, Within

\* A longer chain has what was to be sent.
LEMMA WithinGrown ==
    ASSUME NEW s \in Sync, NEW c \in Seq(Block), NEW d \in Seq(Block),
           Within(s, c), Len(c) <= Len(d)
    PROVE  Within(s, d)
BY SyncForms DEF Within

-----------------------------------------------------------------------------
(***************************************************************************)
(* Accepting a block                                                        *)
(***************************************************************************)

\* add_block leaves the chain, replaces its tip or extends it.
LEMMA ChainWithForms ==
    ASSUME NEW b \in Block, NEW c \in Seq(Block), Accepts(b, c)
    PROVE  \/ ChainWith(b, c) = c
           \/ Wins(b, c) /\ ChainWith(b, c) = Append(Front(c), b)
           \/ Extends(b, c) /\ ChainWith(b, c) = Append(c, b)
BY DEF Accepts, ChainWith

\* A block somebody has, accepted by a node.
LEMMA Adopted ==
    ASSUME Ancestry, NEW n \in Nodes, NEW b \in Held, Accepts(b, chain[n])
    PROVE  /\ ChainWith(b, chain[n]) \in Seq(Block)
           /\ Len(chain[n]) <= Len(ChainWith(b, chain[n]))
           /\ Linked([chain EXCEPT ![n] = ChainWith(b, chain[n])])
           /\ Past([chain EXCEPT ![n] = ChainWith(b, chain[n])])
           /\ \A d \in Block :
                InChain([chain EXCEPT ![n] = ChainWith(b, chain[n])], d) => d \in Held
<1> DEFINE old == chain[n]
           c == ChainWith(b, chain[n])
           new == [chain EXCEPT ![n] = c]
<1>0. /\ chain \in [Nodes -> Seq(Block)] /\ old \in Seq(Block) /\ b \in Block
      /\ Linked(chain) /\ Past(chain) /\ OneBlock
      /\ \A d \in Block : InChain(chain, d) => d \in Held
  BY DEF Ancestry, TypeOK, Held
<1>1. \A d \in Block : InChain(chain, d) /\ d.hash = b.hash => d = b
  BY <1>0 DEF OneBlock, Unique
<1>2. SUFFICES /\ c \in Seq(Block) /\ Len(old) <= Len(c)
               /\ Linked(new) /\ Past(new)
               /\ \A i \in 1 .. Len(c) : c[i] = b \/ (i \in 1 .. Len(old) /\ c[i] = old[i])
  <2> SUFFICES ASSUME NEW d \in Block, InChain(new, d),
                      /\ c \in Seq(Block)
                      /\ \A i \in 1 .. Len(c) :
                            c[i] = b \/ (i \in 1 .. Len(old) /\ c[i] = old[i])
               PROVE  d \in Held
    OBVIOUS
  <2>0. PICK m \in Nodes : \E i \in 1 .. Len(new[m]) : d = new[m][i]
    BY DEF InChain
  <2>1. PICK i \in 1 .. Len(new[m]) : d = new[m][i]
    BY <2>0
  <2>2. CASE m = n
    <3>1. i \in 1 .. Len(c) /\ d = c[i]
      BY <2>1, <2>2, <1>0
    <3>2. CASE d = b
      BY <3>2
    <3>3. CASE i \in 1 .. Len(old) /\ d = old[i]
      BY <3>3, <1>0 DEF InChain
    <3> QED
      BY <3>1, <3>2, <3>3
  <2>3. CASE m # n
    BY <2>1, <2>3, <1>0 DEF InChain
  <2> QED
    BY <2>2, <2>3
<1>3. CASE c = old
  <2>1. new = chain
    BY <1>3, <1>0
  <2> HIDE DEF c, new
  <2> QED
    BY <2>1, <1>3, <1>0
<1>4. CASE Wins(b, old) /\ c = Append(Front(old), b)
  <2>1. old # <<>> /\ b.prev = old[Len(old)].prev
    BY <1>4 DEF Wins
  <2>2. Len(old) \in Nat /\ Len(old) >= 1
    BY <2>1, <1>0, EmptySeq
  <2>3. /\ c \in Seq(Block) /\ Len(c) = Len(old) /\ c[Len(old)] = b
        /\ \A i \in 1 .. Len(old) - 1 : c[i] = old[i]
    <3>1. /\ Front(old) \in Seq(Block) /\ Len(Front(old)) = Len(old) - 1
          /\ \A i \in 1 .. Len(old) - 1 : Front(old)[i] = old[i]
      <4> DEFINE l == Len(old) - 1
      <4>1. l \in Int /\ l >= 0 /\ \A i \in 1 .. l : old[i] \in Block
        BY <2>2, <1>0
      <4>2. Front(old) = SubSeq(old, 1, l)
        BY DEF Front
      <4> HIDE DEF l
      <4>3. /\ SubSeq(old, 1, l) \in Seq(Block)
            /\ Len(SubSeq(old, 1, l)) = IF 1 <= l THEN l - 1 + 1 ELSE 0
            /\ \A i \in 1 .. l - 1 + 1 : SubSeq(old, 1, l)[i] = old[1 + i - 1]
        BY <4>1, SubSeqProperties, SMT
      <4>4. /\ SubSeq(old, 1, l) \in Seq(Block)
            /\ Len(SubSeq(old, 1, l)) = l
            /\ \A i \in 1 .. l : SubSeq(old, 1, l)[i] = old[i]
        BY <4>1, <4>3
      <4> QED
        BY <4>2, <4>4 DEF l
    <3> QED
      BY <3>1, <1>4, <1>0, <2>2
  <2> DEFINE k == Len(old)
  <2>4. /\ k \in Nat /\ k >= 1 /\ k <= Len(old) + 1 /\ Len(c) = k /\ c[k] = b
        /\ \A i \in 1 .. k - 1 : c[i] = old[i]
        /\ b.prev = PrevAt(old, k)
    BY <2>1, <2>2, <2>3, <1>0 DEF Linked
  <2> HIDE DEF c, k
  <2>5. Linked(new) /\ Past(new)
    BY <1>0, <1>1, <2>3, <2>4, Placed
  <2> QED
    BY <2>3, <2>5, <2>2
<1>5. CASE Extends(b, old) /\ c = Append(old, b)
  <2>1. /\ c \in Seq(Block) /\ Len(c) = Len(old) + 1 /\ c[Len(old) + 1] = b
        /\ \A i \in 1 .. Len(old) : c[i] = old[i]
        /\ Len(old) \in Nat
    BY <1>5, <1>0
  <2> DEFINE k == Len(old) + 1
  <2>2. /\ k \in Nat /\ k >= 1 /\ k <= Len(old) + 1 /\ Len(c) = k /\ c[k] = b
        /\ \A i \in 1 .. k - 1 : c[i] = old[i]
        /\ b.prev = PrevAt(old, k)
    BY <1>5, <1>0, <2>1 DEF Extends, TipHash, PrevAt
  <2> HIDE DEF c, k
  <2>3. Linked(new) /\ Past(new)
    BY <1>0, <1>1, <2>1, <2>2, Placed
  <2> QED
    BY <2>1, <2>3
<1> QED
  BY <1>0, <1>3, <1>4, <1>5, ChainWithForms

-----------------------------------------------------------------------------
(***************************************************************************)
(* What a step may do                                                       *)
(***************************************************************************)

\* Chains that only blocks somebody has were added to.
Grown(new) ==
    /\ new \in [Nodes -> Seq(Block)]
    /\ Linked(new) /\ Past(new)
    /\ \A d \in Block : InChain(new, d) => d \in Held
    /\ \A m \in Nodes : Len(chain[m]) <= Len(new[m])

\* A synchronisation that has what it needs.
Sound(s, c, H) ==
    /\ s \in Sync
    /\ Within(s, c)
    /\ s.op = "apply" => \A i \in 1 .. Len(s.batch) : s.batch[i] \in H

\* Chains that stay have grown.
LEMMA GrownByNone ==
    ASSUME Ancestry
    PROVE  Grown(chain)
BY LenProperties DEF Ancestry, TypeOK, Grown, Held

\* So have they when one node takes a block.
LEMMA GrownByOne ==
    ASSUME Ancestry, NEW n \in Nodes, NEW b \in Held, Accepts(b, chain[n])
    PROVE  Grown([chain EXCEPT ![n] = ChainWith(b, chain[n])])
<1> DEFINE c == ChainWith(b, chain[n])
           new == [chain EXCEPT ![n] = c]
<1>1. /\ c \in Seq(Block) /\ Len(chain[n]) <= Len(c)
      /\ Linked(new) /\ Past(new)
      /\ \A d \in Block : InChain(new, d) => d \in Held
  BY Adopted
<1>2. chain \in [Nodes -> Seq(Block)]
  BY DEF Ancestry, TypeOK
<1>3. new \in [Nodes -> Seq(Block)] /\ \A m \in Nodes : Len(chain[m]) <= Len(new[m])
  <2> HIDE DEF c
  <2> QED
    BY <1>1, <1>2, LenProperties
<1> QED
  BY <1>1, <1>3 DEF Grown

\* And when a broadcast block arrives.
LEMMA GrownByPost ==
    ASSUME Ancestry, NEW n \in Nodes, NEW b \in Held
    PROVE  Grown([chain EXCEPT ![n] = ChainAfterPost(b, chain[n])])
<1>1. CASE ~ Older(b, chain[n]) /\ Accepts(b, chain[n])
  BY <1>1, GrownByOne DEF ChainAfterPost
<1>2. CASE ~ (~ Older(b, chain[n]) /\ Accepts(b, chain[n]))
  <2>1. [chain EXCEPT ![n] = ChainAfterPost(b, chain[n])] = chain
    BY <1>2 DEF ChainAfterPost, Ancestry, TypeOK
  <2> QED
    BY <2>1, GrownByNone
<1> QED
  BY <1>1, <1>2

\* The invariant says so of every node.
LEMMA SyncIsSound ==
    ASSUME Ancestry, NEW n \in Nodes
    PROVE  Sound(sync[n], chain[n], Held)
<1>1. sync[n] \in Sync /\ Within(sync[n], chain[n])
  BY DEF Ancestry, TypeOK, Inside
<1>2. ASSUME sync[n].op = "apply", NEW i \in 1 .. Len(sync[n].batch)
      PROVE  sync[n].batch[i] \in Held
  <2>1. sync[n].batch[i] \in Block
    BY <1>1, <1>2, SyncForms
  <2> QED
    BY <1>2, <2>1 DEF Held, InBatch
<1> QED
  BY <1>1, <1>2 DEF Sound

\* A synchronisation stays sound as chains and blocks become more.
LEMMA StillSound ==
    ASSUME NEW H, NEW G, H \subseteq G, NEW s,
           NEW c \in Seq(Block), NEW d \in Seq(Block), Len(c) <= Len(d), Sound(s, c, H)
    PROVE  Sound(s, d, G)
BY WithinGrown DEF Sound

\* Without a batch there is nothing to be sound about.
LEMMA EasilySound ==
    ASSUME NEW H, NEW c
    PROVE  Sound(Idle, c, H) /\ \A p \in Nodes : Sound(Pulling(p), c, H)
BY SyncMade DEF Sound, Idle, Pulling

\* After such a step a block still fixes its past.
LEMMA Preserved ==
    ASSUME Ancestry, NEW H, Unique(H),
           chain' \in [Nodes -> Seq(Block)], Linked(chain'), Past(chain'),
           \A d \in Block : InChain(chain', d) => d \in H,
           sync' \in [Nodes -> Sync],
           \A m \in Nodes : Sound(sync'[m], chain'[m], H),
           posts' \subseteq Post, \A m \in posts' : m.block \in H,
           peers' \in [Nodes -> SUBSET Nodes], connected' \in [Nodes -> SUBSET Nodes],
           listening' \in [Nodes -> BOOLEAN],
           busy' \in [Nodes -> BOOLEAN], losses' \in Nat, restarts' \in Nat
    PROVE  Ancestry'
<1>1. TypeOK'
  BY DEF TypeOK
<1>2. Inside'
  BY DEF Inside, Sound
<1>3. \A d \in Held' : d \in H
  <2> SUFFICES ASSUME NEW d \in Block,
                      InChain(chain', d) \/ InBatch(sync', d) \/ InPost(posts', d)
               PROVE  d \in H
    BY DEF Held
  <2>1. CASE InBatch(sync', d)
    BY <2>1 DEF InBatch, Sound
  <2>2. CASE InPost(posts', d)
    BY <2>2 DEF InPost
  <2> QED
    BY <2>1, <2>2
<1>4. OneBlock'
  BY <1>3 DEF OneBlock, Unique
<1> QED
  BY <1>1, <1>2, <1>4 DEF Ancestry

\* A broadcast is made of posts of that block.
LEMMA PostsMade ==
    ASSUME NEW b \in Block, NEW n \in Nodes, NEW T \in SUBSET Nodes
    PROVE  PostsOf(b, n, T) \subseteq Post /\ \A m \in PostsOf(b, n, T) : m.block = b
BY DEF PostsOf, Post

\* A post that a node accepts is passed on, and what it makes the node do.
LEMMA PostsPassedOn ==
    ASSUME Ancestry, NEW m \in Post, m.block \in Held
    PROVE  /\ PassedOn(m) \subseteq Post
           /\ \A o \in PassedOn(m) : o.block \in Held
<1>1. /\ m.block \in Block /\ m.to \in Nodes
      /\ connected[m.to] \ {m.from} \in SUBSET Nodes
  BY DEF Post, Ancestry, TypeOK
<1> DEFINE made == PostsOf(m.block, m.to, connected[m.to] \ {m.from})
<1>2. made \subseteq Post /\ \A o \in made : o.block = m.block
  BY <1>1, PostsMade
<1>3. PassedOn(m) \subseteq made
  BY DEF PassedOn
<1> QED
  BY <1>2, <1>3

\* A post leaves the synchronisation of its receiver sound.
LEMMA SyncAfterPostIsSound ==
    ASSUME NEW m \in Post, NEW c, NEW H, Sound(sync[m.to], c, H)
    PROVE  Sound(SyncAfterPost(m), c, H)
BY EasilySound DEF SyncAfterPost, Post

\* A step that changes no chain, and whose posts were blocks before.
LEMMA PreservedByTalk ==
    ASSUME Ancestry, chain' = chain,
           sync' \in [Nodes -> Sync],
           \A m \in Nodes : Sound(sync'[m], chain[m], Held),
           posts' \subseteq Post, \A m \in posts' : m.block \in Held,
           peers' \in [Nodes -> SUBSET Nodes], connected' \in [Nodes -> SUBSET Nodes],
           listening' \in [Nodes -> BOOLEAN],
           busy' \in [Nodes -> BOOLEAN], losses' \in Nat, restarts' \in Nat
    PROVE  Ancestry'
<1>1. /\ chain \in [Nodes -> Seq(Block)] /\ Linked(chain) /\ Past(chain)
      /\ \A d \in Block : InChain(chain, d) => d \in Held
  BY GrownByNone DEF Grown
<1>2. Unique(Held)
  BY DEF Ancestry, OneBlock
<1> DEFINE H == Held
<1> HIDE DEF H
<1>3. /\ Unique(H)
      /\ \A d \in Block : InChain(chain, d) => d \in H
      /\ \A m \in Nodes : Sound(sync'[m], chain[m], H)
      /\ \A m \in posts' : m.block \in H
  BY <1>1, <1>2 DEF H
<1> QED
  BY <1>1, <1>3, Preserved

\* What the posts and the synchronisations carry before a step.
LEMMA Before ==
    ASSUME Ancestry
    PROVE  /\ posts \subseteq Post /\ \A m \in posts : m.block \in Held
           /\ sync \in [Nodes -> Sync]
           /\ \A n \in Nodes : Sound(sync[n], chain[n], Held)
           /\ peers \in [Nodes -> SUBSET Nodes] /\ connected \in [Nodes -> SUBSET Nodes]
           /\ listening \in [Nodes -> BOOLEAN]
           /\ busy \in [Nodes -> BOOLEAN] /\ losses \in Nat /\ restarts \in Nat
           /\ chain \in [Nodes -> Seq(Block)]
<1>1. TypeOK
  BY DEF Ancestry
<1>2. \A m \in posts : m.block \in Held
  BY <1>1 DEF TypeOK, Post, Held, InPost
<1> QED
  BY <1>1, <1>2, SyncIsSound DEF TypeOK

\* A step that adds blocks that somebody has.
LEMMA PreservedByGrowth ==
    ASSUME Ancestry, Grown(chain'),
           sync' \in [Nodes -> Sync],
           \A m \in Nodes : Sound(sync'[m], chain[m], Held),
           posts' \subseteq Post, \A m \in posts' : m.block \in Held,
           peers' \in [Nodes -> SUBSET Nodes], connected' \in [Nodes -> SUBSET Nodes],
           listening' \in [Nodes -> BOOLEAN],
           busy' \in [Nodes -> BOOLEAN], losses' \in Nat, restarts' \in Nat
    PROVE  Ancestry'
<1> DEFINE H == Held
<1>1. Unique(H)
  BY DEF Ancestry, OneBlock
<1>2. /\ chain' \in [Nodes -> Seq(Block)] /\ Linked(chain') /\ Past(chain')
      /\ \A d \in Block : InChain(chain', d) => d \in H
      /\ \A m \in Nodes : Len(chain[m]) <= Len(chain'[m])
  BY DEF Grown
<1>3. ASSUME NEW m \in Nodes
      PROVE  Sound(sync'[m], chain'[m], H)
  <2>1. chain[m] \in Seq(Block) /\ chain'[m] \in Seq(Block)
    BY <1>2, Before
  <2>2. Sound(sync'[m], chain[m], H) /\ H \subseteq H
    OBVIOUS
  <2> HIDE DEF H
  <2> QED
    BY <1>2, <2>1, <2>2, StillSound
<1>4. \A m \in posts' : m.block \in H
  OBVIOUS
<1> HIDE DEF H
<1> QED
  BY <1>1, <1>2, <1>3, <1>4, Preserved

\* A block somewhere keeps its hash in use.
LEMMA HeldIsInUse ==
    ASSUME Ancestry, NEW d \in Held
    PROVE  d.hash \in HashesInUse
<1>1. /\ chain \in [Nodes -> Seq(Block)] /\ \A n \in Nodes : sync[n] \in Sync
  BY Before
<1>2. CASE InChain(chain, d)
  <2>1. PICK n \in Nodes : \E i \in 1 .. Len(chain[n]) : d = chain[n][i]
    BY <1>2 DEF InChain
  <2>2. d \in Range(chain[n])
    BY <1>1, <2>1, LenProperties DEF Range
  <2> QED
    BY <2>2 DEF HashesInUse
<1>3. CASE InBatch(sync, d)
  <2>1. PICK n \in Nodes : sync[n].op = "apply"
                           /\ \E i \in 1 .. Len(sync[n].batch) : d = sync[n].batch[i]
    BY <1>3 DEF InBatch
  <2>2. sync[n].batch \in Seq(Block)
    BY <1>1, <2>1, SyncForms
  <2>3. d \in BatchOf(sync[n])
    BY <2>1, <2>2, LenProperties DEF BatchOf, Range
  <2> QED
    BY <2>3 DEF HashesInUse
<1>4. CASE InPost(posts, d)
  BY <1>4 DEF InPost, HashesInUse
<1> QED
  BY <1>2, <1>3, <1>4 DEF Held

-----------------------------------------------------------------------------
(***************************************************************************)
(* The actions                                                              *)
(***************************************************************************)

\* Steps that move no block.
LEMMA TalkPreserves ==
    ASSUME Ancestry, NetworkConstants, NEW n \in Nodes,
           \/ EndBroadcast(n)
           \/ AddPeer(n)
           \/ \E p \in Nodes : HandshakeFails(n, p)
           \/ LosePost
           \/ Listen(n)
           \/ UNCHANGED vars
    PROVE  Ancestry'
<1>1. CASE EndBroadcast(n)
  BY <1>1, Before, PreservedByTalk DEF EndBroadcast, network, bounded
<1>2. CASE AddPeer(n)
  BY <1>2, Before, PreservedByTalk DEF AddPeer, PostPeers, Unknown, bounded
<1>3. ASSUME NEW p \in Nodes, HandshakeFails(n, p)
      PROVE  Ancestry'
  BY <1>3, Before, PreservedByTalk DEF HandshakeFails, Fails
<1>4. CASE LosePost
  BY <1>4, Before, PreservedByTalk DEF LosePost, Fails, network
<1>5. CASE UNCHANGED vars
  BY <1>5, Before, PreservedByTalk DEF vars
<1>6. CASE Listen(n)
  BY <1>6, Before, PreservedByTalk DEF Listen, bounded
<1> QED
  BY <1>1, <1>2, <1>3, <1>4, <1>5, <1>6

\* A handshake.
LEMMA HandshakePreserves ==
    ASSUME Ancestry, NEW n \in Nodes, NEW p \in Nodes, Handshake(n, p)
    PROVE  Ancestry'
<1>1. Sound(SyncAfterGreeting(p, Len(chain[p]), chain[n], sync[n]), chain[n], Held)
  <2> DEFINE h == Len(chain[p])
             pushing == [op |-> "push", peer |-> p, next |-> h + 1, last |-> Len(chain[n])]
  <2>1. h \in Nat /\ Len(chain[n]) \in Nat
    BY Before, LenProperties
  <2>2. ASSUME h < Len(chain[n])
        PROVE  Sound(pushing, chain[n], Held)
    BY <2>1, <2>2 DEF Sound, Sync, Within
  <2>3. CASE sync[n] = Idle /\ h > Len(chain[n])
    <3>1. SyncAfterGreeting(p, h, chain[n], sync[n]) = Pulling(p)
      BY <2>3, <2>1 DEF SyncAfterGreeting
    <3> QED
      BY <3>1, EasilySound
  <2>4. CASE sync[n] = Idle /\ h < Len(chain[n])
    BY <2>4, <2>1, <2>2 DEF SyncAfterGreeting
  <2>5. CASE ~ (sync[n] = Idle /\ h > Len(chain[n])) /\ ~ (sync[n] = Idle /\ h < Len(chain[n]))
    BY <2>5, Before DEF SyncAfterGreeting
  <2> QED
    BY <2>3, <2>4, <2>5
<1> DEFINE s == SyncAfterGreeting(p, Len(chain[p]), chain[n], sync[n])
<1>2. s \in Sync
  BY <1>1 DEF Sound
<1>3. chain' = chain /\ posts' = posts /\ busy' = busy /\ UNCHANGED bounded
      /\ sync' = [sync EXCEPT ![n] = s]
  BY DEF Handshake, Greeting
<1>4. peers' \in [Nodes -> SUBSET Nodes] /\ connected' \in [Nodes -> SUBSET Nodes]
      /\ listening' \in [Nodes -> BOOLEAN]
  BY Before DEF Handshake, Unknown, Registered, Greeting
<1> HIDE DEF s
<1>5. sync' \in [Nodes -> Sync] /\ \A m \in Nodes : Sound(sync'[m], chain[m], Held)
  BY <1>1, <1>2, <1>3, Before DEF s
<1> QED
  BY <1>3, <1>4, <1>5, Before, PreservedByTalk DEF bounded

\* A restart.
LEMMA RestartPreserves ==
    ASSUME Ancestry, NetworkConstants, NEW n \in Nodes, Restart(n)
    PROVE  Ancestry'
<1>1. sync' \in [Nodes -> Sync] /\ \A m \in Nodes : Sound(sync'[m], chain[m], Held)
  BY Before, EasilySound, SyncMade DEF Restart, Halted
<1>2. posts' \subseteq posts
  BY DEF Restart, Halted
<1>3. peers' \in [Nodes -> SUBSET Nodes] /\ connected' \in [Nodes -> SUBSET Nodes]
      /\ busy' \in [Nodes -> BOOLEAN] /\ listening' \in [Nodes -> BOOLEAN]
  BY Before DEF Restart, Halted, StopsListening, Started, NetworkConstants
<1> QED
  BY <1>1, <1>2, <1>3, Before, PreservedByTalk DEF Restart

\* A synchronisation that breaks off.
LEMMA SyncFailsPreserves ==
    ASSUME Ancestry, NEW n \in Nodes, SyncFails(n)
    PROVE  Ancestry'
<1>1. sync' \in [Nodes -> Sync] /\ \A m \in Nodes : Sound(sync'[m], chain[m], Held)
  BY Before, EasilySound, SyncMade DEF SyncFails
<1>2. posts' \subseteq Post /\ \A m \in posts' : m.block \in Held
  <2>1. CASE posts' = posts
    BY <2>1, Before
  <2>2. CASE /\ sync[n].op = "push"
             /\ posts' = posts \cup PostsOf(chain[n][sync[n].next], n, {sync[n].peer})
    <3>1. /\ sync[n].next \in 1 .. Len(chain[n]) /\ sync[n].peer \in Nodes
          /\ chain[n] \in Seq(Block)
      <4>1. /\ sync[n].next \in 1 .. sync[n].last /\ sync[n].last <= Len(chain[n])
            /\ sync[n].next \in Nat /\ sync[n].last \in Nat /\ sync[n].peer \in Nodes
            /\ chain[n] \in Seq(Block)
        BY <2>2, Before, SyncForms DEF Sound, Within
      <4> QED
        BY <4>1, LenProperties
    <3>2. chain[n][sync[n].next] \in Block /\ chain[n][sync[n].next] \in Held
      BY <3>1 DEF Held, InChain
    <3>3. \A m \in PostsOf(chain[n][sync[n].next], n, {sync[n].peer}) :
              m \in Post /\ m.block \in Held
      BY <3>1, <3>2, PostsMade
    <3>4. posts \subseteq Post /\ \A m \in posts : m.block \in Held
      BY Before
    <3> QED
      BY <2>2, <3>3, <3>4
  <2> QED
    BY <2>1, <2>2 DEF SyncFails
<1> QED
  BY <1>1, <1>2, Before, PreservedByTalk DEF SyncFails, Fails, network

\* A node asks a peer for blocks.
LEMMA AskPreserves ==
    ASSUME Ancestry, NetworkConstants, NEW n \in Nodes, Ask(n)
    PROVE  Ancestry'
<1> DEFINE p == sync[n].peer
           batch == BlocksAfter(chain[p], Len(chain[n]))
           applying == [op |-> "apply", peer |-> p, batch |-> batch, more |-> Len(batch) = Limit]
<1>1. p \in Nodes /\ chain[p] \in Seq(Block) /\ chain[n] \in Seq(Block)
  BY Before, SyncForms DEF Ask
<1>2. batch \in Seq(Block) /\ \A i \in 1 .. Len(batch) : batch[i] \in Held
  <2> DEFINE f == Len(chain[n]) + 1
             l == IF Len(chain[p]) < Len(chain[n]) + Limit
                  THEN Len(chain[p]) ELSE Len(chain[n]) + Limit
  <2>1. /\ f \in Nat /\ f >= 1 /\ l \in Nat /\ l <= Len(chain[p])
    BY <1>1, LenProperties DEF NetworkConstants
  <2>2. batch = SubSeq(chain[p], f, l)
    BY DEF BlocksAfter
  <2> HIDE DEF batch, f, l, p
  <2>3. \A i \in f .. l : i \in 1 .. Len(chain[p]) /\ chain[p][i] \in Block
    BY <1>1, <2>1
  <2>4. f \in Int /\ l \in Int /\ \A i \in f .. l : chain[p][i] \in Block
    BY <2>1, <2>3
  <2>5. /\ batch \in Seq(Block)
        /\ Len(batch) = IF f <= l THEN l - f + 1 ELSE 0
        /\ \A i \in 1 .. l - f + 1 : batch[i] = chain[p][f + i - 1]
    BY <2>2, <2>4, SubSeqProperties, SMT
  <2>6. ASSUME NEW i \in 1 .. Len(batch)
        PROVE  batch[i] \in Held
    <3> DEFINE j == f + i - 1
    <3>1. j \in f .. l /\ batch[i] = chain[p][j]
      BY <2>1, <2>5
    <3> HIDE DEF j
    <3>2. j \in 1 .. Len(chain[p]) /\ batch[i] \in Block
      BY <3>1, <2>3
    <3> QED
      BY <3>1, <3>2, <1>1 DEF Held, InChain
  <2> QED
    BY <2>5, <2>6
<1>3. batch # <<>> => Sound(applying, chain[n], Held)
  <2> HIDE DEF batch, p
  <2> QED
    BY <1>1, <1>2 DEF Sound, Sync, Within
<1> DEFINE s == IF batch = <<>> THEN Idle ELSE applying
<1>4. Sound(s, chain[n], Held)
  BY <1>3, EasilySound
<1>5. sync' = [sync EXCEPT ![n] = s]
  BY DEF Ask
<1> HIDE DEF s
<1>6. sync' \in [Nodes -> Sync] /\ \A m \in Nodes : Sound(sync'[m], chain[m], Held)
  BY <1>4, <1>5, Before DEF Sound
<1> QED
  BY <1>6, Before, PreservedByTalk DEF Ask, network, bounded

\* A block of the batch is done with, taken or not.
LEMMA SyncAfterBlockIsSound ==
    ASSUME NEW H, NEW c, NEW s \in Sync, s.op = "apply", Sound(s, c, H), NEW ok
    PROVE  Sound(SyncAfterBlock(s, ok), c, H)
<1>1. /\ s \in [op : {"apply"}, peer : Nodes, batch : Seq(Block), more : BOOLEAN]
      /\ s.peer \in Nodes /\ s.batch \in Seq(Block) /\ s.batch # <<>>
      /\ \A i \in 1 .. Len(s.batch) : s.batch[i] \in H
  BY SyncForms DEF Sound, Within
<1> DEFINE t == Tail(s.batch)
           rest == [s EXCEPT !.batch = t]
<1>2. /\ t \in Seq(Block) /\ Len(t) = Len(s.batch) - 1 /\ Len(s.batch) \in Nat
      /\ \A i \in 1 .. Len(t) : t[i] = s.batch[i + 1]
  BY <1>1, HeadTailProperties
<1>3. ASSUME Len(s.batch) > 1
      PROVE  Sound(rest, c, H)
  <2> HIDE DEF t
  <2>1. /\ rest \in [op : {"apply"}, peer : Nodes, batch : Seq(Block), more : BOOLEAN]
        /\ rest.op = "apply" /\ rest.batch = t
    BY <1>1, <1>2
  <2>2. t # <<>> /\ \A i \in 1 .. Len(t) : t[i] \in H
    BY <1>1, <1>2, <1>3
  <2> QED
    BY <2>1, <2>2 DEF Sound, Sync, Within
<1>4. \/ SyncAfterBlock(s, ok) \in {Idle, Pulling(s.peer)}
      \/ Len(s.batch) > 1 /\ SyncAfterBlock(s, ok) = rest
  BY <1>2 DEF SyncAfterBlock
<1>5. CASE SyncAfterBlock(s, ok) \in {Idle, Pulling(s.peer)}
  <2>1. Sound(Idle, c, H) /\ Sound(Pulling(s.peer), c, H)
    BY <1>1, EasilySound
  <2> QED
    BY <1>5, <2>1
<1>6. CASE Len(s.batch) > 1 /\ SyncAfterBlock(s, ok) = rest
  BY <1>3, <1>6
<1> QED
  BY <1>4, <1>5, <1>6

\* A pulled block is taken or refused.
LEMMA ApplyPulledPreserves ==
    ASSUME Ancestry, NEW n \in Nodes, ApplyPulled(n)
    PROVE  Ancestry'
<1> DEFINE b == Head(sync[n].batch)
           ok == Accepts(b, chain[n])
<1>1. sync[n] \in Sync /\ sync[n].op = "apply" /\ Sound(sync[n], chain[n], Held)
  BY Before DEF ApplyPulled
<1>2. b \in Held
  <2>1. sync[n].batch \in Seq(Block) /\ sync[n].batch # <<>>
        /\ \A i \in 1 .. Len(sync[n].batch) : sync[n].batch[i] \in Held
    BY <1>1, SyncForms DEF Sound, Within
  <2>2. 1 \in 1 .. Len(sync[n].batch) /\ b = sync[n].batch[1]
    BY <2>1, HeadTailProperties, EmptySeq, LenProperties
  <2> QED
    BY <2>1, <2>2
<1>3. chain' = [chain EXCEPT ![n] = IF ok THEN ChainWith(b, chain[n]) ELSE chain[n]]
  BY DEF ApplyPulled
<1>4. Grown(chain')
  <2>1. CASE ok
    BY <2>1, <1>2, <1>3, GrownByOne
  <2>2. CASE ~ ok
    BY <2>2, <1>3, Before, GrownByNone
  <2> QED
    BY <2>1, <2>2
<1> DEFINE s == SyncAfterBlock(sync[n], ok)
<1>6. sync' = [sync EXCEPT ![n] = s]
  BY DEF ApplyPulled
<1>7. Sound(s, chain[n], Held)
  BY <1>1, SyncAfterBlockIsSound
<1> HIDE DEF s
<1>8. sync' \in [Nodes -> Sync] /\ \A m \in Nodes : Sound(sync'[m], chain[m], Held)
  BY <1>6, <1>7, Before DEF Sound
<1>9. UNCHANGED <<peers, connected, listening, posts, busy, losses, restarts>>
  BY DEF ApplyPulled, network, bounded
<1> QED
  BY <1>4, <1>8, <1>9, Before, PreservedByGrowth

\* A broadcast block is taken or refused.
LEMMA ReceiveBlockPreserves ==
    ASSUME Ancestry, NEW n \in Nodes, ReceiveBlock(n)
    PROVE  Ancestry'
<1>1. PICK m \in posts :
        /\ m.to = n
        /\ chain' = [chain EXCEPT ![n] = ChainAfterPost(m.block, chain[n])]
        /\ posts' = (posts \ {m}) \cup PassedOn(m)
        /\ sync' = [sync EXCEPT ![n] = SyncAfterPost(m)]
  BY DEF ReceiveBlock
<1>2. m \in Post /\ m.block \in Held
  BY Before
<1>3. Grown(chain')
  BY <1>1, <1>2, GrownByPost
<1>4. posts' \subseteq Post /\ \A o \in posts' : o.block \in Held
  BY <1>1, <1>2, Before, PostsPassedOn
<1>5. Sound(SyncAfterPost(m), chain[n], Held)
  BY <1>1, <1>2, Before, SyncAfterPostIsSound
<1>6. sync' \in [Nodes -> Sync] /\ \A o \in Nodes : Sound(sync'[o], chain[o], Held)
  BY <1>1, <1>5, Before DEF Sound
<1>7. UNCHANGED <<peers, connected, listening, busy, losses, restarts>>
  BY DEF ReceiveBlock, network, bounded
<1> QED
  BY <1>3, <1>4, <1>6, <1>7, Before, PreservedByGrowth

\* A block is pushed to a peer.
LEMMA PushBlockPreserves ==
    ASSUME Ancestry, NEW n \in Nodes, PushBlock(n)
    PROVE  Ancestry'
<1> DEFINE s == sync[n]
           p == s.peer
           b == chain[n][s.next]
           m == [to |-> p, from |-> n, block |-> b]
           taken == Older(b, chain[p]) \/ Accepts(b, chain[p])
           next == IF taken /\ s.next < s.last THEN [s EXCEPT !.next = @ + 1] ELSE Idle
<1>1. /\ s \in [op : {"push"}, peer : Nodes, next : Nat, last : Nat]
      /\ s.op = "push" /\ p \in Nodes /\ s.next \in Nat /\ s.last \in Nat
      /\ s.next \in 1 .. s.last /\ s.last <= Len(chain[n])
      /\ chain[n] \in Seq(Block)
  BY Before, SyncForms DEF PushBlock, Sound, Within
<1>2. b \in Block /\ b \in Held
  <2>1. s.next \in 1 .. Len(chain[n])
    BY <1>1, LenProperties
  <2> QED
    BY <2>1, <1>1 DEF Held, InChain
<1>3. m \in Post /\ m.block \in Held /\ m.to = p /\ m.block = b
  BY <1>1, <1>2 DEF Post
<1>4. Grown(chain')
  BY <1>1, <1>2, GrownByPost DEF PushBlock
<1>5. posts' \subseteq Post /\ \A o \in posts' : o.block \in Held
  <2>1. posts' = posts \cup PassedOn(m)
    BY DEF PushBlock
  <2> HIDE DEF m
  <2> QED
    BY <2>1, <1>3, Before, PostsPassedOn
<1>6. Sound(next, chain[n], Held)
  <2>1. CASE taken /\ s.next < s.last
    <3> DEFINE t == [s EXCEPT !.next = @ + 1]
    <3>1. /\ t \in [op : {"push"}, peer : Nodes, next : Nat, last : Nat]
          /\ t.op = "push" /\ t.next \in 1 .. t.last /\ t.last <= Len(chain[n])
      BY <1>1, <2>1
    <3>2. Sound(t, chain[n], Held)
      BY <3>1 DEF Sound, Sync, Within
    <3> QED
      BY <2>1, <3>2
  <2>2. CASE ~ (taken /\ s.next < s.last)
    BY <2>2, EasilySound
  <2> QED
    BY <2>1, <2>2
<1>7. Sound(SyncAfterPost(m), chain[p], Held)
  <2> HIDE DEF m
  <2> QED
    BY <1>1, <1>3, Before, SyncAfterPostIsSound
<1>8. sync' = [sync EXCEPT ![n] = next, ![p] = SyncAfterPost(m)]
  BY DEF PushBlock
<1> HIDE DEF s, p, m, next
<1>9. sync' \in [Nodes -> Sync] /\ \A o \in Nodes : Sound(sync'[o], chain[o], Held)
  BY <1>1, <1>6, <1>7, <1>8, Before DEF Sound
<1>10. UNCHANGED <<peers, connected, listening, busy, losses, restarts>>
  BY DEF PushBlock, network, bounded
<1> QED
  BY <1>4, <1>5, <1>9, <1>10, Before, PreservedByGrowth

\* The hash of a new block is no other's: what is mined extends the miner's tip,
\* and no chain has its hash.
LEMMA MinePreserves ==
    ASSUME Ancestry, NetworkConstants, NEW n \in Nodes, Mine(n)
    PROVE  Ancestry'
<1>0. /\ chain \in [Nodes -> Seq(Block)] /\ chain[n] \in Seq(Block)
      /\ connected[n] \in SUBSET Nodes
      /\ Linked(chain) /\ Past(chain) /\ Unique(Held)
      /\ \A d \in Block : InChain(chain, d) => d \in Held
  BY Before, GrownByNone DEF Grown, Ancestry, OneBlock
<1>1. PICK h \in MinedBy[n] \ HashesInUse :
        /\ chain' = [chain EXCEPT ![n] = Append(chain[n], NewBlock(chain[n], h))]
        /\ posts' = posts \cup PostsOf(NewBlock(chain[n], h), n, connected[n])
  BY DEF Mine
<1> DEFINE b == NewBlock(chain[n], h)
           k == Len(chain[n]) + 1
           c == Append(chain[n], b)
           H == Held \cup {b}
<1>2. /\ b \in Block /\ b.hash = h /\ b.prev = PrevAt(chain[n], k)
  <2>1. h \in Hashes
    BY <1>1 DEF NetworkConstants
  <2>2. TipHash(chain[n]) \in Hashes \cup {GenesisHash}
    <3>1. CASE chain[n] = <<>>
      BY <3>1 DEF TipHash
    <3>2. CASE chain[n] # <<>>
      <4>1. Len(chain[n]) \in 1 .. Len(chain[n])
        BY <1>0, <3>2, LenProperties, EmptySeq
      <4>2. chain[n][Len(chain[n])] \in Block
        BY <1>0, <4>1
      <4> QED
        BY <3>2, <4>2 DEF TipHash, Block
    <3> QED
      BY <3>1, <3>2
  <2>3. TipHash(chain[n]) = PrevAt(chain[n], k)
    BY <1>0, LenProperties, EmptySeq DEF TipHash, PrevAt
  <2> QED
    BY <1>0, <2>1, <2>2, <2>3, LenProperties DEF NewBlock, Block
<1>3. \A d \in Held : d.hash # b.hash
  BY <1>1, <1>2, HeldIsInUse
<1>4. /\ k \in Nat /\ k >= 1 /\ k <= Len(chain[n]) + 1
      /\ c \in Seq(Block) /\ Len(c) = k /\ c[k] = b
      /\ \A i \in 1 .. k - 1 : c[i] = chain[n][i]
  BY <1>0, <1>2
<1>5. \A d \in Block : InChain(chain, d) /\ d.hash = b.hash => d = b
  BY <1>0, <1>3
<1>6. Linked([chain EXCEPT ![n] = c]) /\ Past([chain EXCEPT ![n] = c])
  <2> HIDE DEF b, c, k
  <2> QED
    BY <1>0, <1>2, <1>4, <1>5, Placed
<1>7. chain' \in [Nodes -> Seq(Block)] /\ Linked(chain') /\ Past(chain')
  BY <1>0, <1>1, <1>4, <1>6
<1>8. Unique(H)
  BY <1>0, <1>3 DEF Unique
<1>9. \A d \in Block : InChain(chain', d) => d \in H
  <2> SUFFICES ASSUME NEW d \in Block, NEW m \in Nodes, NEW i \in 1 .. Len(chain'[m]),
                      d = chain'[m][i]
               PROVE  d \in H
    BY DEF InChain
  <2>1. CASE m # n
    <3>1. chain'[m] = chain[m]
      BY <2>1, <1>0, <1>1
    <3> QED
      BY <3>1, <1>0 DEF InChain
  <2>2. CASE m = n
    <3>1. chain'[m] = c
      BY <2>2, <1>0, <1>1
    <3>2. CASE i = k
      BY <3>1, <3>2, <1>4
    <3>3. CASE i # k
      <4>1. i \in 1 .. Len(chain[n]) /\ d = chain[n][i]
        <5> HIDE DEF c
        <5> QED
          BY <3>1, <3>3, <1>4, <1>0, LenProperties
      <4> QED
        BY <4>1, <1>0 DEF InChain
    <3> QED
      BY <3>2, <3>3
  <2> QED
    BY <2>1, <2>2
<1>10. posts' \subseteq Post /\ \A m \in posts' : m.block \in H
  BY <1>0, <1>1, <1>2, Before, PostsMade
<1>11. ASSUME NEW m \in Nodes
       PROVE  Sound(sync'[m], chain'[m], H)
  <2>1. Sound(sync[m], chain[m], Held) /\ Held \subseteq H
    BY Before
  <2>2. Len(chain[m]) <= Len(chain'[m]) /\ chain[m] \in Seq(Block) /\ chain'[m] \in Seq(Block)
    <3> HIDE DEF c
    <3> QED
      BY <1>0, <1>1, <1>4, LenProperties DEF c
  <2>3. sync' = sync
    BY DEF Mine
  <2> HIDE DEF H
  <2> QED
    BY <2>1, <2>2, <2>3, StillSound
<1>12. /\ UNCHANGED <<peers, connected, listening, sync, losses, restarts>>
       /\ busy' \in [Nodes -> BOOLEAN]
  BY Before DEF Mine, network, bounded
<1> HIDE DEF H
<1> QED
  BY <1>7, <1>8, <1>9, <1>10, <1>11, <1>12, Before, Preserved

-----------------------------------------------------------------------------
(***************************************************************************)
(* The theorems                                                             *)
(***************************************************************************)

\* The invariant holds of empty chains.
LEMMA AncestryInit ==
    ASSUME NetworkConstants, Init
    PROVE  Ancestry
<1>1. TypeOK /\ Inside
  BY SyncMade DEF Init, NetworkConstants, TypeOK, Inside
<1>2. Linked(chain) /\ Past(chain)
  BY DEF Init, Linked, Past
<1>3. OneBlock
  BY DEF Init, OneBlock, Unique, Held, InChain, InBatch, InPost, Idle
<1> QED
  BY <1>1, <1>2, <1>3 DEF Ancestry

\* Every step keeps it.
LEMMA AncestryStep ==
    ASSUME Ancestry, NetworkConstants, [Next]_vars
    PROVE  Ancestry'
<1>1. CASE UNCHANGED vars
  <2>1. CASE Nodes = {}
    BY <1>1, <2>1, Before, PreservedByTalk DEF vars
  <2>2. CASE Nodes # {}
    BY <1>1, <2>2, TalkPreserves
  <2> QED
    BY <2>1, <2>2
<1>2. CASE LosePost
  BY <1>2, Before, PreservedByTalk DEF LosePost, Fails, network
<1>3. ASSUME NEW n \in Nodes, Mine(n) PROVE Ancestry'
  BY <1>3, MinePreserves
<1>4. ASSUME NEW n \in Nodes, EndBroadcast(n) \/ AddPeer(n) PROVE Ancestry'
  BY <1>4, TalkPreserves
<1>5. ASSUME NEW n \in Nodes, ReceiveBlock(n) PROVE Ancestry'
  BY <1>5, ReceiveBlockPreserves
<1>6. ASSUME NEW n \in Nodes, NEW p \in Nodes, Handshake(n, p) PROVE Ancestry'
  BY <1>6, HandshakePreserves
<1>7. ASSUME NEW n \in Nodes, NEW p \in Nodes, HandshakeFails(n, p) PROVE Ancestry'
  BY <1>7, TalkPreserves
<1>8. ASSUME NEW n \in Nodes, Synchronise(n) PROVE Ancestry'
  BY <1>8, AskPreserves, ApplyPulledPreserves, PushBlockPreserves DEF Synchronise
<1>9. ASSUME NEW n \in Nodes, SyncFails(n) PROVE Ancestry'
  BY <1>9, SyncFailsPreserves
<1>10. ASSUME NEW n \in Nodes, Restart(n) PROVE Ancestry'
  BY <1>10, RestartPreserves
<1>11. ASSUME NEW n \in Nodes, Listen(n) PROVE Ancestry'
  BY <1>11, TalkPreserves
<1> QED
  BY <1>11, <1>1, <1>2, <1>3, <1>4, <1>5, <1>6, <1>7, <1>8, <1>9, <1>10 DEF Next

\* It makes chains share their past.
LEMMA AncestryShared ==
    ASSUME Ancestry
    PROVE  SharedPast
<1> SUFFICES ASSUME NEW n \in Nodes, NEW m \in Nodes,
                    NEW h \in DOMAIN chain[n] \cap DOMAIN chain[m],
                    chain[n][h].hash = chain[m][h].hash
             PROVE  SubSeq(chain[n], 1, h) = SubSeq(chain[m], 1, h)
  BY DEF SharedPast
<1>1. /\ chain[n] \in Seq(Block) /\ chain[m] \in Seq(Block)
      /\ h \in (1 .. Len(chain[n])) \cap (1 .. Len(chain[m]))
  BY Before, LenProperties
<1>2. \A i \in 1 .. h : chain[n][i] = chain[m][i]
  BY <1>1 DEF Ancestry, Past
<1> DEFINE s == SubSeq(chain[n], 1, h)
           t == SubSeq(chain[m], 1, h)
<1>3. /\ h \in Int /\ 1 \in Int /\ h >= 1
      /\ \A i \in 1 .. h : chain[n][i] \in Block /\ chain[m][i] \in Block
  BY <1>1
<1>4. /\ s \in Seq(Block) /\ Len(s) = h /\ \A i \in 1 .. h : s[i] = chain[n][i]
  BY <1>3, SubSeqProperties, SMT
<1>5. /\ t \in Seq(Block) /\ Len(t) = h /\ \A i \in 1 .. h : t[i] = chain[m][i]
  BY <1>3, SubSeqProperties, SMT
<1> HIDE DEF s, t
<1>6. s = t
  BY <1>2, <1>4, <1>5, SeqEqual
<1> QED
  BY <1>6 DEF s, t

\* Every network keeps the state well formed (P2PManager, apply_remote_block).
THEOREM NetworkTypeCorrect == Spec => []TypeOK
<1>1. NetworkConstants /\ Init => Ancestry
  BY AncestryInit
<1>2. NetworkConstants /\ Ancestry /\ [Next]_vars => Ancestry'
  BY AncestryStep
<1>3. Ancestry => TypeOK
  BY DEF Ancestry
<1> QED
  BY <1>1, <1>2, <1>3, NetworkConstants, PTL DEF Spec

\* In every network a block fixes its past, however the nodes came by it
\* (Node::apply_remote_block, P2PManager::sync_from_peer, push_blocks_to_peer).
THEOREM BlocksFixTheirPast == Spec => []SharedPast
<1>1. NetworkConstants /\ Init => Ancestry
  BY AncestryInit
<1>2. NetworkConstants /\ Ancestry /\ [Next]_vars => Ancestry'
  BY AncestryStep
<1>3. Ancestry => SharedPast
  BY AncestryShared
<1> QED
  BY <1>1, <1>2, <1>3, NetworkConstants, PTL DEF Spec
=============================================================================
