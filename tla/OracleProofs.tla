----------------------------- MODULE OracleProofs -----------------------------
(***************************************************************************)
(* The V2 bridge mints nothing that is not locked and pays nothing that is  *)
(* not burned, and its two books add up: for every set of deposits and      *)
(* orders, every fee rate, every depth of confirmation of at least one      *)
(* block, and any number of polls, lost answers, restarts and replaced tips.*)
(*                                                                         *)
(* Neither fact is inductive.  A mint stays locked because what was deep    *)
(* enough once cannot be dropped any more (Deep counts the reorganisations  *)
(* still to come), which must hold of the events a poll carries too.  A     *)
(* payment stays burned because its block is below the tip, the only one    *)
(* that gives way, which must hold of every order on its way.               *)
(***************************************************************************)
EXTENDS OracleBridge, VaultOpsProofs, SequenceTheorems

-----------------------------------------------------------------------------
(***************************************************************************)
(* Chains                                                                   *)
(***************************************************************************)

\* A block more.
LEMMA OneMore ==
    ASSUME NEW S, NEW s \in Seq(S), NEW x \in S
    PROVE  /\ Append(s, x) \in Seq(S)
           /\ Len(s) \in Nat /\ DOMAIN s = 1 .. Len(s)
           /\ Len(Append(s, x)) = Len(s) + 1
           /\ DOMAIN Append(s, x) = 1 .. Len(s) + 1
           /\ \A i \in 1 .. Len(s) : Append(s, x)[i] = s[i]
           /\ Append(s, x)[Len(s) + 1] = x
BY AppendProperties, LenProperties

\* A block less.
LEMMA OneLess ==
    ASSUME NEW S, NEW s \in Seq(S), s # <<>>
    PROVE  /\ Front(s) \in Seq(S)
           /\ Len(s) \in Nat /\ Len(s) >= 1 /\ DOMAIN s = 1 .. Len(s)
           /\ Len(Front(s)) = Len(s) - 1
           /\ DOMAIN Front(s) = 1 .. Len(s) - 1
           /\ \A i \in 1 .. Len(s) - 1 : Front(s)[i] = s[i]
<1>1. Len(s) \in Nat /\ Len(s) >= 1 /\ DOMAIN s = 1 .. Len(s)
  <2>1. Len(s) \in Nat /\ Len(s) # 0 /\ DOMAIN s = 1 .. Len(s)
    BY EmptySeq, LenProperties
  <2> QED BY <2>1
<1>2. \A i \in 1 .. Len(s) - 1 : i \in 1 .. Len(s)
  BY <1>1
<1>3. \A i \in 1 .. Len(s) - 1 : s[i] \in S
  BY <1>2, ElementOfSeq
<1>4. Len(s) - 1 \in Int /\ 1 \in Int /\ Len(s) - 1 >= 0
  BY <1>1
<1> DEFINE n == Len(s) - 1
<1>5. /\ SubSeq(s, 1, n) \in Seq(S)
      /\ Len(SubSeq(s, 1, n)) = IF 1 <= n THEN n - 1 + 1 ELSE 0
      /\ \A i \in 1 .. n - 1 + 1 : SubSeq(s, 1, n)[i] = s[1 + i - 1]
  BY <1>3, <1>4, SubSeqProperties
<1>m. n \in Nat /\ n - 1 + 1 = n /\ (\A i \in 1 .. n : 1 + i - 1 = i) /\ (1 <= n \/ n = 0)
  <2>1. n \in Nat
    BY <1>1
  <2> HIDE DEF n
  <2> QED BY <2>1
<1>6. Len(SubSeq(s, 1, n)) = n /\ \A i \in 1 .. n : SubSeq(s, 1, n)[i] = s[i]
  <2> HIDE DEF n
  <2> QED BY <1>5, <1>m
<1>7. DOMAIN SubSeq(s, 1, n) = 1 .. n
  BY <1>5, <1>6, LenProperties
<1> QED BY <1>1, <1>5, <1>6, <1>7 DEF Front

L2Blocks ==
    [events : SUBSET Events,
     books : [balance : Int, fees : Int, executed : SUBSET Orders, paused : BOOLEAN]]

ChainBlocks == [mints : SUBSET Events, burns : SUBSET Orders]

\* The burns that no replaced tip can undo.
Final(c) == UNION {c[i].burns : i \in 1 .. Len(c) - 1}

\* What one block adds to the chain.
LEMMA ChainExtended ==
    ASSUME NEW c \in Seq(ChainBlocks), NEW b \in ChainBlocks
    PROVE  /\ Append(c, b) \in Seq(ChainBlocks) /\ Len(Append(c, b)) = Len(c) + 1
           /\ MintedOn(Append(c, b)) = MintedOn(c) \cup b.mints
           /\ BurnedOn(Append(c, b)) = BurnedOn(c) \cup b.burns
           /\ Final(Append(c, b)) = BurnedOn(c)
           /\ Final(c) \subseteq BurnedOn(c)
<1> DEFINE d == Append(c, b)
           n == Len(c)
<1>1. /\ d \in Seq(ChainBlocks) /\ n \in Nat /\ DOMAIN c = 1 .. n /\ Len(d) = n + 1
      /\ DOMAIN d = 1 .. n + 1 /\ (\A i \in 1 .. n : d[i] = c[i]) /\ d[n + 1] = b
  BY OneMore
<1> HIDE DEF d
<1>2. 1 .. n + 1 = (1 .. n) \cup {n + 1} /\ 1 .. n - 1 \subseteq 1 .. n /\ Len(d) - 1 = n
  BY <1>1
<1> HIDE DEF n
<1>3. MintedOn(d) = MintedOn(c) \cup b.mints
  BY <1>1, <1>2 DEF MintedOn
<1>4. BurnedOn(d) = BurnedOn(c) \cup b.burns
  BY <1>1, <1>2 DEF BurnedOn
<1>5. Final(d) = BurnedOn(c)
  BY <1>1, <1>2 DEF Final, BurnedOn
<1>6. Final(c) \subseteq BurnedOn(c)
  BY <1>1, <1>2 DEF Final, BurnedOn, n
<1> QED BY <1>1, <1>3, <1>4, <1>5, <1>6 DEF d, n

\* And what its tip takes along.
LEMMA ChainCut ==
    ASSUME NEW c \in Seq(ChainBlocks), c # <<>>
    PROVE  /\ Front(c) \in Seq(ChainBlocks) /\ Len(Front(c)) = Len(c) - 1
           /\ MintedOn(Front(c)) \subseteq MintedOn(c)
           /\ BurnedOn(Front(c)) = Final(c)
           /\ Final(c) \subseteq BurnedOn(c)
<1>1. /\ Front(c) \in Seq(ChainBlocks) /\ Len(c) \in Nat /\ DOMAIN c = 1 .. Len(c)
      /\ Len(Front(c)) = Len(c) - 1 /\ DOMAIN Front(c) = 1 .. Len(c) - 1
      /\ \A i \in 1 .. Len(c) - 1 : Front(c)[i] = c[i]
  BY OneLess
<1>2. 1 .. Len(c) - 1 \subseteq 1 .. Len(c)
  BY <1>1
<1> QED BY <1>1, <1>2 DEF MintedOn, BurnedOn, Final

-----------------------------------------------------------------------------
(***************************************************************************)
(* Depth in L2                                                              *)
(***************************************************************************)

\* The event is so deep in the blocks b that the reorganisations L2 may still
\* make, after n of them, do not reach it.
Deep(b, n, e) ==
    \E i \in 1 .. Len(b) : e \in b[i].events /\ i + L2Confirmations <= Len(b) + n

\* What any step does to L2: nothing, a block more that accounts for its event or
\* payment, a block less.
TakesEvent(x) ==
    /\ \E e \in Events \ Locked :
        /\ x.events = {e}
        /\ x.books.balance - x.books.fees = CirculatingBacking(Vault) + NetOfEvent(e)
    /\ x.books.executed = Vault.executed

PaysOrder(x) ==
    /\ x.events = {}
    /\ \E o \in {tx.order : tx \in mempool} \ Vault.executed :
        /\ x.books.executed = Vault.executed \cup {o}
        /\ x.books.balance - x.books.fees = CirculatingBacking(Vault) - OrderGross[o]

OwesTheSame(x) ==
    /\ x.events = {}
    /\ x.books.executed = Vault.executed
    /\ x.books.balance - x.books.fees = CirculatingBacking(Vault)

Accounts(x) == TakesEvent(x) \/ PaysOrder(x) \/ OwesTheSame(x)

L2Moves ==
    \/ l2' = l2 /\ count'.l2Reorgs = count.l2Reorgs
    \/ /\ \E x \in L2Blocks : Accounts(x) /\ l2' = Append(l2, x)
       /\ count'.l2Reorgs = count.l2Reorgs
    \/ /\ l2 # <<>> /\ count.l2Reorgs < MaxL2Reorgs
       /\ l2' = Front(l2)
       /\ count'.l2Reorgs = count.l2Reorgs + 1

\* What any step does to the chain: a block more, or another one at the tip.
ChainMoves ==
    \/ chain' = chain
    \/ \E b \in ChainBlocks :
        /\ IsFiniteSet(b.burns)
        /\ \A e \in b.mints : Deep(l2, count.l2Reorgs, e)
        /\ \/ chain' = Append(chain, b)
           \/ chain # <<>> /\ chain' = Append(Front(chain), b)

Typed ==
    /\ l2 \in Seq(L2Blocks)
    /\ chain \in Seq(ChainBlocks)
    /\ count \in [l2Reorgs : 0 .. MaxL2Reorgs, reorgs : Nat, faults : Nat,
                  crashes : Nat, pauses : Nat]
    /\ oracle \in Cursors
    /\ file \in Cursors

\* What was deep stays deep.
LEMMA DeepStays ==
    ASSUME Typed, L2Moves, NEW e, Deep(l2, count.l2Reorgs, e)
    PROVE  Deep(l2', count'.l2Reorgs, e)
<1> DEFINE n == count.l2Reorgs
<1>1. n \in Nat /\ n <= MaxL2Reorgs /\ MaxL2Reorgs \in Nat /\ L2Confirmations \in Nat
      /\ MaxL2Reorgs <= L2Confirmations /\ l2 \in Seq(L2Blocks)
  BY BridgeConstants DEF Typed
<1>2. PICK i \in 1 .. Len(l2) : e \in l2[i].events /\ i + L2Confirmations <= Len(l2) + n
  BY DEF Deep
<1>3. CASE l2' = l2 /\ count'.l2Reorgs = n
  BY <1>3 DEF Deep
<1>4. ASSUME NEW x \in L2Blocks, l2' = Append(l2, x), count'.l2Reorgs = n
      PROVE  Deep(l2', count'.l2Reorgs, e)
  <2>1. /\ Len(l2') = Len(l2) + 1 /\ Len(l2) \in Nat
        /\ \A j \in 1 .. Len(l2) : l2'[j] = l2[j]
    BY <1>1, <1>4, OneMore
  <2>2. i \in 1 .. Len(l2') /\ e \in l2'[i].events /\ i + L2Confirmations <= Len(l2') + n
    BY <1>1, <1>2, <2>1
  <2> QED BY <1>4, <2>2 DEF Deep
<1>5. CASE l2 # <<>> /\ n < MaxL2Reorgs /\ l2' = Front(l2) /\ count'.l2Reorgs = n + 1
  <2>1. /\ Len(l2') = Len(l2) - 1 /\ Len(l2) \in Nat
        /\ \A j \in 1 .. Len(l2) - 1 : l2'[j] = l2[j]
    BY <1>1, <1>5, OneLess
  <2>2. i \in 1 .. Len(l2) - 1
    BY <1>1, <1>2, <1>5, <2>1
  <2>3. e \in l2'[i].events /\ i \in 1 .. Len(l2')
    BY <1>2, <2>1, <2>2
  <2>4. i + L2Confirmations <= Len(l2') + (n + 1)
    BY <1>1, <1>2, <2>1, <2>2
  <2> QED BY <1>5, <2>3, <2>4 DEF Deep
<1> QED BY <1>3, <1>4, <1>5 DEF L2Moves

\* What a node mints after the confirmations is deep.
LEMMA ConfirmedIsDeep ==
    ASSUME Typed, NEW e, L2Confirmed(e)
    PROVE  Deep(l2, count.l2Reorgs, e)
<1>1. Len(l2) \in Nat /\ DOMAIN l2 = 1 .. Len(l2) /\ count.l2Reorgs \in Nat /\ L2Confirmations \in Nat
  BY LenProperties, BridgeConstants DEF Typed
<1>2. \E i \in DOMAIN l2 : e \in l2[i].events
  BY DEF L2Confirmed, Locked
<1>3. BlockOf(e) \in DOMAIN l2 /\ e \in l2[BlockOf(e)].events
  BY <1>2 DEF BlockOf
<1> DEFINE i == BlockOf(e)
<1>4. i \in 1 .. Len(l2) /\ i + L2Confirmations <= Len(l2)
  BY <1>1, <1>3 DEF L2Confirmed
<1> HIDE DEF i
<1>5. i + L2Confirmations <= Len(l2) + count.l2Reorgs
  BY <1>1, <1>4
<1> QED BY <1>3, <1>4, <1>5 DEF Deep, i

\* So is an event a poll takes up.
LEMMA PolledIsDeep ==
    ASSUME Typed, SafeL2 > oracle.l2, NEW p \in EventsBetween(oracle.l2 + 1, SafeL2)
    PROVE  /\ p \in [event : Events, block : Nat \ {0}]
           /\ Deep(l2, count.l2Reorgs, p.event)
<1>1. Len(l2) \in Nat /\ count.l2Reorgs \in Nat /\ L2Confirmations \in Nat /\ oracle.l2 \in Nat
  BY LenProperties, BridgeConstants DEF Typed, Cursors
<1>2. SafeL2 \in Nat /\ SafeL2 + L2Confirmations <= Len(l2)
  BY <1>1 DEF SafeL2
<1>3. p \in [event : Events, block : oracle.l2 + 1 .. SafeL2] /\ p.event \in l2[p.block].events
  BY DEF EventsBetween
<1>4. p.block \in 1 .. Len(l2) /\ p.block + L2Confirmations <= Len(l2) + count.l2Reorgs
  BY <1>1, <1>2, <1>3
<1>5. \A i \in oracle.l2 + 1 .. SafeL2 : i \in Nat \ {0}
  BY <1>1, <1>2
<1> QED BY <1>3, <1>4, <1>5 DEF Deep

-----------------------------------------------------------------------------
(***************************************************************************)
(* What a step does to either chain                                         *)
(***************************************************************************)

\* The vault of the last block is in the books of L2.
LEMMA VaultTyped ==
    ASSUME l2 \in Seq(L2Blocks)
    PROVE  Vault \in [balance : Int, fees : Int, executed : SUBSET Orders, paused : BOOLEAN]
<1>1. Len(l2) \in Nat /\ DOMAIN l2 = 1 .. Len(l2)
  BY LenProperties
<1>2. CASE Len(l2) = 0
  BY <1>2 DEF Vault, BooksAt, NewContract
<1>3. CASE Len(l2) # 0
  <2>1. Len(l2) \in 1 .. Len(l2)
    BY <1>1, <1>3
  <2>2. l2[Len(l2)] \in L2Blocks
    BY <2>1, ElementOfSeq
  <2> QED BY <1>3, <2>2 DEF Vault, BooksAt, L2Blocks
<1> QED BY <1>2, <1>3

\* Fees and amounts of the contract are whole numbers.
LEMMA FeesAreInt ==
    /\ \A o \in Orders : OrderGross[o] \in Nat /\ OrderFee(o) \in Int /\ OrderAmount(o) \in Int
    /\ \A e \in Events : EventGross[e] \in Nat /\ FeeOf(EventGross[e], DepositBps) \in Int
                         /\ NetOfEvent(e) \in Int
<1>1. DepositBps \in Nat /\ WithdrawBps \in Nat /\ DepositBps <= BpsOfWhole /\ WithdrawBps <= BpsOfWhole
  BY ContractConstants DEF BpsOfWhole
<1>2. ASSUME NEW g \in Nat PROVE FeeOf(g, DepositBps) \in 0 .. g /\ FeeOf(g, WithdrawBps) \in 0 .. g
  BY <1>1, FeeIsPart
<1>3. \A o \in Orders : OrderGross[o] \in Nat
  BY ContractConstants
<1>4. \A e \in Events : EventGross[e] \in Nat
  BY BridgeConstants
<1>5. ASSUME NEW o \in Orders PROVE OrderFee(o) \in Int /\ OrderAmount(o) \in Int
  BY <1>2, <1>3 DEF OrderFee, OrderAmount
<1>6. ASSUME NEW e \in Events PROVE FeeOf(EventGross[e], DepositBps) \in Int /\ NetOfEvent(e) \in Int
  BY <1>2, <1>4 DEF NetOfEvent, NetOf
<1> QED BY <1>3, <1>4, <1>5, <1>6

\* A block of L2 with the events ev and the books bk.
LEMMA BlockTyped ==
    ASSUME NEW ev \in SUBSET Events, NEW bk,
           bk \in [balance : Int, fees : Int, executed : SUBSET Orders, paused : BOOLEAN]
    PROVE  [events |-> ev, books |-> bk] \in L2Blocks
BY DEF L2Blocks

\* Books with another balance and other fees, and with one more order paid.
LEMMA BooksChanged ==
    ASSUME NEW c \in [balance : Int, fees : Int, executed : SUBSET Orders, paused : BOOLEAN],
           NEW b \in Int, NEW f \in Int, NEW paid \in SUBSET Orders,
           NEW r, \/ r = [c EXCEPT !.balance = b, !.fees = f]
                  \/ r = [c EXCEPT !.fees = f, !.balance = b]
                  \/ r = [c EXCEPT !.balance = b, !.fees = f, !.executed = paid]
    PROVE  /\ r \in [balance : Int, fees : Int, executed : SUBSET Orders, paused : BOOLEAN]
           /\ r.balance = b /\ r.fees = f
           /\ r = [c EXCEPT !.balance = b, !.fees = f, !.executed = paid] => r.executed = paid
           /\ (r = [c EXCEPT !.balance = b, !.fees = f]
               \/ r = [c EXCEPT !.fees = f, !.balance = b]) => r.executed = c.executed
OBVIOUS

\* Each action moves L2 in one of those ways.
LEMMA L2StepMoves ==
    ASSUME Typed, \A tx \in mempool : tx.order \in Orders, [Next]_vars
    PROVE  L2Moves
<1> DEFINE Contracts == [balance : Int, fees : Int, executed : SUBSET Orders, paused : BOOLEAN]
<1>v. Vault \in Contracts
  BY VaultTyped DEF Typed
<1>c. count \in [l2Reorgs : 0 .. MaxL2Reorgs, reorgs : Nat, faults : Nat, crashes : Nat, pauses : Nat]
  BY DEF Typed
<1>n. /\ Vault.balance \in Int /\ Vault.fees \in Int /\ Vault.executed \in SUBSET Orders
      /\ CirculatingBacking(Vault) = Vault.balance - Vault.fees
  BY <1>v DEF CirculatingBacking
<1>0. ASSUME l2' = l2, count'.l2Reorgs = count.l2Reorgs PROVE L2Moves
  BY <1>0 DEF L2Moves
<1>b. ASSUME NEW bk \in Contracts, L2Block({}, bk), count'.l2Reorgs = count.l2Reorgs,
             bk.executed = Vault.executed,
             bk.balance - bk.fees = CirculatingBacking(Vault)
      PROVE  L2Moves
  <2> DEFINE x == [events |-> {}, books |-> bk]
  <2>1. x \in L2Blocks
    BY BlockTyped
  <2>2. Accounts(x)
    BY <1>b DEF Accounts, OwesTheSame
  <2> QED BY <1>b, <2>1, <2>2 DEF L2Moves, L2Block
<1>1. CASE UserDeposits
  <2>1. PICK e \in Events \ Locked : L2Block({e}, DepositInContract(Vault, EventGross[e]))
    BY <1>1 DEF UserDeposits
  <2> DEFINE bk == DepositInContract(Vault, EventGross[e])
             x == [events |-> {e}, books |-> bk]
  <2>2. /\ bk \in Contracts
        /\ bk.balance = Vault.balance + EventGross[e]
        /\ bk.fees = Vault.fees + FeeOf(EventGross[e], DepositBps)
        /\ bk.executed = Vault.executed
    <3>1. /\ Vault.balance + EventGross[e] \in Int
          /\ Vault.fees + FeeOf(EventGross[e], DepositBps) \in Int
      BY <1>n, FeesAreInt
    <3> DEFINE b == Vault.balance + EventGross[e]
               f == Vault.fees + FeeOf(EventGross[e], DepositBps)
    <3>2. bk = [Vault EXCEPT !.balance = b, !.fees = f]
      BY DEF DepositInContract
    <3> HIDE DEF b, f, bk
    <3> QED BY <1>v, <1>n, <3>1, <3>2, BooksChanged DEF b, f
  <2> HIDE DEF bk
  <2>3. bk.balance - bk.fees = CirculatingBacking(Vault) + NetOfEvent(e)
    <3>1. NetOfEvent(e) = EventGross[e] - FeeOf(EventGross[e], DepositBps)
      BY DEF NetOfEvent, NetOf
    <3> QED BY <1>n, <2>2, <3>1, FeesAreInt
  <2>4. x \in L2Blocks
    BY <2>2, BlockTyped
  <2>5. Accounts(x)
    BY <2>2, <2>3 DEF Accounts, TakesEvent
  <2>6. l2' = Append(l2, x)
    BY <2>1 DEF L2Block, bk
  <2>7. count' = count
    BY <1>1 DEF UserDeposits
  <2> QED BY <2>4, <2>5, <2>6, <2>7 DEF L2Moves
<1>2. CASE L2Executes
  <2>1. count' = count
    BY <1>2 DEF L2Executes
  <2>2. PICK tx \in mempool :
          \/ ContractPays(Vault, tx.order) /\ L2Block({}, PaidByContract(Vault, tx.order))
          \/ UNCHANGED l2
    BY <1>2 DEF L2Executes
  <2> DEFINE o == tx.order
  <2>3. CASE UNCHANGED l2
    BY <2>1, <2>3, <1>0
  <2>4. CASE ContractPays(Vault, o) /\ L2Block({}, PaidByContract(Vault, o))
    <3> DEFINE bk == PaidByContract(Vault, o)
               x == [events |-> {}, books |-> bk]
    <3>1. o \in Orders /\ o \in {t.order : t \in mempool} /\ o \notin Vault.executed
      BY <2>4 DEF ContractPays
    <3> HIDE DEF o
    <3>2. /\ bk \in Contracts
          /\ bk.balance = Vault.balance - OrderAmount(o)
          /\ bk.fees = Vault.fees + OrderFee(o)
          /\ bk.executed = Vault.executed \cup {o}
      <4>1. /\ Vault.balance - OrderAmount(o) \in Int
            /\ Vault.fees + OrderFee(o) \in Int
            /\ Vault.executed \cup {o} \in SUBSET Orders
        BY <1>n, <3>1, FeesAreInt
      <4> DEFINE b == Vault.balance - OrderAmount(o)
                 f == Vault.fees + OrderFee(o)
                 paid == Vault.executed \cup {o}
      <4>2. bk = [Vault EXCEPT !.balance = b, !.fees = f, !.executed = paid]
        BY DEF PaidByContract
      <4> HIDE DEF b, f, paid, bk
      <4> QED BY <1>v, <4>1, <4>2, BooksChanged DEF b, f, paid
    <3> HIDE DEF bk
    <3>3. bk.balance - bk.fees = CirculatingBacking(Vault) - OrderGross[o]
      <4>1. OrderAmount(o) = OrderGross[o] - OrderFee(o)
        BY DEF OrderAmount
      <4> QED BY <1>n, <3>1, <3>2, <4>1, FeesAreInt
    <3>4. x \in L2Blocks
      BY <3>2, BlockTyped
    <3>5. Accounts(x)
      BY <3>1, <3>2, <3>3 DEF Accounts, PaysOrder
    <3>6. l2' = Append(l2, x)
      BY <2>4 DEF L2Block, bk
    <3> QED BY <2>1, <3>4, <3>5, <3>6 DEF L2Moves
  <2> QED BY <2>2, <2>3, <2>4
<1>3. CASE OwnerClaims
  <2>1. PICK amount \in Claims :
          ContractPaysTreasury(Vault, amount) /\ L2Block({}, TreasuryPaid(Vault, amount))
    BY <1>3 DEF OwnerClaims
  <2> DEFINE bk == TreasuryPaid(Vault, amount)
  <2>2. amount \in Int
    BY BridgeConstants
  <2>3. /\ bk \in Contracts
        /\ bk.balance = Vault.balance - amount
        /\ bk.fees = Vault.fees - amount
        /\ bk.executed = Vault.executed
    <3>1. Vault.balance - amount \in Int /\ Vault.fees - amount \in Int
      BY <1>n, <2>2
    <3> DEFINE b == Vault.balance - amount
               f == Vault.fees - amount
    <3>2. bk = [Vault EXCEPT !.fees = f, !.balance = b]
      BY DEF TreasuryPaid
    <3> HIDE DEF b, f, bk
    <3> QED BY <1>v, <1>n, <3>1, <3>2, BooksChanged DEF b, f
  <2>4. count' = count
    BY <1>3 DEF OwnerClaims
  <2> HIDE DEF bk
  <2>5. bk.balance - bk.fees = CirculatingBacking(Vault)
    BY <1>n, <2>2, <2>3
  <2> QED BY <2>1, <2>3, <2>4, <2>5, <1>b DEF bk
<1>4. CASE OwnerPauses \/ OwnerUnpauses \/ OtherL2Block
  <2>1. PICK bk \in {[Vault EXCEPT !.paused = TRUE], [Vault EXCEPT !.paused = FALSE], Vault} :
          L2Block({}, bk)
    BY <1>4 DEF OwnerPauses, OwnerUnpauses, OtherL2Block
  <2>2. /\ bk \in Contracts /\ bk.executed = Vault.executed
        /\ bk.balance = Vault.balance /\ bk.fees = Vault.fees
    BY <1>v
  <2>3. count'.l2Reorgs = count.l2Reorgs
    BY <1>4, <1>c DEF OwnerPauses, OwnerUnpauses, OtherL2Block
  <2> QED BY <1>n, <2>1, <2>2, <2>3, <1>b
<1>5. CASE L2Reorg
  BY <1>5, <1>c DEF L2Reorg, L2Moves
<1>6. CASE ChainGrows \/ TipReplaced
  <2>1. l2' = l2 /\ count'.l2Reorgs = count.l2Reorgs
    BY <1>6, <1>c DEF ChainGrows, TipReplaced, L2Side
  <2> QED BY <2>1, <1>0
<1>7. CASE Inbound \/ InboundLost \/ InboundThrows
  <2>1. l2' = l2
    BY <1>7 DEF Inbound, InboundPoll, InboundMinted, InboundRefused, InboundDone, InboundLost,
                InboundThrows, GiveUp, L2Side
  <2>2. count'.l2Reorgs = count.l2Reorgs
    BY <1>7, <1>c DEF Inbound, InboundPoll, InboundMinted, InboundRefused, InboundDone, InboundLost,
                InboundThrows, Fault
  <2> QED BY <2>1, <2>2, <1>0
<1>8. CASE Outbound \/ OutboundThrows
  <2>1. l2' = l2
    BY <1>8 DEF Outbound, OutboundPoll, OutboundFetch, OutboundCheck, OutboundSend, OutboundPaid,
                OutboundTxError, OutboundBlockDone, OutboundThrows, L2Side
  <2>2. count'.l2Reorgs = count.l2Reorgs
    BY <1>8, <1>c DEF Outbound, OutboundPoll, OutboundFetch, OutboundCheck, OutboundSend, OutboundPaid,
                OutboundTxError, OutboundBlockDone, OutboundThrows, Fault
  <2> QED BY <2>1, <2>2, <1>0
<1>9. CASE Restart
  <2>1. l2' = l2 /\ count'.l2Reorgs = count.l2Reorgs
    BY <1>9, <1>c DEF Restart, L2Side
  <2> QED BY <2>1, <1>0
<1>10. CASE UNCHANGED vars
  BY <1>10, <1>0 DEF vars
<1> QED
  BY <1>1, <1>2, <1>3, <1>4, <1>5, <1>6, <1>7, <1>8, <1>9, <1>10 DEF Next

\* And the chain.
LEMMA ChainStepMoves ==
    ASSUME Typed,
           inbound.pc = "post" => \A p \in inbound.batch :
                p.event \in Events /\ Deep(l2, count.l2Reorgs, p.event),
           [Next]_vars
    PROVE  ChainMoves
<1>0. ASSUME chain' = chain PROVE ChainMoves
  BY <1>0 DEF ChainMoves
<1>b. ASSUME NEW c, NEW b \in BlocksAfter(c)
      PROVE  /\ b \in ChainBlocks /\ IsFiniteSet(b.burns)
             /\ \A e \in b.mints : Deep(l2, count.l2Reorgs, e)
  <2>1. ASSUME NEW e \in Events, L2Confirmed(e), b = Mint(e)
        PROVE  /\ b \in ChainBlocks /\ IsFiniteSet(b.burns)
               /\ \A x \in b.mints : Deep(l2, count.l2Reorgs, x)
    <3>1. b \in ChainBlocks /\ b.burns = {} /\ b.mints = {e}
      BY <2>1 DEF Mint, ChainBlocks
    <3>2. Deep(l2, count.l2Reorgs, e)
      BY <2>1, ConfirmedIsDeep
    <3> QED BY <3>1, <3>2, FS_EmptySet
  <2>2. ASSUME NEW o \in Orders, b = [mints |-> {}, burns |-> {o}]
        PROVE  /\ b \in ChainBlocks /\ IsFiniteSet(b.burns)
               /\ \A x \in b.mints : Deep(l2, count.l2Reorgs, x)
    <3>1. b \in ChainBlocks /\ b.burns = {o} /\ b.mints = {}
      BY <2>2 DEF ChainBlocks
    <3> QED BY <3>1, FS_Singleton
  <2>3. ASSUME b = [mints |-> {}, burns |-> {}]
        PROVE  /\ b \in ChainBlocks /\ IsFiniteSet(b.burns)
               /\ \A x \in b.mints : Deep(l2, count.l2Reorgs, x)
    <3>1. b \in ChainBlocks /\ b.burns = {} /\ b.mints = {}
      BY <2>3 DEF ChainBlocks
    <3> QED BY <3>1, FS_EmptySet
  <2> QED BY <2>1, <2>2, <2>3, <1>b DEF BlocksAfter
<1>d. ASSUME NEW p \in inbound.batch, inbound.pc = "post", Delivered(p.event) PROVE ChainMoves
  <2>1. CASE UNCHANGED chain
    BY <2>1, <1>0
  <2>2. CASE chain' = Append(chain, Mint(p.event))
    <3> DEFINE b == Mint(p.event)
    <3>1. p.event \in Events /\ Deep(l2, count.l2Reorgs, p.event)
      BY <1>d
    <3>2. b \in ChainBlocks /\ b.burns = {} /\ b.mints = {p.event}
      BY <3>1 DEF Mint, ChainBlocks
    <3>3. IsFiniteSet(b.burns) /\ \A x \in b.mints : Deep(l2, count.l2Reorgs, x)
      BY <3>1, <3>2, FS_EmptySet
    <3> HIDE DEF b
    <3> QED BY <2>2, <3>2, <3>3 DEF ChainMoves, b
  <2> QED BY <2>1, <2>2, <1>d DEF Delivered
<1>1. CASE UserDeposits \/ L2Executes \/ OwnerClaims \/ OwnerPauses \/ OwnerUnpauses
           \/ OtherL2Block \/ L2Reorg \/ Restart \/ UNCHANGED vars
  BY <1>1, <1>0 DEF UserDeposits, L2Executes, OwnerClaims, OwnerPauses, OwnerUnpauses,
                    OtherL2Block, L2Reorg, Restart, vars
<1>2. CASE ChainGrows
  <2>1. PICK b \in BlocksAfter(chain) : chain' = Append(chain, b)
    BY <1>2 DEF ChainGrows
  <2> QED BY <2>1, <1>b DEF ChainMoves
<1>3. CASE TipReplaced
  <2>1. chain # <<>>
    BY <1>3 DEF TipReplaced
  <2>2. PICK b \in BlocksAfter(Front(chain)) : chain' = Append(Front(chain), b)
    BY <1>3 DEF TipReplaced
  <2> QED BY <2>1, <2>2, <1>b DEF ChainMoves
<1>4. CASE InboundMinted \/ InboundLost
  <2>1. inbound.pc = "post"
        /\ \E p \in inbound.batch : UNCHANGED chain \/ Delivered(p.event)
    BY <1>4 DEF InboundMinted, InboundLost
  <2> QED BY <2>1, <1>d, <1>0
<1>5. CASE InboundPoll \/ InboundRefused \/ InboundDone \/ InboundThrows
  BY <1>5, <1>0 DEF InboundPoll, InboundRefused, InboundDone, InboundThrows
<1>6. CASE Outbound \/ OutboundThrows
  BY <1>6, <1>0 DEF Outbound, OutboundPoll, OutboundFetch, OutboundCheck, OutboundSend, OutboundPaid,
                    OutboundTxError, OutboundBlockDone, OutboundThrows
<1> QED BY <1>1, <1>2, <1>3, <1>4, <1>5, <1>6 DEF Next, Inbound

\* Whatever happens to the chain, its burns below the tip stay, new mints are
\* deep, and its burns are finitely many.
LEMMA ChainAfter ==
    ASSUME Typed, ChainMoves
    PROVE  /\ chain' \in Seq(ChainBlocks)
           /\ Len(chain) \in Nat /\ Len(chain') \in Nat /\ Len(chain) <= Len(chain')
           /\ Final(chain) \subseteq Final(chain')
           /\ Final(chain') \subseteq BurnedOn(chain')
           /\ \A e \in MintedOn(chain') : e \in MintedOn(chain) \/ Deep(l2, count.l2Reorgs, e)
           /\ IsFiniteSet(BurnedOn(chain)) => IsFiniteSet(BurnedOn(chain'))
<1>1. chain \in Seq(ChainBlocks) /\ Len(chain) \in Nat
  BY LenProperties DEF Typed
<1>2. CASE chain' = chain
  <2>1. Final(chain) \subseteq BurnedOn(chain)
    <3>1. 1 .. Len(chain) - 1 \subseteq DOMAIN chain
      BY <1>1, LenProperties
    <3> QED BY <3>1 DEF Final, BurnedOn
  <2> QED BY <1>1, <1>2, <2>1
<1>3. ASSUME NEW b \in ChainBlocks, IsFiniteSet(b.burns),
             \A e \in b.mints : Deep(l2, count.l2Reorgs, e),
             NEW c \in Seq(ChainBlocks), chain' = Append(c, b),
             \/ c = chain
             \/ chain # <<>> /\ c = Front(chain)
      PROVE  /\ chain' \in Seq(ChainBlocks)
             /\ Len(chain) \in Nat /\ Len(chain') \in Nat /\ Len(chain) <= Len(chain')
             /\ Final(chain) \subseteq Final(chain')
             /\ Final(chain') \subseteq BurnedOn(chain')
             /\ \A e \in MintedOn(chain') : e \in MintedOn(chain) \/ Deep(l2, count.l2Reorgs, e)
             /\ IsFiniteSet(BurnedOn(chain)) => IsFiniteSet(BurnedOn(chain'))
  <2>1. /\ chain' \in Seq(ChainBlocks) /\ Len(chain') = Len(c) + 1
        /\ MintedOn(chain') = MintedOn(c) \cup b.mints
        /\ BurnedOn(chain') = BurnedOn(c) \cup b.burns
        /\ Final(chain') = BurnedOn(c)
    BY <1>3, ChainExtended
  <2>2. /\ Len(c) \in Nat /\ Len(chain) <= Len(c) + 1
        /\ MintedOn(c) \subseteq MintedOn(chain)
        /\ Final(chain) \subseteq BurnedOn(c)
        /\ BurnedOn(c) \subseteq BurnedOn(chain)
    <3>1. CASE c = chain
      <4>1. Final(chain) \subseteq BurnedOn(chain)
        BY <1>1, <1>3, ChainExtended
      <4> QED BY <1>1, <3>1, <4>1
    <3>2. CASE chain # <<>> /\ c = Front(chain)
      <4>1. /\ Len(c) = Len(chain) - 1 /\ MintedOn(c) \subseteq MintedOn(chain)
            /\ BurnedOn(c) = Final(chain) /\ Final(chain) \subseteq BurnedOn(chain)
        BY <1>1, <3>2, ChainCut
      <4>2. Len(c) \in Nat
        BY LenProperties
      <4> QED BY <1>1, <4>1, <4>2
    <3> QED BY <1>3, <3>1, <3>2
  <2>3. ASSUME IsFiniteSet(BurnedOn(chain)) PROVE IsFiniteSet(BurnedOn(chain'))
    <3>1. IsFiniteSet(BurnedOn(c))
      BY <2>2, <2>3, FS_Subset
    <3>2. IsFiniteSet(BurnedOn(c) \cup b.burns)
      BY <3>1, <1>3, FS_Union
    <3> QED BY <2>1, <3>2
  <2> QED BY <1>1, <1>3, <2>1, <2>2, <2>3
<1>4. chain # <<>> => Front(chain) \in Seq(ChainBlocks)
  BY <1>1, ChainCut
<1> QED BY <1>1, <1>2, <1>3, <1>4 DEF ChainMoves

-----------------------------------------------------------------------------
(***************************************************************************)
(* What the script has in hand                                              *)
(***************************************************************************)

\* The events of a poll are deep in L2.
PollIsDeep(in) ==
    in # Idle =>
        /\ in.pc = "post" /\ in.to \in Nat
        /\ in.batch \subseteq [event : Events, block : Nat \ {0}]
        /\ in = [pc |-> "post", batch |-> in.batch, to |-> in.to]
        /\ \A p \in in.batch : Deep(l2, count.l2Reorgs, p.event)

\* The orders of a poll are buried in the chain c, from the block they are read
\* in to the payment that is waited for.
Reading(out, c) ==
    /\ out.height \in Nat \ {0} /\ out.safe \in Nat
    /\ out.height <= out.safe /\ out.safe + Confirmations <= Len(c)

PollIsBuried(out, c) ==
    out # Idle =>
        /\ out.pc \in {"fetch", "orders", "send", "wait"}
        /\ Reading(out, c)
        /\ out.pc # "fetch" => out.todo \subseteq Final(c)
        /\ out.pc = "orders" => out = [pc |-> "orders", height |-> out.height,
                                       safe |-> out.safe, todo |-> out.todo]

\* So are the payments sent and those made.
SentIsBuried(c) == \A tx \in mempool : tx.order \in Final(c)
PaidIsBuried(c) == \A i \in 1 .. Len(l2) : l2[i].books.executed \subseteq Final(c)

\* What is buried stays buried.
LEMMA PollStaysBuried ==
    ASSUME NEW c, NEW d, Len(c) \in Nat, Len(d) \in Nat, Len(c) <= Len(d),
           Final(c) \subseteq Final(d), NEW out, PollIsBuried(out, c)
    PROVE  PollIsBuried(out, d)
<1>1. Confirmations \in Nat
  BY BridgeConstants
<1> QED BY <1>1 DEF PollIsBuried, Reading

\* What an inbound step takes up is deep; it keeps the types of the script.
LEMMA InboundStep ==
    ASSUME Typed, PollIsDeep(inbound), [Next]_vars
    PROVE  /\ inbound' # Idle =>
                /\ inbound'.pc = "post" /\ inbound'.to \in Nat
                /\ inbound'.batch \subseteq [event : Events, block : Nat \ {0}]
                /\ inbound' = [pc |-> "post", batch |-> inbound'.batch, to |-> inbound'.to]
                /\ \A p \in inbound'.batch : Deep(l2, count.l2Reorgs, p.event)
<1>k. inbound' = inbound \/ inbound' = Idle \/ InboundPoll \/ InboundMinted
  BY DEF Next, UserDeposits, L2Executes, OwnerClaims, OwnerPauses, OwnerUnpauses, OtherL2Block,
         L2Reorg, ChainGrows, TipReplaced, Script, Inbound, InboundRefused, GiveUp, InboundDone,
         InboundLost, InboundThrows, Outbound, OutboundPoll, OutboundFetch, OutboundCheck,
         OutboundSend, OutboundPaid, OutboundTxError, OutboundBlockDone, OutboundThrows, Restart, vars
<1>1. CASE inbound' = inbound \/ inbound' = Idle
  BY <1>1 DEF PollIsDeep
<1>2. CASE InboundPoll
  <2> DEFINE B == EventsBetween(oracle.l2 + 1, SafeL2)
  <2>1. SafeL2 > oracle.l2 /\ inbound' = [pc |-> "post", batch |-> B, to |-> SafeL2]
    BY <1>2 DEF InboundPoll
  <2>2. \A p \in B : p \in [event : Events, block : Nat \ {0}] /\ Deep(l2, count.l2Reorgs, p.event)
    BY <2>1, PolledIsDeep
  <2>3. SafeL2 \in Nat
    <3>1. Len(l2) \in Nat /\ L2Confirmations \in Nat
      BY LenProperties, BridgeConstants DEF Typed
    <3> QED BY <3>1 DEF SafeL2
  <2> HIDE DEF B
  <2> QED BY <2>1, <2>2, <2>3
<1>3. CASE InboundMinted
  <2>1. inbound.pc = "post" /\ inbound # Idle
    BY <1>3 DEF InboundMinted, Idle
  <2>2. PICK p \in inbound.batch : inbound' = [inbound EXCEPT !.batch = @ \ {p}]
    BY <1>3 DEF InboundMinted
  <2>3. inbound = [pc |-> "post", batch |-> inbound.batch, to |-> inbound.to]
    BY <2>1 DEF PollIsDeep
  <2>4. inbound' = [pc |-> "post", batch |-> inbound.batch \ {p}, to |-> inbound.to]
    BY <2>2, <2>3
  <2> QED BY <2>1, <2>4 DEF PollIsDeep
<1> QED BY <1>k, <1>1, <1>2, <1>3

\* Buried burns are orders.
LEMMA FinalOrders ==
    ASSUME Typed
    PROVE  Final(chain) \subseteq Orders /\ BurnedOn(chain) \subseteq Orders /\ MintedOn(chain) \subseteq Events
<1>1. Len(chain) \in Nat /\ DOMAIN chain = 1 .. Len(chain) /\ 1 .. Len(chain) - 1 \subseteq 1 .. Len(chain)
  BY LenProperties DEF Typed
<1>2. \A i \in 1 .. Len(chain) : chain[i] \in ChainBlocks
  BY ElementOfSeq DEF Typed
<1>3. \A i \in 1 .. Len(chain) : chain[i].burns \subseteq Orders /\ chain[i].mints \subseteq Events
  BY <1>2 DEF ChainBlocks
<1> QED BY <1>1, <1>3 DEF Final, BurnedOn, MintedOn

\* What an outbound step reads is buried, if a block needs confirmations at all.
LEMMA OutboundStep ==
    ASSUME Typed, Confirmations >= 1, PollIsBuried(outbound, chain), [Next]_vars
    PROVE  PollIsBuried(outbound', chain)
<1>c. Confirmations \in Nat /\ Len(chain) \in Nat /\ chain \in Seq(ChainBlocks)
  BY BridgeConstants, LenProperties DEF Typed
<1>k. outbound' = outbound \/ outbound' = Idle \/ Outbound
  BY DEF Next, UserDeposits, L2Executes, OwnerClaims, OwnerPauses, OwnerUnpauses, OtherL2Block,
         L2Reorg, ChainGrows, TipReplaced, Script, Inbound, InboundPoll, InboundMinted,
         InboundRefused, GiveUp, InboundDone, InboundLost, InboundThrows, OutboundThrows, Restart, vars
<1>1. CASE outbound' = outbound \/ outbound' = Idle
  BY <1>1 DEF PollIsBuried
<1>2. CASE OutboundPoll
  <2>1. /\ oracle.chain < SafeHeight
        /\ outbound' = [pc |-> "fetch", height |-> oracle.chain + 1, safe |-> SafeHeight]
    BY <1>2 DEF OutboundPoll
  <2>2. oracle.chain \in Nat
    BY DEF Typed, Cursors
  <2>3. SafeHeight \in Nat /\ SafeHeight + Confirmations <= Len(chain)
    BY <1>c, <2>1, <2>2 DEF SafeHeight
  <2>4. Reading(outbound', chain)
    BY <2>1, <2>2, <2>3 DEF Reading
  <2> QED BY <2>1, <2>4 DEF PollIsBuried
<1>o. outbound.pc \in {"fetch", "orders", "send", "wait"} => outbound # Idle
  BY DEF Idle
<1>3. CASE OutboundFetch
  <2>1. /\ outbound.pc = "fetch"
        /\ outbound' = [pc |-> "orders", height |-> outbound.height, safe |-> outbound.safe,
                        todo |-> outbound'.todo]
        /\ outbound'.todo \subseteq IF outbound.height \in DOMAIN chain
                                      THEN chain[outbound.height].burns ELSE {}
    BY <1>3 DEF OutboundFetch
  <2>2. Reading(outbound, chain)
    BY <2>1, <1>o DEF PollIsBuried
  <2>3. outbound.height \in 1 .. Len(chain) - 1
    BY <1>c, <2>2 DEF Reading
  <2>4. outbound'.todo \subseteq Final(chain)
    BY <2>1, <2>3 DEF Final
  <2>5. Reading(outbound', chain)
    BY <2>1, <2>2 DEF Reading
  <2> QED BY <2>1, <2>4, <2>5 DEF PollIsBuried

<1>d. ASSUME NEW o, OrderDone(o), outbound.pc \in {"orders", "send", "wait"}
      PROVE  PollIsBuried(outbound', chain)
  <2>1. Reading(outbound, chain) /\ outbound.todo \subseteq Final(chain)
    BY <1>d, <1>o DEF PollIsBuried
  <2>2. outbound' = [pc |-> "orders", height |-> outbound.height, safe |-> outbound.safe,
                     todo |-> outbound.todo \ {o}]
    BY <1>d DEF OrderDone
  <2>3. Reading(outbound', chain)
    BY <2>1, <2>2 DEF Reading
  <2>4. outbound'.todo \subseteq Final(chain) /\ outbound'.pc = "orders"
    BY <2>1, <2>2
  <2>5. outbound' = [pc |-> "orders", height |-> outbound'.height, safe |-> outbound'.safe,
                     todo |-> outbound'.todo]
    BY <2>2
  <2> QED BY <2>3, <2>4, <2>5 DEF PollIsBuried
<1>4. CASE OutboundCheck
  <2>1. outbound.pc = "orders"
        /\ \E o \in outbound.todo : OrderDone(o) \/ outbound' = [outbound EXCEPT !.pc = "send"]
    BY <1>4 DEF OutboundCheck
  <2>2. CASE outbound' = [outbound EXCEPT !.pc = "send"]
    <3>1. /\ Reading(outbound, chain) /\ outbound.todo \subseteq Final(chain)
          /\ outbound = [pc |-> "orders", height |-> outbound.height,
                         safe |-> outbound.safe, todo |-> outbound.todo]
      BY <2>1, <1>o DEF PollIsBuried
    <3>2. outbound' = [pc |-> "send", height |-> outbound.height,
                       safe |-> outbound.safe, todo |-> outbound.todo]
      BY <2>2, <3>1
    <3>3. Reading(outbound', chain)
      BY <3>1, <3>2 DEF Reading
    <3> QED BY <3>1, <3>2, <3>3 DEF PollIsBuried
  <2> QED BY <2>1, <2>2, <1>d
<1>5. CASE OutboundSend
  <2>1. /\ outbound.pc = "send"
        /\ \E o \in outbound.todo :
             outbound' = [pc |-> "wait", height |-> outbound.height, safe |-> outbound.safe,
                          todo |-> outbound.todo, tx |-> NewTx(o)]
    BY <1>5 DEF OutboundSend
  <2>2. Reading(outbound, chain) /\ outbound.todo \subseteq Final(chain)
    BY <2>1, <1>o DEF PollIsBuried
  <2>3. /\ outbound'.pc = "wait" /\ outbound'.height = outbound.height
        /\ outbound'.safe = outbound.safe /\ outbound'.todo = outbound.todo
    BY <2>1
  <2>4. Reading(outbound', chain)
    BY <2>2, <2>3 DEF Reading
  <2> QED BY <2>2, <2>3, <2>4 DEF PollIsBuried
<1>6. CASE OutboundPaid
  BY <1>6, <1>d DEF OutboundPaid
<1>7. CASE OutboundTxError
  <2>1. outbound.pc \in {"send", "wait"} /\ \E o \in outbound.todo : AfterTxError(o)
    BY <1>7 DEF OutboundTxError
  <2>2. (\E o \in outbound.todo : OrderDone(o)) \/ outbound' = Idle
    BY <2>1 DEF AfterTxError
  <2> QED BY <2>1, <2>2, <1>d, <1>1
<1>8. CASE OutboundBlockDone
  <2>1. /\ outbound.pc = "orders"
        /\ \/ /\ outbound.height < outbound.safe
              /\ outbound' = [pc |-> "fetch", height |-> outbound.height + 1, safe |-> outbound.safe]
           \/ outbound' = Idle
    BY <1>8 DEF OutboundBlockDone
  <2>2. Reading(outbound, chain)
    BY <2>1, <1>o DEF PollIsBuried
  <2>3. CASE outbound.height < outbound.safe
             /\ outbound' = [pc |-> "fetch", height |-> outbound.height + 1, safe |-> outbound.safe]
    <3>1. Reading(outbound', chain) /\ outbound'.pc = "fetch"
      BY <2>2, <2>3 DEF Reading
    <3> QED BY <3>1 DEF PollIsBuried
  <2> QED BY <2>1, <2>3, <1>1
<1> QED BY <1>k, <1>1, <1>2, <1>3, <1>4, <1>5, <1>6, <1>7, <1>8 DEF Outbound

\* Nothing is sent to L2 but what is buried.
LEMMA SentStep ==
    ASSUME Typed, PollIsBuried(outbound, chain), SentIsBuried(chain), PaidIsBuried(chain), [Next]_vars
    PROVE  \A tx \in mempool' : tx.order \in Final(chain)
<1>n. \A o : NewTx(o).order = o
  BY DEF NewTx
<1>0. ASSUME mempool' \subseteq mempool PROVE \A tx \in mempool' : tx.order \in Final(chain)
  BY <1>0 DEF SentIsBuried
<1>1. CASE L2Reorg
  <2>1. Len(l2) \in Nat /\ DOMAIN l2 = 1 .. Len(l2)
    BY LenProperties DEF Typed
  <2>2. Vault.executed \subseteq Final(chain)
    <3>1. CASE Len(l2) = 0
      BY <3>1 DEF Vault, BooksAt, NewContract
    <3>2. CASE Len(l2) # 0
      <4>1. Len(l2) \in 1 .. Len(l2)
        BY <2>1, <3>2
      <4> QED BY <3>2, <4>1 DEF Vault, BooksAt, PaidIsBuried
    <3> QED BY <3>1, <3>2
  <2>3. \A tx \in mempool' : tx \in mempool \/ \E o \in Vault.executed : tx = NewTx(o)
    BY <1>1 DEF L2Reorg
  <2> QED BY <2>2, <2>3, <1>n DEF SentIsBuried
<1>2. CASE OutboundSend \/ OutboundTxError
  <2>1. /\ outbound.pc \in {"send", "wait"}
        /\ \A tx \in mempool' : tx \in mempool \/ \E o \in outbound.todo : tx = NewTx(o)
    BY <1>2 DEF OutboundSend, OutboundTxError
  <2>2. outbound.todo \subseteq Final(chain)
    BY <2>1 DEF PollIsBuried, Idle
  <2> QED BY <2>1, <2>2, <1>n DEF SentIsBuried
<1>3. CASE UserDeposits \/ L2Executes \/ OwnerClaims \/ OwnerPauses \/ OwnerUnpauses
           \/ OtherL2Block \/ ChainGrows \/ TipReplaced \/ Restart \/ UNCHANGED vars
  <2>1. mempool' \subseteq mempool
    BY <1>3 DEF UserDeposits, L2Executes, OwnerClaims, OwnerPauses, OwnerUnpauses, OtherL2Block,
                ChainGrows, TipReplaced, Restart, L2Side, vars
  <2> QED BY <2>1, <1>0
<1>4. CASE Inbound \/ InboundLost \/ InboundThrows
  <2>1. mempool' \subseteq mempool
    BY <1>4 DEF Inbound, InboundPoll, InboundMinted, InboundRefused, InboundDone, InboundLost,
                InboundThrows, GiveUp, L2Side
  <2> QED BY <2>1, <1>0
<1>5. CASE OutboundPoll \/ OutboundFetch \/ OutboundCheck \/ OutboundPaid \/ OutboundBlockDone
           \/ OutboundThrows
  <2>1. mempool' \subseteq mempool
    BY <1>5 DEF OutboundPoll, OutboundFetch, OutboundCheck, OutboundPaid, OutboundBlockDone,
                OutboundThrows, L2Side
  <2> QED BY <2>1, <1>0
<1> QED BY <1>1, <1>2, <1>3, <1>4, <1>5 DEF Next, Outbound

\* The cursors and sets of the script stay cursors and sets.
LEMMA CursorStep ==
    ASSUME Typed, PollIsDeep(inbound), PollIsBuried(outbound, chain), [Next]_vars
    PROVE  oracle' \in Cursors /\ file' \in Cursors
<1>t. oracle \in Cursors /\ file \in Cursors
  BY DEF Typed
<1>o. Final(chain) \subseteq Orders
  BY FinalOrders
<1>1. ASSUME inbound.pc = "post"
      PROVE  /\ inbound.to \in Nat
             /\ \A p \in inbound.batch : p.event \in Events /\ p.block - 1 \in Nat
  BY <1>1 DEF PollIsDeep, Idle
<1>2. ASSUME outbound.pc \in {"orders", "send", "wait"}
      PROVE  outbound.height \in Nat /\ outbound.todo \subseteq Orders
  BY <1>2, <1>o DEF PollIsBuried, Reading, Idle
<1>3. CASE InboundMinted
  <2>1. PICK p \in inbound.batch : oracle' = [oracle EXCEPT !.minted = @ \cup {p.event}]
    BY <1>3 DEF InboundMinted
  <2>2. p.event \in Events /\ file' = file
    BY <1>1, <1>3 DEF InboundMinted
  <2> QED BY <1>t, <2>1, <2>2 DEF Cursors
<1>4. CASE InboundRefused \/ InboundLost
  <2>1. PICK p \in inbound.batch : Save(Rewound(p))
    BY <1>4 DEF InboundRefused, InboundLost, GiveUp
  <2>2. inbound.pc = "post"
    BY <1>4 DEF InboundRefused, InboundLost
  <2>3. p.block - 1 \in Nat
    BY <1>1, <2>2
  <2> QED BY <1>t, <2>1, <2>3 DEF Save, Rewound, Cursors
<1>5. CASE InboundDone
  <2>1. inbound.to \in Nat /\ Save([oracle EXCEPT !.l2 = inbound.to])
    BY <1>1, <1>5 DEF InboundDone
  <2> QED BY <1>t, <2>1 DEF Save, Cursors
<1>6. CASE OutboundCheck \/ OutboundPaid \/ OutboundTxError
  <2>1. file' = file
    BY <1>6 DEF OutboundCheck, OutboundPaid, OutboundTxError
  <2>2. outbound.pc \in {"orders", "send", "wait"}
    BY <1>6 DEF OutboundCheck, OutboundPaid, OutboundTxError
  <2>3. PICK o \in outbound.todo :
            \/ oracle' = oracle
            \/ oracle' = [oracle EXCEPT !.paid = @ \cup {o}]
            \/ oracle' = [oracle EXCEPT !.quarantined = @ \cup {o}]
    BY <1>6 DEF OutboundCheck, OutboundPaid, OutboundTxError, AfterTxError
  <2>4. o \in Orders
    BY <1>2, <2>2
  <2> QED BY <1>t, <2>1, <2>3, <2>4 DEF Cursors
<1>7. CASE OutboundBlockDone
  <2>1. outbound.height \in Nat /\ Save([oracle EXCEPT !.chain = outbound.height])
    BY <1>2, <1>7 DEF OutboundBlockDone
  <2> QED BY <1>t, <2>1 DEF Save, Cursors
<1>8. CASE Restart
  BY <1>t, <1>8 DEF Restart
<1>9. CASE UserDeposits \/ L2Executes \/ OwnerClaims \/ OwnerPauses \/ OwnerUnpauses
           \/ OtherL2Block \/ L2Reorg \/ ChainGrows \/ TipReplaced \/ UNCHANGED vars
  BY <1>t, <1>9 DEF UserDeposits, L2Executes, OwnerClaims, OwnerPauses, OwnerUnpauses, OtherL2Block,
                    L2Reorg, ChainGrows, TipReplaced, Script, vars
<1>10. CASE InboundPoll \/ InboundThrows \/ OutboundPoll \/ OutboundFetch \/ OutboundSend
            \/ OutboundThrows
  BY <1>t, <1>10 DEF InboundPoll, InboundThrows, OutboundPoll, OutboundFetch, OutboundSend,
                     OutboundThrows
<1> QED BY <1>3, <1>4, <1>5, <1>6, <1>7, <1>8, <1>9, <1>10 DEF Next, Inbound, Outbound

\* And so does the rest.
LEMMA TypedStep ==
    ASSUME Typed, PollIsDeep(inbound), PollIsBuried(outbound, chain),
           L2Moves, ChainMoves, [Next]_vars
    PROVE  Typed'
<1>1. oracle' \in Cursors /\ file' \in Cursors
  BY CursorStep
<1>2. chain' \in Seq(ChainBlocks)
  BY ChainAfter
<1>3. l2' \in Seq(L2Blocks)
  <2>1. l2 \in Seq(L2Blocks)
    BY DEF Typed
  <2>2. \A x \in L2Blocks : Append(l2, x) \in Seq(L2Blocks)
    BY <2>1, OneMore
  <2>3. l2 # <<>> => Front(l2) \in Seq(L2Blocks)
    BY <2>1, OneLess
  <2> QED BY <2>1, <2>2, <2>3 DEF L2Moves
<1>4. count' \in [l2Reorgs : 0 .. MaxL2Reorgs, reorgs : Nat, faults : Nat, crashes : Nat, pauses : Nat]
  <2> DEFINE Counts == [l2Reorgs : 0 .. MaxL2Reorgs, reorgs : Nat, faults : Nat,
                        crashes : Nat, pauses : Nat]
  <2>1. count \in Counts /\ MaxL2Reorgs \in Nat
    BY BridgeConstants DEF Typed
  <2>2. \/ count' = count
        \/ count.l2Reorgs < MaxL2Reorgs /\ count' = [count EXCEPT !.l2Reorgs = @ + 1]
        \/ count' = [count EXCEPT !.reorgs = @ + 1]
        \/ count' = [count EXCEPT !.faults = @ + 1]
        \/ count' = [count EXCEPT !.crashes = @ + 1]
        \/ count' = [count EXCEPT !.pauses = @ + 1]
    BY DEF Next, UserDeposits, L2Executes, OwnerClaims, OwnerPauses, OwnerUnpauses, OtherL2Block,
           L2Reorg, ChainGrows, TipReplaced, Inbound, InboundPoll, InboundMinted, InboundRefused,
           InboundDone, InboundLost, InboundThrows, Outbound, OutboundPoll, OutboundFetch,
           OutboundCheck, OutboundSend, OutboundPaid, OutboundTxError, OutboundBlockDone,
           OutboundThrows, Restart, Fault, vars
  <2> QED BY <2>1, <2>2
<1> QED BY <1>1, <1>2, <1>3, <1>4 DEF Typed

-----------------------------------------------------------------------------
(***************************************************************************)
(* Nothing from nothing                                                     *)
(***************************************************************************)

\* The inductive invariant.
Grounded ==
    /\ Typed
    /\ \A e \in MintedOn(chain) : Deep(l2, count.l2Reorgs, e)
    /\ PollIsDeep(inbound)
    /\ PollIsBuried(outbound, chain)
    /\ SentIsBuried(chain)
    /\ PaidIsBuried(chain)

\* It holds before there is anything.
LEMMA GroundedInit == Init => Grounded
<1> SUFFICES ASSUME Init PROVE Grounded
  OBVIOUS
<1>1. l2 = <<>> /\ chain = <<>> /\ mempool = {} /\ inbound = Idle /\ outbound = Idle
  BY DEF Init
<1>2. Typed
  <2>1. MaxL2Reorgs \in Nat
    BY BridgeConstants
  <2> QED BY <2>1 DEF Init, Typed, Cursors, NothingYet
<1>3. DOMAIN chain = {} /\ 1 .. Len(l2) = {}
  BY <1>1, EmptySeq
<1> QED BY <1>1, <1>2, <1>3 DEF Grounded, MintedOn, PollIsDeep, PollIsBuried, SentIsBuried, PaidIsBuried

\* Every step keeps it.
LEMMA GroundedNext ==
    ASSUME Confirmations >= 1, Grounded, [Next]_vars
    PROVE  Grounded' /\ L2Moves /\ ChainMoves
<1>1. /\ Typed /\ PollIsDeep(inbound) /\ PollIsBuried(outbound, chain)
      /\ SentIsBuried(chain) /\ PaidIsBuried(chain)
      /\ \A e \in MintedOn(chain) : Deep(l2, count.l2Reorgs, e)
  BY DEF Grounded
<1>2. L2Moves
  <2>1. \A tx \in mempool : tx.order \in Orders
    BY <1>1, FinalOrders DEF SentIsBuried
  <2> QED BY <1>1, <2>1, L2StepMoves
<1>3. ChainMoves
  <2>1. inbound.pc = "post" => \A p \in inbound.batch :
            p.event \in Events /\ Deep(l2, count.l2Reorgs, p.event)
    BY <1>1 DEF PollIsDeep, Idle
  <2> QED BY <1>1, <2>1, ChainStepMoves
<1>4. Typed'
  BY <1>1, <1>2, <1>3, TypedStep
<1>5. /\ Len(chain) \in Nat /\ Len(chain') \in Nat /\ Len(chain) <= Len(chain')
      /\ Final(chain) \subseteq Final(chain')
      /\ \A e \in MintedOn(chain') : e \in MintedOn(chain) \/ Deep(l2, count.l2Reorgs, e)
  BY <1>1, <1>3, ChainAfter
<1>6. \A e : Deep(l2, count.l2Reorgs, e) => Deep(l2', count'.l2Reorgs, e)
  BY <1>1, <1>2, DeepStays
<1>7. \A e \in MintedOn(chain') : Deep(l2', count'.l2Reorgs, e)
  BY <1>1, <1>5, <1>6
<1>8. PollIsDeep(inbound)'
  BY <1>1, <1>6, InboundStep DEF PollIsDeep
<1>9. PollIsBuried(outbound', chain')
  <2>1. PollIsBuried(outbound', chain)
    BY <1>1, OutboundStep
  <2> QED BY <1>5, <2>1, PollStaysBuried
<1>10. SentIsBuried(chain)'
  <2>1. \A tx \in mempool' : tx.order \in Final(chain)
    BY <1>1, SentStep
  <2> QED BY <1>5, <2>1 DEF SentIsBuried
<1>11. PaidIsBuried(chain)'
  <2>1. l2 \in Seq(L2Blocks) /\ Len(l2) \in Nat
    BY <1>1, LenProperties DEF Typed
  <2>2. CASE l2' = l2
    BY <1>1, <1>5, <2>2 DEF PaidIsBuried
  <2>3. ASSUME NEW x \in L2Blocks, Accounts(x), l2' = Append(l2, x) PROVE PaidIsBuried(chain)'
    <3>1. /\ Len(l2') = Len(l2) + 1 /\ \A j \in 1 .. Len(l2) : l2'[j] = l2[j]
          /\ l2'[Len(l2) + 1] = x
      BY <2>1, <2>3, OneMore
    <3>2. Vault.executed \subseteq Final(chain)
      <4>1. CASE Len(l2) = 0
        BY <4>1 DEF Vault, BooksAt, NewContract
      <4>2. CASE Len(l2) # 0
        <5>1. Len(l2) \in 1 .. Len(l2)
          BY <2>1, <4>2
        <5> QED BY <1>1, <4>2, <5>1 DEF Vault, BooksAt, PaidIsBuried
      <4> QED BY <4>1, <4>2
    <3>3. x.books.executed \subseteq Vault.executed \cup {tx.order : tx \in mempool}
      BY <2>3 DEF Accounts, TakesEvent, PaysOrder, OwesTheSame
    <3>4. x.books.executed \subseteq Final(chain')
      BY <1>1, <1>5, <3>2, <3>3 DEF SentIsBuried
    <3>5. \A i \in 1 .. Len(l2') : i \in 1 .. Len(l2) \/ i = Len(l2) + 1
      BY <2>1, <3>1
    <3>6. \A i \in 1 .. Len(l2') : l2'[i].books.executed \subseteq Final(chain')
      BY <1>1, <1>5, <3>1, <3>4, <3>5 DEF PaidIsBuried
    <3> QED BY <3>6 DEF PaidIsBuried
  <2>4. CASE l2 # <<>> /\ l2' = Front(l2)
    <3>1. Len(l2') = Len(l2) - 1 /\ \A j \in 1 .. Len(l2) - 1 : l2'[j] = l2[j]
      BY <2>1, <2>4, OneLess
    <3>2. \A i \in 1 .. Len(l2') : i \in 1 .. Len(l2) /\ l2'[i] = l2[i]
      BY <2>1, <3>1
    <3>3. \A i \in 1 .. Len(l2') : l2'[i].books.executed \subseteq Final(chain')
      BY <1>1, <1>5, <3>2 DEF PaidIsBuried
    <3> QED BY <3>3 DEF PaidIsBuried
  <2> QED BY <1>2, <2>2, <2>3, <2>4 DEF L2Moves
<1> QED BY <1>2, <1>3, <1>4, <1>7, <1>8, <1>9, <1>10, <1>11 DEF Grounded

\* What the invariant says of the two chains.
LEMMA GroundedSays ==
    ASSUME Grounded PROVE NothingFromNothing
<1>1. /\ Len(chain) \in Nat /\ DOMAIN chain = 1 .. Len(chain)
      /\ Len(l2) \in Nat /\ DOMAIN l2 = 1 .. Len(l2)
  BY LenProperties DEF Grounded, Typed
<1>2. MintedOn(chain) \subseteq Locked
  BY <1>1 DEF Grounded, Deep, Locked
<1>3. Final(chain) \subseteq BurnedOn(chain)
  <2>1. 1 .. Len(chain) - 1 \subseteq 1 .. Len(chain)
    BY <1>1
  <2> QED BY <1>1, <2>1 DEF Final, BurnedOn
<1>4. Vault.executed \subseteq Final(chain)
  <2>1. CASE Len(l2) = 0
    BY <2>1 DEF Vault, BooksAt, NewContract
  <2>2. CASE Len(l2) # 0
    <3>1. Len(l2) \in 1 .. Len(l2)
      BY <1>1, <2>2
    <3> QED BY <2>2, <3>1 DEF Vault, BooksAt, Grounded, PaidIsBuried
  <2> QED BY <2>1, <2>2
<1> QED BY <1>2, <1>3, <1>4 DEF NothingFromNothing

\* Whatever is minted on the confidential chain is locked in the contract, and
\* whatever the contract paid was burned: oracle_listener.js waits for enough
\* confirmations on either side, and both pollers, lost answers, restarts and
\* replaced tips keep it so.
THEOREM NothingIsMadeUp ==
    ASSUME Confirmations >= 1 PROVE Spec => []NothingFromNothing
<1>1. Init => Grounded
  BY GroundedInit
<1>2. Grounded /\ [Next]_vars => Grounded'
  BY GroundedNext
<1>3. Grounded => NothingFromNothing
  BY GroundedSays
<1> QED BY <1>1, <1>2, <1>3, PTL DEF Spec

-----------------------------------------------------------------------------
(***************************************************************************)
(* The books of the two chains                                              *)
(***************************************************************************)

Nets == [e \in Events |-> NetOfEvent(e)]
Burns == [o \in Orders |-> OrderGross[o]]

\* The sums of the model are sums by weights that are a function.
LEMMA NetsAdd ==
    ASSUME NEW S \in SUBSET Events, IsFiniteSet(S)
    PROVE  SumOver(S, NetOfEvent) = SumBy(Nets, S)
<1> DEFINE IsSum(it) == it = [s \in SUBSET S |->
                                IF s = {} THEN 0 ELSE NetOfEvent(Some(s)) + it[s \ {Some(s)}]]
<1>1. \A s \in SUBSET S : s # {} => Nets[Some(s)] = NetOfEvent(Some(s))
  <2>1. \A s \in SUBSET S : s # {} => Some(s) \in Events
    BY DEF Some
  <2> QED BY <2>1 DEF Nets
<1>2. \A it : IsSum(it) <=> Sums(it, Nets, S)
  <2> TAKE it
  <2>1. [s \in SUBSET S |-> IF s = {} THEN 0 ELSE NetOfEvent(Some(s)) + it[s \ {Some(s)}]]
          = [s \in SUBSET S |-> IF s = {} THEN 0 ELSE Nets[Some(s)] + it[s \ {Some(s)}]]
    BY <1>1
  <2> QED BY <2>1 DEF Sums
<1>3. PICK jt : Sums(jt, Nets, S)
  BY SumsExist
<1> DEFINE it == CHOOSE it : IsSum(it)
<1>4. SumOver(S, NetOfEvent) = it[S]
  BY DEF SumOver, MapThenSumSet, MapThenFoldSet, Some
<1>5. Sums(it, Nets, S)
  BY <1>2, <1>3
<1> HIDE DEF it
<1>6. SumBy(Nets, S) = it[S]
  BY <1>5, SumByWithin
<1> QED BY <1>4, <1>6

\* The same of burns.
LEMMA BurnsAdd ==
    ASSUME NEW S \in SUBSET Orders, IsFiniteSet(S)
    PROVE  SumOver(S, LAMBDA o : OrderGross[o]) = SumBy(Burns, S)
<1> DEFINE IsSum(it) == it = [s \in SUBSET S |->
                                IF s = {} THEN 0 ELSE OrderGross[Some(s)] + it[s \ {Some(s)}]]
<1>1. \A s \in SUBSET S : s # {} => Burns[Some(s)] = OrderGross[Some(s)]
  <2>1. \A s \in SUBSET S : s # {} => Some(s) \in Orders
    BY DEF Some
  <2> QED BY <2>1 DEF Burns
<1>2. \A it : IsSum(it) <=> Sums(it, Burns, S)
  <2> TAKE it
  <2>1. [s \in SUBSET S |-> IF s = {} THEN 0 ELSE OrderGross[Some(s)] + it[s \ {Some(s)}]]
          = [s \in SUBSET S |-> IF s = {} THEN 0 ELSE Burns[Some(s)] + it[s \ {Some(s)}]]
    BY <1>1
  <2> QED BY <2>1 DEF Sums
<1>3. PICK jt : Sums(jt, Burns, S)
  BY SumsExist
<1> DEFINE it == CHOOSE it : IsSum(it)
<1>4. SumOver(S, LAMBDA o : OrderGross[o]) = it[S]
  BY DEF SumOver, MapThenSumSet, MapThenFoldSet, Some
<1>5. Sums(it, Burns, S)
  BY <1>2, <1>3
<1> HIDE DEF it
<1>6. SumBy(Burns, S) = it[S]
  BY <1>5, SumByWithin
<1> QED BY <1>4, <1>6

\* The sum over a set is that over a part of it and over the rest.
LEMMA SumInTwo ==
    ASSUME NEW w, NEW U, IsFiniteSet(U), Weighed(w, U), NEW S \in SUBSET U
    PROVE  /\ SumBy(w, U) \in Int /\ SumBy(w, S) \in Int /\ SumBy(w, U \ S) \in Int
           /\ SumBy(w, U) = SumBy(w, S) + SumBy(w, U \ S)
<1> DEFINE T == U \ S
<1>1. T \in SUBSET U /\ U \in SUBSET U /\ S \cap T = {} /\ S \cup T = U
  OBVIOUS
<1> HIDE DEF T
<1>2. SumBy(w, S \cup T) = SumBy(w, S) + SumBy(w, T)
  BY <1>1, SumByUnion
<1>3. SumBy(w, U) \in Int /\ SumBy(w, S) \in Int /\ SumBy(w, T) \in Int
  BY <1>1, SumByTakes
<1> QED BY <1>1, <1>2, <1>3 DEF T

\* The weights are whole numbers.
LEMMA WeightsAreInt ==
    /\ \A S \in SUBSET Events : Weighed(Nets, S)
    /\ \A S \in SUBSET Orders : Weighed(Burns, S)
BY FeesAreInt DEF Weighed, Nets, Burns

BooksIn(b, h) == IF h = 0 THEN NewContract ELSE b[h].books
LockedTo(b, h) == UNION {b[i].events : i \in 1 .. h}

\* What the contract holds for the holders of tokens after h blocks of b is what
\* was locked, net of the fee, less what was burned and paid.
Told(b, h) ==
    /\ LockedTo(b, h) \subseteq Events /\ IsFiniteSet(LockedTo(b, h))
    /\ BooksIn(b, h).executed \subseteq Orders /\ IsFiniteSet(BooksIn(b, h).executed)
    /\ BooksIn(b, h).balance - BooksIn(b, h).fees
         = SumBy(Nets, LockedTo(b, h)) - SumBy(Burns, BooksIn(b, h).executed)

\* It is told by the first h blocks alone.
LEMMA ToldOfFirst ==
    ASSUME NEW h \in Nat, NEW b, NEW d, \A i \in 1 .. h : b[i] = d[i], Told(b, h)
    PROVE  Told(d, h)
<1>1. LockedTo(d, h) = LockedTo(b, h)
  BY DEF LockedTo
<1>2. BooksIn(d, h) = BooksIn(b, h)
  BY DEF BooksIn
<1> QED BY <1>1, <1>2 DEF Told

\* An element more adds its weight.
LEMMA SumOneMore ==
    ASSUME NEW w, NEW S, NEW a, IsFiniteSet(S), a \notin S, Weighed(w, S \cup {a})
    PROVE  /\ IsFiniteSet(S \cup {a})
           /\ SumBy(w, S) \in Int /\ w[a] \in Int
           /\ SumBy(w, S \cup {a}) = SumBy(w, S) + w[a]
<1> DEFINE U == S \cup {a}
<1>1. IsFiniteSet(U) /\ U \in SUBSET U /\ S \in SUBSET U /\ a \in U /\ U \ {a} = S
  BY FS_AddElement
<1>2. Weighed(w, U) /\ w[a] \in Int
  BY DEF Weighed
<1> HIDE DEF U
<1>3. SumBy(w, U) = w[a] + SumBy(w, U \ {a}) /\ SumBy(w, S) \in Int
  BY <1>1, <1>2, SumByTakes
<1>4. SumBy(w, U \ {a}) = SumBy(w, S)
  BY <1>1, Zenon
<1>5. SumBy(w, U) = SumBy(w, S) + w[a]
  BY <1>2, <1>3, <1>4
<1> QED BY <1>1, <1>2, <1>3, <1>5 DEF U

\* A block that accounts for what it does keeps the books.
LEMMA ToldWithBlock ==
    ASSUME Typed, NEW x \in L2Blocks, Accounts(x), Told(l2, Len(l2)),
           \A tx \in mempool : tx.order \in Orders
    PROVE  Told(Append(l2, x), Len(l2) + 1)
<1> DEFINE d == Append(l2, x)
           n == Len(l2)
<1>1. /\ n \in Nat /\ d[n + 1] = x /\ \A i \in 1 .. n : d[i] = l2[i]
      /\ DOMAIN l2 = 1 .. n
  BY OneMore DEF Typed
<1> SUFFICES Told(d, n + 1)
  OBVIOUS
<1> HIDE DEF d
<1>2. LockedTo(d, n + 1) = LockedTo(l2, n) \cup x.events
  <2>1. 1 .. n + 1 = (1 .. n) \cup {n + 1}
    BY <1>1
  <2> HIDE DEF n
  <2> QED BY <1>1, <2>1 DEF LockedTo
<1>3. BooksIn(d, n + 1) = x.books
  <2>1. n + 1 # 0
    BY <1>1
  <2> HIDE DEF n
  <2> QED BY <1>1, <2>1 DEF BooksIn
<1>4. Vault = BooksIn(l2, n) /\ Locked = LockedTo(l2, n)
  BY <1>1 DEF Vault, BooksAt, BooksIn, Locked, LockedTo
<1> DEFINE E == LockedTo(l2, n)
           P == Vault.executed
           C == CirculatingBacking(Vault)
<1>5. /\ E \subseteq Events /\ IsFiniteSet(E) /\ P \subseteq Orders /\ IsFiniteSet(P)
      /\ C = SumBy(Nets, E) - SumBy(Burns, P)
  BY <1>4 DEF Told, CirculatingBacking
<1>6. SumBy(Nets, E) \in Int /\ SumBy(Burns, P) \in Int
  <2>1. Weighed(Nets, E) /\ Weighed(Burns, P)
    BY <1>5, WeightsAreInt
  <2>2. E \in SUBSET E /\ P \in SUBSET P
    OBVIOUS
  <2> HIDE DEF E, P
  <2> QED BY <1>5, <2>1, <2>2, SumByTakes
<1> HIDE DEF E, P, C, n
<1>7. CASE TakesEvent(x)
  <2>1. PICK e \in Events \ Locked : /\ x.events = {e}
                                     /\ x.books.balance - x.books.fees = C + NetOfEvent(e)
    BY <1>7 DEF TakesEvent, C
  <2>2. x.books.executed = P
    BY <1>7 DEF TakesEvent, P
  <2>3. e \notin E /\ e \in Events /\ E \cup {e} \subseteq Events
    BY <1>4, <1>5, <2>1 DEF E
  <2>4. Weighed(Nets, E \cup {e}) /\ Nets[e] = NetOfEvent(e)
    BY <2>3, WeightsAreInt DEF Nets
  <2>5. /\ IsFiniteSet(E \cup {e}) /\ Nets[e] \in Int
        /\ SumBy(Nets, E \cup {e}) = SumBy(Nets, E) + Nets[e]
    BY <1>5, <2>3, <2>4, SumOneMore
  <2>6. LockedTo(d, n + 1) = E \cup {e}
    BY <1>2, <2>1 DEF E
  <2>7. x.books.balance - x.books.fees = SumBy(Nets, E \cup {e}) - SumBy(Burns, P)
    BY <1>5, <1>6, <2>1, <2>4, <2>5
  <2> QED BY <1>3, <1>5, <2>2, <2>3, <2>5, <2>6, <2>7 DEF Told
<1>8. CASE PaysOrder(x)
  <2>1. PICK o \in {tx.order : tx \in mempool} \ P :
                /\ x.books.executed = P \cup {o}
                /\ x.books.balance - x.books.fees = C - OrderGross[o]
    BY <1>8 DEF PaysOrder, P, C
  <2>2. o \notin P /\ o \in Orders /\ P \cup {o} \subseteq Orders
    BY <1>5, <2>1
  <2>3. Weighed(Burns, P \cup {o}) /\ Burns[o] = OrderGross[o]
    BY <2>2, WeightsAreInt DEF Burns
  <2>4. /\ IsFiniteSet(P \cup {o}) /\ Burns[o] \in Int
        /\ SumBy(Burns, P \cup {o}) = SumBy(Burns, P) + Burns[o]
    BY <1>5, <2>2, <2>3, SumOneMore
  <2>5. LockedTo(d, n + 1) = E
    BY <1>2, <1>8 DEF E, PaysOrder
  <2>6. x.books.balance - x.books.fees = SumBy(Nets, E) - SumBy(Burns, P \cup {o})
    BY <1>5, <1>6, <2>1, <2>3, <2>4
  <2> QED BY <1>3, <1>5, <2>1, <2>2, <2>4, <2>5, <2>6 DEF Told
<1>9. CASE OwesTheSame(x)
  <2>1. LockedTo(d, n + 1) = E
    BY <1>2, <1>9 DEF E, OwesTheSame
  <2>2. x.books.executed = P /\ x.books.balance - x.books.fees = C
    BY <1>9 DEF OwesTheSame, P, C
  <2> QED BY <1>3, <1>5, <2>1, <2>2 DEF Told
<1> QED BY <1>7, <1>8, <1>9 DEF Accounts

\* The inductive invariant: every state L2 may go back to has its books told.
Accounted ==
    /\ Grounded
    /\ IsFiniteSet(BurnedOn(chain))
    /\ \A h \in 0 .. Len(l2) : Told(l2, h)

\* The books of a new contract.
LEMMA AccountedInit == Init => Accounted
<1> SUFFICES ASSUME Init PROVE Accounted
  OBVIOUS
<1>1. l2 = <<>> /\ chain = <<>> /\ Grounded
  BY GroundedInit DEF Init
<1>2. DOMAIN chain = {} /\ Len(l2) = 0
  BY <1>1, EmptySeq
<1>3. IsFiniteSet(BurnedOn(chain))
  <2>1. BurnedOn(chain) = {}
    BY <1>2 DEF BurnedOn
  <2> QED BY <2>1, FS_EmptySet
<1>4. Told(l2, 0)
  <2>1. LockedTo(l2, 0) = {} /\ BooksIn(l2, 0) = NewContract
    BY DEF LockedTo, BooksIn
  <2>2. SumBy(Nets, {}) = 0 /\ SumBy(Burns, {}) = 0
    <3>1. Weighed(Nets, {}) /\ Weighed(Burns, {}) /\ IsFiniteSet({})
      BY FS_EmptySet DEF Weighed
    <3> QED BY <3>1, SumByTakes
  <2> QED BY <2>1, <2>2, FS_EmptySet DEF Told, NewContract
<1> QED BY <1>1, <1>2, <1>3, <1>4 DEF Accounted

\* Every step keeps them.
LEMMA AccountedNext ==
    ASSUME Confirmations >= 1, Accounted, [Next]_vars PROVE Accounted'
<1>1. Grounded' /\ L2Moves /\ ChainMoves /\ Grounded /\ Typed
  BY GroundedNext DEF Accounted, Grounded
<1>2. IsFiniteSet(BurnedOn(chain'))
  BY <1>1, ChainAfter DEF Accounted
<1>3. \A h \in 0 .. Len(l2') : Told(l2', h)
  <2>1. l2 \in Seq(L2Blocks) /\ Len(l2) \in Nat /\ \A h \in 0 .. Len(l2) : Told(l2, h)
    BY <1>1, LenProperties DEF Typed, Accounted
  <2>2. CASE l2' = l2
    BY <2>1, <2>2
  <2>3. ASSUME NEW x \in L2Blocks, Accounts(x), l2' = Append(l2, x)
        PROVE  \A h \in 0 .. Len(l2') : Told(l2', h)
    <3>1. /\ Len(l2') = Len(l2) + 1 /\ \A j \in 1 .. Len(l2) : l2'[j] = l2[j]
      BY <2>1, <2>3, OneMore
    <3>2. ASSUME NEW h \in 0 .. Len(l2) PROVE Told(l2', h)
      <4>1. h \in Nat /\ (\A i \in 1 .. h : l2[i] = l2'[i]) /\ Told(l2, h)
        BY <2>1, <3>1, <3>2
      <4> QED BY <4>1, ToldOfFirst
    <3>3. Told(l2', Len(l2) + 1)
      <4>1. \A tx \in mempool : tx.order \in Orders
        BY <1>1, FinalOrders DEF Grounded, SentIsBuried
      <4>2. Told(l2, Len(l2))
        BY <2>1
      <4> QED BY <1>1, <2>3, <4>1, <4>2, ToldWithBlock
    <3>4. \A h \in 0 .. Len(l2') : h \in 0 .. Len(l2) \/ h = Len(l2) + 1
      BY <2>1, <3>1
    <3> QED BY <3>2, <3>3, <3>4
  <2>4. CASE l2 # <<>> /\ l2' = Front(l2)
    <3>1. Len(l2') = Len(l2) - 1 /\ \A j \in 1 .. Len(l2) - 1 : l2'[j] = l2[j]
      BY <2>1, <2>4, OneLess
    <3> TAKE h \in 0 .. Len(l2')
    <3>2. h \in Nat /\ h \in 0 .. Len(l2) /\ \A i \in 1 .. h : l2[i] = l2'[i]
      BY <2>1, <3>1
    <3>3. Told(l2, h)
      BY <2>1, <3>2
    <3> QED BY <3>2, <3>3, ToldOfFirst
  <2> QED BY <1>1, <2>2, <2>3, <2>4 DEF L2Moves
<1> QED BY <1>1, <1>2, <1>3 DEF Accounted

\* And they are what the two chains say of each other.
LEMMA AccountedSays ==
    ASSUME Accounted PROVE BackedAcrossChains
<1> DEFINE E == Locked
           M == MintedOn(chain)
           B == BurnedOn(chain)
           P == Vault.executed
<1>1. M \subseteq E /\ P \subseteq B /\ Typed
  BY GroundedSays DEF Accounted, Grounded, NothingFromNothing
<1>2. /\ E \subseteq Events /\ IsFiniteSet(E) /\ P \subseteq Orders /\ IsFiniteSet(P)
      /\ CirculatingBacking(Vault) = SumBy(Nets, E) - SumBy(Burns, P)
  <2>1. Len(l2) \in Nat /\ DOMAIN l2 = 1 .. Len(l2)
    BY <1>1, LenProperties DEF Typed
  <2>2. Told(l2, Len(l2))
    BY <2>1 DEF Accounted
  <2>3. Vault = BooksIn(l2, Len(l2)) /\ Locked = LockedTo(l2, Len(l2))
    BY <2>1 DEF Vault, BooksAt, BooksIn, Locked, LockedTo
  <2> QED BY <2>2, <2>3 DEF Told, CirculatingBacking
<1>3. B \subseteq Orders /\ IsFiniteSet(B)
  BY <1>1, FinalOrders DEF Accounted
<1>4. IsFiniteSet(M) /\ IsFiniteSet(E \ M) /\ IsFiniteSet(B \ P)
  BY <1>1, <1>2, <1>3, FS_Subset
<1>5. /\ SumOver(M, NetOfEvent) = SumBy(Nets, M)
      /\ SumOver(E \ M, NetOfEvent) = SumBy(Nets, E \ M)
  BY <1>1, <1>2, <1>4, NetsAdd
<1>6. /\ SumOver(B, LAMBDA o : OrderGross[o]) = SumBy(Burns, B)
      /\ SumOver(B \ P, LAMBDA o : OrderGross[o]) = SumBy(Burns, B \ P)
  BY <1>3, <1>4, BurnsAdd
<1>7. CirculatingOn(chain) = SumBy(Nets, M) - SumBy(Burns, B)
  BY <1>5, <1>6 DEF CirculatingOn
<1> HIDE DEF E, M, B, P
<1>8. /\ SumBy(Nets, E) \in Int /\ SumBy(Nets, M) \in Int /\ SumBy(Nets, E \ M) \in Int
      /\ SumBy(Nets, E) = SumBy(Nets, M) + SumBy(Nets, E \ M)
  BY <1>1, <1>2, SumInTwo, WeightsAreInt
<1>9. /\ SumBy(Burns, B) \in Int /\ SumBy(Burns, P) \in Int /\ SumBy(Burns, B \ P) \in Int
      /\ SumBy(Burns, B) = SumBy(Burns, P) + SumBy(Burns, B \ P)
  BY <1>1, <1>3, SumInTwo, WeightsAreInt
<1>10. CirculatingBacking(Vault)
         = CirculatingOn(chain) + SumBy(Nets, E \ M) + SumBy(Burns, B \ P)
  BY <1>2, <1>7, <1>8, <1>9
<1> QED BY <1>5, <1>6, <1>10 DEF BackedAcrossChains, E, M, B, P

\* One-to-one across the two chains (README.md:25): at every moment the USDT of
\* the holders in the contract is what circulates, what is locked and not minted
\* yet, and what is burned and not paid yet, whatever is polled, lost, restarted
\* or reorganised.
THEOREM ChainsBackEachOther ==
    ASSUME Confirmations >= 1 PROVE Spec => []BackedAcrossChains
<1>1. Init => Accounted
  BY AccountedInit
<1>2. Accounted /\ [Next]_vars => Accounted'
  BY AccountedNext
<1>3. Accounted => BackedAcrossChains
  BY AccountedSays
<1> QED BY <1>1, <1>2, <1>3, PTL DEF Spec

=============================================================================
