----------------------------- MODULE WalletProofs -----------------------------
(***************************************************************************)
(* What the wallet programs of one node may rely on: for every number of    *)
(* programs, identities and outputs, every set of amounts, and any number   *)
(* of payments, repetitions, lost answers, kills and reordered pools.       *)
(*                                                                         *)
(* The fact about payments made twice is not inductive.  Two requests for   *)
(* one order name the same output because the lists they were chosen from   *)
(* are beginnings of one another, as long as the node appends to its pool   *)
(* and does not reorder it (InOrder).                                       *)
(***************************************************************************)
EXTENDS Wallet, VaultOpsProofs, SequenceTheorems

-----------------------------------------------------------------------------
(***************************************************************************)
(* Lists and their beginnings                                               *)
(***************************************************************************)

\* The list t begins with the list s.
Begins(s, t) ==
    /\ Len(s) <= Len(t)
    /\ \A i \in 1 .. Len(s) : s[i] = t[i]

\* What a list of outputs is.
LEMMA ListIs ==
    ASSUME NEW S, NEW s \in Seq(S)
    PROVE  /\ Len(s) \in Nat /\ DOMAIN s = 1 .. Len(s)
           /\ \A i \in 1 .. Len(s) : s[i] \in S
           /\ ToSet(s) = {s[i] : i \in 1 .. Len(s)}
           /\ ToSet(s) \subseteq S /\ IsFiniteSet(ToSet(s))
<1>1. Len(s) \in Nat /\ DOMAIN s = 1 .. Len(s) /\ \A i \in 1 .. Len(s) : s[i] \in S
  BY LenProperties, ElementOfSeq
<1>2. ToSet(s) = {s[i] : i \in 1 .. Len(s)}
  BY <1>1 DEF ToSet
<1>3. IsFiniteSet(1 .. Len(s))
  BY <1>1, FS_Interval
<1>4. IsFiniteSet({s[i] : i \in 1 .. Len(s)})
  <2> DEFINE f == [i \in 1 .. Len(s) |-> s[i]]
  <2>1. f \in Surjection(1 .. Len(s), {s[i] : i \in 1 .. Len(s)})
    BY DEF Surjection
  <2> QED BY <2>1, <1>3, FS_Surjection
<1> QED BY <1>1, <1>2, <1>4

\* One output more at the end.
LEMMA OneMore ==
    ASSUME NEW S, NEW s \in Seq(S), NEW x \in S
    PROVE  /\ Append(s, x) \in Seq(S)
           /\ Len(Append(s, x)) = Len(s) + 1
           /\ \A i \in 1 .. Len(s) : Append(s, x)[i] = s[i]
           /\ Append(s, x)[Len(s) + 1] = x
           /\ Begins(s, Append(s, x))
BY AppendProperties, LenProperties DEF Begins

\* A list appended to a list.
LEMMA Joined ==
    ASSUME NEW S, NEW s \in Seq(S), NEW t \in Seq(S)
    PROVE  /\ s \o t \in Seq(S)
           /\ Len(s \o t) = Len(s) + Len(t)
           /\ \A i \in 1 .. Len(s) : (s \o t)[i] = s[i]
           /\ \A i \in 1 .. Len(t) : (s \o t)[Len(s) + i] = t[i]
           /\ ToSet(s \o t) = ToSet(s) \cup ToSet(t)
<1>1. Len(s) \in Nat /\ Len(t) \in Nat
  BY LenProperties
<1>2. /\ s \o t \in Seq(S)
      /\ Len(s \o t) = Len(s) + Len(t)
      /\ \A i \in 1 .. Len(s) + Len(t) : (s \o t)[i] = IF i <= Len(s) THEN s[i]
                                                       ELSE t[i - Len(s)]
  BY ConcatProperties
<1>3. \A i \in 1 .. Len(s) : (s \o t)[i] = s[i]
  BY <1>1, <1>2
<1>4. \A i \in 1 .. Len(t) : (s \o t)[Len(s) + i] = t[i]
  <2> TAKE i \in 1 .. Len(t)
  <2>1. Len(s) + i \in 1 .. Len(s) + Len(t) /\ ~ (Len(s) + i <= Len(s)) /\ (Len(s) + i) - Len(s) = i
    BY <1>1
  <2> QED BY <1>2, <2>1
<1>5. \A x : x \in ToSet(s \o t) <=> x \in ToSet(s) \/ x \in ToSet(t)
  <2>1. /\ ToSet(s \o t) = {(s \o t)[i] : i \in 1 .. Len(s) + Len(t)}
        /\ ToSet(s) = {s[i] : i \in 1 .. Len(s)} /\ ToSet(t) = {t[i] : i \in 1 .. Len(t)}
    BY <1>2, ListIs
  <2>2. \A i \in 1 .. Len(s) : i \in 1 .. Len(s) + Len(t)
    BY <1>1
  <2>3. \A i \in 1 .. Len(t) : Len(s) + i \in 1 .. Len(s) + Len(t)
    BY <1>1
  <2>4. \A i \in 1 .. Len(s) + Len(t) : i \in 1 .. Len(s) \/ i - Len(s) \in 1 .. Len(t)
    BY <1>1
  <2>5. \A i \in 1 .. Len(s) + Len(t) : (s \o t)[i] \in ToSet(s) \cup ToSet(t)
    BY <1>1, <1>2, <2>1, <2>4
  <2>6. \A i \in 1 .. Len(s) : s[i] \in ToSet(s \o t)
    BY <1>3, <2>1, <2>2
  <2>7. \A i \in 1 .. Len(t) : t[i] \in ToSet(s \o t)
    BY <1>4, <2>1, <2>3
  <2> QED BY <2>1, <2>5, <2>6, <2>7
<1> QED BY <1>2, <1>3, <1>4, <1>5

\* Beginnings of beginnings.
LEMMA BeginsAgain ==
    ASSUME NEW S, NEW r \in Seq(S), NEW s \in Seq(S), NEW t \in Seq(S)
    PROVE  /\ Begins(s, s)
           /\ Begins(r, s) /\ Begins(s, t) => Begins(r, t)
           /\ Begins(r, t) /\ Begins(s, t) => Begins(r, s) \/ Begins(s, r)
BY LenProperties DEF Begins
-----------------------------------------------------------------------------
(***************************************************************************)
(* The outputs a wallet is told are its own                                 *)
(***************************************************************************)

\* The list after one output of the pool, from the list before.
Kept(s, list, o) == IF o.owner = s THEN Append(list, o) ELSE list

\* What the loop of the scan holds after each of the first m outputs.
IsScan(f, m, s, outs) ==
    f = [n \in 0 .. m |-> IF n = 0 THEN <<>> ELSE Kept(s, f[n - 1], outs[n])]

\* What the steps of that loop say of the whole.
ScansAlong(f, s, outs) ==
    /\ f[0] = <<>>
    /\ \A n \in 1 .. Len(outs) : f[n] = Kept(s, f[n - 1], outs[n])
    /\ Owned(s, outs) = f[Len(outs)]

\* There is such a function for every pool, and Owned is its last value.
LEMMA ScanSteps ==
    ASSUME NEW outs \in Seq(Output), NEW s
    PROVE  \E f : ScansAlong(f, s, outs)
<1> DEFINE S == {m \in Nat : \E f : IsScan(f, m, s, outs)}
<1>1. 0 \in S
  <2> DEFINE g == [n \in 0 .. 0 |-> <<>>]
  <2>1. IsScan(g, 0, s, outs)
    BY DEF IsScan
  <2> QED BY <2>1
<1>2. ASSUME NEW m \in Nat, m \in S PROVE m + 1 \in S
  <2>1. PICK f : IsScan(f, m, s, outs)
    BY <1>2
  <2> DEFINE g == [n \in 0 .. m + 1 |-> IF n = m + 1 THEN Kept(s, f[m], outs[m + 1]) ELSE f[n]]
  <2>2. \A n \in 0 .. m : g[n] = f[n]
    OBVIOUS
  <2>3. g[m + 1] = Kept(s, g[m], outs[m + 1])
    OBVIOUS
  <2>4. g = [n \in 0 .. m + 1 |-> g[n]]
    OBVIOUS
  <2> HIDE DEF g
  <2>5. \A n \in 0 .. m + 1 : g[n] = IF n = 0 THEN <<>> ELSE Kept(s, g[n - 1], outs[n])
    <3>1. \A n \in 0 .. m : f[n] = IF n = 0 THEN <<>> ELSE Kept(s, f[n - 1], outs[n])
      BY <2>1 DEF IsScan
    <3>2. \A n \in 0 .. m : n # 0 => n - 1 \in 0 .. m
      OBVIOUS
    <3>3. \A n \in 0 .. m + 1 : n \in 0 .. m \/ n = m + 1
      OBVIOUS
    <3>4. (m + 1) - 1 = m /\ m + 1 # 0
      OBVIOUS
    <3> QED BY <3>1, <3>2, <3>3, <3>4, <2>2, <2>3
  <2>6. IsScan(g, m + 1, s, outs)
    BY <2>4, <2>5 DEF IsScan
  <2>7. m + 1 \in Nat
    OBVIOUS
  <2> QED BY <2>6, <2>7
<1> HIDE DEF S
<1>l. Len(outs) \in Nat
  BY LenProperties
<1>3. Nat \subseteq S
  BY <1>1, <1>2, SetInduction
<1>4. PICK h : IsScan(h, Len(outs), s, outs)
  BY <1>3, <1>l DEF S
<1> DEFINE f == CHOOSE f : IsScan(f, Len(outs), s, outs)
<1>5. IsScan(f, Len(outs), s, outs)
  BY <1>4
<1>6. Owned(s, outs) = f[Len(outs)]
  BY DEF Owned, Kept, IsScan
<1> HIDE DEF f
<1>7. /\ f[0] = <<>>
      /\ \A n \in 1 .. Len(outs) : f[n] = Kept(s, f[n - 1], outs[n])
  <2>1. \A n \in 0 .. Len(outs) : f[n] = IF n = 0 THEN <<>> ELSE Kept(s, f[n - 1], outs[n])
    BY <1>5 DEF IsScan
  <2>2. \A n \in 1 .. Len(outs) : n \in 0 .. Len(outs) /\ n # 0
    BY <1>l
  <2>3. 0 \in 0 .. Len(outs)
    BY <1>l
  <2> QED BY <2>1, <2>2, <2>3
<1> QED BY <1>6, <1>7 DEF ScansAlong

\* A scan lists outputs of the pool, all of the identity that asked.
LEMMA ScanLists ==
    ASSUME NEW outs \in Seq(Output), NEW s
    PROVE  /\ Owned(s, outs) \in Seq(Output)
           /\ \A o \in ToSet(Owned(s, outs)) : o \in ToSet(outs) /\ o.owner = s
<1> DEFINE Good(list) == /\ list \in Seq(Output)
                         /\ \A i \in 1 .. Len(list) : list[i] \in ToSet(outs) /\ list[i].owner = s
<1>r. PICK f : ScansAlong(f, s, outs)
  BY ScanSteps
<1>s. /\ f[0] = <<>>
      /\ \A n \in 1 .. Len(outs) : f[n] = Kept(s, f[n - 1], outs[n])
      /\ Owned(s, outs) = f[Len(outs)]
  BY <1>r DEF ScansAlong
<1>l. Len(outs) \in Nat /\ \A n \in 1 .. Len(outs) : outs[n] \in ToSet(outs) /\ outs[n] \in Output
  BY ListIs
<1> DEFINE S == {n \in Nat : n <= Len(outs) => Good(f[n])}
<1>1. 0 \in S
  <2> DEFINE none == f[0]
  <2>1. none \in Seq(Output) /\ Len(none) = 0
    BY <1>s, EmptySeq
  <2> HIDE DEF none
  <2>2. Good(none)
    BY <2>1
  <2> QED BY <2>2 DEF none
<1>2. ASSUME NEW n \in Nat, n \in S PROVE n + 1 \in S
  <2> SUFFICES ASSUME n + 1 <= Len(outs) PROVE Good(f[n + 1])
    OBVIOUS
  <2>1. n + 1 \in 1 .. Len(outs) /\ (n + 1) - 1 = n /\ n <= Len(outs)
    BY <1>l
  <2>2. f[n + 1] = Kept(s, f[n], outs[n + 1])
    BY <1>s, <2>1
  <2>3. Good(f[n])
    BY <1>2, <2>1
  <2>4. outs[n + 1] \in Output /\ outs[n + 1] \in ToSet(outs)
    BY <1>l, <2>1
  <2> DEFINE list == f[n]
             o == outs[n + 1]
  <2> HIDE DEF list, o
  <2>5. Good(list) /\ o \in Output /\ o \in ToSet(outs)
    BY <2>3, <2>4 DEF list, o
  <2>6. CASE o.owner = s
    <3>1. /\ Append(list, o) \in Seq(Output)
          /\ Len(Append(list, o)) = Len(list) + 1
          /\ \A i \in 1 .. Len(list) : Append(list, o)[i] = list[i]
          /\ Append(list, o)[Len(list) + 1] = o
      BY <2>5, OneMore
    <3>2. \A i \in 1 .. Len(list) + 1 : i \in 1 .. Len(list) \/ i = Len(list) + 1
      BY <2>5, LenProperties
    <3>3. Good(Append(list, o))
      BY <2>5, <2>6, <3>1, <3>2
    <3> QED BY <2>2, <2>6, <3>3 DEF Kept, list, o
  <2>7. CASE o.owner # s
    BY <2>2, <2>5, <2>7 DEF Kept, list, o
  <2> QED BY <2>6, <2>7
<1> HIDE DEF S
<1>3. Len(outs) \in S
  BY <1>1, <1>2, <1>l, SetInduction
<1>4. Good(f[Len(outs)])
  BY <1>3, <1>l DEF S
<1>5. Good(Owned(s, outs))
  BY <1>4, <1>s
<1>6. ToSet(Owned(s, outs)) = {Owned(s, outs)[i] : i \in 1 .. Len(Owned(s, outs))}
  BY <1>5, ListIs
<1> QED BY <1>5, <1>6

\* What is appended to the pool comes after what a scan listed before.
LEMMA ScanGrows ==
    ASSUME NEW outs \in Seq(Output), NEW more \in Seq(Output), NEW s
    PROVE  Begins(Owned(s, outs), Owned(s, outs \o more))
<1> DEFINE long == outs \o more
<1>j. /\ long \in Seq(Output)
      /\ Len(long) = Len(outs) + Len(more)
      /\ \A i \in 1 .. Len(outs) : long[i] = outs[i]
  BY Joined
<1>l. /\ Len(outs) \in Nat /\ Len(more) \in Nat /\ Len(long) \in Nat /\ Len(outs) <= Len(long)
      /\ \A n \in 1 .. Len(long) : long[n] \in Output
  BY <1>j, ListIs
<1> HIDE DEF long
<1>r. (\E f : ScansAlong(f, s, outs)) /\ (\E g : ScansAlong(g, s, long))
  BY <1>j, ScanSteps
<1>f. PICK f : ScansAlong(f, s, outs)
  BY <1>r
<1>g. PICK g : ScansAlong(g, s, long)
  BY <1>r
<1>s. /\ f[0] = <<>>
      /\ \A n \in 1 .. Len(outs) : f[n] = Kept(s, f[n - 1], outs[n])
      /\ Owned(s, outs) = f[Len(outs)]
  BY <1>f DEF ScansAlong
<1>t. /\ g[0] = <<>>
      /\ \A n \in 1 .. Len(long) : g[n] = Kept(s, g[n - 1], long[n])
      /\ Owned(s, long) = g[Len(long)]
  BY <1>g DEF ScansAlong
<1> DEFINE S == {n \in Nat : n <= Len(outs) => f[n] = g[n]}
<1>1. 0 \in S
  BY <1>s, <1>t
<1>2. ASSUME NEW n \in Nat, n \in S PROVE n + 1 \in S
  <2> SUFFICES ASSUME n + 1 <= Len(outs) PROVE f[n + 1] = g[n + 1]
    OBVIOUS
  <2>1. /\ n + 1 \in 1 .. Len(outs) /\ n + 1 \in 1 .. Len(long)
        /\ (n + 1) - 1 = n /\ n <= Len(outs)
    BY <1>l
  <2>2. f[n] = g[n]
    BY <1>2, <2>1
  <2>3. f[n + 1] = Kept(s, f[n], outs[n + 1])
    BY <1>s, <2>1
  <2>4. g[n + 1] = Kept(s, g[n], long[n + 1])
    BY <1>t, <2>1
  <2> QED BY <2>1, <2>2, <2>3, <2>4, <1>j
<1> HIDE DEF S
<1>3. Len(outs) \in S
  BY <1>1, <1>2, <1>l, SetInduction
<1>4. Owned(s, outs) = g[Len(outs)]
  BY <1>3, <1>l, <1>s DEF S
\* From there on the list only grows.
<1> DEFINE first == Owned(s, outs)
           T == {n \in Nat : Len(outs) + n <= Len(long)
                               => /\ g[Len(outs) + n] \in Seq(Output)
                                  /\ Begins(first, g[Len(outs) + n])}
<1>5. first \in Seq(Output)
  BY ScanLists
<1>6. 0 \in T
  <2>1. Begins(first, first)
    BY <1>5, BeginsAgain
  <2>2. Len(outs) + 0 = Len(outs)
    BY <1>l
  <2> HIDE DEF first
  <2>3. first = g[Len(outs)]
    BY <1>4 DEF first
  <2> QED BY <2>1, <2>2, <2>3, <1>5
<1>7. ASSUME NEW n \in Nat, n \in T PROVE n + 1 \in T
  <2> DEFINE k == Len(outs) + n
  <2> SUFFICES ASSUME Len(outs) + (n + 1) <= Len(long)
               PROVE  /\ g[Len(outs) + (n + 1)] \in Seq(Output)
                      /\ Begins(first, g[Len(outs) + (n + 1)])
    OBVIOUS
  <2>1. /\ k \in Nat /\ k + 1 \in 1 .. Len(long) /\ (k + 1) - 1 = k /\ k <= Len(long)
        /\ Len(outs) + (n + 1) = k + 1
    BY <1>l
  <2>2. g[k] \in Seq(Output) /\ Begins(first, g[k])
    BY <1>7, <2>1
  <2>3. g[k + 1] = Kept(s, g[k], long[k + 1]) /\ long[k + 1] \in Output
    BY <1>t, <1>l, <2>1
  <2>w. Len(outs) + (n + 1) = k + 1
    BY <2>1
  <2> HIDE DEF k, first
  <2>f. first \in Seq(Output)
    BY <1>5
  <2> DEFINE list == g[k]
             o == long[k + 1]
  <2>l. list \in Seq(Output) /\ Begins(first, list) /\ o \in Output /\ g[k + 1] = Kept(s, list, o)
    BY <2>2, <2>3
  <2> HIDE DEF list, o
  <2>4. Append(list, o) \in Seq(Output) /\ Begins(list, Append(list, o))
    BY <2>l, OneMore
  <2>5. Begins(first, Append(list, o))
    BY <2>l, <2>f, <2>4, BeginsAgain
  <2>6. g[k + 1] \in Seq(Output) /\ Begins(first, g[k + 1])
    BY <2>l, <2>4, <2>5 DEF Kept
  <2> QED BY <2>6, <2>w
<1> HIDE DEF T
<1>8. Len(more) \in T
  BY <1>6, <1>7, <1>l, SetInduction
<1>9. Len(outs) + Len(more) = Len(long)
  BY <1>j
<1>10. Begins(first, g[Len(long)])
  BY <1>8, <1>9, <1>l DEF T
<1> QED BY <1>10, <1>t DEF long

-----------------------------------------------------------------------------
(***************************************************************************)
(* The output a wallet chooses                                              *)
(***************************************************************************)

\* The first output that covers the amount.
Covers(list, i, amount) ==
    /\ i \in 1 .. Len(list)
    /\ list[i].amount >= amount
    /\ \A j \in 1 .. Len(list) : list[j].amount >= amount => i <= j

LEMMA SelectedIs ==
    ASSUME NEW list \in Seq(Output), NEW amount \in Nat
    PROVE  \/ /\ Selected(list, amount) = 0
              /\ ~ \E i \in 1 .. Len(list) : list[i].amount >= amount
           \/ /\ Selected(list, amount) # 0
              /\ Covers(list, Selected(list, amount), amount)
<1> DEFINE I == {i \in 1 .. Len(list) : list[i].amount >= amount}
<1>l. Len(list) \in Nat
  BY LenProperties
<1>1. Selected(list, amount) = IF I # {} THEN CHOOSE x \in I : \A y \in I : x <= y ELSE 0
  BY DEF Selected, SelectInSeq, Min
<1>2. CASE I = {}
  BY <1>1, <1>2
<1>3. CASE I # {}
  <2>1. I \in SUBSET Nat
    BY <1>l
  <2> HIDE DEF I
  <2>2. \E x \in I : \A y \in I : x <= y
    BY <1>3, <2>1, Least
  <2> DEFINE i == CHOOSE x \in I : \A y \in I : x <= y
  <2>3. i \in I /\ \A y \in I : i <= y
    BY <2>2
  <2>4. Selected(list, amount) = i
    BY <1>1, <1>3
  <2> HIDE DEF i
  <2>5. i \in 1 .. Len(list) /\ list[i].amount >= amount
        /\ \A j \in 1 .. Len(list) : list[j].amount >= amount => i <= j
    BY <2>3 DEF I
  <2>6. i # 0
    BY <2>5, <1>l
  <2> QED BY <2>4, <2>5, <2>6 DEF Covers
<1> QED BY <1>2, <1>3

\* A longer list does not change the choice.
LEMMA ChoiceStays ==
    ASSUME NEW s \in Seq(Output), NEW t \in Seq(Output), NEW amount \in Nat,
           Begins(s, t), Selected(s, amount) # 0
    PROVE  /\ Selected(t, amount) # 0
           /\ t[Selected(t, amount)] = s[Selected(s, amount)]
<1> DEFINE i == Selected(s, amount)
           k == Selected(t, amount)
<1>l. Len(s) \in Nat /\ Len(t) \in Nat
  BY LenProperties
<1>1. Covers(s, i, amount)
  BY SelectedIs
<1>2. \/ k = 0 /\ ~ \E j \in 1 .. Len(t) : t[j].amount >= amount
      \/ k # 0 /\ Covers(t, k, amount)
  BY SelectedIs
<1> HIDE DEF i, k
<1>3. i \in 1 .. Len(s) /\ i \in 1 .. Len(t) /\ t[i] = s[i] /\ t[i].amount >= amount
  BY <1>1, <1>l DEF Covers, Begins
<1>4. k # 0 /\ Covers(t, k, amount)
  BY <1>2, <1>3
<1>5. k \in 1 .. Len(s) /\ k <= i
  BY <1>3, <1>4, <1>l DEF Covers
<1>6. s[k] = t[k] /\ s[k].amount >= amount
  BY <1>4, <1>5 DEF Covers, Begins
<1>7. i <= k
  BY <1>1, <1>5, <1>6 DEF Covers
<1>8. i = k
  BY <1>3, <1>5, <1>7, <1>l
<1> QED BY <1>3, <1>4, <1>8 DEF i, k
-----------------------------------------------------------------------------
(***************************************************************************)
(* The invariant                                                            *)
(***************************************************************************)

Requests == calls \cup paid

\* Outputs are told apart by their keys, and those to come have larger ones.
Keyed ==
    /\ IsFiniteSet(paid)
    /\ \A i, j \in DOMAIN pool : pool[i].key = pool[j].key => i = j
    /\ \A i \in DOMAIN pool : pool[i].key <= Len(Funded) + 2 * Cardinality(paid)

\* The spent outputs are those the payments took, one each; a request names an
\* output that exists.
PaidOnce ==
    /\ spent = {p.key : p \in paid}
    /\ \A p, q \in paid : p.key = q.key => p = q
    /\ \A p \in Requests : p.epoch <= reloads /\ \E o \in ToSet(pool) : o.key = p.key

\* A wallet lists outputs of the pool that are the loaded identity's.
Lists(lists, ids, outs, now) ==
    \A c \in Clients :
        /\ lists[c].epoch <= now
        /\ \A o \in ToSet(lists[c].outs) : o \in ToSet(outs) /\ o.owner = ids[c]

\* A request made from this list would name the output p names.
Agrees(p, list) ==
    Selected(list, p.order.amount) # 0 => list[Selected(list, p.order.amount)].key = p.key

\* Of two lists one begins with the other.
Alike(s, t) == Begins(s, t) \/ Begins(t, s)

\* As long as the pool is not reordered, lists of one identity begin alike, those
\* of now with what a scan would list; and whoever chooses for one order chooses
\* the same output.
Orderly(lists, ids, asked, outs, now) ==
    /\ \A c \in Clients :
         lists[c].epoch = now => Begins(lists[c].outs, Owned(ids[c], outs))
    /\ \A c, d \in Clients :
         lists[c].epoch = lists[d].epoch /\ ids[c] = ids[d] => Alike(lists[c].outs, lists[d].outs)
    /\ \A p \in asked :
         p.epoch = now => /\ Selected(Owned(p.order.payer, outs), p.order.amount) # 0
                          /\ Agrees(p, Owned(p.order.payer, outs))
    /\ \A p \in asked, c \in Clients :
         p.epoch = lists[c].epoch /\ p.order.payer = ids[c] => Agrees(p, lists[c].outs)
    /\ \A p, q \in asked : p.order = q.order /\ p.epoch = q.epoch => p.key = q.key

Inv == /\ TypeOK /\ Keyed /\ PaidOnce
       /\ Lists(utxos, open, pool, reloads)
       /\ Orderly(utxos, open, Requests, pool, reloads)
-----------------------------------------------------------------------------
(***************************************************************************)
(* Choosing in order                                                        *)
(***************************************************************************)

\* A list that is emptied, scanned anew, or kept.
IsList(list, id, lists, ids, c, outs, now) ==
    \/ list = Empty
    \/ list = [outs |-> Owned(id, outs), epoch |-> now]
    \/ list = lists[c] /\ id = ids[c]

\* Nothing is chosen from an empty list, and every list begins with it.
LEMMA EmptyList ==
    /\ Empty.outs \in Seq(Output) /\ Len(Empty.outs) = 0 /\ ToSet(Empty.outs) = {}
    /\ \A list : Len(list) \in Nat => Begins(Empty.outs, list)
    /\ \A p : p.order.amount \in Nat => Agrees(p, Empty.outs)
<1> DEFINE none == Empty.outs
<1>1. none \in Seq(Output) /\ Len(none) = 0
  BY EmptySeq DEF Empty
<1> HIDE DEF none
<1>2. ToSet(none) = {}
  <2>1. ToSet(none) = {none[i] : i \in 1 .. Len(none)}
    BY <1>1, ListIs
  <2>2. 1 .. Len(none) = {}
    BY <1>1
  <2> QED BY <2>1, <2>2
<1>3. \A list : Len(list) \in Nat => Begins(none, list)
  BY <1>1 DEF Begins
<1>4. \A p : p.order.amount \in Nat => Agrees(p, none)
  <2> TAKE p
  <2> HAVE p.order.amount \in Nat
  <2>1. Selected(none, p.order.amount) = 0
    <3> DEFINE amount == p.order.amount
    <3>1. amount \in Nat /\ ~ \E i : i \in 1 .. Len(none)
      BY <1>1
    <3> HIDE DEF amount
    <3>2. Selected(none, amount) = 0 \/ Covers(none, Selected(none, amount), amount)
      BY <1>1, <3>1, SelectedIs
    <3>3. ~ Covers(none, Selected(none, amount), amount)
      BY <3>1 DEF Covers
    <3> QED BY <3>2, <3>3 DEF amount
  <2> QED BY <2>1 DEF Agrees
<1> QED BY <1>1, <1>2, <1>3, <1>4 DEF none

\* A program that loads an identity, syncs or fails to, keeps the order.
LEMMA ListTaken ==
    ASSUME NEW lists \in [Clients -> Listing], NEW ids \in [Clients -> Seeds \cup {NoOne}],
           NEW asked \in SUBSET Call, NEW outs \in Seq(Output), NEW now \in Nat,
           Orderly(lists, ids, asked, outs, now),
           NEW c \in Clients, NEW id, NEW list \in Listing,
           IsList(list, id, lists, ids, c, outs, now)
    PROVE  Orderly([lists EXCEPT ![c] = list], [ids EXCEPT ![c] = id], asked, outs, now)
<1>t. /\ \A d \in Clients : lists[d].outs \in Seq(Output)
      /\ list.outs \in Seq(Output)
      /\ Owned(id, outs) \in Seq(Output)
      /\ \A p \in asked : p.order.amount \in Nat
  BY ScanLists, WalletConstants DEF Listing, Call, Order
<1>n. /\ \A d \in Clients : Len(lists[d].outs) \in Nat
      /\ Len(list.outs) \in Nat /\ Len(Owned(id, outs)) \in Nat
  BY <1>t, LenProperties
<1>1. list.epoch = now => Begins(list.outs, Owned(id, outs))
  <2>1. CASE list = Empty
    BY <2>1, <1>n, EmptyList
  <2>2. CASE list = [outs |-> Owned(id, outs), epoch |-> now]
    BY <2>2, <1>t, BeginsAgain
  <2>3. CASE list = lists[c] /\ id = ids[c]
    BY <2>3 DEF Orderly
  <2> QED BY <2>1, <2>2, <2>3 DEF IsList
<1>2. \A d \in Clients : list.epoch = lists[d].epoch /\ id = ids[d] => Alike(list.outs, lists[d].outs)
  <2>1. CASE list = Empty
    BY <2>1, <1>n, EmptyList DEF Alike
  <2>2. CASE list = [outs |-> Owned(id, outs), epoch |-> now]
    BY <2>2 DEF Orderly, Alike
  <2>3. CASE list = lists[c] /\ id = ids[c]
    BY <2>3 DEF Orderly
  <2> QED BY <2>1, <2>2, <2>3 DEF IsList
<1>3. \A p \in asked : p.epoch = list.epoch /\ p.order.payer = id => Agrees(p, list.outs)
  <2>1. CASE list = Empty
    BY <2>1, <1>t, EmptyList
  <2>2. CASE list = [outs |-> Owned(id, outs), epoch |-> now]
    BY <2>2 DEF Orderly
  <2>3. CASE list = lists[c] /\ id = ids[c]
    BY <2>3 DEF Orderly
  <2> QED BY <2>1, <2>2, <2>3 DEF IsList
<1>4. Alike(list.outs, list.outs)
  BY <1>t, BeginsAgain DEF Alike
<1> DEFINE new == [lists EXCEPT ![c] = list]
           who == [ids EXCEPT ![c] = id]
<1>5. /\ new[c] = list /\ who[c] = id
      /\ \A d \in Clients : d # c => new[d] = lists[d] /\ who[d] = ids[d]
  OBVIOUS
<1> HIDE DEF new, who
<1>6. \A d \in Clients : new[d].epoch = now => Begins(new[d].outs, Owned(who[d], outs))
  BY <1>1, <1>5 DEF Orderly
<1>7. \A d, e \in Clients :
        new[d].epoch = new[e].epoch /\ who[d] = who[e] => Alike(new[d].outs, new[e].outs)
  <2>1. \A r, t : Alike(r, t) <=> Alike(t, r)
    BY DEF Alike
  <2> TAKE d, e \in Clients
  <2>2. CASE d = c /\ e = c
    BY <1>4, <1>5, <2>2
  <2>3. CASE d = c /\ e # c
    BY <1>2, <1>5, <2>3
  <2>4. CASE d # c /\ e = c
    BY <1>2, <1>5, <2>1, <2>4
  <2>5. CASE d # c /\ e # c
    BY <1>5, <2>5 DEF Orderly
  <2> QED BY <2>2, <2>3, <2>4, <2>5
<1>8. \A p \in asked, d \in Clients :
        p.epoch = new[d].epoch /\ p.order.payer = who[d] => Agrees(p, new[d].outs)
  BY <1>3, <1>5 DEF Orderly
<1> QED BY <1>6, <1>7, <1>8 DEF Orderly, new, who

\* A request made from a program's list keeps the order.
LEMMA RequestMade ==
    ASSUME NEW lists \in [Clients -> Listing], NEW ids \in [Clients -> Seeds \cup {NoOne}],
           NEW asked \in SUBSET Call, NEW outs \in Seq(Output), NEW now \in Nat,
           Orderly(lists, ids, asked, outs, now),
           NEW c \in Clients, NEW p \in Call,
           p.order.payer = ids[c], p.epoch = lists[c].epoch,
           Selected(lists[c].outs, p.order.amount) # 0,
           p.key = lists[c].outs[Selected(lists[c].outs, p.order.amount)].key
    PROVE  Orderly(lists, ids, asked \cup {p}, outs, now)
<1> DEFINE amount == p.order.amount
           mine == lists[c].outs
           all == Owned(ids[c], outs)
<1>t. /\ \A d \in Clients : lists[d].outs \in Seq(Output)
      /\ all \in Seq(Output) /\ amount \in Nat
  BY ScanLists, WalletConstants DEF Listing, Call, Order
<1>a. mine \in Seq(Output) /\ all \in Seq(Output) /\ amount \in Nat
      /\ Selected(mine, amount) # 0 /\ mine[Selected(mine, amount)].key = p.key
  BY <1>t
<1>b. /\ lists[c].epoch = now => Begins(mine, all)
      /\ \A d \in Clients : lists[d].epoch = p.epoch /\ ids[d] = ids[c]
                              => Begins(mine, lists[d].outs) \/ Begins(lists[d].outs, mine)
      /\ \A q \in asked : q.epoch = p.epoch /\ q.order.payer = ids[c] => Agrees(q, mine)
  BY DEF Orderly, Alike
<1> HIDE DEF mine, all
<1>1. p.epoch = now => Selected(all, amount) # 0 /\ Agrees(p, all)
  <2> SUFFICES ASSUME p.epoch = now PROVE Selected(all, amount) # 0 /\ Agrees(p, all)
    OBVIOUS
  <2>1. Begins(mine, all)
    BY <1>b
  <2> HIDE DEF amount
  <2>2. Selected(all, amount) # 0 /\ all[Selected(all, amount)] = mine[Selected(mine, amount)]
    BY <1>a, <2>1, ChoiceStays
  <2> QED BY <1>a, <2>2 DEF Agrees, amount
<1>2. ASSUME NEW d \in Clients, p.epoch = lists[d].epoch, p.order.payer = ids[d]
      PROVE Agrees(p, lists[d].outs)
  <2> DEFINE other == lists[d].outs
  <2>1. other \in Seq(Output) /\ (Begins(mine, other) \/ Begins(other, mine))
    BY <1>t, <1>b, <1>2
  <2> HIDE DEF other, amount
  <2>2. Selected(other, amount) # 0
          => other[Selected(other, amount)] = mine[Selected(mine, amount)]
    BY <1>a, <2>1, ChoiceStays
  <2> QED BY <1>a, <2>2 DEF Agrees, amount, other
<1>3. ASSUME NEW q \in asked, q.order = p.order, q.epoch = p.epoch PROVE q.key = p.key
  <2>1. Agrees(q, mine)
    BY <1>b, <1>3
  <2> QED BY <1>a, <1>3, <2>1 DEF Agrees
<1>4. \A q \in asked \cup {p} :
        q.epoch = now => /\ Selected(Owned(q.order.payer, outs), q.order.amount) # 0
                         /\ Agrees(q, Owned(q.order.payer, outs))
  BY <1>1 DEF Orderly, all
<1>5. \A q \in asked \cup {p}, d \in Clients :
        q.epoch = lists[d].epoch /\ q.order.payer = ids[d] => Agrees(q, lists[d].outs)
  BY <1>2 DEF Orderly
<1>6. \A q, r \in asked \cup {p} : q.order = r.order /\ q.epoch = r.epoch => q.key = r.key
  BY <1>3 DEF Orderly
<1> QED BY <1>4, <1>5, <1>6 DEF Orderly

\* Outputs that come to the end of the pool keep the order.
LEMMA PoolGrows ==
    ASSUME NEW lists \in [Clients -> Listing], NEW ids \in [Clients -> Seeds \cup {NoOne}],
           NEW asked \in SUBSET Call, NEW outs \in Seq(Output), NEW now \in Nat,
           Orderly(lists, ids, asked, outs, now), NEW more \in Seq(Output)
    PROVE  Orderly(lists, ids, asked, outs \o more, now)
<1> DEFINE long == outs \o more
<1>1. long \in Seq(Output)
  BY Joined
<1>2. \A s : /\ Owned(s, outs) \in Seq(Output) /\ Owned(s, long) \in Seq(Output)
             /\ Begins(Owned(s, outs), Owned(s, long))
  BY <1>1, ScanLists, ScanGrows
<1> HIDE DEF long
<1>t. /\ \A d \in Clients : lists[d].outs \in Seq(Output)
      /\ \A p \in asked : p.order.amount \in Nat
  BY WalletConstants DEF Listing, Call, Order
<1>3. \A c \in Clients : lists[c].epoch = now => Begins(lists[c].outs, Owned(ids[c], long))
  <2> TAKE c \in Clients
  <2> HAVE lists[c].epoch = now
  <2>1. Begins(lists[c].outs, Owned(ids[c], outs))
    BY DEF Orderly
  <2> QED BY <2>1, <1>2, <1>t, BeginsAgain
<1>4. ASSUME NEW p \in asked, p.epoch = now
      PROVE  /\ Selected(Owned(p.order.payer, long), p.order.amount) # 0
             /\ Agrees(p, Owned(p.order.payer, long))
  <2> DEFINE short == Owned(p.order.payer, outs)
             all == Owned(p.order.payer, long)
             amount == p.order.amount
  <2>1. Selected(short, amount) # 0 /\ short[Selected(short, amount)].key = p.key
    BY <1>4 DEF Orderly, Agrees
  <2>2. /\ short \in Seq(Output) /\ all \in Seq(Output) /\ Begins(short, all)
        /\ amount \in Nat
    BY <1>2, <1>t
  <2> HIDE DEF short, all, amount
  <2>3. Selected(all, amount) # 0 /\ all[Selected(all, amount)] = short[Selected(short, amount)]
    BY <2>1, <2>2, ChoiceStays
  <2> QED BY <2>1, <2>3 DEF Agrees, all, amount
<1>5. Orderly(lists, ids, asked, long, now)
  BY <1>3, <1>4 DEF Orderly
<1> QED BY <1>5 DEF long

\* A pool in another order, the next epoch, has been scanned by nobody yet.
LEMMA PoolReordered ==
    ASSUME NEW lists \in [Clients -> Listing], NEW ids, NEW asked \in SUBSET Call,
           NEW outs, NEW now \in Nat, Orderly(lists, ids, asked, outs, now), NEW again,
           \A c \in Clients : lists[c].epoch <= now,
           \A p \in asked : p.epoch <= now
    PROVE  Orderly(lists, ids, asked, again, now + 1)
<1>1. \A c \in Clients : lists[c].epoch # now + 1
  BY DEF Listing
<1>2. \A p \in asked : p.epoch # now + 1
  BY DEF Call
<1> QED BY <1>1, <1>2 DEF Orderly
-----------------------------------------------------------------------------
(***************************************************************************)
(* The programs                                                             *)
(***************************************************************************)

\* What is said of payments and lists, types aside.
Books ==
    /\ Keyed /\ PaidOnce
    /\ Lists(utxos, open, pool, reloads)
    /\ Orderly(utxos, open, Requests, pool, reloads)

\* A scan makes a list.
LEMMA ScanIsList ==
    ASSUME Inv, NEW id, NEW c \in Clients
    PROVE  /\ \A list \in Synced(id, Empty) :
                list \in Listing /\ IsList(list, id, utxos, open, c, pool, reloads)
           /\ \A list \in Synced(open[c], utxos[c]) :
                list \in Listing /\ IsList(list, open[c], utxos, open, c, pool, reloads)
           /\ Empty \in Listing /\ IsList(Empty, id, utxos, open, c, pool, reloads)
<1>1. \A s : Owned(s, pool) \in Seq(Output)
  BY ScanLists DEF Inv, TypeOK
<1>2. reloads \in 0 .. MaxReloads /\ MaxReloads \in Nat /\ utxos[c] \in Listing
  BY WalletConstants DEF Inv, TypeOK
<1>3. Empty \in Listing
  BY <1>2, EmptySeq DEF Empty, Listing
<1>4. \A s : Scan(s) = [outs |-> Owned(s, pool), epoch |-> reloads] /\ Scan(s) \in Listing
  BY <1>1, <1>2 DEF Scan, Listing
<1> QED BY <1>2, <1>3, <1>4 DEF Synced, IsList

\* What the proofs need of the types.
LEMMA Types ==
    ASSUME Inv
    PROVE  /\ utxos \in [Clients -> Listing] /\ open \in [Clients -> Seeds \cup {NoOne}]
           /\ Requests \in SUBSET Call /\ pool \in Seq(Output)
           /\ reloads \in Nat /\ reloads \in 0 .. MaxReloads
           /\ calls \subseteq Call /\ paid \subseteq Call
<1>1. reloads \in 0 .. MaxReloads /\ MaxReloads \in Nat
  BY WalletConstants DEF Inv, TypeOK
<1>2. calls \subseteq Call /\ paid \subseteq Call
  BY DEF Inv, TypeOK
<1>3. Requests \in SUBSET Call
  BY <1>2 DEF Requests
<1>4. utxos \in [Clients -> Listing] /\ open \in [Clients -> Seeds \cup {NoOne}] /\ pool \in Seq(Output)
  BY DEF Inv, TypeOK
<1> QED BY <1>1, <1>2, <1>3, <1>4

\* A program that takes a list keeps the books.
LEMMA ListMoves ==
    ASSUME Inv, NEW c \in Clients, NEW id \in Seeds \cup {NoOne}, NEW list \in Listing,
           IsList(list, id, utxos, open, c, pool, reloads),
           open' = [open EXCEPT ![c] = id], utxos' = [utxos EXCEPT ![c] = list],
           UNCHANGED <<pool, spent, paid, calls, reloads>>
    PROVE  Books'
<1>t. /\ utxos \in [Clients -> Listing] /\ open \in [Clients -> Seeds \cup {NoOne}]
      /\ Requests \in SUBSET Call /\ pool \in Seq(Output) /\ reloads \in Nat
  BY Types
<1>1. Requests' = Requests
  BY DEF Requests
<1>2. Orderly(utxos', open', Requests, pool, reloads)
  BY <1>t, ListTaken DEF Inv
<1>3. list.epoch <= reloads /\ \A o \in ToSet(list.outs) : o \in ToSet(pool) /\ o.owner = id
  <2>1. CASE list = Empty
    <3>1. ToSet(list.outs) = {} /\ list.epoch = 0
      BY <2>1, EmptyList DEF Empty
    <3> QED BY <3>1, <1>t
  <2>2. CASE list = [outs |-> Owned(id, pool), epoch |-> reloads]
    BY <2>2, <1>t, ScanLists
  <2>3. CASE list = utxos[c] /\ id = open[c]
    BY <2>3 DEF Inv, Lists
  <2> QED BY <2>1, <2>2, <2>3 DEF IsList
<1>4. Lists(utxos', open', pool, reloads)
  <2>1. /\ utxos'[c] = list /\ open'[c] = id
        /\ \A d \in Clients : d # c => utxos'[d] = utxos[d] /\ open'[d] = open[d]
    BY <1>t
  <2>2. \A d \in Clients : /\ utxos[d].epoch <= reloads
                           /\ \A o \in ToSet(utxos[d].outs) : o \in ToSet(pool) /\ o.owner = open[d]
    BY DEF Inv, Lists
  <2>3. ASSUME NEW d \in Clients
        PROVE  /\ utxos'[d].epoch <= reloads
               /\ \A o \in ToSet(utxos'[d].outs) : o \in ToSet(pool) /\ o.owner = open'[d]
    <3>1. CASE d = c
      BY <2>1, <1>3, <3>1
    <3>2. CASE d # c
      BY <2>1, <2>2, <3>2
    <3> QED BY <3>1, <3>2
  <2> QED BY <2>3 DEF Lists
<1>5. Keyed' /\ PaidOnce'
  BY <1>1 DEF Inv, Keyed, PaidOnce
<1> QED BY <1>1, <1>2, <1>4, <1>5 DEF Books

\* A program that shows an identity with a list of it, which may just be known.
LEMMA Shows ==
    ASSUME Inv, NEW c \in Clients, NEW id \in known' \cup {NoOne}, NEW list \in Listing,
           IsList(list, id, utxos, open, c, pool, reloads), Show(c, id, list),
           known \subseteq known', known' \subseteq Seeds,
           running' \in [Clients -> BOOLEAN], failed' \in [Clients -> Order \cup {Nothing}],
           files' \in [Names -> known' \cup {NoOne}]
    PROVE  Inv'
<1>1. /\ open' = [open EXCEPT ![c] = id] /\ utxos' = [utxos EXCEPT ![c] = list]
      /\ UNCHANGED <<pool, spent, paid, calls, waiting, orders, attempts, reloads>>
  BY DEF Show, node, bounded
<1>2. Books'
  BY <1>1, ListMoves
<1>3. /\ utxos \in [Clients -> Listing] /\ open \in [Clients -> Seeds \cup {NoOne}]
      /\ \A d \in Clients : open[d] \in known \cup {NoOne}
  BY DEF Inv, TypeOK
<1>4. /\ utxos' \in [Clients -> Listing] /\ open' \in [Clients -> Seeds \cup {NoOne}]
      /\ \A d \in Clients : open'[d] \in known' \cup {NoOne}
  BY <1>1, <1>3
<1>5. TypeOK'
  BY <1>1, <1>4 DEF Inv, TypeOK
<1> QED BY <1>2, <1>5 DEF Inv, Books

\* What a program loads after a first sync.
LEMMA Loads ==
    ASSUME Inv, NEW c \in Clients, NEW id \in known' \cup {NoOne}, Load(c, id),
           known \subseteq known', known' \subseteq Seeds,
           running' \in [Clients -> BOOLEAN], failed' \in [Clients -> Order \cup {Nothing}],
           files' \in [Names -> known' \cup {NoOne}]
    PROVE  Inv'
<1>1. PICK list \in Synced(id, Empty) : Show(c, id, list)
  BY DEF Load
<1>2. list \in Listing /\ IsList(list, id, utxos, open, c, pool, reloads)
  BY ScanIsList
<1> QED BY <1>1, <1>2, Shows

\* A closed program lists nothing.
LEMMA Closes ==
    ASSUME Inv, NEW c \in Clients, Show(c, NoOne, Empty),
           known \subseteq known', known' \subseteq Seeds,
           running' \in [Clients -> BOOLEAN], failed' \in [Clients -> Order \cup {Nothing}],
           files' \in [Names -> known' \cup {NoOne}]
    PROVE  Inv'
<1>1. Empty \in Listing /\ IsList(Empty, NoOne, utxos, open, c, pool, reloads)
  BY ScanIsList
<1> QED BY <1>1, Shows

\* Types of what commands leave alone.
LEMMA Before ==
    ASSUME Inv
    PROVE  /\ running \in [Clients -> BOOLEAN] /\ failed \in [Clients -> Order \cup {Nothing}]
           /\ files \in [Names -> known \cup {NoOne}] /\ known \subseteq Seeds
           /\ waiting \in [Clients -> Call \cup {Nothing}]
           /\ \A c \in Clients : open[c] \in known \cup {NoOne}
BY DEF Inv, TypeOK

LEMMA StartKeeps ==
    ASSUME Inv, NEW c \in Clients, Start(c) PROVE Inv'
<1>1. /\ running' \in [Clients -> BOOLEAN] /\ failed' = failed /\ known' = known /\ files' = files
  BY Before DEF Start, kept
<1>2. CASE Show(c, NoOne, Empty)
  BY <1>1, <1>2, Before, Closes
<1>3. ASSUME NEW name \in Names, LoadFile(c, name) PROVE Inv'
  <2>1. files[name] \in known' \cup {NoOne} /\ Load(c, files[name])
    BY <1>1, <1>3, Before DEF LoadFile
  <2> QED BY <1>1, <2>1, Before, Loads
<1> QED BY <1>2, <1>3 DEF Start

LEMMA CreateKeeps ==
    ASSUME Inv, NEW c \in Clients, NEW s \in Seeds, NEW name \in Names, Create(c, s, name)
    PROVE  Inv'
<1>1. known' = known \cup {s} /\ known' \subseteq Seeds /\ known \subseteq known'
  BY Before DEF Create
<1>2. files' \in [Names -> known' \cup {NoOne}]
  BY <1>1, Before DEF Create, Saved
<1>3. failed' \in [Clients -> Order \cup {Nothing}] /\ running' \in [Clients -> BOOLEAN]
  BY Before DEF Create
<1>4. CASE Load(c, s)
  BY <1>1, <1>2, <1>3, <1>4, Loads
<1>5. CASE Show(c, s, Empty)
  <2>1. Empty \in Listing /\ IsList(Empty, s, utxos, open, c, pool, reloads)
    BY ScanIsList
  <2> QED BY <1>1, <1>2, <1>3, <1>5, <2>1, Shows
<1> QED BY <1>4, <1>5 DEF Create

LEMMA CommandKeeps ==
    ASSUME Inv, NEW c \in Clients,
           \/ Exit(c)
           \/ \E s \in Seeds : Restore(c, s)
           \/ \E name \in Names : Open(c, name)
           \/ Close(c)
           \/ Refresh(c)
    PROVE  Inv'
<1>1. CASE Exit(c)
  <2>1. /\ running' \in [Clients -> BOOLEAN] /\ failed' = failed /\ known' = known /\ files' = files
        /\ Show(c, NoOne, Empty)
    BY <1>1, Before DEF Exit, kept
  <2> QED BY <2>1, Before, Closes
<1>2. ASSUME NEW s \in Seeds, Restore(c, s) PROVE Inv'
  <2>1. /\ running' = running /\ failed' = failed /\ known' = known /\ files' = files
        /\ Load(c, s) /\ s \in known'
    BY <1>2 DEF Restore, kept
  <2> QED BY <2>1, Before, Loads
<1>3. ASSUME NEW name \in Names, Open(c, name) PROVE Inv'
  <2>1. /\ running' = running /\ failed' = failed /\ known' = known /\ files' = files
        /\ Load(c, files[name]) /\ files[name] \in known' \cup {NoOne}
    BY <1>3, Before DEF Open, LoadFile, kept
  <2> QED BY <2>1, Before, Loads
<1>4. CASE Close(c)
  <2>1. /\ running' = running /\ failed' = failed /\ known' = known /\ files' = files
        /\ Show(c, NoOne, Empty)
    BY <1>4 DEF Close, kept
  <2> QED BY <2>1, Before, Closes
<1>5. CASE Refresh(c)
  <2>1. /\ running' = running /\ failed' = failed /\ known' = known /\ files' = files
        /\ open[c] \in known' \cup {NoOne}
    BY <1>5, Before DEF Refresh, kept
  <2>2. PICK list \in Synced(open[c], utxos[c]) : Show(c, open[c], list)
    BY <1>5 DEF Refresh
  <2>3. list \in Listing /\ IsList(list, open[c], utxos, open, c, pool, reloads)
    BY ScanIsList
  <2> QED BY <2>1, <2>2, <2>3, Before, Shows
<1> QED BY <1>1, <1>2, <1>3, <1>4, <1>5

LEMMA SaveKeeps ==
    ASSUME Inv, NEW c \in Clients, NEW name \in Names, Save(c, name) PROVE Inv'
<1>1. UNCHANGED <<pool, spent, paid, calls, open, utxos, waiting, failed, running, known,
                  orders, attempts, reloads>>
  BY DEF Save, node, bounded
<1>2. files' \in [Names -> known' \cup {NoOne}]
  BY <1>1, Before DEF Save, Saved
<1>3. TypeOK'
  BY <1>1, <1>2 DEF Inv, TypeOK
<1>4. Requests' = Requests
  BY <1>1 DEF Requests
<1> QED BY <1>1, <1>3, <1>4 DEF Inv, Keyed, PaidOnce, Lists, Orderly
-----------------------------------------------------------------------------
(***************************************************************************)
(* Payments                                                                 *)
(***************************************************************************)

\* The output a program chooses is one of the identity it has loaded.
LEMMA ChosenIsOwn ==
    ASSUME Inv, NEW c \in Clients, NEW list \in Synced(open[c], utxos[c]),
           NEW amount \in Nat, Selected(list.outs, amount) # 0
    PROVE  /\ open[c] \in Seeds
           /\ list.outs[Selected(list.outs, amount)] \in ToSet(pool)
           /\ list.outs[Selected(list.outs, amount)].key \in Nat
<1> DEFINE outs == list.outs
           i == Selected(outs, amount)
<1>1. list \in Listing /\ IsList(list, open[c], utxos, open, c, pool, reloads)
  BY ScanIsList
<1>2. outs \in Seq(Output)
  BY <1>1 DEF Listing
<1>3. \A o \in ToSet(outs) : o \in ToSet(pool) /\ o.owner = open[c]
  <2>1. CASE list = utxos[c]
    BY <2>1 DEF Inv, Lists
  <2>2. CASE list = Scan(open[c])
    BY <2>2, Types, ScanLists DEF Scan
  <2> QED BY <2>1, <2>2 DEF Synced
<1> HIDE DEF outs
<1>4. Covers(outs, i, amount)
  BY <1>2, SelectedIs DEF outs
<1> HIDE DEF i
<1>5. outs[i] \in Output /\ outs[i] \in ToSet(outs)
  BY <1>2, <1>4, ListIs DEF Covers
<1>6. outs[i].owner \in Seeds /\ outs[i].key \in Nat
  BY <1>5 DEF Output
<1> QED BY <1>3, <1>5, <1>6 DEF i, outs

LEMMA PayKeeps ==
    ASSUME Inv, NEW c \in Clients,
           NEW order \in [id : 1 .. MaxOrders, payer : Seeds \cup {NoOne},
                          to : Seeds \cup {NoOne}, amount : Amounts],
           Pay(c, order), orders' \in 0 .. MaxOrders,
           failed' \in [Clients -> Order \cup {Nothing}]
    PROVE  Inv'
<1>1. PICK list \in Synced(open[c], utxos[c]) :
         /\ Selected(list.outs, order.amount) # 0
         /\ utxos' = [utxos EXCEPT ![c] = list]
         /\ LET call == [id |-> attempts + 1, client |-> c, order |-> order,
                         key |-> list.outs[Selected(list.outs, order.amount)].key,
                         epoch |-> list.epoch, answer |-> "none"]
            IN  /\ calls' = calls \cup {call}
                /\ waiting' = [waiting EXCEPT ![c] = call]
  BY DEF Pay
<1> DEFINE key == list.outs[Selected(list.outs, order.amount)].key
           call == [id |-> attempts + 1, client |-> c, order |-> order, key |-> key,
                    epoch |-> list.epoch, answer |-> "none"]
<1>2. /\ order.payer = open[c] /\ attempts' = attempts + 1 /\ attempts < MaxAttempts
      /\ UNCHANGED <<pool, spent, paid, open, running, known, files, reloads>>
  BY DEF Pay, node, kept
<1>3. list \in Listing /\ IsList(list, open[c], utxos, open, c, pool, reloads)
  BY ScanIsList
<1>a. order.amount \in Nat
  BY WalletConstants
<1>4. open[c] \in Seeds /\ key \in Nat /\ \E o \in ToSet(pool) : o.key = key
  BY <1>1, <1>a, ChosenIsOwn
<1>5. order \in Order
  BY <1>2, <1>4 DEF Order
<1>6. attempts \in 0 .. MaxAttempts /\ MaxAttempts \in Nat
  BY WalletConstants DEF Inv, TypeOK
<1>7. attempts + 1 \in 1 .. MaxAttempts /\ attempts + 1 \in 0 .. MaxAttempts
  BY <1>2, <1>6
<1>8. list.epoch \in 0 .. MaxReloads
  BY <1>3 DEF Listing
<1> HIDE DEF key
<1>9. call \in Call
  BY <1>4, <1>5, <1>7, <1>8 DEF Call
<1>10. Books'
  <2> DEFINE lists == [utxos EXCEPT ![c] = list]
  <2>o. open = [open EXCEPT ![c] = open[c]]
    BY Types
  <2>1. Orderly(lists, open, Requests, pool, reloads)
    <3>1. Orderly(lists, [open EXCEPT ![c] = open[c]], Requests, pool, reloads)
      <4> DEFINE id == open[c]
      <4>1. IsList(list, id, utxos, open, c, pool, reloads)
        BY <1>3
      <4>2. Orderly(utxos, open, Requests, pool, reloads)
        BY DEF Inv
      <4> HIDE DEF id
      <4>3. Orderly(lists, [open EXCEPT ![c] = id], Requests, pool, reloads)
        BY <4>1, <4>2, <1>3, Types, ListTaken
      <4> QED BY <4>3 DEF id
    <3> QED BY <3>1, <2>o
  <2>2. lists \in [Clients -> Listing] /\ lists[c] = list
    BY <1>3, Types
  <2> HIDE DEF lists
  <2>3. /\ call.order.payer = open[c] /\ call.epoch = lists[c].epoch
        /\ Selected(lists[c].outs, call.order.amount) # 0
        /\ call.key = lists[c].outs[Selected(lists[c].outs, call.order.amount)].key
    BY <1>1, <1>2, <2>2 DEF key
  <2> HIDE DEF call
  <2>4. Orderly(lists, open, Requests \cup {call}, pool, reloads)
    BY <1>9, <2>1, <2>2, <2>3, Types, RequestMade
  <2>5. Requests' = Requests \cup {call}
    BY <1>1, <1>2 DEF Requests, call, key
  <2>6. Orderly(utxos, open, Requests, pool, reloads)'
    BY <1>1, <1>2, <2>4, <2>5 DEF lists
  <2>7. list.epoch <= reloads /\ \A o \in ToSet(list.outs) : o \in ToSet(pool) /\ o.owner = open[c]
    <3>1. CASE list = utxos[c]
      BY <3>1 DEF Inv, Lists
    <3>2. CASE list = Scan(open[c])
      BY <3>2, Types, ScanLists DEF Scan
    <3> QED BY <3>1, <3>2 DEF Synced
  <2>8. Lists(utxos, open, pool, reloads)'
    <3>1. utxos' = lists /\ lists[c] = list /\ \A d \in Clients : d # c => lists[d] = utxos[d]
      BY <1>1, <2>2, Types DEF lists
    <3>2. \A d \in Clients : /\ lists[d].epoch <= reloads
                             /\ \A o \in ToSet(lists[d].outs) : o \in ToSet(pool) /\ o.owner = open[d]
      <4> TAKE d \in Clients
      <4>1. CASE d = c
        BY <3>1, <4>1, <2>7
      <4>2. CASE d # c
        BY <3>1, <4>2 DEF Inv, Lists
      <4> QED BY <4>1, <4>2
    <3> QED BY <1>2, <3>1, <3>2 DEF Lists
  <2>9. Keyed'
    BY <1>2 DEF Inv, Keyed
  <2>10. PaidOnce'
    <3>1. call.epoch <= reloads /\ \E o \in ToSet(pool) : o.key = call.key
      BY <1>4, <2>7 DEF call
    <3>2. \A p \in Requests \cup {call} : p.epoch <= reloads /\ \E o \in ToSet(pool) : o.key = p.key
      BY <3>1 DEF Inv, PaidOnce
    <3>3. /\ spent = {p.key : p \in paid}
          /\ \A p, q \in paid : p.key = q.key => p = q
      BY DEF Inv, PaidOnce
    <3> QED BY <1>2, <2>5, <3>2, <3>3 DEF PaidOnce
  <2> QED BY <2>6, <2>8, <2>9, <2>10 DEF Books
<1>11. TypeOK'
  <2>1. calls' \subseteq Call /\ waiting' \in [Clients -> Call \cup {Nothing}]
    <3>1. calls' = calls \cup {call} /\ waiting' = [waiting EXCEPT ![c] = call]
      BY <1>1 DEF key
    <3> HIDE DEF call
    <3> QED BY <3>1, <1>9, Types, Before
  <2>2. utxos' \in [Clients -> Listing]
    BY <1>1, <1>3, Types
  <2>3. attempts' \in 0 .. MaxAttempts
    BY <1>2, <1>7
  <2> QED BY <1>2, <2>1, <2>2, <2>3 DEF Inv, TypeOK
<1> QED BY <1>10, <1>11 DEF Inv, Books

LEMMA NewPaymentKeeps ==
    ASSUME Inv, NEW c \in Clients, NewPayment(c) PROVE Inv'
<1>1. PICK to \in Seeds \cup {NoOne}, amount \in Amounts :
         Pay(c, [id |-> orders + 1, payer |-> open[c], to |-> to, amount |-> amount])
  BY DEF NewPayment
<1>2. orders \in 0 .. MaxOrders /\ MaxOrders \in Nat
  BY WalletConstants DEF Inv, TypeOK
<1>3. orders + 1 \in 1 .. MaxOrders /\ orders' \in 0 .. MaxOrders
  BY <1>2 DEF NewPayment
<1>4. failed' \in [Clients -> Order \cup {Nothing}]
  BY Before DEF NewPayment
<1>5. open[c] \in Seeds \cup {NoOne}
  BY Types
<1> DEFINE order == [id |-> orders + 1, payer |-> open[c], to |-> to, amount |-> amount]
<1>6. order \in [id : 1 .. MaxOrders, payer : Seeds \cup {NoOne}, to : Seeds \cup {NoOne},
                 amount : Amounts]
  BY <1>3, <1>5
<1>7. Pay(c, order)
  BY <1>1
<1> HIDE DEF order
<1> QED BY <1>3, <1>4, <1>6, <1>7, PayKeeps

LEMMA RetryKeeps ==
    ASSUME Inv, NEW c \in Clients, Retry(c) PROVE Inv'
<1>1. failed[c] \in Order
  BY Before DEF Retry
<1>2. failed[c] \in [id : 1 .. MaxOrders, payer : Seeds \cup {NoOne}, to : Seeds \cup {NoOne},
                     amount : Amounts]
  BY <1>1 DEF Order
<1>3. orders' \in 0 .. MaxOrders /\ failed' \in [Clients -> Order \cup {Nothing}]
  BY Before DEF Retry, Inv, TypeOK
<1> QED BY <1>2, <1>3, PayKeeps DEF Retry

LEMMA MadeKeeps ==
    ASSUME Inv, NEW c \in Clients, Made(c) PROVE Inv'
<1>1. PICK list \in Synced(open[c], utxos[c]) : utxos' = [utxos EXCEPT ![c] = list]
  BY DEF Made
<1>2. UNCHANGED <<pool, spent, paid, calls, open, running, known, files, orders, attempts, reloads>>
  BY DEF Made, node, kept, bounded
<1>3. list \in Listing /\ IsList(list, open[c], utxos, open, c, pool, reloads)
  BY ScanIsList
<1> DEFINE id == open[c]
<1>4. id \in Seeds \cup {NoOne} /\ open' = [open EXCEPT ![c] = id]
  BY <1>2, Types
<1>5. IsList(list, id, utxos, open, c, pool, reloads)
  BY <1>3
<1> HIDE DEF id
<1>6. Books'
  BY <1>1, <1>2, <1>3, <1>4, <1>5, ListMoves
<1>7. /\ waiting' \in [Clients -> Call \cup {Nothing}]
      /\ failed' \in [Clients -> Order \cup {Nothing}]
      /\ utxos' \in [Clients -> Listing]
  BY <1>1, <1>3, Types, Before DEF Made
<1>8. TypeOK'
  BY <1>2, <1>7 DEF Inv, TypeOK
<1> QED BY <1>6, <1>8 DEF Inv, Books

LEMMA NotMadeKeeps ==
    ASSUME Inv, NEW c \in Clients, NotMade(c) PROVE Inv'
<1>1. UNCHANGED <<pool, spent, paid, calls, open, utxos, running, known, files, orders, attempts,
                  reloads>>
  BY DEF NotMade, node, kept, bounded
<1>2. /\ waiting' \in [Clients -> Call \cup {Nothing}]
      /\ failed' \in [Clients -> Order \cup {Nothing}]
  <2>1. waiting[c] \in Call /\ waiting[c].order \in Order
    BY Before DEF NotMade, Call
  <2> QED BY <2>1, Before DEF NotMade
<1>3. TypeOK'
  BY <1>1, <1>2 DEF Inv, TypeOK
<1>4. Requests' = Requests
  BY <1>1 DEF Requests
<1> QED BY <1>1, <1>3, <1>4 DEF Inv, Keyed, PaidOnce, Lists, Orderly

LEMMA KillKeeps ==
    ASSUME Inv, NEW c \in Clients, Kill(c) PROVE Inv'
<1>1. /\ UNCHANGED <<pool, spent, paid, calls, known, files, orders, attempts, reloads>>
      /\ open' = [open EXCEPT ![c] = NoOne] /\ utxos' = [utxos EXCEPT ![c] = Empty]
  BY DEF Kill, node, kept, bounded
<1>2. Empty \in Listing /\ IsList(Empty, NoOne, utxos, open, c, pool, reloads)
  BY ScanIsList
<1>3. Books'
  BY <1>1, <1>2, ListMoves
<1>4. /\ waiting' \in [Clients -> Call \cup {Nothing}]
      /\ failed' \in [Clients -> Order \cup {Nothing}]
      /\ running' \in [Clients -> BOOLEAN]
  <2>1. waiting[c] \in Call /\ waiting[c].order \in Order
    BY Before DEF Kill, Call
  <2> QED BY <2>1, Before DEF Kill
<1>5. /\ open' \in [Clients -> Seeds \cup {NoOne}] /\ utxos' \in [Clients -> Listing]
      /\ \A d \in Clients : open'[d] \in known' \cup {NoOne}
  BY <1>1, <1>2, Types, Before
<1>6. TypeOK'
  BY <1>1, <1>4, <1>5 DEF Inv, TypeOK
<1> QED BY <1>3, <1>6 DEF Inv, Books

-----------------------------------------------------------------------------
(***************************************************************************)
(* The node                                                                 *)
(***************************************************************************)

\* An answer may or may not find its program waiting.
LEMMA Answered ==
    ASSUME Inv, NEW call \in calls, NEW text \in {"made", "refused"}, Answer(call, text)
    PROVE  /\ calls' = calls \ {call}
           /\ calls' \subseteq Call
           /\ waiting' \in [Clients -> Call \cup {Nothing}]
<1>1. calls' = calls \ {call}
  BY DEF Answer
<1>2. CASE waiting[call.client] = call
  <2>1. call \in Call /\ call.client \in Clients
    BY <1>2, Types DEF Call
  <2>2. [call EXCEPT !.answer = text] \in Call
    BY <2>1 DEF Call
  <2>3. waiting' = [waiting EXCEPT ![call.client] = [call EXCEPT !.answer = text]]
    BY <1>2 DEF Answer
  <2> QED BY <1>1, <2>1, <2>2, <2>3, Before, Types
<1>3. CASE waiting[call.client] # call
  BY <1>1, <1>3, Before, Types DEF Answer
<1> QED BY <1>1, <1>2, <1>3

LEMMA RefuseKeeps ==
    ASSUME Inv, NEW call \in calls, Refuse(call) PROVE Inv'
<1>1. UNCHANGED <<pool, spent, paid, open, utxos, failed, running, known, files, orders, attempts,
                  reloads>>
  BY DEF Refuse, node, kept, bounded
<1>2. /\ calls' = calls \ {call} /\ calls' \subseteq Call
      /\ waiting' \in [Clients -> Call \cup {Nothing}]
  BY Answered DEF Refuse
<1>3. TypeOK'
  BY <1>1, <1>2 DEF Inv, TypeOK
<1>4. Requests' \subseteq Requests
  BY <1>1, <1>2 DEF Requests
<1>5. PaidOnce'
  BY <1>1, <1>4 DEF Inv, PaidOnce
<1>6. Orderly(utxos, open, Requests, pool, reloads)'
  BY <1>1, <1>4 DEF Inv, Orderly
<1> QED BY <1>1, <1>3, <1>5, <1>6 DEF Inv, Keyed, Lists

\* The pool has no output twice.
LEMMA PoolIs ==
    ASSUME Inv
    PROVE  /\ pool \in Seq(Output) /\ Len(pool) \in Nat /\ DOMAIN pool = 1 .. Len(pool)
           /\ ToSet(pool) = {pool[i] : i \in 1 .. Len(pool)}
           /\ \A i \in 1 .. Len(pool) : pool[i] \in Output
           /\ \A i, j \in 1 .. Len(pool) : pool[i].key = pool[j].key => i = j
           /\ \A o, x \in ToSet(pool) : o.key = x.key => o = x
           /\ ToSet(pool) \subseteq Output /\ IsFiniteSet(ToSet(pool))
<1>1. pool \in Seq(Output)
  BY Types
<1>2. /\ Len(pool) \in Nat /\ DOMAIN pool = 1 .. Len(pool)
      /\ ToSet(pool) = {pool[i] : i \in 1 .. Len(pool)}
      /\ \A i \in 1 .. Len(pool) : pool[i] \in Output
      /\ ToSet(pool) \subseteq Output /\ IsFiniteSet(ToSet(pool))
  BY <1>1, ListIs
<1>3. \A i, j \in 1 .. Len(pool) : pool[i].key = pool[j].key => i = j
  BY <1>2 DEF Inv, Keyed
<1> QED BY <1>1, <1>2, <1>3

\* LMDB hands back the outputs that were there, each once.
LEMMA SameOutputs ==
    ASSUME Inv, NEW again \in SetToSeqs(ToSet(pool))
    PROVE  /\ again \in Seq(Output) /\ ToSet(again) = ToSet(pool)
           /\ \A i, j \in DOMAIN again : again[i].key = again[j].key => i = j
           /\ \A i \in DOMAIN again : again[i] \in ToSet(pool)
<1> DEFINE T == ToSet(pool)
           n == Cardinality(T)
<1>1. IsFiniteSet(T) /\ T \subseteq Output /\ \A o, x \in T : o.key = x.key => o = x
  BY PoolIs
<1>2. n \in Nat
  BY <1>1, FS_CardinalityType
<1>3. again \in [1 .. n -> T] /\ \A i, j \in 1 .. n : i # j => again[i] # again[j]
  BY DEF SetToSeqs
<1>4. IsFiniteSet(1 .. n) /\ Cardinality(1 .. n) = n
  <2> HIDE DEF n
  <2>1. IsFiniteSet(1 .. n) /\ Cardinality(1 .. n) = IF 1 > n THEN 0 ELSE n - 1 + 1
    BY <1>2, FS_Interval
  <2> QED BY <1>2, <2>1
<1>5. again \in Injection(1 .. n, T)
  <2> HIDE DEF n, T
  <2> QED BY <1>3 DEF Injection, IsInjective
<1>6. again \in Surjection(1 .. n, T)
  BY <1>1, <1>4, <1>5, FS_Injection
<1> HIDE DEF n, T
<1>7. \A o \in T : \E i \in 1 .. n : again[i] = o
  BY <1>6 DEF Surjection
<1>8. again \in Seq(Output) /\ DOMAIN again = 1 .. n
  <2>1. again \in [1 .. n -> Output]
    BY <1>1, <1>3
  <2> QED BY <2>1, <1>2, SeqDef
<1>9. ToSet(again) = T
  <2>1. ToSet(again) = {again[i] : i \in 1 .. n}
    BY <1>8 DEF ToSet
  <2> QED BY <2>1, <1>3, <1>7
<1>10. \A i, j \in 1 .. n : again[i].key = again[j].key => i = j
  BY <1>1, <1>3
<1> QED BY <1>3, <1>8, <1>9, <1>10 DEF T

LEMMA ReloadKeeps ==
    ASSUME Inv, Reload PROVE Inv'
<1>1. /\ UNCHANGED <<spent, paid, calls, open, utxos, waiting, failed, running, known, files,
                     orders, attempts>>
      /\ reloads' = reloads + 1 /\ reloads < MaxReloads
      /\ pool' \in SetToSeqs(ToSet(pool))
  BY DEF Reload, kept
<1>2. /\ pool' \in Seq(Output) /\ ToSet(pool') = ToSet(pool)
      /\ \A i, j \in DOMAIN pool' : pool'[i].key = pool'[j].key => i = j
      /\ \A i \in DOMAIN pool' : pool'[i] \in ToSet(pool)
  BY <1>1, SameOutputs
<1>3. MaxReloads \in Nat /\ reloads \in 0 .. MaxReloads
  BY WalletConstants, Types
<1>4. reloads' \in 0 .. MaxReloads
  BY <1>1, <1>3
<1>5. TypeOK'
  BY <1>1, <1>2, <1>4 DEF Inv, TypeOK
<1>6. Keyed'
  <2>1. \A o \in ToSet(pool) : o.key <= Len(Funded) + 2 * Cardinality(paid)
    BY PoolIs DEF Inv, Keyed
  <2> QED BY <1>1, <1>2, <2>1 DEF Inv, Keyed
<1>7. Requests' = Requests
  BY <1>1 DEF Requests
<1>8. PaidOnce'
  <2>1. \A p \in Requests : p.epoch <= reloads + 1
    <3> TAKE p \in Requests
    <3>1. p.epoch <= reloads /\ p.epoch \in 0 .. MaxReloads
      BY Types DEF Inv, PaidOnce, Call
    <3> QED BY <3>1, <1>3
  <2>2. /\ spent = {p.key : p \in paid}
        /\ \A p, q \in paid : p.key = q.key => p = q
        /\ \A p \in Requests : \E o \in ToSet(pool) : o.key = p.key
    BY DEF Inv, PaidOnce
  <2> QED BY <1>1, <1>2, <1>7, <2>1, <2>2 DEF PaidOnce
<1>9. \A c \in Clients : utxos[c].epoch <= reloads /\ utxos[c].epoch \in 0 .. MaxReloads
  BY Types DEF Inv, Lists, Listing
<1>10. Lists(utxos, open, pool, reloads)'
  <2>1. \A c \in Clients : utxos[c].epoch <= reloads + 1
    BY <1>3, <1>9
  <2> QED BY <1>1, <1>2, <2>1 DEF Inv, Lists
<1>11. Orderly(utxos, open, Requests, pool, reloads)'
  <2> DEFINE again == pool'
  <2>1. Orderly(utxos, open, Requests, pool, reloads) /\ reloads \in Nat
    BY Types DEF Inv
  <2>2. \A p \in Requests : p.epoch <= reloads
    BY DEF Inv, PaidOnce
  <2> HIDE DEF again
  <2>3. Orderly(utxos, open, Requests, again, reloads + 1)
    BY <1>9, <2>1, <2>2, Types, PoolReordered
  <2> QED BY <1>1, <1>7, <2>3 DEF again
<1> QED BY <1>5, <1>6, <1>8, <1>10, <1>11 DEF Inv

\* A list of no output, and of one.
LEMMA FewOutputs ==
    /\ <<>> \in Seq(Output) /\ Len(<<>>) = 0 /\ ToSet(<<>>) = {}
    /\ \A o \in Output : /\ <<o>> \in Seq(Output) /\ Len(<<o>>) = 1 /\ <<o>>[1] = o
                         /\ ToSet(<<o>>) = {o}
<1>1. <<>> \in Seq(Output) /\ Len(<<>>) = 0
  BY EmptySeq
<1>2. ToSet(<<>>) = {}
  BY DEF ToSet
<1>3. ASSUME NEW o \in Output
      PROVE  <<o>> \in Seq(Output) /\ Len(<<o>>) = 1 /\ <<o>>[1] = o /\ ToSet(<<o>>) = {o}
  BY DEF ToSet
<1> QED BY <1>1, <1>2, <1>3

\* The list of at most one output that NewOutputs makes of each.
Made1(owner, o) == IF owner = NoOne \/ o.amount = 0 THEN <<>> ELSE <<o>>

LEMMA Made1Is ==
    ASSUME NEW owner, NEW o, owner # NoOne /\ o.amount # 0 => o \in Output
    PROVE  /\ Made1(owner, o) \in Seq(Output)
           /\ Len(Made1(owner, o)) \in {0, 1}
           /\ Len(Made1(owner, o)) = 1 => Made1(owner, o)[1] = o
           /\ ToSet(Made1(owner, o)) = IF owner = NoOne \/ o.amount = 0 THEN {} ELSE {o}
<1>1. CASE owner = NoOne \/ o.amount = 0
  <2>1. Made1(owner, o) = <<>>
    BY <1>1 DEF Made1
  <2> DEFINE none == Made1(owner, o)
  <2>2. none \in Seq(Output) /\ Len(none) = 0 /\ ToSet(none) = {}
    BY <2>1, FewOutputs
  <2> HIDE DEF none
  <2> QED BY <1>1, <2>2 DEF none
<1>2. CASE ~ (owner = NoOne \/ o.amount = 0)
  BY <1>2, FewOutputs DEF Made1
<1> QED BY <1>1, <1>2

\* What a payment takes and makes.
Fresh == Len(Funded) + 2 * Cardinality(paid) + 1

Sent(call) == [key |-> Fresh, owner |-> call.order.to, amount |-> call.order.amount]

Change(call) == [key |-> Fresh + 1, owner |-> call.order.payer,
                 amount |-> Paying(call).amount - call.order.amount]

LEMMA PaymentIs ==
    ASSUME Inv, NEW call \in calls, Payable(call)
    PROVE  /\ Paying(call) \in ToSet(pool) /\ Paying(call).key = call.key /\ Paying(call) \in Output
           /\ Fresh \in Nat /\ Len(Funded) + 2 * Cardinality(paid) = Fresh - 1
           /\ call.order.amount \in Nat \ {0}
           /\ Sent(call).owner # NoOne => Sent(call) \in Output
           /\ Change(call).amount # 0 => Change(call) \in Output
           /\ Change(call).amount \in Nat
           /\ Change(call).owner # NoOne /\ Sent(call).amount # 0
           /\ NewOutputs(call) = Made1(call.order.to, Sent(call))
                                   \o Made1(call.order.payer, Change(call))
<1>1. call \in Call /\ call.order \in Order
  BY Types DEF Call
<1>2. \E o \in ToSet(pool) : o.key = call.key
  BY DEF Inv, PaidOnce, Requests
<1>3. Paying(call) \in ToSet(pool) /\ Paying(call).key = call.key
  BY <1>2 DEF Paying
<1>4. Paying(call) \in Output
  BY <1>3, PoolIs
<1>5. /\ call.order.amount \in Nat \ {0} /\ call.order.payer \in Seeds
      /\ call.order.to \in Seeds \cup {NoOne} /\ NoOne \notin Seeds
  BY <1>1, WalletConstants DEF Order, NoOne
<1>6. /\ Paying(call).amount \in Nat /\ Paying(call).amount >= call.order.amount
      /\ Paying(call).owner = call.order.payer
  BY <1>4 DEF Payable, Output
<1>7. Cardinality(paid) \in Nat /\ Len(Funded) \in Nat
  BY FS_CardinalityType, WalletConstants, LenProperties DEF Inv, Keyed
<1>8. Fresh \in Nat /\ Len(Funded) + 2 * Cardinality(paid) = Fresh - 1
  BY <1>7 DEF Fresh
<1>9. Change(call).amount \in Nat
  BY <1>5, <1>6 DEF Change
<1>10. Sent(call).owner # NoOne => Sent(call) \in Output
  BY <1>5, <1>8 DEF Sent, Output
<1>11. Change(call).amount # 0 => Change(call) \in Output
  BY <1>5, <1>6, <1>8 DEF Change, Output
<1>12. NewOutputs(call) = Made1(call.order.to, Sent(call))
                            \o Made1(call.order.payer, Change(call))
  BY DEF NewOutputs, Made1, Sent, Change, Fresh
<1>13. Change(call).owner # NoOne /\ Sent(call).amount # 0
  BY <1>5 DEF Change, Sent
<1> QED BY <1>3, <1>4, <1>5, <1>8, <1>9, <1>10, <1>11, <1>12, <1>13

\* The outputs a payment makes have keys of their own.
LEMMA NewAre ==
    ASSUME Inv, NEW call \in calls, Payable(call)
    PROVE  /\ NewOutputs(call) \in Seq(Output)
           /\ \A i \in 1 .. Len(NewOutputs(call)) : NewOutputs(call)[i].key \in {Fresh, Fresh + 1}
           /\ \A i, j \in 1 .. Len(NewOutputs(call)) :
                NewOutputs(call)[i].key = NewOutputs(call)[j].key => i = j
           /\ ToSet(NewOutputs(call)) =
                (IF call.order.to = NoOne THEN {} ELSE {Sent(call)})
                  \cup (IF Change(call).amount = 0 THEN {} ELSE {Change(call)})
<1> DEFINE a == Made1(call.order.to, Sent(call))
           b == Made1(call.order.payer, Change(call))
<1>1. /\ Fresh \in Nat
      /\ Sent(call).owner # NoOne => Sent(call) \in Output
      /\ Change(call).amount # 0 => Change(call) \in Output
      /\ Change(call).owner # NoOne /\ Sent(call).amount # 0
      /\ NewOutputs(call) = a \o b
  BY PaymentIs
<1>2. /\ Sent(call).key = Fresh /\ Sent(call).owner = call.order.to
      /\ Change(call).key = Fresh + 1 /\ Change(call).owner = call.order.payer
  BY DEF Sent, Change
<1>3. /\ a \in Seq(Output) /\ Len(a) \in {0, 1} /\ (Len(a) = 1 => a[1] = Sent(call))
      /\ ToSet(a) = IF call.order.to = NoOne THEN {} ELSE {Sent(call)}
  <2>1. call.order.to # NoOne /\ Sent(call).amount # 0 => Sent(call) \in Output
    BY <1>1, <1>2
  <2> DEFINE to == call.order.to
             o == Sent(call)
  <2> HIDE DEF to, o
  <2>2. to # NoOne /\ o.amount # 0 => o \in Output
    BY <2>1 DEF to, o
  <2>3. /\ Made1(to, o) \in Seq(Output)
        /\ Len(Made1(to, o)) \in {0, 1}
        /\ Len(Made1(to, o)) = 1 => Made1(to, o)[1] = o
        /\ ToSet(Made1(to, o)) = IF to = NoOne \/ o.amount = 0 THEN {} ELSE {o}
    BY <2>2, Made1Is
  <2> QED BY <2>3, <1>1 DEF to, o
<1>4. /\ b \in Seq(Output) /\ Len(b) \in {0, 1} /\ (Len(b) = 1 => b[1] = Change(call))
      /\ ToSet(b) = IF Change(call).amount = 0 THEN {} ELSE {Change(call)}
  <2> DEFINE to == call.order.payer
             o == Change(call)
  <2>1. to # NoOne /\ (o.amount # 0 => o \in Output)
    BY <1>1, <1>2
  <2> HIDE DEF to, o
  <2>3. /\ Made1(to, o) \in Seq(Output)
        /\ Len(Made1(to, o)) \in {0, 1}
        /\ Len(Made1(to, o)) = 1 => Made1(to, o)[1] = o
        /\ ToSet(Made1(to, o)) = IF to = NoOne \/ o.amount = 0 THEN {} ELSE {o}
    BY <2>1, Made1Is
  <2> QED BY <2>1, <2>3 DEF to, o
<1> HIDE DEF a, b
<1> DEFINE new == a \o b
<1>5. /\ new \in Seq(Output) /\ Len(new) = Len(a) + Len(b)
      /\ \A i \in 1 .. Len(a) : new[i] = a[i]
      /\ \A i \in 1 .. Len(b) : new[Len(a) + i] = b[i]
      /\ ToSet(new) = ToSet(a) \cup ToSet(b)
  BY <1>3, <1>4, Joined
<1>6. NewOutputs(call) = new
  BY <1>1
<1> HIDE DEF new
<1>7. \A i \in 1 .. Len(new) : \/ i = 1 /\ Len(a) = 1 /\ new[i] = Sent(call)
                               \/ i = Len(a) + 1 /\ Len(b) = 1 /\ new[i] = Change(call)
  BY <1>3, <1>4, <1>5
<1>8. \A i \in 1 .. Len(new) : new[i].key \in {Fresh, Fresh + 1}
  BY <1>2, <1>7
<1>9. \A i, j \in 1 .. Len(new) : new[i].key = new[j].key => i = j
  BY <1>1, <1>2, <1>7
<1> QED BY <1>3, <1>4, <1>5, <1>6, <1>8, <1>9

LEMMA ExecuteKeeps ==
    ASSUME Inv, NEW call \in calls, Execute(call) PROVE Inv'
<1> DEFINE more == NewOutputs(call)
<1>1. /\ Payable(call)
      /\ pool' = pool \o more /\ spent' = spent \cup {call.key} /\ paid' = paid \cup {call}
      /\ UNCHANGED <<open, utxos, failed, running, known, files, orders, attempts, reloads>>
      /\ Answer(call, "made")
  BY DEF Execute, kept, bounded
<1>2. /\ calls' = calls \ {call} /\ calls' \subseteq Call
      /\ waiting' \in [Clients -> Call \cup {Nothing}]
  BY <1>1, Answered
<1>3. Requests' = Requests
  BY <1>1, <1>2 DEF Requests
<1>4. /\ more \in Seq(Output)
      /\ \A i \in 1 .. Len(more) : more[i].key \in {Fresh, Fresh + 1}
      /\ \A i, j \in 1 .. Len(more) : more[i].key = more[j].key => i = j
  BY <1>1, NewAre
<1>5. Fresh \in Nat /\ Len(Funded) + 2 * Cardinality(paid) = Fresh - 1
  BY <1>1, PaymentIs
<1> HIDE DEF more
<1> DEFINE long == pool \o more
<1>6. /\ long \in Seq(Output) /\ Len(long) = Len(pool) + Len(more)
      /\ \A i \in 1 .. Len(pool) : long[i] = pool[i]
      /\ \A i \in 1 .. Len(more) : long[Len(pool) + i] = more[i]
      /\ ToSet(long) = ToSet(pool) \cup ToSet(more)
  BY <1>4, Types, Joined
<1>7. DOMAIN long = 1 .. Len(long)
  BY <1>6, ListIs
<1>8. pool' = long
  BY <1>1
<1> HIDE DEF long
<1>9. Len(more) \in Nat /\ Len(pool) \in Nat
  BY <1>4, PoolIs, LenProperties
<1>10. \A i \in 1 .. Len(long) : \/ i \in 1 .. Len(pool) /\ long[i] = pool[i]
                                 \/ /\ i - Len(pool) \in 1 .. Len(more)
                                    /\ long[i] = more[i - Len(pool)]
  <2> TAKE i \in 1 .. Len(long)
  <2>1. CASE i <= Len(pool)
    BY <1>6, <1>9, <2>1
  <2>2. CASE i > Len(pool)
    <3> DEFINE j == i - Len(pool)
    <3>1. j \in 1 .. Len(more) /\ Len(pool) + j = i
      BY <1>6, <1>9, <2>2
    <3> HIDE DEF j
    <3>2. long[Len(pool) + j] = more[j]
      BY <1>6, <3>1
    <3> QED BY <3>1, <3>2 DEF j
  <2> QED BY <1>9, <2>1, <2>2
<1>11. \A i \in 1 .. Len(pool) : pool[i].key \in Nat /\ pool[i].key <= Fresh - 1
  BY <1>5, PoolIs DEF Inv, Keyed, Output
<1>12. Cardinality(paid') = Cardinality(paid) + 1 /\ IsFiniteSet(paid') /\ Cardinality(paid) \in Nat
  <2>1. call \notin paid
    BY <1>1 DEF Payable, Inv, PaidOnce
  <2>2. IsFiniteSet(paid)
    BY DEF Inv, Keyed
  <2> QED BY <1>1, <2>1, <2>2, FS_AddElement, FS_CardinalityType
<1>13. Keyed'
  <2>1. \A i \in 1 .. Len(long) : long[i].key <= Fresh + 1
    <3>1. \A i \in 1 .. Len(pool) : pool[i].key <= Fresh + 1
      BY <1>5, <1>11
    <3>2. \A j \in 1 .. Len(more) : more[j].key <= Fresh + 1
      BY <1>4, <1>5
    <3> QED BY <1>10, <3>1, <3>2
  <2>2. Len(Funded) + 2 * Cardinality(paid') = Fresh + 1
    <3>1. Len(Funded) \in Nat
      BY WalletConstants, LenProperties
    <3> QED BY <3>1, <1>5, <1>12
  <2>3. \A i, j \in 1 .. Len(long) : long[i].key = long[j].key => i = j
    <3>1. \A i, j \in 1 .. Len(pool) : pool[i].key = pool[j].key => i = j
      BY PoolIs
    <3>2. \A i \in 1 .. Len(pool), j \in 1 .. Len(more) : pool[i].key # more[j].key
      BY <1>4, <1>5, <1>11
    <3> TAKE i, j \in 1 .. Len(long)
    <3> HAVE long[i].key = long[j].key
    <3>3. CASE i \in 1 .. Len(pool) /\ long[i] = pool[i]
      BY <1>10, <3>1, <3>2, <3>3
    <3>4. CASE i - Len(pool) \in 1 .. Len(more) /\ long[i] = more[i - Len(pool)]
      <4>1. j - Len(pool) \in 1 .. Len(more) /\ long[j] = more[j - Len(pool)]
        BY <1>10, <3>2, <3>4
      <4>2. i - Len(pool) = j - Len(pool)
        BY <1>4, <3>4, <4>1
      <4> QED BY <4>2, <1>6, <1>9
    <3> QED BY <1>10, <3>3, <3>4
  <2> QED BY <1>7, <1>8, <1>12, <2>1, <2>2, <2>3 DEF Keyed
<1>14. PaidOnce'
  <2>1. spent' = {p.key : p \in paid'}
    BY <1>1 DEF Inv, PaidOnce
  <2>2. \A p, q \in paid' : p.key = q.key => p = q
    BY <1>1 DEF Inv, PaidOnce, Payable
  <2>3. \A p \in Requests : p.epoch <= reloads /\ \E o \in ToSet(long) : o.key = p.key
    BY <1>6 DEF Inv, PaidOnce
  <2> QED BY <1>1, <1>3, <1>8, <2>1, <2>2, <2>3 DEF PaidOnce
<1>15. Lists(utxos, open, pool, reloads)'
  <2>1. Lists(utxos, open, long, reloads)
    BY <1>6 DEF Inv, Lists
  <2> QED BY <1>1, <1>8, <2>1
<1>16. Orderly(utxos, open, Requests, pool, reloads)'
  <2>1. Orderly(utxos, open, Requests, pool, reloads)
    BY DEF Inv
  <2>2. Orderly(utxos, open, Requests, long, reloads)
    BY <1>4, <2>1, Types, PoolGrows DEF long
  <2> QED BY <1>1, <1>3, <1>8, <2>2
<1>17. TypeOK'
  <2>1. call.key \in Nat /\ call \in Call
    BY Types DEF Call
  <2>2. spent' \subseteq Nat /\ paid' \subseteq Call /\ pool' \in Seq(Output)
    BY <1>1, <1>6, <1>8, <2>1 DEF Inv, TypeOK
  <2> QED BY <1>1, <1>2, <2>2 DEF Inv, TypeOK
<1> QED BY <1>13, <1>14, <1>15, <1>16, <1>17 DEF Inv

-----------------------------------------------------------------------------
(***************************************************************************)
(* Every step                                                               *)
(***************************************************************************)

LEMMA InitKeeps == Init => Inv
<1> SUFFICES ASSUME Init PROVE Inv
  OBVIOUS
<1>1. /\ pool = Funded /\ spent = {} /\ paid = {} /\ calls = {}
      /\ open = [c \in Clients |-> NoOne] /\ utxos = [c \in Clients |-> Empty]
      /\ waiting = [c \in Clients |-> Nothing] /\ failed = [c \in Clients |-> Nothing]
      /\ running = [c \in Clients |-> FALSE] /\ known = {}
      /\ files = [name \in Names |-> NoOne]
      /\ orders = 0 /\ attempts = 0 /\ reloads = 0
  BY DEF Init
<1>2. MaxOrders \in Nat /\ MaxAttempts \in Nat /\ MaxReloads \in Nat /\ Funded \in Seq(Output)
  BY WalletConstants
<1>3. 0 \in 0 .. MaxOrders /\ 0 \in 0 .. MaxAttempts /\ 0 \in 0 .. MaxReloads
  BY <1>2
<1>4. Empty \in Listing
  BY <1>3, EmptySeq DEF Empty, Listing
<1>5. TypeOK
  BY <1>1, <1>2, <1>3, <1>4 DEF TypeOK
<1>6. Keyed
  <2>1. DOMAIN Funded = 1 .. Len(Funded) /\ Len(Funded) \in Nat
    BY <1>2, LenProperties
  <2>2. \A i \in DOMAIN Funded : Funded[i].key = i
    BY WalletConstants
  <2>3. IsFiniteSet(paid) /\ Cardinality(paid) = 0
    BY <1>1, FS_EmptySet
  <2> QED BY <1>1, <2>1, <2>2, <2>3 DEF Keyed
<1>7. Requests = {}
  BY <1>1 DEF Requests
<1>8. PaidOnce
  BY <1>1, <1>7 DEF PaidOnce
<1>9. \A c \in Clients : utxos[c] = Empty /\ open[c] = NoOne
  BY <1>1
<1>10. Empty.epoch = 0
  BY DEF Empty
<1>11. Lists(utxos, open, pool, reloads)
  BY <1>1, <1>9, <1>10, EmptyList DEF Lists
<1>12. Orderly(utxos, open, Requests, pool, reloads)
  <2>1. \A s : Len(Owned(s, pool)) \in Nat
    BY <1>1, <1>2, ScanLists, LenProperties
  <2>2. \A s : Begins(Empty.outs, Owned(s, pool))
    BY <2>1, EmptyList
  <2>3. Begins(Empty.outs, Empty.outs)
    BY EmptyList
  <2> QED BY <1>7, <1>9, <2>2, <2>3 DEF Orderly, Alike
<1> QED BY <1>5, <1>6, <1>8, <1>11, <1>12 DEF Inv

LEMMA StutterKeeps ==
    ASSUME Inv, UNCHANGED vars PROVE Inv'
<1>1. UNCHANGED <<pool, spent, paid, calls, open, utxos, waiting, failed, running, known, files,
                  orders, attempts, reloads>>
  BY DEF vars
<1>2. Requests' = Requests
  BY <1>1 DEF Requests
<1> QED BY <1>1, <1>2 DEF Inv, TypeOK, Keyed, PaidOnce, Lists, Orderly

LEMMA StepKeeps ==
    ASSUME Inv, [Next]_vars PROVE Inv'
<1>1. ASSUME NEW call \in calls, Execute(call) PROVE Inv'
  BY <1>1, ExecuteKeeps
<1>2. ASSUME NEW call \in calls, Refuse(call) PROVE Inv'
  BY <1>2, RefuseKeeps
<1>3. CASE Reload
  BY <1>3, ReloadKeeps
<1>4. ASSUME NEW c \in Clients, Start(c) PROVE Inv'
  BY <1>4, StartKeeps
<1>5. ASSUME NEW c \in Clients, NEW s \in Seeds, NEW name \in Names, Create(c, s, name) PROVE Inv'
  BY <1>5, CreateKeeps
<1>6. ASSUME NEW c \in Clients,
             \/ Exit(c)
             \/ \E s \in Seeds : Restore(c, s)
             \/ \E name \in Names : Open(c, name)
             \/ Close(c)
             \/ Refresh(c)
      PROVE Inv'
  BY <1>6, CommandKeeps
<1>7. ASSUME NEW c \in Clients, NEW name \in Names, Save(c, name) PROVE Inv'
  BY <1>7, SaveKeeps
<1>8. ASSUME NEW c \in Clients, Deposit(c) \/ ClaimFees(c) PROVE Inv'
  <2>1. UNCHANGED vars
    BY <1>8 DEF Deposit, ClaimFees
  <2> QED BY <2>1, StutterKeeps
<1>9. ASSUME NEW c \in Clients, NewPayment(c) PROVE Inv'
  BY <1>9, NewPaymentKeeps
<1>10. ASSUME NEW c \in Clients, Retry(c) PROVE Inv'
  BY <1>10, RetryKeeps
<1>11. ASSUME NEW c \in Clients, Made(c) PROVE Inv'
  BY <1>11, MadeKeeps
<1>12. ASSUME NEW c \in Clients, NotMade(c) PROVE Inv'
  BY <1>12, NotMadeKeeps
<1>13. ASSUME NEW c \in Clients, Kill(c) PROVE Inv'
  BY <1>13, KillKeeps
<1>14. CASE UNCHANGED vars
  BY <1>14, StutterKeeps
<1> QED BY <1>1, <1>2, <1>3, <1>4, <1>5, <1>6, <1>7, <1>8, <1>9, <1>10, <1>11, <1>12, <1>13,
           <1>14 DEF Next

-----------------------------------------------------------------------------
(***************************************************************************)
(* Value                                                                    *)
(***************************************************************************)

AmountOf == [o \in Output |-> o.amount]

Withdrawn == [p \in Call |-> p.order.amount]

Burned(payments) == MapThenSumSet(LAMBDA p : p.order.amount, payments)

\* Totals are sums with weights that are a function.
LEMMA TotalIs ==
    ASSUME NEW S \in SUBSET Output, IsFiniteSet(S) PROVE Total(S) = SumBy(AmountOf, S)
<1> DEFINE IsSum(it) == it = [s \in SUBSET S |->
                                IF s = {} THEN 0 ELSE Some(s).amount + it[s \ {Some(s)}]]
<1>1. \A s \in SUBSET S : s # {} => AmountOf[Some(s)] = Some(s).amount
  <2>1. \A s \in SUBSET S : s # {} => Some(s) \in Output
    BY DEF Some
  <2> QED BY <2>1 DEF AmountOf
<1>2. \A it : IsSum(it) <=> Sums(it, AmountOf, S)
  <2> TAKE it
  <2>1. [s \in SUBSET S |-> IF s = {} THEN 0 ELSE Some(s).amount + it[s \ {Some(s)}]]
          = [s \in SUBSET S |-> IF s = {} THEN 0 ELSE AmountOf[Some(s)] + it[s \ {Some(s)}]]
    BY <1>1
  <2> QED BY <2>1 DEF Sums
<1>3. PICK jt : Sums(jt, AmountOf, S)
  BY SumsExist
<1> DEFINE it == CHOOSE it : IsSum(it)
<1>4. Total(S) = it[S]
  BY DEF Total, MapThenSumSet, MapThenFoldSet, Some
<1>5. Sums(it, AmountOf, S)
  BY <1>2, <1>3
<1> HIDE DEF it
<1>6. SumBy(AmountOf, S) = it[S]
  BY <1>5, SumByWithin
<1> QED BY <1>4, <1>6

LEMMA BurnedIs ==
    ASSUME NEW S \in SUBSET Call, IsFiniteSet(S) PROVE Burned(S) = SumBy(Withdrawn, S)
<1> DEFINE IsSum(it) == it = [s \in SUBSET S |->
                                IF s = {} THEN 0 ELSE Some(s).order.amount + it[s \ {Some(s)}]]
<1>1. \A s \in SUBSET S : s # {} => Withdrawn[Some(s)] = Some(s).order.amount
  <2>1. \A s \in SUBSET S : s # {} => Some(s) \in Call
    BY DEF Some
  <2> QED BY <2>1 DEF Withdrawn
<1>2. \A it : IsSum(it) <=> Sums(it, Withdrawn, S)
  <2> TAKE it
  <2>1. [s \in SUBSET S |-> IF s = {} THEN 0 ELSE Some(s).order.amount + it[s \ {Some(s)}]]
          = [s \in SUBSET S |-> IF s = {} THEN 0 ELSE Withdrawn[Some(s)] + it[s \ {Some(s)}]]
    BY <1>1
  <2> QED BY <2>1 DEF Sums
<1>3. PICK jt : Sums(jt, Withdrawn, S)
  BY SumsExist
<1> DEFINE it == CHOOSE it : IsSum(it)
<1>4. Burned(S) = it[S]
  BY DEF Burned, MapThenSumSet, MapThenFoldSet, Some
<1>5. Sums(it, Withdrawn, S)
  BY <1>2, <1>3
<1> HIDE DEF it
<1>6. SumBy(Withdrawn, S) = it[S]
  BY <1>5, SumByWithin
<1> QED BY <1>4, <1>6

\* An output more, a payment more.
LEMMA TotalTakes ==
    ASSUME NEW S \in SUBSET Output, IsFiniteSet(S)
    PROVE  /\ Total(S) \in Int /\ Total({}) = 0
           /\ \A o \in S : Total(S) = o.amount + Total(S \ {o})
           /\ \A o \in Output : o \notin S => Total(S \cup {o}) = Total(S) + o.amount
<1> DEFINE With(T) == /\ Total(T) \in Int /\ Total({}) = 0
                      /\ \A o \in T : Total(T) = o.amount + Total(T \ {o})
<1>1. ASSUME NEW T \in SUBSET Output, IsFiniteSet(T) PROVE With(T)
  <2>1. Weighed(AmountOf, T)
    BY <1>1 DEF Weighed, AmountOf, Output
  <2>2. /\ SumBy(AmountOf, {}) = 0 /\ SumBy(AmountOf, T) \in Int
        /\ \A o \in T : SumBy(AmountOf, T) = AmountOf[o] + SumBy(AmountOf, T \ {o})
    BY <1>1, <2>1, SumByTakes
  <2>3. Total(T) = SumBy(AmountOf, T) /\ Total({}) = SumBy(AmountOf, {})
    BY <1>1, FS_EmptySet, TotalIs
  <2>4. \A o \in T : /\ T \ {o} \in SUBSET Output /\ IsFiniteSet(T \ {o})
    BY <1>1, FS_Subset
  <2>5. \A o \in T : Total(T \ {o}) = SumBy(AmountOf, T \ {o}) /\ AmountOf[o] = o.amount
    BY <1>1, <2>4, TotalIs DEF AmountOf
  <2> QED BY <2>2, <2>3, <2>5
<1>2. With(S)
  BY <1>1
<1>3. ASSUME NEW o \in Output, o \notin S PROVE Total(S \cup {o}) = Total(S) + o.amount
  <2> DEFINE T == S \cup {o}
  <2>1. T \in SUBSET Output /\ IsFiniteSet(T) /\ o \in T /\ T \ {o} = S
    BY <1>3, FS_AddElement
  <2> HIDE DEF T
  <2>2. Total(T) = o.amount + Total(S) /\ o.amount \in Int /\ Total(S) \in Int
    <3>1. With(T)
      BY <1>1, <2>1
    <3>2. o.amount \in Int
      BY DEF Output
    <3> QED BY <1>2, <2>1, <3>1, <3>2
  <2> HIDE DEF With
  <2> QED BY <2>2 DEF T
<1> QED BY <1>2, <1>3

LEMMA CallAmount == \A p \in Call : p.order.amount \in Int
<1>0. Amounts \subseteq Nat \ {0}
  BY WalletConstants
<1>1. \A a \in Amounts : a \in Int
  BY <1>0
<1>2. \A p \in Call : p.order.amount \in Amounts
  BY DEF Call, Order
<1> QED BY <1>1, <1>2

LEMMA BurnedTakes ==
    ASSUME NEW S \in SUBSET Call, IsFiniteSet(S)
    PROVE  /\ Burned(S) \in Int /\ Burned({}) = 0
           /\ \A p \in Call : p \notin S => Burned(S \cup {p}) = Burned(S) + p.order.amount
<1>w. ASSUME NEW T \in SUBSET Call PROVE Weighed(Withdrawn, T)
  <2>1. \A p \in T : p.order.amount \in Int
    BY <1>w, CallAmount
  <2> QED BY <1>w, <2>1 DEF Weighed, Withdrawn
<1>1. SumBy(Withdrawn, {}) = 0 /\ SumBy(Withdrawn, S) \in Int
  BY <1>w, SumByTakes
<1>2. Burned(S) = SumBy(Withdrawn, S) /\ Burned({}) = SumBy(Withdrawn, {})
  BY FS_EmptySet, BurnedIs
<1>3. ASSUME NEW p \in Call, p \notin S PROVE Burned(S \cup {p}) = Burned(S) + p.order.amount
  <2> DEFINE T == S \cup {p}
  <2>1. T \in SUBSET Call /\ IsFiniteSet(T) /\ p \in T /\ T \ {p} = S
    BY <1>3, FS_AddElement
  <2> HIDE DEF T
  <2>2. SumBy(Withdrawn, T) = Withdrawn[p] + SumBy(Withdrawn, T \ {p})
    BY <1>w, <2>1, SumByTakes
  <2>3. Burned(T) = SumBy(Withdrawn, T)
    BY <2>1, BurnedIs
  <2>4. Withdrawn[p] = p.order.amount /\ p.order.amount \in Int
    BY CallAmount DEF Withdrawn
  <2>5. Burned(T) = p.order.amount + Burned(S)
    BY <1>2, <2>1, <2>2, <2>3, <2>4
  <2> QED BY <1>1, <1>2, <2>4, <2>5 DEF T
<1> QED BY <1>1, <1>2, <1>3

Unspent == {o \in ToSet(pool) : o.key \notin spent}

Burns == {p \in paid : p.order.to = NoOne}

LEMMA ValueIs == ValueConserved <=> Total(Unspent) + Burned(Burns) = Total(ToSet(Funded))
BY DEF ValueConserved, Unspent, Burns, Burned

\* A payment takes one output that was not spent; what is made of it and what is
\* burned are worth as much.
LEMMA PaymentConserves ==
    ASSUME Inv, ValueConserved, NEW call \in calls, Execute(call)
    PROVE  ValueConserved'
<1> DEFINE src == Paying(call)
           left == Unspent \ {src}
           to == call.order.to
           out == Sent(call)
           back == Change(call)
<1>1. /\ Payable(call)
      /\ pool' = pool \o NewOutputs(call)
      /\ spent' = spent \cup {call.key} /\ paid' = paid \cup {call}
  BY DEF Execute
<1>2. /\ src \in ToSet(pool) /\ src.key = call.key /\ src \in Output
      /\ Fresh \in Nat /\ Len(Funded) + 2 * Cardinality(paid) = Fresh - 1
      /\ call.order.amount \in Nat \ {0}
      /\ out.owner # NoOne => out \in Output
      /\ back.amount # 0 => back \in Output
      /\ back.amount \in Nat
  BY <1>1, PaymentIs
<1>3. /\ NewOutputs(call) \in Seq(Output)
      /\ ToSet(NewOutputs(call)) = (IF to = NoOne THEN {} ELSE {out})
                                     \cup (IF back.amount = 0 THEN {} ELSE {back})
  BY <1>1, NewAre
<1>4. ToSet(pool') = ToSet(pool) \cup ToSet(NewOutputs(call))
  BY <1>1, <1>3, Types, Joined
<1>5. /\ out.key = Fresh /\ out.owner = to /\ out.amount = call.order.amount
      /\ back.key = Fresh + 1 /\ back.amount = src.amount - call.order.amount
  BY DEF Sent, Change
<1>6. \A o \in ToSet(pool) : o.key \in Nat /\ o.key < Fresh
  <2>1. \A i \in 1 .. Len(pool) : pool[i].key \in Nat /\ pool[i].key <= Fresh - 1
    BY <1>2, PoolIs DEF Inv, Keyed, Output
  <2> QED BY <1>2, <2>1, PoolIs
<1>7. Fresh \notin spent' /\ Fresh + 1 \notin spent'
  <2>1. \A p \in paid : \E o \in ToSet(pool) : o.key = p.key
    BY DEF Inv, PaidOnce, Requests
  <2>2. \A k \in spent' : \E o \in ToSet(pool) : o.key = k
    <3>1. \A k \in spent : \E p \in paid : p.key = k
      BY DEF Inv, PaidOnce
    <3>2. \E o \in ToSet(pool) : o.key = call.key
      BY <1>2
    <3> QED BY <1>1, <2>1, <3>1, <3>2
  <2> QED BY <1>2, <1>6, <2>2
<1>8. /\ Unspent \in SUBSET Output /\ IsFiniteSet(Unspent) /\ src \in Unspent
      /\ \A o \in Unspent : o.key \in Nat /\ o.key < Fresh
  <2>1. Unspent \in SUBSET ToSet(pool)
    BY DEF Unspent
  <2>2. IsFiniteSet(ToSet(pool)) /\ ToSet(pool) \subseteq Output
    BY PoolIs
  <2>3. src \in Unspent
    BY <1>1, <1>2 DEF Unspent, Payable
  <2> QED BY <1>6, <2>1, <2>2, <2>3, FS_Subset
<1>9. left \in SUBSET Output /\ IsFiniteSet(left) /\ \A o \in left : o.key \in Nat /\ o.key < Fresh
  BY <1>8, FS_Subset
<1>10. Unspent' = left \cup ((IF to = NoOne THEN {} ELSE {out})
                              \cup (IF back.amount = 0 THEN {} ELSE {back}))
  <2>1. Unspent' = {o \in ToSet(pool') : o.key \notin spent'}
    BY DEF Unspent
  <2>2. {o \in ToSet(pool) : o.key \notin spent'} = left
    <3>1. \A o \in ToSet(pool) : o.key = src.key => o = src
      BY <1>2, PoolIs
    <3> QED BY <1>1, <1>2, <3>1 DEF Unspent
  <2>3. \A o \in ToSet(NewOutputs(call)) : o.key \notin spent'
    BY <1>3, <1>5, <1>7
  <2> HIDE DEF left, to, out, back
  <2> QED BY <1>3, <1>4, <2>1, <2>2, <2>3
<1>11. Total(Unspent) = src.amount + Total(left) /\ Total(left) \in Int
  BY <1>8, <1>9, TotalTakes
<1>12. Burns \in SUBSET Call /\ IsFiniteSet(Burns) /\ call \notin Burns
       /\ Burns' = Burns \cup (IF to = NoOne THEN {call} ELSE {})
  <2>1. Burns \subseteq paid
    BY DEF Burns
  <2>2. call \notin paid
    BY <1>1 DEF Payable, Inv, PaidOnce
  <2>3. IsFiniteSet(Burns)
    BY <2>1, FS_Subset DEF Inv, Keyed
  <2>4. Burns' = {p \in paid' : p.order.to = NoOne}
    BY DEF Burns
  <2> QED BY <1>1, <2>1, <2>2, <2>3, <2>4, Types DEF Burns
<1>13. call \in Call
  BY Types
<1>14. Burned(Burns) \in Int
       /\ Burned(Burns') = Burned(Burns) + (IF to = NoOne THEN call.order.amount ELSE 0)
  <2>1. CASE to = NoOne
    BY <1>12, <1>13, <2>1, BurnedTakes
  <2>2. CASE to # NoOne
    <3>1. Burns' = Burns
      BY <1>12, <2>2
    <3>2. Burned(Burns) \in Int
      BY <1>12, BurnedTakes
    <3> QED BY <2>2, <3>1, <3>2
  <2> QED BY <2>1, <2>2
<1>15. Total(Unspent') = Total(left) + (IF to = NoOne THEN 0 ELSE out.amount) + back.amount
  <2> DEFINE mid == left \cup (IF to = NoOne THEN {} ELSE {out})
  <2>1. /\ mid \in SUBSET Output /\ IsFiniteSet(mid) /\ Total(mid) \in Int
        /\ Total(mid) = Total(left) + (IF to = NoOne THEN 0 ELSE out.amount)
        /\ \A o \in mid : o.key < Fresh + 1
    <3>1. CASE to = NoOne
      <4>1. mid = left
        BY <3>1
      <4> HIDE DEF mid
      <4>2. \A o \in left : o.key < Fresh + 1
        BY <1>2, <1>9
      <4>3. Total(left) = Total(left) + 0
        BY <1>11
      <4> QED BY <1>9, <1>11, <3>1, <4>1, <4>2, <4>3
    <3>2. CASE to # NoOne
      <4>1. mid = left \cup {out} /\ out \in Output /\ out \notin left
        BY <1>2, <1>5, <1>9, <3>2
      <4> HIDE DEF mid
      <4>2. Total(left \cup {out}) = Total(left) + out.amount /\ out.amount \in Int
        BY <1>9, <4>1, TotalTakes DEF Output
      <4>3. IsFiniteSet(left \cup {out})
        BY <1>9, FS_AddElement
      <4>4. \A o \in mid : o.key < Fresh + 1
        <5>1. \A o \in left : o.key < Fresh + 1
          BY <1>2, <1>9
        <5>2. out.key < Fresh + 1
          BY <1>2, <1>5
        <5> QED BY <4>1, <5>1, <5>2
      <4> QED BY <1>9, <1>11, <3>2, <4>1, <4>2, <4>3, <4>4
    <3> QED BY <3>1, <3>2
  <2> HIDE DEF mid
  <2>2. Unspent' = mid \cup (IF back.amount = 0 THEN {} ELSE {back})
    BY <1>10 DEF mid
  <2>3. CASE back.amount = 0
    <3>1. Unspent' = mid
      BY <2>2, <2>3
    <3>2. Total(Unspent') = Total(mid) + back.amount
      BY <2>1, <2>3, <3>1
    <3> QED BY <2>1, <3>2
  <2>4. CASE back.amount # 0
    <3>1. back \in Output /\ back \notin mid
      BY <1>2, <1>5, <2>1, <2>4
    <3>2. Total(mid \cup {back}) = Total(mid) + back.amount
      BY <2>1, <3>1, TotalTakes
    <3>3. Unspent' = mid \cup {back}
      BY <2>2, <2>4
    <3> QED BY <2>1, <3>2, <3>3
  <2> QED BY <2>3, <2>4
<1>16. src.amount \in Int
  BY <1>2 DEF Output
<1>17. Total(Unspent) + Burned(Burns) = Total(ToSet(Funded))
  BY ValueIs
<1>18. Total(Unspent') + Burned(Burns') = Total(Unspent) + Burned(Burns)
  <2> HIDE DEF src, left, to, out, back
  <2>1. call.order.amount \in Int /\ back.amount \in Int
    BY <1>2
  <2>2. out.amount = call.order.amount /\ back.amount = src.amount - call.order.amount
    BY <1>5
  <2>3. CASE to = NoOne
    BY <1>11, <1>14, <1>15, <1>16, <2>1, <2>2, <2>3
  <2>4. CASE to # NoOne
    BY <1>11, <1>14, <1>15, <1>16, <2>1, <2>2, <2>4
  <2> QED BY <2>3, <2>4
<1>19. (ValueConserved <=> Total(Unspent) + Burned(Burns) = Total(ToSet(Funded)))'
  BY ValueIs, PTL
<1> QED BY <1>17, <1>18, <1>19

\* No other step moves value.
LEMMA ValueStays ==
    ASSUME ValueConserved, ToSet(pool') = ToSet(pool), spent' = spent, paid' = paid
    PROVE  ValueConserved'
<1>1. Unspent' = Unspent /\ Burns' = Burns
  BY DEF Unspent, Burns
<1>2. (ValueConserved <=> Total(Unspent) + Burned(Burns) = Total(ToSet(Funded)))'
  BY ValueIs, PTL
<1> QED BY <1>1, <1>2, ValueIs

LEMMA StepConserves ==
    ASSUME Inv, ValueConserved, [Next]_vars PROVE ValueConserved'
<1>1. ASSUME NEW call \in calls, Execute(call) PROVE ValueConserved'
  BY <1>1, PaymentConserves
<1>2. CASE Reload
  <2>1. ToSet(pool') = ToSet(pool)
    BY <1>2, SameOutputs DEF Reload
  <2> QED BY <1>2, <2>1, ValueStays DEF Reload
<1>3. ASSUME NEW call \in calls, Refuse(call) PROVE ValueConserved'
  BY <1>3, ValueStays DEF Refuse, node
<1>4. CASE UNCHANGED vars
  BY <1>4, ValueStays DEF vars
<1>5. ASSUME NEW c \in Clients,
             \/ Start(c)
             \/ Exit(c)
             \/ \E s \in Seeds, name \in Names : Create(c, s, name)
             \/ \E s \in Seeds : Restore(c, s)
             \/ \E name \in Names : Open(c, name) \/ Save(c, name)
             \/ Close(c) \/ Refresh(c) \/ Deposit(c) \/ ClaimFees(c)
             \/ NewPayment(c) \/ Retry(c) \/ Made(c) \/ NotMade(c) \/ Kill(c)
      PROVE ValueConserved'
  <2>1. UNCHANGED node
    BY <1>5 DEF Start, Exit, Create, Restore, Open, Save, Close, Refresh, Deposit, ClaimFees,
                NewPayment, Retry, Pay, Made, NotMade, Kill, LoadFile, Load, Show, vars, node
  <2> QED BY <2>1, ValueStays DEF node
<1> QED BY <1>1, <1>2, <1>3, <1>4, <1>5 DEF Next

-----------------------------------------------------------------------------
(***************************************************************************)
(* Theorems                                                                 *)
(***************************************************************************)

LEMMA Throughout == Spec => []Inv
<1>1. Init => Inv
  BY InitKeeps
<1>2. Inv /\ [Next]_vars => Inv'
  BY StepKeeps
<1> QED BY <1>1, <1>2, PTL DEF Spec

\* The types of the wallet programs and of what they see of the node.
THEOREM WalletTypes == Spec => []TypeOK
<1>1. Inv => TypeOK
  BY DEF Inv
<1> QED BY <1>1, Throughout, PTL

\* Whatever a program has loaded before, and whichever syncs failed, the outputs it
\* lists and pays with are those of the identity it has loaded now.
THEOREM ListsAreOfIdentity == Spec => []ListOfIdentity
<1>1. Inv => ListOfIdentity
  BY DEF Inv, Lists, ListOfIdentity
<1> QED BY <1>1, Throughout, PTL

\* What is not spent and what was withdrawn make up what there was: payments that
\* race, fail, are lost or are repeated neither make nor lose value.
THEOREM PaymentsConserveValue == Spec => []ValueConserved
<1>1. Init => ValueConserved
  <2> SUFFICES ASSUME Init PROVE ValueConserved
    OBVIOUS
  <2>1. Unspent = ToSet(Funded) /\ Burns = {}
    BY DEF Init, Unspent, Burns
  <2>2. ToSet(Funded) \in SUBSET Output /\ IsFiniteSet(ToSet(Funded))
    BY WalletConstants, ListIs
  <2>3. Total(ToSet(Funded)) \in Int
    BY <2>2, TotalTakes
  <2>4. Burned({}) = 0
    BY FS_EmptySet, BurnedTakes
  <2> QED BY <2>1, <2>3, <2>4, ValueIs
<1>2. Inv /\ ValueConserved /\ [Next]_vars => ValueConserved'
  BY StepConserves
<1> QED BY <1>1, <1>2, Throughout, PTL DEF Spec

\* A payment repeated after it was reported as failed chooses the output it chose
\* before, unless the node reordered its pool in between; so it is refused.
THEOREM PaidTwiceNeedsReload == Spec => []PaidTwiceOnlyAfterReload
<1>1. Inv => PaidTwiceOnlyAfterReload
  <2> SUFFICES ASSUME Inv, NEW p \in paid, NEW q \in paid, p.order = q.order, p.epoch = q.epoch
               PROVE  p = q
    BY DEF PaidTwiceOnlyAfterReload
  <2>1. p \in Requests /\ q \in Requests
    BY DEF Requests
  <2>2. p.key = q.key
    BY <2>1 DEF Inv, Orderly
  <2> QED BY <2>2 DEF Inv, PaidOnce
<1> QED BY <1>1, Throughout, PTL

=============================================================================
