-------------------------- MODULE ShieldedFlowProofs --------------------------
(***************************************************************************)
(* What keys, signatures, commitments and payouts do in a group of any      *)
(* prime order, for any hash whose values are scalars, any decoys and any   *)
(* amounts: the owner of an output finds it and can sign for it, what is    *)
(* signed verifies wherever the key is in the ring, an output is spent once *)
(* and whole across restarts, a commitment balances exactly when the        *)
(* amounts do, and a payout arrives whole.                                  *)
(*                                                                         *)
(* The phrase of words is left to TLC: it is packed bit by bit.             *)
(***************************************************************************)
EXTENDS ShieldedFlow, VaultOpsProofs, SequenceTheorems

\* hash_to_scalar reduces what BLAKE2b gives modulo the order of the group. Said of any
\* argument: the model hashes sequences of numbers only, but that the flattened fields
\* of a transaction are one is a fold, which the provers do not see through.
HashesToScalars == \A numbers : Hash(numbers) \in Scalar

-----------------------------------------------------------------------------
(***************************************************************************)
(* Arithmetic modulo the order of the group                                 *)
(***************************************************************************)

LEMMA Order == Q \in Nat \ {0} /\ Q > 2
BY Group

\* A number and its rest differ by a multiple of the order.
LEMMA Rest ==
    ASSUME NEW a \in Int
    PROVE  a % Q \in Scalar /\ \E k \in Int : a = (a % Q) + k * Q
<1>1. \A n \in Nat \ {0} : a % n \in 0 .. n - 1 /\ a \div n \in Int /\ a = n * (a \div n) + (a % n)
  OBVIOUS
<1>2. a % Q \in 0 .. Q - 1 /\ a \div Q \in Int /\ a = Q * (a \div Q) + (a % Q)
  BY <1>1, Order
<1> DEFINE d == a \div Q
           r == a % Q
<1>3. d \in Int /\ a = Q * d + r /\ r \in 0 .. Q - 1
  BY <1>2
<1> HIDE DEF d, r
<1>4. r \in Int /\ Q \in Int
  BY <1>3, Order
<1>5. a = r + d * Q
  BY <1>3, <1>4
<1> QED BY <1>3, <1>5 DEF Scalar, d, r

\* Scalars are their own rests.
LEMMA Small == \A a \in Scalar : a % Q = a
<1>1. \A n \in Nat \ {0} : \A r \in 0 .. n - 1 : r % n = r
  OBVIOUS
<1> QED BY <1>1, Order DEF Scalar

LEMMA OnlyRest ==
    ASSUME NEW n \in Nat \ {0}, NEW a \in Int, NEW m \in Int, NEW s \in 0 .. n - 1,
           a = n * m + s
    PROVE  a % n = s
OBVIOUS

\* What differs by a multiple of the order has one rest.
LEMMA SameRest ==
    ASSUME NEW a \in Int, NEW b \in Int, NEW k \in Int, a = b + k * Q
    PROVE  a % Q = b % Q
<1> DEFINE r == b % Q
<1>1. PICK j \in Int : b = (b % Q) + j * Q
  BY Rest
<1>2. r \in 0 .. Q - 1
  BY Rest DEF Scalar
<1>3. a = r + (k + j) * Q
  <2> HIDE DEF r
  <2>1. b = r + j * Q
    BY <1>1 DEF r
  <2> QED BY <2>1, Order, <1>2
<1> HIDE DEF r
<1>5. k + j \in Int /\ a = Q * (k + j) + r
  BY <1>2, <1>3, Order
<1>6. a % Q = r
  BY <1>2, <1>5, Order, OnlyRest
<1> QED BY <1>6 DEF r

\* Rests add up and multiply.
LEMMA RestOfSum ==
    ASSUME NEW a \in Int, NEW b \in Int
    PROVE  /\ ((a % Q) + (b % Q)) % Q = (a + b) % Q
           /\ (a + (b % Q)) % Q = (a + b) % Q
           /\ ((a % Q) - (b % Q)) % Q = (a - b) % Q
           /\ (a - (b % Q)) % Q = (a - b) % Q
<1> DEFINE r == a % Q
           s == b % Q
<1>1. PICK i \in Int : a = r + i * Q
  BY Rest
<1>2. PICK j \in Int : b = s + j * Q
  BY Rest
<1>3. r \in Int /\ s \in Int /\ Q \in Int
  BY Rest, Order DEF Scalar
<1> HIDE DEF r, s
<1>4. /\ a + b = (r + s) + (i + j) * Q
      /\ a + b = (a + s) + j * Q
      /\ a - b = (r - s) + (i - j) * Q
      /\ a - b = (a - s) + (0 - j) * Q
  BY <1>1, <1>2, <1>3
<1>5. /\ a + b \in Int /\ r + s \in Int /\ a + s \in Int /\ i + j \in Int
      /\ a - b \in Int /\ r - s \in Int /\ a - s \in Int /\ i - j \in Int /\ 0 - j \in Int
  BY <1>3
<1>6. (a + b) % Q = (r + s) % Q
  BY ONLY <1>4, <1>5, SameRest
<1>7. (a + b) % Q = (a + s) % Q
  BY ONLY <1>4, <1>5, SameRest
<1>8. (a - b) % Q = (r - s) % Q
  BY ONLY <1>4, <1>5, SameRest
<1>9. (a - b) % Q = (a - s) % Q
  BY ONLY <1>4, <1>5, SameRest
<1> QED BY <1>6, <1>7, <1>8, <1>9 DEF r, s

LEMMA RestOfProduct ==
    ASSUME NEW a \in Int, NEW b \in Int
    PROVE  (a * (b % Q)) % Q = (a * b) % Q
<1> DEFINE s == b % Q
<1>1. PICK j \in Int : b = s + j * Q
  BY Rest
<1>2. s \in Int /\ Q \in Int
  BY Rest, Order DEF Scalar
<1> HIDE DEF s
<1>3. a * b = a * s + (a * j) * Q
  BY <1>1, <1>2
<1>4. a * b \in Int /\ a * s \in Int /\ a * j \in Int
  BY <1>2
<1>5. (a * b) % Q = (a * s) % Q
  BY <1>3, <1>4, SameRest
<1> QED BY <1>5 DEF s

\* The group has no divisors of zero.
LEMMA NoZero ==
    ASSUME NEW a \in Scalar, NEW b \in Scalar, a # 0, b # 0
    PROVE  Times(a, b) # 0 /\ Times(a, b) \in Scalar
<1>1. a \in 1 .. Q - 1 /\ b \in 1 .. Q - 1 /\ a * b \in Int
  BY Order DEF Scalar
<1> QED BY <1>1, Group, Rest DEF Times

\* Points and scalars stay what they are.
LEMMA Closed ==
    ASSUME NEW a \in Int, NEW b \in Int
    PROVE  Times(a, b) \in Scalar /\ Plus(a, b) \in Scalar /\ Minus(a, b) \in Scalar
<1>1. a * b \in Int /\ a + b \in Int /\ a - b \in Int
  OBVIOUS
<1> QED BY <1>1, Rest DEF Times, Plus, Minus

LEMMA TimesBase == \A a \in Scalar : Times(a, Base) = a
<1> TAKE a \in Scalar
<1>1. a \in Int /\ a * 1 = a
  BY Order DEF Scalar
<1> QED BY <1>1, Small DEF Times, Base

-----------------------------------------------------------------------------
(***************************************************************************)
(* Outputs and their owners                                                 *)
(***************************************************************************)

\* The receiver computes from R and the view key what the sender computed from the
\* address and r; the private key it derives is that of the destination.
LEMMA OwnerFinds ==
    ASSUME HashesToScalars, NEW w \in StealthWallet, NEW ephemeral \in Scalar, NEW amount
    PROVE  LET out == CreateOneTimeOutput(PublicAddress(w), ephemeral, amount)
           IN  /\ ScanOutput(w, out)
               /\ DeriveOneTimePrivateKey(w, out) = out.destination
               /\ out.destination \in Scalar /\ out.ephemeral \in Scalar
               /\ out.amount = amount
<1> DEFINE out == CreateOneTimeOutput(PublicAddress(w), ephemeral, amount)
           h == Hash(<<Times(ephemeral, w.view)>>)
<1>1. w.spend \in Scalar /\ w.view \in Scalar
  BY DEF StealthWallet
<1>2. PublicAddress(w) = [spend |-> w.spend, view |-> w.view]
  BY <1>1, TimesBase DEF PublicAddress
<1>3. Times(ephemeral, w.view) = Times(w.view, ephemeral)
  BY <1>1, Order DEF Times, Scalar
<1>4. h \in Scalar /\ Times(h, Base) = h
  BY TimesBase DEF HashesToScalars
<1>5. out = [ephemeral |-> ephemeral, destination |-> Plus(h, w.spend), amount |-> amount]
  BY <1>2, <1>4, TimesBase DEF CreateOneTimeOutput, Shared
<1>6. Shared(w.view, out.ephemeral) = h
  BY <1>3, <1>5 DEF Shared
<1> HIDE DEF h, out
<1>7. ScanOutput(w, out)
  BY <1>2, <1>4, <1>5, <1>6 DEF ScanOutput
<1>8. DeriveOneTimePrivateKey(w, out) = out.destination
  BY <1>5, <1>6 DEF DeriveOneTimePrivateKey
<1>9. Plus(h, w.spend) \in Scalar
  <2>1. h \in Int /\ w.spend \in Int
    BY <1>1, <1>4, Order DEF Scalar
  <2> QED BY <2>1, Closed
<1> QED BY <1>5, <1>7, <1>8, <1>9 DEF out

-----------------------------------------------------------------------------
(***************************************************************************)
(* Signatures                                                               *)
(***************************************************************************)

\* hash_to_point gives a point of the group that is not the identity.
LEMMA HashedPoint ==
    ASSUME HashesToScalars, NEW p PROVE HashToPoint(p) \in Scalar /\ HashToPoint(p) # 0
<1> DEFINE r == Hash(<<p>>) % (Q - 1)
           b == 1 + r
           f == Cofactor % Q
<1>1. Hash(<<p>>) \in Int /\ Q - 1 \in Nat \ {0}
  BY Order DEF HashesToScalars, Scalar
<1>2. r \in 0 .. (Q - 1) - 1
  <2>1. \A a \in Int, n \in Nat \ {0} : a % n \in 0 .. n - 1
    OBVIOUS
  <2> QED BY <1>1, <2>1
<1> HIDE DEF r
<1>3. b \in Scalar /\ b # 0 /\ b \in Int
  BY <1>2, Order DEF Scalar
<1> HIDE DEF b
<1>4. f \in Scalar /\ f # 0 /\ Cofactor \in Int
  <2>1. Cofactor \in Int
    BY DEF Cofactor
  <2> QED BY <2>1, Group, Rest
<1>5. (b * f) % Q = (b * Cofactor) % Q
  BY <1>3, <1>4, RestOfProduct
<1>6. HashToPoint(p) = (Cofactor * b) % Q
  BY DEF HashToPoint, Times, b, r
<1>7. Cofactor * b = b * Cofactor
  BY <1>3, <1>4
<1>8. HashToPoint(p) = Times(b, f)
  BY <1>5, <1>6, <1>7 DEF Times
<1> HIDE DEF f
<1> QED BY <1>3, <1>4, <1>8, NoZero

\* The response that closes the ring: with it the challenge that follows the one
\* before is the challenge of the drawn scalar, on both generators.
LEMMA ResponseCloses ==
    ASSUME HashesToScalars, NEW x \in Scalar, NEW alpha \in Scalar, NEW c \in Scalar, NEW m
    PROVE  NextChallenge(m, x, ComputeKeyImage(x, x), Minus(alpha, Times(c, x)), c)
             = Challenge(m, Times(alpha, Base), Times(alpha, HashToPoint(x)))
<1> DEFINE h == HashToPoint(x)
           t == (c * x) % Q
           s == (alpha - t) % Q
           image == (x * h) % Q
<1>1. x \in Int /\ alpha \in Int /\ c \in Int /\ h \in Int /\ Q \in Int
  BY HashedPoint, Order DEF Scalar
<1> HIDE DEF h
<1>2. PICK k \in Int : c * x = t + k * Q
  <2>1. c * x \in Int
    BY <1>1
  <2> QED BY <2>1, Rest
<1>3. t \in Int
  BY <1>1, Rest, Order DEF Scalar
<1> HIDE DEF t
<1>4. PICK j \in Int : alpha - t = s + j * Q
  <2>1. alpha - t \in Int
    BY <1>1, <1>3
  <2> QED BY <2>1, Rest
<1>5. s \in Int
  BY <1>1, <1>3, Rest, Order DEF Scalar
<1> HIDE DEF s
<1>6. PICK i \in Int : x * h = image + i * Q
  <2>1. x * h \in Int
    BY <1>1
  <2> QED BY <2>1, Rest
<1>7. image \in Int
  BY <1>1, Rest, Order DEF Scalar
<1> HIDE DEF image
<1>8. Plus(Times(s, Base), Times(c, x)) = Times(alpha, Base)
  <2>1. s + c * x = alpha + (k - j) * Q
    BY <1>1, <1>2, <1>3, <1>4, <1>5
  <2>2. s + c * x \in Int /\ k - j \in Int /\ c * x \in Int /\ s * 1 = s /\ alpha * 1 = alpha
    BY <1>1, <1>5
  <2>3. (s + c * x) % Q = alpha % Q
    <3> DEFINE a == s + c * x
               b == alpha
               d == k - j
    <3>1. a \in Int /\ b \in Int /\ d \in Int /\ a = b + d * Q
      BY <1>1, <2>1, <2>2
    <3> HIDE DEF a, b, d
    <3>2. a % Q = b % Q
      BY <3>1, SameRest
    <3> QED BY <3>2 DEF a, b
  <2>4. ((s % Q) + ((c * x) % Q)) % Q = (s + c * x) % Q
    BY <1>5, <2>2, RestOfSum
  <2> QED BY <2>2, <2>3, <2>4 DEF Plus, Times, Base
<1>9. Plus(Times(s, h), Times(c, image)) = Times(alpha, h)
  <2>1. s * h + c * image = alpha * h + ((k * h - j * h) - c * i) * Q
    <3>1. s = (alpha - t) - j * Q /\ t = c * x - k * Q /\ image = x * h - i * Q
      BY <1>1, <1>2, <1>3, <1>4, <1>5, <1>6, <1>7
    <3>2. s = (alpha - (c * x - k * Q)) - j * Q
      BY <3>1
    <3>3. s * h = ((alpha - (c * x - k * Q)) - j * Q) * h /\ c * image = c * (x * h - i * Q)
      BY <3>1, <3>2
    <3> HIDE <3>1, <3>2
    <3>4. ((alpha - (c * x - k * Q)) - j * Q) * h + c * (x * h - i * Q)
             = alpha * h + ((k * h - j * h) - c * i) * Q
      BY <1>1
    <3> QED BY <3>3, <3>4
  <2>2. /\ s * h \in Int /\ c * image \in Int /\ alpha * h \in Int
        /\ s * h + c * image \in Int /\ (k * h - j * h) - c * i \in Int
    BY <1>1, <1>5, <1>7
  <2>3. (s * h + c * image) % Q = (alpha * h) % Q
    <3> DEFINE a == s * h + c * image
               b == alpha * h
               d == (k * h - j * h) - c * i
    <3>1. a \in Int /\ b \in Int /\ d \in Int /\ a = b + d * Q
      BY <2>1, <2>2
    <3> HIDE DEF a, b, d
    <3>2. a % Q = b % Q
      BY <3>1, SameRest
    <3> QED BY <3>2 DEF a, b
  <2>4. (((s * h) % Q) + ((c * image) % Q)) % Q = (s * h + c * image) % Q
    BY <2>2, RestOfSum
  <2> QED BY <2>3, <2>4 DEF Plus, Times
<1>10. Minus(alpha, Times(c, x)) = s /\ ComputeKeyImage(x, x) = image
  BY DEF Minus, Times, ComputeKeyImage, s, t, image, h
<1> QED BY <1>8, <1>9, <1>10 DEF NextChallenge, h

\* The member of the ring a step of the signer is at.
Member(n, real, step) == ((real - 1 + step) % n) + 1

First(m, p, alpha) == Challenge(m, Times(alpha, Base), Times(alpha, HashToPoint(p)))

\* What the steps of the signer's loop say of the signature.
SignsAlong(c, m, ring, real, x, alpha, drawn) ==
    LET n == Len(ring)
        image == ComputeKeyImage(x, ring[real])
    IN  /\ c[1] = First(m, ring[real], alpha)
        /\ \A step \in 2 .. n :
             c[step] = NextChallenge(m, ring[Member(n, real, step - 1)], image,
                                     drawn[Member(n, real, step - 1)], c[step - 1])
        /\ Sign(m, ring, real, x, alpha, drawn)
             = [image |-> image, ring |-> ring,
                c0 |-> c[CHOOSE step \in 1 .. n : Member(n, real, step) = 1],
                responses |-> [drawn EXCEPT ![real] = Minus(alpha, Times(c[n], x))]]

LEMMA SignSteps ==
    ASSUME NEW m, NEW ring, Len(ring) \in Nat \ {0}, NEW real, NEW x, NEW alpha, NEW drawn
    PROVE  \E c : SignsAlong(c, m, ring, real, x, alpha, drawn)
<1> DEFINE n == Len(ring)
           image == ComputeKeyImage(x, ring[real])
           Start == First(m, ring[real], alpha)
           After(step, before) == NextChallenge(m, ring[Member(n, real, step - 1)], image,
                                                drawn[Member(n, real, step - 1)], before)
           Is(c, k) == c = [step \in 1 .. k |-> IF step = 1 THEN Start ELSE After(step, c[step - 1])]
           S == {k \in Nat : \E c : Is(c, k + 1)}
<1>0. n \in Nat \ {0}
  OBVIOUS
<1> DEFINE c == CHOOSE c : Is(c, n)
<1>s. Sign(m, ring, real, x, alpha, drawn)
        = [image |-> image, ring |-> ring,
           c0 |-> c[CHOOSE step \in 1 .. n : Member(n, real, step) = 1],
           responses |-> [drawn EXCEPT ![real] = Minus(alpha, Times(c[n], x))]]
  BY DEF Sign, Member, First
<1> HIDE DEF n, image, Start, After
<1>1. 0 \in S
  <2> DEFINE g == [step \in 1 .. 1 |-> Start]
  <2>1. g = [step \in 1 .. 0 + 1 |-> IF step = 1 THEN Start ELSE After(step, g[step - 1])]
    OBVIOUS
  <2> HIDE DEF g
  <2>2. \E f : Is(f, 0 + 1)
    BY <2>1
  <2> QED BY <2>2
<1>2. ASSUME NEW k \in Nat, k \in S PROVE k + 1 \in S
  <2>1. PICK f : Is(f, k + 1)
    BY <1>2
  <2> DEFINE g == [step \in 1 .. k + 2 |-> IF step = k + 2 THEN After(step, f[k + 1]) ELSE f[step]]
  <2>2. \A step \in 1 .. k + 1 : g[step] = f[step]
    OBVIOUS
  <2>3. g[k + 2] = After(k + 2, g[k + 1])
    OBVIOUS
  <2>4. g = [step \in 1 .. k + 2 |-> g[step]]
    OBVIOUS
  <2> HIDE DEF g
  <2>5. \A step \in 1 .. k + 2 : g[step] = IF step = 1 THEN Start ELSE After(step, g[step - 1])
    <3>1. \A step \in 1 .. k + 1 : f[step] = IF step = 1 THEN Start ELSE After(step, f[step - 1])
      BY <2>1
    <3>2. \A step \in 1 .. k + 1 : step # 1 => step - 1 \in 1 .. k + 1
      OBVIOUS
    <3>3. \A step \in 1 .. k + 2 : step \in 1 .. k + 1 \/ step = k + 2
      OBVIOUS
    <3>4. (k + 2) - 1 = k + 1 /\ k + 2 # 1
      OBVIOUS
    <3> QED BY <3>1, <3>2, <3>3, <3>4, <2>2, <2>3
  <2>6. Is(g, k + 2)
    BY <2>4, <2>5
  <2>7. k + 1 \in Nat /\ (k + 1) + 1 = k + 2
    OBVIOUS
  <2> HIDE DEF Is
  <2> QED BY <2>6, <2>7
<1> HIDE DEF S
<1>3. n - 1 \in Nat /\ (n - 1) + 1 = n
  BY <1>0
<1>4. n - 1 \in S
  BY <1>1, <1>2, <1>3, SetInduction
<1> HIDE DEF Is
<1>5. \E f : Is(f, n)
  <2>1. \E f : Is(f, (n - 1) + 1)
    BY <1>4 DEF S
  <2> QED BY <2>1, <1>3
<1>6. Is(c, n)
  BY <1>5
<1> HIDE DEF c
<1>7. \A step \in 1 .. n : c[step] = IF step = 1 THEN Start ELSE After(step, c[step - 1])
  BY <1>6 DEF Is
<1>8. c[1] = Start
  BY <1>0, <1>7
<1>9. \A step \in 2 .. n : c[step] = After(step, c[step - 1])
  <2>1. \A step \in 2 .. n : step \in 1 .. n /\ step # 1
    BY <1>0
  <2> QED BY <1>7, <2>1
<1>10. SignsAlong(c, m, ring, real, x, alpha, drawn)
  BY <1>s, <1>8, <1>9 DEF SignsAlong, n, image, Start, After
<1> QED BY <1>10

\* And of the verifier's.
LEMMA VerifySteps ==
    ASSUME NEW m, NEW sig, Len(sig.ring) \in Nat
    PROVE  /\ Challenges(m, sig)[1] = sig.c0
           /\ \A i \in 1 .. Len(sig.ring) :
                Challenges(m, sig)[i + 1]
                  = NextChallenge(m, sig.ring[i], sig.image, sig.responses[i], Challenges(m, sig)[i])
<1> DEFINE n == Len(sig.ring)
           After(i, before) == NextChallenge(m, sig.ring[i - 1], sig.image, sig.responses[i - 1], before)
           Is(c, k) == c = [i \in 1 .. k + 1 |-> IF i = 1 THEN sig.c0 ELSE After(i, c[i - 1])]
           S == {k \in Nat : \E c : Is(c, k)}
<1>0. n \in Nat
  OBVIOUS
<1> DEFINE c == CHOOSE c : Is(c, n)
<1>s. Challenges(m, sig) = c
  BY DEF Challenges
<1> HIDE DEF n, After
<1>1. 0 \in S
  <2> DEFINE g == [i \in 1 .. 1 |-> sig.c0]
  <2>1. g = [i \in 1 .. 0 + 1 |-> IF i = 1 THEN sig.c0 ELSE After(i, g[i - 1])]
    OBVIOUS
  <2> HIDE DEF g
  <2>2. \E f : Is(f, 0)
    BY <2>1
  <2> QED BY <2>2
<1>2. ASSUME NEW k \in Nat, k \in S PROVE k + 1 \in S
  <2>1. PICK f : Is(f, k)
    BY <1>2
  <2> DEFINE g == [i \in 1 .. k + 2 |-> IF i = k + 2 THEN After(i, f[k + 1]) ELSE f[i]]
  <2>2. \A i \in 1 .. k + 1 : g[i] = f[i]
    OBVIOUS
  <2>3. g[k + 2] = After(k + 2, g[k + 1])
    OBVIOUS
  <2>4. g = [i \in 1 .. k + 2 |-> g[i]]
    OBVIOUS
  <2> HIDE DEF g
  <2>5. \A i \in 1 .. k + 2 : g[i] = IF i = 1 THEN sig.c0 ELSE After(i, g[i - 1])
    <3>1. \A i \in 1 .. k + 1 : f[i] = IF i = 1 THEN sig.c0 ELSE After(i, f[i - 1])
      BY <2>1
    <3>2. \A i \in 1 .. k + 1 : i # 1 => i - 1 \in 1 .. k + 1
      OBVIOUS
    <3>3. \A i \in 1 .. k + 2 : i \in 1 .. k + 1 \/ i = k + 2
      OBVIOUS
    <3>4. (k + 2) - 1 = k + 1 /\ k + 2 # 1
      OBVIOUS
    <3> QED BY <3>1, <3>2, <3>3, <3>4, <2>2, <2>3
  <2>7. k + 1 \in Nat /\ (k + 1) + 1 = k + 2
    OBVIOUS
  <2>6. Is(g, k + 1)
    BY <2>4, <2>5, <2>7
  <2> HIDE DEF Is
  <2> QED BY <2>6, <2>7
<1> HIDE DEF S
<1>4. n \in S
  BY <1>0, <1>1, <1>2, SetInduction
<1> HIDE DEF Is
<1>5. \E f : Is(f, n)
  BY <1>4 DEF S
<1>6. Is(c, n)
  BY <1>5
<1> HIDE DEF c
<1>7. \A i \in 1 .. n + 1 : c[i] = IF i = 1 THEN sig.c0 ELSE After(i, c[i - 1])
  BY <1>6 DEF Is
<1>8. c[1] = sig.c0
  BY <1>0, <1>7
<1>9. \A i \in 1 .. n : c[i + 1] = After(i + 1, c[i])
  <2>1. \A i \in 1 .. n : i + 1 \in 1 .. n + 1 /\ i + 1 # 1 /\ (i + 1) - 1 = i
    BY <1>0
  <2> QED BY <1>7, <2>1
<1>10. \A i \in 1 .. n : (i + 1) - 1 = i
  BY <1>0
<1>11. \A i \in 1 .. n : c[i + 1] = NextChallenge(m, sig.ring[i], sig.image, sig.responses[i], c[i])
  BY <1>9, <1>10 DEF After
<1> QED BY <1>s, <1>8, <1>11 DEF n

-----------------------------------------------------------------------------
\* Where the signer's steps are: after the real member, round the end of the ring.
LEMMA StepAt ==
    ASSUME NEW n \in Nat \ {0}, NEW real \in 1 .. n, NEW step \in 1 .. n
    PROVE  Member(n, real, step) = IF real + step <= n THEN real + step ELSE real + step - n
<1>1. CASE real + step <= n
  <2>1. real - 1 + step = n * 0 + (real - 1 + step) /\ real - 1 + step \in 0 .. n - 1
    BY <1>1
  <2> DEFINE a == real - 1 + step
  <2>2. a \in Int /\ a \in 0 .. n - 1 /\ a = n * 0 + a
    BY <2>1
  <2> HIDE DEF a
  <2>3. a % n = a
    BY <2>2, OnlyRest
  <2> QED BY <1>1, <2>3 DEF Member, a
<1>2. CASE ~ (real + step <= n)
  <2> DEFINE a == real - 1 + step
             s == real - 1 + step - n
  <2>2. a \in Int /\ s \in 0 .. n - 1 /\ a = n * 1 + s /\ s + 1 = real + step - n
    BY <1>2
  <2> HIDE DEF a, s
  <2>3. a % n = s
    BY <2>2, OnlyRest
  <2> QED BY <1>2, <2>2, <2>3 DEF Member, a
<1> QED BY <1>1, <1>2

\* The step at which the signer passes a member, and the member after it.
StepOf(n, real, i) == IF i > real THEN i - real ELSE n - real + i

After(n, i) == IF i = n THEN 1 ELSE i + 1

LEMMA Steps ==
    ASSUME NEW n \in Nat \ {0}, NEW real \in 1 .. n
    PROVE  /\ \A i \in 1 .. n : /\ StepOf(n, real, i) \in 1 .. n
                                /\ Member(n, real, StepOf(n, real, i)) = i
           /\ \A i \in 1 .. n : i # real =>
                /\ StepOf(n, real, i) + 1 \in 2 .. n
                /\ StepOf(n, real, After(n, i)) = StepOf(n, real, i) + 1
           /\ StepOf(n, real, real) = n
           /\ StepOf(n, real, After(n, real)) = 1
           /\ (CHOOSE step \in 1 .. n : Member(n, real, step) = 1) = StepOf(n, real, 1)
<1>1. \A i \in 1 .. n : StepOf(n, real, i) \in 1 .. n
  BY DEF StepOf
<1>2. \A i \in 1 .. n : Member(n, real, StepOf(n, real, i)) = i
  <2> TAKE i \in 1 .. n
  <2> DEFINE s == StepOf(n, real, i)
  <2>1. s \in 1 .. n
    BY <1>1
  <2>2. Member(n, real, s) = IF real + s <= n THEN real + s ELSE real + s - n
    <3> HIDE DEF s
    <3> QED BY <2>1, StepAt
  <2> QED BY <2>2 DEF StepOf
<1>3. \A i \in 1 .. n : i # real =>
        /\ StepOf(n, real, i) + 1 \in 2 .. n
        /\ StepOf(n, real, After(n, i)) = StepOf(n, real, i) + 1
  BY DEF StepOf, After
<1>4. StepOf(n, real, real) = n /\ StepOf(n, real, After(n, real)) = 1
  BY DEF StepOf, After
<1>5. \A step \in 1 .. n : Member(n, real, step) = 1 => step = StepOf(n, real, 1)
  <2> TAKE step \in 1 .. n
  <2>1. Member(n, real, step) = IF real + step <= n THEN real + step ELSE real + step - n
    BY StepAt
  <2> QED BY <2>1 DEF StepOf
<1>6. 1 \in 1 .. n
  OBVIOUS
<1> QED BY <1>1, <1>2, <1>3, <1>4, <1>5, <1>6

\* What verify finds of a signature whose ring closes.
ClosedRing(m, ring, x, sig) ==
    /\ sig.image = ComputeKeyImage(x, x)
    /\ sig.ring = ring
    /\ sig.c0 \in Scalar
    /\ sig.responses \in Seq(Scalar) /\ Len(sig.responses) = Len(ring)
    /\ Challenges(m, sig)[Len(ring) + 1] = sig.c0

\* Whoever signs with the private key of a member of the ring closes the ring: the
\* verifier, who goes round it from the first member, comes back to the challenge
\* the signature claims, wherever the real member is.
LEMMA RingCloses ==
    ASSUME HashesToScalars, NEW m, NEW ring, Len(ring) \in Nat \ {0},
           NEW real \in 1 .. Len(ring), NEW x \in Scalar, ring[real] = x, NEW alpha \in Scalar,
           NEW drawn \in Seq(Scalar), Len(drawn) = Len(ring),
           NEW sig, sig = Sign(m, ring, real, x, alpha, drawn)
    PROVE  ClosedRing(m, ring, x, sig)
<1> DEFINE n == Len(ring)
           image == ComputeKeyImage(x, x)
           V == Challenges(m, sig)
<1>1. PICK c : SignsAlong(c, m, ring, real, x, alpha, drawn)
  BY SignSteps
<1> DEFINE closing == Minus(alpha, Times(c[n], x))
           D(i) == c[StepOf(n, real, i)]
<1>2. /\ c[1] = First(m, x, alpha)
      /\ \A step \in 2 .. n :
           c[step] = NextChallenge(m, ring[Member(n, real, step - 1)], image,
                                   drawn[Member(n, real, step - 1)], c[step - 1])
      /\ sig = [image |-> image, ring |-> ring,
                c0 |-> c[CHOOSE step \in 1 .. n : Member(n, real, step) = 1],
                responses |-> [drawn EXCEPT ![real] = closing]]
  BY <1>1 DEF SignsAlong
<1>3. n \in Nat \ {0} /\ real \in 1 .. n
  OBVIOUS
<1> HIDE DEF n, image
<1>4. \A step \in 1 .. n : c[step] \in Scalar
  <2> TAKE step \in 1 .. n
  <2>1. step = 1 \/ step \in 2 .. n
    BY <1>3
  <2>2. \A a, b : Challenge(m, a, b) \in Scalar
    BY DEF HashesToScalars, Challenge
  <2>3. First(m, x, alpha) \in Scalar
    BY <2>2 DEF First
  <2>4. \A p, i, s, b : NextChallenge(m, p, i, s, b) \in Scalar
    BY <2>2 DEF NextChallenge
  <2>5. CASE step = 1
    BY <1>2, <2>3, <2>5
  <2>6. CASE step \in 2 .. n
    <3>1. c[step] = NextChallenge(m, ring[Member(n, real, step - 1)], image,
                                  drawn[Member(n, real, step - 1)], c[step - 1])
      BY <1>2, <2>6
    <3> QED BY <2>4, <3>1
  <2> QED BY <2>1, <2>5, <2>6
<1>5. /\ sig.image = image /\ sig.ring = ring /\ sig.c0 = D(1)
      /\ sig.responses = [drawn EXCEPT ![real] = closing]
  <2>1. (CHOOSE step \in 1 .. n : Member(n, real, step) = 1) = StepOf(n, real, 1)
    BY <1>3, Steps
  <2>2. /\ sig.image = image /\ sig.ring = ring
        /\ sig.c0 = c[CHOOSE step \in 1 .. n : Member(n, real, step) = 1]
        /\ sig.responses = [drawn EXCEPT ![real] = closing]
    <3> HIDE DEF closing
    <3> QED BY <1>2
  <2> QED BY <2>1, <2>2
<1>6. closing \in Scalar
  <2>1. c[n] \in Int /\ x \in Int /\ alpha \in Int
    BY <1>3, <1>4, Order DEF Scalar
  <2>2. Times(c[n], x) \in Scalar
    BY <2>1, Closed
  <2>3. Times(c[n], x) \in Int
    BY <2>2, Order DEF Scalar
  <2> QED BY <2>1, <2>3, Closed
<1> DEFINE resp == sig.responses
<1>7. /\ resp \in Seq(Scalar) /\ Len(resp) = n
      /\ resp[real] = closing
      /\ \A i \in 1 .. n : i # real => resp[i] = drawn[i]
  <2>1. DOMAIN drawn = 1 .. n
    BY DEF n
  <2>2. \A i \in 1 .. n : drawn[i] \in Scalar
    BY DEF n
  <2> DEFINE r == [drawn EXCEPT ![real] = closing]
  <2>3. DOMAIN r = 1 .. n /\ r[real] = closing /\ \A i \in 1 .. n : i # real => r[i] = drawn[i]
    BY <1>3, <2>1
  <2>4. r = [i \in 1 .. n |-> r[i]] /\ \A i \in 1 .. n : r[i] \in Scalar
    BY <1>6, <2>1, <2>2, <2>3
  <2> HIDE DEF r
  <2>5. r \in Seq(Scalar) /\ Len(r) = n
    BY <1>3, <2>4
  <2> QED BY <1>5, <2>3, <2>5 DEF r
<1> HIDE DEF resp
<1>8. \A i \in 1 .. n : NextChallenge(m, ring[i], image, resp[i], D(i)) = D(After(n, i))
  <2> TAKE i \in 1 .. n
  <2>1. CASE i = real
    <3>1. D(i) = c[n] /\ D(After(n, i)) = c[1]
      <4>1. StepOf(n, real, real) = n /\ StepOf(n, real, After(n, real)) = 1
        BY <1>3, Steps
      <4> QED BY <2>1, <4>1
    <3>2. c[n] \in Scalar /\ x \in Scalar
      BY <1>3, <1>4
    <3>3. NextChallenge(m, x, image, closing, c[n]) = First(m, x, alpha)
      BY <3>2, ResponseCloses DEF First, image
    <3> QED BY <1>2, <1>7, <2>1, <3>1, <3>3
  <2>2. CASE i # real
    <3> DEFINE s == StepOf(n, real, i)
    <3>1. /\ s + 1 \in 2 .. n /\ StepOf(n, real, After(n, i)) = s + 1
          /\ Member(n, real, s) = i /\ s \in 1 .. n
      <4> HIDE <2>2
      <4>1. \A j \in 1 .. n : /\ StepOf(n, real, j) \in 1 .. n
                              /\ Member(n, real, StepOf(n, real, j)) = j
        BY <1>3, Steps
      <4>2. \A j \in 1 .. n : j # real =>
              /\ StepOf(n, real, j) + 1 \in 2 .. n
              /\ StepOf(n, real, After(n, j)) = StepOf(n, real, j) + 1
        BY <1>3, Steps
      <4> QED BY <2>2, <4>1, <4>2
    <3>2. (s + 1) - 1 = s
      BY <3>1
    <3>3. c[s + 1] = NextChallenge(m, ring[i], image, drawn[i], c[s])
      BY <1>2, <3>1, <3>2
    <3> QED BY <1>7, <2>2, <3>1, <3>3
  <2> QED BY <2>1, <2>2
<1> HIDE DEF closing, D
<1>9. /\ V[1] = D(1)
      /\ \A i \in 1 .. n : V[i + 1] = NextChallenge(m, ring[i], image, resp[i], V[i])
  <2>1. Len(sig.ring) \in Nat /\ Len(sig.ring) = n
    BY <1>3, <1>5 DEF n
  <2>2. /\ V[1] = sig.c0
        /\ \A i \in 1 .. n :
             V[i + 1] = NextChallenge(m, sig.ring[i], sig.image, sig.responses[i], V[i])
    BY <2>1, VerifySteps
  <2> QED BY <1>5, <2>2 DEF resp
<1> HIDE DEF V
<1> DEFINE S == {k \in Nat : k < n => V[k + 1] = D(k + 1)}
<1>10. 0 \in S
  BY <1>9
<1>11. ASSUME NEW k \in Nat, k \in S PROVE k + 1 \in S
  <2>1. CASE k + 1 < n
    <3>1. k + 1 \in 1 .. n /\ k + 1 # n /\ k < n
      BY <1>3, <2>1
    <3>2. V[k + 1] = D(k + 1)
      BY <1>11, <3>1
    <3>3. V[(k + 1) + 1] = D(After(n, k + 1))
      BY <1>8, <1>9, <3>1, <3>2
    <3>4. After(n, k + 1) = (k + 1) + 1
      BY <3>1 DEF After
    <3> QED BY <3>3, <3>4
  <2>2. CASE ~ (k + 1 < n)
    BY <2>2
  <2> QED BY <2>1, <2>2
<1> HIDE DEF S
<1>12. V[n] = D(n)
  <2>1. n - 1 \in Nat /\ n - 1 < n /\ (n - 1) + 1 = n
    BY <1>3
  <2>2. n - 1 \in S
    BY <2>1, <1>10, <1>11, SetInduction
  <2> QED BY <2>1, <2>2 DEF S
<1>13. V[n + 1] = D(1)
  <2>1. n \in 1 .. n /\ After(n, n) = 1
    BY <1>3 DEF After
  <2> QED BY <1>8, <1>9, <1>12, <2>1
<1>14. sig.c0 \in Scalar
  <2>1. \A i \in 1 .. n : StepOf(n, real, i) \in 1 .. n
    BY <1>3, Steps
  <2>2. 1 \in 1 .. n
    BY <1>3
  <2> QED BY <1>4, <1>5, <2>1, <2>2 DEF D
<1>15. /\ sig.image = image /\ sig.ring = ring /\ sig.c0 \in Scalar
       /\ sig.responses \in Seq(Scalar) /\ Len(sig.responses) = n
       /\ V[n + 1] = sig.c0
  BY <1>5, <1>7, <1>13, <1>14 DEF resp
<1> QED BY <1>15 DEF ClosedRing, image, V, n

-----------------------------------------------------------------------------
(***************************************************************************)
(* Rings and texts                                                          *)
(***************************************************************************)

\* transfer_shielded puts the real key among the decoys: the ring holds it at the
\* index chosen and every decoy once.
LEMMA RealInRing ==
    ASSUME NEW T, NEW decoys \in Seq(T), NEW real \in 1 .. Len(decoys) + 1, NEW p,
           p \notin ToSet(decoys), IsInjective(decoys)
    PROVE  LET ring == InsertAt(decoys, real, p)
           IN  /\ ring \in Seq(T \cup {p}) /\ Len(ring) = Len(decoys) + 1
               /\ ring[real] = p
               /\ IsInjective(ring)
<1> DEFINE n == Len(decoys)
           ring == InsertAt(decoys, real, p)
           At(j) == IF j < real THEN decoys[j] ELSE IF j = real THEN p ELSE decoys[j - 1]
<1>1. n \in Nat /\ DOMAIN decoys = 1 .. n /\ decoys \in Seq(T \cup {p})
  OBVIOUS
<1>2. ring \in Seq(T \cup {p}) /\ Len(ring) = n + 1 /\ \A j \in 1 .. n + 1 : ring[j] = At(j)
  <2> DEFINE a == SubSeq(decoys, 1, real - 1)
             b == SubSeq(decoys, real, n)
             U == T \cup {p}
  <2>1. a \in Seq(U) /\ Len(a) = real - 1 /\ \A j \in 1 .. real - 1 : a[j] = decoys[j]
    BY <1>1
  <2>2. b \in Seq(U) /\ Len(b) = n - real + 1 /\ \A j \in 1 .. n - real + 1 : b[j] = decoys[real + j - 1]
    BY <1>1
  <2> DEFINE e == <<p>>
  <2>3. e \in Seq(U) /\ Len(e) = 1 /\ e[1] = p
    OBVIOUS
  <2>4. ring = (a \o e) \o b
    BY DEF InsertAt
  <2> HIDE DEF a, b, e, U, ring
  <2>5. /\ a \o e \in Seq(U) /\ Len(a \o e) = real
        /\ \A j \in 1 .. real : (a \o e)[j] = IF j < real THEN decoys[j] ELSE p
    <3>1. real \in Nat \ {0} /\ Len(a) + Len(e) = real
      BY <1>1, <2>1, <2>3
    <3>2. a \o e \in Seq(U) /\ Len(a \o e) = Len(a) + Len(e)
      BY <2>1, <2>3, ConcatProperties
    <3>3. \A j \in 1 .. Len(a) + Len(e) : (a \o e)[j] = IF j <= Len(a) THEN a[j] ELSE e[j - Len(a)]
      BY <2>1, <2>3, ConcatProperties
    <3>4. \A j \in 1 .. real : (a \o e)[j] = IF j <= Len(a) THEN a[j] ELSE e[j - Len(a)]
      BY <3>1, <3>3
    <3>5. \A j \in 1 .. real : IF j < real THEN j \in 1 .. real - 1 /\ j <= Len(a)
                                          ELSE ~ (j <= Len(a)) /\ j - Len(a) = 1
      BY <2>1, <3>1
    <3> QED BY <2>1, <2>3, <3>1, <3>2, <3>4, <3>5
  <2> DEFINE f == a \o e
  <2> HIDE DEF f
  <2>6. f \in Seq(U) /\ Len(f) = real /\ \A j \in 1 .. real : f[j] = IF j < real THEN decoys[j] ELSE p
    BY <2>5 DEF f
  <2>7. ring = f \o b
    BY <2>4 DEF f
  <2>8. ring \in Seq(U) /\ Len(ring) = n + 1
    BY <1>1, <2>2, <2>6, <2>7
  <2>9. \A j \in 1 .. n + 1 : ring[j] = IF j <= real THEN f[j] ELSE b[j - real]
    BY <1>1, <2>2, <2>6, <2>7
  <2>10. \A j \in 1 .. n + 1 : ring[j] = At(j)
    <3> TAKE j \in 1 .. n + 1
    <3>1. CASE j <= real
      BY <2>6, <2>9, <3>1, <1>1
    <3>2. CASE ~ (j <= real)
      <4>1. j - real \in 1 .. n - real + 1 /\ real + (j - real) - 1 = j - 1
        BY <1>1, <3>2
      <4>2. b[j - real] = decoys[j - 1]
        BY <2>2, <4>1
      <4> QED BY <2>9, <3>2, <4>2
    <3> QED BY <3>1, <3>2
  <2> QED BY <2>8, <2>10 DEF U
<1>3. \A i \in 1 .. n : decoys[i] # p
  BY <1>1 DEF ToSet
<1>4. \A i, j \in 1 .. n : decoys[i] = decoys[j] => i = j
  BY <1>1 DEF IsInjective
<1> HIDE DEF ring
<1>5. \A i, j \in 1 .. n + 1 : ring[i] = ring[j] => i = j
  <2> TAKE i, j \in 1 .. n + 1
  <2>1. ring[i] = At(i) /\ ring[j] = At(j)
    BY <1>2
  <2>2. \A k \in 1 .. n + 1 : k < real => k \in 1 .. n
    BY <1>1
  <2>3. \A k \in 1 .. n + 1 : ~ (k < real) /\ k # real => k - 1 \in 1 .. n /\ k - 1 >= real
    BY <1>1
  <2> QED BY <1>1, <1>3, <1>4, <2>1, <2>2, <2>3
<1>6. DOMAIN ring = 1 .. n + 1 /\ real \in 1 .. n + 1
  BY <1>1, <1>2
<1> QED BY <1>2, <1>5, <1>6 DEF ring, IsInjective

\* What goes to a page as text comes back.
LEMMA TextsRead ==
    ASSUME NEW T, NEW keys \in Seq(T)
    PROVE  /\ AllKeys(Texts(keys)) /\ Keys(Texts(keys)) = keys
           /\ Len(Texts(keys)) = Len(keys)
<1> DEFINE n == Len(keys)
<1>1. n \in Nat /\ keys = [i \in 1 .. n |-> keys[i]] /\ DOMAIN keys = 1 .. n
  OBVIOUS
<1>2. Texts(keys) = [i \in 1 .. n |-> <<keys[i]>>]
  BY <1>1 DEF Texts, ToHex
<1>3. \A i \in 1 .. n : <<keys[i]>> # <<>> /\ <<keys[i]>>[1] = keys[i]
  OBVIOUS
<1>4. Len(Texts(keys)) = n
  BY <1>1, <1>2
<1>5. AllKeys(Texts(keys))
  BY <1>2, <1>3 DEF AllKeys, IsKey, Garbled
<1>6. Keys(Texts(keys)) = [i \in 1 .. n |-> keys[i]]
  BY <1>2, <1>3 DEF Keys, Key
<1> QED BY <1>1, <1>4, <1>5, <1>6

\* The number a text of one holds.
LEMMA TextRead == \A x : IsKey(ToHex(x)) /\ Key(ToHex(x)) = x
BY DEF IsKey, ToHex, Garbled, Key

\* What the node parses of a signature a page pushes is that signature.
LEMMA ParsedBack ==
    ASSUME NEW S, NEW T, NEW sig, sig.ring \in Seq(S), sig.responses \in Seq(T),
           sig = [image |-> sig.image, ring |-> sig.ring, c0 |-> sig.c0, responses |-> sig.responses]
    PROVE  ParsedSignature(SignatureText(sig)) = {sig}
<1> DEFINE text == SignatureText(sig)
<1>1. text = [image |-> ToHex(sig.image), ring |-> Texts(sig.ring),
              c0 |-> ToHex(sig.c0), responses |-> Texts(sig.responses)]
  BY DEF SignatureText
<1>2. /\ AllKeys(Texts(sig.ring)) /\ Keys(Texts(sig.ring)) = sig.ring
      /\ AllKeys(Texts(sig.responses)) /\ Keys(Texts(sig.responses)) = sig.responses
  BY TextsRead
<1>3. /\ IsKey(text.image) /\ Key(text.image) = sig.image
      /\ IsKey(text.c0) /\ Key(text.c0) = sig.c0
      /\ AllKeys(text.ring) /\ Keys(text.ring) = sig.ring
      /\ AllKeys(text.responses) /\ Keys(text.responses) = sig.responses
  BY <1>1, <1>2, TextRead
<1> HIDE DEF text
<1>4. ParsedSignature(text)
        = {[image |-> sig.image, c0 |-> sig.c0, ring |-> sig.ring, responses |-> sig.responses]}
  BY <1>3 DEF ParsedSignature
<1>5. [image |-> sig.image, c0 |-> sig.c0, ring |-> sig.ring, responses |-> sig.responses] = sig
  OBVIOUS
<1> QED BY <1>4, <1>5 DEF text

\* A page's signature reaches the node as it was made.
LEMMA SignReadsBack ==
    ASSUME NEW m, NEW S, NEW T, NEW ring \in Seq(S), ring # <<>>,
           NEW real \in 1 .. Len(ring), NEW x, NEW alpha,
           NEW drawn \in Seq(T), Len(drawn) = Len(ring)
    PROVE  LET sig == Sign(m, ring, real, x, alpha, drawn)
           IN  ParsedSignature(SignatureText(sig)) = {sig}
<1> DEFINE sig == Sign(m, ring, real, x, alpha, drawn)
<1>1. Len(ring) \in Nat \ {0}
  OBVIOUS
<1>2. PICK c : SignsAlong(c, m, ring, real, x, alpha, drawn)
  BY <1>1, SignSteps
<1> DEFINE closing == Minus(alpha, Times(c[Len(ring)], x))
           r == [drawn EXCEPT ![real] = closing]
           image == ComputeKeyImage(x, ring[real])
           c0 == c[CHOOSE step \in 1 .. Len(ring) : Member(Len(ring), real, step) = 1]
<1>3. sig = [image |-> image, ring |-> ring, c0 |-> c0, responses |-> r]
  BY <1>2 DEF SignsAlong
<1> HIDE DEF sig, closing, image, c0
<1>4. r \in Seq(T \cup {r[real]})
  <2>1. DOMAIN drawn = 1 .. Len(ring) /\ \A i \in 1 .. Len(ring) : drawn[i] \in T
    BY <1>1
  <2>2. DOMAIN r = 1 .. Len(ring) /\ \A i \in 1 .. Len(ring) : i # real => r[i] = drawn[i]
    BY <2>1
  <2>3. r = [i \in 1 .. Len(ring) |-> r[i]] /\ \A i \in 1 .. Len(ring) : r[i] \in T \cup {r[real]}
    BY <2>1, <2>2
  <2> HIDE DEF r
  <2> QED BY <1>1, <2>3
<1> HIDE DEF r
<1>5. /\ sig.ring = ring /\ sig.responses = r
      /\ sig = [image |-> sig.image, ring |-> sig.ring, c0 |-> sig.c0, responses |-> sig.responses]
  BY <1>3
<1>6. sig.ring \in Seq(S) /\ sig.responses \in Seq(T \cup {r[real]})
  BY <1>4, <1>5
<1>7. ParsedSignature(SignatureText(sig)) = {sig}
  BY <1>5, <1>6, ParsedBack
<1> QED BY <1>7 DEF sig

\* A drawn sequence cut to the length of the ring.
LEMMA CutTo ==
    ASSUME NEW T, NEW s \in Seq(T), NEW n \in 0 .. Len(s)
    PROVE  SubSeq(s, 1, n) \in Seq(T) /\ Len(SubSeq(s, 1, n)) = n
OBVIOUS

-----------------------------------------------------------------------------
(***************************************************************************)
(* The states that can be reached                                           *)
(***************************************************************************)

\* The wallet holds scalars; while a phrase is shown there is no wallet yet.
WalletFine ==
    /\ wallet \in {None} \cup StealthWallet
    /\ phrase # <<>> => wallet = None

\* The output was made for the wallet.
OutputFine ==
    output # None =>
        /\ wallet \in StealthWallet
        /\ \E ephemeral \in Draws, amount \in Amounts :
             output = CreateOneTimeOutput(PublicAddress(wallet), ephemeral, amount)
        /\ output.destination # Identity

\* A signature of the owner, in a ring or alone.
RingSigned(o, p) ==
    \E ring \in Seq(RingPoints \cup {p}), real \in Nat, alpha \in Draws, drawn \in Seq(Draws) :
        /\ IsInjective(ring) /\ real \in 1 .. Len(ring) /\ ring[real] = p
        /\ Len(drawn) = Len(ring)
        /\ o.sig = Sign(o.message, ring, real, p, alpha, drawn)

BurnSigned(o, p) == \E alpha \in Draws : o.sig = SignBurnProof(o.message, p, p, alpha)

OfferFine ==
    offer # None =>
        /\ output # None
        /\ offer # Burned =>
             \/ offer.kind \in {"transfer", "push"} /\ RingSigned(offer, output.destination)
             \/ offer.kind = "burn" /\ BurnSigned(offer, output.destination)

\* The one form the image of the output has in the ledger.
ImageOfOutput == CanonicalKeyImage(ComputeKeyImage(output.destination, output.destination))

LedgerFine ==
    \/ accepted = 0 /\ images = {} /\ stored = {} /\ moved = 0
    \/ /\ accepted = 1 /\ output # None
       /\ images = {ImageOfOutput} /\ stored = {ImageOfOutput}
       /\ moved = output.amount

PlanFine ==
    plan # None =>
        /\ output # None
        /\ \E n \in 1 .. MaxFragments :
             \E weights \in [1 .. n -> Weights], hops \in [1 .. n -> HopCounts] :
               plan = PlanWithdrawal(output.amount, weights, hops)

Inv == WalletFine /\ OutputFine /\ OfferFine /\ LedgerFine /\ PlanFine

LEMMA InitInv == Init => Inv
BY DEF Init, Inv, WalletFine, OutputFine, OfferFine, LedgerFine, PlanFine

\* Two facts of an output that was made for the wallet.
LEMMA OutputOwned ==
    ASSUME HashesToScalars, OutputFine, output # None
    PROVE  /\ ScanOutput(wallet, output)
           /\ PrivateKey = output.destination
           /\ output.destination \in Scalar /\ output.destination # 0
           /\ output.ephemeral \in Scalar
           /\ output.amount \in Amounts /\ output.amount \in Nat
<1>1. PICK ephemeral \in Draws, amount \in Amounts :
        output = CreateOneTimeOutput(PublicAddress(wallet), ephemeral, amount)
  BY DEF OutputFine
<1>2. wallet \in StealthWallet /\ output.destination # 0
  BY DEF OutputFine, Identity
<1>3. ephemeral \in Scalar /\ amount \in Nat
  BY FlowConstants, Order DEF Scalar
<1>4. /\ ScanOutput(wallet, output)
      /\ DeriveOneTimePrivateKey(wallet, output) = output.destination
      /\ output.destination \in Scalar /\ output.ephemeral \in Scalar
      /\ output.amount = amount
  BY <1>1, <1>2, <1>3, OwnerFinds
<1> QED BY <1>2, <1>3, <1>4 DEF PrivateKey

\* Both kinds of signature carry the image of the output.
LEMMA SignedImage ==
    ASSUME HashesToScalars, OutputFine, OfferFine, Signed
    PROVE  /\ output # None
           /\ offer.sig.image = ComputeKeyImage(output.destination, output.destination)
<1> DEFINE p == output.destination
<1>1. output # None
  BY DEF OfferFine, Signed
<1>2. p \in Scalar
  BY <1>1, OutputOwned
<1>3. CASE RingSigned(offer, p)
  <2>1. PICK ring \in Seq(RingPoints \cup {p}), real \in Nat,
             alpha \in Draws, drawn \in Seq(Draws) :
               /\ IsInjective(ring) /\ real \in 1 .. Len(ring) /\ ring[real] = p
               /\ Len(drawn) = Len(ring)
               /\ offer.sig = Sign(offer.message, ring, real, p, alpha, drawn)
    BY <1>3 DEF RingSigned
  <2>2. offer.sig.image = ComputeKeyImage(p, ring[real])
    BY <2>1 DEF Sign
  <2> QED BY <1>1, <2>1, <2>2
<1>4. CASE BurnSigned(offer, p)
  BY <1>1, <1>4 DEF BurnSigned, SignBurnProof
<1> QED BY <1>3, <1>4 DEF OfferFine, Signed

-----------------------------------------------------------------------------
\* Whatever signs a ring with the real key among decoys leaves a signature of the owner.
LEMMA SignsRing ==
    ASSUME NEW p, NEW o, NEW decoys \in Seq(RingPoints), p \notin ToSet(decoys), IsInjective(decoys),
           NEW real \in 1 .. Len(decoys) + 1, NEW alpha \in Draws,
           NEW drawn \in Seq(Draws), Len(decoys) < Len(drawn),
           o.sig = Sign(o.message, InsertAt(decoys, real, p), real, p, alpha,
                        SubSeq(drawn, 1, Len(InsertAt(decoys, real, p))))
    PROVE  RingSigned(o, p)
<1> DEFINE ring == InsertAt(decoys, real, p)
           cut == SubSeq(drawn, 1, Len(ring))
<1>1. /\ ring \in Seq(RingPoints \cup {p}) /\ Len(ring) = Len(decoys) + 1
      /\ ring[real] = p /\ IsInjective(ring)
  BY RealInRing
<1>2. real \in Nat /\ real \in 1 .. Len(ring)
  BY <1>1
<1>3. Len(ring) \in 0 .. Len(drawn)
  BY <1>1
<1>4. o.sig = Sign(o.message, ring, real, p, alpha, cut)
  OBVIOUS
<1> HIDE DEF ring
<1>5. cut \in Seq(Draws) /\ Len(cut) = Len(ring)
  BY <1>3, CutTo
<1> HIDE DEF cut
<1> QED BY <1>1, <1>2, <1>4, <1>5 DEF RingSigned

\* Everything but the offer stays: so does the rest of the invariant.
LEMMA OnlyOffer ==
    ASSUME Inv, UNCHANGED <<entropy, phrase, wallet, output, chainState, plan>>, OfferFine'
    PROVE  Inv'
<1>1. /\ phrase' = phrase /\ wallet' = wallet /\ output' = output /\ plan' = plan
      /\ images' = images /\ stored' = stored /\ accepted' = accepted /\ moved' = moved
  BY DEF chainState
<1>2. WalletFine'
  BY <1>1 DEF Inv, WalletFine
<1>3. OutputFine'
  BY <1>1 DEF Inv, OutputFine, CreateOneTimeOutput, PublicAddress
<1>4. LedgerFine'
  BY <1>1 DEF Inv, LedgerFine, ImageOfOutput
<1>5. PlanFine'
  BY <1>1 DEF Inv, PlanFine
<1> QED BY <1>2, <1>3, <1>4, <1>5 DEF Inv

LEMMA TransferStep ==
    ASSUME HashesToScalars, Inv, NEW n \in 0 .. 2, NEW decoys \in [1 .. n -> RingPoints],
           NEW real \in 1 .. Len(decoys) + 1, NEW alpha \in Draws, NEW fee,
           NEW a \in Draws, NEW b \in Draws,
           SignTransfer(decoys, real, alpha, <<a, b, a>>, fee)
    PROVE  Inv'
<1> DEFINE p == output.destination
           drawn == <<a, b, a>>
           ring == InsertAt(decoys, real, p)
<1>1. PrivateKey = p /\ output # None
  BY OutputOwned DEF Inv, SignTransfer
<1>2. /\ UNCHANGED <<entropy, phrase, wallet, output, chainState, plan>>
      /\ p \notin ToSet(decoys) /\ IsInjective(decoys)
      /\ offer'.kind = "transfer"
      /\ offer'.sig = Sign(offer'.message, ring, real, PrivateKey, alpha,
                           SubSeq(drawn, 1, Len(ring)))
      /\ offer' # Burned
  BY DEF SignTransfer, Burned
<1>3. decoys \in Seq(RingPoints) /\ Len(decoys) = n
  OBVIOUS
<1>4. drawn \in Seq(Draws) /\ Len(drawn) = 3
  OBVIOUS
<1> HIDE DEF drawn
<1>5. RingSigned(offer', p)
  <2>1. Len(decoys) < Len(drawn)
    BY <1>3, <1>4
  <2> DEFINE o == offer'
  <2>2. o.sig = Sign(o.message, ring, real, p, alpha, SubSeq(drawn, 1, Len(ring)))
    BY <1>1, <1>2
  <2> HIDE DEF o, p
  <2>3. RingSigned(o, p)
    BY <1>2, <1>3, <1>4, <2>1, <2>2, SignsRing
  <2> QED BY <2>3 DEF o
<1>6. OfferFine'
  <2>1. output'.destination = p /\ output' # None
    BY <1>1, <1>2
  <2>2. RingSigned(offer, output.destination)'
    BY <1>5, <2>1 DEF RingSigned
  <2> QED BY <1>2, <2>1, <2>2 DEF OfferFine
<1> QED BY <1>2, <1>6, OnlyOffer

LEMMA BrowserStep ==
    ASSUME HashesToScalars, Inv,
           NEW viewPriv \in Pasted(wallet.view), NEW spendPriv \in Pasted(wallet.spend),
           NEW decoys \in Decoys(1, RingPoints, output.destination),
           NEW real \in 1 .. Len(decoys) + 1, NEW typed, NEW typedFee, NEW alpha \in Draws,
           SignInBrowser(viewPriv, spendPriv, decoys, real, typed, typedFee, alpha, <<alpha, alpha>>)
    PROVE  Inv'
<1> DEFINE p == output.destination
           drawn == <<alpha, alpha>>
           ring == InsertAt(decoys, real, p)
           texts == Texts(ring)
           dest == ToHex(output.destination)
           ephemeral == ToHex(output.ephemeral)
           cut == SubSeq(drawn, 1, Len(texts))
<1>1. /\ output # None /\ PrivateKey = p
      /\ UNCHANGED <<entropy, phrase, wallet, output, chainState, plan>>
      /\ WasmScanOutput(viewPriv, ToHex(PublicAddress(wallet).spend), ephemeral, dest)
  BY OutputOwned DEF Inv, SignInBrowser
<1>2. PICK x \in WasmDeriveKey(viewPriv, spendPriv, ephemeral, dest) :
      \E image \in WasmKeyImage(x, dest) :
      \E outs \in PageOutputs(Decode(Encode(Payee)), typed, alpha) :
      \E hash \in WasmTxHash(outs, typedFee, texts, image) :
      \E sig \in WasmSign(hash, texts, real, x, alpha, cut) :
      \E parsed \in ParsedSignature(sig) :
        offer' = [kind |-> "push", message |-> Key(hash), sig |-> parsed,
                  outputs |-> outs, fee |-> ParseUsdt(typedFee)]
  BY DEF SignInBrowser
<1>3. PICK image, outs, hash :
      \E sig \in WasmSign(hash, texts, real, x, alpha, cut) :
      \E parsed \in ParsedSignature(sig) :
        offer' = [kind |-> "push", message |-> Key(hash), sig |-> parsed,
                  outputs |-> outs, fee |-> ParseUsdt(typedFee)]
  BY <1>2
<1>4. PICK sig \in WasmSign(hash, texts, real, x, alpha, cut) :
      \E parsed \in ParsedSignature(sig) :
        offer' = [kind |-> "push", message |-> Key(hash), sig |-> parsed,
                  outputs |-> outs, fee |-> ParseUsdt(typedFee)]
  BY <1>3
<1>5. PICK parsed \in ParsedSignature(sig) :
        offer' = [kind |-> "push", message |-> Key(hash), sig |-> parsed,
                  outputs |-> outs, fee |-> ParseUsdt(typedFee)]
  BY <1>4
<1>6. viewPriv = ToHex(wallet.view) /\ spendPriv = ToHex(wallet.spend)
  <2>1. viewPriv # Garbled
    BY <1>1 DEF WasmScanOutput, AllKeys, IsKey
  <2>2. spendPriv # Garbled
    BY <1>2 DEF WasmDeriveKey, AllKeys, IsKey
  <2> QED BY <2>1, <2>2 DEF Pasted
<1>7. Key(x) = p
  <2>1. x = ToHex(DeriveOneTimePrivateKey([view |-> wallet.view, spend |-> wallet.spend],
                                          [ephemeral |-> output.ephemeral]))
    BY <1>2, <1>6, TextRead DEF WasmDeriveKey
  <2>2. x = ToHex(PrivateKey)
    BY <2>1 DEF PrivateKey, DeriveOneTimePrivateKey
  <2> QED BY <1>1, <2>2, TextRead
<1>8. decoys \in Seq(RingPoints) /\ Len(decoys) < 2 /\ IsInjective(decoys) /\ p \notin ToSet(decoys)
  <2>1. PICK k \in 0 .. 1 : decoys \in [1 .. k -> RingPoints \ {p}]
    BY DEF Decoys
  <2>2. decoys \in Seq(RingPoints) /\ Len(decoys) = k
    BY <2>1
  <2>3. p \notin ToSet(decoys)
    BY <2>1 DEF ToSet
  <2> QED BY <2>1, <2>2, <2>3 DEF Decoys
<1>9. drawn \in Seq(Draws) /\ Len(drawn) = 2
  OBVIOUS
<1> HIDE DEF drawn
<1>10. ring \in Seq(RingPoints \cup {p}) /\ Len(ring) = Len(decoys) + 1
  BY <1>8, RealInRing
<1> HIDE DEF ring
<1>11. Keys(texts) = ring /\ Len(texts) = Len(ring)
  BY <1>10, TextsRead
<1>12. sig = SignatureText(Sign(Key(hash), ring, real, p, alpha, cut))
  BY <1>4, <1>7, <1>11 DEF WasmSign
<1> DEFINE signed == Sign(Key(hash), ring, real, p, alpha, cut)
<1>13. ring # <<>> /\ real \in 1 .. Len(ring) /\ Len(ring) \in 0 .. Len(drawn)
  BY <1>8, <1>9, <1>10
<1>14. cut \in Seq(Draws) /\ Len(cut) = Len(ring)
  BY <1>9, <1>11, <1>13, CutTo
<1>15. cut = SubSeq(drawn, 1, Len(ring))
  BY <1>11
<1> HIDE DEF cut
<1>16. ParsedSignature(SignatureText(signed)) = {signed}
  BY <1>10, <1>13, <1>14, SignReadsBack
<1>17. parsed = signed
  BY <1>5, <1>12, <1>16
<1>18. /\ offer'.kind = "push" /\ offer'.message = Key(hash) /\ offer'.sig = signed
       /\ offer' # Burned
  BY <1>5, <1>17 DEF Burned
<1>19. RingSigned(offer', p)
  <2> DEFINE o == offer'
  <2>1. o.sig = Sign(o.message, ring, real, p, alpha, SubSeq(drawn, 1, Len(ring)))
    BY <1>15, <1>18
  <2>2. Len(decoys) < Len(drawn)
    BY <1>8, <1>9
  <2> HIDE DEF o, p
  <2>3. RingSigned(o, p)
    BY <1>8, <1>9, <2>1, <2>2, SignsRing DEF ring
  <2> QED BY <2>3 DEF o
<1>20. OfferFine'
  <2>1. output'.destination = p /\ output' # None
    BY <1>1
  <2>2. RingSigned(offer, output.destination)'
    BY <1>19, <2>1 DEF RingSigned
  <2> QED BY <1>18, <2>1, <2>2 DEF OfferFine
<1> QED BY <1>1, <1>20, OnlyOffer

LEMMA BurnStep ==
    ASSUME HashesToScalars, Inv, NEW order, NEW alpha \in Draws, SignBurn(order, alpha)
    PROVE  Inv'
<1> DEFINE p == output.destination
           m == BurnMessageHash(order, output.amount, 0, 0)
<1>1. PrivateKey = p /\ output # None
  BY OutputOwned DEF Inv, SignBurn
<1>2. /\ UNCHANGED <<entropy, phrase, wallet, output, chainState, plan>>
      /\ offer' = [kind |-> "burn", message |-> m, sig |-> SignBurnProof(m, p, PrivateKey, alpha)]
  BY DEF SignBurn
<1>3. OfferFine'
  <2>1. output'.destination = p /\ output' # None
    BY <1>1, <1>2
  <2>2. offer'.kind = "burn" /\ offer'.sig = SignBurnProof(offer'.message, p, p, alpha)
    BY <1>1, <1>2
  <2>3. BurnSigned(offer, output.destination)'
    BY <2>1, <2>2 DEF BurnSigned
  <2> QED BY <2>1, <2>2, <2>3 DEF OfferFine
<1> QED BY <1>2, <1>3, OnlyOffer

\* Until there is a wallet nothing else happens.
LEMMA NoWallet ==
    ASSUME Inv, wallet = None
    PROVE  output = None /\ offer = None /\ plan = None /\ accepted = 0
<1>1. None \notin StealthWallet
  BY DEF None, StealthWallet
<1> QED BY <1>1 DEF Inv, OutputFine, OfferFine, PlanFine, LedgerFine

LEMMA PhraseSteps ==
    ASSUME HashesToScalars, Inv,
           \/ \E bytes \in Entropy : Generate(bytes)
           \/ \E i \in 1 .. WordCount, word \in Word \cup {UnknownWord} : Mistype(i, word)
           \/ Load
           \/ \E spend, view \in Draws : GenerateAtNode(spend, view)
    PROVE  Inv'
<1>1. /\ wallet = None
      /\ UNCHANGED <<output, offer, chainState, plan>>
  BY DEF Generate, Mistype, Load, GenerateAtNode, Inv, WalletFine
<1>2. output = None /\ offer = None /\ plan = None /\ accepted = 0
  BY <1>1, NoWallet
<1>3. WalletFine'
  <2>1. CASE \E bytes \in Entropy : Generate(bytes)
    BY <2>1 DEF Generate, Inv, WalletFine
  <2>2. CASE \E i \in 1 .. WordCount, word \in Word \cup {UnknownWord} : Mistype(i, word)
    BY <2>2 DEF Mistype, Inv, WalletFine
  <2>3. CASE Load
    <3>1. \A bytes : WalletOf(bytes) \in StealthWallet
      BY DEF WalletOf, HashesToScalars, StealthWallet
    <3>2. phrase' = <<>> /\ wallet' \in {None} \cup StealthWallet
      <4> HIDE DEF None
      <4> QED BY <2>3, <3>1 DEF Load
    <3> QED BY <3>2 DEF WalletFine
  <2>4. CASE \E spend, view \in Draws : GenerateAtNode(spend, view)
    <3>1. PICK spend \in Draws, view \in Draws : GenerateAtNode(spend, view)
      BY <2>4
    <3>2. spend \in Scalar /\ view \in Scalar
      BY FlowConstants, Order DEF Scalar
    <3>3. wallet' \in StealthWallet /\ phrase' = <<>>
      BY <3>1, <3>2 DEF GenerateAtNode, StealthWallet
    <3> QED BY <3>3 DEF WalletFine
  <2> QED BY <2>1, <2>2, <2>3, <2>4
<1>4. LedgerFine'
  BY <1>1, <1>2 DEF Inv, LedgerFine, chainState
<1> QED BY <1>1, <1>2, <1>3, <1>4 DEF Inv, OutputFine, OfferFine, PlanFine

LEMMA ReceiveStep ==
    ASSUME Inv, NEW ephemeral \in Draws, NEW amount \in Amounts, Receive(ephemeral, amount)
    PROVE  Inv'
<1>1. /\ output = None /\ wallet # None
      /\ output' = CreateOneTimeOutput(PublicAddress(wallet), ephemeral, amount)
      /\ output'.destination # Identity
      /\ UNCHANGED <<entropy, phrase, wallet, offer, chainState, plan>>
  BY DEF Receive
<1>2. offer = None /\ plan = None /\ accepted = 0
  BY <1>1 DEF Inv, OfferFine, PlanFine, LedgerFine
<1>3. WalletFine'
  BY <1>1 DEF Inv, WalletFine
<1>4. OutputFine'
  <2>1. wallet' \in StealthWallet /\ wallet' = wallet
    BY <1>1 DEF Inv, WalletFine
  <2>2. output' = CreateOneTimeOutput(PublicAddress(wallet'), ephemeral, amount)
    BY <1>1, <2>1
  <2> QED BY <1>1, <2>1, <2>2 DEF OutputFine, CreateOneTimeOutput, PublicAddress
<1> QED BY <1>1, <1>2, <1>3, <1>4 DEF Inv, OfferFine, PlanFine, LedgerFine, chainState

\* The output, its plan and the wallet stay, and the offer is gone or burned: what is
\* left is the ledger.
LEMMA OnlyLedger ==
    ASSUME Inv, UNCHANGED <<entropy, phrase, wallet, output, plan>>,
           offer' = None \/ (offer' = Burned /\ output # None), LedgerFine'
    PROVE  Inv'
<1>1. WalletFine'
  BY DEF Inv, WalletFine
<1>2. OutputFine'
  BY DEF Inv, OutputFine, CreateOneTimeOutput, PublicAddress
<1>3. OfferFine'
  BY DEF OfferFine
<1>4. PlanFine'
  BY DEF Inv, PlanFine
<1> QED BY <1>1, <1>2, <1>3, <1>4 DEF Inv

\* The node takes the output once: after that the image of whatever the owner signs
\* is in the ledger.
LEMMA AcceptStep ==
    ASSUME HashesToScalars, Inv, Accept
    PROVE  Inv'
<1> DEFINE image == CanonicalKeyImage(offer.sig.image)
<1>1. /\ Signed /\ image \notin images
      /\ offer.kind = "push" => PushIsWhole(offer)
      /\ images' = images \cup {image} /\ stored' = stored \cup {image}
      /\ accepted' = accepted + 1
      /\ moved' = moved + IF offer.kind = "push" THEN offer.fee + SumAmounts(offer.outputs)
                          ELSE output.amount
      /\ offer' = IF offer.kind = "burn" THEN Burned ELSE None
      /\ UNCHANGED <<entropy, phrase, wallet, output, plan>>
  BY DEF Accept, Acceptable, IsSpent
<1>2. output # None /\ image = ImageOfOutput
  BY <1>1, SignedImage DEF Inv, ImageOfOutput
<1>3. accepted = 0 /\ images = {} /\ stored = {} /\ moved = 0
  BY <1>1, <1>2 DEF Inv, LedgerFine
<1>4. output.amount \in Nat
  BY <1>2, OutputOwned DEF Inv
<1>5. offer.kind = "push" => offer.fee + SumAmounts(offer.outputs) = output.amount
  BY <1>1 DEF PushIsWhole, Balances
<1>6. moved' = output.amount
  BY <1>1, <1>3, <1>4, <1>5
<1>7. ImageOfOutput' = ImageOfOutput /\ output' = output
  BY <1>1 DEF ImageOfOutput
<1> HIDE DEF image
<1>8. images' = {ImageOfOutput} /\ stored' = {ImageOfOutput} /\ accepted' = 1
  BY <1>1, <1>2, <1>3
<1>9. LedgerFine'
  BY <1>2, <1>6, <1>7, <1>8 DEF LedgerFine
<1> QED BY <1>1, <1>2, <1>9, OnlyLedger

LEMMA OtherSteps ==
    ASSUME Inv,
           \/ Refuse
           \/ Restart
           \/ \E n \in 1 .. MaxFragments :
                \E weights \in [1 .. n -> Weights], hops \in [1 .. n -> HopCounts] :
                  Disperse(weights, hops)
    PROVE  Inv'
<1>1. CASE Refuse
  <2>1. UNCHANGED <<entropy, phrase, wallet, output, chainState, plan>> /\ offer' = None
    BY <1>1 DEF Refuse
  <2> QED BY <2>1, OnlyOffer DEF OfferFine
<1>2. CASE Restart
  <2>1. images' = stored
    BY <1>2 DEF Restart, RestoredImage
  <2>2. /\ offer' = None
        /\ UNCHANGED <<entropy, phrase, wallet, output, stored, accepted, moved, plan>>
    BY <1>2 DEF Restart
  <2>3. LedgerFine'
    BY <2>1, <2>2 DEF Inv, LedgerFine, ImageOfOutput
  <2> QED BY <2>2, <2>3, OnlyLedger
<1>3. CASE \E n \in 1 .. MaxFragments :
             \E weights \in [1 .. n -> Weights], hops \in [1 .. n -> HopCounts] :
               Disperse(weights, hops)
  <2>1. PICK n \in 1 .. MaxFragments :
             \E weights \in [1 .. n -> Weights], hops \in [1 .. n -> HopCounts] :
               Disperse(weights, hops)
    BY <1>3
  <2>2. PICK weights \in [1 .. n -> Weights], hops \in [1 .. n -> HopCounts] :
               Disperse(weights, hops)
    BY <2>1
  <2>3. /\ offer = Burned /\ offer' = None
        /\ plan' = PlanWithdrawal(output.amount, weights, hops)
        /\ UNCHANGED <<entropy, phrase, wallet, output, chainState>>
    BY <2>2 DEF Disperse
  <2>4. output # None
    BY <2>3 DEF Inv, OfferFine, Burned, None
  <2>5. PlanFine'
    <3>1. output'.amount = output.amount /\ output' # None
      BY <2>3, <2>4
    <3>2. plan' = PlanWithdrawal(output'.amount, weights, hops)
      BY <2>3, <3>1
    <3> QED BY <3>1, <3>2 DEF PlanFine
  <2>6. WalletFine'
    BY <2>3 DEF Inv, WalletFine
  <2>7. OutputFine'
    BY <2>3 DEF Inv, OutputFine, CreateOneTimeOutput, PublicAddress
  <2>8. LedgerFine' /\ OfferFine'
    BY <2>3 DEF Inv, LedgerFine, OfferFine, ImageOfOutput, chainState
  <2> QED BY <2>5, <2>6, <2>7, <2>8 DEF Inv
<1> QED BY <1>1, <1>2, <1>3

LEMMA StepInv == ASSUME HashesToScalars, Inv, [Next]_vars PROVE Inv'
<1>1. CASE \/ \E bytes \in Entropy : Generate(bytes)
           \/ \E i \in 1 .. WordCount, word \in Word \cup {UnknownWord} : Mistype(i, word)
           \/ Load
           \/ \E spend, view \in Draws : GenerateAtNode(spend, view)
  BY <1>1, PhraseSteps
<1>2. CASE \E ephemeral \in Draws, amount \in Amounts : Receive(ephemeral, amount)
  BY <1>2, ReceiveStep
<1>3. CASE \E decoys \in UNION {[1 .. n -> RingPoints] : n \in 0 .. 2} :
             \E real \in 1 .. Len(decoys) + 1, alpha \in Draws, fee \in {0, 1} :
               \E a, b \in Draws : SignTransfer(decoys, real, alpha, <<a, b, a>>, fee)
  <2>1. PICK n \in 0 .. 2, decoys \in UNION {[1 .. k -> RingPoints] : k \in 0 .. 2} :
          /\ decoys \in [1 .. n -> RingPoints]
          /\ \E real \in 1 .. Len(decoys) + 1, alpha \in Draws, fee \in {0, 1} :
               \E a, b \in Draws : SignTransfer(decoys, real, alpha, <<a, b, a>>, fee)
    BY <1>3
  <2>2. PICK real \in 1 .. Len(decoys) + 1, alpha \in Draws, fee \in {0, 1} :
               \E a, b \in Draws : SignTransfer(decoys, real, alpha, <<a, b, a>>, fee)
    BY <2>1
  <2>3. PICK a \in Draws, b \in Draws : SignTransfer(decoys, real, alpha, <<a, b, a>>, fee)
    BY <2>2
  <2> QED BY <2>1, <2>3, TransferStep
<1>4. CASE /\ output # None /\ offer = None
           /\ \E viewPriv \in Pasted(wallet.view), spendPriv \in Pasted(wallet.spend) :
              \E decoys \in Decoys(1, RingPoints, output.destination) :
              \E real \in 1 .. Len(decoys) + 1, typed \in UNION {[1 .. n -> Typed] : n \in 1 .. 2} :
              \E typedFee \in {0, 5}, alpha \in Draws :
                SignInBrowser(viewPriv, spendPriv, decoys, real, typed, typedFee, alpha,
                              <<alpha, alpha>>)
  <2>1. PICK viewPriv \in Pasted(wallet.view), spendPriv \in Pasted(wallet.spend) :
              \E decoys \in Decoys(1, RingPoints, output.destination) :
              \E real \in 1 .. Len(decoys) + 1, typed \in UNION {[1 .. n -> Typed] : n \in 1 .. 2} :
              \E typedFee \in {0, 5}, alpha \in Draws :
                SignInBrowser(viewPriv, spendPriv, decoys, real, typed, typedFee, alpha,
                              <<alpha, alpha>>)
    BY <1>4
  <2>2. PICK decoys \in Decoys(1, RingPoints, output.destination) :
              \E real \in 1 .. Len(decoys) + 1, typed \in UNION {[1 .. n -> Typed] : n \in 1 .. 2} :
              \E typedFee \in {0, 5}, alpha \in Draws :
                SignInBrowser(viewPriv, spendPriv, decoys, real, typed, typedFee, alpha,
                              <<alpha, alpha>>)
    BY <2>1
  <2>3. PICK real \in 1 .. Len(decoys) + 1, typed \in UNION {[1 .. n -> Typed] : n \in 1 .. 2} :
              \E typedFee \in {0, 5}, alpha \in Draws :
                SignInBrowser(viewPriv, spendPriv, decoys, real, typed, typedFee, alpha,
                              <<alpha, alpha>>)
    BY <2>2
  <2>4. PICK typedFee \in {0, 5}, alpha \in Draws :
                SignInBrowser(viewPriv, spendPriv, decoys, real, typed, typedFee, alpha,
                              <<alpha, alpha>>)
    BY <2>3
  <2> QED BY <2>4, BrowserStep
<1>5. CASE \E order \in {1, 2}, alpha \in Draws : SignBurn(order, alpha)
  BY <1>5, BurnStep
<1>6. CASE Accept
  BY <1>6, AcceptStep
<1>7. CASE \/ Refuse
           \/ Restart
           \/ \E n \in 1 .. MaxFragments :
                \E weights \in [1 .. n -> Weights], hops \in [1 .. n -> HopCounts] :
                  Disperse(weights, hops)
  BY <1>7, OtherSteps
<1>8. CASE UNCHANGED vars
  <2>1. LedgerFine' /\ UNCHANGED <<entropy, phrase, wallet, output, chainState, plan>>
    BY <1>8 DEF vars, chainState, Inv, LedgerFine, ImageOfOutput
  <2>2. OfferFine'
    BY <1>8 DEF vars, Inv, OfferFine, RingSigned, BurnSigned
  <2> QED BY <2>1, <2>2, OnlyOffer
<1> QED BY <1>1, <1>2, <1>3, <1>4, <1>5, <1>6, <1>7, <1>8 DEF Next

\* The invariant of every behaviour, for any hash that gives scalars.
LEMMA Invariant == HashesToScalars => (Spec => []Inv)
<1> SUFFICES ASSUME HashesToScalars PROVE Spec => []Inv
  OBVIOUS
<1>1. Inv /\ [Next]_vars => Inv'
  BY StepInv
<1> QED BY <1>1, InitInv, PTL DEF Spec

-----------------------------------------------------------------------------
(***************************************************************************)
(* What the runs check, for every group, hash and amount                    *)
(***************************************************************************)

\* scan_output finds every output made for the wallet's address, and
\* derive_one_time_private_key gives the key of its destination.
THEOREM OwnersCanSpend == HashesToScalars => (Spec => []OwnerCanSpend)
<1> SUFFICES ASSUME HashesToScalars PROVE Spec => []OwnerCanSpend
  OBVIOUS
<1>1. Inv => OwnerCanSpend
  <2> SUFFICES ASSUME Inv, output # None
               PROVE  ScanOutput(wallet, output) /\ Times(PrivateKey, Base) = output.destination
    BY DEF OwnerCanSpend
  <2>1. /\ ScanOutput(wallet, output) /\ PrivateKey = output.destination
        /\ output.destination \in Scalar
    BY OutputOwned DEF Inv
  <2> QED BY <2>1, TimesBase
<1> QED BY <1>1, Invariant, PTL

\* The node lets an output be spent at most once, and takes it whole: by a transfer, a
\* pushed transaction or a burn, whatever the ring and the message, and across
\* restarts from the images in LMDB.
THEOREM OutputsAreSpentOnce == HashesToScalars => (Spec => []SpentOnceAndWhole)
<1> SUFFICES ASSUME HashesToScalars PROVE Spec => []SpentOnceAndWhole
  OBVIOUS
<1>1. Inv => SpentOnceAndWhole
  BY DEF Inv, LedgerFine, SpentOnceAndWhole
<1> QED BY <1>1, Invariant, PTL

\* What the owner signs in a ring verifies, for the node and for a page, unless a scalar of it is
\* zero.
LEMMA RingVerifies ==
    ASSUME HashesToScalars, NEW p \in Scalar, p # 0, NEW o, RingSigned(o, p)
    PROVE  \/ Degenerate(o.message, o.sig)
           \/ Verify(o.message, o.sig) /\ WasmVerify(ToHex(o.message), SignatureText(o.sig))
<1>1. PICK ring \in Seq(RingPoints \cup {p}), real \in Nat,
           alpha \in Draws, drawn \in Seq(Draws) :
             /\ IsInjective(ring) /\ real \in 1 .. Len(ring) /\ ring[real] = p
             /\ Len(drawn) = Len(ring)
             /\ o.sig = Sign(o.message, ring, real, p, alpha, drawn)
  BY DEF RingSigned
<1> DEFINE m == o.message
           sig == o.sig
<1> HIDE DEF m, sig
<1>2. Len(ring) \in Nat \ {0} /\ ring # <<>> /\ DOMAIN ring = 1 .. Len(ring)
  BY <1>1
<1>3. Draws \subseteq Scalar
  BY FlowConstants, Order DEF Scalar
<1>4. drawn \in Seq(Scalar) /\ alpha \in Scalar /\ ring[real] \in Scalar
  BY <1>1, <1>3
<1>5. sig = Sign(m, ring, real, p, alpha, drawn)
  BY <1>1 DEF m, sig
<1>6. /\ sig.image = ComputeKeyImage(p, p) /\ sig.ring = ring
      /\ sig.responses \in Seq(Scalar) /\ Len(sig.responses) = Len(ring)
      /\ Challenges(m, sig)[Len(ring) + 1] = sig.c0
  <2>1. real \in 1 .. Len(ring) /\ Len(drawn) = Len(ring) /\ ring[real] = p
    BY <1>1
  <2>2. ClosedRing(m, ring, p, sig)
    BY <1>2, <1>4, <1>5, <2>1, RingCloses
  <2> QED BY <2>2 DEF ClosedRing
<1>7. sig.image # Identity
  <2>1. HashToPoint(p) \in Scalar /\ HashToPoint(p) # 0
    BY HashedPoint
  <2> QED BY <1>6, <2>1, NoZero DEF ComputeKeyImage, Identity
<1>8. Identity \notin ToSet(ring)
  <2>1. \A i \in 1 .. Len(ring) : ring[i] \in RingPoints \cup {p}
    BY <1>1
  <2>2. 0 \notin RingPoints
    BY FlowConstants, Order
  <2> QED BY <1>2, <2>1, <2>2 DEF ToSet, Identity
<1>9. ~ Degenerate(m, sig) => Verify(m, sig)
  BY <1>1, <1>2, <1>6, <1>7, <1>8 DEF Verify
<1>10. ParsedSignature(SignatureText(sig)) = {sig}
  BY <1>1, <1>2, <1>4, <1>5, SignReadsBack
<1>11. Verify(m, sig) => WasmVerify(ToHex(m), SignatureText(sig))
  BY <1>10, TextRead DEF WasmVerify
<1> QED BY <1>9, <1>11 DEF m, sig

\* And what the owner signs alone.
LEMMA BurnVerifies ==
    ASSUME HashesToScalars, NEW p \in Scalar, p # 0, NEW o, BurnSigned(o, p)
    PROVE  VerifyBurnProof(o.message, p, o.sig) \/ o.sig.s = 0 \/ o.sig.c0 = 0
<1>1. PICK alpha \in Draws : o.sig = SignBurnProof(o.message, p, p, alpha)
  BY DEF BurnSigned
<1> DEFINE m == o.message
           sig == o.sig
           c == Challenge(m, Times(alpha, Base), Times(alpha, HashToPoint(p)))
<1>2. sig = [image |-> ComputeKeyImage(p, p), c0 |-> c, s |-> Minus(alpha, Times(c, p))]
  BY <1>1 DEF SignBurnProof
<1> HIDE DEF m, sig
<1>3. c \in Scalar
  BY DEF Challenge, HashesToScalars
<1>4. alpha \in Scalar
  BY FlowConstants, Order DEF Scalar
<1>5. NextChallenge(m, p, ComputeKeyImage(p, p), Minus(alpha, Times(c, p)), c) = c
  <2> DEFINE d == c
  <2>1. d \in Scalar
    BY <1>3
  <2> HIDE DEF d
  <2>2. NextChallenge(m, p, ComputeKeyImage(p, p), Minus(alpha, Times(d, p)), d)
          = Challenge(m, Times(alpha, Base), Times(alpha, HashToPoint(p)))
    BY <1>4, <2>1, ResponseCloses
  <2> QED BY <2>2 DEF d
<1>6. ComputeKeyImage(p, p) # Identity
  <2>1. HashToPoint(p) \in Scalar /\ HashToPoint(p) # 0
    BY HashedPoint
  <2> QED BY <2>1, NoZero DEF ComputeKeyImage, Identity
<1>7. sig.image = ComputeKeyImage(p, p) /\ sig.c0 = c /\ sig.s = Minus(alpha, Times(c, p))
  BY <1>2
<1> HIDE DEF c
<1>8. sig.s # 0 /\ sig.c0 # 0 => VerifyBurnProof(m, p, sig)
  BY <1>5, <1>6, <1>7 DEF VerifyBurnProof, Identity
<1> QED BY <1>8 DEF m, sig

\* Whatever the owner signs verifies: wherever the real key is in the ring, whatever
\* the decoys, the message and the draws, at the node and in a page.
THEOREM SignedVerifies == HashesToScalars => (Spec => []SignaturesVerify)
<1> SUFFICES ASSUME HashesToScalars PROVE Spec => []SignaturesVerify
  OBVIOUS
<1>1. Inv => SignaturesVerify
  <2> SUFFICES ASSUME Inv, Signed
               PROVE  \/ /\ Verified(offer)
                         /\ offer.kind = "push" => WasmVerify(ToHex(offer.message), SignatureText(offer.sig))
                      \/ offer.kind # "burn" /\ Degenerate(offer.message, offer.sig)
                      \/ offer.kind = "burn" /\ (offer.sig.s = 0 \/ offer.sig.c0 = 0)
    BY DEF SignaturesVerify
  <2> DEFINE p == output.destination
  <2>1. output # None /\ p \in Scalar /\ p # 0
    BY OutputOwned DEF Inv, OfferFine, Signed
  <2>2. CASE offer.kind \in {"transfer", "push"} /\ RingSigned(offer, p)
    <3>1. \/ Degenerate(offer.message, offer.sig)
          \/ /\ Verify(offer.message, offer.sig)
             /\ WasmVerify(ToHex(offer.message), SignatureText(offer.sig))
      BY <2>1, <2>2, RingVerifies
    <3> QED BY <2>2, <3>1 DEF Verified
  <2>3. CASE offer.kind = "burn" /\ BurnSigned(offer, p)
    <3>1. VerifyBurnProof(offer.message, p, offer.sig) \/ offer.sig.s = 0 \/ offer.sig.c0 = 0
      BY <2>1, <2>3, BurnVerifies
    <3> QED BY <2>3, <3>1 DEF Verified
  <2> QED BY <2>2, <2>3 DEF Inv, OfferFine, Signed
<1> QED BY <1>1, Invariant, PTL

-----------------------------------------------------------------------------
(***************************************************************************)
(* Payouts                                                                  *)
(***************************************************************************)

\* The greatest number of a part of 1 .. n, which the fold takes off first.
LEMMA Greatest ==
    ASSUME NEW n \in Nat
    PROVE  /\ \A s \in SUBSET (1 .. n) : s # {} => Max(s) \in s
           /\ \A k \in 1 .. n : Max(1 .. k) = k
<1>1. ASSUME NEW s \in SUBSET (1 .. n), s # {} PROVE Max(s) \in s
  <2> DEFINE T == {n - x : x \in s}
  <2>0. \A x \in s : x \in Int /\ n - x \in Nat
    BY <1>1
  <2>1. T \in SUBSET Nat /\ T # {}
    BY <1>1, <2>0
  <2>2. PICK t \in T : \A u \in T : t <= u
    BY <2>1, Least
  <2>3. PICK x \in s : t = n - x
    BY <2>2
  <2>4. \A y \in s : n - y \in T
    OBVIOUS
  <2>5. \A y \in s : x >= y
    <3> HIDE DEF T
    <3> TAKE y \in s
    <3>1. n - x <= n - y
      BY <2>2, <2>3, <2>4
    <3>2. x \in Int /\ y \in Int
      BY <2>0
    <3> QED BY <3>1, <3>2
  <2>6. \E z \in s : \A y \in s : z >= y
    BY <2>5
  <2> QED BY <2>6 DEF Max
<1>2. ASSUME NEW k \in 1 .. n PROVE Max(1 .. k) = k
  <2>1. k \in 1 .. k /\ \A y \in 1 .. k : k >= y
    OBVIOUS
  <2>2. \A x \in 1 .. k : (\A y \in 1 .. k : x >= y) => x = k
    OBVIOUS
  <2> QED BY <2>1, <2>2 DEF Max
<1> QED BY <1>1, <1>2

\* What the loop that adds up a list goes through.
AddsUp(sum, amounts) ==
    /\ sum[0] = 0
    /\ \A k \in 1 .. Len(amounts) : sum[k] = sum[k - 1] + amounts[k]
    /\ TotalOf(amounts) = sum[Len(amounts)]

LEMMA TotalSteps ==
    ASSUME NEW amounts \in Seq(Int)
    PROVE  \E sum : AddsUp(sum, amounts)
<1> DEFINE n == Len(amounts)
           D == 1 .. n
           Is(it) == it = [s \in SUBSET D |-> IF s = {} THEN 0 ELSE it[s \ {Max(s)}] + amounts[Max(s)]]
           it == CHOOSE it : Is(it)
           sum == [k \in 0 .. n |-> it[1 .. k]]
<1>1. n \in Nat /\ DOMAIN amounts = D /\ \A i \in D : amounts[i] \in Int
  OBVIOUS
<1>2. TotalOf(amounts) = it[D]
  BY <1>1 DEF TotalOf, FoldLeft, MapThenFoldSet
<1> HIDE DEF n
<1>3. /\ SumBy(amounts, {}) = 0
      /\ \A s \in SUBSET D :
           /\ SumBy(amounts, s) \in Int
           /\ \A i \in s : SumBy(amounts, s) = amounts[i] + SumBy(amounts, s \ {i})
  <2>1. IsFiniteSet(D)
    BY <1>1, FS_Interval
  <2>2. Weighed(amounts, D)
    BY <1>1 DEF Weighed
  <2> HIDE DEF D
  <2> QED BY <2>1, <2>2, SumByTakes
<1>4. \E g : Is(g)
  <2> DEFINE g == [s \in SUBSET D |-> SumBy(amounts, s)]
  <2>1. \A s \in SUBSET D : g[s] = IF s = {} THEN 0 ELSE g[s \ {Max(s)}] + amounts[Max(s)]
    <3> TAKE s \in SUBSET D
    <3>1. CASE s = {}
      BY <1>3, <3>1
    <3>2. CASE s # {}
      <4>1. Max(s) \in s
        BY <1>1, <3>2, Greatest
      <4>2. s \ {Max(s)} \in SUBSET D /\ Max(s) \in D
        BY <4>1
      <4> DEFINE t == s \ {Max(s)}
                 x == Max(s)
      <4> HIDE DEF t, x
      <4>3. SumBy(amounts, s) = amounts[x] + SumBy(amounts, t)
        BY <1>3, <4>1 DEF t, x
      <4>4. amounts[x] \in Int /\ SumBy(amounts, t) \in Int /\ t \in SUBSET D
        BY <1>1, <1>3, <4>2 DEF t, x
      <4>5. g[s] = g[t] + amounts[x]
        BY <4>3, <4>4
      <4> QED BY <3>2, <4>5 DEF t, x
    <3> QED BY <3>1, <3>2
  <2>2. g = [s \in SUBSET D |-> g[s]]
    OBVIOUS
  <2> HIDE DEF g
  <2>3. Is(g)
    BY <2>1, <2>2
  <2> QED BY <2>3
<1>5. Is(it)
  BY <1>4
<1> HIDE DEF it
<1>6. \A s \in SUBSET D : it[s] = IF s = {} THEN 0 ELSE it[s \ {Max(s)}] + amounts[Max(s)]
  BY <1>5
<1>7. sum[0] = 0
  <2>1. 1 .. 0 = {} /\ {} \in SUBSET D /\ 0 \in 0 .. n
    BY <1>1
  <2>2. it[{}] = 0
    BY <1>6, <2>1
  <2>3. sum[0] = it[1 .. 0]
    BY <2>1
  <2> QED BY <2>1, <2>2, <2>3
<1>8. \A k \in 1 .. n : sum[k] = sum[k - 1] + amounts[k]
  <2> TAKE k \in 1 .. n
  <2>1. 1 .. k \in SUBSET D /\ 1 .. k # {} /\ (1 .. k) \ {k} = 1 .. k - 1
    BY <1>1
  <2>2. Max(1 .. k) = k
    BY <1>1, Greatest
  <2>3. it[1 .. k] = it[1 .. k - 1] + amounts[k]
    BY <1>6, <2>1, <2>2
  <2>4. k \in 0 .. n /\ k - 1 \in 0 .. n
    BY <1>1
  <2> QED BY <2>3, <2>4
<1>9. TotalOf(amounts) = sum[n]
  BY <1>1, <1>2
<1> QED BY <1>7, <1>8, <1>9 DEF AddsUp, n

\* A share is a part of what it is taken from.
LEMMA ShareIsPart ==
    ASSUME NEW reserve \in Nat, NEW weight \in Nat, NEW total \in Nat \ {0}, weight <= total
    PROVE  (reserve * weight) \div total \in 0 .. reserve
<1> DEFINE a == reserve * weight
           q == a \div total
           r == a % total
<1>1. a \in Nat
  OBVIOUS
<1>2. a <= reserve * total
  OBVIOUS
<1>3. q \in Int /\ r \in 0 .. total - 1 /\ a = total * q + r
  <2>1. \A b \in Int, n \in Nat \ {0} : b \div n \in Int /\ b % n \in 0 .. n - 1 /\ b = n * (b \div n) + (b % n)
    OBVIOUS
  <2> HIDE DEF a
  <2> QED BY <1>1, <2>1
<1> HIDE DEF a, q, r
<1>4. q >= 0
  <2> SUFFICES ASSUME q <= -1 PROVE FALSE
    BY <1>3
  <2>1. total * q <= total * (-1)
    BY <1>3
  <2>2. total * q \in Int /\ total * (-1) = - total
    BY <1>3
  <2> QED BY <1>1, <1>3, <2>1, <2>2
<1>5. q <= reserve
  <2> SUFFICES ASSUME q >= reserve + 1 PROVE FALSE
    BY <1>3
  <2>1. total * q >= total * (reserve + 1)
    BY <1>3
  <2>2. total * (reserve + 1) = reserve * total + total
    OBVIOUS
  <2>3. total * q \in Int /\ reserve * total \in Int
    BY <1>3
  <2> QED BY <1>1, <1>2, <1>3, <2>1, <2>2, <2>3
<1> QED BY <1>3, <1>4, <1>5 DEF q, a

LEMMA RemainingSteps ==
    ASSUME NEW reserve, NEW weights, Len(weights) \in Nat
    PROVE  /\ Remaining(reserve, weights)[0] = reserve
           /\ \A i \in 1 .. Len(weights) :
                Remaining(reserve, weights)[i]
                  = Remaining(reserve, weights)[i - 1]
                    - (Remaining(reserve, weights)[i - 1] * weights[i]) \div TotalOf(weights)
<1> DEFINE n == Len(weights)
           Share(i, before) == before - (before * weights[i]) \div TotalOf(weights)
           Is(c, k) == c = [i \in 0 .. k |-> IF i = 0 THEN reserve ELSE Share(i, c[i - 1])]
           S == {k \in Nat : \E c : Is(c, k)}
<1>0. n \in Nat
  OBVIOUS
<1> DEFINE c == CHOOSE c : Is(c, n)
<1>s. Remaining(reserve, weights) = c
  BY DEF Remaining
<1> HIDE DEF n, Share
<1>1. 0 \in S
  <2> DEFINE g == [i \in 0 .. 0 |-> reserve]
  <2>1. g = [i \in 0 .. 0 |-> IF i = 0 THEN reserve ELSE Share(i, g[i - 1])]
    OBVIOUS
  <2> HIDE DEF g
  <2>2. \E f : Is(f, 0)
    BY <2>1
  <2> QED BY <2>2
<1>2. ASSUME NEW k \in Nat, k \in S PROVE k + 1 \in S
  <2>1. PICK f : Is(f, k)
    BY <1>2
  <2> DEFINE g == [i \in 0 .. k + 1 |-> IF i = k + 1 THEN Share(i, f[k]) ELSE f[i]]
  <2>2. \A i \in 0 .. k : g[i] = f[i]
    OBVIOUS
  <2>3. g[k + 1] = Share(k + 1, g[k])
    OBVIOUS
  <2>4. g = [i \in 0 .. k + 1 |-> g[i]]
    OBVIOUS
  <2> HIDE DEF g
  <2>5. \A i \in 0 .. k + 1 : g[i] = IF i = 0 THEN reserve ELSE Share(i, g[i - 1])
    <3>1. \A i \in 0 .. k : f[i] = IF i = 0 THEN reserve ELSE Share(i, f[i - 1])
      BY <2>1
    <3>2. \A i \in 0 .. k : i # 0 => i - 1 \in 0 .. k
      OBVIOUS
    <3>3. \A i \in 0 .. k + 1 : i \in 0 .. k \/ i = k + 1
      OBVIOUS
    <3>4. (k + 1) - 1 = k /\ k + 1 # 0
      OBVIOUS
    <3> QED BY <3>1, <3>2, <3>3, <3>4, <2>2, <2>3
  <2>6. Is(g, k + 1)
    BY <2>4, <2>5
  <2>7. k + 1 \in Nat
    OBVIOUS
  <2> HIDE DEF Is
  <2> QED BY <2>6, <2>7
<1> HIDE DEF S
<1>4. n \in S
  BY <1>0, <1>1, <1>2, SetInduction
<1> HIDE DEF Is
<1>5. \E f : Is(f, n)
  BY <1>4 DEF S
<1>6. Is(c, n)
  BY <1>5
<1> HIDE DEF c
<1>7. \A i \in 0 .. n : c[i] = IF i = 0 THEN reserve ELSE Share(i, c[i - 1])
  BY <1>6 DEF Is
<1>8. c[0] = reserve
  BY <1>0, <1>7
<1>9. \A i \in 1 .. n : c[i] = Share(i, c[i - 1])
  <2>1. \A i \in 1 .. n : i \in 0 .. n /\ i # 0
    BY <1>0
  <2> QED BY <1>7, <2>1
<1>10. \A i \in 1 .. n : c[i] = c[i - 1] - (c[i - 1] * weights[i]) \div TotalOf(weights)
  BY <1>9 DEF Share
<1> QED BY <1>s, <1>8, <1>10 DEF n

\* No weight exceeds the sum of them.
LEMMA WeightInTotal ==
    ASSUME NEW weights \in Seq(Nat \ {0}), weights # <<>>
    PROVE  /\ TotalOf(weights) \in Nat \ {0}
           /\ \A i \in 1 .. Len(weights) : weights[i] <= TotalOf(weights)
<1> DEFINE n == Len(weights)
<1>1. n \in Nat \ {0} /\ \A i \in 1 .. n : weights[i] \in Nat \ {0}
  OBVIOUS
<1>2. PICK sum : AddsUp(sum, weights)
  <2>1. weights \in Seq(Int)
    OBVIOUS
  <2> QED BY <2>1, TotalSteps
<1>3. sum[0] = 0 /\ TotalOf(weights) = sum[n] /\ \A k \in 1 .. n : sum[k] = sum[k - 1] + weights[k]
  BY <1>2 DEF AddsUp
<1> HIDE DEF n
<1> DEFINE S == {k \in Nat : k <= n => sum[k] \in Nat /\ \A i \in 1 .. k : weights[i] <= sum[k]}
<1>4. 0 \in S
  BY <1>3
<1>5. ASSUME NEW k \in Nat, k \in S PROVE k + 1 \in S
  <2> SUFFICES ASSUME k + 1 <= n
               PROVE  sum[k + 1] \in Nat /\ \A i \in 1 .. k + 1 : weights[i] <= sum[k + 1]
    OBVIOUS
  <2>1. sum[k] \in Nat /\ \A i \in 1 .. k : weights[i] <= sum[k]
    BY <1>1, <1>5
  <2>2. k + 1 \in 1 .. n /\ (k + 1) - 1 = k
    BY <1>1
  <2>3. sum[k + 1] = sum[k] + weights[k + 1] /\ weights[k + 1] \in Nat
    BY <1>1, <1>3, <2>2
  <2>4. sum[k + 1] \in Nat /\ sum[k] <= sum[k + 1] /\ weights[k + 1] <= sum[k + 1]
    BY <2>1, <2>3
  <2>5. \A i \in 1 .. k + 1 : weights[i] <= sum[k + 1]
    <3> TAKE i \in 1 .. k + 1
    <3>1. CASE i = k + 1
      BY <2>4, <3>1
    <3>2. CASE i # k + 1
      <4>1. i \in 1 .. k /\ i \in 1 .. n
        <5>1. i \in Int /\ 1 <= i /\ i <= k /\ k + 1 <= n
          BY <3>2
        <5> QED BY <1>1, <5>1
      <4>2. weights[i] <= sum[k] /\ weights[i] \in Nat
        BY <1>1, <2>1, <4>1
      <4> QED BY <2>1, <2>4, <4>2
    <3> QED BY <3>1, <3>2
  <2> QED BY <2>4, <2>5
<1> HIDE DEF S
<1>6. n \in S
  BY <1>1, <1>4, <1>5, SetInduction
<1>7. sum[n] \in Nat /\ \A i \in 1 .. n : weights[i] <= sum[n]
  BY <1>1, <1>6 DEF S
<1>8. sum[n] # 0
  <2>1. n \in 1 .. n
    BY <1>1
  <2> QED BY <1>1, <1>7, <2>1
<1> QED BY <1>3, <1>7, <1>8 DEF n

\* partition_amount: the fragments add up to the amount and, if there is one, none is empty.
LEMMA PartsAddUp ==
    ASSUME NEW total \in Nat, NEW weights \in Seq(Nat \ {0}), weights # <<>>
    PROVE  LET parts == PartitionAmount(total, weights)
           IN  /\ parts \in Seq(Nat) /\ Len(parts) \in 1 .. Len(weights)
               /\ TotalOf(parts) = total
               /\ total > 0 => \A i \in 1 .. Len(parts) : parts[i] > 0
<1> DEFINE n == Len(weights)
           parts == PartitionAmount(total, weights)
           left == Remaining(total - n, weights)
<1>0. n \in Nat \ {0}
  OBVIOUS
<1>1. CASE n <= 1 \/ total < n
  <2>1. parts = <<total>>
    BY <1>1 DEF PartitionAmount
  <2> HIDE DEF parts
  <2>2. parts \in Seq(Nat) /\ Len(parts) = 1 /\ parts[1] = total
    BY <2>1
  <2>3. PICK sum : AddsUp(sum, parts)
    <3>1. parts \in Seq(Int)
      BY <2>2
    <3> QED BY <3>1, TotalSteps
  <2>4. sum[0] = 0 /\ sum[1] = sum[1 - 1] + parts[1] /\ TotalOf(parts) = sum[1]
    BY <2>2, <2>3 DEF AddsUp
  <2>5. TotalOf(parts) = total
    BY <2>2, <2>4
  <2> QED BY <1>0, <2>2, <2>5 DEF parts
<1>2. CASE ~ (n <= 1 \/ total < n)
  <2>1. parts = [i \in 1 .. n |-> 1 + left[i - 1] - IF i = n THEN 0 ELSE left[i]]
    BY <1>2 DEF PartitionAmount
  <2>2. left[0] = total - n /\ total - n \in Nat
    BY <1>0, <1>2, RemainingSteps
  <2>3. \A i \in 1 .. n : left[i] = left[i - 1] - (left[i - 1] * weights[i]) \div TotalOf(weights)
    BY <1>0, RemainingSteps
  <2> HIDE DEF left, parts
  <2>4. /\ TotalOf(weights) \in Nat \ {0}
        /\ \A i \in 1 .. n : weights[i] \in Nat /\ weights[i] <= TotalOf(weights)
    BY WeightInTotal
  <2> HIDE DEF n
  <2> DEFINE S == {k \in Nat : k <= n => left[k] \in Nat}
  <2>5. ASSUME NEW i \in 1 .. n, left[i - 1] \in Nat PROVE left[i] \in 0 .. left[i - 1]
    <3> DEFINE a == left[i - 1]
               w == weights[i]
               T == TotalOf(weights)
               q == (a * w) \div T
    <3>1. a \in Nat /\ w \in Nat /\ T \in Nat \ {0} /\ w <= T
      BY <2>4, <2>5
    <3>2. left[i] = a - q
      BY <2>3
    <3> HIDE DEF a, w, T
    <3>3. q \in 0 .. a
      BY <3>1, ShareIsPart
    <3> HIDE DEF q
    <3>4. left[i] \in 0 .. a
      BY <3>1, <3>2, <3>3
    <3> QED BY <3>4 DEF a
  <2>6. 0 \in S
    BY <2>2
  <2>7. ASSUME NEW k \in Nat, k \in S PROVE k + 1 \in S
    <3> SUFFICES ASSUME k + 1 <= n PROVE left[k + 1] \in Nat
      OBVIOUS
    <3>1. left[k] \in Nat /\ k + 1 \in 1 .. n /\ (k + 1) - 1 = k
      BY <1>0, <2>7
    <3>2. left[k + 1] \in 0 .. left[k]
      BY <2>5, <3>1
    <3> QED BY <3>1, <3>2
  <2> HIDE DEF S
  <2>8. \A k \in 0 .. n : left[k] \in Nat
    <3>1. Nat \subseteq S
      BY <2>6, <2>7, SetInduction
    <3> QED BY <3>1 DEF S
  <2>9. \A i \in 1 .. n : left[i - 1] \in Nat /\ left[i] \in 0 .. left[i - 1]
    <3> TAKE i \in 1 .. n
    <3>1. i - 1 \in 0 .. n
      BY <1>0
    <3> QED BY <2>5, <2>8, <3>1
  <2>10. \A i \in 1 .. n : parts[i] \in Nat /\ parts[i] > 0
    <3> TAKE i \in 1 .. n
    <3>1. parts[i] = 1 + left[i - 1] - IF i = n THEN 0 ELSE left[i]
      BY <2>1
    <3> QED BY <2>9, <3>1
  <2>11. parts \in Seq(Nat) /\ Len(parts) = n
    <3>1. parts = [i \in 1 .. n |-> parts[i]]
      BY <2>1
    <3> QED BY <1>0, <2>10, <3>1
  <2>12. PICK sum : AddsUp(sum, parts)
    <3>1. parts \in Seq(Int)
      BY <2>11
    <3> QED BY <3>1, TotalSteps
  <2>13. sum[0] = 0 /\ TotalOf(parts) = sum[n] /\ \A k \in 1 .. n : sum[k] = sum[k - 1] + parts[k]
    BY <2>11, <2>12 DEF AddsUp
  <2> DEFINE R == {k \in Nat : k < n => sum[k] = k + left[0] - left[k]}
  <2>14. 0 \in R
    BY <2>2, <2>13
  <2>15. ASSUME NEW k \in Nat, k \in R PROVE k + 1 \in R
    <3> SUFFICES ASSUME k + 1 < n PROVE sum[k + 1] = (k + 1) + left[0] - left[k + 1]
      OBVIOUS
    <3>1. sum[k] = k + left[0] - left[k]
      BY <1>0, <2>15
    <3>2. k + 1 \in 1 .. n /\ (k + 1) - 1 = k /\ k + 1 # n /\ k \in 0 .. n /\ 0 \in 0 .. n /\ k + 1 \in 0 .. n
      BY <1>0
    <3>3. sum[k + 1] = sum[k] + parts[k + 1] /\ parts[k + 1] = 1 + left[k] - left[k + 1]
      BY <2>1, <2>13, <3>2
    <3>4. left[k] \in Nat /\ left[k + 1] \in Nat /\ left[0] \in Nat
      BY <2>8, <3>2
    <3> DEFINE a == left[k]
               b == left[k + 1]
               z == left[0]
    <3>5. sum[k + 1] = (k + z - a) + (1 + a - b)
      BY <3>1, <3>3
    <3>6. a \in Nat /\ b \in Nat /\ z \in Nat
      BY <3>4
    <3> HIDE DEF a, b, z
    <3>7. sum[k + 1] = (k + 1) + z - b
      BY <3>5, <3>6
    <3> QED BY <3>7 DEF b, z
  <2> HIDE DEF R
  <2>16. sum[n - 1] = (n - 1) + left[0] - left[n - 1]
    <3>1. n - 1 \in Nat /\ n - 1 < n
      BY <1>0
    <3>2. n - 1 \in R
      BY <2>14, <2>15, <3>1, SetInduction
    <3> QED BY <3>1, <3>2 DEF R
  <2>17. sum[n] = total
    <3>1. n \in 1 .. n /\ n - 1 \in 0 .. n
      BY <1>0
    <3>2. sum[n] = sum[n - 1] + parts[n] /\ parts[n] = 1 + left[n - 1] - 0
      BY <2>1, <2>13, <3>1
    <3>3. left[n - 1] \in Nat
      BY <2>8, <3>1
    <3> QED BY <1>0, <2>2, <2>16, <3>2, <3>3
  <2>18. Len(parts) \in 1 .. n
    BY <1>0, <2>11
  <2> QED BY <2>10, <2>11, <2>13, <2>17, <2>18 DEF parts, n
<1> QED BY <1>1, <1>2

\* A route goes hop by hop from the vault to the destination with the whole fragment.
LEMMA RouteArrives ==
    ASSUME NEW i, NEW count \in Nat \ {0}, NEW amount
    PROVE  LET hops == HopsOf(i, count, amount)
           IN  /\ Head(hops).from = Origin /\ Last(hops).to = Destination
               /\ Last(hops).amount = amount
               /\ \A h \in 1 .. Len(hops) - 1 : hops[h].to = hops[h + 1].from
<1> DEFINE hops == HopsOf(i, count, amount)
<1>1. /\ hops = [h \in 1 .. count |-> hops[h]]
      /\ \A h \in 1 .. count :
           /\ hops[h].from = IF h = 1 THEN Origin ELSE <<i, h - 1>>
           /\ hops[h].to = IF h = count THEN Destination ELSE <<i, h>>
           /\ hops[h].amount = amount
  BY DEF HopsOf
<1> HIDE DEF hops
<1>2. DOMAIN hops = 1 .. count /\ Len(hops) = count /\ Head(hops) = hops[1] /\ Last(hops) = hops[count]
  <2>1. hops = [h \in 1 .. count |-> hops[h]]
    BY <1>1
  <2>2. hops \in Seq({hops[h] : h \in 1 .. count}) /\ Len(hops) = count
    BY <2>1
  <2> QED BY <2>1, <2>2 DEF Last
<1>3. 1 \in 1 .. count /\ count \in 1 .. count
  OBVIOUS
<1>4. Head(hops).from = Origin /\ Last(hops).to = Destination /\ Last(hops).amount = amount
  BY <1>1, <1>2, <1>3
<1>5. \A h \in 1 .. count - 1 : hops[h].to = hops[h + 1].from
  <2> TAKE h \in 1 .. count - 1
  <2>1. h \in 1 .. count /\ h # count /\ h + 1 \in 1 .. count /\ h + 1 # 1 /\ (h + 1) - 1 = h
    OBVIOUS
  <2>2. hops[h].to = <<i, h>> /\ hops[h + 1].from = <<i, (h + 1) - 1>>
    BY <1>1, <2>1
  <2> QED BY <2>1, <2>2
<1> QED BY <1>2, <1>4, <1>5 DEF hops

\* What PayoutArrives says of a plan.
ArrivesWhole(p, net) ==
    /\ ExecutePlan(p)
    /\ TotalOf([i \in DOMAIN p.routes |-> Last(p.routes[i]).amount]) = net
    /\ \A i \in DOMAIN p.routes :
         LET route == p.routes[i]
         IN  /\ net > 0 => p.parts[i] > 0
             /\ Head(route).from = Origin /\ Last(route).to = Destination
             /\ \A h \in 1 .. Len(route) - 1 : route[h].to = route[h + 1].from

\* A plan of a withdrawal pays it out whole, whatever is drawn.
LEMMA PlanArrives ==
    ASSUME NEW net \in Nat, NEW n \in Nat \ {0}, NEW weights \in [1 .. n -> Nat \ {0}],
           NEW hops \in [1 .. n -> Nat \ {0}], NEW p, p = PlanWithdrawal(net, weights, hops)
    PROVE  ArrivesWhole(p, net)
<1> DEFINE parts == PartitionAmount(net, weights)
<1>1. weights \in Seq(Nat \ {0}) /\ weights # <<>> /\ Len(weights) = n
  OBVIOUS
<1>2. /\ parts \in Seq(Nat) /\ Len(parts) \in 1 .. n
      /\ TotalOf(parts) = net
      /\ net > 0 => \A i \in 1 .. Len(parts) : parts[i] > 0
  BY <1>1, PartsAddUp
<1>3. /\ p.net = net /\ p.parts = parts
      /\ p.routes = [i \in DOMAIN parts |-> HopsOf(i, hops[i], parts[i])]
  BY DEF PlanWithdrawal
<1> HIDE DEF parts
<1>4. DOMAIN parts = 1 .. Len(parts) /\ parts = [i \in DOMAIN parts |-> parts[i]]
  BY <1>2
<1> DEFINE D == DOMAIN parts
<1>5. \A i \in D : i \in 1 .. n /\ i \in 1 .. Len(parts)
  BY <1>2, <1>4
<1>6. DOMAIN p.routes = D /\ \A i \in D : p.routes[i] = HopsOf(i, hops[i], parts[i])
  BY <1>3
<1> HIDE DEF D
<1>7. \A i \in D :
        /\ Head(p.routes[i]).from = Origin /\ Last(p.routes[i]).to = Destination
        /\ Last(p.routes[i]).amount = parts[i]
        /\ \A h \in 1 .. Len(p.routes[i]) - 1 : p.routes[i][h].to = p.routes[i][h + 1].from
  <2> TAKE i \in D
  <2>1. hops[i] \in Nat \ {0}
    BY <1>5
  <2> DEFINE count == hops[i]
             amount == parts[i]
             route == HopsOf(i, count, amount)
  <2>2. /\ Head(route).from = Origin /\ Last(route).to = Destination
        /\ Last(route).amount = amount
        /\ \A h \in 1 .. Len(route) - 1 : route[h].to = route[h + 1].from
    <3>1. count \in Nat \ {0}
      BY <2>1
    <3> HIDE DEF count, amount
    <3> QED BY <3>1, RouteArrives
  <2>3. p.routes[i] = route
    BY <1>6
  <2> HIDE DEF route
  <2> QED BY <2>2, <2>3
<1>8. [i \in DOMAIN p.routes |-> Last(p.routes[i]).amount] = parts
  <2>1. [i \in D |-> Last(p.routes[i]).amount] = [i \in D |-> parts[i]]
    BY <1>7
  <2> QED BY <1>4, <1>6, <2>1 DEF D
<1>9. ExecutePlan(p)
  BY <1>2, <1>3 DEF ExecutePlan
<1>10. \A i \in DOMAIN p.routes :
         LET route == p.routes[i]
         IN  /\ net > 0 => p.parts[i] > 0
             /\ Head(route).from = Origin /\ Last(route).to = Destination
             /\ \A h \in 1 .. Len(route) - 1 : route[h].to = route[h + 1].from
  <2>1. \A i \in D : net > 0 => p.parts[i] > 0
    BY <1>2, <1>3, <1>5
  <2> QED BY <1>6, <1>7, <2>1
<1>11. TotalOf([i \in DOMAIN p.routes |-> Last(p.routes[i]).amount]) = net
  BY <1>2, <1>8
<1> QED BY <1>9, <1>10, <1>11 DEF ArrivesWhole

\* execute_tumbling_plan's fragments add up to what was burned, none is empty, and every
\* route leads from the vault to the destination, for every order, every weight and
\* every number of hops drawn.
THEOREM PayoutsArrive == HashesToScalars => (Spec => []PayoutArrives)
<1> SUFFICES ASSUME HashesToScalars PROVE Spec => []PayoutArrives
  OBVIOUS
<1>1. Inv => PayoutArrives
  <2> SUFFICES ASSUME Inv, plan # None
               PROVE  /\ ExecutePlan(plan)
                      /\ TotalOf([i \in DOMAIN plan.routes |-> Last(plan.routes[i]).amount]) = output.amount
                      /\ \A i \in DOMAIN plan.routes :
                           LET hops == plan.routes[i]
                           IN  /\ output.amount > 0 => plan.parts[i] > 0
                               /\ Head(hops).from = Origin /\ Last(hops).to = Destination
                               /\ \A h \in 1 .. Len(hops) - 1 : hops[h].to = hops[h + 1].from
    BY DEF PayoutArrives
  <2>1. output # None /\ output.amount \in Nat
    BY OutputOwned DEF Inv, PlanFine
  <2>2. PICK n \in 1 .. MaxFragments :
             \E weights \in [1 .. n -> Weights], hops \in [1 .. n -> HopCounts] :
               plan = PlanWithdrawal(output.amount, weights, hops)
    BY DEF Inv, PlanFine
  <2>3. PICK weights \in [1 .. n -> Weights], hops \in [1 .. n -> HopCounts] :
               plan = PlanWithdrawal(output.amount, weights, hops)
    BY <2>2
  <2>4. Weights \subseteq Nat \ {0} /\ HopCounts \subseteq Nat \ {0} /\ n \in Nat \ {0}
    BY FlowConstants
  <2>5. weights \in [1 .. n -> Nat \ {0}] /\ hops \in [1 .. n -> Nat \ {0}]
    BY <2>4
  <2> DEFINE net == output.amount
             p == plan
  <2>6. net \in Nat /\ p = PlanWithdrawal(net, weights, hops)
    BY <2>1, <2>3
  <2> HIDE DEF net, p
  <2>7. ArrivesWhole(p, net)
    BY <2>4, <2>5, <2>6, PlanArrives
  <2> QED BY <2>7 DEF ArrivesWhole, net, p
<1> QED BY <1>1, Invariant, PTL

-----------------------------------------------------------------------------
(***************************************************************************)
(* Commitments                                                              *)
(***************************************************************************)

\* What the loop that adds up commitments goes through.
PointsAddUp(sum, points) ==
    /\ sum[0] = Identity
    /\ \A k \in 1 .. Len(points) : sum[k] = Plus(sum[k - 1], points[k])
    /\ SumOfPoints(points) = sum[Len(points)]

LEMMA PointSteps ==
    ASSUME NEW points \in Seq(Int)
    PROVE  \E sum : PointsAddUp(sum, points)
<1> DEFINE n == Len(points)
           D == 1 .. n
           Is(it) == it = [s \in SUBSET D |-> IF s = {} THEN Identity
                                              ELSE Plus(it[s \ {Max(s)}], points[Max(s)])]
           it == CHOOSE it : Is(it)
           sum == [k \in 0 .. n |-> it[1 .. k]]
<1>1. n \in Nat /\ DOMAIN points = D /\ \A i \in D : points[i] \in Int
  OBVIOUS
<1>2. SumOfPoints(points) = it[D]
  BY <1>1 DEF SumOfPoints, FoldLeft, MapThenFoldSet
<1> HIDE DEF n
<1>3. /\ SumBy(points, {}) = 0
      /\ \A s \in SUBSET D :
           /\ SumBy(points, s) \in Int
           /\ \A i \in s : SumBy(points, s) = points[i] + SumBy(points, s \ {i})
  <2>1. IsFiniteSet(D)
    BY <1>1, FS_Interval
  <2>2. Weighed(points, D)
    BY <1>1 DEF Weighed
  <2> HIDE DEF D
  <2> QED BY <2>1, <2>2, SumByTakes
<1>4. \E g : Is(g)
  <2> DEFINE g == [s \in SUBSET D |-> SumBy(points, s) % Q]
  <2>1. \A s \in SUBSET D : g[s] = IF s = {} THEN Identity ELSE Plus(g[s \ {Max(s)}], points[Max(s)])
    <3> TAKE s \in SUBSET D
    <3>1. CASE s = {}
      <4>1. 0 \in Scalar
        BY Order DEF Scalar
      <4>2. 0 % Q = 0
        BY <4>1, Small
      <4> QED BY <1>3, <3>1, <4>2 DEF Identity
    <3>2. CASE s # {}
      <4>1. Max(s) \in s
        BY <1>1, <3>2, Greatest
      <4>2. s \ {Max(s)} \in SUBSET D /\ Max(s) \in D
        BY <4>1
      <4> DEFINE t == s \ {Max(s)}
                 x == Max(s)
                 a == points[x]
                 b == SumBy(points, t)
      <4> HIDE DEF t, x
      <4>3. SumBy(points, s) = a + b
        BY <1>3, <4>1 DEF t, x
      <4>4. a \in Int /\ b \in Int /\ t \in SUBSET D
        BY <1>1, <1>3, <4>2 DEF t, x
      <4>5. g[s] = (a + b) % Q /\ g[t] = b % Q
        BY <4>3, <4>4
      <4> HIDE DEF a, b, g
      <4>6. g[s] = Plus(g[t], a)
        <5>1. (a + (b % Q)) % Q = (a + b) % Q
          BY <4>4, RestOfSum
        <5>2. b % Q \in Int
          BY <4>4, Rest, Order DEF Scalar
        <5>3. a + (b % Q) = (b % Q) + a
          BY <4>4, <5>2
        <5> QED BY <4>5, <5>1, <5>3 DEF Plus
      <4> QED BY <3>2, <4>6 DEF t, x, a
    <3> QED BY <3>1, <3>2
  <2>2. g = [s \in SUBSET D |-> g[s]]
    OBVIOUS
  <2> HIDE DEF g
  <2>3. Is(g)
    BY <2>1, <2>2
  <2> QED BY <2>3
<1>5. Is(it)
  BY <1>4
<1> HIDE DEF it
<1>6. \A s \in SUBSET D : it[s] = IF s = {} THEN Identity ELSE Plus(it[s \ {Max(s)}], points[Max(s)])
  BY <1>5
<1>7. sum[0] = Identity
  <2>1. 1 .. 0 = {} /\ {} \in SUBSET D /\ 0 \in 0 .. n
    BY <1>1
  <2>2. it[{}] = Identity
    BY <1>6, <2>1
  <2>3. sum[0] = it[1 .. 0]
    BY <2>1
  <2> QED BY <2>1, <2>2, <2>3
<1>8. \A k \in 1 .. n : sum[k] = Plus(sum[k - 1], points[k])
  <2> TAKE k \in 1 .. n
  <2>1. 1 .. k \in SUBSET D /\ 1 .. k # {} /\ (1 .. k) \ {k} = 1 .. k - 1
    BY <1>1
  <2>2. Max(1 .. k) = k
    BY <1>1, Greatest
  <2>3. it[1 .. k] = Plus(it[1 .. k - 1], points[k])
    BY <1>6, <2>1, <2>2
  <2>4. k \in 0 .. n /\ k - 1 \in 0 .. n
    BY <1>1
  <2> QED BY <2>3, <2>4
<1>9. SumOfPoints(points) = sum[n]
  BY <1>1, <1>2
<1> QED BY <1>7, <1>8, <1>9 DEF PointsAddUp, n

\* One commitment, and two, added up.
LEMMA SumsOfPoints ==
    ASSUME NEW p \in Scalar, NEW r \in Scalar
    PROVE  SumOfPoints(<<p>>) = p /\ SumOfPoints(<<p, r>>) = Plus(p, r)
<1>0. p \in Int /\ r \in Int /\ Plus(Identity, p) = p
  <2>1. p \in Int /\ r \in Int /\ 0 + p = p
    BY Order DEF Scalar
  <2> QED BY <2>1, Small DEF Plus, Identity
<1>1. SumOfPoints(<<p>>) = p
  <2> DEFINE points == <<p>>
  <2>1. points \in Seq(Int) /\ Len(points) = 1 /\ points[1] = p
    BY <1>0
  <2> HIDE DEF points
  <2>2. PICK sum : PointsAddUp(sum, points)
    BY <2>1, PointSteps
  <2>3. sum[0] = Identity /\ sum[1] = Plus(sum[1 - 1], points[1]) /\ SumOfPoints(points) = sum[1]
    BY <2>1, <2>2 DEF PointsAddUp
  <2> QED BY <1>0, <2>1, <2>3 DEF points
<1>2. SumOfPoints(<<p, r>>) = Plus(p, r)
  <2> DEFINE points == <<p, r>>
  <2>1. points \in Seq(Int) /\ Len(points) = 2 /\ points[1] = p /\ points[2] = r
    BY <1>0
  <2> HIDE DEF points
  <2>2. PICK sum : PointsAddUp(sum, points)
    BY <2>1, PointSteps
  <2>3. /\ sum[0] = Identity /\ sum[1] = Plus(sum[1 - 1], points[1])
        /\ sum[2] = Plus(sum[2 - 1], points[2]) /\ SumOfPoints(points) = sum[2]
    BY <2>1, <2>2 DEF PointsAddUp
  <2> QED BY <1>0, <2>1, <2>3 DEF points
<1> QED BY <1>1, <1>2

\* Adding changes the rest unless what is added is a multiple of the order.
LEMMA RestMoves ==
    ASSUME NEW a \in Int, NEW b \in Int
    PROVE  (a + b) % Q = a % Q <=> b % Q = 0
<1> DEFINE r == a % Q
           t == (a + b) % Q
           u == b % Q
<1>1. PICK i \in Int : a = r + i * Q
  BY Rest
<1>2. PICK j \in Int : a + b = t + j * Q
  <2>1. a + b \in Int
    OBVIOUS
  <2> QED BY <2>1, Rest
<1>3. PICK k \in Int : b = u + k * Q
  BY Rest
<1>4. r \in Int /\ t \in Int /\ u \in Int /\ Q \in Int
  <2>1. a + b \in Int
    OBVIOUS
  <2> QED BY <2>1, Rest, Order DEF Scalar
<1>5. 0 % Q = 0
  <2>1. 0 \in Scalar
    BY Order DEF Scalar
  <2> QED BY <2>1, Small
<1>6. ASSUME t = r PROVE u = 0
  <2> HIDE DEF r, t
  <2>1. b = 0 + (j - i) * Q /\ j - i \in Int /\ 0 \in Int
    BY <1>1, <1>2, <1>4, <1>6
  <2>2. b % Q = 0 % Q
    BY <2>1, SameRest
  <2> QED BY <1>5, <2>2
<1>7. ASSUME u = 0 PROVE t = r
  <2> DEFINE c == a + b
  <2>1. c = a + k * Q /\ c \in Int
    <3> HIDE DEF u
    <3> QED BY <1>3, <1>4, <1>7
  <2> HIDE DEF c
  <2>2. c % Q = a % Q
    BY <2>1, SameRest
  <2> QED BY <2>2 DEF c
<1> QED BY <1>6, <1>7

\* A commitment in one rest.
LEMMA CommitmentIs ==
    ASSUME NEW amount \in Nat, NEW blinding \in Int
    PROVE  /\ CommitWithBlinding(amount, blinding) = (blinding + amount * H) % Q
           /\ CommitWithBlinding(amount, blinding) \in Scalar
<1> DEFINE b == amount * H
<1>1. H \in Int
  BY Group, Order
<1>2. b \in Int /\ blinding * 1 = blinding
  BY <1>1
<1> HIDE DEF b
<1>3. ((blinding % Q) + (b % Q)) % Q = (blinding + b) % Q
  BY <1>2, RestOfSum
<1>4. CommitWithBlinding(amount, blinding) = (blinding + b) % Q
  BY <1>2, <1>3 DEF CommitWithBlinding, Plus, Times, Base, b
<1>5. blinding + b \in Int
  BY <1>2
<1> QED BY <1>4, <1>5, Rest DEF b

\* An amount that is not zero, and smaller than the order either way, is seen in a commitment.
LEMMA AmountShows ==
    ASSUME NEW d \in Int, - Q < d, d < Q, d # 0
    PROVE  (d * H) % Q # 0
<1> DEFINE r == d % Q
<1>1. r \in Scalar /\ r # 0
  <2>1. CASE d > 0
    <3>1. d \in Scalar
      BY <2>1, Order DEF Scalar
    <3> QED BY <2>1, <3>1, Small
  <2>2. CASE d < 0
    <3> DEFINE e == d + Q
    <3>1. e \in Scalar /\ e # 0 /\ e \in Int
      BY <2>2, Order DEF Scalar
    <3>2. e = d + 1 * Q
      BY Order
    <3> HIDE DEF e
    <3>3. e % Q = d % Q
      BY <3>1, <3>2, SameRest
    <3> QED BY <3>1, <3>3, Small
  <2> QED BY <2>1, <2>2
<1> HIDE DEF r
<1>2. H \in Scalar /\ H # 0 /\ H \in Int
  BY Group, Order DEF Scalar
<1>3. (H * r) % Q = (H * d) % Q
  BY <1>2, RestOfProduct DEF r
<1>4. H * d = d * H
  BY <1>2
<1> QED BY <1>1, <1>2, <1>3, <1>4, NoZero DEF Times

\* The equation of verify_balance_conservation, for one input, two outputs and a fee.
Equation(a, ra, b, rb, c, rc, fee) ==
    Minus(CommitWithBlinding(a, ra),
          Plus(Plus(CommitWithBlinding(b, rb), CommitWithBlinding(c, rc)), Times(fee, H)))
      = Times(Minus(ra, rb + rc), Base)

InRange(a, ra, b, rb, c, rc, fee) ==
    /\ a \in Nat /\ a + 1 < Q
    /\ b \in 0 .. a /\ c \in 0 .. a /\ fee \in {0, 1}
    /\ ra \in Int /\ rb \in Int /\ rc \in Int

\* What it says of the amounts.
LEMMA EquationIsAmounts ==
    ASSUME NEW a, NEW ra, NEW b, NEW rb, NEW c, NEW rc, NEW fee, InRange(a, ra, b, rb, c, rc, fee)
    PROVE  Equation(a, ra, b, rb, c, rc, fee) <=> a = b + c + fee
<1> DEFINE p == CommitWithBlinding(a, ra)
           q == CommitWithBlinding(b, rb)
           r == CommitWithBlinding(c, rc)
           A == ra + a * H
           B == rb + b * H
           C == rc + c * H
           F == fee * H
           d == a - (b + c + fee)
           e == ra - (rb + rc)
           g == d * H
<1>0. /\ a \in Nat /\ a + 1 < Q /\ b \in 0 .. a /\ c \in 0 .. a /\ fee \in {0, 1}
      /\ ra \in Int /\ rb \in Int /\ rc \in Int
  BY DEF InRange
<1>1. H \in Int /\ Q \in Int /\ b \in Nat /\ c \in Nat /\ fee \in Nat
  BY <1>0, Group, Order
<1>2. p = A % Q /\ q = B % Q /\ r = C % Q
  BY <1>0, <1>1, CommitmentIs
<1>3. A \in Int /\ B \in Int /\ C \in Int /\ F \in Int
  BY <1>0, <1>1
<1>4. A - ((B + C) + F) = e + g
  BY <1>0, <1>1
<1>5. d \in Int /\ e \in Int /\ g \in Int
  BY <1>0, <1>1
<1>6. - Q < d /\ d < Q /\ (d = 0 <=> a = b + c + fee)
  BY <1>0, <1>1
<1>7. Times(fee, H) = F % Q
  BY DEF Times
<1>8. d = 0 => g = 0
  BY <1>0, <1>1
<1>9. d # 0 => g % Q # 0
  <2> HIDE DEF d
  <2> QED BY <1>5, <1>6, AmountShows
<1> HIDE DEF p, q, r, A, B, C, F, d, g
<1>10. Plus(q, r) = (B + C) % Q
  BY <1>2, <1>3, RestOfSum DEF Plus
<1>11. Plus(Plus(q, r), Times(fee, H)) = ((B + C) + F) % Q
  <2> DEFINE D == B + C
  <2>1. D \in Int
    BY <1>3
  <2> HIDE DEF D
  <2>2. ((D % Q) + (F % Q)) % Q = (D + F) % Q
    BY <1>3, <2>1, RestOfSum
  <2> QED BY <1>7, <1>10, <2>2 DEF Plus, D
<1>12. Minus(p, Plus(Plus(q, r), Times(fee, H))) = (e + g) % Q
  <2> DEFINE D == (B + C) + F
  <2>1. D \in Int
    BY <1>3
  <2>2. A - D = e + g
    BY <1>4
  <2> HIDE DEF D
  <2>3. ((A % Q) - (D % Q)) % Q = (A - D) % Q
    BY <1>3, <2>1, RestOfSum
  <2> QED BY <1>2, <1>11, <2>2, <2>3 DEF Minus, D
<1>13. Times(Minus(ra, rb + rc), Base) = e % Q
  <2>1. e % Q \in Scalar
    BY <1>5, Rest
  <2> QED BY <2>1, TimesBase DEF Minus
<1> HIDE DEF e
<1>14. (e + g) % Q = e % Q <=> g % Q = 0
  BY <1>5, RestMoves
<1>15. 0 % Q = 0
  <2>1. 0 \in Scalar
    BY Order DEF Scalar
  <2> QED BY <2>1, Small
<1>16. g % Q = 0 <=> d = 0
  BY <1>8, <1>9, <1>15
<1> QED BY <1>6, <1>12, <1>13, <1>14, <1>16 DEF Equation, p, q, r

\* verify_balance_conservation accepts an output split in two and a fee exactly when the
\* amounts balance, whatever blinds them, in every group larger than the amount.
THEOREM CommitmentsBalance == HashesToScalars => (Spec => []BalanceIsConservation)
<1> SUFFICES ASSUME HashesToScalars PROVE Spec => []BalanceIsConservation
  OBVIOUS
<1>1. Inv => BalanceIsConservation
  <2> SUFFICES ASSUME Inv, output # None, output.amount + 1 < Q,
                      NEW b \in 0 .. output.amount, NEW c \in 0 .. output.amount,
                      NEW fee \in {0, 1}, NEW ra \in Draws, NEW rb \in Draws, NEW rc \in Draws
               PROVE  LET ins == <<CommitWithBlinding(output.amount, ra)>>
                          outs == <<CommitWithBlinding(b, rb), CommitWithBlinding(c, rc)>>
                          excess == Times(Minus(ra, rb + rc), Base)
                      IN  VerifyBalanceConservation(ins, outs, fee, excess)
                            <=> /\ output.amount = b + c + fee
                                /\ Identity \notin ToSet(ins) \cup ToSet(outs) \cup {excess}
    BY DEF BalanceIsConservation
  <2> DEFINE a == output.amount
             p == CommitWithBlinding(a, ra)
             q == CommitWithBlinding(b, rb)
             r == CommitWithBlinding(c, rc)
             excess == Times(Minus(ra, rb + rc), Base)
             ins == <<p>>
             outs == <<q, r>>
  <2>1. a \in Nat
    BY OutputOwned DEF Inv
  <2>2. ra \in Int /\ rb \in Int /\ rc \in Int
    BY FlowConstants, Order
  <2>3. p \in Scalar /\ q \in Scalar /\ r \in Scalar
    <3>1. b \in Nat /\ c \in Nat
      BY <2>1
    <3> QED BY <2>1, <2>2, <3>1, CommitmentIs
  <2>4. Minus(p, Plus(Plus(q, r), Times(fee, H))) = excess <=> a = b + c + fee
    <3> DEFINE z == a
    <3>1. InRange(z, ra, b, rb, c, rc, fee)
      BY <2>1, <2>2 DEF InRange
    <3> HIDE DEF a, z
    <3>2. Equation(z, ra, b, rb, c, rc, fee) <=> z = b + c + fee
      BY <3>1, EquationIsAmounts
    <3> QED BY <3>2 DEF Equation, z
  <2> HIDE DEF p, q, r, excess
  <2>5. SumOfPoints(ins) = p /\ SumOfPoints(outs) = Plus(q, r)
    BY <2>3, SumsOfPoints
  <2>6. ins # <<>> /\ outs # <<>>
    OBVIOUS
  <2> HIDE DEF ins, outs, a
  <2>7. VerifyBalanceConservation(ins, outs, fee, excess)
          <=> /\ Identity \notin ToSet(ins) \cup ToSet(outs) \cup {excess}
              /\ Minus(SumOfPoints(ins), Plus(SumOfPoints(outs), Times(fee, H))) = excess
    BY <2>6 DEF VerifyBalanceConservation
  <2>8. VerifyBalanceConservation(ins, outs, fee, excess)
          <=> /\ a = b + c + fee
              /\ Identity \notin ToSet(ins) \cup ToSet(outs) \cup {excess}
    BY <2>4, <2>5, <2>7
  <2> QED BY <2>8 DEF a, p, q, r, excess, ins, outs
<1> QED BY <1>1, Invariant, PTL

=============================================================================
