--------------------------- MODULE ShieldedCrypto ---------------------------
(***************************************************************************)
(* The algebra of stealth outputs, ring signatures, burn proofs and Pedersen *)
(* commitments (src/stealth.cpp, src/ring_signature.cpp, src/pedersen.cpp).  *)
(*                                                                         *)
(* The group is the integers modulo Q, a point being its multiple of the     *)
(* base point: enough for what an honest signer and verifier compute.  How   *)
(* hard the discrete logarithm or the hash is lies outside the model.        *)
(* libsodium's scalarmult fails when its result is the identity, and         *)
(* is_valid_point accepts no other point outside the prime-order subgroup.   *)
(***************************************************************************)
EXTENDS Integers, Sequences, SequencesExt

CONSTANTS
    Q,          \* the order of the group, a prime
    Hash(_),    \* BLAKE2b of a sequence of numbers, reduced to a scalar
    H           \* the second generator of the commitments

Cofactor == 8

ASSUME Group ==
    /\ Q \in Nat /\ Q > 2
    /\ \A a, b \in 1 .. Q - 1 : (a * b) % Q # 0
    /\ Cofactor % Q # 0
    /\ H \in 1 .. Q - 1

Scalar == 0 .. Q - 1
Point == 0 .. Q - 1
Identity == 0
Base == 1

Times(k, p) == (k * p) % Q
Plus(p, r) == (p + r) % Q
Minus(p, r) == (p - r) % Q

-----------------------------------------------------------------------------
(* Stealth addresses (DKSAP). *)

StealthAddress == [spend : Point, view : Point]

\* The private keys; the public ones follow from them.
StealthWallet == [spend : Scalar, view : Scalar]

OneTimeOutput == [ephemeral : Point, destination : Point, amount : Nat]

PublicAddress(w) == [spend |-> Times(w.spend, Base), view |-> Times(w.view, Base)]

Shared(k, p) == Hash(<<Times(k, p)>>)

\* create_one_time_output makes an output of an address when r times the view key
\* is a point other than the identity and hG can be added to the spend key: it
\* throws for bytes that are no point.
OutputIsMade(address, ephemeral) ==
    /\ address \in StealthAddress
    /\ Times(ephemeral, address.view) # Identity

\* create_one_time_output: P = H(rB) G + A next to R = rG.
CreateOneTimeOutput(address, ephemeral, amount) ==
    [ephemeral |-> Times(ephemeral, Base),
     destination |-> Plus(Times(Shared(ephemeral, address.view), Base), address.spend),
     amount |-> amount]

ScanOutput(w, out) ==
    out.destination = Plus(Times(Shared(w.view, out.ephemeral), Base),
                           PublicAddress(w).spend)

\* Fault: the shared secret is computed with the spend key.
DeriveFromSpendKey(w, out) == Plus(Shared(w.spend, out.ephemeral), w.spend)

DeriveOneTimePrivateKey(w, out) == Plus(Shared(w.view, out.ephemeral), w.spend)

-----------------------------------------------------------------------------
(* Linkable ring signatures. *)

RingSignature == [image : Point, ring : Seq(Point), c0 : Scalar, responses : Seq(Scalar)]

\* hash_to_point never gives the identity.
HashToPoint(p) == Times(Cofactor, 1 + (Hash(<<p>>) % (Q - 1)))

ComputeKeyImage(x, p) == Times(x, HashToPoint(p))

\* The form in which images are compared and stored.
CanonicalKeyImage(image) == Times(Cofactor, image)

Challenge(m, left, right) == Hash(<<m, left, right>>)

\* The challenge that follows c at a member p of the ring with response s.
NextChallenge(m, p, image, s, c) ==
    Challenge(m, Plus(Times(s, Base), Times(c, p)),
                 Plus(Times(s, HashToPoint(p)), Times(c, image)))

\* sign: from the real member round the ring with the drawn responses, closed
\* by the one response that takes the private key.
Sign(m, ring, real, x, alpha, drawn) ==
    LET n == Len(ring)
        image == ComputeKeyImage(x, ring[real])
        member(step) == ((real - 1 + step) % n) + 1
        c[step \in 1 .. n] ==
            IF step = 1 THEN Challenge(m, Times(alpha, Base), Times(alpha, HashToPoint(ring[real])))
            ELSE LET i == member(step - 1)
                 IN  NextChallenge(m, ring[i], image, drawn[i], c[step - 1])
    IN  [image |-> image, ring |-> ring,
         c0 |-> c[CHOOSE step \in 1 .. n : member(step) = 1],
         responses |-> [drawn EXCEPT ![real] = Minus(alpha, Times(c[n], x))]]

\* The challenges verify goes through, the first one claimed by the signature.
Challenges(m, sig) ==
    LET c[i \in 1 .. Len(sig.ring) + 1] ==
            IF i = 1 THEN sig.c0
            ELSE NextChallenge(m, sig.ring[i - 1], sig.image, sig.responses[i - 1], c[i - 1])
    IN  c

\* A scalar of zero makes scalarmult fail and the signature invalid: it is drawn
\* with negligible probability in the group of the code, often in a small one.
Degenerate(m, sig) ==
    \E i \in DOMAIN sig.ring : sig.responses[i] = 0 \/ Challenges(m, sig)[i] = 0

Verify(m, sig) ==
    /\ Len(sig.ring) >= 1
    /\ Len(sig.responses) = Len(sig.ring)
    /\ sig.image # Identity
    /\ Identity \notin ToSet(sig.ring)
    /\ IsInjective(sig.ring)
    /\ ~ Degenerate(m, sig)
    /\ Challenges(m, sig)[Len(sig.ring) + 1] = sig.c0

\* compute_canonical_tx_hash: every list goes in with its length.
CanonicalTxHash(outputs, fee, ring, image) ==
    LET Fields(out) == <<out.destination, out.ephemeral, out.amount>>
    IN  Hash(<<Len(outputs)>> \o FlattenSeq([i \in DOMAIN outputs |-> Fields(outputs[i])])
             \o <<fee, Len(ring)>> \o ring \o <<image>>)

-----------------------------------------------------------------------------
(* Burn proofs: the same signature by the burned key alone. *)

BurnMessageHash(order, gross, destination, change) ==
    Hash(<<order, gross, destination, change>>)

\* Fault: the response adds the secret share instead of taking it off.
SignBurnAdding(m, p, x, alpha) ==
    LET c0 == Challenge(m, Times(alpha, Base), Times(alpha, HashToPoint(p)))
    IN  [image |-> ComputeKeyImage(x, p), c0 |-> c0, s |-> Plus(alpha, Times(c0, x))]

BurnProof == [image : Point, c0 : Scalar, s : Scalar]

SignBurnProof(m, p, x, alpha) ==
    LET c0 == Challenge(m, Times(alpha, Base), Times(alpha, HashToPoint(p)))
    IN  [image |-> ComputeKeyImage(x, p), c0 |-> c0, s |-> Minus(alpha, Times(c0, x))]

VerifyBurnProof(m, p, proof) ==
    /\ p # Identity /\ proof.image # Identity
    /\ proof.s # 0 /\ proof.c0 # 0
    /\ NextChallenge(m, p, proof.image, proof.s, proof.c0) = proof.c0

-----------------------------------------------------------------------------
(* Pedersen commitments.  Nothing in the node calls them yet. *)

CommitWithBlinding(amount, blinding) == Plus(Times(blinding, Base), Times(amount, H))

SumOfPoints(points) == FoldLeft(LAMBDA sum, p : Plus(sum, p), Identity, points)

\* Fault: the fee stays outside the equation.
VerifyBalanceWithoutFee(ins, outs, fee, excess) ==
    /\ ins # <<>> /\ outs # <<>>
    /\ Identity \notin ToSet(ins) \cup ToSet(outs) \cup {excess}
    /\ Minus(SumOfPoints(ins), SumOfPoints(outs)) = excess

\* verify_balance_conservation; commitments and excess must be valid points.
VerifyBalanceConservation(ins, outs, fee, excess) ==
    /\ ins # <<>> /\ outs # <<>>
    /\ Identity \notin ToSet(ins) \cup ToSet(outs) \cup {excess}
    /\ Minus(SumOfPoints(ins), Plus(SumOfPoints(outs), Times(fee, H))) = excess

=============================================================================
