---------------------------- MODULE ShieldedFlow ----------------------------
(***************************************************************************)
(* A user's money from the seed phrase to the payout: the phrase becomes a   *)
(* wallet, the wallet receives an output, the output is spent by a ring      *)
(* signature or a burn proof, and a burn is paid out in fragments.  Between  *)
(* two steps the node may restart with the key images LMDB holds.  It puts   *)
(* the operators of Mnemonic, ShieldedCrypto and Tumbler to work in the      *)
(* order in which the wallet and Node (transfer_shielded, withdraw_shielded, *)
(* submit_pre_signed_transaction) call them; a web page does the same with   *)
(* the functions of BrowserWallet and pushes what it signed.                *)
(***************************************************************************)
EXTENDS BrowserWallet, Mnemonic, Tumbler

CONSTANTS
    Draws,      \* the scalars the random generator gives
    Payee,      \* the address transfers go to
    RingPoints, \* destinations of the other outputs in the pool
    Amounts,    \* amounts of outputs
    Typed,      \* amounts typed into a web page, in tenths
    Weights, MaxFragments, HopCounts    \* what the tumbler draws

ASSUME FlowConstants ==
    /\ Draws \subseteq 1 .. Q - 1
    /\ RingPoints \subseteq 1 .. Q - 1
    /\ Amounts \subseteq Nat
    /\ Typed \subseteq Int
    /\ Weights \cup HopCounts \subseteq Nat \ {0}
    /\ MaxFragments \in Nat

VARIABLES
    entropy,    \* what the phrase was generated from
    phrase,     \* what the user types in
    wallet,     \* the keys derived from it
    output,     \* the output received
    offer,      \* what was signed last and waits for the node
    images,     \* KeyImageLedger::spent_images_
    stored,     \* the key images in LMDB
    accepted,   \* how often the node let the output be spent
    moved,      \* the value that went into outputs, fees and burns
    plan        \* the payout of the burn

chainState == <<images, stored, accepted, moved>>
vars == <<entropy, phrase, wallet, output, offer, images, stored, accepted, moved, plan>>

None == [kind |-> "none"]

\* The burn is on the chain and waits for its payout.
Burned == [kind |-> "burned"]

\* A transaction or a burn on its way into a block.
Offer == [kind : {"transfer"}, message : Scalar, sig : RingSignature]
         \cup [kind : {"push"}, message : Scalar, sig : RingSignature,
               outputs : Seq(OneTimeOutput), fee : Nat]
         \cup [kind : {"burn"}, message : Scalar, sig : BurnProof]

Init ==
    /\ entropy = <<>> /\ phrase = <<>>
    /\ wallet = None /\ output = None /\ offer = None /\ plan = None
    /\ images = {} /\ stored = {} /\ accepted = 0 /\ moved = 0

-----------------------------------------------------------------------------
(* The phrase. *)

\* mnemonic_to_wallet: two keyed hashes of the entropy.
WalletOf(bytes) == [spend |-> Hash(<<1>> \o bytes), view |-> Hash(<<2>> \o bytes)]

Generate(bytes) ==
    /\ wallet = None /\ phrase = <<>>
    /\ entropy' = bytes
    /\ phrase' = GenerateWords(bytes)
    /\ UNCHANGED <<wallet, output, offer, chainState, plan>>

\* The user gets one word wrong.
Mistype(i, word) ==
    /\ phrase # <<>> /\ phrase = GenerateWords(entropy)
    /\ phrase' = [phrase EXCEPT ![i] = word]
    /\ UNCHANGED <<entropy, wallet, output, offer, chainState, plan>>

\* restore_wallet: a phrase that does not validate is refused.
Load ==
    /\ phrase # <<>>
    /\ phrase' = <<>> /\ entropy' = <<>>
    /\ wallet' = IF ValidateMnemonic(phrase) THEN WalletOf(MnemonicToEntropy(phrase)) ELSE None
    /\ UNCHANGED <<output, offer, chainState, plan>>

\* /wallet/generate: keys drawn by the node, without a phrase.
GenerateAtNode(spend, view) ==
    /\ wallet = None /\ phrase = <<>>
    /\ wallet' = [spend |-> spend, view |-> view]
    /\ UNCHANGED <<entropy, phrase, output, offer, chainState, plan>>

-----------------------------------------------------------------------------
(* Spending.  A zero spend key has no public key and an output to the identity is
   no output; neither is drawn in the group of the code. *)

Receive(ephemeral, amount) ==
    /\ wallet # None /\ output = None
    /\ wallet.spend # 0 /\ OutputIsMade(PublicAddress(wallet), ephemeral)
    /\ output' = CreateOneTimeOutput(PublicAddress(wallet), ephemeral, amount)
    /\ output'.destination # Identity
    /\ UNCHANGED <<entropy, phrase, wallet, offer, chainState, plan>>

PrivateKey == DeriveOneTimePrivateKey(wallet, output)

\* transfer_shielded: the real key anywhere in a ring of decoys.
SignTransfer(decoys, real, alpha, drawn, fee) ==
    /\ output # None /\ offer = None
    /\ fee < output.amount
    /\ OutputIsMade(Payee, alpha)
    /\ output.destination \notin ToSet(decoys) /\ IsInjective(decoys)
    /\ LET ring == InsertAt(decoys, real, output.destination)
           paid == CreateOneTimeOutput(Payee, alpha, output.amount - fee)
           m == CanonicalTxHash(<<paid>>, fee, ring,
                                ComputeKeyImage(PrivateKey, output.destination))
       IN  offer' = [kind |-> "transfer", message |-> m,
                     sig |-> Sign(m, ring, real, PrivateKey, alpha, SubSeq(drawn, 1, Len(ring)))]
    /\ UNCHANGED <<entropy, phrase, wallet, output, chainState, plan>>

\* The outputs a page makes of the amounts typed in.
PageOutputs(to, typed, ephemeral) ==
    {outs \in [DOMAIN typed -> UNION {WasmCreateOneTimeOutput(ToHex(to.spend), ToHex(to.view),
                                                            typed[i], ephemeral) :
                                        i \in DOMAIN typed}] :
        \A i \in DOMAIN typed : outs[i].amount = ParseUsdt(typed[i])}

\* What a user pastes for a private key.  (The signature of a wrong key passes in a
\* small group by chance.)
Pasted(key) == {Garbled, ToHex(key)}

\* The page scans, derives, hashes and signs with the keys the user pasted, and
\* pushes what the node can parse.
SignInBrowser(viewPriv, spendPriv, decoys, real, typed, typedFee, alpha, drawn) ==
    /\ output # None /\ offer = None
    /\ AmountParses(typedFee)
    /\ LET dest == ToHex(output.destination)
           ephemeral == ToHex(output.ephemeral)
           ring == Texts(InsertAt(decoys, real, output.destination))
       IN  /\ WasmScanOutput(viewPriv, ToHex(PublicAddress(wallet).spend), ephemeral, dest)
           /\ \E x \in WasmDeriveKey(viewPriv, spendPriv, ephemeral, dest) :
              \E image \in WasmKeyImage(x, dest) :
              \E outs \in PageOutputs(Decode(Encode(Payee)), typed, alpha) :
              \E hash \in WasmTxHash(outs, typedFee, ring, image) :
              \E sig \in WasmSign(hash, ring, real, x, alpha, SubSeq(drawn, 1, Len(ring))) :
              \E parsed \in ParsedSignature(sig) :
                offer' = [kind |-> "push", message |-> Key(hash), sig |-> parsed,
                          outputs |-> outs, fee |-> ParseUsdt(typedFee)]
    /\ UNCHANGED <<entropy, phrase, wallet, output, chainState, plan>>

\* withdraw_shielded: the whole output is burned.
SignBurn(order, alpha) ==
    /\ output # None /\ offer = None
    /\ LET m == BurnMessageHash(order, output.amount, 0, 0)
       IN  offer' = [kind |-> "burn", message |-> m,
                     sig |-> SignBurnProof(m, output.destination, PrivateKey, alpha)]
    /\ UNCHANGED <<entropy, phrase, wallet, output, chainState, plan>>

Verified(o) ==
    IF o.kind = "burn" THEN VerifyBurnProof(o.message, output.destination, o.sig)
    ELSE Verify(o.message, o.sig)

IsSpent(image) == CanonicalKeyImage(image) \in images

Signed == offer # None /\ offer # Burned

SumAmounts(outs) == TotalOf([i \in DOMAIN outs |-> outs[i].amount])

\* Fault: what the outputs add up to is not compared with the input.
BalancesAnyhow(outs, fee, amount) == \A i \in DOMAIN outs : outs[i].amount > 0

\* The outputs and the fee are the input, and no output is empty.
Balances(outs, fee, amount) ==
    /\ \A i \in DOMAIN outs : outs[i].amount > 0
    /\ fee + SumAmounts(outs) = amount

\* What submit_pre_signed_transaction asks beyond the signature.  The ring is of
\* different outputs in the pool of the amount that is spent.
PushIsWhole(o) ==
    /\ CanonicalKeyImage(o.sig.image) # Identity
    /\ IsInjective(o.sig.ring)
    /\ ToSet(o.sig.ring) \subseteq RingPoints \cup {output.destination}
    /\ Balances(o.outputs, o.fee, output.amount)
    /\ o.message = CanonicalTxHash(o.outputs, o.fee, o.sig.ring, o.sig.image)

Acceptable ==
    /\ Signed
    /\ Verified(offer)
    /\ ~ IsSpent(offer.sig.image)
    /\ offer.kind = "push" => PushIsWhole(offer)

\* A signature that does not verify or spends a known image is refused.
Refuse ==
    /\ Signed /\ ~ Acceptable
    /\ offer' = None
    /\ UNCHANGED <<entropy, phrase, wallet, output, chainState, plan>>

\* The node verifies, registers the image and stores its canonical form.
Accept ==
    /\ Acceptable
    /\ images' = images \cup {CanonicalKeyImage(offer.sig.image)}
    /\ stored' = stored \cup {CanonicalKeyImage(offer.sig.image)}
    /\ accepted' = accepted + 1
    /\ moved' = moved + IF offer.kind = "push" THEN offer.fee + SumAmounts(offer.outputs)
                        ELSE output.amount
    /\ offer' = IF offer.kind = "burn" THEN Burned ELSE None
    /\ UNCHANGED <<entropy, phrase, wallet, output, plan>>

\* Fault: the canonical form is taken again of what is stored in it.
RestoredTwice(image) == CanonicalKeyImage(image)

\* restore_key_image takes what LMDB holds as it is.
RestoredImage(image) == image

Restart ==
    /\ images' = {RestoredImage(image) : image \in stored}
    /\ offer' = None
    /\ UNCHANGED <<entropy, phrase, wallet, output, stored, accepted, moved, plan>>

\* The tumbler plans the payout of what was burned.
Disperse(weights, hops) ==
    /\ offer = Burned /\ plan = None
    /\ plan' = PlanWithdrawal(output.amount, weights, hops)
    /\ offer' = None
    /\ UNCHANGED <<entropy, phrase, wallet, output, chainState>>

Next ==
    \/ \E bytes \in Entropy : Generate(bytes)
    \/ \E i \in 1 .. WordCount, word \in Word \cup {UnknownWord} : Mistype(i, word)
    \/ Load
    \/ \E spend, view \in Draws : GenerateAtNode(spend, view)
    \/ \E ephemeral \in Draws, amount \in Amounts : Receive(ephemeral, amount)
    \/ \E decoys \in UNION {[1 .. n -> RingPoints] : n \in 0 .. 2} :
         \E real \in 1 .. Len(decoys) + 1, alpha \in Draws, fee \in {0, 1} :
           \E a, b \in Draws : SignTransfer(decoys, real, alpha, <<a, b, a>>, fee)
    \/ /\ output # None /\ offer = None
       /\ \E viewPriv \in Pasted(wallet.view), spendPriv \in Pasted(wallet.spend) :
          \E decoys \in Decoys(1, RingPoints, output.destination) :
          \E real \in 1 .. Len(decoys) + 1, typed \in UNION {[1 .. n -> Typed] : n \in 1 .. 2} :
          \E typedFee \in {0, 5}, alpha \in Draws :
            SignInBrowser(viewPriv, spendPriv, decoys, real, typed, typedFee, alpha,
                          <<alpha, alpha>>)
    \/ \E order \in {1, 2}, alpha \in Draws : SignBurn(order, alpha)
    \/ Accept
    \/ Refuse
    \/ Restart
    \/ \E n \in 1 .. MaxFragments :
         \E weights \in [1 .. n -> Weights], hops \in [1 .. n -> HopCounts] :
           Disperse(weights, hops)

Spec == Init /\ [][Next]_vars

-----------------------------------------------------------------------------
(* Properties. *)

TypeOK ==
    /\ phrase = <<>> \/ phrase \in [1 .. WordCount -> Word \cup {UnknownWord}]
    /\ images \subseteq Point /\ stored \subseteq Point
    /\ wallet \in {None} \cup StealthWallet
    /\ output \in {None} \cup OneTimeOutput
    /\ offer \in {None, Burned} \cup Offer
    /\ plan \in {None} \cup Plan
    /\ accepted \in Nat /\ moved \in Nat

\* The phrase shown to the user validates and gives back the entropy the wallet
\* was made of; a phrase with a wrong word never silently opens the same wallet:
\* it is refused, or it is the phrase of other entropy.
PhraseIsFaithful ==
    phrase # <<>> =>
        IF phrase = GenerateWords(entropy)
        THEN ValidateMnemonic(phrase) /\ MnemonicToEntropy(phrase) = entropy
        ELSE ValidateMnemonic(phrase) => MnemonicToEntropy(phrase) # entropy

\* The owner finds the output made for the address, and derives its private key.
OwnerCanSpend ==
    output # None =>
        /\ ScanOutput(wallet, output)
        /\ Times(PrivateKey, Base) = output.destination

\* What the owner signs, by the node or in a browser, verifies wherever the real
\* key is in the ring, for the node and for a page, unless one of the scalars is zero.
SignaturesVerify ==
    Signed =>
        \/ /\ Verified(offer)
           /\ offer.kind = "push" => WasmVerify(ToHex(offer.message), SignatureText(offer.sig))
        \/ offer.kind # "burn" /\ Degenerate(offer.message, offer.sig)
        \/ offer.kind = "burn" /\ (offer.sig.s = 0 \/ offer.sig.c0 = 0)

\* The output is spent once and whole: with other decoys, another message, as a
\* burn after a transfer, in the browser and across a restart the image is the
\* same and is recognised; amounts rounded one by one in a page make no value.
SpentOnceAndWhole ==
    accepted > 0 => accepted = 1 /\ moved = output.amount

\* The payout arrives whole: the fragments add up to what was burned, none is
\* empty, and each goes hop by hop from the vault to the destination.
PayoutArrives ==
    plan # None =>
        /\ ExecutePlan(plan)
        /\ TotalOf([i \in DOMAIN plan.routes |-> Last(plan.routes[i]).amount]) = output.amount
        /\ \A i \in DOMAIN plan.routes :
             LET hops == plan.routes[i]
             IN  /\ output.amount > 0 => plan.parts[i] > 0
                 /\ Head(hops).from = Origin /\ Last(hops).to = Destination
                 /\ \A h \in 1 .. Len(hops) - 1 : hops[h].to = hops[h + 1].from

\* An output split between two commitments and a fee balances exactly when the
\* amounts do, unless one of the points is the identity, which the check
\* refuses.  (The group has to be larger than what the amounts can differ by.)
BalanceIsConservation ==
    output # None /\ output.amount + 1 < Q =>
        \A b, c \in 0 .. output.amount, fee \in {0, 1}, ra, rb, rc \in Draws :
            LET ins == <<CommitWithBlinding(output.amount, ra)>>
                outs == <<CommitWithBlinding(b, rb), CommitWithBlinding(c, rc)>>
                excess == Times(Minus(ra, rb + rc), Base)
            IN  VerifyBalanceConservation(ins, outs, fee, excess)
                  <=> /\ output.amount = b + c + fee
                      /\ Identity \notin ToSet(ins) \cup ToSet(outs) \cup {excess}

=============================================================================
