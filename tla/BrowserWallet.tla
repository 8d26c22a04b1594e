---------------------------- MODULE BrowserWallet ----------------------------
(***************************************************************************)
(* The wallet functions a web page calls (bindings/wasm_bindings.cpp) and    *)
(* what the node offers a page that keeps its own keys (decoys, parsing of   *)
(* what it pushes).  Keys cross the border as hexadecimal text, amounts as   *)
(* floating point numbers.                                                   *)
(*                                                                         *)
(* A text is the sequence of the numbers it holds: one for a key, none when  *)
(* it is not 64 hexadecimal digits.  A function that throws is the set of    *)
(* what it may return, then empty.  Amounts are typed in tenths of a         *)
(* micro-unit.                                                             *)
(***************************************************************************)
EXTENDS ShieldedCrypto

Garbled == <<>>
ToHex(x) == <<x>>

\* from_hex gives 32 bytes.
IsKey(text) == text # Garbled
Key(text) == text[1]

AllKeys(texts) == \A i \in DOMAIN texts : IsKey(texts[i])
Keys(texts) == [i \in DOMAIN texts |-> Key(texts[i])]
Texts(keys) == [i \in DOMAIN keys |-> ToHex(keys[i])]

\* parse_usdt: to the nearest micro-unit; a negative amount throws.
AmountParses(typed) == typed >= 0
ParseUsdt(typed) == (typed + 5) \div 10

\* A stealth address as text: a prefix and two keys.
Encode(address) == <<address.spend, address.view>>
Decode(text) == [spend |-> text[1], view |-> text[2]]

\* createOneTimeOutput, with the ephemeral key it draws.
WasmCreateOneTimeOutput(spendPub, viewPub, typed, ephemeral) ==
    IF AllKeys(<<spendPub, viewPub>>) /\ AmountParses(typed)
    THEN {CreateOneTimeOutput(to, ephemeral, ParseUsdt(typed)) :
            to \in {a \in {[spend |-> Key(spendPub), view |-> Key(viewPub)]} :
                      OutputIsMade(a, ephemeral)}}
    ELSE {}

\* scanOutput answers no to what is garbled.
WasmScanOutput(viewPriv, spendPub, ephemeralPub, dest) ==
    /\ AllKeys(<<viewPriv, spendPub, ephemeralPub, dest>>)
    /\ Key(dest) = Plus(Times(Shared(Key(viewPriv), Key(ephemeralPub)), Base), Key(spendPub))

\* deriveOneTimePrivateKey
WasmDeriveKey(viewPriv, spendPriv, ephemeralPub, dest) ==
    IF AllKeys(<<viewPriv, spendPriv, ephemeralPub, dest>>)
    THEN {ToHex(DeriveOneTimePrivateKey([view |-> Key(viewPriv), spend |-> Key(spendPriv)],
                                        [ephemeral |-> Key(ephemeralPub)]))}
    ELSE {}

\* computeKeyImage
WasmKeyImage(priv, dest) ==
    IF AllKeys(<<priv, dest>>) THEN {ToHex(ComputeKeyImage(Key(priv), Key(dest)))} ELSE {}

\* computeCanonicalTxHash copies 32 bytes whatever the length: garbled text gives
\* whatever lies in memory.
WasmTxHash(outputs, typedFee, ring, image) ==
    IF AllKeys(ring) /\ IsKey(image)
    THEN {ToHex(CanonicalTxHash(outputs, ParseUsdt(typedFee), Keys(ring), Key(image)))}
    ELSE {ToHex(x) : x \in Scalar}

\* A signature as a page holds it.
SignatureText(sig) ==
    [image |-> ToHex(sig.image), ring |-> Texts(sig.ring),
     c0 |-> ToHex(sig.c0), responses |-> Texts(sig.responses)]

\* signTransaction
WasmSign(hash, ring, real, priv, alpha, drawn) ==
    IF IsKey(hash) /\ AllKeys(ring) /\ IsKey(priv)
    THEN {SignatureText(Sign(Key(hash), Keys(ring), real, Key(priv), alpha, drawn))}
    ELSE {}

\* /tx/push: the signature the texts stand for; anything garbled is refused.
ParsedSignature(sig) ==
    IF IsKey(sig.image) /\ IsKey(sig.c0) /\ AllKeys(sig.ring) /\ AllKeys(sig.responses)
    THEN {[image |-> Key(sig.image), c0 |-> Key(sig.c0),
           ring |-> Keys(sig.ring), responses |-> Keys(sig.responses)]}
    ELSE {}

\* verifySignature
WasmVerify(hash, sig) ==
    IsKey(hash) /\ \E parsed \in ParsedSignature(sig) : Verify(Key(hash), parsed)

\* /chain/decoys: at most so many, none of them the excluded key, all different.
Decoys(count, pool, exclude) ==
    {d \in UNION {[1 .. n -> pool \ {exclude}] : n \in 0 .. count} : IsInjective(d)}

=============================================================================
