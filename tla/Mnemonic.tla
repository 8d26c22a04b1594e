------------------------------ MODULE Mnemonic ------------------------------
(***************************************************************************)
(* Seed phrases (src/mnemonic.cpp): entropy and a checksum byte packed into  *)
(* words, and back.  The code has 33 bytes of 8 bits and 24 words of 11; the *)
(* widths are parameters, and a word is its index in the list.               *)
(***************************************************************************)
EXTENDS Integers, Sequences, SequencesExt

CONSTANTS
    ByteBits, WordBits, WordCount, EntropyBytes,
    Sha(_)      \* the first byte of SHA-256, as a function of the bytes

ASSUME PhraseFits ==
    /\ {ByteBits, WordBits, WordCount, EntropyBytes} \subseteq Nat \ {0}
    /\ WordBits * WordCount = ByteBits * (EntropyBytes + 1)
    /\ WordBits + ByteBits - 1 <= 3 * ByteBits
    /\ ((WordCount - 1) * WordBits) \div ByteBits < EntropyBytes

Byte == 0 .. 2^ByteBits - 1
Word == 0 .. 2^WordBits - 1

\* What a user types may hold a word that is not in the list.
UnknownWord == 2^WordBits

Entropy == [1 .. EntropyBytes -> Byte]

\* Fault: the shift forgets the bits of the first byte already used.
WordAtByteBoundary(stream, i) ==
    LET byte == (i * WordBits) \div ByteBits + 1
        window == stream[byte] * 2^ByteBits + stream[byte + 1]
    IN  (window \div 2^(2 * ByteBits - WordBits)) % 2^WordBits

\* The 11 bits of word i (from 0), out of a window of three bytes; the third is
\* left out at the end of the stream.
WordAt(stream, i) ==
    LET byte == (i * WordBits) \div ByteBits + 1
        rem == (i * WordBits) % ByteBits
        window == stream[byte] * 2^(2 * ByteBits) + stream[byte + 1] * 2^ByteBits
                    + IF byte + 2 <= Len(stream) THEN stream[byte + 2] ELSE 0
    IN  (window \div 2^(3 * ByteBits - WordBits - rem)) % 2^WordBits

\* generate_24_words, for the entropy it draws.
GenerateWords(entropy) ==
    LET stream == Append(entropy, Sha(entropy))
    IN  [i \in 1 .. WordCount |-> WordAt(stream, i - 1)]

\* Bit k (from 0) of the words put end to end, the high bit of each first.
BitAt(words, k) ==
    (words[k \div WordBits + 1] \div 2^(WordBits - 1 - (k % WordBits))) % 2

\* The bytes the loops of validate_mnemonic and mnemonic_to_entropy set bit by bit.
BytesOf(words) ==
    [j \in 1 .. EntropyBytes + 1 |->
        FoldLeft(LAMBDA byte, k : 2 * byte + BitAt(words, (j - 1) * ByteBits + k - 1),
                 0, [k \in 1 .. ByteBits |-> k])]

MnemonicToEntropy(words) == SubSeq(BytesOf(words), 1, EntropyBytes)

ValidateMnemonic(words) ==
    /\ Len(words) = WordCount
    /\ \A i \in DOMAIN words : words[i] \in Word
    /\ Sha(MnemonicToEntropy(words)) = BytesOf(words)[EntropyBytes + 1]

=============================================================================
