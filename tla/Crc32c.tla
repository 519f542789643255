------------------------------- MODULE Crc32c -------------------------------
(***************************************************************************)
(* hash_impl of map.hpp up to its finaliser: the CRC32C of a key, by table *)
(* when the program is compiled and by the processor's instruction, eight  *)
(* bytes at a time, when it runs.  A word is the set of its bits.          *)
(***************************************************************************)
EXTENDS OneCall

IsHashJob(j) == j.key \in Seq(0 .. 255) /\ j.seed \in SUBSET (0 .. 31)

Xor(a, b) == (a \ b) \cup (b \ a)
Down(a, n) == {b - n : b \in {b \in a : b >= n}}
Up(a, n) == {b + n : b \in a}
Low(a, n) == {b \in a : b < n}
Bits(byte) == {b \in 0 .. 7 : (byte \div 2 ^ b) % 2 = 1}

k_polynomial == {3, 4, 5, 6, 8, 9, 11, 12, 13, 17, 18, 20, 21, 22, 23, 25, 31}

Shift(a) == Xor(Down(a, 1), IF 0 \in a THEN k_polynomial ELSE {})
k_table ==
  [bits \in SUBSET (0 .. 7) |->
     LET res[j \in 0 .. 8] == IF j = 0 THEN bits ELSE Shift(res[j - 1]) IN res[8]]

update_byte(crc, byte) == Xor(Down(crc, 8), k_table[Low(Xor(crc, Bits(byte)), 8)])

hash_software(key, seed) ==
  LET crc[i \in 0 .. Len(key)] == IF i = 0 THEN seed ELSE update_byte(crc[i - 1], key[i])
  IN  crc[Len(key)]

(* The instruction: n bits, the lowest first, divided by the polynomial    *)
(* x^32 + x^28 + x^27 + ... that the processor knows.                      *)
Castagnoli == {31 - p : p \in {28, 27, 26, 25, 23, 22, 20, 19, 18, 14, 13, 11, 10, 9, 8, 6, 0}}
crc32_instruction(crc, word, n) ==
  LET left[i \in 0 .. n] ==
        IF i = 0 THEN Xor(crc, word)
        ELSE LET a == left[i - 1] IN Xor(Down(a, 1), IF 0 \in a THEN Castagnoli ELSE {})
  IN  left[n]
-----------------------------------------------------------------------------
HashStart == [i |-> 0, crc |-> job.seed]
Hashes == Runs("hash_impl")

(* Mutant: the first byte of eight goes to the top of the word.            *)
ChunkBackwards(key, i) == UNION {Up(Bits(key[i + 1 + j]), 8 * (7 - j)) : j \in 0 .. 7}

Chunk(key, i) == UNION {Up(Bits(key[i + 1 + j]), 8 * j) : j \in 0 .. 7}

TakeEight ==
  /\ Hashes /\ st.i + 8 <= Len(job.key)
  /\ Goes([i |-> st.i + 8, crc |-> crc32_instruction(st.crc, Chunk(job.key, st.i), 64)])

TakeOne ==
  /\ Hashes /\ st.i + 8 > Len(job.key) /\ st.i < Len(job.key)
  /\ Goes([i |-> st.i + 1, crc |-> crc32_instruction(st.crc, Bits(job.key[st.i + 1]), 8)])

Hashed == /\ Hashes /\ st.i = Len(job.key)
          /\ Returns(st.crc)

HashNext == TakeEight \/ TakeOne \/ Hashed
=============================================================================
