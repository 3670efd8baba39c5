--------------------------------- MODULE Bloom ---------------------------------
(***************************************************************************)
(* The Bloom filter of a sync.request (packages/network/src/sync.ts:30-61): *)
(* a bit array, kept as the set of bits of each byte, and three positions  *)
(* for every hash.  What simpleHash computes is left open.                 *)
(***************************************************************************)
EXTENDS Integers

CONSTANTS Hashes,       \* event hashes
          Bytes,        \* length of the array, 256 in the code
          SimpleHash    \* of a hash and a seed, before it is reduced

Seeds == 0..2

ASSUME BloomAssumption ==
    /\ Bytes \in Nat \ {0}
    /\ SimpleHash \in [Hashes \X Seeds -> Nat]

Pos(hash, seed) == SimpleHash[<<hash, seed>>] % (8 * Bytes)

BuildBloomFilter(hashes) ==
    [b \in 0..(Bytes - 1) |->
        {bit \in 0..7 : \E hash \in hashes, seed \in Seeds :
                            /\ Pos(hash, seed) \div 8 = b
                            /\ Pos(hash, seed) % 8 = bit}]

BloomContains(bits, hash) ==
    \A seed \in Seeds : Pos(hash, seed) % 8 \in bits[Pos(hash, seed) \div 8]

\* Mutant: a word of eight bits is addressed as one of sixteen.
BloomContainsWide(bits, hash) ==
    \A seed \in Seeds : Pos(hash, seed) % 8 \in bits[Pos(hash, seed) \div 16]
================================================================================
