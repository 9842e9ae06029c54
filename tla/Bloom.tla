------------------------------- MODULE Bloom -------------------------------
(***************************************************************************)
(* The Bloom filter of internal/bloom.  A byte of the bit array is the set *)
(* of its bits that are 1.  The three seeded MurmurHash3 functions are a   *)
(* constant: nothing a filter promises depends on which functions they     *)
(* are.  BuildFirstHash and EncodedSizeBitsOnly are wrong forms of the     *)
(* definition that follows them, which properties of Storage reject.       *)
(***************************************************************************)
EXTENDS Tables, Integers, Sequences

CONSTANT Hash   \* Hash[s][k]: the 32-bit hash of key k under the seed s

Seeds == 0..2

ASSUME HashAssumption == Hash \in [Seeds -> [Keys -> Nat]]

GetBit(bits, p) == p % 8 \in bits[p \div 8 + 1]

\* Build: the array in which exactly the bits that some key hashes to are set.
BuildFirstHash(keys) ==
    LET m == 8 * BloomBytes(Len(keys))
    IN  [k |-> 3, m |-> m,
         bits |-> [b \in 1..BloomBytes(Len(keys)) |->
                     {j \in 0..7 : \E i \in DOMAIN keys : Hash[0][keys[i]] % m = 8 * (b - 1) + j}]]

Build(keys) ==
    LET m == 8 * BloomBytes(Len(keys))
    IN  [k |-> 3, m |-> m,
         bits |-> [b \in 1..BloomBytes(Len(keys)) |->
                     {j \in 0..7 : \E i \in DOMAIN keys, s \in Seeds :
                                      Hash[s][keys[i]] % m = 8 * (b - 1) + j}]]

\* An empty filter (of no keys, or decoded from malformed data) contains nothing.
MayContain(f, key) ==
    f.m # 0 /\ \A s \in Seeds : GetBit(f.bits, Hash[s][key] % f.m)

\* The wire format: k, m, and the bytes of the bit array.
Encode(f) == <<f.k, f.m>> \o f.bits

EncodedSizeBitsOnly(f) == Len(f.bits)

EncodedSize(f) == 5 + Len(f.bits)

Decode(data) ==
    IF Len(data) < 2 THEN [k |-> 0, m |-> 0, bits |-> <<>>]
    ELSE [k |-> data[1], m |-> data[2], bits |-> SubSeq(data, 3, Len(data))]
=============================================================================
