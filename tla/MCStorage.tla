----------------------------- MODULE MCStorage -----------------------------
(* A small instance of Storage for TLC. *)
EXTENDS Storage

CONSTANTS v1, v2

\* A value so short that entries share a block, and one that fills a block.
ShortAndLong == [v \in Values |-> IF v = v1 THEN 1 ELSE 12]

\* Hash functions with collisions between keys and between seeds.
SmallHash == [s \in Seeds |-> [k \in Keys |-> (k * (s + 3) + 5 * s) % 17]]
=============================================================================
