-------------------------------- MODULE MCDB --------------------------------
(* Small instances of DB for TLC. *)
EXTENDS DBStore

CONSTANTS v1, v2

\* Values of one byte; or one short and one long value, so that tables fall
\* into different size tiers.
ShortValues == [v \in Values |-> 1]
MixedValues == [v \in Values |-> IF v = v1 THEN 1 ELSE 200]

\* No flush and no compaction at the same time.
OneAtATime == fpc \notin {"idle", "done"} => cpc \in {"idle", "done"}

ClientSymmetry == Permutations(Writers) \cup Permutations(Readers)
=============================================================================
