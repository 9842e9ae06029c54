----------------------------- MODULE Compaction -----------------------------
(***************************************************************************)
(* The decisions of the size-tiered compaction engine                      *)
(* (internal/compaction): how registered files fall into tiers, whether    *)
(* one of them is due, and which one RunOnce picks.  files is a set of     *)
(* file IDs and size[f] the recorded size of file f.                       *)
(***************************************************************************)
EXTENDS Tables, Sequences, SequencesExt

(***************************************************************************)
(* groupBySize: files in ascending order of size; a file joins the current *)
(* tier while it is less than twice as large as that tier's smallest file. *)
(* Files of equal size always share a tier, so the order sort.Slice leaves *)
(* them in, here that of their IDs, does not matter.                       *)
(***************************************************************************)
SizeTierRatio == 2

GroupBySize(files, size) ==
    LET Smallest(tier) == LET s == Min({size[g] : g \in tier})
                          IN  IF s = 0 THEN 1 ELSE s
        Place(tiers, f) ==
            IF tiers # <<>> /\ size[f] < SizeTierRatio * Smallest(Last(tiers))
            THEN Append(Front(tiers), Last(tiers) \cup {f})
            ELSE Append(tiers, {f})
        Smaller(f, g) == size[f] < size[g] \/ (size[f] = size[g] /\ f < g)
    IN  FoldLeft(Place, <<>>, InOrder(files, Smaller))

Due(tiers, threshold) == {i \in DOMAIN tiers : Cardinality(tiers[i]) >= threshold}

NeedsCompaction(files, size, threshold) ==
    Due(GroupBySize(files, size), threshold) # {}

(***************************************************************************)
(* The tier RunOnce selects: the one with the most files among those that  *)
(* are due, the one of smaller files on a tie; {} when none is due.        *)
(***************************************************************************)
SelectedTier(files, size, threshold) ==
    LET tiers == GroupBySize(files, size)
        due   == Due(tiers, threshold)
        Better(i, j) == \/ Cardinality(tiers[i]) > Cardinality(tiers[j])
                        \/ Cardinality(tiers[i]) = Cardinality(tiers[j]) /\ i <= j
    IN  IF due = {} THEN {}
        ELSE tiers[CHOOSE i \in due : \A j \in due : Better(i, j)]
=============================================================================
