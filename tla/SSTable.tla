------------------------------ MODULE SSTable ------------------------------
(***************************************************************************)
(* An SSTable file (internal/sstable): how the writer lays it out and what *)
(* the reader and its iterator find in it.  A file is a sequence of        *)
(* sections: data blocks, index, Bloom filter, footer, each with its size  *)
(* in bytes; index and footer refer to sections by byte offset and length. *)
(* Inside a block, byte offsets are abstracted to positions of entries.    *)
(***************************************************************************)
EXTENDS Bloom, SequencesExt

CONSTANTS
    Refused,    \* Open returned an error
    Unreadable  \* a block that cannot be read or fails its CRC

ASSUME UnreadableAssumption == Unreadable \notin Seq([key : Keys, ent : Entries])

EntryHeaderSize      == 9
IndexEntryHeaderSize == 16
TrailerSize          == 4
FooterSize           == 48
DefaultBlockSize     == 4096

-----------------------------------------------------------------------------
(* Writer.                                                                 *)

\* A section; only the footer has the magic number where Open looks for it.
Section(size, data) == [size |-> size, data |-> data, magic |-> FALSE]

NewWriter(blockSize) ==
    [blockSize |-> IF blockSize <= 0 THEN DefaultBlockSize ELSE blockSize,
     block |-> <<>>, blockBytes |-> 0, blockStart |-> 0, offset |-> 0,
     index |-> <<>>, allKeys |-> <<>>, out |-> <<>>]

\* The block is written with its CRC, gets an index entry, and is emptied.
FlushBlock(w) ==
    IF w.block = <<>> THEN w
    ELSE [w EXCEPT !.out    = Append(@, Section(w.blockBytes + TrailerSize, w.block)),
                   !.offset = @ + w.blockBytes + TrailerSize,
                   !.index  = Append(@, [firstKey |-> w.block[1].key, offset |-> w.blockStart,
                                         len |-> w.blockBytes + TrailerSize]),
                   !.block  = <<>>, !.blockBytes = 0]

Add(w, k, e) ==
    LET w1 == [w EXCEPT !.block      = Append(@, [key |-> k, ent |-> e]),
                        !.blockBytes = @ + EntryHeaderSize + KeyLen + EntryLen(e),
                        !.blockStart = IF w.block = <<>> THEN w.offset ELSE @,
                        !.allKeys    = Append(@, k)]
    IN  IF w1.blockBytes >= w.blockSize THEN FlushBlock(w1) ELSE w1

\* Finish: the last block, then index, filter and footer.
Finish(w) ==
    LET w1    == FlushBlock(w)
        index == Section(Len(w1.index) * (IndexEntryHeaderSize + KeyLen), w1.index)
        f     == Build(w1.allKeys)
        bloom == Section(EncodedSize(f), Encode(f))
        foot  == [indexOffset |-> w1.offset, indexLen |-> index.size,
                  bloomOffset |-> w1.offset + index.size, bloomLen |-> bloom.size,
                  numEntries  |-> Len(w1.allKeys)]
    IN  w1.out \o <<index, bloom, [size |-> FooterSize, data |-> foot, magic |-> TRUE]>>

\* A section of which only some bytes are there, and what an error or the end of
\* the process may leave of a file: some sections and perhaps a part of the next
\* one.  (So does a power failure when the storage writes a file front to back;
\* pages that arrive in another order are not among the cuts.)
Torn == Section(1, <<>>)

Cuts(file) == {SubSeq(file, 1, n) : n \in 0..Len(file)}
              \cup {Append(SubSeq(file, 1, n), Torn) : n \in 0..(Len(file) - 1)}

-----------------------------------------------------------------------------
(* Reader.                                                                 *)

Offset(file, i) == MapThenSumSet(LAMBDA j : file[j].size, 1..(i - 1))

FileBytes(file) == Offset(file, Len(file) + 1)

\* ReadAt: the contents of the section at that offset with that length; other
\* bytes make no sense to any caller.
ReadAt(file, offset, len) ==
    LET S == {i \in DOMAIN file : Offset(file, i) = offset /\ file[i].size = len}
    IN  IF S = {} THEN Unreadable ELSE file[Max(S)].data

\* The last 48 bytes carry the magic number: they are a whole footer.
HasFooter(file) == file # <<>> /\ Last(file).magic

\* Open: size, magic number and version are checked, then index and filter are
\* loaded.
OpenTable(file) ==
    IF ~HasFooter(file) THEN Refused
    ELSE LET foot == Last(file).data
         IN  [file |-> file, numEntries |-> foot.numEntries,
              index  |-> ReadAt(file, foot.indexOffset, foot.indexLen),
              filter |-> Decode(ReadAt(file, foot.bloomOffset, foot.bloomLen))]

\* searchIndex: the last block whose first key is not greater, 0 if none.
SearchIndex(index, k) ==
    LET n == Len(index)
        search[s \in [lo : 1..(n + 1), hi : 0..n, result : 0..n]] ==
            IF s.lo > s.hi THEN s.result
            ELSE LET mid == (s.lo + s.hi) \div 2
                 IN  IF index[mid].firstKey <= k
                     THEN search[[s EXCEPT !.lo = mid + 1, !.result = mid]]
                     ELSE search[[s EXCEPT !.hi = mid - 1]]
    IN  search[[lo |-> 1, hi |-> n, result |-> 0]]

\* readBlock, when the blocks at the offsets bad do not match their CRC.
ReadBlock(r, ie, bad) ==
    IF ie.offset \in bad THEN Unreadable ELSE ReadAt(r.file, ie.offset, ie.len)

\* scanBlock: linear, up to the first key that is not smaller.
ScanBlock(block, k) ==
    LET S == {i \in DOMAIN block : block[i].key >= k}
    IN  IF S = {} \/ block[Min(S)].key # k THEN NoEntry ELSE block[Min(S)].ent

\* Reader.Get.
ReaderGet(r, k, bad) ==
    LET b     == SearchIndex(r.index, k)
        block == ReadBlock(r, r.index[b], bad)
    IN  IF ~MayContain(r.filter, k) \/ b = 0 THEN NoEntry
        ELSE IF block = Unreadable THEN Unreadable ELSE ScanBlock(block, k)

-----------------------------------------------------------------------------
(* SSTableIterator: the block it reads, what is left of that block, and    *)
(* the current entry.                                                      *)

Ended(it) == [it EXCEPT !.valid = FALSE]

\* advance.  A block that cannot be read ends the iteration like the last one.
Advance(r, it, bad) ==
    LET show(b, rest) == [block |-> b, rest |-> Tail(rest), valid |-> TRUE,
                          key |-> Head(rest).key, ent |-> Head(rest).ent]
        load[b \in 1..(Len(r.index) + 1)] ==
            IF b > Len(r.index) THEN Ended(it)
            ELSE LET block == ReadBlock(r, r.index[b], bad)
                 IN  IF block = Unreadable THEN Ended(it)
                     ELSE IF block = <<>> THEN load[b + 1] ELSE show(b, block)
    IN  IF it.rest # <<>> THEN show(it.block, it.rest) ELSE load[it.block + 1]

SeekToFirst(r, bad) ==
    Advance(r, [block |-> 0, rest |-> <<>>, valid |-> TRUE, key |-> 0, ent |-> NoEntry], bad)
=============================================================================
