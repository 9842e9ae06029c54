# VaultKV in TLA+

A verification project for VaultKV, the LSM-tree key-value store of this
repository: TLA+ models of the storage engine, its write-ahead log, its data
structures and its server, TLC runs on small instances, and TLAPS proofs for all
values of the constants. Paths
below are relative to `src/`.

## The system

| Part | Source | State | Operations | Interacts with |
|---|---|---|---|---|
| Storage engine | `db.go` | `active`, `immutable`, `nextFileID` (under `mu`), `readers` (under `sstMu`), three channels, `closed` | `Open`, `Set`, `Delete`, `Get`, `Close`, `Stats`; goroutines `flushLoop`, `compactionLoop`, `syncLoop` | everything below |
| Write-ahead log | `internal/wal` | one file, one mutex | `Append`, `Sync`, `Replay`, `Close` | appended by clients, fsynced by `syncLoop`, replayed by `Open` |
| MemTable | `internal/memtable` | skip list, `length`, `byteSize` | `Set`, `Delete`, `Get`, iterator | written by clients, flushed by `flushLoop` |
| SSTables | `internal/sstable` | files `%016x.sst`; a reader holds footer, index and filter | writer `Add`/`Finish`, reader `Get`, iterator | written by flush and merge, read by `Get` and merge, unlinked by compaction |
| Bloom filter | `internal/bloom` | bit array | `Build`, `MayContain`, `Encode`, `Decode` | inside an SSTable |
| Compaction engine | `internal/compaction` | file list, `running` (under `mu`) | `AddFile`, `NeedsCompaction`, `RunOnce` (`merge`) | called by `flushLoop` and `compactionLoop` |
| TCP server, CLI | `cmd/` | listener, connections, signal channel | accept loop, `handleConn` per connection, signal goroutine, deferred closes | calls the engine |

What is hard here: a write is two critical sections (log, then MemTable); a
flush is six steps during which entries move from MemTable to file; a
compaction allocates its ID, selects, merges, commits, removes files and
reloads all readers while flushes go on; a `Get` looks at the MemTables, the
reader list and each file at different moments; `Close` races all of them; a
crash may fall between any two steps and tear a log record anywhere. Below that,
tower heights, block boundaries, the sparse index and the filter must together
never hide a key; above it, the server closes the store while handlers still call
it, and clients disconnect in the middle of a line. What makes it correct: an acknowledged write survives (in `SyncFull`), the newest write of
a key is the one read, an SSTable is never modified, files and handles are
neither lost nor reused, tokens are not lost, `Close` returns, a reply answers
the request it is taken for. `PROJECT.json`
lists the hazards line by line.

## Modules

* `Tables` - what a MemTable or an SSTable holds: a function from keys to a
  value, `Tombstone` or `NoEntry`. Byte and entry counts, and the file size
  of the on-disk layout, are exact because they decide about rotation and tiers
  (a table is assumed to fit one data block).
* `Compaction` - `groupBySize`, `NeedsCompaction` and the selection of
  `RunOnce` as operators.
* `DB` - the engine. `wal`/`synced` are the log and its fsynced length, `piece` is
  where the first part of a record lies that a failed write or a crash left in it
  (`Replay` stops there and truncates), `dir` and `torn` the complete and the partly written files, `tab[f]` the contents of
  file `f`. The other variables are the fields of `DB` and `Engine`, a program
  counter and the locals of each client, of `flushLoop` (`fpc`) and of
  `compactionLoop` (`cpc`), and `life`, how far `Close` has come. An action is
  one critical section or one disk operation. `latest`, `seen` and `acked` are
  observers: last applied entry of each key, what a running `Get` may return,
  and the acknowledged records.
* `KeyValue` - what the engine promises its callers: a map whose calls take
  effect in one step between their start and their return, and which a crash or
  `Close` leaves as it is, except that a call under way may or may not have taken
  effect. `DBStore` is the refinement mapping from `DB` (`StoreImplemented`):
  the store is what a lookup at rest finds, and after a crash what the next
  `Open` will find. It also names the orderings of steps under which `DB` does
  implement `KeyValue` (`StepsInOrder`).
* `WAL` - the log file as a sequence of pieces (whole record, or what a crash or
  a short write left: part of the header, exactly the header, part of the
  payload). `Replay` is followed branch by branch. `storage` is chosen once per
  behaviour and says which pieces crashes and short writes leave.
* `DurableLog` - what the engine needs of the log; `WAL!LogImplemented` is the
  refinement.
* `SkipList` - the towers of the MemTable, the descent, insert, overwrite,
  tombstone, the two counters and the iterator, as operators.
* `Bloom` - `Build`, `MayContain`, `Encode` and `Decode` over any hash functions.
* `SSTable` - the writer, the layout (data blocks, sparse index, filter, footer)
  with its byte offsets, `Open` with its checks, index search, block scan and the
  iterator, as operators. A file is a sequence of parts; `Cuts` are the files that
  the end of the process, or storage that writes front to back, can leave of one.
* `Storage` - composes the three: MemTables are filled and flushed, the files
  read back and merged, with damaged blocks and crashes. It checks the view that
  `DB` and `Tables` take of tables against the data structures.
* `Server` - `cmd/server` and its clients (of which `cmd/cli` is one) on top of
  `KeyValue`.
* `MCDB`, `MCWAL`, `MCStorage`, `MCServer` - the instances.
* `DBProofs` (log and file IDs), `FileProofs` (file list, handles, removal),
  `StoreProofs` (what is seen at rest) and `RefinementProofs` (what a running `Get`
  sees, and the refinement of `KeyValue`) - theorems about `DB`, each module on top
  of the one before; `WALProofs`, `ServerProofs` - those about `WAL` and
  `Server`; `StorageProofs` - those about `Storage` and the three modules below it;
  `Order` - lemmas about sets of numbers and about sums.

| Code | Actions of `DB` |
|---|---|
| `Set`, `Delete` | `BeginWrite`, `WalAppend`/`WalAppendError`, `Apply`, `SignalFlush` |
| `Get` | `BeginGet`, `GetMem`, `GetCopy`, `GetScan` (one per reader), `GetReturn` |
| `flushLoop`, `flushIfNeeded`, `flushMemTable` | `FlushTake`, `FlushCheck`, `FlushCreate`, `FlushFinish`/`FlushError`, `FlushInstall`, `FlushAdd`, `FlushClear`, `FlushSignal` |
| `compactionLoop`, `RunOnce`, `merge` | `CompactTake`, `CompactCheck`, `CompactAlloc`, `CompactSelect`, `CompactMerge` (one per key), `CompactFinish`/`CompactError`, `CompactCommit`, `CompactRemove` (one per input) |
| `reloadReaders` | `CompactGlob`, `CompactSwap`, `CompactCloseOld` |
| `syncLoop` | `SyncTick`/`SyncTickError` |
| `Close` | `BeginClose`, `CloseSignal`, `CloseWait`, `CloseReaders`, `CloseWAL` |
| crash; `Open` | `Crash`; `Open` (`loadSSTables` and `replayWAL`) |

| Code | Actions of `Storage` |
|---|---|
| `MemTable.Set`, `Delete` | `Write` |
| `WriteFromMemTable` | `BeginFlush`, `FlushAdd` (one per entry), `FlushFinish` |
| `merge` | `BeginMerge`, `MergeStep` (one per heap pop), `MergeFinish`; `AddFile` (a file registered meanwhile, which changes the tombstone test) |
| faults | `Damage` (a block fails its CRC), `Crash` (while a file is written) |

| Code | Actions of `Server` |
|---|---|
| clients | `Connect`, `Send`, `Leave` |
| `handleConn` | `Accept`, `SkipLine`, `AnswerLine`, `CallStore`, `InCall`, `Returns`, `Reply`, `Hangup` |
| `main` | `Listen`, `ListenError`, `AcceptError`, `CloseStore`, `Exit`, `Start` |
| signals | `Signal`, `SignalHandler`, `Kill` |

A handler's loop iteration is split where another goroutine can come in between:
taking the line, the call's start, the moment it takes effect, its return, the
reply. A last line without a line end is executed like any other, because
`bufio.Scanner` hands it out (`cmd/server/main.go:107`); a client that breaks off
in the middle of `SET k value` may have stored a shorter value, and the model
lets it. `Reply` takes a `+OK` as an acknowledgement only when the oldest waiting
request is a write: a `GET` of the value `OK` is answered `+OK` as well.

Locks do not appear as variables where an action is the whole critical section.
The engine's lock does show: `RunOnce` keeps it while it removes files, so
`FlushAdd` waits then. `CompactError` is a merge that fails before its output is
created, while it is written, or when it is complete (its fsync or `os.Stat`): then
the file stays and `reloadReaders` opens it, although the engine does not list it.
`Close` whose last fsync fails returns with the log still open (`life = "failed"`),
so a call that is still under way appends after it. The directory entry of a finished file is taken to be
durable once the file is fsynced (the code fsyncs no directory).

## Runs

Passing:

| Run | Instance | Shows |
|---|---|---|
| `crash` | 2 writers, 1 key, 2 log records, 2 crashes/restarts, 1 I/O error (of a write, a flush, a merge, a removal), `SyncFull`, while `NothingBehindPiece` | `WriteAhead`, `AckedDurable`, `EngineOnDisk`, `HandlesOwned`, `TablesImmutable`, `TypeOK` |
| `read` | 2 writers, one of which also reads, 2 keys, 2 records, a crash or `Close` and a restart, threshold 2, `SyncFull`, while `StepsInOrder` | `StoreImplemented`, `NewestVisible`, `TablesReadable`, `ReplayAgrees` |
| `compact` | 1 writer, 1 key, a short and a long value (two size tiers), 4 records, threshold 2, while `IDsInOrder` | `SafeRemoval` |
| `live` | `SyncBatched`, 2 records, a failing flush or fsync, fairness | `FlushHappens`, `CloseReturns`, `EventuallySynced` |
| `wal` | 5 records, fsync may fail, storage that tears payloads only or storage that leaves any piece | `PromisesKept` and `LogImplemented` on the former; `ReplayInOrder`, `RecoveredStays`, `TypeOK` on both |
| `files` | 3 keys, a short and a long value, towers of 1 or 2, two flushes and their merge, one damaged block or crash | `MemTableRight`, `CountsRight`, `LookupRight`, `MergeExact`, `SizeAgrees` |
| `server` | 2 connections with 2 and 1 requests, 2 processes, fairness | `AckedStored`, `ReadYourWrites`, `RepliesInStep`, `ShutdownEnds`, `AlwaysAnswered` |

Violations, where the code does something else than its documentation says:

| Run | Property | What happens |
|---|---|---|
| `stale` | `NewestVisible` | two older files of one size tier are merged while a newer file is in another tier; the output has the highest ID and shadows the newer value |
| `lost` | `TablesReadable` | `reloadReaders` swaps in a list made before a flush finished its file; the file has no reader |
| `order` | `ReplayAgrees` | two writers of a key are logged in one order and applied in the other |
| `torn_header` | `PromisesReplayed` | part of a header is left in the file, and fsynced records written behind it are cut off later |
| `bare_header` | `OpenSucceeds` | exactly a header is left, and `Open` fails with `io.EOF` |

The properties of `stale`, `lost` and `order` hold in run `read`, whose behaviours
are followed only as long as `StepsInOrder`, and each is proved under its own part
of that condition (see Proofs); that of `torn_header` holds in `wal` (as `PromisesKept`) on storage that
tears payloads only. Run `stale` is constrained to behaviours in which no flush
overlaps a compaction (`OneAtATime`): the disorder needs no race. An overlap is
a second way to it, since an output ID may also be higher than that of a flush
under way.

`StoreImplemented` is therefore checked, and proved, in `SyncFull` and while
`StepsInOrder`. Besides the three orderings that these runs show, that rules out
two more: a record appended behind part of another (`torn_header`, at the level of
the engine), and the one by which a `Get` returns an error for a key that exists,
because `reloadReaders` closes readers that the `Get` still holds (`db.go:421`).
`db.go:19` says "safe for concurrent use by multiple goroutines"; without
`ReadersLetGo` among the conditions TLC finds the failing `Get` in run `read`.

One more disagreement shows in a passing run. `README.md:297` says "WAL truncated
after SSTable flush"; no code does that. The log only ever loses what `Replay` cuts
off, every entry of every SSTable keeps its record in it (`WriteAhead`), `Open`
replays all of it over the files, and the refinement relies on that: a file may
bring back an old value (see `Failing` below) which the replayed log hides.

With `SyncBatched` a crash
may lose acknowledged writes, which `options.go` allows. `KeyValue` does allow a
`Get` that overlaps `Close` to return anything: `Close` empties the reader list
under it.

Bounds. `MemTableSize` 2 makes every one-byte value fill a MemTable, so each
`Set` may rotate it, and `Threshold` 2 makes two files a compaction; two records
therefore reach flush, compaction, reload and their overlaps, a third record
a flush during a compaction, a fourth a second compaction over the output of the
first. With four records `SafeRemoval` fails when a merge takes in a file that was
flushed after the output ID was allocated, so `compact` follows behaviours only as
long as `IDsInOrder` holds; `NewestVisible` fails there too, and `stale` reports it. A restart replays the log, so fewer records
suffice in `crash`. In `read` two records, of one key or of two, make two
flushes and the merge of their files, a `Get` on either side of each step that
passes a file without its key, and a restart that finds both files and log; two
calls that write different keys are logged in one order and applied in the other,
and of two that write one key each is begun at any point of the other. In `files` a long value fills a block of `BlockSize` 21
and a short one does not, so files have one to three blocks and every pair of
overlapping files is merged; a merge writes blocks of the default size, as the
code does. `NoFaultYet` bounds a behaviour to one fault. In `server` the two
requests of a client are pipelined (`Window` 2), one of them may be blank, cut
short, or longer than the scanner's buffer, and no key is a prefix of another.
`MaxFileID` is never reached in `read`, `compact` and
`live`. The length of the log is capped in `BeginWrite`, which leaves room for every
call that has begun, and in the guards of the appends; restarts and I/O errors are
capped in theirs; deadlock is not checked because a run stops at its
bounds and a closed database may rest. Writers are symmetric; symmetry is used
in `crash` only, never with liveness.

The compaction in `DB` works on tables of one block. `SizeAgrees` says that the
file size `DB` uses is then the real one, and `MergeExact` and `LookupRight` that
more blocks change nothing about contents; all three are proved for tables of any size.

Fairness (`FairSpec` of `DB`): weak fairness of every started client call, of each
background loop, of the rest of `Close`, and of the ticks of `syncLoop`. The Go
scheduler runs every runnable goroutine and no lock in this code is held for
ever. No client has to start a call, to close or to reopen. `FairSpec` of
`Server` asks the same of handlers, of the accept loop, of `main` and of the
signal goroutine; calls of the store return, which for `Close` is what run `live`
shows. Nothing is asked of clients, signals, I/O errors (an `Accept` that fails while
the listener is open among them), kills and restarts.

Crashes keep any prefix of the log that contains the fsynced part, and maybe part
of the record behind it. A failed write may leave part of its record, too
(`wal.go:142`), and nothing takes it away: `Append` writes the next record behind
it, and the next `Replay` cuts off all of that, acknowledged or not. The properties
about the log are checked and proved up to that moment, while `NothingBehindPiece`:
pieces come, are replayed and cut off, but no record has been appended behind one.

I/O errors are switched on per run by `Failing`: `compact` has none, because a failed
`os.Remove`, and in the same way a merge that fails when its output is complete
(`"stat"`), leaves a file the engine does not count: a later merge of all files it
does count drops a tombstone, and the value below it in that file comes back until a
restart. `crash` has no failing fsync, because `WriteAhead` assumes
storage that honours fsync. `AckedDurable` does not need that, and the theorem
about it allows failing fsyncs; `live` has them.

## Proofs

Every theorem is for all sets of clients, keys and values, all options, bounds
and numbers of crashes and restarts, from the named assumptions of the modules.
TLC checked each inductive invariant on an instance before it was proved, except
those of `StorageProofs`: they say that some writer, or some choice of levels,
exists that accounts for the state, which TLC cannot enumerate. There it checked
the properties they imply.

### The engine: `DBProofs`, `FileProofs`, `StoreProofs`, `RefinementProofs`

| Theorem | States | Inductive invariant, and why it is needed |
|---|---|---|
| `TypeCorrect` | `Spec => []TypeOK` | `TInv` adds `LocalsOK`: an acknowledgement has a positive log position only because a call past its append has one, and a file ID is one only while the loop holds it |
| `AckedNeverLost` | in `SyncFull`, while `NothingBehindPiece`: `[]AckedDurable` | `AckInv`: the record of every call between append and return is in the fsynced prefix, which no step takes back (`SyncedPrefix`); every I/O operation may fail |
| `LogComesFirst` | in `SyncFull` without failing fsyncs, while `NothingBehindPiece`: `[]WriteAhead` | `LogInv`: the same for the output of a running merge and for files not in the directory, and `synced = Len(wal)` |
| `FilesNeverRewritten` | `TablesImmutable` | `IDInv`: the IDs of complete tables, of the running flush and of the running compaction are pairwise different and at most `nextFileID` |
| `EngineListsFiles` | `[]EngineOnDisk` | `FileInv`: an input still to be removed is no longer listed, and the files that flush and compaction are about to list are in the directory |
| `HandlesAccounted` | `[]HandlesOwned` | `HandleInv`: the lists of readers are apart because a handle is a file and the call that opened it, and neither a file of a flush nor a compaction's reload comes twice |
| `InputsRemovedSafely` | without failing flushes, removals and `"stat"`, while `IDsInOrder`: `SafeRemoval` | `RemovalInv`: the output so far covers the inputs (`Covers`: a key left out is deleted, and no older file is there to show), the directory has no file the engine does not know of (`NoOrphan`) |
| `RestartKeepsValues` | without failing fsyncs, while `NoRacingWrites` and `NothingBehindPiece`: `[]ReplayAgrees` | `ReplayInv`: the last record about a key has been applied, or belongs to the one call about to apply it |
| `RegisteredReadable` | while `ReloadSeesFlush`: `[]TablesReadable` | `ReadableInv`: the same in the middle of flush, reload and `Close` |
| `LookupsFindNewest` | in `SyncFull` without failing fsyncs, flushes, removals and `"stat"`, while `FilesInOrder` and `NothingBehindPiece`: `[]NewestVisible` | `MergeInv` (the output holds the newest entries of the inputs) and `ShownInv` (MemTables and files show the last write in every state of a flush or a compaction, and the immutable MemTable is dropped only when the files answer for it), on top of all the others |
| `StoreRefines` | in `SyncFull` without I/O errors other than merges with an incomplete output, while `StepsInOrder`: `StoreImplemented` | `RefInv`: all of the above, `FreshIDs`, `ListsInv` and `GetInv` (see below) |

Seven say "while": their properties are false in general, as runs `order`,
`lost` and `stale` show of three of them, and `torn_header` of what needs
`NothingBehindPiece` (for `SafeRemoval` see Bounds, for
`StoreImplemented` all of these and `db.go:421`). The hypothesis of each names the ordering that nothing in the
code rules out, as a predicate that must hold in every state, and the theorem says
that nothing else breaks the property:

* `NoRacingWrites`: no two calls for one key are between append and apply. One
  writer per key is enough for that.
* `ReloadSeesFlush`: no flush installs its reader between the directory listing
  of a reload, without its file, and the swap.
* `IDsInOrder`: the inputs of a merge have lower IDs than its output and than the
  file of a flush under way. `RunOnce` selects after both IDs were taken, so a
  file flushed in between can be among its inputs.
* `FilesInOrder`: in addition a flush writes the highest ID in the directory, and
  no file lies between a merge's inputs and its output. TLC reaches flushes, merges,
  removals and restarts under it, so it is not an empty condition.
* `ReadersLetGo`: when `reloadReaders` closes the readers it replaced, no `Get` has
  one of them before it.
* `NothingBehindPiece`: no record has been appended behind part of another.
* `StepsInOrder`: `NoRacingWrites`, `FilesInOrder`, `ReloadSeesFlush`,
  `ReadersLetGo` and `NothingBehindPiece` together.

Failing flushes are excluded where they are because `flushIfNeeded` drops the
MemTable then (`db.go:270`), failing removals and errors behind a complete output
because a value may come back whose tombstone was merged away (see Runs).

`StoreRefines` is a simulation: every step of `DB` is the step of `KeyValue` of the
same meaning or changes nothing there (`NextSimulated`). `Apply` is where a write
takes effect, `GetMem` or `GetScan` where a `Get` is answered, `WalAppendError` on
a closed log and `GetReturn` end a call, `BeginClose` and `CloseReaders` are the two
phases of `Close`; flushes, compactions and the sync tick are invisible. Its parts:

* The map is the last applied write of every key, whenever there is a process or
  an unfinished call (`StoredIsLatest`): while it runs by `Shown`, and when the last
  call ends after `Close` by `Replayable`, since from then on the map is what `Open`
  would find. `LastShows` says that this is what a replay leaves: a key without a
  record is in no file (`UnloggedAbsent`, from `LogInv`).
* A crash leaves, of each key, the last applied write or that of the call between
  append and apply (`RestartShows`), because in `SyncFull` the whole log is fsynced.
* An open file keeps its contents (`FreshIDs`: neither flush nor merge writes a
  file that is open, and a flush writes one newer than all that are). So a list of
  readers goes on saying what it said when it was copied.
* The reader list and the list `reloadReaders` has made say what the directory
  says, except about a flushed file that has not been put in front of them and that
  the immutable MemTable still answers for (`ListsInv`).
* Whatever a running `Get` can still come upon was the value of its key at some
  moment of the call (`GetInv`): before it copies the reader list, everything that
  list may become - the list itself, the one a reload is about to swap in, the
  MemTables a flush is about to put in front - and afterwards every end of the search
  through the readers left.

### The log: `WALProofs`

* `LogTypeCorrect`, `RecordsInOrder`, `ReplayRepeats`: on any storage, `TypeOK`,
  `ReplayInOrder` and `RecoveredStays`. `InOrder` says that the numbers of all pieces
  of the file, torn ones included, rise; `GotInv` that what the last `Replay`
  delivered is still the beginning of the file.
* `LogKeepsPromises`: `PromisesKept`, on storage that tears payloads only.
  `KeptInv`: while the log is open every piece is whole; otherwise only the last one
  is torn, and it lies behind the fsynced part.
* `LogRefines`: `Spec => LogImplemented`. Step by step (`LogStep`): an append, a
  failed append, a sync, a crash and an open of `WAL` is the step of `DurableLog`
  of the same meaning, or changes nothing there.

### The server: `ServerProofs`

* `RepliesMatchRequests`: `RepliesInStep`. `StepInv` (`InStep`) relates what the
  client waits for with what has not been answered: there is an increasing map
  from the waiting requests onto the lines in the connection that are not blank,
  behind the request the handler works on.
* `AcknowledgedStored`, `OwnWritesRead`: `AckedStored` and `ReadYourWrites`.
  `OwnerInv` follows a value the owner of a key has written from the line to the
  reply: what is in the store, in a call or on its way is among the values the owner
  cannot rule out, and what a reply rules out is no longer on its way. Both build on
  `StepInv`, since a reply that answers another request would rule out the wrong
  value. The assumption is that of the property: no two connections own one key.

### The data structures: `StorageProofs`

| Theorem | States | Inductive invariant, or argument |
|---|---|---|
| `MemTableAnswers` | `[]MemTableRight` | `MemOK`: there are sets of keys, one per level, each part of the one below and the bottom one all keys with an entry, such that the links of a level are the order of its set (`Linked`). Without the upper levels the descent could start behind the key |
| `CountsKept` | `[]CountsRight` | `MemOK`: `length` and `byteSize` are the cardinality and a sum over the entries; overwriting and deleting change one term (`SizesPut`) |
| `NoFalseNegative` | a filter built from keys, stored and loaded again says "maybe" for each | `BitPosition`: a bit index meets the byte and mask it was stored with; `DecodeEncode`: the loaded filter is the stored one |
| `SearchFinds` | `searchIndex` on any sorted index | the loop's invariant (blocks up to `result` begin not above the key, those behind `hi` above it), by induction over the width of the range |
| `GetAnswers` | `Reader.Get` on any finished file; an error only for a key that belongs into an unreadable block | from the two above, and because the blocks cut the entries at increasing keys (`BlocksOK`) and each index entry holds the offset of its block (`WriterOK`) |
| `LookupsRight` | `[]LookupRight` | `FilesOK`: a flushed file that has a footer is what `Finish` makes of a writer with exactly the MemTable's entries; during a flush the writer has those up to the cursor |
| `SizesAgree` | `[]SizeAgrees` | `FilesOK`, and the size of a file as the sum over its parts (`SizeIs`) |
| `MergesExact` | `[]MergeExact` | `MergeOK`: each iterator stands at the first readable entry of its file that has not been dealt with (`IterOK`, `Pending`), and the writer has the merged entries up to `lastKey`; `full` remembers for each key how the tombstone test came out |

They hold for all finite sets of keys, all values, numbers of levels, heights, block sizes,
hash functions and damaged blocks, and for a crash after or in any part of a file. The number of
flushed files is the model's, two.

The operators of `SkipList`, `SSTable` and `Tables` compute with recursive functions
and folds. Each is first shown to be the function that satisfies its own recursion
(the lemmas called `...Unfold`); that such a function exists, and that it computes
what is claimed, is shown by induction over the positions the code moves
through: nodes to the right (`RightmostIsPred`), levels (`UpdateIsPred`), blocks
(`LoadIs`), the range still searched (`SearchExists`), subsets of the keys for
sizes and offsets. A file cut by a crash is accepted only if nothing is missing,
because the magic number is in the last part only (`CutIs`).

Assumed, besides `KeysAssumption` and its like of `Tables`: `SkipListAssumption` (the sentinel and nil are no keys), `HashAssumption`
(hashes are naturals), `UnreadableAssumption` (an unreadable block is told from a
block of entries) and `StorageAssumption` (no key is 0, which stands for the nil that
`lastKey` starts with, as the engine refuses empty keys).

### Lemmas about numbers: `Order`

What the proofs need of sets of numbers: a least and a greatest element, induction
over the naturals and over the subsets of a finite set, stated for a set instead
of a predicate because the provers cannot instantiate the library's induction
theorems, and sums over finite sets: that the recursion over picked
elements defines one, and that it does not depend on the order of picking (`SumAny`).

### Only model-checked

Liveness: `FlushHappens`, `CloseReturns`, `EventuallySynced`, `ShutdownEnds` and
`AlwaysAnswered`. Fairness and `ENABLED` are beyond the prover.

## Not modelled

* `Stats`: reads counters under three locks and changes nothing.
* `withDefaults` of `Options`, a list of independent assignments.
  `CompactionStrategy`, `BloomFPRate` and `MaxOpenFiles` are read nowhere.
* MurmurHash3: a constant function. What a filter promises does not depend on it,
  and its 32-bit products exceed TLC's integers. The rate of false positives is
  not stated.
* Damage to the index or filter of a file, which carry no checksum: nothing could
  be promised then. For the same reason, a power failure before the fsync that
  leaves a footer without the pages in front of it.
* The file descriptor of an SSTable writer, which is not closed when `Add` or
  `Finish` fails (`writer.go:158`, `329`): `HandlesOwned` is about readers.
* The binary heap of the merge (its order is `Top`); the `MinKey`, `MaxKey` and
  `Entries` of a file, which nothing reads.
* The wording of replies, the terminal side of the CLI, and clock time: a tick
  may come at any moment.
* In `DB`, tables of several blocks (see Bounds); empty keys, which the code
  refuses before anything happens.

The hazards without a property in `PROJECT.json` say why: the code returns an
error there, or neither code nor documentation promises anything.

## Plan

1. A statement of what `SyncBatched` leaves after a crash, and its proof from the
   fsynced prefix (`AckInv`, `LogInv` without `synced = Len(wal)`).
2. Which of the conditions of `StepsInOrder` follow from simpler ones on the
   workload, such as one writer per key or no flush during a compaction.
