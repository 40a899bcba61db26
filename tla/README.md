# TLA+ models of the LSM-tree storage engine

This directory holds TLA+ models of the C++ storage engine under `src/`,
the TLC configurations that check them, and `PROJECT.json`, which records
for every definition the source lines it models, every run, every mutant,
the findings, and the hazards of the code.

## 1. The system

The engine is the lower half of an LSM tree. It has these parts:

| Part | Source | State it keeps | Operations |
|---|---|---|---|
| Arena | `src/util/arena.h` | blocks, bump pointer, `memory_usage_` | Allocate, AllocateAligned, Reset |
| Skip list | `src/memtable/skiplist.h` | nodes with atomic next pointers, `max_height_`, RNG | Insert (one writer), Seek / Next / Prev / SeekToLast (lock-free readers) |
| MemTable | `src/db/memtable.h`, `src/util/types.h` | a skip list of (user key, sequence, type) -> value, `refs_`, `approximate_memory_usage_`, counters | Put, Delete, Get(key, snapshot), Ref, Unref, ShouldFlush |
| MemTableManager | `src/db/memtable_manager.h` | `active_`, deque `immutables_` (oldest at front), `current_sequence_`, `total_memory_usage_`, `immutable_count_`, `flush_cv_`, `flush_callback_` | Put/Delete (Write + RotateLocked), Get, ForceRotation, AllocateSequence, GetCurrentMemTables / ~MemTableSet, GetOldestImmutable, RemoveFlushedMemTable, WaitForFlush, destructor |
| WAL writer | `src/wal/wal_writer.h` | fd, `file_size_`, `bytes_since_sync_`, `closed_`, `sync_requested_`, sync thread | Open, Append (AppendRecord + HandleSync), Sync, Close, the periodic sync thread |
| WAL reader | `src/wal/wal_reader.h` | mmapped file, position | Open, ReadRecord, ReadEntry, ForEach |
| WAL manager | `src/wal/wal_manager.h` | `current_log_number_`, current writer, the `log.NNNNNN` files | Open, Append (with rotation), Sync, Rotate, Recover, MarkFlushed, Close |
| Block builder, index, trailer | `src/sstable/block_builder.h` | buffer, restarts, last key, counter | Add, Finish, Reset, AddTrailer / VerifyTrailer |
| Bloom filter | `src/util/bloom_filter.h` | hash pairs, bits | AddKey, Finish, MayContain |
| SSTable format | `src/sstable/sstable_format.h` | none (encoders) | BlockHandle, Footer encode/decode, varint, fixed-width encodings |
| SSTable writer | `src/sstable/sstable_writer.h` | fd, offset, current block, index, bloom, first/last key, min/max sequence | Open, Add, Finish, Abandon, FlushMemTable |

`wal_format.h` (CRC-32, the 7-byte record header and the entry encoding) is
included by the WAL files but is not part of the repository's sources. Only
the spec describes it.

**How the parts interact.**
- A write allocates a sequence in the manager and is inserted into the
  active memtable under the manager's exclusive lock. The caller is
  expected to append the same (sequence, key, value) to the WAL.
- When the active memtable reaches `max_size`, the next write freezes it
  onto the back of the deque and creates a new active table.
- A flush thread outside the manager takes the oldest immutable
  (`GetOldestImmutable`, which Refs it) and writes it to an SSTable with
  `SSTableWriter::FlushMemTable`. It then calls `RemoveFlushedMemTable`,
  which pops the front of the deque, and drops its own reference.
- Readers either call `Get` under the shared lock, or take a refcounted
  `MemTableSet` and search it without the lock.
- On restart, `WALManager::Recover` replays every numbered segment into a
  fresh memtable. `MarkFlushed(n)` deletes the segments below `n` once
  their contents are in SSTables.

**What is hard.** These are the behaviours where a test is unlikely to
catch a mistake:
- Reference counts and deletion races between the manager, bundle holders
  and the flusher.
- The order in which the chain of memtables is searched against the order
  in which sequences were allocated.
- The snapshot a bundle records.
- Counters of different widths and formulas that must cancel out.
- The periodic sync thread against Close.
- Short writes and failed fsyncs that leave bytes in a segment.
- Crashes that keep an arbitrary prefix of unsynced bytes.
- Recovery that skips corruption and carries on.
- Byte encodings whose length fields are narrower than what they describe.

**What makes each part correct.**
- MemTable: Get returns the newest version at or below the snapshot (spec
  section 8, invariant 2).
- Manager:
  - Get over the chain returns the newest write still in memory.
  - No write is lost between rotation and flush.
  - No table is freed while reachable.
  - Every frozen table is eventually freed.
  - A bundle covers its snapshot (invariant 3).
- WAL:
  - An acknowledged write under SyncPerWrite survives a crash.
  - Recovery returns a prefix of the appended history, and a history with
    no holes.
  - The periodic thread eventually syncs, and Close terminates.
- SSTable and encodings: encode and decode round trips, keys added in
  ascending order, a fixed-size footer, and no false negatives in the
  Bloom filter.

## 2. Modules

### MemTable.tla: one memtable, as pure operators

The skip list is an ordered set of entries `[key, seq, type, val]`. The
module defines:
- `Compare`: MemTableKeyComparator, user key ascending and then sequence
  descending.
- `SeekGE`: the skip list's FindGreaterOrEqual on that order.
- `MemGet`: MemTable::Get. It seeks to the probe `(key, snapshot, kValue)`
  and answers from the entry it finds if the user key matches.
- `Add`: MemTable::Add, which inserts the entry.
- `EntrySize`, `ApproximateMemoryUsage`, `ShouldFlush`: the memory charge,
  which is key + value + 8 + 1 + `sizeof(MemTableEntry)` per entry.

`sizeof(MemTableEntry)` is the constant `EntryStructSize`: 80 on LP64
libstdc++, where the entry is an InternalKey (32 + 8 + 1, padded to 48)
plus a 32-byte `std::string`.

`NewestAtOrBelow` is the reference definition of the lookup the spec
promises.

### MemTableManager.tla: the manager and its callers

Each manager method takes `mutex_`, so each is one atomic action.

**State.**
- `entries[t]` is memtable `t`'s skip list.
- `refs[t]` and `status[t]` (unborn / live / freed) model `refs_` and
  `delete this`.
- `active`, `imms` (a sequence, front = oldest), `seqCtr`, `totalMem`
  (modulo `2^SizeBits`) and `immCount` are the manager's fields.
- `callback` records whether `flush_callback_` is set.
- `alive` turns FALSE when the destructor runs.

**Threads.**
- *Writers* run `Put` / `Delete`. `Write` includes the rotation it may
  perform: the `IF ShouldFlush` guard picks `RotateLocked` or
  `NoRotation`. Writers also run `WaitForFlushBegin`, `WaitForFlushWake`
  and `WaitForFlushTimeout`.
- *Readers* run `GetCurrentMemTables` and `ReleaseBundle`
  (~MemTableSet). `Get` and a lookup through a bundle only read, so they
  are the operators `ManagerGet` and `BundleGet`, evaluated by the
  invariants in every state. Evaluating `Get` at every snapshot in every
  state covers the two-step `Get(key)`, which loads `current_sequence_`
  before locking.
- *Flushers* run the loop the spec describes:
  1. `GetOldestImmutable` (Ref).
  2. `FlushMemTable`, which adds the table's entries to `persisted`, or
     `FlushFailed` (Abandon, Unref, retry later).
  3. `RemoveFlushedMemTable`.
  4. `ReleaseFlushed` (Unref).
- The caller may also run `ForceRotation`, `AllocateSequence`,
  `SetFlushCallback` and `DestroyManager` (the destructor) at any time.

**History variables.** `written` (every entry a Write inserted) and
`persisted` (every entry a completed flush wrote) state the durability
properties. They are not program state.

### WALReader.tla: the record framing, as pure operators

A segment file is a sequence of chunks `[ent, psize, whole]`. There is one
chunk per `write(2)` of `AppendRecord`, and `whole` is FALSE for a short
write's fragment. Bytes are abstracted to sizes:
- `PayloadSize` gives the size of an encoded entry from the spec's format
  (wal_format.h is not in the sources).
- `LenField(psize) = psize % 2^16` is the `uint16_t` length the header
  stores.
- `RecordReadable` is ReadRecord's verdict. A chunk is read iff it is whole
  and its length field names its whole payload. Otherwise the read fails
  as a truncated header or payload, or as a CRC mismatch; CRC32 is assumed
  never to collide.
- `ReadCount` and `ReadEntries` are ReadEntry/ForEach, which read up to
  the first corruption.

### WALFormat.tla: the WAL's bytes

WALFormat extends WALWriter and gives the chunk model a byte image.
`EntryOf` maps each of the writer's entries to a concrete entry (type,
sequence, key and value as byte sequences).
- `EncodeWALEntry` and `DecodeWALEntry` follow the spec's entry format
  (type, 8-byte little-endian sequence, varint32 key and value lengths),
  with `LE`, `FromLE`, `Varint32` and `GetVarint32` (five bytes at most).
  They are spec-modelled: wal_format.h is not in the sources.
- `FrameRecord` is AppendRecord's record: checksum, the `uint16_t` length
  little-endian, `kFull`, the payload. `Checksum` stands in for CRC32 over
  the same bytes (the length bytes and the type and payload). It is a
  positional sum modulo 65521, because TLC cannot evaluate CRC32 over
  150-byte records in reasonable time.
- `ReadRecord` is WALReader::ReadRecord's sequence of checks in the code's
  order: end of file, truncated header, truncated payload, checksum, type.
  `ForEachFrom` is ReadEntry/ForEach, which stops at the first failure
  and reports a decode failure as Corruption.
- `FileImages(data)` is every byte file the writer's chunks can be: a
  whole chunk is its record, and a fragment is its record cut after 1,
  6, 7 or 8 bytes or one byte short of its end. The cuts are the edges of
  ReadRecord's two bounds checks.

`ReaderMatchesChunkModel` says that ForEach over every such file returns
exactly the entries `ReadCount` counts, decoded to the entries appended,
and Corruption exactly when `ReadStatus` says so. The WAL runs rely on
the chunk model, and this invariant checks it against the bytes. The
cases include a fragment followed by more records. There the reader takes
its header, or its length, from the next record's bytes, and the
checksum must reject the result.

### WALWriter.tla: one log file and its sync thread

**State.**
- `data` is the page-cache view of the file. `durable` is how many
  leading chunks an fsync has made durable.
- `fileSize`, `sinceSync`, `syncReq`, `closed` and `fdOpen` are the
  writer's fields.
- `tpc` is the sync thread: none, waiting or exited.
- `acked` is a history variable: the positions whose Append returned OK.

**Actions.** Each public method holds `mutex_` and is one action:
- `Open`.
- `AppendRecord`: a complete write followed by HandleSync's policy; `ok`
  is the outcome of the fsync it may make.
- `AppendShort`: a short write, which leaves a fragment and returns
  IOError.
- `Sync`.
- `SyncThreadStep`: one loop iteration of the periodic thread.
- Close, which drops the lock to join the thread, so it is split into
  `CloseBegin` and `CloseFinish`. CloseFinish fsyncs and ignores the result.

The policy is chosen in Init from `Policies`.

### WALManager.tla: segments, rotation, crashes and recovery

The module extends WALWriter: the writer's variables are the current
segment's. It adds:
- `files`, the other segments on disk, each `[data, durable]`;
- `curLog`, which is `current_log_number_`;
- `mstate` (down / open / append).

Each manager method holds the manager's `mutex_` for its whole run, so it
is one action: `MOpen`, `MAppend`, `MSync`, `MRotate`, `MClose`,
`MarkFlushed` and `Recover`. Joining the old writer's sync thread inside
RotateLocked and Close is part of the step: the thread's last iteration
after `closed_` only exits. Append is the exception when `ShouldRotate`
holds. `AppendRotate` runs RotateLocked, which Syncs and Closes the old
writer (results ignored) and calls OpenNewLog on `curLog + 1`; the append
follows as a second step. In between only the new writer's sync thread
(`MSyncThread`) can run.

`NameLimit` is the first log number `%06llu` prints with seven digits.
ListLogFiles lists only the numbers below it, sorted. OpenNewLog on a
number whose file exists appends to it (`O_APPEND`).

`Crash` is a power loss. Each segment keeps a prefix at least as long as
its durable part, and possibly a torn copy of the next chunk. The next
process starts with a new WALManager, so `curLog = 0`.

`Recover` replays the listed logs in order through `ReadEntries`.
`OpenFailures` is the set of logs whose `WALReader::Open` fails (open,
fstat or mmap; at most `MaxOpenFaults` of them). Recover skips those logs
(`continue`, wal_manager.h:133) and still returns OK. It is the only I/O
error Recover can meet: every error `ReadRecord` returns is a Corruption,
so the early return at wal_manager.h:156 is never taken.
`unreadAtRec` records the entries of the skipped logs.

History variables:
- `ackedIds`: the acked entries. Entry `i` is the i-th Append.
- `owed`: the acked entries that every crash since found durable.
- `deleted`: the entries of segments MarkFlushed removed.
- Snapshots of `owed` and `ackedIds` taken when Recover ran.
- `unreadAtRec`, the entries of the logs Recover could not open.

### SSTableFormat.tla: the SSTable encodings, as pure operators

Byte strings are sequences of integers in 0..255. The module translates:
- `FixedLE` and `VarintBytes`: FixedEncode's little-endian fixed-width
  encodings and Varint::PutVarint32/64 (both RECURSIVE);
- `BytesCompare`: `std::string_view::compare`, the order BlockBuilder::Add
  asserts, and `SharedPrefix`, the loop that computes the shared bytes;
- `EncodeInternalKey` and `ExtractUserKey` of SSTableWriter;
- `BlockEntry` and `EntryBytes`: one entry as BlockBuilder::Add appends it;
  `SizeEstimate` is CurrentSizeEstimate, and `BlockWithTrailerBytes` is the
  size of Finish's contents plus BlockTrailer's 5 bytes;
- `HandleBytes` (BlockHandle::Encode) and `FooterEncode` (Footer::Encode
  byte for byte: `FooterFields`, zero padding and `kMagicBytes`, the magic
  as its 8 bytes, since TLC's integers cannot hold it);
- the reader's side of the footer: `FooterDecode` (Footer::Decode) with
  `DecodeFixed`, `GetVarint64` and `BlockHandleDecode`. Footer::Decode
  checks no field length against its slice. Where it would read past the
  end, which is undefined behaviour, the model returns `FooterFail`;
  whatever those bytes hold, they are not the footer that was written;
- the Bloom filter: `OptimalNumHashes`, `FilterBits` and `BloomBytes`
  (BloomFilterBuilder::Finish's sizing), `CreateFilter` (the set bits at
  `(h1 + i*h2) % num_bits`), and the reader's `ReaderNumBits`, `ReaderValid`
  (Init) and `MayContain`. A hash pair stands for Hash128 of a key.

`DecodeFrom` and `EntryAt` are not code of the repository: they are the
block-reading procedure of spec section 8, used as the reference the
properties decode with.

### SSTableWriter.tla: FlushMemTable

`Init` picks any memtable over the sequence numbers `Seqs`: each number is
unused, a Put, or a Delete of one of `UserKeys`. `input` is that memtable in
the iterator's order, by `MemBefore` (MemTableKeyComparator). The actions:
- `Open(ok)`: `::open` with O_CREAT; on failure FlushMemTable returns.
- `AddEntry(ok)`: one iteration of FlushMemTable's loop, which is the whole
  of SSTableWriter::Add. It encodes the internal key and tracks the first
  and last keys and the sequence range. `BlockAdd` is BlockBuilder::Add
  (prefix compression, or a restart once `counter_` reaches the interval).
  When the estimate reaches `block_size`, FlushDataBlock writes the block,
  adds the index entry and resets the builder. If that write fails
  (`ok = FALSE`), FlushMemTable calls Abandon, which closes and unlinks.
- `FinishOk`: Finish flushes the last partial block (`FinalBlocks`), then
  writes the index block, the bloom filter and the footer, and fsyncs and
  closes.
  The filter is built from `bloomKeys` (AddKey's hashes_) under a hash
  function `hash` chosen here from `[UserKeys -> HashVals \X HashVals]`:
  MurmurHash is a fixed function, and choosing it freely checks the filter
  under every one. `BloomHandle` and `WriteFooter` are WriteBloomFilter and
  WriteFooter.
- `FinishFailed`: any of those steps fails. Finish returns the error and
  the writer's destructor, with `closed_` still false, runs Abandon.

The file is recorded as the blocks written (entries, what was added,
restarts, offset, size), the index entries and the footer's fields, with
byte sizes computed by SSTableFormat. Short writes are retried by
WriteRaw's loop and are not a separate outcome. The model is of a release
build: the asserts are compiled out, and the one at block_builder.h:57 is
the property `BlockKeysAscending`.

### SkipList.tla

`SkipList` models the publication protocol of `src/memtable/skiplist.h`:
one writer thread running `Insert` while iterators run with no lock:
`Seek` (FindGreaterOrEqual), `Prev` (FindLessThan), `SeekToLast`
(FindLast), `SeekToFirst` and `Next`. That is how MemTableManager uses a
memtable: writes hold the exclusive lock, and `Get` holds only the shared
one. Keys are integers ordered by `<`, standing for entries under
MemTableKeyComparator. Node `0` is `head_` and `-1` is `nullptr`.

State: `next[n][l]` is `Node::next_[l]`, `height[k]` is the height NewNode
gave key `k` (0 while unallocated), and `maxHeight` is `max_height_`. The
writer's locals are `wkey`, `wheight`, `wprev` (the `prev[]` array) and
`wlevel` (the loop index). Each reader's search has the locals `rx`,
`rlevel` and `rtarget`, and `rpc` names the search running ("seek",
"prev", "last") or "idle". `rnode` is the iterator's `node_`.

Each action is one atomic load or store, in the code's order:
- `InsertBegin(k, h)`: `FindGreaterOrEqual(key, prev)`, which is one step
  because only the writer changes links. Then `RandomHeight` (any `h` in
  `Heights`), `prev[i] = head_` for the new levels, and `NewNode`.
- `RaiseMaxHeight`: the relaxed `max_height_.store`.
- `LinkNext`: `x->NoBarrier_SetNext(i, prev[i]->NoBarrier_Next(i))`.
- `Publish`: `prev[i]->SetNext(i, x)`, the release store that makes `x`
  reachable on level `i`.
- `InsertEnd`: the loop ends.
- `SeekBegin`, `PrevBegin`, `LastBegin` (through `Begin`): a search
  starts at head_ on level `max_height_ - 1`. Prev needs a valid iterator
  and searches for `node_`'s key.
- `FindStep`: one iteration of the three search loops, one `Next(level)`
  load per step. `Advances` is the loop's test: FindGreaterOrEqual and
  FindLessThan both move right past a non-null node below the key, and
  FindLast past any non-null node. At level 0, `Found` is what the
  iterator keeps: `next` for Seek, `x` for Prev and SeekToLast, with
  head_ turned into `nullptr`.
- `SeekToFirst` and `IterNext`: the single load `head_->Next(0)` or
  `node_->Next(0)`.

**Memory model.** `Next` is an acquire load and `SetNext` a release
store. A reader that loads a pointer to `x` therefore also sees `x`'s key
and every link stored into `x` before its publication. `NoBarrier_SetNext`
on `x` happens before `x` is published, so sequentially consistent
interleaving of these steps is what the program can observe. `max_height_`
is relaxed, and a reader may read it before or after the store; both
orders are interleavings here. A reader that reads the new height before
head_ links the level finds `nullptr` and goes down, which the model
includes.

### OrderedSet.tla: what the skip list promises, and the refinement

`OrderedSet` is the abstract specification of spec section 4.2: a set of
keys, `Insert(k)` adding one at an instant, and iterators that hold a
position `rnode`. `First` (the least key) and `Step` (the first key after
the position) are single steps. Seek, Prev and SeekToLast are a call
(`SeekCall`, `PrevCall`, `LastCall`) and a `Return` at the instant they
take effect. At that instant the position becomes `Answer`: the first key
at or after the target, the last key before it, or the greatest key.
SkipList defines

    OS == INSTANCE OrderedSet WITH set <- Level0Keys

and `SkipListImplementsOrderedSet == OS!Spec` is checked as a PROPERTY.
Under this refinement mapping, the abstract set is the keys reachable on
level 0 from head_. The reader variables map to themselves. So:
- `Publish` at level 0 is `Insert`;
- the `FindStep` that reaches level 0 and stops is `Return`;
- `SeekBegin`, `PrevBegin` and `LastBegin` are the three calls;
- `SeekToFirst` is `First` and `IterNext` is `Step`;
- every other step (LinkNext, Publish above level 0, RaiseMaxHeight,
  a step right or down) leaves the abstract state unchanged.

This is linearizability of Insert and of every iterator operation. For
FindLessThan it means the `x` it returns at level 0 is the greatest key
below the target at that load, although the writer may have linked
smaller or greater keys during the search. MemTable, and
MemTableManager's readers running beside the writer, rely on it when they
treat both as atomic.

### Arena.tla: the bump allocator

`Arena` models `src/util/arena.h`. It is used by one thread, so each
method is one step. `blocks` is `blocks_`, a sequence of `[base, size]`.
`ptrBlk` and `ptrOff` are `alloc_ptr_` as a block and an offset, with
block 0 standing for nullptr. `remaining` is `alloc_remaining_` and
`memoryUsage` is `memory_usage_`. `live` is a history variable: every
allocation returned since the last Reset, with the alignment it asked for.

A block's address is abstracted to its residue modulo the largest
alignment in play. `new char[]` promises only the default new alignment,
so each new block's residue is chosen from `BaseResidues`. Actions:
- `Allocate(n)` bumps (`Bump`) or calls `AllocateFallback`.
- `AllocateAligned(n, a)` computes `AlignPadding` from the address
  (`Current`), as the code does, and bumps by `n + padding` if it fits.
- `AllocateFallback` either gives a request above `kBlockSize / 4` a
  dedicated block of its own size, leaving the current block, or makes
  a new 4096-byte block current and serves from its start. Either way
  AllocateNewBlock charges the block plus a pointer.
- `Reset` keeps the first block, rewinds to its start with `kBlockSize`
  remaining, drops the rest, and sets `memory_usage_` to `kBlockSize`.

### Further work

These were considered and not built. The reasons follow.
1. **An abstract log refined by WALManager.** A crash may drop more than
   an undurable suffix of the log. After an ignored fsync failure it drops
   a middle part (the code_bug finding of wal_short_write). The abstract
   spec would have to allow exactly that, and then it would say no more
   than `RecoverReturnsOwed` and `RecoveredWithoutHoles` already do.
2. **Engine composition.** The engine that ties WAL, manager, flush and
   MarkFlushed together is not in the repository. Modelling it would
   mean modelling code that does not exist.

## 3. Runs

The memtable runs use `MC_MemTableManager.tla`, which instantiates one user key
`"a"` of length 1 and one value `"v1"` of length 1. With these, an entry
is charged 91 bytes (a deletion 90). `MaxSize = 182` lets two entries fill
a table, so the third write rotates, and `ForceRotation` rotates at any
time. `MaxTables = 3` allows two rotations. `MaxSeq` bounds the number of
sequences allocated. `SizeBits = 16` is the width of `total_memory_usage_`
in the model. The wrap (see "Not modelled") happens at any width, because
the same negative difference is reduced modulo `2^w`.

| Run | cfg | Expect | What it shows |
|---|---|---|---|
| manager_safety | `MC_MemTableManager.cfg` | pass | One writer, one reader and one flusher, MaxSeq 3, about 156k states in under a minute. `GetMatchesReference`: Get returns the newest write at or below any snapshot, or NotFound once that write has been flushed and removed. `NoWriteLost`: every written entry is in the chain or in a flushed SSTable. `NoUseAfterFree`: no table held by the chain, a bundle or the flusher is deleted, and no count goes negative. `FrozenTablesEventuallyFreed`: every table frozen onto the deque is eventually deleted. |
| bundle_snapshot | `MC_MemTableManager_BundleCoversSnapshot.cfg` | violation | Spec section 8, invariant 3. The set's snapshot is the next sequence to be allocated. After a rotation, the write that takes it lands in a table outside the set. |
| wal_writer | `MC_WALWriter.cfg` | pass | Every policy, three writes, with short writes and failing fsyncs. `AckedDurable`: under SyncPerWrite, an acked record is durable. `PeriodicEventuallyDurable`: under SyncPeriodic, each complete record becomes durable unless Close comes first. `CloseTerminates`: Close returns. `ReaderMatchesChunkModel`: the bytes of the file, however its short writes were cut, read back as the chunk model says. The entry is a Put at sequence 300 with a 128-byte key, so the key length is a two-byte varint. |
| wal_short_write | `MC_WALWriter_ShortWrite.cfg` | violation | `DurableAckedReadable`: after a short write, the next acked, fsynced record is unreadable. |
| wal_manager | `MC_WALManager.cfg` | pass | Every policy, three appends, three log numbers, two crashes, and up to one log per Recover whose reader fails to open. About 178k states in about 25 s. `RecoverReturnsOwed`: Recover returns every acked entry that was durable at each crash, unless it is in a deleted segment or a log Recover could not open. `RecoveredInOrder`: entries replay in strictly increasing append order, so Recover never inserts one entry into the memtable twice (SkipList::Insert asserts against that). |
| wal_name_width | `MC_WALManager_NameWidth.cfg` | violation | `RecoverReturnsOwed` with `NameLimit = 2`: an acked entry in log 2 is invisible to Recover. |
| wal_rotate_fsync | `MC_WALManager_RotateFsync.cfg` | violation | `RecoveredWithoutHoles`, under NoSync: RotateLocked's fsyncs fail silently, and a crash keeps entry 2 in the new segment but not entry 1. |
| sstable_writer | `MC_SSTableWriter.cfg` | pass | Every memtable of up to five entries on keys "a" and "b", with any write failing and every hash with values in {1, 13}, about 78k states in under 30 s. `BlocksDecode`: every block decodes to what was added, from its start and from each restart. `SSTableMatchesMemTable`: after an OK flush the blocks hold the memtable in order, end to end, and the index and footer match (spec invariant 6). `NoPartialSSTable`: a failed flush leaves no file and no open descriptor. The footer is not checked (see SSTable bounds). `BloomNoFalseNegative`: the reader, parsing the filter the builder wrote, admits every key of the memtable, whatever the hash. |
| sstable_key_order | `MC_SSTableWriter_KeyOrder.cfg` | violation | `BlockKeysAscending`: "a" at sequence 2 then "a" at sequence 1 encode to descending internal keys: the packed (seq << 8) \| type grows with the sequence, and the memtable yields a key's versions newest first. |
| arena_allocations | `MC_Arena.cfg` | pass | Six calls of Allocate, AllocateAligned(·, 8) and Reset with 17, 1000 and 2000 bytes, about 424k states in under 10 s. `AllocationsDisjoint`: no two allocations since the last Reset share a byte. `AllocationsAligned`: every aligned request is aligned. |
| arena_reset_overrun | `MC_Arena_ResetOverrun.cfg` | violation | `AllocationsInBlock`: Allocate(2000) gets a dedicated 2000-byte block, which is the front one. After Reset, Allocate(17) and Allocate(2000) are carved from it up to offset 2017. |
| skiplist_publication | `MC_SkipList.cfg` | pass | One writer inserts keys 1..4 at heights up to 3 in every order while one iterator seeks every target, steps forward, steps back and seeks to either end, about 782k states in about 2 min. `LevelsNestedSorted`: in every state, each level is sorted, holds only nodes tall enough for it, and is a sublist of the level below. `SkipListImplementsOrderedSet`: the list refines the atomic `OrderedSet`, so every Seek, Prev, SeekToLast, SeekToFirst and Next answers as the atomic set would at one instant. `SearchesReturn`: under weak fairness for the reader, every search returns while the writer inserts. |

**Why these bounds are enough.** Each property needs at most:
- two rotations, so the chain holds two immutables at once;
- one flush racing a bundle and a rotation;
- a deletion and a value for one key in different tables.

Every violation above is found within six steps. The manager run explores
all interleavings of the three threads up to three writes and every
rotation and removal order. Two user keys do not add interleavings: the
chain order is per table, not per key. The seek boundary between keys
belongs to the single-memtable module.

**SSTable bounds.** `BlockSize = 48` and `RestartInterval = 2` make a
block hold three or four entries. The third is a restart, a fourth (only
deletions are short enough) finds `counter_` at the interval, and five
entries span two blocks, so the last block is flushed by Finish. The
footer is not checked. Its fixed fields take 40 bytes, so with one-byte
keys it is always padded to exactly 64 bytes, and the longer footer the
code produces never occurs. With two 8-byte keys in `MCUserKeys`, TLC
finds `FooterRoundTrips` (defined in SSTableWriter.tla) violated: the
footer outgrows 64 bytes, and Footer::Decode of the last 64 misparses it.
The property is therefore in no cfg: the code is wrong in exactly the
case it would need.
`HashVals = {1, 13}` gives probe positions both below and beyond the
64 filter bits, so a reader that took the wrong bit count would probe a
clear bit. `MaxSequenceNumber` stands for `kMaxSequenceNumber`, to which the writer
initialises `min_sequence_`; only its being above every sequence matters.
FlushMemTable ends (done or failed), so these cfgs turn deadlock
checking off.

**Skip-list bounds.** Four keys and `MaxHeight = 3` let a key be inserted
between two linked ones on two levels at once, and let a later insert
raise `max_height_` while a reader is mid-search on the old top level.
One reader is enough: readers change nothing, so two only interleave with
each other. `Targets` covers every key, so a seek can land on a key under
insertion. The iterator's position ranges over every key, so a Prev or a
Next can start from a node the writer is linking a neighbour of.

**Arena bounds.** `kBlockSize` is the real 4096. 17 bytes (the unit
test's size, which is not a multiple of 8) makes the bump pointer
unaligned, so aligned requests need padding. 1000 bytes stays below
the quarter-block threshold of 1024, and four of them fill a block, so a
fifth switches to a new block. 2000 bytes is above the threshold and
takes a dedicated block. Six calls reach each path from each other, and
a Reset after either kind of first block. `BaseResidues = {0, 16}` are
the addresses `new char[]` may return modulo 32. The passing run asks only
for `sizeof(void*)` alignment, which is all SkipList::NewNode asks for.

**WAL bounds.**
- `MC_WALWriter`: one entry value and three chunks. That is enough for a
  fragment followed by a record, and for a batch to fill at two records.
- `MC_WALManager`: `MaxFileSize` is one small record, so every second
  Append rotates. Three appends, log numbers up to 3 and two crashes
  reach a restart whose Open appends after segments left by an earlier
  run, and MarkFlushed between crashes (log 1 written, rotation to log 2, a
  crash, and Open of log 3 after both). A fourth log number multiplies
  the states by five and adds no new kind of step.
- `MaxChunks = 2` per file bounds the page-cache contents.
- `MaxOpenFaults = 1` lets any one listed log fail to open in each
  Recover. The two WAL violation runs set it to 0, so each
  counterexample shows only its own cause.
- The manager's passing run has no short writes. The writer's runs
  already show what a fragment does. With short writes on, the manager's
  `RecoverReturnsOwed` fails for that same reason.

## 4. Fairness

`Spec` assumes:
- weak fairness on each flusher's `GetOldestImmutable`,
  `RemoveFlushedMemTable` and `ReleaseFlushed`;
- strong fairness on `FlushMemTable`;
- weak fairness on `ReleaseBundle`.

The flush loop is a background thread that keeps running while work is
queued. Its SSTable write may fail (`FlushFailed`) and be retried. Strong
fairness says failure is not permanent: a flush that keeps getting the
chance to succeed eventually does. A MemTableSet is a `unique_ptr`
destroyed when its holder leaves scope. Writers, new bundles, forced
rotations and the destructor are the callers' choice, so none of them is
assumed to happen.

`WSpec` (WALWriter) assumes weak fairness on the sync thread's step. The
thread's `wait_for` times out every `sync_interval`, so the step is
always enabled while the thread runs. It also assumes strong fairness
on a successful sync step. fsync may fail, but not forever; this is an
assumption about the environment, not something the code guarantees. It
also assumes weak fairness on `CloseFinish`: once the thread has exited,
the join returns. `FairSpec` (SkipList) assumes weak fairness on each reader's `FindStep`.
A reader thread waits on nothing, so the step is enabled until the search
returns; only the scheduler's fairness to a runnable thread is assumed.
WALManager's, SSTableWriter's and Arena's runs check only safety and use
no fairness. The refinement is a safety property: the abstract
OrderedSet has no fairness either.

## 5. Not modelled

- **Arena inside the memtable.** MemTable charges memory through
  `MemTable::Add`, not through the arena, and SkipList's `NewNode` is
  not composed with `Arena`. NewNode asks only for 8-byte alignment,
  which `arena_allocations` checks for every size.
- **SkipList::Contains.** It is FindGreaterOrEqual followed by a
  comparison, and only tests call it. MemTable treats `Insert` and a seek
  as atomic, which the refinement to `OrderedSet` justifies.
- **The 16-bit WAL record length.** `AppendRecord` casts the payload
  length to `uint16_t` (wal_writer.h:163). A payload of 65536 bytes or more
  is acked and fsynced, but ReadRecord reports corruption and Recover drops
  it and the rest of the segment. `LenField` keeps the 16-bit field, but no
  run checks this: a single large append shows it without a model checker.
- **Defects a single call shows.** Three more defects are recorded here
  and as hazards but are not kept as runs. A unit test of one or two
  calls reaches each of them, and the project's runs are spent on what
  needs interleavings or long call sequences.
  - MemTableManager's `total_memory_usage_` wraps. Write adds
    key+value+32 (memtable_manager.h:189), while RemoveFlushedMemTable
    subtracts the table's own count of key+value+89 per entry (line 90).
    The model keeps both charges and the `size_t` width.
  - Footer::Encode (sstable_format.h:119) pads only up to 56 bytes. One
    entry with E2E-5's 9-byte key "key000000" gives a 71-byte footer, not
    the fixed 64 bytes. The four length prefixes and three fixed64s take 40
    bytes, so the handles and keys must fit in 16. `FooterEncode` builds
    the longer footer, and `FooterRoundTrips` fails on it once `MCUserKeys`
    holds keys that long (see SSTable bounds).
  - AllocateAligned's fallback (arena.h:55) returns a new block's start,
    which has only `new char[]`'s alignment. With `Alignments = {64}` and
    `BaseResidues = {0, 16, 32, 48}`, TLC finds `AllocationsAligned`
    violated by a first `AllocateAligned(17, 64)`. The unit test asks for
    64 only once its block is well filled, so it passes.
- **Recover's silent skip.** When a log's reader fails to open, Recover
  skips it and returns OK (wal_manager.h:131). Spec section 7 says a
  non-corruption I/O error aborts recovery, and that only data after a
  confirmed tail corruption is discarded. `wal_manager` checks what the
  skip does (only that log is lost, and order is kept), but no violation
  run is kept for the divergence from the spec: a single failing open
  shows it.
- **The flush callback's body.** It is the caller's code. The deadlock it
  can cause by calling back into the manager is listed as a hazard.
- **Statistics.** `entry_count_`, min/max sequence, `RecoveryStats` and
  the durations are only reported, never read back by an operation.
- **The Bloom filter's false-positive rate.** It is statistical and
  outside TLC's reach. The no-false-negative law is checked; MurmurHash's
  arithmetic is replaced by a freely chosen hash.
- **SSTable bytes.** Blocks are kept as entries and sizes, not byte
  strings, and CRC values are not computed: no code in the repository
  reads a block back. VerifyTrailer has no caller. Footer::Decode and
  the Get* decoders are modelled, although nothing calls them outside
  tests. No run checks them (see SSTable bounds). The statistics
  (`SSTableWriteStats`) are only reported.
- **Closing twice.** If `::close` fails in Finish, `fd_` is not reset and
  the destructor's Abandon closes the same descriptor again. With one
  process and no other thread opening files, this has no effect in the
  model.
- **CRC32.** WALFormat replaces it by a positional checksum of the same
  bytes. A CRC collision on a torn record is therefore not modelled.
  WALManager's runs use the chunk model, which `ReaderMatchesChunkModel`
  checks against the bytes in the wal_writer run.
- **Misuse of the WAL manager.** Rotate before Open (which starts at log
  1 on a fresh manager), and MarkFlushed with a number above the current
  log (which unlinks the open segment), are not modelled.
- **Unlink failure in MarkFlushed.** It only leaves extra segments, which
  no property is about.
