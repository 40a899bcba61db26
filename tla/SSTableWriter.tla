---------------------------- MODULE SSTableWriter ----------------------------
(***************************************************************************)
(* SSTableWriter::FlushMemTable (src/sstable/sstable_writer.h): open the  *)
(* file, Add every memtable entry in iterator order, Finish; on an error   *)
(* Abandon (or the destructor) closes and unlinks the file.  The data      *)
(* block is the BlockBuilder of block_builder.h; the file is recorded as  *)
(* the blocks, index entries and footer written to it, with their byte     *)
(* sizes and offsets.  Release build: the asserts are compiled out.        *)
(***************************************************************************)
EXTENDS Integers, Sequences, SequencesExt, FiniteSets, SSTableFormat

CONSTANTS
    UserKeys,          \* byte strings the memtable holds
    Seqs,              \* sequence numbers of its entries
    PutValue,          \* the value every Put stores
    BlockSize,         \* SSTableOptions::block_size
    RestartInterval,   \* SSTableOptions::restart_interval
    BitsPerKey,        \* BloomFilterPolicy::bits_per_key
    MaxSequenceNumber, \* stands for kMaxSequenceNumber: above every seq
    HashVals           \* values of MurmurHash::Hash128's two halves

ASSUME /\ RestartInterval >= 1 /\ \A s \in Seqs : s < MaxSequenceNumber
       /\ BitsPerKey \in 1..59

VARIABLES
    input,       \* the memtable as its iterator returns it
    pos,         \* next entry FlushMemTable's loop hands to Add
    phase,       \* "init", "adding", "done" (FlushMemTable OK), "failed"
    fdOpen,      \* fd_ >= 0
    fileExists,  \* the path names a file
    blk,         \* data_block_: entries, what was added, restarts_, counter_, last_key_
    blocks,      \* data blocks written: their entries, restarts, offset, size
    index,       \* index_builder_'s entries: last key and handle of each block
    offset,      \* offset_
    numEntries, firstKey, lastKey, minSeq, maxSeq,
    footer,      \* the footer written, or NoFooter
    bloomKeys,   \* bloom_builder_.hashes_, as the keys hashed
    hash,        \* Hash128 on the user keys, fixed when the filter is built
    bloom        \* the filter written: set bits, size, k; or NoBloom

vars == <<input, pos, phase, fdOpen, fileExists, blk, blocks, index, offset,
          numEntries, firstKey, lastKey, minSeq, maxSeq, footer, bloomKeys, hash, bloom>>

NoFooter == [bytes |-> <<>>, len |-> 0]
NoBloom  == [bits |-> {}, size |-> 0, k |-> 0]
NoHash   == [k \in UserKeys |-> <<0, 0>>]

\* MemTableKeyComparator: user key ascending, then sequence descending.
MemBefore(a, b) ==
    \/ BytesCompare(a.key, b.key) < 0
    \/ a.key = b.key /\ a.seq > b.seq

\* Every memtable over Seqs: each sequence number unused, a Put or a Delete.
MemTables ==
    { {[seq |-> s, key |-> m[s][1], type |-> m[s][2]] : s \in {t \in Seqs : m[t] # "none"}} :
        m \in [Seqs -> {"none"} \cup (UserKeys \X {kValueByte, kDeletionByte})] }

\* MemTable::Put stores the value, MemTable::Delete an empty one.
ValueOf(e) == IF e.type = kValueByte THEN PutValue ELSE <<>>

\* BlockBuilder's constructor and Reset.
EmptyBlock == [ents |-> <<>>, added |-> <<>>, restarts |-> <<0>>, counter |-> 0, lastKey |-> <<>>]

\* Mutant of BlockAdd: the restart test counter_ > restart_interval_.
BlockAddRestartLate(b, key, val) ==
    LET restart == b.counter > RestartInterval
        shared  == IF restart THEN 0 ELSE SharedPrefix(b.lastKey, key)
    IN  [ents     |-> Append(b.ents, BlockEntry(shared, key, val)),
         added    |-> Append(b.added, [key |-> key, val |-> val]),
         restarts |-> IF restart THEN Append(b.restarts, BufBytes(b.ents)) ELSE b.restarts,
         counter  |-> IF restart THEN 1 ELSE b.counter + 1,
         lastKey  |-> key]

\* Mutant of BlockAdd: the restart offset taken after the entry is encoded.
BlockAddRestartAfterEntry(b, key, val) ==
    LET restart == b.counter >= RestartInterval
        shared  == IF restart THEN 0 ELSE SharedPrefix(b.lastKey, key)
        ents    == Append(b.ents, BlockEntry(shared, key, val))
    IN  [ents     |-> ents,
         added    |-> Append(b.added, [key |-> key, val |-> val]),
         restarts |-> IF restart THEN Append(b.restarts, BufBytes(ents)) ELSE b.restarts,
         counter  |-> IF restart THEN 1 ELSE b.counter + 1,
         lastKey  |-> key]

\* BlockBuilder::Add(key, value).
BlockAdd(b, key, val) ==
    LET restart == b.counter >= RestartInterval
        shared  == IF restart THEN 0 ELSE SharedPrefix(b.lastKey, key)
    IN  [ents     |-> Append(b.ents, BlockEntry(shared, key, val)),
         added    |-> Append(b.added, [key |-> key, val |-> val]),
         restarts |-> IF restart THEN Append(b.restarts, BufBytes(b.ents)) ELSE b.restarts,
         counter  |-> IF restart THEN 1 ELSE b.counter + 1,
         lastKey  |-> key]

\* FlushDataBlock's block: Finish, AddTrailer, handle at offset_.
DataBlock(b, off) ==
    [ents |-> b.ents, added |-> b.added, restarts |-> b.restarts,
     off |-> off, size |-> BlockWithTrailerBytes(b.ents, b.restarts)]

\* IndexBlockBuilder::AddEntry(data_block_.LastKey(), handle).
IndexEntry(d) == [key |-> Last(d.added).key, off |-> d.off, size |-> d.size]

\* The index block: a BlockBuilder with restart interval 1, so every key is
\* stored whole and every entry after the first is a restart point.
IndexBlockBytes(idx) ==
    LET es == [i \in DOMAIN idx |-> BlockEntry(0, idx[i].key, HandleBytes(idx[i].off, idx[i].size))]
        nr == IF idx = <<>> THEN 1 ELSE Len(idx)
    IN  BufBytes(es) + 4 * nr + 4 + kBlockTrailerSize

Init ==
    /\ \E mem \in MemTables : input = SetToSortSeq(mem, MemBefore)
    /\ pos = 1
    /\ phase = "init"
    /\ fdOpen = FALSE
    /\ fileExists = FALSE
    /\ blk = EmptyBlock
    /\ blocks = <<>>
    /\ index = <<>>
    /\ offset = 0
    /\ numEntries = 0
    /\ firstKey = <<>>
    /\ lastKey = <<>>
    /\ minSeq = MaxSequenceNumber
    /\ maxSeq = 0
    /\ footer = NoFooter
    /\ bloomKeys = <<>>
    /\ hash = NoHash
    /\ bloom = NoBloom

\* Open: O_CREAT|O_TRUNC creates the file; on failure FlushMemTable returns.
Open(ok) ==
    /\ phase = "init"
    /\ phase' = IF ok THEN "adding" ELSE "failed"
    /\ fdOpen' = ok
    /\ fileExists' = ok
    /\ UNCHANGED <<input, pos, blk, blocks, index, offset, numEntries, firstKey,
                   lastKey, minSeq, maxSeq, footer, bloomKeys, hash, bloom>>

(***************************************************************************)
(* One iteration of FlushMemTable's loop: SSTableWriter::Add encodes the  *)
(* internal key, tracks first/last key and the sequence range, adds to the *)
(* data block and flushes it once CurrentSizeEstimate reaches block_size.  *)
(* A failed write makes FlushMemTable call Abandon, which unlinks.         *)
(***************************************************************************)
AddEntry(ok) ==
    /\ phase = "adding"
    /\ pos <= Len(input)
    /\ LET e    == input[pos]
           ik   == EncodeInternalKey(e.key, e.seq, e.type)
           nb   == BlockAdd(blk, ik, ValueOf(e))
           full == SizeEstimate(nb.ents, nb.restarts) >= BlockSize
           d    == DataBlock(nb, offset)
       IN  /\ ok \/ full
           /\ IF ok
              THEN /\ pos' = pos + 1
                   /\ numEntries' = numEntries + 1
                   /\ firstKey' = IF numEntries = 0 THEN ik ELSE firstKey
                   /\ lastKey' = ik
                   /\ minSeq' = IF e.seq < minSeq THEN e.seq ELSE minSeq
                   /\ maxSeq' = IF e.seq > maxSeq THEN e.seq ELSE maxSeq
                   /\ blk' = IF full THEN EmptyBlock ELSE nb
                   /\ blocks' = IF full THEN Append(blocks, d) ELSE blocks
                   /\ index' = IF full THEN Append(index, IndexEntry(d)) ELSE index
                   /\ offset' = IF full THEN offset + d.size ELSE offset
                   /\ bloomKeys' = Append(bloomKeys, e.key)
                   /\ UNCHANGED <<phase, fdOpen, fileExists>>
              ELSE /\ phase' = "failed"
                   /\ fdOpen' = FALSE
                   /\ fileExists' = FALSE
                   /\ UNCHANGED <<pos, numEntries, firstKey, lastKey, minSeq, maxSeq,
                                  blk, blocks, index, offset, bloomKeys>>
    /\ UNCHANGED <<input, footer, hash, bloom>>

\* Mutant of FinalBlocks: Finish skips the last, partial data block.
FinalBlocksDropPartial == blocks

\* Finish's first step: flush the remaining data block if it is not empty.
FinalBlocks == IF blk.ents = <<>> THEN blocks ELSE Append(blocks, DataBlock(blk, offset))

\* WriteBloomFilter: handle (0, 0) and nothing written when no key was added.
BloomHandle(nk, flt, off) ==
    IF nk = 0 THEN [off |-> 0, size |-> 0] ELSE [off |-> off, size |-> flt.size]

\* WriteFooter: the footer's fields, the user keys cut from first_key_ and last_key_.
WriteFooter(ih, bh) ==
    LET minK == IF firstKey = <<>> THEN <<>> ELSE ExtractUserKey(firstKey)
        maxK == IF lastKey = <<>> THEN <<>> ELSE ExtractUserKey(lastKey)
        bytes == FooterEncode(HandleBytes(ih.off, ih.size), HandleBytes(bh.off, bh.size),
                              numEntries, minSeq, maxSeq, minK, maxK)
    IN  [bytes |-> bytes, len |-> Len(bytes),
         ihOff |-> ih.off, ihSize |-> ih.size, bhOff |-> bh.off, bhSize |-> bh.size,
         num |-> numEntries, minSeq |-> minSeq, maxSeq |-> maxSeq,
         minKey |-> minK, maxKey |-> maxK]

(***************************************************************************)
(* Finish succeeds: the last data block, the index block, the bloom filter *)
(* (skipped when no key was added), the footer, fsync and close.  The     *)
(* filter is built under any hash function: Hash128 is a fixed function of *)
(* the key, and the properties must hold whichever it is.                  *)
(***************************************************************************)
FinishOk ==
    /\ phase = "adding"
    /\ pos > Len(input)
    /\ \E h \in [UserKeys -> HashVals \X HashVals] :
       LET nk   == Len(bloomKeys)
           flt  == CreateFilter(bloomKeys, h, FilterBits(nk, BitsPerKey), BitsPerKey)
           bs   == FinalBlocks
           idx  == IF Len(bs) > Len(blocks) THEN Append(index, IndexEntry(Last(bs))) ELSE index
           dEnd == IF bs = <<>> THEN offset ELSE Last(bs).off + Last(bs).size
           iSz  == IndexBlockBytes(idx)
           bh   == BloomHandle(nk, flt, dEnd + iSz)
           f    == WriteFooter([off |-> dEnd, size |-> iSz], bh)
       IN  /\ blocks' = bs
           /\ index' = idx
           /\ blk' = IF Len(bs) > Len(blocks) THEN EmptyBlock ELSE blk
           /\ footer' = f
           /\ offset' = dEnd + iSz + bh.size + f.len
           /\ hash' = h
           /\ bloom' = IF nk = 0 THEN NoBloom ELSE flt
    /\ phase' = "done"
    /\ fdOpen' = FALSE
    /\ UNCHANGED <<input, pos, fileExists, numEntries, firstKey, lastKey, minSeq, maxSeq,
                   bloomKeys>>

\* Mutant of FinishFailed: closed_ set before the error, so no Abandon.
FinishFailedKeepsFile ==
    /\ phase = "adding"
    /\ pos > Len(input)
    /\ phase' = "failed"
    /\ fdOpen' = FALSE
    /\ UNCHANGED <<input, pos, blk, blocks, index, offset, numEntries, firstKey,
                   lastKey, minSeq, maxSeq, footer, fileExists, bloomKeys, hash, bloom>>

\* A write, fsync or close in Finish fails: Finish returns the error and
\* the writer's destructor, closed_ still false, runs Abandon.
FinishFailed ==
    /\ phase = "adding"
    /\ pos > Len(input)
    /\ phase' = "failed"
    /\ fdOpen' = FALSE
    /\ fileExists' = FALSE
    /\ UNCHANGED <<input, pos, blk, blocks, index, offset, numEntries, firstKey,
                   lastKey, minSeq, maxSeq, footer, bloomKeys, hash, bloom>>

Next ==
    \/ \E ok \in BOOLEAN : Open(ok)
    \/ \E ok \in BOOLEAN : AddEntry(ok)
    \/ FinishOk
    \/ FinishFailed

Spec == Init /\ [][Next]_vars

-----------------------------------------------------------------------------
Bytes == 0..255
Block == [ents : Seq([shared : Nat, delta : Seq(Bytes), val : Seq(Bytes)]),
          added : Seq([key : Seq(Bytes), val : Seq(Bytes)]),
          restarts : Seq(Nat)]

SSTTypeOK ==
    /\ phase \in {"init", "adding", "done", "failed"}
    /\ pos \in 1..(Len(input) + 1)
    /\ fdOpen \in BOOLEAN /\ fileExists \in BOOLEAN
    /\ [ents |-> blk.ents, added |-> blk.added, restarts |-> blk.restarts] \in Block
    /\ blk.counter \in 0..RestartInterval
    /\ \A i \in DOMAIN blocks : blocks[i].off \in Nat /\ blocks[i].size \in Nat
    /\ numEntries \in 0..Len(input)
    /\ minSeq \in Seqs \cup {MaxSequenceNumber} /\ maxSeq \in Seqs \cup {0}
    /\ bloomKeys \in Seq(UserKeys)
    /\ hash \in [UserKeys -> Nat \X Nat]
    /\ bloom \in [bits : SUBSET Nat, size : Nat, k : Nat]

\* The (internal key, value) pairs the memtable's entries become.
InputPairs ==
    [i \in DOMAIN input |-> [key |-> EncodeInternalKey(input[i].key, input[i].seq, input[i].type),
                             val |-> ValueOf(input[i])]]

(***************************************************************************)
(* Every block, written or being built, decodes back to what was added to  *)
(* it, both from its start and from each restart point in restarts_: the   *)
(* entry at a restart stores its key whole.  This is what BlockBuilder's   *)
(* prefix compression, restart bookkeeping and Reset must preserve over a  *)
(* run of Adds and flushes.                                                *)
(***************************************************************************)
BlocksDecode ==
    \A b \in Range(blocks) \cup {blk} :
        /\ DecodeFrom(b.ents, 1, <<>>) = b.added
        /\ \A r \in Range(b.restarts) :
              \/ b.ents = <<>> /\ r = 0
              \/ LET i == EntryAt(b.ents, r)
                 IN  /\ i > 0
                     /\ b.ents[i].shared = 0
                     /\ DecodeFrom(b.ents, i, <<>>) = SubSeq(b.added, i, Len(b.added))

(***************************************************************************)
(* When FlushMemTable returns OK, the file holds the whole memtable: the   *)
(* data blocks, laid end to end from offset 0, hold its entries in order;  *)
(* the index names each block's last key and handle; the footer's index   *)
(* handle points just past the data and its count, sequence range and key  *)
(* range are the memtable's (spec invariant 6).                           *)
(***************************************************************************)
SSTableMatchesMemTable ==
    phase = "done" =>
        /\ FlattenSeq([i \in DOMAIN blocks |-> blocks[i].added]) = InputPairs
        /\ index = [i \in DOMAIN blocks |-> IndexEntry(blocks[i])]
        /\ \A i \in DOMAIN blocks :
              blocks[i].off = IF i = 1 THEN 0 ELSE blocks[i-1].off + blocks[i-1].size
        /\ footer.ihOff = IF blocks = <<>> THEN 0 ELSE Last(blocks).off + Last(blocks).size
        /\ footer.num = Len(input)
        /\ input # <<>> =>
              /\ footer.minSeq = Min({input[i].seq : i \in DOMAIN input})
              /\ footer.maxSeq = Max({input[i].seq : i \in DOMAIN input})
              /\ footer.minKey = input[1].key
              /\ footer.maxKey = Last(input).key

(***************************************************************************)
(* A reader finds the footer the writer wrote: Footer::Decode of the last *)
(* kFooterSize bytes of a finished file succeeds and returns the index and *)
(* bloom handles, the count, the sequence range and the key range that     *)
(* WriteFooter put there.  Footer::Encode pads to a fixed size but does    *)
(* not bound the fields, and Decode trusts the lengths it reads, so        *)
(* encoder and decoder must agree byte for byte.  No run checks it: with   *)
(* one-byte keys the footer is always padded to exactly 64 bytes, and with *)
(* two 8-byte keys it outgrows 64 and TLC finds this violated               *)
(* (sstable_format.h:119 pads only up to 56 bytes).                         *)
(***************************************************************************)
FooterRoundTrips ==
    phase = "done" =>
        LET n == Len(footer.bytes)
            d == FooterDecode(SubSeq(footer.bytes, IF n > kFooterSize THEN n - kFooterSize + 1 ELSE 1, n))
        IN  /\ ~d.failed
            /\ \A fld \in DOMAIN d \ {"failed"} : d[fld] = footer[fld]

(***************************************************************************)
(* A flush that fails leaves no file behind and no descriptor open, and   *)
(* one that succeeds closes its descriptor: Abandon, called by            *)
(* FlushMemTable after a failed Add or by the destructor after a failed    *)
(* Finish, must unlink whatever was written.                              *)
(***************************************************************************)
NoPartialSSTable ==
    /\ phase = "failed" => ~fileExists
    /\ phase \in {"done", "failed"} => ~fdOpen

(***************************************************************************)
(* The filter of a flushed table has no false negatives: BloomFilterReader *)
(* reading what BloomFilterBuilder wrote answers MayContain for every user *)
(* key of the memtable, whatever Hash128 is.  Builder and reader must     *)
(* agree on the number of bits, k and the probe positions.                 *)
(***************************************************************************)
BloomNoFalseNegative ==
    phase = "done" /\ bloom # NoBloom =>
        /\ ReaderValid(bloom)
        /\ \A i \in DOMAIN input : MayContain(bloom, hash, input[i].key)

(***************************************************************************)
(* The assertion at the top of BlockBuilder::Add: each key added to a     *)
(* block compares greater, as a std::string_view, than the one before.    *)
(***************************************************************************)
BlockKeysAscending ==
    \A b \in Range(blocks) \cup {blk} :
        \A i \in 2..Len(b.added) : BytesCompare(b.added[i-1].key, b.added[i].key) < 0

=============================================================================
