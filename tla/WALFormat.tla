------------------------------ MODULE WALFormat ------------------------------
(***************************************************************************)
(* The WAL's bytes.  A record is built by WALWriter::AppendRecord          *)
(* (src/wal/wal_writer.h) and read back by WALReader::ReadRecord,          *)
(* ReadEntry and ForEach (src/wal/wal_reader.h).  The payload inside it is *)
(* an entry encoded by EncodeWALEntry and decoded by DecodeWALEntry.       *)
(* wal_format.h holds those two and CRC32, and it is not among the         *)
(* repository's sources, so they are modelled from the spec (sections 3,  *)
(* 4.5 and 6).                                                             *)
(*                                                                         *)
(* The CRC is replaced by Checksum, a deterministic function of the same   *)
(* bytes; the reader compares it with the stored one as it would the CRC.  *)
(* The files checked are the byte images of WALWriter's chunks: records,   *)
(* and records cut short by a short write(2) with more records after them. *)
(***************************************************************************)
EXTENDS Integers, Sequences, SequencesExt, WALWriter

CONSTANT EntryOf   \* the entry each of the writer's Entries stands for

\* WALEntryType (spec 4.5) and RecordType::kFull.
kPut    == 1
kDelete == 2
kFull   == 1

\* n bytes of v, least significant first.
RECURSIVE LE(_, _)
LE(v, n) == IF n = 0 THEN <<>> ELSE <<v % 256>> \o LE(v \div 256, n - 1)

RECURSIVE FromLE(_)
FromLE(bs) == IF bs = <<>> THEN 0 ELSE Head(bs) + 256 * FromLE(Tail(bs))

\* PutVarint32: 7 bits per byte, the high bit set on every byte but the last.
RECURSIVE Varint32(_)
Varint32(v) == IF v < 128 THEN <<v>> ELSE <<(v % 128) + 128>> \o Varint32(v \div 128)

(***************************************************************************)
(* GetVarint32 at position p of bs: at most five bytes (shift <= 28), and  *)
(* failing when the bytes end before a byte without the high bit.          *)
(***************************************************************************)
RECURSIVE GetVarint32(_, _, _)
GetVarint32(bs, p, shift) ==
    IF shift > 28 \/ p > Len(bs) THEN [ok |-> FALSE]
    ELSE IF bs[p] >= 128
         THEN LET r == GetVarint32(bs, p + 1, shift + 7)
              IN  IF r.ok THEN [r EXCEPT !.val = (bs[p] - 128) * 2^shift + @] ELSE r
         ELSE [ok |-> TRUE, val |-> bs[p] * 2^shift, next |-> p + 1]

\* An entry: its type, sequence number, key and value (byte sequences).
Entry(t, s, k, v) == [type |-> t, seq |-> s, key |-> k, value |-> v]

\* EncodeWALEntry: type(1) ‖ seq(8 LE) ‖ varint key length ‖ key ‖ varint value length ‖ value.
EncodeWALEntry(e) ==
    <<e.type>> \o LE(e.seq, 8) \o Varint32(Len(e.key)) \o e.key
               \o Varint32(Len(e.value)) \o e.value

NoEntry == [ok |-> FALSE]

(***************************************************************************)
(* DecodeWALEntry: fails on a payload shorter than type and sequence, on a *)
(* type that is neither Put nor Delete, and on a length that is malformed *)
(* or runs past the payload's end.                                         *)
(***************************************************************************)
DecodeWALEntry(p) ==
    LET kl   == GetVarint32(p, 10, 0)
        kEnd == kl.next + kl.val - 1
        vl   == GetVarint32(p, kEnd + 1, 0)
        vEnd == vl.next + vl.val - 1
    IN  IF \/ Len(p) < 9
           \/ p[1] \notin {kPut, kDelete}
           \/ ~kl.ok \/ kEnd > Len(p)
           \/ ~vl.ok \/ vEnd > Len(p)
        THEN NoEntry
        ELSE [ok |-> TRUE] @@ Entry(p[1], FromLE(SubSeq(p, 2, 9)),
                                    SubSeq(p, kl.next, kEnd), SubSeq(p, vl.next, vEnd))

\* The stand-in for CRC32 over the length bytes, the type and the payload.
\* (the sum of i * bs[i], split in halves so the recursion stays shallow).
RECURSIVE Mix(_, _, _)
Mix(bs, lo, hi) ==
    IF lo > hi THEN 0
    ELSE IF lo = hi THEN (lo * bs[lo]) % 65521
    ELSE LET mid == (lo + hi) \div 2
         IN  (Mix(bs, lo, mid) + Mix(bs, mid + 1, hi)) % 65521

Checksum(lenBytes, typeAndPayload) ==
    LET bs == lenBytes \o typeAndPayload IN LE(Mix(bs, 1, Len(bs)), 4)

(***************************************************************************)
(* AppendRecord's record: CRC(4) ‖ length as uint16_t, little-endian (2) ‖ *)
(* kFull (1) ‖ payload.                                                    *)
(***************************************************************************)
FrameRecord(payload) ==
    LET lenBytes == LE(LenField(Len(payload)), 2)
    IN  Checksum(lenBytes, <<kFull>> \o payload) \o lenBytes \o <<kFull>> \o payload

(***************************************************************************)
(* ReadRecord at offset pos (0-based, as pos_) of the file f: end of file, *)
(* a truncated header, a truncated payload, a CRC mismatch, a type other   *)
(* than kFull, or the payload and the offset after it.                     *)
(***************************************************************************)
\* Mutant of ReadRecord: a payload that ends exactly at the file's end counts as truncated.
ReadRecordEndExclusive(f, pos) ==
    LET h   == SubSeq(f, pos + 1, pos + kHeaderSize)
        len == h[5] + 256 * h[6]
        pl  == SubSeq(f, pos + kHeaderSize + 1, pos + kHeaderSize + len)
    IN  CASE pos >= Len(f)                    -> [st |-> "eof"]
          [] pos + kHeaderSize > Len(f)       -> [st |-> "corruption"]
          [] pos + kHeaderSize + len >= Len(f) -> [st |-> "corruption"]
          [] SubSeq(h, 1, 4) # Checksum(SubSeq(h, 5, 6), <<h[7]>> \o pl) -> [st |-> "corruption"]
          [] h[7] # kFull                     -> [st |-> "corruption"]
          [] OTHER -> [st |-> "ok", payload |-> pl, next |-> pos + kHeaderSize + len]

ReadRecord(f, pos) ==
    LET h   == SubSeq(f, pos + 1, pos + kHeaderSize)
        len == h[5] + 256 * h[6]
        pl  == SubSeq(f, pos + kHeaderSize + 1, pos + kHeaderSize + len)
    IN  CASE pos >= Len(f)                    -> [st |-> "eof"]
          [] pos + kHeaderSize > Len(f)       -> [st |-> "corruption"]
          [] pos + kHeaderSize + len > Len(f) -> [st |-> "corruption"]
          [] SubSeq(h, 1, 4) # Checksum(SubSeq(h, 5, 6), <<h[7]>> \o pl) -> [st |-> "corruption"]
          [] h[7] # kFull                     -> [st |-> "corruption"]
          [] OTHER -> [st |-> "ok", payload |-> pl, next |-> pos + kHeaderSize + len]

(***************************************************************************)
(* ForEach from offset pos: ReadEntry until it returns false; the entries  *)
(* read and the status left by the last ReadEntry.                         *)
(***************************************************************************)
RECURSIVE ForEachFrom(_, _, _)
ForEachFrom(f, pos, acc) ==
    LET r == ReadRecord(f, pos)
        d == DecodeWALEntry(r.payload)
    IN  CASE r.st = "eof"        -> [entries |-> acc, status |-> "ok"]
          [] r.st = "corruption" -> [entries |-> acc, status |-> "corruption"]
          [] ~d.ok               -> [entries |-> acc, status |-> "corruption"]
          [] OTHER -> ForEachFrom(f, r.next, Append(acc, [fld \in DOMAIN d \ {"ok"} |-> d[fld]]))

-----------------------------------------------------------------------------
\* Every payload size the writer may append is that of an entry's encoding.
ASSUME \A e \in Entries, ps \in PayloadSizes : ps = Len(EncodeWALEntry(EntryOf[e]))

\* The bytes a chunk of the writer's file holds: its record, or the first k of them.
ChunkBytes(c, k) ==
    LET rec == FrameRecord(EncodeWALEntry(EntryOf[c.ent]))
    IN  IF c.whole THEN rec ELSE SubSeq(rec, 1, k)

\* Where a short write(2) may stop: inside the header, at its edges, or one byte short.
CutPoints(c) == {1, kHeaderSize - 1, kHeaderSize, kHeaderSize + 1, RecordBytes(c.psize) - 1}

\* The files the writer's chunks may be, one for each way its short writes stopped.
RECURSIVE FileImages(_)
FileImages(file) ==
    IF file = <<>> THEN {<<>>}
    ELSE LET c == Head(file)
             firsts == IF c.whole THEN {ChunkBytes(c, 0)} ELSE {ChunkBytes(c, k) : k \in CutPoints(c)}
         IN  {x \o y : x \in firsts, y \in FileImages(Tail(file))}

(***************************************************************************)
(* WALReader over the bytes agrees with the chunk model Recover relies on: *)
(* ForEach on the writer's file, however its short writes were cut,        *)
(* returns the entries of exactly the records before the first fragment   *)
(* (ReadCount), decoded to the entries appended, and reports Corruption    *)
(* exactly when a fragment stopped it (AppendRecord's framing, ReadRecord's *)
(* bounds checks, ReadEntry's decode; spec section 8: a torn tail yields   *)
(* every earlier record).                                                  *)
(***************************************************************************)
ReaderMatchesChunkModel ==
    \A f \in FileImages(data) :
        ForEachFrom(f, 0, <<>>)
          = [entries |-> [i \in 1..ReadCount(data) |-> EntryOf[data[i].ent]],
             status  |-> ReadStatus(data)]

=============================================================================
