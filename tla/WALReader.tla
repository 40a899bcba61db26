------------------------------ MODULE WALReader ------------------------------
(***************************************************************************)
(* The WAL's on-disk record framing and WALReader (src/wal/wal_reader.h),  *)
(* as operators on a segment file.                                         *)
(*                                                                         *)
(* A segment is a sequence of chunks, one per write(2) of                  *)
(* WALWriter::AppendRecord:                                                *)
(*   ent    - the entry the record carries (opaque here);                  *)
(*   psize  - the size of its encoded payload, in bytes;                   *)
(*   whole  - FALSE when the write was short and left a fragment.          *)
(* A record occupies kHeaderSize + psize bytes; its header stores the      *)
(* payload length as a uint16_t and a CRC over length, type and the whole  *)
(* payload.  The CRC is assumed to detect every mismatch the reader meets  *)
(* (a CRC-32 collision on a torn record is not modelled).                  *)
(***************************************************************************)
EXTENDS Integers, Sequences, SequencesExt

\* kHeaderSize: CRC32 (4) + length (2) + type (1).
kHeaderSize == 7

\* The width of the header's length field.
LenBits == 16

(***************************************************************************)
(* Varint32 length and EncodeWALEntry's payload size: type (1), sequence   *)
(* (8), varint key length, key, varint value length, value.                *)
(***************************************************************************)
RECURSIVE VarintLen(_)
VarintLen(n) == IF n < 128 THEN 1 ELSE 1 + VarintLen(n \div 128)

PayloadSize(klen, vlen) == 1 + 8 + VarintLen(klen) + klen + VarintLen(vlen) + vlen

\* A chunk written by one complete or one short write(2).
Record(ent, psize)   == [ent |-> ent, psize |-> psize, whole |-> TRUE]
Fragment(ent, psize) == [ent |-> ent, psize |-> psize, whole |-> FALSE]

\* Bytes a complete record occupies in the file.
RecordBytes(psize) == kHeaderSize + psize

\* The length field AppendRecord writes: static_cast<uint16_t>(payload.size()).
LenField(psize) == psize % (2 ^ LenBits)

(***************************************************************************)
(* ReadRecord at the start of chunk c accepts it iff the header's length   *)
(* names the whole payload the CRC was computed over.  A fragment is a     *)
(* truncated header or payload when it is last, and a CRC mismatch when    *)
(* bytes of the next record follow it; a complete record whose length was *)
(* truncated by the uint16_t cast fails the CRC over the shorter payload.  *)
(***************************************************************************)
RecordReadable(c) == c.whole /\ LenField(c.psize) = c.psize

(***************************************************************************)
(* ReadEntry / ForEach over a whole segment: the number of records read   *)
(* before the first Corruption (or EOF), the entries they decode to, and  *)
(* the status the last ReadEntry leaves.  DecodeWALEntry of a payload the *)
(* writer encoded always succeeds (spec section 8, invariant 5).           *)
(***************************************************************************)
ReadCount(file) ==
    LET bad == SelectInSeq(file, LAMBDA c : ~RecordReadable(c))
    IN  IF bad = 0 THEN Len(file) ELSE bad - 1

ReadEntries(file) == [i \in 1..ReadCount(file) |-> file[i].ent]

ReadStatus(file) == IF ReadCount(file) = Len(file) THEN "ok" ELSE "corruption"

=============================================================================
