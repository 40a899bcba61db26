---------------------------- MODULE SSTableFormat ----------------------------
(***************************************************************************)
(* The SSTable encodings (src/sstable/sstable_format.h, block_builder.h,   *)
(* the internal-key encoding of sstable_writer.h) as operators on byte    *)
(* strings, which are sequences of integers in 0..255.  Each decoder here  *)
(* is the inverse procedure the spec describes; the repository has no     *)
(* SSTable reader of its own.                                              *)
(***************************************************************************)
EXTENDS Integers, Sequences, SequencesExt

kFooterSize       == 64
kBlockTrailerSize == 5

\* ValueType::kValue and ValueType::kDeletion, as the byte the encoding stores.
kValueByte    == 1
kDeletionByte == 2

\* FixedEncode::EncodeFixed32/64: v in n bytes, least significant first.
RECURSIVE FixedLE(_, _)
FixedLE(v, n) == IF n = 0 THEN <<>> ELSE <<v % 256>> \o FixedLE(v \div 256, n - 1)

\* Varint::PutVarint32/64: seven bits per byte, high bit = more follows.
RECURSIVE VarintBytes(_)
VarintBytes(v) ==
    IF v < 128 THEN <<v>> ELSE <<(v % 128) + 128>> \o VarintBytes(v \div 128)

(***************************************************************************)
(* std::string_view::compare, the order BlockBuilder::Add asserts: bytes   *)
(* compared as unsigned, then a proper prefix sorts first.                 *)
(***************************************************************************)
RECURSIVE BytesCompare(_, _)
BytesCompare(a, b) ==
    CASE a = <<>> /\ b = <<>> -> 0
      [] a = <<>>             -> -1
      [] b = <<>>             -> 1
      [] Head(a) < Head(b)    -> -1
      [] Head(a) > Head(b)    -> 1
      [] OTHER                -> BytesCompare(Tail(a), Tail(b))

\* The shared-prefix loop of BlockBuilder::Add.
RECURSIVE SharedPrefix(_, _)
SharedPrefix(a, b) ==
    IF a = <<>> \/ b = <<>> \/ Head(a) # Head(b) THEN 0
    ELSE 1 + SharedPrefix(Tail(a), Tail(b))

(***************************************************************************)
(* SSTableWriter::EncodeInternalKey: user_key followed by the fixed64 of   *)
(* (seq << 8) | type.  (seq < 2^56 here, so the shift loses no bits.)      *)
(***************************************************************************)
EncodeInternalKey(ukey, seq, tbyte) == ukey \o FixedLE(seq * 256 + tbyte, 8)

\* SSTableWriter::ExtractUserKey.
ExtractUserKey(ikey) == IF Len(ikey) < 8 THEN ikey ELSE SubSeq(ikey, 1, Len(ikey) - 8)

(***************************************************************************)
(* One entry of a block as BlockBuilder::Add appends it: three varints     *)
(* (shared, non_shared, value length), the key's unshared suffix and the   *)
(* value.                                                                  *)
(***************************************************************************)
BlockEntry(shared, key, val) ==
    [shared |-> shared, delta |-> SubSeq(key, shared + 1, Len(key)), val |-> val]

EntryBytes(e) ==
    Len(VarintBytes(e.shared)) + Len(VarintBytes(Len(e.delta)))
    + Len(VarintBytes(Len(e.val))) + Len(e.delta) + Len(e.val)

\* buffer_.size() after the entries es.
BufBytes(es) == FoldLeft(LAMBDA n, e : n + EntryBytes(e), 0, es)

\* BlockBuilder::CurrentSizeEstimate.
SizeEstimate(es, restarts) == BufBytes(es) + 4 * Len(restarts) + 4

\* The block BlockTrailer::AddTrailer returns: Finish's contents (the
\* entries, each restart as fixed32, their count as fixed32), type and CRC.
BlockWithTrailerBytes(es, restarts) == SizeEstimate(es, restarts) + kBlockTrailerSize

(***************************************************************************)
(* The inverse block-reader procedure (spec section 8, invariant 8): from  *)
(* entry i on, each key is the previous key's first `shared` bytes        *)
(* followed by the stored suffix.                                          *)
(***************************************************************************)
RECURSIVE DecodeFrom(_, _, _)
DecodeFrom(es, i, prev) ==
    IF i > Len(es) THEN <<>>
    ELSE LET k == SubSeq(prev, 1, es[i].shared) \o es[i].delta
         IN  <<[key |-> k, val |-> es[i].val]>> \o DecodeFrom(es, i + 1, k)

\* The byte offset at which entry i starts.
EntryOffset(es, i) == BufBytes(SubSeq(es, 1, i - 1))

\* The entry a restart offset points at (0 when it points at none).
EntryAt(es, off) ==
    LET hits == {i \in DOMAIN es : EntryOffset(es, i) = off}
    IN  IF hits = {} THEN 0 ELSE CHOOSE i \in hits : TRUE

\* BlockHandle::Encode: varint64 offset, varint64 size.
HandleBytes(off, size) == VarintBytes(off) \o VarintBytes(size)

\* kSSTableMagic ("SSTable1" read as a little-endian fixed64), as its 8 bytes.
kMagicBytes == <<49, 101, 108, 98, 97, 84, 83, 83>>

\* Footer::Encode's fields, up to the padding.
FooterFields(ih, bh, num, minSeq, maxSeq, minKey, maxKey) ==
    FixedLE(Len(ih), 4) \o ih \o FixedLE(Len(bh), 4) \o bh
    \o FixedLE(num, 8) \o FixedLE(minSeq, 8) \o FixedLE(maxSeq, 8)
    \o FixedLE(Len(minKey), 4) \o minKey \o FixedLE(Len(maxKey), 4) \o maxKey

(***************************************************************************)
(* Footer::Encode: two length-prefixed handles, three fixed64s, two       *)
(* length-prefixed keys, zero padding up to kFooterSize - 8, and the      *)
(* fixed64 magic.  Nothing stops the fields from passing kFooterSize - 8; *)
(* the footer is then longer than kFooterSize.                            *)
(***************************************************************************)
FooterEncode(ih, bh, num, minSeq, maxSeq, minKey, maxKey) ==
    LET fs == FooterFields(ih, bh, num, minSeq, maxSeq, minKey, maxKey)
        pad == IF Len(fs) < kFooterSize - 8 THEN kFooterSize - 8 - Len(fs) ELSE 0
    IN  fs \o [i \in 1..pad |-> 0] \o kMagicBytes

\* DecodeFixed32/64: the little-endian value of the bytes bs.
RECURSIVE DecodeFixed(_)
DecodeFixed(bs) == IF bs = <<>> THEN 0 ELSE Head(bs) + 256 * DecodeFixed(Tail(bs))

(***************************************************************************)
(* BlockHandle::GetVarint64 on the bytes bs from `shift` on: whether a     *)
(* byte without the high bit ended the number before the input or the 64   *)
(* bits ran out, its value and the bytes it took.                         *)
(***************************************************************************)
RECURSIVE GetVarint64(_, _)
GetVarint64(bs, shift) ==
    IF shift > 63 \/ bs = <<>> THEN [ok |-> FALSE, val |-> 0, used |-> 0]
    ELSE IF Head(bs) < 128 THEN [ok |-> TRUE, val |-> Head(bs) * 2^shift, used |-> 1]
    ELSE LET r == GetVarint64(Tail(bs), shift + 7)
         IN  [r EXCEPT !.val = (Head(bs) - 128) * 2^shift + @, !.used = @ + 1]

\* BlockHandle::Decode: offset, then size, from the handle's slice.
BlockHandleDecode(bs) ==
    LET o == GetVarint64(bs, 0)
        s == GetVarint64(SubSeq(bs, o.used + 1, Len(bs)), 0)
    IN  [ok |-> o.ok /\ s.ok, off |-> o.val, size |-> s.val]

\* A failed Footer::Decode.
FooterFail == [failed |-> TRUE]

(***************************************************************************)
(* Footer::Decode on the slice in: refuse one shorter than kFooterSize or  *)
(* without the magic in its last 8 bytes, then read the fields from its    *)
(* start.  The code checks no length against the slice; where it would    *)
(* read past the end (undefined behaviour) the model reports a failure,    *)
(* since whatever those bytes are, the footer written is not what it       *)
(* reads.                                                                  *)
(***************************************************************************)
FooterDecode(in) ==
    LET n  == Len(in)
        Fits(p, k) == p + k - 1 <= n
        Rd(p, k) == SubSeq(in, p, p + k - 1)
        hl == DecodeFixed(Rd(1, 4))
        p2 == 5 + hl
        bl == DecodeFixed(Rd(p2, 4))
        p3 == p2 + 4 + bl
        p4 == p3 + 24
        ml == DecodeFixed(Rd(p4, 4))
        p5 == p4 + 4 + ml
        xl == DecodeFixed(Rd(p5, 4))
        ih == BlockHandleDecode(Rd(5, hl))
        bh == BlockHandleDecode(Rd(p2 + 4, bl))
    IN  IF n < kFooterSize \/ Rd(n - 7, 8) # kMagicBytes THEN FooterFail
        ELSE IF ~(Fits(5, hl) /\ Fits(p2, 4) /\ Fits(p2 + 4, bl) /\ Fits(p4, 4)
                  /\ Fits(p4 + 4, ml) /\ Fits(p5, 4) /\ Fits(p5 + 4, xl))
             THEN FooterFail
        ELSE IF ~ih.ok \/ ~bh.ok THEN FooterFail
        ELSE [failed |-> FALSE,
              ihOff |-> ih.off, ihSize |-> ih.size, bhOff |-> bh.off, bhSize |-> bh.size,
              num |-> DecodeFixed(Rd(p3, 8)), minSeq |-> DecodeFixed(Rd(p3 + 8, 8)),
              maxSeq |-> DecodeFixed(Rd(p3 + 16, 8)),
              minKey |-> Rd(p4 + 4, ml), maxKey |-> Rd(p5 + 4, xl)]

(***************************************************************************)
(* BloomFilterPolicy::OptimalNumHashes: bits_per_key * ln 2, truncated and *)
(* clamped to 1..30.  The constant 0.6931 truncates like the code's        *)
(* 0.69314718056 for every bits_per_key below 60.                          *)
(***************************************************************************)
OptimalNumHashes(bitsPerKey) ==
    LET k == (bitsPerKey * 6931) \div 10000
    IN  IF k < 1 THEN 1 ELSE IF k > 30 THEN 30 ELSE k

\* BloomFilterBuilder::Finish: the filter's bits for n keys, a multiple of 8, at least 64.
FilterBits(n, bitsPerKey) ==
    IF n = 0 THEN 0
    ELSE LET bits == ((n * bitsPerKey + 7) \div 8) * 8
         IN  IF bits < 64 THEN 64 ELSE bits

\* The size of the string BloomFilterBuilder::Finish returns: the bytes and k.
BloomBytes(n, bitsPerKey) == FilterBits(n, bitsPerKey) \div 8 + 1

\* The bit positions (h1 + i*h2) % num_bits, i < k, for the hash pair h.
ProbePositions(h, k, nbits) == {(h[1] + i * h[2]) % nbits : i \in 0..(k - 1)}

(***************************************************************************)
(* BloomFilterBuilder::CreateFilter for the keys ks under the hash hash:   *)
(* the set bits, the string's size (bytes plus the byte that stores k), and *)
(* k.                                                                      *)
(***************************************************************************)
CreateFilter(ks, hash, nbits, bitsPerKey) ==
    LET k == OptimalNumHashes(bitsPerKey)
    IN  [bits |-> UNION {ProbePositions(hash[ks[j]], k, nbits) : j \in DOMAIN ks},
         size |-> nbits \div 8 + 1,
         k    |-> k]

\* Mutant of ReaderNumBits: the byte that stores k counted as filter bits.
ReaderNumBitsWhole(f) == f.size * 8

\* BloomFilterReader::Init: num_bits_ from the string's size, less k's byte.
ReaderNumBits(f) == (f.size - 1) * 8

\* Init refuses an empty string or a stored k outside 1..30.
ReaderValid(f) == f.size >= 1 /\ f.k \in 1..30

\* BloomFilterReader::MayContain: TRUE unless some probed bit is clear.
MayContain(f, hash, key) ==
    \/ ReaderNumBits(f) = 0
    \/ \A p \in ProbePositions(hash[key], f.k, ReaderNumBits(f)) : p \in f.bits

=============================================================================
