---------------------------- MODULE MC_WALWriter ----------------------------
(* One writer, every sync policy, three write(2) calls. *)
EXTENDS WALFormat

\* The entry appended: a Put at sequence 300 (two varint bytes in the
\* sequence's low byte pair) with a 128-byte key (a two-byte varint length).
MCEntry == Entry(kPut, 300, [i \in 1..128 |-> 97], <<1>>)

MCEntryOf == [e \in Entries |-> MCEntry]

\* Its payload: 1+8+2+128+1+1 bytes.
MCSmallPayload == PayloadSize(128, 1)

MCSmallPayloads == {MCSmallPayload}

\* Two records fill a batch.
MCBatchSize == 2 * RecordBytes(MCSmallPayload)
=============================================================================
