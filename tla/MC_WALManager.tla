---------------------------- MODULE MC_WALManager ----------------------------
(* The WAL manager with three appends, four log numbers and two crashes. *)
EXTENDS WALManager

\* Payload of a Put with a 2-byte key and a 1-byte value: 1+8+1+2+1+1.
MCSmallPayloads == {PayloadSize(2, 1)}

\* Two small records fill a batch.
MCBatchSize == 2 * RecordBytes(PayloadSize(2, 1))

\* One small record fills a log file, so the next Append rotates.
MCMaxFileSize == RecordBytes(PayloadSize(2, 1))

MCEntries == 1..3
=============================================================================
