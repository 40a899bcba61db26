------------------------------ MODULE WALWriter ------------------------------
(***************************************************************************)
(* WALWriter (src/wal/wal_writer.h): one log file, its sync policy and the *)
(* periodic sync thread.                                                   *)
(*                                                                         *)
(* Every public method takes mutex_, so each is one atomic step, except   *)
(* Close, which drops the lock to join the sync thread: CloseBegin and     *)
(* CloseFinish.  The sync thread runs one loop iteration per step: it      *)
(* wakes (on a nudge, on Close or on the sync_interval timeout, so it can  *)
(* wake at any time), syncs if there is something to sync, and exits when *)
(* closed_ is set.  The file is a sequence of chunks (WALReader); the      *)
(* first `durable` of them have reached the disk.  fsync(2) and write(2)  *)
(* may fail; a write may also be short and leave a fragment.               *)
(***************************************************************************)
EXTENDS Integers, Sequences, SequencesExt, WALReader

CONSTANTS
    Policies,       \* the SyncPolicy values a writer may be configured with
    BatchSize,      \* WALOptions::sync_batch_size, in bytes
    Entries,        \* the entries a caller may append (opaque)
    PayloadSizes,   \* the encoded payload sizes an entry may have
    MaxChunks       \* bound: write(2) calls that reach the file

SyncPolicies == {"PerWrite", "Batched", "Periodic", "NoSync"}

ASSUME Policies \subseteq SyncPolicies /\ BatchSize \in Nat /\ MaxChunks \in Nat

VARIABLES
    policy,     \* options_.sync_policy
    opened,     \* Open has been called
    fdOpen,     \* fd_ >= 0
    closed,     \* closed_
    joining,    \* Close has dropped the lock and waits for the sync thread
    data,       \* the file's chunks, as the page cache holds them
    durable,    \* how many leading chunks an fsync has made durable
    fileSize,   \* file_size_
    sinceSync,  \* bytes_since_sync_
    syncReq,    \* sync_requested_
    tpc,        \* the sync thread: "none", "waiting" or "exited"
    acked,      \* history: positions of the records whose Append returned OK
    closeDone   \* history: Close has returned

writerVars == <<policy, opened, fdOpen, closed, joining, data, durable, fileSize,
                sinceSync, syncReq, tpc, acked, closeDone>>

FileBytes(file) ==
    FoldLeft(LAMBDA n, c : n + IF c.whole THEN RecordBytes(c.psize) ELSE 0, 0, file)

-----------------------------------------------------------------------------
\* The constructor: nothing open, counters at zero.
WInit ==
    /\ policy \in Policies
    /\ opened = FALSE /\ fdOpen = FALSE /\ closed = FALSE /\ joining = FALSE
    /\ data = <<>> /\ durable = 0
    /\ fileSize = 0 /\ sinceSync = 0 /\ syncReq = FALSE
    /\ tpc = "none"
    /\ acked = {} /\ closeDone = FALSE

(***************************************************************************)
(* Open: open(O_APPEND) the file (or fail), take its size with fstat and   *)
(* start the sync thread under SyncPeriodic.                               *)
(***************************************************************************)
Open(ok) ==
    /\ ~opened
    /\ opened' = TRUE
    /\ fdOpen' = ok
    /\ fileSize' = IF ok THEN FileBytes(data) ELSE fileSize
    /\ tpc' = IF ok /\ policy = "Periodic" THEN "waiting" ELSE tpc
    /\ UNCHANGED <<policy, closed, joining, data, durable, sinceSync, syncReq,
                   acked, closeDone>>

(***************************************************************************)
(* SyncLocked: fsync when the fd is open and bytes are pending.  `ok` is  *)
(* fsync's outcome; on failure nothing becomes durable and the bytes stay *)
(* pending.                                                                *)
(***************************************************************************)
SyncNeeded == fdOpen /\ sinceSync > 0

\* Mutant of SyncLocked: the pending count is lowered by a batch, not reset.
SyncLockedLowerByBatch(ok) ==
    IF SyncNeeded /\ ok
      THEN durable' = Len(data) /\ sinceSync' = sinceSync - BatchSize
      ELSE UNCHANGED <<durable, sinceSync>>

SyncLocked(ok) ==
    IF SyncNeeded /\ ok
      THEN durable' = Len(data) /\ sinceSync' = 0
      ELSE UNCHANGED <<durable, sinceSync>>

(***************************************************************************)
(* AppendRecord with a complete write(2): the record reaches the file,     *)
(* file_size_ and bytes_since_sync_ grow, and HandleSync applies the       *)
(* policy: fsync now (SyncPerWrite; SyncBatched once the batch is full),  *)
(* nudge the sync thread (SyncPeriodic), or nothing (NoSync).  The Append *)
(* returns OK unless the fsync it made failed.                             *)
(***************************************************************************)
\* Mutant of HandleSyncNow: the SyncPerWrite case is missing.
HandleSyncNowBatchedOnly(bytes) ==
    policy = "Batched" /\ bytes >= BatchSize

HandleSyncNow(bytes) ==
    \/ policy = "PerWrite"
    \/ policy = "Batched" /\ bytes >= BatchSize

AppendRecord(e, ps, ok) ==
    /\ fdOpen /\ Len(data) < MaxChunks
    /\ LET rec   == Record(e, ps)
           bytes == sinceSync + RecordBytes(ps)
           now   == HandleSyncNow(bytes)
       IN
       /\ data'     = Append(data, rec)
       /\ fileSize' = fileSize + RecordBytes(ps)
       /\ IF now /\ ok
            THEN durable' = Len(data) + 1 /\ sinceSync' = 0
            ELSE durable' = durable /\ sinceSync' = bytes
       /\ syncReq'  = (syncReq \/ policy = "Periodic")
       /\ acked'    = IF ~now \/ ok THEN acked \cup {Len(data) + 1} ELSE acked
    /\ UNCHANGED <<policy, opened, fdOpen, closed, joining, tpc, closeDone>>

(***************************************************************************)
(* AppendRecord with a short write(2): part of the record reaches the      *)
(* file, IOError is returned, and file_size_ and bytes_since_sync_ are    *)
(* left as they were.  (A write(2) that writes nothing and the early      *)
(* return when fd_ < 0 change no state.)                                   *)
(***************************************************************************)
AppendShort(e, ps) ==
    /\ fdOpen /\ Len(data) < MaxChunks
    /\ data' = Append(data, Fragment(e, ps))
    /\ UNCHANGED <<policy, opened, fdOpen, closed, joining, durable, fileSize,
                   sinceSync, syncReq, tpc, acked, closeDone>>

\* WALWriter::Sync.
Sync(ok) ==
    /\ SyncLocked(ok)
    /\ UNCHANGED <<policy, opened, fdOpen, closed, joining, data, fileSize,
                   syncReq, tpc, acked, closeDone>>

\* Mutant of SyncThreadStep: the test reads `closed_ && ...`.
SyncThreadStepWhenClosed(ok) ==
    /\ tpc = "waiting"
    /\ IF closed THEN SyncLocked(ok) ELSE UNCHANGED <<durable, sinceSync>>
    /\ syncReq' = FALSE
    /\ tpc' = IF closed THEN "exited" ELSE "waiting"
    /\ UNCHANGED <<policy, opened, fdOpen, closed, joining, data, fileSize,
                   acked, closeDone>>

\* Mutant of SyncThreadStep: the loop never leaves.
SyncThreadStepNoExit(ok) ==
    /\ tpc = "waiting"
    /\ IF ~closed THEN SyncLocked(ok) ELSE UNCHANGED <<durable, sinceSync>>
    /\ syncReq' = FALSE
    /\ UNCHANGED <<policy, opened, fdOpen, closed, joining, data, fileSize,
                   tpc, acked, closeDone>>

(***************************************************************************)
(* One iteration of the sync thread's loop, from the return of wait_for    *)
(* to the next wait_for or the thread's exit.                              *)
(***************************************************************************)
SyncThreadStep(ok) ==
    /\ tpc = "waiting"
    /\ IF ~closed THEN SyncLocked(ok) ELSE UNCHANGED <<durable, sinceSync>>
    /\ syncReq' = FALSE
    /\ tpc' = IF closed THEN "exited" ELSE "waiting"
    /\ UNCHANGED <<policy, opened, fdOpen, closed, joining, data, fileSize,
                   acked, closeDone>>

(***************************************************************************)
(* Close, first half: set closed_, and if the sync thread runs, drop the   *)
(* lock, notify and start joining it.  A second Close returns at once.    *)
(***************************************************************************)
CloseBegin ==
    /\ opened /\ ~closed
    /\ closed'  = TRUE
    /\ joining' = TRUE
    /\ UNCHANGED <<policy, opened, fdOpen, data, durable, fileSize, sinceSync,
                   syncReq, tpc, acked, closeDone>>

(***************************************************************************)
(* Close, second half: once the thread has exited, relock, fsync (its     *)
(* result is ignored) and close the fd; Close returns OK.                  *)
(***************************************************************************)
CloseFinish(ok) ==
    /\ joining /\ tpc # "waiting"
    /\ durable' = IF fdOpen /\ ok THEN Len(data) ELSE durable
    /\ fdOpen'  = FALSE
    /\ joining' = FALSE
    /\ closeDone' = TRUE
    /\ UNCHANGED <<policy, opened, closed, data, fileSize, sinceSync, syncReq,
                   tpc, acked>>

\* Calls on a closed writer (Append, Sync, Close) return at once.
Closed ==
    /\ closeDone
    /\ UNCHANGED writerVars

WNext ==
    \/ \E ok \in BOOLEAN : Open(ok)
    \/ \E e \in Entries, ps \in PayloadSizes :
          \/ \E ok \in BOOLEAN : AppendRecord(e, ps, ok)
          \/ AppendShort(e, ps)
    \/ \E ok \in BOOLEAN : Sync(ok) \/ SyncThreadStep(ok) \/ CloseFinish(ok)
    \/ CloseBegin
    \/ Closed

(***************************************************************************)
(* Fairness.  The sync thread wakes at least every sync_interval, so its   *)
(* loop keeps running; fsync is assumed not to fail forever, so a sync    *)
(* that keeps being possible eventually succeeds.  Close, once begun,     *)
(* completes when the thread has exited.  Appends, Sync and the start of  *)
(* Close are the caller's choice.                                          *)
(***************************************************************************)
WFairness ==
    /\ WF_writerVars(\E ok \in BOOLEAN : SyncThreadStep(ok))
    /\ SF_writerVars(SyncThreadStep(TRUE))
    /\ WF_writerVars(\E ok \in BOOLEAN : CloseFinish(ok))

WSpec == WInit /\ [][WNext]_writerVars /\ WFairness

-----------------------------------------------------------------------------
Chunks == [ent : Entries, psize : PayloadSizes, whole : BOOLEAN]

WTypeOK ==
    /\ policy \in SyncPolicies
    /\ opened \in BOOLEAN /\ fdOpen \in BOOLEAN
    /\ closed \in BOOLEAN /\ joining \in BOOLEAN
    /\ data \in Seq(Chunks) /\ Len(data) <= MaxChunks
    /\ durable \in 0..Len(data)
    /\ fileSize \in Nat /\ sinceSync \in Nat /\ syncReq \in BOOLEAN
    /\ tpc \in {"none", "waiting", "exited"}
    /\ acked \subseteq 1..Len(data) /\ closeDone \in BOOLEAN

(***************************************************************************)
(* Under SyncPerWrite an Append that returned OK has reached the disk,     *)
(* whatever fsync failures and short writes came before it                 *)
(* (AppendRecord, HandleSync, SyncLocked).                                  *)
(***************************************************************************)
AckedDurable ==
    policy = "PerWrite" => \A i \in acked : i <= durable

(***************************************************************************)
(* Recovery returns every acknowledged record that reached the disk: a     *)
(* reader of the durable part of the file reads past each of them           *)
(* (AppendRecord's framing against WALReader::ReadRecord).                 *)
(***************************************************************************)
DurableAckedReadable ==
    \A i \in acked : i <= durable => i <= ReadCount(SubSeq(data, 1, durable))

(***************************************************************************)
(* Under SyncPeriodic every complete record that reached the file is      *)
(* eventually durable, unless the writer is closed first (the sync         *)
(* thread's loop, HandleSync's nudge, SyncLocked).                         *)
(***************************************************************************)
PeriodicEventuallyDurable ==
    \A i \in 1..MaxChunks :
        (policy = "Periodic" /\ Len(data) >= i /\ data[i].whole /\ ~closed)
            ~> (durable >= i \/ closed)

(***************************************************************************)
(* Close terminates: the sync thread leaves its loop once closed_ is set   *)
(* and the join returns (Close, StartSyncThread).                          *)
(***************************************************************************)
CloseTerminates ==
    joining ~> (closeDone /\ tpc # "waiting")

=============================================================================
