------------------------------ MODULE WALManager ------------------------------
(***************************************************************************)
(* WALManager (src/wal/wal_manager.h): a directory of numbered log         *)
(* segments, one WALWriter (module WALWriter) on the current one, rotation *)
(* on size, retention after a flush, and recovery; composed with crashes.  *)
(*                                                                         *)
(* Every public method holds mutex_ for its whole run, so each is one      *)
(* atomic step.  RotateLocked and Close close the current writer, which    *)
(* joins its sync thread; under the manager's lock nothing else can run    *)
(* meanwhile, and the thread's last iteration after closed_ only exits, so *)
(* the join is part of the step.  The one exception is Append when         *)
(* ShouldRotate holds: the rotation and the append are two steps, and only *)
(* the writer's sync thread can run between them (mstate = "append").      *)
(*                                                                         *)
(* A crash loses the page cache: each segment keeps at least its durable   *)
(* prefix and possibly more of what was written, the last chunk kept       *)
(* possibly torn (a fragment).  The next process starts with a new         *)
(* WALManager.  Entries are numbered in the order of their Append.         *)
(***************************************************************************)
EXTENDS Integers, Sequences, SequencesExt, FiniteSets, WALWriter

CONSTANTS
    MaxFileSize,  \* WALOptions::max_file_size, in bytes
    NameLimit,    \* the first log number "%06llu" prints with 7 digits (10^6)
    MaxLog,       \* bound: the highest log number OpenNewLog may reach
    MaxAppends,   \* bound: Appends made over all runs of the program
    MaxCrashes,   \* bound: crashes
    MaxOpenFaults \* bound: logs per Recover whose WALReader::Open fails

ASSUME Entries = 1..MaxAppends

VARIABLES
    mstate,     \* "down" (no current_writer_), "open", or "append" (see above)
    curLog,     \* current_log_number_
    files,      \* log number -> segment, for the segments on disk other than
                \* the one the current writer has open
    nextId,     \* the entry the next Append carries
    ackedIds,   \* history: entries whose Append returned OK
    owed,       \* history: acked entries that every crash since found durable
    deleted,    \* history: entries of segments MarkFlushed unlinked
    crashes,    \* crashes so far
    recovered,  \* the entries the last Recover replayed, in replay order
    owedAtRec,  \* owed \ deleted when that Recover ran
    ackedAtRec, \* ackedIds \ deleted when that Recover ran
    unreadAtRec \* the entries of the logs that Recover could not open

mgrVars == <<mstate, curLog, files, nextId, ackedIds, owed, deleted, crashes,
             recovered, owedAtRec, ackedAtRec, unreadAtRec>>

vars == <<writerVars, mgrVars>>

\* A segment: its chunks and how many of them are durable.
Seg(d, n) == [data |-> d, durable |-> n]

\* The directory: every segment on disk, the current writer's included.
Disk ==
    IF mstate # "down" /\ fdOpen
      THEN [n \in DOMAIN files \cup {curLog} |->
              IF n = curLog THEN Seg(data, durable) ELSE files[n]]
      ELSE files

(***************************************************************************)
(* LogPath prints "%06llu" and ListLogFiles keeps the names matching       *)
(* log\.(\d{6}), sorted: the numbers below NameLimit, ascending.           *)
(***************************************************************************)
\* Mutant of ListLogFiles: the std::sort is missing (readdir order).
ListLogFilesUnsorted == SetToSortSeq({n \in DOMAIN Disk : n < NameLimit}, >)

ListLogFiles == SetToSortSeq({n \in DOMAIN Disk : n < NameLimit}, <)

\* WALWriter::ShouldRotate.
ShouldRotate == fileSize >= MaxFileSize

\* The writer fields of a writer that was never opened (or no writer at all).
NoWriter ==
    /\ opened' = FALSE /\ fdOpen' = FALSE /\ closed' = FALSE /\ joining' = FALSE
    /\ data' = <<>> /\ durable' = 0 /\ fileSize' = 0 /\ sinceSync' = 0
    /\ syncReq' = FALSE /\ tpc' = "none" /\ acked' = {} /\ closeDone' = FALSE
    /\ UNCHANGED policy

\* Mutant of NewWriter: the new writer keeps the old one's acked records.
NewWriterKeepsAcked(n, ok) ==
    LET old == IF n \in DOMAIN files THEN files[n] ELSE Seg(<<>>, 0)
    IN  /\ opened' = TRUE /\ fdOpen' = ok /\ closed' = FALSE /\ joining' = FALSE
        /\ data'     = IF ok THEN old.data ELSE <<>>
        /\ durable'  = IF ok THEN old.durable ELSE 0
        /\ fileSize' = IF ok THEN FileBytes(old.data) ELSE 0
        /\ sinceSync' = 0 /\ syncReq' = FALSE
        /\ tpc' = IF ok /\ policy = "Periodic" THEN "waiting" ELSE "none"
        /\ UNCHANGED <<acked, policy>> /\ closeDone' = FALSE

(***************************************************************************)
(* OpenNewLog after current_log_number_++: a new WALWriter on log n, and   *)
(* its Open, which appends (O_APPEND) to log n if that file exists.        *)
(***************************************************************************)
NewWriter(n, ok) ==
    LET old == IF n \in DOMAIN files THEN files[n] ELSE Seg(<<>>, 0)
    IN  /\ opened' = TRUE /\ fdOpen' = ok /\ closed' = FALSE /\ joining' = FALSE
        /\ data'     = IF ok THEN old.data ELSE <<>>
        /\ durable'  = IF ok THEN old.durable ELSE 0
        /\ fileSize' = IF ok THEN FileBytes(old.data) ELSE 0
        /\ sinceSync' = 0 /\ syncReq' = FALSE
        /\ tpc' = IF ok /\ policy = "Periodic" THEN "waiting" ELSE "none"
        /\ acked' = {} /\ closeDone' = FALSE
        /\ UNCHANGED policy

\* The entries a segment holds chunks of.
SegIds(s) == {s.data[i].ent : i \in DOMAIN s.data}

\* Room for one more chunk in log n (the model's bound on a file).
Room(n) == IF n \in DOMAIN files THEN Len(files[n].data) < MaxChunks ELSE TRUE

(***************************************************************************)
(* The current writer's Close (its final fsync with outcome ok, result     *)
(* ignored) leaves its segment on disk with `d` chunks durable before.     *)
(***************************************************************************)
Retire(d, ok) ==
    files' = IF fdOpen
               THEN (curLog :> Seg(data, IF ok THEN Len(data) ELSE d)) @@ files
               ELSE files

(***************************************************************************)
(* RotateLocked: Sync the current writer (result ignored), Close it        *)
(* (result ignored), then OpenNewLog on current_log_number_ + 1.           *)
(***************************************************************************)
RotateLocked(syncOk, closeOk, openOk) ==
    LET d1 == IF SyncNeeded /\ syncOk THEN Len(data) ELSE durable
    IN  /\ curLog < MaxLog /\ Room(curLog + 1)
        /\ Retire(d1, closeOk)
        /\ curLog' = curLog + 1
        /\ NewWriter(curLog + 1, openOk)

-----------------------------------------------------------------------------
MInit ==
    /\ WInit
    /\ mstate = "down" /\ curLog = 0 /\ files = <<>>
    /\ nextId = 1 /\ ackedIds = {} /\ owed = {} /\ deleted = {}
    /\ crashes = 0
    /\ recovered = <<>> /\ owedAtRec = {} /\ ackedAtRec = {} /\ unreadAtRec = {}

\* Open: list the logs, continue numbering after the last one, OpenNewLog.
MOpen(ok) ==
    LET ls   == ListLogFiles
        base == IF ls = <<>> THEN curLog ELSE Last(ls)
    IN  /\ mstate = "down"
        /\ base < MaxLog /\ Room(base + 1)
        /\ curLog' = base + 1
        /\ NewWriter(base + 1, ok)
        /\ mstate' = "open"
        /\ UNCHANGED <<files, nextId, ackedIds, owed, deleted, crashes,
                       recovered, owedAtRec, ackedAtRec, unreadAtRec>>

(***************************************************************************)
(* Append, first step when ShouldRotate: RotateLocked.  If OpenNewLog      *)
(* fails the Append returns that error; otherwise the append follows.      *)
(***************************************************************************)
AppendRotate(syncOk, closeOk, openOk) ==
    /\ mstate = "open" /\ ShouldRotate /\ nextId <= MaxAppends
    /\ RotateLocked(syncOk, closeOk, openOk)
    /\ mstate' = IF openOk THEN "append" ELSE "open"
    /\ UNCHANGED <<nextId, ackedIds, owed, deleted, crashes,
                   recovered, owedAtRec, ackedAtRec, unreadAtRec>>

(***************************************************************************)
(* Append: current_writer_->Append of the next entry (WALWriter's          *)
(* AppendRecord; `ok` is the outcome of the fsync its policy makes).       *)
(***************************************************************************)
MAppend(ps, ok) ==
    /\ \/ mstate = "append"
       \/ mstate = "open" /\ ~ShouldRotate
    /\ nextId <= MaxAppends
    /\ AppendRecord(nextId, ps, ok)
    /\ LET isAcked == Len(data) + 1 \in acked'
       IN  /\ ackedIds' = IF isAcked THEN ackedIds \cup {nextId} ELSE ackedIds
           /\ owed'     = IF isAcked THEN owed \cup {nextId} ELSE owed
    /\ nextId' = nextId + 1
    /\ mstate' = "open"
    /\ UNCHANGED <<curLog, files, deleted, crashes, recovered, owedAtRec,
                   ackedAtRec, unreadAtRec>>

\* Sync: current_writer_->Sync().
MSync(ok) ==
    /\ mstate = "open"
    /\ Sync(ok)
    /\ UNCHANGED mgrVars

\* One iteration of the current writer's sync thread (its own lock only).
MSyncThread(ok) ==
    /\ mstate # "down"
    /\ SyncThreadStep(ok)
    /\ UNCHANGED mgrVars

\* Rotate: RotateLocked on the caller's request.
MRotate(syncOk, closeOk, openOk) ==
    /\ mstate = "open"
    /\ RotateLocked(syncOk, closeOk, openOk)
    /\ UNCHANGED <<mstate, nextId, ackedIds, owed, deleted, crashes,
                   recovered, owedAtRec, ackedAtRec, unreadAtRec>>

\* Close: close the current writer (final fsync, result ignored) and drop it.
MClose(ok) ==
    /\ mstate = "open"
    /\ Retire(durable, ok)
    /\ NoWriter
    /\ mstate' = "down"
    /\ UNCHANGED <<curLog, nextId, ackedIds, owed, deleted, crashes,
                   recovered, owedAtRec, ackedAtRec, unreadAtRec>>

(***************************************************************************)
(* MarkFlushed(n): unlink every listed log whose number is below n.  The   *)
(* caller passes a log number it read from CurrentLogNumber, so never one  *)
(* above the current log.                                                   *)
(***************************************************************************)
MarkFlushed(n) ==
    LET gone == {k \in Range(ListLogFiles) : k < n}
    IN  /\ mstate \in {"open", "down"}
        /\ files' = [k \in DOMAIN files \ gone |-> files[k]]
        /\ deleted' = deleted \cup UNION {SegIds(Disk[k]) : k \in gone}
        /\ UNCHANGED <<writerVars, mstate, curLog, nextId, ackedIds, owed,
                       crashes, recovered, owedAtRec, ackedAtRec, unreadAtRec>>

(***************************************************************************)
(* What a crash can leave of a segment: a prefix of its chunks no shorter  *)
(* than its durable part, possibly followed by a torn copy of the next.    *)
(***************************************************************************)
CrashImages(s) ==
    {SubSeq(s.data, 1, k) : k \in s.durable..Len(s.data)}
    \cup {Append(SubSeq(s.data, 1, k), Fragment(s.data[k + 1].ent, s.data[k + 1].psize)) :
            k \in s.durable..(Len(s.data) - 1)}

DurableIds(D) == UNION {{D[n].data[i].ent : i \in 1..D[n].durable} : n \in DOMAIN D}

\* A crash of the machine; the next process starts with a new WALManager.
Crash ==
    /\ crashes < MaxCrashes
    /\ \E img \in [DOMAIN Disk -> UNION {CrashImages(Disk[n]) : n \in DOMAIN Disk}] :
          /\ \A n \in DOMAIN Disk : img[n] \in CrashImages(Disk[n])
          /\ files' = [n \in DOMAIN Disk |-> Seg(img[n], Len(img[n]))]
    /\ owed' = owed \cap DurableIds(Disk)
    /\ crashes' = crashes + 1
    /\ curLog' = 0 /\ mstate' = "down"
    /\ NoWriter
    /\ UNCHANGED <<nextId, ackedIds, deleted, recovered, owedAtRec, ackedAtRec, unreadAtRec>>

(***************************************************************************)
(* WALReader::Open on a listed log: open(2), fstat(2) and, when the file   *)
(* is not empty, mmap(2).  If any of them fails, Open closes the reader    *)
(* and returns IOError, and Recover skips the log (`continue`).  These are *)
(* the logs whose Open fails, at most MaxOpenFaults of them.               *)
(***************************************************************************)
OpenFailures(logs) ==
    {u \in SUBSET Range(logs) : Cardinality(u) <= MaxOpenFaults}

\* Mutant of ReplayLogs: the loop stops before the last log.
ReplayLogsButLast(logs, unreadable) ==
    FlattenSeq([i \in 1..(Len(logs) - 1) |->
                  IF logs[i] \in unreadable THEN <<>> ELSE ReadEntries(Disk[logs[i]].data)])

(***************************************************************************)
(* Recover's loop: each log in the order listed and opened, read by        *)
(* WALReader until its first corruption, which ends that log only.  Every  *)
(* error ReadRecord returns is a Corruption, so the loop never returns     *)
(* early on a read status.                                                  *)
(***************************************************************************)
ReplayLogs(logs, unreadable) ==
    FlattenSeq([i \in DOMAIN logs |->
                  IF logs[i] \in unreadable THEN <<>> ELSE ReadEntries(Disk[logs[i]].data)])

\* Recover: list the logs and replay them; it returns OK in every case.
Recover ==
    /\ mstate \in {"open", "down"}
    /\ \E unreadable \in OpenFailures(ListLogFiles) :
          /\ recovered' = ReplayLogs(ListLogFiles, unreadable)
          /\ unreadAtRec' = UNION {SegIds(Disk[n]) : n \in unreadable}
    /\ owedAtRec'  = owed \ deleted
    /\ ackedAtRec' = ackedIds \ deleted
    /\ UNCHANGED <<writerVars, mstate, curLog, files, nextId, ackedIds, owed,
                   deleted, crashes>>

MNext ==
    \/ \E ok \in BOOLEAN : MOpen(ok) \/ MSync(ok) \/ MSyncThread(ok) \/ MClose(ok)
    \/ \E s, c, o \in BOOLEAN : AppendRotate(s, c, o) \/ MRotate(s, c, o)
    \/ \E ps \in PayloadSizes, ok \in BOOLEAN : MAppend(ps, ok)
    \/ \E n \in 1..curLog : MarkFlushed(n)
    \/ Crash
    \/ Recover

MSpec == MInit /\ [][MNext]_vars

-----------------------------------------------------------------------------
MTypeOK ==
    /\ WTypeOK
    /\ mstate \in {"down", "open", "append"}
    /\ curLog \in 0..MaxLog
    /\ DOMAIN files \subseteq 1..MaxLog
    /\ \A n \in DOMAIN files : files[n].data \in Seq(Chunks)
                               /\ files[n].durable \in 0..Len(files[n].data)
    /\ nextId \in 1..(MaxAppends + 1)
    /\ ackedIds \subseteq Entries /\ owed \subseteq ackedIds
    /\ deleted \subseteq Entries /\ crashes \in 0..MaxCrashes
    /\ recovered \in Seq(Entries)
    /\ owedAtRec \subseteq Entries /\ ackedAtRec \subseteq Entries
    /\ unreadAtRec \subseteq Entries

(***************************************************************************)
(* Recover replays every acknowledged entry that is still owed: not lost   *)
(* by a crash that found it undurable, and not in a segment MarkFlushed    *)
(* deleted (spec section 4.8; AppendRecord, RotateLocked, OpenNewLog,      *)
(* ListLogFiles and Recover together).  The entries of a log whose         *)
(* WALReader::Open failed are excepted: Recover skips that log and returns *)
(* OK (spec section 7 says an I/O error aborts recovery instead).          *)
(***************************************************************************)
RecoverReturnsOwed ==
    \A id \in owedAtRec \ unreadAtRec : id \in Range(recovered)

(***************************************************************************)
(* Recover replays entries in the order they were appended: segment        *)
(* numbers grow across rotations, Open and restarts, and ListLogFiles      *)
(* sorts them (spec: segment numbers are monotonic, replay ascends).        *)
(***************************************************************************)
RecoveredInOrder ==
    \A i, j \in DOMAIN recovered : i < j => recovered[i] < recovered[j]

(***************************************************************************)
(* Recover leaves no holes: if it replays an entry, it also replays every  *)
(* acknowledged, undeleted entry appended before it (spec section 7: only  *)
(* data after a confirmed tail corruption is ever discarded).               *)
(***************************************************************************)
RecoveredWithoutHoles ==
    \A i \in DOMAIN recovered, id \in ackedAtRec :
        id < recovered[i] => id \in Range(recovered)

=============================================================================
