--------------------------- MODULE MemTableManager ---------------------------
(***************************************************************************)
(* MemTableManager (src/db/memtable_manager.h): one active memtable, a     *)
(* deque of immutable memtables (oldest at the front), the atomic sequence *)
(* counter and the reference counts that keep a memtable alive while a     *)
(* snapshot bundle or the flusher still uses it.                           *)
(*                                                                         *)
(* Every manager method runs under mutex_ (exclusive for writes, shared    *)
(* for reads), so each is one atomic step.  The callers are threads of    *)
(* three kinds:                                                            *)
(*   Writers  - Put / Delete / WaitForFlush;                               *)
(*   Readers  - Get, and GetCurrentMemTables followed by lookups in        *)
(*              the returned MemTableSet and its destruction;              *)
(*   Flushers - the background flush loop the spec describes:              *)
(*              GetOldestImmutable, SSTableWriter::FlushMemTable,          *)
(*              RemoveFlushedMemTable, Unref.                              *)
(***************************************************************************)
EXTENDS MemTable, SequencesExt, TLC

CONSTANTS
    Writers, Readers, Flushers,  \* thread ids
    MaxSeq,       \* bound: sequences allocated in one behaviour
    MaxTables,    \* bound: memtables created in one behaviour
    MaxPending,   \* the max_immutables argument of WaitForFlush
    SizeBits      \* width of size_t in the model (64 in the build)

ASSUME MaxSeq \in Nat /\ MaxTables \in Nat \ {0} /\ SizeBits \in Nat \ {0}

TableIds == 1..MaxTables
NoTable  == 0
SizeMod  == 2^SizeBits

VARIABLES
    entries,    \* [TableIds -> set of entries]: each memtable's skip list
    refs,       \* [TableIds -> Int]: MemTable::refs_
    status,     \* [TableIds -> {"unborn","live","freed"}]: allocated / deleted
    active,     \* active_
    imms,       \* immutables_, front = oldest
    nextTable,  \* the id the next `new MemTable` gets
    seqCtr,     \* current_sequence_
    totalMem,   \* total_memory_usage_
    immCount,   \* immutable_count_
    alive,      \* FALSE once ~MemTableManager has run
    callback,   \* flush_callback_ is set (its body is the caller's code)
    wpc,        \* [Writers -> {"idle","waiting"}]
    rpc,        \* [Readers -> {"idle","bundle"}]
    bundle,     \* [Readers -> Seq(TableIds)]: MemTableSet::tables
    bsnap,      \* [Readers -> Nat]: MemTableSet::snapshot
    fpc,        \* [Flushers -> {"idle","got","written","removed"}]
    fh,         \* [Flushers -> TableIds \cup {NoTable}]: table being flushed
    written,    \* history: every entry a Write inserted
    persisted   \* history: every entry an SSTable written by a flusher holds

mgrVars    == <<entries, refs, status, active, imms, nextTable, seqCtr,
               totalMem, immCount, alive, callback>>
threadVars == <<wpc, rpc, bundle, bsnap, fpc, fh>>
histVars   == <<written, persisted>>
vars       == <<mgrVars, threadVars, histVars>>

-----------------------------------------------------------------------------
ChainTables  == IF alive THEN {active} \cup ToSet(imms) ELSE {}
ChainEntries == UNION {entries[t] : t \in ChainTables}

\* MemTable::Ref and MemTable::Unref of every table of S (delete at zero).
RefAll(S) ==
    refs' = [t \in TableIds |-> IF t \in S THEN refs[t] + 1 ELSE refs[t]]

UnrefAll(S) ==
    /\ refs'   = [t \in TableIds |-> IF t \in S THEN refs[t] - 1 ELSE refs[t]]
    /\ status' = [t \in TableIds |->
                    IF t \in S /\ refs[t] - 1 = 0 THEN "freed" ELSE status[t]]

\* Mutant of SearchOrder: the immutables consulted oldest first.
SearchOrderOldestFirst == <<active>> \o imms

\* The order Get(key, snapshot) consults the chain: active, then newest to oldest.
SearchOrder == <<active>> \o Reverse(imms)

\* The first answer that is Found or Deleted, searching tables in `order`.
FirstFound(order, key, snapshot) ==
    LET i == SelectInSeq(order, LAMBDA t : MemGet(entries[t], key, snapshot).found)
    IN  IF i = 0 THEN NotFound ELSE MemGet(entries[order[i]], key, snapshot)

\* MemTableManager::Get(key, snapshot).
ManagerGet(key, snapshot) == FirstFound(SearchOrder, key, snapshot)

-----------------------------------------------------------------------------
Init ==
    /\ entries   = [t \in TableIds |-> {}]
    /\ refs      = [t \in TableIds |-> IF t = 1 THEN 1 ELSE 0]
    /\ status    = [t \in TableIds |-> IF t = 1 THEN "live" ELSE "unborn"]
    /\ active    = 1
    /\ imms      = <<>>
    /\ nextTable = 2
    /\ seqCtr    = 0
    /\ totalMem  = 0
    /\ immCount  = 0
    /\ alive     = TRUE
    /\ callback  = FALSE
    /\ wpc   = [w \in Writers |-> "idle"]
    /\ rpc   = [r \in Readers |-> "idle"]
    /\ bundle = [r \in Readers |-> <<>>]
    /\ bsnap  = [r \in Readers |-> 0]
    /\ fpc = [f \in Flushers |-> "idle"]
    /\ fh  = [f \in Flushers |-> NoTable]
    /\ written   = {}
    /\ persisted = {}

(***************************************************************************)
(* RotateLocked: freeze the active table onto the back of the deque,       *)
(* create and Ref a fresh active table, call flush_callback_ with the     *)
(* frozen one (the callback is the caller's code and changes nothing the   *)
(* model holds).  The frozen table keeps the manager's reference.          *)
(***************************************************************************)
RotateLocked ==
    /\ nextTable <= MaxTables
    /\ imms'      = Append(imms, active)
    /\ immCount'  = immCount + 1
    /\ active'    = nextTable
    /\ nextTable' = nextTable + 1
    /\ refs'      = [refs EXCEPT ![nextTable] = 1]
    /\ status'    = [status EXCEPT ![nextTable] = "live"]

NoRotation == UNCHANGED <<imms, immCount, active, nextTable, refs, status>>

(***************************************************************************)
(* MemTableManager::Write (Put / Delete): under the exclusive lock,        *)
(* rotate if the active table ShouldFlush, take a sequence with fetch_add, *)
(* insert into the (new) active table, add key+value+32 to the total.      *)
(***************************************************************************)
Write(w, type, key, val) ==
    /\ alive /\ wpc[w] = "idle"
    /\ seqCtr < MaxSeq
    /\ IF ShouldFlush(entries[active]) THEN RotateLocked ELSE NoRotation
    /\ entries'  = [entries EXCEPT ![active'] = Add(@, seqCtr, type, key, val)]
    /\ seqCtr'   = seqCtr + 1
    /\ totalMem' = (totalMem + KeyLen[key] + ValSize(val) + 32) % SizeMod
    /\ written'  = written \cup {Entry(key, seqCtr, type, val)}
    /\ UNCHANGED <<alive, callback, threadVars, persisted>>

Put(w, key, val) == Write(w, kValue, key, val)
Delete(w, key)   == Write(w, kDeletion, key, EmptyValue)

\* MemTableManager::ForceRotation.
ForceRotation ==
    /\ alive
    /\ RotateLocked
    /\ UNCHANGED <<entries, seqCtr, totalMem, alive, callback, threadVars, histVars>>

\* MemTableManager::AllocateSequence, called by a caller outside the lock.
AllocateSequence ==
    /\ alive /\ seqCtr < MaxSeq
    /\ seqCtr' = seqCtr + 1
    /\ UNCHANGED <<entries, refs, status, active, imms, nextTable, totalMem,
                   immCount, alive, callback, threadVars, histVars>>

\* MemTableManager::SetFlushCallback.
SetFlushCallback ==
    /\ alive /\ ~callback
    /\ callback' = TRUE
    /\ UNCHANGED <<entries, refs, status, active, imms, nextTable, seqCtr,
                   totalMem, immCount, alive, threadVars, histVars>>

(***************************************************************************)
(* WaitForFlush(MaxPending, timeout): wait_for with a predicate on         *)
(* immutables_.size(); returns at once when it holds, else sleeps until a  *)
(* notify (RemoveFlushedMemTable) or a spurious wakeup finds it true, or   *)
(* until the timeout.                                                      *)
(***************************************************************************)
FlushPredicate == Len(imms) < MaxPending

WaitForFlushBegin(w) ==
    /\ alive /\ wpc[w] = "idle"
    /\ ~FlushPredicate
    /\ wpc' = [wpc EXCEPT ![w] = "waiting"]
    /\ UNCHANGED <<mgrVars, rpc, bundle, bsnap, fpc, fh, histVars>>

WaitForFlushWake(w) ==
    /\ wpc[w] = "waiting" /\ FlushPredicate
    /\ wpc' = [wpc EXCEPT ![w] = "idle"]
    /\ UNCHANGED <<mgrVars, rpc, bundle, bsnap, fpc, fh, histVars>>

WaitForFlushTimeout(w) ==
    /\ wpc[w] = "waiting"
    /\ wpc' = [wpc EXCEPT ![w] = "idle"]
    /\ UNCHANGED <<mgrVars, rpc, bundle, bsnap, fpc, fh, histVars>>

-----------------------------------------------------------------------------
(* Readers *)

(***************************************************************************)
(* Get(key) and Get(key, snapshot) only read: they take the shared lock,   *)
(* so their answer is ManagerGet evaluated in the state they run in, and   *)
(* it is checked in every state, for every key and snapshot, by            *)
(* GetMatchesReference.  Get(key) loads current_sequence_ before locking;  *)
(* a write in between only raises the state the lookup runs in.           *)
(***************************************************************************)

\* The tables GetCurrentMemTables pushes: active, then the deque front to back.
BundleOrder == <<active>> \o imms

\* Mutant of GetCurrentMemTables: only the active table is Ref'd.
GetCurrentMemTablesRefActiveOnly(r) ==
    /\ alive /\ rpc[r] = "idle"
    /\ bundle' = [bundle EXCEPT ![r] = BundleOrder]
    /\ bsnap'  = [bsnap EXCEPT ![r] = seqCtr]
    /\ RefAll({active})
    /\ rpc' = [rpc EXCEPT ![r] = "bundle"]
    /\ UNCHANGED <<entries, status, active, imms, nextTable, seqCtr, totalMem,
                   immCount, alive, callback, wpc, fpc, fh, histVars>>

\* GetCurrentMemTables: snapshot = current_sequence_, Ref every table.
GetCurrentMemTables(r) ==
    /\ alive /\ rpc[r] = "idle"
    /\ bundle' = [bundle EXCEPT ![r] = BundleOrder]
    /\ bsnap'  = [bsnap EXCEPT ![r] = seqCtr]
    /\ RefAll(ToSet(BundleOrder))
    /\ rpc' = [rpc EXCEPT ![r] = "bundle"]
    /\ UNCHANGED <<entries, status, active, imms, nextTable, seqCtr, totalMem,
                   immCount, alive, callback, wpc,
                   fpc, fh, histVars>>

\* ~MemTableSet: Unref every table.
ReleaseBundle(r) ==
    /\ rpc[r] = "bundle"
    /\ UnrefAll(ToSet(bundle[r]))
    /\ bundle' = [bundle EXCEPT ![r] = <<>>]
    /\ rpc'    = [rpc EXCEPT ![r] = "idle"]
    /\ UNCHANGED <<entries, active, imms, nextTable, seqCtr, totalMem, immCount,
                   alive, callback, wpc, bsnap,
                   fpc, fh, histVars>>

-----------------------------------------------------------------------------
(* Flushers *)

\* GetOldestImmutable: Ref and return the front of the deque (nullptr if empty).
GetOldestImmutable(f) ==
    /\ alive /\ fpc[f] = "idle" /\ imms # <<>>
    /\ fh'  = [fh EXCEPT ![f] = Head(imms)]
    /\ RefAll({Head(imms)})
    /\ fpc' = [fpc EXCEPT ![f] = "got"]
    /\ UNCHANGED <<entries, status, active, imms, nextTable, seqCtr, totalMem,
                   immCount, alive, callback, wpc, rpc, bundle,
                   bsnap, histVars>>

\* SSTableWriter::FlushMemTable: iterate the table into a finished SSTable.
FlushMemTable(f) ==
    /\ fpc[f] = "got"
    /\ persisted' = persisted \cup entries[fh[f]]
    /\ fpc' = [fpc EXCEPT ![f] = "written"]
    /\ UNCHANGED <<mgrVars, wpc, rpc, bundle, bsnap, fh, written>>

\* FlushMemTable returned an error (the writer Abandons the file): drop the
\* reference and leave the table in the deque for a later attempt.
FlushFailed(f) ==
    /\ fpc[f] = "got"
    /\ UnrefAll({fh[f]})
    /\ fh'  = [fh EXCEPT ![f] = NoTable]
    /\ fpc' = [fpc EXCEPT ![f] = "idle"]
    /\ UNCHANGED <<entries, active, imms, nextTable, seqCtr, totalMem, immCount,
                   alive, callback, wpc, rpc,
                   bundle, bsnap, histVars>>

\* Mutant of RemoveFlushedMemTable: pops the newest immutable (the back).
RemoveFlushedMemTableBack(f) ==
    /\ alive /\ fpc[f] = "written"
    /\ IF imms # <<>>
         THEN LET newest == Last(imms) IN
              /\ imms'     = Front(imms)
              /\ totalMem' = (totalMem - ApproximateMemoryUsage(entries[newest])) % SizeMod
              /\ immCount' = immCount - 1
              /\ UnrefAll({newest})
         ELSE UNCHANGED <<imms, totalMem, immCount, refs, status>>
    /\ fpc' = [fpc EXCEPT ![f] = "removed"]
    /\ UNCHANGED <<entries, active, nextTable, seqCtr, alive, callback,
                   wpc, rpc, bundle, bsnap, fh, histVars>>

\* Mutant of RemoveFlushedMemTable: the total kept as a signed, unwrapped count.
RemoveFlushedMemTableSigned(f) ==
    /\ alive /\ fpc[f] = "written"
    /\ IF imms # <<>>
         THEN LET oldest == Head(imms) IN
              /\ imms'     = Tail(imms)
              /\ totalMem' = totalMem - ApproximateMemoryUsage(entries[oldest])
              /\ immCount' = immCount - 1
              /\ UnrefAll({oldest})
         ELSE UNCHANGED <<imms, totalMem, immCount, refs, status>>
    /\ fpc' = [fpc EXCEPT ![f] = "removed"]
    /\ UNCHANGED <<entries, active, nextTable, seqCtr, alive, callback,
                   wpc, rpc, bundle, bsnap, fh, histVars>>

(***************************************************************************)
(* RemoveFlushedMemTable: pop the front of the deque, subtract its         *)
(* ApproximateMemoryUsage from the total, Unref it, notify flush_cv_.      *)
(***************************************************************************)
RemoveFlushedMemTable(f) ==
    /\ alive /\ fpc[f] = "written"
    /\ IF imms # <<>>
         THEN LET oldest == Head(imms) IN
              /\ imms'     = Tail(imms)
              /\ totalMem' = (totalMem - ApproximateMemoryUsage(entries[oldest])) % SizeMod
              /\ immCount' = immCount - 1
              /\ UnrefAll({oldest})
         ELSE UNCHANGED <<imms, totalMem, immCount, refs, status>>
    /\ fpc' = [fpc EXCEPT ![f] = "removed"]
    /\ UNCHANGED <<entries, active, nextTable, seqCtr, alive, callback,
                   wpc, rpc, bundle, bsnap, fh, histVars>>

\* Mutant of ReleaseFlushed: the flusher forgets its Unref.
ReleaseFlushedNoUnref(f) ==
    /\ fpc[f] = "removed"
    /\ fh'  = [fh EXCEPT ![f] = NoTable]
    /\ fpc' = [fpc EXCEPT ![f] = "idle"]
    /\ UNCHANGED <<entries, refs, status, active, imms, nextTable, seqCtr,
                   totalMem, immCount, alive, callback, wpc, rpc, bundle,
                   bsnap, histVars>>

\* The flusher drops the reference GetOldestImmutable gave it.
ReleaseFlushed(f) ==
    /\ fpc[f] = "removed"
    /\ UnrefAll({fh[f]})
    /\ fh'  = [fh EXCEPT ![f] = NoTable]
    /\ fpc' = [fpc EXCEPT ![f] = "idle"]
    /\ UNCHANGED <<entries, active, imms, nextTable, seqCtr, totalMem, immCount,
                   alive, callback, wpc, rpc,
                   bundle, bsnap, histVars>>

-----------------------------------------------------------------------------
(***************************************************************************)
(* ~MemTableManager: Unref the active table and every immutable.  The      *)
(* owner destroys the manager only when no call into it is in flight; a   *)
(* MemTableSet or a flusher's reference may outlive it.                    *)
(***************************************************************************)
DestroyManager ==
    /\ alive
    /\ \A w \in Writers : wpc[w] = "idle"
    /\ \A f \in Flushers : fpc[f] \in {"idle", "removed"}
    /\ UnrefAll({active} \cup ToSet(imms))
    /\ active' = NoTable
    /\ imms'   = <<>>
    /\ alive'  = FALSE
    /\ UNCHANGED <<entries, nextTable, seqCtr, totalMem, immCount, callback,
                   threadVars, histVars>>

\* Everything has been released after the manager is gone: nothing is left to do.
Terminated ==
    /\ ~alive
    /\ \A r \in Readers : rpc[r] = "idle"
    /\ \A f \in Flushers : fpc[f] = "idle"
    /\ UNCHANGED vars

Next ==
    \/ \E w \in Writers :
          \/ \E k \in Keys : \/ \E v \in Values : Put(w, k, v)
                             \/ Delete(w, k)
          \/ WaitForFlushBegin(w) \/ WaitForFlushWake(w) \/ WaitForFlushTimeout(w)
    \/ ForceRotation \/ AllocateSequence \/ SetFlushCallback
    \/ \E r \in Readers :
          \/ GetCurrentMemTables(r) \/ ReleaseBundle(r)
    \/ \E f \in Flushers :
          \/ GetOldestImmutable(f) \/ FlushMemTable(f) \/ FlushFailed(f)
          \/ RemoveFlushedMemTable(f) \/ ReleaseFlushed(f)
    \/ DestroyManager
    \/ Terminated

(***************************************************************************)
(* Fairness.  The flush loop is a background thread that keeps running;   *)
(* its SSTable write may fail, but not forever (strong fairness on the     *)
(* successful write).  A MemTableSet is destroyed when its holder leaves   *)
(* scope.  Writes, new bundles,        *)
(* rotations and the destructor are the callers' choice and are not fair. *)
(***************************************************************************)
Fairness ==
    /\ \A f \in Flushers :
          /\ WF_vars(GetOldestImmutable(f))
          /\ SF_vars(FlushMemTable(f))
          /\ WF_vars(RemoveFlushedMemTable(f))
          /\ WF_vars(ReleaseFlushed(f))
    /\ \A r \in Readers : WF_vars(ReleaseBundle(r))

Spec == Init /\ [][Next]_vars /\ Fairness

-----------------------------------------------------------------------------
ResultSet == {NotFound, Deleted} \cup {Found(v) : v \in Values}
EntrySet  == [key : Keys, seq : 0..MaxSeq, type : {kValue, kDeletion},
              val : Values \cup {EmptyValue}]

TypeOK ==
    /\ entries \in [TableIds -> SUBSET EntrySet]
    /\ refs \in [TableIds -> Int]
    /\ status \in [TableIds -> {"unborn", "live", "freed"}]
    /\ active \in TableIds \cup {NoTable}
    /\ imms \in Seq(TableIds)
    /\ nextTable \in 1..MaxTables + 1
    /\ seqCtr \in 0..MaxSeq
    /\ totalMem \in 0..SizeMod - 1
    /\ immCount \in Nat
    /\ alive \in BOOLEAN /\ callback \in BOOLEAN
    /\ wpc \in [Writers -> {"idle", "waiting"}]
    /\ rpc \in [Readers -> {"idle", "bundle"}]
    /\ bundle \in [Readers -> Seq(TableIds)] /\ bsnap \in [Readers -> 0..MaxSeq]
    /\ fpc \in [Flushers -> {"idle", "got", "written", "removed"}]
    /\ fh \in [Flushers -> TableIds \cup {NoTable}]
    /\ written \subseteq EntrySet /\ persisted \subseteq EntrySet

-----------------------------------------------------------------------------
(* Properties *)

(***************************************************************************)
(* Get(key, snapshot) returns the newest write of the key at or below the  *)
(* snapshot, or NotFound when that write has already left memory (flushed *)
(* and removed).  This needs the chain searched newest table first, the   *)
(* tables' sequence ranges ordered like the deque, and removal to take    *)
(* the oldest table only (MemTableManager::Get, RotateLocked,              *)
(* RemoveFlushedMemTable).                                                 *)
(***************************************************************************)
RefGet(key, snapshot) ==
    LET e == NewestAtOrBelow(written, key, snapshot)
    IN  IF e = NoEntry \/ e \notin ChainEntries THEN NotFound ELSE ResultOf(e)

GetMatchesReference ==
    alive => \A k \in Keys, s \in 0..MaxSeq : ManagerGet(k, s) = RefGet(k, s)

(***************************************************************************)
(* No write is lost while the manager lives: every entry a Write inserted  *)
(* is still in a memtable of the chain or in an SSTable a flusher wrote    *)
(* before RemoveFlushedMemTable dropped its table.                         *)
(***************************************************************************)
NoWriteLost ==
    alive => \A e \in written : e \in ChainEntries \/ e \in persisted

(***************************************************************************)
(* Reference counting keeps every memtable that is still reachable alive: *)
(* the chain's tables, a MemTableSet's tables and a flusher's table are    *)
(* never deleted under their holder, and no count goes negative            *)
(* (MemTable::Ref/Unref, GetCurrentMemTables, ~MemTableSet,                *)
(* GetOldestImmutable, RemoveFlushedMemTable, ~MemTableManager).           *)
(***************************************************************************)
NoUseAfterFree ==
    /\ \A t \in ChainTables : status[t] = "live"
    /\ \A r \in Readers : \A t \in ToSet(bundle[r]) : status[t] = "live"
    /\ \A f \in Flushers : fpc[f] # "idle" => status[fh[f]] = "live"
    /\ \A t \in TableIds : refs[t] >= 0

(***************************************************************************)
(* No memtable leaks: a table once frozen onto the deque is eventually     *)
(* deleted, once the flusher has written and removed it and every bundle   *)
(* holding it has been destroyed.                                          *)
(***************************************************************************)
FrozenTablesEventuallyFreed ==
    \A t \in TableIds : (t \in ToSet(imms)) ~> (status[t] = "freed")

(***************************************************************************)
(* Spec section 8, invariant 3: for a snapshot S obtained through          *)
(* GetCurrentMemTables, the returned tables contain every in-memory entry *)
(* with sequence <= S.                                                     *)
(***************************************************************************)
BundleCoversSnapshot ==
    \A r \in Readers : rpc[r] = "bundle" =>
        \A e \in ChainEntries :
            e.seq <= bsnap[r] => e \in UNION {entries[t] : t \in ToSet(bundle[r])}

=============================================================================
