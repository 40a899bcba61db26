------------------------------ MODULE MemTable ------------------------------
(***************************************************************************)
(* One memtable (src/db/memtable.h) seen as its set of entries.            *)
(*                                                                         *)
(* The skip list behind a memtable is an ordered set of internal keys      *)
(* (user_key, sequence, type) with values; this module gives that set the  *)
(* order of MemTableKeyComparator and defines the memtable's lookup, its   *)
(* insertion and its memory accounting on it.  The concurrent publication *)
(* of a node inside the skip list is left to a module of its own: here an *)
(* Insert is one atomic step, which is what a reader of the finished list *)
(* observes.                                                               *)
(***************************************************************************)
EXTENDS Integers, FiniteSets, Sequences, FiniteSetsExt

CONSTANTS
    KeyOrder,        \* the user keys, as a sequence in lexicographic order
    Values,          \* the non-empty values a Put may write
    KeyLen,          \* [user key -> key.size()]
    ValLen,          \* [value -> value.size()]
    EntryStructSize, \* sizeof(MemTableEntry) of the build (80 on LP64 libstdc++)
    MaxSize          \* MemTableOptions::max_size, in bytes

Keys == {KeyOrder[i] : i \in DOMAIN KeyOrder}

\* The value of a deletion: Slice(), the empty string.
EmptyValue == "empty"

ASSUME EmptyValue \notin Values

\* ValueType::kValue and ValueType::kDeletion.
kValue    == "Value"
kDeletion == "Deletion"

Entry(key, seq, type, val) == [key |-> key, seq |-> seq, type |-> type, val |-> val]

KeyRank(k) == CHOOSE i \in DOMAIN KeyOrder : KeyOrder[i] = k

(***************************************************************************)
(* MemTableKeyComparator: user key ascending, then sequence descending;    *)
(* the type takes no part.  Compare(a, b) < 0 iff a sorts before b.        *)
(***************************************************************************)
Compare(a, b) ==
    CASE KeyRank(a.key) < KeyRank(b.key) -> -1
      [] KeyRank(a.key) > KeyRank(b.key) -> 1
      [] a.seq > b.seq                   -> -1
      [] a.seq < b.seq                   -> 1
      [] OTHER                           -> 0

NoEntry == [key |-> "none"]

(***************************************************************************)
(* SkipList::Iterator::Seek / FindGreaterOrEqual: the first entry of the   *)
(* list that is not before the target, or NoEntry (nullptr).               *)
(***************************************************************************)
SeekGE(entries, target) ==
    LET geq == {e \in entries : Compare(e, target) >= 0}
    IN  IF geq = {} THEN NoEntry
        ELSE CHOOSE e \in geq : \A f \in geq : Compare(e, f) <= 0

\* LookupResult::NotFound / Found(value) / Deleted.
NotFound == [found |-> FALSE, deleted |-> FALSE, val |-> EmptyValue]
Found(v) == [found |-> TRUE, deleted |-> FALSE, val |-> v]
Deleted  == [found |-> TRUE, deleted |-> TRUE,  val |-> EmptyValue]

ResultOf(e) == IF e.type = kDeletion THEN Deleted ELSE Found(e.val)

(***************************************************************************)
(* MemTable::Get: seek to the probe (key, snapshot, kValue) and answer     *)
(* from the entry found if it carries the same user key.                   *)
(***************************************************************************)
MemGet(entries, key, snapshot) ==
    LET e == SeekGE(entries, Entry(key, snapshot, kValue, EmptyValue))
    IN  IF e # NoEntry /\ e.key = key THEN ResultOf(e) ELSE NotFound

(***************************************************************************)
(* The size MemTable::Add charges for one entry:                           *)
(* key.size() + value.size() + sizeof(SequenceNumber) + sizeof(ValueType)  *)
(* + sizeof(MemTableEntry).                                                *)
(***************************************************************************)
ValSize(val) == IF val = EmptyValue THEN 0 ELSE ValLen[val]

EntrySize(e) == KeyLen[e.key] + ValSize(e.val) + 8 + 1 + EntryStructSize

(***************************************************************************)
(* approximate_memory_usage_: the sum of what Add charged, so a function   *)
(* of the entries held (Add is the only writer of the counter).            *)
(***************************************************************************)
ApproximateMemoryUsage(entries) == MapThenSumSet(EntrySize, entries)

\* MemTable::ShouldFlush.
ShouldFlush(entries) == ApproximateMemoryUsage(entries) >= MaxSize

(***************************************************************************)
(* MemTable::Add (through Put or Delete): insert the entry into the skip   *)
(* list.  The counters it bumps are derived from the entry set above.      *)
(***************************************************************************)
Add(entries, seq, type, key, val) == entries \cup {Entry(key, seq, type, val)}

(***************************************************************************)
(* Reference lookup for invariant 2 of the spec: the entry with the        *)
(* largest sequence <= snapshot among the entries for the key.             *)
(***************************************************************************)
NewestAtOrBelow(entries, key, snapshot) ==
    LET cand == {e \in entries : e.key = key /\ e.seq <= snapshot}
    IN  IF cand = {} THEN NoEntry
        ELSE CHOOSE e \in cand : \A f \in cand : f.seq <= e.seq

=============================================================================
