------------------------------ MODULE SkipList ------------------------------
(***************************************************************************)
(* SkipList (src/memtable/skiplist.h): one writer inserting node by node, *)
(* level by level, while iterators Seek (FindGreaterOrEqual), Prev         *)
(* (FindLessThan), SeekToLast (FindLast), SeekToFirst and Next without a   *)
(* lock, as a MemTableSet reader does on the active memtable.  Keys are    *)
(* integers ordered by <, standing for entries under MemTableKeyComparator.*)
(*                                                                         *)
(* Each step is one atomic load or store.  Publication uses release       *)
(* stores (SetNext) and acquire loads (Next), so a reader that loads a    *)
(* node also sees the key and the links stored before it was published;   *)
(* max_height_ is relaxed, and a reader may load its old or its new value, *)
(* which the interleaving covers.                                          *)
(***************************************************************************)
EXTENDS Integers, Sequences, SequencesExt, FiniteSets

CONSTANTS
    Keys,       \* keys the writer may insert (positive integers)
    MaxHeight,  \* kMaxHeight
    Readers,    \* reader threads
    Targets     \* keys readers seek

ASSUME Keys \subseteq Nat \ {0} /\ MaxHeight \in Nat \ {0}

HeadNode == 0
Nil    == -1
Levels == 0..(MaxHeight - 1)
Nodes  == Keys \cup {HeadNode}

VARIABLES
    next,       \* [Nodes -> [Levels -> Keys \cup {Nil}]]: Node::next_
    height,     \* [Keys -> 0..MaxHeight]: 0 until NewNode allocates it
    maxHeight,  \* max_height_
    wpc,        \* the writer: "idle", "raise", "link", "publish"
    wkey, wheight, wprev, wlevel,   \* Insert's key, height, prev[] and loop index
    rpc,        \* [Readers -> {"idle", "seek", "prev", "last"}]: the search running
    rx, rlevel, rtarget,  \* the search's x, level and key
    rnode       \* [Readers -> Keys \cup {Nil}]: each iterator's node_

writerVars == <<wpc, wkey, wheight, wprev, wlevel>>
readerVars == <<rpc, rx, rlevel, rtarget, rnode>>
vars == <<next, height, maxHeight, writerVars, readerVars>>

\* KeyIsAfterNode: n is a node whose key is less than key.
KeyIsAfterNode(key, n) == n # Nil /\ n < key

\* The nodes reachable from n along level l, in order.
RECURSIVE Chain(_, _)
Chain(n, l) == IF next[n][l] = Nil THEN <<>> ELSE <<next[n][l]>> \o Chain(next[n][l], l)

\* The keys a level-0 traversal from head_ sees.
Level0Keys == Range(Chain(HeadNode, 0))

(***************************************************************************)
(* FindGreaterOrEqual(key, prev) as the writer runs it: no other thread   *)
(* changes the list, so it is one step.  prev[l] is the last node on      *)
(* level l whose key is below key, for the levels below max_height_.      *)
(***************************************************************************)
FindPrev(key) ==
    [l \in Levels |->
        LET before == {n \in Range(Chain(HeadNode, l)) : n < key}
        IN  IF before = {} THEN HeadNode ELSE Max(before)]

\* Mutant of Heights: the loop of RandomHeight runs while height <= kMaxHeight.
HeightsOffByOne == 1..(MaxHeight + 1)

\* RandomHeight: any height from 1 to kMaxHeight.
Heights == 1..MaxHeight

\* Mutant of FirstLinkLevel: the linking loop starts at level 1.
FirstLinkLevelOne == 1

\* Insert's linking loop starts at level 0.
FirstLinkLevel == 0

Init ==
    /\ next = [n \in Nodes |-> [l \in Levels |-> Nil]]
    /\ height = [k \in Keys |-> 0]
    /\ maxHeight = 1
    /\ wpc = "idle"
    /\ wkey = HeadNode /\ wheight = 1
    /\ wprev = [l \in Levels |-> HeadNode]
    /\ wlevel = 0
    /\ rpc = [r \in Readers |-> "idle"]
    /\ rx = [r \in Readers |-> HeadNode]
    /\ rlevel = [r \in Readers |-> 0]
    /\ rtarget = [r \in Readers |-> Nil]
    /\ rnode = [r \in Readers |-> Nil]

(***************************************************************************)
(* Insert, up to max_height_: find prev[] and pick a height; when the      *)
(* height exceeds max_height_, prev[] of the new levels is head_.  NewNode *)
(* allocates the node, which no other thread can reach yet.                *)
(***************************************************************************)
InsertBegin(k, h) ==
    /\ wpc = "idle"
    /\ height[k] = 0
    /\ LET found == FindPrev(k)
       IN  wprev' = [l \in Levels |-> IF l < maxHeight THEN found[l] ELSE HeadNode]
    /\ wkey' = k
    /\ wheight' = h
    /\ wlevel' = FirstLinkLevel
    /\ wpc' = IF h > maxHeight THEN "raise" ELSE "link"
    /\ height' = [height EXCEPT ![k] = h]
    /\ UNCHANGED <<next, maxHeight, readerVars>>

\* max_height_.store(height, relaxed).
RaiseMaxHeight ==
    /\ wpc = "raise"
    /\ maxHeight' = wheight
    /\ wpc' = "link"
    /\ UNCHANGED <<next, height, wkey, wheight, wprev, wlevel, readerVars>>

\* Mutant of LinkNext: the new node's link is left null instead of spliced.
LinkNextNull ==
    /\ wpc = "link"
    /\ wlevel < wheight
    /\ next' = [next EXCEPT ![wkey][wlevel] = Nil]
    /\ wpc' = "publish"
    /\ UNCHANGED <<height, maxHeight, wkey, wheight, wprev, wlevel, readerVars>>

\* x->NoBarrier_SetNext(i, prev[i]->NoBarrier_Next(i)).
LinkNext ==
    /\ wpc = "link"
    /\ wlevel < wheight
    /\ next' = [next EXCEPT ![wkey][wlevel] = next[wprev[wlevel]][wlevel]]
    /\ wpc' = "publish"
    /\ UNCHANGED <<height, maxHeight, wkey, wheight, wprev, wlevel, readerVars>>

\* prev[i]->SetNext(i, x): the release store that publishes x on level i.
Publish ==
    /\ wpc = "publish"
    /\ next' = [next EXCEPT ![wprev[wlevel]][wlevel] = wkey]
    /\ wlevel' = wlevel + 1
    /\ wpc' = "link"
    /\ UNCHANGED <<height, maxHeight, wkey, wheight, wprev, readerVars>>

\* The linking loop ends and Insert returns.
InsertEnd ==
    /\ wpc = "link"
    /\ wlevel >= wheight
    /\ wpc' = "idle"
    /\ UNCHANGED <<next, height, maxHeight, wkey, wheight, wprev, wlevel, readerVars>>

(***************************************************************************)
(* A search begins: x = head_, level = max_height_ - 1 (a relaxed load).   *)
(* Iterator::Seek(t) runs FindGreaterOrEqual(t); Iterator::Prev, valid,     *)
(* runs FindLessThan on node_'s key; SeekToLast runs FindLast.              *)
(***************************************************************************)
Begin(r, op, t) ==
    /\ rpc[r] = "idle"
    /\ rpc' = [rpc EXCEPT ![r] = op]
    /\ rx' = [rx EXCEPT ![r] = HeadNode]
    /\ rlevel' = [rlevel EXCEPT ![r] = maxHeight - 1]
    /\ rtarget' = [rtarget EXCEPT ![r] = t]
    /\ UNCHANGED <<next, height, maxHeight, writerVars, rnode>>

SeekBegin(r, t) == Begin(r, "seek", t)
PrevBegin(r)    == rnode[r] # Nil /\ Begin(r, "prev", rnode[r])
LastBegin(r)    == Begin(r, "last", Nil)

(***************************************************************************)
(* Whether the search moves right past n.  FindGreaterOrEqual moves while  *)
(* KeyIsAfterNode; FindLessThan while next is non-null and below the key,  *)
(* the same test; FindLast while next is non-null.                         *)
(***************************************************************************)
Advances(r, n) == IF rpc[r] = "last" THEN n # Nil ELSE KeyIsAfterNode(rtarget[r], n)

\* Where the search leaves node_ at level 0: next for Seek; x for Prev and
\* SeekToLast, which turn head_ into nullptr.
Found(r, x, n) ==
    IF rpc[r] = "seek" THEN n ELSE IF x = HeadNode THEN Nil ELSE x

\* Mutant of FindStep: at a level where the search stops it does not descend.
FindStepNoDescend(r) ==
    /\ rpc[r] # "idle"
    /\ LET nxt == next[rx[r]][rlevel[r]]
       IN  IF Advances(r, nxt)
           THEN /\ rx' = [rx EXCEPT ![r] = nxt]
                /\ UNCHANGED <<rpc, rlevel, rnode>>
           ELSE IF rlevel[r] = 0
                THEN /\ rnode' = [rnode EXCEPT ![r] = Found(r, rx[r], nxt)]
                     /\ rpc' = [rpc EXCEPT ![r] = "idle"]
                     /\ UNCHANGED <<rx, rlevel>>
                ELSE UNCHANGED <<rx, rlevel, rpc, rnode>>
    /\ UNCHANGED <<next, height, maxHeight, writerVars, rtarget>>

(***************************************************************************)
(* One iteration of the search loop: load x->Next(level) (acquire), then   *)
(* move right, finish at level 0 (the iterator's node_ is set), or go      *)
(* down a level.                                                            *)
(***************************************************************************)
FindStep(r) ==
    /\ rpc[r] # "idle"
    /\ LET nxt == next[rx[r]][rlevel[r]]
       IN  IF Advances(r, nxt)
           THEN /\ rx' = [rx EXCEPT ![r] = nxt]
                /\ UNCHANGED <<rpc, rlevel, rnode>>
           ELSE IF rlevel[r] = 0
                THEN /\ rnode' = [rnode EXCEPT ![r] = Found(r, rx[r], nxt)]
                     /\ rpc' = [rpc EXCEPT ![r] = "idle"]
                     /\ UNCHANGED <<rx, rlevel>>
                ELSE /\ rlevel' = [rlevel EXCEPT ![r] = rlevel[r] - 1]
                     /\ UNCHANGED <<rx, rpc, rnode>>
    /\ UNCHANGED <<next, height, maxHeight, writerVars, rtarget>>

\* Iterator::SeekToFirst: node_ = head_->Next(0).
SeekToFirst(r) ==
    /\ rpc[r] = "idle"
    /\ rnode' = [rnode EXCEPT ![r] = next[HeadNode][0]]
    /\ UNCHANGED <<next, height, maxHeight, writerVars, rpc, rx, rlevel, rtarget>>

\* Iterator::Next, valid: node_ = node_->Next(0).
IterNext(r) ==
    /\ rpc[r] = "idle" /\ rnode[r] # Nil
    /\ rnode' = [rnode EXCEPT ![r] = next[rnode[r]][0]]
    /\ UNCHANGED <<next, height, maxHeight, writerVars, rpc, rx, rlevel, rtarget>>

Next ==
    \/ \E k \in Keys, h \in Heights : InsertBegin(k, h)
    \/ RaiseMaxHeight
    \/ LinkNext
    \/ Publish
    \/ InsertEnd
    \/ \E r \in Readers, t \in Targets : SeekBegin(r, t)
    \/ \E r \in Readers : PrevBegin(r) \/ LastBegin(r) \/ FindStep(r)
    \/ \E r \in Readers : SeekToFirst(r) \/ IterNext(r)

Spec == Init /\ [][Next]_vars

\* Each reader is a thread the scheduler keeps running while it can step;
\* nothing it waits on can block it (no lock, no condition).
FairSpec == Spec /\ \A r \in Readers : WF_vars(FindStep(r))

-----------------------------------------------------------------------------
SLTypeOK ==
    /\ next \in [Nodes -> [Levels -> Keys \cup {Nil}]]
    /\ height \in [Keys -> 0..MaxHeight]
    /\ maxHeight \in 1..MaxHeight
    /\ wpc \in {"idle", "raise", "link", "publish"}
    /\ wheight \in Heights /\ wlevel \in 0..MaxHeight
    /\ wprev \in [Levels -> Nodes]
    /\ rpc \in [Readers -> {"idle", "seek", "prev", "last"}]
    /\ rx \in [Readers -> Nodes] /\ rlevel \in [Readers -> Levels]
    /\ rnode \in [Readers -> Keys \cup {Nil}]

(***************************************************************************)
(* In every state, readers included, each level is a sorted list from     *)
(* head_ of nodes tall enough for it, and every node on a level is also on *)
(* the level below: Insert links bottom-up, so a reader that drops a level *)
(* never loses a node it could have reached.                              *)
(***************************************************************************)
LevelsNestedSorted ==
    \A l \in Levels :
        LET c == Chain(HeadNode, l)
        IN  /\ \A i \in 1..(Len(c) - 1) : c[i] < c[i + 1]
            /\ \A i \in DOMAIN c : height[c[i]] > l
            /\ l > 0 => Range(c) \subseteq Range(Chain(HeadNode, l - 1))

(***************************************************************************)
(* The skip list implements the atomic ordered set of OrderedSet: the set  *)
(* is the keys linked at level 0 from head_, so an Insert takes effect at  *)
(* its level-0 release store (Publish), and a FindGreaterOrEqual takes     *)
(* effect at the load of Next(0) it returns, whose answer must then be the  *)
(* first key at or after its target.  Every other step of either thread   *)
(* leaves the abstract state alone.  This is what lets MemTable, and a     *)
(* MemTableSet reader running beside a writer, treat the list as atomic.   *)
(***************************************************************************)
(***************************************************************************)
(* Every search returns: FindGreaterOrEqual, FindLessThan and FindLast,    *)
(* run by a reader beside the writer, reach level 0 and set node_ whatever *)
(* the writer does meanwhile (raising max_height_ above the level the      *)
(* reader loaded, or linking the node it is about to pass).  The reader    *)
(* waits on no lock, so its progress needs only its own fairness.          *)
(***************************************************************************)
SearchesReturn == \A r \in Readers : rpc[r] # "idle" ~> rpc[r] = "idle"

OS == INSTANCE OrderedSet WITH set <- Level0Keys

SkipListImplementsOrderedSet == OS!Spec

=============================================================================
