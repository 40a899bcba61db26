------------------------------ MODULE OrderedSet ------------------------------
(***************************************************************************)
(* What SkipList promises its users (spec section 4.2): an ordered set of  *)
(* keys to which one writer adds, read by iterators that each take effect  *)
(* at one instant.  MemTable relies on exactly this when it treats Insert  *)
(* and Seek as atomic.  An iterator holds a position (a key, or Nil when   *)
(* it is not Valid).  SeekToFirst and Next are single steps; Seek, Prev    *)
(* and SeekToLast are a call and a return, the answer fixed at some        *)
(* instant in between.                                                     *)
(***************************************************************************)
EXTENDS Integers, FiniteSets, FiniteSetsExt

CONSTANTS
    Keys,      \* keys that may be added
    Readers,   \* iterator threads
    Targets,   \* keys readers seek
    Nil        \* the absent key (nullptr)

VARIABLES
    set,       \* the keys added so far
    rpc,       \* [Readers -> {"idle", "seek", "prev", "last"}]: the call in progress
    rtarget,   \* the key the call searches relative to
    rnode      \* each iterator's position

vars == <<set, rpc, rtarget, rnode>>

\* The first key of S at or after t, the first after t, the last before t.
FirstAtOrAfter(S, t) == LET b == {k \in S : k >= t} IN IF b = {} THEN Nil ELSE Min(b)
FirstAfter(S, t)     == LET b == {k \in S : k > t}  IN IF b = {} THEN Nil ELSE Min(b)
LastBefore(S, t)     == LET b == {k \in S : k < t}  IN IF b = {} THEN Nil ELSE Max(b)

\* The answer of each call, in the set S.
Answer(S, op, t) ==
    CASE op = "seek" -> FirstAtOrAfter(S, t)
      [] op = "prev" -> LastBefore(S, t)
      [] op = "last" -> IF S = {} THEN Nil ELSE Max(S)

Init ==
    /\ set = {}
    /\ rpc = [r \in Readers |-> "idle"]
    /\ rtarget = [r \in Readers |-> Nil]
    /\ rnode = [r \in Readers |-> Nil]

\* Insert(k): k becomes a member; keys are never added twice.
Insert(k) ==
    /\ k \notin set
    /\ set' = set \cup {k}
    /\ UNCHANGED <<rpc, rtarget, rnode>>

\* A reader calls Seek(t), Prev (from a valid position) or SeekToLast.
Call(r, op, t) ==
    /\ rpc[r] = "idle"
    /\ rpc' = [rpc EXCEPT ![r] = op]
    /\ rtarget' = [rtarget EXCEPT ![r] = t]
    /\ UNCHANGED <<set, rnode>>

SeekCall(r, t) == Call(r, "seek", t)
PrevCall(r)    == rnode[r] # Nil /\ Call(r, "prev", rnode[r])
LastCall(r)    == Call(r, "last", Nil)

\* The call takes effect: the iterator moves to the answer in the set now.
Return(r) ==
    /\ rpc[r] # "idle"
    /\ rnode' = [rnode EXCEPT ![r] = Answer(set, rpc[r], rtarget[r])]
    /\ rpc' = [rpc EXCEPT ![r] = "idle"]
    /\ UNCHANGED <<set, rtarget>>

\* SeekToFirst: the least key, in one step.
First(r) ==
    /\ rpc[r] = "idle"
    /\ rnode' = [rnode EXCEPT ![r] = IF set = {} THEN Nil ELSE Min(set)]
    /\ UNCHANGED <<set, rpc, rtarget>>

\* Next from a valid position: the first key after it, in one step.
Step(r) ==
    /\ rpc[r] = "idle" /\ rnode[r] # Nil
    /\ rnode' = [rnode EXCEPT ![r] = FirstAfter(set, rnode[r])]
    /\ UNCHANGED <<set, rpc, rtarget>>

Next ==
    \/ \E k \in Keys : Insert(k)
    \/ \E r \in Readers, t \in Targets : SeekCall(r, t)
    \/ \E r \in Readers : PrevCall(r) \/ LastCall(r) \/ Return(r) \/ First(r) \/ Step(r)

Spec == Init /\ [][Next]_vars

=============================================================================
