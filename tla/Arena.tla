-------------------------------- MODULE Arena --------------------------------
(***************************************************************************)
(* Arena (src/util/arena.h): a bump-pointer allocator over a vector of     *)
(* heap blocks, used by one thread (the memtable's writer, through         *)
(* SkipList::NewNode).  Each public method is one step.                    *)
(*                                                                         *)
(* An address is a block and an offset in it.  The address of a block is   *)
(* abstracted to its residue modulo the largest alignment of interest:     *)
(* `new char[]` returns memory aligned to the platform's default new       *)
(* alignment and to nothing more, so the residue is chosen freely from      *)
(* BaseResidues each time a block is allocated.                             *)
(***************************************************************************)
EXTENDS Integers, Sequences, FiniteSets

CONSTANTS
    kBlockSize,    \* Arena::kBlockSize
    Sizes,         \* byte counts the caller asks for
    Alignments,    \* alignments the caller passes to AllocateAligned
    BaseResidues,  \* what new char[] may return, modulo the largest alignment
    MaxAllocs      \* bound: allocations made

ASSUME Sizes \subseteq Nat \ {0} /\ MaxAllocs \in Nat

\* sizeof(void*) and sizeof(char*): the default alignment and the per-block charge.
kPtrSize == 8

VARIABLES
    blocks,       \* blocks_: a sequence of [base, size]
    ptrBlk,       \* the block alloc_ptr_ points into (0: nullptr)
    ptrOff,       \* alloc_ptr_'s offset in that block
    remaining,    \* alloc_remaining_
    memoryUsage,  \* memory_usage_
    live,         \* history: allocations returned since the last Reset
    nAllocs       \* allocations made (bounded by MaxAllocs)

vars == <<blocks, ptrBlk, ptrOff, remaining, memoryUsage, live, nAllocs>>

\* The allocation made now: where it starts, how long it is, the alignment asked for.
Alloc(blk, off, len, align) ==
    [id |-> nAllocs, blk |-> blk, off |-> off, len |-> len, align |-> align]

\* reinterpret_cast<uintptr_t>(alloc_ptr_), modulo the largest alignment.
Current == IF ptrBlk = 0 THEN 0 ELSE blocks[ptrBlk].base + ptrOff

Init ==
    /\ blocks = <<>>
    /\ ptrBlk = 0 /\ ptrOff = 0 /\ remaining = 0
    /\ memoryUsage = 0
    /\ live = {}
    /\ nAllocs = 0

\* Serve `needed` bytes from the current block, the result `padding` bytes in.
Bump(bytes, padding, align) ==
    /\ live' = live \cup {Alloc(ptrBlk, ptrOff + padding, bytes, align)}
    /\ ptrOff' = ptrOff + bytes + padding
    /\ remaining' = remaining - (bytes + padding)
    /\ UNCHANGED <<blocks, ptrBlk, memoryUsage>>

\* Mutant of AllocateFallback: the new block's pointer is not advanced.
AllocateFallbackNoAdvance(bytes, align) ==
    \E base \in BaseResidues :
        LET big == bytes > kBlockSize \div 4
            sz  == IF big THEN bytes ELSE kBlockSize
            k   == Len(blocks) + 1
        IN  /\ blocks' = Append(blocks, [base |-> base, size |-> sz])
            /\ memoryUsage' = memoryUsage + sz + kPtrSize
            /\ live' = live \cup {Alloc(k, 0, bytes, align)}
            /\ IF big THEN UNCHANGED <<ptrBlk, ptrOff, remaining>>
               ELSE /\ ptrBlk' = k /\ ptrOff' = 0
                    /\ remaining' = kBlockSize

(***************************************************************************)
(* AllocateFallback: a request above a quarter block gets a dedicated      *)
(* block of its own size, leaving the current block as it is; otherwise a  *)
(* new kBlockSize block becomes current and serves the request from its    *)
(* start.  AllocateNewBlock charges the block plus a pointer.  The result  *)
(* is the block's start: no padding, whatever alignment was asked for.     *)
(***************************************************************************)
AllocateFallback(bytes, align) ==
    \E base \in BaseResidues :
        LET big == bytes > kBlockSize \div 4
            sz  == IF big THEN bytes ELSE kBlockSize
            k   == Len(blocks) + 1
        IN  /\ blocks' = Append(blocks, [base |-> base, size |-> sz])
            /\ memoryUsage' = memoryUsage + sz + kPtrSize
            /\ live' = live \cup {Alloc(k, 0, bytes, align)}
            /\ IF big THEN UNCHANGED <<ptrBlk, ptrOff, remaining>>
               ELSE /\ ptrBlk' = k /\ ptrOff' = bytes
                    /\ remaining' = kBlockSize - bytes

\* Allocate(bytes): from the current block if it fits, else the fallback.
Allocate(bytes) ==
    /\ nAllocs < MaxAllocs
    /\ nAllocs' = nAllocs + 1
    /\ IF bytes <= remaining THEN Bump(bytes, 0, 1) ELSE AllocateFallback(bytes, 1)

\* Mutant of AlignPadding: the distance back to the boundary, not forward.
AlignPaddingBackward(align) == Current % align

\* The padding AllocateAligned computes: up to the next multiple of align.
AlignPadding(align) == (align - (Current % align)) % align

\* AllocateAligned(bytes, align): pad the bump pointer, or fall back.
AllocateAligned(bytes, align) ==
    LET padding == AlignPadding(align)
    IN  /\ nAllocs < MaxAllocs
        /\ nAllocs' = nAllocs + 1
        /\ IF bytes + padding <= remaining THEN Bump(bytes, padding, align)
           ELSE AllocateFallback(bytes, align)

\* Mutant of Reset: the first block is freed too, alloc_ptr_ left pointing into it.
ResetFreesAll ==
    /\ blocks # <<>>
    /\ ptrBlk' = 1 /\ ptrOff' = 0
    /\ remaining' = kBlockSize
    /\ blocks' = <<>>
    /\ memoryUsage' = kBlockSize
    /\ live' = {}
    /\ UNCHANGED nAllocs

(***************************************************************************)
(* Reset: keep the first block, rewind to its start with kBlockSize bytes  *)
(* remaining, free the others, and set memory_usage_ to kBlockSize.        *)
(* Everything allocated before is dead.  With no blocks it does nothing.   *)
(***************************************************************************)
Reset ==
    /\ blocks # <<>>
    /\ ptrBlk' = 1 /\ ptrOff' = 0
    /\ remaining' = kBlockSize
    /\ blocks' = <<blocks[1]>>
    /\ memoryUsage' = kBlockSize
    /\ live' = {}
    /\ UNCHANGED nAllocs

Next ==
    \/ \E n \in Sizes : Allocate(n)
    \/ \E n \in Sizes, a \in Alignments : AllocateAligned(n, a)
    \/ Reset

Spec == Init /\ [][Next]_vars

-----------------------------------------------------------------------------
ArenaTypeOK ==
    /\ blocks \in Seq([base : BaseResidues, size : Nat \ {0}])
    /\ ptrBlk \in 0..Len(blocks) /\ ptrOff \in Nat
    /\ remaining \in 0..kBlockSize
    /\ memoryUsage \in Nat
    /\ \A x \in live : x.blk \in 1..Len(blocks)
    /\ nAllocs \in 0..MaxAllocs

(***************************************************************************)
(* No two allocations handed out since the last Reset share a byte: the    *)
(* bump pointer, alloc_remaining_, the fallback's switch to a new block    *)
(* and the dedicated blocks of large requests keep them apart.             *)
(***************************************************************************)
AllocationsDisjoint ==
    \A x, y \in live :
        x # y /\ x.blk = y.blk => x.off + x.len <= y.off \/ y.off + y.len <= x.off

(***************************************************************************)
(* Every result of AllocateAligned is aligned as asked (the assert at      *)
(* arena.h:58, and spec section 4.1): the padding computed from the        *)
(* pointer's address, on both the bump and the fallback path.              *)
(***************************************************************************)
AllocationsAligned ==
    \A x \in live : (blocks[x.blk].base + x.off) % x.align = 0

(***************************************************************************)
(* Every live allocation lies inside the block it was carved from: no      *)
(* caller of the arena writes past the memory new char[] gave it, Reset    *)
(* included (spec section 4.1: reset rewinds to the start of the first     *)
(* block).                                                                  *)
(***************************************************************************)
AllocationsInBlock ==
    \A x \in live : x.off + x.len <= blocks[x.blk].size

=============================================================================
