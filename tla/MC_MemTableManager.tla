------------------------- MODULE MC_MemTableManager -------------------------
(* Model-checking instance of MemTableManager: two keys, one value, one   *)
(* memtable holding two entries before ShouldFlush, four tables.          *)
EXTENDS MemTableManager

MCKeyOrder == <<"a">>
MCKeyLen   == [k \in {"a"} |-> 1]
MCValLen   == [v \in {"v1"} |-> 1]
\* Two entries of 91 bytes reach max_size; the third write rotates.
MCMaxSize  == 182

=============================================================================
