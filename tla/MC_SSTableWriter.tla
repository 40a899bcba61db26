-------------------------- MODULE MC_SSTableWriter --------------------------
(* FlushMemTable over every memtable of up to five entries on two keys. *)
EXTENDS SSTableWriter

\* The user keys "a" and "b", and the value "v".
MCUserKeys == {<<97>>, <<98>>}
MCPutValue == <<118>>
=============================================================================
