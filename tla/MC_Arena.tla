------------------------------- MODULE MC_Arena -------------------------------
(* The arena with its real block size: requests of 17 bytes (the unit test's), of a *)
(* quarter block and of half a block, six allocations.                    *)
EXTENDS Arena
=============================================================================
