------------------------------ MODULE MCBuddy ------------------------------
(* Small memories for TLC. *)
EXTENDS Buddy

\* All of the memory, all but its first pages (where the boot allocator's map
\* lies), or what a hole leaves.
BootFreeSmall == {Page, Page \ {0}, Page \ {3}, Page \ {1, 6}}

\* A few pages at both ends of the memory.
BootFreeEnds == {{0, 1, 2, 3, 16}}
=============================================================================
