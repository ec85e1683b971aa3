------------------------------- MODULE MCVmem -------------------------------
(* Small address spaces for TLC. *)
EXTENDS Vmem

\* What an uninitialised program_break may hold: the end of the heap, or zero.
HeapEnd(end) == {end}
ZeroBreak(end) == {0}

ProcSymmetry == Permutations(Procs)
=============================================================================
