------------------------------- MODULE MCProc -------------------------------
(* Small sets of harts and process objects for TLC. *)
EXTENDS Proc, TLC

CONSTANTS p1, p2, p3, h1

OneHart == {Hart0}
TwoHarts == {Hart0, h1}
TwoProcs == {p1, p2}
ThreeProcs == {p1, p2, p3}
ProcSymmetry == Permutations(Proc)

(* Process objects are interchangeable, the initial one included, so what     *)
(* holds of p1 holds of every process.                                        *)

\* A runnable process gets the processor (scheduler.c:14).
P1RunnableRuns == RunnableRuns(p1)

\* A killed process dies, wherever it was when proc_kill marked it
\* (proc.c:251).
P1KilledDies == KilledDies(p1)

\* A process asleep in sleep or wait whose condition has come true runs again
\* (proc.c:216).
P1SleeperRuns == SleeperRuns(p1)
=============================================================================
