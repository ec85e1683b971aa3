----------------------------- MODULE MCSpinLock -----------------------------
(* Two harts, two nested locks. *)
EXTENDS SpinLock

CONSTANTS h1, h2

MCHart == {h1, h2}
MCLock == {1, 2}
=============================================================================
