------------------------------- MODULE MCUart -------------------------------
(* Small instances of Uart. *)
EXTENDS Uart, TLC

CONSTANTS p1, p2

MCProc == {p1, p2}

Machine(procs, harts, instant, len, calls, input) ==
    [procs |-> procs, harts |-> harts, instant |-> instant, len |-> len,
     yells |-> calls, input |-> input, ahead |-> RxSize]

\* One process, a transmitter that takes its time, and messages longer than the
\* buffer; two harts that print and read at the same time; and two processes that
\* preempt and kill each other on one hart.
Slow == Machine({p1}, 1, FALSE, 3, 2, 3)
TwoHarts == Machine({p1, p2}, 2, TRUE, 2, 1, 1)
Shared == Machine({p1, p2}, 1, TRUE, 1, 1, 2)
AllMachines == {Slow, TwoHarts, Shared}
JustTwoHarts == {TwoHarts}

\* Two processes that share a hart.
OneHartTwoProcs == {Machine({p1, p2}, 1, FALSE, 3, 1, 2)}

\* Somebody types faster than the process reads.
TypedAhead == {[Slow EXCEPT !.ahead = RxSize + 1]}
=============================================================================
