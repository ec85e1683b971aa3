-------------------------------- MODULE Uart --------------------------------
(***************************************************************************)
(* The console and the serial driver behind it: printf and getchar         *)
(* (print.c), the two ring buffers of ns16550a.c and its interrupt         *)
(* handler, reached through hal_trap_handler and the claim and complete of *)
(* the PLIC.  The processes run sys_debug_yell, the system call that both  *)
(* prints and reads.                                                       *)
(*                                                                         *)
(* A step is one section of tx_lock or rx_lock, or one access outside      *)
(* them.  A hart with no process is in scheduler(), which enables          *)
(* interrupts at the top of its loop whatever locks a sleeper still holds. *)
(***************************************************************************)
EXTENDS Integers, Sequences, FiniteSets

CONSTANTS Proc, NULL,
          Sched,             \* a hart in scheduler(), as host of the handler
          TxSize, RxSize,    \* TX_BUFFER_SIZE, RX_BUFFER_SIZE
          CounterMod,        \* 2^64, the range of the buffer counters
          Machines           \* the machines the kernel may run on, each with
                             \*   procs    the processes that run on it
                             \*   harts    its number of harts
                             \*   instant  the transmitter is idle again at once
                             \*   ahead    characters typed before they are read
                             \* and the bounds
                             \*   len      characters per message
                             \*   yells    system calls per process
                             \*   input    characters typed

ASSUME MachineAssumption ==
    \A m \in Machines :
        /\ m.procs \subseteq Proc /\ m.instant \in BOOLEAN
        /\ \A n \in {m.harts, m.len, m.yells, m.input, m.ahead} : n \in Nat \ {0}
        /\ m.harts > 1 => m.instant  \* who sleeps in printf may wake on another hart
ASSUME SizeAssumption ==
    /\ CounterMod \in Nat
    /\ \A n \in {TxSize, RxSize} : n \in Nat \ {0} /\ CounterMod % n = 0 /\ n < CounterMod
ASSUME ProcAssumption == IsFiniteSet(Proc) /\ NULL # Sched /\ {NULL, Sched} \cap Proc = {}

VARIABLES
    machine,         \* the machine, one of Machines
    st,              \* p->state
    step,            \* position of p in sys_debug_yell, 0 in user mode
    pc,              \* within the step: "go", "put" in printf, "doze" in readc
    count,           \* characters of the message put so far
    yells, killed,   \* system calls made; p->killed
    console,         \* the process inside console.lock
    rx_lock,         \* the process inside rx_lock across two steps
    tx, rx,          \* the ring buffers: slots, head and tail
    busy,            \* the transmitter holds a character
    fifo,            \* characters received and not read from RHR
    irq,             \* the source is pending at the PLIC
    host, hpc,       \* what the handler interrupted, and where it is
    panicked,
    owed,            \* history: characters given to putc_async and not to THR
    wire,            \* history: what THR was given of a message not complete
    typed, got       \* history: characters typed (a count), returned by readc

procVars == <<st, step, pc, count, yells, killed>>
lockVars == <<console, rx_lock>>
vars == <<machine, procVars, lockVars, tx, rx, busy, fifo, irq, host, hpc, panicked,
          owed, wire, typed, got>>

Harts == machine.harts
Instant == machine.instant
MsgLen == machine.len
MaxYells == machine.yells
MaxTyped == machine.input

\* sys_debug_yell: printf, print_buffer, printf, getchar, printf.
Script == <<"print", "print", "print", "read", "print">>

Char == Proc \X (1..Len(Script)) \X (1..MsgLen)
Ring(n, C) == [slots : [0..(n - 1) -> C \cup {NULL}],
               head : 0..(CounterMod - 1), tail : 0..(CounterMod - 1)]

TypeOK ==
    /\ machine \in Machines
    /\ st \in [Proc -> {"RUNNABLE", "RUNNING", "SLEEPING"}]
    /\ step \in [Proc -> 0..Len(Script)]
    /\ pc \in [Proc -> {"go", "put", "doze"}]
    /\ count \in [Proc -> 0..MsgLen]
    /\ yells \in [Proc -> 0..MaxYells] /\ killed \in [Proc -> BOOLEAN]
    /\ console \in Proc \cup {NULL} /\ rx_lock \in Proc \cup {NULL}
    /\ tx \in Ring(TxSize, Char) /\ rx \in Ring(RxSize, 1..MaxTyped)
    /\ busy \in BOOLEAN /\ irq \in BOOLEAN /\ panicked \in BOOLEAN
    /\ fifo \in Seq(1..MaxTyped)
    /\ host \in Proc \cup {NULL, Sched}
    /\ hpc \in {"none", "rx", "tx", "complete"}
    /\ owed \in Seq(Char)
    /\ typed \in 0..MaxTyped /\ got \in Seq(1..MaxTyped)

EmptyRing(n) == [slots |-> [i \in 0..(n - 1) |-> NULL], head |-> 0, tail |-> 0]

Init ==
    /\ machine \in Machines
    /\ st = [p \in Proc |-> "RUNNABLE"]
    /\ step = [p \in Proc |-> 0] /\ pc = [p \in Proc |-> "go"]
    /\ count = [p \in Proc |-> 0] /\ yells = [p \in Proc |-> 0]
    /\ killed = [p \in Proc |-> FALSE]
    /\ console = NULL /\ rx_lock = NULL
    /\ tx = EmptyRing(TxSize) /\ rx = EmptyRing(RxSize)
    /\ busy = FALSE /\ fifo = <<>> /\ irq = FALSE
    /\ host = NULL /\ hpc = "none" /\ panicked = FALSE
    /\ owed = <<>> /\ wire = <<>> /\ typed = 0 /\ got = <<>>

-----------------------------------------------------------------------------
(* Ring buffers, sleepers and harts *)

Used(r) == (r.tail - r.head + CounterMod) % CounterMod
Front(r, n) == r.slots[r.head % n]
\* The characters in the buffer, oldest first.
Content(r, n) == [i \in 1..Used(r) |-> r.slots[(r.head + i - 1) % n]]

Push(r, n, c) == [slots |-> [r.slots EXCEPT ![r.tail % n] = c],
                  head |-> r.head, tail |-> (r.tail + 1) % CounterMod]
Pop(r, k) == [slots |-> r.slots, head |-> (r.head + k) % CounterMod, tail |-> r.tail]

\* The channels are &tx_buffer_head, inside printf, and &rx_buffer_head.
SleepsOn(p, c) == st[p] = "SLEEPING" /\ c = (IF pc[p] = "put" THEN "tx" ELSE "rx")
Woken(c) == [p \in Proc |-> IF SleepsOn(p, c) THEN "RUNNABLE" ELSE st[p]]

Running(p) == st[p] = "RUNNING" /\ host # p /\ ~panicked
FreeHart == Cardinality({p \in Proc : st[p] = "RUNNING"})
              + (IF host = Sched THEN 1 ELSE 0) < Harts
\* A process inside printf or readc holds a spinlock: interrupts are off.
InterruptsOn(p) == Running(p) /\ pc[p] = "go"

-----------------------------------------------------------------------------
(* Faulty variants of the operations, to see that the properties notice them *)

\* putc_async with room for one character too many.
TxFullLate(r) == Used(r) = TxSize + 1

\* flush without proc_wakeup.
FlushedStates(n) == st

\* The handler without proc_wakeup after a received character.
HandlerRxSilent ==
    /\ hpc = "rx" /\ fifo # <<>>
    /\ rx' = Push(rx, RxSize, Head(fifo))
    /\ fifo' = Tail(fifo)
    /\ UNCHANGED <<machine, procVars, lockVars, tx, busy, irq, host, hpc, panicked, owed,
                   wire, typed, got>>

\* The handler that returns without flush.
HandlerTxSkipped ==
    /\ hpc = "tx" /\ hpc' = "complete"
    /\ UNCHANGED <<machine, procVars, lockVars, tx, rx, busy, fifo, irq, host, panicked,
                   owed, wire, typed, got>>

\* printf without console.lock.
ConsoleFreeAlways(p) == TRUE

-----------------------------------------------------------------------------
(* Scheduling *)

Dispatch(p) ==
    /\ p \in machine.procs
    /\ st[p] = "RUNNABLE" /\ FreeHart /\ ~panicked
    /\ st' = [st EXCEPT ![p] = "RUNNING"]
    /\ UNCHANGED <<machine, step, pc, count, yells, killed, lockVars, tx, rx, busy, fifo,
                   irq, host, hpc, panicked, owed, wire, typed, got>>

\* The timer trap.
Preempt(p) ==
    /\ InterruptsOn(p)
    /\ st' = [st EXCEPT ![p] = "RUNNABLE"]
    /\ UNCHANGED <<machine, step, pc, count, yells, killed, lockVars, tx, rx, busy, fifo,
                   irq, host, hpc, panicked, owed, wire, typed, got>>

\* proc_kill by another process: the target wakes up, goes round the loop it
\* sleeps in, and exits at the end of its system call.
Kill(q, p) ==
    /\ q # p /\ Running(q) /\ step[q] = 0
    /\ ~killed[p] /\ st[p] = "SLEEPING"
    /\ killed' = [killed EXCEPT ![p] = TRUE]
    /\ st' = [st EXCEPT ![p] = "RUNNABLE"]
    /\ UNCHANGED <<machine, step, pc, count, yells, lockVars, tx, rx, busy, fifo, irq,
                   host, hpc, panicked, owed, wire, typed, got>>

-----------------------------------------------------------------------------
(* sys_debug_yell *)

Yell(p) ==
    /\ Running(p) /\ step[p] = 0 /\ ~killed[p] /\ yells[p] < MaxYells
    /\ step' = [step EXCEPT ![p] = 1]
    /\ yells' = [yells EXCEPT ![p] = @ + 1]
    /\ UNCHANGED <<machine, st, pc, count, killed, lockVars, tx, rx, busy, fifo, irq, host,
                   hpc, panicked, owed, wire, typed, got>>

\* The operation of this step is done.
NextStep(p) == step' = [step EXCEPT ![p] = (@ + 1) % (Len(Script) + 1)]

AtOp(p, op) == Running(p) /\ step[p] > 0 /\ Script[step[p]] = op /\ pc[p] = "go"

ConsoleFree(p) == console = NULL
\* is_holding_spinlock: lk->hart is this hart.  With one hart the holder ran on
\* it; a holder running now is on another.
HeldHere(p) == console # NULL /\ Harts = 1

\* spinlock_acquire of console.lock
PrintLock(p) ==
    /\ AtOp(p, "print")
    /\ \/ /\ ConsoleFree(p)
          /\ console' = p
          /\ pc' = [pc EXCEPT ![p] = "put"]
          /\ UNCHANGED panicked
       \/ /\ HeldHere(p)
          /\ panicked' = TRUE
          /\ UNCHANGED <<console, pc>>
    /\ UNCHANGED <<machine, st, step, count, yells, killed, rx_lock, tx, rx, busy, fifo, irq,
                   host, hpc, owed, wire, typed, got>>

\* The wire w after the character c: a message that is complete is forgotten.
OnWire(w, c) ==
    IF Append(w, c) = [i \in 1..MsgLen |-> <<c[1], c[2], i>>] THEN <<>> ELSE Append(w, c)

\* ns16550a_driver_flush of the ring r, with the characters due, sends n of them:
\* none when the transmitter is busy, else as many as it accepts during the loop.
FlushCounts(r) ==
    IF busy \/ Used(r) = 0 THEN {0}
    ELSE IF Instant THEN {Used(r)} ELSE 1..Used(r)
Flush(r, n, due) ==
    /\ tx' = Pop(r, n)
    /\ owed' = SubSeq(due, n + 1, Len(due))
    /\ wire' = LET w[i \in 0..n] == IF i = 0 THEN wire ELSE OnWire(w[i - 1], Content(r, TxSize)[i])
               IN  w[n]
    /\ busy' = (busy \/ (n > 0 /\ ~Instant))
    /\ irq' = (irq \/ n > 1 \/ (n = 1 /\ Instant))
\* proc_wakeup(&tx_buffer_head) after each of them.
WokenByFlush(n) == IF n > 0 THEN Woken("tx") ELSE st

TxFull(r) == Used(r) = TxSize
\* spinlock_release of console.lock
Unlocked(holder) == NULL

\* ns16550a_driver_putc_async for the next character, up to its proc_sleep, and
\* after the last character the release of console.lock.
PutChar(p) ==
    LET c == <<p, step[p], count[p] + 1>>
        last == count[p] + 1 = MsgLen
    IN  /\ Running(p) /\ pc[p] = "put"
        /\ \/ /\ TxFull(tx)
              /\ st' = [st EXCEPT ![p] = "SLEEPING"]
              /\ UNCHANGED <<step, pc, count, console, tx, busy, irq, owed, wire>>
           \/ /\ ~TxFull(tx)
              /\ LET r == Push(tx, TxSize, c) IN
                   \E n \in FlushCounts(r) :
                       Flush(r, n, Append(owed, c)) /\ st' = WokenByFlush(n)
              /\ count' = [count EXCEPT ![p] = IF last THEN 0 ELSE @ + 1]
              /\ IF last THEN /\ console' = Unlocked(console)
                              /\ pc' = [pc EXCEPT ![p] = "go"]
                              /\ NextStep(p)
                         ELSE UNCHANGED <<console, pc, step>>
        /\ UNCHANGED <<machine, yells, killed, rx_lock, rx, fifo, host, hpc, panicked, typed,
                       got>>

RxEmpty(r) == Used(r) = 0

\* ns16550a_driver_readc up to its proc_sleep, or to its end.
ReadChar(p) ==
    /\ AtOp(p, "read") /\ rx_lock = NULL
    /\ \/ /\ RxEmpty(rx)
          /\ rx_lock' = p
          /\ pc' = [pc EXCEPT ![p] = "doze"]
          /\ UNCHANGED <<step, rx, got>>
       \/ /\ ~RxEmpty(rx)
          /\ got' = Append(got, Front(rx, RxSize))
          /\ rx' = Pop(rx, 1)
          /\ NextStep(p)
          /\ UNCHANGED <<rx_lock, pc>>
    /\ UNCHANGED <<machine, st, count, yells, killed, console, tx, busy, fifo, irq, host, hpc,
                   panicked, owed, wire, typed>>

\* proc_sleep(&rx_buffer_head, &rx_lock)
ReadSleep(p) ==
    /\ Running(p) /\ pc[p] = "doze"
    /\ rx_lock' = NULL
    /\ pc' = [pc EXCEPT ![p] = "go"]
    /\ st' = [st EXCEPT ![p] = "SLEEPING"]
    /\ UNCHANGED <<machine, step, count, yells, killed, console, tx, rx, busy, fifo, irq, host,
                   hpc, panicked, owed, wire, typed, got>>

-----------------------------------------------------------------------------
(* hal_trap_handler and ns16550a_driver_interrupt_handler *)

\* The PLIC gives a pending source to one hart until that hart completes it.
Claim ==
    /\ irq /\ hpc = "none" /\ ~panicked
    /\ \E h \in {p \in Proc : InterruptsOn(p)} \cup (IF FreeHart THEN {Sched} ELSE {}) :
          host' = h
    /\ irq' = FALSE
    /\ hpc' = "rx"
    /\ UNCHANGED <<machine, procVars, lockVars, tx, rx, busy, fifo, panicked, owed, wire, typed,
                   got>>

\* One received character, stored without rx_lock.
HandlerRx ==
    /\ hpc = "rx" /\ fifo # <<>>
    /\ rx' = Push(rx, RxSize, Head(fifo))
    /\ fifo' = Tail(fifo)
    /\ st' = Woken("rx")
    /\ UNCHANGED <<machine, step, pc, count, yells, killed, lockVars, tx, busy, irq, host, hpc,
                   panicked, owed, wire, typed, got>>

HandlerRxEnd ==
    /\ hpc = "rx" /\ fifo = <<>>
    /\ hpc' = "tx"
    /\ UNCHANGED <<machine, procVars, lockVars, tx, rx, busy, fifo, irq, host, panicked, owed,
                   wire, typed, got>>

HandlerTx ==
    /\ hpc = "tx" /\ hpc' = "complete"
    /\ \E n \in FlushCounts(tx) : Flush(tx, n, owed) /\ st' = WokenByFlush(n)
    /\ UNCHANGED <<machine, step, pc, count, yells, killed, lockVars, rx, fifo, host, panicked,
                   typed, got>>

Complete ==
    /\ hpc = "complete" /\ hpc' = "none"
    /\ host' = NULL
    /\ UNCHANGED <<machine, procVars, lockVars, tx, rx, busy, fifo, irq, panicked, owed, wire,
                   typed, got>>

-----------------------------------------------------------------------------
(* The device *)

\* A key, with at most machine.ahead characters unread: the driver does not test
\* whether the receive buffer has room.
Type ==
    /\ typed < MaxTyped /\ Used(rx) + Len(fifo) < machine.ahead
    /\ typed' = typed + 1
    /\ fifo' = Append(fifo, typed + 1)
    /\ irq' = TRUE
    /\ UNCHANGED <<machine, procVars, lockVars, tx, rx, busy, host, hpc, panicked, owed, wire,
                   got>>

\* The transmitter becomes idle and says so.
Transmit ==
    /\ busy
    /\ busy' = FALSE
    /\ irq' = TRUE
    /\ UNCHANGED <<machine, procVars, lockVars, tx, rx, fifo, host, hpc, panicked, owed, wire,
                   typed, got>>

Handler == HandlerRx \/ HandlerRxEnd \/ HandlerTx \/ Complete
Body(p) == Yell(p) \/ PrintLock(p) \/ PutChar(p) \/ ReadChar(p) \/ ReadSleep(p)

Next ==
    \/ \E p \in Proc : Dispatch(p)
    \/ \E p \in Proc : Preempt(p)
    \/ \E p, q \in Proc : Kill(q, p)
    \/ \E p \in Proc : Yell(p)
    \/ \E p \in Proc : PrintLock(p)
    \/ \E p \in Proc : PutChar(p)
    \/ \E p \in Proc : ReadChar(p)
    \/ \E p \in Proc : ReadSleep(p)
    \/ Claim
    \/ HandlerRx
    \/ HandlerRxEnd
    \/ HandlerTx
    \/ Complete
    \/ Type
    \/ Transmit

\* Harts execute code and take pending interrupts, the timer fires, but not for
\* ever before the process has moved, scheduler() goes round the whole list, and
\* the device finishes what it was given; keys are pressed as long as the bound
\* allows.
Fairness ==
    /\ \A p \in Proc : SF_vars(Dispatch(p)) /\ SF_vars(Body(p)) /\ SF_vars(Preempt(p))
    /\ SF_vars(Claim) /\ WF_vars(Handler) /\ WF_vars(Transmit) /\ WF_vars(Type)

Spec == Init /\ [][Next]_vars /\ Fairness

-----------------------------------------------------------------------------
(* Properties *)

\* Every character given to putc_async reaches THR once and in order: what THR
\* is still owed is what the transmit buffer holds.
OutputInOrder == owed = Content(tx, TxSize)

\* console.lock keeps the characters of one printf together on the wire, also
\* when the process sleeps in the middle of it: what THR got of a message is the
\* beginning of one message of one process.
MessagesWhole ==
    /\ wire \in Seq(Char)
    /\ \A i \in DOMAIN wire : wire[i] = <<wire[1][1], wire[1][2], i>>

\* readc returns the typed characters once and in order: those returned, those
\* in the receive buffer and those in the device are all that were typed.
InputInOrder == got \o Content(rx, RxSize) \o fifo = [i \in 1..typed |-> i]

\* Both ring buffers carry what they were given, across every wrap-around of
\* their counters.
BuffersInv == TypeOK /\ OutputInOrder /\ InputInOrder

\* A process sleeps in putc_async only while the transmit buffer is full, and in
\* readc only while the receive buffer is empty.
AwakeInTime ==
    \A p \in Proc : /\ SleepsOn(p, "tx") => Used(tx) = TxSize
                    /\ SleepsOn(p, "rx") => Used(rx) = 0

\* proc_wakeup is never missed where one hart runs, the handler included.
NoSleeperForgotten == Harts = 1 => AwakeInTime

\* spinlock_acquire does not find console.lock held by its own hart.
NoPanic == ~panicked

\* Whatever is printed is sent in the end, by putc_async or by the handler.
OutputDrains == owed # <<>> ~> owed = <<>>

\* Where one hart runs, a system call that prints and reads returns once input
\* comes.
YellReturns == \A p \in Proc : step[p] > 0 /\ Harts = 1 ~> step[p] = 0

\* The same, whatever the number of harts: a reader whose wakeup is missed may
\* sleep with its character in the buffer.
YellReturnsAnywhere == \A p \in Proc : step[p] > 0 ~> step[p] = 0

=============================================================================
