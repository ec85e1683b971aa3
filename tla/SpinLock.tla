------------------------------ MODULE SpinLock ------------------------------
(***************************************************************************)
(* The kernel's spinlocks (spinlock.c) and the interrupt nesting counter   *)
(* they maintain for each hart (asm/hart.c), driven by the kernel code of  *)
(* every hart and by the trap handlers that interrupt that code.           *)
(*                                                                         *)
(* A hart executes one frame at a time: the code it was running, or the    *)
(* trap handler that interrupted it.  A step is one access to state that   *)
(* other harts can see, or the part of pushoff_hart/popoff_hart that runs  *)
(* with the interrupts of the hart off and touches the hart alone.         *)
(***************************************************************************)
EXTENDS Integers, FiniteSets

CONSTANTS Hart,     \* the harts that share the locks
          Lock,     \* the spinlocks, numbered in the order the kernel nests them
          NoHart    \* the NULL of lk->hart

ASSUME LockAssumption == Lock \subseteq Nat
ASSUME HartAssumption == NoHart \notin Hart

VARIABLES
    locked,        \* locked[l]: lk->locked
    owner,         \* owner[l]: lk->hart
    sie,           \* sie[h]: the interrupt enable bit of the hart
    dep,           \* dep[h]: trap_pushoff_dep
    trap_enabled,  \* trap_enabled[h]: the bit saved by the outermost pushoff
    pc, lk, prev,  \* the frame the hart executes
    saved,         \* saved[h]: the frame a trap handler on the hart interrupted
    held,          \* held[h]: locks of the critical sections the hart is in
    wanted         \* wanted[h]: interrupt state the hart's code asked for

hartVars == <<sie, dep, trap_enabled>>
frameVars == <<pc, lk, prev>>
vars == <<locked, owner, hartVars, frameVars, saved, held, wanted>>

(***************************************************************************)
(* Where a frame is: in client code ("run"), in spinlock_acquire           *)
(* ("pushoff" .. "own"), in spinlock_release ("unlock", "popoff") or in    *)
(* panic().  lk and prev are the callee's argument and local prev_mode.    *)
(* A saved frame at "none" says that no trap is being handled.             *)
(***************************************************************************)
PC == {"run", "pushoff", "check", "tas", "own", "unlock", "popoff", "panic"}
Bit == {0, 1}
Frame == [pc : PC \cup {"none"}, lk : Lock, prev : Bit]

inTrap(h) == saved[h].pc # "none"

At(h, label) == pc[h] = label
GoTo(h, label) == pc' = [pc EXCEPT ![h] = label]

TypeOK ==
    /\ locked \in [Lock -> Bit]
    /\ owner \in [Lock -> Hart \cup {NoHart}]
    /\ sie \in [Hart -> Bit]
    /\ dep \in [Hart -> Nat]
    /\ trap_enabled \in [Hart -> Bit]
    /\ pc \in [Hart -> PC]
    /\ lk \in [Hart -> Lock]
    /\ prev \in [Hart -> Bit]
    /\ saved \in [Hart -> Frame]
    /\ held \in [Hart -> SUBSET Lock]
    /\ wanted \in [Hart -> Bit]

\* spinlock_init has run for every lock; each hart starts with traps off.
Init ==
    /\ locked = [l \in Lock |-> 0]
    /\ owner = [l \in Lock |-> NoHart]
    /\ sie = [h \in Hart |-> 0]
    /\ dep = [h \in Hart |-> 0]
    /\ trap_enabled = [h \in Hart |-> 0]
    /\ pc = [h \in Hart |-> "run"]
    /\ \E l \in Lock :
         /\ lk = [h \in Hart |-> l]
         /\ saved = [h \in Hart |-> [pc |-> "none", lk |-> l, prev |-> 0]]
    /\ prev = [h \in Hart |-> 0]
    /\ held = [h \in Hart |-> {}]
    /\ wanted = [h \in Hart |-> 0]

is_holding_spinlock(h, l) == owner[l] = h /\ locked[l] = 1

-----------------------------------------------------------------------------
(* Faulty variants of the operations, to see that the properties notice them *)

\* pushoff_hart without disable_interrupt.
PushOffStaysOn(h) ==
    /\ At(h, "pushoff")
    /\ trap_enabled' = [trap_enabled EXCEPT ![h] =
                            IF dep[h] = 0 THEN prev[h] ELSE @]
    /\ dep' = [dep EXCEPT ![h] = @ + 1]
    /\ GoTo(h, "check")
    /\ UNCHANGED <<locked, owner, sie, lk, prev, saved, held, wanted>>

\* A loop that does not look at the value it swapped out.
TestAndSetBlind(h) ==
    /\ At(h, "tas")
    /\ locked' = [locked EXCEPT ![lk[h]] = 1]
    /\ GoTo(h, "own")
    /\ UNCHANGED <<owner, hartVars, lk, prev, saved, held, wanted>>

\* spinlock_release without lk->hart = 0.
ReleaseKeepsOwner(h, l) ==
    /\ At(h, "run")
    /\ l \in held[h]
    /\ GoTo(h, IF is_holding_spinlock(h, l) THEN "unlock" ELSE "panic")
    /\ lk' = [lk EXCEPT ![h] = l]
    /\ UNCHANGED <<locked, owner, hartVars, prev, saved, held, wanted>>

\* spinlock_release without __sync_lock_release.
UnlockForgets(h) ==
    /\ At(h, "unlock")
    /\ held' = [held EXCEPT ![h] = @ \ {lk[h]}]
    /\ GoTo(h, "popoff")
    /\ UNCHANGED <<locked, owner, hartVars, lk, prev, saved, wanted>>

-----------------------------------------------------------------------------
(* spinlock_acquire *)

\* Call it: the kernel nests locks in ascending order.  pushoff_hart starts
\* by reading the interrupt state into its local prev_mode.
Acquire(h, l) ==
    /\ At(h, "run")
    /\ \A k \in held[h] : k < l
    /\ GoTo(h, "pushoff")
    /\ lk' = [lk EXCEPT ![h] = l]
    /\ prev' = [prev EXCEPT ![h] = sie[h]]
    /\ UNCHANGED <<locked, owner, hartVars, saved, held, wanted>>

\* disable_interrupt and the rest of pushoff_hart.
PushOff(h) ==
    /\ At(h, "pushoff")
    /\ sie' = [sie EXCEPT ![h] = 0]
    /\ trap_enabled' = [trap_enabled EXCEPT ![h] =
                            IF dep[h] = 0 THEN prev[h] ELSE @]
    /\ dep' = [dep EXCEPT ![h] = @ + 1]
    /\ GoTo(h, "check")
    /\ UNCHANGED <<locked, owner, lk, prev, saved, held, wanted>>

\* panic("spinlock_acquire - spinlock held;")
CheckHeld(h) ==
    /\ At(h, "check")
    /\ GoTo(h, IF is_holding_spinlock(h, lk[h]) THEN "panic" ELSE "tas")
    /\ UNCHANGED <<locked, owner, hartVars, lk, prev, saved, held, wanted>>

\* The iteration of the test-and-set loop that finds the lock free.
TestAndSet(h) ==
    /\ At(h, "tas")
    /\ locked[lk[h]] = 0
    /\ locked' = [locked EXCEPT ![lk[h]] = 1]
    /\ GoTo(h, "own")
    /\ UNCHANGED <<owner, hartVars, lk, prev, saved, held, wanted>>

SetOwner(h) ==
    /\ At(h, "own")
    /\ owner' = [owner EXCEPT ![lk[h]] = h]
    /\ held' = [held EXCEPT ![h] = @ \cup {lk[h]}]
    /\ GoTo(h, "run")
    /\ UNCHANGED <<locked, hartVars, lk, prev, saved, wanted>>

-----------------------------------------------------------------------------
(* spinlock_release *)

\* The holder test, then lk->hart = 0.  Locks are released in any order.
Release(h, l) ==
    /\ At(h, "run")
    /\ l \in held[h]
    /\ LET holding == is_holding_spinlock(h, l) IN
         /\ owner' = [owner EXCEPT ![l] = IF holding THEN NoHart ELSE @]
         /\ GoTo(h, IF holding THEN "unlock" ELSE "panic")
    /\ lk' = [lk EXCEPT ![h] = l]
    /\ UNCHANGED <<locked, hartVars, prev, saved, held, wanted>>

\* __sync_lock_release
Unlock(h) ==
    /\ At(h, "unlock")
    /\ locked' = [locked EXCEPT ![lk[h]] = 0]
    /\ held' = [held EXCEPT ![h] = @ \ {lk[h]}]
    /\ GoTo(h, "popoff")
    /\ UNCHANGED <<owner, hartVars, lk, prev, saved, wanted>>

\* popoff_hart, with its two panics.
PopOff(h) ==
    /\ At(h, "popoff")
    /\ LET matched == sie[h] = 0 /\ dep[h] >= 1 IN
         /\ dep' = [dep EXCEPT ![h] = IF matched THEN @ - 1 ELSE @]
         /\ sie' = [sie EXCEPT ![h] = IF dep[h] = 1 /\ trap_enabled[h] = 1 THEN 1 ELSE @]
         /\ GoTo(h, IF matched THEN "run" ELSE "panic")
    /\ UNCHANGED <<locked, owner, trap_enabled, lk, prev, saved, held, wanted>>

-----------------------------------------------------------------------------
(* The code around the locks *)

\* enable_interrupt in scheduler() and utrap_handler(), disable_interrupt in
\* utrap_return() and on entry from user mode: thread code, no lock held.
SetInterrupt(h, on) ==
    /\ At(h, "run") /\ held[h] = {} /\ ~inTrap(h)
    /\ sie[h] # on
    /\ sie' = [sie EXCEPT ![h] = on]
    /\ wanted' = [wanted EXCEPT ![h] = on]
    /\ UNCHANGED <<locked, owner, dep, trap_enabled, frameVars, saved, held>>

\* An interrupt is taken between any two instructions while sie is set; the
\* hardware clears sie.
TrapEnter(h) ==
    /\ sie[h] = 1 /\ ~At(h, "panic")
    /\ saved' = [saved EXCEPT ![h] =
                     [pc |-> pc[h], lk |-> lk[h], prev |-> prev[h]]]
    /\ GoTo(h, "run")
    /\ sie' = [sie EXCEPT ![h] = 0]
    /\ wanted' = [wanted EXCEPT ![h] = 0]
    /\ UNCHANGED <<locked, owner, dep, trap_enabled, lk, prev, held>>

\* ktrap_handler rewrites sstatus and sret sets sie again.
TrapReturn(h) ==
    /\ inTrap(h) /\ At(h, "run") /\ held[h] = {}
    /\ pc' = [pc EXCEPT ![h] = saved[h].pc]
    /\ lk' = [lk EXCEPT ![h] = saved[h].lk]
    /\ prev' = [prev EXCEPT ![h] = saved[h].prev]
    /\ saved' = [saved EXCEPT ![h] =
                     [pc |-> "none", lk |-> saved[h].lk, prev |-> saved[h].prev]]
    /\ sie' = [sie EXCEPT ![h] = 1]
    /\ wanted' = [wanted EXCEPT ![h] = 1]
    /\ UNCHANGED <<locked, owner, dep, trap_enabled, held>>

-----------------------------------------------------------------------------

\* The steps of a call under way.
Inside(h) ==
    \/ PushOff(h) \/ CheckHeld(h) \/ TestAndSet(h) \/ SetOwner(h)
    \/ Unlock(h) \/ PopOff(h)

Next ==
    \E h \in Hart :
        \/ \E l \in Lock : Acquire(h, l) \/ Release(h, l)
        \/ Inside(h)
        \/ \E on \in Bit : SetInterrupt(h, on)
        \/ TrapEnter(h)
        \/ TrapReturn(h)

Spec == Init /\ [][Next]_vars

\* A hart keeps executing the call it is in, and no critical section of the
\* kernel loops for ever, so it also reaches the release of what it holds.
Fairness ==
    \A h \in Hart :
        /\ WF_vars(Inside(h))
        /\ WF_vars(\E l \in Lock : Release(h, l))

FairSpec == Spec /\ Fairness

-----------------------------------------------------------------------------
(* Properties *)

\* h has won the test-and-set of l and has not cleared lk->locked yet.
Holds(h, l) == l \in held[h] \/ (At(h, "own") /\ lk[h] = l)

\* Two harts are never inside sections of the same lock: what
\* spinlock_acquire returns is exclusive until spinlock_release unlocks.
MutualExclusion ==
    \A h, g \in Hart : \A l \in Lock : Holds(h, l) /\ Holds(g, l) => h = g

\* A hart that holds a lock takes no interrupts (pushoff_hart), so a handler
\* never spins on a lock of the code it interrupted.
HolderNotInterrupted ==
    \A h \in Hart : \A l \in Lock : Holds(h, l) => sie[h] = 0

\* The panics of spinlock_acquire, spinlock_release and popoff_hart are not
\* reached by code that releases exactly what it acquired.
NoPanic == \A h \in Hart : ~At(h, "panic")

\* Once the outermost section is over, whatever the order of the releases,
\* the hart is back in the interrupt state its code had chosen: popoff_hart
\* neither leaves interrupts off nor turns them on inside a trap handler.
InterruptsRestored ==
    \A h \in Hart : At(h, "run") /\ held[h] = {} => sie[h] = wanted[h]

\* trap_pushoff_dep counts the sections the hart is in or is entering or
\* leaving, so it reaches 0 exactly at the outermost popoff_hart.
Pending(h) == IF pc[h] \in {"check", "tas", "own", "popoff"} THEN 1 ELSE 0
DepthMatches == \A h \in Hart : dep[h] = Cardinality(held[h]) + Pending(h)

-----------------------------------------------------------------------------
(* The inductive invariant behind the safety properties *)

\* The two fields of a lock agree with who holds it.
OwnerInv ==
    \A h \in Hart : \A l \in Lock :
        /\ Holds(h, l) => locked[l] = 1
        /\ owner[l] = h <=> l \in held[h] /\ ~(At(h, "unlock") /\ lk[h] = l)

\* The argument of the call a hart is in is held exactly while releasing it.
FrameInv ==
    \A h \in Hart :
        /\ ~At(h, "panic")
        /\ pc[h] \in {"pushoff", "check", "tas", "own"} =>
               lk[h] \notin held[h]
        /\ At(h, "unlock") => lk[h] \in held[h]
        /\ At(h, "pushoff") => prev[h] = wanted[h] \/ dep[h] > 0

\* While dep is positive interrupts are off and the saved bit is the state
\* to go back to; a frame is only interrupted outside sections.
InterruptInv ==
    \A h \in Hart :
        /\ dep[h] > 0 => sie[h] = 0 /\ trap_enabled[h] = wanted[h]
        /\ dep[h] = 0 => sie[h] = wanted[h]
        /\ inTrap(h) => /\ wanted[h] = 0
                        /\ saved[h].pc \in {"run", "pushoff"}
                        /\ saved[h].pc = "pushoff" => saved[h].prev = 1

FiniteHeld == \A h \in Hart : IsFiniteSet(held[h])

IInv ==
    /\ TypeOK /\ MutualExclusion /\ OwnerInv /\ FrameInv
    /\ InterruptInv /\ FiniteHeld /\ DepthMatches

-----------------------------------------------------------------------------
(* Liveness *)

\* While somebody spins in spinlock_acquire, somebody gets a lock: the test
\* and set loop cannot be stuck for ever with every hart waiting.
Progress == (\E h \in Hart : At(h, "tas")) ~> (\E h \in Hart : At(h, "own"))
=============================================================================
