--------------------------- MODULE SpinLockProofs ---------------------------
(***************************************************************************)
(* The safety properties of SpinLock for any set of harts and any set of   *)
(* locks.  IInv is inductive; each property follows from it.               *)
(***************************************************************************)
EXTENDS SpinLock, FiniteSetTheorems, TLAPS

\* Steps without arithmetic go to Zenon; the others name SMT.
USE ZenonT(30)

\* What a hart's section count says about the set of locks it holds.
LEMMA CountFacts ==
    ASSUME TypeOK, FiniteHeld, DepthMatches, NEW h \in Hart
    PROVE  /\ Cardinality(held[h]) \in Nat
           /\ dep[h] = 0 => held[h] = {} /\ Pending(h) = 0
           /\ held[h] # {} => dep[h] > 0
           /\ Pending(h) = 1 => dep[h] > 0
  <1>1. IsFiniteSet(held[h])
    BY DEF FiniteHeld
  <1>2. Cardinality(held[h]) \in Nat /\ (Cardinality(held[h]) = 0 <=> held[h] = {})
    BY <1>1, FS_CardinalityType, FS_EmptySet
  <1>3. Pending(h) \in {0, 1}
    BY DEF Pending
  <1>4. dep[h] = Cardinality(held[h]) + Pending(h)
    BY DEF DepthMatches
  <1> QED
    BY SMT, <1>2, <1>3, <1>4

\* A hart in client code that holds nothing has left every section.
LEMMA IdleDepth ==
    ASSUME DepthMatches, NEW h \in Hart, held[h] = {}, pc[h] = "run"
    PROVE  dep[h] = 0
  BY SMT, FS_EmptySet DEF DepthMatches, Pending

\* Entering and leaving a section changes the count by one.
LEMMA CardinalityFacts ==
    ASSUME NEW S, NEW x, IsFiniteSet(S)
    PROVE  /\ IsFiniteSet(S \cup {x})
           /\ IsFiniteSet(S \ {x})
           /\ x \notin S => Cardinality(S \cup {x}) = Cardinality(S) + 1
           /\ x \in S => Cardinality(S \ {x}) = Cardinality(S) - 1
  BY FS_AddElement, FS_RemoveElement

\* A step that changes nothing keeps the invariant.
LEMMA StutterIInv == IInv /\ UNCHANGED vars => IInv'
  BY SMT DEF vars, hartVars, frameVars, IInv, TypeOK, MutualExclusion, OwnerInv, FrameInv,
     InterruptInv, FiniteHeld, DepthMatches, Holds, At, Pending, inTrap

\* Returning from a trap keeps the invariant: the handler holds nothing.
LEMMA TrapReturnIInv ==
    ASSUME TypeOK, MutualExclusion, OwnerInv, FrameInv, InterruptInv, FiniteHeld,
           DepthMatches, NEW h \in Hart, TrapReturn(h)
    PROVE  IInv'
  <1>1. TypeOK'
    BY DEF TypeOK, TrapReturn, inTrap, Frame, Bit, PC, GoTo, hartVars, frameVars
  <1>2. /\ inTrap(h) /\ pc[h] = "run" /\ held[h] = {} /\ sie'[h] = 1 /\ wanted'[h] = 1
        /\ pc'[h] = saved[h].pc /\ lk'[h] = saved[h].lk /\ prev'[h] = saved[h].prev
        /\ saved'[h].pc = "none"
        /\ \A g \in Hart \ {h} : /\ pc'[g] = pc[g] /\ lk'[g] = lk[g] /\ prev'[g] = prev[g]
                                  /\ sie'[g] = sie[g] /\ wanted'[g] = wanted[g]
                                  /\ saved'[g] = saved[g]
        /\ UNCHANGED <<locked, owner, dep, trap_enabled, held>>
    BY DEF TypeOK, TrapReturn, inTrap, GoTo, At, hartVars, frameVars
  <1>3. /\ dep[h] = 0 /\ saved[h].pc \in {"run", "pushoff"}
        /\ saved[h].pc = "pushoff" => saved[h].prev = 1
    BY <1>2, IdleDepth DEF InterruptInv
  <1>4. MutualExclusion' /\ OwnerInv'
    BY SMTT(30), <1>2, <1>3 DEF MutualExclusion, OwnerInv, Holds, At
  <1>5. FrameInv'
    BY SMTT(30), <1>2, <1>3 DEF FrameInv, At
  <1>6. InterruptInv'
    BY SMT, <1>2, <1>3 DEF InterruptInv, inTrap
  <1>7. FiniteHeld' /\ DepthMatches'
    BY <1>2, <1>3 DEF FiniteHeld, DepthMatches, Pending
  <1> QED
    BY <1>1, <1>4, <1>5, <1>6, <1>7 DEF IInv

\* Taking a trap keeps the invariant: the frame was outside sections.
LEMMA TrapEnterIInv ==
    ASSUME TypeOK, MutualExclusion, OwnerInv, FrameInv, InterruptInv, FiniteHeld,
           DepthMatches, NEW h \in Hart, TrapEnter(h)
    PROVE  IInv'
  <1>1. TypeOK'
    BY DEF TypeOK, TrapEnter, Frame, Bit, PC, GoTo, hartVars, frameVars
  <1>2. /\ sie[h] = 1 /\ pc[h] # "panic" /\ pc'[h] = "run" /\ sie'[h] = 0 /\ wanted'[h] = 0
        /\ pc[h] \in PC /\ dep[h] \in Nat
        /\ saved'[h].pc = pc[h] /\ saved'[h].prev = prev[h]
        /\ \A g \in Hart \ {h} : /\ pc'[g] = pc[g] /\ sie'[g] = sie[g]
                                  /\ wanted'[g] = wanted[g] /\ saved'[g] = saved[g]
        /\ UNCHANGED <<locked, owner, dep, trap_enabled, lk, prev, held>>
    BY DEF TypeOK, TrapEnter, GoTo, At, hartVars, frameVars
  <1>3. /\ dep[h] = 0 /\ held[h] = {} /\ pc[h] \in {"run", "pushoff"}
        /\ pc[h] = "pushoff" => prev[h] = 1
    <2>1. dep[h] = 0 /\ wanted[h] = 1
      BY SMT, <1>2 DEF InterruptInv
    <2>2. held[h] = {} /\ Pending(h) = 0
      BY <2>1, CountFacts
    <2>3. pc[h] \in {"run", "pushoff"}
      BY SMT, <1>2, <2>2 DEF FrameInv, Pending, PC, At
    <2>4. pc[h] = "pushoff" => prev[h] = 1
      BY SMTT(30), <2>1 DEF FrameInv, At
    <2> QED
      BY <2>1, <2>2, <2>3, <2>4
  <1>4. MutualExclusion' /\ OwnerInv'
    BY SMT, <1>2, <1>3 DEF MutualExclusion, OwnerInv, Holds, At
  <1>5. FrameInv'
    BY <1>2 DEF FrameInv, At
  <1>6. InterruptInv'
    BY SMT, <1>2, <1>3 DEF InterruptInv, inTrap
  <1>7. FiniteHeld' /\ DepthMatches'
    BY <1>2, <1>3 DEF FiniteHeld, DepthMatches, Pending
  <1> QED
    BY <1>1, <1>4, <1>5, <1>6, <1>7 DEF IInv

\* Recording the owner keeps the invariant: the pending section becomes held.
LEMMA SetOwnerIInv ==
    ASSUME TypeOK, MutualExclusion, OwnerInv, FrameInv, InterruptInv, FiniteHeld,
           DepthMatches, NEW h \in Hart, SetOwner(h)
    PROVE  IInv'
  <1>1. TypeOK'
    BY SMT DEF TypeOK, SetOwner, Frame, Bit, PC, GoTo, hartVars, frameVars
  <1>2. /\ pc[h] = "own" /\ pc'[h] = "run" /\ lk[h] \in Lock
        /\ owner'[lk[h]] = h /\ held'[h] = held[h] \cup {lk[h]}
        /\ \A k \in Lock \ {lk[h]} : owner'[k] = owner[k]
        /\ \A g \in Hart \ {h} : pc'[g] = pc[g] /\ held'[g] = held[g]
        /\ UNCHANGED <<locked, sie, dep, trap_enabled, lk, prev, saved, wanted>>
    BY DEF TypeOK, SetOwner, GoTo, At, hartVars, frameVars
  <1>3. /\ lk[h] \notin held[h] /\ Cardinality(held[h]) \in Nat
        /\ IsFiniteSet(held'[h]) /\ Cardinality(held'[h]) = Cardinality(held[h]) + 1
        /\ \A g \in Hart \ {h} : ~Holds(g, lk[h])
    <2>1. lk[h] \notin held[h] /\ IsFiniteSet(held[h])
      BY <1>2 DEF FrameInv, FiniteHeld
    <2>2. \A g \in Hart \ {h} : ~Holds(g, lk[h])
      BY <1>2 DEF MutualExclusion, Holds, At
    <2>3. /\ IsFiniteSet(held[h] \cup {lk[h]}) /\ Cardinality(held[h]) \in Nat
          /\ Cardinality(held[h] \cup {lk[h]}) = Cardinality(held[h]) + 1
      BY <2>1, CardinalityFacts, FS_CardinalityType
    <2> QED
      BY <1>2, <2>1, <2>2, <2>3
  <1>4. MutualExclusion' /\ OwnerInv'
    BY SMT, <1>2, <1>3 DEF MutualExclusion, OwnerInv, Holds, At
  <1>5. FrameInv'
    BY <1>2, <1>3 DEF FrameInv, At
  <1>6. InterruptInv'
    BY <1>2 DEF InterruptInv, inTrap
  <1>7. FiniteHeld'
    BY <1>2, <1>3 DEF FiniteHeld
  <1>8. DepthMatches'
    <2>1. dep'[h] = Cardinality(held'[h]) + Pending(h)'
      BY SMT, <1>2, <1>3 DEF DepthMatches, Pending
    <2>2. \A g \in Hart \ {h} : dep'[g] = Cardinality(held'[g]) + Pending(g)'
      BY <1>2 DEF DepthMatches, Pending
    <2> QED
      BY <2>1, <2>2 DEF DepthMatches
  <1> QED
    BY <1>1, <1>4, <1>5, <1>6, <1>7, <1>8 DEF IInv

\* Clearing lk->locked keeps the invariant: the section becomes pending.
LEMMA UnlockIInv ==
    ASSUME TypeOK, MutualExclusion, OwnerInv, FrameInv, InterruptInv, FiniteHeld,
           DepthMatches, NEW h \in Hart, Unlock(h)
    PROVE  IInv'
  <1>1. TypeOK'
    BY DEF TypeOK, Unlock, Frame, Bit, PC, GoTo, hartVars, frameVars
  <1>2. /\ pc[h] = "unlock" /\ pc'[h] = "popoff" /\ lk[h] \in Lock
        /\ locked'[lk[h]] = 0 /\ held'[h] = held[h] \ {lk[h]}
        /\ \A k \in Lock \ {lk[h]} : locked'[k] = locked[k]
        /\ \A g \in Hart \ {h} : pc'[g] = pc[g] /\ held'[g] = held[g]
        /\ UNCHANGED <<owner, sie, dep, trap_enabled, lk, prev, saved, wanted>>
    BY DEF TypeOK, Unlock, GoTo, At, hartVars, frameVars
  <1>3. /\ Cardinality(held[h]) \in Nat
        /\ IsFiniteSet(held'[h]) /\ Cardinality(held'[h]) = Cardinality(held[h]) - 1
        /\ \A g \in Hart \ {h} : ~Holds(g, lk[h])
    <2>1. lk[h] \in held[h] /\ IsFiniteSet(held[h])
      BY <1>2 DEF FrameInv, FiniteHeld, At
    <2>2. \A g \in Hart \ {h} : ~Holds(g, lk[h])
      BY <1>2, <2>1 DEF MutualExclusion, Holds
    <2>3. /\ IsFiniteSet(held[h] \ {lk[h]}) /\ Cardinality(held[h]) \in Nat
          /\ Cardinality(held[h] \ {lk[h]}) = Cardinality(held[h]) - 1
      BY <2>1, CardinalityFacts, FS_CardinalityType
    <2> QED
      BY <1>2, <2>1, <2>2, <2>3
  <1>4. MutualExclusion' /\ OwnerInv'
    BY SMT, <1>2, <1>3 DEF MutualExclusion, OwnerInv, Holds, At
  <1>5. FrameInv'
    BY <1>2, <1>3 DEF FrameInv, At
  <1>6. InterruptInv'
    BY <1>2 DEF InterruptInv, inTrap
  <1>7. FiniteHeld'
    BY <1>2, <1>3 DEF FiniteHeld
  <1>8. DepthMatches'
    <2>1. dep'[h] = Cardinality(held'[h]) + Pending(h)'
      BY SMT, <1>2, <1>3 DEF DepthMatches, Pending
    <2>2. \A g \in Hart \ {h} : dep'[g] = Cardinality(held'[g]) + Pending(g)'
      BY <1>2 DEF DepthMatches, Pending
    <2> QED
      BY <2>1, <2>2 DEF DepthMatches
  <1> QED
    BY <1>1, <1>4, <1>5, <1>6, <1>7, <1>8 DEF IInv

\* popoff_hart keeps the invariant: interrupts come back at depth 0 only.
LEMMA PopOffIInv ==
    ASSUME TypeOK, MutualExclusion, OwnerInv, FrameInv, InterruptInv, FiniteHeld,
           DepthMatches, NEW h \in Hart, PopOff(h)
    PROVE  IInv'
  <1>1. TypeOK'
    BY SMT DEF TypeOK, PopOff, Frame, Bit, PC, GoTo, hartVars, frameVars
  <1>2. /\ pc[h] = "popoff" /\ dep[h] \in Nat /\ sie[h] \in Bit /\ trap_enabled[h] \in Bit
        /\ sie[h] = 0 /\ dep[h] >= 1 => /\ pc'[h] = "run" /\ dep'[h] = dep[h] - 1
        /\ sie'[h] = IF dep[h] = 1 /\ trap_enabled[h] = 1 THEN 1 ELSE sie[h]
        /\ \A g \in Hart \ {h} : pc'[g] = pc[g] /\ sie'[g] = sie[g] /\ dep'[g] = dep[g]
        /\ UNCHANGED <<locked, owner, trap_enabled, lk, prev, saved, held, wanted>>
    BY DEF TypeOK, PopOff, GoTo, At, hartVars, frameVars
  <1>3. /\ Cardinality(held[h]) \in Nat /\ dep[h] = Cardinality(held[h]) + 1
        /\ sie[h] = 0 /\ trap_enabled[h] = wanted[h]
        /\ pc'[h] = "run" /\ dep'[h] = dep[h] - 1
    <2>1. Cardinality(held[h]) \in Nat /\ dep[h] = Cardinality(held[h]) + 1
      BY <1>2, CountFacts DEF DepthMatches, Pending
    <2>2. sie[h] = 0 /\ trap_enabled[h] = wanted[h]
      BY SMTT(30), <2>1 DEF InterruptInv
    <2> QED
      BY SMT, <1>2, <2>1, <2>2
  <1>4. MutualExclusion' /\ OwnerInv'
    BY SMT, <1>2, <1>3 DEF MutualExclusion, OwnerInv, Holds, At
  <1>5. FrameInv'
    BY <1>2, <1>3 DEF FrameInv, At
  <1>6. InterruptInv'
    BY SMT, <1>2, <1>3 DEF InterruptInv, inTrap, Bit
  <1>7. FiniteHeld' /\ DepthMatches'
    BY SMT, <1>2, <1>3 DEF FiniteHeld, DepthMatches, Pending
  <1> QED
    BY <1>1, <1>4, <1>5, <1>6, <1>7 DEF IInv

\* pushoff_hart keeps the invariant: it saves the bit at depth 0 only.
LEMMA PushOffIInv ==
    ASSUME TypeOK, MutualExclusion, OwnerInv, FrameInv, InterruptInv, FiniteHeld,
           DepthMatches, NEW h \in Hart, PushOff(h)
    PROVE  IInv'
  <1>1. TypeOK'
    BY SMT DEF TypeOK, PushOff, Frame, Bit, PC, GoTo, hartVars, frameVars
  <1>2. /\ pc[h] = "pushoff" /\ pc'[h] = "check" /\ sie'[h] = 0 /\ dep'[h] = dep[h] + 1
        /\ trap_enabled'[h] = IF dep[h] = 0 THEN prev[h] ELSE trap_enabled[h]
        /\ dep[h] \in Nat
        /\ \A g \in Hart \ {h} : /\ pc'[g] = pc[g] /\ sie'[g] = sie[g] /\ dep'[g] = dep[g]
                                  /\ trap_enabled'[g] = trap_enabled[g]
        /\ UNCHANGED <<locked, owner, lk, prev, saved, held, wanted>>
    BY DEF TypeOK, PushOff, GoTo, At, hartVars, frameVars
  <1>3. /\ Cardinality(held[h]) \in Nat
        /\ dep[h] = 0 => prev[h] = wanted[h]
        /\ dep[h] > 0 => trap_enabled[h] = wanted[h]
    BY SMTT(30), <1>2, CountFacts DEF FrameInv, InterruptInv, At
  <1>4. MutualExclusion' /\ OwnerInv'
    BY SMT, <1>2 DEF MutualExclusion, OwnerInv, Holds, At
  <1>5. FrameInv'
    BY <1>2 DEF FrameInv, At
  <1>6. InterruptInv'
    BY SMT, <1>2, <1>3 DEF InterruptInv, inTrap
  <1>7. FiniteHeld' /\ DepthMatches'
    BY SMT, <1>2, <1>3 DEF FiniteHeld, DepthMatches, Pending
  <1> QED
    BY <1>1, <1>4, <1>5, <1>6, <1>7 DEF IInv

\* The first half of spinlock_release keeps the invariant: no panic.
LEMMA ReleaseIInv ==
    ASSUME TypeOK, MutualExclusion, OwnerInv, FrameInv, InterruptInv, FiniteHeld,
           DepthMatches, NEW h \in Hart, NEW l \in Lock, Release(h, l)
    PROVE  IInv'
  <1>1. TypeOK'
    BY DEF TypeOK, Release, Frame, Bit, PC, GoTo, hartVars, frameVars
  <1>2. /\ pc[h] = "run" /\ l \in held[h] /\ lk'[h] = l
        /\ pc'[h] = IF is_holding_spinlock(h, l) THEN "unlock" ELSE "panic"
        /\ is_holding_spinlock(h, l) => owner'[l] = NoHart
        /\ \A k \in Lock \ {l} : owner'[k] = owner[k]
        /\ \A g \in Hart \ {h} : pc'[g] = pc[g] /\ lk'[g] = lk[g]
        /\ UNCHANGED <<locked, sie, dep, trap_enabled, prev, saved, held, wanted>>
    BY DEF TypeOK, Release, GoTo, At, hartVars, frameVars
  <1>3. /\ pc'[h] = "unlock" /\ owner'[l] = NoHart
        /\ \A g \in Hart \ {h} : ~Holds(g, l)
    <2>1. is_holding_spinlock(h, l)
      BY SMT, <1>2 DEF OwnerInv, Holds, At, is_holding_spinlock
    <2>2. \A g \in Hart \ {h} : ~Holds(g, l)
      BY <1>2 DEF MutualExclusion, Holds
    <2> QED
      BY <1>2, <2>1, <2>2
  <1>4. MutualExclusion' /\ OwnerInv'
    BY SMT, <1>2, <1>3, HartAssumption DEF MutualExclusion, OwnerInv, Holds, At
  <1>5. FrameInv'
    BY <1>2, <1>3 DEF FrameInv, At
  <1>6. InterruptInv'
    BY <1>2 DEF InterruptInv, inTrap
  <1>7. FiniteHeld' /\ DepthMatches'
    BY <1>2, <1>3 DEF FiniteHeld, DepthMatches, Pending
  <1> QED
    BY <1>1, <1>4, <1>5, <1>6, <1>7 DEF IInv

\* Calling spinlock_acquire keeps the invariant: the lock is not held yet.
LEMMA AcquireIInv ==
    ASSUME TypeOK, MutualExclusion, OwnerInv, FrameInv, InterruptInv, FiniteHeld,
           DepthMatches, NEW h \in Hart, NEW l \in Lock, Acquire(h, l)
    PROVE  IInv'
  <1>1. TypeOK'
    BY DEF TypeOK, Acquire, Frame, Bit, PC, GoTo, hartVars, frameVars
  <1>2. /\ pc[h] = "run" /\ pc'[h] = "pushoff" /\ lk'[h] = l /\ prev'[h] = sie[h]
        /\ \A g \in Hart \ {h} : pc'[g] = pc[g] /\ lk'[g] = lk[g] /\ prev'[g] = prev[g]
        /\ UNCHANGED <<locked, owner, sie, dep, trap_enabled, saved, held, wanted>>
    BY DEF TypeOK, Acquire, GoTo, At, hartVars, frameVars
  <1>3. l \notin held[h] /\ dep[h] \in Nat /\ (dep[h] = 0 => sie[h] = wanted[h])
    BY SMTT(30), LockAssumption DEF TypeOK, Acquire, InterruptInv
  <1>4. MutualExclusion' /\ OwnerInv'
    BY SMTT(30), <1>2 DEF MutualExclusion, OwnerInv, Holds, At
  <1>5. FrameInv'
    BY SMT, <1>2, <1>3 DEF FrameInv, At
  <1>6. InterruptInv'
    BY <1>2 DEF InterruptInv, inTrap
  <1>7. FiniteHeld' /\ DepthMatches'
    BY <1>2 DEF FiniteHeld, DepthMatches, Pending
  <1> QED
    BY <1>1, <1>4, <1>5, <1>6, <1>7 DEF IInv

\* Setting the interrupt bit outside sections keeps the invariant.
LEMMA SetInterruptIInv ==
    ASSUME TypeOK, MutualExclusion, OwnerInv, FrameInv, InterruptInv, FiniteHeld,
           DepthMatches, NEW h \in Hart, NEW on \in Bit, SetInterrupt(h, on)
    PROVE  IInv'
  <1>1. TypeOK'
    BY DEF TypeOK, SetInterrupt, Frame, Bit, PC, GoTo, hartVars, frameVars
  <1>2. /\ pc[h] = "run" /\ held[h] = {} /\ ~inTrap(h) /\ sie'[h] = on /\ wanted'[h] = on
        /\ \A g \in Hart \ {h} : sie'[g] = sie[g] /\ wanted'[g] = wanted[g]
        /\ UNCHANGED <<locked, owner, dep, trap_enabled, pc, lk, prev, saved, held>>
    BY DEF TypeOK, SetInterrupt, GoTo, At, hartVars, frameVars
  <1>3. dep[h] = 0
    BY <1>2, IdleDepth
  <1>4. MutualExclusion' /\ OwnerInv'
    BY SMT, <1>2 DEF MutualExclusion, OwnerInv, Holds, At
  <1>5. FrameInv'
    BY <1>2 DEF FrameInv, At
  <1>6. InterruptInv'
    BY SMT, <1>2, <1>3 DEF InterruptInv, inTrap
  <1>7. FiniteHeld' /\ DepthMatches'
    BY <1>2 DEF FiniteHeld, DepthMatches, Pending
  <1> QED
    BY <1>1, <1>4, <1>5, <1>6, <1>7 DEF IInv

\* The holder test keeps the invariant: it does not find the lock held.
LEMMA CheckHeldIInv ==
    ASSUME TypeOK, MutualExclusion, OwnerInv, FrameInv, InterruptInv, FiniteHeld,
           DepthMatches, NEW h \in Hart, CheckHeld(h)
    PROVE  IInv'
  <1>1. TypeOK'
    BY DEF TypeOK, CheckHeld, Frame, Bit, PC, GoTo, hartVars, frameVars
  <1>2. /\ pc[h] = "check"
        /\ pc'[h] = IF is_holding_spinlock(h, lk[h]) THEN "panic" ELSE "tas"
        /\ \A g \in Hart \ {h} : pc'[g] = pc[g]
        /\ lk[h] \in Lock
        /\ UNCHANGED <<locked, owner, sie, dep, trap_enabled, lk, prev, saved, held, wanted>>
    BY DEF TypeOK, CheckHeld, GoTo, At, hartVars, frameVars
  <1>3. pc'[h] = "tas"
    BY <1>2 DEF FrameInv, OwnerInv, is_holding_spinlock
  <1>4. MutualExclusion' /\ OwnerInv'
    BY SMT, <1>2, <1>3 DEF MutualExclusion, OwnerInv, Holds, At
  <1>5. FrameInv'
    BY <1>2, <1>3 DEF FrameInv, At
  <1>6. InterruptInv'
    BY <1>2 DEF InterruptInv, inTrap
  <1>7. FiniteHeld' /\ DepthMatches'
    BY <1>2, <1>3 DEF FiniteHeld, DepthMatches, Pending
  <1> QED
    BY <1>1, <1>4, <1>5, <1>6, <1>7 DEF IInv

\* Winning the test-and-set keeps the invariant: nobody held the lock.
LEMMA TestAndSetIInv ==
    ASSUME TypeOK, MutualExclusion, OwnerInv, FrameInv, InterruptInv, FiniteHeld,
           DepthMatches, NEW h \in Hart, TestAndSet(h)
    PROVE  IInv'
  <1>1. TypeOK'
    BY DEF TypeOK, TestAndSet, Frame, Bit, PC, GoTo, hartVars, frameVars
  <1>2. /\ pc[h] = "tas" /\ pc'[h] = "own" /\ lk[h] \in Lock
        /\ locked[lk[h]] = 0 /\ locked'[lk[h]] = 1
        /\ \A k \in Lock \ {lk[h]} : locked'[k] = locked[k]
        /\ \A g \in Hart \ {h} : pc'[g] = pc[g]
        /\ UNCHANGED <<owner, sie, dep, trap_enabled, lk, prev, saved, held, wanted>>
    BY DEF TypeOK, TestAndSet, GoTo, At, hartVars, frameVars
  <1>3. \A g \in Hart : ~Holds(g, lk[h])
    BY SMT, <1>2 DEF OwnerInv
  <1>4. MutualExclusion' /\ OwnerInv'
    BY SMT, <1>2, <1>3 DEF MutualExclusion, OwnerInv, Holds, At
  <1>5. FrameInv'
    BY <1>2 DEF FrameInv, At
  <1>6. InterruptInv'
    BY <1>2 DEF InterruptInv, inTrap
  <1>7. FiniteHeld' /\ DepthMatches'
    BY <1>2 DEF FiniteHeld, DepthMatches, Pending
  <1> QED
    BY <1>1, <1>4, <1>5, <1>6, <1>7 DEF IInv

\* The initial state satisfies the inductive invariant.
LEMMA InitIInv == Init => IInv
  <1> SUFFICES ASSUME Init PROVE IInv
    OBVIOUS
  <1>1. TypeOK
    BY SMT DEF Init, TypeOK, Frame, PC, Bit
  <1>2. \A h \in Hart : /\ held[h] = {} /\ pc[h] = "run" /\ ~inTrap(h)
                        /\ dep[h] = 0 /\ sie[h] = 0 /\ wanted[h] = 0
    BY SMT DEF Init, inTrap
  <1>3. MutualExclusion
    BY <1>2 DEF MutualExclusion, Holds, At
  <1>4. OwnerInv
    BY <1>2, HartAssumption DEF Init, OwnerInv, Holds, At
  <1>5. FrameInv
    BY <1>2 DEF FrameInv, At
  <1>6. InterruptInv
    BY SMT, <1>2 DEF InterruptInv
  <1>7. FiniteHeld /\ DepthMatches
    BY SMT, FS_EmptySet DEF Init, FiniteHeld, DepthMatches, Pending
  <1> QED
    BY <1>1, <1>3, <1>4, <1>5, <1>6, <1>7 DEF IInv

\* The inductive invariant holds of every reachable state: the fields of a
\* lock, the frames inside spinlock_acquire and spinlock_release and the
\* interrupt counter of each hart stay consistent under every interleaving.
THEOREM Invariance == Spec => []IInv
  <1>1. IInv /\ [Next]_vars => IInv'
    <2> SUFFICES ASSUME TypeOK, MutualExclusion, OwnerInv, FrameInv, InterruptInv,
                        FiniteHeld, DepthMatches, [Next]_vars
                 PROVE  IInv'
      BY DEF IInv
    <2>1. ASSUME NEW h \in Hart, NEW l \in Lock, Acquire(h, l) PROVE IInv'
      BY <2>1, AcquireIInv
    <2>2. ASSUME NEW h \in Hart, NEW l \in Lock, Release(h, l) PROVE IInv'
      BY <2>2, ReleaseIInv
    <2>3. ASSUME NEW h \in Hart, Inside(h) PROVE IInv'
      BY <2>3, PushOffIInv, CheckHeldIInv, TestAndSetIInv, SetOwnerIInv,
         UnlockIInv, PopOffIInv DEF Inside
    <2>4. ASSUME NEW h \in Hart, NEW on \in Bit, SetInterrupt(h, on) PROVE IInv'
      BY <2>4, SetInterruptIInv
    <2>5. ASSUME NEW h \in Hart, TrapEnter(h) \/ TrapReturn(h) PROVE IInv'
      BY <2>5, TrapEnterIInv, TrapReturnIInv
    <2>6. CASE UNCHANGED vars
      BY <2>6, StutterIInv DEF IInv
    <2> QED
      BY <2>1, <2>2, <2>3, <2>4, <2>5, <2>6 DEF Next
  <1> QED
    BY InitIInv, <1>1, PTL DEF Spec

\* At most one hart is inside a section of a lock, however acquisitions,
\* releases and traps of any number of harts interleave (spinlock.c:14-38).
THEOREM LockMutualExclusion == Spec => []MutualExclusion
  BY Invariance, PTL DEF IInv

\* A hart inside a section takes no interrupt: pushoff_hart and popoff_hart
\* (asm/hart.c:22-43) keep sie clear for as long as any lock is held.
THEOREM LockHolderNotInterrupted == Spec => []HolderNotInterrupted
  <1>1. IInv => HolderNotInterrupted
    <2> SUFFICES ASSUME IInv, NEW h \in Hart, NEW l \in Lock, Holds(h, l)
                 PROVE  sie[h] = 0
      BY DEF HolderNotInterrupted
    <2>1. held[h] # {} \/ Pending(h) = 1
      BY DEF Holds, At, Pending
    <2>2. dep[h] > 0
      BY <2>1, CountFacts DEF IInv
    <2> QED
      BY <2>2 DEF IInv, InterruptInv
  <1> QED
    BY <1>1, Invariance, PTL

\* None of the panics of spinlock.c and hart.c is reached by code that
\* releases what it acquired and nests locks in one order.
THEOREM LockNoPanic == Spec => []NoPanic
  <1>1. IInv => NoPanic
    BY DEF IInv, FrameInv, NoPanic
  <1> QED
    BY <1>1, Invariance, PTL

\* Outside every section the interrupt bit is the one the code asked for,
\* whatever the order in which nested locks were released.
THEOREM LockInterruptsRestored == Spec => []InterruptsRestored
  <1>1. IInv => InterruptsRestored
    <2> SUFFICES ASSUME IInv, NEW h \in Hart, At(h, "run"), held[h] = {}
                 PROVE  sie[h] = wanted[h]
      BY DEF InterruptsRestored
    <2>1. dep[h] = 0
      BY SMT, FS_EmptySet DEF IInv, DepthMatches, Pending, At
    <2> QED
      BY <2>1 DEF IInv, InterruptInv
  <1> QED
    BY <1>1, Invariance, PTL
=============================================================================
