----------------------------- MODULE BootProofs -----------------------------
(***************************************************************************)
(* The order of the boot for any number of harts, provided that a started  *)
(* hart arrives after device_init (SlowStart).  BootInv is inductive.      *)
(***************************************************************************)
EXTENDS Boot, FiniteSetTheorems, TLAPS

\* The harts are as many as NHart says.
LEMMA HartCount == IsFiniteSet(Hart) /\ Cardinality(Hart) = NHart
  <1>1. NHart \in Nat /\ NHart > 0
    BY HartsAssumption
  <1>2. 0 \in Int /\ NHart - 1 \in Int /\ ~(0 > NHart - 1)
    BY <1>1
  <1>3. IsFiniteSet(0..(NHart - 1)) /\ Cardinality(0..(NHart - 1)) = (NHart - 1) - 0 + 1
    BY <1>2, FS_Interval
  <1> QED
    BY <1>1, <1>3 DEF Hart

\* A set of harts has at most NHart members, and NHart only if it has them all.
LEMMA SomeHarts ==
    ASSUME NEW S \in SUBSET Hart
    PROVE  /\ IsFiniteSet(S) /\ Cardinality(S) \in 0..NHart
           /\ Cardinality(S) = NHart => S = Hart
  <1>1. /\ IsFiniteSet(S) /\ Cardinality(S) <= NHart
        /\ Cardinality(S) = NHart => S = Hart
    BY HartCount, FS_Subset
  <1>2. Cardinality(S) \in Nat
    BY <1>1, FS_CardinalityType
  <1> QED
    BY <1>1, <1>2, HartsAssumption

\* A hart that is counted is one more.
LEMMA OneMore ==
    ASSUME NEW S \in SUBSET Hart, NEW h \in Hart, h \notin S
    PROVE  Cardinality(S \cup {h}) = Cardinality(S) + 1
  BY SomeHarts, FS_AddElement

LEMMA InitBootInv == Init => BootInv
  <1> SUFFICES ASSUME Init PROVE BootInv
    OBVIOUS
  <1>1. at \in [Hart -> Labels]
    BY DEF Init, Labels
  <1>3. 0 \in 0..NHart /\ 0 \in 0..(NHart * MaxInits) /\ 0 \in 0..MaxCpu /\ 0 \in 0..MaxInits
    BY HartsAssumption DEF MaxInits
  <1>4. TypeOK
    BY <1>1, <1>3, ZenonT(30) DEF Init, TypeOK
  <1>2. BeforeInit
    BY ZenonT(30) DEF Init, BeforeInit
  <1> QED
    BY <1>2, <1>4 DEF Init, BootInv

\* Before the initialisation only one hart moves, up to the gate and through it.
LEMMA BeforeStep ==
    ASSUME TypeOK, inits = 0, BeforeInit, NEW h \in Hart
    PROVE  /\ Entry(h) \/ Gate(h) => TypeOK' /\ inits' = 0 /\ BeforeInit'
           /\ Initialise(h) => TypeOK' /\ inits' = 1 /\ AfterInit'
           /\ ~(\/ StartHart(h) \/ StartEnd(h) \/ DeviceInit(h) \/ CountUp(h)
                \/ CountRelease(h) \/ Wait(h) \/ RemoveIdmap(h) \/ Publish(h) \/ Spin(h))
  <1>1. ASSUME Entry(h) PROVE TypeOK' /\ inits' = 0 /\ BeforeInit'
    BY <1>1, ZenonT(30) DEF Entry, Goto, TypeOK, Labels, BeforeInit
  <1>2. ASSUME Gate(h) PROVE TypeOK' /\ inits' = 0 /\ BeforeInit'
    BY <1>2 DEF Gate, FirstHart, Goto, TypeOK, Labels, BeforeInit
  <1>3. ASSUME Initialise(h) PROVE TypeOK' /\ inits' = 1 /\ AfterInit'
    <2>1. /\ at[h] = "init" /\ at' = [at EXCEPT ![h] = "start"] /\ lock' = NoHart
          /\ boot_hart' = h /\ expected' = NHart /\ enabled' = Hart /\ next' = 0
          /\ inits' = 1 /\ mmu' /\ idmap' /\ count' = 0 /\ ~removed'
          /\ mmu' = mmu /\ idmap' = idmap /\ removed' = removed
      BY <1>3, HartCount, HartsAssumption DEF Initialise, Goto, Present, BeforeInit, TypeOK
    <2>2. \A g \in Hart \ {h} : at'[g] = "stopped"
      BY <2>1 DEF TypeOK, BeforeInit
    <2>3. at'[h] = "start"
      BY <2>1 DEF TypeOK
    <2>4. Counted' = {}
      BY <2>2, <2>3 DEF Counted
    <2>5. NoHart \notin Hart
      BY HartsAssumption DEF Hart, NoHart
    <2>6. TypeOK'
      BY <2>1, HartsAssumption DEF TypeOK, Labels, MaxInits
    <2>7. AfterInit'
      BY <2>1, <2>2, <2>3, <2>4, <2>5, FS_EmptySet DEF AfterInit
    <2> QED
      BY <2>1, <2>6, <2>7
  <1>4. at[h] \in {"stopped", "entry", "gate", "init"}
    BY DEF TypeOK, BeforeInit
  <1>5. ~(\/ StartHart(h) \/ StartEnd(h) \/ DeviceInit(h) \/ CountUp(h)
          \/ CountRelease(h) \/ Wait(h) \/ RemoveIdmap(h) \/ Publish(h) \/ Spin(h))
    BY <1>4, SMTT(30) DEF StartHart, StartEnd, DeviceInit, CountUp, CountRelease, Wait,
                RemoveIdmap, Publish, Spin, Goto
  <1> QED
    BY <1>1, <1>2, <1>3, <1>5

\* A hart not counted yet keeps the others at the wait and the mapping in place.
LEMMA Waiting ==
    ASSUME TypeOK, AfterInit, NEW h \in Hart, h \notin Counted
    PROVE  /\ idmap /\ ~removed /\ count < NHart
           /\ \A g \in Hart : at[g] \notin {"idmap", "publish", "spin", "running"}
  <1>1. Counted \in SUBSET Hart
    BY DEF Counted
  <1>2. count \in 0..NHart /\ count # NHart
    BY <1>1, SomeHarts, SMTT(30) DEF AfterInit
  <1>3. \A g \in Hart : at[g] \notin {"idmap", "publish", "spin", "running"}
    BY <1>2, SMTT(30) DEF AfterInit
  <1> QED
    BY <1>2, <1>3, HartsAssumption, SMTT(30) DEF AfterInit, TypeOK

\* A hart that moves on before it is counted.
LEMMA Uncounted ==
    ASSUME TypeOK, AfterInit, NEW h \in Hart, h \notin Counted,
           NEW l \in {"entry", "gate", "count", "devices"},
           at' = [at EXCEPT ![h] = l],
           h = boot_hart => l \in {"count", "devices"},
           l = "devices" => h = boot_hart,
           UNCHANGED <<mmu, count, lock, expected, enabled, boot_hart, idmap, removed, inits>>
    PROVE  AfterInit'
  <1>1. /\ idmap /\ ~removed
        /\ \A g \in Hart : at[g] \notin {"idmap", "publish", "spin", "running"}
    BY Waiting
  <1>2. at'[h] = l /\ \A g \in Hart \ {h} : at'[g] = at[g]
    BY DEF TypeOK
  <1>3. Counted' = Counted
    BY <1>2 DEF Counted
  <1>4. at[h] # "counted"
    BY DEF Counted
  <1> QED
    BY <1>1, <1>2, <1>3, <1>4, SMTT(30) DEF AfterInit

\* The steps of a hart on its way to the count.
LEMMA EarlyStep ==
    ASSUME SlowStart, TypeOK, AfterInit, NEW h \in Hart,
           Entry(h) \/ Gate(h) \/ StartHart(h) \/ StartEnd(h) \/ DeviceInit(h)
    PROVE  TypeOK' /\ AfterInit'
  <1>1. TypeOK'
    <2>1. CASE StartHart(h)
      BY <2>1, HartsAssumption DEF StartHart, TypeOK, Labels
    <2> QED
      BY <2>1, ZenonT(30) DEF Entry, Gate, StartEnd, DeviceInit, Goto, TypeOK, Labels
  <1>2. CASE Entry(h)
    <2>1. /\ at[h] = "entry" /\ at' = [at EXCEPT ![h] = "gate"]
          /\ mmu' = TRUE /\ idmap' = (idmap \/ ~mmu)
          /\ UNCHANGED <<count, lock, expected, enabled, boot_hart, removed, inits>>
      BY <1>2, SMTT(30) DEF Entry, Goto
    <2>2. h \notin Counted /\ h # boot_hart
      BY <2>1, SMTT(30) DEF Counted, AfterInit
    <2>3. idmap = TRUE /\ mmu = TRUE
      BY <2>2, Waiting DEF AfterInit, TypeOK
    <2>4. UNCHANGED <<mmu, count, lock, expected, enabled, boot_hart, idmap, removed, inits>>
      BY <2>1, <2>3, ZenonT(30)
    <2> QED
      BY <1>1, <2>1, <2>2, <2>4, Uncounted, ZenonT(30)
  <1>3. CASE Gate(h)
    <2>1. /\ at[h] = "gate" /\ count # 0
          /\ at' = [at EXCEPT ![h] = IF count = 0 THEN "init" ELSE "count"]
          /\ UNCHANGED <<mmu, count, lock, expected, enabled, boot_hart, idmap, removed, inits>>
      BY <1>3, SMTT(30) DEF Gate, FirstHart, Goto, AfterInit, TypeOK
    <2>2. h \notin Counted /\ h # boot_hart
      BY <2>1 DEF Counted, AfterInit
    <2> QED
      BY <1>1, <2>1, <2>2, Uncounted, ZenonT(30)
  <1>4. CASE StartHart(h)
    <2>1. CASE at[next] = "stopped"
      <3>1. next \in Hart /\ next \notin Counted /\ next # boot_hart
        BY <1>4, <2>1, SMTT(30) DEF StartHart, Counted, AfterInit
      <3> QED
        BY <1>1, <1>4, <2>1, <3>1, Uncounted, ZenonT(30) DEF StartHart
    <2>2. CASE at[next] # "stopped"
      <3>1. UNCHANGED <<at, mmu, count, lock, expected, enabled, boot_hart, idmap, removed, inits>>
        BY <1>4, <2>2, SMTT(30) DEF StartHart
      <3> QED
        BY <1>1, <3>1, SMTT(30) DEF AfterInit, Counted
    <2> QED
      BY <2>1, <2>2
  <1>5. CASE StartEnd(h)
    BY <1>1, <1>5, Uncounted, ZenonT(30) DEF StartEnd, Goto, AfterInit, Counted
  <1>6. CASE DeviceInit(h)
    BY <1>1, <1>6, Uncounted, ZenonT(30) DEF DeviceInit, Goto, AfterInit, Counted
  <1> QED
    BY <1>2, <1>3, <1>4, <1>5, <1>6, SMTT(30)

\* started_hart_count++ under its lock counts one hart more.
LEMMA CountUpStep ==
    ASSUME TypeOK, AfterInit, NEW h \in Hart, CountUp(h)
    PROVE  TypeOK' /\ AfterInit'
  <1>1. h \notin Counted
    BY DEF CountUp, Goto, Counted
  <1>2. /\ idmap /\ ~removed /\ count < NHart
        /\ \A g \in Hart : at[g] \notin {"idmap", "publish", "spin", "running"}
    BY <1>1, Waiting, SMTT(30)
  <1>3. at'[h] = "counted" /\ \A g \in Hart \ {h} : at'[g] = at[g]
    BY DEF CountUp, Goto, TypeOK
  <1>4. Counted' = Counted \cup {h}
    BY <1>3 DEF Counted
  <1>5. Counted \in SUBSET Hart
    BY SMTT(30) DEF Counted
  <1>6. count' = Cardinality(Counted')
    BY <1>1, <1>4, <1>5, OneMore, SMTT(30) DEF CountUp, AfterInit
  <1>7. \A g \in Hart : lock' = g <=> at'[g] = "counted"
    BY <1>3, HartsAssumption, SMTT(30) DEF CountUp, AfterInit, NoHart, Hart
  <1>8. TypeOK'
    BY <1>2, HartsAssumption, SMTT(30) DEF CountUp, Goto, TypeOK, Labels
  <1>9. AfterInit'
    BY <1>2, <1>3, <1>6, <1>7, SMTT(30) DEF CountUp, Goto, AfterInit
  <1> QED
    BY <1>8, <1>9, SMTT(30)

\* The steps behind the count.
LEMMA LateStep ==
    ASSUME TypeOK, AfterInit, NEW h \in Hart,
           CountRelease(h) \/ Wait(h) \/ RemoveIdmap(h) \/ Publish(h) \/ Spin(h)
    PROVE  TypeOK' /\ AfterInit'
  <1>1. TypeOK'
    BY ZenonT(30) DEF CountRelease, Wait, RemoveIdmap, Publish, Spin, Goto, TypeOK, Labels
  <1>2. PICK l \in {"wait", "idmap", "publish", "spin", "running"} :
            at' = [at EXCEPT ![h] = l]
    BY DEF CountRelease, Wait, RemoveIdmap, Publish, Spin, Goto
  <1>3. at'[h] = l /\ \A g \in Hart \ {h} : at'[g] = at[g]
    BY <1>2, SMTT(30) DEF TypeOK
  <1>4. h \in Counted
    BY SMTT(30) DEF CountRelease, Wait, RemoveIdmap, Publish, Spin, Goto, Counted
  <1>5. Counted' = Counted
    BY <1>3, <1>4, SMTT(30) DEF Counted
  <1>6. CASE CountRelease(h)
    BY <1>1, <1>3, <1>5, <1>6, HartsAssumption, SMTT(30) DEF CountRelease, Goto, AfterInit, NoHart, Hart
  <1>7. CASE Wait(h)
    BY <1>1, <1>3, <1>5, <1>7, SMTT(30) DEF Wait, Goto, AfterInit, TypeOK
  <1>8. CASE RemoveIdmap(h)
    BY <1>1, <1>3, <1>5, <1>8, SMTT(30) DEF RemoveIdmap, Goto, AfterInit, TypeOK
  <1>9. CASE Publish(h)
    BY <1>1, <1>3, <1>5, <1>9, SMTT(30) DEF Publish, Goto, AfterInit, TypeOK
  <1>10. CASE Spin(h)
    BY <1>1, <1>3, <1>5, <1>10, SMTT(30) DEF Spin, Goto, AfterInit, TypeOK
  <1> QED
    BY <1>6, <1>7, <1>8, <1>9, <1>10, SMTT(30)

\* Every step keeps the inductive invariant.
LEMMA StepBootInv ==
    ASSUME SlowStart, BootInv, [Next]_vars
    PROVE  BootInv'
  <1>1. CASE UNCHANGED vars
    BY <1>1, SMTT(30) DEF vars, BootInv, TypeOK, BeforeInit, AfterInit, Counted
  <1>2. ASSUME NEW h \in Hart, Step(h) PROVE BootInv'
    <2>1. CASE inits = 0
      BY <1>2, <2>1, BeforeStep, SMTT(30) DEF Step, BootInv
    <2>2. CASE inits # 0
      <3>1. TypeOK /\ AfterInit
        BY <2>2 DEF BootInv
      <3>2. ~Initialise(h)
        BY <3>1, ZenonT(30) DEF Initialise, Goto, AfterInit
      <3>3. TypeOK' /\ AfterInit'
        BY <1>2, <3>1, <3>2, EarlyStep, CountUpStep, LateStep, SMTT(30) DEF Step
      <3> QED
        BY <3>3 DEF BootInv, AfterInit
    <2> QED
      BY <2>1, <2>2, SMTT(30)
  <1> QED
    BY <1>1, <1>2, SMTT(30) DEF Next, Step

\* The inductive invariant gives the order of the boot.
LEMMA BootInvOrder == BootInv => OrderInv
  <1> SUFFICES ASSUME BootInv PROVE OrderInv
    BY SMTT(30)
  <1>1. CASE inits = 0
    <2>1. TypeOK /\ BeforeInit
      BY <1>1, SMTT(30) DEF BootInv
    <2>2. BootedOnce /\ RunsAfterAll
      BY <1>1, <2>1, SMTT(30) DEF TypeOK, BeforeInit, BootedOnce, RunsAfterAll
    <2>3. NoHartCutOff
      BY <1>1 DEF NoHartCutOff
    <2> QED
      BY <2>1, <2>2, <2>3, SMTT(30) DEF OrderInv
  <1>2. CASE inits # 0
    <2>1. TypeOK /\ AfterInit
      BY <1>2, SMTT(30) DEF BootInv
    <2>2. Counted \in SUBSET Hart
      BY SMTT(30) DEF Counted
    <2>3. ~idmap => Counted = Hart
      BY <2>1, <2>2, SomeHarts, SMTT(30) DEF AfterInit
    <2>4. NoHartCutOff
      BY <2>3, SMTT(30) DEF NoHartCutOff, Counted
    <2>5. RunsAfterAll
      BY <2>1, HartCount, SMTT(30) DEF AfterInit, RunsAfterAll
    <2>6. BootedOnce
      BY <2>1 DEF AfterInit, BootedOnce
    <2> QED
      BY <2>1, <2>4, <2>5, <2>6, SMTT(30) DEF OrderInv
  <1> QED
    BY <1>1, <1>2, SMTT(30)

(***************************************************************************)
(* The order of the boot for every number of harts: if a started hart      *)
(* reaches the gate of kernel_main after device_init, one hart initialises *)
(* the kernel, none loses the mapping it runs on, and none enters          *)
(* scheduler() before all are counted and the mapping is gone.             *)
(***************************************************************************)
THEOREM BootOrder ==
    ASSUME SlowStart
    PROVE  Spec => []OrderInv
  <1>1. Init => BootInv
    BY InitBootInv
  <1>2. BootInv /\ [Next]_vars => BootInv'
    BY StepBootInv
  <1>3. BootInv => OrderInv
    BY BootInvOrder
  <1> QED
    BY <1>1, <1>2, <1>3, PTL DEF Spec
=============================================================================
