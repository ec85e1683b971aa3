-------------------------------- MODULE Boot --------------------------------
(***************************************************************************)
(* How the harts come up: the entry code and its temporary page table      *)
(* (boot/), kernel_main (main.c) and the start of the other harts through  *)
(* the firmware.  A step is one access to what the harts share; what the   *)
(* boot hart does before it starts the others is one step.                 *)
(***************************************************************************)
EXTENDS Naturals, FiniteSets

CONSTANTS NHart,     \* harts of the machine, numbered from 0
          MaxCpu,    \* MAX_CPU
          SlowStart  \* a started hart reaches the gate after device_init

ASSUME HartsAssumption == NHart \in Nat \ {0} /\ MaxCpu \in Nat /\ NHart <= MaxCpu
ASSUME StartAssumption == SlowStart \in BOOLEAN

Hart == 0..(NHart - 1)
NoHart == NHart

VARIABLES
    at,         \* what each hart executes
    mmu,        \* started of setup_mmu.c: the temporary page table is there
    count,      \* started_hart_count
    lock,       \* the hart inside started_hart_count_lock
    expected,   \* hart_count
    enabled,    \* the harts with harts[id].enabled
    next,       \* id of the boot hart's second loop
    boot_hart,  \* boot_hart_id
    idmap,      \* the identity mapping is in the page table
    removed,    \* is_idmap_removed
    inits       \* history: how often the kernel was initialised

vars == <<at, mmu, count, lock, expected, enabled, next, boot_hart, idmap,
          removed, inits>>

Labels == {"stopped", "entry", "gate", "init", "start", "devices", "count",
           "counted", "wait", "idmap", "publish", "spin", "running"}
MaxInits == 2     \* bound: a second initialisation is as bad as many

TypeOK ==
    /\ at \in [Hart -> Labels]
    /\ mmu \in BOOLEAN /\ idmap \in BOOLEAN /\ removed \in BOOLEAN
    /\ count \in 0..NHart /\ lock \in Hart \cup {NoHart}
    /\ expected \in 0..(NHart * MaxInits)
    /\ enabled \subseteq Hart /\ next \in 0..MaxCpu
    /\ boot_hart \in Hart \cup {NoHart}
    /\ inits \in 0..MaxInits

\* The firmware hands one hart over and holds the others.
Init ==
    /\ \E b \in Hart : at = [h \in Hart |-> IF h = b THEN "entry" ELSE "stopped"]
    /\ mmu = FALSE /\ idmap = FALSE /\ removed = FALSE
    /\ count = 0 /\ lock = NoHart /\ expected = 0 /\ enabled = {} /\ next = 0
    /\ boot_hart = NoHart /\ inits = 0

Goto(h, from, to) == at[h] = from /\ at' = [at EXCEPT ![h] = to]

-----------------------------------------------------------------------------
(* Faulty variants of the operations, to see that the properties notice them *)

\* A hart that does not wait for the others.
WaitNot(h) ==
    /\ Goto(h, "wait", IF h = boot_hart THEN "idmap" ELSE "spin")
    /\ UNCHANGED <<mmu, count, lock, expected, enabled, next, boot_hart, idmap,
                   removed, inits>>

\* The count raised without the lock's exclusion, from a value read before.
CountStale(h) ==
    /\ lock = NoHart
    /\ Goto(h, "count", "wait")
    /\ \E c \in {count, count + 1} : count' = c
    /\ UNCHANGED <<mmu, lock, expected, enabled, next, boot_hart, idmap, removed,
                   inits>>

-----------------------------------------------------------------------------
(* Entry *)

\* __entry, setup_mmu and the jump to the virtual addresses.
Entry(h) ==
    /\ Goto(h, "entry", "gate")
    /\ mmu' = TRUE
    /\ idmap' = (idmap \/ ~mmu)
    /\ UNCHANGED <<count, lock, expected, enabled, next, boot_hart, removed, inits>>

FirstHart(h) == count = 0

\* The branch of kernel_main.  SlowStart: the first hart is past device_init.
Gate(h) ==
    /\ (SlowStart /\ inits > 0) => count > 0
    /\ Goto(h, "gate", IF FirstHart(h) THEN "init" ELSE "count")
    /\ UNCHANGED <<mmu, count, lock, expected, enabled, next, boot_hart, idmap,
                   removed, inits>>

\* The ids the status loop finds before its first error.
Present == Cardinality(Hart)

\* kernel_main up to the loop that counts the harts.
Initialise(h) ==
    /\ inits < MaxInits
    /\ Goto(h, "init", "start")
    /\ lock' = NoHart            \* spinlock_init
    /\ boot_hart' = h
    /\ expected' = expected + Present
    /\ enabled' = Hart
    /\ next' = 0
    /\ inits' = inits + 1
    /\ UNCHANGED <<mmu, count, idmap, removed>>

\* One id of the second loop: a stopped hart is started, at __hsm_entry.
StartHart(h) ==
    /\ at[h] = "start" /\ next < MaxCpu /\ next \in Hart
    /\ at' = IF at[next] = "stopped" THEN [at EXCEPT ![next] = "entry"] ELSE at
    /\ next' = next + 1
    /\ UNCHANGED <<mmu, count, lock, expected, enabled, boot_hart, idmap, removed,
                   inits>>

\* The end of the loop, or an id the firmware does not know.
StartEnd(h) ==
    /\ next = MaxCpu \/ next \notin Hart
    /\ Goto(h, "start", "devices")
    /\ UNCHANGED <<mmu, count, lock, expected, enabled, next, boot_hart, idmap,
                   removed, inits>>

DeviceInit(h) ==
    /\ Goto(h, "devices", "count")
    /\ UNCHANGED <<mmu, count, lock, expected, enabled, next, boot_hart, idmap,
                   removed, inits>>

\* started_hart_count++ under its lock
CountUp(h) ==
    /\ lock = NoHart
    /\ Goto(h, "count", "counted")
    /\ count' = count + 1
    /\ lock' = h
    /\ UNCHANGED <<mmu, expected, enabled, next, boot_hart, idmap, removed, inits>>

CountRelease(h) ==
    /\ Goto(h, "counted", "wait")
    /\ lock' = NoHart
    /\ UNCHANGED <<mmu, count, expected, enabled, next, boot_hart, idmap, removed,
                   inits>>

-----------------------------------------------------------------------------
(* From the wait to the scheduler *)

Wait(h) ==
    /\ expected = count
    /\ Goto(h, "wait", IF h = boot_hart THEN "idmap" ELSE "spin")
    /\ UNCHANGED <<mmu, count, lock, expected, enabled, next, boot_hart, idmap,
                   removed, inits>>

\* vm_kernel_remove_idmap
RemoveIdmap(h) ==
    /\ Goto(h, "idmap", "publish")
    /\ idmap' = FALSE
    /\ UNCHANGED <<mmu, count, lock, expected, enabled, next, boot_hart, removed,
                   inits>>

Publish(h) ==
    /\ Goto(h, "publish", "running")
    /\ removed' = TRUE
    /\ UNCHANGED <<mmu, count, lock, expected, enabled, next, boot_hart, idmap,
                   inits>>

Spin(h) ==
    /\ removed
    /\ Goto(h, "spin", "running")
    /\ UNCHANGED <<mmu, count, lock, expected, enabled, next, boot_hart, idmap,
                   removed, inits>>

Step(h) ==
    \/ Entry(h) \/ Gate(h) \/ Initialise(h) \/ StartHart(h) \/ StartEnd(h)
    \/ DeviceInit(h) \/ CountUp(h) \/ CountRelease(h) \/ Wait(h) \/ RemoveIdmap(h)
    \/ Publish(h) \/ Spin(h)

Next ==
    \/ \E h \in Hart : Entry(h)
    \/ \E h \in Hart : Gate(h)
    \/ \E h \in Hart : Initialise(h)
    \/ \E h \in Hart : StartHart(h)
    \/ \E h \in Hart : StartEnd(h)
    \/ \E h \in Hart : DeviceInit(h)
    \/ \E h \in Hart : CountUp(h)
    \/ \E h \in Hart : CountRelease(h)
    \/ \E h \in Hart : Wait(h)
    \/ \E h \in Hart : RemoveIdmap(h)
    \/ \E h \in Hart : Publish(h)
    \/ \E h \in Hart : Spin(h)

\* A hart that can go on does; nothing preempts it before scheduler().
Spec == Init /\ [][Next]_vars /\ \A h \in Hart : WF_vars(Step(h))

-----------------------------------------------------------------------------
(* Properties *)

\* One hart initialises the kernel, the others take the short branch of
\* kernel_main.
BootedOnce == inits <= 1 /\ \A g, h \in Hart : at[g] = "init" /\ at[h] = "init" => g = h

\* vm_kernel_remove_idmap takes the identity mapping away only when no hart
\* has still to run the entry code at physical addresses.
NoHartCutOff ==
    inits > 0 /\ ~idmap => \A h \in Hart : at[h] \notin {"stopped", "entry"}

\* A hart enters scheduler(), and with it user space, only after the identity
\* mapping is gone from the user half and all harts are counted.
RunsAfterAll ==
    \A h \in Hart : at[h] = "running" => ~idmap /\ count = Cardinality(enabled)

\* The order of the boot holds: one hart initialises the kernel, none loses the
\* mapping it runs on, and none runs user space before all are up.
OrderInv == TypeOK /\ BootedOnce /\ NoHartCutOff /\ RunsAfterAll

-----------------------------------------------------------------------------
(* Why OrderInv holds when a started hart arrives late: what is true before and
   after the one initialisation *)

\* The harts past the increment of started_hart_count
Counted == {h \in Hart : at[h] \in {"counted", "wait", "idmap", "publish", "spin", "running"}}

\* Only the hart that the firmware handed over has left the firmware, and the
\* identity mapping is there once it has passed the entry code.
BeforeInit ==
    /\ count = 0 /\ expected = 0 /\ lock = NoHart /\ ~removed /\ idmap = mmu
    /\ \A h \in Hart :
          /\ at[h] \in {"stopped", "entry", "gate", "init"}
          /\ at[h] \in {"gate", "init"} => mmu
    /\ \A g, h \in Hart : at[g] # "stopped" /\ at[h] # "stopped" => g = h

\* The boot hart alone starts the others and removes the mapping; a hart past
\* the wait has seen all of them counted.
AfterInit ==
    /\ inits = 1 /\ mmu /\ boot_hart \in Hart /\ expected = NHart /\ enabled = Hart
    /\ count = Cardinality(Counted)
    /\ at[boot_hart] \notin {"stopped", "entry", "gate", "spin"}
    /\ \A h \in Hart :
          /\ at[h] # "init"
          /\ at[h] \in {"start", "devices", "idmap", "publish"} => h = boot_hart
          /\ lock = h <=> at[h] = "counted"
          /\ at[h] \in {"idmap", "publish", "spin", "running"} => count = NHart
          /\ at[h] \in {"publish", "running"} => ~idmap
    /\ removed => ~idmap
    /\ ~idmap => at[boot_hart] \in {"publish", "running"}

BootInv == TypeOK /\ IF inits = 0 THEN BeforeInit ELSE AfterInit

\* The wait for all to boot up ends: every hart gets to scheduler().
AllRun == <>[](\A h \in Hart : at[h] = "running")

=============================================================================
