-------------------------------- MODULE Proc --------------------------------
(***************************************************************************)
(* Processes: the process table (proc.c), the scheduler of each hart       *)
(* (scheduler.c), the system calls that change it (syscall.c) and the      *)
(* timer trap that preempts user and kernel code (trap.c).                 *)
(*                                                                         *)
(* A step is one section of proc_manager.lock or tick_lock, or one access  *)
(* outside them; SpinLock shows that the sections exclude each other and   *)
(* that a hart takes no trap inside one.  What a hart executes is a label  *)
(* at[h], together with the label back[h] a trap handler returns to:       *)
(*   s_*  scheduler()          user  user mode       u_*  utrap_handler    *)
(*   t_*  timer trap           y_*   scheduler_yield f_*  proc_fork        *)
(*   w_*  syscall_wait         l_*   syscall_sleep   z_*  proc_sleep       *)
(*   x_*  proc_exit            sys   entry of syscall_handler              *)
(***************************************************************************)
EXTENDS Integers, Sequences

CONSTANTS Hart,             \* the harts in scheduler()
          Hart0,            \* hart 0, the one that counts ticks
          Proc,             \* the proc_struct objects, reused after a reap
          NULL, Tick,       \* no process; the channel &tick
          MaxSleep,         \* bound on the argument of sleep
          PreemptDispatch   \* a timer may fire just before scheduler()'s switch

ASSUME HartAssumption == Hart0 \in Hart
ASSUME ProcAssumption == NULL \notin Proc /\ Tick \notin Proc /\ NULL # Tick
ASSUME BoundAssumption == MaxSleep \in Nat /\ PreemptDispatch \in BOOLEAN

VARIABLES
    list,      \* proc_manager.proc_list, from its head
    state,     \* p->state
    killed,    \* p->killed
    parent,    \* p->parent
    chan,      \* p->sleeping_chan
    ctx,       \* p->context: where proc_switch resumes the process
    left,      \* ticks still to go in p's syscall_sleep: ticks - (tick - start)
    dup,       \* local of p's proc_fork
    at, back,  \* what each hart executes, and what its trap handler returns to
    sie,       \* interrupt enable bit of each hart
    running,   \* hart->running_proc
    spos,      \* local p of scheduler(): the entry it dispatched last
    hctx,      \* hart->context: label at which a switch resumes scheduler()
    tlock      \* the hart inside tick_lock across more than one step

tableVars == <<list, state, killed, parent, chan>>
localVars == <<left, dup>>
schedVars == <<running, spos, hctx>>
vars == <<tableVars, ctx, localVars, at, back, sie, schedVars, tlock>>

States == {"FREE", "ALLOCATED", "RUNNABLE", "RUNNING", "SLEEPING", "ZOMBIE"}
SchedLabels == {"s_top", "s_scan", "s_run", "s_switch", "s_back"}
TrapLabels == {"t_tick", "t_wakeup", "t_test", "y_set", "y_switch", "t_ret"}
ProcLabels == {"user", "sys", "u_check", "u_return", "f_copy", "w_scan",
               "l_loop", "l_sleep", "z_switch", "z_wake", "x_zombie",
               "x_wakeup", "x_switch", "x_end"}
Labels == SchedLabels \cup TrapLabels \cup ProcLabels \cup {"none", "panic"}

Linked == {list[i] : i \in DOMAIN list}

TypeOK ==
    /\ list \in Seq(Proc)
    /\ state \in [Proc -> States]
    /\ killed \in [Proc -> BOOLEAN]
    /\ parent \in [Proc -> Proc \cup {NULL}]
    /\ chan \in [Proc -> Proc \cup {NULL, Tick}]
    /\ ctx \in [Proc -> [at : Labels, back : Labels]]
    /\ left \in [Proc -> 0..MaxSleep]
    /\ dup \in [Proc -> Proc \cup {NULL}]
    /\ at \in [Hart -> Labels] /\ back \in [Hart -> Labels]
    /\ sie \in [Hart -> BOOLEAN]
    /\ running \in [Hart -> Proc \cup {NULL}]
    /\ spos \in [Hart -> Proc \cup {NULL}]
    /\ hctx \in [Hart -> {"none", "s_back"}]
    /\ tlock \in Hart \cup {NULL}

\* proc_create leaves a new process at the entry of utrap_return.
FreshContext == [at |-> "u_return", back |-> "none"]

\* proc_init has spawned the test program; the harts enter scheduler().
Init ==
    \E p \in Proc :
        /\ list = <<p>>
        /\ state = [q \in Proc |-> IF q = p THEN "RUNNABLE" ELSE "FREE"]
        /\ killed = [q \in Proc |-> FALSE]
        /\ parent = [q \in Proc |-> NULL]
        /\ chan = [q \in Proc |-> NULL]
        /\ ctx = [q \in Proc |-> FreshContext]
        /\ left = [q \in Proc |-> 0]
        /\ dup = [q \in Proc |-> NULL]
        /\ at = [h \in Hart |-> "s_top"]
        /\ back = [h \in Hart |-> "none"]
        /\ sie = [h \in Hart |-> FALSE]
        /\ running = [h \in Hart |-> NULL]
        /\ spos = [h \in Hart |-> NULL]
        /\ hctx = [h \in Hart |-> "none"]
        /\ tlock = NULL

\* A hart in panic() keeps the process lock, and so stops the others too.
Panicked == \E h \in Hart : at[h] = "panic"
At(h, L) == at[h] \in L /\ ~Panicked
Goto(h, from, to) == At(h, {from}) /\ at' = [at EXCEPT ![h] = to]
Children(p) == {q \in Linked : parent[q] = p}

\* proc_wakeup: the states after waking the sleepers on c.
Woken(c) ==
    [q \in Proc |-> IF q \in Linked /\ chan[q] = c /\ state[q] = "SLEEPING"
                    THEN "RUNNABLE" ELSE state[q]]

-----------------------------------------------------------------------------
(* Faulty variants of the operations, to see that the properties notice them *)

\* A scan that starts over at the head after every switch.
RestFromHead(h) == list

\* scheduler() without this_hart->running_proc = NULL after the switch.
SchedBackKeepsRunning(h) ==
    /\ Goto(h, "s_back", "s_scan")
    /\ UNCHANGED <<tableVars, ctx, localVars, back, sie, schedVars, tlock>>

\* tick_handler waking the wrong channel.
TickWakeupWrong(h) ==
    /\ Goto(h, "t_wakeup", "t_test")
    /\ state' = Woken(NULL)
    /\ UNCHANGED <<list, killed, parent, chan, ctx, localVars, back, sie,
                   schedVars, tlock>>

\* utrap_handler without its second proc_is_killed.
UCheckSkipped(h) ==
    /\ Goto(h, "u_check", "u_return")
    /\ UNCHANGED <<tableVars, ctx, localVars, back, sie, schedVars, tlock>>

\* proc_kill that makes the target RUNNABLE in every state.
SysKillRevives(h, q) ==
    /\ q \in Linked
    /\ Goto(h, "sys", "u_check")
    /\ killed' = [killed EXCEPT ![q] = TRUE]
    /\ state' = [state EXCEPT ![q] = "RUNNABLE"]
    /\ UNCHANGED <<list, parent, chan, ctx, localVars, back, sie, schedVars,
                   tlock>>

\* proc_exit that leaves its children alone.
ExitZombieOrphans(h) ==
    /\ At(h, {"sys", "x_zombie"})
    /\ at' = [at EXCEPT ![h] = "x_wakeup"]
    /\ state' = [state EXCEPT ![running[h]] = "ZOMBIE"]
    /\ UNCHANGED <<list, killed, parent, chan, ctx, localVars, back, sie,
                   schedVars, tlock>>

\* proc_exit that wakes up its own channel.
ExitWakeupSelf(h) ==
    /\ Goto(h, "x_wakeup", "x_switch")
    /\ state' = Woken(running[h])
    /\ UNCHANGED <<list, killed, parent, chan, ctx, localVars, back, sie,
                   schedVars, tlock>>

-----------------------------------------------------------------------------
(* scheduler() *)

SchedTop(h) ==
    /\ Goto(h, "s_top", "s_scan")
    /\ sie' = [sie EXCEPT ![h] = TRUE]
    /\ spos' = [spos EXCEPT ![h] = NULL]
    /\ UNCHANGED <<tableVars, ctx, localVars, back, running, hctx, tlock>>

\* The entries the for loop has still to visit.
Rest(h) ==
    IF spos[h] = NULL THEN list
    ELSE LET S == {i \in DOMAIN list : list[i] = spos[h]} IN
         IF S = {} THEN <<>>      \* proc_detach cleared nxt_proc
         ELSE SubSeq(list, (CHOOSE i \in S : TRUE) + 1, Len(list))

\* The loop runs under the lock up to the next RUNNABLE entry or the end.
SchedScan(h) ==
    LET rest == Rest(h)
        ready == {i \in DOMAIN rest : state[rest[i]] = "RUNNABLE"}
    IN  /\ \/ /\ ready = {}
              /\ Goto(h, "s_scan", "s_top")
              /\ UNCHANGED <<state, spos>>
           \/ \E i \in ready :
                /\ \A j \in ready : i <= j
                /\ state' = [state EXCEPT ![rest[i]] = "RUNNING"]
                /\ spos' = [spos EXCEPT ![h] = rest[i]]
                /\ Goto(h, "s_scan", "s_run")
        /\ UNCHANGED <<list, killed, parent, chan, ctx, localVars, back, sie,
                       running, hctx, tlock>>

SchedRun(h) ==
    /\ Goto(h, "s_run", "s_switch")
    /\ running' = [running EXCEPT ![h] = spos[h]]
    /\ UNCHANGED <<tableVars, ctx, localVars, back, sie, spos, hctx, tlock>>

\* proc_switch(&this_hart->context, &p->context)
SchedSwitch(h) ==
    /\ At(h, {"s_switch"})
    /\ hctx' = [hctx EXCEPT ![h] = "s_back"]
    /\ at' = [at EXCEPT ![h] = ctx[spos[h]].at]
    /\ back' = [back EXCEPT ![h] = ctx[spos[h]].back]
    /\ UNCHANGED <<tableVars, ctx, localVars, sie, running, spos, tlock>>

SchedBack(h) ==
    /\ Goto(h, "s_back", "s_scan")
    /\ running' = [running EXCEPT ![h] = NULL]
    /\ UNCHANGED <<tableVars, ctx, localVars, back, sie, spos, hctx, tlock>>

\* scheduler_switch: save where the hart is in the context of running_proc,
\* whoever executes it, and resume the hart's scheduler().
SwitchOut(h, label) ==
    /\ ctx' = [ctx EXCEPT ![running[h]] = [at |-> label, back |-> back[h]]]
    /\ at' = [at EXCEPT ![h] = hctx[h]]
    /\ back' = [back EXCEPT ![h] = "none"]

-----------------------------------------------------------------------------
(* The timer trap, from user mode (utrap_handler) or kernel code            *)
(* (ktrap_handler), with tick_handler and scheduler_yield.                  *)

\* A handler that yielded resumes with the interrupt bit the hart then has,
\* so a trap can nest in its return; the two frames return one after the other
\* and are kept as one.
Trap(h) ==
    /\ \/ At(h, {"user"})
       \/ At(h, Labels) /\ sie[h] /\ tlock # h
    /\ at[h] = "s_switch" => PreemptDispatch
    /\ at' = [at EXCEPT ![h] = IF h = Hart0 THEN "t_tick" ELSE "t_test"]
    /\ back' = [back EXCEPT ![h] = IF at[h] = "t_ret" THEN @ ELSE at[h]]
    /\ sie' = [sie EXCEPT ![h] = FALSE]
    /\ UNCHANGED <<tableVars, ctx, localVars, schedVars, tlock>>

\* tick++ under tick_lock: every sleeper is one tick closer.
TickCount(h) ==
    /\ tlock = NULL
    /\ Goto(h, "t_tick", "t_wakeup")
    /\ left' = [p \in Proc |-> IF left[p] > 0 THEN left[p] - 1 ELSE 0]
    /\ UNCHANGED <<tableVars, ctx, dup, back, sie, schedVars, tlock>>

TickWakeup(h) ==
    /\ Goto(h, "t_wakeup", "t_test")
    /\ state' = Woken(Tick)
    /\ UNCHANGED <<list, killed, parent, chan, ctx, localVars, back, sie,
                   schedVars, tlock>>

\* User code always yields; kernel code when running_proc is RUNNING.
TrapTest(h) ==
    LET yields == \/ back[h] = "user"
                  \/ running[h] # NULL /\ state[running[h]] = "RUNNING"
    IN  /\ Goto(h, "t_test", IF yields THEN "y_set" ELSE "t_ret")
        /\ UNCHANGED <<tableVars, ctx, localVars, back, sie, schedVars, tlock>>

YieldSet(h) ==
    /\ Goto(h, "y_set", "y_switch")
    /\ state' = [state EXCEPT ![running[h]] = "RUNNABLE"]
    /\ UNCHANGED <<list, killed, parent, chan, ctx, localVars, back, sie,
                   schedVars, tlock>>

YieldSwitch(h) ==
    /\ At(h, {"y_switch"})
    /\ SwitchOut(h, "t_ret")
    /\ UNCHANGED <<tableVars, localVars, sie, schedVars, tlock>>

\* ktrap_handler restores sstatus and returns with sret; utrap_handler goes on
\* to its last test, with the interrupt bit as it finds it.
TrapReturn(h) ==
    /\ Goto(h, "t_ret", IF back[h] = "user" THEN "u_check" ELSE back[h])
    /\ sie' = [sie EXCEPT ![h] = @ \/ back[h] # "user"]
    /\ back' = [back EXCEPT ![h] = "none"]
    /\ UNCHANGED <<tableVars, ctx, localVars, schedVars, tlock>>

-----------------------------------------------------------------------------
(* Entry from and return to user mode *)

\* A system call: proc_is_killed, then enable_interrupt and the handler.
Ecall(h) ==
    /\ Goto(h, "user", IF killed[running[h]] THEN "x_zombie" ELSE "sys")
    /\ sie' = [sie EXCEPT ![h] = ~killed[running[h]]]
    /\ UNCHANGED <<tableVars, ctx, localVars, back, schedVars, tlock>>

\* A device interrupt, or a page fault that proc_extend_stack resolves.
UserTrap(h) ==
    /\ Goto(h, "user", "u_check")
    /\ sie' = [sie EXCEPT ![h] = FALSE]
    /\ UNCHANGED <<tableVars, ctx, localVars, back, schedVars, tlock>>

\* A page fault outside the stack or another exception: proc_kill itself.
UserFault(h) ==
    /\ Goto(h, "user", "u_check")
    /\ killed' = [killed EXCEPT ![running[h]] = TRUE]
    /\ sie' = [sie EXCEPT ![h] = FALSE]
    /\ UNCHANGED <<list, state, parent, chan, ctx, localVars, back, schedVars,
                   tlock>>

\* The end of utrap_handler, then utrap_return.
UCheck(h) ==
    /\ Goto(h, "u_check", IF killed[running[h]] THEN "x_zombie" ELSE "u_return")
    /\ UNCHANGED <<tableVars, ctx, localVars, back, sie, schedVars, tlock>>

UReturn(h) ==
    /\ Goto(h, "u_return", "user")
    /\ sie' = [sie EXCEPT ![h] = FALSE]
    /\ UNCHANGED <<tableVars, ctx, localVars, back, schedVars, tlock>>

-----------------------------------------------------------------------------
(* System calls *)

\* getpid, uptime, a kill whose pid is not found: nothing changes.
SysQuery(h) ==
    /\ Goto(h, "sys", "u_check")
    /\ UNCHANGED <<tableVars, ctx, localVars, back, sie, schedVars, tlock>>

\* proc_kill
SysKill(h, q) ==
    /\ q \in Linked
    /\ Goto(h, "sys", "u_check")
    /\ killed' = [killed EXCEPT ![q] = TRUE]
    /\ state' = [state EXCEPT ![q] = IF @ = "SLEEPING" THEN "RUNNABLE" ELSE @]
    /\ UNCHANGED <<list, parent, chan, ctx, localVars, back, sie, schedVars,
                   tlock>>

\* proc_create: the new object is private until proc_link inserts it.
SysFork(h, q) ==
    /\ state[q] = "FREE"
    /\ Goto(h, "sys", "f_copy")
    /\ list' = <<q>> \o list
    /\ state' = [state EXCEPT ![q] = "ALLOCATED"]
    /\ killed' = [killed EXCEPT ![q] = FALSE]
    /\ parent' = [parent EXCEPT ![q] = NULL]
    /\ ctx' = [ctx EXCEPT ![q] = FreshContext]
    /\ dup' = [dup EXCEPT ![running[h]] = q]
    /\ UNCHANGED <<chan, left, back, sie, schedVars, tlock>>

\* kmem_object_alloc returned NULL.
SysForkFails(h) ==
    /\ \A q \in Proc : state[q] # "FREE"
    /\ Goto(h, "sys", "u_check")
    /\ UNCHANGED <<tableVars, ctx, localVars, back, sie, schedVars, tlock>>

\* The rest of proc_fork, under the lock proc_lock_and_find returns with.
ForkCopy(h) ==
    LET p == running[h] IN
    /\ Goto(h, "f_copy", "u_check")
    /\ parent' = [parent EXCEPT ![dup[p]] = p]
    /\ state' = [state EXCEPT ![dup[p]] = "RUNNABLE"]
    /\ dup' = [dup EXCEPT ![p] = NULL]
    /\ UNCHANGED <<list, killed, chan, ctx, left, back, sie, schedVars, tlock>>

\* First part of proc_sleep: what it does before scheduler_switch.
FallAsleep(p, c) ==
    /\ chan' = [chan EXCEPT ![p] = c]
    /\ state' = [state EXCEPT ![p] = "SLEEPING"]

SleepSwitch(h) ==
    /\ At(h, {"z_switch"})
    /\ SwitchOut(h, "z_wake")
    /\ UNCHANGED <<tableVars, localVars, sie, schedVars, tlock>>

\* Second part: clear the channel and go round the caller's loop again.
SleepWake(h) ==
    LET p == running[h] IN
    /\ Goto(h, "z_wake", IF chan[p] = Tick THEN "l_loop" ELSE "w_scan")
    /\ chan' = [chan EXCEPT ![p] = NULL]
    /\ UNCHANGED <<list, state, killed, parent, ctx, localVars, back, sie,
                   schedVars, tlock>>

\* proc_detach: the list s without its k-th entry.
Detached(s, k) == [i \in 1..(Len(s) - 1) |-> s[IF i < k THEN i ELSE i + 1]]

\* One iteration of syscall_wait's loop, under the lock: reap the first zombie child in the list,
\* unless its status cannot be copied out (copied is FALSE); give up without
\* children or when killed; else sleep on the process itself.
WaitScan(h, copied) ==
    LET p == running[h]
        zombies == {i \in DOMAIN list : parent[list[i]] = p
                                        /\ state[list[i]] = "ZOMBIE"}
    IN  /\ At(h, {"sys", "w_scan"})
        /\ \/ \E k \in zombies :
                /\ \A j \in zombies : k <= j
                /\ at' = [at EXCEPT ![h] = "u_check"]
                /\ IF copied
                   THEN /\ list' = Detached(list, k)
                        /\ state' = [state EXCEPT ![list[k]] = "FREE"]
                   ELSE UNCHANGED <<list, state>>
                /\ UNCHANGED chan
           \/ /\ zombies = {} /\ (Children(p) = {} \/ killed[p])
              /\ at' = [at EXCEPT ![h] = "u_check"]
              /\ UNCHANGED <<list, state, chan>>
           \/ /\ zombies = {} /\ Children(p) # {} /\ ~killed[p]
              /\ at' = [at EXCEPT ![h] = "z_switch"]
              /\ FallAsleep(p, p)
              /\ UNCHANGED list
        /\ UNCHANGED <<killed, parent, ctx, localVars, back, sie, schedVars, tlock>>

\* One test of syscall_sleep's loop with n ticks to go: take tick_lock and
\* return, or keep it until proc_sleep has it.
SleepLoop(h, n) ==
    LET p == running[h]
        goOn == n > 0 /\ ~killed[p]
    IN  /\ tlock = NULL
        /\ left' = [left EXCEPT ![p] = IF goOn THEN n ELSE 0]
        /\ tlock' = IF goOn THEN h ELSE NULL
        /\ at' = [at EXCEPT ![h] = IF goOn THEN "l_sleep" ELSE "u_check"]
        /\ UNCHANGED <<tableVars, ctx, dup, back, sie, schedVars>>

SysSleep(h, n) == At(h, {"sys"}) /\ SleepLoop(h, n)

SleepAgain(h) == At(h, {"l_loop"}) /\ SleepLoop(h, left[running[h]])

\* proc_sleep(&tick, &tick_lock) gives tick_lock up inside the process lock.
SleepOnTick(h) ==
    /\ Goto(h, "l_sleep", "z_switch")
    /\ FallAsleep(running[h], Tick)
    /\ tlock' = NULL
    /\ UNCHANGED <<list, killed, parent, ctx, localVars, back, sie, schedVars>>

\* proc_exit up to the unlock, as a system call or for a killed process.  For a child, proc_wakeup acquires the lock
\* proc_exit holds: panic("spinlock_acquire - spinlock held;").
ExitZombie(h) ==
    LET p == running[h]
        kids == {i \in DOMAIN list : parent[list[i]] = p}
    IN  /\ At(h, {"sys", "x_zombie"})
        /\ \/ /\ kids = {}
              /\ at' = [at EXCEPT ![h] = "x_wakeup"]
              /\ state' = [state EXCEPT ![p] = "ZOMBIE"]
              /\ UNCHANGED parent
           \/ \E k \in kids :
                /\ \A j \in kids : k <= j
                /\ at' = [at EXCEPT ![h] = "panic"]
                /\ parent' = [parent EXCEPT ![list[k]] = NULL]
                /\ UNCHANGED state
        /\ UNCHANGED <<list, killed, chan, ctx, localVars, back, sie, schedVars,
                       tlock>>

\* proc_wakeup(p->parent), after the unlock.
ExitWakeup(h) ==
    /\ Goto(h, "x_wakeup", "x_switch")
    /\ state' = Woken(parent[running[h]])
    /\ UNCHANGED <<list, killed, parent, chan, ctx, localVars, back, sie,
                   schedVars, tlock>>

ExitSwitch(h) ==
    /\ At(h, {"x_switch"})
    /\ SwitchOut(h, "x_end")
    /\ UNCHANGED <<tableVars, localVars, sie, schedVars, tlock>>

\* panic() spins for ever with the process lock held.
Halt == Panicked /\ UNCHANGED vars

-----------------------------------------------------------------------------

\* What the kernel does on its own, once entered.
Kernel(h) ==
    \/ SchedTop(h) \/ SchedScan(h) \/ SchedRun(h) \/ SchedSwitch(h) \/ SchedBack(h)
    \/ TickCount(h) \/ TickWakeup(h) \/ TrapTest(h)
    \/ YieldSet(h) \/ YieldSwitch(h) \/ TrapReturn(h)
    \/ UCheck(h) \/ UReturn(h)
    \/ SysQuery(h) \/ SysForkFails(h)
    \/ \E q \in Proc : SysKill(h, q) \/ SysFork(h, q)
    \/ ForkCopy(h)
    \/ \E copied \in BOOLEAN : WaitScan(h, copied)
    \/ \E n \in 0..MaxSleep : SysSleep(h, n)
    \/ SleepAgain(h) \/ SleepOnTick(h) \/ SleepSwitch(h) \/ SleepWake(h)
    \/ ExitZombie(h) \/ ExitWakeup(h) \/ ExitSwitch(h)

Next ==
    \/ \E h \in Hart : Kernel(h) \/ Trap(h) \/ Ecall(h) \/ UserTrap(h) \/ UserFault(h)
    \/ Halt

Spec == Init /\ [][Next]_vars

\* Kernel code makes progress: SCHEDULING_TIME_SPAN leaves time for steps of
\* scheduler() and of the process between two timer interrupts.  A timer
\* interrupt stays pending until the hart takes it.  User code may loop.
SchedStep(h) == at[h] \in SchedLabels /\ Kernel(h)
TrapStep(h) == at[h] \in TrapLabels /\ Kernel(h)
ProcStep(p) == \E h \in Hart : running[h] = p /\ at[h] \in ProcLabels /\ Kernel(h)
ProcReturn(p) == \E h \in Hart : running[h] = p /\ TrapReturn(h)

Fairness ==
    /\ \A h \in Hart : /\ SF_vars(SchedStep(h))
                       /\ WF_vars(TrapStep(h))
                       /\ SF_vars(Trap(h))
    /\ \A p \in Proc : SF_vars(ProcStep(p)) /\ SF_vars(ProcReturn(p))

FairSpec == Spec /\ Fairness

-----------------------------------------------------------------------------
(* Properties *)

\* The hart is in the code of running_proc at label l, or in a trap handler
\* that will return there.
Doing(h, l) == at[h] = l \/ (at[h] \in TrapLabels /\ back[h] = l)

\* No pointer to a reaped proc_struct is left: not in a parent field, not in
\* a hart's running_proc, not in the scheduler's loop variable
\* (proc_reap_detached frees the object at proc.c:127).
NoDangling ==
    /\ \A p \in Linked : parent[p] \in Linked \cup {NULL}
    /\ \A h \in Hart :
         /\ running[h] \in Linked \cup {NULL}
         /\ at[h] # "s_scan" => spos[h] \in Linked \cup {NULL}

\* A process is executed by at most one hart, and only while it is RUNNING or
\* on its way out through scheduler_switch.
RunsOnce ==
    /\ \A h, g \in Hart : running[h] = running[g] /\ running[h] # NULL => h = g
    /\ \A h \in Hart : at[h] \in {"user", "sys", "u_check", "u_return"} =>
           running[h] # NULL /\ state[running[h]] = "RUNNING"

\* The table of processes is sound: no dangling pointer, no process executed
\* twice or in a state in which it must not run.
TableInv == TypeOK /\ NoDangling /\ RunsOnce

\* A saved context is the one of the process itself: the comment in
\* proc_fork, "scheduler -> utrap_return -(trapframe data)-> user program".
OwnContext ==
    \A p \in Linked : ctx[p].at \notin SchedLabels /\ ctx[p].back \notin SchedLabels

\* A parent asleep in wait has a child left to wait for, and if a child is a
\* zombie then the wakeup of proc_exit (proc.c:240) is still to come.
WaitNotLost ==
    \A p \in Linked : state[p] = "SLEEPING" /\ chan[p] = p =>
        /\ Children(p) # {}
        /\ (\E q \in Children(p) : state[q] = "ZOMBIE") =>
               \E h \in Hart : running[h] \in Children(p) /\ Doing(h, "x_wakeup")

\* A process asleep in sleep has ticks to wait for, or the wakeup of the tick
\* that was the last one (trap.c:28) is still to come.
SleepNotLost ==
    \A p \in Linked : state[p] = "SLEEPING" /\ chan[p] = Tick =>
        left[p] > 0 \/ \E h \in Hart : at[h] = "t_wakeup"

\* No wakeup is lost, neither the one of a child that exits nor the one of the
\* last tick.
WakeupsNotLost == WaitNotLost /\ SleepNotLost

\* A process that exits does not run again: "no came back" (proc.c:243).
NoCameBack == \A h \in Hart : ~Doing(h, "x_end")

\* Exit never reaches the panic of spinlock_acquire: proc_exit is to "take
\* care of children" (proc.c:226).
ExitTakesCareOfChildren == ~Panicked

\* A runnable process gets the processor: the loop of scheduler() visits the
\* whole list and the timer takes the processor from everybody.
RunnableRuns(p) == state[p] = "RUNNABLE" ~> (state[p] # "RUNNABLE" \/ Panicked)

\* A killed process dies, wherever it was when proc_kill marked it.
KilledDies(p) ==
    (killed[p] /\ p \in Linked) ~> (state[p] \in {"ZOMBIE", "FREE"} \/ Panicked)

\* A sleeper whose condition has come true runs again.
SleeperRuns(p) ==
    (/\ state[p] = "SLEEPING"
     /\ \/ chan[p] = Tick /\ left[p] = 0
        \/ chan[p] = p /\ \E q \in Children(p) : state[q] = "ZOMBIE")
    ~> (state[p] = "RUNNING" \/ Panicked)
=============================================================================
