----------------------------- MODULE ProcProofs -----------------------------
(***************************************************************************)
(* The safety of the process table for one hart, any set of proc_structs   *)
(* and any argument of sleep.  The inductive invariant OneHartInv says,    *)
(* for every label the hart can be at, which process executes and in which *)
(* state it is, and for every other process what its saved context is.     *)
(* It holds of every behaviour of Proc and implies TableInv, OwnContext,   *)
(* WakeupsNotLost and NoCameBack.                                          *)
(*                                                                         *)
(* First come the steps which leave the list, running_proc and the saved   *)
(* contexts alone: entry from and return to user mode, the timer interrupt *)
(* up to the yield, the wakeups, and the calls that do not fork, wait or   *)
(* exit.  Then the steps of scheduler() and those that give the hart back  *)
(* to it, and the ones that change the process list; the theorems are at   *)
(* the end.                                                                *)
(***************************************************************************)
EXTENDS Proc, TLAPS

\* Steps without arithmetic go to Zenon; the others name SMT.
USE ZenonT(30)

\* The machine of kernel/Makefile (-smp 1): one hart, and no timer interrupt
\* in the few instructions between scheduler()'s unlock and its switch.
Uniprocessor == Hart = {Hart0} /\ ~PreemptDispatch

Pc == at[Hart0]
Ret == back[Hart0]
Cur == running[Hart0]
Pos == spos[Hart0]

\* The code the hart executes, or the one its trap handler interrupted.
Code == IF Pc \in TrapLabels THEN Ret ELSE Pc

\* Where a process is RUNNING and the timer can take the hart from it; where
\* it is RUNNING; where it owns the hart.
Yielding == {"user", "sys", "u_check", "u_return", "f_copy", "w_scan",
             "l_loop", "z_wake", "x_zombie"}
Active == Yielding \cup {"l_sleep", "panic"}
OnHart == Active \cup {"z_switch", "x_wakeup", "x_switch"}
Executes(p) == Code \in OnHart /\ Cur = p

\* A proc_struct is in the list once.
ListInv == \A i, j \in DOMAIN list : list[i] = list[j] => i = j

\* What the label of the hart says about its trap frame and its locks.
HartInv ==
    /\ Pc \notin TrapLabels => Ret = "none" /\ Pc \in OnHart \cup SchedLabels
    /\ Pc \in TrapLabels => Ret \in (OnHart \ {"l_sleep", "panic"})
                                      \cup (SchedLabels \ {"s_switch"})
    /\ Pc \in TrapLabels \ {"t_ret"} => ~sie[Hart0]
    /\ Pc \in {"y_set", "y_switch"} => Ret \in Yielding
    /\ Pc = "l_sleep" => tlock = Hart0 /\ left[Cur] > 0

\* What it says about running_proc and the loop variable of scheduler().
RoleInv ==
    /\ Pos \in Linked \cup {NULL}
    /\ Code \in OnHart => Cur \in Linked /\ Cur = Pos /\ hctx[Hart0] = "s_back"
    /\ Code \in {"s_top", "s_scan", "s_run"} => Cur = NULL
    /\ Code \in {"s_run", "s_switch"} => Pos \in Linked /\ state[Pos] = "RUNNING"
    /\ Code = "s_switch" => Cur = Pos
    /\ Code = "s_back" => Cur \in Linked /\ state[Cur] # "RUNNING"

\* Who is in which state.
StateInv ==
    /\ \A p \in Proc : state[p] = "FREE" <=> p \notin Linked
    /\ \A p \in Linked : state[p] = "RUNNING" =>
           Executes(p) \/ (Code \in {"s_run", "s_switch"} /\ Pos = p)
    /\ Code \in Active =>
           state[Cur] = IF Pc = "y_switch" THEN "RUNNABLE" ELSE "RUNNING"
    /\ Code = "z_switch" => state[Cur] \in {"SLEEPING", "RUNNABLE"}
    /\ Code \in {"x_wakeup", "x_switch"} => state[Cur] = "ZOMBIE"

\* Where a process that does not own the hart resumes.
Resumes(p) ==
    /\ state[p] \in {"RUNNABLE", "RUNNING"} =>
         \/ ctx[p].at \in {"u_return", "z_wake"} /\ ctx[p].back = "none"
         \/ ctx[p].at = "t_ret" /\ ctx[p].back \in Yielding
    /\ state[p] = "SLEEPING" => ctx[p].at = "z_wake" /\ ctx[p].back = "none"
    /\ state[p] = "ALLOCATED" => ctx[p].at = "u_return" /\ ctx[p].back = "none"
    /\ state[p] = "ZOMBIE" => ctx[p].at = "x_end"

ContextInv == \A p \in Linked : ~Executes(p) => Resumes(p)

\* A process inside proc_fork owns the object it is copying to.
Copying(p) ==
    IF Executes(p) THEN Code = "f_copy"
    ELSE ctx[p].at = "t_ret" /\ ctx[p].back = "f_copy"

ForkInv ==
    /\ \A p \in Linked : Copying(p) =>
           dup[p] \in Linked /\ state[dup[p]] = "ALLOCATED"
    /\ \A p, q \in Linked : Copying(p) /\ Copying(q) /\ dup[p] = dup[q] => p = q

\* A zombie has no children, an object under construction no parent.
ParentInv ==
    \A p \in Linked :
        /\ parent[p] \in Linked \cup {NULL}
        /\ parent[p] # NULL => state[parent[p]] # "ZOMBIE"
        /\ state[p] = "ALLOCATED" => parent[p] = NULL

\* WakeupsNotLost, with the hart in place of "some hart".
AwakeInv ==
    /\ \A p \in Linked : state[p] = "SLEEPING" /\ chan[p] = p =>
         /\ \E q \in Linked : parent[q] = p
         /\ (\E q \in Linked : parent[q] = p /\ state[q] = "ZOMBIE") =>
              Code = "x_wakeup" /\ Cur \in Linked /\ parent[Cur] = p
    /\ \A p \in Linked : state[p] = "SLEEPING" /\ chan[p] = Tick =>
         left[p] > 0 \/ Pc = "t_wakeup"

OneHartInv ==
    /\ TypeOK /\ ListInv /\ HartInv /\ RoleInv /\ StateInv /\ ContextInv
    /\ OwnContext /\ ForkInv /\ ParentInv /\ AwakeInv

-----------------------------------------------------------------------------
(* Facts every step uses *)

\* The processes of the list are objects.
LEMMA LinkedType == ASSUME TypeOK PROVE Linked \subseteq Proc
  BY SMT DEF TypeOK, Linked

\* No wakeup is lost by a step that puts nobody to sleep, makes no zombie and
\* takes no child from a sleeper.
LEMMA Quiet ==
    ASSUME Linked \subseteq Proc, AwakeInv,
           \A p \in Linked' : state'[p] = "SLEEPING" =>
               /\ p \in Linked /\ state[p] = "SLEEPING" /\ chan'[p] = chan[p]
               /\ left'[p] = left[p] \/ Pc' = "t_wakeup",
           Pc # "t_wakeup",
           \A q \in Linked, p \in Proc : parent[q] = p /\ state[p] = "SLEEPING" =>
               q \in Linked' /\ parent'[q] = p,
           \A q \in Linked', p \in Proc : state'[q] = "ZOMBIE" /\ parent'[q] = p =>
               q \in Linked /\ state[q] = "ZOMBIE" /\ parent[q] = p,
           Code = "x_wakeup" => Code' = "x_wakeup" /\ Cur' = Cur
    PROVE  AwakeInv'
  <1>1. ASSUME NEW p \in Linked', state'[p] = "SLEEPING", chan'[p] = p
        PROVE  /\ \E q \in Linked' : parent'[q] = p
               /\ (\E q \in Linked' : parent'[q] = p /\ state'[q] = "ZOMBIE") =>
                    Code' = "x_wakeup" /\ Cur' \in Linked' /\ parent'[Cur'] = p
    BY SMT, <1>1 DEF AwakeInv
  <1>2. ASSUME NEW p \in Linked', state'[p] = "SLEEPING", chan'[p] = Tick
        PROVE  left'[p] > 0 \/ Pc' = "t_wakeup"
    BY <1>2 DEF AwakeInv
  <1> QED
    BY <1>1, <1>2 DEF AwakeInv

\* A step that leaves the table alone, but for sleepers it wakes and parents it
\* forgets, and moves the hart inside the code it is in.
LEMMA Move ==
    ASSUME OneHartInv, TypeOK', HartInv', ListInv',
           Linked' = Linked, Cur' = Cur, Pos' = Pos, hctx' = hctx,
           ctx' = ctx, dup' = dup,
           \A p \in Linked : parent'[p] \in {parent[p], NULL},
           \A p \in Proc : \/ state'[p] = state[p]
                           \/ state[p] = "SLEEPING" /\ state'[p] = "RUNNABLE",
           Pc # "y_switch", Pc' # "y_switch",
           \/ Code' = Code
           \/ Code \in Active \ {"f_copy"} /\ Code' \in Active \ {"f_copy"}
           \/ Code = "x_wakeup" /\ Code' = "x_switch",
           AwakeInv'
    PROVE  OneHartInv'
  <1>1. /\ TypeOK /\ RoleInv /\ StateInv /\ ContextInv /\ OwnContext /\ ForkInv
        /\ ParentInv /\ Linked \subseteq Proc
    BY LinkedType DEF OneHartInv
  <1>2. \A p : Executes(p)' <=> Executes(p)
    BY DEF Executes, OnHart, Active
  <1>3. RoleInv'
    BY <1>1 DEF RoleInv, OnHart, Active, Yielding
  <1>4. StateInv'
    BY <1>1, <1>2 DEF RoleInv, StateInv, OnHart, Active, Yielding
  <1>5. ContextInv' /\ OwnContext'
    BY <1>1, <1>2 DEF ContextInv, Resumes, OwnContext
  <1>6. ForkInv'
    <2>1. \A p : Copying(p)' <=> Copying(p)
      BY <1>2 DEF Copying
    <2> QED
      BY <1>1, <2>1 DEF ForkInv
  <1>7. ParentInv'
    BY <1>1 DEF ParentInv
  <1> QED
    BY <1>3, <1>4, <1>5, <1>6, <1>7 DEF OneHartInv

\* A step of the hart alone.
LEMMA HartMove ==
    ASSUME OneHartInv, TypeOK', HartInv',
           UNCHANGED <<list, state, parent, ctx, dup, schedVars>>,
           \A p \in Proc : state[p] = "SLEEPING" =>
               chan'[p] = chan[p] /\ (left'[p] = left[p] \/ Pc' = "t_wakeup"),
           Pc \notin {"y_switch", "t_wakeup"}, Pc' # "y_switch",
           \/ Code' = Code
           \/ Code \in Active \ {"f_copy"} /\ Code' \in Active \ {"f_copy"}
    PROVE  OneHartInv'
  <1>1. /\ Linked' = Linked /\ Cur' = Cur /\ Pos' = Pos /\ hctx' = hctx
        /\ Linked \subseteq Proc /\ AwakeInv /\ ListInv'
    BY LinkedType DEF OneHartInv, schedVars, Linked, Cur, Pos, ListInv
  <1>2. Code = "x_wakeup" => Code' = "x_wakeup"
    BY DEF Active, Yielding
  <1>3. AwakeInv'
    BY <1>1, <1>2, Quiet
  <1> QED
    BY <1>1, <1>3, Move

\* A step of the running process in its own code, outside proc_fork.
LEMMA Straight ==
    ASSUME OneHartInv, TypeOK',
           UNCHANGED <<list, state, parent, ctx, dup, schedVars>>,
           Pc \in Yielding \ {"f_copy"}, Pc' \in Active \ {"f_copy"}, Ret' = Ret,
           \A p \in Proc \ {Cur} : chan'[p] = chan[p] /\ left'[p] = left[p],
           Pc' = "l_sleep" => tlock' = Hart0 /\ left'[Cur] > 0
    PROVE  OneHartInv'
  <1>1. /\ Code = Pc /\ Code' = Pc' /\ Cur' = Cur
        /\ Pc' \notin TrapLabels /\ Pc \notin TrapLabels
    BY DEF Code, Active, Yielding, TrapLabels, schedVars, Cur
  <1>2. HartInv'
    BY <1>1 DEF OneHartInv, HartInv, OnHart, Active, TrapLabels
  <1>3. state[Cur] = "RUNNING"
    BY <1>1 DEF OneHartInv, StateInv, Active, Yielding
  <1>4. Pc \in Active /\ Pc \notin {"y_switch", "t_wakeup"} /\ Pc' # "y_switch"
    BY DEF Active, Yielding
  <1> QED
    BY <1>1, <1>2, <1>3, <1>4, HartMove

-----------------------------------------------------------------------------

-----------------------------------------------------------------------------
(* The steps that leave the list, running_proc and the saved contexts alone *)

\* Entry from and return to user mode, and the calls that change nothing.
LEMMA UserStep ==
    ASSUME OneHartInv,
           \/ Ecall(Hart0) \/ UserTrap(Hart0) \/ UserFault(Hart0) \/ UCheck(Hart0)
           \/ UReturn(Hart0) \/ SysQuery(Hart0) \/ SysForkFails(Hart0)
    PROVE  OneHartInv'
  <1> USE DEF Ecall, UserTrap, UserFault, UCheck, UReturn, SysQuery, SysForkFails,
              Goto, At, tableVars, localVars
  <1>1. TypeOK
    BY DEF OneHartInv
  <1>2. /\ Pc \in {"user", "u_check", "u_return", "sys"}
        /\ Pc' \in {"x_zombie", "sys", "u_check", "u_return", "user"}
        /\ Ret' = Ret /\ chan' = chan /\ left' = left
        /\ UNCHANGED <<list, state, parent, ctx, dup, schedVars>>
    BY <1>1, HartAssumption DEF TypeOK, Pc, Ret
  <1>3. TypeOK'
    <2>1. at' \in [Hart -> Labels]
      <3>1. \E l \in ProcLabels : at' = [at EXCEPT ![Hart0] = l]
        BY DEF ProcLabels
      <3> QED
        BY <1>1, <3>1 DEF TypeOK, Labels
    <2>2. back' = back /\ tlock' = tlock
      OBVIOUS
    <2>3. sie' \in [Hart -> BOOLEAN]
      BY <1>1 DEF TypeOK
    <2>4. killed' \in [Proc -> BOOLEAN]
      BY <1>1 DEF TypeOK
    <2> QED
      BY <1>1, <1>2, <2>1, <2>2, <2>3, <2>4 DEF TypeOK, schedVars
  <1> QED
    BY <1>2, <1>3, Straight DEF Active, Yielding

\* The end of proc_sleep and the tests of syscall_sleep's loop.
LEMMA SleepStep ==
    ASSUME OneHartInv, SleepWake(Hart0) \/ SleepAgain(Hart0)
                         \/ \E n \in 0..MaxSleep : SysSleep(Hart0, n)
    PROVE  OneHartInv'
  <1>1. TypeOK /\ (Pc \in Yielding => Cur \in Proc)
    BY LinkedType DEF OneHartInv, RoleInv, OnHart, Active, Yielding, Code, TrapLabels
  <1>2. CASE SleepWake(Hart0)
    <2>1. /\ Pc = "z_wake" /\ Pc' \in {"l_loop", "w_scan"} /\ Ret' = Ret /\ left' = left
          /\ \A p \in Proc \ {Cur} : chan'[p] = chan[p]
          /\ UNCHANGED <<list, state, parent, ctx, dup, schedVars>>
      BY <1>1, <1>2, HartAssumption DEF TypeOK, SleepWake, Goto, At, Pc, Ret, Cur, localVars
    <2>2. TypeOK'
      BY <1>1, <1>2 DEF TypeOK, SleepWake, Goto, At, localVars, schedVars,
         Labels, SchedLabels, TrapLabels, ProcLabels
    <2> QED
      BY <2>1, <2>2, Straight DEF Active, Yielding
  <1>3. ASSUME NEW n \in 0..MaxSleep, At(Hart0, {"sys", "l_loop"}), SleepLoop(Hart0, n)
        PROVE  OneHartInv'
    <2>1. /\ Pc \in {"sys", "l_loop"} /\ Pc' \in {"l_sleep", "u_check"} /\ Ret' = Ret
          /\ chan' = chan /\ \A p \in Proc \ {Cur} : left'[p] = left[p]
          /\ UNCHANGED <<list, state, parent, ctx, dup, schedVars>>
      BY <1>1, <1>3, HartAssumption DEF TypeOK, SleepLoop, At, Pc, Ret, Cur, tableVars
    <2>2. Pc' = "l_sleep" => tlock' = Hart0 /\ left'[Cur] > 0
      BY <1>1, <1>3, <2>1, HartAssumption DEF TypeOK, SleepLoop, Pc, Cur, Yielding
    <2>3. TypeOK'
      <3>1. at' \in [Hart -> Labels] /\ tlock' \in Hart \cup {NULL}
        BY <1>1, <1>3, HartAssumption DEF TypeOK, SleepLoop, Labels, ProcLabels
      <3>2. left' \in [Proc -> 0..MaxSleep]
        <4>1. 0 \in 0..MaxSleep
          BY SMT, BoundAssumption
        <4>2. \E m \in 0..MaxSleep : left' = [left EXCEPT ![running[Hart0]] = m]
          BY <1>3, <4>1 DEF SleepLoop
        <4> QED
          BY <1>1, <4>2 DEF TypeOK
      <3> QED
        BY <1>1, <1>3, <2>1, <3>1, <3>2 DEF TypeOK, SleepLoop, tableVars, schedVars
    <2> QED
      BY <2>1, <2>2, <2>3, Straight DEF Active, Yielding
  <1>4. CASE SleepAgain(Hart0)
    <2>1. left[Cur] \in 0..MaxSleep
      BY <1>1, <1>4 DEF TypeOK, SleepAgain, At, Pc, Yielding
    <2> QED
      BY <1>3, <1>4, <2>1 DEF SleepAgain, At, Cur
  <1> QED
    BY <1>2, <1>3, <1>4 DEF SysSleep, At

\* A timer interrupt: the handler returns to the code it interrupted.
LEMMA TrapStep1 ==
    ASSUME Uniprocessor, OneHartInv, Trap(Hart0)
    PROVE  OneHartInv'
  <1>1. TypeOK /\ HartInv
    BY DEF OneHartInv
  <1>2. /\ Pc \notin {"panic", "s_switch"} /\ Pc' = "t_tick" /\ sie'[Hart0] = FALSE
        /\ Ret' = IF Pc = "t_ret" THEN Ret ELSE Pc
        /\ Pc = "user" \/ (sie[Hart0] /\ tlock # Hart0)
    BY <1>1, HartAssumption DEF Uniprocessor, TypeOK, Trap, At, Panicked, Pc, Ret
  <1>3. UNCHANGED <<list, state, parent, chan, ctx, dup, left, schedVars>>
    BY DEF Trap, tableVars, localVars
  <1>4. /\ Pc \in TrapLabels => Pc = "t_ret"
        /\ Pc # "l_sleep" /\ Pc' \in TrapLabels \ {"t_ret"}
    BY <1>1, <1>2 DEF HartInv, TrapLabels
  <1>5. HartInv'
    BY <1>1, <1>2, <1>4 DEF HartInv, OnHart, Active, Yielding, SchedLabels, TrapLabels
  <1>6. Code' = Code
    BY <1>2, <1>4 DEF Code, TrapLabels
  <1>7. TypeOK'
    <2>1. at' \in [Hart -> Labels] /\ back' \in [Hart -> Labels]
      BY <1>1 DEF TypeOK, Trap, Labels, TrapLabels
    <2>2. sie' \in [Hart -> BOOLEAN] /\ tlock' = tlock /\ killed' = killed
      BY <1>1 DEF TypeOK, Trap, tableVars
    <2> QED
      BY <1>1, <1>3, <2>1, <2>2 DEF TypeOK, schedVars
  <1>8. Pc \notin {"y_switch", "t_wakeup"} /\ Pc' # "y_switch"
    BY <1>2, <1>4 DEF TrapLabels
  <1> QED
    BY <1>3, <1>5, <1>6, <1>7, <1>8, HartMove

\* Counting the tick and deciding whether to yield.
LEMMA TickStep ==
    ASSUME OneHartInv, TickCount(Hart0) \/ TrapTest(Hart0)
    PROVE  OneHartInv'
  <1>1. TypeOK /\ HartInv /\ RoleInv /\ StateInv
    BY DEF OneHartInv
  <1>2. /\ UNCHANGED <<list, state, parent, chan, ctx, dup, schedVars, back, sie, tlock, killed>>
        /\ Pc \in {"t_tick", "t_test"} /\ Pc' \in {"t_wakeup", "y_set", "t_ret"}
        /\ Ret' = Ret /\ sie' = sie
    BY <1>1, HartAssumption DEF TypeOK, TickCount, TrapTest, Goto, At, Pc, Ret,
       tableVars, localVars
  <1>3. Pc' = "t_wakeup" \/ left' = left
    BY <1>1, <1>2, HartAssumption DEF TypeOK, TickCount, TrapTest, Goto, Pc, localVars
  <1>4. Code = Ret /\ Code' = Ret'
    BY <1>2 DEF Code, TrapLabels
  <1>5. Pc' = "y_set" => Ret \in Yielding
    <2> SUFFICES ASSUME Pc' = "y_set" PROVE Ret \in Yielding
      OBVIOUS
    <2>1. Ret = "user" \/ (Cur # NULL /\ state[Cur] = "RUNNING")
      BY <1>1, HartAssumption DEF TypeOK, TickCount, TrapTest, Goto, Pc, Ret, Cur
    <2>2. Ret \in (OnHart \ {"l_sleep", "panic"}) \cup (SchedLabels \ {"s_switch"})
      BY <1>1, <1>2 DEF HartInv, TrapLabels
    <2> QED
      BY <1>1, <1>4, <2>1, <2>2 DEF RoleInv, StateInv, OnHart, Active, Yielding, SchedLabels
  <1>6. HartInv'
    BY <1>1, <1>2, <1>5 DEF HartInv, TrapLabels
  <1>7. TypeOK'
    <2>1. at' \in [Hart -> Labels]
      BY <1>1 DEF TypeOK, TickCount, TrapTest, Goto, Labels, TrapLabels
    <2>2. left' \in [Proc -> 0..MaxSleep]
      BY SMT, <1>1, BoundAssumption DEF TypeOK, TickCount, TrapTest, localVars
    <2> QED
      BY <1>1, <1>2, <2>1, <2>2 DEF TypeOK, schedVars
  <1> QED
    BY <1>2, <1>3, <1>4, <1>6, <1>7, HartMove

\* The handler returns.
LEMMA TrapReturnStep ==
    ASSUME OneHartInv, TrapReturn(Hart0)
    PROVE  OneHartInv'
  <1>1. TypeOK /\ HartInv
    BY DEF OneHartInv
  <1>2. /\ Pc = "t_ret" /\ Pc' = (IF Ret = "user" THEN "u_check" ELSE Ret) /\ Ret' = "none"
        /\ UNCHANGED <<list, state, parent, chan, ctx, dup, left, schedVars>>
    BY <1>1, HartAssumption DEF TypeOK, TrapReturn, Goto, At, Pc, Ret, tableVars, localVars
  <1>3. Ret \in (OnHart \ {"l_sleep", "panic"}) \cup (SchedLabels \ {"s_switch"})
    BY <1>1, <1>2 DEF HartInv, TrapLabels
  <1>4. Pc' \notin TrapLabels /\ Pc' \in OnHart \cup SchedLabels /\ Pc' # "l_sleep"
    BY <1>2, <1>3 DEF TrapLabels, OnHart, Active, Yielding, SchedLabels
  <1>5. HartInv'
    BY <1>2, <1>4 DEF HartInv, TrapLabels
  <1>6. Code = Ret /\ Code' = Pc'
    BY <1>2, <1>4 DEF Code, TrapLabels
  <1>7. TypeOK'
    <2>1. at' \in [Hart -> Labels] /\ back' \in [Hart -> Labels]
      BY <1>1 DEF TypeOK, TrapReturn, Goto, Labels, ProcLabels
    <2>2. sie' \in [Hart -> BOOLEAN] /\ tlock' = tlock /\ killed' = killed
      BY <1>1 DEF TypeOK, TrapReturn, tableVars
    <2> QED
      BY <1>1, <1>2, <2>1, <2>2 DEF TypeOK, schedVars
  <1> QED
    BY <1>2, <1>4, <1>5, <1>6, <1>7, HartMove DEF TrapLabels, Active, Yielding

\* proc_wakeup and proc_kill only make sleepers runnable, and proc_wakeup
\* leaves none on its channel.
LEMMA WokenFacts ==
    ASSUME TypeOK, NEW c
    PROVE  /\ Woken(c) \in [Proc -> States]
           /\ \A p \in Proc : \/ Woken(c)[p] = state[p]
                              \/ state[p] = "SLEEPING" /\ Woken(c)[p] = "RUNNABLE"
           /\ \A p \in Linked : Woken(c)[p] = "SLEEPING" => chan[p] # c
  BY LinkedType DEF TypeOK, Woken, States

\* The wakeup of tick_handler.
LEMMA TickWakeupStep ==
    ASSUME OneHartInv, TickWakeup(Hart0)
    PROVE  OneHartInv'
  <1>1. TypeOK /\ HartInv /\ AwakeInv /\ Linked \subseteq Proc
    BY LinkedType DEF OneHartInv
  <1>2. /\ Pc = "t_wakeup" /\ Pc' = "t_test" /\ state' = Woken(Tick)
        /\ UNCHANGED <<list, killed, parent, chan, ctx, dup, left, back, sie, schedVars, tlock>>
    BY <1>1, HartAssumption DEF TypeOK, TickWakeup, Goto, At, Pc, localVars
  <1>3. Linked' = Linked /\ ListInv' /\ Cur' = Cur /\ Pos' = Pos /\ hctx' = hctx /\ Ret' = Ret
    BY <1>2 DEF OneHartInv, Linked, ListInv, Cur, Pos, schedVars, Ret
  <1>4. Code' = Code
    BY <1>2, <1>3 DEF Code, TrapLabels
  <1>5. HartInv'
    BY <1>1, <1>2, <1>3 DEF HartInv, TrapLabels
  <1>6. TypeOK'
    <2>1. at' \in [Hart -> Labels]
      BY <1>1 DEF TypeOK, TickWakeup, Goto, Labels, TrapLabels
    <2> QED
      BY <1>1, <1>2, <2>1, WokenFacts DEF TypeOK, schedVars
  <1>7. AwakeInv'
    <2>1. \A p \in Linked : state'[p] = "SLEEPING" => state[p] = "SLEEPING" /\ chan[p] # Tick
      BY <1>1, <1>2, WokenFacts
    <2>2. \A p \in Linked : state'[p] = "ZOMBIE" => state[p] = "ZOMBIE"
      BY <1>1, <1>2, WokenFacts
    <2>3. ASSUME NEW p \in Linked, state'[p] = "SLEEPING", chan[p] = p
          PROVE  /\ \E q \in Linked : parent[q] = p
                 /\ (\E q \in Linked : parent[q] = p /\ state'[q] = "ZOMBIE") =>
                      Code = "x_wakeup" /\ Cur \in Linked /\ parent[Cur] = p
      BY <1>1, <2>1, <2>2, <2>3 DEF AwakeInv
    <2> QED
      BY SMT, <1>2, <1>3, <1>4, <2>1, <2>3 DEF AwakeInv
  <1> QED
    BY <1>1, <1>2, <1>3, <1>4, <1>5, <1>6, <1>7, WokenFacts, Move

\* proc_wakeup(p->parent) of proc_exit: a parent asleep in wait is woken.
LEMMA ExitWakeupStep ==
    ASSUME OneHartInv, ExitWakeup(Hart0)
    PROVE  OneHartInv'
  <1>1. TypeOK /\ HartInv /\ AwakeInv /\ Linked \subseteq Proc
    BY LinkedType DEF OneHartInv
  <1>2. /\ Pc = "x_wakeup" /\ Pc' = "x_switch" /\ state' = Woken(parent[Cur])
        /\ UNCHANGED <<list, killed, parent, chan, ctx, dup, left, back, sie, schedVars, tlock>>
    BY <1>1, HartAssumption DEF TypeOK, ExitWakeup, Goto, At, Pc, Cur, localVars
  <1>3. Linked' = Linked /\ ListInv' /\ Cur' = Cur /\ Pos' = Pos /\ hctx' = hctx /\ Ret' = Ret
    BY <1>2 DEF OneHartInv, Linked, ListInv, Cur, Pos, schedVars, Ret
  <1>4. Code = "x_wakeup" /\ Code' = "x_switch"
    BY <1>2, <1>3 DEF Code, TrapLabels
  <1>5. HartInv'
    BY <1>1, <1>2, <1>3 DEF HartInv, TrapLabels, OnHart
  <1>6. TypeOK'
    <2>1. at' \in [Hart -> Labels]
      BY <1>1 DEF TypeOK, ExitWakeup, Goto, Labels, ProcLabels
    <2> QED
      BY <1>1, <1>2, <2>1, WokenFacts DEF TypeOK, schedVars
  <1>7. AwakeInv'
    <2>1. \A p \in Linked : state'[p] = "SLEEPING" =>
             state[p] = "SLEEPING" /\ chan[p] # parent[Cur]
      BY SMT, <1>1, <1>2, WokenFacts
    <2>2. \A p \in Linked : state'[p] = "ZOMBIE" => state[p] = "ZOMBIE"
      BY <1>1, <1>2, WokenFacts
    <2>3. ASSUME NEW p \in Linked, state'[p] = "SLEEPING", chan[p] = p
          PROVE  /\ \E q \in Linked : parent[q] = p
                 /\ ~ \E q \in Linked : parent[q] = p /\ state'[q] = "ZOMBIE"
      BY SMT, <1>1, <2>1, <2>2, <2>3 DEF AwakeInv
    <2>4. ASSUME NEW p \in Linked, state'[p] = "SLEEPING", chan[p] = Tick
          PROVE  left[p] > 0
      BY <1>1, <1>2, <2>1, <2>4 DEF AwakeInv
    <2>5. chan' = chan /\ parent' = parent /\ left' = left
      BY <1>2
    <2> QED
      BY SMT, <1>3, <2>3, <2>4, <2>5 DEF AwakeInv
  <1> QED
    BY SMT, <1>1, <1>2, <1>3, <1>4, <1>5, <1>6, <1>7, WokenFacts, Move

\* proc_kill wakes its target, wherever it sleeps.
LEMMA SysKillStep ==
    ASSUME OneHartInv, NEW q \in Proc, SysKill(Hart0, q)
    PROVE  OneHartInv'
  <1>1. TypeOK /\ HartInv /\ AwakeInv /\ Linked \subseteq Proc
    BY LinkedType DEF OneHartInv
  <1>2. /\ Pc = "sys" /\ Pc' = "u_check"
        /\ UNCHANGED <<list, parent, chan, ctx, dup, left, back, sie, schedVars, tlock>>
    BY <1>1, HartAssumption DEF TypeOK, SysKill, Goto, At, Pc, localVars
  <1>3. Linked' = Linked /\ ListInv' /\ Cur' = Cur /\ Pos' = Pos /\ hctx' = hctx /\ Ret' = Ret
    BY <1>2 DEF OneHartInv, Linked, ListInv, Cur, Pos, schedVars, Ret
  <1>4. Code = "sys" /\ Code' = "u_check"
    BY <1>2, <1>3 DEF Code, TrapLabels
  <1>5. HartInv'
    BY <1>1, <1>2, <1>3 DEF HartInv, TrapLabels, OnHart, Active, Yielding
  <1>6. \A p \in Proc : \/ state'[p] = state[p]
                        \/ state[p] = "SLEEPING" /\ state'[p] = "RUNNABLE"
    BY <1>1 DEF TypeOK, SysKill
  <1>7. TypeOK'
    <2>1. state' \in [Proc -> States]
      BY <1>1 DEF TypeOK, SysKill, States
    <2>2. killed' \in [Proc -> BOOLEAN]
      BY <1>1 DEF TypeOK, SysKill
    <2>3. at' \in [Hart -> Labels]
      BY <1>1 DEF TypeOK, SysKill, Goto, Labels, ProcLabels
    <2> QED
      BY <1>1, <1>2, <2>1, <2>2, <2>3 DEF TypeOK, schedVars
  <1>8. AwakeInv'
    BY <1>1, <1>2, <1>3, <1>4, <1>6, Quiet
  <1> QED
    BY <1>2, <1>3, <1>4, <1>5, <1>6, <1>7, <1>8, Move DEF Active, Yielding

-----------------------------------------------------------------------------
(* scheduler(), scheduler_yield, proc_sleep and the switch of proc_exit *)

\* The loop variable ranges over the list.
LEMMA RestLinked ==
    ASSUME TypeOK, NEW i \in DOMAIN Rest(Hart0)
    PROVE  Rest(Hart0)[i] \in Linked
  <1>1. CASE Rest(Hart0) = list
    BY <1>1 DEF Linked
  <1>2. ASSUME NEW k \in DOMAIN list, Rest(Hart0) = SubSeq(list, k + 1, Len(list))
        PROVE  Rest(Hart0)[i] \in Linked
    BY SMTT(30), <1>2 DEF TypeOK, Linked
  <1>3. CASE Rest(Hart0) = <<>>
    BY SMT, <1>3
  <1> QED
    BY <1>1, <1>2, <1>3 DEF Rest

\* Steps of scheduler() outside the dispatch: nobody is running.
LEMMA IdleStep ==
    ASSUME OneHartInv,
           \/ SchedTop(Hart0) \/ SchedBack(Hart0)
           \/ SchedScan(Hart0) /\ Pc' = "s_top"
    PROVE  OneHartInv'
  <1>1. /\ TypeOK /\ HartInv /\ RoleInv /\ StateInv /\ ContextInv /\ OwnContext
        /\ ForkInv /\ ParentInv /\ AwakeInv /\ Linked \subseteq Proc
    BY LinkedType DEF OneHartInv
  <1>2. /\ Pc \in {"s_top", "s_scan", "s_back"} /\ Pc' \in {"s_top", "s_scan"}
        /\ Pc # "s_back" => Cur' = Cur
        /\ Pc = "s_back" => Cur' = NULL
        /\ Pos' \in {Pos, NULL}
        /\ UNCHANGED <<list, state, killed, parent, chan, ctx, dup, left, back, hctx, tlock>>
    BY <1>1, HartAssumption DEF TypeOK, SchedTop, SchedBack, SchedScan, Goto, At, Pc, Cur, Pos,
       tableVars, localVars, schedVars
  <1>3. /\ Linked' = Linked /\ ListInv' /\ Ret' = Ret /\ Ret = "none"
        /\ Code = Pc /\ Code' = Pc' /\ Cur' = NULL
    BY <1>1, <1>2 DEF OneHartInv, Linked, ListInv, Ret, Code, TrapLabels, HartInv, RoleInv
  <1>4. TypeOK'
    <2>1. /\ spos' \in {spos, [spos EXCEPT ![Hart0] = NULL]}
          /\ running' \in {running, [running EXCEPT ![Hart0] = NULL]}
          /\ at' \in {[at EXCEPT ![Hart0] = "s_top"], [at EXCEPT ![Hart0] = "s_scan"]}
      BY SMT, <1>1, HartAssumption DEF TypeOK, SchedTop, SchedBack, SchedScan, Goto, schedVars, Pc
    <2>2. sie' \in [Hart -> BOOLEAN]
      BY <1>1 DEF TypeOK, SchedTop, SchedBack, SchedScan
    <2> QED
      BY <1>1, <1>2, <2>1, <2>2 DEF TypeOK, Labels, SchedLabels
  <1>5. HartInv'
    BY <1>1, <1>2, <1>3 DEF HartInv, TrapLabels, SchedLabels
  <1>6. \A p : ~Executes(p) /\ ~Executes(p)'
    BY <1>2, <1>3 DEF Executes, OnHart, Active, Yielding
  <1>7. RoleInv' /\ StateInv'
    BY <1>1, <1>2, <1>3, <1>6 DEF RoleInv, StateInv, OnHart, Active, Yielding
  <1>8. ContextInv' /\ OwnContext' /\ ForkInv' /\ ParentInv'
    BY SMT, <1>1, <1>2, <1>3, <1>6 DEF ContextInv, Resumes, OwnContext, ForkInv, Copying, ParentInv
  <1>9. AwakeInv'
    BY <1>1, <1>2, <1>3, Quiet
  <1> QED
    BY <1>3, <1>4, <1>5, <1>7, <1>8, <1>9 DEF OneHartInv

\* Choosing a RUNNABLE entry of the list.
LEMMA DispatchStep ==
    ASSUME OneHartInv, SchedScan(Hart0), Pc' # "s_top"
    PROVE  OneHartInv'
  <1>1. /\ TypeOK /\ HartInv /\ RoleInv /\ StateInv /\ ContextInv /\ OwnContext
        /\ ForkInv /\ ParentInv /\ AwakeInv /\ Linked \subseteq Proc
    BY LinkedType DEF OneHartInv
  <1>2. PICK i \in DOMAIN Rest(Hart0) :
           /\ state[Rest(Hart0)[i]] = "RUNNABLE" /\ Goto(Hart0, "s_scan", "s_run")
           /\ state' = [state EXCEPT ![Rest(Hart0)[i]] = "RUNNING"]
           /\ spos' = [spos EXCEPT ![Hart0] = Rest(Hart0)[i]]
    BY <1>1, HartAssumption DEF SchedScan, Goto, TypeOK, Pc
  <1> DEFINE r == Rest(Hart0)[i]
  <1>3. r \in Linked /\ r \in Proc
    BY <1>1, RestLinked
  <1> HIDE DEF r
  <1>4. /\ UNCHANGED <<list, killed, parent, chan, ctx, dup, left, back, sie, running, hctx, tlock>>
        /\ Pc = "s_scan" /\ Pc' = "s_run" /\ Pos' = r /\ Cur' = Cur /\ Ret' = Ret
        /\ state[r] = "RUNNABLE" /\ state'[r] = "RUNNING"
        /\ \A p \in Proc \ {r} : state'[p] = state[p]
    BY <1>1, <1>2, <1>3, HartAssumption DEF TypeOK, SchedScan, Goto, At, Pc, Cur, Pos, Ret, localVars, r
  <1>5. /\ Linked' = Linked /\ ListInv' /\ Ret = "none"
        /\ Code = Pc /\ Code' = Pc' /\ Cur = NULL
    BY SMT, <1>1, <1>4 DEF OneHartInv, Linked, ListInv, Code, TrapLabels, HartInv, RoleInv
  <1>6. TypeOK'
    BY <1>1, <1>2, <1>3, <1>4 DEF TypeOK, Goto, Labels, SchedLabels, States, r
  <1>7. HartInv'
    BY <1>1, <1>4, <1>5 DEF HartInv, TrapLabels, SchedLabels
  <1>8. \A p : ~Executes(p) /\ ~Executes(p)'
    BY <1>4, <1>5 DEF Executes, OnHart, Active, Yielding
  <1>9. RoleInv' /\ StateInv'
    BY <1>1, <1>3, <1>4, <1>5, <1>8 DEF RoleInv, StateInv, OnHart, Active, Yielding
  <1>10. ContextInv' /\ OwnContext'
    BY <1>1, <1>3, <1>4, <1>5, <1>8 DEF ContextInv, Resumes, OwnContext
  <1>11. ForkInv' /\ ParentInv'
    BY SMT, <1>1, <1>3, <1>4, <1>5, <1>8 DEF ForkInv, Copying, ParentInv
  <1>12. AwakeInv'
    BY <1>1, <1>3, <1>4, <1>5, Quiet
  <1> QED
    BY <1>5, <1>6, <1>7, <1>9, <1>10, <1>11, <1>12 DEF OneHartInv

\* hart->running_proc = p
LEMMA SchedRunStep ==
    ASSUME OneHartInv, SchedRun(Hart0)
    PROVE  OneHartInv'
  <1>1. /\ TypeOK /\ HartInv /\ RoleInv /\ StateInv /\ ContextInv /\ OwnContext
        /\ ForkInv /\ ParentInv /\ AwakeInv /\ Linked \subseteq Proc
    BY LinkedType DEF OneHartInv
  <1>2. /\ UNCHANGED <<list, state, killed, parent, chan, ctx, dup, left, back, sie, spos, hctx, tlock>>
        /\ Pc = "s_run" /\ Pc' = "s_switch" /\ Cur' = Pos /\ Pos' = Pos /\ Ret' = Ret
    BY <1>1, HartAssumption DEF TypeOK, SchedRun, Goto, At, Pc, Cur, Pos, Ret, tableVars, localVars
  <1>3. /\ Linked' = Linked /\ ListInv' /\ Ret = "none" /\ Code = Pc /\ Code' = Pc'
    BY <1>1, <1>2 DEF OneHartInv, Linked, ListInv, Code, TrapLabels, HartInv
  <1>4. TypeOK'
    BY <1>1, <1>2 DEF TypeOK, SchedRun, Goto, Labels, SchedLabels
  <1>5. HartInv'
    BY <1>1, <1>2, <1>3 DEF HartInv, TrapLabels, SchedLabels
  <1>6. \A p : ~Executes(p) /\ ~Executes(p)'
    BY <1>2, <1>3 DEF Executes, OnHart, Active, Yielding
  <1>7. RoleInv' /\ StateInv'
    BY <1>1, <1>2, <1>3, <1>6 DEF RoleInv, StateInv, OnHart, Active, Yielding
  <1>8. ContextInv' /\ OwnContext' /\ ForkInv' /\ ParentInv'
    BY SMT, <1>1, <1>2, <1>3, <1>6 DEF ContextInv, Resumes, OwnContext, ForkInv, Copying, ParentInv
  <1>9. AwakeInv'
    BY <1>1, <1>2, <1>3, Quiet
  <1> QED
    BY <1>3, <1>4, <1>5, <1>7, <1>8, <1>9 DEF OneHartInv

\* The switch resumes the process where it was switched out, never in the
\* code of scheduler() and never behind the end of proc_exit.
LEMMA SchedSwitchStep ==
    ASSUME OneHartInv, SchedSwitch(Hart0)
    PROVE  OneHartInv'
  <1>1. /\ TypeOK /\ HartInv /\ RoleInv /\ StateInv /\ ContextInv /\ OwnContext
        /\ ForkInv /\ ParentInv /\ AwakeInv /\ Linked \subseteq Proc
    BY LinkedType DEF OneHartInv
  <1>2. /\ UNCHANGED <<list, state, killed, parent, chan, ctx, dup, left, sie, spos, running, tlock>>
        /\ Pc = "s_switch" /\ Pc' = ctx[Pos].at /\ Ret' = ctx[Pos].back
        /\ hctx'[Hart0] = "s_back" /\ Cur' = Cur /\ Pos' = Pos
    BY <1>1, HartAssumption DEF TypeOK, SchedSwitch, At, Pc, Cur, Pos, Ret, tableVars, localVars
  <1>3. Linked' = Linked /\ ListInv' /\ Code = Pc
    BY <1>2 DEF OneHartInv, Linked, ListInv, Code, TrapLabels
  <1>4. /\ Pos \in Linked /\ Pos \in Proc /\ Cur = Pos /\ state[Pos] = "RUNNING"
        /\ \A p : ~Executes(p)
    BY <1>1, <1>2, <1>3 DEF RoleInv, Executes, OnHart, Active, Yielding
  <1>5. \/ Pc' \in {"u_return", "z_wake"} /\ Ret' = "none" /\ Code' = Pc'
        \/ Pc' = "t_ret" /\ Ret' \in Yielding /\ Code' = Ret'
    BY <1>1, <1>2, <1>4 DEF ContextInv, Resumes, Code, TrapLabels
  <1>6. TypeOK'
    BY <1>1, <1>2, <1>4 DEF TypeOK, SchedSwitch, Pos
  <1>7. HartInv'
    BY <1>5 DEF HartInv, TrapLabels, OnHart, Active, Yielding
  <1>8. /\ Code' \in Yielding /\ Code' \in Active /\ Code' \in OnHart /\ Pc' # "y_switch"
        /\ \A p : Executes(p)' <=> p = Cur
    BY <1>2, <1>5 DEF Executes, OnHart, Active, Yielding
  <1>9. RoleInv' /\ StateInv'
    BY <1>1, <1>2, <1>3, <1>4, <1>8 DEF RoleInv, StateInv, Active, Yielding
  <1>10. ContextInv' /\ OwnContext' /\ ParentInv'
    BY <1>1, <1>2, <1>3, <1>4, <1>8 DEF ContextInv, Resumes, OwnContext, ParentInv
  <1>11. ForkInv'
    <2>1. \A p \in Linked : Copying(p)' => Copying(p)
      BY SMT, <1>2, <1>4, <1>5, <1>8 DEF Copying, Yielding
    <2> QED
      BY <1>1, <1>2, <1>3, <2>1 DEF ForkInv
  <1>12. AwakeInv'
    BY <1>1, <1>2, <1>3, Quiet
  <1> QED
    BY <1>3, <1>6, <1>7, <1>9, <1>10, <1>11, <1>12 DEF OneHartInv

\* The first half of scheduler_yield: the process is still on the hart.
LEMMA YieldSetStep ==
    ASSUME OneHartInv, YieldSet(Hart0)
    PROVE  OneHartInv'
  <1>1. /\ TypeOK /\ HartInv /\ RoleInv /\ StateInv /\ ContextInv /\ OwnContext
        /\ ForkInv /\ ParentInv /\ AwakeInv /\ Linked \subseteq Proc
    BY LinkedType DEF OneHartInv
  <1>2. /\ Pc = "y_set" /\ Pc' = "y_switch" /\ Ret' = Ret /\ Cur' = Cur /\ Pos' = Pos
        /\ UNCHANGED <<list, killed, parent, chan, ctx, dup, left, back, sie, schedVars, tlock>>
    BY <1>1, HartAssumption DEF TypeOK, YieldSet, Goto, At, Pc, Ret, Cur, Pos, localVars, schedVars
  <1>3. /\ Linked' = Linked /\ ListInv' /\ Code = Ret /\ Code' = Ret /\ hctx' = hctx
        /\ Ret \in Yielding /\ Code \in Active /\ Code \in OnHart /\ Cur \in Linked
    BY <1>1, <1>2 DEF OneHartInv, Linked, ListInv, Code, TrapLabels, HartInv, RoleInv,
       OnHart, Active, schedVars
  <1>4. /\ state[Cur] = "RUNNING" /\ state'[Cur] = "RUNNABLE"
        /\ \A p \in Proc \ {Cur} : state'[p] = state[p]
    BY <1>1, <1>2, <1>3 DEF TypeOK, StateInv, YieldSet, Cur
  <1>5. TypeOK'
    <2>1. at' \in [Hart -> Labels] /\ state' \in [Proc -> States]
      BY <1>1 DEF TypeOK, YieldSet, Goto, Labels, TrapLabels, States
    <2> QED
      BY <1>1, <1>2, <2>1 DEF TypeOK, schedVars
  <1>6. HartInv'
    BY <1>1, <1>2, <1>3 DEF HartInv, TrapLabels
  <1>7. \A p : Executes(p)' <=> Executes(p)
    BY <1>2, <1>3 DEF Executes
  <1>8. RoleInv' /\ StateInv'
    BY <1>1, <1>2, <1>3, <1>4, <1>7 DEF RoleInv, StateInv, Executes, Yielding
  <1>9. ContextInv' /\ OwnContext'
    BY <1>1, <1>2, <1>3, <1>4, <1>7 DEF ContextInv, Resumes, OwnContext, Executes
  <1>10. ForkInv' /\ ParentInv'
    BY SMT, <1>1, <1>2, <1>3, <1>4, <1>7 DEF ForkInv, Copying, ParentInv
  <1>11. AwakeInv'
    BY <1>1, <1>2, <1>3, <1>4, Quiet DEF Yielding
  <1> QED
    BY <1>3, <1>5, <1>6, <1>8, <1>9, <1>10, <1>11 DEF OneHartInv

\* scheduler_switch saves the process where it can be resumed; one that has
\* exited is left at a label nobody resumes.
LEMMA SwitchOutStep ==
    ASSUME OneHartInv,
           \/ YieldSwitch(Hart0) \/ SleepSwitch(Hart0) \/ ExitSwitch(Hart0)
    PROVE  OneHartInv'
  <1>1. /\ TypeOK /\ HartInv /\ RoleInv /\ StateInv /\ ContextInv /\ OwnContext
        /\ ForkInv /\ ParentInv /\ AwakeInv /\ Linked \subseteq Proc
    BY LinkedType DEF OneHartInv
  <1>2. PICK l \in {"t_ret", "z_wake", "x_end"} :
           /\ SwitchOut(Hart0, l)
           /\ l = "t_ret" => Pc = "y_switch"
           /\ l = "z_wake" => Pc = "z_switch"
           /\ l = "x_end" => Pc = "x_switch"
           /\ UNCHANGED <<tableVars, localVars, sie, schedVars, tlock>>
    BY DEF YieldSwitch, SleepSwitch, ExitSwitch, At, Pc
  <1>3. /\ Code \in OnHart /\ Cur \in Linked /\ Cur \in Proc /\ hctx[Hart0] = "s_back"
        /\ l = "t_ret" => Code = Ret /\ Ret \in Yielding /\ state[Cur] = "RUNNABLE"
        /\ l = "z_wake" => Code = "z_switch" /\ Ret = "none"
                             /\ state[Cur] \in {"SLEEPING", "RUNNABLE"}
        /\ l = "x_end" => Code = "x_switch" /\ Ret = "none" /\ state[Cur] = "ZOMBIE"
    BY <1>1, <1>2 DEF HartInv, RoleInv, StateInv, Code, OnHart, Active, TrapLabels
  <1>4. /\ Pc' = "s_back" /\ Ret' = "none" /\ Cur' = Cur /\ Pos' = Pos /\ Code' = "s_back"
        /\ Linked' = Linked /\ ListInv'
        /\ UNCHANGED <<list, state, killed, parent, chan, dup, left, sie, schedVars, tlock>>
        /\ ctx'[Cur].at = l /\ ctx'[Cur].back = Ret
        /\ \A p \in Proc \ {Cur} : ctx'[p] = ctx[p]
    <2>1. Pc' = "s_back" /\ Ret' = "none"
      BY <1>1, <1>2, <1>3, HartAssumption DEF TypeOK, SwitchOut, Pc, Ret
    <2>2. /\ UNCHANGED <<list, state, killed, parent, chan, dup, left, sie, schedVars, tlock>>
          /\ Linked' = Linked /\ ListInv' /\ Cur' = Cur /\ Pos' = Pos
      BY <1>2 DEF OneHartInv, Linked, ListInv, Cur, Pos, tableVars, localVars, schedVars
    <2>3. /\ ctx'[Cur].at = l /\ ctx'[Cur].back = Ret
          /\ \A p \in Proc \ {Cur} : ctx'[p] = ctx[p]
      BY <1>1, <1>2, <1>3 DEF TypeOK, SwitchOut, Ret, Cur
    <2> QED
      BY <2>1, <2>2, <2>3 DEF Code, TrapLabels
  <1>5. TypeOK'
    <2>1. at' \in [Hart -> Labels] /\ back' \in [Hart -> Labels]
      BY <1>1, <1>2, <1>3 DEF TypeOK, SwitchOut, Labels, SchedLabels
    <2>2. ctx' \in [Proc -> [at : Labels, back : Labels]]
      BY <1>1, <1>2, HartAssumption DEF TypeOK, SwitchOut, Labels, TrapLabels, ProcLabels
    <2> QED
      BY <1>1, <1>4, <2>1, <2>2 DEF TypeOK, schedVars
  <1>6. HartInv'
    BY <1>4 DEF HartInv, TrapLabels, SchedLabels
  <1>7. \A p : /\ Executes(p) <=> p = Cur
               /\ ~Executes(p)'
    BY <1>3, <1>4 DEF Executes, OnHart, Active, Yielding
  <1>8. RoleInv' /\ StateInv'
    BY <1>1, <1>2, <1>3, <1>4, <1>7 DEF RoleInv, StateInv, OnHart, Active, Yielding
  <1>9. ContextInv' /\ OwnContext'
    <2>1. Resumes(Cur)' /\ ctx'[Cur].at \notin SchedLabels /\ ctx'[Cur].back \notin SchedLabels
      BY <1>2, <1>3, <1>4 DEF Resumes, SchedLabels, Yielding
    <2>2. \A p \in Linked \ {Cur} : Resumes(p)'
      BY <1>1, <1>4, <1>7 DEF ContextInv, Resumes
    <2>3. ContextInv'
      BY <1>4, <2>1, <2>2 DEF ContextInv
    <2>4. OwnContext'
      BY <1>1, <1>4, <2>1 DEF OwnContext
    <2> QED
      BY <2>3, <2>4
  <1>10. ForkInv' /\ ParentInv'
    <2>1. \A p \in Linked : Copying(p)' => Copying(p)
      BY SMT, <1>1, <1>2, <1>3, <1>4, <1>7 DEF Copying
    <2> QED
      BY <1>1, <1>4, <2>1 DEF ForkInv, ParentInv
  <1>11. AwakeInv'
    BY <1>1, <1>2, <1>3, <1>4, Quiet DEF Yielding
  <1> QED
    BY <1>4, <1>5, <1>6, <1>8, <1>9, <1>10, <1>11 DEF OneHartInv

\* proc_sleep up to its switch: the sleeper has a tick or a living child to
\* wait for when it goes to sleep, under the lock of whoever wakes it.
LEMMA FallAsleepStep ==
    ASSUME OneHartInv, NEW c \in {Cur, Tick}, Pc \in {"sys", "w_scan", "l_sleep"},
           at' = [at EXCEPT ![Hart0] = "z_switch"], FallAsleep(Cur, c),
           UNCHANGED <<list, killed, parent, ctx, localVars, back, sie, schedVars>>,
           tlock' \in {tlock, NULL},
           c = Tick => left[Cur] > 0,
           c = Cur => /\ Children(Cur) # {}
                      /\ \A q \in Children(Cur) : state[q] # "ZOMBIE"
    PROVE  OneHartInv'
  <1>1. /\ TypeOK /\ HartInv /\ RoleInv /\ StateInv /\ ContextInv /\ OwnContext
        /\ ForkInv /\ ParentInv /\ AwakeInv /\ Linked \subseteq Proc
    BY LinkedType DEF OneHartInv
  <1>2. /\ Pc' = "z_switch" /\ Ret' = Ret /\ Cur' = Cur /\ Pos' = Pos
        /\ hctx' = hctx /\ dup' = dup /\ left' = left /\ Linked' = Linked /\ ListInv'
    BY SMT, <1>1, HartAssumption DEF OneHartInv, TypeOK, Pc, Ret, Cur, Pos, localVars, schedVars,
       Linked, ListInv
  <1>3. /\ Code = Pc /\ Code' = "z_switch" /\ Ret = "none"
        /\ Cur \in Linked /\ Cur = Pos /\ hctx[Hart0] = "s_back" /\ state[Cur] = "RUNNING"
    BY <1>1, <1>2 DEF Code, TrapLabels, HartInv, RoleInv, StateInv, OnHart, Active, Yielding
  <1>4. /\ state'[Cur] = "SLEEPING" /\ chan'[Cur] = c
        /\ \A p \in Proc \ {Cur} : state'[p] = state[p] /\ chan'[p] = chan[p]
    BY <1>1, <1>3 DEF TypeOK, FallAsleep
  <1>5. TypeOK'
    <2>1. at' \in [Hart -> Labels]
      BY <1>1 DEF TypeOK, Labels, ProcLabels
    <2>2. state' \in [Proc -> States] /\ chan' \in [Proc -> Proc \cup {NULL, Tick}]
      BY SMT, <1>1, <1>3 DEF TypeOK, FallAsleep, States
    <2> QED
      BY <1>1, <1>2, <2>1, <2>2 DEF TypeOK, schedVars
  <1>6. HartInv'
    BY <1>2, <1>3 DEF HartInv, TrapLabels, OnHart
  <1>7. \A p : (Executes(p)' <=> p = Cur) /\ (Executes(p) <=> p = Cur)
    BY <1>2, <1>3 DEF Executes, OnHart, Active, Yielding
  <1>8. RoleInv' /\ StateInv'
    BY <1>1, <1>2, <1>3, <1>4, <1>7 DEF RoleInv, StateInv, Active, Yielding
  <1>9. ContextInv' /\ OwnContext'
    BY <1>1, <1>2, <1>4, <1>7 DEF ContextInv, Resumes, OwnContext
  <1>10. ForkInv'
    <2>1. \A p \in Linked : Copying(p)' => Copying(p)
      BY <1>2, <1>3, <1>7 DEF Copying
    <2> QED
      BY <1>1, <1>2, <1>3, <1>4, <2>1 DEF ForkInv
  <1>11. ParentInv'
    BY <1>1, <1>2, <1>3, <1>4, ProcAssumption DEF ParentInv
  <1>12. AwakeInv'
    <2>1. \A q \in Linked : state'[q] = "ZOMBIE" <=> state[q] = "ZOMBIE"
      BY <1>1, <1>3, <1>4
    <2>2. ASSUME NEW p \in Linked, state'[p] = "SLEEPING", chan'[p] = p
          PROVE  /\ \E q \in Linked : parent[q] = p
                 /\ ~ \E q \in Linked : parent[q] = p /\ state'[q] = "ZOMBIE"
      <3>1. CASE p = Cur
        BY <1>3, <1>4, <2>1, <2>2, <3>1, ProcAssumption DEF Children
      <3>2. CASE p # Cur
        BY SMT, <1>1, <1>3, <1>4, <2>1, <2>2, <3>2 DEF AwakeInv
      <3> QED
        BY <3>1, <3>2
    <2>3. ASSUME NEW p \in Linked, state'[p] = "SLEEPING", chan'[p] = Tick
          PROVE  left[p] > 0
      <3>1. CASE p = Cur
        BY <1>3, <1>4, <2>3, <3>1, ProcAssumption
      <3>2. CASE p # Cur
        BY <1>1, <1>3, <1>4, <2>3, <3>2 DEF AwakeInv
      <3> QED
        BY <3>1, <3>2
    <2> QED
      BY SMT, <1>2, <2>2, <2>3 DEF AwakeInv
  <1> QED
    BY <1>2, <1>5, <1>6, <1>8, <1>9, <1>10, <1>11, <1>12 DEF OneHartInv

-----------------------------------------------------------------------------
(* The process list *)

Entries(s) == {s[i] : i \in DOMAIN s}
NoRepeat(s) == \A i, j \in DOMAIN s : s[i] = s[j] => i = j

\* The rest of proc_fork: the copy becomes runnable at utrap_return.
LEMMA ForkCopyStep ==
    ASSUME OneHartInv, ForkCopy(Hart0)
    PROVE  OneHartInv'
  <1>1. /\ TypeOK /\ HartInv /\ RoleInv /\ StateInv /\ ContextInv /\ OwnContext
        /\ ForkInv /\ ParentInv /\ AwakeInv /\ Linked \subseteq Proc
    BY LinkedType DEF OneHartInv
  <1> DEFINE d == dup[Cur]
  <1>2. /\ Pc = "f_copy" /\ Pc' = "u_check" /\ Ret' = Ret /\ Cur' = Cur /\ Pos' = Pos
        /\ UNCHANGED <<list, killed, chan, ctx, left, back, sie, schedVars, tlock>>
        /\ Linked' = Linked /\ ListInv'
    BY SMT, <1>1, HartAssumption DEF OneHartInv, TypeOK, ForkCopy, Goto, At, Pc, Ret, Cur, Pos,
       schedVars, Linked, ListInv
  <1>3. /\ Code = "f_copy" /\ Code' = "u_check" /\ Ret = "none" /\ hctx' = hctx
        /\ Cur \in Linked /\ Cur = Pos /\ hctx[Hart0] = "s_back" /\ state[Cur] = "RUNNING"
    BY <1>1, <1>2 DEF Code, TrapLabels, HartInv, RoleInv, StateInv, OnHart, Active, Yielding, schedVars
  <1>4. \A p : (Executes(p)' <=> p = Cur) /\ (Executes(p) <=> p = Cur)
    BY <1>2, <1>3 DEF Executes, OnHart, Active, Yielding
  <1>5. Copying(Cur) /\ d \in Linked /\ state[d] = "ALLOCATED" /\ parent[d] = NULL /\ d # Cur
    BY <1>1, <1>3, <1>4 DEF Copying, ForkInv, ParentInv
  <1>6. /\ state'[d] = "RUNNABLE" /\ parent'[d] = Cur
        /\ \A p \in Proc \ {d} : state'[p] = state[p] /\ parent'[p] = parent[p]
        /\ \A p \in Proc \ {Cur} : dup'[p] = dup[p]
    BY <1>1, <1>5 DEF TypeOK, ForkCopy, Cur
  <1>7. TypeOK'
    <2>1. at' \in [Hart -> Labels] /\ state' \in [Proc -> States]
      BY <1>1 DEF TypeOK, ForkCopy, Goto, Labels, ProcLabels, States
    <2>2. parent' \in [Proc -> Proc \cup {NULL}] /\ dup' \in [Proc -> Proc \cup {NULL}]
      BY <1>1, HartAssumption DEF TypeOK, ForkCopy
    <2> QED
      BY <1>1, <1>2, <2>1, <2>2 DEF TypeOK, schedVars
  <1> HIDE DEF d
  <1>8. HartInv'
    BY <1>2, <1>3 DEF HartInv, TrapLabels, OnHart, Active, Yielding
  <1>9. RoleInv' /\ StateInv'
    BY <1>1, <1>2, <1>3, <1>4, <1>5, <1>6 DEF RoleInv, StateInv, OnHart, Active, Yielding
  <1>10. ContextInv' /\ OwnContext'
    BY SMT, <1>1, <1>2, <1>4, <1>5, <1>6 DEF ContextInv, Resumes, OwnContext
  <1>11. ForkInv'
    <2>1. \A p \in Linked : Copying(p)' => Copying(p) /\ p # Cur
      BY <1>2, <1>3, <1>4 DEF Copying
    <2>2. \A p \in Linked : Copying(p)' => dup'[p] = dup[p] /\ dup[p] # d
      BY <1>1, <1>3, <1>5, <1>6, <2>1 DEF ForkInv, d
    <2> QED
      BY SMT, <1>1, <1>2, <1>6, <2>1, <2>2 DEF ForkInv
  <1>12. ParentInv'
    BY SMT, <1>1, <1>2, <1>3, <1>5, <1>6 DEF ParentInv
  <1>13. AwakeInv'
    BY <1>1, <1>2, <1>3, <1>5, <1>6, ProcAssumption, Quiet
  <1> QED
    BY <1>2, <1>7, <1>8, <1>9, <1>10, <1>11, <1>12, <1>13 DEF OneHartInv

\* proc_detach: the reaped object is out of the list, and nothing else is.
LEMMA DetachFacts ==
    ASSUME NEW s \in Seq(Proc), NEW k \in DOMAIN s, NoRepeat(s)
    PROVE  /\ Detached(s, k) \in Seq(Proc) /\ NoRepeat(Detached(s, k))
           /\ Entries(Detached(s, k)) = Entries(s) \ {s[k]}
  <1> DEFINE t == Detached(s, k)
             f(i) == IF i < k THEN i ELSE i + 1
  <1>1. DOMAIN s = 1..Len(s) /\ Len(s) \in Nat /\ k \in 1..Len(s)
    BY SMT
  <1>2. \A i \in 1..(Len(s) - 1) : f(i) \in DOMAIN s /\ f(i) # k
    BY SMT, <1>1
  <1>3. \A i, j \in 1..(Len(s) - 1) : f(i) = f(j) => i = j
    BY SMT, <1>1
  <1>4. \A j \in DOMAIN s : j # k => \E i \in 1..(Len(s) - 1) : f(i) = j
    <2> SUFFICES ASSUME NEW j \in DOMAIN s, j # k
                 PROVE  \E i \in 1..(Len(s) - 1) : f(i) = j
      OBVIOUS
    <2>1. CASE j < k
      <3>1. j \in 1..(Len(s) - 1) /\ f(j) = j
        BY SMT, <1>1, <2>1
      <3> QED
        BY <3>1
    <2>2. CASE j > k
      <3>1. j - 1 \in 1..(Len(s) - 1) /\ f(j - 1) = j
        BY SMT, <1>1, <2>2
      <3> QED
        BY <3>1
    <2> QED
      BY SMT, <1>1, <2>1, <2>2
  <1>5. DOMAIN t = 1..(Len(s) - 1) /\ \A i \in DOMAIN t : t[i] = s[f(i)]
    BY DEF Detached
  <1>6. t \in Seq(Proc)
    <2>1. Len(s) - 1 \in Nat /\ \A i \in 1..(Len(s) - 1) : s[f(i)] \in Proc
      BY SMT, <1>1, <1>2
    <2> QED
      BY SMT, <2>1 DEF Detached
  <1> HIDE DEF t, f
  <1>7. Entries(t) = Entries(s) \ {s[k]}
    <2>1. ASSUME NEW i \in DOMAIN t PROVE t[i] \in Entries(s) \ {s[k]}
      BY <1>2, <1>5 DEF Entries, NoRepeat
    <2>2. ASSUME NEW j \in DOMAIN s, s[j] # s[k] PROVE s[j] \in Entries(t)
      BY <1>4, <1>5, <2>2 DEF Entries
    <2> QED
      BY <2>1, <2>2 DEF Entries
  <1>8. NoRepeat(t)
    BY SMT, <1>2, <1>3, <1>5 DEF NoRepeat
  <1> QED
    BY <1>6, <1>7, <1>8 DEF t

-----------------------------------------------------------------------------
(* System calls that change the table *)

\* proc_detach and proc_reap_detached: nothing refers to the zombie any more.
LEMMA ReapStep ==
    ASSUME OneHartInv, NEW k \in DOMAIN list, Pc \in {"sys", "w_scan"},
           parent[list[k]] = Cur, state[list[k]] = "ZOMBIE",
           at' = [at EXCEPT ![Hart0] = "u_check"], list' = Detached(list, k),
           state' = [state EXCEPT ![list[k]] = "FREE"],
           UNCHANGED <<killed, parent, chan, ctx, localVars, back, sie, schedVars, tlock>>
    PROVE  OneHartInv'
  <1>1. /\ TypeOK /\ HartInv /\ RoleInv /\ StateInv /\ ContextInv /\ OwnContext
        /\ ForkInv /\ ParentInv /\ AwakeInv /\ Linked \subseteq Proc
    BY LinkedType DEF OneHartInv
  <1> DEFINE z == list[k]
  <1>2. z \in Linked /\ list' \in Seq(Proc) /\ Linked' = Linked \ {z} /\ ListInv'
    <2>1. z \in Linked /\ NoRepeat(list) /\ list \in Seq(Proc)
      BY <1>1 DEF OneHartInv, TypeOK, ListInv, Linked, NoRepeat
    <2>2. /\ list' \in Seq(Proc) /\ NoRepeat(list')
          /\ Entries(list') = Entries(list) \ {z}
      BY <2>1, DetachFacts
    <2> QED
      BY <2>1, <2>2 DEF ListInv, Linked, Entries, NoRepeat
  <1> HIDE DEF z
  <1>3. /\ state'[z] = "FREE" /\ state[z] = "ZOMBIE" /\ parent[z] = Cur
        /\ \A p \in Proc \ {z} : state'[p] = state[p]
    BY <1>1, <1>2 DEF TypeOK, z
  <1>4. /\ Pc' = "u_check" /\ Ret' = Ret /\ Cur' = Cur /\ Pos' = Pos
        /\ hctx' = hctx /\ dup' = dup /\ left' = left
    BY <1>1, HartAssumption DEF TypeOK, Pc, Ret, Cur, Pos, localVars, schedVars
  <1>5. /\ Code = Pc /\ Code' = "u_check" /\ Ret = "none" /\ Cur # z
        /\ Cur \in Linked /\ Cur = Pos /\ hctx[Hart0] = "s_back" /\ state[Cur] = "RUNNING"
    BY <1>1, <1>3, <1>4 DEF Code, TrapLabels, HartInv, RoleInv, StateInv, OnHart, Active, Yielding
  <1>6. TypeOK'
    <2>1. at' \in [Hart -> Labels]
      BY <1>1 DEF TypeOK, Labels, ProcLabels
    <2>2. state' \in [Proc -> States]
      BY <1>1 DEF TypeOK, States
    <2> QED
      BY <1>1, <1>2, <1>4, <2>1, <2>2 DEF TypeOK, schedVars
  <1>7. HartInv'
    BY <1>4, <1>5 DEF HartInv, TrapLabels, OnHart, Active, Yielding
  <1>8. \A p : (Executes(p)' <=> p = Cur) /\ (Executes(p) <=> p = Cur)
    BY <1>4, <1>5 DEF Executes, OnHart, Active, Yielding
  <1>9. RoleInv' /\ StateInv'
    <2>1. RoleInv'
      BY <1>2, <1>4, <1>5 DEF RoleInv
    <2>2. \A p \in Proc : state'[p] = "FREE" <=> p \notin Linked'
      BY <1>1, <1>2, <1>3 DEF StateInv
    <2>3. \A p \in Linked' : state'[p] = "RUNNING" => p = Cur
      BY <1>1, <1>2, <1>3, <1>5, <1>8 DEF StateInv
    <2> QED
      BY SMT, <1>1, <1>2, <1>3, <1>4, <1>5, <1>8, <2>1, <2>2, <2>3 DEF StateInv
  <1>10. ContextInv' /\ OwnContext'
    BY SMT, <1>1, <1>2, <1>3, <1>8 DEF ContextInv, Resumes, OwnContext
  <1>11. ForkInv'
    <2>1. \A p \in Linked : Copying(p)' => Copying(p)
      BY <1>4, <1>5, <1>8 DEF Copying
    <2> QED
      BY SMT, <1>1, <1>2, <1>3, <1>4, <2>1 DEF ForkInv
  <1>12. ParentInv'
    BY SMT, <1>1, <1>2, <1>3, ProcAssumption DEF ParentInv
  <1>13. AwakeInv'
    BY <1>1, <1>2, <1>3, <1>4, <1>5, Quiet
  <1> QED
    BY <1>2, <1>6, <1>7, <1>9, <1>10, <1>11, <1>12, <1>13 DEF OneHartInv

\* proc_link: the new object is in the list, once.
LEMMA LinkFront ==
    ASSUME NEW s \in Seq(Proc), NEW q \in Proc, NoRepeat(s), q \notin Entries(s)
    PROVE  /\ <<q>> \o s \in Seq(Proc) /\ NoRepeat(<<q>> \o s)
           /\ Entries(<<q>> \o s) = Entries(s) \cup {q}
  <1> DEFINE t == <<q>> \o s
  <1>1. DOMAIN s = 1..Len(s) /\ Len(s) \in Nat
    BY SMT
  <1>2. /\ t \in Seq(Proc) /\ DOMAIN t = 1..(Len(s) + 1) /\ t[1] = q
        /\ \A i \in 1..Len(s) : t[i + 1] = s[i]
    BY SMT
  <1> HIDE DEF t
  <1>3. \A j \in DOMAIN t : j = 1 \/ (j - 1 \in DOMAIN s /\ t[j] = s[j - 1])
    BY SMT, <1>1, <1>2
  <1>4. \A i \in DOMAIN s : i + 1 \in DOMAIN t /\ t[i + 1] = s[i]
    BY SMT, <1>1, <1>2
  <1>5. Entries(t) = Entries(s) \cup {q}
    <2>1. ASSUME NEW j \in DOMAIN t PROVE t[j] \in Entries(s) \cup {q}
      BY <1>2, <1>3 DEF Entries
    <2>2. ASSUME NEW i \in DOMAIN s PROVE s[i] \in Entries(t)
      BY <1>4 DEF Entries
    <2>3. 1 \in DOMAIN t
      BY SMT, <1>1, <1>2
    <2>4. q \in Entries(t)
      BY <1>2, <2>3 DEF Entries
    <2> QED
      BY <2>1, <2>2, <2>4 DEF Entries
  <1>6. NoRepeat(t)
    BY SMTT(30), <1>1, <1>2, <1>3 DEF Entries, NoRepeat
  <1> QED
    BY <1>2, <1>5, <1>6 DEF t

\* proc_create: the object is linked and belongs to the process that forks.
LEMMA SysForkStep ==
    ASSUME OneHartInv, NEW q \in Proc, SysFork(Hart0, q)
    PROVE  OneHartInv'
  <1>1. /\ TypeOK /\ HartInv /\ RoleInv /\ StateInv /\ ContextInv /\ OwnContext
        /\ ForkInv /\ ParentInv /\ AwakeInv /\ Linked \subseteq Proc
    BY LinkedType DEF OneHartInv
  <1>2. /\ Pc = "sys" /\ Pc' = "f_copy" /\ Ret' = Ret /\ Cur' = Cur /\ Pos' = Pos
        /\ UNCHANGED <<chan, left, back, sie, schedVars, tlock>>
        /\ state[q] = "FREE" /\ list' = <<q>> \o list
    BY <1>1, HartAssumption DEF TypeOK, SysFork, Goto, At, Pc, Ret, Cur, Pos, schedVars
  <1>3. q \notin Linked /\ list' \in Seq(Proc) /\ Linked' = Linked \cup {q} /\ ListInv'
    <2>1. q \notin Entries(list) /\ NoRepeat(list) /\ list \in Seq(Proc)
      BY <1>1, <1>2 DEF OneHartInv, StateInv, TypeOK, ListInv, Linked, Entries, NoRepeat
    <2>2. /\ list' \in Seq(Proc) /\ NoRepeat(list')
          /\ Entries(list') = Entries(list) \cup {q}
      BY <1>2, <2>1, LinkFront
    <2> QED
      BY <2>1, <2>2 DEF ListInv, Linked, Entries, NoRepeat
  <1>4. /\ Code = "sys" /\ Code' = "f_copy" /\ Ret = "none" /\ hctx' = hctx
        /\ Cur \in Linked /\ Cur = Pos /\ hctx[Hart0] = "s_back" /\ state[Cur] = "RUNNING"
    BY <1>1, <1>2 DEF Code, TrapLabels, HartInv, RoleInv, StateInv, OnHart, Active, Yielding, schedVars
  <1>5. /\ state'[q] = "ALLOCATED" /\ parent'[q] = NULL /\ dup'[Cur] = q
        /\ ctx'[q].at = "u_return" /\ ctx'[q].back = "none"
        /\ \A p \in Proc \ {q} : /\ state'[p] = state[p] /\ parent'[p] = parent[p]
                                 /\ ctx'[p] = ctx[p]
        /\ \A p \in Proc \ {Cur} : dup'[p] = dup[p]
    BY <1>1, <1>4 DEF TypeOK, SysFork, FreshContext, Cur
  <1>6. TypeOK'
    <2>1. at' \in [Hart -> Labels] /\ state' \in [Proc -> States]
      BY <1>1 DEF TypeOK, SysFork, Goto, Labels, ProcLabels, States
    <2>2. killed' \in [Proc -> BOOLEAN]
      BY <1>1 DEF TypeOK, SysFork
    <2>3. parent' \in [Proc -> Proc \cup {NULL}] /\ dup' \in [Proc -> Proc \cup {NULL}]
      BY <1>1 DEF TypeOK, SysFork
    <2>4. ctx' \in [Proc -> [at : Labels, back : Labels]]
      BY <1>1 DEF TypeOK, SysFork, FreshContext, Labels, ProcLabels
    <2> QED
      BY <1>1, <1>2, <1>3, <2>1, <2>2, <2>3, <2>4 DEF TypeOK, schedVars
  <1>7. HartInv'
    BY <1>2, <1>4 DEF HartInv, TrapLabels, OnHart, Active, Yielding
  <1>8. \A p : (Executes(p)' <=> p = Cur) /\ (Executes(p) <=> p = Cur)
    BY <1>2, <1>4 DEF Executes, OnHart, Active, Yielding
  <1>9. RoleInv' /\ StateInv'
    <2>1. RoleInv'
      BY <1>2, <1>3, <1>4 DEF RoleInv
    <2>2. \A p \in Proc : state'[p] = "FREE" <=> p \notin Linked'
      BY SMT, <1>1, <1>3, <1>5 DEF StateInv
    <2>3. \A p \in Linked' : state'[p] = "RUNNING" => p = Cur
      BY SMT, <1>1, <1>3, <1>4, <1>5, <1>8 DEF StateInv
    <2> QED
      BY <1>1, <1>2, <1>3, <1>4, <1>5, <1>8, <2>1, <2>2, <2>3 DEF StateInv
  <1>10. ContextInv' /\ OwnContext'
    BY SMT, <1>1, <1>3, <1>4, <1>5, <1>8 DEF ContextInv, Resumes, OwnContext, SchedLabels
  <1>11. ForkInv'
    <2>1. ~Copying(q)' /\ \A p \in Linked \ {Cur} : Copying(p)' => Copying(p)
      BY SMT, <1>1, <1>3, <1>4, <1>5, <1>8 DEF Copying
    <2>2. \A p \in Linked \ {Cur} : Copying(p)' =>
             dup'[p] = dup[p] /\ dup[p] \in Linked /\ state[dup[p]] = "ALLOCATED"
      BY <1>1, <1>5, <2>1 DEF ForkInv
    <2>3. \A p \in Linked' : Copying(p)' => p = Cur \/ p \in Linked \ {Cur}
      BY <1>3, <2>1
    <2>4. \A p \in Linked' : Copying(p)' =>
             dup'[p] \in Linked' /\ state'[dup'[p]] = "ALLOCATED"
      BY SMTT(30), <1>1, <1>3, <1>5, <2>2, <2>3
    <2>5. \A p, r \in Linked' : Copying(p)' /\ Copying(r)' /\ dup'[p] = dup'[r] => p = r
      <3> SUFFICES ASSUME NEW p \in Linked', NEW r \in Linked',
                          Copying(p)', Copying(r)', dup'[p] = dup'[r]
                   PROVE  p = r
        OBVIOUS
      <3>1. \A x \in Linked \ {Cur} : Copying(x)' => dup'[x] # q
        BY <1>2, <2>2
      <3>2. CASE p = Cur \/ r = Cur
        BY <1>5, <2>3, <3>1, <3>2
      <3>3. CASE p # Cur /\ r # Cur
        BY <1>1, <2>1, <2>2, <2>3, <3>3 DEF ForkInv
      <3> QED
        BY <3>2, <3>3
    <2> QED
      BY <2>4, <2>5 DEF ForkInv
  <1>12. ParentInv'
    BY SMTT(30), <1>1, <1>3, <1>4, <1>5, ProcAssumption DEF ParentInv
  <1>13. AwakeInv'
    BY SMT, <1>1, <1>2, <1>3, <1>4, <1>5, ProcAssumption, Quiet
  <1> QED
    BY <1>3, <1>6, <1>7, <1>9, <1>10, <1>11, <1>12, <1>13 DEF OneHartInv

-----------------------------------------------------------------------------
(* The rest of wait and exit, and the theorems *)

\* One iteration of syscall_wait's loop: reap, give up or go to sleep.
LEMMA WaitScanStep ==
    ASSUME OneHartInv, NEW copied \in BOOLEAN, WaitScan(Hart0, copied)
    PROVE  OneHartInv'
  <1>1. TypeOK /\ Pc \in {"sys", "w_scan"}
    BY DEF OneHartInv, WaitScan, At, Pc
  <1>2. UNCHANGED <<killed, parent, ctx, localVars, back, sie, schedVars, tlock>>
    BY DEF WaitScan
  <1> DEFINE zombies == {i \in DOMAIN list : parent[list[i]] = Cur
                                              /\ state[list[i]] = "ZOMBIE"}
  <1>3. ASSUME at' = [at EXCEPT ![Hart0] = "u_check"], UNCHANGED <<list, state, chan>>
        PROVE  OneHartInv'
    <2>1. Pc' = "u_check" /\ Ret' = Ret /\ dup' = dup /\ left' = left
      BY <1>1, <1>2, <1>3, HartAssumption DEF TypeOK, Pc, Ret, localVars
    <2>2. TypeOK'
      <3>1. at' \in [Hart -> Labels]
        BY <1>1, <1>3 DEF TypeOK, Labels, ProcLabels
      <3> QED
        BY <1>1, <1>2, <1>3, <2>1, <3>1 DEF TypeOK, schedVars
    <2> QED
      BY <1>1, <1>2, <1>3, <2>1, <2>2, Straight DEF Active, Yielding
  <1>4. ASSUME NEW k \in zombies, at' = [at EXCEPT ![Hart0] = "u_check"],
               list' = Detached(list, k), state' = [state EXCEPT ![list[k]] = "FREE"],
               UNCHANGED chan
        PROVE  OneHartInv'
    BY <1>1, <1>2, <1>4, ReapStep
  <1>5. ASSUME zombies = {}, Children(Cur) # {}, FallAsleep(Cur, Cur),
               at' = [at EXCEPT ![Hart0] = "z_switch"], UNCHANGED list
        PROVE  OneHartInv'
    <2>1. \A q \in Children(Cur) : state[q] # "ZOMBIE"
      BY <1>5 DEF Children, Linked
    <2>2. Cur # Tick
      BY <1>1, LinkedType, ProcAssumption DEF OneHartInv, RoleInv, Code, TrapLabels,
         OnHart, Active, Yielding
    <2> QED
      BY <1>1, <1>2, <1>5, <2>1, <2>2, FallAsleepStep
  <1> QED
    BY <1>3, <1>4, <1>5 DEF WaitScan, Cur

\* syscall_sleep goes to sleep with ticks to go.
LEMMA SleepOnTickStep ==
    ASSUME OneHartInv, SleepOnTick(Hart0)
    PROVE  OneHartInv'
  <1>1. Pc = "l_sleep" /\ tlock' = NULL /\ FallAsleep(Cur, Tick)
        /\ at' = [at EXCEPT ![Hart0] = "z_switch"]
        /\ UNCHANGED <<list, killed, parent, ctx, localVars, back, sie, schedVars>>
    BY DEF SleepOnTick, Goto, At, Pc, Cur
  <1>2. left[Cur] > 0 /\ Cur # Tick
    BY <1>1, LinkedType, ProcAssumption DEF OneHartInv, HartInv, RoleInv, Code, TrapLabels,
       OnHart, Active
  <1> QED
    BY <1>1, <1>2, FallAsleepStep

\* proc_exit without children: the zombie's parent is woken before anyone
\* else runs.
LEMMA ZombieStep ==
    ASSUME OneHartInv, Pc \in {"sys", "x_zombie"},
           at' = [at EXCEPT ![Hart0] = "x_wakeup"],
           state' = [state EXCEPT ![Cur] = "ZOMBIE"],
           \A q \in Linked : parent[q] # Cur,
           UNCHANGED <<list, killed, parent, chan, ctx, localVars, back, sie, schedVars, tlock>>
    PROVE  OneHartInv'
  <1>1. /\ TypeOK /\ HartInv /\ RoleInv /\ StateInv /\ ContextInv /\ OwnContext
        /\ ForkInv /\ ParentInv /\ AwakeInv /\ Linked \subseteq Proc
    BY LinkedType DEF OneHartInv
  <1>2. /\ Pc' = "x_wakeup" /\ Ret' = Ret /\ Cur' = Cur /\ Pos' = Pos
        /\ hctx' = hctx /\ dup' = dup /\ left' = left /\ Linked' = Linked /\ ListInv'
    BY SMT, <1>1, HartAssumption DEF OneHartInv, TypeOK, Pc, Ret, Cur, Pos, localVars, schedVars,
       Linked, ListInv
  <1>3. /\ Code = Pc /\ Code' = "x_wakeup" /\ Ret = "none"
        /\ Cur \in Linked /\ Cur = Pos /\ hctx[Hart0] = "s_back" /\ state[Cur] = "RUNNING"
    BY <1>1, <1>2 DEF Code, TrapLabels, HartInv, RoleInv, StateInv, OnHart, Active, Yielding
  <1>4. /\ state'[Cur] = "ZOMBIE"
        /\ \A p \in Proc \ {Cur} : state'[p] = state[p]
    BY <1>1, <1>3 DEF TypeOK
  <1>5. TypeOK'
    <2>1. at' \in [Hart -> Labels]
      BY <1>1 DEF TypeOK, Labels, ProcLabels
    <2>2. state' \in [Proc -> States]
      BY <1>1 DEF TypeOK, States
    <2> QED
      BY <1>1, <1>2, <2>1, <2>2 DEF TypeOK, schedVars
  <1>6. HartInv'
    BY <1>2, <1>3 DEF HartInv, TrapLabels, OnHart
  <1>7. \A p : (Executes(p)' <=> p = Cur) /\ (Executes(p) <=> p = Cur)
    BY <1>2, <1>3 DEF Executes, OnHart, Active, Yielding
  <1>8. RoleInv' /\ StateInv'
    BY <1>1, <1>2, <1>3, <1>4, <1>7 DEF RoleInv, StateInv, Active, Yielding
  <1>9. ContextInv' /\ OwnContext'
    BY <1>1, <1>2, <1>4, <1>7 DEF ContextInv, Resumes, OwnContext
  <1>10. ForkInv'
    <2>1. \A p \in Linked : Copying(p)' => Copying(p)
      BY <1>2, <1>3, <1>7 DEF Copying
    <2> QED
      BY SMT, <1>1, <1>2, <1>3, <1>4, <2>1 DEF ForkInv
  <1>11. ParentInv'
    BY SMT, <1>1, <1>2, <1>3, <1>4, ProcAssumption DEF ParentInv
  <1>12. AwakeInv'
    <2>1. \A p \in Linked : state'[p] = "SLEEPING" => state[p] = "SLEEPING"
      BY <1>1, <1>4
    <2>2. ASSUME NEW p \in Linked, state'[p] = "SLEEPING", chan[p] = p
          PROVE  /\ \E q \in Linked : parent[q] = p
                 /\ (\E q \in Linked : parent[q] = p /\ state'[q] = "ZOMBIE") =>
                      parent[Cur] = p
      BY SMT, <1>1, <1>3, <1>4, <2>1, <2>2 DEF AwakeInv
    <2>3. ASSUME NEW p \in Linked, state'[p] = "SLEEPING", chan[p] = Tick
          PROVE  left[p] > 0
      BY <1>1, <2>1, <2>3 DEF AwakeInv
    <2> QED
      BY SMT, <1>2, <1>3, <2>2, <2>3 DEF AwakeInv
  <1> QED
    BY <1>2, <1>5, <1>6, <1>8, <1>9, <1>10, <1>11, <1>12 DEF OneHartInv

\* proc_exit with a child: its parent field is cleared and the hart panics.
LEMMA ExitPanicStep ==
    ASSUME OneHartInv, Pc \in {"sys", "x_zombie"}, NEW c \in Linked, parent[c] = Cur,
           at' = [at EXCEPT ![Hart0] = "panic"],
           parent' = [parent EXCEPT ![c] = NULL],
           UNCHANGED <<list, state, killed, chan, ctx, localVars, back, sie, schedVars, tlock>>
    PROVE  OneHartInv'
  <1>1. TypeOK /\ HartInv /\ RoleInv /\ StateInv /\ AwakeInv /\ Linked \subseteq Proc
    BY LinkedType DEF OneHartInv
  <1>2. /\ Pc' = "panic" /\ Ret' = Ret /\ Cur' = Cur /\ Pos' = Pos
        /\ hctx' = hctx /\ dup' = dup /\ left' = left /\ Linked' = Linked /\ ListInv'
    BY SMT, <1>1, HartAssumption DEF OneHartInv, TypeOK, Pc, Ret, Cur, Pos, localVars, schedVars,
       Linked, ListInv
  <1>3. /\ Code = Pc /\ Code' = "panic" /\ Ret = "none" /\ state[Cur] = "RUNNING"
        /\ Code \in Active \ {"f_copy"} /\ Code' \in Active \ {"f_copy"}
    BY <1>1, <1>2 DEF Code, TrapLabels, HartInv, StateInv, Active, Yielding
  <1>4. parent'[c] = NULL /\ \A p \in Proc \ {c} : parent'[p] = parent[p]
    BY <1>1 DEF TypeOK
  <1>5. TypeOK'
    <2>1. at' \in [Hart -> Labels]
      BY <1>1 DEF TypeOK, Labels
    <2>2. parent' \in [Proc -> Proc \cup {NULL}]
      BY <1>1 DEF TypeOK
    <2> QED
      BY <1>1, <1>2, <2>1, <2>2 DEF TypeOK, schedVars
  <1>6. HartInv'
    BY <1>2, <1>3 DEF HartInv, TrapLabels, OnHart, Active
  <1>7. AwakeInv'
    BY SMT, <1>1, <1>2, <1>3, <1>4, ProcAssumption, Quiet
  <1> QED
    BY <1>1, <1>2, <1>3, <1>4, <1>5, <1>6, <1>7, Move

\* proc_exit up to its unlock.
LEMMA ExitZombieStep ==
    ASSUME OneHartInv, ExitZombie(Hart0)
    PROVE  OneHartInv'
  <1>1. /\ Pc \in {"sys", "x_zombie"}
        /\ UNCHANGED <<list, killed, chan, ctx, localVars, back, sie, schedVars, tlock>>
    BY DEF ExitZombie, At, Pc
  <1>2. ASSUME {i \in DOMAIN list : parent[list[i]] = Cur} = {},
               at' = [at EXCEPT ![Hart0] = "x_wakeup"],
               state' = [state EXCEPT ![Cur] = "ZOMBIE"], UNCHANGED parent
        PROVE  OneHartInv'
    <2>1. \A q \in Linked : parent[q] # Cur
      BY <1>2 DEF Linked
    <2> QED
      BY <1>1, <1>2, <2>1, ZombieStep
  <1>3. ASSUME NEW k \in DOMAIN list, parent[list[k]] = Cur,
               at' = [at EXCEPT ![Hart0] = "panic"],
               parent' = [parent EXCEPT ![list[k]] = NULL], UNCHANGED state
        PROVE  OneHartInv'
    <2>1. list[k] \in Linked
      BY DEF Linked
    <2> QED
      BY <1>1, <1>3, <2>1, ExitPanicStep
  <1> QED
    BY <1>2, <1>3 DEF ExitZombie, Cur

-----------------------------------------------------------------------------
(* The theorems *)

\* proc_init has linked one process, with a fresh context.
LEMMA InitOneHart == ASSUME Init PROVE OneHartInv
  <1>1. PICK p \in Proc :
          /\ list = <<p>> /\ \A q \in Proc : state[q] = IF q = p THEN "RUNNABLE" ELSE "FREE"
          /\ \A q \in Proc : parent[q] = NULL /\ ctx[q].at = "u_return" /\ ctx[q].back = "none"
          /\ Pc = "s_top" /\ Ret = "none" /\ Cur = NULL /\ Pos = NULL
    BY SMT, HartAssumption DEF Init, FreshContext, Pc, Ret, Cur, Pos
  <1>2. Linked = {p} /\ ListInv
    BY SMT, <1>1 DEF Linked, ListInv
  <1>3. /\ Code = "s_top" /\ \A q : ~Executes(q)
        /\ \A q \in Linked : ~Copying(q)
    BY <1>1, <1>2 DEF Code, TrapLabels, Executes, Copying, OnHart, Active, Yielding
  <1>4. TypeOK
    BY SMT, BoundAssumption DEF Init, TypeOK, FreshContext, States, Labels, SchedLabels, ProcLabels
  <1>5. HartInv /\ RoleInv
    BY <1>1, <1>2, <1>3 DEF HartInv, RoleInv, TrapLabels, SchedLabels, OnHart, Active, Yielding
  <1>6. StateInv
    BY <1>1, <1>2, <1>3 DEF StateInv, Active, Yielding
  <1>7. ContextInv /\ OwnContext
    BY <1>1, <1>2 DEF ContextInv, Resumes, OwnContext, SchedLabels
  <1>8. ForkInv /\ ParentInv /\ AwakeInv
    BY <1>1, <1>2, <1>3 DEF ForkInv, ParentInv, AwakeInv
  <1> QED
    BY <1>2, <1>4, <1>5, <1>6, <1>7, <1>8 DEF OneHartInv

\* A stuttering step.
LEMMA StutterOneHart == ASSUME OneHartInv, UNCHANGED vars PROVE OneHartInv'
  <1>1. /\ UNCHANGED <<list, state, killed, parent, chan, ctx, left, dup, at, back, sie,
                        running, spos, hctx, tlock>>
        /\ Linked' = Linked /\ Pc' = Pc /\ Ret' = Ret /\ Cur' = Cur /\ Pos' = Pos
    BY DEF vars, tableVars, localVars, schedVars, Linked, Pc, Ret, Cur, Pos
  <1>2. Code' = Code
    BY <1>1 DEF Code
  <1>3. TypeOK' /\ ListInv' /\ HartInv' /\ OwnContext'
    BY <1>1 DEF OneHartInv, TypeOK, ListInv, HartInv, OwnContext
  <1>4. RoleInv' /\ ParentInv' /\ AwakeInv'
    BY SMT, <1>1, <1>2 DEF OneHartInv, RoleInv, ParentInv, AwakeInv
  <1>5. StateInv' /\ ContextInv' /\ ForkInv'
    BY SMTT(30), <1>1, <1>2 DEF OneHartInv, StateInv, ContextInv, Resumes, ForkInv, Executes, Copying
  <1> QED
    BY <1>3, <1>4, <1>5 DEF OneHartInv

\* Every step of the hart preserves the invariant.
LEMMA StepOneHart ==
    ASSUME Uniprocessor, OneHartInv, [Next]_vars
    PROVE  OneHartInv'
  <1>1. CASE Halt \/ UNCHANGED vars
    BY <1>1, StutterOneHart DEF Halt
  <1>2. CASE Trap(Hart0) \/ Ecall(Hart0) \/ UserTrap(Hart0) \/ UserFault(Hart0)
    BY <1>2, TrapStep1, UserStep
  <1>3. CASE Kernel(Hart0)
    <2>1. CASE \/ SchedTop(Hart0) \/ SchedScan(Hart0) \/ SchedRun(Hart0)
               \/ SchedSwitch(Hart0) \/ SchedBack(Hart0)
      BY <2>1, IdleStep, DispatchStep, SchedRunStep, SchedSwitchStep
    <2>2. CASE \/ TickCount(Hart0) \/ TickWakeup(Hart0) \/ TrapTest(Hart0)
               \/ YieldSet(Hart0) \/ YieldSwitch(Hart0) \/ TrapReturn(Hart0)
      BY <2>2, TickStep, TickWakeupStep, YieldSetStep, SwitchOutStep, TrapReturnStep
    <2>3. CASE \/ UCheck(Hart0) \/ UReturn(Hart0) \/ SysQuery(Hart0) \/ SysForkFails(Hart0)
      BY <2>3, UserStep
    <2>4. CASE \E q \in Proc : SysKill(Hart0, q) \/ SysFork(Hart0, q)
      BY <2>4, SysKillStep, SysForkStep
    <2>5. CASE ForkCopy(Hart0) \/ \E copied \in BOOLEAN : WaitScan(Hart0, copied)
      BY <2>5, ForkCopyStep, WaitScanStep
    <2>6. CASE \/ \E n \in 0..MaxSleep : SysSleep(Hart0, n)
               \/ SleepAgain(Hart0) \/ SleepOnTick(Hart0) \/ SleepSwitch(Hart0)
               \/ SleepWake(Hart0)
      BY <2>6, SleepStep, SleepOnTickStep, SwitchOutStep
    <2>7. CASE ExitZombie(Hart0) \/ ExitWakeup(Hart0) \/ ExitSwitch(Hart0)
      BY <2>7, ExitZombieStep, ExitWakeupStep, SwitchOutStep
    <2> QED
      BY <1>3, <2>1, <2>2, <2>3, <2>4, <2>5, <2>6, <2>7 DEF Kernel
  <1> QED
    BY <1>1, <1>2, <1>3 DEF Next, Uniprocessor

\* OneHartInv is an invariant of the kernel on one hart.
THEOREM OneHart == ASSUME Uniprocessor PROVE Spec => []OneHartInv
  <1>1. Init => OneHartInv
    BY InitOneHart
  <1>2. OneHartInv /\ [Next]_vars => OneHartInv'
    BY StepOneHart
  <1> QED
    BY <1>1, <1>2, PTL DEF Spec

\* On one hart no pointer to a reaped proc_struct is left in the table, the
\* hart or the scheduler, and user and kernel code run only in a process that
\* is RUNNING (proc_reap_detached, scheduler(), syscall_wait).
THEOREM TableSound == ASSUME Uniprocessor PROVE Spec => []TableInv
  <1>1. OneHartInv => TableInv
    <2> SUFFICES ASSUME OneHartInv PROVE TableInv
      OBVIOUS
    <2>1. /\ TypeOK /\ HartInv /\ RoleInv /\ StateInv /\ ParentInv
      BY DEF OneHartInv
    <2>2. Cur \in Linked \cup {NULL} /\ Pos \in Linked \cup {NULL}
      BY <2>1 DEF HartInv, RoleInv, Code, SchedLabels, TrapLabels, OnHart, Active, Yielding
    <2>3. Pc \in {"user", "sys", "u_check", "u_return"} => Cur # NULL /\ state[Cur] = "RUNNING"
      BY <2>1, LinkedType, ProcAssumption DEF RoleInv, StateInv, Code, TrapLabels,
         OnHart, Active, Yielding
    <2>4. NoDangling
      BY <2>1, <2>2 DEF Uniprocessor, NoDangling, ParentInv, Cur, Pos
    <2>5. RunsOnce
      BY <2>3 DEF Uniprocessor, RunsOnce, Pc, Cur
    <2> QED
      BY <2>1, <2>4, <2>5 DEF TableInv
  <1> QED
    BY <1>1, OneHart, PTL

\* On one hart a saved context is the process's own: no process is ever
\* resumed in the code of scheduler() (proc_switch, scheduler_switch).
THEOREM ContextsOwn == ASSUME Uniprocessor PROVE Spec => []OwnContext
  <1>1. OneHartInv => OwnContext
    BY DEF OneHartInv
  <1> QED
    BY <1>1, OneHart, PTL

\* On one hart no wakeup is lost: not the one of an exiting child, not the one
\* of the last tick (proc_sleep, proc_wakeup, proc_exit, tick_handler).
THEOREM NoLostWakeup == ASSUME Uniprocessor PROVE Spec => []WakeupsNotLost
  <1>1. OneHartInv => WakeupsNotLost
    <2> SUFFICES ASSUME OneHartInv PROVE WakeupsNotLost
      OBVIOUS
    <2>1. AwakeInv
      BY DEF OneHartInv
    <2>2. Code = "x_wakeup" => Doing(Hart0, "x_wakeup")
      BY DEF Code, Doing, Pc, Ret
    <2>3. WaitNotLost
      BY <2>1, <2>2, HartAssumption DEF AwakeInv, WaitNotLost, Children, Cur
    <2>4. SleepNotLost
      BY <2>1, HartAssumption DEF AwakeInv, SleepNotLost, Pc
    <2> QED
      BY <2>3, <2>4 DEF WakeupsNotLost
  <1> QED
    BY <1>1, OneHart, PTL

\* On one hart a process that has switched out at the end of proc_exit is
\* never resumed: "no came back" (proc.c:243).
THEOREM ExitIsFinal == ASSUME Uniprocessor PROVE Spec => []NoCameBack
  <1>1. OneHartInv => NoCameBack
    BY DEF OneHartInv, HartInv, NoCameBack, Doing, Uniprocessor, Pc, Ret, OnHart, Active,
       Yielding, SchedLabels, TrapLabels
  <1> QED
    BY <1>1, OneHart, PTL
=============================================================================
