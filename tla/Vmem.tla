-------------------------------- MODULE Vmem --------------------------------
(***************************************************************************)
(* The address spaces of processes (memory/vmem.c, and the parts of        *)
(* proc/proc.c, proc/syscall.c and trap/trap.c that change them): page     *)
(* tables in pages of the page allocator, a heap that grows up from        *)
(* UserBegin, a stack that grows down from the handler page, and fork,     *)
(* which copies all of it.  Every operation runs under proc_manager.lock   *)
(* or on a process nobody else knows yet, and is one step.                 *)
(*                                                                         *)
(* Sv39 has three levels of 512 entries; the model has two of Fan.  A page *)
(* keeps its contents when it is freed, as memory does.  Any run of free   *)
(* pages would do for a request; the model takes the first.                *)
(***************************************************************************)
EXTENDS Integers, Sequences, FiniteSets, SequencesExt, FiniteSetsExt

CONSTANTS NumPages, Fan, PageSize, NULL,
          Procs,
          UserBegin,          \* VA_USER_BEGIN, as a page number
          Uninitialised(_),   \* what program_break of a new process may hold,
                              \* given the end of its heap
          Deltas,             \* the arguments of sbrk
          Written,            \* the virtual pages a process writes to
          MaxHeap, MinStack,  \* bounds on the two, with a gap between them
          MinFree,            \* bound: no step with fewer free pages left
          Reuse               \* is there a fork after a process was reaped?

Page == 0 .. NumPages - 1
Va == 0 .. Fan * Fan - 1      \* virtual page numbers
HandlerVa == Fan * Fan - 2    \* VA_USER_USER_HANDLER_BEGIN
FrameVa == Fan * Fan - 1      \* VA_USER_TRAPFRAME_BEGIN
HandlerPage == NumPages       \* of the kernel image, not allocated

ASSUME VaAssumption ==
    UserBegin \in Va /\ UserBegin < MaxHeap /\ MaxHeap < MinStack /\ MinStack < HandlerVa

VARIABLES
    free,    \* pages the page allocator has
    mem,     \* mem[p]: the words of page p
    proc,    \* proc[i]: the struct proc_struct of process i
    panic,   \* a panic, or a NULL that was written through
    lost     \* the pages of page tables that no process points to any more

vars == <<free, mem, proc, panic, lost>>

Zero == [kind |-> "zero"]
Data(d) == [kind |-> "data", data |-> d]
Pte(pa, flags) == [kind |-> "pte", pa |-> pa, flags |-> flags]
Zeroed == [i \in 0 .. Fan - 1 |-> Zero]
Index == [i \in 1 .. Fan |-> i - 1]

NoProc == [state |-> "none"]

\* The state during an operation on the struct p, and whether the last call
\* succeeded.
Now(p) == [free |-> free, mem |-> mem, panic |-> panic, ok |-> TRUE, p |-> p]

-----------------------------------------------------------------------------
(* Operators on the state during an operation *)

Runs(s, order) ==
    {p \in Page : p % 2^order = 0 /\ p .. p + 2^order - 1 \subseteq s.free}

\* The page that kmem_alloc_pages returns, as PageAlloc promises it
kmem_alloc_pages(s, order) ==
    IF Runs(s, order) = {} THEN NULL ELSE Min(Runs(s, order))

Taken(s, p, order) ==
    IF p = NULL THEN s ELSE [s EXCEPT !.free = @ \ (p .. p + 2^order - 1)]

\* A call of it, after which the caller, Op, goes on with the state and the page.
WithPages(s, order, Op(_, _)) ==
    LET p == kmem_alloc_pages(s, order) IN Op(Taken(s, p, order), p)

\* The same for a caller who writes to the page without a test for NULL; after a
\* panic nothing goes on.
WithPage(s, Op(_, _)) ==
    IF s.panic THEN s
    ELSE WithPages(s, 0, LAMBDA t, p :
            IF p = NULL THEN [t EXCEPT !.panic = TRUE] ELSE Op(t, p))

kmem_free_page(s, p) == [s EXCEPT !.free = @ \cup {p}]

\* The table that holds the leaf entry of va, made if need be.
vm_walk(s, root, va, alloc) ==
    LET e == s.mem[root][va \div Fan]
    IN  IF e.kind # "zero" THEN [s |-> s, table |-> e.pa]
        ELSE IF ~alloc THEN [s |-> s, table |-> NULL]
        ELSE WithPages(s, 0, LAMBDA t, p :
               [s |-> IF p = NULL THEN t
                      ELSE [t EXCEPT !.mem[p] = Zeroed,
                                     !.mem[root][va \div Fan] = Pte(p, {})],
                table |-> p])

\* The entry va of the table that a walk has found.
MapEntry(w, va, pa, flags) ==
    IF w.table = NULL THEN [w.s EXCEPT !.ok = FALSE]
    ELSE IF w.s.mem[w.table][va % Fan].kind # "zero"
    THEN [w.s EXCEPT !.panic = TRUE]     \* overlapped
    ELSE [w.s EXCEPT !.mem[w.table][va % Fan] = Pte(pa, flags)]

MapPage(s, root, va, pa, flags) == MapEntry(vm_walk(s, root, va, TRUE), va, pa, flags)

\* Faulty variants, used only to see that the properties notice them
UnmapKeeps(w, va, do_free) == [w.s EXCEPT !.mem[w.table][va % Fan] = Zero]
CopyLeafShares(s, e, new, j) ==
    IF e.kind # "pte" \/ s.mem[new][j].kind # "zero" THEN s
    ELSE [s EXCEPT !.mem[new][j] = e]
CopyLeafBlank(s, e, new, j) ==
    IF e.kind # "pte" \/ s.mem[new][j].kind # "zero" THEN s
    ELSE WithPage(s, LAMBDA t, p : [t EXCEPT !.mem[new][j] = Pte(p, e.flags)])

\* Stops at the first page for which there is no table.
vm_mappages(s, root, va, pa, n, flags) ==
    FoldLeft(LAMBDA t, i : IF t.ok /\ ~t.panic
                           THEN MapPage(t, root, va + i - 1, pa + i - 1, flags) ELSE t,
             [s EXCEPT !.ok = TRUE], [i \in 1 .. n |-> i])

UnmapEntry(w, va, do_free) ==
    LET e == w.s.mem[w.table][va % Fan]
    IN  IF w.table = NULL \/ e.kind # "pte" \/ e.flags = {}
        THEN [w.s EXCEPT !.panic = TRUE]     \* broken entry
        ELSE [w.s EXCEPT !.free = IF do_free THEN @ \cup {e.pa} ELSE @,
                         !.mem[w.table][va % Fan] = Zero]

vm_unmappages(s, root, va, n, do_free) ==
    FoldLeft(LAMBDA t, i :
        IF t.panic THEN t
        ELSE UnmapEntry(vm_walk(t, root, va + i - 1, FALSE), va + i - 1, do_free),
      s, [i \in 1 .. n |-> i])

\* vm_uvmcpy of a leaf, which is left out where the new table has an entry.
CopyLeaf(s, e, new, j) ==
    IF e.kind # "pte" \/ s.mem[new][j].kind # "zero" THEN s
    ELSE WithPage(s, LAMBDA t, p : [t EXCEPT !.mem[p] = t.mem[e.pa],
                                             !.mem[new][j] = Pte(p, e.flags)])

\* vm_uvmcpy of the entry i of the roots; a new table is not cleared.
SubTable(s, root, i) ==
    IF s.mem[root][i].kind # "zero" THEN s
    ELSE WithPage(s, LAMBDA t, p : [t EXCEPT !.mem[root][i] = Pte(p, {})])

vm_uvmcpy(s, old, new) ==
    FoldLeft(LAMBDA t, i :
        IF t.panic \/ t.mem[old][i].kind # "pte" THEN t
        ELSE FoldLeft(LAMBDA u, j :
                 IF u.panic THEN u
                 ELSE CopyLeaf(u, u.mem[u.mem[old][i].pa][j], u.mem[new][i].pa, j),
               SubTable(t, new, i), Index),
      s, Index)

-----------------------------------------------------------------------------
(* Operations *)

Ready == ~panic /\ Cardinality(free) >= MinFree

\* The operation on process i has led to s, with program_break brk.
Become(s, i, brk) ==
    /\ free' = s.free /\ mem' = s.mem /\ panic' = s.panic
    /\ proc' = IF s.panic THEN proc ELSE
          [proc EXCEPT ![i] =
             [state |-> s.p.state, pgtbl |-> s.p.pgtbl, kstack |-> s.p.kstack,
              trapframe |-> s.p.trapframe, heap |-> s.p.heap, stack |-> s.p.stack,
              brk |-> brk]]

\* proc_create: page table, kernel stack and trap frame of a new process
proc_create(s) ==
    WithPage(s, LAMBDA s1, r :
    WithPage(vm_mappages([s1 EXCEPT !.mem[r] = Zeroed], r, HandlerVa, HandlerPage, 1,
                         {"R", "X"}), LAMBDA s2, k :
    WithPage(s2, LAMBDA s3, f :
        [vm_mappages([s3 EXCEPT !.mem[f] = Zeroed], r, FrameVa, f, 1, {"R", "W"})
           EXCEPT !.p = [state |-> "live", pgtbl |-> r, kstack |-> k, trapframe |-> f,
                         heap |-> UserBegin, stack |-> HandlerVa]])))

proc_extend_stack(s) ==
    WithPage(s, LAMBDA t, a :
        [vm_mappages(t, t.p.pgtbl, t.p.stack - 1, a, 1, {"R", "W", "U"})
           EXCEPT !.p.stack = @ - 1])

proc_extend_heap(s) ==
    WithPage(s, LAMBDA t, a :
        [vm_mappages(t, t.p.pgtbl, t.p.heap, a, 1, {"R", "X", "U"})
           EXCEPT !.p.heap = @ + 1])

\* The page va of the process p in the memory m.
EntryIn(m, p, va) ==
    LET e == m[p.pgtbl][va \div Fan]
    IN  IF e.kind # "pte" THEN Zero ELSE m[e.pa][va % Fan]
Mapped(p, va) == EntryIn(mem, p, va)

\* The program image, copied to the first page of the heap
Loaded(s) ==
    IF s.panic THEN s
    ELSE [s EXCEPT !.mem[EntryIn(s.mem, s.p, UserBegin).pa] =
                      [j \in 0 .. Fan - 1 |-> Data("image")]]

\* proc_spawn_test_prog, the process the kernel starts with
Spawn(i) ==
    /\ Ready /\ proc = [j \in Procs |-> NoProc]
    /\ \E s \in {proc_extend_stack(proc_extend_heap(proc_create(Now(NoProc))))} :
       \E brk \in Uninitialised((UserBegin + 1) * PageSize) :
          Become(Loaded(s), i, brk)
    /\ UNCHANGED lost

\* What proc_fork copies from the process p to the new one; program_break is not
\* part of it.
Forked(n, p) ==
    IF n.panic THEN n
    ELSE vm_uvmcpy([n EXCEPT !.mem[n.p.trapframe] = n.mem[p.trapframe],
                             !.p.stack = p.stack, !.p.heap = p.heap],
                   p.pgtbl, n.p.pgtbl)

proc_fork(i, c) ==
    /\ Ready /\ proc[i].state = "live" /\ proc[c] = NoProc
    /\ Reuse \/ lost = {}
    /\ \E n \in {proc_create(Now(NoProc))} :
       \E brk \in Uninitialised(proc[i].heap * PageSize) :
          Become(Forked(n, proc[i]), c, brk)
    /\ UNCHANGED lost

\* A fault just below the stack, or between it and the trap frame, extends it.
PageFault(i, va) ==
    /\ Ready /\ proc[i].state = "live"
    /\ va \in {proc[i].stack - 1, HandlerVa}
    /\ proc[i].stack > MinStack
    /\ \E s \in {proc_extend_stack(Now(proc[i]))} : Become(s, i, proc[i].brk)
    /\ UNCHANGED lost

\* The process writes to its memory.
UserWrite(i, va) ==
    /\ ~panic /\ proc[i].state = "live"
    /\ LET e == Mapped(proc[i], va)
       IN  /\ e.kind = "pte"
           /\ {"U", "W"} \subseteq e.flags
           /\ mem' = [mem EXCEPT ![e.pa] = [j \in 0 .. Fan - 1 |-> Data(i)]]
    /\ UNCHANGED <<free, proc, panic, lost>>

PageOrder(new, heap) == CHOOSE k \in 0 .. 8 :
    new <= (heap + 2^k) * PageSize /\ (k = 0 \/ new > (heap + 2^(k - 1)) * PageSize)

RoundUpPage(x) == (x + PageSize - 1) \div PageSize

\* The growth by 2^ord pages, if there are as many
Grown(s, ord) ==
    WithPages(s, ord, LAMBDA t, a :
        IF a = NULL THEN t
        ELSE [vm_mappages(t, t.p.pgtbl, t.p.heap, a, 2^ord, {"R", "W", "U"})
                EXCEPT !.p.heap = @ + 2^ord])

\* A call with nothing to grow or to give back changes nothing, and is left out.
syscall_sbrk(i, delta) ==
    /\ Ready /\ proc[i].state = "live"
    /\ LET p   == proc[i]
           new == p.brk + delta
           ord == PageOrder(new, p.heap)
           end == RoundUpPage(new)
       IN  \/ /\ ~(delta < 0 /\ (p.heap - UserBegin) * PageSize < -delta)
              /\ new > p.heap * PageSize /\ p.heap + 2^ord <= MaxHeap
              /\ \E s \in {Grown(Now(p), ord)} :
                    Become(s, i, IF s.p.heap = p.heap THEN p.brk ELSE new)
           \/ /\ ~(delta < 0 /\ (p.heap - UserBegin) * PageSize < -delta)
              /\ new <= (p.heap - 1) * PageSize
              /\ \E s \in {vm_unmappages(Now(p), p.pgtbl, end, p.heap - end, TRUE)} :
                    Become(s, i, new)
    /\ UNCHANGED lost

proc_exit(i) ==
    /\ ~panic /\ proc[i].state = "live"
    /\ proc' = [proc EXCEPT ![i].state = "zombie"]
    /\ UNCHANGED <<free, mem, panic, lost>>

\* The pages of the page table of a process.
Tables(p) == {p.pgtbl} \cup
    {mem[p.pgtbl][i].pa : i \in {j \in 0 .. Fan - 1 : mem[p.pgtbl][j].kind = "pte"}}

\* syscall_wait of the parent, which reaps what is left of the process.
proc_reap_detached(i) ==
    /\ ~panic /\ proc[i].state = "zombie"
    /\ LET p  == proc[i]
           s1 == vm_unmappages(Now(p), p.pgtbl, FrameVa, 1, TRUE)
           s2 == vm_unmappages(s1, p.pgtbl, HandlerVa, 1, FALSE)
           s3 == kmem_free_page(s2, p.kstack)
           s4 == vm_unmappages(s3, p.pgtbl, p.stack, HandlerVa - p.stack, TRUE)
       IN  /\ \E s \in {vm_unmappages(s4, p.pgtbl, UserBegin, p.heap - UserBegin, TRUE)} :
                free' = s.free /\ mem' = s.mem /\ panic' = s.panic
           /\ lost' = lost \cup Tables(p)
    /\ proc' = [proc EXCEPT ![i] = NoProc]

Init ==
    /\ free = Page
    /\ mem = [p \in Page \cup {HandlerPage} |-> Zeroed]
    /\ proc = [i \in Procs |-> NoProc]
    /\ panic = FALSE
    /\ lost = {}

Next ==
    \/ \E i \in Procs : Spawn(i)
    \/ \E i, c \in Procs : proc_fork(i, c)
    \/ \E i \in Procs, va \in Va : PageFault(i, va)
    \/ \E i \in Procs, va \in Written : UserWrite(i, va)
    \/ \E i \in Procs, delta \in Deltas : syscall_sbrk(i, delta)
    \/ \E i \in Procs : proc_exit(i)
    \/ \E i \in Procs : proc_reap_detached(i)

Spec == Init /\ [][Next]_vars

-----------------------------------------------------------------------------
(* Properties *)

TypeOK ==
    /\ free \subseteq Page
    /\ \A p \in DOMAIN mem : \A i \in 0 .. Fan - 1 :
         mem[p][i].kind \in {"zero", "data", "pte"}
    /\ \A i \in Procs : proc[i].state \in {"none", "live", "zombie"}
    /\ panic \in BOOLEAN
    /\ lost \subseteq Page

Alive == {i \in Procs : proc[i].state # "none"}

\* The leaf entries of a process: where it is mapped, and to which page.
Leaves(p) == {va \in Va : Mapped(p, va).kind = "pte"}

\* No address space operation panics or writes through NULL while there is
\* memory: every entry that is to be unmapped is there, none that is to be made.
NoPanic == ~panic

\* Memory is private: no page is mapped twice, by one process or by two, and none
\* that is mapped is free, a page table or a kernel stack; the handler page of the
\* kernel image, which the user cannot touch, is the exception.
MemoryIsPrivate ==
    /\ \A i, j \in Alive : \A v \in Leaves(proc[i]), w \in Leaves(proc[j]) :
          \/ i = j /\ v = w
          \/ v = HandlerVa /\ w = HandlerVa
          \/ Mapped(proc[i], v).pa # Mapped(proc[j], w).pa
    /\ \A i, j \in Alive : \A v \in Leaves(proc[i]) :
          Mapped(proc[i], v).pa \notin free \cup lost \cup Tables(proc[j]) \cup {proc[j].kstack}
    /\ \A i \in Alive : "U" \notin Mapped(proc[i], HandlerVa).flags

\* A process has the memory it was told it has: all of the heap up to heap_vaddr
\* and all of the stack, and nothing else but handler and trap frame.
SpaceIsWhole ==
    \A i \in Alive :
        Leaves(proc[i]) = (UserBegin .. proc[i].heap - 1)
                            \cup (proc[i].stack .. HandlerVa - 1) \cup {HandlerVa, FrameVa}

\* Every page that is not free belongs to a process or is in `lost': but for the
\* page tables of reaped processes nothing leaks, and nothing is freed twice.
PagesAccounted ==
    LET held(p) == Tables(p) \cup {p.kstack} \cup
                   {Mapped(p, va).pa : va \in Leaves(p) \ {HandlerVa}}
    IN  Page \ free = lost \cup UNION {held(proc[i]) : i \in Alive}

\* Address spaces and page allocator agree on every page, every process has what
\* it was told it has, and no operation on its space panics.
SpaceInv == TypeOK /\ NoPanic /\ SpaceIsWhole /\ PagesAccounted

\* proc_reap_detached gives back all that a process had.
NothingLost == lost = {}

\* A fork copies the address space: the child is mapped where the parent is, with
\* the same rights and the same contents, apart from its own trap frame.
ForkCopies ==
    [][\A i, c \in Procs :
          proc[c] = NoProc /\ proc'[c] # NoProc /\ proc_fork(i, c) /\ ~panic' =>
          \A va \in Va \ {FrameVa} :
             LET e == Mapped(proc[i], va)
                 d == Mapped(proc[c], va)'
             IN  /\ e.kind = d.kind
                 /\ e.kind = "pte" => e.flags = d.flags /\ mem[e.pa] = mem'[d.pa]]_vars
=============================================================================
