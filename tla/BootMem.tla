------------------------------ MODULE BootMem ------------------------------
(***************************************************************************)
(* From the memory nodes of the device tree to the boot-time allocator     *)
(* (device/memory.c, memory/bootmem.c): one bit per page, and the last     *)
(* page of an allocation shared with the next one.  One hart, no locks.    *)
(* Addresses are in bytes, pages are counted from begin_ppn.               *)
(***************************************************************************)
EXTENDS RamSegments, FiniteSets, FiniteSetsExt

CONSTANTS NULL,
          Ram,          \* ram_descriptor.ram
          KernelEnds,   \* where the kernel image may end
          Reserved,     \* the lists of reserved segments the tree may have
          Sizes, Alignments, Goals,   \* the arguments of bootmem_alloc
          MaxAllocs(_, _)   \* bound on the calls of bootmem_alloc on a machine

VARIABLES
    kernel_end, reserved,           \* the machine
    segs,                           \* available_ram_segments; NULL before
    begin_ppn, num_ppn, mem_map,    \* uma_node; mem_map: the pages in use
    last_page, last_page_offset,
    allocs,                         \* what callers have been given
    answer,                         \* the last call and what it returned
    failed                          \* a panic

uma_node == <<begin_ppn, num_ppn, mem_map, last_page, last_page_offset>>
vars == <<kernel_end, reserved, segs, uma_node, allocs, answer, failed>>

TypeOK ==
    /\ kernel_end \in KernelEnds /\ reserved \in Reserved
    /\ begin_ppn \in Nat /\ num_ppn \in Nat
    /\ mem_map \subseteq 0 .. num_ppn - 1
    /\ last_page \in Nat /\ last_page_offset \in 0 .. PageSize - 1
    /\ Len(allocs) <= MaxAllocs(kernel_end, reserved)
    /\ failed \in BOOLEAN

Init ==
    /\ kernel_end \in KernelEnds /\ reserved \in Reserved
    /\ segs = NULL
    /\ begin_ppn = 0 /\ num_ppn = 0 /\ mem_map = {}
    /\ last_page = 0 /\ last_page_offset = 0
    /\ allocs = <<>> /\ answer = NULL
    /\ failed = FALSE

device_memory_init ==
    /\ segs = NULL
    /\ segs' = AvailableRam(Ram, kernel_end, reserved)
    /\ UNCHANGED <<kernel_end, reserved, uma_node, allocs, answer, failed>>

\* The pages, by physical number, that a range of bytes touches.
PagesOf(paddr, size) ==
    PageDown(paddr) \div PageSize .. PageUp(paddr + size) \div PageSize - 1

FreedPages == UNION {PagesOf(s.pa_begin, s.pa_len) : s \in ToSet(segs)}

\* The pages that mem_map itself lies in, at the beginning of the memory.
MapPages(begin, num) == PagesOf(begin * PageSize, (num + 7) \div 8)

\* A panic of bootmem_free (freed twice, out of bounds) or of bootmem_reserve
\* (out of bounds, reserved twice)
InitPanics(begin, num) ==
    \/ \E i, j \in 1 .. Len(segs) :
          i # j /\ PagesOf(segs[i].pa_begin, segs[i].pa_len)
                     \cap PagesOf(segs[j].pa_begin, segs[j].pa_len) # {}
    \/ ~(FreedPages \subseteq begin .. begin + num - 1)
    \/ ~(MapPages(begin, num) \subseteq FreedPages)

bootmem_init ==
    /\ segs \notin {NULL, <<>>} /\ num_ppn = 0
    /\ LET begin == Min({PageUp(s.pa_begin) \div PageSize : s \in ToSet(segs)})
           upper == Max({PageDown(s.pa_begin + s.pa_len) \div PageSize : s \in ToSet(segs)})
       IN  /\ begin_ppn' = begin
           /\ num_ppn' = upper - begin
           /\ mem_map' = {p - begin : p \in ((begin .. upper - 1) \ FreedPages)
                                              \cup MapPages(begin, upper - begin)}
           /\ failed' = InitPanics(begin, upper - begin)
    /\ UNCHANGED <<kernel_end, reserved, segs, last_page, last_page_offset, allocs, answer>>

-----------------------------------------------------------------------------
(* bootmem_alloc *)

\* (x & (x - 1)) = 0
IsPowerOf2(x) == x = 0 \/ \E k \in 0 .. AddrBits : x = 2^k

\* Faulty variants, used only to see that the properties notice them
AlignDown(x, alignment) == (x \div alignment) * alignment

\* (x + alignment - 1) & ~(alignment - 1)
AlignUp(x, alignment) ==
    IF alignment = 0 THEN 0 ELSE ((x + alignment - 1) \div alignment) * alignment

\* The first page of an aligned address.
ppn_offset(alignment) ==
    IF alignment = 0 THEN 0
    ELSE ((alignment - ((begin_ppn * PageSize) % alignment)) % alignment) \div PageSize

\* Where the goal is, relative to the memory.
Wanted(goal) ==
    IF goal # 0 /\ goal \div PageSize \in begin_ppn .. begin_ppn + num_ppn - 1
    THEN goal - begin_ppn * PageSize ELSE 0

preferred(alignment, goal) ==
    AlignUp(Wanted(goal), alignment) \div PageSize + ppn_offset(alignment)

area_size(size) == PageUp(size) \div PageSize

\* The runs of free pages from page `from' on.
Spots(from, size) ==
    {i \in from .. num_ppn - 1 :
        \A j \in i .. i + area_size(size) - 1 : j < num_ppn /\ j \notin mem_map}

SpotAtGoal(size, alignment, goal) ==
    LET fst == Spots(preferred(alignment, goal), size)
    IN  IF fst # {} THEN Min(fst) ELSE NULL

\* The scan, first from the goal and then from the beginning.
Spot(size, alignment, goal) ==
    LET fst == Spots(preferred(alignment, goal), size)
        snd == Spots(ppn_offset(alignment), size)
    IN  IF fst # {} THEN Min(fst) ELSE IF snd # {} THEN Min(snd) ELSE NULL

Appends(spot, alignment) ==
    alignment <= PageSize /\ last_page_offset # 0 /\ last_page + 1 = spot

\* The caller gets `size' bytes at offset `offset' of page `page', for which
\* `area' pages from `spot' on are marked.
Take(page, offset, size, alignment, spot, area) ==
    /\ LET a == [addr |-> (page + begin_ppn) * PageSize + offset, size |-> size,
                 alignment |-> alignment]
       IN  allocs' = Append(allocs, a) /\ answer' = a
    /\ failed' = (mem_map \cap (spot .. spot + area - 1) # {})
    /\ mem_map' = mem_map \cup (spot .. spot + area - 1)

\* Behind the previous allocation, in its last page
Continue(spot, size, alignment) ==
    LET offset    == AlignUp(last_page_offset, alignment)
        rem_size  == PageSize - offset
        back_size == size - rem_size
        area      == IF size < rem_size THEN 0 ELSE area_size(back_size)
    IN  /\ Take(last_page, offset, size, alignment, spot, area)
        /\ IF size < rem_size
           THEN UNCHANGED last_page /\ last_page_offset' = (offset + size) % PageSize
           ELSE last_page' = spot + area - 1 /\ last_page_offset' = back_size % PageSize

\* In pages of its own
Assign(spot, size, alignment) ==
    /\ Take(spot, 0, size, alignment, spot, area_size(size))
    /\ last_page' = spot + area_size(size) - 1
    /\ last_page_offset' = size % PageSize

Refuse(size, alignment) ==
    /\ answer' = [addr |-> NULL, size |-> size, alignment |-> alignment]
    /\ UNCHANGED <<mem_map, last_page, last_page_offset, allocs, failed>>

bootmem_alloc(size, alignment, goal) ==
    /\ num_ppn # 0 /\ ~failed /\ Len(allocs) < MaxAllocs(kernel_end, reserved)
    /\ LET spot == Spot(size, alignment, goal)
       IN  IF size = 0 \/ ~IsPowerOf2(alignment) \/ spot = NULL
           THEN Refuse(size, alignment)
           ELSE IF Appends(spot, alignment) THEN Continue(spot, size, alignment)
           ELSE Assign(spot, size, alignment)
    /\ UNCHANGED <<kernel_end, reserved, segs, begin_ppn, num_ppn>>

Next ==
    \/ device_memory_init
    \/ bootmem_init
    \/ \E size \in Sizes, alignment \in Alignments, goal \in Goals :
          bootmem_alloc(size, alignment, goal)

Spec == Init /\ [][Next]_vars

-----------------------------------------------------------------------------
(* Properties *)

\* qsort_uint64 sorts: the result is ascending and has the same elements, as
\* often, as the begins and the ends it is given.
SortIsRight ==
    \A arr \in {Begins(Ram, reserved), Ends(kernel_end, reserved)} :
        LET r == Sorted(arr)
        IN  /\ \A i \in 1 .. Len(r) - 1 : r[i] <= r[i + 1]
            /\ \A x \in ToSet(arr) \cup ToSet(r) : Run(r, x) = Run(arr, x)

RamPages == Ram.pa_begin \div PageSize .. (Ram.pa_begin + Ram.pa_len) \div PageSize - 1

\* The sweep finds exactly the whole pages of RAM that neither the kernel image
\* nor a reserved segment touches, whatever way the segments overlap, touch or
\* contain each other, and finds no page twice.
SweepIsExact ==
    segs # NULL =>
        /\ FreedPages =
             (RamPages \ PagesOf(Ram.pa_begin, kernel_end - Ram.pa_begin))
               \ UNION {PagesOf(r.pa_begin, r.pa_len) : r \in ToSet(reserved)}
        /\ \A i \in 1 .. Len(segs) - 1 :
             segs[i].pa_begin + segs[i].pa_len < segs[i + 1].pa_begin

\* No boot-time reservation, free or allocation panics.
NoFailure == ~failed

\* What callers are given does not overlap, lies in available pages that are
\* marked in use, and keeps clear of mem_map, although an allocation may begin in
\* the last page of an earlier one.
AllocsDisjoint ==
    /\ \A i, j \in 1 .. Len(allocs) :
          \/ i = j
          \/ allocs[i].addr + allocs[i].size <= allocs[j].addr
          \/ allocs[j].addr + allocs[j].size <= allocs[i].addr
    /\ \A x \in ToSet(allocs) :
          /\ PagesOf(x.addr, x.size) \subseteq FreedPages \ MapPages(begin_ppn, num_ppn)
          /\ \A p \in PagesOf(x.addr, x.size) : p - begin_ppn \in mem_map

\* Every allocation has the alignment it was asked for.
AllocsAligned ==
    \A x \in ToSet(allocs) : x.alignment > 0 => x.addr % x.alignment = 0

\* Boot-time memory is sound: no panic, no overlap, every allocation aligned.
AllocsSound == TypeOK /\ NoFailure /\ AllocsDisjoint /\ AllocsAligned

\* bootmem_alloc refuses a proper request (a size other than 0, an alignment that
\* is a power of two) only if no run of enough pages is free anywhere.
RefusesOnlyWhenFull ==
    [][answer' # answer /\ answer'.addr = NULL /\ answer'.size # 0 /\ IsPowerOf2(answer'.alignment)
         => Spots(0, answer'.size) = {}]_vars
=============================================================================
