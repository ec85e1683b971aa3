------------------------------- MODULE Buddy -------------------------------
(***************************************************************************)
(* The buddy allocator of physical pages (memory/buddy.c): a list of free  *)
(* blocks per order, threaded through the blocks, and a bit map per order  *)
(* with one bit for each pair of buddies.  Every operation is one section  *)
(* of page_manager_lock.                                                   *)
(*                                                                         *)
(* bootmem_alloc packs the bit maps of the orders one behind the other, so *)
(* they are modelled as the one array of bits they are, and an index past  *)
(* the end of a map is a bit of the next one.                              *)
(***************************************************************************)
EXTENDS Powers, Functions

CONSTANTS NumPages,     \* kmem.num_ppn
          MaxOrder,     \* MAX_MEM_ORDER
          BootFree,     \* the sets of pages the boot allocator may leave free
          NULL

\* A smaller memory would have a free_area_map of size 0.
ASSUME SizeAssumption ==
    /\ MaxOrder \in Nat \ {0} /\ NumPages \in Nat /\ NumPages >= Pow2[MaxOrder]
ASSUME BootAssumption == BootFree \subseteq SUBSET (0 .. NumPages - 1)

VARIABLES
    mem_map,         \* the pages whose bit in kmem.mem_map is set
    free_page_list,  \* free_page_list[ord]: the page numbers on the list
    free_area_map,   \* the bits of the maps of all orders
    boot_pn,         \* loop variable of kmem_page_manager_init
    owned,           \* the pages callers have been given and not freed
    answer,          \* the last request and what it returned
    failed           \* a panic, or a list_detach through a page in use

vars == <<mem_map, free_page_list, free_area_map, boot_pn, owned, answer, failed>>

Page == 0 .. NumPages - 1
Orders == 0 .. MaxOrder - 1

\* free_area_map_size of kmem_page_manager_init, in bytes
free_area_map_size(ord) == ((NumPages \div Pow2[ord + 1]) + 8 - 1) \div 8

MapBegin[ord \in Nat] ==
    IF ord = 0 THEN 0 ELSE MapBegin[ord - 1] + 8 * free_area_map_size(ord - 1)

\* The bit of the pair that block pn of order ord belongs to.
MapPos(ord, pn) == MapBegin[ord] + (pn \div Pow2[ord + 1])

TypeOK ==
    /\ mem_map \subseteq Page
    /\ free_page_list \in [Orders -> Seq(Page)]
    /\ free_area_map \in [0 .. MapBegin[MaxOrder] -> {0, 1}]
    /\ boot_pn \in 0 .. NumPages
    /\ owned \subseteq mem_map
    /\ answer \in {NULL} \cup Orders \X (Page \cup {NULL})
    /\ failed \in BOOLEAN

Init ==
    /\ \E F \in BootFree : mem_map = Page \ F
    /\ free_page_list = [ord \in Orders |-> <<>>]
    /\ free_area_map = [i \in 0 .. MapBegin[MaxOrder] |-> 0]
    /\ boot_pn = 0
    /\ owned = {}
    /\ answer = NULL
    /\ failed = FALSE

-----------------------------------------------------------------------------
(* The lists and maps during an operation: s is a record of both, of whether *)
(* every list_detach found its node on a list, and of whether the loop of    *)
(* kmem_free_page has ended.                                                 *)

Area(list, map, ok, done) == [list |-> list, map |-> map, ok |-> ok, done |-> done]

Areas == Area(free_page_list, free_area_map, TRUE, FALSE)

toggle_bit(s, ord, pn) ==
    Area(s.list, [s.map EXCEPT ![MapPos(ord, pn)] = 1 - @], s.ok, s.done)

list_insert(s, ord, pn) ==
    Area([s.list EXCEPT ![ord] = <<pn>> \o @], s.map, s.ok, s.done)

\* A node is unlinked from the list it is on, whichever that is; a page that
\* is on no list has no links, only data.
list_detach(s, pn) ==
    Area([ord \in Orders |->
            IF pn \in Range(s.list[ord])
            THEN Unlinked(s.list[ord], CHOOSE i \in DOMAIN s.list[ord] : s.list[ord][i] = pn)
            ELSE s.list[ord]],
         s.map, s.ok /\ \E ord \in Orders : pn \in Range(s.list[ord]), s.done)

SetAreas(s) ==
    /\ free_page_list' = s.list
    /\ free_area_map' = s.map

-----------------------------------------------------------------------------
(* Faulty variants of the helpers, to see that the properties notice them *)

MergesAtTop(bit, dep) == bit = 0
MergesNever(bit, dep) == FALSE

AvailableExact(order) == {ord \in {order} : free_page_list[ord] # <<>>}

-----------------------------------------------------------------------------
(* kmem_free_page *)

\* The bit after the toggle is clear: the buddy is free.
Merges(bit, dep) == bit = 0 /\ dep # MaxOrder - 1

\* current_pn ^ (1ul << dep)
buddy_pn(current_pn, dep) ==
    IF current_pn % Pow2[dep + 1] = 0 THEN current_pn + Pow2[dep]
                                      ELSE current_pn - Pow2[dep]

\* One iteration of its loop: merge with the free buddy and go on, or insert
\* the block and stop.
FreeStep(pn, s, dep) ==
    LET current_pn == BlockStart(pn, dep)
        t == toggle_bit(s, dep, current_pn)
    IN  IF s.done THEN s
        ELSE IF Merges(t.map[MapPos(dep, current_pn)], dep)
        THEN list_detach(t, buddy_pn(current_pn, dep))
        ELSE Area(list_insert(t, dep, current_pn).list, t.map, t.ok, TRUE)

\* What the loop has made of s when it comes to dep.
FreeLoop(pn, s) ==
    LET loop[dep \in Nat] == IF dep = 0 THEN s ELSE FreeStep(pn, loop[dep - 1], dep - 1)
    IN  loop

Freed(pn) == FreeLoop(pn, Areas)[MaxOrder]

\* kmem_page_manager_init, one page of its loop: a page that is not reserved
\* is marked and freed.
BootFreePage ==
    /\ ~failed /\ boot_pn < NumPages
    /\ boot_pn' = boot_pn + 1
    /\ IF boot_pn \in mem_map
       THEN UNCHANGED <<free_page_list, free_area_map, failed>>
       ELSE SetAreas(Freed(boot_pn)) /\ failed' = ~Freed(boot_pn).ok
    /\ UNCHANGED <<mem_map, owned, answer>>

\* A caller gives back a page it was given; kmem_free_pages is a loop of
\* these, each with a lock section of its own.
kmem_free_page(pn) ==
    /\ ~failed /\ boot_pn = NumPages
    /\ pn \in owned
    /\ mem_map' = mem_map \ {pn}
    /\ SetAreas(Freed(pn))
    /\ failed' = (pn \notin mem_map \/ ~Freed(pn).ok)
    /\ owned' = owned \ {pn}
    /\ UNCHANGED <<boot_pn, answer>>

-----------------------------------------------------------------------------
(* kmem_alloc_pages *)

\* The block at pn is taken off the list of ord and its halves are listed.
Split(pn, s, ord) ==
    LET t == toggle_bit(list_detach(s, pn), ord, pn)
    IN  list_insert(list_insert(t, ord - 1, pn), ord - 1, pn + Pow2[ord - 1])

\* What n splits of the block at pn, of order from, make of s.
SplitLoop(pn, s, from) ==
    LET loop[n \in Nat] == IF n = 0 THEN s ELSE Split(pn, loop[n - 1], from - (n - 1))
    IN  loop

\* The block at pn, of order from, is split down to order and taken.
Taken(pn, from, order) ==
    toggle_bit(list_detach(SplitLoop(pn, Areas, from)[from - order], pn), order, pn)

\* The pages whose mem_map bit the registering loop sets.
Registered(pn, order) == Block(pn, order)

\* The orders the search finds a block in.
Available(order) == {ord \in order .. MaxOrder - 1 : free_page_list[ord] # <<>>}

kmem_alloc_pages(order) ==
    LET current_order == CHOOSE ord \in Available(order) :
                             \A o \in Available(order) : ord <= o
        pn == Head(free_page_list[current_order])
        s == Taken(pn, current_order, order)
    IN  /\ ~failed /\ boot_pn = NumPages
        /\ \/ /\ Available(order) = {}
              /\ answer' = <<order, NULL>>
              /\ UNCHANGED <<mem_map, free_page_list, free_area_map, owned, failed>>
           \/ /\ Available(order) # {}
              /\ SetAreas(s)
              /\ mem_map' = mem_map \cup Registered(pn, order)
              /\ failed' = (Registered(pn, order) \cap mem_map # {} \/ ~s.ok)
              /\ owned' = owned \cup Block(pn, order)
              /\ answer' = <<order, pn>>
        /\ UNCHANGED boot_pn

Next ==
    \/ BootFreePage
    \/ \E order \in Orders : kmem_alloc_pages(order)
    \/ \E pn \in Page : kmem_free_page(pn)

Spec == Init /\ [][Next]_vars

-----------------------------------------------------------------------------
(* Properties *)

\* The pages of the blocks on the lists.
Covered(list) ==
    UNION {UNION {Block(p, ord) : p \in Range(list[ord])} : ord \in Orders}

\* The panics "freed twice" and "allocated" are not reached, and no list
\* operation goes through a page that is in use.
NoFailure == ~failed

\* The blocks on the lists are aligned, each is listed once, no two have a page
\* in common, and together they are the pages of free.
Partition(list, free) ==
    /\ Covered(list) = free
    /\ \A ord \in Orders : IsInjective(list[ord])
    /\ \A ord \in Orders : \A p \in Range(list[ord]) : p % Pow2[ord] = 0
    /\ \A j, k \in Orders : \A p \in Range(list[j]), q \in Range(list[k]) :
           (j = k /\ p = q) \/ Block(p, j) \cap Block(q, k) = {}

\* A bit of map says that exactly one of the two buddies is listed in that
\* order, which is what lets kmem_free_page merge by toggling it.
Parity(list, map) ==
    \A ord \in Orders : \A p \in Page :
        p % Pow2[ord + 1] = 0 =>
            map[MapPos(ord, p)]
                = IF p \in Range(list[ord]) <=> p + Pow2[ord] \in Range(list[ord]) THEN 0 ELSE 1

\* Merging is complete: two buddies are never both listed below the top order.
Merged(list) ==
    \A ord \in 0 .. MaxOrder - 2 : \A p \in Range(list[ord]) :
        p % Pow2[ord + 1] = 0 => p + Pow2[ord] \notin Range(list[ord])

\* The pages on the lists: those whose mem_map bit is clear and, while init
\* runs, that it has come to.
FreePages == {p \in Page : p \notin mem_map /\ p < boot_pn}

\* The free lists can be trusted in every state: no operation has gone wrong, the
\* lists partition the free pages and free_area_map agrees with them.
ListsInv ==
    /\ TypeOK /\ NoFailure
    /\ Partition(free_page_list, FreePages)
    /\ Parity(free_page_list, free_area_map)

\* kmem_free_page merges whatever can be merged, in every state.
Coalesced == Merged(free_page_list)

\* Callers see the page allocator they expect.  While init runs, the pages it
\* has still to list already count as free.
PA == INSTANCE PageAlloc WITH free <- Page \ mem_map

\* The buddy allocator implements PageAlloc: pages are never given out twice,
\* and a request fails only if no aligned run of free pages is left.
Implements == PA!Spec
=============================================================================
