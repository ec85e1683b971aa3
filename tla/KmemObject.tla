----------------------------- MODULE KmemObject -----------------------------
(***************************************************************************)
(* The object allocator (memory/object.c) and kmem_alloc on top of it      *)
(* (memory/kmem.c).  A manager serves objects of one size from blocks of   *)
(* pages that it takes from the page allocator, of which only the promise  *)
(* (PageAlloc) is used.  Addresses are in bytes and sizes are the real     *)
(* ones; a block is named by its first page, an object by its address.     *)
(*                                                                         *)
(* A section of a manager's lock is one step, except that each attempt to  *)
(* get pages is a step of its own: other harts use the page allocator in   *)
(* between.                                                                *)
(***************************************************************************)
EXTENDS Powers, FiniteSets, Functions

CONSTANTS NumPages, MaxOrder, NULL,
          PageSize, BlockHeader, SlotHeader,  \* PAGE_SIZE and the two sizeofs
          Align,                              \* OBJECT_ALIGNMENT
          Harts,
          Root, Nodes,      \* kmem.object_manager, list_node_object_manager
          Universal,        \* the universal managers as kmem_init creates them
          ObjectSize,       \* the size each manager is created for
          Requests,         \* the sizes kmem_alloc is called with
          MaxLive,          \* bound on the objects in use
          Exclusive         \* does the caller of kmem_object_free_block keep
                            \* the other harts out of kmem_alloc meanwhile?

Mgr == {Root, Nodes} \cup Range(Universal)

VARIABLES free, owned, answer   \* of the page allocator
VARIABLES
    created,       \* the managers on kmem's list
    uni_managers,  \* the list kmem_alloc walks
    blocks,        \* blocks[m]: the blocks of manager m, newest first
    blk,           \* blk[b]: the block that begins at page b
    lock,          \* lock[m]: the hart that holds the lock of m
    call,          \* call[h]: the call hart h is in
    boot,          \* position in kmem_init
    live,          \* the objects callers have, and the sizes they asked for
    failed         \* a panic, or a NULL manager

pages == <<free, owned, answer>>
vars == <<free, owned, answer, created, uni_managers, blocks, blk, lock, call,
          boot, live, failed>>

Pages == INSTANCE PageAlloc

\* Faulty variants, used only to see that the properties notice them
unit_size_bare(m) == ((ObjectSize[m] + Align - 1) \div Align) * Align
LinkedAlone(b, m) == [blocks EXCEPT ![m] = <<b>>]

RoundUp(x) == ((x + Align - 1) \div Align) * Align
RoundDown(x) == (x \div Align) * Align

\* object_size of a manager, and a slot with its header
object_size(m) == RoundUp(ObjectSize[m])
unit_size(m) == object_size(m) + SlotHeader

\* What a block of 2^ord pages has room for.
Capacity(ord) == RoundDown(Pow2[ord] * PageSize - BlockHeader)
HasRoomForTwo(ord, m) == Capacity(ord) >= 2 * unit_size(m)  \* a faulty variant
HasRoom(ord, m) == Capacity(ord) >= unit_size(m)

ASSUME SizeAssumption ==
    /\ NumPages \in Nat /\ MaxOrder \in Nat \ {0} /\ PageSize \in Nat \ {0}
    /\ BlockHeader \in Nat /\ SlotHeader \in Nat
    /\ Align \in Nat \ {0} /\ PageSize % Align = 0
    /\ Requests \subseteq Nat

\* The largest block holds an object of every manager.
ASSUME ManagersAssumption ==
    /\ Root # Nodes /\ Universal \in Seq(Range(Universal))
    /\ {Root, Nodes} \cap Range(Universal) = {}
    /\ ObjectSize \in [Mgr -> Nat \ {0}]
    /\ \A m \in Mgr : HasRoom(MaxOrder - 1, m)

\* The addresses of the slot headers that kmem_object_create_block writes.
SlotsOf(b, ord, m) ==
    LET first == RoundUp(b * PageSize + BlockHeader)
        end   == (b + Pow2[ord]) * PageSize
    IN  [i \in 1 .. (end - first) \div unit_size(m) |->
            first + (i - 1) * unit_size(m)]

Idle == [at |-> "idle"]

\* kmem_init as the calls it makes: for every universal manager a list node,
\* then the manager itself, which is a Root object.
BootScript ==
    [i \in 1 .. 1 + 2 * Len(Universal) |->
        IF i = 1 THEN [from |-> Root, new |-> Nodes]
        ELSE IF i % 2 = 0 THEN [from |-> Nodes, new |-> NULL]
        ELSE [from |-> Root, new |-> Universal[i \div 2]]]

Booted == boot > Len(BootScript)

\* What kmem_init relies on: there are two pages, and one block of a single page has
\* room for all the objects it takes from each of its two managers.
BootFits ==
    /\ NumPages > 1
    /\ \A m \in {Root, Nodes} : /\ Capacity(0) > 4 * unit_size(m)
                                /\ Len(BootScript) * unit_size(m) <= Capacity(0)

BlockType == [parent_manager : Mgr, order : Pages!Orders, free_slots : Seq(Nat),
              allocated_slots : SUBSET Nat, used : Nat]

\* The list of managers a call has still to ask.
Todo == Seq(Mgr) \ {<<>>}

CallType ==
    {Idle}
    \cup [at : {"scan"}, todo : Todo, size : Nat, new : Mgr \cup {NULL}]
    \cup [at : {"grow"}, ord : Pages!Orders, todo : Todo, size : Nat, new : Mgr \cup {NULL}]
    \cup [at : {"reclaim"}, block : Pages!Page]

ASSUME NullAssumption == NULL \notin Pages!Page \cup Mgr \cup Harts \cup BlockType

TypeOK ==
    /\ free \subseteq Pages!Page /\ owned \subseteq Pages!Page
    /\ created \subseteq Mgr
    /\ uni_managers \in Seq(Mgr)
    /\ blocks \in [Mgr -> Seq(Pages!Page)]
    /\ blk \in [Pages!Page -> BlockType \cup {NULL}]
    /\ lock \in [Mgr -> Harts \cup {NULL}]
    /\ call \in [Harts -> CallType]
    /\ boot \in 1 .. Len(BootScript) + 1
    /\ live \subseteq [addr : Nat, size : Nat]
    /\ failed \in BOOLEAN

Init ==
    /\ free = Pages!Page /\ owned = {} /\ answer = NULL
    /\ created = {Root}
    /\ uni_managers = <<>>
    /\ blocks = [m \in Mgr |-> <<>>]
    /\ blk = [b \in Pages!Page |-> NULL]
    /\ lock = [m \in Mgr |-> NULL]
    /\ call = [h \in Harts |-> Idle]
    /\ boot = 1
    /\ live = {}
    /\ failed = FALSE

-----------------------------------------------------------------------------
(* Calls.  todo holds the managers still to be asked, new the manager that   *)
(* is being created, if any.                                                 *)

Begin(h, todo, size, new) ==
    /\ call[h] = Idle /\ ~failed
    /\ Exclusive => \A i \in Harts : call[i].at # "reclaim"
    /\ call' = [call EXCEPT ![h] =
                  [at |-> "scan", todo |-> todo, size |-> size, new |-> new]]

\* kmem_init, on the boot hart while the others wait for it
KmemInit(h) ==
    /\ ~Booted
    /\ call = [i \in Harts |-> Idle]
    /\ LET c == BootScript[boot]
       IN  Begin(h, <<c.from>>, object_size(c.from), c.new)
    /\ UNCHANGED <<pages, created, uni_managers, blocks, blk, lock, boot, live, failed>>

\* The universal managers that are large enough, in the order of their list.
Suitable(size) ==
    LET ask[i \in 0 .. Len(uni_managers)] ==
          IF i = 0 THEN <<>>
          ELSE IF object_size(uni_managers[i]) >= size THEN Append(ask[i - 1], uni_managers[i])
          ELSE ask[i - 1]
    IN  ask[Len(uni_managers)]

kmem_alloc(h, size) ==
    /\ Booted /\ Cardinality(live) < MaxLive
    /\ Suitable(size) # <<>>
    /\ Begin(h, Suitable(size), size, NULL)
    /\ UNCHANGED <<pages, created, uni_managers, blocks, blk, lock, boot, live, failed>>

\* list_insert of kmem_init
Listed(new) == <<new>> \o uni_managers

\* The call returns the object at address a.  kmem_object_create_manager
\* links the manager it was for, and kmem_init lists it and goes on.
Return(h, a) ==
    LET new == call[h].new
    IN  /\ call' = [call EXCEPT ![h] = Idle]
        /\ live' = live \cup {[addr |-> a, size |-> call[h].size]}
        /\ created' = created \cup ({new} \ {NULL})
        /\ uni_managers' = IF new \in Range(Universal)
                           THEN Listed(new) ELSE uni_managers
        /\ boot' = IF Booted THEN boot ELSE boot + 1

SlotTaken(block) ==
    [block EXCEPT !.free_slots = Tail(@), !.used = @ + 1,
                  !.allocated_slots = @ \cup {Head(block.free_slots)}]

\* kmem_object_alloc_from_block, which returns the first free slot.
TakeSlot(h, B, b) ==
    IF B[b].free_slots = <<>>
    THEN failed' = TRUE
         /\ blk' = B /\ UNCHANGED <<call, live, created, uni_managers, boot>>
    ELSE /\ blk' = [B EXCEPT ![b] = SlotTaken(@)]
         /\ Return(h, Head(B[b].free_slots) + SlotHeader)
         /\ UNCHANGED failed

\* Where in the list of m there is a block with a free slot; the first is used.
Available(m) == {i \in DOMAIN blocks[m] : blk[blocks[m][i]].free_slots # <<>>}
FirstAvailable(m) ==
    blocks[m][CHOOSE i \in Available(m) : \A j \in Available(m) : i <= j]

\* The bytes of the slots in use, summed up block by block.
allocated_sum(m) ==
    LET sum[i \in 0 .. Len(blocks[m])] ==
          IF i = 0 THEN 0 ELSE sum[i - 1] + blk[blocks[m][i]].used * unit_size(m)
    IN  sum[Len(blocks[m])]

\* The order of the next block: room for as much as is in use already.
NextOrder(m) ==
    LET goal == IF allocated_sum(m) < 4 * unit_size(m)
                THEN 4 * unit_size(m) ELSE allocated_sum(m)
        fits == {o \in Pages!Orders : o + 1 = MaxOrder \/ Capacity(o) > goal}
    IN  CHOOSE o \in fits : \A p \in fits : o <= p

\* kmem_object_alloc finds a slot, or takes the lock to make a new block.
Scan(h) ==
    /\ call[h].at = "scan"
    /\ LET m == Head(call[h].todo)
       IN  /\ lock[m] = NULL
           /\ IF Available(m) # {}
              THEN /\ TakeSlot(h, blk, FirstAvailable(m))
                   /\ UNCHANGED <<lock, blocks>>
              ELSE /\ lock' = [lock EXCEPT ![m] = h]
                   /\ call' = [call EXCEPT ![h] =
                        [at |-> "grow", ord |-> NextOrder(m), todo |-> @.todo,
                         size |-> @.size, new |-> @.new]]
                   /\ UNCHANGED <<blocks, blk, live, created, uni_managers, boot, failed>>
    /\ UNCHANGED pages

NewBlock(b, ord, m) ==
    [parent_manager |-> m, order |-> ord, free_slots |-> SlotsOf(b, ord, m),
     allocated_slots |-> {}, used |-> 0]

\* An attempt of order ord has failed: a smaller one, the next manager, or NULL.
\* kmem_init and kmem_object_create_manager go on to write through the NULL.
Retry(h, m, ord) ==
    IF ord > 0 /\ HasRoom(ord - 1, m)
    THEN /\ call' = [call EXCEPT ![h].ord = ord - 1]
         /\ UNCHANGED <<lock, failed>>
    ELSE /\ lock' = [lock EXCEPT ![m] = NULL]
         /\ call' = [call EXCEPT ![h] =
              IF Len(@.todo) = 1 THEN Idle
              ELSE [at |-> "scan", todo |-> Tail(@.todo), size |-> @.size, new |-> @.new]]
         /\ failed' = (failed \/ ~Booted)

\* The new block becomes the first of its manager.
Linked(b, m) == [blocks EXCEPT ![m] = <<b>> \o @]

\* One attempt of kmem_object_create_block.
Grow(h) ==
    /\ call[h].at = "grow"
    /\ LET m   == Head(call[h].todo)
           ord == call[h].ord
       IN  /\ Pages!Alloc(ord)
           /\ LET b == answer'[2]
              IN  IF b = NULL
                  THEN /\ Retry(h, m, ord)
                       /\ UNCHANGED <<blocks, blk, live, created, uni_managers, boot>>
                  ELSE /\ blocks' = Linked(b, m)
                       /\ TakeSlot(h, [blk EXCEPT ![b] = NewBlock(b, ord, m)], b)
                       /\ lock' = [lock EXCEPT ![m] = NULL]

\* The block whose slot is the one of the object at address a, by the
\* parent_block pointer in the slot's header.
ParentBlock(a) ==
    CHOOSE b \in Pages!Page :
        blk[b] # NULL /\ a - SlotHeader \in blk[b].allocated_slots

SlotFreed(block, s) ==
    [block EXCEPT !.free_slots = <<s>> \o @, !.used = @ - 1,
                  !.allocated_slots = @ \ {s}]

\* kmem_free, of an object that kmem_alloc has returned
kmem_object_free(h, x) ==
    /\ Booted /\ call[h] = Idle /\ ~failed
    /\ x \in live
    /\ LET b == ParentBlock(x.addr)
           s == x.addr - SlotHeader
       IN  /\ blk[b].parent_manager \notin {Root, Nodes}
           /\ lock[blk[b].parent_manager] = NULL
           /\ blk' = [blk EXCEPT ![b] = SlotFreed(@, s)]
    /\ live' = live \ {x}
    /\ UNCHANGED <<pages, created, uni_managers, blocks, lock, call, boot, failed>>

\* kmem_object_free_block looks at the block before it takes the lock ...
FreeBlockCheck(h, b) ==
    /\ Booted /\ call[h] = Idle /\ ~failed
    /\ Exclusive => \A i \in Harts : call[i] = Idle
    /\ blk[b] # NULL /\ blk[b].allocated_slots = {}
    /\ \A i \in Harts : call[i].at = "reclaim" => call[i].block # b
    /\ call' = [call EXCEPT ![h] = [at |-> "reclaim", block |-> b]]
    /\ UNCHANGED <<pages, created, uni_managers, blocks, blk, lock, boot, live, failed>>

\* The list without the block b.
Disconnected(list, b) ==
    Unlinked(list, CHOOSE i \in DOMAIN list : list[i] = b)

\* ... and gives it back under the lock.
FreeBlock(h) ==
    /\ call[h].at = "reclaim"
    /\ LET b == call[h].block
           m == blk[b].parent_manager
           P == Block(b, blk[b].order)
       IN  /\ lock[m] = NULL
           /\ blocks' = [blocks EXCEPT ![m] = Disconnected(@, b)]
           /\ free' = free \cup P /\ owned' = owned \ P
           /\ blk' = [blk EXCEPT ![b] = NULL]
    /\ call' = [call EXCEPT ![h] = Idle]
    /\ UNCHANGED <<answer, created, uni_managers, lock, boot, live, failed>>

Next ==
    \/ \E h \in Harts : KmemInit(h)
    \/ \E h \in Harts, size \in Requests : kmem_alloc(h, size)
    \/ \E h \in Harts : Scan(h)
    \/ \E h \in Harts : Grow(h)
    \/ \E h \in Harts, x \in live : kmem_object_free(h, x)
    \/ \E h \in Harts, b \in Pages!Page : FreeBlockCheck(h, b)
    \/ \E h \in Harts : FreeBlock(h)

Spec == Init /\ [][Next]_vars

-----------------------------------------------------------------------------
(* Properties *)

\* The bytes that belong to the object x.
FirstByte(x) == x.addr
LastByte(x) == x.addr + x.size - 1

\* Objects in use never overlap each other, and every one lies, with the header
\* before it, in pages of one block behind the block's own header: whatever the
\* sizes, the alignment and the history of blocks, kmem_object_create_block has
\* cut the block so that callers may write all the bytes they asked for.
ObjectsDisjoint ==
    /\ \A x, y \in live : x = y \/ LastByte(x) < FirstByte(y) - SlotHeader
                                \/ LastByte(y) < FirstByte(x) - SlotHeader
    /\ \A x \in live : \E m \in Mgr : \E b \in Range(blocks[m]) :
          /\ FirstByte(x) - SlotHeader >= b * PageSize + BlockHeader
          /\ LastByte(x) < (b + Pow2[blk[b].order]) * PageSize
          /\ x.size <= object_size(m)

\* The lists of a block agree with what callers hold: its allocated slots are
\* the objects in use, used counts them, and every slot is on one list, once.
SlotsAccounted ==
    \A m \in Mgr : \A b \in Range(blocks[m]) :
        /\ blk[b].used = Cardinality(blk[b].allocated_slots)
        /\ blk[b].allocated_slots =
              {x.addr - SlotHeader : x \in live} \cap Range(SlotsOf(b, blk[b].order, m))
        /\ IsInjective(blk[b].free_slots)
        /\ Range(blk[b].free_slots) =
              Range(SlotsOf(b, blk[b].order, m)) \ blk[b].allocated_slots

\* No page is lost or shared: the pages taken from the page allocator are the
\* pages of the blocks on the managers' lists, each on one list and once.
PagesAccounted ==
    /\ owned = UNION {Block(b, blk[b].order) : b \in UNION {Range(blocks[m]) : m \in Mgr}}
    /\ \A m, n \in Mgr : \A i \in DOMAIN blocks[m], j \in DOMAIN blocks[n] :
          \/ m = n /\ i = j
          \/ Block(blocks[m][i], blk[blocks[m][i]].order) \cap
             Block(blocks[n][j], blk[blocks[n][j]].order) = {}

\* No allocation panics with "no slots available": the order that NextOrder and
\* Retry arrive at always gives a block with room for an object.  And boot finds
\* the memory its managers need.
NoFailure == ~failed

\* The allocator's books are right: no allocation finds a block without room for
\* its object, and every slot and every page is accounted for, whatever blocks
\* have come and gone.
Accounted == TypeOK /\ NoFailure /\ SlotsAccounted /\ PagesAccounted

\* The smallest block that holds an object of m.
MinOrder(m) ==
    CHOOSE o \in Pages!Orders : /\ Capacity(o) >= unit_size(m)
                                /\ o = 0 \/ Capacity(o - 1) < unit_size(m)

\* A manager gives up only when not even the smallest block it could use is to be
\* had, although it starts from the order it prefers and goes down from there.
GivesUpOnlyWhenFull ==
    [][\A h \in Harts :
         call[h].at = "grow" /\ call'[h].at # "grow" /\ owned' = owned
           => LET m == Head(call[h].todo)
              IN  Pages!Candidates(MinOrder(m)) = {}]_vars

=============================================================================
