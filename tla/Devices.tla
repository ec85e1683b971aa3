------------------------------ MODULE Devices ------------------------------
(***************************************************************************)
(* Device discovery: device_init walks the flattened device tree, gives    *)
(* each node to the driver that recognises it, lets the drivers register   *)
(* with the abstraction layers for interrupts and serial lines, picks the  *)
(* console and enables the interrupt sources.  One hart does it, at boot;  *)
(* what makes it hard is that every driver can fail half way.              *)
(*                                                                         *)
(* Nodes are numbered in the order of their offsets, the root being 0, and *)
(* the walk visits them in that order.                                     *)
(***************************************************************************)
EXTENDS Integers, Sequences, FiniteSets

CONSTANTS NNode,   \* nodes of the tree
          NULL,
          Fails    \* what may fail in a driver's init; "none" is success

\* u, dev, irq, hal: kmem_alloc of that object returns NULL; prop: a property
\* is missing or of the wrong length; src: the interrupt number is out of range.
Failures == {"none", "u", "dev", "irq", "hal", "prop", "src"}

ASSUME TreeAssumption == NNode \in Nat \ {0} /\ NULL \notin 0..(NNode - 1)
ASSUME FailsAssumption == Fails \subseteq Failures

Node == 0..(NNode - 1)
Kinds == {"plic", "uart", "chosen", "other"}

VARIABLES
    parent, kind, path,  \* the tree: parents, what nodes are, stdout-path
    phase, next,         \* progress of device_init; the node to visit next
    dev,                 \* device of a node: driver, offset, devId; or NULL
    parentOf, children,  \* dev->parent and the list dev->children
    counter,             \* device_counter
    chosen,              \* fdt_chosen_node_offset
    stdout,              \* console.kernel_stdout_dev
    irqs, uarts,         \* the lists of hal/trap.c and hal/uart_io.c, from the head
    interruptor,         \* hal_trap_manager.interruptor
    enabled,             \* sources enabled at the PLIC
    live,                \* history: objects allocated and not freed
    fault                \* a NULL pointer was written through

fdtVars == <<parent, kind, path>>
treeVars == <<dev, parentOf, children, counter>>
halVars == <<irqs, uarts, interruptor>>
vars == <<fdtVars, phase, next, treeVars, chosen, stdout, halVars, enabled, live,
          fault>>

Device == [driver : {"plic", "ns16550a", NULL}, offset : Node, devId : 1..NNode]
Object == {"u", "dev", "irq", "hal"} \X Node

ASSUME NullAssumption == NULL \notin Device \cup {"plic", "ns16550a"}

TypeOK ==
    /\ phase \in {"walk", "chosen", "hal", "done"} /\ next \in 0..NNode
    /\ dev \in [Node -> Device \cup {NULL}]
    /\ parentOf \in [Node -> Node \cup {NULL}]
    /\ children \in [Node -> Seq(Node)]
    /\ counter \in 0..NNode /\ chosen \in Node
    /\ stdout \in Node \cup {NULL} /\ interruptor \in Node \cup {NULL}
    /\ irqs \in Seq(Node) /\ uarts \in Seq(Node)
    /\ enabled \subseteq Node /\ live \subseteq Object /\ fault \in BOOLEAN

Elems(s) == {s[i] : i \in DOMAIN s}

\* n and its ancestors in the tree with parents f.
Up(f, n) == LET F[k \in Node] == {k} \cup (IF k = 0 THEN {} ELSE F[f[k]]) IN F[n]

\* Parents of a tree whose nodes are numbered as the walk meets them.
Parents == {f \in [Node -> Node] :
              /\ f[0] = 0
              /\ \A n \in Node \ {0} : f[n] < n
              /\ \A n \in Node \ {0} : f[n] \in Up(f, n - 1)}

Subtree(n) == {m \in Node : n \in Up(parent, m)}

Init ==
    /\ parent \in Parents
    /\ kind \in {k \in [Node -> Kinds] : k[0] = "other"}
    /\ path \in {n \in Node : kind[n] = "uart"} \cup {NULL}
    /\ phase = "walk" /\ next = 0
    /\ dev = [n \in Node |-> NULL] /\ parentOf = [n \in Node |-> NULL]
    /\ children = [n \in Node |-> <<>>]
    /\ counter = 0 /\ chosen = 0 /\ stdout = NULL
    /\ irqs = <<>> /\ uarts = <<>> /\ interruptor = NULL
    /\ enabled = {} /\ live = {} /\ fault = FALSE

-----------------------------------------------------------------------------
(* Faulty variants of the operations, to see that the properties notice them *)

\* hal_trap_register_irq before the properties are read.
RegistersEarly(f) == f \in {"none", "prop", "src"}

\* The walk that leaves only the chosen node out, not its subtree.
AfterChosenInside(n) == n + 1

\* hal_trap_init that forgets the first entry of the list.
SourcesButFirst == Elems(IF irqs = <<>> THEN <<>> ELSE Tail(irqs))

-----------------------------------------------------------------------------
(* The drivers' init *)

\* What a failing ns16550a_driver_init leaves allocated: its clean-up does not
\* free the irq_struct, except where hal_trap_register_irq refused it.
UartLeftover(f) == IF f = "prop" THEN {"irq"} ELSE {}
\* The second test is for u_irq again, so a NULL hal_u is used.  And where the
\* driver got no device_struct, device_walk_fdt gets none and does not test.
NullUsed(n, f) == (f = "hal" /\ kind[n] = "uart") \/ f = "dev"
Registers(f) == f = "none"

\* The failures each driver can meet.
CanFail(n, f) ==
    \/ f = "none" /\ kind[n] \in {"plic", "uart"}
    \/ f \in {"u", "dev", "prop"} /\ kind[n] \in {"plic", "uart"}
    \/ f = "hal" /\ kind[n] \in {"plic", "uart"}
    \/ f \in {"irq", "src"} /\ kind[n] = "uart"

Objects(n) == IF kind[n] = "uart" THEN {"u", "dev", "irq", "hal"} ELSE {"u", "dev", "hal"}

-----------------------------------------------------------------------------
(* device_walk_fdt *)

\* child->next = dev->children; dev->children = child
Linked(n) == IF n = 0 THEN children
             ELSE [children EXCEPT ![parent[n]] = <<n>> \o @]

\* The device of n enters the tree with the next devId.
Attach(n, driver, offset) ==
    /\ dev' = [dev EXCEPT ![n] = [driver |-> driver, offset |-> offset,
                                  devId |-> counter + 1]]
    /\ children' = Linked(n)
    /\ parentOf' = [parentOf EXCEPT ![n] = IF n = 0 THEN NULL ELSE parent[n]]

CounterAfter(f) == counter + 1

\* The driver's init succeeds and registers with the abstraction layers.
VisitDriven(n) ==
    /\ phase = "walk" /\ next = n /\ ~fault
    /\ "none" \in Fails /\ CanFail(n, "none")
    /\ Attach(n, IF kind[n] = "uart" THEN "ns16550a" ELSE "plic", n)
    /\ IF kind[n] = "uart"
       THEN irqs' = <<n>> \o irqs /\ uarts' = <<n>> \o uarts /\ UNCHANGED interruptor
       ELSE interruptor' = n /\ UNCHANGED <<irqs, uarts>>
    /\ live' = live \cup (Objects(n) \X {n})
    /\ counter' = CounterAfter("none")
    /\ next' = n + 1
    /\ UNCHANGED <<fdtVars, phase, chosen, stdout, enabled, fault>>

\* It fails, and the node gets an "Unknown Device", whose fdt_node_offset is
\* what the memory held: zero, or the number a freed device left there.
VisitFailed(n, f) ==
    /\ phase = "walk" /\ next = n /\ ~fault
    /\ f \in Fails \ {"none"} /\ CanFail(n, f)
    /\ fault' = NullUsed(n, f)
    /\ \E old \in (IF f = "src" THEN {0, n} ELSE {0}) : Attach(n, NULL, old)
    /\ irqs' = IF kind[n] = "uart" /\ Registers(f) THEN <<n>> \o irqs ELSE irqs
    /\ live' = live \cup {<<"dev", n>>}
                    \cup ((IF kind[n] = "uart" THEN UartLeftover(f) ELSE {}) \X {n})
    /\ counter' = CounterAfter(f)
    /\ next' = n + 1
    /\ UNCHANGED <<fdtVars, phase, chosen, stdout, uarts, interruptor, enabled>>

\* No driver recognises the node.
VisitUnknown(n) ==
    /\ phase = "walk" /\ next = n /\ ~fault
    /\ kind[n] = "other"
    /\ Attach(n, NULL, 0)
    /\ live' = live \cup {<<"dev", n>>}
    /\ counter' = CounterAfter("none")
    /\ next' = n + 1
    /\ UNCHANGED <<fdtVars, phase, chosen, stdout, halVars, enabled, fault>>

\* The chosen node is noted and left out with all below it.
AfterChosen(n) == n + Cardinality(Subtree(n))
VisitChosen(n) ==
    /\ phase = "walk" /\ next = n /\ ~fault
    /\ kind[n] = "chosen"
    /\ chosen' = n
    /\ next' = AfterChosen(n)
    /\ UNCHANGED <<fdtVars, phase, treeVars, stdout, halVars, enabled, live, fault>>

WalkEnd ==
    /\ phase = "walk" /\ next = NNode /\ ~fault
    /\ phase' = "chosen"
    /\ UNCHANGED <<fdtVars, next, treeVars, chosen, stdout, halVars, enabled, live,
                   fault>>

-----------------------------------------------------------------------------
(* device_fdt_parse_chosen and hal_init *)

\* device_find_dev_by_fdt_offset, from the root down.
Found(n) == LET S == {m \in Node : dev[m] # NULL /\ dev[m].offset = n} IN
            IF S = {} THEN NULL ELSE CHOOSE m \in S : \A k \in S : m <= k

ParseChosen ==
    /\ phase = "chosen" /\ phase' = "hal"
    /\ stdout' = IF chosen # 0 /\ path # NULL THEN Found(path) ELSE stdout
    /\ UNCHANGED <<fdtVars, next, treeVars, chosen, halVars, enabled, live, fault>>

\* plic_driver_hal_init, through the interruptor registered last.
Sources == Elems(irqs)
HalInit ==
    /\ phase = "hal" /\ phase' = "done"
    /\ enabled' = IF interruptor # NULL THEN Sources ELSE enabled
    /\ UNCHANGED <<fdtVars, next, treeVars, chosen, stdout, halVars, live, fault>>

Next ==
    \/ \E n \in Node : VisitDriven(n)
    \/ \E n \in Node, f \in Fails : VisitFailed(n, f)
    \/ \E n \in Node : VisitUnknown(n)
    \/ \E n \in Node : VisitChosen(n)
    \/ WalkEnd
    \/ ParseChosen
    \/ HalInit

Spec == Init /\ [][Next]_vars

-----------------------------------------------------------------------------
(* Properties *)

\* The nodes the walk has passed, without the chosen ones and what is below.
Walked == {n \in Node : n < next /\ \A a \in Up(parent, n) : kind[a] # "chosen"}

\* device_walk_fdt builds the shape of the device tree: a device for every node
\* passed, in its parent's list once and only there, with a devId of its own.
TreeMirrorsFdt ==
    /\ \A n \in Node : dev[n] # NULL <=> n \in Walked
    /\ \A n \in Walked \ {0} : parentOf[n] = parent[n]
    /\ \A n \in Node : /\ Elems(children[n]) = {m \in Walked \ {0} : parent[m] = n}
                       /\ Len(children[n]) = Cardinality(Elems(children[n]))
    /\ \A m, n \in Walked : m # n => dev[m].devId # dev[n].devId

\* The tree of devices is the tree of nodes at every step of the walk.
TreeInv == TypeOK /\ TreeMirrorsFdt

\* What the abstraction layers call is alive: a registered interrupt handler or
\* serial line belongs to a device whose driver is in charge and whose memory
\* was not freed on an error path.
HandlersLive ==
    /\ \A n \in Elems(irqs) \cup Elems(uarts) :
          dev[n].driver = "ns16550a" /\ {<<"u", n>>, <<"dev", n>>} \subseteq live
    /\ interruptor # NULL => dev[interruptor].driver = "plic"

\* Wherever the interrupt controller stands in the tree, before or after the
\* devices, all their sources are enabled when hal_init is over.
SourcesEnabled ==
    phase = "done" /\ interruptor # NULL =>
        enabled = {n \in Walked : dev[n].driver = "ns16550a"}

\* printf goes to the serial line stdout-path names if its driver works, else to
\* the firmware (stdout is NULL), and never to a device that drops it.
ConsoleWorks ==
    phase = "done" =>
        stdout = IF chosen # 0 /\ path \in Elems(uarts) THEN path ELSE NULL

\* device_init leaves working interrupts and a working console behind.
DevicesReady == SourcesEnabled /\ ConsoleWorks

\* A driver's init that fails gives back what it allocated.
NothingLeaked ==
    \A n \in Node : \A o \in {"u", "irq", "hal"} :
        <<o, n>> \in live => dev[n].driver # NULL

\* Neither a driver nor the walk writes through the NULL of a failed allocation.
NoNullUse == ~fault

=============================================================================
