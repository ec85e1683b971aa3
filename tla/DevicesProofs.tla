--------------------------- MODULE DevicesProofs ---------------------------
(***************************************************************************)
(* Device discovery for every device tree and every driver failure.        *)
(***************************************************************************)
EXTENDS Devices, PowerLemmas, FiniteSetTheorems

\* Steps without arithmetic go to Zenon; the others name SMT.
USE ZenonT(30)

-----------------------------------------------------------------------------
(* The tree *)

\* A set that has the parent of each of its nodes.
Closed(f, S) == \A j \in S : j # 0 => f[j] \in S

\* What the recursion of Up returns.
LEMMA UpRec ==
    ASSUME NEW f \in [Node -> Node], NEW n \in Node
    PROVE  Up(f, n) = {n} \cup (IF n = 0 THEN {} ELSE Up(f, f[n]))
  <1> DEFINE Fits(F) == F = [k \in Node |-> {k} \cup (IF k = 0 THEN {} ELSE F[f[k]])]
             A(k) == {a \in Node : \A S \in SUBSET Node : Closed(f, S) /\ k \in S => a \in S}
             G == [k \in Node |-> A(k)]
  <1>1. ASSUME NEW k \in Node PROVE A(k) = {k} \cup (IF k = 0 THEN {} ELSE A(f[k]))
    <2>1. k \in A(k)
      OBVIOUS
    <2>2. CASE k = 0
      <3>1. Closed(f, {0})
        BY DEF Closed
      <3> QED
        BY <2>1, <2>2, <3>1
    <2>3. CASE k # 0
      <3>1. A(f[k]) \subseteq A(k)
        BY <2>3 DEF Closed
      <3>2. f[k] \in A(f[k])
        OBVIOUS
      <3>3. Closed(f, A(f[k]))
        BY DEF Closed
      <3> DEFINE S == {k} \cup A(f[k])
      <3>4. S \in SUBSET Node /\ k \in S /\ Closed(f, S)
        BY <3>2, <3>3 DEF Closed
      <3>5. A(k) \subseteq S
        BY <3>4
      <3> QED
        BY <2>1, <2>3, <3>1, <3>5
    <2> QED
      BY <2>2, <2>3
  <1> HIDE DEF A
  <1>2. Fits(G)
    BY <1>1
  <1>3. Fits(CHOOSE F : Fits(F))
    BY <1>2
  <1> DEFINE H == CHOOSE F : Fits(F)
  <1>4. \A k : Up(f, k) = H[k]
    BY DEF Up
  <1> HIDE DEF H
  <1>5. H[n] = {n} \cup (IF n = 0 THEN {} ELSE H[f[n]])
    BY <1>3 DEF H
  <1> QED
    BY <1>4, <1>5

\* Facts that hold of a node if they hold of its parent hold of all nodes.
LEMMA TreeInduct ==
    ASSUME NEW S, 0 \in S,
           \A n \in Node \ {0} : (\A m \in Node : m < n => m \in S) => n \in S
    PROVE  Node \subseteq S
  <1> DEFINE T == {n \in Nat : \A m \in Node : m <= n => m \in S}
  <1>1. 0 \in T
    BY SMT DEF Node
  <1>2. ASSUME NEW n \in Nat, n \in T PROVE n + 1 \in T
    <2>1. n + 1 \in Nat /\ \A m \in Node : (m <= n + 1 => m <= n \/ m = n + 1) /\ (m < n + 1 => m <= n)
      BY SMT DEF Node
    <2>2. n + 1 # 0
      BY SMT
    <2> QED
      BY <1>2, <2>1, <2>2
  <1> HIDE DEF T
  <1>3. \A n \in Nat : n \in T
    BY <1>1, <1>2, Induct
  <1>4. \A m \in Node : m \in Nat /\ m <= m
    BY TreeAssumption, SMT DEF Node
  <1> QED
    BY <1>3, <1>4 DEF T

\* The parents of a device tree.
LEMMA ParentFacts ==
    ASSUME NEW f \in Parents
    PROVE  /\ f \in [Node -> Node] /\ 0 \in Node /\ Up(f, 0) = {0}
           /\ \A n \in Node \ {0} : /\ f[n] < n /\ f[n] \in Node
                                    /\ Up(f, n) = {n} \cup Up(f, f[n])
                                    /\ f[n] \in Up(f, n - 1)
  <1>1. f \in [Node -> Node] /\ \A n \in Node \ {0} : f[n] < n /\ f[n] \in Up(f, n - 1)
    BY DEF Parents
  <1>2. 0 \in Node
    BY TreeAssumption, SMT DEF Node
  <1> QED
    BY <1>1, <1>2, UpRec

\* The ancestors of a node come before it.
LEMMA UpBelow ==
    ASSUME NEW f \in Parents, NEW n \in Node
    PROVE  n \in Up(f, n) /\ \A a \in Up(f, n) : a \in Node /\ a <= n
  <1> DEFINE S == {m \in Node : \A a \in Up(f, m) : a \in Node /\ a <= m}
  <1>1. 0 \in S
    <2>1. 0 <= 0
      BY SMT
    <2> QED
      BY <2>1, ParentFacts
  <1>2. ASSUME NEW m \in Node \ {0}, \A k \in Node : k < m => k \in S PROVE m \in S
    <2>1. f[m] < m /\ f[m] \in Node /\ Up(f, m) = {m} \cup Up(f, f[m])
      BY ParentFacts
    <2>2. m <= m /\ \A a \in Node : a <= f[m] => a <= m
      BY <2>1, SMT DEF Node
    <2>3. f[m] \in S
      BY <1>2, <2>1
    <2>4. \A a \in Up(f, f[m]) : a \in Node /\ a <= f[m]
      BY <2>3
    <2> QED
      BY <2>1, <2>2, <2>4
  <1> HIDE DEF S
  <1>3. n \in S
    BY <1>1, <1>2, TreeInduct
  <1>4. n \in Up(f, n)
    <2>1. CASE n = 0
      BY <2>1, ParentFacts
    <2>2. CASE n # 0
      <3>1. Up(f, n) = {n} \cup Up(f, f[n])
        BY <2>2, ParentFacts
      <3> QED
        BY <3>1
    <2> QED
      BY <2>1, <2>2
  <1> QED
    BY <1>3, <1>4 DEF S

\* The ancestors of an ancestor are ancestors.
LEMMA UpTrans ==
    ASSUME NEW f \in Parents, NEW n \in Node, NEW b \in Up(f, n)
    PROVE  Up(f, b) \subseteq Up(f, n)
  <1> DEFINE S == {m \in Node : \A x \in Up(f, m) : Up(f, x) \subseteq Up(f, m)}
  <1>1. 0 \in S
    <2>1. Up(f, 0) = {0} /\ 0 \in Node
      BY ParentFacts
    <2> QED
      BY <2>1
  <1>2. ASSUME NEW m \in Node \ {0}, \A k \in Node : k < m => k \in S PROVE m \in S
    <2>1. f[m] < m /\ f[m] \in Node /\ Up(f, m) = {m} \cup Up(f, f[m])
      BY ParentFacts
    <2> QED
      BY <1>2, <2>1
  <1>3. n \in S
    BY <1>1, <1>2, TreeInduct
  <1> QED
    BY <1>3

\* Of two ancestors of a node the one that comes first is an ancestor of the other.
LEMMA UpChain ==
    ASSUME NEW f \in Parents, NEW n \in Node, NEW a \in Up(f, n), NEW b \in Up(f, n), a <= b
    PROVE  a \in Up(f, b)
  <1> DEFINE S == {m \in Node : \A x, y \in Up(f, m) : x <= y => x \in Up(f, y)}
  <1>1. 0 \in S
    BY ParentFacts
  <1>2. ASSUME NEW m \in Node \ {0}, \A k \in Node : k < m => k \in S PROVE m \in S
    <2>1. f[m] < m /\ f[m] \in Node /\ Up(f, m) = {m} \cup Up(f, f[m])
      BY ParentFacts
    <2> SUFFICES ASSUME NEW x \in Up(f, m), NEW y \in Up(f, m), x <= y PROVE x \in Up(f, y)
      OBVIOUS
    <2>2. CASE y = m
      BY <2>2
    <2>3. CASE y # m
      <3>1. y \in Up(f, f[m])
        BY <2>1, <2>3
      <3>2. y \in Node /\ y <= f[m]
        BY <2>1, <3>1, UpBelow
      <3>3. x # m
        <4>1. x \in Node /\ m \in Int /\ f[m] \in Int
          BY <2>1, UpBelow, SMT DEF Node
        <4> QED
          BY <2>1, <3>2, <4>1, SMT DEF Node
      <3>4. x \in Up(f, f[m])
        BY <2>1, <3>3
      <3>5. f[m] \in S
        BY <1>2, <2>1
      <3> QED
        BY <3>1, <3>4, <3>5
    <2> QED
      BY <2>2, <2>3
  <1>3. n \in S
    BY <1>1, <1>2, TreeInduct
  <1> QED
    BY <1>3

\* The node after n hangs from n or from one of its ancestors.
LEMMA UpNext ==
    ASSUME NEW f \in Parents, NEW n \in Node \ {0}, NEW a \in Up(f, n), a # n
    PROVE  a \in Up(f, n - 1) /\ n - 1 \in Node
  <1>1. n - 1 \in Node
    BY TreeAssumption, SMT DEF Node
  <1>2. Up(f, n) = {n} \cup Up(f, f[n]) /\ f[n] \in Up(f, n - 1)
    BY ParentFacts
  <1>3. Up(f, f[n]) \subseteq Up(f, n - 1)
    BY <1>1, <1>2, UpTrans
  <1> QED
    BY <1>1, <1>2, <1>3

\* A subtree is an interval, so the node after it is the one AfterChosen goes on at.
LEMMA SubtreeInterval ==
    ASSUME parent \in Parents, NEW n \in Node
    PROVE  /\ AfterChosen(n) \in Nat /\ n < AfterChosen(n) /\ AfterChosen(n) <= NNode
           /\ \A m \in Node : n <= m /\ m < AfterChosen(n) <=> n \in Up(parent, m)
  <1> DEFINE T == {m \in Nat : n < m /\ m \notin Subtree(n)}
  <1>1. NNode \in Nat /\ n \in Nat /\ n < NNode /\ NNode \notin Node
        /\ \A m \in Node : m \in Nat /\ m < NNode
    BY TreeAssumption, SMT DEF Node
  <1>2. PICK e \in T : \A m \in T : e <= m
    <2>1. NNode \in T
      BY <1>1 DEF Subtree
    <2>2. T \in SUBSET Nat /\ T # {}
      BY <2>1
    <2> HIDE DEF T
    <2> QED
      BY <2>2, Least
  <1>3. e \in Nat /\ n < e /\ e \notin Subtree(n) /\ e <= NNode
    BY <1>1, <1>2 DEF Subtree
  <1>4. ASSUME NEW m \in Nat, n <= m, m < e PROVE m \in Subtree(n)
    <2>1. CASE m = n
      BY <2>1, UpBelow DEF Subtree
    <2>2. CASE m # n
      <3>1. n < m /\ ~(e <= m)
        BY <1>1, <1>3, <1>4, <2>2, SMT
      <3> QED
        BY <1>2, <3>1
    <2> QED
      BY <2>1, <2>2
  <1>5. ASSUME NEW k \in Nat PROVE e + k \notin Subtree(n)
    <2> DEFINE S == {i \in Nat : e + i \notin Subtree(n)}
    <2>1. 0 \in S
      BY <1>3, SMT
    <2>2. ASSUME NEW i \in Nat, i \in S PROVE i + 1 \in S
      <3>1. i + 1 \in Nat /\ e + (i + 1) # 0 /\ (e + (i + 1)) - 1 = e + i /\ n # e + (i + 1)
        BY <1>1, <1>3, SMT
      <3> DEFINE m == e + (i + 1)
      <3>2. ASSUME m \in Subtree(n) PROVE FALSE
        <4>1. m \in Node \ {0} /\ n \in Up(parent, m) /\ n # m
          BY <3>1, <3>2 DEF Subtree
        <4> HIDE DEF m
        <4>2. n \in Up(parent, m - 1) /\ m - 1 \in Node
          BY <4>1, UpNext
        <4>3. m - 1 = e + i
          BY <3>1 DEF m
        <4> QED
          BY <2>2, <4>2, <4>3 DEF Subtree
      <3> QED
        BY <3>1, <3>2
    <2> HIDE DEF S
    <2>3. \A i \in Nat : i \in S
      BY <2>1, <2>2, Induct
    <2> QED
      BY <2>3 DEF S
  <1>6. ASSUME NEW m \in Node, n \in Up(parent, m) PROVE n <= m /\ m < e
    <2>1. n <= m
      BY <1>6, UpBelow
    <2>2. ASSUME ~(m < e) PROVE FALSE
      <3>1. m - e \in Nat /\ e + (m - e) = m
        BY <1>1, <1>3, <2>2, SMT
      <3>2. m \notin Subtree(n)
        BY <1>5, <3>1
      <3> QED
        BY <1>6, <3>2 DEF Subtree
    <2> QED
      BY <2>1, <2>2
  <1>7. Subtree(n) = n .. e - 1
    <2>1. ASSUME NEW m \in Subtree(n) PROVE m \in n .. e - 1
      <3>1. m \in Node /\ n <= m /\ m < e
        BY <1>6 DEF Subtree
      <3> QED
        BY <1>1, <1>3, <3>1, SMT
    <2>2. ASSUME NEW m \in n .. e - 1 PROVE m \in Subtree(n)
      <3>1. m \in Nat /\ n <= m /\ m < e
        BY <1>1, <1>3, SMT
      <3> QED
        BY <1>4, <3>1
    <2> QED
      BY <2>1, <2>2
  <1>8. AfterChosen(n) = e
    <2>1. Cardinality(n .. e - 1) = IF n > e - 1 THEN 0 ELSE (e - 1) - n + 1
      <3>1. n \in Int /\ e - 1 \in Int
        BY <1>1, <1>3, SMT
      <3> QED
        BY <3>1, FS_Interval
    <2> QED
      BY <1>1, <1>3, <1>7, <2>1, SMT DEF AfterChosen
  <1> QED
    BY <1>1, <1>3, <1>4, <1>6, <1>8 DEF Subtree

-----------------------------------------------------------------------------
(* The inductive invariant *)

\* The device tree of the machine.
FdtInv ==
    /\ parent \in Parents /\ kind \in [Node -> Kinds] /\ kind[0] = "other"
    /\ path \in {n \in Node : kind[n] = "uart"} \cup {NULL}

\* The node the walk comes to next is below no chosen node it has passed; a devId
\* is not larger than the counter, and the counter not larger than the nodes passed.
WalkInv ==
    /\ next \in Node => \A a \in Up(parent, next) : a # next => kind[a] # "chosen"
    /\ phase # "walk" => next = NNode
    /\ counter <= next
    /\ \A n \in Walked : dev[n].devId <= counter
    /\ TreeMirrorsFdt

\* What is registered are the nodes whose driver is in charge; only they have an
\* offset by which the console can be found.
DriverInv ==
    /\ Elems(irqs) = {n \in Walked : dev[n].driver = "ns16550a"}
    /\ Elems(uarts) = Elems(irqs)
    /\ \A n \in Elems(irqs) : kind[n] = "uart" /\ <<"u", n>> \in live /\ <<"dev", n>> \in live
    /\ interruptor # NULL => interruptor \in Walked /\ dev[interruptor].driver = "plic"
    /\ \A n \in Elems(irqs) : dev[n].offset = n
    /\ \A n \in Walked : /\ dev[n].offset \in {0, n}
                         /\ "src" \notin Fails /\ kind[n] = "uart" /\ dev[n].offset = n
                              => n \in Elems(irqs)

\* What the last two phases leave.
PhaseInv ==
    /\ phase \in {"walk", "chosen"} => stdout = NULL
    /\ phase \in {"hal", "done"} /\ "src" \notin Fails =>
          stdout = IF chosen # 0 /\ path \in Elems(uarts) THEN path ELSE NULL
    /\ phase = "done" /\ interruptor # NULL => enabled = Elems(irqs)

Inv == TypeOK /\ FdtInv /\ WalkInv /\ DriverInv /\ PhaseInv

-----------------------------------------------------------------------------
(* The walk *)

\* A list with a new node in front.
LEMMA PushList ==
    ASSUME NEW s \in Seq(Node), NEW n \in Node
    PROVE  /\ <<n>> \o s \in Seq(Node) /\ Elems(<<n>> \o s) = Elems(s) \cup {n}
           /\ Len(<<n>> \o s) = Len(s) + 1 /\ Len(s) \in Nat /\ Elems(s) \subseteq Node
  <1> DEFINE t == <<n>> \o s
  <1>1. t \in Seq(Node) /\ Len(t) = Len(s) + 1 /\ Len(s) \in Nat
    BY SMT
  <1>2. t[1] = n /\ 1 \in DOMAIN t
    BY SMT
  <1>3. ASSUME NEW i \in DOMAIN s PROVE t[i + 1] = s[i] /\ i + 1 \in DOMAIN t
    BY SMT
  <1>4. ASSUME NEW i \in DOMAIN t, i # 1 PROVE t[i] = s[i - 1] /\ i - 1 \in DOMAIN s
    BY <1>4, SMT
  <1>5. ASSUME NEW i \in DOMAIN s PROVE s[i] \in Node
    BY SMT
  <1> HIDE DEF t
  <1>6. Elems(t) = Elems(s) \cup {n}
    <2>1. ASSUME NEW i \in DOMAIN t PROVE t[i] \in Elems(s) \cup {n}
      BY <1>2, <1>4 DEF Elems
    <2>2. ASSUME NEW i \in DOMAIN s PROVE s[i] \in Elems(t)
      BY <1>3 DEF Elems
    <2>3. n \in Elems(t)
      BY <1>2 DEF Elems
    <2>4. Elems(t) \subseteq Elems(s) \cup {n}
      BY <2>1 DEF Elems
    <2>5. Elems(s) \subseteq Elems(t)
      BY <2>2 DEF Elems
    <2> QED
      BY <2>3, <2>4, <2>5
  <1>7. Elems(s) \subseteq Node
    BY <1>5 DEF Elems
  <1> QED
    BY <1>1, <1>6, <1>7 DEF t

\* A list that has every element once still does when a new one is put in front.
LEMMA PushOnce ==
    ASSUME NEW s \in Seq(Node), NEW n \in Node, n \notin Elems(s), Len(s) = Cardinality(Elems(s))
    PROVE  Len(<<n>> \o s) = Cardinality(Elems(<<n>> \o s))
  <1>1. IsFiniteSet(Node)
    <2>1. 0 \in Int /\ NNode - 1 \in Int
      BY TreeAssumption, SMT
    <2> QED
      BY <2>1, FS_Interval DEF Node
  <1>2. Elems(s) \in SUBSET Node /\ Elems(<<n>> \o s) = Elems(s) \cup {n}
        /\ Len(<<n>> \o s) = Len(s) + 1
    BY PushList
  <1>3. IsFiniteSet(Elems(s))
    BY <1>1, <1>2, FS_Subset
  <1>4. Cardinality(Elems(s) \cup {n}) = Cardinality(Elems(s)) + 1
    BY <1>3, FS_AddElement
  <1> QED
    BY <1>2, <1>4

\* The device of the node visited is what Attach makes it, the others are unchanged.
NewDevice(n, driver, offset) ==
    /\ dev' \in [Node -> Device \cup {NULL}]
    /\ dev'[n] # NULL /\ dev'[n].driver = driver /\ dev'[n].offset = offset
    /\ dev'[n].devId = counter + 1
    /\ \A m \in Node : m # n => dev'[m] = dev[m]
    /\ parentOf' \in [Node -> Node \cup {NULL}]
    /\ parentOf'[n] = IF n = 0 THEN NULL ELSE parent[n]
    /\ \A m \in Node : m # n => parentOf'[m] = parentOf[m]

LEMMA AttachDev ==
    ASSUME TypeOK, FdtInv, WalkInv, NEW n \in Node, next = n,
           NEW driver \in {"plic", "ns16550a", NULL}, NEW offset \in Node,
           Attach(n, driver, offset)
    PROVE  NewDevice(n, driver, offset)
  <1> DEFINE r == [driver |-> driver, offset |-> offset, devId |-> counter + 1]
  <1>1. counter + 1 \in 1 .. NNode
    <2>1. counter \in 0 .. NNode /\ counter <= n
      BY DEF TypeOK, WalkInv
    <2> QED
      BY <2>1, TreeAssumption, SMT DEF Node
  <1>2. r \in Device /\ r.driver = driver /\ r.offset = offset /\ r.devId = counter + 1
    BY <1>1, SMT DEF Device
  <1>3. dev' = [dev EXCEPT ![n] = r] /\ dev \in [Node -> Device \cup {NULL}]
    BY DEF Attach, TypeOK
  <1> HIDE DEF r
  <1>4. dev'[n] = r /\ dev' \in [Node -> Device \cup {NULL}]
        /\ \A m \in Node : m # n => dev'[m] = dev[m]
    BY <1>2, <1>3
  <1>5. r # NULL
    BY <1>2, NullAssumption
  <1>6. parent \in [Node -> Node]
    BY ParentFacts DEF FdtInv
  <1>7. parentOf' = [parentOf EXCEPT ![n] = IF n = 0 THEN NULL ELSE parent[n]]
        /\ parentOf \in [Node -> Node \cup {NULL}]
    BY DEF Attach, TypeOK
  <1> QED
    BY <1>2, <1>4, <1>5, <1>6, <1>7 DEF NewDevice

\* The walk passes the node it is at.
LEMMA WalkOne ==
    ASSUME FdtInv, WalkInv, NEW n \in Node, next = n, kind[n] # "chosen",
           next' = n + 1, UNCHANGED fdtVars
    PROVE  /\ n \notin Walked /\ Walked' = Walked \cup {n}
           /\ next' \in 0 .. NNode
           /\ next' \in Node => \A a \in Up(parent', next') : a # next' => kind'[a] # "chosen"
  <1>1. parent' = parent /\ kind' = kind
    BY DEF fdtVars
  <1>2. ~(n < n) /\ n + 1 \in 0 .. NNode /\ (\A m \in Node : m < n + 1 <=> m < n \/ m = n)
    BY TreeAssumption, SMT DEF Node
  <1>3. \A a \in Up(parent, n) : kind[a] # "chosen"
    BY DEF WalkInv
  <1>4. Walked' = Walked \cup {n}
    BY <1>1, <1>2, <1>3 DEF Walked
  <1>5. ASSUME n + 1 \in Node, NEW a \in Up(parent, n + 1), a # n + 1 PROVE kind[a] # "chosen"
    <2>1. n + 1 # 0 /\ (n + 1) - 1 = n
      BY SMT DEF Node
    <2>2. a \in Up(parent, n)
      BY <1>5, <2>1, UpNext DEF FdtInv
    <2> QED
      BY <1>3, <2>2
  <1>6. n \notin Walked
    BY <1>2 DEF Walked
  <1> QED
    BY <1>1, <1>2, <1>4, <1>5, <1>6

\* The lists of children with the node visited in front of its siblings.
LEMMA AttachChildren ==
    ASSUME TypeOK, FdtInv, WalkInv, NEW n \in Node, n \notin Walked, Walked' = Walked \cup {n},
           children' = Linked(n), NEW k \in Node
    PROVE  /\ children' \in [Node -> Seq(Node)]
           /\ Elems(children'[k]) = {m \in Walked' \ {0} : parent[m] = k}
           /\ Len(children'[k]) = Cardinality(Elems(children'[k]))
  <1>1. /\ children \in [Node -> Seq(Node)] /\ parent \in [Node -> Node]
        /\ Elems(children[k]) = {m \in Walked \ {0} : parent[m] = k}
        /\ Len(children[k]) = Cardinality(Elems(children[k]))
    BY ParentFacts DEF TypeOK, FdtInv, WalkInv, TreeMirrorsFdt
  <1>2. CASE n = 0
    BY <1>1, <1>2 DEF Linked
  <1>3. CASE n # 0
    <2> DEFINE s == children[parent[n]]
    <2>1. s \in Seq(Node) /\ parent[n] \in Node
      BY <1>1
    <2>2. <<n>> \o s \in Seq(Node)
      BY <2>1, PushList
    <2>3. children' = [children EXCEPT ![parent[n]] = <<n>> \o s]
      BY <1>3 DEF Linked
    <2>4. children' \in [Node -> Seq(Node)] /\ (k # parent[n] => children'[k] = children[k])
          /\ children'[parent[n]] = <<n>> \o s
      <3> DEFINE t == <<n>> \o s
                 q == parent[n]
      <3>1. t \in Seq(Node) /\ children' = [children EXCEPT ![q] = t] /\ q \in Node
        BY <2>1, <2>2, <2>3
      <3> HIDE DEF t, q
      <3>2. children \in [Node -> Seq(Node)]
        BY <1>1
      <3>3. children' \in [Node -> Seq(Node)]
        BY <3>1, <3>2
      <3>4. children'[q] = t /\ (k # q => children'[k] = children[k])
        BY <3>1, <3>2
      <3> QED
        BY <3>3, <3>4 DEF t, q
    <2>5. CASE k = parent[n]
      <3>1. children[k] \in Seq(Node) /\ children'[k] = <<n>> \o children[k]
        BY <1>1, <2>4, <2>5
      <3>2. n \notin Elems(children[k])
        BY <1>1
      <3>3. Elems(children'[k]) = Elems(children[k]) \cup {n}
        BY <3>1, PushList
      <3>4. Len(children'[k]) = Cardinality(Elems(children'[k]))
        BY <1>1, <3>1, <3>2, PushOnce
      <3>5. {m \in Walked' \ {0} : parent[m] = k} = {m \in Walked \ {0} : parent[m] = k} \cup {n}
        BY <1>3, <2>5
      <3> QED
        BY <1>1, <2>4, <3>3, <3>4, <3>5
    <2>6. CASE k # parent[n]
      <3>1. {m \in Walked' \ {0} : parent[m] = k} = {m \in Walked \ {0} : parent[m] = k}
        BY <2>6
      <3> QED
        BY <1>1, <2>4, <2>6, <3>1
    <2> QED
      BY <2>5, <2>6
  <1> QED
    BY <1>2, <1>3

\* A node that is visited and not chosen gets its device, and the walk goes on.
Visited(n, driver, offset) ==
    /\ FdtInv' /\ WalkInv' /\ n \notin Walked /\ Walked' = Walked \cup {n}
    /\ dev'[n].driver = driver /\ dev'[n].offset = offset
    /\ \A m \in Walked : dev'[m] = dev[m]
    /\ next' \in 0 .. NNode /\ counter' \in 0 .. NNode
    /\ dev' \in [Node -> Device \cup {NULL}] /\ parentOf' \in [Node -> Node \cup {NULL}]
    /\ children' \in [Node -> Seq(Node)]

LEMMA VisitTree ==
    ASSUME TypeOK, FdtInv, WalkInv, phase = "walk", NEW n \in Node, next = n,
           kind[n] # "chosen", NEW driver \in {"plic", "ns16550a", NULL}, NEW offset \in Node,
           Attach(n, driver, offset), next' = n + 1, counter' = counter + 1,
           UNCHANGED <<fdtVars, phase>>
    PROVE  Visited(n, driver, offset)
  <1>1. /\ n \notin Walked /\ Walked' = Walked \cup {n} /\ next' \in 0 .. NNode
        /\ next' \in Node => \A a \in Up(parent', next') : a # next' => kind'[a] # "chosen"
    BY WalkOne
  <1>2. /\ dev' \in [Node -> Device \cup {NULL}] /\ parentOf' \in [Node -> Node \cup {NULL}]
        /\ dev'[n] # NULL /\ dev'[n].driver = driver /\ dev'[n].offset = offset
        /\ dev'[n].devId = counter + 1
        /\ parentOf'[n] = IF n = 0 THEN NULL ELSE parent[n]
    <2>1. NewDevice(n, driver, offset)
      BY AttachDev
    <2> QED
      BY <2>1 DEF NewDevice
  <1>3. \A m \in Node : m # n => dev'[m] = dev[m] /\ parentOf'[m] = parentOf[m]
    <2>1. NewDevice(n, driver, offset)
      BY AttachDev
    <2> QED
      BY <2>1 DEF NewDevice
  <1>4. Walked \subseteq Node /\ \A m \in Walked : m # n
    BY <1>1 DEF Walked
  <1>5. counter \in Nat /\ counter' \in 0 .. NNode /\ counter' <= next'
        /\ \A c \in Nat : c <= counter => c <= counter' /\ c # counter + 1
    <2>1. counter \in 0 .. NNode /\ counter <= n
      BY DEF TypeOK, WalkInv
    <2> QED
      BY <2>1, TreeAssumption, SMT DEF Node
  <1>6. parent' = parent /\ kind' = kind /\ FdtInv'
    BY DEF fdtVars, FdtInv
  <1>7. \A m \in Walked : dev[m] # NULL /\ dev[m].devId \in Nat /\ dev[m].devId <= counter
    <2>1. \A m \in Walked : dev[m] # NULL /\ dev[m].devId <= counter /\ dev[m] \in Device
      BY <1>4 DEF TypeOK, WalkInv, TreeMirrorsFdt
    <2>2. \A d \in Device : d.devId \in Nat
      BY SMT DEF Device
    <2> QED
      BY <2>1, <2>2
  <1>8. /\ \A m \in Walked' : dev'[m].devId <= counter'
        /\ \A m, k \in Walked' : m # k => dev'[m].devId # dev'[k].devId
    <2>1. \A m \in Walked : dev'[m].devId <= counter' /\ dev'[m].devId # counter + 1
      BY <1>3, <1>4, <1>5, <1>7
    <2>2. counter + 1 <= counter'
      BY <1>5, SMT
    <2>3. \A m, k \in Walked : m # k => dev'[m].devId # dev'[k].devId
      <3>1. \A m, k \in Walked : m # k => dev[m].devId # dev[k].devId
        BY DEF WalkInv, TreeMirrorsFdt
      <3>2. \A m \in Walked : dev'[m] = dev[m]
        BY <1>3, <1>4
      <3> QED
        BY <3>1, <3>2
    <2>4. dev'[n].devId = counter + 1 /\ \A m \in Walked' : m = n \/ m \in Walked
      BY <1>1, <1>2
    <2>5. \A m \in Walked' : dev'[m].devId <= counter'
      BY <2>1, <2>2, <2>4
    <2>6. \A m, k \in Walked' : m # k => dev'[m].devId # dev'[k].devId
      BY <2>1, <2>3, <2>4
    <2> QED
      BY <2>5, <2>6
  <1>9. \A m \in Node : dev'[m] # NULL <=> m \in Walked'
    BY <1>1, <1>2, <1>3 DEF WalkInv, TreeMirrorsFdt
  <1>10. \A m \in Walked' \ {0} : parentOf'[m] = parent'[m]
    BY <1>1, <1>2, <1>3, <1>4, <1>6 DEF WalkInv, TreeMirrorsFdt
  <1>11. /\ children' \in [Node -> Seq(Node)]
         /\ \A k \in Node : /\ Elems(children'[k]) = {m \in Walked' \ {0} : parent'[m] = k}
                            /\ Len(children'[k]) = Cardinality(Elems(children'[k]))
    <2>1. children' = Linked(n)
      BY DEF Attach
    <2> QED
      BY <1>1, <1>6, <2>1, AttachChildren
  <1>12. TreeMirrorsFdt'
    BY <1>8, <1>9, <1>10, <1>11 DEF TreeMirrorsFdt
  <1>13. WalkInv'
    BY <1>1, <1>5, <1>8, <1>12 DEF WalkInv
  <1> QED
    BY <1>1, <1>2, <1>3, <1>4, <1>5, <1>6, <1>11, <1>13 DEF Visited

\* A driver that takes charge of a serial line registers it with both layers.
LEMMA Registered ==
    ASSUME DriverInv, FdtInv, NEW n \in Node, Visited(n, "ns16550a", n), kind[n] = "uart",
           kind' = kind, live \subseteq live', <<"u", n>> \in live', <<"dev", n>> \in live',
           Elems(irqs') = Elems(irqs) \cup {n}, Elems(uarts') = Elems(uarts) \cup {n},
           interruptor' = interruptor
    PROVE  DriverInv'
  <1>1. /\ n \notin Walked /\ Walked' = Walked \cup {n} /\ \A m \in Walked : dev'[m] = dev[m]
        /\ dev'[n].driver = "ns16550a" /\ dev'[n].offset = n
    BY DEF Visited
  <1>2. Elems(irqs') = {m \in Walked' : dev'[m].driver = "ns16550a"}
    BY <1>1 DEF DriverInv
  <1>3. Elems(uarts') = Elems(irqs')
    BY DEF DriverInv
  <1>4. ASSUME NEW m \in Elems(irqs')
        PROVE  /\ kind'[m] = "uart" /\ <<"u", m>> \in live' /\ <<"dev", m>> \in live'
               /\ dev'[m].offset = m
    <2>1. CASE m = n
      BY <1>1, <2>1
    <2>2. CASE m \in Elems(irqs)
      <3>1. m \in Walked
        BY <2>2 DEF DriverInv
      <3> QED
        BY <1>1, <2>2, <3>1 DEF DriverInv
    <2> QED
      BY <2>1, <2>2
  <1>5. interruptor' # NULL => interruptor' \in Walked' /\ dev'[interruptor'].driver = "plic"
    BY <1>1 DEF DriverInv
  <1>6. \A m \in Walked' : /\ dev'[m].offset \in {0, m}
                           /\ "src" \notin Fails /\ kind'[m] = "uart" /\ dev'[m].offset = m
                                => m \in Elems(irqs')
    BY <1>1 DEF DriverInv
  <1> QED
    BY <1>2, <1>3, <1>4, <1>5, <1>6 DEF DriverInv

\* Any other visit registers at most an interrupt controller.
LEMMA NotRegistered ==
    ASSUME DriverInv, FdtInv, NEW n \in Node, NEW driver, NEW offset, Visited(n, driver, offset),
           driver # "ns16550a", offset \in {0, n},
           "src" \notin Fails /\ kind[n] = "uart" => offset # n,
           kind' = kind, live \subseteq live', irqs' = irqs, uarts' = uarts,
           interruptor' = interruptor \/ (interruptor' = n /\ driver = "plic")
    PROVE  DriverInv'
  <1>1. /\ n \notin Walked /\ Walked' = Walked \cup {n} /\ \A m \in Walked : dev'[m] = dev[m]
        /\ dev'[n].driver = driver /\ dev'[n].offset = offset
    BY DEF Visited
  <1>2. Elems(irqs') = {m \in Walked' : dev'[m].driver = "ns16550a"}
    BY <1>1 DEF DriverInv
  <1>3. Elems(uarts') = Elems(irqs')
    BY DEF DriverInv
  <1>4. ASSUME NEW m \in Elems(irqs')
        PROVE  /\ kind'[m] = "uart" /\ <<"u", m>> \in live' /\ <<"dev", m>> \in live'
               /\ dev'[m].offset = m
    <2>1. m \in Elems(irqs) /\ m \in Walked
      BY DEF DriverInv
    <2> QED
      BY <1>1, <2>1 DEF DriverInv
  <1>5. interruptor' # NULL => interruptor' \in Walked' /\ dev'[interruptor'].driver = "plic"
    BY <1>1 DEF DriverInv
  <1>6. \A m \in Walked' : /\ dev'[m].offset \in {0, m}
                           /\ "src" \notin Fails /\ kind'[m] = "uart" /\ dev'[m].offset = m
                                => m \in Elems(irqs')
    BY <1>1 DEF DriverInv
  <1> QED
    BY <1>2, <1>3, <1>4, <1>5, <1>6 DEF DriverInv

\* A visit leaves phase and stdout alone.
LEMMA StillWalking ==
    ASSUME PhaseInv, phase = "walk", phase' = phase, stdout' = stdout
    PROVE  PhaseInv'
  BY DEF PhaseInv

\* A driver's init that succeeds.
LEMMA DrivenStep ==
    ASSUME Inv, NEW n \in Node, VisitDriven(n)
    PROVE  Inv'
  <1> DEFINE driver == IF kind[n] = "uart" THEN "ns16550a" ELSE "plic"
  <1>1. TypeOK /\ FdtInv /\ WalkInv /\ DriverInv /\ PhaseInv
    BY DEF Inv
  <1>2. /\ phase = "walk" /\ next = n /\ kind[n] \in {"plic", "uart"} /\ Attach(n, driver, n)
        /\ live' = live \cup (Objects(n) \X {n}) /\ counter' = counter + 1 /\ next' = n + 1
        /\ UNCHANGED <<fdtVars, phase, chosen, stdout, enabled, fault>>
    BY DEF VisitDriven, CanFail, CounterAfter
  <1>3. Visited(n, driver, n)
    BY <1>1, <1>2, VisitTree
  <1>4. kind' = kind /\ phase' = phase /\ stdout' = stdout /\ live \subseteq live'
    BY <1>2 DEF fdtVars
  <1>5. live' \subseteq Object /\ <<"u", n>> \in live' /\ <<"dev", n>> \in live'
    <2>1. /\ Objects(n) \subseteq {"u", "dev", "irq", "hal"}
          /\ "u" \in Objects(n) /\ "dev" \in Objects(n)
      BY DEF Objects
    <2>2. live \subseteq Object
      BY <1>1 DEF TypeOK
    <2> QED
      BY <1>2, <2>1, <2>2, SMT DEF Object
  <1>6. PhaseInv'
    BY <1>1, <1>2, <1>4, StillWalking
  <1>7. CASE kind[n] = "uart"
    <2>1. irqs' = <<n>> \o irqs /\ uarts' = <<n>> \o uarts /\ interruptor' = interruptor
      BY <1>7 DEF VisitDriven
    <2>2. irqs \in Seq(Node) /\ uarts \in Seq(Node)
      BY <1>1 DEF TypeOK
    <2>3. /\ irqs' \in Seq(Node) /\ uarts' \in Seq(Node)
          /\ Elems(irqs') = Elems(irqs) \cup {n} /\ Elems(uarts') = Elems(uarts) \cup {n}
      BY <2>1, <2>2, PushList
    <2>4. DriverInv'
      BY <1>1, <1>3, <1>4, <1>5, <1>7, <2>1, <2>3, Registered
    <2>5. TypeOK'
      BY <1>1, <1>2, <1>3, <1>5, <2>1, <2>3 DEF TypeOK, Visited
    <2> QED
      BY <1>3, <1>6, <2>4, <2>5 DEF Inv, Visited
  <1>8. CASE kind[n] # "uart"
    <2>1. irqs' = irqs /\ uarts' = uarts /\ interruptor' = n /\ driver = "plic"
      BY <1>8 DEF VisitDriven
    <2>2. DriverInv'
      BY <1>1, <1>3, <1>4, <1>8, <2>1, NotRegistered
    <2>3. TypeOK'
      BY <1>1, <1>2, <1>3, <1>5, <2>1 DEF TypeOK, Visited
    <2> QED
      BY <1>3, <1>6, <2>2, <2>3 DEF Inv, Visited
  <1> QED
    BY <1>7, <1>8

\* A driver's init that fails registers nothing.
LEMMA FailedStep ==
    ASSUME Inv, NEW n \in Node, NEW f \in Fails, VisitFailed(n, f)
    PROVE  Inv'
  <1>1. TypeOK /\ FdtInv /\ WalkInv /\ DriverInv /\ PhaseInv
    BY DEF Inv
  <1>2. /\ phase = "walk" /\ next = n /\ f # "none" /\ kind[n] \in {"plic", "uart"}
        /\ irqs' = irqs /\ counter' = counter + 1 /\ next' = n + 1 /\ fault' = NullUsed(n, f)
        /\ UNCHANGED <<fdtVars, phase, chosen, stdout, uarts, interruptor, enabled>>
    BY DEF VisitFailed, CanFail, CounterAfter, Registers
  <1>3. PICK old \in (IF f = "src" THEN {0, n} ELSE {0}) : Attach(n, NULL, old)
    BY DEF VisitFailed
  <1>4. old \in {0, n} /\ old \in Node /\ (f # "src" => old = 0)
    BY <1>1, <1>3, ParentFacts DEF FdtInv
  <1>5. kind[n] # "chosen" /\ n # 0
    BY <1>1, <1>2 DEF FdtInv
  <1>6. Visited(n, NULL, old)
    BY <1>1, <1>2, <1>3, <1>4, <1>5, VisitTree
  <1>7. kind' = kind /\ phase' = phase /\ stdout' = stdout /\ live \subseteq live'
    BY <1>2 DEF fdtVars, VisitFailed
  <1>8. live' \subseteq Object
    <2> DEFINE left == IF kind[n] = "uart" THEN UartLeftover(f) ELSE {}
    <2>1. left \subseteq {"irq"}
      BY DEF UartLeftover
    <2>2. live \subseteq Object
      BY <1>1 DEF TypeOK
    <2>3. live' = live \cup {<<"dev", n>>} \cup (left \X {n})
      BY DEF VisitFailed
    <2> HIDE DEF left
    <2>4. <<"dev", n>> \in Object /\ <<"irq", n>> \in Object
      BY SMT DEF Object
    <2>5. ASSUME NEW x \in left \X {n} PROVE x = <<"irq", n>>
      <3>1. PICK a \in left, b \in {n} : x = <<a, b>>
        BY SMT
      <3> QED
        BY <2>1, <3>1
    <2> QED
      BY <2>2, <2>3, <2>4, <2>5
  <1>9. PhaseInv'
    BY <1>1, <1>2, <1>7, StillWalking
  <1>10. "src" \notin Fails => old # n
    BY <1>4, <1>5
  <1>11. NULL # "ns16550a"
    BY NullAssumption
  <1>12. DriverInv'
    BY <1>1, <1>2, <1>4, <1>6, <1>7, <1>10, <1>11, NotRegistered
  <1>13. fault' \in BOOLEAN
    BY <1>2 DEF NullUsed
  <1>14. TypeOK'
    BY <1>1, <1>2, <1>6, <1>8, <1>13 DEF TypeOK, Visited
  <1> QED
    BY <1>6, <1>9, <1>12, <1>14 DEF Inv, Visited

\* A node no driver recognises gets a device and nothing else.
LEMMA UnknownStep ==
    ASSUME Inv, NEW n \in Node, VisitUnknown(n)
    PROVE  Inv'
  <1>1. TypeOK /\ FdtInv /\ WalkInv /\ DriverInv /\ PhaseInv
    BY DEF Inv
  <1>2. /\ phase = "walk" /\ next = n /\ kind[n] = "other" /\ Attach(n, NULL, 0)
        /\ live' = live \cup {<<"dev", n>>} /\ counter' = counter + 1 /\ next' = n + 1
        /\ irqs' = irqs /\ uarts' = uarts /\ interruptor' = interruptor
        /\ UNCHANGED <<fdtVars, phase, chosen, stdout, enabled, fault>>
    BY DEF VisitUnknown, CounterAfter, halVars
  <1>3. 0 \in Node
    BY <1>1, ParentFacts DEF FdtInv
  <1>4. Visited(n, NULL, 0)
    BY <1>1, <1>2, <1>3, VisitTree
  <1>5. kind' = kind /\ phase' = phase /\ stdout' = stdout /\ live \subseteq live'
    BY <1>2 DEF fdtVars
  <1>6. live' \subseteq Object
    <2>1. live \subseteq Object
      BY <1>1 DEF TypeOK
    <2> QED
      BY <1>2, <2>1, SMT DEF Object
  <1>7. PhaseInv'
    BY <1>1, <1>2, <1>5, StillWalking
  <1>8. NULL # "ns16550a" /\ kind[n] # "uart"
    BY <1>2, NullAssumption
  <1>9. DriverInv'
    BY <1>1, <1>2, <1>4, <1>5, <1>8, NotRegistered
  <1>10. TypeOK'
    BY <1>1, <1>2, <1>4, <1>6 DEF TypeOK, Visited
  <1> QED
    BY <1>4, <1>7, <1>9, <1>10 DEF Inv, Visited

\* After a chosen node the walk goes on past its subtree, below none of the chosen
\* nodes it has passed.
LEMMA AfterSubtree ==
    ASSUME FdtInv, WalkInv, NEW n \in Node, next = n, kind[n] = "chosen",
           AfterChosen(n) \in Node
    PROVE  \A a \in Up(parent, AfterChosen(n)) : a # AfterChosen(n) => kind[a] # "chosen"
  <1> DEFINE e == AfterChosen(n)
  <1>1. /\ e \in Node /\ e \in Nat /\ n < e /\ parent \in Parents
        /\ \A m \in Node : n <= m /\ m < e <=> n \in Up(parent, m)
    BY SubtreeInterval DEF FdtInv
  <1> HIDE DEF e
  <1> SUFFICES ASSUME NEW a \in Up(parent, e), a # e PROVE kind[a] # "chosen"
    BY DEF e
  <1>2. e \in Node \ {0} /\ n <= e - 1 /\ e - 1 < e
    BY <1>1, TreeAssumption, SMT DEF Node
  <1>3. a \in Up(parent, e - 1) /\ e - 1 \in Node
    BY <1>1, <1>2, UpNext
  <1>4. n \in Up(parent, e - 1)
    BY <1>1, <1>2, <1>3
  <1>5. a \in Node
    BY <1>1, UpBelow
  <1>6. ~(n <= a)
    <2> SUFFICES ASSUME n <= a PROVE FALSE
      OBVIOUS
    <2>1. n \in Up(parent, a)
      BY <1>1, <1>3, <1>4, UpChain
    <2>2. Up(parent, a) \subseteq Up(parent, e)
      BY <1>1, UpTrans
    <2>3. e < e
      BY <1>1, <2>1, <2>2
    <2> QED
      BY <1>1, <2>3, SMT
  <1>7. a <= n /\ a # n
    BY <1>5, <1>6, TreeAssumption, SMT DEF Node
  <1>8. a \in Up(parent, n)
    BY <1>1, <1>3, <1>4, <1>7, UpChain
  <1> QED
    BY <1>7, <1>8 DEF WalkInv

\* A chosen node and what is below it get no device.
LEMMA ChosenStep ==
    ASSUME Inv, NEW n \in Node, VisitChosen(n)
    PROVE  Inv'
  <1> DEFINE e == AfterChosen(n)
  <1>1. TypeOK /\ FdtInv /\ WalkInv /\ DriverInv /\ PhaseInv
    BY DEF Inv
  <1>2. /\ phase = "walk" /\ next = n /\ kind[n] = "chosen" /\ chosen' = n /\ next' = e
        /\ UNCHANGED <<fdtVars, phase, treeVars, stdout, halVars, enabled, live, fault>>
    BY DEF VisitChosen
  <1>3. /\ parent' = parent /\ kind' = kind /\ path' = path /\ dev' = dev
        /\ parentOf' = parentOf /\ children' = children /\ counter' = counter
        /\ irqs' = irqs /\ uarts' = uarts /\ interruptor' = interruptor
        /\ phase' = phase /\ stdout' = stdout /\ enabled' = enabled /\ live' = live
        /\ fault' = fault
    BY <1>2 DEF fdtVars, treeVars, halVars
  <1>4. /\ e \in Nat /\ n < e /\ e <= NNode
        /\ \A m \in Node : n <= m /\ m < e <=> n \in Up(parent, m)
    BY <1>1, SubtreeInterval DEF FdtInv
  <1>5. e \in Node => \A a \in Up(parent, e) : a # e => kind[a] # "chosen"
    BY <1>1, <1>2, AfterSubtree
  <1> HIDE DEF e
  <1>6. e \in 0 .. NNode /\ counter <= e
    <2>1. counter \in 0 .. NNode /\ counter <= n
      BY <1>1, <1>2 DEF TypeOK, WalkInv
    <2> QED
      BY <1>4, <2>1, TreeAssumption, SMT DEF Node
  <1>7. Walked' = Walked
    <2>1. \A m \in Node : /\ m < n => m < e
                          /\ m < e => m < n \/ n <= m
      BY <1>4, SMT DEF Node
    <2>2. \A m \in Node : m < e /\ ~(m < n) => n \in Up(parent, m)
      BY <1>4, <2>1
    <2> QED
      BY <1>2, <1>3, <2>1, <2>2 DEF Walked
  <1>8. TypeOK'
    BY <1>1, <1>2, <1>3, <1>6 DEF TypeOK
  <1>9. FdtInv'
    BY <1>1, <1>3 DEF FdtInv
  <1>10. TreeMirrorsFdt'
    BY <1>1, <1>3, <1>7 DEF TreeMirrorsFdt, WalkInv
  <1>11. WalkInv'
    BY <1>1, <1>2, <1>3, <1>5, <1>6, <1>7, <1>10 DEF WalkInv
  <1>12. DriverInv'
    BY <1>1, <1>3, <1>7 DEF DriverInv
  <1>13. PhaseInv'
    BY <1>1, <1>2, <1>3, StillWalking
  <1> QED
    BY <1>8, <1>9, <1>11, <1>12, <1>13 DEF Inv

-----------------------------------------------------------------------------
(* The phases after the walk *)

\* What the last phases do not touch keeps the invariants about it.
LEMMA SameTree ==
    ASSUME FdtInv, WalkInv, DriverInv, next' = next, live' = live,
           phase = "walk" => next = NNode,
           parent' = parent, kind' = kind, path' = path, dev' = dev,
           parentOf' = parentOf, children' = children, counter' = counter,
           irqs' = irqs, uarts' = uarts, interruptor' = interruptor
    PROVE  FdtInv' /\ WalkInv' /\ DriverInv'
  <1>1. Walked' = Walked /\ FdtInv'
    BY DEF Walked, FdtInv
  <1>2. TreeMirrorsFdt'
    BY <1>1 DEF TreeMirrorsFdt, WalkInv
  <1>3. WalkInv'
    BY <1>1, <1>2 DEF WalkInv
  <1>4. DriverInv'
    BY <1>1 DEF DriverInv
  <1> QED
    BY <1>1, <1>3, <1>4

\* The end of the walk.
LEMMA WalkEndStep ==
    ASSUME Inv, WalkEnd
    PROVE  Inv'
  <1>1. TypeOK /\ FdtInv /\ WalkInv /\ DriverInv /\ PhaseInv
    BY DEF Inv
  <1>2. /\ phase = "walk" /\ next = NNode /\ phase' = "chosen" /\ next' = next
        /\ chosen' = chosen /\ stdout' = stdout /\ enabled' = enabled /\ live' = live
        /\ fault' = fault
    BY DEF WalkEnd
  <1>3. /\ parent' = parent /\ kind' = kind /\ path' = path /\ dev' = dev
        /\ parentOf' = parentOf /\ children' = children /\ counter' = counter
        /\ irqs' = irqs /\ uarts' = uarts /\ interruptor' = interruptor
    BY DEF WalkEnd, fdtVars, treeVars, halVars
  <1>4. PhaseInv'
    BY <1>1, <1>2 DEF PhaseInv
  <1>5. TypeOK'
    BY <1>1, <1>2, <1>3 DEF TypeOK
  <1> QED
    BY <1>1, <1>2, <1>3, <1>4, <1>5, SameTree DEF Inv

\* The device stdout-path names is found if and only if its driver is in charge.
LEMMA FoundConsole ==
    ASSUME Inv, "src" \notin Fails, path # NULL
    PROVE  Found(path) = IF path \in Elems(uarts) THEN path ELSE NULL
  <1>1. TypeOK /\ FdtInv /\ WalkInv /\ DriverInv
    BY DEF Inv
  <1> DEFINE S == {m \in Node : dev[m] # NULL /\ dev[m].offset = path}
  <1>2. path \in Node /\ kind[path] = "uart" /\ path # 0
    BY <1>1 DEF FdtInv
  <1>3. \A m \in Node : dev[m] # NULL <=> m \in Walked
    BY <1>1 DEF WalkInv, TreeMirrorsFdt
  <1>4. \A m \in Walked : /\ dev[m].offset \in {0, m}
                          /\ kind[m] = "uart" /\ dev[m].offset = m => m \in Elems(uarts)
    BY <1>1 DEF DriverInv
  <1>5. \A m \in Elems(uarts) : m \in Walked /\ dev[m].offset = m
    BY <1>1 DEF DriverInv
  <1>6. \A m \in S : m = path
    BY <1>2, <1>3, <1>4
  <1>7. Found(path) = IF S = {} THEN NULL ELSE CHOOSE m \in S : \A k \in S : m <= k
    BY DEF Found
  <1>8. CASE path \in Elems(uarts)
    <2>1. path \in S
      BY <1>2, <1>3, <1>5, <1>8
    <2>2. S = {path}
      BY <1>6, <2>1
    <2> HIDE DEF S
    <2>3. path <= path
      BY <1>2, SMT DEF Node
    <2>4. \E m \in S : \A k \in S : m <= k
      BY <2>2, <2>3
    <2>5. (CHOOSE m \in S : \A k \in S : m <= k) \in S
      BY <2>4
    <2>6. S # {} /\ \A m : m \in S => m = path
      BY <2>2
    <2> DEFINE c == CHOOSE m \in S : \A k \in S : m <= k
    <2>7. Found(path) = (IF S = {} THEN NULL ELSE c) /\ c = path
      BY <1>7, <2>5, <2>6
    <2> HIDE DEF c
    <2> QED
      BY <1>8, <2>6, <2>7
  <1>9. CASE path \notin Elems(uarts)
    <2>1. path \notin S
      BY <1>2, <1>3, <1>4, <1>9
    <2>2. S = {}
      BY <1>6, <2>1
    <2> HIDE DEF S
    <2> QED
      BY <1>7, <1>9, <2>2
  <1> QED
    BY <1>8, <1>9

\* Found returns a node or NULL.
LEMMA FoundType ==
    ASSUME NEW n
    PROVE  Found(n) \in Node \cup {NULL}
  <1> DEFINE S == {m \in Node : dev[m] # NULL /\ dev[m].offset = n}
  <1>1. Found(n) = IF S = {} THEN NULL ELSE CHOOSE m \in S : \A k \in S : m <= k
    BY DEF Found
  <1>2. CASE S = {}
    BY <1>1, <1>2
  <1>3. CASE S # {}
    <2>1. S \subseteq Nat /\ S \subseteq Node
      BY TreeAssumption, SMT DEF Node
    <2> HIDE DEF S
    <2>2. PICK m \in S : \A k \in S : m <= k
      BY <1>3, <2>1, Least
    <2>3. (CHOOSE x \in S : \A k \in S : x <= k) \in S
      BY <2>2
    <2> QED
      BY <1>1, <1>3, <2>1, <2>3
  <1> QED
    BY <1>2, <1>3

\* device_fdt_parse_chosen picks the console.
LEMMA ParseChosenStep ==
    ASSUME Inv, ParseChosen
    PROVE  Inv'
  <1>1. TypeOK /\ FdtInv /\ WalkInv /\ DriverInv /\ PhaseInv
    BY DEF Inv
  <1>2. /\ phase = "chosen" /\ phase' = "hal" /\ next' = next /\ chosen' = chosen
        /\ stdout' = (IF chosen # 0 /\ path # NULL THEN Found(path) ELSE stdout)
        /\ enabled' = enabled /\ live' = live /\ fault' = fault
    BY DEF ParseChosen
  <1>3. /\ parent' = parent /\ kind' = kind /\ path' = path /\ dev' = dev
        /\ parentOf' = parentOf /\ children' = children /\ counter' = counter
        /\ irqs' = irqs /\ uarts' = uarts /\ interruptor' = interruptor
    BY DEF ParseChosen, fdtVars, treeVars, halVars
  <1>4. stdout = NULL
    BY <1>1, <1>2 DEF PhaseInv
  <1>5. stdout' \in Node \cup {NULL}
    BY <1>2, <1>4, FoundType
  <1>6. NULL \notin Elems(uarts)
    <2>1. NULL \notin Node
      BY TreeAssumption DEF Node
    <2> QED
      BY <1>1, <2>1 DEF DriverInv, Walked
  <1>7. ASSUME "src" \notin Fails
        PROVE  stdout' = IF chosen # 0 /\ path \in Elems(uarts) THEN path ELSE NULL
    <2>1. CASE path = NULL
      BY <1>2, <1>4, <1>6, <2>1
    <2>2. CASE path # NULL
      <3>1. Found(path) = IF path \in Elems(uarts) THEN path ELSE NULL
        BY <1>7, <2>2, FoundConsole
      <3> QED
        BY <1>2, <1>4, <2>2, <3>1
    <2> QED
      BY <2>1, <2>2
  <1>8. PhaseInv'
    BY <1>2, <1>3, <1>7 DEF PhaseInv
  <1>9. TypeOK'
    BY <1>1, <1>2, <1>3, <1>5 DEF TypeOK
  <1> QED
    BY <1>1, <1>2, <1>3, <1>8, <1>9, SameTree DEF Inv

\* hal_init enables every registered source.
LEMMA HalInitStep ==
    ASSUME Inv, HalInit
    PROVE  Inv'
  <1>1. TypeOK /\ FdtInv /\ WalkInv /\ DriverInv /\ PhaseInv
    BY DEF Inv
  <1>2. /\ phase = "hal" /\ phase' = "done" /\ next' = next /\ chosen' = chosen
        /\ stdout' = stdout /\ live' = live /\ fault' = fault
        /\ enabled' = (IF interruptor # NULL THEN Elems(irqs) ELSE enabled)
    BY DEF HalInit, Sources
  <1>3. /\ parent' = parent /\ kind' = kind /\ path' = path /\ dev' = dev
        /\ parentOf' = parentOf /\ children' = children /\ counter' = counter
        /\ irqs' = irqs /\ uarts' = uarts /\ interruptor' = interruptor
    BY DEF HalInit, fdtVars, treeVars, halVars
  <1>4. PhaseInv'
    BY <1>1, <1>2, <1>3 DEF PhaseInv
  <1>5. enabled' \subseteq Node
    BY <1>1, <1>2 DEF TypeOK, DriverInv, Walked
  <1>6. TypeOK'
    BY <1>1, <1>2, <1>3, <1>5 DEF TypeOK
  <1> QED
    BY <1>1, <1>2, <1>3, <1>4, <1>6, SameTree DEF Inv

-----------------------------------------------------------------------------
(* The theorems *)

\* Before the walk there is no device.
LEMMA InitInv == Init => Inv
  <1> SUFFICES ASSUME Init PROVE Inv
    OBVIOUS
  <1>1. FdtInv
    BY DEF Init, FdtInv
  <1>2. 0 \in Node /\ 0 \in 0 .. NNode /\ 0 <= 0 /\ <<>> \in Seq(Node)
        /\ (\A n \in Node : ~(n < 0)) /\ Elems(<<>>) = {} /\ Len(<<>>) = 0
    BY TreeAssumption, SMT DEF Node, Elems
  <1>3. TypeOK
    BY <1>2 DEF Init, TypeOK
  <1>4. Walked = {}
    BY <1>2 DEF Init, Walked
  <1>5. Cardinality({}) = 0
    BY FS_EmptySet
  <1>6. TreeMirrorsFdt
    BY <1>2, <1>4, <1>5 DEF Init, TreeMirrorsFdt
  <1>7. \A a \in Up(parent, next) : a = next
    BY <1>1, ParentFacts DEF Init, FdtInv
  <1>8. WalkInv
    BY <1>2, <1>4, <1>6, <1>7 DEF Init, WalkInv
  <1>9. DriverInv
    BY <1>2, <1>4 DEF Init, DriverInv
  <1>10. PhaseInv
    BY DEF Init, PhaseInv
  <1> QED
    BY <1>1, <1>3, <1>8, <1>9, <1>10 DEF Inv

\* Every step of device_init keeps the invariant.
LEMMA NextInv == Inv /\ [Next]_vars => Inv'
  <1> SUFFICES ASSUME Inv, [Next]_vars PROVE Inv'
    OBVIOUS
  <1>1. ASSUME NEW n \in Node, VisitDriven(n) PROVE Inv'
    BY <1>1, DrivenStep
  <1>2. ASSUME NEW n \in Node, NEW f \in Fails, VisitFailed(n, f) PROVE Inv'
    BY <1>2, FailedStep
  <1>3. ASSUME NEW n \in Node, VisitUnknown(n) PROVE Inv'
    BY <1>3, UnknownStep
  <1>4. ASSUME NEW n \in Node, VisitChosen(n) PROVE Inv'
    BY <1>4, ChosenStep
  <1>5. CASE WalkEnd
    BY <1>5, WalkEndStep
  <1>6. CASE ParseChosen
    BY <1>6, ParseChosenStep
  <1>7. CASE HalInit
    BY <1>7, HalInitStep
  <1>8. CASE UNCHANGED vars
    <2>1. TypeOK /\ FdtInv /\ WalkInv /\ DriverInv /\ PhaseInv
      BY DEF Inv
    <2>2. /\ parent' = parent /\ kind' = kind /\ path' = path /\ dev' = dev
          /\ parentOf' = parentOf /\ children' = children /\ counter' = counter
          /\ irqs' = irqs /\ uarts' = uarts /\ interruptor' = interruptor
      BY <1>8 DEF vars, fdtVars, treeVars, halVars
    <2>3. /\ phase' = phase /\ next' = next /\ chosen' = chosen /\ stdout' = stdout
          /\ enabled' = enabled /\ live' = live /\ fault' = fault
      BY <1>8 DEF vars
    <2>4. TypeOK' /\ FdtInv' /\ PhaseInv'
      BY <2>1, <2>2, <2>3 DEF TypeOK, FdtInv, PhaseInv
    <2>5. Walked' = Walked
      BY <2>2, <2>3 DEF Walked
    <2>6. TreeMirrorsFdt'
      BY <2>1, <2>2, <2>5 DEF WalkInv, TreeMirrorsFdt
    <2>7. WalkInv'
      BY <2>1, <2>2, <2>3, <2>5, <2>6 DEF WalkInv
    <2>8. DriverInv'
      BY <2>1, <2>2, <2>3, <2>5 DEF DriverInv
    <2> QED
      BY <2>4, <2>7, <2>8 DEF Inv
  <1> QED
    BY <1>1, <1>2, <1>3, <1>4, <1>5, <1>6, <1>7, <1>8 DEF Next

\* What the properties say follows from the invariant.
LEMMA InvImplies ==
    ASSUME Inv
    PROVE  TreeInv /\ HandlersLive /\ ("src" \notin Fails => DevicesReady)
  <1>1. TypeOK /\ WalkInv /\ DriverInv /\ PhaseInv
    BY DEF Inv
  <1>2. TreeInv
    BY <1>1 DEF TreeInv, WalkInv
  <1>3. \A n \in Elems(irqs) \cup Elems(uarts) :
           dev[n].driver = "ns16550a" /\ <<"u", n>> \in live /\ <<"dev", n>> \in live
    BY <1>1 DEF DriverInv
  <1>4. interruptor # NULL => dev[interruptor].driver = "plic"
    BY <1>1 DEF DriverInv
  <1>5. HandlersLive
    BY <1>3, <1>4 DEF HandlersLive
  <1>6. SourcesEnabled
    BY <1>1 DEF SourcesEnabled, PhaseInv, DriverInv
  <1>7. "src" \notin Fails => ConsoleWorks
    BY <1>1 DEF ConsoleWorks, PhaseInv
  <1> QED
    BY <1>2, <1>5, <1>6, <1>7 DEF DevicesReady

\* The invariant holds throughout device_init.
THEOREM DevicesInvariant == Spec => []Inv
  <1>1. Init => Inv
    BY InitInv
  <1>2. Inv /\ [Next]_vars => Inv'
    BY NextInv
  <1> QED
    BY <1>1, <1>2, PTL DEF Spec

\* Whatever the device tree and whatever fails in the drivers, device_walk_fdt
\* builds its shape: every node it passed has one device, with a devId of its own,
\* once in the list of its parent, and no chosen node or node below one has any.
THEOREM DeviceTree == Spec => []TreeInv
  <1>1. Inv => TreeInv
    BY InvImplies
  <1> QED
    BY <1>1, DevicesInvariant, PTL

\* On no error path of a driver's init does a handler stay registered whose device
\* or driver data was freed, and the interrupt controller is one its driver runs.
THEOREM HandlersAlive == Spec => []HandlersLive
  <1>1. Inv => HandlersLive
    BY InvImplies
  <1> QED
    BY <1>1, DevicesInvariant, PTL

\* If no driver is refused for its interrupt number, device_init ends with the
\* sources of all working serial lines enabled, wherever the controller stands in
\* the tree, and with the console at the line stdout-path names or at the firmware.
THEOREM ReadyAfterInit ==
    ASSUME "src" \notin Fails
    PROVE  Spec => []DevicesReady
  <1>1. Inv => DevicesReady
    BY InvImplies
  <1> QED
    BY <1>1, DevicesInvariant, PTL

=============================================================================
