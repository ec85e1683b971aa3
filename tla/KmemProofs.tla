----------------------------- MODULE KmemProofs -----------------------------
(***************************************************************************)
(* The object allocator (memory/object.c) for every memory, every set of   *)
(* managers and any number of harts.                                       *)
(***************************************************************************)
EXTENDS KmemObject, PowerLemmas, FiniteSetTheorems

\* Steps without arithmetic go to Zenon; the others name SMT.
USE ZenonT(30)

-----------------------------------------------------------------------------
(* Numbers *)

\* What rounding down returns.
LEMMA FloorIs ==
    ASSUME NEW a \in Nat, a > 0, NEW q \in Int, NEW x \in Int, a * q <= x, x < a * q + a
    PROVE  x \div a = q
  BY SMT

\* A product grows with its first factor.
LEMMA TimesMono ==
    ASSUME NEW i \in Int, NEW j \in Int, NEW u \in Nat, i <= j
    PROVE  i * u <= j * u /\ i * u \in Int /\ j * u \in Int /\ (i < j => i * u + u <= j * u)
  BY SMT

\* The numbers a page, an order and the sizes of a manager are.
LEMMA Sizes ==
    /\ NumPages \in Nat /\ MaxOrder \in Nat /\ MaxOrder > 0 /\ PageSize \in Nat /\ PageSize > 0
    /\ BlockHeader \in Nat /\ SlotHeader \in Nat /\ Align \in Nat /\ Align > 0
    /\ Pages!Page = 0 .. NumPages - 1 /\ Pages!Orders = 0 .. MaxOrder - 1
    /\ \A ord \in Pages!Orders : ord \in Nat /\ Pow2[ord] \in Nat /\ Pow2[ord] > 0
    /\ \A b \in Pages!Page : b \in Nat
  <1>1. Pages!Page = 0 .. NumPages - 1 /\ Pages!Orders = 0 .. MaxOrder - 1
    BY DEF Pages!Page, Pages!Orders
  <1>2. /\ NumPages \in Nat /\ MaxOrder \in Nat /\ MaxOrder > 0 /\ PageSize \in Nat /\ PageSize > 0
        /\ BlockHeader \in Nat /\ SlotHeader \in Nat /\ Align \in Nat /\ Align > 0
    BY SizeAssumption, SMT
  <1>3. ASSUME NEW ord \in Pages!Orders PROVE ord \in Nat
    BY <1>1, <1>2, SMT
  <1>4. ASSUME NEW b \in Pages!Page PROVE b \in Nat
    BY <1>1, <1>2, SMT
  <1> QED
    BY <1>1, <1>2, <1>3, <1>4, PowType

\* Rounding up gives the next multiple of the alignment.
LEMMA Rounded ==
    ASSUME NEW n \in Nat
    PROVE  \E c \in Nat : /\ RoundUp(n) = Align * c
                          /\ n <= Align * c /\ Align * c < n + Align
  <1> DEFINE y == n + Align - 1
             c == y \div Align
  <1>1. y \in Nat /\ Align \in Nat /\ Align > 0
    BY Sizes, SMT
  <1>2. c \in Nat /\ y % Align \in Nat /\ y = Align * c + (y % Align) /\ y % Align < Align
    BY <1>1, Division
  <1>3. RoundUp(n) = c * Align
    BY DEF RoundUp
  <1>0. y = n + Align - 1
    OBVIOUS
  <1> HIDE DEF c, y
  <1>4. n <= Align * c /\ Align * c < n + Align
    BY <1>0, <1>1, <1>2, SMT
  <1>5. c * Align = Align * c
    BY <1>1, <1>2, SMT
  <1> QED
    BY <1>2, <1>3, <1>4, <1>5

\* The room behind the header of a block is the same wherever the block lies.
LEMMA Room ==
    ASSUME NEW b \in Nat, NEW ord \in Pages!Orders
    PROVE  /\ Capacity(ord) \in Int
           /\ RoundUp(b * PageSize + BlockHeader) \in Int
           /\ RoundUp(b * PageSize + BlockHeader) >= b * PageSize + BlockHeader
           /\ (b + Pow2[ord]) * PageSize - RoundUp(b * PageSize + BlockHeader) = Capacity(ord)
  <1> DEFINE P == Pow2[ord]
  <1>0. P \in Nat /\ Align \in Nat /\ Align > 0 /\ PageSize \in Nat /\ BlockHeader \in Nat
    BY Sizes
  <1>1. PICK c \in Nat : /\ RoundUp(BlockHeader) = Align * c
                         /\ BlockHeader <= Align * c /\ Align * c < BlockHeader + Align
    BY <1>0, Rounded
  <1>2. PICK k \in Nat : PageSize = Align * k
    <2>1. PageSize \div Align \in Nat /\ PageSize = Align * (PageSize \div Align) + (PageSize % Align)
      BY <1>0, Division
    <2>2. PageSize % Align = 0
      BY SizeAssumption
    <2> HIDE DEF P
    <2>3. PageSize = Align * (PageSize \div Align)
      BY <1>0, <2>1, <2>2, SMT
    <2> QED
      BY <2>1, <2>3
  <1> HIDE DEF P
  <1>3. (P * PageSize - BlockHeader) \div Align = k * P - c
    <2> DEFINE q == k * P - c
               x == P * PageSize - BlockHeader
    <2>1. q \in Int /\ x \in Int
      BY <1>0, <1>1, <1>2, SMT
    <2>2. P * PageSize = Align * (k * P) /\ Align * q = Align * (k * P) - Align * c
      BY <1>0, <1>1, <1>2, SMT
    <2>3. Align * (k * P) \in Nat /\ Align * c \in Nat
      BY <1>0, <1>1, <1>2, SMT
    <2>4. Align * q <= x /\ x < Align * q + Align
      BY <1>0, <1>1, <2>2, <2>3, SMT
    <2> HIDE DEF q, x
    <2>5. x \div Align = q
      BY <1>0, <2>1, <2>4, FloorIs
    <2> QED
      BY <2>5 DEF q, x
  <1>4. (b * PageSize + BlockHeader + Align - 1) \div Align = k * b + c
    <2> DEFINE q == k * b + c
               x == b * PageSize + BlockHeader + Align - 1
    <2>1. q \in Int /\ x \in Int
      BY <1>0, <1>1, <1>2, SMT
    <2>2. b * PageSize = Align * (k * b) /\ Align * q = Align * (k * b) + Align * c
      BY <1>0, <1>1, <1>2, SMT
    <2>3. Align * (k * b) \in Nat /\ Align * c \in Nat
      BY <1>0, <1>1, <1>2, SMT
    <2>4. Align * q <= x /\ x < Align * q + Align
      BY <1>0, <1>1, <2>2, <2>3, SMT
    <2> HIDE DEF q, x
    <2>5. x \div Align = q
      BY <1>0, <2>1, <2>4, FloorIs
    <2> QED
      BY <2>5 DEF q, x
  <1>5. Capacity(ord) = (k * P - c) * Align
    BY <1>3 DEF Capacity, RoundDown, P
  <1>6. RoundUp(b * PageSize + BlockHeader) = (k * b + c) * Align
    BY <1>4 DEF RoundUp
  <1>7. (k * P - c) * Align = P * PageSize - Align * c
    BY <1>0, <1>1, <1>2, SMT
  <1>8. (k * b + c) * Align = b * PageSize + Align * c
    BY <1>0, <1>1, <1>2, SMT
  <1>9. P * PageSize \in Nat /\ b * PageSize \in Nat /\ Align * c \in Nat
        /\ (b + P) * PageSize = b * PageSize + P * PageSize
    BY <1>0, <1>1, <1>2, SMT
  <1> DEFINE C == Capacity(ord)
             R == RoundUp(b * PageSize + BlockHeader)
             w == P * PageSize
             y == b * PageSize
             e == Align * c
             z == (b + P) * PageSize
  <1>10. w \in Nat /\ y \in Nat /\ e \in Nat /\ z = y + w /\ C = w - e /\ R = y + e
         /\ BlockHeader <= e
    BY <1>1, <1>5, <1>6, <1>7, <1>8, <1>9
  <1> HIDE DEF C, R, w, y, e, z
  <1>11. C \in Int /\ R \in Int /\ R >= y + BlockHeader /\ z - R = C
    BY <1>0, <1>10, SMT
  <1> QED
    BY <1>11 DEF C, R, y, z, P

\* An object has a size, and a slot is larger by its header.
LEMMA ManagerSizes ==
    ASSUME NEW m \in Mgr
    PROVE  /\ object_size(m) \in Nat /\ unit_size(m) \in Nat /\ unit_size(m) > 0
           /\ unit_size(m) = object_size(m) + SlotHeader
  <1>1. ObjectSize[m] \in Nat /\ ObjectSize[m] > 0
    <2>1. ObjectSize[m] \in Nat \ {0}
      BY ManagersAssumption
    <2> QED
      BY <2>1, SMT
  <1>2. PICK c \in Nat : object_size(m) = Align * c /\ ObjectSize[m] <= Align * c
    BY <1>1, Rounded DEF object_size
  <1>3. Align * c \in Nat /\ SlotHeader \in Nat
    BY Sizes, SMT
  <1>4. unit_size(m) = object_size(m) + SlotHeader
    BY DEF unit_size
  <1> QED
    BY <1>1, <1>2, <1>3, <1>4, SMT

-----------------------------------------------------------------------------
(* The slots of a block *)

\* Slots lie behind each other, between the header of their block and its end.
Cut(S, b, ord, m) ==
    /\ S \in Seq(Nat) /\ IsInjective(S)
    /\ \A s \in Range(S) : /\ b * PageSize + BlockHeader <= s
                           /\ s + unit_size(m) <= (b + Pow2[ord]) * PageSize
    /\ \A s, t \in Range(S) : s = t \/ s + unit_size(m) <= t \/ t + unit_size(m) <= s

\* kmem_object_create_block cuts a block with room for an object into slots, as many
\* as there is room for.
LEMMA SlotsAreCut ==
    ASSUME NEW b \in Nat, NEW ord \in Pages!Orders, NEW m \in Mgr, HasRoom(ord, m)
    PROVE  /\ Cut(SlotsOf(b, ord, m), b, ord, m)
           /\ Len(SlotsOf(b, ord, m)) \in Nat
           /\ \A k \in Nat : k * unit_size(m) <= Capacity(ord) => k <= Len(SlotsOf(b, ord, m))
  <1> DEFINE u == unit_size(m)
             first == RoundUp(b * PageSize + BlockHeader)
             end == (b + Pow2[ord]) * PageSize
             C == Capacity(ord)
             n == (end - first) \div u
             base == b * PageSize + BlockHeader
             S == SlotsOf(b, ord, m)
  <1>1. u \in Nat /\ u > 0
    BY ManagerSizes
  <1>2. C \in Int /\ first \in Int /\ first >= base /\ end - first = C
    BY Room
  <1>3. base \in Nat /\ end \in Int
    BY Sizes, SMT
  <1>4. C >= u
    BY DEF HasRoom
  <1>5. S = [i \in 1 .. n |-> first + (i - 1) * u]
    BY DEF SlotsOf
  <1>0. n = (end - first) \div u
    OBVIOUS
  <1> HIDE DEF u, first, end, C, n, base
  <1>6. C \in Nat /\ first \in Nat
    BY <1>1, <1>2, <1>3, <1>4, SMT
  <1>7. n \in Nat /\ C = u * n + (C % u) /\ C % u \in Nat /\ C % u < u
    <2>1. C \div u \in Nat /\ C = u * (C \div u) + (C % u) /\ C % u \in Nat /\ C % u < u
      BY <1>1, <1>6, Division
    <2> QED
      BY <1>0, <1>2, <2>1
  <1>8. n * u <= C /\ C < n * u + u
    BY <1>1, <1>6, <1>7, SMT
  <1>9. ASSUME NEW i \in 1 .. n
        PROVE  /\ (i - 1) * u \in Nat /\ (i - 1) * u + u <= n * u
               /\ first + (i - 1) * u \in Nat
               /\ base <= first + (i - 1) * u /\ first + (i - 1) * u + u <= end
    <2>1. i - 1 \in Nat /\ i - 1 < n /\ n \in Int /\ i - 1 \in Int /\ i - 1 <= n
      BY <1>7, SMT
    <2>2. (i - 1) * u + u <= n * u /\ n * u \in Int
      BY <1>1, <2>1, TimesMono
    <2>3. (i - 1) * u \in Nat
      BY <1>1, <2>1, SMT
    <2> DEFINE v == (i - 1) * u
               w == n * u
    <2> HIDE DEF v, w
    <2>4. v \in Nat /\ v + u <= w /\ w <= C /\ w \in Int
      BY <1>8, <2>2, <2>3 DEF v, w
    <2>5. first + v \in Nat /\ base <= first + v /\ first + v + u <= end
      BY <1>1, <1>2, <1>3, <1>6, <2>4, SMT
    <2> QED
      BY <2>2, <2>3, <2>5 DEF v
  <1>10. ASSUME NEW i \in 1 .. n, NEW j \in 1 .. n, i < j
         PROVE  first + (i - 1) * u + u <= first + (j - 1) * u
    <2>1. i - 1 \in Int /\ j - 1 \in Int /\ i - 1 < j - 1 /\ i - 1 <= j - 1
      BY <1>10, SMT
    <2>2. (i - 1) * u + u <= (j - 1) * u
      BY <1>1, <2>1, TimesMono
    <2> DEFINE v == (i - 1) * u
               w == (j - 1) * u
    <2>3. v \in Nat /\ w \in Nat
      BY <1>9
    <2> HIDE DEF v, w
    <2>4. v + u <= w
      BY <2>2 DEF v, w
    <2>5. first + v + u <= first + w
      BY <1>1, <1>6, <2>3, <2>4, SMT
    <2> QED
      BY <2>5 DEF v, w
  <1> HIDE DEF S
  <1>11. DOMAIN S = 1 .. n /\ \A i \in 1 .. n : S[i] = first + (i - 1) * u
    BY <1>5
  <1>12. S \in Seq(Nat) /\ Len(S) = n
    <2>1. \A i \in 1 .. n : S[i] \in Nat
      BY <1>9, <1>11
    <2>2. S = [i \in 1 .. n |-> S[i]]
      BY <1>5, <1>11
    <2> QED
      BY <1>7, <2>1, <2>2, SMT
  <1>13. ASSUME NEW i \in 1 .. n, NEW j \in 1 .. n, i # j
         PROVE  S[i] + u <= S[j] \/ S[j] + u <= S[i]
    <2>1. i < j \/ j < i
      BY <1>13, SMT
    <2> QED
      BY <1>10, <1>11, <2>1
  <1>14. IsInjective(S)
    <2> SUFFICES ASSUME NEW i \in 1 .. n, NEW j \in 1 .. n, S[i] = S[j], i # j PROVE FALSE
      BY <1>11 DEF IsInjective
    <2>1. S[i] \in Nat /\ S[j] \in Nat
      BY <1>9, <1>11
    <2>2. S[i] + u <= S[j] \/ S[j] + u <= S[i]
      BY <1>13
    <2> QED
      BY <1>1, <2>1, <2>2, SMT
  <1>15. ASSUME NEW s \in Range(S) PROVE base <= s /\ s + u <= end
    BY <1>9, <1>11 DEF Range
  <1>16. ASSUME NEW s \in Range(S), NEW t \in Range(S)
         PROVE  s = t \/ s + u <= t \/ t + u <= s
    <2>1. PICK i \in 1 .. n : s = S[i]
      BY <1>11 DEF Range
    <2>2. PICK j \in 1 .. n : t = S[j]
      BY <1>11 DEF Range
    <2> QED
      BY <1>13, <2>1, <2>2
  <1>17. Cut(S, b, ord, m)
    BY <1>12, <1>14, <1>15, <1>16 DEF Cut, u, base, end
  <1>18. ASSUME NEW k \in Nat, k * u <= C, ~(k <= n) PROVE FALSE
    <2>1. n \in Int /\ k \in Int /\ n <= k /\ n < k
      BY <1>7, <1>18, SMT
    <2>2. n * u + u <= k * u /\ n * u \in Int
      BY <1>1, <2>1, TimesMono
    <2> DEFINE v == n * u
               w == k * u
    <2>3. w \in Nat
      BY <1>1, SMT
    <2> HIDE DEF v, w
    <2>4. v + u <= w /\ v \in Int /\ w <= C /\ C < v + u
      BY <1>8, <1>18, <2>2 DEF v, w
    <2> QED
      BY <1>1, <1>6, <2>3, <2>4, SMT
  <1> QED
    BY <1>7, <1>12, <1>17, <1>18 DEF S, u, C

-----------------------------------------------------------------------------
(* The books: lists, blocks, pages and objects in use *)

\* The fields of a block.
LEMMA Fields ==
    ASSUME NEW r \in BlockType
    PROVE  /\ r.parent_manager \in Mgr /\ r.order \in Pages!Orders
           /\ r.free_slots \in Seq(Nat) /\ r.allocated_slots \in SUBSET Nat /\ r.used \in Nat
  BY SMT DEF BlockType

\* The pages at which a block begins.
Made(B) == {b \in Pages!Page : B[b] # NULL}

\* The list of a manager holds the blocks that name it as their parent, each once.
ListInv(bs, B) ==
    \A m \in Mgr : /\ IsInjective(bs[m])
                   /\ Range(bs[m]) = {b \in Made(B) : B[b].parent_manager = m}

\* The pages taken are those of the blocks, which lie apart.
PageInv(f, o, B) ==
    /\ f = Pages!Page \ o
    /\ o = UNION {Block(b, B[b].order) : b \in Made(B)}
    /\ \A b, c \in Made(B) : b = c \/ Block(b, B[b].order) \cap Block(c, B[c].order) = {}

\* Every slot of the block r at b is on one of its two lists, once, and used counts
\* those in use.
Whole(b, r) ==
    /\ HasRoom(r.order, r.parent_manager)
    /\ IsFiniteSet(r.allocated_slots) /\ r.used = Cardinality(r.allocated_slots)
    /\ Len(r.free_slots) + r.used = Len(SlotsOf(b, r.order, r.parent_manager))
    /\ r.allocated_slots \subseteq Range(SlotsOf(b, r.order, r.parent_manager))
    /\ IsInjective(r.free_slots)
    /\ Range(r.free_slots) =
          Range(SlotsOf(b, r.order, r.parent_manager)) \ r.allocated_slots

\* The object x is in a slot of the block r, and fits.
Holds(r, x) ==
    /\ x.addr - SlotHeader \in r.allocated_slots
    /\ x.size <= object_size(r.parent_manager)

\* The slots in use and the objects callers have are the same.
LiveInv(B, L) ==
    /\ \A x \in L : \E b \in Made(B) : Holds(B[b], x)
    /\ \A b \in Made(B) : \A s \in B[b].allocated_slots : \E x \in L : x.addr = s + SlotHeader
    /\ \A x, y \in L : x.addr = y.addr => x = y

Books(f, o, bs, B, L) ==
    /\ bs \in [Mgr -> Seq(Pages!Page)]
    /\ B \in [Pages!Page -> BlockType \cup {NULL}]
    /\ L \subseteq [addr : Nat, size : Nat] /\ o \subseteq Pages!Page
    /\ ListInv(bs, B) /\ PageInv(f, o, B) /\ LiveInv(B, L)
    /\ \A b \in Made(B) : Whole(b, B[b])

\* A block there is has the fields of one.
LEMMA MadeType ==
    ASSUME NEW B \in [Pages!Page -> BlockType \cup {NULL}], NEW b \in Made(B)
    PROVE  /\ b \in Pages!Page /\ b \in Nat /\ B[b] \in BlockType
           /\ b \in Block(b, B[b].order)
  <1>1. b \in Pages!Page /\ B[b] \in BlockType
    BY DEF Made
  <1>2. b \in Nat /\ Pow2[B[b].order] \in Nat /\ Pow2[B[b].order] > 0
    BY <1>1, Fields, Sizes
  <1>3. b \in Block(b, B[b].order)
    BY <1>2, SMT DEF Block
  <1> QED
    BY <1>1, <1>2, <1>3

\* The slots of different blocks lie apart.
LEMMA SlotsApart ==
    ASSUME NEW B \in [Pages!Page -> BlockType \cup {NULL}], NEW f, NEW o, PageInv(f, o, B),
           NEW b \in Made(B), NEW c \in Made(B), b # c, Whole(b, B[b]), Whole(c, B[c]),
           NEW s \in Range(SlotsOf(b, B[b].order, B[b].parent_manager)),
           NEW t \in Range(SlotsOf(c, B[c].order, B[c].parent_manager))
    PROVE  \/ s + unit_size(B[b].parent_manager) <= t
           \/ t + unit_size(B[c].parent_manager) <= s
  <1> DEFINE p == Pow2[B[b].order]
             q == Pow2[B[c].order]
             u == unit_size(B[b].parent_manager)
             v == unit_size(B[c].parent_manager)
  <1>1. /\ b \in Nat /\ c \in Nat /\ B[b] \in BlockType /\ B[c] \in BlockType
    BY MadeType
  <1>2. /\ p \in Nat /\ p > 0 /\ q \in Nat /\ q > 0 /\ PageSize \in Nat /\ BlockHeader \in Nat
        /\ u \in Nat /\ v \in Nat
    BY <1>1, Fields, Sizes, ManagerSizes
  <1>3. b + p <= c \/ c + q <= b
    <2>1. (b .. b + p - 1) \cap (c .. c + q - 1) = {}
      BY DEF PageInv, Block
    <2> HIDE DEF p, q
    <2>2. CASE b <= c
      <3>1. c \notin b .. b + p - 1
        BY <1>1, <1>2, <2>1, SMT
      <3> QED
        BY <1>1, <1>2, <2>2, <3>1, SMT
    <2>3. CASE c <= b
      <3>1. b \notin c .. c + q - 1
        BY <1>1, <1>2, <2>1, SMT
      <3> QED
        BY <1>1, <1>2, <2>3, <3>1, SMT
    <2> QED
      BY <1>1, <2>2, <2>3, SMT
  <1>4. /\ s \in Nat /\ b * PageSize + BlockHeader <= s /\ s + u <= (b + p) * PageSize
        /\ t \in Nat /\ c * PageSize + BlockHeader <= t /\ t + v <= (c + q) * PageSize
    <2>1. Cut(SlotsOf(b, B[b].order, B[b].parent_manager), b, B[b].order, B[b].parent_manager)
      BY <1>1, Fields, SlotsAreCut DEF Whole
    <2>2. Cut(SlotsOf(c, B[c].order, B[c].parent_manager), c, B[c].order, B[c].parent_manager)
      BY <1>1, Fields, SlotsAreCut DEF Whole
    <2>3. ASSUME NEW S \in Seq(Nat), NEW x \in Range(S) PROVE x \in Nat
      <3>1. PICK i \in DOMAIN S : x = S[i]
        BY DEF Range
      <3> QED
        BY <3>1, SMT
    <2> QED
      BY <2>1, <2>2, <2>3 DEF Cut
  <1> HIDE DEF p, q, u, v
  <1>5. CASE b + p <= c
    <2>1. (b + p) * PageSize <= c * PageSize /\ (b + p) * PageSize \in Int /\ c * PageSize \in Int
      <3>1. b + p \in Int /\ c \in Int
        BY <1>1, <1>2, SMT
      <3> QED
        BY <1>2, <1>5, <3>1, TimesMono
    <2> DEFINE w == (b + p) * PageSize
               z == c * PageSize
    <2> HIDE DEF w, z
    <2>2. w <= z /\ w \in Int /\ z \in Int /\ s + u <= w /\ z + BlockHeader <= t
      BY <1>4, <2>1 DEF w, z
    <2>3. s + u <= t
      BY <1>2, <1>4, <2>2, SMT
    <2> QED
      BY <2>3 DEF u
  <1>6. CASE c + q <= b
    <2>1. (c + q) * PageSize <= b * PageSize /\ (c + q) * PageSize \in Int /\ b * PageSize \in Int
      <3>1. c + q \in Int /\ b \in Int
        BY <1>1, <1>2, SMT
      <3> QED
        BY <1>2, <1>6, <3>1, TimesMono
    <2> DEFINE w == (c + q) * PageSize
               z == b * PageSize
    <2> HIDE DEF w, z
    <2>2. w <= z /\ w \in Int /\ z \in Int /\ t + v <= w /\ z + BlockHeader <= s
      BY <1>4, <2>1 DEF w, z
    <2>3. t + v <= s
      BY <1>2, <1>4, <2>2, SMT
    <2> QED
      BY <2>3 DEF v
  <1> QED
    BY <1>3, <1>5, <1>6

-----------------------------------------------------------------------------
(* Slots taken and given back *)

\* The list of free slots without its first one.
LEMMA Rest ==
    ASSUME NEW s \in Seq(Nat), s # <<>>, IsInjective(s)
    PROVE  /\ Tail(s) \in Seq(Nat) /\ IsInjective(Tail(s)) /\ Head(s) \in Range(s)
           /\ Range(Tail(s)) = Range(s) \ {Head(s)}
           /\ Len(Tail(s)) = Len(s) - 1 /\ Len(s) \in Nat /\ Head(s) \in Nat
  <1>1. Len(s) \in Nat /\ 1 \in DOMAIN s /\ s[1] = Head(s) /\ Len(Tail(s)) = Len(s) - 1
        /\ Tail(s) \in Seq(Nat) /\ Head(s) \in Nat
    BY SMT
  <1>2. Tail(s) = Unlinked(s, 1)
    <2>1. DOMAIN Tail(s) = 1 .. Len(s) - 1 /\ \A j \in 1 .. Len(s) - 1 : Tail(s)[j] = s[j + 1]
      BY SMT
    <2>2. \A j \in 1 .. Len(s) - 1 : ~ (j < 1)
      BY SMT
    <2>3. \A t \in Seq(Nat) : t = [j \in DOMAIN t |-> t[j]]
      BY SMT
    <2> QED
      BY <1>1, <2>1, <2>2, <2>3 DEF Unlinked
  <1>3. Head(s) \in Range(s)
    BY <1>1 DEF Range
  <1>4. Range(Unlinked(s, 1)) = Range(s) \ {s[1]} /\ IsInjective(Unlinked(s, 1))
    BY <1>1, Unlink
  <1> QED
    BY <1>1, <1>2, <1>3, <1>4

\* A block with other slots.
With(r, x, y, z) == [r EXCEPT !.free_slots = x, !.used = z, !.allocated_slots = y]

\* What kmem_object_alloc_from_block does to a block.
LEMMA TakenFields ==
    ASSUME NEW r \in BlockType, r.free_slots # <<>>
    PROVE  /\ SlotTaken(r) \in BlockType
           /\ SlotTaken(r).parent_manager = r.parent_manager /\ SlotTaken(r).order = r.order
           /\ SlotTaken(r).free_slots = Tail(r.free_slots)
           /\ SlotTaken(r).allocated_slots = r.allocated_slots \cup {Head(r.free_slots)}
           /\ SlotTaken(r).used = r.used + 1
  <1> DEFINE x == Tail(r.free_slots)
             y == r.allocated_slots \cup {Head(r.free_slots)}
             z == r.used + 1
  <1>1. x \in Seq(Nat) /\ Head(r.free_slots) \in Nat /\ z \in Nat
    BY Fields, SMT
  <1>2. y \in SUBSET Nat
    BY <1>1, Fields
  <1>3. SlotTaken(r) = With(r, x, y, z)
    BY DEF SlotTaken, With
  <1> HIDE DEF x, y, z
  <1>4. /\ With(r, x, y, z) \in BlockType
        /\ With(r, x, y, z).parent_manager = r.parent_manager
        /\ With(r, x, y, z).order = r.order /\ With(r, x, y, z).free_slots = x
        /\ With(r, x, y, z).allocated_slots = y /\ With(r, x, y, z).used = z
    BY <1>1, <1>2 DEF BlockType, With
  <1> QED
    BY <1>3, <1>4 DEF x, y, z

\* The block is whole when a slot is taken.
LEMMA TakeWhole ==
    ASSUME NEW b, NEW r \in BlockType, Whole(b, r), r.free_slots # <<>>
    PROVE  /\ Whole(b, SlotTaken(r))
           /\ Head(r.free_slots) \in Range(SlotsOf(b, r.order, r.parent_manager))
           /\ Head(r.free_slots) \notin r.allocated_slots
  <1> DEFINE S == SlotsOf(b, r.order, r.parent_manager)
             s == Head(r.free_slots)
             t == SlotTaken(r)
  <1>1. /\ t.parent_manager = r.parent_manager /\ t.order = r.order
        /\ t.free_slots = Tail(r.free_slots) /\ t.allocated_slots = r.allocated_slots \cup {s}
        /\ t.used = r.used + 1
    BY TakenFields
  <1>2. r.free_slots \in Seq(Nat) /\ IsInjective(r.free_slots) /\ r.used \in Nat
    BY Fields DEF Whole
  <1>3. /\ IsInjective(Tail(r.free_slots)) /\ s \in Range(r.free_slots)
        /\ Range(Tail(r.free_slots)) = Range(r.free_slots) \ {s}
        /\ Len(Tail(r.free_slots)) = Len(r.free_slots) - 1 /\ Len(r.free_slots) \in Nat
    BY <1>2, Rest
  <1>4. s \in Range(S) /\ s \notin r.allocated_slots
    BY <1>3 DEF Whole
  <1>5. IsFiniteSet(t.allocated_slots) /\ t.used = Cardinality(t.allocated_slots)
    BY <1>1, <1>4, FS_AddElement DEF Whole
  <1>6. Len(t.free_slots) + t.used = Len(S)
    <2>1. Len(r.free_slots) + r.used = Len(S)
      BY DEF Whole
    <2> HIDE DEF S, t
    <2> QED
      BY <1>1, <1>2, <1>3, <2>1, SMT
  <1>7. Range(t.free_slots) = Range(S) \ t.allocated_slots
    BY <1>1, <1>3 DEF Whole
  <1>8. t.allocated_slots \subseteq Range(S)
    BY <1>1, <1>4 DEF Whole
  <1>9. HasRoom(t.order, t.parent_manager) /\ IsInjective(t.free_slots)
    BY <1>1, <1>3 DEF Whole
  <1> HIDE DEF t, s
  <1>10. Whole(b, t)
    BY <1>1, <1>5, <1>6, <1>7, <1>8, <1>9 DEF Whole
  <1> QED
    BY <1>4, <1>10 DEF t, s

\* What kmem_object_free does to a block.
LEMMA FreedFields ==
    ASSUME NEW r \in BlockType, NEW s \in r.allocated_slots, r.used > 0
    PROVE  /\ SlotFreed(r, s) \in BlockType
           /\ SlotFreed(r, s).parent_manager = r.parent_manager
           /\ SlotFreed(r, s).order = r.order
           /\ SlotFreed(r, s).free_slots = <<s>> \o r.free_slots
           /\ SlotFreed(r, s).allocated_slots = r.allocated_slots \ {s}
           /\ SlotFreed(r, s).used = r.used - 1
  <1> DEFINE x == <<s>> \o r.free_slots
             y == r.allocated_slots \ {s}
             z == r.used - 1
  <1>1. r.allocated_slots \in SUBSET Nat
    BY Fields
  <1>2. s \in Nat /\ y \in SUBSET Nat
    BY <1>1
  <1>3. x \in Seq(Nat) /\ z \in Nat
    BY <1>2, Fields, SMT
  <1>4. SlotFreed(r, s) = With(r, x, y, z)
    BY DEF SlotFreed, With
  <1> HIDE DEF x, y, z
  <1>5. /\ With(r, x, y, z) \in BlockType
        /\ With(r, x, y, z).parent_manager = r.parent_manager
        /\ With(r, x, y, z).order = r.order /\ With(r, x, y, z).free_slots = x
        /\ With(r, x, y, z).allocated_slots = y /\ With(r, x, y, z).used = z
    BY <1>2, <1>3 DEF BlockType, With
  <1> QED
    BY <1>4, <1>5 DEF x, y, z

\* The block is whole when a slot comes back.
LEMMA FreeWhole ==
    ASSUME NEW b, NEW r \in BlockType, Whole(b, r), NEW s \in r.allocated_slots
    PROVE  Whole(b, SlotFreed(r, s)) /\ r.used > 0
  <1> DEFINE S == SlotsOf(b, r.order, r.parent_manager)
             t == SlotFreed(r, s)
  <1>1. IsFiniteSet(r.allocated_slots) /\ r.used = Cardinality(r.allocated_slots)
    BY DEF Whole
  <1>2. /\ IsFiniteSet(r.allocated_slots \ {s})
        /\ Cardinality(r.allocated_slots \ {s}) = r.used - 1
    BY <1>1, FS_RemoveElement
  <1>3. r.used \in Nat /\ r.free_slots \in Seq(Nat) /\ s \in Nat
    <2>1. r.allocated_slots \in SUBSET Nat
      BY Fields
    <2> QED
      BY <2>1, Fields
  <1>4. r.used > 0
    <2>1. Cardinality(r.allocated_slots \ {s}) \in Nat
      BY <1>2, FS_CardinalityType
    <2> QED
      BY <1>2, <1>3, <2>1, SMT
  <1>5. /\ t.parent_manager = r.parent_manager /\ t.order = r.order
        /\ t.free_slots = <<s>> \o r.free_slots /\ t.allocated_slots = r.allocated_slots \ {s}
        /\ t.used = r.used - 1
    BY <1>4, FreedFields
  <1>6. s \notin Range(r.free_slots) /\ s \in Range(S) /\ IsInjective(r.free_slots)
    BY DEF Whole
  <1>7. IsInjective(t.free_slots) /\ Range(t.free_slots) = Range(r.free_slots) \cup {s}
    <2>1. /\ IsInjective(<<s>> \o r.free_slots)
          /\ Range(<<s>> \o r.free_slots) = Range(r.free_slots) \cup {s}
      BY <1>3, <1>6, PushFront
    <2> QED
      BY <1>5, <2>1
  <1>8. Len(t.free_slots) = Len(r.free_slots) + 1 /\ Len(r.free_slots) \in Nat
    <2>1. Len(<<s>> \o r.free_slots) = Len(r.free_slots) + 1 /\ Len(r.free_slots) \in Nat
      BY <1>3, SMT
    <2> QED
      BY <1>5, <2>1
  <1>9. Len(t.free_slots) + t.used = Len(S)
    <2>1. Len(r.free_slots) + r.used = Len(S)
      BY DEF Whole
    <2> HIDE DEF S, t
    <2> QED
      BY <1>3, <1>5, <1>8, <2>1, SMT
  <1>10. Range(t.free_slots) = Range(S) \ t.allocated_slots
    BY <1>5, <1>6, <1>7 DEF Whole
  <1>11. t.allocated_slots \subseteq Range(S)
    BY <1>5 DEF Whole
  <1>12. HasRoom(t.order, t.parent_manager)
    BY <1>5 DEF Whole
  <1> HIDE DEF t
  <1>13. Whole(b, t)
    BY <1>2, <1>5, <1>7, <1>9, <1>10, <1>11, <1>12 DEF Whole
  <1> QED
    BY <1>4, <1>13 DEF t

-----------------------------------------------------------------------------
(* What the operations do to the books *)

\* The slots of the block at b.
Slots(B, b) == Range(SlotsOf(b, B[b].order, B[b].parent_manager))

\* A slot is of one block only.
LEMMA OneBlock ==
    ASSUME NEW B \in [Pages!Page -> BlockType \cup {NULL}], NEW f, NEW o, PageInv(f, o, B),
           \A d \in Made(B) : Whole(d, B[d]),
           NEW b \in Made(B), NEW c \in Made(B), NEW s \in Slots(B, b), s \in Slots(B, c)
    PROVE  b = c /\ s \in Nat
  <1>1. Cut(SlotsOf(b, B[b].order, B[b].parent_manager), b, B[b].order, B[b].parent_manager)
    BY MadeType, Fields, SlotsAreCut DEF Whole
  <1>2. s \in Nat
    <2> DEFINE S == SlotsOf(b, B[b].order, B[b].parent_manager)
    <2>1. S \in Seq(Nat) /\ s \in Range(S)
      BY <1>1 DEF Cut, Slots
    <2> HIDE DEF S
    <2>2. PICK i \in DOMAIN S : s = S[i]
      BY <2>1 DEF Range
    <2> QED
      BY <2>1, <2>2, SMT
  <1>3. ASSUME b # c PROVE FALSE
    <2> DEFINE u == unit_size(B[b].parent_manager)
               v == unit_size(B[c].parent_manager)
    <2>1. s + u <= s \/ s + v <= s
      BY <1>3, SlotsApart DEF Slots
    <2>2. u \in Nat /\ u > 0 /\ v \in Nat /\ v > 0
      BY MadeType, Fields, ManagerSizes
    <2> HIDE DEF u, v
    <2> QED
      BY <1>2, <2>1, <2>2, SMT
  <1> QED
    BY <1>2, <1>3

\* A block that keeps its manager and its order keeps its place.
LEMMA SameShape ==
    ASSUME NEW B \in [Pages!Page -> BlockType \cup {NULL}], NEW b \in Made(B),
           NEW t \in BlockType, t.parent_manager = B[b].parent_manager, t.order = B[b].order,
           NEW f, NEW o, NEW bs, ListInv(bs, B), PageInv(f, o, B),
           NEW C, C = [B EXCEPT ![b] = t]
    PROVE  /\ C \in [Pages!Page -> BlockType \cup {NULL}] /\ Made(C) = Made(B)
           /\ C[b] = t /\ \A c \in Pages!Page : c # b => C[c] = B[c]
           /\ ListInv(bs, C) /\ PageInv(f, o, C)
  <1>1. b \in Pages!Page /\ t # NULL
    BY NullAssumption DEF Made
  <1>2. /\ C \in [Pages!Page -> BlockType \cup {NULL}]
        /\ C[b] = t /\ \A c \in Pages!Page : c # b => C[c] = B[c]
    BY <1>1
  <1>3. Made(C) = Made(B)
    BY <1>1, <1>2 DEF Made
  <1>4. \A c \in Made(B) : /\ C[c].parent_manager = B[c].parent_manager
                           /\ C[c].order = B[c].order
    BY <1>2 DEF Made
  <1>5. ListInv(bs, C)
    <2> SUFFICES ASSUME NEW m \in Mgr
                 PROVE  {c \in Made(C) : C[c].parent_manager = m}
                          = {c \in Made(B) : B[c].parent_manager = m}
      BY DEF ListInv
    <2> QED
      BY <1>3, <1>4
  <1>6. PageInv(f, o, C)
    <2>1. UNION {Block(c, C[c].order) : c \in Made(C)} = UNION {Block(c, B[c].order) : c \in Made(B)}
      BY <1>3, <1>4
    <2> QED
      BY <1>3, <1>4, <2>1 DEF PageInv
  <1> QED
    BY <1>2, <1>3, <1>5, <1>6

\* kmem_object_alloc_from_block: an object more.
LEMMA TakeBooks ==
    ASSUME NEW f, NEW o, NEW bs, NEW B, NEW L, Books(f, o, bs, B, L),
           NEW b \in Made(B), B[b].free_slots # <<>>,
           NEW n \in Nat, n <= object_size(B[b].parent_manager)
    PROVE  Books(f, o, bs, [B EXCEPT ![b] = SlotTaken(@)],
                 L \cup {[addr |-> Head(B[b].free_slots) + SlotHeader, size |-> n]})
  <1> DEFINE s == Head(B[b].free_slots)
             a == s + SlotHeader
             x == [addr |-> a, size |-> n]
             t == SlotTaken(B[b])
             C == [B EXCEPT ![b] = t]
  <1>1. /\ B \in [Pages!Page -> BlockType \cup {NULL}] /\ bs \in [Mgr -> Seq(Pages!Page)]
        /\ L \subseteq [addr : Nat, size : Nat] /\ o \subseteq Pages!Page
        /\ ListInv(bs, B) /\ PageInv(f, o, B) /\ LiveInv(B, L)
        /\ \A c \in Made(B) : Whole(c, B[c])
    BY DEF Books
  <1>2. B[b] \in BlockType /\ b \in Pages!Page
    BY <1>1, MadeType
  <1>3. /\ t \in BlockType /\ t.parent_manager = B[b].parent_manager /\ t.order = B[b].order
        /\ t.allocated_slots = B[b].allocated_slots \cup {s}
    BY <1>2, TakenFields
  <1>4. Whole(b, t) /\ s \in Slots(B, b) /\ s \notin B[b].allocated_slots
    BY <1>1, <1>2, TakeWhole DEF Slots
  <1> HIDE DEF t
  <1>5. /\ C \in [Pages!Page -> BlockType \cup {NULL}] /\ Made(C) = Made(B)
        /\ C[b] = t /\ \A c \in Pages!Page : c # b => C[c] = B[c]
        /\ ListInv(bs, C) /\ PageInv(f, o, C)
    BY <1>1, <1>3, SameShape
  <1>6. \A c \in Made(C) : Whole(c, C[c])
    BY <1>1, <1>4, <1>5 DEF Made
  <1> HIDE DEF C, s
  <1>7. s \in Nat /\ a \in Nat /\ a - SlotHeader = s
    <2>1. s \in Nat
      BY <1>1, <1>4, OneBlock
    <2> QED
      BY <2>1, Sizes, SMT
  <1> HIDE DEF a
  <1>8. x \in [addr : Nat, size : Nat] /\ x.addr = a /\ x.size = n
    BY <1>7
  <1>9. x.addr - SlotHeader = s /\ x.addr = s + SlotHeader
    BY <1>7, <1>8 DEF a
  <1>10. Holds(C[b], x)
    BY <1>3, <1>5, <1>8, <1>9 DEF Holds
  <1> HIDE DEF x
  <1>11. \A y \in L \cup {x} : \E c \in Made(C) : Holds(C[c], y)
    <2> SUFFICES ASSUME NEW y \in L PROVE \E c \in Made(C) : Holds(C[c], y)
      BY <1>5, <1>10
    <2>1. PICK c \in Made(B) : Holds(B[c], y)
      BY <1>1 DEF LiveInv
    <2>2. Holds(C[c], y)
      BY <1>3, <1>5, <2>1 DEF Holds, Made
    <2> QED
      BY <1>5, <2>2
  <1>12. \A c \in Made(C) : \A q \in C[c].allocated_slots :
           \E y \in L \cup {x} : y.addr = q + SlotHeader
    BY <1>1, <1>3, <1>5, <1>9 DEF LiveInv, Made
  <1>13. \A y \in L : y.addr # x.addr
    <2> SUFFICES ASSUME NEW y \in L, y.addr = x.addr PROVE FALSE
      OBVIOUS
    <2>1. PICK c \in Made(B) : Holds(B[c], y)
      BY <1>1 DEF LiveInv
    <2>2. s \in B[c].allocated_slots
      BY <1>9, <2>1 DEF Holds
    <2>3. s \in Slots(B, c)
      BY <1>1, <2>2 DEF Whole, Slots
    <2>4. b = c
      BY <1>1, <1>4, <2>3, OneBlock
    <2> QED
      BY <1>4, <2>2, <2>4
  <1>14. LiveInv(C, L \cup {x})
    BY <1>1, <1>11, <1>12, <1>13 DEF LiveInv
  <1>15. L \cup {x} \subseteq [addr : Nat, size : Nat]
    BY <1>1, <1>8
  <1>16. Books(f, o, bs, C, L \cup {x})
    BY <1>1, <1>5, <1>6, <1>14, <1>15 DEF Books
  <1> QED
    BY <1>16 DEF C, x, a, s, t

\* kmem_object_create_block: a block more, of pages that were free.
LEMMA AddBlock ==
    ASSUME NEW f, NEW o, NEW bs, NEW B, NEW L, Books(f, o, bs, B, L),
           NEW b \in Pages!Page, NEW ord \in Pages!Orders, NEW m \in Mgr,
           HasRoom(ord, m), Block(b, ord) \subseteq f
    PROVE  /\ Books(f \ Block(b, ord), o \cup Block(b, ord), [bs EXCEPT ![m] = <<b>> \o @],
                    [B EXCEPT ![b] = NewBlock(b, ord, m)], L)
           /\ b \in Made([B EXCEPT ![b] = NewBlock(b, ord, m)]) /\ b \notin Made(B)
  <1> DEFINE t == NewBlock(b, ord, m)
             S == SlotsOf(b, ord, m)
             C == [B EXCEPT ![b] = t]
             P == Block(b, ord)
             cs == [bs EXCEPT ![m] = <<b>> \o @]
  <1>1. /\ B \in [Pages!Page -> BlockType \cup {NULL}] /\ bs \in [Mgr -> Seq(Pages!Page)]
        /\ L \subseteq [addr : Nat, size : Nat] /\ o \subseteq Pages!Page
        /\ ListInv(bs, B) /\ PageInv(f, o, B) /\ LiveInv(B, L)
        /\ \A c \in Made(B) : Whole(c, B[c])
    BY DEF Books
  <1>2. Cut(S, b, ord, m) /\ Len(S) \in Nat
    BY Sizes, SlotsAreCut
  <1>3. /\ t.parent_manager = m /\ t.order = ord /\ t.free_slots = S
        /\ t.allocated_slots = {} /\ t.used = 0
    BY DEF NewBlock
  <1>4. t \in BlockType /\ t # NULL
    <2>1. S \in Seq(Nat) /\ 0 \in Nat
      BY <1>2, SMT DEF Cut
    <2> HIDE DEF S
    <2>2. t \in BlockType
      BY <2>1 DEF BlockType, NewBlock, S
    <2> QED
      BY <2>2, NullAssumption
  <1>5. Whole(b, t)
    <2>1. Len(S) + 0 = Len(S)
      BY <1>2, SMT
    <2>2. IsFiniteSet({}) /\ Cardinality({}) = 0
      BY FS_EmptySet
    <2>3. IsInjective(S)
      BY <1>2 DEF Cut
    <2> HIDE DEF t
    <2> QED
      BY <1>3, <2>1, <2>2, <2>3 DEF Whole
  <1> HIDE DEF t, S
  <1>6. /\ C \in [Pages!Page -> BlockType \cup {NULL}]
        /\ C[b] = t /\ \A c \in Pages!Page : c # b => C[c] = B[c]
    BY <1>1, <1>4
  <1>7. b \in P
    <2>1. b \in Nat /\ Pow2[ord] \in Nat /\ Pow2[ord] > 0
      BY Sizes
    <2> QED
      BY <2>1, SMT DEF Block
  <1>8. P \cap o = {} /\ P \subseteq Pages!Page
    BY <1>1 DEF PageInv
  <1>9. b \notin Made(B)
    <2> SUFFICES ASSUME b \in Made(B) PROVE FALSE
      OBVIOUS
    <2>1. b \in Block(b, B[b].order)
      BY <1>1, MadeType
    <2>2. o = UNION {Block(c, B[c].order) : c \in Made(B)}
      BY <1>1 DEF PageInv
    <2> HIDE DEF C, P, cs
    <2>3. b \in o
      BY <2>1, <2>2
    <2> QED
      BY <1>7, <1>8, <2>3
  <1>10. Made(C) = Made(B) \cup {b}
    BY <1>4, <1>6 DEF Made
  <1>11. cs[m] = <<b>> \o bs[m] /\ (\A n \in Mgr : n # m => cs[n] = bs[n])
    BY <1>1
  <1>12. cs \in [Mgr -> Seq(Pages!Page)]
    <2>1. bs[m] \in Seq(Pages!Page)
      BY <1>1
    <2>2. <<b>> \o bs[m] \in Seq(Pages!Page)
      BY <2>1, SMT
    <2> QED
      BY <1>1, <2>2
  <1> HIDE DEF C, P, cs
  <1>13. \A c \in Made(B) : C[c] = B[c]
    BY <1>6, <1>9 DEF Made
  <1>14. ListInv(cs, C)
    <2> SUFFICES ASSUME NEW n \in Mgr
                 PROVE  /\ IsInjective(cs[n])
                        /\ Range(cs[n]) = {c \in Made(C) : C[c].parent_manager = n}
      BY DEF ListInv
    <2>1. IsInjective(bs[n]) /\ Range(bs[n]) = {c \in Made(B) : B[c].parent_manager = n}
      BY <1>1 DEF ListInv
    <2>2. CASE n # m
      BY <1>3, <1>6, <1>10, <1>11, <1>13, <2>1, <2>2
    <2>3. CASE n = m
      <3>1. bs[m] \in Seq(Pages!Page) /\ b \notin Range(bs[m]) /\ IsInjective(bs[m])
        BY <1>1, <1>9, <2>1, <2>3
      <3>2. Range(<<b>> \o bs[m]) = Range(bs[m]) \cup {b} /\ IsInjective(<<b>> \o bs[m])
        BY <3>1, PushFront
      <3>3. {c \in Made(C) : C[c].parent_manager = m}
              = {c \in Made(B) : B[c].parent_manager = m} \cup {b}
        BY <1>3, <1>6, <1>10, <1>13
      <3> QED
        BY <1>11, <2>1, <2>3, <3>2, <3>3
    <2> QED
      BY <2>2, <2>3
  <1>15. PageInv(f \ P, o \cup P, C)
    <2>1. Block(b, C[b].order) = P
      BY <1>3, <1>6 DEF P
    <2>2. o = UNION {Block(c, B[c].order) : c \in Made(B)}
      BY <1>1 DEF PageInv
    <2>3. UNION {Block(c, C[c].order) : c \in Made(C)} = o \cup P
      BY <1>10, <1>13, <2>1, <2>2
    <2>4. \A c \in Made(B) : Block(c, C[c].order) \cap P = {}
      BY <1>8, <1>13, <2>2
    <2>5. \A c, d \in Made(B) : c = d \/ Block(c, C[c].order) \cap Block(d, C[d].order) = {}
      BY <1>1, <1>13 DEF PageInv
    <2>6. \A c, d \in Made(C) : c = d \/ Block(c, C[c].order) \cap Block(d, C[d].order) = {}
      BY <1>10, <2>1, <2>4, <2>5
    <2>7. f \ P = Pages!Page \ (o \cup P)
      BY <1>1 DEF PageInv
    <2> QED
      BY <2>3, <2>6, <2>7 DEF PageInv
  <1>16. LiveInv(C, L)
    BY <1>1, <1>3, <1>6, <1>10, <1>13 DEF LiveInv
  <1>17. \A c \in Made(C) : Whole(c, C[c])
    BY <1>1, <1>5, <1>6, <1>10, <1>13
  <1>18. o \cup P \subseteq Pages!Page
    BY <1>1, <1>8
  <1>19. Books(f \ P, o \cup P, cs, C, L)
    BY <1>1, <1>6, <1>12, <1>14, <1>15, <1>16, <1>17, <1>18 DEF Books
  <1> QED
    BY <1>9, <1>10, <1>19 DEF C, P, cs, t

\* kmem_object_free_block: a block without objects goes, and its pages are free.
LEMMA CutBlock ==
    ASSUME NEW f, NEW o, NEW bs, NEW B, NEW L, Books(f, o, bs, B, L),
           NEW b \in Made(B), B[b].allocated_slots = {},
           NEW m, m = B[b].parent_manager, NEW P, P = Block(b, B[b].order)
    PROVE  Books(f \cup P, o \ P, [bs EXCEPT ![m] = Disconnected(@, b)],
                 [B EXCEPT ![b] = NULL], L)
  <1> DEFINE C == [B EXCEPT ![b] = NULL]
             cs == [bs EXCEPT ![m] = Disconnected(@, b)]
  <1>1. /\ B \in [Pages!Page -> BlockType \cup {NULL}] /\ bs \in [Mgr -> Seq(Pages!Page)]
        /\ L \subseteq [addr : Nat, size : Nat] /\ o \subseteq Pages!Page
        /\ ListInv(bs, B) /\ PageInv(f, o, B) /\ LiveInv(B, L)
        /\ \A c \in Made(B) : Whole(c, B[c])
    BY DEF Books
  <1>2. b \in Pages!Page /\ B[b] \in BlockType /\ m \in Mgr
    BY <1>1, MadeType, Fields
  <1>3. /\ C \in [Pages!Page -> BlockType \cup {NULL}]
        /\ C[b] = NULL /\ \A c \in Pages!Page : c # b => C[c] = B[c]
    BY <1>1, <1>2
  <1>4. Made(C) = Made(B) \ {b}
    BY <1>3 DEF Made
  <1>5. \A c \in Made(C) : C[c] = B[c]
    BY <1>3, <1>4 DEF Made
  <1>6. IsInjective(bs[m]) /\ Range(bs[m]) = {c \in Made(B) : B[c].parent_manager = m}
    BY <1>1, <1>2 DEF ListInv
  <1>7. PICK i \in DOMAIN bs[m] : /\ Disconnected(bs[m], b) = Unlinked(bs[m], i)
                                  /\ bs[m][i] = b
    <2>1. b \in Range(bs[m])
      BY <1>6
    <2>2. \E i \in DOMAIN bs[m] : bs[m][i] = b
      BY <2>1 DEF Range
    <2> DEFINE i == CHOOSE i \in DOMAIN bs[m] : bs[m][i] = b
    <2>3. i \in DOMAIN bs[m] /\ bs[m][i] = b
      BY <2>2
    <2>4. Disconnected(bs[m], b) = Unlinked(bs[m], i)
      BY DEF Disconnected
    <2> HIDE DEF i
    <2> QED
      BY <2>3, <2>4
  <1>8. /\ cs[m] = Unlinked(bs[m], i) /\ (\A n \in Mgr : n # m => cs[n] = bs[n])
    BY <1>1, <1>2, <1>7
  <1>9. bs[m] \in Seq(Pages!Page)
    BY <1>1, <1>2
  <1>10. /\ Range(Unlinked(bs[m], i)) = Range(bs[m]) \ {bs[m][i]}
         /\ IsInjective(Unlinked(bs[m], i)) /\ Unlinked(bs[m], i) \in Seq(Pages!Page)
    BY <1>6, <1>9, Unlink, UnlinkSeq
  <1>11. cs \in [Mgr -> Seq(Pages!Page)]
    BY <1>1, <1>2, <1>7, <1>10
  <1> HIDE DEF C, cs
  <1>12. ListInv(cs, C)
    <2> SUFFICES ASSUME NEW n \in Mgr
                 PROVE  /\ IsInjective(cs[n])
                        /\ Range(cs[n]) = {c \in Made(C) : C[c].parent_manager = n}
      BY DEF ListInv
    <2>1. IsInjective(bs[n]) /\ Range(bs[n]) = {c \in Made(B) : B[c].parent_manager = n}
      BY <1>1 DEF ListInv
    <2>2. CASE n # m
      BY <1>4, <1>5, <1>8, <2>1, <2>2
    <2>3. CASE n = m
      <3>1. {c \in Made(C) : C[c].parent_manager = m}
              = {c \in Made(B) : B[c].parent_manager = m} \ {b}
        BY <1>4, <1>5
      <3> QED
        BY <1>6, <1>7, <1>8, <1>10, <2>3, <3>1
    <2> QED
      BY <2>2, <2>3
  <1>13. PageInv(f \cup P, o \ P, C)
    <2>1. o = UNION {Block(c, B[c].order) : c \in Made(B)}
      BY <1>1 DEF PageInv
    <2>2. P \subseteq o
      BY <2>1
    <2>3. \A c \in Made(C) : Block(c, C[c].order) \cap P = {}
      BY <1>1, <1>4, <1>5 DEF PageInv
    <2>4. UNION {Block(c, C[c].order) : c \in Made(C)} = o \ P
      <3>1. ASSUME NEW p \in o \ P PROVE p \in UNION {Block(c, C[c].order) : c \in Made(C)}
        <4>1. PICK c \in Made(B) : p \in Block(c, B[c].order)
          BY <2>1, <3>1
        <4>2. c \in Made(C) /\ C[c] = B[c]
          BY <1>4, <1>5, <3>1, <4>1
        <4> QED
          BY <4>1, <4>2
      <3>2. ASSUME NEW c \in Made(C), NEW p \in Block(c, C[c].order) PROVE p \in o \ P
        <4>1. c \in Made(B) /\ C[c] = B[c]
          BY <1>4, <1>5
        <4> QED
          BY <2>1, <2>3, <4>1
      <3> QED
        BY <3>1, <3>2
    <2>5. \A c, d \in Made(C) : c = d \/ Block(c, C[c].order) \cap Block(d, C[d].order) = {}
      BY <1>1, <1>4, <1>5 DEF PageInv
    <2>6. f \cup P = Pages!Page \ (o \ P)
      BY <1>1, <2>2 DEF PageInv
    <2> QED
      BY <2>4, <2>5, <2>6 DEF PageInv
  <1>14. LiveInv(C, L)
    <2>1. \A x \in L : \E c \in Made(C) : Holds(C[c], x)
      <3> SUFFICES ASSUME NEW x \in L PROVE \E c \in Made(C) : Holds(C[c], x)
        OBVIOUS
      <3>1. PICK c \in Made(B) : Holds(B[c], x)
        BY <1>1 DEF LiveInv
      <3>2. c # b
        BY <3>1 DEF Holds
      <3> QED
        BY <1>4, <1>5, <3>1, <3>2
    <2> QED
      BY <1>1, <1>4, <1>5, <2>1 DEF LiveInv
  <1>15. \A c \in Made(C) : Whole(c, C[c])
    BY <1>1, <1>4, <1>5
  <1>16. o \ P \subseteq Pages!Page
    BY <1>1
  <1>17. Books(f \cup P, o \ P, cs, C, L)
    BY <1>1, <1>3, <1>11, <1>12, <1>13, <1>14, <1>15, <1>16 DEF Books
  <1> QED
    BY <1>17 DEF C, cs

\* kmem_object_free: an object less.
LEMMA FreeBooks ==
    ASSUME NEW f, NEW o, NEW bs, NEW B, NEW L, Books(f, o, bs, B, L),
           NEW b \in Made(B), NEW x \in L, NEW s, s = x.addr - SlotHeader,
           s \in B[b].allocated_slots
    PROVE  Books(f, o, bs, [B EXCEPT ![b] = SlotFreed(@, s)], L \ {x})
  <1> DEFINE t == SlotFreed(B[b], s)
             C == [B EXCEPT ![b] = t]
  <1>1. /\ B \in [Pages!Page -> BlockType \cup {NULL}] /\ bs \in [Mgr -> Seq(Pages!Page)]
        /\ L \subseteq [addr : Nat, size : Nat] /\ o \subseteq Pages!Page
        /\ ListInv(bs, B) /\ PageInv(f, o, B) /\ LiveInv(B, L)
        /\ \A c \in Made(B) : Whole(c, B[c])
    BY DEF Books
  <1>2. B[b] \in BlockType /\ b \in Pages!Page
    BY <1>1, MadeType
  <1>3. Whole(b, t) /\ B[b].used > 0
    BY <1>1, <1>2, FreeWhole
  <1>4. /\ t \in BlockType /\ t.parent_manager = B[b].parent_manager /\ t.order = B[b].order
        /\ t.allocated_slots = B[b].allocated_slots \ {s}
    BY <1>2, <1>3, FreedFields
  <1> HIDE DEF t
  <1>5. /\ C \in [Pages!Page -> BlockType \cup {NULL}] /\ Made(C) = Made(B)
        /\ C[b] = t /\ \A c \in Pages!Page : c # b => C[c] = B[c]
        /\ ListInv(bs, C) /\ PageInv(f, o, C)
    BY <1>1, <1>4, SameShape
  <1>6. \A c \in Made(C) : Whole(c, C[c])
    BY <1>1, <1>3, <1>5 DEF Made
  <1> HIDE DEF C
  <1>7. x.addr \in Nat /\ \A y \in L : y.addr \in Nat
    BY <1>1
  <1>8. ASSUME NEW y \in L \ {x} PROVE \E c \in Made(C) : Holds(C[c], y)
    <2>1. PICK c \in Made(B) : Holds(B[c], y)
      BY <1>1, <1>8 DEF LiveInv
    <2>2. y.addr # x.addr
      BY <1>1, <1>8 DEF LiveInv
    <2>3. y.addr - SlotHeader # s
      <3> DEFINE p == y.addr
                 q == x.addr
      <3>1. p \in Nat /\ q \in Nat /\ p # q /\ s = q - SlotHeader /\ SlotHeader \in Nat
        BY <1>7, <1>8, <2>2, Sizes
      <3> HIDE DEF p, q
      <3>2. p - SlotHeader # s
        BY <3>1, SMT
      <3> QED
        BY <3>2 DEF p
    <2>4. Holds(C[c], y)
      BY <1>4, <1>5, <2>1, <2>3 DEF Holds, Made
    <2> QED
      BY <1>5, <2>4
  <1>9. ASSUME NEW c \in Made(C), NEW q \in C[c].allocated_slots
        PROVE  \E y \in L \ {x} : y.addr = q + SlotHeader
    <2>1. q \in B[c].allocated_slots /\ c \in Made(B) /\ (c = b => q # s)
      BY <1>4, <1>5, <1>9 DEF Made
    <2>2. PICK y \in L : y.addr = q + SlotHeader
      BY <1>1, <2>1 DEF LiveInv
    <2>3. q \in Slots(B, c) /\ s \in Slots(B, b)
      BY <1>1, <2>1 DEF Whole, Slots
    <2>4. q # s
      <3>1. ASSUME NEW d \in Made(B), NEW e \in Made(B), NEW z \in Slots(B, d), z \in Slots(B, e)
            PROVE  d = e
        BY <1>1, <3>1, OneBlock
      <3> QED
        BY <2>1, <2>3, <3>1
    <2>5. q \in Nat
      <3>1. B[c].allocated_slots \in SUBSET Nat
        BY <1>1, <2>1, MadeType, Fields
      <3> QED
        BY <2>1, <3>1
    <2>6. y.addr # x.addr
      <3> DEFINE a == x.addr
      <3>1. a \in Nat /\ s = a - SlotHeader /\ SlotHeader \in Nat
        BY <1>7, Sizes
      <3> HIDE DEF a
      <3>2. q + SlotHeader # a
        BY <2>4, <2>5, <3>1, SMT
      <3> QED
        BY <2>2, <3>2 DEF a
    <2> QED
      BY <2>2, <2>6
  <1>10. LiveInv(C, L \ {x})
    BY <1>1, <1>8, <1>9 DEF LiveInv
  <1>11. L \ {x} \subseteq [addr : Nat, size : Nat]
    BY <1>1
  <1>12. Books(f, o, bs, C, L \ {x})
    BY <1>1, <1>5, <1>6, <1>10, <1>11 DEF Books
  <1> QED
    BY <1>12 DEF C, t

-----------------------------------------------------------------------------
(* What the operators compute *)

\* The page allocator counts in the same blocks.
LEMMA SameBlocks ==
    /\ Pages!Pow2 = Pow2 /\ \A p, k : Pages!Block(p, k) = Block(p, k)
  <1>1. Pages!Pow2 = Pow2
    BY DEF Pages!Pow2, Pow2
  <1> QED
    BY <1>1 DEF Pages!Block, Block

\* The n steps of H from a.
Steps(H, n, X) == H \in [1 .. n -> [X -> X]]
Walks(g, a, n, H, X) ==
    g \in [0 .. n -> X] /\ g[0] = a /\ \A i \in 1 .. n : g[i] = H[i][g[i - 1]]

\* A walk along a list defines something at every step.
LEMMA Walk ==
    ASSUME NEW X, NEW a \in X, NEW n \in Nat, NEW H, Steps(H, n, X)
    PROVE  \E g : Walks(g, a, n, H, X)
  <1> DEFINE K == [i \in Nat |-> IF i + 1 \in 1 .. n THEN H[i + 1] ELSE [x \in X |-> x]]
  <1>1. K \in [Nat -> [X -> X]]
    BY DEF Steps
  <1>2. PICK f \in [Nat -> X] : Follows(f, a, K)
    BY <1>1, Recursion
  <1>3. f[0] = a /\ \A i \in Nat : f[i + 1] = K[i][f[i]]
    BY <1>2 DEF Follows
  <1> DEFINE g == [i \in 0 .. n |-> f[i]]
  <1>4. 0 \in 0 .. n /\ \A i \in 0 .. n : i \in Nat
    BY SMT
  <1>5. g \in [0 .. n -> X] /\ g[0] = a
    BY <1>3, <1>4
  <1>6. ASSUME NEW i \in 1 .. n PROVE g[i] = H[i][g[i - 1]]
    <2>1. i \in 0 .. n /\ i - 1 \in 0 .. n /\ i - 1 \in Nat /\ (i - 1) + 1 = i
      BY SMT
    <2>2. K[i - 1] = H[i]
      BY <2>1
    <2>3. f[(i - 1) + 1] = K[i - 1][f[i - 1]]
      BY <1>3, <2>1
    <2> HIDE DEF K
    <2> QED
      BY <2>1, <2>2, <2>3
  <1>7. Walks(g, a, n, H, X)
    BY <1>5, <1>6 DEF Walks
  <1> QED
    BY <1>7

\* What holds at the beginning and is kept at every step holds all along.
LEMMA Along ==
    ASSUME NEW X, NEW n \in Nat, NEW g, g[0] \in X,
           \A i \in 1 .. n : g[i - 1] \in X => g[i] \in X
    PROVE  \A i \in 0 .. n : g[i] \in X
  <1> DEFINE S == {i \in Nat : i <= n => g[i] \in X}
  <1>1. 0 \in S
    OBVIOUS
  <1>2. ASSUME NEW i \in Nat, i \in S PROVE i + 1 \in S
    <2> SUFFICES ASSUME i + 1 <= n PROVE g[i + 1] \in X
      BY SMT
    <2>1. i + 1 \in 1 .. n /\ (i + 1) - 1 = i /\ i <= n
      BY SMT
    <2>2. g[i] \in X
      BY <1>2, <2>1
    <2> QED
      BY <2>1, <2>2
  <1> HIDE DEF S
  <1>3. \A i \in Nat : i \in S
    BY <1>1, <1>2, Induct
  <1>4. \A i \in 0 .. n : i \in Nat /\ i <= n
    BY SMT
  <1> QED
    BY <1>3, <1>4 DEF S

\* The managers that are large enough for an object.
Large(size) == {m \in Mgr : object_size(m) >= size}

\* kmem_alloc asks only managers whose objects are large enough.
LEMMA SuitableLarge ==
    ASSUME uni_managers \in Seq(Mgr), NEW size \in Nat
    PROVE  Suitable(size) \in Seq(Large(size))
  <1> DEFINE n == Len(uni_managers)
             X == Seq(Large(size))
             Step(i, x) == IF object_size(uni_managers[i]) >= size
                           THEN Append(x, uni_managers[i]) ELSE x
             Fits(g) == g = [i \in 0 .. n |-> IF i = 0 THEN <<>>
                                              ELSE IF object_size(uni_managers[i]) >= size
                                              THEN Append(g[i - 1], uni_managers[i])
                                              ELSE g[i - 1]]
             ask == CHOOSE g : Fits(g)
             H == [i \in 1 .. n |-> [x \in X |-> Step(i, x)]]
  <1>1. Suitable(size) = ask[n]
    BY DEF Suitable
  <1>2. n \in Nat /\ \A i \in 1 .. n : uni_managers[i] \in Mgr
    BY SMT
  <1>3. ASSUME NEW i \in 1 .. n, NEW x \in X PROVE Step(i, x) \in X
    <2>1. CASE object_size(uni_managers[i]) >= size
      <3>1. uni_managers[i] \in Large(size)
        BY <1>2, <2>1 DEF Large
      <3>2. Append(x, uni_managers[i]) \in X
        BY <3>1, SMT
      <3> QED
        BY <2>1, <3>2
    <2> QED
      BY <2>1
  <1>4. <<>> \in X
    BY SMT
  <1> HIDE DEF X, n
  <1>5. \E g : Fits(g)
    <2>1. Steps(H, n, X)
      BY <1>3 DEF Steps
    <2> DEFINE a == <<>>
    <2>0. a \in X
      BY <1>4
    <2> HIDE DEF H, a
    <2>2. PICK g : Walks(g, a, n, H, X)
      BY <1>2, <2>0, <2>1, Walk
    <2>3. ASSUME NEW i \in 0 .. n, i # 0 PROVE g[i] = Step(i, g[i - 1])
      <3>1. i \in 1 .. n /\ i - 1 \in 0 .. n
        BY <1>2, <2>3, SMT
      <3>2. g[i] = H[i][g[i - 1]] /\ g[i - 1] \in X
        BY <2>2, <3>1 DEF Walks
      <3> QED
        BY <3>1, <3>2 DEF H
    <2>4. g = [i \in 0 .. n |-> IF i = 0 THEN <<>> ELSE Step(i, g[i - 1])]
      BY <2>2, <2>3 DEF a, Walks
    <2> QED
      BY <2>4
  <1>6. ask = [i \in 0 .. n |-> IF i = 0 THEN <<>> ELSE Step(i, ask[i - 1])]
    BY <1>5
  <1> HIDE DEF ask, Fits, H
  <1>7. 0 \in 0 .. n /\ n \in 0 .. n
    BY <1>2, SMT
  <1>8. ask[0] \in X
    BY <1>4, <1>6, <1>7
  <1>9. ASSUME NEW i \in 1 .. n, ask[i - 1] \in X PROVE ask[i] \in X
    <2>1. i \in 0 .. n /\ i # 0
      BY SMT
    <2>2. ask[i] = Step(i, ask[i - 1])
      BY <1>6, <2>1
    <2>3. Step(i, ask[i - 1]) \in X
      BY <1>3, <1>9
    <2> HIDE DEF Step
    <2> QED
      BY <2>2, <2>3
  <1>10. \A i \in 0 .. n : ask[i] \in X
    BY <1>2, <1>8, <1>9, Along
  <1> QED
    BY <1>1, <1>7, <1>10 DEF X

\* The sum of the bytes in use is a number, and zero without a block.
LEMMA SumIsNumber ==
    ASSUME NEW m \in Mgr, blocks[m] \in Seq(Pages!Page),
           \A i \in DOMAIN blocks[m] : blk[blocks[m][i]].used \in Nat
    PROVE  allocated_sum(m) \in Nat /\ (blocks[m] = <<>> => allocated_sum(m) = 0)
  <1> DEFINE n == Len(blocks[m])
             w(i) == blk[blocks[m][i]].used * unit_size(m)
             Fits(g) == g = [i \in 0 .. n |->
                               IF i = 0 THEN 0
                               ELSE g[i - 1] + blk[blocks[m][i]].used * unit_size(m)]
             sum == CHOOSE g : Fits(g)
             H == [i \in 1 .. n |-> [x \in Nat |-> x + w(i)]]
  <1>1. allocated_sum(m) = sum[n]
    BY DEF allocated_sum
  <1>2. n \in Nat /\ DOMAIN blocks[m] = 1 .. n /\ (blocks[m] = <<>> => n = 0) /\ 0 \in Nat
    BY SMT
  <1>3. ASSUME NEW i \in 1 .. n, NEW x \in Nat PROVE x + w(i) \in Nat
    <2>1. blk[blocks[m][i]].used \in Nat /\ unit_size(m) \in Nat
      BY <1>2, ManagerSizes
    <2>2. \A p, q \in Nat : p * q \in Nat /\ p + q \in Nat
      BY SMT
    <2> QED
      BY <2>1, <2>2
  <1> HIDE DEF n
  <1>4. \E g : Fits(g)
    <2>1. Steps(H, n, Nat)
      BY <1>3 DEF Steps
    <2> DEFINE a == 0
    <2>0. a \in Nat
      BY <1>2
    <2> HIDE DEF H, a
    <2>2. PICK g : Walks(g, a, n, H, Nat)
      BY <1>2, <2>0, <2>1, Walk
    <2>3. ASSUME NEW i \in 0 .. n, i # 0 PROVE g[i] = g[i - 1] + w(i)
      <3>1. i \in 1 .. n /\ i - 1 \in 0 .. n
        BY <1>2, <2>3, SMT
      <3>2. g[i] = H[i][g[i - 1]] /\ g[i - 1] \in Nat
        BY <2>2, <3>1 DEF Walks
      <3> QED
        BY <3>1, <3>2 DEF H
    <2>4. g = [i \in 0 .. n |-> IF i = 0 THEN 0 ELSE g[i - 1] + w(i)]
      BY <2>2, <2>3 DEF a, Walks
    <2> QED
      BY <2>4
  <1>5. sum = [i \in 0 .. n |-> IF i = 0 THEN 0 ELSE sum[i - 1] + w(i)]
    BY <1>4
  <1> HIDE DEF sum, Fits, H
  <1>6. 0 \in 0 .. n /\ n \in 0 .. n
    BY <1>2, SMT
  <1>7. sum[0] = 0
    BY <1>5, <1>6
  <1>8. ASSUME NEW i \in 1 .. n, sum[i - 1] \in Nat PROVE sum[i] \in Nat
    <2>1. i \in 0 .. n /\ i # 0
      BY SMT
    <2>2. sum[i] = sum[i - 1] + w(i)
      BY <1>5, <2>1
    <2>3. sum[i - 1] + w(i) \in Nat
      BY <1>3, <1>8
    <2> HIDE DEF w
    <2> QED
      BY <2>2, <2>3
  <1>9. \A i \in 0 .. n : sum[i] \in Nat
    BY <1>2, <1>7, <1>8, Along
  <1> QED
    BY <1>1, <1>2, <1>6, <1>7, <1>9

\* A larger block has room for as much as a smaller one.
LEMMA CapacityGrows ==
    ASSUME NEW j \in Pages!Orders, NEW k \in Pages!Orders, j <= k
    PROVE  Capacity(j) \in Int /\ Capacity(k) \in Int /\ Capacity(j) <= Capacity(k)
  <1> DEFINE p == Pow2[j]
             q == Pow2[k]
             r == RoundUp(0 * PageSize + BlockHeader)
             C == Capacity(j)
             D == Capacity(k)
  <1>1. p \in Nat /\ q \in Nat /\ j \in Nat /\ k \in Nat /\ PageSize \in Nat
    BY Sizes
  <1>2. 0 \in Nat
    BY SMT
  <1>3. /\ C \in Int /\ D \in Int /\ r \in Int
        /\ (0 + p) * PageSize - r = C /\ (0 + q) * PageSize - r = D
    BY <1>2, Room
  <1>4. p <= q
    <2>1. PICK c \in Nat : c > 0 /\ Pow2[k] = c * Pow2[j]
      BY <1>1, PowTimes
    <2>2. \A a, b \in Nat : a > 0 => b <= a * b
      BY SMT
    <2> QED
      BY <1>1, <2>1, <2>2
  <1> HIDE DEF p, q, r, C, D
  <1>5. p \in Int /\ q \in Int /\ 0 + p = p /\ 0 + q = q
    BY <1>1, SMT
  <1>6. p * PageSize <= q * PageSize /\ p * PageSize \in Int /\ q * PageSize \in Int
    BY <1>1, <1>4, <1>5, TimesMono
  <1> DEFINE v == p * PageSize
             w == q * PageSize
  <1>7. v <= w /\ v \in Int /\ w \in Int /\ v - r = C /\ w - r = D
    BY <1>3, <1>5, <1>6
  <1> HIDE DEF v, w
  <1>8. C <= D
    BY <1>3, <1>7, SMT
  <1> QED
    BY <1>3, <1>8 DEF C, D

\* kmem_object_create_block begins with an order that has room for an object; with
\* the smallest one when nothing is in use and four objects fit.
LEMMA NextOrderRoom ==
    ASSUME NEW m \in Mgr, allocated_sum(m) \in Nat
    PROVE  /\ NextOrder(m) \in Pages!Orders /\ HasRoom(NextOrder(m), m)
           /\ allocated_sum(m) = 0 /\ Capacity(0) > 4 * unit_size(m) => NextOrder(m) = 0
  <1> DEFINE u == unit_size(m)
             sum == allocated_sum(m)
             goal == IF sum < 4 * u THEN 4 * u ELSE sum
             fits == {o \in Pages!Orders : o + 1 = MaxOrder \/ Capacity(o) > goal}
             o == CHOOSE o \in fits : \A p \in fits : o <= p
  <1>1. u \in Nat /\ u > 0 /\ sum \in Nat
    BY ManagerSizes
  <1> HIDE DEF u, sum
  <1>2. goal \in Nat /\ goal >= u /\ (sum = 0 => goal = 4 * u)
    BY <1>1, SMT
  <1>3. NextOrder(m) = o
    BY DEF NextOrder, u, sum
  <1> HIDE DEF goal
  <1>4. 0 \in Pages!Orders /\ MaxOrder - 1 \in Pages!Orders /\ (MaxOrder - 1) + 1 = MaxOrder
        /\ MaxOrder \in Nat
    BY Sizes, SMT
  <1>5. fits \in SUBSET Nat /\ fits # {}
    BY <1>4, Sizes
  <1>6. o \in fits /\ \A p \in fits : o <= p
    <2> HIDE DEF fits
    <2>1. \E x \in fits : \A p \in fits : x <= p
      BY <1>5, Least
    <2> QED
      BY <2>1
  <1> HIDE DEF o
  <1>7. o \in Pages!Orders /\ o \in Nat /\ (o + 1 = MaxOrder \/ Capacity(o) > goal)
    BY <1>6, Sizes
  <1>8. HasRoom(o, m)
    <2>1. CASE o + 1 = MaxOrder
      <3>1. o = MaxOrder - 1
        BY <1>4, <1>7, <2>1, SMT
      <3> QED
        BY <3>1, ManagersAssumption
    <2>2. CASE Capacity(o) > goal
      <3> DEFINE C == Capacity(o)
      <3>1. C \in Int
        BY <1>4, <1>7, Room, Sizes
      <3> HIDE DEF C
      <3>2. C > goal
        BY <2>2 DEF C
      <3>3. C >= u
        BY <1>1, <1>2, <3>1, <3>2, SMT
      <3> QED
        BY <3>3 DEF C, u, HasRoom
    <2> QED
      BY <1>7, <2>1, <2>2
  <1>9. ASSUME sum = 0, Capacity(0) > 4 * u PROVE o = 0
    <2>1. 0 \in fits
      BY <1>2, <1>4, <1>9
    <2>2. o <= 0
      BY <1>6, <2>1
    <2> QED
      BY <1>7, <2>2, SMT
  <1> QED
    BY <1>3, <1>7, <1>8, <1>9 DEF sum, u

\* An order with room below which there is none is the least one.
LEMMA LeastOrder ==
    ASSUME NEW m \in Mgr, NEW ord \in Pages!Orders, HasRoom(ord, m),
           ord > 0 => ~HasRoom(ord - 1, m)
    PROVE  MinOrder(m) = ord
  <1> DEFINE u == unit_size(m)
             Is(o) == Capacity(o) >= u /\ (o = 0 \/ Capacity(o - 1) < u)
  <1>1. u \in Nat /\ ord \in Nat /\ \A o \in Pages!Orders : o \in Nat
    BY ManagerSizes, Sizes
  <1>2. \A o \in Pages!Orders : o # 0 => o - 1 \in Pages!Orders
    BY Sizes, SMT
  <1>3. \A o \in Pages!Orders : Capacity(o) \in Int
    <2>1. 0 \in Nat
      BY SMT
    <2> QED
      BY <2>1, Room
  <1>4. MinOrder(m) = CHOOSE o \in Pages!Orders : Is(o)
    BY DEF MinOrder
  <1>5. \A c \in Int : c >= u \/ c < u
    BY <1>1, SMT
  <1> HIDE DEF u
  <1>6. Is(ord)
    <2>1. ord = 0 \/ ord > 0
      BY <1>1, SMT
    <2> QED
      BY <1>2, <1>3, <1>5, <2>1 DEF HasRoom, u
  <1>7. ASSUME NEW o \in Pages!Orders, Is(o), NEW p \in Pages!Orders, Is(p), o < p PROVE FALSE
    <2>1. p # 0 /\ o <= p - 1
      BY <1>1, <1>7, SMT
    <2>2. Capacity(o) <= Capacity(p - 1)
      BY <1>2, <2>1, CapacityGrows
    <2>3. Capacity(o) >= u /\ Capacity(p - 1) < u
      BY <1>7, <2>1
    <2> DEFINE C == Capacity(o)
               D == Capacity(p - 1)
    <2>4. C \in Int /\ D \in Int /\ C <= D /\ C >= u /\ D < u
      BY <1>2, <1>3, <2>1, <2>2, <2>3
    <2> HIDE DEF C, D
    <2> QED
      BY <1>1, <2>4, SMT
  <1>8. ASSUME NEW o \in Pages!Orders, Is(o) PROVE o = ord
    <2>1. o \in Nat
      BY <1>1
    <2>2. o < ord \/ ord < o \/ o = ord
      BY <1>1, <2>1, SMT
    <2> HIDE DEF Is
    <2> QED
      BY <1>6, <1>7, <1>8, <2>2
  <1> HIDE DEF Is
  <1> QED
    BY <1>4, <1>6, <1>8

-----------------------------------------------------------------------------
(* The inductive invariant *)

\* The types of what the books say nothing about.
StateType ==
    /\ created \subseteq Mgr /\ uni_managers \in Seq(Mgr)
    /\ lock \in [Mgr -> Harts \cup {NULL}]
    /\ call \in [Harts -> CallType]
    /\ boot \in 1 .. Len(BootScript) + 1
    /\ failed \in BOOLEAN

\* A call asks managers with objects that are large enough, tries orders with room
\* for an object, and gives back a block that has none in use.
Sound(c, B) ==
    /\ c.at \in {"scan", "grow"} => c.todo \in Seq(Large(c.size))
    /\ c.at = "grow" => HasRoom(c.ord, Head(c.todo))
    /\ c.at = "reclaim" => c.block \in Made(B) /\ B[c.block].allocated_slots = {}

\* While a block goes back no other hart is in the allocator.
Alone == \A h, i \in Harts : call[h].at = "reclaim" => i = h \/ call[i] = Idle

Inv ==
    /\ StateType
    /\ Books(free, owned, blocks, blk, live)
    /\ \A h \in Harts : Sound(call[h], blk)
    /\ Alone

LEMMA InvType == Inv => TypeOK
  <1> SUFFICES ASSUME Inv PROVE TypeOK
    OBVIOUS
  <1>1. free \subseteq Pages!Page
    BY DEF Inv, Books, PageInv
  <1> QED
    BY <1>1 DEF Inv, Books, StateType, TypeOK

\* The calls of kmem_init.
LEMMA Script ==
    /\ Len(BootScript) \in Nat
    /\ \A i \in 1 .. Len(BootScript) : /\ BootScript[i].from \in {Root, Nodes}
                                       /\ BootScript[i].new \in Mgr \cup {NULL}
  <1> DEFINE n == Len(Universal)
             e(i) == IF i = 1 THEN [from |-> Root, new |-> Nodes]
                     ELSE IF i % 2 = 0 THEN [from |-> Nodes, new |-> NULL]
                     ELSE [from |-> Root, new |-> Universal[i \div 2]]
  <1>1. Universal \in Seq(Range(Universal))
    BY ManagersAssumption
  <1>2. n \in Nat /\ \A j \in 1 .. n : Universal[j] \in Range(Universal)
    BY <1>1, SMT
  <1>3. BootScript = [i \in 1 .. 1 + 2 * n |-> e(i)]
    BY DEF BootScript
  <1> HIDE DEF n
  <1>4. Len(BootScript) = 1 + 2 * n
    <2> HIDE DEF e
    <2> QED
      BY <1>2, <1>3, SMT
  <1>5. ASSUME NEW i \in 1 .. 1 + 2 * n
        PROVE  e(i).from \in {Root, Nodes} /\ e(i).new \in Mgr \cup {NULL}
    <2>1. i # 1 /\ i % 2 # 0 => i \div 2 \in 1 .. n
      BY <1>2, SMT
    <2>2. CASE i = 1
      BY <2>2 DEF Mgr
    <2>3. CASE i # 1 /\ i % 2 = 0
      BY <2>3
    <2>4. CASE i # 1 /\ i % 2 # 0
      BY <1>2, <2>1, <2>4 DEF Mgr
    <2> QED
      BY <2>2, <2>3, <2>4
  <1>6. ASSUME NEW i \in 1 .. Len(BootScript) PROVE BootScript[i] = e(i) /\ i \in 1 .. 1 + 2 * n
    BY <1>3, <1>4
  <1>7. Len(BootScript) \in Nat
    BY <1>2, <1>4, SMT
  <1> HIDE DEF e
  <1> QED
    BY <1>5, <1>6, <1>7

\* The fields of a call.
LEMMA CallFields ==
    ASSUME NEW c \in CallType
    PROVE  /\ c.at \in {"idle", "scan", "grow", "reclaim"}
           /\ c = Idle <=> c.at = "idle"
           /\ c.at \in {"scan", "grow"} =>
                 c.todo \in Todo /\ c.size \in Nat /\ c.new \in Mgr \cup {NULL}
           /\ c.at = "grow" => c.ord \in Pages!Orders
           /\ c.at = "reclaim" => c.block \in Pages!Page
  <1>0. Idle.at = "idle"
    BY DEF Idle
  <1>1. CASE c = Idle
    BY <1>0, <1>1
  <1>2. CASE c \in [at : {"scan"}, todo : Todo, size : Nat, new : Mgr \cup {NULL}]
    <2>1. c.at = "scan" /\ c.todo \in Todo /\ c.size \in Nat /\ c.new \in Mgr \cup {NULL}
      BY <1>2
    <2> QED
      BY <1>0, <2>1
  <1>3. CASE c \in [at : {"grow"}, ord : Pages!Orders, todo : Todo, size : Nat, new : Mgr \cup {NULL}]
    <2>1. /\ c.at = "grow" /\ c.todo \in Todo /\ c.size \in Nat /\ c.new \in Mgr \cup {NULL}
          /\ c.ord \in Pages!Orders
      BY <1>3
    <2> QED
      BY <1>0, <2>1
  <1>4. CASE c \in [at : {"reclaim"}, block : Pages!Page]
    <2>1. c.at = "reclaim" /\ c.block \in Pages!Page
      BY <1>4
    <2> QED
      BY <1>0, <2>1
  <1> QED
    BY <1>1, <1>2, <1>3, <1>4 DEF CallType

\* kmem_object_alloc returns an object.
LEMMA ReturnType ==
    ASSUME StateType, NEW h \in Harts, call[h].at \in {"scan", "grow"}, NEW a, Return(h, a)
    PROVE  /\ created' \subseteq Mgr /\ uni_managers' \in Seq(Mgr)
           /\ call' \in [Harts -> CallType] /\ call' = [call EXCEPT ![h] = Idle]
           /\ boot' \in 1 .. Len(BootScript) + 1
           /\ boot' = IF Booted THEN boot ELSE boot + 1
           /\ call[h].size \in Nat
           /\ live' = live \cup {[addr |-> a, size |-> call[h].size]}
  <1> DEFINE new == call[h].new
  <1>1. call[h] \in CallType
    BY DEF StateType
  <1>2. new \in Mgr \cup {NULL} /\ call[h].size \in Nat
    BY <1>1, CallFields
  <1>3. created' \subseteq Mgr
    BY <1>2 DEF Return, StateType
  <1>4. uni_managers' \in Seq(Mgr)
    <2>1. CASE new \in Range(Universal)
      <3>1. new \in Mgr /\ uni_managers \in Seq(Mgr)
        BY <2>1 DEF Mgr, StateType
      <3> HIDE DEF new
      <3>2. <<new>> \o uni_managers \in Seq(Mgr)
        BY <3>1, SMT
      <3> QED
        BY <2>1, <3>2 DEF Return, Listed, new
    <2> QED
      BY <2>1 DEF Return, StateType
  <1>5. boot' \in 1 .. Len(BootScript) + 1
    <2> DEFINE n == Len(BootScript)
    <2>1. n \in Nat /\ boot \in 1 .. n + 1
      BY Script DEF StateType
    <2>2. boot' = IF boot > n THEN boot ELSE boot + 1
      BY DEF Return, Booted
    <2> HIDE DEF n
    <2>3. boot' \in 1 .. n + 1
      BY <2>1, <2>2, SMT
    <2> QED
      BY <2>3 DEF n
  <1>6. call' = [call EXCEPT ![h] = Idle] /\ call' \in [Harts -> CallType]
    BY DEF Return, StateType, CallType
  <1> QED
    BY <1>2, <1>3, <1>4, <1>5, <1>6 DEF Return

\* A call that is over is sound.
LEMMA IdleSound == Idle \in CallType /\ Idle.at = "idle" /\ \A B : Sound(Idle, B)
  <1>1. Idle.at = "idle"
    BY DEF Idle
  <1> QED
    BY <1>1 DEF Sound, CallType

\* While a hart allocates nobody gives a block back.
LEMMA NoReclaim ==
    ASSUME Inv, NEW h \in Harts, call[h].at \in {"scan", "grow"}
    PROVE  \A i \in Harts : call[i].at # "reclaim"
  <1>1. call[h] # Idle
    BY IdleSound
  <1> QED
    BY <1>1 DEF Inv, Alone

\* A hart goes on with its call.
LEMMA CallStep ==
    ASSUME StateType, \A i \in Harts : Sound(call[i], blk) /\ call[i].at # "reclaim",
           NEW h \in Harts, NEW c \in CallType, c.at # "reclaim", NEW C, Sound(c, C),
           call' = [call EXCEPT ![h] = c]
    PROVE  /\ call' \in [Harts -> CallType]
           /\ \A i \in Harts : Sound(call'[i], C)
           /\ \A i \in Harts : call'[i].at # "reclaim"
  <1>1. call \in [Harts -> CallType]
    BY DEF StateType
  <1>2. call'[h] = c /\ \A i \in Harts : i # h => call'[i] = call[i]
    BY <1>1
  <1>3. call' \in [Harts -> CallType]
    BY <1>1
  <1>4. ASSUME NEW i \in Harts, i # h PROVE Sound(call[i], C)
    BY DEF Sound
  <1>5. \A i \in Harts : Sound(call'[i], C)
    BY <1>2, <1>4
  <1> QED
    BY <1>2, <1>3, <1>5

\* kmem_object_alloc_from_block keeps the invariant, and does not panic.
LEMMA TakeInv ==
    ASSUME Inv, NEW h \in Harts, call[h].at \in {"scan", "grow"},
           NEW f, NEW o, NEW bs, NEW B, Books(f, o, bs, B, live),
           NEW b \in Made(B), B[b].free_slots # <<>>,
           call[h].size <= object_size(B[b].parent_manager), TakeSlot(h, B, b),
           free' = f, owned' = o, blocks' = bs, lock' \in [Mgr -> Harts \cup {NULL}]
    PROVE  /\ Inv' /\ failed' = failed
           /\ call' = [call EXCEPT ![h] = Idle]
           /\ blk' = [B EXCEPT ![b] = SlotTaken(@)]
           /\ boot' = IF Booted THEN boot ELSE boot + 1
  <1> DEFINE a == Head(B[b].free_slots) + SlotHeader
  <1>1. blk' = [B EXCEPT ![b] = SlotTaken(@)] /\ Return(h, a) /\ failed' = failed
    BY DEF TakeSlot
  <1> HIDE DEF a
  <1>2. StateType
    BY DEF Inv
  <1>3. /\ created' \subseteq Mgr /\ uni_managers' \in Seq(Mgr)
        /\ call' = [call EXCEPT ![h] = Idle]
        /\ boot' \in 1 .. Len(BootScript) + 1
        /\ boot' = IF Booted THEN boot ELSE boot + 1
        /\ call[h].size \in Nat
        /\ live' = live \cup {[addr |-> a, size |-> call[h].size]}
    BY <1>1, <1>2, ReturnType
  <1>4. Books(free', owned', blocks', blk', live')
    <2>1. Books(f, o, bs, [B EXCEPT ![b] = SlotTaken(@)],
                live \cup {[addr |-> Head(B[b].free_slots) + SlotHeader, size |-> call[h].size]})
      BY <1>3, TakeBooks
    <2> QED
      BY <1>1, <1>3, <2>1 DEF a
  <1>5. \A i \in Harts : Sound(call[i], blk) /\ call[i].at # "reclaim"
    BY NoReclaim DEF Inv
  <1>6. /\ call' \in [Harts -> CallType]
        /\ \A i \in Harts : Sound(call'[i], blk')
        /\ \A i \in Harts : call'[i].at # "reclaim"
    BY <1>2, <1>3, <1>5, IdleSound, CallStep
  <1>7. StateType'
    BY <1>1, <1>2, <1>3, <1>6 DEF StateType
  <1>8. Inv'
    BY <1>4, <1>6, <1>7 DEF Inv, Alone
  <1> QED
    BY <1>1, <1>3, <1>8

\* The manager a call asks.
LEMMA Asked ==
    ASSUME Inv, NEW h \in Harts, call[h].at \in {"scan", "grow"}
    PROVE  /\ call[h] \in CallType /\ call[h].size \in Nat /\ call[h].new \in Mgr \cup {NULL}
           /\ call[h].todo \in Todo /\ call[h].todo \in Seq(Large(call[h].size))
           /\ Head(call[h].todo) \in Mgr
           /\ call[h].size <= object_size(Head(call[h].todo))
  <1>1. call[h] \in CallType /\ Sound(call[h], blk)
    BY DEF Inv, StateType
  <1>2. /\ call[h].size \in Nat /\ call[h].new \in Mgr \cup {NULL}
        /\ call[h].todo \in Todo /\ call[h].todo \in Seq(Large(call[h].size))
    BY <1>1, CallFields DEF Sound
  <1> DEFINE t == call[h].todo
             n == call[h].size
             m == Head(t)
  <1>3. t # <<>> /\ t \in Seq(Large(n))
    BY <1>2 DEF Todo
  <1> HIDE DEF t, n
  <1>4. m \in Large(n)
    BY <1>3, SMT
  <1> HIDE DEF m
  <1>5. m \in Mgr /\ object_size(m) >= n
    BY <1>4 DEF Large
  <1>6. n <= object_size(m)
    <2>1. n \in Nat /\ object_size(m) \in Nat
      BY <1>2, <1>5, ManagerSizes DEF n
    <2> QED
      BY <1>5, <2>1, SMT
  <1> QED
    BY <1>1, <1>2, <1>5, <1>6 DEF m, n, t

\* The block that kmem_object_alloc takes a slot of.
LEMMA First ==
    ASSUME Inv, NEW m \in Mgr, Available(m) # {}
    PROVE  LET b == FirstAvailable(m)
           IN  /\ b \in Made(blk) /\ blk[b].parent_manager = m /\ blk[b].free_slots # <<>>
  <1> DEFINE A == Available(m)
             i == CHOOSE i \in A : \A j \in A : i <= j
  <1>1. blocks[m] \in Seq(Pages!Page)
    BY DEF Inv, Books
  <1>2. DOMAIN blocks[m] \in SUBSET Nat
    BY <1>1, SMT
  <1>3. A \in SUBSET Nat /\ A # {}
    BY <1>2 DEF Available
  <1>4. i \in A
    <2> HIDE DEF A
    <2>1. \E x \in A : \A y \in A : x <= y
      BY <1>3, Least
    <2> QED
      BY <2>1
  <1>5. FirstAvailable(m) = blocks[m][i]
    BY DEF FirstAvailable
  <1> HIDE DEF i
  <1>6. i \in DOMAIN blocks[m] /\ blk[blocks[m][i]].free_slots # <<>>
    BY <1>4 DEF Available
  <1>7. blocks[m][i] \in Range(blocks[m])
    BY <1>6 DEF Range
  <1>8. blocks[m][i] \in Made(blk) /\ blk[blocks[m][i]].parent_manager = m
    BY <1>7 DEF Inv, Books, ListInv
  <1> QED
    BY <1>5, <1>6, <1>8

\* The bytes a manager has in use.
LEMMA SumType ==
    ASSUME Inv, NEW m \in Mgr
    PROVE  allocated_sum(m) \in Nat /\ (blocks[m] = <<>> => allocated_sum(m) = 0)
  <1>1. blocks[m] \in Seq(Pages!Page)
    BY DEF Inv, Books
  <1>2. ASSUME NEW i \in DOMAIN blocks[m] PROVE blk[blocks[m][i]].used \in Nat
    <2>1. blocks[m][i] \in Range(blocks[m])
      BY DEF Range
    <2>2. blocks[m][i] \in Made(blk) /\ blk \in [Pages!Page -> BlockType \cup {NULL}]
      BY <2>1 DEF Inv, Books, ListInv
    <2> QED
      BY <2>2, MadeType, Fields
  <1> QED
    BY <1>1, <1>2, SumIsNumber

\* kmem_object_alloc takes a slot, or starts to make a block.
LEMMA ScanInv ==
    ASSUME Inv, NEW h \in Harts, Scan(h)
    PROVE  LET m == Head(call[h].todo)
               b == FirstAvailable(m)
           IN  /\ Inv' /\ failed' = failed /\ blocks' = blocks
               /\ \/ /\ b \in Made(blk) /\ blk[b].free_slots # <<>>
                     /\ blk' = [blk EXCEPT ![b] = SlotTaken(@)]
                     /\ call' = [call EXCEPT ![h] = Idle]
                     /\ boot' = IF Booted THEN boot ELSE boot + 1
                  \/ /\ Available(m) = {} /\ UNCHANGED <<blk, boot>>
                     /\ call' = [call EXCEPT ![h] =
                          [at |-> "grow", ord |-> NextOrder(m), todo |-> call[h].todo,
                           size |-> call[h].size, new |-> call[h].new]]
  <1> DEFINE m == Head(call[h].todo)
             b == FirstAvailable(m)
  <1>1. call[h].at = "scan" /\ UNCHANGED pages
    BY DEF Scan
  <1>2. /\ call[h] \in CallType /\ call[h].size \in Nat /\ call[h].new \in Mgr \cup {NULL}
        /\ call[h].todo \in Todo /\ call[h].todo \in Seq(Large(call[h].size))
        /\ m \in Mgr /\ call[h].size <= object_size(m)
    BY <1>1, Asked
  <1>3. StateType /\ Books(free, owned, blocks, blk, live)
    BY DEF Inv
  <1>4. free' = free /\ owned' = owned
    BY <1>1 DEF pages
  <1>5. CASE Available(m) # {}
    <2>1. TakeSlot(h, blk, b) /\ lock' = lock /\ blocks' = blocks
      BY <1>5 DEF Scan
    <2>2. b \in Made(blk) /\ blk[b].parent_manager = m /\ blk[b].free_slots # <<>>
      BY <1>2, <1>5, First
    <2>3. lock' \in [Mgr -> Harts \cup {NULL}]
      BY <1>3, <2>1 DEF StateType
    <2> HIDE DEF b, m
    <2>4. /\ Inv' /\ failed' = failed
          /\ call' = [call EXCEPT ![h] = Idle]
          /\ blk' = [blk EXCEPT ![b] = SlotTaken(@)]
          /\ boot' = IF Booted THEN boot ELSE boot + 1
      BY <1>1, <1>2, <1>3, <1>4, <2>1, <2>2, <2>3, TakeInv
    <2> QED
      BY <2>1, <2>2, <2>4 DEF b, m
  <1>6. CASE Available(m) = {}
    <2> DEFINE o == NextOrder(m)
               c == [at |-> "grow", ord |-> o, todo |-> call[h].todo,
                     size |-> call[h].size, new |-> call[h].new]
    <2>1. /\ lock' = [lock EXCEPT ![m] = h] /\ call' = [call EXCEPT ![h] = c]
          /\ UNCHANGED <<blocks, blk, live, created, uni_managers, boot, failed>>
      BY <1>6 DEF Scan
    <2>2. o \in Pages!Orders /\ HasRoom(o, m)
      BY <1>2, SumType, NextOrderRoom
    <2> HIDE DEF o
    <2>3. c \in CallType
      BY <1>2, <2>2 DEF CallType
    <2>4. /\ c.at = "grow" /\ c.ord = o /\ c.todo = call[h].todo /\ c.size = call[h].size
      OBVIOUS
    <2> HIDE DEF c
    <2>5. Sound(c, blk')
      BY <1>2, <2>2, <2>4 DEF Sound
    <2>6. \A i \in Harts : Sound(call[i], blk) /\ call[i].at # "reclaim"
      BY <1>1, NoReclaim DEF Inv
    <2>7. /\ call' \in [Harts -> CallType]
          /\ \A i \in Harts : Sound(call'[i], blk')
          /\ \A i \in Harts : call'[i].at # "reclaim"
      BY <1>3, <2>1, <2>3, <2>4, <2>5, <2>6, CallStep
    <2>8. StateType'
      BY <1>2, <1>3, <2>1, <2>7 DEF StateType
    <2>9. Inv'
      BY <1>3, <1>4, <2>1, <2>7, <2>8 DEF Inv, Alone
    <2> QED
      BY <1>6, <2>1, <2>9 DEF c, o
  <1> QED
    BY <1>5, <1>6

\* A list of managers without its first one.
LEMMA RestOfTodo ==
    ASSUME NEW X \in SUBSET Mgr, NEW t \in Seq(X), t # <<>>, Len(t) # 1
    PROVE  Tail(t) \in Seq(X) /\ Tail(t) \in Todo
  <1>1. Tail(t) \in Seq(X) /\ Tail(t) # <<>>
    <2>1. Tail(t) \in Seq(X) /\ Len(Tail(t)) = Len(t) - 1 /\ Len(t) \in Nat /\ Len(t) # 0
      BY SMT
    <2>2. Len(Tail(t)) # 0 /\ Len(<<>>) = 0
      BY <2>1, SMT
    <2> QED
      BY <2>1, <2>2
  <1>2. Tail(t) \in Seq(Mgr)
    <2>1. \A s \in Seq(X) : (\A i \in 1 .. Len(s) : s[i] \in Mgr) => s \in Seq(Mgr)
      BY SMT
    <2>2. \A s \in Seq(X) : \A i \in 1 .. Len(s) : s[i] \in X
      BY SMT
    <2>3. \A x \in X : x \in Mgr
      OBVIOUS
    <2> QED
      BY <1>1, <2>1, <2>2, <2>3
  <1> QED
    BY <1>1, <1>2 DEF Todo

\* A call that waits for pages.
GrowType ==
    [at : {"grow"}, ord : Pages!Orders, todo : Todo, size : Nat, new : Mgr \cup {NULL}]

LEMMA InGrow ==
    ASSUME NEW c \in CallType, c.at = "grow"
    PROVE  c \in GrowType
  <1>1. c # Idle
    BY IdleSound
  <1>2. ASSUME c \in [at : {"scan"}, todo : Todo, size : Nat, new : Mgr \cup {NULL}] PROVE FALSE
    BY <1>2
  <1>3. ASSUME c \in [at : {"reclaim"}, block : Pages!Page] PROVE FALSE
    BY <1>3
  <1> QED
    BY <1>1, <1>2, <1>3 DEF CallType, GrowType

\* An attempt that failed is followed by a smaller one, by the next manager, or by NULL.
LEMMA RetryInv ==
    ASSUME Inv, NEW h \in Harts, call[h].at = "grow",
           Retry(h, Head(call[h].todo), call[h].ord),
           UNCHANGED <<free, owned, blocks, blk, live, created, uni_managers, boot>>
    PROVE  Inv'
  <1> DEFINE m == Head(call[h].todo)
             ord == call[h].ord
             t == call[h].todo
  <1>1. /\ call[h] \in CallType /\ call[h].size \in Nat /\ call[h].new \in Mgr \cup {NULL}
        /\ t \in Todo /\ t \in Seq(Large(call[h].size)) /\ m \in Mgr
    BY Asked
  <1>2. StateType /\ Books(free, owned, blocks, blk, live) /\ ord \in Pages!Orders
    BY <1>1, CallFields DEF Inv
  <1>3. \A i \in Harts : Sound(call[i], blk) /\ call[i].at # "reclaim"
    BY NoReclaim DEF Inv
  <1>4. \E c \in CallType : /\ c.at # "reclaim" /\ Sound(c, blk) /\ call' = [call EXCEPT ![h] = c]
    <2>1. CASE ord > 0 /\ HasRoom(ord - 1, m)
      <3> DEFINE p == ord - 1
                 c == [call[h] EXCEPT !.ord = p]
      <3>1. p \in Pages!Orders
        BY <1>2, <2>1, Sizes, SMT
      <3>2. call' = [call EXCEPT ![h] = c] /\ HasRoom(p, m)
        BY <2>1 DEF Retry
      <3> HIDE DEF p
      <3>3. /\ c \in GrowType /\ c.at = "grow" /\ c.ord = p /\ c.todo = t
            /\ c.size = call[h].size
        <4>1. call[h] \in GrowType
          BY <1>1, InGrow
        <4> QED
          BY <3>1, <4>1 DEF GrowType
      <3> HIDE DEF c
      <3>4. c \in CallType
        BY <3>3 DEF CallType, GrowType
      <3>5. Sound(c, blk)
        BY <1>1, <3>2, <3>3 DEF Sound
      <3> QED
        BY <3>2, <3>3, <3>4, <3>5
    <2>2. CASE ~(ord > 0 /\ HasRoom(ord - 1, m)) /\ Len(t) = 1
      <3>1. call' = [call EXCEPT ![h] = Idle]
        BY <2>2 DEF Retry
      <3> QED
        BY <3>1, IdleSound
    <2>3. CASE ~(ord > 0 /\ HasRoom(ord - 1, m)) /\ Len(t) # 1
      <3> DEFINE c == [at |-> "scan", todo |-> Tail(t), size |-> call[h].size, new |-> call[h].new]
      <3>1. Tail(t) \in Seq(Large(call[h].size)) /\ Tail(t) \in Todo
        BY <1>1, <2>3, RestOfTodo DEF Large, Todo
      <3>2. c \in CallType
        BY <1>1, <3>1 DEF CallType
      <3>3. Sound(c, blk) /\ c.at # "reclaim"
        BY <3>1 DEF Sound
      <3>4. call' = [call EXCEPT ![h] = c]
        BY <2>3 DEF Retry
      <3> HIDE DEF c
      <3> QED
        BY <3>2, <3>3, <3>4
    <2> QED
      BY <2>1, <2>2, <2>3
  <1>5. /\ call' \in [Harts -> CallType]
        /\ \A i \in Harts : Sound(call'[i], blk)
        /\ \A i \in Harts : call'[i].at # "reclaim"
    BY <1>2, <1>3, <1>4, CallStep
  <1>6. lock' \in [Mgr -> Harts \cup {NULL}] /\ failed' \in BOOLEAN
    BY <1>1, <1>2 DEF Retry, StateType
  <1>7. StateType'
    BY <1>2, <1>5, <1>6 DEF StateType
  <1> QED
    BY <1>2, <1>5, <1>7 DEF Inv, Alone

\* A new block has a free slot.
LEMMA NewHasSlot ==
    ASSUME NEW b \in Pages!Page, NEW ord \in Pages!Orders, NEW m \in Mgr, HasRoom(ord, m)
    PROVE  SlotsOf(b, ord, m) # <<>>
  <1> DEFINE S == SlotsOf(b, ord, m)
             u == unit_size(m)
             C == Capacity(ord)
  <1>1. /\ S \in Seq(Nat) /\ \A k \in Nat : k * u <= C => k <= Len(S)
    BY Sizes, SlotsAreCut DEF Cut
  <1>2. u \in Nat /\ C \in Int /\ C >= u
    BY ManagerSizes, Room, Sizes DEF HasRoom
  <1> HIDE DEF S, u, C
  <1>3. 1 \in Nat /\ 1 * u <= C
    BY <1>2, SMT
  <1>4. 1 <= Len(S)
    BY <1>1, <1>3
  <1>5. S # <<>>
    BY <1>1, <1>4, SMT
  <1> QED
    BY <1>5 DEF S

\* kmem_object_create_block makes a block, or goes on without pages.
LEMMA GrowInv ==
    ASSUME Inv, NEW h \in Harts, Grow(h)
    PROVE  LET m == Head(call[h].todo)
               ord == call[h].ord
           IN  /\ Inv'
               /\ \/ \E b \in Pages!Page :
                       /\ Block(b, ord) \subseteq free /\ owned' = owned \cup Block(b, ord)
                       /\ blocks' = Linked(b, m)
                       /\ blk' = [[blk EXCEPT ![b] = NewBlock(b, ord, m)]
                                   EXCEPT ![b] = SlotTaken(@)]
                       /\ call' = [call EXCEPT ![h] = Idle] /\ failed' = failed
                       /\ boot' = IF Booted THEN boot ELSE boot + 1
                  \/ /\ Pages!Candidates(ord) = {} /\ Retry(h, m, ord)
                     /\ UNCHANGED <<free, owned, blocks, blk, live, created, uni_managers, boot>>
  <1> DEFINE m == Head(call[h].todo)
             ord == call[h].ord
  <1>1. call[h].at = "grow" /\ Pages!Alloc(ord)
    BY DEF Grow
  <1>2. call[h] \in CallType /\ m \in Mgr /\ call[h].size <= object_size(m)
    BY <1>1, Asked
  <1>3. StateType /\ Books(free, owned, blocks, blk, live) /\ Sound(call[h], blk)
    BY DEF Inv
  <1>4. ord \in Pages!Orders /\ HasRoom(ord, m)
    BY <1>1, <1>2, <1>3, CallFields DEF Sound
  <1>5. ASSUME NEW b \in Pages!Candidates(ord), free' = free \ Pages!Block(b, ord),
               owned' = owned \cup Pages!Block(b, ord), answer' = <<ord, b>>
        PROVE  /\ Inv' /\ b \in Pages!Page
               /\ Block(b, ord) \subseteq free /\ owned' = owned \cup Block(b, ord)
               /\ blocks' = Linked(b, m)
               /\ blk' = [[blk EXCEPT ![b] = NewBlock(b, ord, m)] EXCEPT ![b] = SlotTaken(@)]
               /\ call' = [call EXCEPT ![h] = Idle] /\ failed' = failed
               /\ boot' = IF Booted THEN boot ELSE boot + 1
    <2> DEFINE B == [blk EXCEPT ![b] = NewBlock(b, ord, m)]
               o == owned \cup Block(b, ord)
               f == free \ Block(b, ord)
               bs == [blocks EXCEPT ![m] = <<b>> \o @]
    <2>1. b \in Pages!Page /\ Block(b, ord) \subseteq free /\ free' = f /\ owned' = o
      BY <1>5, SameBlocks DEF Pages!Candidates
    <2>2. b # NULL /\ answer'[2] = b
      BY <1>5, <2>1, NullAssumption
    <2>3. blocks' = bs /\ TakeSlot(h, B, b) /\ lock' = [lock EXCEPT ![m] = NULL]
      BY <2>2 DEF Grow, Linked
    <2>4. Books(f, o, bs, B, live) /\ b \in Made(B)
      BY <1>2, <1>3, <1>4, <2>1, AddBlock
    <2>5. B[b].free_slots # <<>> /\ B[b].parent_manager = m
      <3>1. blk \in [Pages!Page -> BlockType \cup {NULL}]
        BY <1>3 DEF Books
      <3>2. B[b] = NewBlock(b, ord, m)
        BY <2>1, <3>1
      <3>3. SlotsOf(b, ord, m) # <<>>
        BY <1>2, <1>4, <2>1, NewHasSlot
      <3>4. /\ NewBlock(b, ord, m).free_slots = SlotsOf(b, ord, m)
            /\ NewBlock(b, ord, m).parent_manager = m
        BY DEF NewBlock
      <3> HIDE DEF B, m, ord
      <3> QED
        BY <3>2, <3>3, <3>4
    <2>6. lock' \in [Mgr -> Harts \cup {NULL}]
      BY <1>2, <1>3, <2>3 DEF StateType
    <2> HIDE DEF B, o, f, bs
    <2>7. call[h].size <= object_size(B[b].parent_manager)
      BY <1>2, <2>5
    <2>8. /\ Inv' /\ failed' = failed
          /\ call' = [call EXCEPT ![h] = Idle]
          /\ blk' = [B EXCEPT ![b] = SlotTaken(@)]
          /\ boot' = IF Booted THEN boot ELSE boot + 1
      <3> HIDE DEF m, ord
      <3>1. call[h].at \in {"scan", "grow"} /\ B[b].free_slots # <<>>
        BY <1>1, <2>5
      <3> QED
        BY <2>1, <2>3, <2>4, <2>6, <2>7, <3>1, TakeInv
    <2> QED
      BY <2>1, <2>3, <2>8 DEF B, o, f, bs, Linked
  <1>6. ASSUME Pages!Candidates(ord) = {}, answer' = <<ord, NULL>>, UNCHANGED <<free, owned>>
        PROVE  /\ Inv' /\ Retry(h, m, ord)
               /\ UNCHANGED <<free, owned, blocks, blk, live, created, uni_managers, boot>>
    <2>1. answer'[2] = NULL
      BY <1>6
    <2>2. /\ Retry(h, m, ord)
          /\ UNCHANGED <<free, owned, blocks, blk, live, created, uni_managers, boot>>
      BY <1>6, <2>1 DEF Grow
    <2> QED
      BY <1>1, <2>2, RetryInv
  <1>7. CASE \E p \in Pages!Candidates(ord) :
               /\ free' = free \ Pages!Block(p, ord)
               /\ owned' = owned \cup Pages!Block(p, ord)
               /\ answer' = <<ord, p>>
    <2>1. PICK p \in Pages!Candidates(ord) : /\ free' = free \ Pages!Block(p, ord)
                                             /\ owned' = owned \cup Pages!Block(p, ord)
                                             /\ answer' = <<ord, p>>
      BY <1>7
    <2> HIDE DEF m, ord
    <2>2. /\ Inv' /\ p \in Pages!Page
          /\ Block(p, ord) \subseteq free /\ owned' = owned \cup Block(p, ord)
          /\ blocks' = Linked(p, m)
          /\ blk' = [[blk EXCEPT ![p] = NewBlock(p, ord, m)] EXCEPT ![p] = SlotTaken(@)]
          /\ call' = [call EXCEPT ![h] = Idle] /\ failed' = failed
          /\ boot' = IF Booted THEN boot ELSE boot + 1
      BY <1>5, <2>1
    <2> QED
      BY <2>2 DEF m, ord
  <1>8. CASE Pages!Candidates(ord) = {} /\ answer' = <<ord, NULL>> /\ UNCHANGED <<free, owned>>
    BY <1>6, <1>8
  <1> QED
    BY <1>1, <1>7, <1>8 DEF Pages!Alloc

\* kmem_free finds the block of the object.
LEMMA FreeInv ==
    ASSUME Inv, NEW h \in Harts, NEW x \in live, kmem_object_free(h, x)
    PROVE  Inv'
  <1> DEFINE b == ParentBlock(x.addr)
             s == x.addr - SlotHeader
  <1>1. /\ blk' = [blk EXCEPT ![b] = SlotFreed(@, s)] /\ live' = live \ {x}
        /\ UNCHANGED <<pages, created, uni_managers, blocks, lock, call, boot, failed>>
    BY DEF kmem_object_free
  <1>2. StateType /\ Books(free, owned, blocks, blk, live)
    BY DEF Inv
  <1>3. b \in Made(blk) /\ s \in blk[b].allocated_slots
    <2>1. PICK c \in Made(blk) : Holds(blk[c], x)
      BY <1>2 DEF Books, LiveInv
    <2>2. c \in Pages!Page /\ blk[c] # NULL /\ x.addr - SlotHeader \in blk[c].allocated_slots
      BY <2>1 DEF Made, Holds
    <2>3. b = CHOOSE d \in Pages!Page : blk[d] # NULL /\ x.addr - SlotHeader \in blk[d].allocated_slots
      BY DEF ParentBlock
    <2> HIDE DEF b
    <2>4. b \in Pages!Page /\ blk[b] # NULL /\ x.addr - SlotHeader \in blk[b].allocated_slots
      BY <2>2, <2>3
    <2> QED
      BY <2>4 DEF Made
  <1> HIDE DEF b
  <1>4. Books(free, owned, blocks, [blk EXCEPT ![b] = SlotFreed(@, s)], live \ {x})
    BY <1>2, <1>3, FreeBooks
  <1>5. Books(free', owned', blocks', blk', live')
    BY <1>1, <1>4 DEF pages
  <1>6. StateType'
    BY <1>1, <1>2 DEF StateType
  <1>7. ASSUME NEW i \in Harts PROVE Sound(call'[i], blk')
    <2>1. Sound(call[i], blk) /\ call' = call
      BY <1>1 DEF Inv
    <2>2. ASSUME call[i].at = "reclaim"
          PROVE  call[i].block \in Made(blk') /\ blk'[call[i].block].allocated_slots = {}
      <3>1. call[i].block \in Made(blk) /\ blk[call[i].block].allocated_slots = {}
        BY <2>1, <2>2 DEF Sound
      <3>2. call[i].block # b
        BY <1>3, <3>1
      <3>3. blk'[call[i].block] = blk[call[i].block]
        <4>1. blk \in [Pages!Page -> BlockType \cup {NULL}] /\ call[i].block \in Pages!Page
          BY <1>2, <3>1 DEF Books, Made
        <4> QED
          BY <1>1, <3>2, <4>1
      <3> QED
        BY <3>1, <3>3 DEF Made
    <2> QED
      BY <2>1, <2>2 DEF Sound
  <1>8. Alone'
    BY <1>1 DEF Inv, Alone
  <1> QED
    BY <1>5, <1>6, <1>7, <1>8 DEF Inv

\* A call of kmem_init or kmem_alloc begins.
LEMMA BeginInv ==
    ASSUME Exclusive, Inv, NEW h \in Harts, NEW todo \in Todo, NEW size \in Nat,
           NEW new \in Mgr \cup {NULL}, todo \in Seq(Large(size)), Begin(h, todo, size, new),
           UNCHANGED <<pages, created, uni_managers, blocks, blk, lock, boot, live, failed>>
    PROVE  Inv'
  <1> DEFINE c == [at |-> "scan", todo |-> todo, size |-> size, new |-> new]
  <1>1. StateType /\ Books(free, owned, blocks, blk, live)
    BY DEF Inv
  <1>2. call' = [call EXCEPT ![h] = c]
    BY DEF Begin
  <1>3. \A i \in Harts : Sound(call[i], blk) /\ call[i].at # "reclaim"
    BY DEF Begin, Inv
  <1>4. c \in CallType /\ c.at # "reclaim" /\ Sound(c, blk)
    BY DEF CallType, Sound
  <1> HIDE DEF c
  <1>5. /\ call' \in [Harts -> CallType]
        /\ \A i \in Harts : Sound(call'[i], blk)
        /\ \A i \in Harts : call'[i].at # "reclaim"
    BY <1>1, <1>2, <1>3, <1>4, CallStep
  <1>6. StateType'
    BY <1>1, <1>5 DEF StateType
  <1> QED
    BY <1>1, <1>5, <1>6 DEF Inv, Alone, pages

LEMMA KmemInitInv ==
    ASSUME Exclusive, Inv, NEW h \in Harts, KmemInit(h)
    PROVE  Inv' /\ BootScript[boot].from \in {Root, Nodes}
  <1> DEFINE c == BootScript[boot]
             m == c.from
  <1>1. boot \in 1 .. Len(BootScript)
    <2> DEFINE n == Len(BootScript)
    <2>1. n \in Nat /\ boot \in 1 .. n + 1 /\ ~(boot > n)
      BY Script DEF Inv, StateType, KmemInit, Booted
    <2> HIDE DEF n
    <2>2. boot \in 1 .. n
      BY <2>1, SMT
    <2> QED
      BY <2>2 DEF n
  <1>2. m \in {Root, Nodes} /\ c.new \in Mgr \cup {NULL}
    BY <1>1, Script
  <1>3. m \in Mgr /\ object_size(m) \in Nat
    BY <1>2, ManagerSizes DEF Mgr
  <1>4. /\ Begin(h, <<m>>, object_size(m), c.new)
        /\ UNCHANGED <<pages, created, uni_managers, blocks, blk, lock, boot, live, failed>>
    BY DEF KmemInit
  <1> HIDE DEF m, c
  <1>5. m \in Large(object_size(m))
    <2>1. object_size(m) >= object_size(m)
      BY <1>3, SMT
    <2> QED
      BY <1>3, <2>1 DEF Large
  <1>6. <<m>> \in Todo /\ <<m>> \in Seq(Large(object_size(m)))
    <2>1. <<m>> \in Seq(Mgr) /\ <<m>> # <<>> /\ <<m>> \in Seq(Large(object_size(m)))
      BY <1>3, <1>5, SMT
    <2> QED
      BY <2>1 DEF Todo
  <1>7. Inv'
    BY <1>2, <1>3, <1>4, <1>6, BeginInv
  <1> QED
    BY <1>2, <1>7 DEF m, c

LEMMA AllocInv ==
    ASSUME Exclusive, Inv, NEW h \in Harts, NEW size \in Requests, kmem_alloc(h, size)
    PROVE  Inv'
  <1>1. size \in Nat
    BY SizeAssumption
  <1> DEFINE t == Suitable(size)
  <1>2. t \in Seq(Large(size)) /\ t # <<>>
    BY <1>1, SuitableLarge DEF Inv, StateType, kmem_alloc
  <1>3. /\ Begin(h, t, size, NULL)
        /\ UNCHANGED <<pages, created, uni_managers, blocks, blk, lock, boot, live, failed>>
    BY DEF kmem_alloc
  <1> HIDE DEF t
  <1>4. t \in Todo
    <2>1. \A s \in Seq(Large(size)) : (\A i \in 1 .. Len(s) : s[i] \in Mgr) => s \in Seq(Mgr)
      BY SMT
    <2>2. \A s \in Seq(Large(size)) : \A i \in 1 .. Len(s) : s[i] \in Large(size)
      BY SMT
    <2>3. \A m \in Large(size) : m \in Mgr
      BY DEF Large
    <2>4. t \in Seq(Mgr)
      BY <1>2, <2>1, <2>2, <2>3
    <2> QED
      BY <1>2, <2>4 DEF Todo
  <1> QED
    BY <1>1, <1>2, <1>3, <1>4, BeginInv

\* kmem_object_free_block, before and under the lock.
LEMMA CheckInv ==
    ASSUME Exclusive, Inv, NEW h \in Harts, NEW b \in Pages!Page, FreeBlockCheck(h, b)
    PROVE  Inv'
  <1> DEFINE c == [at |-> "reclaim", block |-> b]
  <1>1. StateType /\ Books(free, owned, blocks, blk, live)
    BY DEF Inv
  <1>2. /\ call' = [call EXCEPT ![h] = c] /\ \A i \in Harts : call[i] = Idle
        /\ blk[b] # NULL /\ blk[b].allocated_slots = {}
        /\ UNCHANGED <<pages, created, uni_managers, blocks, blk, lock, boot, live, failed>>
    BY DEF FreeBlockCheck
  <1>3. c \in CallType /\ c.at = "reclaim" /\ c.block = b
    BY DEF CallType
  <1> HIDE DEF c
  <1>4. Sound(c, blk)
    BY <1>2, <1>3 DEF Sound, Made
  <1>5. call'[h] = c /\ \A i \in Harts : i # h => call'[i] = Idle
    BY <1>1, <1>2 DEF StateType
  <1>6. call' \in [Harts -> CallType]
    BY <1>1, <1>2, <1>3 DEF StateType
  <1>7. \A i \in Harts : Sound(call'[i], blk')
    BY <1>2, <1>4, <1>5, IdleSound
  <1>8. Alone'
    BY <1>5, IdleSound DEF Alone
  <1>9. StateType'
    BY <1>1, <1>2, <1>6 DEF StateType
  <1> QED
    BY <1>1, <1>2, <1>7, <1>8, <1>9 DEF Inv, pages

LEMMA FreeBlockInv ==
    ASSUME Inv, NEW h \in Harts, FreeBlock(h)
    PROVE  Inv'
  <1> DEFINE b == call[h].block
             m == blk[b].parent_manager
             P == Block(b, blk[b].order)
  <1>1. StateType /\ Books(free, owned, blocks, blk, live)
    BY DEF Inv
  <1>2. /\ call[h].at = "reclaim" /\ blocks' = [blocks EXCEPT ![m] = Disconnected(@, b)]
        /\ free' = free \cup P /\ owned' = owned \ P /\ blk' = [blk EXCEPT ![b] = NULL]
        /\ call' = [call EXCEPT ![h] = Idle]
        /\ UNCHANGED <<answer, created, uni_managers, lock, boot, live, failed>>
    BY DEF FreeBlock
  <1>3. b \in Made(blk) /\ blk[b].allocated_slots = {}
    BY <1>2 DEF Inv, Sound
  <1>4. \A i \in Harts : i # h => call[i] = Idle
    BY <1>2 DEF Inv, Alone
  <1>5. Books(free \cup P, owned \ P, [blocks EXCEPT ![m] = Disconnected(@, b)],
              [blk EXCEPT ![b] = NULL], live)
    <2> HIDE DEF b
    <2> QED
      BY <1>1, <1>3, CutBlock
  <1>6. \A i \in Harts : call'[i] = Idle
    BY <1>1, <1>2, <1>4 DEF StateType
  <1>7. call' \in [Harts -> CallType]
    BY <1>1, <1>2, IdleSound DEF StateType
  <1>8. StateType'
    BY <1>1, <1>2, <1>7 DEF StateType
  <1>9. Books(free', owned', blocks', blk', live')
    BY <1>2, <1>5
  <1>10. (\A i \in Harts : Sound(call'[i], blk')) /\ Alone'
    BY <1>6, IdleSound DEF Alone
  <1> QED
    BY <1>8, <1>9, <1>10 DEF Inv

LEMMA InitInv == Init => Inv
  <1> SUFFICES ASSUME Init PROVE Inv
    OBVIOUS
  <1>1. Made(blk) = {}
    BY DEF Init, Made
  <1>2. \A m \in Mgr : blocks[m] = <<>>
    BY DEF Init
  <1>3. \A X : <<>> \in Seq(X)
    BY SMT
  <1>4. DOMAIN <<>> = {}
    BY SMT
  <1>5. IsInjective(<<>>) /\ Range(<<>>) = {}
    BY <1>4 DEF IsInjective, Range
  <1>6. ListInv(blocks, blk)
    BY <1>1, <1>2, <1>5 DEF ListInv
  <1>7. PageInv(free, owned, blk)
    BY <1>1 DEF PageInv, Init
  <1>8. LiveInv(blk, live)
    BY <1>1 DEF LiveInv, Init
  <1>9. Books(free, owned, blocks, blk, live)
    BY <1>1, <1>3, <1>6, <1>7, <1>8 DEF Books, Init
  <1>10. boot \in 1 .. Len(BootScript) + 1
    <2> DEFINE n == Len(BootScript)
    <2>1. n \in Nat /\ boot = 1
      BY Script DEF Init
    <2> HIDE DEF n
    <2>2. boot \in 1 .. n + 1
      BY <2>1, SMT
    <2> QED
      BY <2>2 DEF n
  <1>11. created \subseteq Mgr
    BY DEF Init, Mgr
  <1>12. StateType
    BY <1>3, <1>10, <1>11, IdleSound DEF StateType, Init
  <1>13. \A h \in Harts : call[h] = Idle
    BY DEF Init
  <1> QED
    BY <1>9, <1>12, <1>13, IdleSound DEF Inv, Alone

LEMMA NextInv ==
    ASSUME Exclusive
    PROVE  Inv /\ [Next]_vars => Inv'
  <1> SUFFICES ASSUME Inv, [Next]_vars PROVE Inv'
    OBVIOUS
  <1>1. ASSUME NEW h \in Harts, KmemInit(h) PROVE Inv'
    BY <1>1, KmemInitInv
  <1>2. ASSUME NEW h \in Harts, NEW size \in Requests, kmem_alloc(h, size) PROVE Inv'
    BY <1>2, AllocInv
  <1>3. ASSUME NEW h \in Harts, Scan(h) PROVE Inv'
    BY <1>3, ScanInv
  <1>4. ASSUME NEW h \in Harts, Grow(h) PROVE Inv'
    BY <1>4, GrowInv
  <1>5. ASSUME NEW h \in Harts, NEW x \in live, kmem_object_free(h, x) PROVE Inv'
    BY <1>5, FreeInv
  <1>6. ASSUME NEW h \in Harts, NEW b \in Pages!Page, FreeBlockCheck(h, b) PROVE Inv'
    BY <1>6, CheckInv
  <1>7. ASSUME NEW h \in Harts, FreeBlock(h) PROVE Inv'
    BY <1>7, FreeBlockInv
  <1>8. CASE UNCHANGED vars
    <2>1. /\ free' = free /\ owned' = owned /\ blocks' = blocks /\ blk' = blk /\ live' = live
          /\ call' = call
      BY <1>8 DEF vars
    <2>2. StateType'
      BY <1>8 DEF vars, StateType, Inv
    <2>3. Alone'
      BY <2>1 DEF Alone, Inv
    <2> QED
      BY <2>1, <2>2, <2>3 DEF Inv
  <1> QED
    BY <1>1, <1>2, <1>3, <1>4, <1>5, <1>6, <1>7, <1>8 DEF Next

\* While the caller of kmem_object_free_block keeps the other harts out of the
\* allocator, its books are right, and every call is sound.
THEOREM KmemInvariant ==
    ASSUME Exclusive PROVE Spec => []Inv
  <1>1. Init => Inv
    BY InitInv
  <1>2. Inv /\ [Next]_vars => Inv'
    BY NextInv
  <1> QED
    BY <1>1, <1>2, PTL DEF Spec

-----------------------------------------------------------------------------
(* What the invariant gives *)

\* Where the slot of an object in use is.
LEMMA InSlot ==
    ASSUME Inv, NEW x \in live
    PROVE  \E b \in Made(blk) :
             /\ x.addr - SlotHeader \in Slots(blk, b) /\ x.addr - SlotHeader \in Nat
             /\ x.addr - SlotHeader \in blk[b].allocated_slots
             /\ x.addr \in Nat /\ x.size \in Nat
             /\ x.size <= object_size(blk[b].parent_manager)
             /\ Cut(SlotsOf(b, blk[b].order, blk[b].parent_manager),
                    b, blk[b].order, blk[b].parent_manager)
  <1>1. Books(free, owned, blocks, blk, live)
    BY DEF Inv
  <1>2. PICK b \in Made(blk) : Holds(blk[b], x)
    BY <1>1 DEF Books, LiveInv
  <1>3. blk \in [Pages!Page -> BlockType \cup {NULL}] /\ Whole(b, blk[b])
    BY <1>1 DEF Books
  <1>4. x \in [addr : Nat, size : Nat]
    BY <1>1 DEF Books
  <1>5. x.addr \in Nat /\ x.size \in Nat
    BY <1>4
  <1>6. Cut(SlotsOf(b, blk[b].order, blk[b].parent_manager),
            b, blk[b].order, blk[b].parent_manager)
    BY <1>3, MadeType, Fields, SlotsAreCut DEF Whole
  <1>7. x.addr - SlotHeader \in blk[b].allocated_slots /\ x.size <= object_size(blk[b].parent_manager)
    BY <1>2 DEF Holds
  <1>8. x.addr - SlotHeader \in Slots(blk, b)
    BY <1>3, <1>7 DEF Whole, Slots
  <1>9. x.addr - SlotHeader \in Nat
    <2>1. blk[b].allocated_slots \in SUBSET Nat
      BY <1>3, MadeType, Fields
    <2> QED
      BY <1>7, <2>1
  <1> QED
    BY <1>5, <1>6, <1>7, <1>8, <1>9

\* An object ends before the slot behind its own.
LEMMA BeforeNext ==
    ASSUME NEW x, x.addr \in Nat, x.size \in Nat, NEW m \in Mgr, x.size <= object_size(m),
           NEW e \in Int, x.addr - SlotHeader \in Nat,
           (x.addr - SlotHeader) + unit_size(m) <= e
    PROVE  LastByte(x) < e
  <1> DEFINE a == x.addr
             n == x.size
             z == object_size(m)
             u == unit_size(m)
  <1>1. a \in Nat /\ n \in Nat /\ z \in Nat /\ u = z + SlotHeader /\ SlotHeader \in Nat
        /\ n <= z /\ (a - SlotHeader) + u <= e
    BY ManagerSizes, Sizes
  <1>2. LastByte(x) = a + n - 1
    BY DEF LastByte
  <1> HIDE DEF a, n, z, u
  <1>3. a + n - 1 < e
    BY <1>1, SMT
  <1> QED
    BY <1>2, <1>3

LEMMA InvDisjoint ==
    ASSUME Inv
    PROVE  ObjectsDisjoint
  <1>1. Books(free, owned, blocks, blk, live)
    BY DEF Inv
  <1>2. /\ blk \in [Pages!Page -> BlockType \cup {NULL}] /\ PageInv(free, owned, blk)
        /\ \A b \in Made(blk) : Whole(b, blk[b])
    BY <1>1 DEF Books
  <1>3. ASSUME NEW x \in live, NEW y \in live, x # y
        PROVE  \/ LastByte(x) < FirstByte(y) - SlotHeader
               \/ LastByte(y) < FirstByte(x) - SlotHeader
    <2> DEFINE s == x.addr - SlotHeader
               t == y.addr - SlotHeader
    <2>1. PICK b \in Made(blk) :
             /\ s \in Slots(blk, b) /\ s \in Nat
             /\ x.addr \in Nat /\ x.size \in Nat
             /\ x.size <= object_size(blk[b].parent_manager)
             /\ Cut(SlotsOf(b, blk[b].order, blk[b].parent_manager),
                    b, blk[b].order, blk[b].parent_manager)
      BY InSlot
    <2>2. PICK c \in Made(blk) :
             /\ t \in Slots(blk, c) /\ t \in Nat
             /\ y.addr \in Nat /\ y.size \in Nat
             /\ y.size <= object_size(blk[c].parent_manager)
      BY InSlot
    <2> DEFINE m == blk[b].parent_manager
               n == blk[c].parent_manager
    <2>3. m \in Mgr /\ n \in Mgr
      BY <1>2, MadeType, Fields
    <2>4. s # t
      <3> DEFINE p == x.addr
                 q == y.addr
      <3>1. p \in Nat /\ q \in Nat /\ p # q /\ SlotHeader \in Nat
        BY <1>1, <1>3, <2>1, <2>2, Sizes DEF Books, LiveInv
      <3> HIDE DEF p, q
      <3>2. p - SlotHeader # q - SlotHeader
        BY <3>1, SMT
      <3> QED
        BY <3>2 DEF p, q
    <2> HIDE DEF s, t
    <2>5. s + unit_size(m) <= t \/ t + unit_size(n) <= s
      <3>1. CASE b = c
        BY <2>1, <2>2, <2>4, <3>1 DEF Cut, Slots
      <3>2. CASE b # c
        BY <1>2, <2>1, <2>2, <3>2, SlotsApart DEF Slots
      <3> QED
        BY <3>1, <3>2
    <2>6. s \in Int /\ t \in Int
      BY <2>1, <2>2, SMT
    <2> HIDE DEF m, n
    <2>7. CASE s + unit_size(m) <= t
      <3>1. LastByte(x) < t
        BY <2>1, <2>3, <2>6, <2>7, BeforeNext DEF s, m
      <3> QED
        BY <3>1 DEF t, FirstByte
    <2>8. CASE t + unit_size(n) <= s
      <3>1. LastByte(y) < s
        BY <2>2, <2>3, <2>6, <2>8, BeforeNext DEF t, n
      <3> QED
        BY <3>1 DEF s, FirstByte
    <2> QED
      BY <2>5, <2>7, <2>8
  <1>4. ASSUME NEW x \in live
        PROVE  \E m \in Mgr : \E b \in Range(blocks[m]) :
                 /\ FirstByte(x) - SlotHeader >= b * PageSize + BlockHeader
                 /\ LastByte(x) < (b + Pow2[blk[b].order]) * PageSize
                 /\ x.size <= object_size(m)
    <2> DEFINE s == x.addr - SlotHeader
    <2>1. PICK b \in Made(blk) :
             /\ s \in Slots(blk, b) /\ s \in Nat
             /\ x.addr \in Nat /\ x.size \in Nat
             /\ x.size <= object_size(blk[b].parent_manager)
             /\ Cut(SlotsOf(b, blk[b].order, blk[b].parent_manager),
                    b, blk[b].order, blk[b].parent_manager)
      BY InSlot
    <2> DEFINE m == blk[b].parent_manager
               base == b * PageSize + BlockHeader
               end == (b + Pow2[blk[b].order]) * PageSize
    <2>2. m \in Mgr /\ b \in Range(blocks[m])
      BY <1>1, <1>2, MadeType, Fields DEF Books, ListInv
    <2>3. base <= s /\ s + unit_size(m) <= end
      BY <2>1 DEF Cut, Slots
    <2>4. base \in Int /\ end \in Int
      <3> DEFINE p == Pow2[blk[b].order]
      <3>1. b \in Nat /\ p \in Nat /\ PageSize \in Nat /\ BlockHeader \in Nat
        BY <1>2, MadeType, Fields, Sizes
      <3> HIDE DEF p
      <3>2. b * PageSize + BlockHeader \in Int /\ (b + p) * PageSize \in Int
        BY <3>1, SMT
      <3> QED
        BY <3>2 DEF p
    <2> HIDE DEF base, end, m
    <2>5. LastByte(x) < end
      BY <2>1, <2>2, <2>3, <2>4, BeforeNext DEF m
    <2>6. s >= base
      <3> HIDE DEF s
      <3> QED
        BY <2>1, <2>3, <2>4, SMT
    <2> QED
      BY <2>1, <2>2, <2>5, <2>6 DEF FirstByte, base, end, m
  <1> QED
    BY <1>3, <1>4 DEF ObjectsDisjoint

\* Whatever the sizes and the alignment, objects in use lie apart, in the block that
\* kmem_object_create_block cut for them and behind its header.
THEOREM ObjectsApart ==
    ASSUME Exclusive PROVE Spec => []ObjectsDisjoint
  <1>1. Inv => ObjectsDisjoint
    BY InvDisjoint
  <1> QED
    BY <1>1, KmemInvariant, PTL

LEMMA InvSlots ==
    ASSUME Inv
    PROVE  SlotsAccounted
  <1>1. /\ blk \in [Pages!Page -> BlockType \cup {NULL}] /\ PageInv(free, owned, blk)
        /\ ListInv(blocks, blk) /\ LiveInv(blk, live)
        /\ live \subseteq [addr : Nat, size : Nat]
        /\ \A b \in Made(blk) : Whole(b, blk[b])
    BY DEF Inv, Books
  <1> SUFFICES ASSUME NEW m \in Mgr, NEW b \in Range(blocks[m])
               PROVE  /\ blk[b].used = Cardinality(blk[b].allocated_slots)
                      /\ blk[b].allocated_slots =
                            {x.addr - SlotHeader : x \in live} \cap Range(SlotsOf(b, blk[b].order, m))
                      /\ IsInjective(blk[b].free_slots)
                      /\ Range(blk[b].free_slots) =
                            Range(SlotsOf(b, blk[b].order, m)) \ blk[b].allocated_slots
    BY DEF SlotsAccounted
  <1>2. b \in Made(blk) /\ blk[b].parent_manager = m
    BY <1>1 DEF ListInv
  <1>3. Whole(b, blk[b])
    BY <1>1, <1>2
  <1>4. ASSUME NEW s \in blk[b].allocated_slots
        PROVE  s \in {x.addr - SlotHeader : x \in live} /\ s \in Range(SlotsOf(b, blk[b].order, m))
    <2>1. PICK x \in live : x.addr = s + SlotHeader
      BY <1>1, <1>2 DEF LiveInv
    <2>2. s \in Nat /\ SlotHeader \in Nat
      <3>1. blk[b].allocated_slots \in SUBSET Nat
        BY <1>1, <1>2, MadeType, Fields
      <3> QED
        BY <3>1, Sizes
    <2>3. (s + SlotHeader) - SlotHeader = s
      BY <2>2, SMT
    <2>4. x.addr - SlotHeader = s
      BY <2>1, <2>3
    <2> QED
      BY <1>2, <1>3, <2>4 DEF Whole
  <1>5. ASSUME NEW x \in live, x.addr - SlotHeader \in Range(SlotsOf(b, blk[b].order, m))
        PROVE  x.addr - SlotHeader \in blk[b].allocated_slots
    <2> DEFINE s == x.addr - SlotHeader
    <2>1. PICK c \in Made(blk) : s \in Slots(blk, c) /\ s \in blk[c].allocated_slots
      BY InSlot
    <2>2. s \in Slots(blk, b)
      BY <1>2, <1>5 DEF Slots
    <2> HIDE DEF s
    <2>3. b = c
      BY <1>1, <1>2, <2>1, <2>2, OneBlock
    <2> QED
      BY <2>1, <2>3 DEF s
  <1>6. blk[b].allocated_slots =
          {x.addr - SlotHeader : x \in live} \cap Range(SlotsOf(b, blk[b].order, m))
    BY <1>4, <1>5
  <1> QED
    BY <1>2, <1>3, <1>6 DEF Whole

LEMMA InvPages ==
    ASSUME Inv
    PROVE  PagesAccounted
  <1>1. /\ blk \in [Pages!Page -> BlockType \cup {NULL}] /\ PageInv(free, owned, blk)
        /\ ListInv(blocks, blk)
    BY DEF Inv, Books
  <1>2. UNION {Range(blocks[m]) : m \in Mgr} = Made(blk)
    <2>1. ASSUME NEW m \in Mgr, NEW b \in Range(blocks[m]) PROVE b \in Made(blk)
      BY <1>1 DEF ListInv
    <2>2. ASSUME NEW b \in Made(blk) PROVE \E m \in Mgr : b \in Range(blocks[m])
      <3>1. blk[b].parent_manager \in Mgr
        BY <1>1, MadeType, Fields
      <3> QED
        BY <1>1, <3>1 DEF ListInv
    <2> QED
      BY <2>1, <2>2
  <1>3. owned = UNION {Block(b, blk[b].order) : b \in UNION {Range(blocks[m]) : m \in Mgr}}
    BY <1>1, <1>2 DEF PageInv
  <1>4. ASSUME NEW m \in Mgr, NEW n \in Mgr, NEW i \in DOMAIN blocks[m], NEW j \in DOMAIN blocks[n]
        PROVE  \/ m = n /\ i = j
               \/ Block(blocks[m][i], blk[blocks[m][i]].order) \cap
                  Block(blocks[n][j], blk[blocks[n][j]].order) = {}
    <2> DEFINE b == blocks[m][i]
               c == blocks[n][j]
    <2>1. b \in Range(blocks[m]) /\ c \in Range(blocks[n])
      BY DEF Range
    <2>2. /\ b \in Made(blk) /\ blk[b].parent_manager = m
          /\ c \in Made(blk) /\ blk[c].parent_manager = n
      BY <1>1, <2>1 DEF ListInv
    <2>3. b = c => m = n /\ i = j
      <3>1. IsInjective(blocks[m])
        BY <1>1 DEF ListInv
      <3> QED
        BY <2>2, <3>1 DEF IsInjective
    <2> HIDE DEF b, c
    <2>4. b = c \/ Block(b, blk[b].order) \cap Block(c, blk[c].order) = {}
      BY <1>1, <2>2 DEF PageInv
    <2> QED
      BY <2>3, <2>4 DEF b, c
  <1> QED
    BY <1>3, <1>4 DEF PagesAccounted

-----------------------------------------------------------------------------
(* A manager that gives up *)

\* A step of one hart leaves the calls of the others alone.
LEMMA OtherCalls ==
    ASSUME Inv, NEW h \in Harts, NEW i \in Harts, call[h].at = "grow", i # h,
           \E c : call' = [call EXCEPT ![i] = c]
    PROVE  call'[h] = call[h]
  BY DEF Inv, StateType

\* Retry leaves an order only for the one below it that has room, so that the one
\* without an answer is the least when kmem_object_create_block gives up.
LEMMA GivesUpStep ==
    ASSUME Inv, [Next]_vars, NEW h \in Harts, call[h].at = "grow", call'[h].at # "grow",
           owned' = owned
    PROVE  Pages!Candidates(MinOrder(Head(call[h].todo))) = {}
  <1> DEFINE m == Head(call[h].todo)
             ord == call[h].ord
  <1>1. StateType /\ Books(free, owned, blocks, blk, live) /\ Sound(call[h], blk)
    BY DEF Inv
  <1>2. call'[h] # call[h]
    OBVIOUS
  <1>3. call[h] # Idle /\ call[h].at # "scan" /\ call[h].at # "reclaim"
    BY IdleSound
  <1>4. Grow(h)
    <2>1. ASSUME NEW i \in Harts, KmemInit(i) PROVE FALSE
      BY <1>2, <1>3, <2>1, OtherCalls DEF KmemInit, Begin
    <2>2. ASSUME NEW i \in Harts, NEW size \in Requests, kmem_alloc(i, size) PROVE FALSE
      BY <1>2, <1>3, <2>2, OtherCalls DEF kmem_alloc, Begin
    <2>3. ASSUME NEW i \in Harts, Scan(i) PROVE FALSE
      BY <1>2, <1>3, <2>3, ScanInv, OtherCalls DEF Scan
    <2>4. ASSUME NEW i \in Harts, Grow(i) PROVE i = h
      <3>1. \E c : call' = [call EXCEPT ![i] = c]
        BY <2>4, GrowInv DEF Retry
      <3> QED
        BY <1>2, <3>1, OtherCalls
    <2>5. ASSUME NEW i \in Harts, NEW x \in live, kmem_object_free(i, x) PROVE FALSE
      BY <1>2, <2>5 DEF kmem_object_free
    <2>6. ASSUME NEW i \in Harts, NEW b \in Pages!Page, FreeBlockCheck(i, b) PROVE FALSE
      BY <1>2, <1>3, <2>6, OtherCalls DEF FreeBlockCheck
    <2>7. ASSUME NEW i \in Harts, FreeBlock(i) PROVE FALSE
      BY <1>2, <1>3, <2>7, OtherCalls DEF FreeBlock
    <2>8. ASSUME UNCHANGED vars PROVE FALSE
      BY <1>2, <2>8 DEF vars
    <2> QED
      BY <2>1, <2>2, <2>3, <2>4, <2>5, <2>6, <2>7, <2>8 DEF Next
  <1>5. call[h] \in CallType /\ m \in Mgr /\ ord \in Pages!Orders /\ HasRoom(ord, m)
    BY <1>1, Asked, CallFields DEF Sound
  <1>6. ASSUME NEW b \in Pages!Page, Block(b, ord) \subseteq free, owned' = owned \cup Block(b, ord)
        PROVE  FALSE
    <2>1. b \in Block(b, ord)
      <3>1. b \in Nat /\ Pow2[ord] \in Nat /\ Pow2[ord] > 0
        BY <1>5, Sizes
      <3> QED
        BY <3>1, SMT DEF Block
    <2>2. b \in free /\ b \in owned
      BY <1>6, <2>1
    <2> QED
      BY <1>1, <2>2 DEF Books, PageInv
  <1>7. Pages!Candidates(ord) = {} /\ Retry(h, m, ord)
    BY <1>4, <1>6, GrowInv
  <1>8. ~(ord > 0 /\ HasRoom(ord - 1, m))
    <2> SUFFICES ASSUME ord > 0 /\ HasRoom(ord - 1, m) PROVE FALSE
      OBVIOUS
    <2> DEFINE p == ord - 1
    <2>1. call' = [call EXCEPT ![h].ord = p]
      BY <1>7 DEF Retry
    <2> HIDE DEF p
    <2>2. call'[h] = [call[h] EXCEPT !.ord = p]
      BY <1>1, <2>1 DEF StateType
    <2>3. call[h] \in GrowType
      BY <1>5, InGrow
    <2>4. [call[h] EXCEPT !.ord = p].at = call[h].at
      BY <2>3 DEF GrowType
    <2> QED
      BY <2>2, <2>4
  <1>9. MinOrder(m) = ord
    BY <1>5, <1>8, LeastOrder
  <1> QED
    BY <1>7, <1>9

\* kmem_object_create_block returns NULL only when not even the least block that holds
\* an object is to be had.
THEOREM GivesUpLate ==
    ASSUME Exclusive PROVE Spec => GivesUpOnlyWhenFull
  <1>1. Inv /\ [Next]_vars =>
          [\A h \in Harts :
             call[h].at = "grow" /\ call'[h].at # "grow" /\ owned' = owned
               => LET m == Head(call[h].todo)
                  IN  Pages!Candidates(MinOrder(m)) = {}]_vars
    BY GivesUpStep
  <1> QED
    BY <1>1, KmemInvariant, PTL DEF Spec, GivesUpOnlyWhenFull

-----------------------------------------------------------------------------
(* Boot finds its memory *)

\* Up to the end of kmem_init the two managers have at most a block each, with fewer
\* slots in use than kmem_init has made calls, and only one hart is in the allocator.
BootInv ==
    ~Booted =>
      /\ \A m \in Mgr : /\ m \notin {Root, Nodes} => blocks[m] = <<>>
                        /\ Len(blocks[m]) <= 1
      /\ \A b \in Made(blk) : blk[b].order = 0 /\ blk[b].used < boot
      /\ \A h \in Harts : call[h] # Idle =>
            /\ \A i \in Harts : i = h \/ call[i] = Idle
            /\ call[h].at \in {"scan", "grow"}
            /\ \E m \in {Root, Nodes} :
                 /\ call[h].todo = <<m>>
                 /\ call[h].at = "grow" => blocks[m] = <<>> /\ call[h].ord = 0

\* Before the last call of kmem_init its block has a slot left.
LEMMA SlotLeft ==
    ASSUME BootFits, Inv, BootInv, ~Booted, NEW m \in {Root, Nodes}, Available(m) = {}
    PROVE  blocks[m] = <<>>
  <1> SUFFICES ASSUME blocks[m] # <<>> PROVE FALSE
    OBVIOUS
  <1> DEFINE b == blocks[m][1]
             r == blk[b]
             S == SlotsOf(b, r.order, m)
             n == Len(BootScript)
  <1>1. m \in Mgr
    BY DEF Mgr
  <1>2. blocks[m] \in Seq(Pages!Page) /\ blk \in [Pages!Page -> BlockType \cup {NULL}]
    BY <1>1 DEF Inv, Books
  <1>3. 1 \in DOMAIN blocks[m]
    BY <1>2, SMT
  <1>4. b \in Range(blocks[m]) /\ r.free_slots = <<>>
    BY <1>3 DEF Range, Available
  <1>5. b \in Made(blk) /\ r.parent_manager = m
    BY <1>1, <1>4 DEF Inv, Books, ListInv
  <1>6. r.order = 0 /\ r.used < boot /\ Whole(b, r) /\ r.used \in Nat /\ b \in Nat
    BY <1>2, <1>5, MadeType, Fields DEF BootInv, Inv, Books
  <1>7. n \in Nat /\ boot \in 1 .. n + 1 /\ ~(boot > n)
    BY Script DEF Inv, StateType, Booted
  <1>8. Len(r.free_slots) + r.used = Len(S) /\ HasRoom(0, m) /\ Len(<<>>) = 0
    <2>1. Len(<<>>) = 0
      BY SMT
    <2> QED
      BY <1>5, <1>6, <2>1 DEF Whole
  <1>9. n * unit_size(m) <= Capacity(0)
    BY DEF BootFits
  <1>10. n <= Len(S) /\ Len(S) \in Nat
    <2>1. 0 \in Pages!Orders
      BY Sizes, SMT
    <2> QED
      BY <1>1, <1>6, <1>7, <1>8, <1>9, <2>1, SlotsAreCut
  <1> HIDE DEF n, S, r
  <1> QED
    BY <1>4, <1>6, <1>7, <1>8, <1>10, SMT

\* Before that the managers have not more than one page, and there is another.
LEMMA PageLeft ==
    ASSUME BootFits, Inv, BootInv, ~Booted, NEW m \in {Root, Nodes}, blocks[m] = <<>>
    PROVE  Pages!Candidates(0) # {}
  <1> DEFINE n == IF m = Root THEN Nodes ELSE Root
  <1>1. n \in Mgr /\ n \in {Root, Nodes} /\ m \in Mgr
    BY DEF Mgr
  <1>2. /\ blocks[n] \in Seq(Pages!Page) /\ blk \in [Pages!Page -> BlockType \cup {NULL}]
        /\ ListInv(blocks, blk) /\ PageInv(free, owned, blk)
    BY <1>1 DEF Inv, Books
  <1>3. \A k \in Mgr : k # n => blocks[k] = <<>>
    BY DEF BootInv
  <1>4. Range(<<>>) = {}
    <2>1. DOMAIN <<>> = {}
      BY SMT
    <2> QED
      BY <2>1 DEF Range
  <1>5. Made(blk) \subseteq Range(blocks[n])
    <2> SUFFICES ASSUME NEW b \in Made(blk) PROVE b \in Range(blocks[n])
      OBVIOUS
    <2>1. blk[b].parent_manager \in Mgr
      BY <1>2, MadeType, Fields
    <2>2. b \in Range(blocks[blk[b].parent_manager])
      BY <1>2, <2>1 DEF ListInv
    <2> HIDE DEF n
    <2> QED
      BY <1>3, <1>4, <2>1, <2>2
  <1>6. \A i, j \in DOMAIN blocks[n] : i = j
    <2>1. Len(blocks[n]) <= 1
      BY <1>1 DEF BootInv
    <2> HIDE DEF n
    <2> QED
      BY <1>2, <2>1, SMT
  <1> HIDE DEF n
  <1>7. \A b, c \in Made(blk) : b = c
    <2>1. \A b, c \in Range(blocks[n]) : b = c
      BY <1>6 DEF Range
    <2> QED
      BY <1>5, <2>1
  <1>8. \A b \in Nat : Block(b, 0) = {b}
    <2>1. Pow2[0] = 1
      BY PowType
    <2>2. \A b \in Nat : b .. b + 1 - 1 = {b}
      BY SMT
    <2> QED
      BY <2>1, <2>2 DEF Block
  <1>9. owned = Made(blk)
    <2>1. \A b \in Made(blk) : Block(b, blk[b].order) = {b}
      BY <1>2, <1>8, MadeType DEF BootInv
    <2>2. owned = UNION {Block(b, blk[b].order) : b \in Made(blk)}
      BY <1>2 DEF PageInv
    <2>3. ASSUME NEW p \in owned PROVE p \in Made(blk)
      <3>1. PICK b \in Made(blk) : p \in Block(b, blk[b].order)
        BY <2>2
      <3> QED
        BY <2>1, <3>1
    <2>4. ASSUME NEW b \in Made(blk) PROVE b \in owned
      <3>1. b \in Block(b, blk[b].order)
        BY <2>1
      <3> QED
        BY <2>2, <3>1
    <2> QED
      BY <2>3, <2>4
  <1>10. 0 \in Pages!Page /\ 1 \in Pages!Page /\ 0 # 1
    BY Sizes, SMT DEF BootFits
  <1>11. PICK p \in Pages!Page : p \in free
    BY <1>2, <1>7, <1>9, <1>10 DEF PageInv
  <1>12. Block(p, 0) \subseteq free
    <2>1. p \in Nat
      BY Sizes
    <2>2. Block(p, 0) = {p}
      BY <1>8, <2>1
    <2> QED
      BY <1>11, <2>2
  <1>13. p % Pow2[0] = 0
    <2>1. p \in Nat /\ Pow2[0] = 1
      BY Sizes, PowType
    <2>2. p % 1 = 0
      BY <2>1, SMT
    <2> QED
      BY <2>1, <2>2
  <1> QED
    BY <1>11, <1>12, <1>13, SameBlocks DEF Pages!Candidates

\* The call that kmem_init is in.
LEMMA BootCall ==
    ASSUME Inv, BootInv, ~Booted, NEW h \in Harts, call[h].at \in {"scan", "grow"}
    PROVE  LET m == Head(call[h].todo)
           IN  /\ m \in {Root, Nodes} /\ m \in Mgr /\ call[h].todo = <<m>>
               /\ call[h].at = "grow" => blocks[m] = <<>> /\ call[h].ord = 0
               /\ \A i \in Harts : i # h => call[i] = Idle
  <1>1. call[h] # Idle
    BY IdleSound
  <1>2. PICK m \in {Root, Nodes} :
          call[h].todo = <<m>> /\ (call[h].at = "grow" => blocks[m] = <<>> /\ call[h].ord = 0)
    BY <1>1 DEF BootInv
  <1>3. Head(<<m>>) = m
    BY SMT
  <1>4. \A i \in Harts : i # h => call[i] = Idle
    BY <1>1 DEF BootInv
  <1> QED
    BY <1>2, <1>3, <1>4 DEF Mgr

\* The numbers of kmem_init's calls.
LEMMA BootCount ==
    ASSUME Inv, boot' = (IF Booted THEN boot ELSE boot + 1), ~Booted'
    PROVE  ~Booted /\ boot' = boot + 1 /\ boot \in Nat /\ boot > 0
  <1> DEFINE n == Len(BootScript)
  <1>1. n \in Nat /\ boot \in 1 .. n + 1
    BY Script DEF Inv, StateType
  <1>2. boot \in Nat /\ boot > 0
    <2> HIDE DEF n
    <2> QED
      BY <1>1, SMT
  <1>3. Booted => boot' = boot
    OBVIOUS
  <1>4. ~Booted
    BY <1>3 DEF Booted
  <1> QED
    BY <1>2, <1>4

LEMMA ScanBoot ==
    ASSUME BootFits, Inv, BootInv, NEW h \in Harts, Scan(h), ~Booted'
    PROVE  BootInv'
  <1> DEFINE m == Head(call[h].todo)
             b == FirstAvailable(m)
  <1>1. call[h].at = "scan"
    BY DEF Scan
  <1>2. call \in [Harts -> CallType] /\ blk \in [Pages!Page -> BlockType \cup {NULL}]
    BY DEF Inv, StateType, Books
  <1>3. blocks' = blocks
    BY ScanInv
  <1>4. CASE /\ b \in Made(blk) /\ blk[b].free_slots # <<>>
             /\ blk' = [blk EXCEPT ![b] = SlotTaken(@)]
             /\ call' = [call EXCEPT ![h] = Idle]
             /\ boot' = (IF Booted THEN boot ELSE boot + 1)
    <2>1. ~Booted /\ boot' = boot + 1 /\ boot \in Nat /\ boot > 0
      BY <1>4, BootCount
    <2>2. \A i \in Harts : call'[i] = Idle
      BY <1>1, <1>2, <1>4, <2>1, BootCall
    <2> HIDE DEF b
    <2>3. b \in Pages!Page /\ blk[b] \in BlockType
      BY <1>2, <1>4, MadeType
    <2>4. blk'[b] = SlotTaken(blk[b]) /\ \A c \in Pages!Page : c # b => blk'[c] = blk[c]
      BY <1>2, <1>4, <2>3
    <2>5. /\ SlotTaken(blk[b]).order = blk[b].order /\ SlotTaken(blk[b]).used = blk[b].used + 1
      BY <1>4, <2>3, TakenFields
    <2>6. ASSUME NEW c \in Made(blk') PROVE blk'[c].order = 0 /\ blk'[c].used < boot'
      <3>1. c \in Made(blk)
        BY <1>4, <2>4 DEF Made
      <3>2. blk[c].order = 0 /\ blk[c].used < boot /\ blk[c].used \in Nat
        BY <1>2, <2>1, <3>1, MadeType, Fields DEF BootInv
      <3> DEFINE u == blk[c].used
                 v == blk'[c].used
      <3>3. v = u \/ v = u + 1
        BY <2>4, <2>5, <3>1 DEF Made
      <3>4. blk'[c].order = blk[c].order
        BY <2>4, <2>5, <3>1 DEF Made
      <3>5. u \in Nat /\ u < boot
        BY <3>2
      <3> HIDE DEF u, v
      <3>6. v < boot'
        BY <2>1, <3>3, <3>5, SMT
      <3> QED
        BY <3>2, <3>4, <3>6 DEF v
    <2> QED
      BY <1>3, <2>1, <2>2, <2>6 DEF BootInv
  <1>5. CASE /\ Available(m) = {} /\ UNCHANGED <<blk, boot>>
             /\ call' = [call EXCEPT ![h] =
                  [at |-> "grow", ord |-> NextOrder(m), todo |-> call[h].todo,
                   size |-> call[h].size, new |-> call[h].new]]
    <2>1. ~Booted
      BY <1>5 DEF Booted
    <2>2. /\ m \in {Root, Nodes} /\ m \in Mgr /\ call[h].todo = <<m>>
          /\ \A i \in Harts : i # h => call[i] = Idle
      BY <1>1, <2>1, BootCall
    <2> DEFINE c == [at |-> "grow", ord |-> NextOrder(m), todo |-> call[h].todo,
                     size |-> call[h].size, new |-> call[h].new]
    <2>3. blocks[m] = <<>>
      BY <1>5, <2>1, <2>2, SlotLeft
    <2>4. NextOrder(m) = 0
      BY <2>2, <2>3, SumType, NextOrderRoom DEF BootFits
    <2> HIDE DEF m
    <2>5. c.at = "grow" /\ c.todo = <<m>> /\ c.ord = 0
      BY <2>2, <2>4
    <2>6. call'[h] = c /\ \A i \in Harts : i # h => call'[i] = Idle
      BY <1>2, <1>5, <2>2
    <2> HIDE DEF c
    <2>7. \A i \in Harts : call'[i] # Idle => i = h
      BY <2>6
    <2>8. blk' = blk /\ boot' = boot
      BY <1>5
    <2>9. ASSUME NEW i \in Harts, call'[i] # Idle
          PROVE  /\ \A j \in Harts : j = i \/ call'[j] = Idle
                 /\ call'[i].at \in {"scan", "grow"}
                 /\ \E k \in {Root, Nodes} :
                      /\ call'[i].todo = <<k>>
                      /\ call'[i].at = "grow" => blocks'[k] = <<>> /\ call'[i].ord = 0
      <3>1. i = h
        BY <2>7, <2>9
      <3> QED
        BY <1>3, <2>2, <2>3, <2>5, <2>6, <3>1
    <2> QED
      BY <1>3, <2>1, <2>8, <2>9 DEF BootInv
  <1> QED
    BY <1>4, <1>5, ScanInv

LEMMA GrowBoot ==
    ASSUME BootFits, Inv, BootInv, NEW h \in Harts, Grow(h)
    PROVE  (~Booted' => BootInv') /\ failed' = failed
  <1> DEFINE m == Head(call[h].todo)
             ord == call[h].ord
  <1>1. call[h].at = "grow"
    BY DEF Grow
  <1>2. /\ call \in [Harts -> CallType] /\ blk \in [Pages!Page -> BlockType \cup {NULL}]
        /\ blocks \in [Mgr -> Seq(Pages!Page)] /\ Sound(call[h], blk)
        /\ Books(free, owned, blocks, blk, live)
    BY DEF Inv, StateType, Books
  <1>3. ASSUME NEW b \in Pages!Page, Block(b, ord) \subseteq free, blocks' = Linked(b, m),
               blk' = [[blk EXCEPT ![b] = NewBlock(b, ord, m)] EXCEPT ![b] = SlotTaken(@)],
               call' = [call EXCEPT ![h] = Idle],
               boot' = (IF Booted THEN boot ELSE boot + 1), ~Booted'
        PROVE  BootInv'
    <2>1. ~Booted /\ boot' = boot + 1 /\ boot \in Nat /\ boot > 0
      BY <1>3, BootCount
    <2>2. /\ m \in {Root, Nodes} /\ m \in Mgr /\ blocks[m] = <<>> /\ ord = 0
          /\ \A i \in Harts : i # h => call[i] = Idle
      BY <1>1, <2>1, BootCall
    <2>3. \A i \in Harts : call'[i] = Idle
      BY <1>2, <1>3, <2>2
    <2>4. ord \in Pages!Orders /\ HasRoom(ord, m)
      BY <1>1, <1>2, CallFields DEF Sound
    <2> DEFINE r == NewBlock(b, ord, m)
    <2>5. /\ r.free_slots = SlotsOf(b, ord, m) /\ r.order = ord /\ r.used = 0
      BY DEF NewBlock
    <2>6. r.free_slots # <<>>
      BY <2>2, <2>4, <2>5, NewHasSlot
    <2>7. r \in BlockType
      <3> DEFINE B == [blk EXCEPT ![b] = r]
      <3>1. b \in Made(B) /\ Books(free \ Block(b, ord), owned \cup Block(b, ord),
                                   [blocks EXCEPT ![m] = <<b>> \o @], B, live)
        BY <1>2, <1>3, <2>2, <2>4, AddBlock
      <3>2. B[b] = r
        BY <1>2
      <3> HIDE DEF B, r
      <3>3. B \in [Pages!Page -> BlockType \cup {NULL}]
        BY <3>1 DEF Books
      <3> QED
        BY <3>1, <3>2, <3>3, MadeType
    <2> HIDE DEF r
    <2>8. SlotTaken(r).order = ord /\ SlotTaken(r).used = 0 + 1
      BY <2>5, <2>6, <2>7, TakenFields
    <2>9. blk'[b] = SlotTaken(r) /\ \A c \in Pages!Page : c # b => blk'[c] = blk[c]
      BY <1>2, <1>3 DEF r
    <2>10. ASSUME NEW c \in Made(blk') PROVE blk'[c].order = 0 /\ blk'[c].used < boot'
      <3>1. CASE c = b
        <4>1. 0 + 1 < boot'
          BY <2>1, SMT
        <4> QED
          BY <2>2, <2>8, <2>9, <3>1, <4>1
      <3>2. CASE c # b
        <4>1. c \in Made(blk) /\ blk'[c] = blk[c]
          BY <2>9, <3>2 DEF Made
        <4> DEFINE u == blk[c].used
        <4>2. u \in Nat /\ u < boot /\ blk[c].order = 0
          BY <1>2, <2>1, <4>1, MadeType, Fields DEF BootInv
        <4> HIDE DEF u
        <4>3. u < boot'
          BY <2>1, <4>2, SMT
        <4> QED
          BY <4>1, <4>2, <4>3 DEF u
      <3> QED
        BY <3>1, <3>2
    <2>11. ASSUME NEW k \in Mgr
           PROVE  (k \notin {Root, Nodes} => blocks'[k] = <<>>) /\ Len(blocks'[k]) <= 1
      <3>1. CASE k = m
        <4>1. blocks'[m] = <<b>> \o <<>>
          BY <1>2, <1>3, <2>2 DEF Linked
        <4>2. Len(<<b>> \o <<>>) <= 1
          BY SMT
        <4> QED
          BY <2>2, <3>1, <4>1, <4>2
      <3>2. CASE k # m
        <4>1. blocks'[k] = blocks[k]
          BY <1>2, <1>3, <2>2, <3>2 DEF Linked
        <4> QED
          BY <2>1, <4>1 DEF BootInv
      <3> QED
        BY <3>1, <3>2
    <2> QED
      BY <2>3, <2>10, <2>11 DEF BootInv
  <1>4. CASE \E b \in Pages!Page :
               /\ Block(b, ord) \subseteq free /\ owned' = owned \cup Block(b, ord)
               /\ blocks' = Linked(b, m)
               /\ blk' = [[blk EXCEPT ![b] = NewBlock(b, ord, m)] EXCEPT ![b] = SlotTaken(@)]
               /\ call' = [call EXCEPT ![h] = Idle] /\ failed' = failed
               /\ boot' = IF Booted THEN boot ELSE boot + 1
    BY <1>3, <1>4
  <1>5. CASE /\ Pages!Candidates(ord) = {} /\ Retry(h, m, ord)
             /\ UNCHANGED <<free, owned, blocks, blk, live, created, uni_managers, boot>>
    <2>1. Booted
      <3> SUFFICES ASSUME ~Booted PROVE FALSE
        OBVIOUS
      <3>1. m \in {Root, Nodes} /\ blocks[m] = <<>> /\ ord = 0
        BY <1>1, BootCall
      <3> QED
        BY <1>5, <3>1, PageLeft
    <2>2. Booted'
      BY <1>5, <2>1 DEF Booted
    <2>3. failed' = failed
      BY <1>5, <2>1 DEF Retry, Inv, StateType
    <2> QED
      BY <2>2, <2>3
  <1> QED
    BY <1>4, <1>5, GrowInv

LEMMA InitBoot ==
    ASSUME Exclusive, NEW h \in Harts, BootInv, Inv, KmemInit(h)
    PROVE  BootInv'
  <1> DEFINE m == BootScript[boot].from
             c == [at |-> "scan", todo |-> <<m>>, size |-> object_size(m),
                   new |-> BootScript[boot].new]
  <1>1. /\ ~Booted /\ \A i \in Harts : call[i] = Idle
        /\ call' = [call EXCEPT ![h] = c]
        /\ blocks' = blocks /\ blk' = blk /\ boot' = boot
    BY DEF KmemInit, Begin
  <1>2. m \in {Root, Nodes}
    BY KmemInitInv
  <1> HIDE DEF m
  <1>3. c.at = "scan" /\ c.todo = <<m>>
    OBVIOUS
  <1> HIDE DEF c
  <1>4. call'[h] = c /\ \A i \in Harts : i # h => call'[i] = Idle
    BY <1>1 DEF Inv, StateType
  <1>5. ASSUME NEW i \in Harts, call'[i] # Idle
        PROVE  /\ \A j \in Harts : j = i \/ call'[j] = Idle
               /\ call'[i].at \in {"scan", "grow"}
               /\ \E k \in {Root, Nodes} :
                    /\ call'[i].todo = <<k>>
                    /\ call'[i].at = "grow" => blocks'[k] = <<>> /\ call'[i].ord = 0
    <2>1. i = h
      BY <1>4, <1>5
    <2> QED
      BY <1>2, <1>3, <1>4, <2>1
  <1> QED
    BY <1>1, <1>5 DEF BootInv

LEMMA NextBoot ==
    ASSUME Exclusive, BootFits
    PROVE  Inv /\ BootInv /\ ~failed /\ [Next]_vars => BootInv' /\ ~failed'
  <1> SUFFICES ASSUME Inv, BootInv, ~failed, [Next]_vars PROVE BootInv' /\ ~failed'
    OBVIOUS
  <1>1. ASSUME NEW h \in Harts, KmemInit(h) PROVE BootInv' /\ ~failed'
    <2>1. failed' = failed
      BY <1>1 DEF KmemInit
    <2> QED
      BY <1>1, <2>1, InitBoot
  <1>2. ASSUME Booted, boot' = boot, failed' = failed PROVE BootInv' /\ ~failed'
    <2>1. Booted'
      BY <1>2 DEF Booted
    <2> QED
      BY <1>2, <2>1 DEF BootInv
  <1>3. ASSUME NEW h \in Harts, NEW size \in Requests, kmem_alloc(h, size)
        PROVE  BootInv' /\ ~failed'
    BY <1>2, <1>3 DEF kmem_alloc
  <1>4. ASSUME NEW h \in Harts, Scan(h) PROVE BootInv' /\ ~failed'
    <2>1. failed' = failed
      BY <1>4, ScanInv
    <2>2. CASE ~Booted'
      BY <1>4, <2>1, <2>2, ScanBoot
    <2>3. CASE Booted'
      BY <2>1, <2>3 DEF BootInv
    <2> QED
      BY <2>2, <2>3
  <1>5. ASSUME NEW h \in Harts, Grow(h) PROVE BootInv' /\ ~failed'
    <2>1. (~Booted' => BootInv') /\ failed' = failed
      BY <1>5, GrowBoot
    <2> QED
      BY <2>1 DEF BootInv
  <1>6. ASSUME NEW h \in Harts, NEW x \in live, kmem_object_free(h, x) PROVE BootInv' /\ ~failed'
    BY <1>2, <1>6 DEF kmem_object_free
  <1>7. ASSUME NEW h \in Harts, NEW b \in Pages!Page, FreeBlockCheck(h, b)
        PROVE  BootInv' /\ ~failed'
    BY <1>2, <1>7 DEF FreeBlockCheck
  <1>8. ASSUME NEW h \in Harts, FreeBlock(h) PROVE BootInv' /\ ~failed'
    <2>1. call[h].at = "reclaim" /\ call[h] # Idle
      BY <1>8, IdleSound DEF FreeBlock
    <2>2. Booted
      BY <2>1 DEF BootInv
    <2> QED
      BY <1>2, <1>8, <2>2 DEF FreeBlock
  <1>9. CASE UNCHANGED vars
    <2>1. /\ blocks' = blocks /\ blk' = blk /\ call' = call /\ boot' = boot /\ failed' = failed
      BY <1>9 DEF vars
    <2> QED
      BY <2>1 DEF BootInv, Booted
  <1> QED
    BY <1>1, <1>3, <1>4, <1>5, <1>6, <1>7, <1>8, <1>9 DEF Next

\* In a memory in which kmem_init finds its two blocks no allocation panics and boot does
\* not fail, and every slot and every page stays accounted for.
THEOREM BooksRight ==
    ASSUME Exclusive, BootFits PROVE Spec => []Accounted
  <1>1. Init => BootInv /\ ~failed
    <2> SUFFICES ASSUME Init PROVE BootInv /\ ~failed
      OBVIOUS
    <2>1. \A m \in Mgr : blocks[m] = <<>>
      BY DEF Init
    <2>2. Len(<<>>) <= 1
      BY SMT
    <2>3. Made(blk) = {} /\ \A h \in Harts : call[h] = Idle
      BY DEF Init, Made
    <2> QED
      BY <2>1, <2>2, <2>3 DEF BootInv, Init
  <1>2. Inv /\ BootInv /\ ~failed /\ [Next]_vars => BootInv' /\ ~failed'
    BY NextBoot
  <1>3. Inv /\ ~failed => Accounted
    BY InvType, InvSlots, InvPages DEF Accounted, NoFailure
  <1> QED
    BY <1>1, <1>2, <1>3, KmemInvariant, PTL DEF Spec

=============================================================================
