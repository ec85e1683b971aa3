---------------------------- MODULE BuddyProofs ----------------------------
(***************************************************************************)
(* The buddy allocator (memory/buddy.c) for every number of pages, every   *)
(* number of orders and every set of pages the boot allocator leaves free, *)
(* as long as the maps of the orders do not run into each other: ListsInv  *)
(* and Coalesced hold in every state, and it implements PageAlloc.         *)
(*                                                                         *)
(* The argument follows the code.  A bit of free_area_map is the parity of *)
(* a pair (Parity), so an iteration of kmem_free_page finds its buddy on   *)
(* the list exactly if the toggled bit is clear, and an iteration of the   *)
(* splitting loop puts both halves of a block where the block was.  Each   *)
(* loop has an invariant (FreeInv, SplitInv) that says what the lists lack *)
(* while it runs.  Complete merging (Merged) is what makes the answer NULL *)
(* right: an aligned run of free pages cannot be spread over two blocks.   *)
(***************************************************************************)
EXTENDS Buddy, PowerLemmas

\* Steps without arithmetic go to Zenon; the others name SMT.
USE ZenonT(30)

\* No pair of buddies has its bit past the end of the map of its order.
MapsApart ==
    \A ord \in Orders : (NumPages - 1) \div Pow2[ord + 1] < 8 * free_area_map_size(ord)

-----------------------------------------------------------------------------

\* What the assumptions on the constants say of orders and pages.
LEMMA Sizes ==
    /\ MaxOrder \in Nat /\ NumPages \in Nat /\ NumPages > 0 /\ 0 \in Orders
    /\ \A ord \in Orders : ord \in Nat /\ ord + 1 \in Nat /\ ord < MaxOrder
    /\ \A n \in Nat : Pow2[n] \in Nat /\ Pow2[n] > 0 /\ Pow2[n + 1] = 2 * Pow2[n]
    /\ \A p \in Page : p \in Nat /\ p < NumPages
  <1>1. \A n \in Nat : Pow2[n] \in Nat /\ Pow2[n] > 0 /\ Pow2[n + 1] = 2 * Pow2[n]
    BY PowType
  <1>2. Pow2[MaxOrder] \in Nat /\ Pow2[MaxOrder] > 0
    BY <1>1, SizeAssumption
  <1> QED
    BY <1>1, <1>2, SizeAssumption, SMT DEF Orders, Page

\* A map has a number of bytes.
LEMMA MapSize ==
    ASSUME NEW ord \in Nat
    PROVE  free_area_map_size(ord) \in Nat
  <1>1. ord + 1 \in Nat
    BY SMT
  <1>2. NumPages \div Pow2[ord + 1] \in Nat
    BY <1>1, Sizes, Multiple
  <1> QED
    BY <1>2, SMT DEF free_area_map_size

\* The maps lie one behind the other.
LEMMA MapBeginType ==
    /\ MapBegin \in [Nat -> Nat]
    /\ MapBegin[0] = 0
    /\ \A n \in Nat : MapBegin[n + 1] = MapBegin[n] + 8 * free_area_map_size(n)
  <1> DEFINE Fits(f) == f = [ord \in Nat |-> IF ord = 0 THEN 0
                              ELSE f[ord - 1] + 8 * free_area_map_size(ord - 1)]
  <1>1. \E f : Fits(f)
    <2> DEFINE H == [n \in Nat |-> [x \in Nat |-> x + 8 * free_area_map_size(n)]]
    <2>1. H \in [Nat -> [Nat -> Nat]]
      BY MapSize, SMT
    <2> HIDE DEF H
    <2>2. PICK f \in [Nat -> Nat] : Follows(f, 0, H)
      <3>1. 0 \in Nat
        BY SMT
      <3> QED
        BY <2>1, <3>1, Recursion
    <2>3. \A n \in Nat : f[n + 1] = f[n] + 8 * free_area_map_size(n)
      BY <2>2 DEF H, Follows
    <2>4. \A k \in Nat : k # 0 => k - 1 \in Nat /\ (k - 1) + 1 = k
      BY SMT
    <2>5. \A k \in Nat : f[k] = IF k = 0 THEN 0 ELSE f[k - 1] + 8 * free_area_map_size(k - 1)
      BY <2>2, <2>3, <2>4 DEF Follows
    <2> QED
      BY <2>5
  <1>2. Fits(MapBegin)
    BY <1>1 DEF MapBegin
  <1>3. MapBegin[0] = 0
    BY <1>2, SMT
  <1>4. \A n \in Nat : MapBegin[n + 1] = MapBegin[n] + 8 * free_area_map_size(n)
    <2>1. \A k \in Nat : k # 0 => MapBegin[k] = MapBegin[k - 1] + 8 * free_area_map_size(k - 1)
      BY <1>2
    <2>2. \A n \in Nat : n + 1 \in Nat /\ n + 1 # 0 /\ (n + 1) - 1 = n
      BY SMT
    <2> QED
      BY <2>1, <2>2
  <1> DEFINE S == {n \in Nat : MapBegin[n] \in Nat}
  <1>5. 0 \in S
    BY <1>3, SMT
  <1>6. ASSUME NEW n \in Nat, n \in S PROVE n + 1 \in S
    BY <1>4, <1>6, MapSize, SMT
  <1>7. MapBegin = [n \in Nat |-> MapBegin[n]]
    BY <1>2
  <1> HIDE DEF S
  <1>8. \A n \in Nat : n \in S
    BY <1>5, <1>6, Induct
  <1> QED
    BY <1>3, <1>4, <1>7, <1>8 DEF S

\* The map of a higher order begins later.
LEMMA MapBeginMono ==
    ASSUME NEW j \in Nat, NEW k \in Nat, j <= k
    PROVE  MapBegin[j] <= MapBegin[k]
  <1> DEFINE S == {n \in Nat : MapBegin[j] <= MapBegin[j + n]}
  <1>0. \A n \in Nat : MapBegin[n] \in Nat
    BY MapBeginType
  <1>1. 0 \in S
    BY <1>0, SMT
  <1>2. ASSUME NEW n \in Nat, n \in S PROVE n + 1 \in S
    <2>1. MapBegin[j + (n + 1)] = MapBegin[j + n] + 8 * free_area_map_size(j + n)
      BY MapBeginType, SMT
    <2>2. j + n \in Nat
      BY SMT
    <2>3. free_area_map_size(j + n) \in Nat
      BY <2>2, MapSize
    <2> QED
      BY <1>0, <1>2, <2>1, <2>2, <2>3, SMT
  <1> HIDE DEF S
  <1>3. k - j \in S
    BY <1>1, <1>2, Induct, SMT
  <1>4. j + (k - j) = k
    BY SMT
  <1> QED
    BY <1>3, <1>4 DEF S

\* The bits of different pairs are different bits.
LEMMA MapPosApart ==
    ASSUME MapsApart, NEW j \in Orders, NEW k \in Orders, NEW p \in Page, NEW q \in Page
    PROVE  /\ MapPos(j, p) \in 0 .. MapBegin[MaxOrder]
           /\ MapPos(j, p) = MapPos(k, q) =>
                j = k /\ p \div Pow2[j + 1] = q \div Pow2[k + 1]
  <1>1. ASSUME NEW i \in Orders, NEW x \in Page
        PROVE  /\ x \div Pow2[i + 1] \in Nat /\ MapBegin[i] \in Nat
               /\ MapPos(i, x) = MapBegin[i] + (x \div Pow2[i + 1])
               /\ MapPos(i, x) < MapBegin[i + 1]
    <2>1. i \in Nat /\ i + 1 \in Nat /\ Pow2[i + 1] \in Nat /\ Pow2[i + 1] > 0
      BY Sizes
    <2>2. x \in Nat /\ NumPages - 1 \in Nat /\ x <= NumPages - 1
      BY Sizes, SMT
    <2>3. x \div Pow2[i + 1] \in Nat /\ (NumPages - 1) \div Pow2[i + 1] \in Nat
      BY <2>1, <2>2, Division
    <2>4. x \div Pow2[i + 1] <= (NumPages - 1) \div Pow2[i + 1]
      BY <2>1, <2>2, QuotientMono
    <2>5. (NumPages - 1) \div Pow2[i + 1] < 8 * free_area_map_size(i)
      BY MapsApart DEF MapsApart
    <2>6. MapBegin[i] \in Nat /\ MapBegin[i + 1] = MapBegin[i] + 8 * free_area_map_size(i)
      BY <2>1, MapBeginType
    <2>7. MapPos(i, x) = MapBegin[i] + (x \div Pow2[i + 1])
      BY DEF MapPos
    <2>8. free_area_map_size(i) \in Nat
      BY <2>1, MapSize
    <2> HIDE DEF Page, Orders
    <2> QED
      BY <2>3, <2>4, <2>5, <2>6, <2>7, <2>8, SMT
  <1>2. ASSUME NEW i \in Orders, NEW h \in Orders, i < h PROVE MapBegin[i + 1] <= MapBegin[h]
    <2>1. i + 1 \in Nat /\ h \in Nat /\ i + 1 <= h
      BY <1>2, Sizes, SMT
    <2> QED
      BY <2>1, MapBeginMono
  <1>3. MapBegin[j + 1] <= MapBegin[MaxOrder] /\ MapBegin[MaxOrder] \in Nat /\ MapBegin[j + 1] \in Nat
    <2>1. j + 1 \in Nat /\ MaxOrder \in Nat /\ j + 1 <= MaxOrder
      BY Sizes, SMT
    <2> QED
      BY <2>1, MapBeginMono, MapBeginType
  <1>4. MapPos(j, p) \in 0 .. MapBegin[MaxOrder]
    BY <1>1, <1>3, SMT
  <1>5. ASSUME MapPos(j, p) = MapPos(k, q), j < k PROVE FALSE
    <2>1. MapBegin[j + 1] <= MapBegin[k]
      BY <1>2, <1>5
    <2> QED
      BY <1>1, <1>3, <1>5, <2>1, SMT
  <1>6. ASSUME MapPos(j, p) = MapPos(k, q), k < j PROVE FALSE
    <2>1. MapBegin[k + 1] <= MapBegin[j] /\ MapBegin[k + 1] \in Nat
      BY <1>2, <1>6, MapBeginType, Sizes
    <2> QED
      BY <1>1, <1>6, <2>1, SMT
  <1>7. ASSUME MapPos(j, p) = MapPos(k, q) PROVE j = k
    <2>1. j < k \/ k < j \/ j = k
      BY SMT DEF Orders
    <2> QED
      BY <1>5, <1>6, <1>7, <2>1
  <1>8. ASSUME MapPos(j, p) = MapPos(j, q) PROVE p \div Pow2[j + 1] = q \div Pow2[j + 1]
    BY <1>1, <1>8, SMT
  <1> QED
    BY <1>4, <1>7, <1>8

\* Two blocks of one order share their bit if they are a pair.
LEMMA MapPosPair ==
    ASSUME MapsApart, NEW k \in Orders, NEW p \in Page, NEW q \in Page
    PROVE  MapPos(k, p) = MapPos(k, q) <=> p \div Pow2[k + 1] = q \div Pow2[k + 1]
  <1>1. MapPos(k, p) = MapPos(k, q) => p \div Pow2[k + 1] = q \div Pow2[k + 1]
    BY MapPosApart
  <1>2. p \div Pow2[k + 1] = q \div Pow2[k + 1] => MapPos(k, p) = MapPos(k, q)
    BY DEF MapPos
  <1> QED
    BY <1>1, <1>2

-----------------------------------------------------------------------------

\* The lists and maps as an operation passes them on.
AreaType == [list : [Orders -> Seq(Nat)], map : [0 .. MapBegin[MaxOrder] -> {0, 1}],
             ok : BOOLEAN, done : BOOLEAN]

\* The bits and the lists that toggle_bit and list_insert leave.
Flip(map, ord, pn) == [map EXCEPT ![MapPos(ord, pn)] = 1 - @]
Pushed(list, ord, pn) == [list EXCEPT ![ord] = <<pn>> \o @]

\* The fields of an Area.
LEMMA AreaFields ==
    ASSUME NEW list, NEW map, NEW ok, NEW done
    PROVE  /\ Area(list, map, ok, done).list = list
           /\ Area(list, map, ok, done).map = map
           /\ Area(list, map, ok, done).ok = ok
           /\ Area(list, map, ok, done).done = done
  BY SMT DEF Area

\* An Area of lists and bits has the right type.
LEMMA AreaIsArea ==
    ASSUME NEW list \in [Orders -> Seq(Nat)], NEW map \in [0 .. MapBegin[MaxOrder] -> {0, 1}],
           NEW ok \in BOOLEAN, NEW done \in BOOLEAN
    PROVE  Area(list, map, ok, done) \in AreaType
  BY SMT DEF Area, AreaType

\* The types of the fields of an Area.
LEMMA FieldTypes ==
    ASSUME NEW s \in AreaType
    PROVE  /\ s.list \in [Orders -> Seq(Nat)]
           /\ s.map \in [0 .. MapBegin[MaxOrder] -> {0, 1}]
           /\ s.ok \in BOOLEAN /\ s.done \in BOOLEAN
  BY DEF AreaType

\* toggle_bit leaves bits.
LEMMA FlipType ==
    ASSUME NEW D, NEW map \in [D -> {0, 1}], NEW i
    PROVE  [map EXCEPT ![i] = 1 - @] \in [D -> {0, 1}]
  <1>1. CASE i \in D
    BY <1>1, SMT
  <1>2. CASE i \notin D
    <2>1. [map EXCEPT ![i] = 1 - @] = map
      BY <1>2
    <2> QED
      BY <2>1
  <1> QED
    BY <1>1, <1>2

\* list_insert leaves lists.
LEMMA PushType ==
    ASSUME NEW list \in [Orders -> Seq(Nat)], NEW ord, NEW pn, ord \in Orders => pn \in Nat
    PROVE  [list EXCEPT ![ord] = <<pn>> \o @] \in [Orders -> Seq(Nat)]
  <1>1. CASE ord \in Orders
    <2>1. pn \in Nat /\ list[ord] \in Seq(Nat)
      BY <1>1
    <2>2. <<pn>> \o list[ord] \in Seq(Nat)
      BY <2>1, SMT
    <2> QED
      BY <2>2
  <1>2. CASE ord \notin Orders
    <2>1. [list EXCEPT ![ord] = <<pn>> \o @] = list
      BY <1>2
    <2> QED
      BY <2>1
  <1> QED
    BY <1>1, <1>2

-----------------------------------------------------------------------------

\* The lists, whatever numbers are on them.
ListType == [Orders -> Seq(Nat)]

\* A listed block begins with its page.
LEMMA ListedType ==
    ASSUME NEW list \in ListType, NEW k \in Orders, NEW p \in Range(list[k])
    PROVE  p \in Nat /\ p \in Block(p, k) /\ k \in Nat
  <1>1. k \in Nat /\ Pow2[k] \in Nat /\ Pow2[k] > 0
    BY Sizes
  <1>2. list[k] \in Seq(Nat)
    BY DEF ListType
  <1>3. PICK i \in DOMAIN list[k] : list[k][i] = p
    BY DEF Range
  <1>4. p \in Nat
    BY <1>2, <1>3, SMT
  <1> QED
    BY <1>1, <1>4, SMT DEF Block

\* A page is covered if it lies in a listed block.
LEMMA InCovered ==
    ASSUME NEW list, NEW x
    PROVE  x \in Covered(list) <=> \E k \in Orders : \E p \in Range(list[k]) : x \in Block(p, k)
  <1> DEFINE Pages(k) == UNION {Block(p, k) : p \in Range(list[k])}
  <1>1. \A k \in Orders : x \in Pages(k) <=> \E p \in Range(list[k]) : x \in Block(p, k)
    OBVIOUS
  <1>2. Covered(list) = UNION {Pages(k) : k \in Orders}
    BY DEF Covered
  <1> HIDE DEF Pages
  <1>3. x \in UNION {Pages(k) : k \in Orders} <=> \E k \in Orders : x \in Pages(k)
    OBVIOUS
  <1> QED
    BY <1>1, <1>2, <1>3

\* What is known of two sets of lists that differ in one block.
OneMore(more, list, k, p) ==
    /\ p \notin Range(list[k])
    /\ Range(more[k]) = Range(list[k]) \cup {p}
    /\ \A j \in Orders : j # k => Range(more[j]) = Range(list[j])

\* Listing a block beside the others adds its pages.
LEMMA PartitionAdd ==
    ASSUME NEW list, NEW more, NEW F, NEW k \in Orders, NEW p,
           OneMore(more, list, k, p), Partition(list, F),
           \A j \in Orders : IsInjective(more[j]),
           p % Pow2[k] = 0, Block(p, k) \cap F = {}
    PROVE  Partition(more, F \cup Block(p, k))
  <1>0. Covered(list) = F
    BY DEF Partition
  <1>1. \A j \in Orders : \A q : q \in Range(more[j]) <=> q \in Range(list[j]) \/ (j = k /\ q = p)
    BY DEF OneMore
  <1>2. ASSUME NEW x PROVE x \in Covered(more) <=> x \in F \/ x \in Block(p, k)
    BY <1>0, <1>1, InCovered
  <1>3. ASSUME NEW j \in Orders, NEW q \in Range(more[j]) PROVE q % Pow2[j] = 0
    BY <1>1 DEF Partition
  <1>4. ASSUME NEW j \in Orders, NEW q \in Range(list[j]) PROVE Block(p, k) \cap Block(q, j) = {}
    BY <1>0, InCovered
  <1>5. ASSUME NEW i \in Orders, NEW j \in Orders, NEW q \in Range(more[i]), NEW r \in Range(more[j])
        PROVE  (i = j /\ q = r) \/ Block(q, i) \cap Block(r, j) = {}
    <2>1. CASE q \in Range(list[i]) /\ r \in Range(list[j])
      BY <2>1 DEF Partition
    <2>2. CASE i = k /\ q = p /\ r \in Range(list[j])
      BY <1>4, <2>2
    <2>3. CASE q \in Range(list[i]) /\ j = k /\ r = p
      BY <1>4, <2>3
    <2>4. CASE i = k /\ q = p /\ j = k /\ r = p
      BY <2>4
    <2> QED
      BY <1>1, <2>1, <2>2, <2>3, <2>4
  <1>6. Covered(more) = F \cup Block(p, k)
    BY <1>2
  <1> QED
    BY <1>3, <1>5, <1>6 DEF Partition

\* Taking a block off its list removes its pages.
LEMMA PartitionCut ==
    ASSUME NEW list, NEW more, NEW F, NEW k \in Orders, NEW p,
           OneMore(more, list, k, p), Partition(more, F),
           \A j \in Orders : IsInjective(list[j])
    PROVE  Partition(list, F \ Block(p, k))
  <1>0. Covered(more) = F
    BY DEF Partition
  <1>1. \A j \in Orders : \A q : q \in Range(more[j]) <=> q \in Range(list[j]) \/ (j = k /\ q = p)
    BY DEF OneMore
  <1>2. ASSUME NEW j \in Orders, NEW q \in Range(list[j]) PROVE Block(q, j) \cap Block(p, k) = {}
    <2>1. ~(j = k /\ q = p)
      BY DEF OneMore
    <2> QED
      BY <1>1, <2>1 DEF Partition
  <1>3. ASSUME NEW x PROVE x \in Covered(list) <=> x \in F /\ x \notin Block(p, k)
    BY <1>0, <1>1, <1>2, InCovered
  <1>4. Covered(list) = F \ Block(p, k)
    BY <1>3
  <1> QED
    BY <1>1, <1>4 DEF Partition

\* list_insert of a block of pages that are on no list.
LEMMA Inserted ==
    ASSUME NEW list \in ListType, NEW F, NEW k \in Orders, NEW p \in Nat,
           Partition(list, F), p % Pow2[k] = 0, Block(p, k) \cap F = {}
    PROVE  LET more == Pushed(list, k, p)
           IN  /\ more \in ListType
               /\ OneMore(more, list, k, p)
               /\ Partition(more, F \cup Block(p, k))
  <1> DEFINE more == Pushed(list, k, p)
  <1>1. list[k] \in Seq(Nat) /\ IsInjective(list[k])
    BY DEF ListType, Partition
  <1>2. p \notin Range(list[k])
    <2>1. ASSUME p \in Range(list[k]) PROVE FALSE
      <3>1. p \in Block(p, k)
        BY <2>1, ListedType
      <3>2. p \in Covered(list)
        BY <2>1, <3>1, InCovered
      <3> QED
        BY <3>1, <3>2 DEF Partition
    <2> QED
      BY <2>1
  <1>3. Range(<<p>> \o list[k]) = Range(list[k]) \cup {p} /\ IsInjective(<<p>> \o list[k])
    BY <1>1, <1>2, PushFront
  <1>4. more \in ListType
    BY PushType DEF ListType, Pushed
  <1>5. more[k] = <<p>> \o list[k] /\ \A j \in Orders : j # k => more[j] = list[j]
    BY DEF ListType, Pushed
  <1> HIDE DEF more
  <1>6. OneMore(more, list, k, p)
    BY <1>2, <1>3, <1>5 DEF OneMore
  <1>7. \A j \in Orders : IsInjective(more[j])
    BY <1>3, <1>5 DEF Partition
  <1>8. Partition(more, F \cup Block(p, k))
    BY <1>6, <1>7, PartitionAdd
  <1> QED
    BY <1>4, <1>6, <1>8 DEF more

\* The lists when the block at p is unlinked.
Without(list, p) ==
    [ord \in Orders |->
        IF p \in Range(list[ord])
        THEN Unlinked(list[ord], CHOOSE i \in DOMAIN list[ord] : list[ord][i] = p)
        ELSE list[ord]]

\* list_detach of a block that is listed.
LEMMA Detached ==
    ASSUME NEW list \in ListType, NEW F, NEW k \in Orders, NEW p \in Range(list[k]),
           Partition(list, F)
    PROVE  /\ Without(list, p) \in ListType
           /\ OneMore(list, Without(list, p), k, p)
           /\ Partition(Without(list, p), F \ Block(p, k))
  <1> DEFINE less == Without(list, p)
  <1>1. ASSUME NEW j \in Orders, j # k PROVE p \notin Range(list[j])
    <2>1. ASSUME p \in Range(list[j]) PROVE FALSE
      <3>1. p \in Block(p, j) /\ p \in Block(p, k)
        BY <2>1, ListedType
      <3> QED
        BY <1>1, <2>1, <3>1 DEF Partition
    <2> QED
      BY <2>1
  <1>2. \A j \in Orders : j # k => less[j] = list[j]
    BY <1>1 DEF Without
  <1>3. PICK i \in DOMAIN list[k] : list[k][i] = p /\ less[k] = Unlinked(list[k], i)
    <2> DEFINE c == CHOOSE i \in DOMAIN list[k] : list[k][i] = p
    <2>1. \E i \in DOMAIN list[k] : list[k][i] = p
      BY DEF Range
    <2>2. c \in DOMAIN list[k] /\ list[k][c] = p
      BY <2>1
    <2>3. less[k] = Unlinked(list[k], c)
      BY DEF Without
    <2> QED
      BY <2>2, <2>3
  <1>4. list[k] \in Seq(Nat) /\ IsInjective(list[k])
    BY DEF ListType, Partition
  <1>0. less = [j \in Orders |-> less[j]]
    BY SMT DEF Without
  <1> HIDE DEF less
  <1>5. Range(less[k]) = Range(list[k]) \ {p} /\ IsInjective(less[k]) /\ less[k] \in Seq(Nat)
    <2>1. Unlinked(list[k], i) \in Seq(Nat)
      BY <1>4, UnlinkSeq
    <2>2. /\ Range(Unlinked(list[k], i)) = Range(list[k]) \ {list[k][i]}
          /\ IsInjective(Unlinked(list[k], i))
      BY <1>4, Unlink
    <2> QED
      BY <1>3, <2>1, <2>2
  <1>6. less \in ListType
    <2>1. \A j \in Orders : less[j] \in Seq(Nat)
      BY <1>2, <1>5 DEF ListType
    <2> QED
      BY <1>0, <2>1 DEF ListType
  <1>7. OneMore(list, less, k, p)
    BY <1>2, <1>5 DEF OneMore
  <1>8. \A j \in Orders : IsInjective(less[j])
    BY <1>2, <1>5 DEF Partition
  <1>9. Partition(less, F \ Block(p, k))
    BY <1>7, <1>8, PartitionCut
  <1> QED
    BY <1>6, <1>7, <1>9 DEF less

-----------------------------------------------------------------------------

\* The bits of the maps of all orders.
Bits == [0 .. MapBegin[MaxOrder] -> {0, 1}]

\* The bit of a pair changes when one of its blocks is listed or unlisted.
LEMMA ParityFlip ==
    ASSUME MapsApart, NEW list, NEW more, NEW map \in Bits, NEW k \in Orders, NEW c \in Page,
           c % Pow2[k] = 0, OneMore(more, list, k, c)
    PROVE  LET flip == Flip(map, k, c)
           IN  /\ flip \in Bits
               /\ Parity(list, map) => Parity(more, flip)
               /\ Parity(more, map) => Parity(list, flip)
  <1> DEFINE flip == Flip(map, k, c)
             Even(l, j, p) == p \in Range(l[j]) <=> p + Pow2[j] \in Range(l[j])
  <1>1. flip \in Bits
    BY FlipType DEF Bits, Flip
  <1>2. ASSUME NEW j \in Orders, NEW p \in Page, p % Pow2[j + 1] = 0, j # k
        PROVE  flip[MapPos(j, p)] = map[MapPos(j, p)] /\ (Even(more, j, p) <=> Even(list, j, p))
    <2>1. MapPos(j, p) # MapPos(k, c) /\ MapPos(j, p) \in 0 .. MapBegin[MaxOrder]
      BY <1>2, MapPosApart
    <2>2. flip[MapPos(j, p)] = map[MapPos(j, p)]
      BY <2>1 DEF Bits, Flip
    <2> QED
      BY <1>2, <2>2 DEF OneMore
  <1>3. ASSUME NEW p \in Page, p % Pow2[k + 1] = 0
        PROVE  \/ flip[MapPos(k, p)] = map[MapPos(k, p)] /\ (Even(more, k, p) <=> Even(list, k, p))
               \/ flip[MapPos(k, p)] = 1 - map[MapPos(k, p)] /\ (Even(more, k, p) <=> ~Even(list, k, p))
    <2>1. k \in Nat /\ p \in Nat /\ c \in Nat /\ Pow2[k] \in Nat /\ Pow2[k] > 0
      BY Sizes
    <2>2. p \div Pow2[k + 1] = c \div Pow2[k + 1] <=> c = p \/ c = p + Pow2[k]
      BY <1>3, <2>1, SamePair
    <2>3. MapPos(k, p) = MapPos(k, c) <=> c = p \/ c = p + Pow2[k]
      BY <2>2, MapPosPair
    <2>4. MapPos(k, p) \in 0 .. MapBegin[MaxOrder]
      BY MapPosApart
    <2>5. CASE c = p \/ c = p + Pow2[k]
      <3>1. flip[MapPos(k, p)] = 1 - map[MapPos(k, p)]
        BY <2>3, <2>4, <2>5 DEF Bits, Flip
      <3>2. p # p + Pow2[k]
        BY <2>1, SMT
      <3>3. c \notin Range(list[k]) /\ \A q : q \in Range(more[k]) <=> q \in Range(list[k]) \/ q = c
        BY DEF OneMore
      <3>4. CASE c = p
        BY <3>1, <3>2, <3>3, <3>4
      <3>5. CASE c = p + Pow2[k]
        BY <3>1, <3>2, <3>3, <3>5
      <3> QED
        BY <2>5, <3>4, <3>5
    <2>6. CASE ~(c = p \/ c = p + Pow2[k])
      <3>1. flip[MapPos(k, p)] = map[MapPos(k, p)]
        BY <2>3, <2>4, <2>6 DEF Bits, Flip
      <3>2. Even(more, k, p) <=> Even(list, k, p)
        BY <2>6 DEF OneMore
      <3> QED
        BY <3>1, <3>2
    <2> QED
      BY <2>5, <2>6
  <1>4. 1 - 0 = 1 /\ 1 - 1 = 0
    BY SMT
  <1>5. ASSUME NEW l, Parity(l, map), NEW j \in Orders, NEW p \in Page, p % Pow2[j + 1] = 0
        PROVE  map[MapPos(j, p)] = IF Even(l, j, p) THEN 0 ELSE 1
    BY <1>5 DEF Parity
  <1> HIDE DEF flip, Even
  <1>6. ASSUME Parity(list, map), NEW j \in Orders, NEW p \in Page, p % Pow2[j + 1] = 0
        PROVE  flip[MapPos(j, p)] = IF Even(more, j, p) THEN 0 ELSE 1
    <2>1. map[MapPos(j, p)] = IF Even(list, j, p) THEN 0 ELSE 1
      BY <1>5, <1>6
    <2>2. CASE j = k
      BY <1>3, <1>4, <1>6, <2>1, <2>2
    <2>3. CASE j # k
      BY <1>2, <1>6, <2>1, <2>3
    <2> QED
      BY <2>2, <2>3
  <1>7. ASSUME Parity(more, map), NEW j \in Orders, NEW p \in Page, p % Pow2[j + 1] = 0
        PROVE  flip[MapPos(j, p)] = IF Even(list, j, p) THEN 0 ELSE 1
    <2>1. map[MapPos(j, p)] = IF Even(more, j, p) THEN 0 ELSE 1
      BY <1>5, <1>7
    <2>2. CASE j = k
      BY <1>3, <1>4, <1>7, <2>1, <2>2
    <2>3. CASE j # k
      BY <1>2, <1>7, <2>1, <2>3
    <2> QED
      BY <2>2, <2>3
  <1> QED
    BY <1>1, <1>6, <1>7 DEF Parity, flip, Even

\* It does not change when both are.
LEMMA ParityBoth ==
    ASSUME NEW list, NEW one, NEW both, NEW map, NEW k \in Orders, NEW p \in Page,
           p % Pow2[k + 1] = 0, Parity(list, map),
           OneMore(one, list, k, p), OneMore(both, one, k, p + Pow2[k])
    PROVE  Parity(both, map)
  <1> DEFINE r == p + Pow2[k]
             Even(l, j, q) == q \in Range(l[j]) <=> q + Pow2[j] \in Range(l[j])
  <1>1. p # r /\ k \in Nat /\ p \in Nat
    BY Sizes, SMT
  <1>2. \A j \in Orders : \A q : q \in Range(both[j])
              <=> q \in Range(list[j]) \/ (j = k /\ (q = p \/ q = r))
    BY DEF OneMore
  <1>3. p \notin Range(list[k]) /\ r \notin Range(list[k])
    BY <1>1, <1>2 DEF OneMore
  <1>4. ASSUME NEW q \in Page, q % Pow2[k + 1] = 0, q # p
        PROVE  q # r /\ q + Pow2[k] # p /\ q + Pow2[k] # r
    <2>1. q \in Nat /\ Pow2[k] \in Nat
      BY <1>1, Sizes
    <2>2. (q + Pow2[k]) % Pow2[k + 1] # 0 /\ r % Pow2[k + 1] # 0
      BY <1>1, <1>4, <2>1, Halves
    <2>3. q + Pow2[k] # p + Pow2[k]
      BY <1>1, <1>4, <2>1, SMT
    <2> QED
      BY <1>4, <2>2, <2>3
  <1>5. ASSUME NEW j \in Orders, NEW q \in Page, q % Pow2[j + 1] = 0
        PROVE  Even(both, j, q) <=> Even(list, j, q)
    <2>1. CASE j = k /\ q = p
      BY <1>2, <1>3, <2>1
    <2>2. CASE j = k /\ q # p
      BY <1>2, <1>4, <1>5, <2>2
    <2>3. CASE j # k
      BY <1>2, <2>3
    <2> QED
      BY <2>1, <2>2, <2>3
  <1> QED
    BY <1>5 DEF Parity

-----------------------------------------------------------------------------
(* The loop of kmem_free_page *)

\* What an Area is made of.
AreaIs(t, list, map, ok, done) ==
    t \in AreaType /\ t.list = list /\ t.map = map /\ t.ok = ok /\ t.done = done

\* What toggle_bit changes.
LEMMA ToggleArea ==
    ASSUME NEW s \in AreaType, NEW ord, NEW pn
    PROVE  AreaIs(toggle_bit(s, ord, pn), s.list, Flip(s.map, ord, pn), s.ok, s.done)
  <1> DEFINE t == toggle_bit(s, ord, pn)
  <1>1. Flip(s.map, ord, pn) \in Bits
    BY FieldTypes, FlipType DEF Bits, Flip
  <1>2. t = Area(s.list, Flip(s.map, ord, pn), s.ok, s.done)
    BY DEF toggle_bit, Flip
  <1>3. Area(s.list, Flip(s.map, ord, pn), s.ok, s.done) \in AreaType
    BY <1>1, FieldTypes, AreaIsArea DEF Bits
  <1>4. t.list = s.list /\ t.map = Flip(s.map, ord, pn) /\ t.ok = s.ok /\ t.done = s.done
    BY <1>2, AreaFields, SMT
  <1> QED
    BY <1>2, <1>3, <1>4 DEF AreaIs

\* What list_insert changes.
LEMMA InsertArea ==
    ASSUME NEW s \in AreaType, NEW ord, NEW pn, ord \in Orders => pn \in Nat
    PROVE  AreaIs(list_insert(s, ord, pn), Pushed(s.list, ord, pn), s.map, s.ok, s.done)
  <1> DEFINE t == list_insert(s, ord, pn)
  <1>1. Pushed(s.list, ord, pn) \in ListType
    BY FieldTypes, PushType DEF ListType, Pushed
  <1>2. t = Area(Pushed(s.list, ord, pn), s.map, s.ok, s.done)
    BY DEF list_insert, Pushed
  <1>3. Area(Pushed(s.list, ord, pn), s.map, s.ok, s.done) \in AreaType
    BY <1>1, FieldTypes, AreaIsArea DEF ListType
  <1>4. t.list = Pushed(s.list, ord, pn) /\ t.map = s.map /\ t.ok = s.ok /\ t.done = s.done
    BY <1>2, AreaFields, SMT
  <1> QED
    BY <1>2, <1>3, <1>4 DEF AreaIs

\* What list_detach changes, and whether it finds its node.
LEMMA DetachArea ==
    ASSUME NEW s \in AreaType, NEW pn
    PROVE  LET t == list_detach(s, pn)
           IN  /\ t \in AreaType /\ t.list = Without(s.list, pn)
               /\ t.map = s.map /\ t.done = s.done
               /\ t.ok = (s.ok /\ \E ord \in Orders : pn \in Range(s.list[ord]))
  <1> DEFINE ok == s.ok /\ \E ord \in Orders : pn \in Range(s.list[ord])
  <1>1. ASSUME NEW ord \in Orders PROVE Without(s.list, pn)[ord] \in Seq(Nat)
    <2> DEFINE i == CHOOSE i \in DOMAIN s.list[ord] : s.list[ord][i] = pn
    <2>1. s.list[ord] \in Seq(Nat)
      BY FieldTypes
    <2>2. CASE pn \in Range(s.list[ord])
      <3>1. \E j \in DOMAIN s.list[ord] : s.list[ord][j] = pn
        BY <2>2 DEF Range
      <3>2. i \in DOMAIN s.list[ord]
        BY <3>1
      <3>3. Without(s.list, pn)[ord] = Unlinked(s.list[ord], i)
        BY <2>2 DEF Without
      <3> HIDE DEF i
      <3> QED
        BY <2>1, <3>2, <3>3, UnlinkSeq
    <2>3. CASE pn \notin Range(s.list[ord])
      BY <2>1, <2>3 DEF Without
    <2> QED
      BY <2>2, <2>3
  <1>2. Without(s.list, pn) = [ord \in Orders |-> Without(s.list, pn)[ord]]
    BY SMT DEF Without
  <1>3. Without(s.list, pn) \in ListType
    BY <1>1, <1>2 DEF ListType
  <1>4. list_detach(s, pn) = Area(Without(s.list, pn), s.map, ok, s.done)
    BY DEF list_detach, Without
  <1>5. ok \in BOOLEAN
    OBVIOUS
  <1> HIDE DEF ok
  <1>6. Area(Without(s.list, pn), s.map, ok, s.done) \in AreaType
    BY <1>3, <1>5, FieldTypes, AreaIsArea DEF ListType
  <1> DEFINE t == list_detach(s, pn)
  <1>7. t.list = Without(s.list, pn) /\ t.map = s.map /\ t.ok = ok /\ t.done = s.done
    BY <1>4, AreaFields, SMT
  <1> QED
    BY <1>4, <1>6, <1>7 DEF ok

\* An iteration of kmem_free_page leaves lists and maps.
LEMMA FreeStepType ==
    ASSUME NEW pn \in Nat, NEW s \in AreaType, NEW dep \in Nat
    PROVE  FreeStep(pn, s, dep) \in AreaType
  <1> DEFINE c == BlockStart(pn, dep)
             t == toggle_bit(s, dep, c)
             u == list_insert(t, dep, c)
  <1>1. c \in Nat
    BY Pair
  <1> HIDE DEF c
  <1>2. t \in AreaType
    BY ToggleArea DEF AreaIs
  <1> HIDE DEF t
  <1>3. list_detach(t, buddy_pn(c, dep)) \in AreaType
    BY <1>2, DetachArea
  <1>4. u \in AreaType
    BY <1>1, <1>2, InsertArea DEF AreaIs
  <1> HIDE DEF u
  <1>5. Area(u.list, t.map, t.ok, TRUE) \in AreaType
    BY <1>2, <1>4, FieldTypes, AreaIsArea
  <1> QED
    BY <1>3, <1>5 DEF FreeStep, u, t, c

\* The loop of kmem_free_page runs through its iterations.
LEMMA FreeLoopSteps ==
    ASSUME NEW pn \in Nat, NEW s \in AreaType
    PROVE  /\ FreeLoop(pn, s)[0] = s
           /\ \A n \in Nat : FreeLoop(pn, s)[n + 1] = FreeStep(pn, FreeLoop(pn, s)[n], n)
  <1> DEFINE Fits(f) == f = [dep \in Nat |-> IF dep = 0 THEN s
                                             ELSE FreeStep(pn, f[dep - 1], dep - 1)]
             loop == FreeLoop(pn, s)
  <1>1. \E f : Fits(f)
    <2> DEFINE H == [n \in Nat |-> [x \in AreaType |-> FreeStep(pn, x, n)]]
    <2>1. H \in [Nat -> [AreaType -> AreaType]]
      BY FreeStepType
    <2> HIDE DEF H
    <2>2. PICK f \in [Nat -> AreaType] : Follows(f, s, H)
      BY <2>1, Recursion
    <2>3. \A n \in Nat : f[n + 1] = FreeStep(pn, f[n], n)
      BY <2>2 DEF H, Follows
    <2>4. \A k \in Nat : k # 0 => k - 1 \in Nat /\ (k - 1) + 1 = k
      BY SMT
    <2>5. \A k \in Nat : f[k] = IF k = 0 THEN s ELSE FreeStep(pn, f[k - 1], k - 1)
      BY <2>2, <2>3, <2>4 DEF Follows
    <2> QED
      BY <2>5
  <1>2. Fits(loop)
    BY <1>1 DEF FreeLoop
  <1> HIDE DEF loop
  <1>3. loop[0] = s
    BY <1>2, SMT
  <1>4. \A k \in Nat : k # 0 => loop[k] = FreeStep(pn, loop[k - 1], k - 1)
    BY <1>2
  <1>5. \A n \in Nat : n + 1 \in Nat /\ n + 1 # 0 /\ (n + 1) - 1 = n
    BY SMT
  <1>6. \A n \in Nat : loop[n + 1] = FreeStep(pn, loop[n], n)
    BY <1>4, <1>5
  <1> QED
    BY <1>3, <1>6 DEF loop

\* A block c, its buddy b and the block d that they make together.
Buddies(c, b, d, k) ==
    /\ c \in Nat /\ d \in Nat /\ b \in Nat /\ d <= c /\ b # c
    /\ c % Pow2[k] = 0 /\ d % Pow2[k + 1] = 0 /\ b % Pow2[k] = 0
    /\ \/ c = d /\ b = d + Pow2[k]
       \/ c = d + Pow2[k] /\ b = d
    /\ Block(d, k + 1) = Block(c, k) \cup Block(b, k)
    /\ Block(c, k) \cap Block(b, k) = {}
    /\ b \div Pow2[k + 1] = c \div Pow2[k + 1]
    /\ d \div Pow2[k + 1] = c \div Pow2[k + 1]

\* The block of an order that page pn lies in, its buddy, and the block of the next
\* order they make up.
LEMMA BuddyPair ==
    ASSUME NEW k \in Nat, NEW pn \in Nat
    PROVE  Buddies(BlockStart(pn, k), buddy_pn(BlockStart(pn, k), k), BlockStart(pn, k + 1), k)
  <1> DEFINE c == BlockStart(pn, k)
             d == BlockStart(pn, k + 1)
             b == buddy_pn(c, k)
  <1>1. /\ c \in Nat /\ d \in Nat /\ c % Pow2[k] = 0 /\ d % Pow2[k + 1] = 0
        /\ c % Pow2[k + 1] = 0 => d = c
        /\ c % Pow2[k + 1] # 0 => d + Pow2[k] = c
        /\ c \div Pow2[k + 1] = d \div Pow2[k + 1]
    BY Pair
  <1>2. b = IF c % Pow2[k + 1] = 0 THEN c + Pow2[k] ELSE c - Pow2[k]
    BY DEF buddy_pn
  <1> HIDE DEF c, d, b
  <1>3. Pow2[k] \in Nat /\ Pow2[k] > 0
    BY PowType
  <1>4. /\ d % Pow2[k] = 0 /\ (d + Pow2[k]) % Pow2[k] = 0
        /\ Block(d, k + 1) = Block(d, k) \cup Block(d + Pow2[k], k)
        /\ Block(d, k) \cap Block(d + Pow2[k], k) = {}
    BY <1>1, Halves
  <1>5. (c = d /\ b = d + Pow2[k]) \/ (c = d + Pow2[k] /\ b = d)
    <2>1. CASE c % Pow2[k + 1] = 0
      BY <1>1, <1>2, <2>1
    <2>2. CASE c % Pow2[k + 1] # 0
      <3>1. d + Pow2[k] = c /\ b = c - Pow2[k]
        BY <1>1, <1>2, <2>2
      <3> QED
        BY <1>1, <1>3, <3>1, SMT
    <2> QED
      BY <2>1, <2>2
  <1>6. d + Pow2[k] \in Nat /\ d <= d + Pow2[k] /\ d # d + Pow2[k] /\ d <= d
    BY <1>1, <1>3, SMT
  <1>7. b \in Nat /\ d <= c /\ b # c /\ b % Pow2[k] = 0
    BY <1>1, <1>4, <1>5, <1>6
  <1>8. b \div Pow2[k + 1] = d \div Pow2[k + 1]
    <2>1. d \div Pow2[k + 1] = b \div Pow2[k + 1] <=> b = d \/ b = d + Pow2[k]
      BY <1>1, <1>7, SamePair
    <2> QED
      BY <1>5, <2>1
  <1>9. Block(d, k + 1) = Block(c, k) \cup Block(b, k) /\ Block(c, k) \cap Block(b, k) = {}
    BY <1>4, <1>5
  <1> QED
    BY <1>1, <1>5, <1>7, <1>8, <1>9 DEF c, d, b, Buddies

\* The loop comes to order k with the block of pn of that order free and on no list;
\* G are the pages that are to be on the lists.
FreeInv(s, k, pn, G) ==
    /\ s \in AreaType /\ s.ok
    /\ Parity(s.list, s.map) /\ Merged(s.list)
    /\ s.done => Partition(s.list, G)
    /\ ~s.done => /\ k < MaxOrder
                  /\ Block(BlockStart(pn, k), k) \subseteq G
                  /\ Partition(s.list, G \ Block(BlockStart(pn, k), k))

\* An iteration of kmem_free_page merges with the buddy exactly if that is listed.
LEMMA FreeStepInv ==
    ASSUME MapsApart, NEW G \in SUBSET Page, NEW pn \in Page, NEW k \in Nat, NEW s,
           FreeInv(s, k, pn, G)
    PROVE  FreeInv(FreeStep(pn, s, k), k + 1, pn, G)
  <1> DEFINE c == BlockStart(pn, k)
             d == BlockStart(pn, k + 1)
             b == buddy_pn(c, k)
             t == toggle_bit(s, k, c)
             F == G \ Block(c, k)
             more == Pushed(s.list, k, c)
             less == Without(s.list, b)
             merge == Merges(t.map[MapPos(k, c)], k)
  <1>1. CASE s.done
    <2>1. FreeStep(pn, s, k) = s
      BY <1>1 DEF FreeStep
    <2> QED
      BY <1>1, <2>1 DEF FreeInv
  <1>2. CASE ~s.done
    <2>1. s \in AreaType /\ s.ok /\ Parity(s.list, s.map) /\ Merged(s.list)
      BY DEF FreeInv
    <2>2. k < MaxOrder /\ Block(c, k) \subseteq G /\ Partition(s.list, F)
      BY <1>2 DEF FreeInv
    <2>3. k \in Orders /\ pn \in Nat
      BY <2>2, Sizes, SMT DEF Orders
    <2>4. Buddies(c, b, d, k)
      BY <2>3, BuddyPair
    <2>5. t \in AreaType /\ t.list = s.list /\ t.ok = s.ok /\ t.done = s.done
             /\ t.map = Flip(s.map, k, c)
      <3>1. AreaIs(t, s.list, Flip(s.map, k, c), s.ok, s.done)
        BY <2>1, ToggleArea
      <3> QED
        BY <3>1 DEF AreaIs
    <2>6. FreeStep(pn, s, k) = IF merge THEN list_detach(t, b)
                               ELSE Area(list_insert(t, k, c).list, t.map, t.ok, TRUE)
      BY <1>2 DEF FreeStep
    <2> HIDE DEF c, d, b, t
    <2>7. list_insert(t, k, c).list = more
      <3>1. c \in Nat
        BY <2>4 DEF Buddies
      <3>2. AreaIs(list_insert(t, k, c), Pushed(t.list, k, c), t.map, t.ok, t.done)
        BY <2>5, <3>1, InsertArea
      <3> QED
        BY <2>5, <3>2 DEF AreaIs
    <2>8. Block(c, k) \cap F = {} /\ F \cup Block(c, k) = G
      BY <2>2
    <2> HIDE DEF F
    <2>9. s.list \in ListType /\ s.map \in Bits
      BY <2>1, FieldTypes DEF ListType, Bits
    <2>10. more \in ListType /\ OneMore(more, s.list, k, c) /\ Partition(more, G)
      BY <2>2, <2>3, <2>4, <2>8, <2>9, Inserted DEF Buddies
    <2> HIDE DEF more
    <2>11. c \in Page /\ d \in Page
      <3>1. Pow2[k] \in Nat /\ Pow2[k] > 0
        BY PowType
      <3>2. c \in Block(c, k)
        BY <2>4, <3>1, SMT DEF Block, Buddies
      <3>3. c \in Page
        BY <2>2, <3>2
      <3> QED
        BY <2>4, <3>3, Sizes, SMT DEF Page, Buddies
    <2>12. t.map \in Bits /\ Parity(more, t.map)
      <3>1. c % Pow2[k] = 0
        BY <2>4 DEF Buddies
      <3>2. Flip(s.map, k, c) \in Bits /\ Parity(more, Flip(s.map, k, c))
        BY <2>1, <2>3, <2>9, <2>10, <2>11, <3>1, ParityFlip
      <3> QED
        BY <2>5, <3>2
    <2>13. t.map[MapPos(k, c)] = 0 <=> b \in Range(s.list[k])
      <3>1. MapPos(k, d) = MapPos(k, c)
        BY <2>3, <2>4, <2>11, MapPosPair DEF Buddies
      <3>2. t.map[MapPos(k, d)] = IF d \in Range(more[k]) <=> d + Pow2[k] \in Range(more[k]) THEN 0 ELSE 1
        BY <2>3, <2>4, <2>11, <2>12 DEF Parity, Buddies
      <3>3. c \in Range(more[k]) /\ (b \in Range(more[k]) <=> b \in Range(s.list[k]))
        BY <2>4, <2>10 DEF OneMore, Buddies
      <3>4. (c = d /\ b = d + Pow2[k]) \/ (c = d + Pow2[k] /\ b = d)
        BY <2>4 DEF Buddies
      <3>5. 1 # 0
        BY SMT
      <3> QED
        BY <3>1, <3>2, <3>3, <3>4, <3>5
    <2>14. CASE merge
      <3>1. b \in Range(s.list[k]) /\ k # MaxOrder - 1
        BY <2>13, <2>14 DEF Merges
      <3>2. /\ less \in ListType /\ OneMore(s.list, less, k, b)
            /\ Partition(less, F \ Block(b, k))
        BY <2>2, <2>3, <2>9, <3>1, Detached
      <3>3. b \in Page /\ Block(b, k) \subseteq F
        <4>1. Block(b, k) \subseteq F
          BY <2>2, <2>3, <3>1, InCovered DEF Partition
        <4>2. b \in Block(b, k)
          BY <2>3, <2>9, <3>1, ListedType
        <4> QED
          BY <4>1, <4>2 DEF F
      <3>4. Parity(less, t.map)
        <4>1. MapPos(k, b) = MapPos(k, c) /\ b % Pow2[k] = 0
          BY <2>3, <2>4, <2>11, <3>3, MapPosPair DEF Buddies
        <4>2. Parity(less, Flip(s.map, k, b))
          BY <2>1, <2>3, <2>9, <3>2, <3>3, <4>1, ParityFlip
        <4> QED
          BY <2>5, <4>1, <4>2 DEF Flip
      <3> DEFINE r == list_detach(t, b)
      <3>5. r \in AreaType /\ r.list = less /\ r.map = t.map /\ r.done = s.done /\ r.ok
        <4>1. /\ r \in AreaType /\ r.list = Without(t.list, b) /\ r.map = t.map /\ r.done = t.done
              /\ r.ok = (t.ok /\ \E ord \in Orders : b \in Range(t.list[ord]))
          BY <2>5, DetachArea
        <4> HIDE DEF r
        <4> QED
          BY <2>1, <2>3, <2>5, <3>1, <4>1
      <3>6. Merged(less)
        <4>1. \A ord \in 0 .. MaxOrder - 2 : ord \in Orders
          BY Sizes, SMT DEF Orders
        <4>2. \A ord \in Orders : Range(less[ord]) \subseteq Range(s.list[ord])
          BY <3>2 DEF OneMore
        <4> QED
          BY <2>1, <4>1, <4>2 DEF Merged
      <3>7. k + 1 < MaxOrder
        BY <2>2, <3>1, Sizes, SMT
      <3>8. Block(d, k + 1) \subseteq G /\ Partition(less, G \ Block(d, k + 1))
        <4>1. Block(d, k + 1) = Block(c, k) \cup Block(b, k)
          BY <2>4 DEF Buddies
        <4>2. F \ Block(b, k) = G \ Block(d, k + 1)
          BY <4>1 DEF F
        <4> QED
          BY <2>2, <3>2, <3>3, <4>1, <4>2 DEF F
      <3>9. FreeStep(pn, s, k) = r
        BY <2>6, <2>14
      <3> HIDE DEF r
      <3> QED
        BY <1>2, <3>4, <3>5, <3>6, <3>7, <3>8, <3>9 DEF FreeInv, d
    <2>15. CASE ~merge
      <3> DEFINE r == Area(more, t.map, t.ok, TRUE)
      <3>1. FreeStep(pn, s, k) = r
        BY <2>6, <2>7, <2>15
      <3>2. r \in AreaType /\ r.list = more /\ r.map = t.map /\ r.ok /\ r.done
        <4>1. r \in AreaType
          BY <2>5, <2>10, FieldTypes, AreaIsArea DEF ListType
        <4>2. r.list = more /\ r.map = t.map /\ r.ok = t.ok /\ r.done
          BY SMT DEF Area
        <4> QED
          BY <2>1, <2>5, <4>1, <4>2
      <3>3. Merged(more)
        <4> SUFFICES ASSUME NEW ord \in 0 .. MaxOrder - 2, NEW p \in Range(more[ord]),
                            p % Pow2[ord + 1] = 0, p + Pow2[ord] \in Range(more[ord])
                     PROVE  FALSE
          BY DEF Merged
        <4>1. ord \in Orders /\ ord # MaxOrder - 1
          BY Sizes, SMT DEF Orders
        <4>2. p \in Range(s.list[ord]) => p + Pow2[ord] \notin Range(s.list[ord])
          BY <2>1 DEF Merged
        <4>3. ord = k /\ (p = c \/ p + Pow2[k] = c)
          BY <2>10, <4>1, <4>2 DEF OneMore
        <4>4. b \notin Range(more[k])
          <5>1. b \notin Range(s.list[k])
            BY <2>13, <2>15, <4>1, <4>3 DEF Merges
          <5> QED
            BY <2>4, <2>10, <5>1 DEF OneMore, Buddies
        <4>5. p \in Nat
          BY <2>10, <4>1, ListedType
        <4>6. b = p \/ b = p + Pow2[k]
          <5>0. /\ p % Pow2[k + 1] = 0 /\ c \in Nat /\ b \in Nat
                /\ c % Pow2[k] = 0 /\ b % Pow2[k] = 0
            BY <2>4, <4>3 DEF Buddies
          <5>1. p \div Pow2[k + 1] = b \div Pow2[k + 1]
            <6>1. p \div Pow2[k + 1] = c \div Pow2[k + 1] <=> c = p \/ c = p + Pow2[k]
              BY <4>5, <5>0, SamePair
            <6> QED
              BY <2>4, <4>3, <6>1 DEF Buddies
          <5>2. p \div Pow2[k + 1] = b \div Pow2[k + 1] <=> b = p \/ b = p + Pow2[k]
            BY <4>5, <5>0, SamePair
          <5> QED
            BY <5>1, <5>2
        <4> QED
          BY <4>3, <4>4, <4>6
      <3> HIDE DEF r
      <3> QED
        BY <2>10, <2>12, <3>1, <3>2, <3>3 DEF FreeInv
    <2> QED
      BY <2>14, <2>15
  <1> QED
    BY <1>1, <1>2

\* Lists and maps that are right for the free pages F, when no operation is under way.
Ready(s, F) ==
    /\ s \in AreaType /\ s.ok
    /\ Partition(s.list, F) /\ Parity(s.list, s.map) /\ Merged(s.list)

\* Freeing a page leaves lists and maps that are right with it.
LEMMA FreedRight ==
    ASSUME MapsApart, NEW F \in SUBSET Page, NEW pn \in Page, pn \notin F, NEW s,
           Ready(s, F), ~s.done
    PROVE  Ready(FreeLoop(pn, s)[MaxOrder], F \cup {pn})
  <1> DEFINE loop == FreeLoop(pn, s)
             G == F \cup {pn}
             S == {k \in Nat : FreeInv(loop[k], k, pn, G)}
  <1>1. pn \in Nat /\ s \in AreaType /\ MaxOrder \in Nat /\ 0 < MaxOrder
    BY Sizes, SizeAssumption, SMT DEF Ready
  <1>2. loop[0] = s /\ \A n \in Nat : loop[n + 1] = FreeStep(pn, loop[n], n)
    BY <1>1, FreeLoopSteps
  <1> HIDE DEF loop
  <1>3. 0 \in S
    <2>1. BlockStart(pn, 0) = pn /\ Block(pn, 0) = {pn}
      <3>1. Pow2[0] = 1
        BY PowType
      <3> QED
        BY <1>1, <3>1, SMT DEF BlockStart, Block
    <2>2. G \ {pn} = F
      OBVIOUS
    <2>3. FreeInv(s, 0, pn, G)
      BY <1>1, <2>1, <2>2 DEF FreeInv, Ready
    <2> QED
      BY <1>2, <2>3, SMT
  <1>4. ASSUME NEW k \in Nat, k \in S PROVE k + 1 \in S
    <2>1. G \in SUBSET Page
      OBVIOUS
    <2>2. FreeInv(loop[k], k, pn, G)
      BY <1>4
    <2> HIDE DEF G
    <2>3. FreeInv(FreeStep(pn, loop[k], k), k + 1, pn, G)
      BY <2>1, <2>2, FreeStepInv
    <2>4. k + 1 \in Nat
      BY SMT
    <2> QED
      BY <1>2, <2>3, <2>4
  <1> HIDE DEF S
  <1>5. MaxOrder \in S
    BY <1>1, <1>3, <1>4, Induct
  <1>6. FreeInv(loop[MaxOrder], MaxOrder, pn, G)
    BY <1>5 DEF S
  <1>7. ~(MaxOrder < MaxOrder)
    BY <1>1, SMT
  <1> QED
    BY <1>6, <1>7 DEF FreeInv, Ready, loop

-----------------------------------------------------------------------------
(* The splitting loop of kmem_alloc_pages *)

\* A split leaves lists and maps.
LEMMA SplitType ==
    ASSUME NEW pn \in Nat, NEW s \in AreaType, NEW ord \in Int
    PROVE  Split(pn, s, ord) \in AreaType
  <1> DEFINE t == toggle_bit(list_detach(s, pn), ord, pn)
             u == list_insert(t, ord - 1, pn)
  <1>1. t \in AreaType
    BY DetachArea, ToggleArea DEF AreaIs
  <1> HIDE DEF t
  <1>2. u \in AreaType
    BY <1>1, InsertArea DEF AreaIs
  <1> HIDE DEF u
  <1>3. ord - 1 \in Orders => pn + Pow2[ord - 1] \in Nat
    <2>1. ord - 1 \in Orders => Pow2[ord - 1] \in Nat
      BY Sizes
    <2> QED
      BY <2>1, SMT
  <1>4. list_insert(u, ord - 1, pn + Pow2[ord - 1]) \in AreaType
    BY <1>2, <1>3, InsertArea DEF AreaIs
  <1> QED
    BY <1>4 DEF Split, u, t

\* The loop of kmem_alloc_pages runs through its splits.
LEMMA SplitLoopSteps ==
    ASSUME NEW pn \in Nat, NEW s \in AreaType, NEW from \in Nat
    PROVE  /\ SplitLoop(pn, s, from)[0] = s
           /\ \A n \in Nat : SplitLoop(pn, s, from)[n + 1]
                                = Split(pn, SplitLoop(pn, s, from)[n], from - n)
  <1> DEFINE Fits(f) == f = [n \in Nat |-> IF n = 0 THEN s
                                           ELSE Split(pn, f[n - 1], from - (n - 1))]
             loop == SplitLoop(pn, s, from)
  <1>1. \E f : Fits(f)
    <2> DEFINE H == [n \in Nat |-> [x \in AreaType |-> Split(pn, x, from - n)]]
    <2>1. \A n \in Nat : from - n \in Int
      BY SMT
    <2>2. H \in [Nat -> [AreaType -> AreaType]]
      BY <2>1, SplitType
    <2> HIDE DEF H
    <2>3. PICK f \in [Nat -> AreaType] : Follows(f, s, H)
      BY <2>2, Recursion
    <2>4. \A n \in Nat : f[n + 1] = Split(pn, f[n], from - n)
      BY <2>3 DEF H, Follows
    <2>5. \A k \in Nat : k # 0 => k - 1 \in Nat /\ (k - 1) + 1 = k
      BY SMT
    <2>6. \A k \in Nat : f[k] = IF k = 0 THEN s ELSE Split(pn, f[k - 1], from - (k - 1))
      BY <2>3, <2>4, <2>5 DEF Follows
    <2> QED
      BY <2>6
  <1>2. Fits(loop)
    BY <1>1 DEF SplitLoop
  <1> HIDE DEF loop
  <1>3. loop[0] = s
    BY <1>2, SMT
  <1>4. \A k \in Nat : k # 0 => loop[k] = Split(pn, loop[k - 1], from - (k - 1))
    BY <1>2
  <1>5. \A n \in Nat : n + 1 \in Nat /\ n + 1 # 0 /\ (n + 1) - 1 = n
    BY SMT
  <1>6. \A n \in Nat : loop[n + 1] = Split(pn, loop[n], from - n)
    BY <1>4, <1>5
  <1> QED
    BY <1>3, <1>6 DEF loop

\* The block at pn is on the list of order k, perhaps together with its buddy, and
\* nothing else can be merged.
SplitInv(s, k, pn, F) ==
    /\ s \in AreaType /\ s.ok
    /\ Partition(s.list, F) /\ Parity(s.list, s.map)
    /\ pn \in Range(s.list[k])
    /\ \A ord \in 0 .. MaxOrder - 2 : \A p \in Range(s.list[ord]) :
           p % Pow2[ord + 1] = 0 /\ ~(ord = k /\ p = pn) => p + Pow2[ord] \notin Range(s.list[ord])

\* A split puts both halves where the block was.
LEMMA SplitStepInv ==
    ASSUME MapsApart, NEW F \in SUBSET Page, NEW pn, NEW j \in Orders, j + 1 \in Orders, NEW s,
           SplitInv(s, j + 1, pn, F)
    PROVE  SplitInv(Split(pn, s, j + 1), j, pn, F)
  <1> DEFINE k == j + 1
             h == pn + Pow2[j]
             r == list_detach(s, pn)
             t == toggle_bit(r, k, pn)
             u == list_insert(t, j, pn)
             v == list_insert(u, j, h)
             less == Without(s.list, pn)
             one == Pushed(less, j, pn)
             both == Pushed(one, j, h)
             flip == Flip(s.map, k, pn)
  <1>1. s \in AreaType /\ s.ok /\ Partition(s.list, F) /\ Parity(s.list, s.map)
            /\ pn \in Range(s.list[k])
    BY DEF SplitInv
  <1>2. s.list \in ListType /\ s.map \in Bits
    BY <1>1, FieldTypes DEF ListType, Bits
  <1>3. j \in Nat /\ k - 1 = j /\ k \in Nat /\ Pow2[j] \in Nat /\ Pow2[j] > 0 /\ j # k
    <2>1. j \in Nat /\ k \in Nat /\ Pow2[j] \in Nat /\ Pow2[j] > 0
      BY Sizes
    <2>2. \A n \in Nat : n # n + 1 /\ (n + 1) - 1 = n
      BY SMT
    <2> QED
      BY <2>1, <2>2
  <1>4. pn \in Nat /\ pn \in Block(pn, k) /\ pn % Pow2[k] = 0
    BY <1>1, <1>2, ListedType DEF Partition
  <1>5. pn \in Page /\ Block(pn, k) \subseteq F
    <2>1. Block(pn, k) \subseteq F
      BY <1>1, InCovered DEF Partition
    <2> QED
      BY <1>4, <2>1
  <1>6. /\ pn % Pow2[j] = 0 /\ h % Pow2[j] = 0 /\ h % Pow2[k] # 0
        /\ Block(pn, k) = Block(pn, j) \cup Block(h, j) /\ Block(pn, j) \cap Block(h, j) = {}
    BY <1>3, <1>4, Halves
  <1>7. h \in Nat /\ h # pn
    BY <1>3, <1>4, SMT
  <1>8. Split(pn, s, k) = v
    BY <1>3 DEF Split
  <1> HIDE DEF k, h, r, t, u, v
  <1>9. /\ less \in ListType /\ OneMore(s.list, less, k, pn)
        /\ Partition(less, F \ Block(pn, k))
    BY <1>1, <1>2, Detached DEF k
  <1>10. flip \in Bits /\ Parity(less, flip)
    BY <1>1, <1>2, <1>4, <1>5, <1>9, ParityFlip DEF k
  <1> DEFINE F1 == F \ Block(pn, k)
             F2 == F1 \cup Block(pn, j)
  <1>11. Block(pn, j) \cap F1 = {} /\ Block(h, j) \cap F2 = {} /\ F2 \cup Block(h, j) = F
    BY <1>5, <1>6
  <1> HIDE DEF F1, F2, less, flip
  <1>12. one \in ListType /\ OneMore(one, less, j, pn) /\ Partition(one, F2)
    BY <1>4, <1>6, <1>9, <1>11, Inserted DEF F1, F2
  <1> HIDE DEF one
  <1>13. both \in ListType /\ OneMore(both, one, j, h) /\ Partition(both, F)
    BY <1>6, <1>7, <1>11, <1>12, Inserted
  <1> HIDE DEF both
  <1>14. Parity(both, flip)
    BY <1>4, <1>5, <1>10, <1>12, <1>13, ParityBoth DEF h, k
  <1>15. v \in AreaType /\ v.list = both /\ v.map = flip /\ v.ok
    <2>1. /\ r \in AreaType /\ r.list = less /\ r.map = s.map
          /\ r.ok = (s.ok /\ \E ord \in Orders : pn \in Range(s.list[ord]))
      BY <1>1, DetachArea DEF r, less
    <2>2. t \in AreaType /\ t.list = less /\ t.map = flip /\ t.ok = r.ok
      <3>1. AreaIs(t, r.list, Flip(r.map, k, pn), r.ok, r.done)
        BY <2>1, ToggleArea DEF t
      <3> QED
        BY <2>1, <3>1 DEF flip, AreaIs
    <2>3. u \in AreaType /\ u.list = one /\ u.map = flip /\ u.ok = r.ok
      <3>1. AreaIs(u, Pushed(t.list, j, pn), t.map, t.ok, t.done)
        BY <1>4, <2>2, InsertArea DEF u
      <3> QED
        BY <2>2, <3>1 DEF one, AreaIs
    <2>4. v \in AreaType /\ v.list = both /\ v.map = flip /\ v.ok = r.ok
      <3>1. AreaIs(v, Pushed(u.list, j, h), u.map, u.ok, u.done)
        BY <1>7, <2>3, InsertArea DEF v
      <3> QED
        BY <2>3, <3>1 DEF both, AreaIs
    <2> QED
      BY <1>1, <2>1, <2>4 DEF k
  <1>16. pn \in Range(both[j])
    BY <1>12, <1>13 DEF OneMore
  <1>17. ASSUME NEW ord \in 0 .. MaxOrder - 2, NEW p \in Range(both[ord]), p % Pow2[ord + 1] = 0,
                ~(ord = j /\ p = pn), p + Pow2[ord] \in Range(both[ord])
         PROVE  FALSE
    <2>1. ord \in Orders /\ ord \in Nat
      BY Sizes, SMT DEF Orders
    <2>2. p \in Range(s.list[ord]) /\ ~(ord = k /\ p = pn) => p + Pow2[ord] \notin Range(s.list[ord])
      BY <1>17 DEF SplitInv, k
    <2>3. \A i \in Orders : \A q : q \in Range(both[i])
              <=> (q \in Range(s.list[i]) /\ ~(i = k /\ q = pn)) \/ (i = j /\ (q = pn \/ q = h))
      <3>1. \A i \in Orders : \A q : q \in Range(less[i]) <=> q \in Range(s.list[i]) /\ ~(i = k /\ q = pn)
        BY <1>9 DEF OneMore
      <3>2. \A i \in Orders : \A q : q \in Range(one[i]) <=> q \in Range(less[i]) \/ (i = j /\ q = pn)
        BY <1>12 DEF OneMore
      <3>3. \A i \in Orders : \A q : q \in Range(both[i]) <=> q \in Range(one[i]) \/ (i = j /\ q = h)
        BY <1>13 DEF OneMore
      <3> QED
        BY <3>1, <3>2, <3>3
    <2>4. CASE ord = j
      <3>1. p # pn /\ p # h
        BY <1>6, <1>17, <2>4 DEF k
      <3>2. p \in Range(s.list[j])
        BY <1>17, <2>1, <2>3, <2>4, <3>1
      <3>3. p + Pow2[j] = pn \/ p + Pow2[j] = h
        BY <1>3, <1>17, <2>1, <2>2, <2>3, <2>4, <3>2
      <3>4. p \in Nat
        BY <1>2, <3>2, ListedType
      <3>5. (p + Pow2[j]) % Pow2[k] # 0
        BY <1>3, <1>17, <2>4, <3>4, Halves DEF k
      <3>6. p + Pow2[j] = pn + Pow2[j]
        BY <1>4, <3>3, <3>5 DEF h
      <3> QED
        BY <1>3, <1>4, <3>1, <3>4, <3>6, SMT
    <2>5. CASE ord # j
      BY <1>17, <2>1, <2>2, <2>3, <2>5
    <2> QED
      BY <2>4, <2>5
  <1> QED
    BY <1>8, <1>13, <1>14, <1>15, <1>16, <1>17 DEF SplitInv, k

\* The splitting loop brings the block at pn down to the order asked for.
LEMMA SplitRight ==
    ASSUME MapsApart, NEW F \in SUBSET Page, NEW s, Ready(s, F),
           NEW from \in Orders, NEW order \in Orders, order <= from,
           NEW pn \in Range(s.list[from])
    PROVE  SplitInv(SplitLoop(pn, s, from)[from - order], order, pn, F)
  <1> DEFINE loop == SplitLoop(pn, s, from)
             S == {n \in Nat : n <= from => SplitInv(loop[n], from - n, pn, F)}
  <1>1. s \in AreaType /\ s.list \in ListType
    BY FieldTypes DEF Ready, ListType
  <1>2. from \in Nat /\ order \in Nat
    BY Sizes
  <1>3. pn \in Nat
    BY <1>1, ListedType
  <1>4. loop[0] = s /\ \A n \in Nat : loop[n + 1] = Split(pn, loop[n], from - n)
    <2>1. s \in AreaType /\ from \in Nat /\ pn \in Nat
      BY <1>1, <1>2, <1>3
    <2> HIDE DEF loop
    <2>2. loop[0] = s
      BY <2>1, SplitLoopSteps DEF loop
    <2>3. \A n \in Nat : loop[n + 1] = Split(pn, loop[n], from - n)
      BY <2>1, SplitLoopSteps DEF loop
    <2> QED
      BY <2>2, <2>3
  <1> HIDE DEF loop
  <1>5. 0 \in S
    <2>1. SplitInv(s, from, pn, F)
      BY DEF SplitInv, Ready, Merged
    <2>2. 0 \in Nat /\ from - 0 = from
      BY <1>2, SMT
    <2> QED
      BY <1>4, <2>1, <2>2
  <1>6. ASSUME NEW n \in Nat, n \in S PROVE n + 1 \in S
    <2>1. n + 1 \in Nat
      BY SMT
    <2>2. CASE n + 1 <= from
      <3> DEFINE j == from - (n + 1)
      <3>1. j \in Orders /\ j + 1 = from - n /\ j + 1 \in Orders /\ n <= from
        BY <1>2, <2>2, Sizes, SMT DEF Orders
      <3>2. SplitInv(loop[n], j + 1, pn, F)
        BY <1>6, <3>1
      <3> HIDE DEF j
      <3>3. SplitInv(Split(pn, loop[n], j + 1), j, pn, F)
        BY <3>1, <3>2, SplitStepInv
      <3>4. SplitInv(loop[n + 1], j, pn, F)
        BY <1>4, <3>1, <3>3
      <3> QED
        BY <2>1, <3>4 DEF j
    <2> QED
      BY <2>1, <2>2
  <1> HIDE DEF S
  <1>7. \A n \in Nat : n \in S
    BY <1>5, <1>6, Induct
  <1>8. from - order \in Nat /\ from - order <= from /\ from - (from - order) = order
    BY <1>2, SMT
  <1>9. from - order \in S
    BY <1>7, <1>8
  <1> QED
    BY <1>8, <1>9 DEF S, loop

\* Taking the block at pn, of order from, for a request of a lower order leaves
\* lists and maps that are right without it.
LEMMA TakenRight ==
    ASSUME MapsApart, NEW F \in SUBSET Page, NEW s, Ready(s, F),
           NEW from \in Orders, NEW order \in Orders, order <= from,
           NEW pn \in Range(s.list[from])
    PROVE  /\ pn \in Page /\ pn % Pow2[order] = 0 /\ Block(pn, order) \subseteq F
           /\ Ready(toggle_bit(list_detach(SplitLoop(pn, s, from)[from - order], pn), order, pn),
                    F \ Block(pn, order))
  <1> DEFINE r == SplitLoop(pn, s, from)[from - order]
             t == list_detach(r, pn)
             u == toggle_bit(t, order, pn)
             less == Without(r.list, pn)
             flip == Flip(r.map, order, pn)
  <1>1. SplitInv(r, order, pn, F)
    BY SplitRight
  <1> HIDE DEF r
  <1>2. r \in AreaType /\ r.ok /\ Partition(r.list, F) /\ Parity(r.list, r.map)
            /\ pn \in Range(r.list[order])
    BY <1>1 DEF SplitInv
  <1>3. r.list \in ListType /\ r.map \in Bits
    BY <1>2, FieldTypes DEF ListType, Bits
  <1>4. pn \in Block(pn, order) /\ pn % Pow2[order] = 0
    BY <1>2, <1>3, ListedType DEF Partition
  <1>5. Block(pn, order) \subseteq F /\ pn \in Page
    <2>1. Block(pn, order) \subseteq F
      BY <1>2, InCovered DEF Partition
    <2> QED
      BY <1>4, <2>1
  <1>6. /\ less \in ListType /\ OneMore(r.list, less, order, pn)
        /\ Partition(less, F \ Block(pn, order))
    BY <1>2, <1>3, Detached
  <1> HIDE DEF less, flip
  <1>7. Parity(less, flip)
    BY <1>2, <1>3, <1>4, <1>5, <1>6, ParityFlip DEF flip
  <1>8. Merged(less)
    <2> SUFFICES ASSUME NEW ord \in 0 .. MaxOrder - 2, NEW p \in Range(less[ord]),
                        p % Pow2[ord + 1] = 0, p + Pow2[ord] \in Range(less[ord])
                 PROVE  FALSE
      BY DEF Merged
    <2>1. ord \in Orders
      BY Sizes, SMT DEF Orders
    <2>2. \A q : q \in Range(less[ord]) <=> q \in Range(r.list[ord]) /\ ~(ord = order /\ q = pn)
      BY <1>6, <2>1 DEF OneMore
    <2>3. p \in Range(r.list[ord]) /\ p + Pow2[ord] \in Range(r.list[ord]) /\ ~(ord = order /\ p = pn)
      BY <2>2
    <2> QED
      BY <1>1, <2>3 DEF SplitInv
  <1>9. /\ t \in AreaType /\ t.list = less /\ t.map = r.map
        /\ t.ok = (r.ok /\ \E ord \in Orders : pn \in Range(r.list[ord]))
    BY <1>2, DetachArea DEF less
  <1> HIDE DEF t
  <1>10. AreaIs(u, t.list, Flip(t.map, order, pn), t.ok, t.done)
    BY <1>9, ToggleArea
  <1> HIDE DEF u
  <1>11. u \in AreaType /\ u.list = less /\ u.map = flip /\ u.ok
    BY <1>2, <1>9, <1>10 DEF AreaIs, flip
  <1>12. Ready(u, F \ Block(pn, order))
    BY <1>6, <1>7, <1>8, <1>11 DEF Ready
  <1> QED
    BY <1>4, <1>5, <1>12 DEF u, t, r

-----------------------------------------------------------------------------
(* The answer NULL of kmem_alloc_pages *)

\* Merging is complete, so an aligned run of free pages lies inside one listed
\* block that is at least as large.
InOneBlock(list, p, k) ==
    \E j \in Orders : k <= j /\ \E q \in Range(list[j]) : Block(p, k) \subseteq Block(q, j)

\* Merging is complete, so an aligned run of free pages lies inside one listed block.
LEMMA RunIsListed ==
    ASSUME NEW list \in ListType, NEW F, Partition(list, F), Merged(list),
           NEW k \in Orders, NEW p \in Nat, p % Pow2[k] = 0, Block(p, k) \subseteq F
    PROVE  InOneBlock(list, p, k)
  <1> DEFINE Runs(n) == {x \in Nat : x % Pow2[n] = 0 /\ Block(x, n) \subseteq F}
             S == {n \in Nat : n \in Orders => \A x \in Runs(n) : InOneBlock(list, x, n)}
  <1>1. 0 \in S
    <2> SUFFICES ASSUME NEW x \in Runs(0) PROVE InOneBlock(list, x, 0)
      BY Sizes
    <2>1. Block(x, 0) = {x}
      <3>1. Pow2[0] = 1
        BY PowType
      <3> QED
        BY <3>1, SMT DEF Block
    <2>2. x \in Covered(list)
      BY <2>1 DEF Partition
    <2>3. \A j \in Orders : 0 <= j
      BY SMT DEF Orders
    <2>4. PICK j \in Orders : \E q \in Range(list[j]) : x \in Block(q, j)
      BY <2>2, InCovered
    <2>5. \E q \in Range(list[j]) : Block(x, 0) \subseteq Block(q, j)
      BY <2>1, <2>4
    <2> QED
      BY <2>3, <2>5 DEF InOneBlock
  <1>2. ASSUME NEW n \in Nat, n \in S PROVE n + 1 \in S
    <2>1. n + 1 \in Nat
      BY SMT
    <2> SUFFICES ASSUME n + 1 \in Orders, NEW x \in Runs(n + 1) PROVE InOneBlock(list, x, n + 1)
      BY <2>1
    <2> DEFINE h == x + Pow2[n]
    <2>2. n \in Orders /\ n \in 0 .. MaxOrder - 2
      BY Sizes, SMT DEF Orders
    <2>3. Pow2[n] \in Nat /\ Pow2[n] > 0
      BY Sizes
    <2>4. h \in Nat
      BY <2>3, SMT
    <2>5. /\ x % Pow2[n] = 0 /\ h % Pow2[n] = 0
          /\ Block(x, n + 1) = Block(x, n) \cup Block(h, n)
      BY Halves
    <2> HIDE DEF h
    <2>6. InOneBlock(list, x, n) /\ InOneBlock(list, h, n)
      BY <1>2, <2>2, <2>4, <2>5
    \* a listed block that is larger than a half contains the run
    <2>7. ASSUME NEW y \in {x, h}, NEW j \in Orders, NEW q \in Range(list[j]), n + 1 <= j,
                 Block(y, n) \subseteq Block(q, j)
          PROVE  InOneBlock(list, x, n + 1)
      <3>1. q \in Nat /\ j \in Nat /\ q % Pow2[j] = 0
        BY ListedType DEF Partition
      <3>2. Block(x, n + 1) \subseteq Block(q, j) \/ Block(x, n + 1) \cap Block(q, j) = {}
        BY <2>1, <2>7, <3>1, Nested
      <3>3. y \in Block(y, n)
        BY <2>3, <2>4, SMT DEF Block
      <3>4. Block(x, n + 1) \subseteq Block(q, j)
        BY <2>5, <2>7, <3>2, <3>3
      <3> QED
        BY <2>7, <3>4 DEF InOneBlock
    \* of the same order, it is the half
    <2>8. ASSUME NEW y \in {x, h}, NEW q \in Range(list[n]), Block(y, n) \subseteq Block(q, n)
          PROVE  y = q
      <3>1. q \in Nat /\ y \in Nat
        BY <2>2, <2>4, ListedType
      <3>2. y \in Block(y, n) /\ y + Pow2[n] - 1 \in Block(y, n)
        BY <2>3, <3>1, SMT DEF Block
      <3>3. y \in Block(q, n) /\ y + Pow2[n] - 1 \in Block(q, n)
        BY <2>8, <3>2
      <3> QED
        BY <2>3, <3>1, <3>3, SMT DEF Block
    <2>9. \A j \in Orders : n <= j => j = n \/ n + 1 <= j
      BY SMT DEF Orders
    <2>10. ASSUME NEW y \in {x, h}
           PROVE  y \in Range(list[n]) \/ InOneBlock(list, x, n + 1)
      <3>1. InOneBlock(list, y, n)
        BY <2>6
      <3>2. PICK j \in Orders : n <= j /\ \E q \in Range(list[j]) : Block(y, n) \subseteq Block(q, j)
        BY <3>1 DEF InOneBlock
      <3> QED
        BY <2>7, <2>8, <2>9, <3>2
    <2>11. ~(x \in Range(list[n]) /\ h \in Range(list[n]))
      BY <2>2 DEF Merged, h
    <2> QED
      BY <2>10, <2>11
  <1> HIDE DEF S
  <1>3. \A n \in Nat : n \in S
    BY <1>1, <1>2, Induct
  <1>4. k \in S
    BY <1>3, Sizes
  <1> QED
    BY <1>4 DEF S

-----------------------------------------------------------------------------
(* The inductive invariant *)

\* Both properties together are inductive: a merge or a split needs the lists, the
\* maps and the completeness of the earlier merges.
Inv == ListsInv /\ Coalesced

\* In a state that satisfies it the operations find lists and maps that are right.
LEMMA AreasReady ==
    ASSUME Inv
    PROVE  /\ FreePages \in SUBSET Page /\ Ready(Areas, FreePages) /\ ~Areas.done
           /\ Areas.list = free_page_list /\ Areas.map = free_area_map
  <1>1. free_page_list \in ListType /\ free_area_map \in Bits
    <2>1. Page \subseteq Nat
      BY Sizes
    <2>2. ASSUME NEW ord \in Orders PROVE free_page_list[ord] \in Seq(Nat)
      <3>1. free_page_list[ord] \in Seq(Page)
        BY DEF Inv, ListsInv, TypeOK
      <3>2. ASSUME NEW i \in 1 .. Len(free_page_list[ord]) PROVE free_page_list[ord][i] \in Nat
        <4>1. free_page_list[ord][i] \in Page
          BY <3>1, SMT
        <4> QED
          BY <2>1, <4>1
      <3> QED
        BY <3>1, <3>2, SMT
    <2> QED
      BY <2>2 DEF Inv, ListsInv, TypeOK, ListType, Bits
  <1>2. /\ Areas.list = free_page_list /\ Areas.map = free_area_map
        /\ Areas.ok = TRUE /\ Areas.done = FALSE
    BY SMT DEF Areas, Area
  <1>3. Areas \in AreaType
    BY <1>1, AreaIsArea DEF Areas, ListType, Bits
  <1>4. Ready(Areas, FreePages)
    BY <1>2, <1>3 DEF Ready, Inv, ListsInv, Coalesced
  <1> QED
    BY <1>2, <1>4 DEF FreePages

\* What an operation leaves when its lists and maps are right.
LEMMA ReadyInv ==
    ASSUME NEW s, Ready(s, FreePages'), SetAreas(s),
           mem_map' \subseteq Page, boot_pn' \in 0 .. NumPages, owned' \subseteq mem_map',
           answer' \in {NULL} \cup Orders \X (Page \cup {NULL}), failed' = FALSE
    PROVE  Inv'
  <1>1. free_page_list' = s.list /\ free_area_map' = s.map
    BY DEF SetAreas
  <1>2. s.list \in ListType /\ s.map \in Bits
    BY FieldTypes DEF Ready, ListType, Bits
  <1>3. ASSUME NEW ord \in Orders PROVE s.list[ord] \in Seq(Page)
    <2>1. s.list[ord] \in Seq(Nat)
      BY <1>2 DEF ListType
    <2>2. ASSUME NEW i \in 1 .. Len(s.list[ord]) PROVE s.list[ord][i] \in Page
      <3>1. s.list[ord][i] \in Range(s.list[ord])
        BY <2>1, SMT DEF Range
      <3>2. s.list[ord][i] \in Block(s.list[ord][i], ord)
        BY <1>2, <3>1, ListedType
      <3>3. s.list[ord][i] \in Covered(s.list)
        BY <3>1, <3>2, InCovered
      <3>4. s.list[ord][i] \in FreePages'
        BY <3>3 DEF Ready, Partition
      <3> QED
        BY <3>4 DEF FreePages
    <2> QED
      BY <2>1, <2>2, SMT
  <1>4. free_page_list' \in [Orders -> Seq(Page)] /\ free_area_map' \in Bits
    BY <1>1, <1>2, <1>3 DEF ListType
  <1>5. TypeOK' /\ NoFailure'
    BY <1>4 DEF TypeOK, NoFailure, Bits
  <1>6. /\ Partition(free_page_list', FreePages') /\ Parity(free_page_list', free_area_map')
        /\ Merged(free_page_list')
    BY <1>1 DEF Ready
  <1> QED
    BY <1>5, <1>6 DEF Inv, ListsInv, Coalesced

\* kmem_page_manager_init begins with empty lists and maps.
LEMMA InitInv ==
    ASSUME MapsApart, Init PROVE Inv
  <1> DEFINE empty == [ord \in Orders |-> <<>>]
  <1>1. free_page_list = empty /\ \A ord \in Orders : free_page_list[ord] = <<>>
    BY DEF Init
  <1>2. Range(<<>>) = {} /\ IsInjective(<<>>) /\ <<>> \in Seq(Page)
    BY SMT DEF Range, IsInjective
  <1>3. \A ord \in Orders : Range(free_page_list[ord]) = {} /\ IsInjective(free_page_list[ord])
    BY <1>1, <1>2
  <1>4. TypeOK
    <2>1. mem_map \subseteq Page /\ owned = {} /\ answer = NULL /\ failed = FALSE /\ boot_pn = 0
      BY DEF Init
    <2>2. free_page_list \in [Orders -> Seq(Page)]
      BY <1>1, <1>2
    <2>3. free_area_map \in Bits
      BY SMT DEF Init, Bits
    <2>4. 0 \in 0 .. NumPages
      BY Sizes, SMT
    <2> QED
      BY <2>1, <2>2, <2>3, <2>4 DEF TypeOK, Bits
  <1>5. FreePages = {}
    <2>1. \A p \in Page : ~(p < 0)
      BY SMT DEF Page
    <2> QED
      BY <2>1 DEF FreePages, Init
  <1>6. Covered(free_page_list) = {}
    BY <1>3, InCovered
  <1>7. Partition(free_page_list, FreePages)
    BY <1>3, <1>5, <1>6 DEF Partition
  <1>8. Parity(free_page_list, free_area_map)
    <2> SUFFICES ASSUME NEW ord \in Orders, NEW p \in Page
                 PROVE  free_area_map[MapPos(ord, p)] = 0
      BY <1>3 DEF Parity
    <2> QED
      BY MapPosApart DEF Init
  <1>9. \A ord \in 0 .. MaxOrder - 2 : ord \in Orders
    BY Sizes, SMT DEF Orders
  <1>10. Merged(free_page_list)
    BY <1>3, <1>9 DEF Merged
  <1> QED
    BY <1>4, <1>7, <1>8, <1>10 DEF Inv, ListsInv, Coalesced, NoFailure, Init

\* kmem_page_manager_init frees a page, or leaves a reserved one out.
LEMMA BootStep ==
    ASSUME MapsApart, Inv, BootFreePage PROVE Inv'
  <1>1. /\ ~failed /\ boot_pn < NumPages /\ boot_pn' = boot_pn + 1
        /\ mem_map' = mem_map /\ owned' = owned /\ answer' = answer
    BY DEF BootFreePage
  <1>2. /\ mem_map \subseteq Page /\ owned \subseteq mem_map /\ boot_pn \in 0 .. NumPages
        /\ answer \in {NULL} \cup Orders \X (Page \cup {NULL})
    BY DEF Inv, ListsInv, TypeOK
  <1>3. boot_pn \in Page /\ boot_pn' \in 0 .. NumPages
    BY <1>1, <1>2, Sizes, SMT DEF Page
  <1>4. boot_pn \notin FreePages
    BY <1>2, SMT DEF FreePages
  <1>5. \A p \in Page : p < boot_pn' <=> p < boot_pn \/ p = boot_pn
    BY <1>1, <1>2, SMT DEF Page
  <1>6. CASE boot_pn \in mem_map
    <2>1. SetAreas(Areas) /\ failed' = FALSE
      <3>1. failed = FALSE
        BY DEF Inv, ListsInv, TypeOK, NoFailure
      <3>2. free_page_list' = free_page_list /\ free_area_map' = free_area_map /\ failed' = failed
        BY <1>6 DEF BootFreePage
      <3> QED
        BY <3>1, <3>2, AreasReady DEF SetAreas
    <2>2. FreePages' = FreePages
      BY <1>1, <1>5, <1>6 DEF FreePages
    <2> QED
      BY <1>1, <1>2, <1>3, <2>1, <2>2, AreasReady, ReadyInv
  <1>7. CASE boot_pn \notin mem_map
    <2> DEFINE s == FreeLoop(boot_pn, Areas)[MaxOrder]
    <2>1. Ready(s, FreePages \cup {boot_pn})
      BY <1>3, <1>4, AreasReady, FreedRight
    <2>2. SetAreas(s) /\ failed' = ~s.ok
      BY <1>7 DEF BootFreePage, Freed
    <2> HIDE DEF s
    <2>3. failed' = FALSE
      BY <2>1, <2>2 DEF Ready
    <2>4. FreePages' = FreePages \cup {boot_pn}
      BY <1>1, <1>3, <1>5, <1>7 DEF FreePages
    <2> QED
      BY <1>1, <1>2, <1>3, <2>1, <2>2, <2>3, <2>4, ReadyInv
  <1> QED
    BY <1>6, <1>7

\* Once init has run the lists hold every page whose mem_map bit is clear.
LEMMA FreeAfterBoot ==
    ASSUME boot_pn = NumPages PROVE FreePages = Page \ mem_map
  <1>1. \A p \in Page : p < NumPages
    BY Sizes
  <1> QED
    BY <1>1 DEF FreePages

\* kmem_free_page lists its page.
LEMMA FreePageStep ==
    ASSUME MapsApart, Inv, NEW pn \in Page, kmem_free_page(pn) PROVE Inv'
  <1> DEFINE s == FreeLoop(pn, Areas)[MaxOrder]
  <1>1. /\ boot_pn = NumPages /\ pn \in owned /\ mem_map' = mem_map \ {pn}
        /\ failed' = (pn \notin mem_map \/ ~s.ok) /\ owned' = owned \ {pn}
        /\ boot_pn' = boot_pn /\ answer' = answer /\ SetAreas(s)
    BY DEF kmem_free_page, Freed
  <1>2. /\ mem_map \subseteq Page /\ owned \subseteq mem_map /\ boot_pn \in 0 .. NumPages
        /\ answer \in {NULL} \cup Orders \X (Page \cup {NULL})
    BY DEF Inv, ListsInv, TypeOK
  <1>3. FreePages = Page \ mem_map /\ FreePages' = Page \ mem_map'
    <2>1. FreePages = Page \ mem_map
      BY <1>1, FreeAfterBoot
    <2>2. \A p \in Page : p < NumPages
      BY Sizes
    <2>3. FreePages' = Page \ mem_map'
      BY <1>1, <2>2 DEF FreePages
    <2> QED
      BY <2>1, <2>3
  <1>4. Ready(s, FreePages \cup {pn})
    BY <1>1, <1>2, <1>3, AreasReady, FreedRight
  <1> HIDE DEF s
  <1>5. failed' = FALSE
    BY <1>1, <1>2, <1>4 DEF Ready
  <1>6. FreePages' = FreePages \cup {pn}
    BY <1>1, <1>2, <1>3
  <1>7. mem_map' \subseteq Page /\ owned' \subseteq mem_map'
    BY <1>1, <1>2
  <1> QED
    BY <1>1, <1>2, <1>4, <1>5, <1>6, <1>7, ReadyInv

\* The order the search of kmem_alloc_pages ends at.
FirstOrder(order) ==
    CHOOSE ord \in Available(order) : \A o \in Available(order) : ord <= o

\* The search of kmem_alloc_pages ends at a block that is large enough.
LEMMA SearchFinds ==
    ASSUME Inv, NEW order \in Orders, Available(order) # {}
    PROVE  /\ FirstOrder(order) \in Orders /\ order <= FirstOrder(order)
           /\ Head(free_page_list[FirstOrder(order)]) \in Range(free_page_list[FirstOrder(order)])
  <1> DEFINE from == FirstOrder(order)
  <1>1. Available(order) \in SUBSET Nat
    BY Sizes, SMT DEF Available
  <1>2. from \in Available(order)
    BY <1>1, Least DEF FirstOrder
  <1> HIDE DEF from
  <1>3. from \in Orders /\ order <= from /\ free_page_list[from] # <<>>
    BY <1>2, Sizes, SMT DEF Available, Orders
  <1>4. free_page_list[from] \in Seq(Page)
    BY <1>3 DEF Inv, ListsInv, TypeOK
  <1>5. Head(free_page_list[from]) \in Range(free_page_list[from])
    <2> DEFINE q == free_page_list[from]
    <2>1. q \in Seq(Page) /\ q # <<>>
      BY <1>3, <1>4
    <2> HIDE DEF q
    <2>2. 1 \in DOMAIN q /\ Head(q) = q[1]
      BY <2>1, SMT
    <2>3. Head(q) \in Range(q)
      BY <2>2 DEF Range
    <2> QED
      BY <2>3 DEF q
  <1> QED
    BY <1>3, <1>5 DEF from

\* A request that is served takes an aligned block of free pages.
LEMMA AllocTakes ==
    ASSUME MapsApart, Inv, NEW order \in Orders, Available(order) # {}
    PROVE  LET from == FirstOrder(order)
               pn == Head(free_page_list[from])
           IN  /\ pn \in Page /\ pn % Pow2[order] = 0 /\ Block(pn, order) \subseteq FreePages
               /\ Ready(Taken(pn, from, order), FreePages \ Block(pn, order))
  <1> DEFINE from == FirstOrder(order)
             pn == Head(free_page_list[from])
  <1>1. from \in Orders /\ order <= from /\ pn \in Range(free_page_list[from])
    BY SearchFinds
  <1> HIDE DEF from, pn
  <1>2. FreePages \in SUBSET Page /\ Ready(Areas, FreePages) /\ pn \in Range(Areas.list[from])
    BY <1>1, AreasReady
  <1>3. /\ pn \in Page /\ pn % Pow2[order] = 0 /\ Block(pn, order) \subseteq FreePages
        /\ Ready(toggle_bit(list_detach(SplitLoop(pn, Areas, from)[from - order], pn), order, pn),
                 FreePages \ Block(pn, order))
    BY <1>1, <1>2, TakenRight
  <1> QED
    BY <1>3 DEF Taken, from, pn

\* One that is not served finds no aligned run of free pages.
LEMMA NullMeansNone ==
    ASSUME Inv, boot_pn = NumPages, NEW order \in Orders, Available(order) = {},
           NEW p \in Page, p % Pow2[order] = 0, Block(p, order) \subseteq Page \ mem_map
    PROVE  FALSE
  <1>1. Areas.list \in ListType /\ Partition(Areas.list, FreePages) /\ Merged(Areas.list)
    BY AreasReady, FieldTypes DEF Ready, ListType
  <1>2. Areas.list = free_page_list
    BY AreasReady
  <1>3. Block(p, order) \subseteq FreePages /\ p \in Nat
    BY FreeAfterBoot, Sizes
  <1>4. InOneBlock(free_page_list, p, order)
    BY <1>1, <1>2, <1>3, RunIsListed
  <1>5. PICK j \in Orders : order <= j /\ Range(free_page_list[j]) # {}
    BY <1>4 DEF InOneBlock
  <1>6. j \in order .. MaxOrder - 1
    BY <1>5, SMT DEF Orders
  <1>7. Range(<<>>) = {}
    BY SMT DEF Range
  <1> QED
    BY <1>5, <1>6, <1>7 DEF Available

\* kmem_alloc_pages takes the pages it returns off the lists.
LEMMA AllocStep ==
    ASSUME MapsApart, Inv, NEW order \in Orders, kmem_alloc_pages(order) PROVE Inv'
  <1> DEFINE from == FirstOrder(order)
             pn == Head(free_page_list[from])
             s == Taken(pn, from, order)
  <1>1. boot_pn = NumPages /\ boot_pn' = boot_pn
    BY DEF kmem_alloc_pages
  <1>2. /\ mem_map \subseteq Page /\ owned \subseteq mem_map /\ boot_pn \in 0 .. NumPages
        /\ failed = FALSE
    BY DEF Inv, ListsInv, TypeOK, NoFailure
  <1>3. FreePages = Page \ mem_map /\ FreePages' = Page \ mem_map'
    <2>1. FreePages = Page \ mem_map
      BY <1>1, FreeAfterBoot
    <2>2. \A p \in Page : p < NumPages
      BY Sizes
    <2>3. FreePages' = Page \ mem_map'
      BY <1>1, <2>2 DEF FreePages
    <2> QED
      BY <2>1, <2>3
  <1>4. CASE Available(order) = {}
    <2>1. /\ answer' = <<order, NULL>> /\ mem_map' = mem_map /\ owned' = owned /\ failed' = failed
          /\ free_page_list' = free_page_list /\ free_area_map' = free_area_map
      BY <1>4 DEF kmem_alloc_pages
    <2>2. SetAreas(Areas)
      BY <2>1, AreasReady DEF SetAreas
    <2>3. answer' \in {NULL} \cup Orders \X (Page \cup {NULL})
      BY <2>1
    <2> QED
      BY <1>1, <1>2, <1>3, <2>1, <2>2, <2>3, AreasReady, ReadyInv
  <1>5. CASE Available(order) # {}
    <2>1. /\ SetAreas(s) /\ mem_map' = mem_map \cup Block(pn, order)
          /\ failed' = (Block(pn, order) \cap mem_map # {} \/ ~s.ok)
          /\ owned' = owned \cup Block(pn, order) /\ answer' = <<order, pn>>
      BY <1>5 DEF kmem_alloc_pages, FirstOrder, Registered
    <2>2. /\ pn \in Page /\ Block(pn, order) \subseteq FreePages
          /\ Ready(s, FreePages \ Block(pn, order))
      BY <1>5, AllocTakes
    <2> HIDE DEF from, pn, s
    <2>3. FreePages' = FreePages \ Block(pn, order)
      BY <1>3, <2>1
    <2>4. failed' = FALSE
      <3>1. Block(pn, order) \cap mem_map = {} /\ s.ok
        BY <1>3, <2>2 DEF Ready
      <3> QED
        BY <2>1, <3>1
    <2>5. mem_map' \subseteq Page /\ owned' \subseteq mem_map'
      BY <1>2, <1>3, <2>1, <2>2
    <2>6. answer' \in {NULL} \cup Orders \X (Page \cup {NULL})
      BY <2>1, <2>2
    <2> QED
      BY <1>1, <1>2, <2>1, <2>2, <2>3, <2>4, <2>5, <2>6, ReadyInv
  <1> QED
    BY <1>4, <1>5

\* A step that changes nothing.
LEMMA StutterStep ==
    ASSUME Inv, UNCHANGED vars PROVE Inv'
  BY DEF Inv, ListsInv, Coalesced, TypeOK, NoFailure, FreePages, vars

\* Every step preserves the invariant.
LEMMA NextInv ==
    ASSUME MapsApart, Inv, [Next]_vars PROVE Inv'
  BY BootStep, AllocStep, FreePageStep, StutterStep DEF Next

\* The invariant holds in every state, for every size of the memory whose maps do not
\* run into each other.
THEOREM BuddyInvariant ==
    ASSUME MapsApart PROVE Spec => []Inv
  <1>1. Init => Inv
    BY InitInv
  <1>2. Inv /\ [Next]_vars => Inv'
    BY NextInv
  <1> QED
    BY <1>1, <1>2, PTL DEF Spec

\* No sequence of kmem_alloc_pages and kmem_free_page reaches a panic, goes through a
\* page in use, lists a page twice or loses one, or lets a bit of free_area_map disagree
\* with the lists.
THEOREM FreeListsRight ==
    ASSUME MapsApart PROVE Spec => []ListsInv
  <1>1. Inv => ListsInv
    BY DEF Inv
  <1> QED
    BY <1>1, BuddyInvariant, PTL

\* kmem_free_page merges as far as it can, whatever the order pages come back in.
THEOREM AlwaysCoalesced ==
    ASSUME MapsApart PROVE Spec => []Coalesced
  <1>1. Inv => Coalesced
    BY DEF Inv
  <1> QED
    BY <1>1, BuddyInvariant, PTL

-----------------------------------------------------------------------------
(* The buddy allocator is a page allocator *)

\* PageAlloc counts in the same blocks.
LEMMA SamePowers ==
    /\ PA!Pow2 = Pow2 /\ PA!Page = Page /\ PA!Orders = Orders
    /\ \A p, k : PA!Block(p, k) = Block(p, k)
  <1>1. PA!Pow2 = Pow2
    BY DEF PA!Pow2, Pow2
  <1> QED
    BY <1>1 DEF PA!Page, Page, PA!Orders, Orders, PA!Block, Block

\* kmem_alloc_pages returns an aligned run of free pages, and NULL only if there is none.
LEMMA AllocRefines ==
    ASSUME MapsApart, Inv, NEW order \in Orders, kmem_alloc_pages(order)
    PROVE  PA!Alloc(order)
  <1> DEFINE free == Page \ mem_map
             from == FirstOrder(order)
             pn == Head(free_page_list[from])
  <1>1. boot_pn = NumPages
    BY DEF kmem_alloc_pages
  <1>2. FreePages = free
    BY <1>1, FreeAfterBoot
  <1>3. \A p : p \in PA!Candidates(order)
            <=> p \in Page /\ p % Pow2[order] = 0 /\ Block(p, order) \subseteq free
    BY SamePowers DEF PA!Candidates
  <1>4. CASE Available(order) = {}
    <2>1. answer' = <<order, NULL>> /\ mem_map' = mem_map /\ owned' = owned
      BY <1>4 DEF kmem_alloc_pages
    <2>2. PA!Candidates(order) = {}
      BY <1>1, <1>3, <1>4, NullMeansNone
    <2> QED
      BY <2>1, <2>2 DEF PA!Alloc
  <1>5. CASE Available(order) # {}
    <2>1. /\ mem_map' = mem_map \cup Block(pn, order)
          /\ owned' = owned \cup Block(pn, order) /\ answer' = <<order, pn>>
      BY <1>5 DEF kmem_alloc_pages, FirstOrder, Registered
    <2>2. pn \in Page /\ pn % Pow2[order] = 0 /\ Block(pn, order) \subseteq FreePages
      BY <1>5, AllocTakes
    <2> HIDE DEF from, pn
    <2>3. pn \in PA!Candidates(order)
      BY <1>2, <1>3, <2>2
    <2>4. Page \ mem_map' = (Page \ mem_map) \ Block(pn, order)
      BY <2>1
    <2>5. \E p \in PA!Candidates(order) :
              /\ Page \ mem_map' = (Page \ mem_map) \ PA!Block(p, order)
              /\ owned' = owned \cup PA!Block(p, order)
              /\ answer' = <<order, p>>
      BY <2>1, <2>3, <2>4, SamePowers
    <2> QED
      BY <2>5 DEF PA!Alloc
  <1> QED
    BY <1>4, <1>5

\* kmem_free_page gives its page back.
LEMMA FreeRefines ==
    ASSUME Inv, NEW pn \in Page, kmem_free_page(pn)
    PROVE  PA!Free(pn)
  <1>1. pn \in owned /\ mem_map' = mem_map \ {pn} /\ owned' = owned \ {pn} /\ answer' = answer
    BY DEF kmem_free_page
  <1>2. Page \ mem_map' = (Page \ mem_map) \cup {pn}
    BY <1>1
  <1> QED
    BY <1>1, <1>2 DEF PA!Free

\* The buddy allocator implements PageAlloc: its callers never share a page, and are
\* refused only when no aligned run of free pages is left.
THEOREM BuddyImplements ==
    ASSUME MapsApart PROVE Spec => Implements
  <1>1. Init => PA!Init
    BY SamePowers DEF Init, PA!Init
  <1>2. ASSUME Inv, [Next]_vars PROVE [PA!Next]_<<Page \ mem_map, owned, answer>>
    <2>1. CASE BootFreePage
      BY <2>1 DEF BootFreePage
    <2>2. CASE \E order \in Orders : kmem_alloc_pages(order)
      BY <2>2, <1>2, AllocRefines, SamePowers DEF PA!Next
    <2>3. CASE \E pn \in Page : kmem_free_page(pn)
      BY <2>3, <1>2, FreeRefines, SamePowers DEF PA!Next
    <2>4. CASE UNCHANGED vars
      BY <2>4 DEF vars
    <2> QED
      BY <1>2, <2>1, <2>2, <2>3, <2>4 DEF Next
  <1>3. Inv /\ [Next]_vars => [PA!Next]_<<Page \ mem_map, owned, answer>>
    BY <1>2
  <1> QED
    BY <1>1, <1>3, BuddyInvariant, PTL DEF Spec, Implements, PA!Spec

-----------------------------------------------------------------------------
(* When the maps are large enough *)

\* The assumption of the theorems holds of every memory made of whole blocks of the top
\* order (and fails for the 17 pages of Buddy_17.cfg).
THEOREM WholeBlocks ==
    ASSUME NumPages % Pow2[MaxOrder] = 0 PROVE MapsApart
  <1> SUFFICES ASSUME NEW ord \in Orders
               PROVE  (NumPages - 1) \div Pow2[ord + 1] < 8 * free_area_map_size(ord)
    BY DEF MapsApart
  <1> DEFINE m == Pow2[ord + 1]
             q == NumPages \div m
  <1>1. ord + 1 \in Nat /\ ord + 1 <= MaxOrder /\ MaxOrder \in Nat
    BY Sizes, SMT DEF Orders
  <1>2. NumPages % m = 0
    BY <1>1, Sizes, AlignedBelow
  <1>3. m \in Nat /\ m > 0 /\ NumPages \in Nat /\ NumPages > 0
    BY <1>1, Sizes
  <1>4. q \in Nat /\ NumPages = m * q + (NumPages % m)
    BY <1>3, Division
  <1> HIDE DEF m, q
  <1>5. q > 0
    BY <1>2, <1>3, <1>4, SMT
  <1>6. NumPages - 1 = m * (q - 1) + (m - 1) /\ q - 1 \in Nat /\ m - 1 \in Nat /\ m - 1 < m
    BY <1>2, <1>3, <1>4, <1>5, SMT
  <1>7. (NumPages - 1) \div m = q - 1
    <2> DEFINE a == q - 1
               r == m - 1
    <2>1. a \in Nat /\ r \in Nat /\ r < m /\ NumPages - 1 = m * a + r
      BY <1>6
    <2> HIDE DEF a, r
    <2>2. (m * a + r) \div m = a
      BY <1>3, <2>1, Quotient
    <2> QED
      BY <2>1, <2>2 DEF a
  <1>8. q - 1 < 8 * ((q + 8 - 1) \div 8)
    BY <1>4, <1>5, SMT
  <1> QED
    BY <1>7, <1>8 DEF free_area_map_size, m, q

=============================================================================
