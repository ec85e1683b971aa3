----------------------------- MODULE FdtRight -----------------------------
(***************************************************************************)
(* What is right about the trees libfdt keeps: the properties of FdtTree,  *)
(* stated on the documents the blobs stand for.                            *)
(***************************************************************************)
EXTENDS FdtTree

CONSTANTS
    RefProp,        \* property that holds a reference into its own tree
    LabelProp,      \* property of an overlay that refers to a label
    Label           \* a label of the base

Least(S) == CHOOSE m \in S : \A x \in S : m <= x

(***************************************************************************)
(* A document read without its blob.  Nodes are given by the index of      *)
(* their begin token.                                                      *)
(***************************************************************************)
Children(d, i) ==
    {j \in Tree!Nodes(d) : j > i /\ \E depth \in {[k \in i .. j |-> Tree!Depth(d, k)]} :
        depth[j] = depth[i] + 1 /\ \A k \in i .. j : depth[k] >= depth[i]}
Parent(d, i) == CHOOSE j \in Tree!Nodes(d) : i \in Children(d, j)

\* A name without unit address stands for any
Matches(name, n) ==
    \/ name = n
    \/ ~Has(n, At) /\ Len(name) > Len(n) /\ Prefix(name, Len(n) + 1) = Append(n, At)
ChildrenNamed(d, i, n) == {j \in Children(d, i) : Matches(d[j].name, n)}

\* The path of a node leads to it, through the first match at every level
RECURSIVE Reached(_, _)
Reached(d, i) ==
    i = 1 \/ \E p \in {Parent(d, i)} :
                 Reached(d, p) /\ i = Least(ChildrenNamed(d, p, d[i].name))

ValueOf(d, i, n) ==
    IF Tree!Named(d, i, n) = {} THEN <<>> ELSE d[Least(Tree!Named(d, i, n))].value
PhandleOf(d, i) ==
    LET cells == {n \in {N_phandle, N_linux_phandle} : Len(ValueOf(d, i, n)) = 4}
    IN  CASE N_phandle \in cells -> fdt32_ld(ValueOf(d, i, N_phandle))
          [] cells = {N_linux_phandle} -> fdt32_ld(ValueOf(d, i, N_linux_phandle))
          [] cells = {} -> 0

\* The strings of a list, as the places where they begin and end
StringsOf(v) ==
    {w \in (1 .. Len(v)) \X (1 .. Len(v)) :
        /\ w[1] <= w[2] /\ v[w[2]] = NUL
        /\ w[1] = 1 \/ v[w[1] - 1] = NUL
        /\ \A k \in w[1] .. w[2] - 1 : v[k] # NUL}
TextOf(v, w) == SubSeq(v, w[1], w[2] - 1)

\* The text of a path given by its names, the root's empty one first
TextOfPath(path) == IF Len(path) = 1 THEN <<Slash>> ELSE PathText(Tail(path))
----------------------------------------------------------------------------
\* A search finds the first of S, or fails when there is none
Finds(offset, S, at) ==
    IF S = {} THEN offset < 0 ELSE offset = at[Least(S)]

NodeRead(d, at, i) ==
    \E path \in {Tree!PathTo(d, i)}, kids \in {Children(d, i)} :
    \E room \in {Larger(2, TextLength(path))} :
        /\ fdt_get_name(fdt, at[i]) = Found(d[i].name)
        /\ fdt_node_depth(fdt, at[i]) = Tree!Depth(d, i) - 1
        /\ i > 1 => fdt_parent_offset(fdt, at[i]) = at[Parent(d, i)]
        /\ Finds(fdt_first_subnode(fdt, at[i]), kids, at)
        /\ \A j \in kids :
              Finds(fdt_next_subnode(fdt, at[j]), {k \in kids : k > j}, at)
        /\ \A n \in NodeNames :
              Finds(fdt_subnode_offset(fdt, at[i], n), {j \in kids : Matches(d[j].name, n)}, at)
        /\ fdt_get_path(fdt, at[i], room) = [len |-> 0, s |-> path]
        /\ fdt_get_path(fdt, at[i], room - 1).len = -FDT_ERR_NOSPACE
        /\ Reached(d, i) <=> fdt_path_offset(fdt, TextOfPath(path)) = at[i]

PropsRead(d, at, i) ==
    /\ Finds(fdt_first_property_offset(fdt, at[i]), Tree!PropsOf(d, i), at)
    /\ \A j \in Tree!PropsOf(d, i) :
          /\ Finds(fdt_next_property_offset(fdt, at[j]),
                   {k \in Tree!PropsOf(d, i) : k > j}, at)
          /\ fdt_getprop_by_offset(fdt, at[j]) =
                [name |-> Found(d[j].name), value |-> Found(d[j].value)]
    /\ \A n \in PropNames :
          IF Tree!Named(d, i, n) = {} THEN fdt_getprop(fdt, at[i], n).len < 0
          ELSE fdt_getprop(fdt, at[i], n) = Found(ValueOf(d, i, n))

\* Lists, where the value is one
ListRead(d, at, i, n) ==
    \E v \in {ValueOf(d, i, n)} :
        /\ fdt_stringlist_count(fdt, at[i], n) = Cardinality(StringsOf(v))
        /\ \A w \in StringsOf(v) :
              \E idx \in {fdt_stringlist_search(fdt, at[i], n, TextOf(v, w))} :
                  /\ fdt_stringlist_get(fdt, at[i], n, idx) = Found(TextOf(v, w))
                  /\ fdt_stringlist_contains(v, TextOf(v, w))
        /\ \A s \in {<<98>>, <<98, 99>>, <<99>>} :
              LET listed == \E w \in StringsOf(v) : TextOf(v, w) = s
              IN  /\ fdt_stringlist_contains(v, s) <=> listed
                  /\ fdt_stringlist_search(fdt, at[i], n, s) >= 0 <=> listed

SearchesRead(d, at) ==
    \E all \in {Tree!Nodes(d)}, max \in {fdt_find_max_phandle(fdt)},
       new \in {fdt_generate_phandle(fdt)} :
    \E handle \in {[i \in all |-> PhandleOf(d, i)]} :
        /\ \A h \in {1} \cup {handle[i] : i \in all} : h \in 1 .. FDT_MAX_PHANDLE =>
              Finds(fdt_node_offset_by_phandle(fdt, h), {i \in all : handle[i] = h}, at)
        /\ \A i \in all : handle[i] <= max.fdt
        /\ IF \E i \in all : handle[i] = FDT_MAX_PHANDLE
           THEN new.ret = -FDT_ERR_NOPHANDLES
           ELSE new.fdt \in 1 .. FDT_MAX_PHANDLE \ {handle[i] : i \in all}
        /\ \A n \in PropNames : \A v \in Values[n], i \in all :
              Finds(fdt_node_offset_by_prop_value(fdt, at[i], n, v),
                    {j \in all : /\ j > i
                                 /\ Tree!Named(d, j, n) # {}
                                 /\ ValueOf(d, j, n) = v}, at)
        /\ \A s \in {<<98>>, <<98, 99>>, <<99>>} :
              Finds(fdt_node_offset_by_compatible(fdt, -1, s),
                    {i \in all : LET v == ValueOf(d, i, N_compatible)
                                 IN  \E w \in StringsOf(v) : TextOf(v, w) = s}, at)

ReservedRead ==
    /\ fdt_num_mem_rsv(fdt) = Len(rsv)
    /\ \A n \in DOMAIN rsv :
          fdt_get_mem_rsv(fdt, n - 1).fdt = Reserve(rsv[n].address, rsv[n].size)

AllRead(d, at) ==
    /\ \A i \in Tree!Nodes(d) : NodeRead(d, at, i) /\ PropsRead(d, at, i)
    /\ Complete =>
          /\ SearchesRead(d, at)
          /\ ReservedRead
          /\ \A i \in Tree!Nodes(d), n \in {N_linux_phandle, N_compatible} :
                \E v \in {ValueOf(d, i, n)} :
                    v # <<>> /\ v[Len(v)] = NUL => ListRead(d, at, i, n)

\* Offsets of the tokens in the structure block
Offsets(b) == [i \in DOMAIN Tokens(b) |-> Tokens(b)[i] - b.off_dt_struct]

(***************************************************************************)
(* Whatever calls succeeded or failed before, what the functions of        *)
(* fdt_ro.c read from the blob is what its document says: names, depths,   *)
(* parents, paths with a buffer that is just large enough, subnodes and    *)
(* properties in order, the first match for every name, phandle, value and *)
(* string, a phandle that is new, the reservations.  Nodes and properties  *)
(* also read right while the tree is being built, and after properties and *)
(* nodes were overwritten with FDT_NOP tags.                               *)
(***************************************************************************)
ReadsRight ==
    Complete \/ (phase = "struct" /\ fdt.size_dt_struct > 0)
        => \E at \in {Offsets(fdt)} : AllRead(doc, at)
----------------------------------------------------------------------------
\* Items of S, each with its size, cover lo .. hi - 1 without gap or overlap
Tile(S, lo, hi, size) ==
    /\ \A o \in S \cup {lo} : o \in S \cup {hi}
    /\ \A o \in S : lo <= o /\ o + size[o] \in S \cup {hi}
    /\ \A o \in S, x \in S : x <= o \/ o + size[o] <= x

Items(tags) == {o \in DOMAIN fdt.mem : fdt.mem[o].tag \in tags}
Aligned(S) == [o \in S |-> FDT_TAGALIGN(RawSize(fdt.mem[o]))]
Raw(S) == [o \in S |-> RawSize(fdt.mem[o])]
Greatest(S) == CHOOSE m \in S : \A x \in S : x <= m

\* The structure block ends behind the last tag where the header has no field
StructEnd ==
    IF fdt.version >= 17 THEN StructTop(fdt) ELSE Greatest(Items(Tags)) + FDT_TAGSIZE
StringsStart == IF Building THEN fdt.totalsize - fdt.size_dt_strings ELSE fdt.off_dt_strings
ReservedEnd ==
    fdt.off_mem_rsvmap + SizeofReserveEntry * Cardinality(Items({RSV}))

Apart(lo1, hi1, lo2, hi2) == hi1 <= lo2 \/ hi2 <= lo1

(***************************************************************************)
(* The three blocks of a blob (struct fdt_header) never overlap and never  *)
(* leave the buffer, and each is covered by its items: a splice, a moved   *)
(* block or a grown string never cuts an item, leaves a gap or writes over *)
(* a neighbour, also when the buffer is full to the last byte.  A complete *)
(* tree passes fdt_check_full.                                             *)
(***************************************************************************)
LayoutInv ==
    phase # "damaged" =>
        /\ Tile(Items(Tags), fdt.off_dt_struct, StructEnd, Aligned(Items(Tags)))
        /\ Tile(Items({STR}), StringsStart, StringsStart + fdt.size_dt_strings,
                Raw(Items({STR})))
        /\ Tile(Items({RSV}), fdt.off_mem_rsvmap, ReservedEnd, Raw(Items({RSV})))
        /\ Apart(fdt.off_dt_struct, StructEnd,
                 StringsStart, StringsStart + fdt.size_dt_strings)
        /\ Apart(fdt.off_dt_struct, StructEnd, fdt.off_mem_rsvmap, ReservedEnd)
        /\ Apart(StringsStart, StringsStart + fdt.size_dt_strings,
                 fdt.off_mem_rsvmap, ReservedEnd)
        /\ fdt.off_mem_rsvmap >= fdt_header_size(fdt)
        /\ StructEnd <= fdt.totalsize
        /\ StringsStart + fdt.size_dt_strings <= fdt.totalsize
        /\ Complete => fdt_check_full(fdt, fdt.totalsize) = 0
----------------------------------------------------------------------------
\* Bytes a document takes in the structure block, and a name in the strings
RECURSIVE Bytes(_)
Bytes(d) ==
    IF d = <<>> THEN 0
    ELSE Bytes(Tail(d)) +
         CASE Head(d).kind = "begin" -> 4 + FDT_TAGALIGN(Len(Head(d).name) + 1)
           [] Head(d).kind = "prop" -> 12 + FDT_TAGALIGN(Len(Head(d).value))
           [] Head(d).kind = "end" -> 4
NameBytes(n) ==
    IF \E o \in Items({STR}) : /\ Len(fdt.mem[o].chars) >= Len(n)
                               /\ Tail_(fdt.mem[o].chars, Len(n)) = n
    THEN 0 ELSE Len(n) + 1

\* A call that makes the document d, or fails for want of the room d needs
Does(r, d, more) ==
    \/ r.ret >= 0 /\ Doc(r.fdt) = d /\ Rsv(r.fdt) = rsv
    \/ /\ r.ret = -FDT_ERR_NOSPACE /\ r.fdt = fdt
       /\ fdt_data_size_(fdt) + Bytes(d) - Bytes(doc) + more > fdt.totalsize
Must(r, d) == r.ret = 0 /\ Does(r, d, 0)
Refuses(r, err) == r.ret = -err /\ r.fdt = fdt

\* A property that is there, at j, and one that is not
PropEdits(o, n, j) ==
    /\ Must(fdt_delprop(fdt, o, n), Tree!Spliced(doc, j, j, <<>>))
    /\ Must(fdt_nop_property(fdt, o, n), Tree!Spliced(doc, j, j, <<>>))
    /\ \A v \in Values[n] :
          /\ Does(fdt_setprop(fdt, o, n, v), [doc EXCEPT ![j].value = v], 0)
          /\ Does(fdt_appendprop(fdt, o, n, v), [doc EXCEPT ![j].value = @ \o v], 0)
          /\ IF Len(v) = Len(doc[j].value)
             THEN Must(fdt_setprop_inplace(fdt, o, n, v), [doc EXCEPT ![j].value = v])
             ELSE Refuses(fdt_setprop_inplace(fdt, o, n, v), FDT_ERR_NOSPACE)
NewProps(i, o, n) ==
    /\ Refuses(fdt_delprop(fdt, o, n), FDT_ERR_NOTFOUND)
    /\ Refuses(fdt_nop_property(fdt, o, n), FDT_ERR_NOTFOUND)
    /\ \A v \in Values[n] :
          /\ Refuses(fdt_setprop_inplace(fdt, o, n, v), FDT_ERR_NOTFOUND)
          /\ \A r \in {fdt_setprop(fdt, o, n, v), fdt_appendprop(fdt, o, n, v)} :
                Does(r, Tree!Spliced(doc, i + 1, i, <<Tree!PropTok(n, v)>>), NameBytes(n))

\* A new subnode comes behind the token k; the call returns its offset
NewNode(r, n, k) ==
    /\ Does(r, Tree!Spliced(doc, k + 1, k, <<Tree!BeginTok(n), Tree!EndTok>>), 0)
    /\ r.ret >= 0 => r.ret = Offsets(r.fdt)[k + 1]
SubnodeEdits(i, o, n) ==
    IF ChildrenNamed(doc, i, n) # {}
    THEN Refuses(fdt_add_subnode(fdt, o, n), FDT_ERR_EXISTS)
    ELSE NewNode(fdt_add_subnode(fdt, o, n), n, Greatest({i} \cup Tree!PropsOf(doc, i)))

NodeEdits(i, o) ==
    LET without == Tree!Spliced(doc, i, Tree!NodeEndOf(doc, i), <<>>)
    IN  /\ Must(fdt_del_node(fdt, o), without)
        /\ Must(fdt_nop_node(fdt, o), without)
        /\ \A n \in NodeNames : Does(fdt_set_name(fdt, o, n), [doc EXCEPT ![i].name = n], 0)

\* Moves keep the tree; a packed one ends with its strings
Moves ==
    /\ \A r \in {fdt_pack(fdt)} :
          Must(r, doc) /\ r.fdt.totalsize = fdt_data_size_(r.fdt)
    /\ \A n \in 1 .. Len(rsv) :
          Rsv(fdt_del_mem_rsv(fdt, n - 1).fdt) = Tree!Spliced(rsv, n, n, <<>>)

Opens ==
    \A delta \in Deltas, size \in BufSizes : \E r \in {fdt_open_into(fdt, delta, size)} :
        \/ r.ret = -FDT_ERR_NOSPACE /\ r.fdt = fdt
        \/ /\ Must(r, doc)
           /\ r.fdt.totalsize = size
           /\ fdt_rw_probe_(r.fdt) = 0

(***************************************************************************)
(* On every complete tree, each call of fdt_rw.c and fdt_wip.c does        *)
(* exactly what it is for to the document and nothing else, or it fails    *)
(* and the blob is untouched, the strings block included: a name that was  *)
(* added for a property that then does not fit is taken back.  A call      *)
(* refuses for want of room only when the bytes it needs are really not    *)
(* there.                                                                  *)
(***************************************************************************)
EditsExact ==
    Complete =>
        /\ Opens
        /\ fdt_rw_probe_(fdt) = 0 =>
              /\ Moves
              /\ \A i \in Tree!Nodes(doc) : \E o \in {Offsets(fdt)[i]} :
                    /\ \A n \in PropNames :
                          IF Tree!Named(doc, i, n) = {} THEN NewProps(i, o, n)
                          ELSE PropEdits(o, n, Least(Tree!Named(doc, i, n)))
                    /\ \A n \in NodeNames : SubnodeEdits(i, o, n)
                    /\ i > 1 => NodeEdits(i, o)
----------------------------------------------------------------------------
(***************************************************************************)
(* Trees as functions from paths to properties, for the documents whose    *)
(* siblings have names that do not match each other.                       *)
(***************************************************************************)
PropsAt(d, i) == [n \in {d[j].name : j \in Tree!PropsOf(d, i)} |-> ValueOf(d, i, n)]
MapOf(d) ==
    [p \in Tree!Paths(d) |->
        PropsAt(d, CHOOSE i \in Tree!Nodes(d) : Tree!PathTo(d, i) = p)]
Distinct(d) ==
    \A i \in Tree!Nodes(d) : \A j \in Children(d, i) :
        Cardinality(ChildrenNamed(d, i, d[j].name)) = 1

\* The node below p that the names lead to; where there is none, a new one
RECURSIVE Place(_, _, _)
Place(m, p, names) ==
    IF names = <<>> THEN p
    ELSE LET found == {q \in DOMAIN m : /\ Len(q) = Len(p) + 1
                                        /\ Prefix(q, Len(p)) = p
                                        /\ Matches(q[Len(q)], Head(names))}
         IN  Place(m, IF found = {} THEN Append(p, Head(names))
                      ELSE CHOOSE q \in found : TRUE,
                   Tail(names))

\* The names in the text of a path
RECURSIVE NamesIn(_)
NamesIn(text) ==
    IF text = <<>> THEN <<>>
    ELSE IF Head(text) = Slash THEN NamesIn(Tail(text))
    ELSE <<Prefix(text, Before(text, Slash))>> \o NamesIn(Drop(text, Before(text, Slash)))

Root == <<<<>>>>
AtPath(m, value) == Place(m, Root, NamesIn(CString(value)))
Labelled(m) == AtPath(m, m[<<<<>>, N_symbols>>][Label])

\* Fragments are the children of the overlay's root with something to merge;
\* where each goes, by path or by the label
Fragments(v) == {p \in DOMAIN v : Len(p) = 2 /\ Append(p, N_overlay) \in DOMAIN v}
TargetOf(m, base, v, f) ==
    IF N_target_path \in DOMAIN v[f] THEN AtPath(m, v[f][N_target_path]) ELSE Labelled(base)
Goes(m, base, v, p) == Place(m, TargetOf(m, base, v, Prefix(p, 2)), Drop(p, 3))

\* The paths of an overlay below its fragments, in document order
PathsAt(d, nodes) == [k \in DOMAIN nodes |-> Tree!PathTo(d, nodes[k])]
Merged(d) ==
    PathsAt(d, Ascending({i \in Tree!Nodes(d) :
        LET p == Tree!PathTo(d, i) IN Len(p) > 2 /\ p[3] = N_overlay}))

\* The value a property of the overlay has in the result: phandles and
\* references move above the base's, references to the label are filled in
MaxPhandle(d) == Greatest({0} \cup {PhandleOf(d, i) : i \in Tree!Nodes(d)})
Carried(base, delta, n, value) ==
    CASE n \in {N_phandle, RefProp} -> fdt32_st(fdt32_ld(value) + delta)
      [] n = LabelProp -> base[Labelled(base)][N_phandle]
      [] OTHER -> value
CarriedAll(base, delta, props) ==
    [n \in DOMAIN props |-> Carried(base, delta, n, props[n])]

\* The base m with the given nodes of the overlay laid over their targets
Laid(m, q, new) ==
    Over([x \in {q} |-> IF x \in DOMAIN m THEN Over(new, m[x]) ELSE new], m)
RECURSIVE MergedInto(_, _, _, _, _)
MergedInto(m, base, delta, v, paths) ==
    IF paths = <<>> THEN m
    ELSE MergedInto(Laid(m, Goes(m, base, v, Head(paths)),
                         CarriedAll(base, delta, v[Head(paths)])),
                    base, delta, v, Tail(paths))

WithoutSymbols(m) == [p \in DOMAIN m \ {<<<<>>, N_symbols>>} |-> m[p]]

(***************************************************************************)
(* fdt_overlay_apply makes of the base exactly the base with every         *)
(* fragment laid over its target, in order, although every insertion moves *)
(* the nodes behind it; a node the base has is merged into, also when the  *)
(* overlay names it without its unit address.  Or it fails, and then no    *)
(* function reads the base any more.                                       *)
(***************************************************************************)
OverlayMerged ==
    last # NoMerge =>
        IF ~Complete THEN fdt_ro_probe_(fdt) < 0
        ELSE /\ Distinct(doc)
             /\ \E m \in {MapOf(last.base)}, n \in {MapOf(doc)}, o \in {Doc(last.fdto)},
                   delta \in {MaxPhandle(last.base)} :
                \E v \in {MapOf(o)}, paths \in {Merged(o)} :
                \E r \in {MergedInto(m, m, delta, v, paths)} :
                   WithoutSymbols(n) = WithoutSymbols(r)

\* The nodes that have a phandle
WithPhandle(m, cell) ==
    {p \in DOMAIN m : N_phandle \in DOMAIN m[p] /\ m[p][N_phandle] = cell}

\* The overlay gives no node a new phandle that has one
NoSecondPhandle(m, n, v) ==
    \A p \in DOMAIN v : N_phandle \in DOMAIN v[p] =>
        LET q == Goes(n, m, v, p)
        IN  q \in DOMAIN m => N_phandle \notin DOMAIN m[q]

\* m and n: the base before and after, v: the overlay before
Follow(m, n, v) ==
    /\ \A p \in DOMAIN m : RefProp \in DOMAIN m[p] /\ n[p][RefProp] = m[p][RefProp] =>
          WithPhandle(n, n[p][RefProp]) = WithPhandle(m, m[p][RefProp])
    /\ \A p \in DOMAIN v : Len(p) > 2 /\ Prefix(p, 2) \in Fragments(v) =>
          LET q == Goes(n, m, v, p)
          IN  /\ RefProp \in DOMAIN v[p] =>
                    WithPhandle(n, n[q][RefProp]) =
                        {Goes(n, m, v, t) : t \in WithPhandle(v, v[p][RefProp])}
              /\ LabelProp \in DOMAIN v[p] =>
                    WithPhandle(n, n[q][LabelProp]) = {Labelled(m)}
    /\ Labelled(n) = Labelled(m)
    /\ <<<<>>, N_symbols>> \in DOMAIN v =>
          \A l \in DOMAIN v[<<<<>>, N_symbols>>] :
              AtPath(n, n[<<<<>>, N_symbols>>][l]) =
                  Goes(n, m, v, Root \o NamesIn(CString(v[<<<<>>, N_symbols>>][l])))

(***************************************************************************)
(* After an overlay was applied, every reference leads to the node it was  *)
(* written for: those of the base, those inside the overlay, whose         *)
(* phandles were moved above the base's, those to a label of the base, and *)
(* the paths of the labels.  Only an overlay that gives a second phandle   *)
(* to a node of the base breaks this.                                      *)
(***************************************************************************)
ReferencesFollow ==
    last # NoMerge /\ Complete =>
        \E m \in {MapOf(last.base)}, n \in {MapOf(doc)}, v \in {MapOf(Doc(last.fdto))} :
            NoSecondPhandle(m, n, v) => Follow(m, n, v)
============================================================================
