------------------------------ MODULE FdtRo ------------------------------
(***************************************************************************)
(* Reading a flattened device tree (fdt_ro.c, fdt_addresses.c,             *)
(* fdt_check.c).                                                           *)
(*                                                                         *)
(* A function of the code that returns a pointer and stores a length       *)
(* returns a record here: len is the length, or the error when the pointer *)
(* is NULL, and s is what the pointer points to.  A cell of 32 bits has    *)
(* four digits of base 2, so cells count modulo CellMod = 16: the largest  *)
(* and the reserved phandles are a few steps away.                         *)
(***************************************************************************)
EXTENDS Fdt

CellMod == 16
FDT_MAX_PHANDLE == CellMod - 2
FDT_MAX_NCELLS == 4

\* Character codes with a meaning, and stand-ins for the names the library
\* looks for
NUL == 0
At == 64
Slash == 47
N_phandle == <<112>>
N_linux_phandle == <<108, 112>>
N_aliases == <<97, 108>>
N_compatible == <<99>>
N_address_cells == <<35, 97>>
N_size_cells == <<35, 115>>

fdt32_ld(d) == d[1] * 8 + d[2] * 4 + d[3] * 2 + d[4]
fdt32_st(v) == <<v \div 8, (v \div 4) % 2, (v \div 2) % 2, v % 2>>

Found(s) == [len |-> Len(s), s |-> s]
Missing(err) == [len |-> err, s |-> <<>>]

Prefix(s, n) == SubSeq(s, 1, n)
Drop(s, n) == SubSeq(s, n + 1, Len(s))
Has(s, c) == \E i \in DOMAIN s : s[i] = c

\* How many characters stand before the first c (all, when there is none)
Before(s, c) ==
    CHOOSE n \in 0 .. Len(s) :
        /\ \A i \in 1 .. n : s[i] # c
        /\ n < Len(s) => s[n + 1] = c

\* A value read as a C string
CString(s) == Prefix(s, Before(s, NUL))
----------------------------------------------------------------------------
(***************************************************************************)
(* Names, strings and reservations                                         *)
(***************************************************************************)
Name(fdt, offset, probe, next) ==
    IF probe < 0 THEN Missing(probe)
    ELSE IF next < 0 THEN Missing(next)
    ELSE Found(fdt_offset_ptr_(fdt, offset).name)

fdt_get_name(fdt, offset) ==
    Name(fdt, offset, fdt_ro_probe_(fdt), fdt_check_node_offset_(fdt, offset))

NameEq(p, s) ==
    /\ p.len >= Len(s)
    /\ Prefix(p.s, Len(s)) = s
    /\ p.len = Len(s) \/ (~Has(s, At) /\ p.s[Len(s) + 1] = At)

fdt_nodename_eq_(fdt, offset, s) == NameEq(fdt_get_name(fdt, offset), s)

\* Offset behind the last byte in which a string at stroffset may end
StringsEnd(fdt) ==
    CASE fdt.magic = FDT_SW_MAGIC -> fdt.off_dt_strings
      [] fdt.magic = FDT_MAGIC /\ fdt.version >= 17 ->
            fdt.off_dt_strings + fdt.size_dt_strings
      [] OTHER -> fdt.totalsize

\* The strings that contain an offset and are terminated in front of end
StringsAt(fdt, absoffset, end) ==
    {x \in DOMAIN fdt.mem :
        /\ fdt.mem[x].tag = STR
        /\ absoffset \in x .. x + Len(fdt.mem[x].chars)
        /\ x + RawSize(fdt.mem[x]) <= end}

StringFrom(fdt, absoffset, xs) ==
    IF xs = {} THEN Missing(-FDT_ERR_TRUNCATED)
    ELSE LET x == CHOOSE x \in xs : TRUE
         IN  Found(Drop(fdt.mem[x].chars, absoffset - x))

fdt_get_string(fdt, stroffset) ==
    IF fdt_ro_probe_(fdt) < 0 THEN Missing(fdt_ro_probe_(fdt))
    ELSE IF \/ stroffset + fdt.off_dt_strings >= fdt.totalsize
            \/ /\ fdt.magic = FDT_MAGIC
               /\ \/ stroffset < 0
                  \/ fdt.version >= 17 /\ stroffset >= fdt.size_dt_strings
            \/ /\ fdt.magic = FDT_SW_MAGIC
               /\ stroffset >= 0 \/ -stroffset > fdt.size_dt_strings
         THEN Missing(-FDT_ERR_BADOFFSET)
    ELSE StringFrom(fdt, stroffset + fdt.off_dt_strings,
            StringsAt(fdt, stroffset + fdt.off_dt_strings, StringsEnd(fdt)))

RsvAt(fdt, n) == fdt.off_mem_rsvmap + n * SizeofReserveEntry

\* The pointer returned is not NULL
fdt_mem_rsv(fdt, n) ==
    /\ n >= 0
    /\ RsvAt(fdt, n) <= fdt.totalsize - SizeofReserveEntry

\* An entry, of size 0 with a failure
fdt_get_mem_rsv(fdt, n) ==
    IF fdt_ro_probe_(fdt) < 0 THEN Result(Reserve(0, 0), fdt_ro_probe_(fdt))
    ELSE IF ~fdt_mem_rsv(fdt, n) THEN Result(Reserve(0, 0), -FDT_ERR_BADOFFSET)
    ELSE Result(fdt.mem[RsvAt(fdt, n)], 0)

RECURSIVE NumRsvFrom(_, _)
NumRsvFrom(fdt, n) ==
    IF ~fdt_mem_rsv(fdt, n) THEN -FDT_ERR_TRUNCATED
    ELSE IF fdt.mem[RsvAt(fdt, n)].size = 0 THEN n
    ELSE NumRsvFrom(fdt, n + 1)

fdt_num_mem_rsv(fdt) == NumRsvFrom(fdt, 0)
----------------------------------------------------------------------------
(***************************************************************************)
(* Properties                                                              *)
(***************************************************************************)
RECURSIVE NextProp(_, _, _)
NextProp(fdt, offset, t) ==
    CASE t.tag = FDT_END -> IF t.next >= 0 THEN -FDT_ERR_BADSTRUCTURE ELSE t.next
      [] t.tag = FDT_PROP -> offset
      [] t.tag = FDT_NOP -> NextProp(fdt, t.next, fdt_next_tag(fdt, t.next))
      [] OTHER -> -FDT_ERR_NOTFOUND

nextprop_(fdt, offset) ==
    IF offset < 0 THEN offset ELSE NextProp(fdt, offset, fdt_next_tag(fdt, offset))

fdt_first_property_offset(fdt, nodeoffset) ==
    nextprop_(fdt, fdt_check_node_offset_(fdt, nodeoffset))

fdt_next_property_offset(fdt, offset) ==
    nextprop_(fdt, fdt_check_prop_offset_(fdt, offset))

fdt_string_eq_(p, s) == p.len >= 0 /\ p.s = s

RECURSIVE PropertyFrom(_, _, _)
PropertyFrom(fdt, offset, name) ==
    IF \/ offset < 0
       \/ fdt_string_eq_(fdt_get_string(fdt, fdt_offset_ptr_(fdt, offset).nameoff), name)
    THEN offset
    ELSE PropertyFrom(fdt, fdt_next_property_offset(fdt, offset), name)

\* The offset of a property by name
fdt_get_property_namelen_(fdt, offset, name) ==
    PropertyFrom(fdt, fdt_first_property_offset(fdt, offset), name)

fdt_get_property_by_offset_(fdt, offset, next) ==
    IF next < 0 THEN Missing(next) ELSE Found(fdt_offset_ptr_(fdt, offset).data)

fdt_getprop_namelen(fdt, poffset) ==
    IF poffset < 0 THEN Missing(poffset) ELSE Found(fdt_offset_ptr_(fdt, poffset).data)

fdt_getprop(fdt, nodeoffset, name) ==
    fdt_getprop_namelen(fdt, fdt_get_property_namelen_(fdt, nodeoffset, name))

NamedValue(name, value) ==
    IF value.len >= 0 /\ name.len < 0 THEN [name |-> name, value |-> Missing(name.len)]
    ELSE [name |-> name, value |-> value]

fdt_getprop_by_offset(fdt, offset) ==
    IF fdt_check_prop_offset_(fdt, offset) < 0
    THEN [name |-> Missing(0), value |-> Missing(fdt_check_prop_offset_(fdt, offset))]
    ELSE NamedValue(fdt_get_string(fdt, fdt_offset_ptr_(fdt, offset).nameoff),
            fdt_get_property_by_offset_(fdt, offset, fdt_check_prop_offset_(fdt, offset)))

Phandle(php, linux) ==
    CASE php.len = 4 -> fdt32_ld(php.s)
      [] php.len # 4 /\ linux.len = 4 -> fdt32_ld(linux.s)
      [] OTHER -> 0

fdt_get_phandle(fdt, nodeoffset) ==
    Phandle(fdt_getprop(fdt, nodeoffset, N_phandle),
            fdt_getprop(fdt, nodeoffset, N_linux_phandle))
----------------------------------------------------------------------------
(***************************************************************************)
(* Finding nodes                                                           *)
(***************************************************************************)
RECURSIVE SubnodeFrom(_, _, _)
SubnodeFrom(fdt, n, name) ==
    IF n.depth < 0 THEN -FDT_ERR_NOTFOUND
    ELSE IF n.off < 0 \/ (n.depth = 1 /\ fdt_nodename_eq_(fdt, n.off, name)) THEN n.off
    ELSE SubnodeFrom(fdt, fdt_next_node(fdt, n.off, n.depth), name)

fdt_subnode_offset(fdt, offset, name) ==
    IF fdt_ro_probe_(fdt) < 0 THEN fdt_ro_probe_(fdt)
    ELSE SubnodeFrom(fdt, [off |-> offset, depth |-> 0], name)

\* From a node down the components of a path
RECURSIVE WalkPath(_, _, _)
WalkPath(fdt, p, offset) ==
    IF p = <<>> \/ offset < 0 THEN offset
    ELSE IF Head(p) = Slash THEN WalkPath(fdt, Tail(p), offset)
    ELSE WalkPath(fdt, Drop(p, Before(p, Slash)),
            fdt_subnode_offset(fdt, offset, Prefix(p, Before(p, Slash))))

fdt_get_alias(fdt, name) ==
    LET aliasoffset == WalkPath(fdt, <<Slash>> \o N_aliases, 0)
    IN  IF aliasoffset < 0 THEN Missing(aliasoffset)
        ELSE fdt_getprop(fdt, aliasoffset, name)

RECURSIVE fdt_path_offset(_, _)
AliasPath(fdt, p, q) ==
    IF p.len < 0 THEN -FDT_ERR_BADPATH
    ELSE WalkPath(fdt, q, fdt_path_offset(fdt, CString(p.s)))

fdt_path_offset(fdt, path) ==
    IF fdt_ro_probe_(fdt) < 0 THEN fdt_ro_probe_(fdt)
    ELSE IF path # <<>> /\ Head(path) = Slash THEN WalkPath(fdt, path, 0)
    ELSE AliasPath(fdt, fdt_get_alias(fdt, Prefix(path, Before(path, Slash))),
                   Drop(path, Before(path, Slash)))

(***************************************************************************)
(* fdt_get_path.  The components written so far are kept as a sequence of  *)
(* names, p is the length of the text they make: each name and a slash.    *)
(* The result is that sequence, the root's empty name first.               *)
(***************************************************************************)
RECURSIVE TextLength(_)
TextLength(parts) ==
    IF parts = <<>> THEN 0 ELSE Len(Head(parts)) + 1 + TextLength(Tail(parts))

WalkError(offset) ==
    CASE offset = -FDT_ERR_NOTFOUND \/ offset >= 0 -> -FDT_ERR_BADOFFSET
      [] offset = -FDT_ERR_BADOFFSET -> -FDT_ERR_BADSTRUCTURE
      [] OTHER -> offset

RECURSIVE PathFrom(_, _, _, _, _)
PathHere(fdt, n, nodeoffset, buflen, parts) ==
    IF n.off # nodeoffset
    THEN PathFrom(fdt, fdt_next_node(fdt, n.off, n.depth), nodeoffset, buflen, parts)
    ELSE IF Len(parts) < n.depth + 1 THEN Missing(-FDT_ERR_NOSPACE)
    ELSE [len |-> 0, s |-> parts]

\* A faulty fdt_get_path that wants one byte too many
AddNameTight(parts, name, depth, buflen) ==
    IF Len(parts) >= depth /\ TextLength(parts) + Len(name) + 1 < buflen
    THEN Append(parts, name) ELSE parts

\* A node deeper than the names written so far is skipped: its parent's name
\* did not fit
AddName(parts, name, depth, buflen) ==
    IF Len(parts) >= depth /\ TextLength(parts) + Len(name) + 1 <= buflen
    THEN Append(parts, name) ELSE parts

PathFrom(fdt, n, nodeoffset, buflen, parts) ==
    IF n.off < 0 \/ n.off > nodeoffset THEN Missing(WalkError(n.off))
    ELSE PathHere(fdt, n, nodeoffset, buflen,
            AddName(IF Len(parts) > n.depth THEN Prefix(parts, n.depth) ELSE parts,
                    fdt_get_name(fdt, n.off).s, n.depth, buflen))

fdt_get_path(fdt, nodeoffset, buflen) ==
    IF fdt_ro_probe_(fdt) < 0 THEN Missing(fdt_ro_probe_(fdt))
    ELSE IF buflen < 2 THEN Missing(-FDT_ERR_NOSPACE)
    ELSE PathFrom(fdt, [off |-> 0, depth |-> 0], nodeoffset, buflen, <<>>)

\* The offset of the ancestor at a depth, and the node's own depth
RECURSIVE SupernodeFrom(_, _, _, _, _)
SupernodeHere(fdt, n, nodeoffset, supernodedepth, supernodeoffset) ==
    IF n.off # nodeoffset
    THEN SupernodeFrom(fdt, fdt_next_node(fdt, n.off, n.depth), nodeoffset,
                       supernodedepth, supernodeoffset)
    ELSE [off |-> IF supernodedepth > n.depth THEN -FDT_ERR_NOTFOUND
                  ELSE supernodeoffset,
          depth |-> n.depth]

SupernodeFrom(fdt, n, nodeoffset, supernodedepth, supernodeoffset) ==
    IF n.off < 0 \/ n.off > nodeoffset THEN [off |-> WalkError(n.off), depth |-> n.depth]
    ELSE SupernodeHere(fdt, n, nodeoffset, supernodedepth,
            IF n.depth = supernodedepth THEN n.off ELSE supernodeoffset)

fdt_supernode_atdepth_offset(fdt, nodeoffset, supernodedepth) ==
    IF fdt_ro_probe_(fdt) < 0 THEN [off |-> fdt_ro_probe_(fdt), depth |-> 0]
    ELSE IF supernodedepth < 0 THEN [off |-> -FDT_ERR_NOTFOUND, depth |-> 0]
    ELSE SupernodeFrom(fdt, [off |-> 0, depth |-> 0], nodeoffset, supernodedepth,
                       -FDT_ERR_INTERNAL)

NodeDepth(n) ==
    CASE n.off = 0 -> n.depth
      [] n.off < 0 -> n.off
      [] OTHER -> -FDT_ERR_INTERNAL

fdt_node_depth(fdt, nodeoffset) ==
    NodeDepth(fdt_supernode_atdepth_offset(fdt, nodeoffset, 0))

ParentOffset(fdt, nodeoffset, nodedepth) ==
    IF nodedepth < 0 THEN nodedepth
    ELSE fdt_supernode_atdepth_offset(fdt, nodeoffset, nodedepth - 1).off

fdt_parent_offset(fdt, nodeoffset) ==
    ParentOffset(fdt, nodeoffset, fdt_node_depth(fdt, nodeoffset))
----------------------------------------------------------------------------
(***************************************************************************)
(* Searches over all nodes                                                 *)
(***************************************************************************)
After(fdt, offset) == fdt_next_node(fdt, offset, NULL).off

Larger(a, b) == IF a > b THEN a ELSE b

RECURSIVE MaxPhandleFrom(_, _, _)
MaxPhandleFrom(fdt, offset, max) ==
    CASE offset = -FDT_ERR_NOTFOUND -> Result(max, 0)
      [] offset >= 0 ->
            MaxPhandleFrom(fdt, After(fdt, offset), Larger(max, fdt_get_phandle(fdt, offset)))
      [] OTHER -> Result(0, offset)

fdt_find_max_phandle(fdt) == MaxPhandleFrom(fdt, After(fdt, -1), 0)

GeneratePhandle(r) ==
    IF r.ret < 0 THEN r
    ELSE IF r.fdt = FDT_MAX_PHANDLE THEN Result(0, -FDT_ERR_NOPHANDLES)
    ELSE Result((r.fdt + 1) % CellMod, 0)

fdt_generate_phandle(fdt) == GeneratePhandle(fdt_find_max_phandle(fdt))

RECURSIVE ByPropValue(_, _, _, _)
ByPropValue(fdt, offset, propname, propval) ==
    IF offset < 0 \/ fdt_getprop(fdt, offset, propname) = Found(propval) THEN offset
    ELSE ByPropValue(fdt, After(fdt, offset), propname, propval)

fdt_node_offset_by_prop_value(fdt, startoffset, propname, propval) ==
    IF fdt_ro_probe_(fdt) < 0 THEN fdt_ro_probe_(fdt)
    ELSE ByPropValue(fdt, After(fdt, startoffset), propname, propval)

RECURSIVE ByPhandle(_, _, _)
ByPhandle(fdt, offset, phandle) ==
    IF offset < 0 \/ fdt_get_phandle(fdt, offset) = phandle THEN offset
    ELSE ByPhandle(fdt, After(fdt, offset), phandle)

fdt_node_offset_by_phandle(fdt, phandle) ==
    IF phandle \in {0, CellMod - 1} THEN -FDT_ERR_BADPHANDLE
    ELSE IF fdt_ro_probe_(fdt) < 0 THEN fdt_ro_probe_(fdt)
    ELSE ByPhandle(fdt, After(fdt, -1), phandle)

(***************************************************************************)
(* Lists of strings.  fdt_stringlist_contains compares one byte more than  *)
(* the last string of a list without terminator has; in a blob that byte   *)
(* is padding or the first byte of a tag, and 0.                           *)
(***************************************************************************)
RECURSIVE fdt_stringlist_contains(_, _)
fdt_stringlist_contains(strlist, str) ==
    /\ Len(strlist) >= Len(str)
    /\ \/ Prefix(Append(strlist, NUL), Len(str) + 1) = Append(str, NUL)
       \/ /\ Has(strlist, NUL)
          /\ fdt_stringlist_contains(Drop(strlist, Before(strlist, NUL) + 1), str)

RECURSIVE CountFrom(_, _)
CountFrom(list, count) ==
    IF list = <<>> THEN count
    ELSE IF ~Has(list, NUL) THEN -FDT_ERR_BADVALUE
    ELSE CountFrom(Drop(list, Before(list, NUL) + 1), count + 1)

StringlistCount(p) == IF p.len < 0 THEN p.len ELSE CountFrom(p.s, 0)

fdt_stringlist_count(fdt, nodeoffset, property) ==
    StringlistCount(fdt_getprop(fdt, nodeoffset, property))

RECURSIVE SearchFrom(_, _, _)
SearchFrom(list, string, idx) ==
    IF list = <<>> THEN -FDT_ERR_NOTFOUND
    ELSE IF ~Has(list, NUL) THEN -FDT_ERR_BADVALUE
    ELSE IF CString(list) = string THEN idx
    ELSE SearchFrom(Drop(list, Before(list, NUL) + 1), string, idx + 1)

StringlistSearch(p, string) == IF p.len < 0 THEN p.len ELSE SearchFrom(p.s, string, 0)

fdt_stringlist_search(fdt, nodeoffset, property, string) ==
    StringlistSearch(fdt_getprop(fdt, nodeoffset, property), string)

RECURSIVE GetFrom(_, _)
GetFrom(list, idx) ==
    IF list = <<>> THEN Missing(-FDT_ERR_NOTFOUND)
    ELSE IF ~Has(list, NUL) THEN Missing(-FDT_ERR_BADVALUE)
    ELSE IF idx = 0 THEN Found(CString(list))
    ELSE GetFrom(Drop(list, Before(list, NUL) + 1), idx - 1)

StringlistGet(p, idx) == IF p.len < 0 THEN p ELSE GetFrom(p.s, idx)

fdt_stringlist_get(fdt, nodeoffset, property, idx) ==
    StringlistGet(fdt_getprop(fdt, nodeoffset, property), idx)

\* 0 when the node is compatible, 1 when it is not
Compatible(p, compatible) ==
    IF p.len < 0 THEN p.len
    ELSE IF fdt_stringlist_contains(p.s, compatible) THEN 0 ELSE 1

fdt_node_check_compatible(fdt, nodeoffset, compatible) ==
    Compatible(fdt_getprop(fdt, nodeoffset, N_compatible), compatible)

RECURSIVE ByCompatible(_, _, _)
CompatibleHere(fdt, offset, compatible, err) ==
    CASE err < 0 /\ err # -FDT_ERR_NOTFOUND -> err
      [] err = 0 -> offset
      [] OTHER -> ByCompatible(fdt, After(fdt, offset), compatible)

ByCompatible(fdt, offset, compatible) ==
    IF offset < 0 THEN offset
    ELSE CompatibleHere(fdt, offset, compatible,
                        fdt_node_check_compatible(fdt, offset, compatible))

fdt_node_offset_by_compatible(fdt, startoffset, compatible) ==
    IF fdt_ro_probe_(fdt) < 0 THEN fdt_ro_probe_(fdt)
    ELSE ByCompatible(fdt, After(fdt, startoffset), compatible)
----------------------------------------------------------------------------
Cells(c) ==
    IF c.len < 0 THEN c.len
    ELSE IF c.len # 4 THEN -FDT_ERR_BADNCELLS
    ELSE IF fdt32_ld(c.s) > FDT_MAX_NCELLS THEN -FDT_ERR_BADNCELLS
    ELSE fdt32_ld(c.s)

fdt_cells(fdt, nodeoffset, name) == Cells(fdt_getprop(fdt, nodeoffset, name))

AddressCells(val) ==
    CASE val = 0 -> -FDT_ERR_BADNCELLS
      [] val = -FDT_ERR_NOTFOUND -> 2
      [] OTHER -> val

fdt_address_cells(fdt, nodeoffset) ==
    AddressCells(fdt_cells(fdt, nodeoffset, N_address_cells))

SizeCells(val) == IF val = -FDT_ERR_NOTFOUND THEN 1 ELSE val

fdt_size_cells(fdt, nodeoffset) == SizeCells(fdt_cells(fdt, nodeoffset, N_size_cells))

(***************************************************************************)
(* fdt_check_full: the structure block tag by tag                          *)
(***************************************************************************)
RECURSIVE CheckFrom(_, _, _, _, _)
CheckFrom(fdt, offset, t, depth, expect_end) ==
    IF t.next < 0 THEN t.next
    ELSE IF expect_end /\ t.tag # FDT_END THEN -FDT_ERR_BADSTRUCTURE
    ELSE CASE t.tag = FDT_NOP ->
                CheckFrom(fdt, t.next, fdt_next_tag(fdt, t.next), depth, expect_end)
           [] t.tag = FDT_END -> IF depth # 0 THEN -FDT_ERR_BADSTRUCTURE ELSE 0
           [] t.tag = FDT_BEGIN_NODE ->
                IF depth = 0 /\ fdt_get_name(fdt, offset).len # 0
                THEN -FDT_ERR_BADSTRUCTURE
                ELSE CheckFrom(fdt, t.next, fdt_next_tag(fdt, t.next), depth + 1, FALSE)
           [] t.tag = FDT_END_NODE ->
                IF depth = 0 THEN -FDT_ERR_BADSTRUCTURE
                ELSE CheckFrom(fdt, t.next, fdt_next_tag(fdt, t.next), depth - 1,
                               depth = 1)
           [] t.tag = FDT_PROP ->
                IF fdt_getprop_by_offset(fdt, offset).value.len < 0
                THEN fdt_getprop_by_offset(fdt, offset).value.len
                ELSE CheckFrom(fdt, t.next, fdt_next_tag(fdt, t.next), depth, expect_end)

fdt_check_full(fdt, bufsize) ==
    IF bufsize < fdt_header_size(fdt) THEN -FDT_ERR_TRUNCATED
    ELSE IF fdt_check_header(fdt) # 0 THEN fdt_check_header(fdt)
    ELSE IF bufsize < fdt.totalsize THEN -FDT_ERR_TRUNCATED
    ELSE IF fdt_num_mem_rsv(fdt) < 0 THEN fdt_num_mem_rsv(fdt)
    ELSE CheckFrom(fdt, 0, fdt_next_tag(fdt, 0), 0, FALSE)
============================================================================
