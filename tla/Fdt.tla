------------------------------- MODULE Fdt -------------------------------
(***************************************************************************)
(* The flattened device tree (libfdt): layout of a blob, its header and    *)
(* the walk over its structure block (fdt.c).                              *)
(*                                                                         *)
(* A blob is a record with the fields of struct fdt_header and mem, a      *)
(* partial function from byte offsets to what starts there: a structure    *)
(* token, an entry of the reservation map or a string of the strings       *)
(* block.  Offsets outside DOMAIN mem hold nothing that may be read.       *)
(* Offsets and sizes are those of the code, in bytes.  Names, paths and    *)
(* values are sequences of character codes.  As in the code, a result      *)
(* below zero is an error.                                                 *)
(***************************************************************************)
EXTENDS Integers, Sequences, FiniteSets

FDT_ERR_NOTFOUND == 1
FDT_ERR_EXISTS == 2
FDT_ERR_NOSPACE == 3
FDT_ERR_BADOFFSET == 4
FDT_ERR_BADPATH == 5
FDT_ERR_BADPHANDLE == 6
FDT_ERR_BADSTATE == 7
FDT_ERR_TRUNCATED == 8
FDT_ERR_BADMAGIC == 9
FDT_ERR_BADVERSION == 10
FDT_ERR_BADSTRUCTURE == 11
FDT_ERR_BADLAYOUT == 12
FDT_ERR_INTERNAL == 13
FDT_ERR_BADNCELLS == 14
FDT_ERR_BADVALUE == 15
FDT_ERR_BADOVERLAY == 16
FDT_ERR_NOPHANDLES == 17
FDT_ERR_BADFLAGS == 18

FDT_MAGIC == "magic"
FDT_SW_MAGIC == "sw_magic"
FDT_NO_MAGIC == "no_magic"

FDT_TAGSIZE == 4
FDT_V17_SIZE == 40
SizeofProperty == 12
SizeofReserveEntry == 16

FDT_ALIGN(x, a) == ((x + a - 1) \div a) * a
FDT_TAGALIGN(x) == FDT_ALIGN(x, FDT_TAGSIZE)

(***************************************************************************)
(* What can stand in a blob.  RSV and STR mark entries of the other two    *)
(* blocks, which are no tags of the structure block.                       *)
(***************************************************************************)
FDT_BEGIN_NODE == 1
FDT_END_NODE == 2
FDT_PROP == 3
FDT_NOP == 4
FDT_END == 9
RSV == 100
STR == 101
Tags == {FDT_BEGIN_NODE, FDT_END_NODE, FDT_PROP, FDT_NOP, FDT_END}

BeginNode(name) == [tag |-> FDT_BEGIN_NODE, name |-> name]
EndNode == [tag |-> FDT_END_NODE]
Prop(nameoff, data) == [tag |-> FDT_PROP, nameoff |-> nameoff, data |-> data]
Nop == [tag |-> FDT_NOP]
End == [tag |-> FDT_END]
Reserve(address, size) == [tag |-> RSV, address |-> address, size |-> size]
Str(s) == [tag |-> STR, chars |-> s]

\* Bytes from the start of an item to its last one, without alignment
RawSize(item) ==
    CASE item.tag = FDT_BEGIN_NODE -> FDT_TAGSIZE + Len(item.name) + 1
      [] item.tag = FDT_PROP -> SizeofProperty + Len(item.data)
      [] item.tag = RSV -> SizeofReserveEntry
      [] item.tag = STR -> Len(item.chars) + 1
      [] OTHER -> FDT_TAGSIZE

NoMem == [o \in {} |-> End]

\* mem with the items whose offset is in S only
Only(mem, S) == [o \in DOMAIN mem \cap S |-> mem[o]]
With(mem, o, item) == [x \in DOMAIN mem \cup {o} |-> IF x = o THEN item ELSE mem[x]]

\* mem with what starts in lo .. hi - 1 moved by d, and nothing else
Moved(mem, lo, hi, d) ==
    [o \in {x + d : x \in DOMAIN mem \cap lo .. hi - 1} |-> mem[o - d]]

\* f where it is defined, elsewhere g
Over(f, g) ==
    [x \in DOMAIN f \cup DOMAIN g |-> IF x \in DOMAIN f THEN f[x] ELSE g[x]]
----------------------------------------------------------------------------
fdt_ro_probe_(fdt) ==
    CASE fdt.magic = FDT_MAGIC ->
            IF fdt.version < 2 \/ fdt.last_comp_version > 17
            THEN -FDT_ERR_BADVERSION ELSE fdt.totalsize
      [] fdt.magic = FDT_SW_MAGIC ->
            IF fdt.size_dt_struct = 0 THEN -FDT_ERR_BADSTATE ELSE fdt.totalsize
      [] OTHER -> -FDT_ERR_BADMAGIC

check_off_(hdrsize, totalsize, off) == off >= hdrsize /\ off <= totalsize

check_block_(hdrsize, totalsize, base, size) ==
    /\ check_off_(hdrsize, totalsize, base)
    /\ check_off_(hdrsize, totalsize, base + size)

fdt_header_size(fdt) ==
    IF fdt.version <= 16 THEN FDT_V17_SIZE - FDT_TAGSIZE ELSE FDT_V17_SIZE

fdt_check_header(fdt) ==
    IF fdt.magic # FDT_MAGIC THEN -FDT_ERR_BADMAGIC
    ELSE IF \/ fdt.version < 2
            \/ fdt.last_comp_version > 17
            \/ fdt.version < fdt.last_comp_version THEN -FDT_ERR_BADVERSION
    ELSE IF \/ fdt.totalsize < fdt_header_size(fdt)
            \/ ~check_off_(fdt_header_size(fdt), fdt.totalsize, fdt.off_mem_rsvmap)
            \/ ~check_block_(fdt_header_size(fdt), fdt.totalsize, fdt.off_dt_struct,
                             IF fdt.version < 17 THEN 0 ELSE fdt.size_dt_struct)
            \/ ~check_block_(fdt_header_size(fdt), fdt.totalsize,
                             fdt.off_dt_strings, fdt.size_dt_strings)
         THEN -FDT_ERR_TRUNCATED
    ELSE 0

\* The pointer returned is not NULL
fdt_offset_ptr(fdt, offset, len) ==
    /\ offset >= 0
    /\ fdt.off_dt_struct + offset + len <= fdt.totalsize
    /\ fdt.version >= 17 => offset + len <= fdt.size_dt_struct

fdt_offset_ptr_(fdt, offset) == fdt.mem[fdt.off_dt_struct + offset]

\* The tag at an offset, and the offset behind it or an error
fdt_next_tag(fdt, offset) ==
    IF ~fdt_offset_ptr(fdt, offset, FDT_TAGSIZE)
    THEN [tag |-> FDT_END, next |-> -FDT_ERR_TRUNCATED]
    ELSE IF \/ fdt.off_dt_struct + offset \notin DOMAIN fdt.mem
            \/ fdt_offset_ptr_(fdt, offset).tag \notin Tags
            \/ ~fdt_offset_ptr(fdt, offset, RawSize(fdt_offset_ptr_(fdt, offset)))
         THEN [tag |-> FDT_END, next |-> -FDT_ERR_BADSTRUCTURE]
    ELSE [tag |-> fdt_offset_ptr_(fdt, offset).tag,
          next |-> FDT_TAGALIGN(offset + RawSize(fdt_offset_ptr_(fdt, offset)))]

CheckOffset(offset, t, tag) ==
    IF offset < 0 \/ offset % FDT_TAGSIZE # 0 \/ t.tag # tag
    THEN -FDT_ERR_BADOFFSET ELSE t.next

fdt_check_node_offset_(fdt, offset) ==
    CheckOffset(offset, fdt_next_tag(fdt, offset), FDT_BEGIN_NODE)

fdt_check_prop_offset_(fdt, offset) ==
    CheckOffset(offset, fdt_next_tag(fdt, offset), FDT_PROP)
----------------------------------------------------------------------------
(***************************************************************************)
(* fdt_next_node.  A walk without a depth counter passes NULL; the result  *)
(* has the node's offset, or an error, and the depth after the walk.  When *)
(* the walk leaves the node it started in, the depth is below zero and the *)
(* offset is the one behind its end.                                       *)
(***************************************************************************)
NULL == -1000

Deeper(depth, d) == IF depth = NULL THEN NULL ELSE depth + d

RECURSIVE NodeFrom(_, _, _, _)
NodeFrom(fdt, offset, t, depth) ==
    CASE t.tag \in {FDT_PROP, FDT_NOP} ->
            NodeFrom(fdt, t.next, fdt_next_tag(fdt, t.next), depth)
      [] t.tag = FDT_BEGIN_NODE -> [off |-> offset, depth |-> Deeper(depth, 1)]
      [] t.tag = FDT_END_NODE ->
            IF depth # NULL /\ depth - 1 < 0
            THEN [off |-> t.next, depth |-> -1]
            ELSE NodeFrom(fdt, t.next, fdt_next_tag(fdt, t.next), Deeper(depth, -1))
      [] OTHER ->
            [off |-> IF t.next >= 0 \/ (t.next = -FDT_ERR_TRUNCATED /\ depth = NULL)
                     THEN -FDT_ERR_NOTFOUND ELSE t.next,
             depth |-> depth]

NextNode(fdt, start, depth) ==
    IF start < 0 THEN [off |-> start, depth |-> depth]
    ELSE NodeFrom(fdt, start, fdt_next_tag(fdt, start), depth)

fdt_next_node(fdt, offset, depth) ==
    NextNode(fdt, IF offset >= 0 THEN fdt_check_node_offset_(fdt, offset) ELSE 0, depth)

FirstSubnode(n) == IF n.off < 0 \/ n.depth # 1 THEN -FDT_ERR_NOTFOUND ELSE n.off

fdt_first_subnode(fdt, offset) == FirstSubnode(fdt_next_node(fdt, offset, 0))

RECURSIVE NextSubnode(_, _)
NextSubnode(fdt, n) ==
    IF n.off < 0 \/ n.depth < 1 THEN -FDT_ERR_NOTFOUND
    ELSE IF n.depth > 1 THEN NextSubnode(fdt, fdt_next_node(fdt, n.off, n.depth))
    ELSE n.off

fdt_next_subnode(fdt, offset) == NextSubnode(fdt, fdt_next_node(fdt, offset, 1))

\* Offset behind the end of a node, with all its subnodes
RECURSIVE NodeEnd(_, _)
NodeEnd(fdt, n) ==
    IF n.off >= 0 /\ n.depth >= 0
    THEN NodeEnd(fdt, fdt_next_node(fdt, n.off, n.depth)) ELSE n.off

fdt_node_end_offset_(fdt, offset) == NodeEnd(fdt, [off |-> offset, depth |-> 0])

(***************************************************************************)
(* The first place in a strings block from strtab on where s stands with   *)
(* its terminator, or NULL.  A string is also found as the tail of a       *)
(* longer one.                                                             *)
(***************************************************************************)
Tail_(chars, k) == SubSeq(chars, Len(chars) - k + 1, Len(chars))

fdt_find_string_(mem, strtab, tabsize, s) ==
    LET hits == {o \in strtab .. strtab + tabsize - Len(s) - 1 :
                   \E x \in DOMAIN mem \cap strtab .. o :
                      /\ mem[x].tag = STR
                      /\ o + Len(s) = x + Len(mem[x].chars)
                      /\ Tail_(mem[x].chars, Len(s)) = s}
    IN  IF hits = {} THEN NULL ELSE CHOOSE o \in hits : \A p \in hits : o <= p

\* The result of a call that changes a blob
Result(fdt, ret) == [fdt |-> fdt, ret |-> ret]

fdt_move(fdt, bufsize) ==
    IF bufsize < 0 THEN -FDT_ERR_NOSPACE
    ELSE IF fdt_ro_probe_(fdt) < 0 THEN fdt_ro_probe_(fdt)
    ELSE IF fdt.totalsize > bufsize THEN -FDT_ERR_NOSPACE
    ELSE 0
============================================================================
