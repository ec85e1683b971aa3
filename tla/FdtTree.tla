------------------------------ MODULE FdtTree ------------------------------
(***************************************************************************)
(* A caller of libfdt at work on one blob: it builds a tree front to back, *)
(* finishes it, edits it and merges overlays into it, with calls that      *)
(* succeed and calls that fail.  The caller closes what it opened, adds    *)
(* the properties of a node in front of its subnodes, gives the root an    *)
(* empty name and never removes or renames the root, and calls the         *)
(* functions that change a complete tree on complete trees only.  A        *)
(* document above the bound on edited ones has overlays merged into it.    *)
(***************************************************************************)
EXTENDS FdtOverlay, TLC

CONSTANTS
    NodeNames,      \* names for subnodes
    PropNames,
    Values,         \* the values a property of each name is given
    Ranges,         \* records [addr, size] appended to properties RangeProp
    RangeProp,
    Reservations,   \* records [address, size], no size 0
    Starts,         \* blobs to start from
    Overlays,       \* overlays to merge
    BufSizes,       \* sizes of buffers to resize or open into
    Deltas,         \* where such a buffer lies, seen from the old one
    MaxTokens,      \* tokens of a document that is edited
    MaxReserved,    \* reservations
    MaxLen          \* bytes of a value

VARIABLES
    fdt,                \* the blob
    phase, rsv, doc,    \* the tree it stands for, read off it after every call
    last                \* history: the overlay the last call merged, and the
                        \* document it was merged into

vars == <<fdt, phase, rsv, doc, last>>

(***************************************************************************)
(* The tree a blob stands for: its tokens in the order of their offsets,   *)
(* without padding.                                                        *)
(***************************************************************************)
RECURSIVE Ascending(_)
Ascending(S) ==
    IF S = {} THEN <<>>
    ELSE LET m == CHOOSE m \in S : \A x \in S : m <= x IN <<m>> \o Ascending(S \ {m})

OffsetsOf(b, tags) == Ascending({o \in DOMAIN b.mem : b.mem[o].tag \in tags})
Tokens(b) == OffsetsOf(b, {FDT_BEGIN_NODE, FDT_END_NODE, FDT_PROP})

\* The text at an offset of the strings block
TextAt(b, o) ==
    LET x == CHOOSE x \in DOMAIN b.mem :
                b.mem[x].tag = STR /\ o \in x .. x + Len(b.mem[x].chars)
    IN  SubSeq(b.mem[x].chars, o - x + 1, Len(b.mem[x].chars))

Token(b, item) ==
    CASE item.tag = FDT_BEGIN_NODE -> [kind |-> "begin", name |-> item.name]
      [] item.tag = FDT_END_NODE -> [kind |-> "end"]
      [] item.tag = FDT_PROP -> [kind |-> "prop", value |-> item.data,
                                 name |-> TextAt(b, b.off_dt_strings + item.nameoff)]

Doc(b) == [i \in DOMAIN Tokens(b) |-> Token(b, b.mem[Tokens(b)[i]])]

Phase(b) ==
    CASE b.magic = FDT_MAGIC -> "complete"
      [] b.magic = FDT_SW_MAGIC /\ b.off_dt_strings = 0 -> "memrsv"
      [] b.magic = FDT_SW_MAGIC /\ b.off_dt_strings # 0 -> "struct"
      [] b.magic = FDT_NO_MAGIC -> "damaged"

\* The map of a tree past its reservations ends with an empty entry
Entries(b, offs) ==
    [i \in 1 .. Len(offs) - (IF Phase(b) = "memrsv" THEN 0 ELSE 1) |->
        [address |-> b.mem[offs[i]].address, size |-> b.mem[offs[i]].size]]
Rsv(b) == Entries(b, OffsetsOf(b, {RSV}))

RangeValues == {RangeValue(c, 1, r.addr, r.size) : c \in {1, 2}, r \in Ranges}

Tree == INSTANCE DeviceTree WITH
            NodeNames <- NodeNames \cup {<<>>},
            Values <- [n \in PropNames |-> Values[n] \cup RangeValues],
            Given <- {[rsv |-> Rsv(b), doc |-> Doc(b)] : b \in Starts}
----------------------------------------------------------------------------
NoBlob == [magic |-> FDT_NO_MAGIC]
NoMerge == [fdto |-> NoBlob, base |-> <<>>]

Init ==
    /\ fdt \in Starts
    /\ last = NoMerge
    /\ phase = Phase(fdt)
    /\ rsv = Rsv(fdt)
    /\ doc = Doc(fdt)

Becomes(r) ==
    \E b \in {r.fdt} :
        /\ fdt' = b
        /\ phase' = Phase(b)
        /\ rsv' = Rsv(b)
        /\ doc' = Doc(b)
Call(r) == Becomes(r) /\ last' = NoMerge

Building == phase \in {"memrsv", "struct"}
Complete == phase = "complete"
Edits == Complete /\ Len(doc) <= MaxTokens
Merges == Complete /\ Len(doc) > MaxTokens

\* Nodes a call may name, as offsets in the structure block
Nodes == {x - fdt.off_dt_struct :
            x \in {o \in DOMAIN fdt.mem : fdt.mem[o].tag = FDT_BEGIN_NODE}}

\* A document being built that n more tokens and the missing ends fit behind
Unclosed == Tree!Depth(doc, Len(doc))
Room(n) == Len(doc) + n + Unclosed <= MaxTokens

Create ==
    /\ phase = "damaged"
    /\ \E size \in BufSizes :
          Call(fdt_create(fdt, size)) \/ Call(fdt_create_empty_tree(fdt, size))
AddReserved ==
    /\ Len(rsv) < MaxReserved
    /\ \E m \in Reservations :
          \/ Building /\ Call(fdt_add_reservemap_entry(fdt, m.address, m.size))
          \/ Edits /\ Call(fdt_add_mem_rsv(fdt, m.address, m.size))
EndReserved == Building /\ Call(fdt_finish_reservemap(fdt))
DelReserved == Edits /\ \E n \in 0 .. MaxReserved : Call(fdt_del_mem_rsv(fdt, n))

Begin ==
    /\ Building
    /\ \/ doc = <<>> /\ Call(fdt_begin_node(fdt, <<>>))
       \/ /\ Unclosed > 0 /\ Room(2)
          /\ \E n \in NodeNames : Call(fdt_begin_node(fdt, n))
Property ==
    /\ Building
    /\ doc # <<>> => doc[Len(doc)].kind # "end"
    /\ Room(1)
    /\ \E n \in PropNames : \E v \in Values[n] : Call(fdt_property(fdt, n, v))
EndNodeCall == Building /\ Unclosed > 0 /\ Call(fdt_end_node(fdt))
Finish == Building /\ doc # <<>> /\ Unclosed = 0 /\ Call(fdt_finish(fdt))
Resize ==
    /\ Building
    /\ \E delta \in Deltas, size \in BufSizes : Call(fdt_resize(fdt, delta, size))

SetPropCall ==
    /\ Edits
    /\ \E o \in Nodes, n \in PropNames : \E v \in Values[n] :
          \/ Room(1) /\ Call(fdt_setprop(fdt, o, n, v))
          \/ Call(fdt_setprop_inplace(fdt, o, n, v))
AppendPropCall ==
    /\ Edits
    /\ Room(1)
    /\ \E o \in Nodes :
          \/ \E n \in PropNames : \E v \in Values[n] :
                /\ fdt_getprop(fdt, o, n).len + Len(v) <= MaxLen
                /\ Call(fdt_appendprop(fdt, o, n, v))
          \/ \E r \in Ranges :
                /\ fdt_getprop(fdt, o, RangeProp).len < 0
                /\ Call(fdt_appendprop_addrrange(fdt, 0, o, RangeProp, r.addr, r.size))
DelPropCall ==
    /\ Edits
    /\ \E o \in Nodes, n \in PropNames :
          Call(fdt_delprop(fdt, o, n)) \/ Call(fdt_nop_property(fdt, o, n))
AddSubnodeCall ==
    /\ Edits
    /\ Room(2)
    /\ \E o \in Nodes, n \in NodeNames : Call(fdt_add_subnode(fdt, o, n))
DelNodeCall ==
    /\ Edits
    /\ \E o \in Nodes \ {0} : Call(fdt_del_node(fdt, o)) \/ Call(fdt_nop_node(fdt, o))
SetNameCall ==
    Edits /\ \E o \in Nodes \ {0}, n \in NodeNames : Call(fdt_set_name(fdt, o, n))
OpenInto ==
    /\ Complete
    /\ \E delta \in Deltas, size \in BufSizes : Call(fdt_open_into(fdt, delta, size))
Pack == Complete /\ Call(fdt_pack(fdt))
Overlay ==
    /\ Merges
    /\ \E fdto \in Overlays :
          /\ Becomes(fdt_overlay_apply(fdt, fdto))
          /\ last' = [fdto |-> fdto, base |-> doc]

Next ==
    \/ Create \/ AddReserved \/ EndReserved \/ DelReserved
    \/ Begin \/ Property \/ EndNodeCall \/ Finish \/ Resize
    \/ SetPropCall \/ AppendPropCall \/ DelPropCall
    \/ AddSubnodeCall \/ DelNodeCall \/ SetNameCall
    \/ OpenInto \/ Pack \/ Overlay

Spec == Init /\ [][Next]_vars

(***************************************************************************)
(* Every call either does to the document what DeviceTree says or leaves   *)
(* it alone: no call that fails, moves the blocks or resizes the buffer    *)
(* changes a node, a property or a reservation.                            *)
(***************************************************************************)
Implements == Tree!Spec
============================================================================
