------------------------------ MODULE FdtRw ------------------------------
(***************************************************************************)
(* Changing a complete device tree: with room to grow or shrink (fdt_rw.c, *)
(* fdt_empty_tree.c, fdt_appendprop_addrrange) and in place (fdt_wip.c).   *)
(***************************************************************************)
EXTENDS FdtSw

Hdrsize == FDT_ALIGN(FDT_V17_SIZE, 8)

\* What a header field holds after it was overwritten before it was read
Junk == -1

fdt_blocks_misordered_(fdt, mem_rsv_size, struct_size) ==
    \/ fdt.off_mem_rsvmap < Hdrsize
    \/ fdt.off_dt_struct < fdt.off_mem_rsvmap + mem_rsv_size
    \/ fdt.off_dt_strings < fdt.off_dt_struct + struct_size
    \/ fdt.totalsize < fdt.off_dt_strings + fdt.size_dt_strings

\* A version above 17 is not modelled, so that it is never set back to 17
fdt_rw_probe_(fdt) ==
    IF fdt_ro_probe_(fdt) < 0 THEN fdt_ro_probe_(fdt)
    ELSE IF fdt.version < 17 THEN -FDT_ERR_BADVERSION
    ELSE IF fdt_blocks_misordered_(fdt, SizeofReserveEntry, fdt.size_dt_struct)
         THEN -FDT_ERR_BADLAYOUT
    ELSE 0

fdt_data_size_(fdt) == fdt.off_dt_strings + fdt.size_dt_strings

\* oldlen bytes at offset soff make room for newlen; what starts in front of
\* soff stays, also when it extends over it
fdt_splice_(fdt, soff, oldlen, newlen) ==
    IF oldlen < 0 \/ soff + oldlen > fdt_data_size_(fdt)
    THEN Result(fdt, -FDT_ERR_BADOFFSET)
    ELSE IF fdt_data_size_(fdt) - oldlen + newlen > fdt.totalsize
    THEN Result(fdt, -FDT_ERR_NOSPACE)
    ELSE Result([fdt EXCEPT !.mem = Over(Only(@, 0 .. soff - 1),
                    Moved(@, soff + oldlen, fdt_data_size_(fdt), newlen - oldlen))], 0)

Shifted(r, structdelta, sizedelta, stringsdelta) ==
    IF r.ret # 0 THEN r
    ELSE Result([r.fdt EXCEPT !.off_dt_struct = @ + structdelta,
                              !.size_dt_struct = @ + sizedelta,
                              !.off_dt_strings = @ + stringsdelta], 0)

fdt_splice_mem_rsv_(fdt, n, oldn, newn) ==
    Shifted(fdt_splice_(fdt, RsvAt(fdt, n), oldn * SizeofReserveEntry,
                        newn * SizeofReserveEntry),
            (newn - oldn) * SizeofReserveEntry, 0, (newn - oldn) * SizeofReserveEntry)

fdt_splice_struct_(fdt, offset, oldlen, newlen) ==
    Shifted(fdt_splice_(fdt, fdt.off_dt_struct + offset, oldlen, newlen),
            0, newlen - oldlen, newlen - oldlen)

fdt_del_last_string_(fdt, s) ==
    [fdt EXCEPT !.size_dt_strings = @ - (Len(s) + 1),
                !.mem = Only(@, 0 .. fdt_data_size_(fdt) - (Len(s) + 1) - 1)]

fdt_splice_string_(fdt, newlen) == fdt_splice_(fdt, fdt_data_size_(fdt), 0, newlen)

\* The blob, the offset of the name or an error, and whether the name is new
NewString(fdt, s, r) ==
    IF r.ret # 0 THEN [fdt |-> fdt, nameoff |-> r.ret, allocated |-> FALSE]
    ELSE [fdt |-> [r.fdt EXCEPT !.size_dt_strings = @ + Len(s) + 1,
                                !.mem = With(@, fdt_data_size_(fdt), Str(s))],
          nameoff |-> fdt.size_dt_strings, allocated |-> TRUE]

FindOrNew(fdt, s, p) ==
    IF p # NULL
    THEN [fdt |-> fdt, nameoff |-> p - fdt.off_dt_strings, allocated |-> FALSE]
    ELSE NewString(fdt, s, fdt_splice_string_(fdt, Len(s) + 1))

fdt_find_add_string_(fdt, s) ==
    FindOrNew(fdt, s, fdt_find_string_(fdt.mem, fdt.off_dt_strings,
                                       fdt.size_dt_strings, s))

\* An item written at an offset of the structure block, after a call made room
Put(r, offset, item) ==
    IF r.ret # 0 THEN r
    ELSE Result([r.fdt EXCEPT !.mem = With(@, r.fdt.off_dt_struct + offset, item)], 0)
----------------------------------------------------------------------------
RsvWritten(r, at, address, size) ==
    IF r.ret # 0 THEN r
    ELSE Result([r.fdt EXCEPT !.mem = With(@, at, Reserve(address, size))], 0)

AddRsv(fdt, n, address, size) ==
    RsvWritten(fdt_splice_mem_rsv_(fdt, n, 0, 1), RsvAt(fdt, n), address, size)

fdt_add_mem_rsv(fdt, address, size) ==
    IF fdt_rw_probe_(fdt) # 0 THEN Result(fdt, fdt_rw_probe_(fdt))
    ELSE AddRsv(fdt, fdt_num_mem_rsv(fdt), address, size)

fdt_del_mem_rsv(fdt, n) ==
    IF fdt_rw_probe_(fdt) # 0 THEN Result(fdt, fdt_rw_probe_(fdt))
    ELSE IF n >= fdt_num_mem_rsv(fdt) THEN Result(fdt, -FDT_ERR_NOTFOUND)
    ELSE fdt_splice_mem_rsv_(fdt, n, 1, 0)

\* A property found at poffset gets a value of another length
Resized(fdt, poffset, old, val) ==
    Put(fdt_splice_struct_(fdt, poffset + SizeofProperty, FDT_TAGALIGN(Len(old.data)),
                           FDT_TAGALIGN(Len(val))),
        poffset, [old EXCEPT !.data = val])

fdt_resize_property_(fdt, poffset, val) ==
    IF poffset < 0 THEN Result(fdt, poffset)
    ELSE Resized(fdt, poffset, fdt_offset_ptr_(fdt, poffset), val)

\* A faulty fdt_add_property_ that keeps the name of a property it did not add
PropAddedKept(name, f, r) == IF r.ret = 0 THEN r ELSE Result(f.fdt, r.ret)

PropAdded(name, f, r) ==
    IF r.ret = 0 THEN r
    ELSE Result(IF f.allocated THEN fdt_del_last_string_(f.fdt, name) ELSE f.fdt, r.ret)

PropNamed(nextoffset, name, val, f) ==
    IF f.nameoff < 0 THEN Result(f.fdt, f.nameoff)
    ELSE PropAdded(name, f,
            Put(fdt_splice_struct_(f.fdt, nextoffset, 0,
                                   SizeofProperty + FDT_TAGALIGN(Len(val))),
                nextoffset, Prop(f.nameoff, val)))

fdt_add_property_(fdt, nextoffset, name, val) ==
    IF nextoffset < 0 THEN Result(fdt, nextoffset)
    ELSE PropNamed(nextoffset, name, val, fdt_find_add_string_(fdt, name))

AddProperty(fdt, nodeoffset, name, val) ==
    fdt_add_property_(fdt, fdt_check_node_offset_(fdt, nodeoffset), name, val)

SetProp(fdt, nodeoffset, name, val, r) ==
    IF r.ret = -FDT_ERR_NOTFOUND THEN AddProperty(fdt, nodeoffset, name, val) ELSE r

\* fdt_setprop_placeholder, with the value the caller stores
fdt_setprop(fdt, nodeoffset, name, val) ==
    IF fdt_rw_probe_(fdt) # 0 THEN Result(fdt, fdt_rw_probe_(fdt))
    ELSE SetProp(fdt, nodeoffset, name, val,
            fdt_resize_property_(fdt, fdt_get_property_namelen_(fdt, nodeoffset, name), val))

AppendProp(fdt, nodeoffset, name, val, poffset) ==
    IF poffset < 0 THEN AddProperty(fdt, nodeoffset, name, val)
    ELSE Resized(fdt, poffset, fdt_offset_ptr_(fdt, poffset),
                 fdt_offset_ptr_(fdt, poffset).data \o val)

fdt_appendprop(fdt, nodeoffset, name, val) ==
    IF fdt_rw_probe_(fdt) # 0 THEN Result(fdt, fdt_rw_probe_(fdt))
    ELSE AppendProp(fdt, nodeoffset, name, val,
                    fdt_get_property_namelen_(fdt, nodeoffset, name))

DelProp(fdt, poffset) ==
    IF poffset < 0 THEN Result(fdt, poffset)
    ELSE fdt_splice_struct_(fdt, poffset,
            SizeofProperty + FDT_TAGALIGN(Len(fdt_offset_ptr_(fdt, poffset).data)), 0)

fdt_delprop(fdt, nodeoffset, name) ==
    IF fdt_rw_probe_(fdt) # 0 THEN Result(fdt, fdt_rw_probe_(fdt))
    ELSE DelProp(fdt, fdt_get_property_namelen_(fdt, nodeoffset, name))

SetName(fdt, nodeoffset, name, old) ==
    IF old.len < 0 THEN Result(fdt, old.len)
    ELSE Put(fdt_splice_struct_(fdt, nodeoffset + FDT_TAGSIZE,
                FDT_TAGALIGN(old.len + 1), FDT_TAGALIGN(Len(name) + 1)),
             nodeoffset, BeginNode(name))

fdt_set_name(fdt, nodeoffset, name) ==
    IF fdt_rw_probe_(fdt) # 0 THEN Result(fdt, fdt_rw_probe_(fdt))
    ELSE SetName(fdt, nodeoffset, name, fdt_get_name(fdt, nodeoffset))

\* Offset behind the properties of a node
RECURSIVE BehindProps(_, _, _)
BehindProps(fdt, offset, t) ==
    IF t.tag \in {FDT_PROP, FDT_NOP}
    THEN BehindProps(fdt, t.next, fdt_next_tag(fdt, t.next)) ELSE offset

SubnodeAt(fdt, offset, name) ==
    Put(Put(fdt_splice_struct_(fdt, offset, 0,
                FDT_TAGSIZE + FDT_TAGALIGN(Len(name) + 1) + FDT_TAGSIZE),
            offset, BeginNode(name)),
        offset + FDT_TAGSIZE + FDT_TAGALIGN(Len(name) + 1), EndNode)

\* A success returns the new node's offset
Offset(r, offset) == IF r.ret # 0 THEN r ELSE Result(r.fdt, offset)

SubnodeBehind(fdt, name, behind) == Offset(SubnodeAt(fdt, behind, name), behind)

AddSubnode(fdt, name, offset, t) ==
    IF offset >= 0 THEN Result(fdt, -FDT_ERR_EXISTS)
    ELSE IF offset # -FDT_ERR_NOTFOUND THEN Result(fdt, offset)
    ELSE IF t.tag # FDT_BEGIN_NODE THEN Result(fdt, -FDT_ERR_INTERNAL)
    ELSE SubnodeBehind(fdt, name, BehindProps(fdt, t.next, fdt_next_tag(fdt, t.next)))

fdt_add_subnode(fdt, parentoffset, name) ==
    IF fdt_rw_probe_(fdt) # 0 THEN Result(fdt, fdt_rw_probe_(fdt))
    ELSE AddSubnode(fdt, name, fdt_subnode_offset(fdt, parentoffset, name),
                    fdt_next_tag(fdt, parentoffset))

DelNode(fdt, nodeoffset, endoffset) ==
    IF endoffset < 0 THEN Result(fdt, endoffset)
    ELSE fdt_splice_struct_(fdt, nodeoffset, endoffset - nodeoffset, 0)

fdt_del_node(fdt, nodeoffset) ==
    IF fdt_rw_probe_(fdt) # 0 THEN Result(fdt, fdt_rw_probe_(fdt))
    ELSE DelNode(fdt, nodeoffset, fdt_node_end_offset_(fdt, nodeoffset))
----------------------------------------------------------------------------
(***************************************************************************)
(* The value fdt_appendprop_addrrange appends.  An address or a size is a  *)
(* number below CellMod ^ 2, of one cell or two.                           *)
(***************************************************************************)
fdt64_st(v) == fdt32_st(v \div CellMod) \o fdt32_st(v % CellMod)

RangeValue(addr_cells, size_cells, addr, size) ==
    (IF addr_cells = 1 THEN fdt32_st(addr) ELSE fdt64_st(addr))
        \o (IF size_cells = 1 THEN fdt32_st(size) ELSE fdt64_st(size))

AddrRange(fdt, nodeoffset, name, addr, size, addr_cells, size_cells) ==
    IF addr_cells < 0 THEN Result(fdt, addr_cells)
    ELSE IF size_cells < 0 THEN Result(fdt, size_cells)
    ELSE IF addr_cells = 1 /\ (addr >= CellMod \/ CellMod - addr < size)
         THEN Result(fdt, -FDT_ERR_BADVALUE)
    ELSE IF addr_cells \notin {1, 2} THEN Result(fdt, -FDT_ERR_BADNCELLS)
    ELSE IF size_cells = 1 /\ size >= CellMod THEN Result(fdt, -FDT_ERR_BADVALUE)
    ELSE IF size_cells \notin {1, 2} THEN Result(fdt, -FDT_ERR_BADNCELLS)
    ELSE fdt_appendprop(fdt, nodeoffset, name,
                        RangeValue(addr_cells, size_cells, addr, size))

fdt_appendprop_addrrange(fdt, parent, nodeoffset, name, addr, size) ==
    AddrRange(fdt, nodeoffset, name, addr, size,
              fdt_address_cells(fdt, parent), fdt_size_cells(fdt, parent))
----------------------------------------------------------------------------
(***************************************************************************)
(* Changes in place                                                        *)
(***************************************************************************)
Overwrite(data, idx, val) ==
    [i \in DOMAIN data |-> IF i - idx \in DOMAIN val THEN val[i - idx] ELSE data[i]]

InplacePartial(fdt, idx, val, poffset) ==
    IF poffset < 0 THEN Result(fdt, poffset)
    ELSE IF Len(fdt_offset_ptr_(fdt, poffset).data) < Len(val) + idx
         THEN Result(fdt, -FDT_ERR_NOSPACE)
    ELSE Result([fdt EXCEPT !.mem[fdt.off_dt_struct + poffset].data =
                    Overwrite(@, idx, val)], 0)

fdt_setprop_inplace_namelen_partial(fdt, nodeoffset, name, idx, val) ==
    InplacePartial(fdt, idx, val, fdt_get_property_namelen_(fdt, nodeoffset, name))

SetInplace(fdt, nodeoffset, name, val, proplen) ==
    IF proplen < 0 THEN Result(fdt, proplen)
    ELSE IF proplen # Len(val) THEN Result(fdt, -FDT_ERR_NOSPACE)
    ELSE fdt_setprop_inplace_namelen_partial(fdt, nodeoffset, name, 0, val)

fdt_setprop_inplace(fdt, nodeoffset, name, val) ==
    SetInplace(fdt, nodeoffset, name, val, fdt_getprop(fdt, nodeoffset, name).len)

\* NOP tags from start on, one in every word, until len bytes are covered
fdt_nop_region_(mem, start, len) ==
    Over([o \in {start + FDT_TAGSIZE * i : i \in 0 .. (len - 1) \div FDT_TAGSIZE} |-> Nop],
         Clear(mem, start, start + FDT_TAGALIGN(len)))

NopProperty(fdt, poffset) ==
    IF poffset < 0 THEN Result(fdt, poffset)
    ELSE Result([fdt EXCEPT !.mem = fdt_nop_region_(@, fdt.off_dt_struct + poffset,
                    Len(fdt_offset_ptr_(fdt, poffset).data) + SizeofProperty)], 0)

fdt_nop_property(fdt, nodeoffset, name) ==
    NopProperty(fdt, fdt_get_property_namelen_(fdt, nodeoffset, name))

NopNode(fdt, nodeoffset, endoffset) ==
    IF endoffset < 0 THEN Result(fdt, endoffset)
    ELSE Result([fdt EXCEPT !.mem = fdt_nop_region_(@, fdt.off_dt_struct + nodeoffset,
                    endoffset - nodeoffset)], 0)

fdt_nop_node(fdt, nodeoffset) ==
    NopNode(fdt, nodeoffset, fdt_node_end_offset_(fdt, nodeoffset))
----------------------------------------------------------------------------
(***************************************************************************)
(* Moving the blocks.  The three moves of fdt_packblocks_ go from the old  *)
(* tree to a new one d bytes behind it, one after the other; the faulty    *)
(* variant makes them in the opposite order.                               *)
(***************************************************************************)
PackMovesStringsFirst(fdt, d, mem_rsv_size, struct_size, strings_size) ==
    MemMove(MemMove(MemMove(fdt.mem,
                d + Hdrsize + mem_rsv_size + struct_size, fdt.off_dt_strings, strings_size),
                d + Hdrsize + mem_rsv_size, fdt.off_dt_struct, struct_size),
                d + Hdrsize, fdt.off_mem_rsvmap, mem_rsv_size)

PackMoves(fdt, d, mem_rsv_size, struct_size, strings_size) ==
    MemMove(MemMove(MemMove(fdt.mem,
                d + Hdrsize, fdt.off_mem_rsvmap, mem_rsv_size),
                d + Hdrsize + mem_rsv_size, fdt.off_dt_struct, struct_size),
                d + Hdrsize + mem_rsv_size + struct_size, fdt.off_dt_strings, strings_size)

fdt_packblocks_(fdt, d, mem_rsv_size, struct_size, strings_size) ==
    [fdt EXCEPT
        !.mem = Moved(PackMoves(fdt, d, mem_rsv_size, struct_size, strings_size),
                      d + Hdrsize, d + Hdrsize + mem_rsv_size + struct_size + strings_size,
                      -d),
        !.off_mem_rsvmap = Hdrsize,
        !.off_dt_struct = Hdrsize + mem_rsv_size,
        !.size_dt_struct = struct_size,
        !.off_dt_strings = Hdrsize + mem_rsv_size + struct_size]

\* The size of the structure block of a version 16 blob, which has no field
RECURSIVE StructSize(_, _)
StructSize(fdt, t) ==
    IF t.tag = FDT_END THEN t.next
    ELSE StructSize(fdt, fdt_next_tag(fdt, t.next))

OffBootCpuid == 28

\* boot_cpuid_phys is read from the old header when the new tree is in place
Reordered(delta, bufsize, newsize, new) ==
    [new EXCEPT !.totalsize = bufsize, !.version = 17, !.last_comp_version = 16,
                !.boot_cpuid_phys = IF OffBootCpuid \in delta .. delta + newsize - 1
                                    THEN Junk ELSE @]

Reorder(fdt, delta, bufsize, newsize, overlaps, mem_rsv_size, struct_size) ==
    IF bufsize < newsize \/ (overlaps /\ fdt.totalsize + newsize > delta + bufsize)
    THEN Result(fdt, -FDT_ERR_NOSPACE)
    ELSE Result(Reordered(delta, bufsize, newsize,
                    fdt_packblocks_(fdt, IF overlaps THEN fdt.totalsize ELSE delta,
                                    mem_rsv_size, struct_size, fdt.size_dt_strings)), 0)

OpenMoved(fdt, bufsize, struct_size, err) ==
    IF err # 0 THEN Result(fdt, err)
    ELSE Result([fdt EXCEPT !.version = 17, !.size_dt_struct = struct_size,
                            !.totalsize = bufsize], 0)

OpenSized(fdt, delta, bufsize, mem_rsv_size, struct_size) ==
    IF struct_size < 0 THEN Result(fdt, struct_size)
    ELSE IF ~fdt_blocks_misordered_(fdt, mem_rsv_size, struct_size)
    THEN OpenMoved(fdt, bufsize, struct_size, fdt_move(fdt, bufsize))
    ELSE LET newsize == Hdrsize + mem_rsv_size + struct_size + fdt.size_dt_strings
         IN  Reorder(fdt, delta, bufsize, newsize,
                     delta + newsize > 0 /\ delta < fdt.totalsize,
                     mem_rsv_size, struct_size)

fdt_open_into(fdt, delta, bufsize) ==
    IF fdt_ro_probe_(fdt) < 0 THEN Result(fdt, fdt_ro_probe_(fdt))
    ELSE IF fdt.version < 16 THEN Result(fdt, -FDT_ERR_BADVERSION)
    ELSE OpenSized(fdt, delta, bufsize, (fdt_num_mem_rsv(fdt) + 1) * SizeofReserveEntry,
            IF fdt.version >= 17 THEN fdt.size_dt_struct
            ELSE StructSize(fdt, fdt_next_tag(fdt, 0)))

Packed(new) == [new EXCEPT !.totalsize = fdt_data_size_(new)]

fdt_pack(fdt) ==
    IF fdt_rw_probe_(fdt) # 0 THEN Result(fdt, fdt_rw_probe_(fdt))
    ELSE Result(Packed(fdt_packblocks_(fdt, 0,
                    (fdt_num_mem_rsv(fdt) + 1) * SizeofReserveEntry,
                    fdt.size_dt_struct, fdt.size_dt_strings)), 0)

\* fdt_create_empty_tree: each step runs when the one before it succeeded
EmptyOpen(r, bufsize) == IF r.ret # 0 THEN r ELSE fdt_open_into(r.fdt, 0, bufsize)
EmptyFinish(r) == IF r.ret # 0 THEN r ELSE fdt_finish(r.fdt)
EmptyEnd(r) == IF r.ret # 0 THEN r ELSE fdt_end_node(r.fdt)
EmptyBegin(r) == IF r.ret # 0 THEN r ELSE fdt_begin_node(r.fdt, <<>>)
EmptyRsv(r) == IF r.ret # 0 THEN r ELSE fdt_finish_reservemap(r.fdt)

fdt_create_empty_tree(buf, bufsize) ==
    EmptyOpen(EmptyFinish(EmptyEnd(EmptyBegin(EmptyRsv(fdt_create(buf, bufsize))))),
              bufsize)
============================================================================
