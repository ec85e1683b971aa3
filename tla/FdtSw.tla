------------------------------ MODULE FdtSw ------------------------------
(***************************************************************************)
(* Building a flattened device tree from its first byte on (fdt_sw.c).     *)
(* Until fdt_finish the strings block grows down from the end of the       *)
(* buffer, names are offsets below the end of it, and last_comp_version    *)
(* holds the creation flags.  Every call yields the blob and what the      *)
(* function returns.                                                       *)
(***************************************************************************)
EXTENDS FdtRo

FDT_CREATE_FLAG_NO_NAME_DEDUP == 1
FDT_CREATE_FLAGS_ALL == {0, FDT_CREATE_FLAG_NO_NAME_DEDUP}

(***************************************************************************)
(* memmove inside a buffer: what stood in the destination, in whole or in  *)
(* part, is lost.  What a call leaves behind outside the blocks is dropped *)
(* from mem, since nothing reads it.                                       *)
(***************************************************************************)
Clear(mem, lo, hi) == Only(mem, {x \in DOMAIN mem : x + RawSize(mem[x]) <= lo \/ x >= hi})

MemMove(mem, dst, src, size) ==
    IF size = 0 THEN mem
    ELSE Over(Moved(mem, src, src + size, dst - src), Clear(mem, dst, dst + size))
----------------------------------------------------------------------------
fdt_sw_probe_(fdt) ==
    CASE fdt.magic = FDT_MAGIC -> -FDT_ERR_BADSTATE
      [] fdt.magic = FDT_SW_MAGIC -> 0
      [] OTHER -> -FDT_ERR_BADMAGIC

fdt_sw_probe_memrsv_(fdt) ==
    IF fdt_sw_probe_(fdt) # 0 THEN fdt_sw_probe_(fdt)
    ELSE IF fdt.off_dt_strings # 0 THEN -FDT_ERR_BADSTATE ELSE 0

fdt_sw_probe_struct_(fdt) ==
    IF fdt_sw_probe_(fdt) # 0 THEN fdt_sw_probe_(fdt)
    ELSE IF fdt.off_dt_strings # fdt.totalsize THEN -FDT_ERR_BADSTATE ELSE 0

sw_flags(fdt) == fdt.last_comp_version

StructTop(fdt) == fdt.off_dt_struct + fdt.size_dt_struct

\* A faulty fdt_grab_space_ that forgets the strings at the end of the buffer
fdt_grab_space_Over(fdt, len, item) ==
    IF fdt.size_dt_struct + len > fdt.totalsize - fdt.off_dt_struct
    THEN Result(fdt, -FDT_ERR_NOSPACE)
    ELSE Result([fdt EXCEPT !.size_dt_struct = @ + len,
                            !.mem = With(@, StructTop(fdt), item)], 0)

\* len bytes more in the structure block, of which item takes the start
fdt_grab_space_(fdt, len, item) ==
    IF fdt.size_dt_struct + len >
            fdt.totalsize - fdt.off_dt_struct - fdt.size_dt_strings
    THEN Result(fdt, -FDT_ERR_NOSPACE)
    ELSE Result([fdt EXCEPT !.size_dt_struct = @ + len,
                            !.mem = With(@, StructTop(fdt), item)], 0)

CreateHdrsize == FDT_ALIGN(FDT_V17_SIZE, SizeofReserveEntry)

fdt_create_with_flags(buf, bufsize, flags) ==
    IF bufsize < CreateHdrsize THEN Result(buf, -FDT_ERR_NOSPACE)
    ELSE IF flags \notin FDT_CREATE_FLAGS_ALL THEN Result(buf, -FDT_ERR_BADFLAGS)
    ELSE Result([magic |-> FDT_SW_MAGIC, totalsize |-> bufsize,
                 off_dt_struct |-> CreateHdrsize, off_dt_strings |-> 0,
                 off_mem_rsvmap |-> CreateHdrsize, version |-> 17,
                 last_comp_version |-> flags, boot_cpuid_phys |-> 0,
                 size_dt_strings |-> 0, size_dt_struct |-> 0, mem |-> NoMem], 0)

fdt_create(buf, bufsize) == fdt_create_with_flags(buf, bufsize, 0)

\* The two moves of fdt_resize, to a buffer delta bytes behind the old one
ResizeMoves(mem, delta, headsize, oldtail, newtail, tailsize) ==
    IF delta <= 0
    THEN MemMove(MemMove(mem, delta, 0, headsize), newtail, oldtail, tailsize)
    ELSE MemMove(MemMove(mem, newtail, oldtail, tailsize), delta, 0, headsize)

fdt_resize(fdt, delta, bufsize) ==
    IF fdt_sw_probe_(fdt) # 0 THEN Result(fdt, fdt_sw_probe_(fdt))
    ELSE IF bufsize < 0 THEN Result(fdt, -FDT_ERR_NOSPACE)
    ELSE IF StructTop(fdt) + fdt.size_dt_strings > fdt.totalsize
         THEN Result(fdt, -FDT_ERR_INTERNAL)
    ELSE IF StructTop(fdt) + fdt.size_dt_strings > bufsize
         THEN Result(fdt, -FDT_ERR_NOSPACE)
    ELSE LET moved == ResizeMoves(fdt.mem, delta, StructTop(fdt),
                            fdt.totalsize - fdt.size_dt_strings,
                            delta + bufsize - fdt.size_dt_strings, fdt.size_dt_strings)
         IN  Result([fdt EXCEPT
                        !.totalsize = bufsize,
                        !.off_dt_strings = IF @ # 0 THEN bufsize ELSE @,
                        !.mem = Over(Moved(moved, delta, delta + StructTop(fdt), -delta),
                                     Moved(moved, delta + bufsize - fdt.size_dt_strings,
                                           delta + bufsize, -delta))], 0)

fdt_add_reservemap_entry(fdt, addr, size) ==
    IF fdt_sw_probe_memrsv_(fdt) # 0 THEN Result(fdt, fdt_sw_probe_memrsv_(fdt))
    ELSE IF fdt.off_dt_struct + SizeofReserveEntry > fdt.totalsize
         THEN Result(fdt, -FDT_ERR_NOSPACE)
    ELSE Result([fdt EXCEPT !.mem = With(@, fdt.off_dt_struct, Reserve(addr, size)),
                            !.off_dt_struct = @ + SizeofReserveEntry], 0)

FinishReservemap(r) ==
    IF r.ret # 0 THEN r
    ELSE Result([r.fdt EXCEPT !.off_dt_strings = r.fdt.totalsize], 0)

fdt_finish_reservemap(fdt) == FinishReservemap(fdt_add_reservemap_entry(fdt, 0, 0))

fdt_begin_node(fdt, name) ==
    IF fdt_sw_probe_struct_(fdt) # 0 THEN Result(fdt, fdt_sw_probe_struct_(fdt))
    ELSE fdt_grab_space_(fdt, FDT_TAGSIZE + FDT_TAGALIGN(Len(name) + 1), BeginNode(name))

fdt_end_node(fdt) ==
    IF fdt_sw_probe_struct_(fdt) # 0 THEN Result(fdt, fdt_sw_probe_struct_(fdt))
    ELSE fdt_grab_space_(fdt, FDT_TAGSIZE, EndNode)
----------------------------------------------------------------------------
(***************************************************************************)
(* Names of properties.  The result of looking one up has the blob, the    *)
(* negative offset of the string (0 when there is no room) and whether it  *)
(* is new.  The room is computed in unsigned arithmetic.                   *)
(***************************************************************************)
AddString(fdt, s, offset) ==
    IF fdt.totalsize - offset \in 0 .. StructTop(fdt) - 1
    THEN [fdt |-> fdt, nameoff |-> 0, allocated |-> TRUE]
    ELSE [fdt |-> [fdt EXCEPT !.mem = With(@, fdt.totalsize - offset, Str(s)),
                              !.size_dt_strings = offset],
          nameoff |-> -offset, allocated |-> TRUE]

sw_add_string_(fdt, s) == AddString(fdt, s, fdt.size_dt_strings + Len(s) + 1)

sw_del_last_string_(fdt, s) ==
    [fdt EXCEPT !.size_dt_strings = @ - (Len(s) + 1),
                !.mem = Only(@, DOMAIN @ \ {fdt.totalsize - fdt.size_dt_strings})]

FindAdd(fdt, s, p) ==
    IF p # NULL
    THEN [fdt |-> fdt, nameoff |-> p - fdt.totalsize, allocated |-> FALSE]
    ELSE sw_add_string_(fdt, s)

sw_find_add_string_(fdt, s) ==
    FindAdd(fdt, s, fdt_find_string_(fdt.mem, fdt.totalsize - fdt.size_dt_strings,
                                     fdt.size_dt_strings, s))

PropertyRoom(name, f, grabbed) ==
    IF grabbed.ret = 0 THEN grabbed
    ELSE Result(IF f.allocated THEN sw_del_last_string_(f.fdt, name) ELSE f.fdt,
                -FDT_ERR_NOSPACE)

PropertyNamed(name, val, f) ==
    IF f.nameoff = 0 THEN Result(f.fdt, -FDT_ERR_NOSPACE)
    ELSE PropertyRoom(name, f,
            fdt_grab_space_(f.fdt, SizeofProperty + FDT_TAGALIGN(Len(val)),
                            Prop(f.nameoff, val)))

\* fdt_property_placeholder, with the value the caller stores
fdt_property(fdt, name, val) ==
    IF fdt_sw_probe_struct_(fdt) # 0 THEN Result(fdt, fdt_sw_probe_struct_(fdt))
    ELSE PropertyNamed(name, val,
            IF sw_flags(fdt) = FDT_CREATE_FLAG_NO_NAME_DEDUP
            THEN sw_add_string_(fdt, name) ELSE sw_find_add_string_(fdt, name))
----------------------------------------------------------------------------
\* The walk of fdt_finish that makes the names offsets from the strings block
Renamed(fdt, offset, tag) ==
    IF tag # FDT_PROP THEN fdt
    ELSE [fdt EXCEPT !.mem[fdt.off_dt_struct + offset].nameoff = @ + fdt.size_dt_strings]

RECURSIVE CorrectNames(_, _, _)
CorrectNames(fdt, offset, t) ==
    IF t.tag = FDT_END THEN Result(fdt, IF t.next < 0 THEN t.next ELSE 0)
    ELSE CorrectNames(Renamed(fdt, offset, t.tag), t.next, fdt_next_tag(fdt, t.next))

Relocated(fdt) ==
    [fdt EXCEPT !.mem = Only(MemMove(@, StructTop(fdt),
                                     fdt.totalsize - fdt.size_dt_strings,
                                     fdt.size_dt_strings),
                             0 .. StructTop(fdt) + fdt.size_dt_strings - 1),
                !.off_dt_strings = StructTop(fdt)]

Adjusted(r) ==
    IF r.ret < 0 THEN r
    ELSE Result([r.fdt EXCEPT
                    !.totalsize = StructTop(r.fdt) + r.fdt.size_dt_strings,
                    !.last_comp_version = 16,
                    !.magic = FDT_MAGIC], 0)

Finished(fdt) == Adjusted(CorrectNames(fdt, 0, fdt_next_tag(fdt, 0)))

Terminated(r) == IF r.ret # 0 THEN r ELSE Finished(Relocated(r.fdt))

fdt_finish(fdt) ==
    IF fdt_sw_probe_struct_(fdt) # 0 THEN Result(fdt, fdt_sw_probe_struct_(fdt))
    ELSE Terminated(fdt_grab_space_(fdt, FDT_TAGSIZE, End))
============================================================================
