---------------------------- MODULE FdtOverlay ----------------------------
(***************************************************************************)
(* Merging an overlay into a base tree (fdt_overlay.c).  An overlay is a   *)
(* tree of fragments; each names a target in the base and holds what is    *)
(* merged there.  Its phandles are moved above those of the base first,    *)
(* with all references to them, and its references to labels of the base   *)
(* are resolved.                                                           *)
(***************************************************************************)
EXTENDS FdtRw

Colon == 58
Zero == 48
N_target == <<116>>
N_target_path == <<116, 45>>
N_overlay == <<95, 111>>
N_local_fixups == <<95, 108>>
N_fixups == <<95, 102>>
N_symbols == <<95, 115>>

\* An absent item is no failure
OrAbsent(r) == IF r.ret = -FDT_ERR_NOTFOUND THEN Result(r.fdt, 0) ELSE r

TargetPhandle(val) ==
    IF val.len < 0 THEN 0
    ELSE IF val.len # 4 THEN CellMod - 1
    ELSE fdt32_ld(val.s)

overlay_get_target_phandle(fdto, fragment) ==
    TargetPhandle(fdt_getprop(fdto, fragment, N_target))

\* The offset of a target and, when it is given by path, that path
TargetByPath(fdt, path) ==
    IF path.len >= 0
    THEN [off |-> fdt_path_offset(fdt, CString(path.s)), path |-> Found(CString(path.s))]
    ELSE [off |-> IF path.len = -FDT_ERR_NOTFOUND THEN -FDT_ERR_BADOVERLAY ELSE path.len,
          path |-> path]

Target(fdt, phandle, path) ==
    CASE phandle = CellMod - 1 -> [off |-> -FDT_ERR_BADPHANDLE, path |-> path]
      [] phandle = 0 -> TargetByPath(fdt, path)
      [] OTHER -> [off |-> fdt_node_offset_by_phandle(fdt, phandle),
                   path |-> Missing(-FDT_ERR_NOTFOUND)]

fdt_overlay_target_offset(fdt, fdto, fragment) ==
    Target(fdt, overlay_get_target_phandle(fdto, fragment),
           fdt_getprop(fdto, fragment, N_target_path))
----------------------------------------------------------------------------
(***************************************************************************)
(* The overlay's own phandles, and the references to them                  *)
(***************************************************************************)
AddOffset(fdto, node, name, delta, val) ==
    IF val.len < 0 THEN Result(fdto, val.len)
    ELSE IF val.len # 4 THEN Result(fdto, -FDT_ERR_BADPHANDLE)
    ELSE IF fdt32_ld(val.s) + delta >= CellMod - 1 THEN Result(fdto, -FDT_ERR_NOPHANDLES)
    ELSE fdt_setprop_inplace(fdto, node, name, fdt32_st(fdt32_ld(val.s) + delta))

overlay_phandle_add_offset(fdto, node, name, delta) ==
    AddOffset(fdto, node, name, delta, fdt_getprop(fdto, node, name))

AdjustLinux(r, node, delta) ==
    IF r.ret # 0 THEN r
    ELSE OrAbsent(overlay_phandle_add_offset(r.fdt, node, N_linux_phandle, delta))

RECURSIVE AdjustSubnodes(_, _, _)
RECURSIVE AdjustFrom(_, _, _)
overlay_adjust_node_phandles(fdto, node, delta) ==
    AdjustSubnodes(AdjustLinux(OrAbsent(
        overlay_phandle_add_offset(fdto, node, N_phandle, delta)), node, delta), node, delta)

AdjustSubnodes(r, node, delta) ==
    IF r.ret # 0 THEN r ELSE AdjustFrom(r, fdt_first_subnode(r.fdt, node), delta)

AdjustNext(r, child, delta) ==
    IF r.ret # 0 THEN r ELSE AdjustFrom(r, fdt_next_subnode(r.fdt, child), delta)

AdjustFrom(r, child, delta) ==
    IF child < 0 THEN r
    ELSE AdjustNext(overlay_adjust_node_phandles(r.fdt, child, delta), child, delta)

overlay_adjust_local_phandles(fdto, delta) == overlay_adjust_node_phandles(fdto, 0, delta)

\* What is outside the overlay is an overlay that is wrong
OrBadOverlay(r, err) == IF r.ret = -err THEN Result(r.fdt, -FDT_ERR_BADOVERLAY) ELSE r

\* One cell of a value, at any byte of it, moved by delta
MovedCell(fdto, tree_node, name, poffset, val, delta) ==
    IF poffset + 4 > Len(val) THEN Result(fdto, -FDT_ERR_BADOVERLAY)
    ELSE fdt_setprop_inplace_namelen_partial(fdto, tree_node, name, poffset,
            fdt32_st((fdt32_ld(SubSeq(val, poffset + 1, poffset + 4)) + delta) % CellMod))

RECURSIVE MoveCells(_, _, _, _, _)
MoveCells(r, tree_node, name, cells, delta) ==
    IF r.ret # 0 \/ cells = <<>> THEN r
    ELSE MoveCells(MovedCell(r.fdt, tree_node, name, fdt32_ld(cells),
                             fdt_getprop(r.fdt, tree_node, name).s, delta),
                   tree_node, name, Drop(cells, 4), delta)

LocalProp(fdto, tree_node, p, tree_len, delta) ==
    IF p.value.len < 0 THEN Result(fdto, p.value.len)
    ELSE IF p.value.len % 4 # 0 THEN Result(fdto, -FDT_ERR_BADOVERLAY)
    ELSE IF tree_len < 0 THEN OrBadOverlay(Result(fdto, tree_len), FDT_ERR_NOTFOUND)
    ELSE MoveCells(Result(fdto, 0), tree_node, p.name.s, p.value.s, delta)

LocalPropNamed(fdto, tree_node, p, delta) ==
    LocalProp(fdto, tree_node, p, fdt_getprop(fdto, tree_node, p.name.s).len, delta)

RECURSIVE LocalProps(_, _, _, _)
LocalProps(r, tree_node, fixup_prop, delta) ==
    IF r.ret # 0 \/ fixup_prop < 0 THEN r
    ELSE LocalProps(LocalPropNamed(r.fdt, tree_node,
                        fdt_getprop_by_offset(r.fdt, fixup_prop), delta),
                    tree_node, fdt_next_property_offset(r.fdt, fixup_prop), delta)

RECURSIVE LocalChildren(_, _, _, _)
overlay_update_local_node_references(fdto, tree_node, fixup_node, delta) ==
    LocalChildren(LocalProps(Result(fdto, 0), tree_node,
                             fdt_first_property_offset(fdto, fixup_node), delta),
                  tree_node, fdt_first_subnode(fdto, fixup_node), delta)

LocalChild(fdto, tree_child, fixup_child, delta) ==
    IF tree_child < 0 THEN OrBadOverlay(Result(fdto, tree_child), FDT_ERR_NOTFOUND)
    ELSE overlay_update_local_node_references(fdto, tree_child, fixup_child, delta)

LocalChildren(r, tree_node, fixup_child, delta) ==
    IF r.ret # 0 \/ fixup_child < 0 THEN r
    ELSE LocalChildren(
            LocalChild(r.fdt, fdt_subnode_offset(r.fdt, tree_node,
                                                 fdt_get_name(r.fdt, fixup_child).s),
                       fixup_child, delta),
            tree_node, fdt_next_subnode(r.fdt, fixup_child), delta)

LocalReferences(fdto, fixups, delta) ==
    IF fixups < 0 THEN OrAbsent(Result(fdto, fixups))
    ELSE overlay_update_local_node_references(fdto, 0, fixups, delta)

overlay_update_local_references(fdto, delta) ==
    LocalReferences(fdto, fdt_path_offset(fdto, <<Slash>> \o N_local_fixups), delta)
----------------------------------------------------------------------------
(***************************************************************************)
(* References to labels of the base: each is the text path:name:offset of  *)
(* a cell in the overlay, with a name and an offset that are not empty.    *)
(***************************************************************************)
FixupCell(fdto, fixup_off, name, poffset, phandle) ==
    IF phandle = 0 THEN Result(fdto, -FDT_ERR_NOTFOUND)
    ELSE IF fixup_off < 0 THEN OrBadOverlay(Result(fdto, fixup_off), FDT_ERR_NOTFOUND)
    ELSE fdt_setprop_inplace_namelen_partial(fdto, fixup_off, name, poffset,
                                             fdt32_st(phandle))

FixupSymbol(fdt, fdto, symbol_off, path, name, poffset) ==
    IF symbol_off < 0 THEN Result(fdto, symbol_off)
    ELSE FixupCell(fdto, fdt_path_offset(fdto, path), name, poffset,
                   fdt_get_phandle(fdt, symbol_off))

FixupLabel(fdt, fdto, symbol_path, path, name, poffset) ==
    IF symbol_path.len < 0 THEN Result(fdto, symbol_path.len)
    ELSE FixupSymbol(fdt, fdto, fdt_path_offset(fdt, CString(symbol_path.s)),
                     path, name, poffset)

overlay_fixup_one_phandle(fdt, fdto, symbols_off, path, name, poffset, label) ==
    IF symbols_off < 0 THEN Result(fdto, symbols_off)
    ELSE FixupLabel(fdt, fdto, fdt_getprop(fdt, symbols_off, label), path, name, poffset)

\* Letters that follow the digits, and six characters in front of them, count
\* from ten on and from four on
__tolower(c) == IF c \in 65 .. 90 THEN c + 32 ELSE c
__decode_digit(ch) == IF ch <= Zero + 9 THEN ch - Zero ELSE ch - 97 + 10

RECURSIVE ParseDigits(_, _, _)
ParseDigits(str, base, result) ==
    IF str = <<>> \/ __decode_digit(__tolower(Head(str))) \notin 0 .. base - 1
    THEN [val |-> result, endptr |-> str]
    ELSE ParseDigits(Tail(str), base,
                     result * base + __decode_digit(__tolower(Head(str))))

strtoul(str, base) ==
    IF Len(str) > 1 /\ str[1] = Zero /\ __tolower(str[2]) = 120
    THEN ParseDigits(Drop(str, 2), 16, 0)
    ELSE ParseDigits(str, base, 0)

FixupAt(fdt, fdto, symbols_off, label, path, name, number, n) ==
    IF name = <<>> \/ n.endptr # <<>> \/ number = <<>>
    THEN Result(fdto, -FDT_ERR_BADOVERLAY)
    ELSE overlay_fixup_one_phandle(fdt, fdto, symbols_off, path, name, n.val, label)

FixupText(fdt, fdto, symbols_off, label, path, name, number) ==
    FixupAt(fdt, fdto, symbols_off, label, path, name, number, strtoul(number, 10))

FixupName(fdt, fdto, symbols_off, label, path, rest) ==
    IF ~Has(rest, Colon) THEN Result(fdto, -FDT_ERR_BADOVERLAY)
    ELSE FixupText(fdt, fdto, symbols_off, label, path, Prefix(rest, Before(rest, Colon)),
                   Drop(rest, Before(rest, Colon) + 1))

FixupString(fdt, fdto, symbols_off, label, s) ==
    IF ~Has(s, Colon) THEN Result(fdto, -FDT_ERR_BADOVERLAY)
    ELSE FixupName(fdt, fdto, symbols_off, label, Prefix(s, Before(s, Colon)),
                   Drop(s, Before(s, Colon) + 1))

RECURSIVE FixupStrings(_, _, _, _, _)
FixupStrings(fdt, r, symbols_off, label, value) ==
    IF r.ret # 0 \/ value = <<>> THEN r
    ELSE IF ~Has(value, NUL) THEN Result(r.fdt, -FDT_ERR_BADOVERLAY)
    ELSE FixupStrings(fdt, FixupString(fdt, r.fdt, symbols_off, label, CString(value)),
                      symbols_off, label, Drop(value, Before(value, NUL) + 1))

\* The loop runs once at least: a list without a string is refused
overlay_fixup_phandle(fdt, fdto, symbols_off, p) ==
    IF p.value.len < 0
    THEN Result(fdto, IF p.value.len = -FDT_ERR_NOTFOUND THEN -FDT_ERR_INTERNAL
                      ELSE p.value.len)
    ELSE IF p.value.len = 0 THEN Result(fdto, -FDT_ERR_BADOVERLAY)
    ELSE FixupStrings(fdt, Result(fdto, 0), symbols_off, p.name.s, p.value.s)

RECURSIVE FixupProps(_, _, _, _)
FixupProps(fdt, r, symbols_off, property) ==
    IF r.ret # 0 \/ property < 0 THEN r
    ELSE FixupProps(fdt, overlay_fixup_phandle(fdt, r.fdt, symbols_off,
                            fdt_getprop_by_offset(r.fdt, property)),
                    symbols_off, fdt_next_property_offset(r.fdt, property))

FixupPhandles(fdt, fdto, fixups_off, symbols_off) ==
    IF fixups_off < 0 THEN OrAbsent(Result(fdto, fixups_off))
    ELSE IF symbols_off < 0 /\ symbols_off # -FDT_ERR_NOTFOUND
         THEN Result(fdto, symbols_off)
    ELSE FixupProps(fdt, Result(fdto, 0), symbols_off,
                    fdt_first_property_offset(fdto, fixups_off))

overlay_fixup_phandles(fdt, fdto) ==
    FixupPhandles(fdt, fdto, fdt_path_offset(fdto, <<Slash>> \o N_fixups),
                  fdt_path_offset(fdt, <<Slash>> \o N_symbols))
----------------------------------------------------------------------------
(***************************************************************************)
(* Merging.  Every insertion into the base lies behind the node it is made *)
(* in, so that the offset of that node stays good.                         *)
(***************************************************************************)
ApplyProp(r, target, p) ==
    IF p.value.len < 0
    THEN Result(r.fdt, IF p.value.len = -FDT_ERR_NOTFOUND THEN -FDT_ERR_INTERNAL
                       ELSE p.value.len)
    ELSE fdt_setprop(r.fdt, target, p.name.s, p.value.s)

RECURSIVE ApplyProps(_, _, _, _)
ApplyProps(r, target, fdto, property) ==
    IF r.ret # 0 \/ property < 0 THEN r
    ELSE ApplyProps(ApplyProp(r, target, fdt_getprop_by_offset(fdto, property)), target,
                    fdto, fdt_next_property_offset(fdto, property))

\* The node a subnode is merged into: a new one, or the one that exists
Existing(fdt, n) == Result(fdt, IF n = -FDT_ERR_NOTFOUND THEN -FDT_ERR_INTERNAL ELSE n)
NewOrExisting(r, target, name) ==
    IF r.ret # -FDT_ERR_EXISTS THEN r
    ELSE Existing(r.fdt, fdt_subnode_offset(r.fdt, target, name))

RECURSIVE ApplySubnodes(_, _, _, _)
overlay_apply_node(fdt, target, fdto, node) ==
    ApplySubnodes(ApplyProps(Result(fdt, 0), target, fdto,
                             fdt_first_property_offset(fdto, node)),
                  target, fdto, fdt_first_subnode(fdto, node))

ApplySubnode(n, fdto, subnode) ==
    IF n.ret < 0 THEN n ELSE overlay_apply_node(n.fdt, n.ret, fdto, subnode)

\* A faulty overlay_apply_node that merges a subnode into its parent
ApplyNamedAbove(r, target, fdto, subnode, name) ==
    ApplySubnode(Result(fdt_add_subnode(r.fdt, target, name).fdt, target), fdto, subnode)

ApplyNamed(r, target, fdto, subnode, name) ==
    ApplySubnode(NewOrExisting(fdt_add_subnode(r.fdt, target, name), target, name),
                 fdto, subnode)

ApplySubnodes(r, target, fdto, subnode) ==
    IF r.ret # 0 \/ subnode < 0 THEN r
    ELSE ApplySubnodes(ApplyNamed(r, target, fdto, subnode, fdt_get_name(fdto, subnode).s),
                       target, fdto, fdt_next_subnode(fdto, subnode))

MergeAt(r, fdto, overlay, target) ==
    IF target < 0 THEN Result(r.fdt, target)
    ELSE overlay_apply_node(r.fdt, target, fdto, overlay)

MergeFragment(r, fdto, fragment, overlay) ==
    IF overlay < 0 THEN OrAbsent(Result(r.fdt, overlay))
    ELSE MergeAt(r, fdto, overlay, fdt_overlay_target_offset(r.fdt, fdto, fragment).off)

RECURSIVE MergeFrom(_, _, _)
MergeFrom(r, fdto, fragment) ==
    IF r.ret # 0 \/ fragment < 0 THEN r
    ELSE MergeFrom(MergeFragment(r, fdto, fragment,
                                 fdt_subnode_offset(fdto, fragment, N_overlay)),
                   fdto, fdt_next_subnode(fdto, fragment))

overlay_merge(fdt, fdto) == MergeFrom(Result(fdt, 0), fdto, fdt_first_subnode(fdto, 0))
----------------------------------------------------------------------------
(***************************************************************************)
(* The overlay's symbols become symbols of the base.  A symbol's path goes *)
(* through a fragment, /fragment/__overlay__/rest, and is replaced by the  *)
(* target's path and rest.                                                 *)
(***************************************************************************)
RECURSIVE PathLen(_, _, _, _)
PathUp(fdt, parent, len, namelen) ==
    IF parent < 0 THEN parent
    ELSE PathLen(fdt, parent, fdt_get_name(fdt, parent), len + namelen + 1)

PathLen(fdt, nodeoffset, name, len) ==
    IF name.len < 0 THEN name.len
    ELSE IF name.len = 0 THEN IF len = 0 THEN 1 ELSE len
    ELSE PathUp(fdt, fdt_parent_offset(fdt, nodeoffset), len, name.len)

get_path_len(fdt, nodeoffset) ==
    IF fdt_ro_probe_(fdt) < 0 THEN fdt_ro_probe_(fdt)
    ELSE PathLen(fdt, nodeoffset, fdt_get_name(fdt, nodeoffset), 0)

\* The text of a path given by its components, the root's empty name first
RECURSIVE PathText(_)
PathText(parts) ==
    IF parts = <<>> THEN <<>> ELSE <<Slash>> \o Head(parts) \o PathText(Tail(parts))

\* A value of the length asked for: the target's path, unless it is the root,
\* a slash and the rest
SymbolPath(path, len, rel_path) ==
    (IF len > 1 THEN path ELSE <<>>) \o <<Slash>> \o rel_path \o <<NUL>>

PathString(p) == IF p.len < 0 THEN p ELSE Found(PathText(Tail(p.s)))

\* The path of a target, which is looked up again since the new value may have
\* moved it; not asked for when the target is the root
TargetPath(fdt, target, len) ==
    CASE target.path.len >= 0 -> target.path
      [] target.path.len < 0 /\ target.off < 0 -> Missing(target.off)
      [] target.path.len < 0 /\ target.off >= 0 /\ len <= 1 -> Found(<<>>)
      [] OTHER -> PathString(fdt_get_path(fdt, target.off, len + 1))

SymbolWritten(r, root_sym, name, len, rel_path, path) ==
    IF path.len < 0 THEN Result(r.fdt, path.len)
    ELSE fdt_setprop_inplace(r.fdt, root_sym, name, SymbolPath(path.s, len, rel_path))

Blank(n) == [i \in 1 .. n |-> NUL]

SymbolRoom(r, root_sym, name, fdto, fragment, len, rel_path) ==
    IF r.ret < 0 THEN r
    ELSE SymbolWritten(r, root_sym, name, len, rel_path,
            TargetPath(r.fdt, fdt_overlay_target_offset(r.fdt, fdto, fragment), len))

SymbolSized(fdt, root_sym, name, fdto, fragment, len, rel_path) ==
    IF len < 0 THEN Result(fdt, len)
    ELSE SymbolRoom(fdt_setprop(fdt, root_sym, name,
                        Blank(len + (IF len > 1 THEN 1 ELSE 0) + Len(rel_path) + 1)),
                    root_sym, name, fdto, fragment, len, rel_path)

SymbolTarget(fdt, root_sym, name, fdto, fragment, rel_path, target) ==
    IF target.off < 0 THEN Result(fdt, target.off)
    ELSE SymbolSized(fdt, root_sym, name, fdto, fragment,
            IF target.path.len >= 0 THEN target.path.len ELSE get_path_len(fdt, target.off),
            rel_path)

SymbolFragment(fdt, root_sym, name, fdto, fragment, rel_path) ==
    IF fragment < 0 \/ fdt_subnode_offset(fdto, fragment, N_overlay) < 0
    THEN Result(fdt, -FDT_ERR_BADOVERLAY)
    ELSE SymbolTarget(fdt, root_sym, name, fdto, fragment, rel_path,
                      fdt_overlay_target_offset(fdt, fdto, fragment))

OverlayPart == <<Slash>> \o N_overlay

\* What follows the fragment's name: __overlay__ alone, or a path below it
SymbolRest(fdt, root_sym, name, fdto, frag_name, s) ==
    CASE Len(s) > Len(OverlayPart)
            /\ Prefix(s, Len(OverlayPart) + 1) = OverlayPart \o <<Slash>> ->
            SymbolFragment(fdt, root_sym, name, fdto,
                           fdt_subnode_offset(fdto, 0, frag_name),
                           Drop(s, Len(OverlayPart) + 1))
      [] s = OverlayPart ->
            SymbolFragment(fdt, root_sym, name, fdto,
                           fdt_subnode_offset(fdto, 0, frag_name), <<>>)
      [] OTHER -> Result(fdt, 0)

Symbol(fdt, root_sym, fdto, p) ==
    IF p.value.len < 0 THEN Result(fdt, p.value.len)
    ELSE IF \/ p.value.len < 1
            \/ Before(p.value.s, NUL) # p.value.len - 1
            \/ Head(p.value.s) # Slash
         THEN Result(fdt, -FDT_ERR_BADVALUE)
    ELSE LET rest == Tail(CString(p.value.s))
         IN  SymbolRest(fdt, root_sym, p.name.s, fdto, Prefix(rest, Before(rest, Slash)),
                        Drop(rest, Before(rest, Slash)))

RECURSIVE SymbolsFrom(_, _, _, _)
SymbolsFrom(r, root_sym, fdto, prop) ==
    IF r.ret # 0 \/ prop < 0 THEN r
    ELSE SymbolsFrom(Symbol(r.fdt, root_sym, fdto, fdt_getprop_by_offset(fdto, prop)),
                     root_sym, fdto, fdt_next_property_offset(fdto, prop))

SymbolsInto(r, fdto, ov_sym) ==
    IF r.ret < 0 THEN r
    ELSE SymbolsFrom(Result(r.fdt, 0), r.ret, fdto, fdt_first_property_offset(fdto, ov_sym))

RootSymbols(fdt, root_sym) ==
    IF root_sym = -FDT_ERR_NOTFOUND THEN fdt_add_subnode(fdt, 0, N_symbols)
    ELSE Result(fdt, root_sym)

SymbolUpdate(fdt, fdto, ov_sym) ==
    IF ov_sym < 0 THEN Result(fdt, 0)
    ELSE SymbolsInto(RootSymbols(fdt, fdt_subnode_offset(fdt, 0, N_symbols)), fdto, ov_sym)

overlay_symbol_update(fdt, fdto) ==
    SymbolUpdate(fdt, fdto, fdt_subnode_offset(fdto, 0, N_symbols))
----------------------------------------------------------------------------
(***************************************************************************)
(* fdt_overlay_apply: the base, and what is returned.  The overlay's magic *)
(* is erased in every case, the base's on a failure.                       *)
(***************************************************************************)
Applied(r) == IF r.ret # 0 THEN Result([r.fdt EXCEPT !.magic = FDT_NO_MAGIC], r.ret) ELSE r

ApplySymbols(r, fdto) == IF r.ret # 0 THEN r ELSE overlay_symbol_update(r.fdt, fdto)

ApplyMerge(fdt, o) ==
    IF o.ret # 0 THEN Result(fdt, o.ret)
    ELSE ApplySymbols(overlay_merge(fdt, o.fdt), o.fdt)

Resolved(fdt, o) == IF o.ret # 0 THEN o ELSE overlay_fixup_phandles(fdt, o.fdt)

\* The faulty variant moves the phandles and not the references to them
NotRereferenced(o, delta) == o

Rereferenced(o, delta) ==
    IF o.ret # 0 THEN o ELSE overlay_update_local_references(o.fdt, delta)

\* The overlay made ready for the merge
Prepared(fdt, fdto, delta) ==
    Resolved(fdt, Rereferenced(overlay_adjust_local_phandles(fdto, delta), delta))

ApplyAbove(fdt, fdto, max) ==
    IF max.ret # 0 THEN Result(fdt, max.ret)
    ELSE ApplyMerge(fdt, Prepared(fdt, fdto, max.fdt))

fdt_overlay_apply(fdt, fdto) ==
    IF fdt_ro_probe_(fdt) < 0 THEN Result(fdt, fdt_ro_probe_(fdt))
    ELSE IF fdt_ro_probe_(fdto) < 0 THEN Result(fdt, fdt_ro_probe_(fdto))
    ELSE Applied(ApplyAbove(fdt, fdto, fdt_find_max_phandle(fdt)))
============================================================================
