------------------------------- MODULE MCFdt -------------------------------
(***************************************************************************)
(* Small trees, and a few base trees and overlays with references.         *)
(***************************************************************************)
EXTENDS FdtRight

MCNodeNames == {<<97>>, <<97, 64, 49>>}                   \* a, a@1
MCPropNames == {N_phandle, N_linux_phandle}
MCValues ==
    (N_phandle :> {fdt32_st(1)}) @@ (N_linux_phandle :> {fdt32_st(14), <<98, 99, 0, 99, 0>>})
MCDeltas == {-24, 0, 24, 400}
MCRangeProp == N_phandle
MCRanges == {[addr |-> 1, size |-> 1]}
MCReservations == {[address |-> 1, size |-> 1]}

\* A complete blob from a document, in a buffer of a size
T == INSTANCE DeviceTree WITH NodeNames <- {}, PropNames <- {}, Values <- <<>>,
        Reservations <- {}, Given <- {}, phase <- "", rsv <- <<>>, doc <- <<>>

RECURSIVE Written(_, _)
Written(r, toks) ==
    IF r.ret # 0 THEN r
    ELSE IF toks = <<>> THEN fdt_finish(r.fdt)
    ELSE Written(CASE Head(toks).kind = "begin" -> fdt_begin_node(r.fdt, Head(toks).name)
                   [] Head(toks).kind = "prop" ->
                        fdt_property(r.fdt, Head(toks).name, Head(toks).value)
                   [] Head(toks).kind = "end" -> fdt_end_node(r.fdt),
                 Tail(toks))

Blob(size, toks) ==
    fdt_open_into(Written(fdt_finish_reservemap(fdt_create(NoBlob, size).fdt), toks).fdt,
                  0, size).fdt

Node(name, inside) == <<T!BeginTok(name)>> \o inside \o <<T!EndTok>>
Cell(name, v) == <<T!PropTok(name, fdt32_st(v))>>
Text(name, s) == <<T!PropTok(name, s \o <<NUL>>)>>

\* The blob a boot loader may leave: version 16, or strings in front
Version16(b) == [b EXCEPT !.version = 16, !.size_dt_struct = 0]
StringsFirst(b) ==
    [b EXCEPT !.off_dt_strings = b.off_dt_struct,
              !.off_dt_struct = @ + FDT_ALIGN(b.size_dt_strings, 4),
              !.boot_cpuid_phys = 1,
              !.mem = Over(Moved(b.mem, b.off_dt_strings, b.totalsize,
                                 b.off_dt_struct - b.off_dt_strings),
                           Over(Moved(b.mem, b.off_dt_struct, b.off_dt_strings,
                                      FDT_ALIGN(b.size_dt_strings, 4)),
                                Only(b.mem, 0 .. b.off_dt_struct - 1)))]

SmallTree == Node(<<>>, Text(N_compatible, <<98, 99, NUL, 99>>) \o Node(<<97>>, <<>>))
FromLoader == {Version16(Blob(120, SmallTree)), StringsFirst(Blob(120, SmallTree))}
----------------------------------------------------------------------------
Name_a == <<97>>
Name_b == <<98>>
Name_b1 == <<98, 64, 49>>
Name_d == <<100>>
Name_f == <<102>>
Name_g == <<103>>
Name_x == <<120>>
Name_y == <<121>>
MCRefProp == <<114>>
MCLabelProp == <<113>>
MCLabel == Name_x

Path1(a) == <<Slash>> \o a
Path2(a, b) == Path1(a) \o Path1(b)

\* A base: /a with a label and a phandle, /b@1 refers to it
Base(size, h) ==
    Blob(size, Node(<<>>,
        Node(Name_a, Cell(N_phandle, h)) \o
        Node(Name_b1, Cell(MCRefProp, h)) \o
        Node(N_symbols, Text(MCLabel, Path1(Name_a)))))
Bases == {Base(200, 8), Base(420, 8), Base(420, 12)}

\* What a fragment holds: a reference to its own subnode d and one to the label
Content(h) ==
    Node(N_overlay, Cell(MCRefProp, h) \o Cell(MCLabelProp, 0) \o
                    Node(Name_d, Cell(N_phandle, h)))
LocalFixups(frag) ==
    Node(N_local_fixups, Node(frag, Node(N_overlay, Cell(MCRefProp, 0))))
ByLabel(frag) == Path1(frag) \o <<Colon>> \o N_target \o <<Colon, Zero>>
LabelCell(frag) ==
    Path2(frag, N_overlay) \o <<Colon>> \o MCLabelProp \o <<Colon, Zero>>
Symbol_y(frag) == Node(N_symbols, Text(Name_y, Path2(frag, N_overlay) \o Path1(Name_d)))

\* One fragment, on the label or on a path
OnLabel ==
    Blob(600, Node(<<>>,
        Node(Name_f, Cell(N_target, 0) \o Content(4)) \o LocalFixups(Name_f) \o
        Node(N_fixups, Text(MCLabel, ByLabel(Name_f) \o <<NUL>> \o LabelCell(Name_f))) \o
        Symbol_y(Name_f)))
OnPath(path) ==
    Blob(600, Node(<<>>,
        Node(Name_f, Text(N_target_path, path) \o Content(2)) \o LocalFixups(Name_f) \o
        Node(N_fixups, Text(MCLabel, LabelCell(Name_f))) \o
        Symbol_y(Name_f)))

\* Two fragments: the second merges into what the first one adds
TwoFragments ==
    Blob(600, Node(<<>>,
        Node(Name_f, Text(N_target_path, <<Slash>>) \o
            Node(N_overlay, Node(Name_b, Node(Name_d, Cell(N_phandle, 2))))) \o
        Node(Name_g, Text(N_target_path, Path2(Name_b, Name_d)) \o
            Node(N_overlay, Cell(MCRefProp, 2) \o Node(Name_b, <<>>))) \o
        LocalFixups(Name_g)))

MCOverlays == {OnLabel, OnPath(<<Slash>>), OnPath(Path1(Name_b)), TwoFragments}

MCStarts ==
    {fdt_create_with_flags(NoBlob, 128, f).fdt : f \in FDT_CREATE_FLAGS_ALL}
        \cup FromLoader \cup Bases
============================================================================
