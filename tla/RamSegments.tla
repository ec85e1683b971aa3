---------------------------- MODULE RamSegments ----------------------------
(***************************************************************************)
(* device_calc_available_ram (device/memory.c): which parts of the RAM are *)
(* left when the kernel image and the reserved segments of the device tree *)
(* are taken out.  The begins and the ends of the segments are sorted each *)
(* on their own (utilities/algorithm/qsort.c) and swept together.          *)
(***************************************************************************)
EXTENDS Integers, Sequences, SequencesExt

CONSTANTS PageSize, AddrBits

Top == 2^AddrBits - 1   \* -1ul

PageDown(x) == (x \div PageSize) * PageSize
PageUp(x) == ((x + PageSize - 1) \div PageSize) * PageSize

Swap(arr, i, j) == [arr EXCEPT ![i] = arr[j], ![j] = arr[i]]

\* Faulty variants, used only to see that the properties notice them
PartitionFalls(arr, low, high) ==
    FoldLeft(LAMBDA s, j :
               IF s.arr[j] > arr[high]
               THEN [arr |-> Swap(s.arr, s.ptr + 1, j), ptr |-> s.ptr + 1]
               ELSE s,
             [arr |-> arr, ptr |-> low - 1],
             [i \in 1 .. high - low |-> low + i - 1])
OpensAgain(s, pos, new_acc) == new_acc > 0 /\ pos > s.last

\* The loop of __qsort: what is smaller than the pivot moves to the front.
Partition(arr, low, high) ==
    FoldLeft(LAMBDA s, j :
               IF s.arr[j] < arr[high]
               THEN [arr |-> Swap(s.arr, s.ptr + 1, j), ptr |-> s.ptr + 1]
               ELSE s,
             [arr |-> arr, ptr |-> low - 1],
             [i \in 1 .. high - low |-> low + i - 1])

RECURSIVE QSort(_, _, _)
QSort(arr, low, high) ==
    IF low >= high THEN arr
    ELSE LET p   == Partition(arr, low, high)
             ptr == p.ptr + 1
         IN  QSort(QSort(Swap(p.arr, ptr, high), low, ptr - 1), ptr + 1, high)

Sorted(arr) == QSort(arr, 1, Len(arr))

\* The sweep stands at s: how many segments are open, where the last one that
\* was open ended, and what it has found.
Opens(s, pos, new_acc) == new_acc > 0 /\ s.acc = 0 /\ pos > s.last

Visit(s, pos, val) ==
    LET new_acc == s.acc + val
    IN  [acc  |-> new_acc,
         last |-> IF new_acc = 0 /\ s.acc > 0 THEN pos ELSE s.last,
         segs |-> IF Opens(s, pos, new_acc)
                  THEN Append(s.segs, [pa_begin |-> s.last, pa_len |-> pos - s.last])
                  ELSE s.segs]

\* How many elements at the front of a sorted array are x.
Run(arr, x) == Len(SelectSeq(arr, LAMBDA y : y = x))

RECURSIVE Sweep(_, _, _)
Sweep(begins, ends, s) ==
    CASE begins = <<>> /\ ends = <<>> -> s.segs
      [] begins = <<>> /\ ends # <<>> -> Sweep(begins, Tail(ends), Visit(s, Head(ends), -1))
      [] begins # <<>> /\ ends = <<>> -> Sweep(Tail(begins), ends, Visit(s, Head(begins), 1))
      [] OTHER ->
           LET b == Head(begins)
               e == Head(ends)
           IN  CASE b = e -> LET nb == Run(begins, b)
                                 ne == Run(ends, b)
                             IN  Sweep(SubSeq(begins, nb + 1, Len(begins)),
                                       SubSeq(ends, ne + 1, Len(ends)),
                                       Visit(s, b, nb - ne))
                 [] b < e -> Sweep(Tail(begins), ends, Visit(s, b, 1))
                 [] b > e -> Sweep(begins, Tail(ends), Visit(s, e, -1))

\* What is taken out, with the boundary that closes the RAM at its end.
Begins(ram, reserved) ==
    Append([i \in 1 .. Len(reserved) |-> PageDown(reserved[i].pa_begin)]
             \o <<PageDown(ram.pa_begin)>>,
           PageDown(ram.pa_begin + ram.pa_len))
Ends(kernel_end, reserved) ==
    Append([i \in 1 .. Len(reserved) |-> PageUp(reserved[i].pa_begin + reserved[i].pa_len)]
             \o <<PageUp(kernel_end)>>,
           Top)

AvailableRam(ram, kernel_end, reserved) ==
    Sweep(Sorted(Begins(ram, reserved)), Sorted(Ends(kernel_end, reserved)),
          [acc |-> 0, last |-> ram.pa_begin, segs |-> <<>>])
=============================================================================
