----------------------------- MODULE MCBootMem -----------------------------
(* A machine of a few pages of four bytes for TLC. *)
EXTENDS BootMem

Seg(b, n) == [pa_begin |-> b, pa_len |-> n]

RamSmall == Seg(8, 41)

\* No, one or two reserved segments: empty ones, unaligned ones, at both ends of
\* the RAM, touching, overlapping and containing each other.
SomeSegs == {Seg(b, n) : b \in {8, 12, 17, 20, 23, 32, 44}, n \in {0, 1, 4, 5, 13}}
Inside(s) == s.pa_begin + s.pa_len <= 49
ReservedMany ==
    LET S == {s \in SomeSegs : Inside(s)}
    IN  {<<>>} \cup {<<s>> : s \in S} \cup {<<s, t>> : s \in S, t \in S}

ReservedFew == {<<>>, <<Seg(24, 4)>>, <<Seg(32, 2), Seg(20, 3)>>}

\* Three allocations on three machines, none on the others, which are there for
\* the discovery of the memory.
AllocsOnFew(end, segments) == IF end = 11 /\ segments \in ReservedFew THEN 3 ELSE 0
OneAlloc(end, segments) == 1
AllMachines == ReservedFew \cup ReservedMany

\* A RAM whose map needs two pages, with a hole behind its first free page.
RamLarge == Seg(8, 160)
ReservedHole == {<<Seg(16, 4)>>}
=============================================================================
