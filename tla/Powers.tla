------------------------------- MODULE Powers -------------------------------
(***************************************************************************)
(* The powers of two and the aligned blocks that the page and the object   *)
(* allocator count in, and the lists they unlink nodes from.               *)
(***************************************************************************)
EXTENDS Integers, Sequences

\* 1ul << k
Pow2[k \in Nat] == IF k = 0 THEN 1 ELSE 2 * Pow2[k - 1]

\* The pages of the block of that order at p.
Block(p, order) == p .. p + Pow2[order] - 1

\* p & ~((1ul << order) - 1)
BlockStart(p, order) == p - (p % Pow2[order])

\* The list without its i-th node.
Unlinked(list, i) ==
    [j \in 1 .. Len(list) - 1 |-> IF j < i THEN list[j] ELSE list[j + 1]]
=============================================================================
