----------------------------- MODULE PageAlloc -----------------------------
(***************************************************************************)
(* What the page allocator promises its callers.  Pages are numbered from  *)
(* the first page of the managed memory.  A request for 2^order pages is   *)
(* answered with an aligned run of free pages whenever there is one, and   *)
(* with NULL only when there is none; a page goes back when it is freed.   *)
(***************************************************************************)
EXTENDS Powers

CONSTANTS NumPages, MaxOrder, NULL

VARIABLES free,     \* the pages nobody has
          owned,    \* the pages handed out and not given back
          answer    \* the last request and what it returned

Page == 0 .. NumPages - 1
Orders == 0 .. MaxOrder - 1

\* The answers a request may get: the beginnings of aligned free runs.
Candidates(order) ==
    {p \in Page : p % Pow2[order] = 0 /\ Block(p, order) \subseteq free}

\* The boot allocator has left some of the pages free.
Init == free \in SUBSET Page /\ owned = {} /\ answer = NULL

Alloc(order) ==
    \/ \E p \in Candidates(order) :
         /\ free' = free \ Block(p, order)
         /\ owned' = owned \cup Block(p, order)
         /\ answer' = <<order, p>>
    \/ /\ Candidates(order) = {}
       /\ answer' = <<order, NULL>>
       /\ UNCHANGED <<free, owned>>

Free(p) ==
    /\ p \in owned
    /\ free' = free \cup {p}
    /\ owned' = owned \ {p}
    /\ UNCHANGED answer

Next == (\E order \in Orders : Alloc(order)) \/ (\E p \in Page : Free(p))

Spec == Init /\ [][Next]_<<free, owned, answer>>
=============================================================================
