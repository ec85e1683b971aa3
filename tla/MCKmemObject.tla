---------------------------- MODULE MCKmemObject ----------------------------
(* Small memories for TLC: pages of 512 bytes, the sizes of the real headers. *)
EXTENDS KmemObject, TLC

CONSTANTS u512, u256

\* as kmem_init creates them, the largest first
Sizes == <<u512, u256>>

\* struct kmem_object_manager_struct, struct list_node and two universal
\* managers, one of a size that is not a multiple of the alignment
SizeOf == (Root :> 56) @@ (Nodes :> 24) @@ (u512 :> 512) @@ (u256 :> 251)

\* One request for each universal manager, neither a multiple of the alignment.
Asked == {255, 507}

ASSUME BootAssumption == BootFits
=============================================================================
