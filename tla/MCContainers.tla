---------------------------- MODULE MCContainers ----------------------------
(***************************************************************************)
(* The arena of MCPalloc with a 40-byte ngx_array_t of 16-byte elements,   *)
(* created with room for 0, 1 or 2 and pushed by one and by two, and a     *)
(* 56-byte ngx_list_t with 24-byte parts of one or two 16-byte elements,   *)
(* between 16-byte allocations of the same owner.                          *)
(***************************************************************************)
EXTENDS Containers, MCPalloc

MCSizeofArray == 40
MCElemSize == 16
MCInitCounts == {0, 1, 2}
MCPushCounts == {1, 2}
MCSizeofList == 56
MCSizeofPart == 24
\* ngx_list_create callers pass n >= 1.
MCListInitCounts == {1, 2}
MCContainerSizes == {16}
MCContainerCleanupSizes == {0}

=============================================================================
