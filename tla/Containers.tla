----------------------------- MODULE Containers -----------------------------
(***************************************************************************)
(* An ngx_array_t and an ngx_list_t of the same owner, both allocating     *)
(* from one arena, between that owner's other calls on the pool: the list  *)
(* may take the bytes just past the array's storage, and the array may     *)
(* grow in place at the first block's cursor while the list's parts sit in *)
(* later blocks.  Array and List are instantiated over the one pool.       *)
(***************************************************************************)
EXTENDS Palloc

CONSTANTS
  SizeofArray, ArrElemSize, ArrInitCounts, PushCounts,
  SizeofList, SizeofPart, ListElemSize, ListInitCounts

VARIABLES
  arr, ahanded,   \* the array and the slots its pushes handed out
  lst             \* the list

A == INSTANCE Array WITH ElemSize <- ArrElemSize, InitCounts <- ArrInitCounts,
                         handed <- ahanded
L == INSTANCE List WITH ElemSize <- ListElemSize, InitCounts <- ListInitCounts

arrVars == <<arr, ahanded>>
lstVars == <<lst>>

ContainersInit == Init /\ arr = A!NoArray /\ ahanded = 0 /\ lst = L!NoList

ArrayStep ==
  /\ \/ \E n \in ArrInitCounts : A!ngx_array_create(n)
     \/ A!ngx_array_push
     \/ \E n \in PushCounts : A!ngx_array_push_n(n)
     \/ A!ngx_array_destroy
  /\ UNCHANGED lstVars

ListStep ==
  /\ \/ \E n \in ListInitCounts : L!ngx_list_create(n)
     \/ L!ngx_list_push
  /\ UNCHANGED arrVars

ContainersNext ==
  \/ Next /\ UNCHANGED <<arrVars, lstVars>>
  \/ ArrayStep
  \/ ListStep

ContainersSpec == ContainersInit /\ [][ContainersNext]_<<vars, arrVars, lstVars>>

-----------------------------------------------------------------------------
(* Properties: those of each container, now with the other allocating     *)
(* from the same pool in between.                                          *)

\* The array never counts more elements than its storage holds.
ArrayWithinCapacity == A!WithinCapacity

\* List parts fill in chain order and l->last is the tail.
ListPartsInOrder == L!PartsFilledInOrder

=============================================================================
