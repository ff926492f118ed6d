------------------------------- MODULE List -------------------------------
(***************************************************************************)
(* The list of src/core/ngx_list.c over the arena of Palloc: an ngx_list_t *)
(* whose first part is embedded in the header and whose further parts, and *)
(* every part's storage, are allocated from the pool on demand by          *)
(* ngx_list_push.                                                          *)
(***************************************************************************)
EXTENDS Palloc, SequencesExt

CONSTANTS
  SizeofList,   \* sizeof(ngx_list_t), the first part included
  SizeofPart,   \* sizeof(ngx_list_part_t)
  ElemSize,     \* l->size
  InitCounts    \* the n passed to ngx_list_create, each part's capacity

VARIABLES
  lst      \* the ngx_list_t: its header, its parts in chain order, l->last

lstVars == <<lst>>
allVars == <<vars, lstVars>>

NoList == [phase |-> "none", hdr |-> NoRegion, parts |-> <<>>, last |-> 0,
           nalloc |-> 0]

Part(hdr, elts) == [hdr |-> hdr, elts |-> elts, nelts |-> 0]

\* The list is used only while its memory is live (a reset rewinds it).
ListLive == lst.phase = "live" /\ lst.hdr \in pool.regions

PoolStep == Next /\ UNCHANGED lstVars

\* ngx_list_create and ngx_list_init: the header with its first part, then
\* that part's storage of n elements.
ngx_list_create(n) ==
  /\ Call
  /\ lst.phase = "none"
  /\ \E o1 \in Palloc(pool, SizeofList, TRUE, "list") :
       IF ~o1.ok THEN Apply(o1) /\ UNCHANGED lstVars
       ELSE \E o2 \in Palloc(o1.a, n * ElemSize, TRUE, "list_elts") :
              /\ Apply(o2)
              /\ lst' = IF o2.ok
                        THEN [phase |-> "live", hdr |-> o1.at, last |-> 1, nalloc |-> n,
                              parts |-> <<Part(o1.at, o2.at)>>]
                        ELSE lst

\* The slot at last->nelts is handed out and counted.
Take(l) == lst' = [l EXCEPT !.parts[l.last].nelts = @ + 1]

\* Mutant: the new part is linked after l->last but l->last is not moved.
ListPushKeepLast ==
  /\ Call
  /\ ListLive
  /\ IF lst.parts[lst.last].nelts = lst.nalloc
     THEN \E o1 \in Palloc(pool, SizeofPart, TRUE, "list_part") :
            IF ~o1.ok THEN Apply(o1) /\ UNCHANGED lstVars
            ELSE \E o2 \in Palloc(o1.a, lst.nalloc * ElemSize, TRUE, "list_elts") :
                   /\ Apply(o2)
                   /\ IF ~o2.ok THEN UNCHANGED lstVars
                      ELSE Take([lst EXCEPT !.parts = Append(@, Part(o1.at, o2.at))])
     ELSE /\ ops' = ops + 1
          /\ UNCHANGED <<pool, state, ran, freed>>
          /\ Take(lst)

\* ngx_list_push: when the last part is full, allocate a part, then its
\* storage (returning NULL, the part left behind, if that fails), link it
\* after the last part and make it the last; then hand out its next slot.
ngx_list_push ==
  /\ Call
  /\ ListLive
  /\ IF lst.parts[lst.last].nelts = lst.nalloc
     THEN \E o1 \in Palloc(pool, SizeofPart, TRUE, "list_part") :
            IF ~o1.ok THEN Apply(o1) /\ UNCHANGED lstVars
            ELSE \E o2 \in Palloc(o1.a, lst.nalloc * ElemSize, TRUE, "list_elts") :
                   /\ Apply(o2)
                   /\ IF ~o2.ok THEN UNCHANGED lstVars
                      ELSE Take([lst EXCEPT !.parts = Append(@, Part(o1.at, o2.at)),
                                            !.last = Len(lst.parts) + 1])
     ELSE /\ ops' = ops + 1
          /\ UNCHANGED <<pool, state, ran, freed>>
          /\ Take(lst)

ListInit == Init /\ lst = NoList

ListNext ==
  \/ PoolStep
  \/ \E n \in InitCounts : ngx_list_create(n)
  \/ ngx_list_push

ListSpec == ListInit /\ [][ListNext]_allVars

-----------------------------------------------------------------------------
(* Properties.                                                             *)

\* No part counts more elements than l->nalloc, and only l->last, the tail
\* of the chain, is not full: ngx_list_push fills a part before it starts
\* the next.
PartsFilledInOrder ==
  lst.phase = "live" =>
    /\ lst.last = Len(lst.parts)
    /\ \A i \in 1..Len(lst.parts) :
         /\ lst.parts[i].nelts <= lst.nalloc
         /\ i < lst.last => lst.parts[i].nelts = lst.nalloc

=============================================================================
