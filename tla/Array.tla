------------------------------- MODULE Array -------------------------------
(***************************************************************************)
(* The dynamic array of src/core/ngx_array.c over the arena of Palloc: one *)
(* ngx_array_t whose header and storage come from the pool, used by the    *)
(* pool's owner between its other calls on the pool.  Growing in place     *)
(* reads and moves d.last of a->pool, the first block of the chain.        *)
(***************************************************************************)
EXTENDS Palloc

CONSTANTS
  SizeofArray,  \* sizeof(ngx_array_t)
  ElemSize,     \* a->size
  InitCounts,   \* the n passed to ngx_array_create
  PushCounts    \* the n passed to ngx_array_push_n

VARIABLES
  arr,     \* the ngx_array_t: its header and storage and nelts/nalloc
  handed   \* element slots handed to the caller by push and push_n

arrVars == <<arr, handed>>
allVars == <<vars, arrVars>>

NoArray == [phase |-> "none", hdr |-> NoRegion, elts |-> NoRegion,
            nelts |-> 0, nalloc |-> 0]

\* The storage the array uses is still live: a pool allocation not yet
\* rewound by a reset, or a large allocation still held.
ArrayLive ==
  /\ arr.phase = "live"
  /\ \/ arr.elts \in pool.regions
     \/ arr.elts.b = 0 /\ arr.elts.off \in pool.heap

\* `(u_char *) a->elts + bytes == p->d.last && p->d.last + room <= p->d.end`
\* with p = a->pool: only the first block is ever compared.
AtPoolTop(r, bytes, room) ==
  /\ r.b = 1
  /\ r.off + bytes = pool.blocks[1].last
  /\ pool.blocks[1].last + room <= BlockSize

\* Grow the storage region in place by `bytes`, moving the first block's
\* cursor with it.
Extend(a, r, bytes) ==
  [a EXCEPT !.blocks[1].last = @ + bytes,
            !.regions = (@ \ {r}) \cup {[r EXCEPT !.len = @ + bytes]}]

Extended(r, bytes) == [r EXCEPT !.len = @ + bytes]

\* Growth by copying: once the elements are copied out, the old storage
\* is memory nobody uses any more.
Moved(o) ==
  IF o.ok THEN [o EXCEPT !.a.regions = @ \ {arr.elts}] ELSE o

\* Pool calls leave the array alone.
PoolStep == Next /\ UNCHANGED arrVars

\* ngx_array_create and ngx_array_init: the header, then n elements.
ngx_array_create(n) ==
  /\ Call
  /\ arr.phase = "none"
  /\ \E o1 \in Palloc(pool, SizeofArray, TRUE, "array") :
       IF ~o1.ok THEN Apply(o1) /\ UNCHANGED arrVars
       ELSE \E o2 \in Palloc(o1.a, n * ElemSize, TRUE, "elts") :
              /\ Apply(o2)
              /\ arr' = IF o2.ok
                        THEN [phase |-> "live", hdr |-> o1.at, elts |-> o2.at,
                              nelts |-> 0, nalloc |-> n]
                        ELSE arr
              /\ UNCHANGED handed

\* ngx_array_push.  When full: extend in place by one element if the storage
\* ends at the first block's cursor and one more fits, else copy to a new
\* allocation of twice the size.  The slot at nelts is returned, and
\* `a->nelts;` leaves the count as it was.
ngx_array_push ==
  /\ Call
  /\ ArrayLive
  /\ LET size == ElemSize * arr.nalloc
     IN IF arr.nelts = arr.nalloc
        THEN IF AtPoolTop(arr.elts, size, ElemSize)
             THEN /\ pool' = Extend(pool, arr.elts, ElemSize)
                  /\ ops' = ops + 1
                  /\ UNCHANGED <<state, ran, freed>>
                  /\ arr' = [arr EXCEPT !.elts = Extended(@, ElemSize), !.nalloc = @ + 1]
                  /\ handed' = handed + 1
             ELSE \E o \in Palloc(pool, 2 * size, TRUE, "elts") :
                    /\ Apply(Moved(o))
                    /\ arr' = IF o.ok THEN [arr EXCEPT !.elts = o.at, !.nalloc = @ * 2]
                                      ELSE arr
                    /\ handed' = IF o.ok THEN handed + 1 ELSE handed
        ELSE /\ ops' = ops + 1
             /\ UNCHANGED <<pool, state, ran, freed, arr>>
             /\ handed' = handed + 1

\* Mutant: the copy doubles the capacity without regard to n.
PushNDoubleOnly(n) ==
  /\ Call
  /\ ArrayLive
  /\ LET size == n * ElemSize
         Pushed(a) == /\ arr' = [a EXCEPT !.nelts = @ + n]
                      /\ handed' = handed + n
     IN IF arr.nelts + n > arr.nalloc
        THEN \E pIsPool \in BOOLEAN :
               IF ~pIsPool
               THEN /\ state' = "wild"
                    /\ ops' = ops + 1
                    /\ UNCHANGED <<pool, ran, freed, arrVars>>
               ELSE IF AtPoolTop(arr.elts, size, ElemSize)
               THEN /\ pool' = Extend(pool, arr.elts, size)
                    /\ ops' = ops + 1
                    /\ UNCHANGED <<state, ran, freed>>
                    /\ Pushed([arr EXCEPT !.elts = Extended(@, size), !.nalloc = @ + n])
               ELSE LET nalloc == 2 * arr.nalloc
                    IN \E o \in Palloc(pool, nalloc * ElemSize, TRUE, "elts") :
                         /\ Apply(Moved(o))
                         /\ IF o.ok THEN Pushed([arr EXCEPT !.elts = o.at, !.nalloc = nalloc])
                                    ELSE UNCHANGED arrVars
        ELSE /\ ops' = ops + 1
             /\ UNCHANGED <<pool, state, ran, freed>>
             /\ Pushed(arr)

\* ngx_array_push_n.  `p` is read before it is ever assigned: it holds
\* whatever the stack held, a->pool by chance or garbage.  The in-place test
\* compares a->elts + n * a->size with d.last and checks room for one
\* element; the copy allocates 2 * max(n, nalloc) elements.
ngx_array_push_n(n) ==
  /\ Call
  /\ ArrayLive
  /\ LET size == n * ElemSize
         Pushed(a) == /\ arr' = [a EXCEPT !.nelts = @ + n]
                      /\ handed' = handed + n
     IN IF arr.nelts + n > arr.nalloc
        THEN \E pIsPool \in BOOLEAN :
               IF ~pIsPool
               THEN /\ state' = "wild"
                    /\ ops' = ops + 1
                    /\ UNCHANGED <<pool, ran, freed, arrVars>>
               ELSE IF AtPoolTop(arr.elts, size, ElemSize)
               THEN /\ pool' = Extend(pool, arr.elts, size)
                    /\ ops' = ops + 1
                    /\ UNCHANGED <<state, ran, freed>>
                    /\ Pushed([arr EXCEPT !.elts = Extended(@, size), !.nalloc = @ + n])
               ELSE LET nalloc == 2 * (IF n >= arr.nalloc THEN n ELSE arr.nalloc)
                    IN \E o \in Palloc(pool, nalloc * ElemSize, TRUE, "elts") :
                         /\ Apply(Moved(o))
                         /\ IF o.ok THEN Pushed([arr EXCEPT !.elts = o.at, !.nalloc = nalloc])
                                    ELSE UNCHANGED arrVars
        ELSE /\ ops' = ops + 1
             /\ UNCHANGED <<pool, state, ran, freed>>
             /\ Pushed(arr)

\* Mutant: the storage is given back without checking it is at the top.
DestroyUnchecked ==
  /\ Call
  /\ ArrayLive
  /\ LET last1 == pool.blocks[1].last
         last2 == IF arr.elts.b = 1 THEN last1 - ElemSize * arr.nalloc ELSE last1
         last3 == IF arr.hdr.b = 1 /\ arr.hdr.off + SizeofArray = last2
                  THEN arr.hdr.off ELSE last2
     IN pool' = [pool EXCEPT !.blocks[1].last = last3,
                             !.regions = @ \ {arr.hdr, arr.elts}]
  /\ ops' = ops + 1
  /\ UNCHANGED <<state, ran, freed, handed>>
  /\ arr' = [arr EXCEPT !.phase = "destroyed"]

\* ngx_array_destroy: give back the storage, then the header, each only if
\* it ends at the first block's cursor.  The array's memory is dead after.
ngx_array_destroy ==
  /\ Call
  /\ ArrayLive
  /\ LET last1 == pool.blocks[1].last
         top   == arr.elts.b = 1 /\ arr.elts.off + ElemSize * arr.nalloc = last1
         last2 == IF top THEN last1 - ElemSize * arr.nalloc ELSE last1
         last3 == IF arr.hdr.b = 1 /\ arr.hdr.off + SizeofArray = last2
                  THEN arr.hdr.off ELSE last2
     IN pool' = [pool EXCEPT !.blocks[1].last = last3,
                             !.regions = @ \ {arr.hdr, arr.elts}]
  /\ ops' = ops + 1
  /\ UNCHANGED <<state, ran, freed, handed>>
  /\ arr' = [arr EXCEPT !.phase = "destroyed"]

ArrayInit == Init /\ arr = NoArray /\ handed = 0

ArrayNext ==
  \/ PoolStep
  \/ \E n \in InitCounts : ngx_array_create(n)
  \/ ngx_array_push
  \/ \E n \in PushCounts : ngx_array_push_n(n)
  \/ ngx_array_destroy

ArraySpec == ArrayInit /\ [][ArrayNext]_allVars

-----------------------------------------------------------------------------
(* Properties.                                                             *)

\* The array never counts more elements than it has room for, and its
\* storage in the pool is as long as its capacity says, across in-place
\* growth at the first block's cursor and growth by copying.
WithinCapacity ==
  arr.phase = "live" =>
    /\ arr.nelts <= arr.nalloc
    /\ arr.elts.b > 0 => arr.elts.len >= ElemSize * arr.nalloc

=============================================================================
