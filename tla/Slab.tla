-------------------------------- MODULE Slab --------------------------------
(***************************************************************************)
(* The slab pool of src/core/ngx_slab.c as it is written.  The pool header *)
(* sits at address 0 of a page-aligned shared zone ending at `end`; after  *)
(* it come the size-class slots, the stats, the page descriptors and the   *)
(* page-aligned data pages.  The free-list sentinel, the slots and the     *)
(* page descriptors are all ngx_slab_page_t, so one function `page` maps   *)
(* each of them (Free, Slot(i), Pg(i)) to its slab/next/prev fields.  A    *)
(* step that dereferences NULL or indexes past an array ends in "wild";    *)
(* an allocation that never returns ends in "hung".                        *)
(***************************************************************************)
EXTENDS Integers, Sequences, SequencesExt, FiniteSets

CONSTANTS
  PageSize, PageShift,   \* ngx_pagesize, ngx_pagesize_shift
  MinShift,              \* pool->min_shift
  SizeofSlabPool,        \* sizeof(ngx_slab_pool_t)
  SizeofPage,            \* sizeof(ngx_slab_page_t)
  SizeofStat,            \* sizeof(ngx_slab_stat_t)
  PageStart,             \* NGX_SLAB_PAGE_START: above every page count
  MapBit,                \* 1 << NGX_SLAB_MAP_SHIFT: above every page count
  MapShift,              \* NGX_SLAB_MAP_SHIFT
  ZoneSizes,             \* sizes of the zone passed to ngx_slab_init
  Sizes,                 \* sizes passed to ngx_slab_alloc_locked
  SlotGarbage,           \* values the uninitialised `slot` may hold
  MaxAllocs              \* bound on allocation calls

NSlots == PageShift - MinShift          \* n in ngx_slab_init
MinSize == 2 ^ MinShift                 \* pool->min_size

Free == <<"free", 0>>
Slot(i) == <<"slot", i>>
Pg(i) == <<"page", i>>
Null == <<"null", 0>>
Big(r) == <<"big", r>>                  \* a prev pointer tagged NGX_SLAB_BIG

\* The chunk scan of a class page enters its loop only if bit MapShift is
\* among the low PageSize >> shift bits of the mask; for shift = min_size,
\* the only shift that reaches it, it is not.
ASSUME MapShift >= PageSize \div 2 ^ MinSize

VARIABLES
  state,   \* "raw", "ready", "wild" or "hung"
  end,     \* pool->end
  exact,   \* ngx_slab_exact_shift
  layout,  \* [start, pages, descEnd] as ngx_slab_init leaves them
  page,    \* the ngx_slab_page_t of Free, each slot and each descriptor
  stats,   \* stats[i]: [total, used, reqs]
  pfree,   \* pool->pfree
  handed,  \* the addresses ngx_slab_alloc_locked returned
  allocs   \* calls made

vars == <<state, end, exact, layout, page, stats, pfree, handed, allocs>>

Desc(slab, next, prev) == [slab |-> slab, next |-> next, prev |-> prev]

\* ngx_align_ptr
AlignUp(a, b) == ((a + b - 1) \div b) * b

\* ngx_slab_page_addr: the data page of descriptor r.
PageAddr(r) == layout.start + r[2] * PageSize

Init ==
  /\ state = "raw"
  /\ end \in ZoneSizes
  /\ exact = 0
  /\ layout = [start |-> 0, pages |-> 0, descEnd |-> 0]
  /\ page = [r \in {Free} |-> Desc(0, Null, Null)]
  /\ stats = <<>>
  /\ pfree = 0
  /\ handed = <<>>
  /\ allocs = 0

\* for (n = exact_size; n >>= 1; ngx_slab_exact_shift++): the halvings of n
\* before it reaches 0, added to the shift's current value: 6 for 64,
\* where the comments at lines 55 and 64 say 7.  The static is only ever
\* incremented, so a second call would double it; the model makes the one
\* call nginx's startup makes (nothing in this repository calls it).
RECURSIVE Halvings(_)
Halvings(n) == IF n \div 2 = 0 THEN 0 ELSE 1 + Halvings(n \div 2)

ngx_slab_sizes_init ==
  /\ exact = 0
  /\ exact' = exact + Halvings(PageSize \div (8 * 8))
  /\ UNCHANGED <<state, end, layout, page, stats, pfree, handed, allocs>>

\* Mutant: the descriptors are not trimmed to the pages that fit.
LayoutNoTrim(e) ==
  LET p1    == SizeofSlabPool + NSlots * (SizeofPage + SizeofStat)
      pages == (e - p1) \div (PageSize + SizeofPage)
      start == AlignUp(p1 + pages * SizeofPage, PageSize)
  IN  [p1 |-> p1, pages |-> pages, kept |-> pages, start |-> start]

\* The arithmetic of ngx_slab_init for a zone ending at e: the slots and
\* stats after the header (p1), as many descriptor-and-page pairs as the
\* rest holds, pool->start aligned up past the descriptors, and the count
\* trimmed by m when fewer pages fit after start.  With no data page,
\* start lies past e and (end - start) / ngx_pagesize, made unsigned, is
\* huge: m is negative and nothing is trimmed.
Layout(e) ==
  LET p1    == SizeofSlabPool + NSlots * (SizeofPage + SizeofStat)
      pages == (e - p1) \div (PageSize + SizeofPage)
      start == AlignUp(p1 + pages * SizeofPage, PageSize)
      m     == IF e >= start THEN pages - (e - start) \div PageSize ELSE -1
  IN  [p1 |-> p1, pages |-> pages, kept |-> IF m > 0 THEN pages - m ELSE pages,
       start |-> start]

\* ngx_slab_init.  `size` is size_t: a zone smaller than the header arrays
\* wraps it, and memzero of the descriptors runs past the zone.  Otherwise
\* the slots become empty lists, the stats zero, and one free run of the
\* kept pages hangs off the free-list sentinel.
ngx_slab_init ==
  /\ state = "raw"
  /\ LET L == Layout(end)
     IN IF end < L.p1
        THEN /\ state' = "wild"
             /\ UNCHANGED <<end, exact, layout, page, stats, pfree, handed, allocs>>
        ELSE /\ state' = "ready"
             /\ layout' = [start |-> L.start, pages |-> L.kept,
                           descEnd |-> L.p1 + L.pages * SizeofPage]
             /\ page' = [r \in {Free} \cup {Slot(i) : i \in 0..NSlots - 1}
                               \cup {Pg(i) : i \in 0..(IF L.pages > 0 THEN L.pages - 1 ELSE 0)} |->
                          CASE r = Free  -> Desc(0, Pg(0), Null)
                            [] r = Pg(0) -> Desc(L.kept, Free, Free)
                            [] r[1] = "slot" -> Desc(0, r, Null)
                            [] OTHER -> Desc(0, Null, Null)]
             /\ stats' = [i \in 0..NSlots - 1 |-> [total |-> 0, used |-> 0, reqs |-> 0]]
             /\ pfree' = L.kept
             /\ UNCHANGED <<end, exact, handed, allocs>>

\* One store through a descriptor pointer; a pointer that is NULL, tagged
\* or past the descriptors makes the step "wild".
Valid(d, r) == r \in DOMAIN d

\* The outcomes of ngx_slab_alloc_pages(pool, pages) on descriptors d: the
\* new descriptors, the pages taken from pfree, and the page returned,
\* "garbage" when control falls off the end of the function, or "wild".
Outcome(d, taken, got) == [d |-> d, taken |-> taken, got |-> got]
Garbage == <<"garbage", 0>>
Wild == Outcome(<<>>, 0, <<"wild", 0>>)

\* The split of the run at r: the run's last descriptor and the remainder
\* page[pages] are written, then r is unlinked from the list; the
\* remainder is linked nowhere.
Split(d, r, pages) ==
  LET i    == r[2]
      last == Pg(i + d[r].slab - 1)
      rem  == Pg(i + pages)
      d1   == [d EXCEPT ![last].prev = rem]
      d2   == [d1 EXCEPT ![rem] = Desc(d1[r].slab - pages, d1[r].next, d1[r].prev)]
      d3   == [d2 EXCEPT ![d2[r].prev].next = d2[r].next]
  IN  IF ~Valid(d, last) \/ ~Valid(d2, d2[r].prev) \/ ~Valid(d2, d2[r].next) THEN Wild
      ELSE Outcome([d3 EXCEPT ![d3[r].next].prev = d3[r].prev], pages, r)

\* The run at r has enough pages: split it if longer (an exact fit is left
\* on the list), mark it taken, and return it if one page was asked for;
\* otherwise the loop goes on from page->next, which is now NULL.
Take(d, r, pages) ==
  LET o == IF d[r].slab > pages THEN Split(d, r, pages) ELSE Outcome(d, pages, r)
  IN  IF o.got = Wild.got \/ pages > 1 THEN Wild
      ELSE [o EXCEPT !.d[r] = Desc(pages + PageStart, Null, Null)]

RECURSIVE Search(_, _, _, _)
Search(d, r, pages, fuel) ==
  CASE r = Free         -> Outcome(d, 0, Garbage)
    [] ~Valid(d, r)     -> Wild
    [] fuel = 0         -> Outcome(d, 0, <<"hung", 0>>)
    [] d[r].slab >= pages -> Take(d, r, pages)
    [] OTHER            -> Search(d, d[r].next, pages, fuel - 1)

ngx_slab_alloc_pages(d, pages) == Search(d, d[Free].next, pages, Cardinality(DOMAIN d))

\* ngx_slab_alloc_locked(pool, size).  For size > min_size the size-class
\* loop `for (s = size - 1; s >> 1; shift++)` never changes s and never
\* ends.  Otherwise shift is set to min_size (not min_shift) and `slot` is
\* never assigned: it holds a stale value, and one past the slots writes
\* outside the stats array.  The scan of the slot's page list finds
\* nothing (its loop is never entered), so a page is taken, made the
\* slot's only page, and its address returned.  When alloc_pages falls off
\* its end the garbage it returns is NULL or not; NULL makes this function
\* return its uninitialised p, which the caller may see as NULL.
ngx_slab_alloc_locked(size) ==
  /\ state = "ready"
  /\ allocs < MaxAllocs
  /\ allocs' = allocs + 1
  /\ UNCHANGED <<end, exact, layout>>
  /\ IF size > MinSize
     THEN /\ state' = "hung"
          /\ UNCHANGED <<page, stats, pfree, handed>>
     ELSE \E slot \in SlotGarbage :
            IF slot \notin DOMAIN stats
            THEN /\ state' = "wild"
                 /\ UNCHANGED <<page, stats, pfree, handed>>
            ELSE LET shift == MinSize
                     o     == ngx_slab_alloc_pages(page, 1)
                     reqd  == [stats EXCEPT ![slot].reqs = @ + 1]
                 IN CASE o.got[1] \in {"wild", "hung"} ->
                           /\ state' = o.got[1]
                           /\ UNCHANGED <<page, stats, pfree, handed>>
                      [] o.got = Garbage ->
                           \/ /\ state' = "wild"
                              /\ UNCHANGED <<page, stats, pfree, handed>>
                           \/ /\ state' = "ready"
                              /\ stats' = reqd
                              /\ UNCHANGED <<page, pfree, handed>>
                      [] OTHER ->
                           /\ state' = "ready"
                           /\ page' = [o.d EXCEPT
                                        ![o.got] = Desc(MapBit + shift, Slot(slot), Big(Slot(slot))),
                                        ![Slot(slot)].next = o.got]
                           /\ stats' = [reqd EXCEPT ![slot].total = @ + PageSize \div 2 ^ shift,
                                                    ![slot].used = @ + 1]
                           /\ pfree' = pfree - o.taken
                           /\ handed' = Append(handed, PageAddr(o.got))

\* A wild or hung process takes no further step; nor does a process that
\* has made all its calls.
Terminated ==
  /\ state \in {"wild", "hung"} \/ allocs = MaxAllocs
  /\ UNCHANGED vars

Next ==
  \/ ngx_slab_sizes_init
  \/ ngx_slab_init
  \/ \E size \in Sizes : ngx_slab_alloc_locked(size)
  \/ Terminated

Spec == Init /\ [][Next]_vars

-----------------------------------------------------------------------------
(* Properties.                                                             *)

\* The data pages ngx_slab_init lays out, and every page whose address
\* ngx_slab_alloc_locked returns, lie inside the zone, past the
\* descriptors, on page boundaries: the trim by m is what keeps the last
\* page inside when alignment pushes pool->start up.
DataPagesInZone ==
  state = "ready" =>
    /\ layout.start % PageSize = 0
    /\ layout.descEnd <= layout.start
    /\ \A i \in 0..layout.pages - 1 : layout.start + (i + 1) * PageSize <= end
    /\ \A k \in 1..Len(handed) :
         /\ handed[k] >= layout.start
         /\ (handed[k] - layout.start) % PageSize = 0
         /\ handed[k] + PageSize <= end

=============================================================================
