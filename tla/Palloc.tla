------------------------------ MODULE Palloc ------------------------------
(***************************************************************************)
(* The arena allocator of src/core/ngx_palloc.c (ngx_pool_t), owned by one *)
(* execution context, so its operations are atomic steps of a sequential   *)
(* caller.                                                                 *)
(*                                                                         *)
(* Addresses are byte offsets inside a block: every block is BlockSize     *)
(* bytes from ngx_memalign(NGX_POOL_ALIGNMENT, ...), whose base is 16-byte *)
(* aligned, so aligning an offset to NGX_ALIGMENT aligns the address.  The *)
(* first block holds the whole ngx_pool_t header, later blocks only the    *)
(* ngx_pool_data_t.  Memory obtained with ngx_alloc/ngx_memalign for large *)
(* allocations is named by a number.  `regions` is the memory a caller or  *)
(* the pool itself relies on: what every returned small pointer covers.    *)
(***************************************************************************)
EXTENDS Integers, Sequences, FiniteSets, FiniteSetsExt

CONSTANTS
  BlockSize,        \* the size passed to ngx_create_pool
  SizeofPool,       \* sizeof(ngx_pool_t)
  SizeofData,       \* sizeof(ngx_pool_data_t)
  Alignment,        \* NGX_ALIGMENT, the platform word
  MaxAllocFromPool, \* NGX_MAX_ALLOC_FROM_POOL, ngx_pagesize - 1
  SizeofLarge,      \* sizeof(ngx_pool_large_t)
  SizeofCleanup,    \* sizeof(ngx_pool_cleanup_t)
  Sizes,            \* the sizes callers request
  CleanupSizes,     \* the sizes passed to ngx_pool_cleanup_add
  HeapCanFail,      \* may malloc/posix_memalign fail
  MaxOps            \* bound on the number of calls on the pool

ASSUME /\ BlockSize > SizeofPool /\ SizeofPool > SizeofData
       /\ Alignment \in Nat \ {0} /\ MaxOps \in Nat
       /\ HeapCanFail \in BOOLEAN

VARIABLES
  pool,   \* the ngx_pool_t, its chain of blocks and its lists (see below)
  state,  \* "live", "destroyed", or "wild" (a garbage pointer was used)
  ops,    \* calls made on the pool so far
  ran,    \* the cleanup registrations whose handler ngx_destroy_pool ran
  freed   \* the blocks ngx_destroy_pool passed to ngx_free, in order

vars == <<pool, state, ops, ran, freed>>

(* pool.blocks[i]: the d.last offset and d.failed of the i-th block of the *)
(* chain; pool.current: the index of pool->current; pool.large: the        *)
(* ngx_pool_large_t list, head first, each the allocation it owns or 0     *)
(* (NULL); pool.cleanup: the ngx_pool_cleanup_t list, head first; pool.heap:*)
(* the large allocations not yet freed; pool.next: the next fresh number   *)
(* for a large allocation; pool.nreg: the cleanups registered so far.      *)

\* pool->max, set by ngx_create_pool.
PoolMax ==
  IF BlockSize - SizeofPool < MaxAllocFromPool
  THEN BlockSize - SizeofPool ELSE MaxAllocFromPool

\* ngx_align_ptr(m, NGX_ALIGMENT).
AlignUp(m) == ((m + Alignment - 1) \div Alignment) * Alignment

\* `(size_t) (p->d.end - m) >= size`: when m is past the end the difference
\* is negative, and as a size_t it wraps to 2^64 - (m - end), larger than
\* every request.
Fits(m, size) == m > BlockSize \/ BlockSize - m >= size

Region(b, off, len, kind) ==
  [b |-> b, off |-> off, len |-> len, kind |-> kind, stale |-> FALSE]

NoRegion == Region(0, 0, 0, "none")

\* The outcome of an allocation: the new pool, the memory returned (ok), and
\* whether the code went on with an indeterminate pointer (ub).
Outcome(a, ok, at, ub) == [a |-> a, ok |-> ok, at |-> at, ub |-> ub]

\* ngx_memalign when posix_memalign fails: `p` is never written, so the
\* returned pointer is whatever the stack held: NULL, or garbage the caller
\* then writes through.
MemalignFails(a) ==
  IF HeapCanFail THEN {Outcome(a, FALSE, NoRegion, ub) : ub \in BOOLEAN} ELSE {}

\* ngx_alloc when malloc fails: NULL.
AllocFails(a) ==
  IF HeapCanFail THEN {Outcome(a, FALSE, NoRegion, FALSE)} ELSE {}

\* Mutant: the new block's cursor is left right after its header, the
\* request not counted (`new->d.last = m`).
PallocBlockNoBump(a, size, kind) ==
  LET n  == Len(a.blocks)
      m  == AlignUp(SizeofData)
      at == Region(n + 1, m, size, kind)
  IN {Outcome([a EXCEPT !.blocks  = @ \o <<[last |-> m, failed |-> 0]>>,
                        !.regions = @ \cup {at}], TRUE, at, FALSE)}

\* Mutant: current moves past a block after its fifth failure (> 3).
PallocBlockSkipEarly(a, size, kind) ==
  LET n    == Len(a.blocks)
      from == a.current..(n - 1)
      skip == {i \in from : a.blocks[i].failed > 3}
      m    == AlignUp(SizeofData)
      at   == Region(n + 1, m, size, kind)
      bl   == [i \in 1..n |-> IF i \in from
                              THEN [a.blocks[i] EXCEPT !.failed = @ + 1]
                              ELSE a.blocks[i]]
      grown == [a EXCEPT !.blocks  = bl \o <<[last |-> m + size, failed |-> 0]>>,
                         !.current = IF skip = {} THEN @ ELSE Max(skip) + 1,
                         !.regions = @ \cup {at}]
  IN {Outcome(grown, TRUE, at, FALSE)} \cup MemalignFails(a)

\* ngx_palloc_block: a new block of the same size, the request served right
\* after its ngx_pool_data_t; every block from current up to the one before
\* the tail counts a failure, and current moves past each that had failed
\* more than 4 times; the new block is appended to the chain.
ngx_palloc_block(a, size, kind) ==
  LET n    == Len(a.blocks)
      from == a.current..(n - 1)
      skip == {i \in from : a.blocks[i].failed > 4}
      m    == AlignUp(SizeofData)
      at   == Region(n + 1, m, size, kind)
      bl   == [i \in 1..n |-> IF i \in from
                              THEN [a.blocks[i] EXCEPT !.failed = @ + 1]
                              ELSE a.blocks[i]]
      grown == [a EXCEPT !.blocks  = bl \o <<[last |-> m + size, failed |-> 0]>>,
                         !.current = IF skip = {} THEN @ ELSE Max(skip) + 1,
                         !.regions = @ \cup {at}]
  IN {Outcome(grown, TRUE, at, FALSE)} \cup MemalignFails(a)

\* ngx_palloc_small: bump-allocate from the first block from current on
\* that has room, aligning the cursor first if asked; else a new block.
ngx_palloc_small(a, size, align, kind) ==
  LET Cursor(i) == IF align THEN AlignUp(a.blocks[i].last) ELSE a.blocks[i].last
      room      == {i \in a.current..Len(a.blocks) : Fits(Cursor(i), size)}
  IN IF room = {}
     THEN ngx_palloc_block(a, size, kind)
     ELSE LET i  == Min(room)
              at == Region(i, Cursor(i), size, kind)
          IN {Outcome([a EXCEPT !.blocks[i].last = Cursor(i) + size,
                                !.regions = @ \cup {at}], TRUE, at, FALSE)}

LargeAt(id) == Region(0, id, 0, "large")

\* Mutant: the error path after a failed node allocation forgets ngx_free(p).
PallocLargeLeak(a) ==
  LET id == a.next
      a1 == [a EXCEPT !.heap = @ \cup {id}, !.next = @ + 1]
      Linked(o) ==
        IF o.ok THEN Outcome([o.a EXCEPT !.large = <<id>> \o @], TRUE, LargeAt(id), FALSE)
                ELSE Outcome(o.a, FALSE, NoRegion, o.ub)
      Reuse(reach) ==
        LET empty == {j \in 1..Min({reach, Len(a.large)}) : a.large[j] = 0}
        IN IF empty = {}
           THEN {Linked(o) : o \in ngx_palloc_small(a1, SizeofLarge, TRUE, "large_node")}
           ELSE {Outcome([a1 EXCEPT !.large[Min(empty)] = id], TRUE, LargeAt(id), FALSE)}
  IN AllocFails(a) \cup UNION {Reuse(reach) : reach \in 1..5}

\* ngx_palloc_large: malloc the memory, reuse an empty ngx_pool_large_t
\* among the first ones of the list, or allocate a new one from the pool and
\* put it at the head (freeing the memory if that fails).  The loop bound
\* `n` is never initialised, so how many nodes it looks at, 1 to 5, depends
\* on whatever the stack held.
ngx_palloc_large(a) ==
  LET id == a.next
      a1 == [a EXCEPT !.heap = @ \cup {id}, !.next = @ + 1]
      Linked(o) ==
        IF o.ok THEN Outcome([o.a EXCEPT !.large = <<id>> \o @], TRUE, LargeAt(id), FALSE)
                ELSE Outcome([o.a EXCEPT !.heap = @ \ {id}], FALSE, NoRegion, o.ub)
      Reuse(reach) ==
        LET empty == {j \in 1..Min({reach, Len(a.large)}) : a.large[j] = 0}
        IN IF empty = {}
           THEN {Linked(o) : o \in ngx_palloc_small(a1, SizeofLarge, TRUE, "large_node")}
           ELSE {Outcome([a1 EXCEPT !.large[Min(empty)] = id], TRUE, LargeAt(id), FALSE)}
  IN AllocFails(a) \cup UNION {Reuse(reach) : reach \in 1..5}

\* ngx_palloc (align) and ngx_pnalloc (no align).
Palloc(a, size, align, kind) ==
  IF size <= PoolMax THEN ngx_palloc_small(a, size, align, kind)
                     ELSE ngx_palloc_large(a)

\* ngx_pmemalign: posix_memalign the memory, always a new list node.
PmemalignOutcomes(a) ==
  LET id == a.next
      a1 == [a EXCEPT !.heap = @ \cup {id}, !.next = @ + 1]
      Linked(o) ==
        IF o.ok THEN Outcome([o.a EXCEPT !.large = <<id>> \o @], TRUE, LargeAt(id), FALSE)
                ELSE Outcome([o.a EXCEPT !.heap = @ \ {id}], FALSE, NoRegion, o.ub)
  IN MemalignFails(a)
     \cup {Linked(o) : o \in ngx_palloc_small(a1, SizeofLarge, TRUE, "large_node")}

-----------------------------------------------------------------------------

\* Mutant: ngx_create_pool without `p->current = p`.
InitNoCurrent ==
  /\ pool = [blocks  |-> <<[last |-> SizeofPool, failed |-> 0]>>,
             current |-> 0, large |-> <<>>, cleanup |-> <<>>,
             heap |-> {}, next |-> 1, nreg |-> 0, regions |-> {}]
  /\ state = "live"
  /\ ops = 0
  /\ ran = <<>>
  /\ freed = <<>>

\* ngx_create_pool: one block, its cursor right after the ngx_pool_t.
Init ==
  /\ pool = [blocks  |-> <<[last |-> SizeofPool, failed |-> 0]>>,
             current |-> 1, large |-> <<>>, cleanup |-> <<>>,
             heap |-> {}, next |-> 1, nreg |-> 0, regions |-> {}]
  /\ state = "live"
  /\ ops = 0
  /\ ran = <<>>
  /\ freed = <<>>

Call == state = "live" /\ ops < MaxOps

\* Take the outcome of a call; a garbage pointer ends the well-defined run.
Apply(o) ==
  /\ pool' = o.a
  /\ state' = IF o.ub THEN "wild" ELSE "live"
  /\ ops' = ops + 1
  /\ UNCHANGED <<ran, freed>>

ngx_palloc(size) ==
  /\ Call
  /\ \E o \in Palloc(pool, size, TRUE, "user") : Apply(o)

ngx_pnalloc(size) ==
  /\ Call
  /\ \E o \in Palloc(pool, size, FALSE, "user") : Apply(o)

ngx_pmemalign ==
  /\ Call
  /\ \E o \in PmemalignOutcomes(pool) : Apply(o)

\* ngx_pfree: free the first large allocation equal to p and empty its node;
\* NGX_DECLINED (no change) if none is.
ngx_pfree(p) ==
  /\ Call
  /\ \E j \in 1..Len(pool.large) :
       /\ pool.large[j] = p
       /\ \A k \in 1..(j - 1) : pool.large[k] # p
       /\ pool' = [pool EXCEPT !.large[j] = 0, !.heap = @ \ {p}]
  /\ ops' = ops + 1
  /\ UNCHANGED <<state, ran, freed>>

\* ngx_pool_cleanup_add: the entry from the pool, then its data if size > 0;
\* linked at the head of pool->cleanup.  The caller then sets the handler.
ngx_pool_cleanup_add(size) ==
  /\ Call
  /\ \E o1 \in Palloc(pool, SizeofCleanup, TRUE, "cleanup") :
       IF ~o1.ok THEN Apply(o1)
       ELSE \E o2 \in IF size = 0 THEN {Outcome(o1.a, TRUE, NoRegion, FALSE)}
                                  ELSE Palloc(o1.a, size, TRUE, "cleanup_data") :
              IF ~o2.ok THEN Apply(o2)
              ELSE Apply(Outcome(
                     [o2.a EXCEPT !.nreg = @ + 1,
                                  !.cleanup = <<[id |-> o2.a.nreg + 1, entry |-> o1.at,
                                                 data |-> o2.at]>> \o @],
                     TRUE, o1.at, FALSE))

\* The large allocations the list still owns.
Owned(a) == {a.large[j] : j \in 1..Len(a.large)} \ {0}

\* Mutant: ngx_reset_pool without its first loop, so the large allocations
\* are dropped from the list without ngx_free.
ResetKeepsLarge ==
  /\ Call
  /\ LET kept == {c.entry : c \in Range(pool.cleanup)} \cup {c.data : c \in Range(pool.cleanup)}
     IN pool' = [pool EXCEPT
                   !.blocks  = [i \in 1..Len(@) |-> [last |-> SizeofPool, failed |-> 0]],
                   !.current = 1,
                   !.large   = <<>>,
                   !.regions = {[r EXCEPT !.stale = TRUE] : r \in @ \cap kept}]
  /\ ops' = ops + 1
  /\ UNCHANGED <<state, ran, freed>>

\* ngx_reset_pool: free every large allocation, rewind every block to just
\* past sizeof(ngx_pool_t) and zero its failures, current back to the first
\* block, drop the large list.  pool->cleanup is left as it was, so the
\* entries it still points to stay in use; every other small allocation is
\* dead.
ngx_reset_pool ==
  /\ Call
  /\ LET kept == {c.entry : c \in Range(pool.cleanup)} \cup {c.data : c \in Range(pool.cleanup)}
     IN pool' = [pool EXCEPT
                   !.heap    = @ \ Owned(pool),
                   !.blocks  = [i \in 1..Len(@) |-> [last |-> SizeofPool, failed |-> 0]],
                   !.current = 1,
                   !.large   = <<>>,
                   !.regions = {[r EXCEPT !.stale = TRUE] : r \in @ \cap kept}]
  /\ ops' = ops + 1
  /\ UNCHANGED <<state, ran, freed>>

\* ngx_destroy_pool: run the handlers in list order, free the large
\* allocations, then the blocks -- the loop passes `pool`, the first block,
\* to ngx_free on every iteration.
ngx_destroy_pool ==
  /\ state = "live"
  /\ ran' = [i \in 1..Len(pool.cleanup) |-> pool.cleanup[i].id]
  /\ pool' = [pool EXCEPT !.heap = @ \ Owned(pool)]
  /\ freed' = [i \in 1..Len(pool.blocks) |-> 1]
  /\ state' = "destroyed"
  /\ UNCHANGED ops

\* The pool is gone, or the code wrote through a garbage pointer.
Terminated == state # "live" /\ UNCHANGED vars

Next ==
  \/ \E s \in Sizes : ngx_palloc(s) \/ ngx_pnalloc(s)
  \/ ngx_pmemalign
  \/ \E p \in 1..(pool.next - 1) : ngx_pfree(p)
  \/ \E s \in CleanupSizes : ngx_pool_cleanup_add(s)
  \/ ngx_reset_pool
  \/ ngx_destroy_pool
  \/ Terminated

Spec == Init /\ [][Next]_vars

-----------------------------------------------------------------------------
(* Properties.                                                             *)

\* What the memory is for: "user", "cleanup", "large_node", or a client's own.
RegionT == [b : Nat, off : Nat, len : Nat, kind : STRING, stale : BOOLEAN]

TypeOK ==
  /\ pool \in [blocks  : Seq([last : Nat, failed : Nat]),
               current : Nat, large : Seq(Nat),
               cleanup : Seq([id : Nat, entry : RegionT, data : RegionT]),
               heap : SUBSET Nat, next : Nat, nreg : Nat,
               regions : SUBSET RegionT]
  /\ pool.current \in 1..Len(pool.blocks)
  /\ pool.heap \subseteq 1..(pool.next - 1)
  /\ state \in {"live", "destroyed", "wild"}
  /\ ops \in 0..MaxOps

\* Two pieces of pool memory share a byte (regions of length 0 share none).
Overlap(r1, r2) ==
  /\ r1.b = r2.b /\ r1.b > 0
  /\ r1.off < r2.off + r2.len
  /\ r2.off < r1.off + r1.len

SameMemory(r1, r2) == r1.b = r2.b /\ r1.off = r2.off /\ r1.len = r2.len

\* ngx_palloc_small/ngx_palloc_block never hand out a byte that an earlier
\* allocation still uses, across the growth of the chain and the moves of
\* pool->current, including the list nodes and cleanup entries the pool
\* allocates from itself.
AllocationsDisjoint ==
  \A r1, r2 \in pool.regions :
    (~r1.stale /\ ~r2.stale /\ r1 # r2) => ~Overlap(r1, r2)

\* Every live allocation in a block lies below that block's cursor, so no
\* later bump allocation can be handed memory still in use: whoever moves
\* d.last back (ngx_reset_pool, a caller giving memory back) moves it only
\* past memory that is dead.
NoLiveAboveCursor ==
  \A r \in pool.regions :
    (~r.stale /\ r.b > 0) => r.off + r.len <= pool.blocks[r.b].last

\* Every large allocation the pool holds is owned by exactly one node of
\* pool->large and every node's allocation is still held, so
\* ngx_destroy_pool and ngx_reset_pool free each exactly once; after
\* ngx_destroy_pool nothing is left.
LargeTracked ==
  /\ state = "live" =>
       /\ pool.heap = Owned(pool)
       /\ \A j, k \in 1..Len(pool.large) :
            (pool.large[j] = pool.large[k] /\ pool.large[j] # 0) => j = k
  /\ state = "destroyed" => pool.heap = {}

\* ngx_palloc_block moves pool->current past a block only once that block
\* has failed to serve six requests (`p->d.failed++ > 4`), never earlier.
SkippedBlocksExhausted ==
  \A i \in 1..(pool.current - 1) : pool.blocks[i].failed >= 6

\* spec 4.1: reset drops the cleanup entries.  Every entry still on
\* pool->cleanup, and its data, must be memory no other live allocation
\* overlaps, since ngx_destroy_pool reads its handler and passes its data.
CleanupEntriesIntact ==
  \A c \in Range(pool.cleanup), r \in pool.regions :
    /\ ~SameMemory(r, c.entry) => ~Overlap(r, c.entry)
    /\ ~SameMemory(r, c.data)  => ~Overlap(r, c.data)

\* The arena behaves as the abstract arena of module Arena: the pieces in
\* use are the regions not made stale by a reset (none once destroyed),
\* the large allocations held are those not yet freed.  So no call takes
\* back memory in use or hands out a byte twice, a freed large allocation
\* is never handed out again, and ngx_reset_pool and ngx_destroy_pool
\* release every large allocation.
AbstractArena ==
  INSTANCE Arena WITH
    live   <- IF state = "destroyed" THEN {} ELSE {r \in pool.regions : ~r.stale},
    held   <- pool.heap,
    issued <- 1..(pool.next - 1),
    status <- IF state = "destroyed" THEN "destroyed" ELSE "live"

ArenaRefinement == AbstractArena!Spec

=============================================================================
