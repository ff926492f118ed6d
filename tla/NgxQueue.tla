------------------------------ MODULE NgxQueue ------------------------------
(***************************************************************************)
(* The macros of src/core/ngx_queue.h as they are written: a cyclic doubly *)
(* linked list threaded through `prev` and `next` fields of the heads and  *)
(* of the elements embedded in the caller's structures.  Each macro is a   *)
(* sequence of pointer stores, taken in the order the code performs them,  *)
(* so a macro applied to overlapping arguments does what the C would do.   *)
(* A call is made only as the queue's contract allows: inserts of an       *)
(* element in no queue, into a head that was initialised or after an       *)
(* element that is queued, and removal of a queued element.                *)
(***************************************************************************)
EXTENDS Sequences, SequencesExt, FiniteSets

CONSTANTS
  Heads,     \* the sentinels
  Elems,     \* the embedded members
  NULL,      \* the null pointer
  NgxDebug   \* whether NGX_DEBUG selects the ngx_queue_remove that clears x

Nodes == Heads \cup Elems

VARIABLES
  prev,   \* prev[n]: the `prev` field of node n
  next,   \* next[n]: the `next` field of node n
  call    \* history: the last macro called and its arguments

vars == <<prev, next, call>>

\* struct ngx_queue_s in memory the caller zeroed: both fields are NULL.
Init ==
  /\ prev = [n \in Nodes |-> NULL]
  /\ next = [n \in Nodes |-> NULL]
  /\ call = <<"none">>

\* The nodes met walking `next` from n until h, NULL, or k steps.
RECURSIVE Chain(_, _, _)
Chain(h, n, k) ==
  IF n = h \/ n = NULL \/ k = 0 THEN <<>>
  ELSE <<n>> \o Chain(h, next[n], k - 1)

\* The elements of the queue headed by h, as ngx_queue_head and
\* ngx_queue_next enumerate them up to ngx_queue_sentinel.
Walk(h) == Chain(h, next[h], Cardinality(Nodes))

Initialised == {h \in Heads : next[h] # NULL}

Queued == UNION {ToSet(Walk(h)) : h \in Initialised}

(* The read-only macros. *)
ngx_queue_empty(h) == h = prev[h]
ngx_queue_head(h) == next[h]
ngx_queue_last(h) == prev[h]
ngx_queue_sentinel(h) == h
ngx_queue_next(x) == next[x]
ngx_queue_prev(x) == prev[x]

\* ngx_queue_init: both fields point at h.
ngx_queue_init(h) ==
  /\ prev' = [prev EXCEPT ![h] = h]
  /\ next' = [next EXCEPT ![h] = h]
  /\ call' = <<"init", h>>

\* Mutant: h->next is stored before x->next reads it.
InsertHeadEarly(h, x) ==
  LET n1 == [next EXCEPT ![h] = x]
      n2 == [n1 EXCEPT ![x] = n1[h]]
      p1 == [prev EXCEPT ![n2[x]] = x]
      p2 == [p1 EXCEPT ![x] = h]
  IN  /\ next' = n2
      /\ prev' = p2

\* The four stores of ngx_queue_insert_head(h, x), in order.
InsertHead(h, x) ==
  LET n1 == [next EXCEPT ![x] = next[h]]
      p1 == [prev EXCEPT ![n1[x]] = x]
      p2 == [p1 EXCEPT ![x] = h]
      n2 == [n1 EXCEPT ![h] = x]
  IN  /\ next' = n2
      /\ prev' = p2

\* Mutant: insert_tail defined as insert_head, as insert_after is.
InsertTailAtHead(h, x) == InsertHead(h, x)

\* The four stores of ngx_queue_insert_tail(h, x), in order.
InsertTail(h, x) ==
  LET p1 == [prev EXCEPT ![x] = prev[h]]
      n1 == [next EXCEPT ![p1[x]] = x]
      n2 == [n1 EXCEPT ![x] = h]
      p2 == [p1 EXCEPT ![h] = x]
  IN  /\ next' = n2
      /\ prev' = p2

\* Mutant: only x->prev->next is restored.
RemoveOneSide(x) ==
  /\ next' = [next EXCEPT ![prev[x]] = next[x]]
  /\ prev' = prev

\* ngx_queue_remove(x): unlink x from its neighbours; with NGX_DEBUG its
\* own fields are then cleared, otherwise they keep pointing at them.
Unlink(x) ==
  LET p1 == [prev EXCEPT ![next[x]] = prev[x]]
      n1 == [next EXCEPT ![p1[x]] = next[x]]
  IN  /\ prev' = IF NgxDebug THEN [p1 EXCEPT ![x] = NULL] ELSE p1
      /\ next' = IF NgxDebug THEN [n1 EXCEPT ![x] = NULL] ELSE n1

ngx_queue_insert_head(h, x) ==
  /\ h \in Initialised
  /\ x \notin Queued
  /\ InsertHead(h, x)
  /\ call' = <<"insert_head", h, x>>

\* ngx_queue_insert_after is ngx_queue_insert_head applied to an element.
ngx_queue_insert_after(y, x) ==
  /\ y \in Queued
  /\ x \notin Queued
  /\ InsertHead(y, x)
  /\ call' = <<"insert_after", y, x>>

ngx_queue_insert_tail(h, x) ==
  /\ h \in Initialised
  /\ x \notin Queued
  /\ InsertTail(h, x)
  /\ call' = <<"insert_tail", h, x>>

ngx_queue_remove(x) ==
  /\ x \in Queued
  /\ Unlink(x)
  /\ call' = <<"remove", x>>

Next ==
  \/ \E h \in Heads : ngx_queue_init(h)
  \/ \E h \in Heads, x \in Elems :
       ngx_queue_insert_head(h, x) \/ ngx_queue_insert_tail(h, x)
  \/ \E y, x \in Elems : ngx_queue_insert_after(y, x)
  \/ \E x \in Elems : ngx_queue_remove(x)

Spec == Init /\ [][Next]_vars

-----------------------------------------------------------------------------
(* Properties.                                                             *)

\* Every initialised head is on a cycle through `next` that comes back to
\* it and meets each element once, `prev` walks the same cycle backwards,
\* and so ngx_queue_empty, ngx_queue_head and ngx_queue_last agree with the
\* forward walk, after any sequence of inserts, moves and removes.
CyclesLinked ==
  \A h \in Initialised :
    LET s   == Walk(h)
        cyc == <<h>> \o s
    IN  /\ IsInjective(cyc)
        /\ next[cyc[Len(cyc)]] = ngx_queue_sentinel(h)
        /\ \A i \in 1..Len(cyc) : ngx_queue_prev(ngx_queue_next(cyc[i])) = cyc[i]
        /\ ngx_queue_empty(h) <=> s = <<>>
        /\ s # <<>> => ngx_queue_head(h) = s[1] /\ ngx_queue_last(h) = s[Len(s)]

\* The macros implement the abstract queue: the forward walk from each
\* initialised head is the sequence QueueSeq says it holds.
Abstract == INSTANCE QueueSeq WITH
  ready <- Initialised,
  q     <- [h \in Heads |-> IF h \in Initialised THEN Walk(h) ELSE <<>>],
  call  <- call

QueueRefinement == Abstract!Spec

=============================================================================
