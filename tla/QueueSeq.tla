------------------------------ MODULE QueueSeq ------------------------------
(***************************************************************************)
(* What the intrusive queue of src/core/ngx_queue.h promises: every head   *)
(* that has been initialised holds a sequence of elements, first to last,  *)
(* and an element is in at most one queue.  Insertion at the front, after  *)
(* a queued element or at the back, and removal, change one sequence.      *)
(***************************************************************************)
EXTENDS Sequences, SequencesExt

CONSTANTS
  Heads,   \* the ngx_queue_t sentinels
  Elems    \* the ngx_queue_t members embedded in the caller's structures

VARIABLES
  ready,   \* heads passed to ngx_queue_init
  q,       \* q[h]: the elements of queue h, from ngx_queue_head to ngx_queue_last
  call     \* the last operation and its arguments

vars == <<ready, q, call>>

\* Elements currently in some queue.
Queued == UNION {ToSet(q[h]) : h \in ready}

\* The queue that holds element x.
QueueOf(x) == CHOOSE h \in ready : Contains(q[h], x)

Init ==
  /\ ready = {}
  /\ q = [h \in Heads |-> <<>>]
  /\ call = <<"none">>

\* (Re)initialise a head: it becomes an empty queue.
MakeEmpty(h) ==
  /\ ready' = ready \cup {h}
  /\ q' = [q EXCEPT ![h] = <<>>]
  /\ call' = <<"init", h>>

PushFront(h, x) ==
  /\ h \in ready
  /\ x \notin Queued
  /\ q' = [q EXCEPT ![h] = <<x>> \o @]
  /\ call' = <<"insert_head", h, x>>
  /\ UNCHANGED ready

PushAfter(y, x) ==
  /\ y \in Queued
  /\ x \notin Queued
  /\ LET h == QueueOf(y)
     IN q' = [q EXCEPT ![h] = InsertAt(@, SelectInSeq(@, LAMBDA e : e = y) + 1, x)]
  /\ call' = <<"insert_after", y, x>>
  /\ UNCHANGED ready

PushBack(h, x) ==
  /\ h \in ready
  /\ x \notin Queued
  /\ q' = [q EXCEPT ![h] = Append(@, x)]
  /\ call' = <<"insert_tail", h, x>>
  /\ UNCHANGED ready

Drop(x) ==
  /\ x \in Queued
  /\ q' = [q EXCEPT ![QueueOf(x)] = Remove(@, x)]
  /\ call' = <<"remove", x>>
  /\ UNCHANGED ready

Next ==
  \/ \E h \in Heads : MakeEmpty(h)
  \/ \E h \in Heads, x \in Elems : PushFront(h, x) \/ PushBack(h, x)
  \/ \E y, x \in Elems : PushAfter(y, x)
  \/ \E x \in Elems : Drop(x)

Spec == Init /\ [][Next]_vars

=============================================================================
