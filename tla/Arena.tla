------------------------------- MODULE Arena -------------------------------
(***************************************************************************)
(* What the arena of src/core/ngx_palloc.c promises its owner (spec 4.1),  *)
(* with blocks, cursors, the current hint and the list nodes left out:     *)
(*  - the memory in use: every piece handed out, to the caller or to the   *)
(*    pool's own lists, as a block, an offset and a length;                *)
(*  - the large allocations held, and every id ever issued.               *)
(* An allocating call may hand out several pieces at once (a cleanup entry *)
(* and its data, a large allocation and its list node); a failed call      *)
(* changes nothing.  Reset and destroy release everything at once.        *)
(*                                                                         *)
(* The actions are stated as relations between two states, for use as the *)
(* property a detailed arena is checked against.                          *)
(***************************************************************************)
EXTENDS Integers

VARIABLES
  live,    \* the pieces of arena memory in use
  held,    \* the large allocations the arena holds
  issued,  \* the large allocations ever made
  status   \* "live" or "destroyed"

avars == <<live, held, issued, status>>

\* Two pieces share a byte.
Shares(r1, r2) ==
  /\ r1.b = r2.b
  /\ r1.off < r2.off + r2.len
  /\ r2.off < r1.off + r1.len

Init ==
  /\ live = {}
  /\ held = {}
  /\ issued = {}
  /\ status = "live"

\* allocate, allocateUnaligned, allocateAligned, registerCleanup: what was
\* in use stays in use; the new pieces share no byte with each other or
\* with memory in use; a large allocation gets an id never issued before
\* (a call that failed half way may have used up an id it never handed out).
Allocate ==
  /\ status = "live"
  /\ live \subseteq live'
  /\ \A r1 \in live' \ live, r2 \in live' : r1 # r2 => ~Shares(r1, r2)
  /\ held \subseteq held'
  /\ (held' \ held) \cap issued = {}
  /\ issued \cup held' \subseteq issued'
  /\ UNCHANGED status

\* release(p) of a large allocation the arena holds.
Release ==
  /\ status = "live"
  /\ \E id \in held : held' = held \ {id}
  /\ UNCHANGED <<live, issued, status>>

\* reset(): every large allocation is released and no memory is in use.
Reset ==
  /\ status = "live"
  /\ live' = {}
  /\ held' = {}
  /\ UNCHANGED <<issued, status>>

\* destroy(): everything is released and the arena is gone.
Destroy ==
  /\ status = "live"
  /\ live' = {}
  /\ held' = {}
  /\ status' = "destroyed"
  /\ UNCHANGED issued

Next == Allocate \/ Release \/ Reset \/ Destroy

Spec == Init /\ [][Next]_avars

=============================================================================
