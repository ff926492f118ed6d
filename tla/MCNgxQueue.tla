----------------------------- MODULE MCNgxQueue -----------------------------
(* Two heads and three elements: enough for an element to move between    *)
(* queues and for inserts after an element in the middle of a queue.      *)
EXTENDS NgxQueue, TLC

CONSTANTS h1, h2, e1, e2, e3

MCHeads == {h1, h2}
MCElems == {e1, e2, e3}

\* Elements are interchangeable: nothing in the macros depends on which.
ElemSymmetry == Permutations(MCElems)

=============================================================================
