----------------------------- MODULE BoundedFifo -----------------------------
(***************************************************************************)
(* What a producer and a consumer expect of a queue: a first-in-first-out  *)
(* sequence of at most Capacity items whose operations take effect at one  *)
(* instant, a push being refused only when the queue is full at it and a   *)
(* pop only when it is empty.  The k-th item pushed is the number k.       *)
(***************************************************************************)
EXTENDS Integers, Sequences

CONSTANT Capacity

VARIABLES
  items,    \* the queue, oldest first
  pushed,   \* items pushed so far
  refused,  \* pushes refused so far
  popped,   \* the last item popped, 0 before the first
  misses    \* pops refused so far

vars == <<items, pushed, refused, popped, misses>>

Init == items = <<>> /\ pushed = 0 /\ refused = 0 /\ popped = 0 /\ misses = 0

Push ==
  /\ Len(items) < Capacity
  /\ items' = Append(items, pushed + 1) /\ pushed' = pushed + 1
  /\ UNCHANGED <<refused, popped, misses>>

Refuse ==
  /\ Len(items) = Capacity /\ refused' = refused + 1
  /\ UNCHANGED <<items, pushed, popped, misses>>

Pop ==
  /\ items # <<>>
  /\ popped' = Head(items) /\ items' = Tail(items)
  /\ UNCHANGED <<pushed, refused, misses>>

Miss ==
  /\ items = <<>> /\ misses' = misses + 1
  /\ UNCHANGED <<items, pushed, refused, popped>>

Next == Push \/ Refuse \/ Pop \/ Miss

Spec == Init /\ [][Next]_vars
=============================================================================
