------------------------------ MODULE SpscQueue ------------------------------
(***************************************************************************)
(* SpscQueue<T> of mixing/LockFreeQueue.h: a ring of slots, an index moved *)
(* by the producer, an index moved by the consumer, and on each side a     *)
(* private copy of the other's index that is refreshed only when it says   *)
(* full or empty.  The commands, released sources, clock events and layout *)
(* probes of the program go through this queue.  The k-th item is k.       *)
(***************************************************************************)
EXTENDS Integers, Sequences

CONSTANTS Capacity,  \* m_capacity
          MaxPushes, \* bound on the items pushed
          MaxFails   \* bound on the refused pushes and on the refused pops

ASSUME SpscAssumption == Capacity \in Nat \ {0} /\ MaxPushes \in Nat /\ MaxFails \in Nat

VARIABLES
  head, tail,            \* m_head, m_tail
  tailCache, headCache,  \* m_tailCache (producer), m_headCache (consumer)
  slots,                 \* m_slots: the item constructed in a slot, 0 when destroyed
  ppc, cpc,              \* locations of the producer and of the consumer
  refused, misses,       \* TryPush and TryPop calls that returned false
  moved                  \* the item the last successful TryPop moved out

producer == <<head, tailCache, ppc, refused>>
consumer == <<tail, headCache, cpc, misses, moved>>
queueVars == <<producer, consumer, slots>>

Cells == 0 .. Capacity - 1
At(i) == i % Capacity

QueueInit ==
  /\ head = 0 /\ tail = 0 /\ tailCache = 0 /\ headCache = 0
  /\ slots = [i \in Cells |-> 0]
  /\ ppc = "idle" /\ cpc = "idle" /\ refused = 0 /\ misses = 0 /\ moved = 0

-----------------------------------------------------------------------------
(* TryPush                                                                  *)

PushBegin ==
  /\ ppc = "idle" /\ head < MaxPushes
  /\ ppc' = IF head - tailCache >= Capacity THEN "refresh" ELSE "construct"
  /\ UNCHANGED <<head, tailCache, refused, consumer, slots>>

PushRefresh ==
  /\ ppc = "refresh" /\ tailCache' = tail
  /\ IF head - tail >= Capacity
     THEN ppc' = "idle" /\ refused < MaxFails /\ refused' = refused + 1
     ELSE ppc' = "construct" /\ UNCHANGED refused
  /\ UNCHANGED <<head, consumer, slots>>

Construct ==
  /\ ppc = "construct" /\ ppc' = "publish"
  /\ slots' = [slots EXCEPT ![At(head)] = head + 1]
  /\ UNCHANGED <<head, tailCache, refused, consumer>>

PushEnd ==
  /\ ppc = "publish" /\ ppc' = "idle" /\ head' = head + 1
  /\ UNCHANGED <<tailCache, refused, consumer, slots>>

-----------------------------------------------------------------------------
(* TryPop                                                                   *)

PopBegin ==
  /\ cpc = "idle"
  /\ cpc' = IF tail = headCache THEN "refresh" ELSE "move"
  /\ UNCHANGED <<producer, tail, headCache, misses, moved, slots>>

\* Mutant: the refreshed index is not compared again.
PopRefreshBlind ==
  /\ cpc = "refresh" /\ headCache' = head /\ cpc' = "move"
  /\ UNCHANGED <<producer, tail, misses, moved, slots>>

PopRefresh ==
  /\ cpc = "refresh" /\ headCache' = head
  /\ IF tail = head
     THEN cpc' = "idle" /\ misses < MaxFails /\ misses' = misses + 1
     ELSE cpc' = "move" /\ UNCHANGED misses
  /\ UNCHANGED <<producer, tail, moved, slots>>

\* Mutant: the item is left in its slot, to be destroyed by the next construction.
MoveKeeps ==
  /\ cpc = "move" /\ cpc' = "publish"
  /\ moved' = slots[At(tail)] /\ UNCHANGED slots
  /\ UNCHANGED <<producer, tail, headCache, misses>>

\* The item is moved out and destroyed before the slot is given back.
Move ==
  /\ cpc = "move" /\ cpc' = "publish"
  /\ moved' = slots[At(tail)] /\ slots' = [slots EXCEPT ![At(tail)] = 0]
  /\ UNCHANGED <<producer, tail, headCache, misses>>

PopEnd ==
  /\ cpc = "publish" /\ cpc' = "idle" /\ tail' = tail + 1
  /\ UNCHANGED <<producer, headCache, misses, moved, slots>>

-----------------------------------------------------------------------------
ProducerStep == PushRefresh \/ Construct \/ PushEnd
ConsumerStep == PopBegin \/ PopRefresh \/ Move \/ PopEnd

QueueNext == PushBegin \/ ProducerStep \/ ConsumerStep

QueueSpec == QueueInit /\ [][QueueNext]_queueVars

-----------------------------------------------------------------------------
(* Properties                                                               *)

QueueTypeOK ==
  /\ {head, tail, tailCache, headCache, refused, misses, moved} \subseteq Nat
  /\ slots \in [Cells -> Nat]
  /\ ppc \in {"idle", "refresh", "construct", "publish"}
  /\ cpc \in {"idle", "refresh", "move", "publish"}

\* A cached index is never ahead of the index it copies, so that a stale cache
\* can only make the queue look fuller to the producer, emptier to the consumer.
IndexInv ==
  /\ tailCache <= tail /\ tail <= headCache /\ headCache <= head
  /\ head - tailCache <= Capacity
  /\ ppc \in {"construct", "publish"} => head - tailCache < Capacity
  /\ cpc \in {"move", "publish"} => tail < headCache

\* The items pushed and not yet moved out, which their slots hold.
Unmoved == (IF cpc = "publish" THEN tail + 1 ELSE tail) .. head - 1
Constructed == Unmoved \cup (IF ppc = "publish" THEN {head} ELSE {})

\* Every item between the indexes is in its slot and every other slot is empty:
\* no item is lost, moved out twice or constructed over a live one, whichever
\* caches the two sides went by.
SlotInv ==
  /\ \A k \in Constructed : slots[At(k)] = k + 1
  /\ \A i \in Cells : (\A k \in Constructed : At(k) # i) => slots[i] = 0
  /\ moved = IF cpc = "publish" THEN tail + 1 ELSE tail

QueueInv == QueueTypeOK /\ IndexInv /\ SlotInv

\* TryPush takes effect when it stores m_head and TryPop when it stores m_tail,
\* a refusal or a miss when the other side's index is read.  What TryPop returns
\* is what it found in the slot.
Fifo == INSTANCE BoundedFifo WITH
  items <- [i \in 1 .. head - tail |-> tail + i], pushed <- head,
  popped <- IF cpc = "publish" THEN tail ELSE moved

\* To its two threads the ring is a first-in-first-out queue of Capacity items.
ImplementsFifo == Fifo!Spec
=============================================================================
