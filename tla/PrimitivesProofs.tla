-------------------------- MODULE PrimitivesProofs ---------------------------
(***************************************************************************)
(* Proofs about what the engine's mixer and the audio thread share without *)
(* a lock: the command queue (SpscQueue), the ring of captured samples     *)
(* (CaptureRing) and the sequence lock (SeqLock) for every capacity and    *)
(* every number of readers, slots and words; and about the tables of       *)
(* core/ChannelCapture for every number of channels, slots and buckets:    *)
(* the slots it finds sounds with (SlotTable) and the fields of channel_t  *)
(* it infers (LayoutInference).                                            *)
(***************************************************************************)
EXTENDS MCPrimitives, FiniteSetTheorems, WellFoundedInduction, TLAPS

-----------------------------------------------------------------------------
(* Positions in a ring                                                     *)

LEMMA Quotient ==
  ASSUME NEW C \in Nat \ {0}, NEW i \in Nat
  PROVE  /\ (i % C) \in 0 .. C - 1
         /\ (i \div C) \in Nat
         /\ i = C * (i \div C) + (i % C)
  OBVIOUS

LEMMA SmallMultiple ==
  ASSUME NEW C \in Nat \ {0}, NEW q \in Int, NEW r \in Int,
         -C < C * q - C * r, C * q - C * r < C
  PROVE  q = r
  OBVIOUS

\* Two positions less than a ring's length apart have different cells.
LEMMA DifferentCells ==
  ASSUME NEW C \in Nat \ {0}, NEW i \in Nat, NEW j \in Nat,
         i # j, i - j < C, j - i < C
  PROVE  i % C # j % C
<1> SUFFICES ASSUME i % C = j % C PROVE FALSE
  OBVIOUS
<1> DEFINE q == i \div C
           r == j \div C
<1>1. q \in Nat /\ r \in Nat /\ i = C * q + (i % C) /\ j = C * r + (j % C)
  BY Quotient
<1>2. (i % C) \in Int /\ (j % C) \in Int
  BY Quotient
<1> HIDE DEF q, r
<1>3. C * q \in Int /\ C * r \in Int
  BY <1>1
<1>4. C * q - C * r = i - j
  BY <1>1, <1>2, <1>3
<1>5. q = r
  BY <1>1, <1>4, SmallMultiple
<1> QED
  BY <1>1, <1>2, <1>5

-----------------------------------------------------------------------------
(* SpscQueue                                                               *)

LEMMA AtIsCell == ASSUME NEW i \in Nat PROVE At(i) \in Cells
  BY SpscAssumption, Quotient DEF At, Cells

LEMMA AtDiffers ==
  ASSUME NEW i \in Nat, NEW j \in Nat, i # j, i - j < Capacity, j - i < Capacity
  PROVE  At(i) # At(j)
  BY SpscAssumption, DifferentCells DEF At

LEMMA QueueInitInv == QueueInit => QueueInv
  BY SpscAssumption DEF QueueInit, QueueInv, QueueTypeOK, IndexInv, SlotInv, Constructed, Unmoved

\* The indexes and their copies keep their order and their distance.
LEMMA QueueIndexStep ==
  QueueTypeOK /\ IndexInv /\ SlotInv /\ [QueueNext]_queueVars => QueueTypeOK' /\ IndexInv'
<1> SUFFICES ASSUME QueueTypeOK, IndexInv, SlotInv, [QueueNext]_queueVars PROVE QueueTypeOK' /\ IndexInv'
  OBVIOUS
<1> USE SpscAssumption DEF QueueTypeOK, IndexInv, producer, consumer
<1>0. At(head) \in Cells /\ At(tail) \in Cells
  BY AtIsCell
<1>1. CASE PushBegin
  BY <1>1 DEF PushBegin
<1>2. CASE PushRefresh
  BY <1>2 DEF PushRefresh
<1>3. CASE Construct
  BY <1>3, <1>0 DEF Construct
<1>4. CASE PushEnd
  BY <1>4 DEF PushEnd
<1>5. CASE PopBegin
  BY <1>5 DEF PopBegin
<1>6. CASE PopRefresh
  BY <1>6 DEF PopRefresh
<1>7. CASE Move
  BY <1>7, <1>0 DEF Move
<1>8. CASE PopEnd
  BY <1>8 DEF PopEnd
<1>9. CASE UNCHANGED queueVars
  BY <1>9 DEF queueVars
<1> QED
  BY <1>1, <1>2, <1>3, <1>4, <1>5, <1>6, <1>7, <1>8, <1>9 DEF QueueNext, ProducerStep, ConsumerStep

\* A step that leaves the constructed items alone leaves the slots' content.
LEMMA SlotsKept ==
  ASSUME SlotInv, slots' = slots, Constructed' = Constructed,
         moved' = IF cpc' = "publish" THEN tail' + 1 ELSE tail'
  PROVE  SlotInv'
  BY DEF SlotInv

LEMMA QueueSlotStep ==
  QueueTypeOK /\ IndexInv /\ SlotInv /\ [QueueNext]_queueVars => SlotInv'
<1> SUFFICES ASSUME QueueTypeOK, IndexInv, SlotInv, [QueueNext]_queueVars PROVE SlotInv'
  OBVIOUS
<1> USE SpscAssumption DEF QueueTypeOK, IndexInv, producer, consumer
<1>0. moved = IF cpc = "publish" THEN tail + 1 ELSE tail
  BY DEF SlotInv
<1>1. CASE PushBegin
  BY <1>1, <1>0, SlotsKept DEF PushBegin, Constructed, Unmoved
<1>2. CASE PushRefresh
  BY <1>2, <1>0, SlotsKept DEF PushRefresh, Constructed, Unmoved
<1>3. CASE Construct
  <2>1. /\ ppc = "construct" /\ ppc' = "publish" /\ slots' = [slots EXCEPT ![At(head)] = head + 1]
        /\ UNCHANGED <<head, tailCache, refused, tail, headCache, cpc, misses, moved>>
    BY <1>3 DEF Construct
  <2>2. Constructed' = Constructed \cup {head} /\ Constructed = Unmoved
    BY <2>1 DEF Constructed, Unmoved
  <2>3. ASSUME NEW k \in Constructed PROVE k \in Nat /\ At(k) # At(head)
    <3>1. k \in Nat /\ k < head /\ head - k < Capacity
      BY <2>1, <2>2, <2>3 DEF Unmoved
    <3> QED
      BY <3>1, AtDiffers
  <2>4. ASSUME NEW k \in Constructed' PROVE slots'[At(k)] = k + 1
    <3>1. CASE k = head
      BY <3>1, <2>1, AtIsCell
    <3>2. CASE k \in Constructed
      BY <3>2, <2>1, <2>3, AtIsCell DEF SlotInv
    <3> QED
      BY <3>1, <3>2, <2>2
  <2>5. ASSUME NEW i \in Cells, \A k \in Constructed' : At(k) # i PROVE slots'[i] = 0
    BY <2>1, <2>2, <2>5 DEF SlotInv
  <2> QED
    BY <2>1, <2>4, <2>5, <1>0 DEF SlotInv, At
<1>4. CASE PushEnd
  BY <1>4, <1>0, SlotsKept DEF PushEnd, Constructed, Unmoved
<1>5. CASE PopBegin
  BY <1>5, <1>0, SlotsKept DEF PopBegin, Constructed, Unmoved
<1>6. CASE PopRefresh
  BY <1>6, <1>0, SlotsKept DEF PopRefresh, Constructed, Unmoved
<1>7. CASE Move
  <2>1. /\ cpc = "move" /\ cpc' = "publish"
        /\ moved' = slots[At(tail)] /\ slots' = [slots EXCEPT ![At(tail)] = 0]
        /\ UNCHANGED <<head, tailCache, ppc, refused, tail, headCache, misses>>
    BY <1>7 DEF Move
  <2>2. tail \in Constructed /\ Constructed' = Constructed \ {tail}
    BY <2>1 DEF Constructed, Unmoved
  <2>3. \A k \in Constructed' : k \in Nat /\ k \in Constructed /\ At(k) # At(tail)
    <3>1. ASSUME NEW k \in Constructed' PROVE k \in Nat /\ k \in Constructed /\ k # tail /\ k - tail < Capacity /\ tail - k < Capacity
      BY <2>1, <2>2 DEF Constructed, Unmoved
    <3> QED
      BY <3>1, AtDiffers
  <2>4. moved' = tail + 1
    BY <2>1, <2>2 DEF SlotInv
  <2>5. ASSUME NEW k \in Constructed' PROVE slots'[At(k)] = k + 1
    BY <2>1, <2>3, AtIsCell DEF SlotInv
  <2>6. ASSUME NEW i \in Cells, \A k \in Constructed' : At(k) # i PROVE slots'[i] = 0
    <3>1. CASE i = At(tail)
      BY <3>1, <2>1
    <3>2. CASE i # At(tail)
      BY <3>2, <2>1, <2>2, <2>6 DEF SlotInv
    <3> QED
      BY <3>1, <3>2
  <2> QED
    BY <2>1, <2>4, <2>5, <2>6 DEF SlotInv, At
<1>8. CASE PopEnd
  BY <1>8, <1>0, SlotsKept DEF PopEnd, Constructed, Unmoved
<1>9. CASE UNCHANGED queueVars
  BY <1>9, <1>0, SlotsKept DEF queueVars, Constructed, Unmoved
<1> QED
  BY <1>1, <1>2, <1>3, <1>4, <1>5, <1>6, <1>7, <1>8, <1>9 DEF QueueNext, ProducerStep, ConsumerStep

\* Whatever copies of the indexes the two sides go by, each item between them is
\* in its slot and every other slot is empty.
THEOREM QueueSafety == QueueSpec => []QueueInv
<1>1. QueueInv /\ [QueueNext]_queueVars => QueueInv'
  BY QueueIndexStep, QueueSlotStep DEF QueueInv
<1> QED
  BY QueueInitInv, <1>1, PTL DEF QueueSpec

\* The abstract queue: the items between the indexes, in their order.
Items(h, t) == [i \in 1 .. h - t |-> t + i]

\* Items is a sequence; an item is added at its end and taken from its front.
LEMMA ItemsSequence ==
  ASSUME NEW h \in Nat, NEW t \in Nat, t <= h
  PROVE  /\ Items(h, t) \in Seq(Nat) /\ Len(Items(h, t)) = h - t
         /\ Items(h + 1, t) = Append(Items(h, t), h + 1)
         /\ (Items(h, t) = <<>>) <=> (h = t)
         /\ t < h => Head(Items(h, t)) = t + 1 /\ Items(h, t + 1) = Tail(Items(h, t))
<1> USE DEF Items
<1>1. Items(h, t) \in Seq(Nat) /\ Len(Items(h, t)) = h - t
  <2>1. h - t \in Nat /\ Items(h, t) \in [1 .. h - t -> Nat]
    OBVIOUS
  <2> QED
    BY <2>1
<1>2. Items(h + 1, t) = Append(Items(h, t), h + 1)
  BY <1>1
<1>3. (Items(h, t) = <<>>) <=> (h = t)
  BY <1>1
<1>4. ASSUME t < h PROVE Head(Items(h, t)) = t + 1 /\ Items(h, t + 1) = Tail(Items(h, t))
  BY <1>1, <1>4
<1> QED
  BY <1>1, <1>2, <1>3, <1>4

LEMMA FifoStep == QueueInv /\ [QueueNext]_queueVars => [Fifo!Next]_(Fifo!vars)
<1> SUFFICES ASSUME QueueInv, [QueueNext]_queueVars PROVE [Fifo!Next]_(Fifo!vars)
  OBVIOUS
<1> USE DEF QueueInv, QueueTypeOK, IndexInv, producer, consumer
<1>0. moved = IF cpc = "publish" THEN tail + 1 ELSE tail
  BY DEF SlotInv
<1>a. head \in Nat /\ tail \in Nat /\ tail <= head
  OBVIOUS
<1>1. /\ Len(Items(head, tail)) = head - tail
      /\ Items(head + 1, tail) = Append(Items(head, tail), head + 1)
      /\ (Items(head, tail) = <<>>) <=> (head = tail)
      /\ tail < head => /\ Head(Items(head, tail)) = tail + 1
                        /\ Items(head, tail + 1) = Tail(Items(head, tail))
  BY <1>a, ItemsSequence
<1>2. CASE PushEnd
  <2>1. head - tail < Capacity
    BY <1>2, <1>a, SpscAssumption DEF PushEnd
  <2>2. Items(head, tail)' = Append(Items(head, tail), head + 1)
    BY <1>2, <1>1 DEF PushEnd
  <2>3. Fifo!Push
    BY <1>2, <1>1, <2>1, <2>2 DEF PushEnd, Fifo!Push, Items
  <2> QED
    BY <2>3 DEF Fifo!Next
<1>3. CASE PushRefresh
  <2>1. CASE head - tail >= Capacity
    <3>1. Len(Items(head, tail)) = Capacity
      BY <1>a, <1>1, <2>1, SpscAssumption
    <3>2. Fifo!Refuse
      BY <1>3, <2>1, <3>1 DEF PushRefresh, Fifo!Refuse, Items
    <3> QED
      BY <3>2 DEF Fifo!Next
  <2>2. CASE ~(head - tail >= Capacity)
    BY <1>3, <2>2 DEF PushRefresh, Fifo!vars
  <2> QED
    BY <2>1, <2>2
<1>4. CASE PopRefresh
  <2>1. CASE head = tail
    <3>1. Fifo!Miss
      BY <1>4, <2>1, <1>1 DEF PopRefresh, Fifo!Miss, Items
    <3> QED
      BY <3>1 DEF Fifo!Next
  <2>2. CASE head # tail
    BY <1>4, <2>2 DEF PopRefresh, Fifo!vars
  <2> QED
    BY <2>1, <2>2
<1>5. CASE PopEnd
  <2>1. tail < head
    BY <1>5, <1>a DEF PopEnd
  <2>2. Items(head, tail)' = Tail(Items(head, tail)) /\ Head(Items(head, tail)) = tail + 1
    BY <1>5, <1>1, <2>1 DEF PopEnd
  <2>3. Items(head, tail) # <<>>
    BY <1>a, <1>1, <2>1
  <2>4. Fifo!Pop
    BY <1>5, <1>0, <2>2, <2>3 DEF PopEnd, Fifo!Pop, Items
  <2> QED
    BY <2>4 DEF Fifo!Next
<1>6. CASE PushBegin \/ Construct
  BY <1>6 DEF PushBegin, Construct, Fifo!vars
<1>7. CASE PopBegin
  BY <1>7, <1>0 DEF PopBegin, Fifo!vars
<1>8. CASE Move
  BY <1>8, <1>0 DEF Move, Fifo!vars
<1>9. CASE UNCHANGED queueVars
  BY <1>9 DEF queueVars, Fifo!vars
<1> QED
  BY <1>2, <1>3, <1>4, <1>5, <1>6, <1>7, <1>8, <1>9 DEF QueueNext, ProducerStep, ConsumerStep

LEMMA FifoInit == QueueInit => Fifo!Init
<1> SUFFICES ASSUME QueueInit PROVE Fifo!Init
  OBVIOUS
<1>1. Items(head, tail) = <<>>
  BY ItemsSequence DEF QueueInit
<1> QED
  BY <1>1 DEF QueueInit, Fifo!Init, Items

\* TryPush and TryPop take effect at one instant each: the ring implements the
\* bounded first-in-first-out queue of BoundedFifo.
THEOREM QueueRefinement == QueueSpec => ImplementsFifo
<1> QED
  BY FifoInit, FifoStep, QueueSafety, PTL DEF QueueSpec, ImplementsFifo, Fifo!Spec

-----------------------------------------------------------------------------
(* CaptureRing                                                             *)

OrderInv == RingTypeOK /\ ClockOrder /\ RingOrder /\ MixerOrder

LEMMA CellType == ASSUME NEW p \in Nat PROVE Cell(p) \in RingCells
  BY Quotient, CaptureRingAssumption DEF Cell, RingCells

LEMMA CellsDiffer ==
  ASSUME NEW p \in Nat, NEW q \in Nat, p # q, p - q < RingCapacity, q - p < RingCapacity
  PROVE  Cell(p) # Cell(q)
<1>1. RingCapacity \in Nat \ {0}
  BY CaptureRingAssumption
<1> QED
  BY <1>1, DifferentCells DEF Cell

\* Every step preserves the types of the variables.
LEMMA RingTypeStep == OrderInv /\ [RingNext]_ringVars => RingTypeOK'
<1> SUFFICES ASSUME OrderInv, [RingNext]_ringVars PROVE RingTypeOK'
  OBVIOUS
<1> USE CaptureRingAssumption DEF OrderInv, RingTypeOK, ClockOrder, RingOrder, MixerOrder, Positions, MaxEnd, Larger, Smaller,
    ring, slot, mixer, audio, history
<1>1. ASSUME NEW k \in 0 .. Iteration, Mix(k) PROVE RingTypeOK'
  BY <1>1 DEF Mix
<1>2. ASSUME NEW t \in 0 .. MaxClock, Schedule(t) PROVE RingTypeOK'
  BY <1>2 DEF Schedule
<1>3. CASE Accumulate
  <2>1. CASE Larger(frontier, cursor) < Smaller(frontier + block, MaxEnd(cursor))
    BY <1>3, <2>1 DEF Accumulate
  <2>2. CASE ~(Larger(frontier, cursor) < Smaller(frontier + block, MaxEnd(cursor)))
    BY <1>3, <2>2 DEF Accumulate
  <2> QED
    BY <2>1, <2>2
<1>4. CASE ClearCell
  <2>1. pos + 1 \in Positions /\ Cell(pos) \in RingCells
    BY <1>4, CellType DEF ClearCell
  <2> QED
    BY <1>4, <2>1 DEF ClearCell
<1>5. CASE EndClear
  BY <1>5 DEF EndClear
<1>6. CASE AddSample
  <2>1. pos \in Positions /\ pos + 1 \in Positions /\ Cell(pos) \in RingCells
    BY <1>6, CellType DEF AddSample
  <2>2. data[Cell(pos)] \cup {pos} \in SUBSET Positions
    BY <2>1
  <2>3. data' \in [RingCells -> SUBSET Positions]
    BY <1>6, <2>1, <2>2 DEF AddSample
  <2> QED
    BY <1>6, <2>1, <2>3 DEF AddSample
<1>7. CASE PublishBlock
  BY <1>7 DEF PublishBlock
<1>8. CASE Flushed
  BY <1>8 DEF Flushed
<1>9. CASE TransferSamples
  BY <1>9 DEF TransferSamples
<1>10. CASE AdvanceFrontier
  BY <1>10 DEF AdvanceFrontier
<1>11. CASE PublishGap
  BY <1>11 DEF PublishGap
<1>12. CASE Advanced
  BY <1>12 DEF Advanced
<1>13. CASE RenderSlot
  BY <1>13 DEF RenderSlot
<1>14. CASE ReadAt
  BY <1>14 DEF ReadAt
<1>15. CASE LoadWritten
  BY <1>15 DEF LoadWritten
<1>16. CASE CopySample
  BY <1>16 DEF CopySample
<1>17. CASE EndRead
  BY <1>17 DEF EndRead
<1>18. CASE EndFrame
  BY <1>18 DEF EndFrame
<1>19. CASE UNCHANGED ringVars
  BY <1>19 DEF ringVars
<1> QED
  BY <1>1, <1>2, <1>3, <1>4, <1>5, <1>6, <1>7, <1>8, <1>9, <1>10, <1>11, <1>12, <1>13, <1>14, <1>15, <1>16, <1>17, <1>18, <1>19 DEF RingNext, Mixer, Audio

\* The read cursor follows the render clock, which stays behind the frontier.
LEMMA ClockOrderStep == OrderInv /\ [RingNext]_ringVars => ClockOrder'
<1> SUFFICES ASSUME OrderInv, [RingNext]_ringVars PROVE ClockOrder'
  OBVIOUS
<1> USE CaptureRingAssumption DEF OrderInv, RingTypeOK, ClockOrder, RingOrder, MixerOrder, Positions, MaxEnd, Larger, Smaller,
    ring, slot, mixer, audio, history
<1>1. ASSUME NEW k \in 0 .. Iteration, Mix(k) PROVE ClockOrder'
  BY <1>1 DEF Mix
<1>2. ASSUME NEW t \in 0 .. MaxClock, Schedule(t) PROVE ClockOrder'
  BY <1>2 DEF Schedule
<1>3. CASE Accumulate
  BY <1>3 DEF Accumulate
<1>4. CASE ClearCell
  BY <1>4 DEF ClearCell
<1>5. CASE EndClear
  BY <1>5 DEF EndClear
<1>6. CASE AddSample
  BY <1>6 DEF AddSample
<1>7. CASE PublishBlock
  BY <1>7 DEF PublishBlock
<1>8. CASE Flushed
  BY <1>8 DEF Flushed
<1>9. CASE TransferSamples
  BY <1>9 DEF TransferSamples
<1>10. CASE AdvanceFrontier
  BY <1>10 DEF AdvanceFrontier
<1>11. CASE PublishGap
  BY <1>11 DEF PublishGap
<1>12. CASE Advanced
  BY <1>12 DEF Advanced
<1>13. CASE RenderSlot
  BY <1>13 DEF RenderSlot
<1>14. CASE ReadAt
  BY <1>14 DEF ReadAt
<1>15. CASE LoadWritten
  BY <1>15 DEF LoadWritten
<1>16. CASE CopySample
  BY <1>16 DEF CopySample
<1>17. CASE EndRead
  BY <1>17 DEF EndRead
<1>18. CASE EndFrame
  <2>1. /\ clock' = clock + Frame /\ apc' = "idle" /\ apc = "end"
        /\ cursor' = cursor /\ frontier' = frontier
    BY <1>18 DEF EndFrame
  <2>2. anchored'
    BY <1>18 DEF EndFrame
  <2>3. cursor <= clock + Frame /\ clock + Frame <= frontier /\ cursor \in Nat
    BY <2>1
  <2> QED
    BY <2>1, <2>2, <2>3
<1>19. CASE UNCHANGED ringVars
  BY <1>19 DEF ringVars
<1> QED
  BY <1>1, <1>2, <1>3, <1>4, <1>5, <1>6, <1>7, <1>8, <1>9, <1>10, <1>11, <1>12, <1>13, <1>14, <1>15, <1>16, <1>17, <1>18, <1>19 DEF RingNext, Mixer, Audio

\* Nothing counts as written that was neither cleared nor skipped.
LEMMA RingOrderStep == OrderInv /\ [RingNext]_ringVars => RingOrder'
<1> SUFFICES ASSUME OrderInv, [RingNext]_ringVars PROVE RingOrder'
  OBVIOUS
<1> USE CaptureRingAssumption DEF OrderInv, RingTypeOK, ClockOrder, RingOrder, MixerOrder, Positions, MaxEnd, Larger, Smaller,
    ring, slot, mixer, audio, history
<1>1. ASSUME NEW k \in 0 .. Iteration, Mix(k) PROVE RingOrder'
  BY <1>1 DEF Mix
<1>2. ASSUME NEW t \in 0 .. MaxClock, Schedule(t) PROVE RingOrder'
  BY <1>2 DEF Schedule
<1>3. CASE Accumulate
  BY <1>3 DEF Accumulate
<1>4. CASE ClearCell
  <2>1. /\ cleared' = pos + 1 /\ pos < end /\ cleared <= pos /\ written <= pos
        /\ end <= MaxEnd(rc) /\ rc <= cursor /\ UNCHANGED <<written, cursor, accepted>>
    BY <1>4 DEF ClearCell
  <2> QED
    BY <2>1
<1>5. CASE EndClear
  BY <1>5 DEF EndClear
<1>6. CASE AddSample
  BY <1>6 DEF AddSample
<1>7. CASE PublishBlock
  BY <1>7 DEF PublishBlock
<1>8. CASE Flushed
  BY <1>8 DEF Flushed
<1>9. CASE TransferSamples
  BY <1>9 DEF TransferSamples
<1>10. CASE AdvanceFrontier
  BY <1>10 DEF AdvanceFrontier
<1>11. CASE PublishGap
  BY <1>11 DEF PublishGap
<1>12. CASE Advanced
  BY <1>12 DEF Advanced
<1>13. CASE RenderSlot
  BY <1>13 DEF RenderSlot
<1>14. CASE ReadAt
  BY <1>14 DEF ReadAt
<1>15. CASE LoadWritten
  BY <1>15 DEF LoadWritten
<1>16. CASE CopySample
  BY <1>16 DEF CopySample
<1>17. CASE EndRead
  BY <1>17 DEF EndRead
<1>18. CASE EndFrame
  BY <1>18 DEF EndFrame
<1>19. CASE UNCHANGED ringVars
  BY <1>19 DEF ringVars
<1> QED
  BY <1>1, <1>2, <1>3, <1>4, <1>5, <1>6, <1>7, <1>8, <1>9, <1>10, <1>11, <1>12, <1>13, <1>14, <1>15, <1>16, <1>17, <1>18, <1>19 DEF RingNext, Mixer, Audio

\* The mixer's locals fit the cursor it looked at, however far it has moved since.
LEMMA MixerOrderStep == OrderInv /\ [RingNext]_ringVars => MixerOrder'
<1> SUFFICES ASSUME OrderInv, [RingNext]_ringVars PROVE MixerOrder'
  OBVIOUS
<1> USE CaptureRingAssumption DEF OrderInv, RingTypeOK, ClockOrder, RingOrder, MixerOrder, Positions, MaxEnd, Larger, Smaller,
    ring, slot, mixer, audio, history
<1>1. ASSUME NEW k \in 0 .. Iteration, Mix(k) PROVE MixerOrder'
  BY <1>1 DEF Mix
<1>2. ASSUME NEW t \in 0 .. MaxClock, Schedule(t) PROVE MixerOrder'
  BY <1>2 DEF Schedule
<1>3. CASE Accumulate
  BY <1>3 DEF Accumulate
<1>4. CASE ClearCell
  BY <1>4 DEF ClearCell
<1>5. CASE EndClear
  BY <1>5 DEF EndClear
<1>6. CASE AddSample
  BY <1>6 DEF AddSample
<1>7. CASE PublishBlock
  BY <1>7 DEF PublishBlock
<1>8. CASE Flushed
  BY <1>8 DEF Flushed
<1>9. CASE TransferSamples
  BY <1>9 DEF TransferSamples
<1>10. CASE AdvanceFrontier
  BY <1>10 DEF AdvanceFrontier
<1>11. CASE PublishGap
  BY <1>11 DEF PublishGap
<1>12. CASE Advanced
  BY <1>12 DEF Advanced
<1>13. CASE RenderSlot
  BY <1>13 DEF RenderSlot
<1>14. CASE ReadAt
  BY <1>14 DEF ReadAt
<1>15. CASE LoadWritten
  BY <1>15 DEF LoadWritten
<1>16. CASE CopySample
  BY <1>16 DEF CopySample
<1>17. CASE EndRead
  BY <1>17 DEF EndRead
<1>18. CASE EndFrame
  BY <1>18 DEF EndFrame
<1>19. CASE UNCHANGED ringVars
  BY <1>19 DEF ringVars
<1> QED
  BY <1>1, <1>2, <1>3, <1>4, <1>5, <1>6, <1>7, <1>8, <1>9, <1>10, <1>11, <1>12, <1>13, <1>14, <1>15, <1>16, <1>17, <1>18, <1>19 DEF RingNext, Mixer, Audio

\* A step that touches neither the cells nor the frame being read.
LEMMA ExactKept ==
  ASSUME ExactInv, UNCHANGED <<data, cleared, accepted, cursor, clock, settled>>,
         apc' \in {"limit", "copy"} => apc \in {"limit", "copy"}
  PROVE  ExactInv'
BY DEF ExactInv

LEMMA ClearExact == ASSUME OrderInv, ExactInv, ClearCell PROVE ExactInv'
<1> USE CaptureRingAssumption DEF OrderInv, RingTypeOK, Positions
<1>1. /\ data' = [data EXCEPT ![Cell(pos)] = {}] /\ cleared' = pos + 1
      /\ UNCHANGED <<accepted, cursor, clock, apc, settled>>
  BY DEF ClearCell, slot, audio, history
<1>2. /\ pos \in Nat /\ cleared \in Nat /\ cursor \in Nat /\ clock \in Nat /\ rc \in Nat
      /\ cleared <= pos /\ (pos = cleared \/ pos = rc) /\ rc <= cursor
      /\ pos < rc + RingCapacity - Guard
  BY DEF ClearCell, MixerOrder, MaxEnd
<1>3. ASSUME NEW p \in Positions, cursor <= p, p < pos + 1
      PROVE  data'[Cell(p)] = accepted \cap {p}
  <2>1. CASE p = pos
    <3>1. data'[Cell(p)] = {}
      BY <1>1, <1>2, <2>1, CellType
    <3>2. p \notin accepted
      BY <1>2, <2>1 DEF RingOrder
    <3> QED
      BY <3>1, <3>2
  <2>2. CASE p # pos
    <3>1. p < cleared
      BY <1>2, <1>3, <2>2
    <3>2. Cell(p) # Cell(pos)
      BY <1>2, <1>3, <2>2, <3>1, CellsDiffer
    <3> QED
      BY <1>1, <1>3, <3>1, <3>2, CellType DEF ExactInv
  <2> QED
    BY <2>1, <2>2
<1>4. ASSUME apc \in {"limit", "copy"}, settled, NEW p \in clock .. clock + Frame - 1
      PROVE  data'[Cell(p)] = accepted \cap {p}
  <2>1. p \in Nat /\ p < cleared /\ clock + Frame <= cleared
    BY <1>2, <1>4 DEF ExactInv
  <2>2. cursor = clock + Frame
    BY <1>4 DEF ClockOrder
  <2>3. Cell(p) # Cell(pos)
    BY <1>2, <2>1, <2>2, CellsDiffer
  <2> QED
    BY <1>1, <1>4, <2>1, <2>3, CellType DEF ExactInv
<1>5. apc \in {"limit", "copy"} /\ settled => clock + Frame <= pos + 1
  BY <1>2 DEF ExactInv
<1> QED
  BY <1>1, <1>3, <1>4, <1>5 DEF ExactInv, Cell

LEMMA AddExact == ASSUME OrderInv, ExactInv, AddSample PROVE ExactInv'
<1> USE CaptureRingAssumption DEF OrderInv, RingTypeOK, Positions
<1>1. /\ data' = [data EXCEPT ![Cell(pos)] = @ \cup {pos}] /\ accepted' = accepted \cup {pos}
      /\ UNCHANGED <<cleared, cursor, clock, apc, settled>>
  BY DEF AddSample, slot, audio
<1>2. /\ pos \in Positions /\ cleared \in Nat /\ cursor \in Nat /\ clock \in Nat
      /\ frontier <= pos /\ pos < cleared /\ cursor <= pos /\ cleared <= cursor + RingCapacity - Guard
  BY DEF AddSample, MixerOrder, ClockOrder, RingOrder, MaxEnd
<1>3. ASSUME NEW p \in Positions, cursor <= p, p < cleared
      PROVE  data'[Cell(p)] = accepted' \cap {p}
  <2>1. data[Cell(p)] = accepted \cap {p}
    BY <1>3 DEF ExactInv
  <2>2. CASE p = pos
    BY <1>1, <2>1, <2>2, CellType
  <2>3. CASE p # pos
    <3>1. Cell(p) # Cell(pos)
      BY <1>2, <1>3, <2>3, CellsDiffer
    <3> QED
      BY <1>1, <2>1, <2>3, <3>1, CellType
  <2> QED
    BY <2>2, <2>3
<1>4. ASSUME apc \in {"limit", "copy"}, settled, NEW p \in clock .. clock + Frame - 1
      PROVE  data'[Cell(p)] = accepted' \cap {p}
  <2>1. p \in Nat /\ p < cleared /\ clock + Frame <= cleared /\ data[Cell(p)] = accepted \cap {p}
    BY <1>2, <1>4 DEF ExactInv
  <2>2. cursor = clock + Frame /\ p < pos
    BY <1>2, <1>4 DEF ClockOrder
  <2>3. Cell(p) # Cell(pos)
    BY <1>2, <2>1, <2>2, CellsDiffer
  <2> QED
    BY <1>1, <2>1, <2>2, <2>3, CellType
<1> QED
  BY <1>1, <1>3, <1>4 DEF ExactInv, Cell

\* A frame that is written in full when it is read lies between the old cursor
\* and what was cleared.
LEMMA ReadExact == ASSUME OrderInv, ExactInv, ReadAt PROVE ExactInv'
<1> USE CaptureRingAssumption DEF OrderInv, RingTypeOK, Positions
<1>1. /\ cursor' = clock + Frame /\ settled' = (written >= clock + Frame)
      /\ UNCHANGED <<data, cleared, accepted, clock>>
  BY DEF ReadAt, slot, mixer
<1>2. /\ cursor <= clock /\ clock + Frame <= frontier
      /\ {clock, cursor, written, cleared, frontier} \subseteq Nat
  BY DEF ReadAt, ClockOrder
<1>3. ASSUME written >= clock + Frame
      PROVE  clock + Frame <= cleared /\ \A p \in clock .. clock + Frame - 1 : data[Cell(p)] = accepted \cap {p}
  <2>1. clock + Frame <= cleared
    BY <1>2, <1>3 DEF RingOrder
  <2>2. ASSUME NEW p \in clock .. clock + Frame - 1 PROVE p \in Positions /\ cursor <= p /\ p < cleared
    BY <1>2, <2>1
  <2> QED
    BY <2>1, <2>2 DEF ExactInv
<1>4. \A p \in Positions : cursor' <= p => cursor <= p
  BY <1>1, <1>2
<1> QED
  BY <1>1, <1>3, <1>4 DEF ExactInv, Cell

\* Cells hold exactly what the ring took, from the cursor on.
LEMMA ExactStep == OrderInv /\ ExactInv /\ [RingNext]_ringVars => ExactInv'
<1> SUFFICES ASSUME OrderInv, ExactInv, [RingNext]_ringVars PROVE ExactInv'
  OBVIOUS
<1> USE DEF ring, slot, mixer, audio, history
<1>1. CASE ClearCell
  BY <1>1, ClearExact
<1>2. CASE AddSample
  BY <1>2, AddExact
<1>3. CASE ReadAt
  BY <1>3, ReadExact
<1>4. ASSUME NEW k \in 0 .. Iteration, Mix(k) PROVE ExactInv'
  BY <1>4, ExactKept DEF Mix
<1>5. CASE Accumulate \/ AdvanceFrontier \/ EndClear \/ Flushed
  BY <1>5, ExactKept DEF Accumulate, AdvanceFrontier, EndClear, Flushed
<1>6. CASE PublishBlock \/ TransferSamples \/ PublishGap \/ Advanced
  BY <1>6, ExactKept DEF PublishBlock, TransferSamples, PublishGap, Advanced
<1>7. ASSUME NEW t \in 0 .. MaxClock, Schedule(t) PROVE ExactInv'
  BY <1>7 DEF Schedule, ExactInv, Cell
<1>8. CASE RenderSlot \/ LoadWritten \/ CopySample \/ EndRead
  BY <1>8, ExactKept DEF RenderSlot, LoadWritten, CopySample, EndRead
<1>9. CASE EndFrame
  BY <1>9 DEF EndFrame, ExactInv, Cell
<1>10. CASE UNCHANGED ringVars
  BY <1>10, ExactKept DEF ringVars
<1> QED
  BY <1>1, <1>2, <1>3, <1>4, <1>5, <1>6, <1>7, <1>8, <1>9, <1>10 DEF RingNext, Mixer, Audio

\* What the order of positions and the guard exclude: a sample under the
\* consumer's hands is at least one position, and less than a ring, behind what
\* the producer touches.
LEMMA RingConsequences == OrderInv /\ ExactInv => NoSampleRace /\ NoLateWrite /\ SettledReadsAreExact
<1> SUFFICES ASSUME OrderInv, ExactInv PROVE NoSampleRace /\ NoLateWrite /\ SettledReadsAreExact
  OBVIOUS
<1> USE CaptureRingAssumption DEF OrderInv, RingTypeOK, Positions
<1>1. ASSUME Copying, Touching PROVE Cell(cellIndex) # Cell(pos)
  <2>1. /\ {cellIndex, pos, clock, rc, cursor, frontier, begin, written} \subseteq Nat
        /\ clock <= cellIndex /\ cellIndex < written /\ cursor = clock + Frame /\ cellIndex < cursor /\ cursor <= frontier
    BY <1>1 DEF Copying, ClockOrder
  <2>2. cellIndex < pos
    BY <1>1, <2>1 DEF Touching, MixerOrder
  <2>3. pos < rc + RingCapacity - Guard /\ rc <= cursor
    BY <1>1, <2>1 DEF Touching, MixerOrder, MaxEnd
  <2> QED
    BY <2>1, <2>2, <2>3, CellsDiffer
<1>2. NoLateWrite
  BY DEF NoLateWrite, MixerOrder, ClockOrder
<1>3. ASSUME Copying, settled PROVE data[Cell(cellIndex)] = accepted \cap {cellIndex}
  <2>1. cellIndex \in clock .. clock + Frame - 1
    BY <1>3 DEF Copying, ClockOrder
  <2> QED
    BY <1>3, <2>1 DEF Copying, ExactInv
<1> QED
  BY <1>1, <1>2, <1>3 DEF NoSampleRace, SettledReadsAreExact

LEMMA RingInitInv == RingInit => RingInv
<1> SUFFICES ASSUME RingInit PROVE RingInv
  OBVIOUS
<1> USE CaptureRingAssumption DEF RingInit, Positions
<1>1. RingTypeOK
  <2>1. data \in [RingCells -> SUBSET Positions]
    OBVIOUS
  <2>2. {cleared, written, cursor, frontier, rc, begin, end, pos, clock, limit, cellIndex} \subseteq Positions
    OBVIOUS
  <2>3. {bound, everMixed, late, anchored, active, settled} \subseteq BOOLEAN
    BY Zenon
  <2>4. block \in 0 .. Iteration /\ accepted \subseteq Positions
    OBVIOUS
  <2> QED
    BY <2>1, <2>2, <2>3, <2>4 DEF RingTypeOK
<1>2. ClockOrder /\ RingOrder /\ MixerOrder /\ ExactInv
  BY DEF ClockOrder, RingOrder, MixerOrder, MaxEnd, ExactInv
<1> QED
  BY <1>1, <1>2, RingConsequences DEF RingInv, OrderInv

LEMMA RingInvStep == RingInv /\ [RingNext]_ringVars => RingInv'
<1> SUFFICES ASSUME RingInv, [RingNext]_ringVars PROVE RingInv'
  OBVIOUS
<1>1. OrderInv' /\ ExactInv'
  BY RingTypeStep, ClockOrderStep, RingOrderStep, MixerOrderStep, ExactStep DEF RingInv, OrderInv
<1>2. NoSampleRace' /\ NoLateWrite'
  BY <1>1, RingConsequences, PTL
<1> QED
  BY <1>1, <1>2 DEF RingInv, OrderInv

\* For every length of ring, guard, frame and iteration: no sample is cleared or
\* added while it is copied, and nothing is written below the cursor.
THEOREM RingSafety == RingSpec => []RingInv
BY RingInitInv, RingInvStep, PTL DEF RingSpec

\* A frame the mixer had committed before the cursor moved is read exactly.
THEOREM SettledReads == RingSpec => []SettledReadsAreExact
<1>1. RingInv => SettledReadsAreExact
  BY RingConsequences DEF RingInv, OrderInv
<1> QED
  BY <1>1, RingSafety, PTL

\* A block is taken whole as long as the engine paints less than a ring, less the
\* guard, ahead of the clock of a slot that is read.
THEOREM BlocksAreKept == RingSpec => ActiveSlotKeepsBlock
<1>1. RingInv /\ [RingNext]_ringVars =>
        [Accumulate /\ cursor >= clock /\ frontier + block <= clock + RingCapacity - Guard
           => begin' = frontier /\ end' = frontier + block]_ringVars
  <2> SUFFICES ASSUME RingInv, Accumulate, cursor >= clock, frontier + block <= clock + RingCapacity - Guard
               PROVE  begin' = frontier /\ end' = frontier + block
    OBVIOUS
  <2> USE CaptureRingAssumption DEF RingInv, RingTypeOK, Positions
  <2>1. Larger(frontier, cursor) = frontier /\ Smaller(frontier + block, MaxEnd(cursor)) = frontier + block
    BY DEF ClockOrder, Larger, Smaller, MaxEnd
  <2>2. block > 0
    BY DEF Accumulate, MixerOrder
  <2> QED
    BY <2>1, <2>2 DEF Accumulate
<1> QED
  BY <1>1, RingSafety, PTL DEF RingSpec, ActiveSlotKeepsBlock

-----------------------------------------------------------------------------
(* The sequence lock                                                         *)

\* The writer's candidate is a slot, and never the one it started from.
LEMMA TargetLemma ==
  ASSUME NEW c \in Slots, NEW k \in 1 .. NumSlots
  PROVE  /\ (c + k) % NumSlots \in Slots
         /\ k < NumSlots => (c + k) % NumSlots # c
  BY SeqLockAssumption DEF Slots

\* The readers inside a slot are finitely many, so their number is a natural.
LEMMA HoldersFinite ==
  ASSUME NEW s
  PROVE  IsFiniteSet(Holders(s)) /\ Cardinality(Holders(s)) \in Nat
  <1>1. Holders(s) \in SUBSET Readers
    BY DEF Holders
  <1>2. QED
    BY <1>1, FS_Subset, FS_CardinalityType, SeqLockAssumption

\* Every step preserves the types of the variables.
LEMMA TypeStep == TypeOK /\ [Next]_vars => TypeOK'
  <1> SUFFICES ASSUME TypeOK, [Next]_vars PROVE TypeOK'
    OBVIOUS
  <1> USE SeqLockAssumption DEF TypeOK
  <1>0. Target \in Slots
    BY TargetLemma DEF Target
  <1>1. CASE StoreBegin
    BY <1>1 DEF StoreBegin, shared, reader
  <1>2. CASE Claim
    <2>1. CASE count[Target] = 0 /\ ~writing[Target]
      BY <1>2, <1>0, <2>1 DEF Claim, reader
    <2>2. CASE ~(count[Target] = 0 /\ ~writing[Target])
      BY <1>2, <2>2 DEF Claim, reader
    <2>3. QED
      BY <2>1, <2>2
  <1>3. CASE Yield
    BY <1>3 DEF Yield, shared, reader
  <1>4. ASSUME NEW w \in Words, CopyIn(w) PROVE TypeOK'
    BY <1>4, <1>0 DEF CopyIn, reader
  <1>5. CASE Unlock
    BY <1>5, <1>0 DEF Unlock, reader
  <1>6. CASE Publish
    BY <1>6, <1>0 DEF Publish, reader
  <1>7. ASSUME NEW r \in Readers, LoadBegin(r) PROVE TypeOK'
    <2>1. Completed \in Int
      BY DEF Completed
    <2>2. QED
      BY <1>7, <2>1 DEF LoadBegin, shared, writer
  <1>8. ASSUME NEW r \in Readers, Enter(r) PROVE TypeOK'
    BY <1>8 DEF Enter, writer
  <1>9. ASSUME NEW r \in Readers, NEW w \in Words, CopyOut(r, w) PROVE TypeOK'
    BY <1>9 DEF CopyOut, shared, writer
  <1>10. ASSUME NEW r \in Readers, LoadEnd(r) PROVE TypeOK'
    BY <1>10 DEF LoadEnd, writer
  <1>11. ASSUME NEW r \in Readers, Leave(r) PROVE TypeOK'
    BY <1>11 DEF Leave, writer
  <1>12. ASSUME NEW r \in Readers, Retry(r) PROVE TypeOK'
    BY <1>12 DEF Retry, shared, writer
  <1>13. CASE UNCHANGED vars
    BY <1>13 DEF vars, shared, writer, reader
  <1>14. QED
    BY <1>1, <1>2, <1>3, <1>4, <1>5, <1>6, <1>7, <1>8, <1>9, <1>10, <1>11, <1>12, <1>13
       DEF Next, StoreStep, LoadStep

-----------------------------------------------------------------------------
\* A step that moves no reader in or out of a slot keeps the counts balanced.
LEMMA HoldersSame ==
  ASSUME CountsBalance, UNCHANGED <<count, index>>,
         \A r \in Readers : rpc[r] \in {"copy", "leave"} <=> rpc'[r] \in {"copy", "leave"}
  PROVE  CountsBalance'
  <1>1. ASSUME NEW s \in Slots PROVE Holders(s) = Holders(s)'
    BY DEF Holders
  <1>2. QED
    BY <1>1 DEF CountsBalance

\* A free slot, whose count is zero, has no reader copying out of it.
LEMMA FreeSlot ==
  ASSUME CountsBalance, NEW s \in Slots, count[s] = 0, NEW r \in Readers,
         rpc[r] \in {"copy", "leave"}
  PROVE  index[r] # s
  <1>1. Holders(s) = {}
    BY HoldersFinite, FS_EmptySet DEF CountsBalance
  <1>2. QED
    BY <1>1 DEF Holders

\* Reader r entering (or leaving) slot s changes the count of s by one.
LEMMA HoldersEnter ==
  ASSUME TypeOK, CountsBalance, NEW r \in Readers, rpc[r] \notin {"copy", "leave"},
         count' = [count EXCEPT ![index[r]] = @ + 1], index' = index,
         NEW l \in {"copy", "leave"}, rpc' = [rpc EXCEPT ![r] = l]
  PROVE  CountsBalance'
  <1> USE DEF TypeOK
  <1>1. Holders(index[r])' = Holders(index[r]) \cup {r} /\ r \notin Holders(index[r])
    BY DEF Holders
  <1>2. Cardinality(Holders(index[r])') = Cardinality(Holders(index[r])) + 1
    BY <1>1, HoldersFinite, FS_AddElement
  <1>3. ASSUME NEW s \in Slots, s # index[r] PROVE Holders(s)' = Holders(s)
    BY <1>3 DEF Holders
  <1>4. QED
    BY <1>2, <1>3 DEF CountsBalance

LEMMA HoldersLeave ==
  ASSUME TypeOK, CountsBalance, NEW r \in Readers, rpc[r] \in {"copy", "leave"},
         count' = [count EXCEPT ![index[r]] = @ - 1], index' = index,
         NEW l \in {"idle", "retry"}, rpc' = [rpc EXCEPT ![r] = l]
  PROVE  CountsBalance'
  <1> USE DEF TypeOK
  <1>1. Holders(index[r])' = Holders(index[r]) \ {r} /\ r \in Holders(index[r])
    BY DEF Holders
  <1>2. Cardinality(Holders(index[r])') = Cardinality(Holders(index[r])) - 1
    <2>1. IsFiniteSet(Holders(index[r]))
      BY HoldersFinite
    <2>2. Cardinality(Holders(index[r]) \ {r}) = Cardinality(Holders(index[r])) - 1
      BY <1>1, <2>1, FS_RemoveElement
    <2>3. QED
      BY <1>1, <2>2
  <1>3. ASSUME NEW s \in Slots, s # index[r] PROVE Holders(s)' = Holders(s)
    BY <1>3 DEF Holders
  <1>4. QED
    BY <1>2, <1>3 DEF CountsBalance

-----------------------------------------------------------------------------
LEMMA InitIInv == Init => IInv
  <1> SUFFICES ASSUME Init PROVE IInv
    OBVIOUS
  <1> USE SeqLockAssumption DEF Init
  <1>1. TypeOK /\ WriterInv /\ NoDataRace
    BY DEF TypeOK, WriterInv, NoDataRace, Slots
  <1>2. CountsBalance
    <2>1. ASSUME NEW s PROVE Holders(s) = {}
      BY DEF Holders
    <2>2. QED
      BY <2>1, FS_EmptySet DEF CountsBalance
  <1>3. ValueInv /\ ReaderInv
    BY DEF ValueInv, ReaderInv, Completed, Slots
  <1>4. QED
    BY <1>1, <1>2, <1>3 DEF IInv

\* The invariant is inductive: one step per action of the lock.
LEMMA StepIInv == IInv /\ [Next]_vars => IInv'
  <1> SUFFICES ASSUME IInv, [Next]_vars PROVE IInv'
    OBVIOUS
  <1> USE SeqLockAssumption
  <1>a. TypeOK /\ TypeOK'
    BY TypeStep DEF IInv
  <1>b. CountsBalance /\ NoDataRace /\ WriterInv /\ ValueInv /\ ReaderInv
    BY DEF IInv
  <1>c. Target \in Slots /\ (n < NumSlots => Target # current)
    BY <1>a, TargetLemma DEF Target, TypeOK
  <1>1. CASE StoreBegin
    <2> USE <1>1 DEF StoreBegin, shared, reader
    <2>1. CountsBalance'
      BY <1>a, <1>b, HoldersSame DEF TypeOK
    <2>2. NoDataRace' /\ WriterInv'
      BY <1>a, <1>b DEF NoDataRace, WriterInv, TypeOK
    <2>3. ValueInv' /\ ReaderInv'
      BY <1>a, <1>b DEF ValueInv, ReaderInv, TypeOK, Completed
    <2>4. QED
      BY <1>a, <2>1, <2>2, <2>3 DEF IInv
  <1>2. CASE Claim
    <2> USE <1>2 DEF Claim, reader
    <2>1. CountsBalance'
      BY <1>a, <1>b, HoldersSame DEF TypeOK
    <2>2. CASE count[Target] = 0 /\ ~writing[Target]
      <3>1. NoDataRace'
        <4>1. ASSUME NEW r \in Readers, rpc[r] = "copy" PROVE index[r] # Target
          BY <1>b, <1>c, <2>2, <4>1, FreeSlot
        <4>2. QED
          BY <1>a, <1>b, <1>c, <2>2, <4>1 DEF NoDataRace, TypeOK
      <3>2. WriterInv'
        BY <1>a, <1>b, <1>c, <2>2 DEF WriterInv, TypeOK, Target
      <3>3. ValueInv'
        <4>1. \A s \in Slots : ~writing'[s] => ~writing[s]
          BY <1>a, <1>c, <2>2 DEF TypeOK
        <4>2. QED
          BY <1>a, <1>b, <2>2, <4>1 DEF ValueInv, TypeOK, Completed
      <3>4. ReaderInv'
        BY <1>a, <1>b, <2>2 DEF ReaderInv, TypeOK, Completed
      <3>5. QED
        BY <1>a, <2>1, <3>1, <3>2, <3>3, <3>4 DEF IInv
    <2>3. CASE ~(count[Target] = 0 /\ ~writing[Target])
      <3>1. NoDataRace' /\ WriterInv'
        BY <1>a, <1>b, <2>3 DEF NoDataRace, WriterInv, TypeOK
      <3>2. ValueInv' /\ ReaderInv'
        BY <1>a, <1>b, <2>3 DEF ValueInv, ReaderInv, TypeOK, Completed
      <3>3. QED
        BY <1>a, <2>1, <3>1, <3>2 DEF IInv
    <2>4. QED
      BY <2>2, <2>3
  <1>3. CASE Yield
    <2> USE <1>3 DEF Yield, shared, reader
    <2>1. CountsBalance'
      BY <1>a, <1>b, HoldersSame DEF TypeOK
    <2>2. NoDataRace' /\ WriterInv' /\ ValueInv' /\ ReaderInv'
      BY <1>a, <1>b DEF NoDataRace, WriterInv, ValueInv, ReaderInv, TypeOK, Completed
    <2>3. QED
      BY <1>a, <2>1, <2>2 DEF IInv
  <1>4. ASSUME NEW w \in Words, CopyIn(w) PROVE IInv'
    <2> USE <1>4 DEF CopyIn, reader
    <2>1. CountsBalance'
      BY <1>a, <1>b, HoldersSame DEF TypeOK
    <2>2. NoDataRace' /\ WriterInv'
      BY <1>a, <1>b DEF NoDataRace, WriterInv, TypeOK, Target
    <2>3. ValueInv'
      BY <1>a, <1>b, <1>c DEF ValueInv, WriterInv, TypeOK, Completed, Target
    <2>4. ReaderInv'
      BY <1>a, <1>b, <1>c DEF ReaderInv, NoDataRace, WriterInv, TypeOK, Completed
    <2>5. QED
      BY <1>a, <2>1, <2>2, <2>3, <2>4 DEF IInv
  <1>5. CASE Unlock
    <2> USE <1>5 DEF Unlock, reader
    <2>1. CountsBalance'
      BY <1>a, <1>b, HoldersSame DEF TypeOK
    <2>2. NoDataRace' /\ WriterInv'
      BY <1>a, <1>b, <1>c DEF NoDataRace, WriterInv, TypeOK, Target
    <2>3. ValueInv' /\ ReaderInv'
      BY <1>a, <1>b, <1>c DEF ValueInv, ReaderInv, WriterInv, TypeOK, Completed, Target
    <2>4. QED
      BY <1>a, <2>1, <2>2, <2>3 DEF IInv
  <1>6. CASE Publish
    <2> USE <1>6 DEF Publish, reader
    <2>1. CountsBalance'
      BY <1>a, <1>b, HoldersSame DEF TypeOK
    <2>2. NoDataRace' /\ WriterInv'
      BY <1>a, <1>b, <1>c DEF NoDataRace, WriterInv, TypeOK, Target
    <2>3. ValueInv' /\ ReaderInv'
      BY <1>a, <1>b, <1>c DEF ValueInv, ReaderInv, WriterInv, TypeOK, Completed, Target
    <2>4. QED
      BY <1>a, <2>1, <2>2, <2>3 DEF IInv
  <1>7. ASSUME NEW r \in Readers, LoadBegin(r) PROVE IInv'
    <2> USE <1>7 DEF LoadBegin, shared, writer
    <2>1. CountsBalance'
      <3>1. ASSUME NEW s \in Slots PROVE Holders(s) = Holders(s)'
        BY <1>a DEF Holders, TypeOK
      <3>2. QED
        BY <1>b, <3>1 DEF CountsBalance
    <2>2. NoDataRace' /\ WriterInv' /\ ValueInv'
      BY <1>a, <1>b DEF NoDataRace, WriterInv, ValueInv, TypeOK, Completed, Target
    <2>3. ReaderInv'
      BY <1>a, <1>b DEF ReaderInv, ValueInv, TypeOK, Completed
    <2>4. QED
      BY <1>a, <2>1, <2>2, <2>3 DEF IInv
  <1>8. ASSUME NEW r \in Readers, Enter(r) PROVE IInv'
    <2> USE <1>8 DEF Enter, writer
    <2>1. CountsBalance'
      BY <1>a, <1>b, HoldersEnter
    <2>2. NoDataRace' /\ WriterInv' /\ ValueInv'
      BY <1>a, <1>b DEF NoDataRace, WriterInv, ValueInv, TypeOK, Completed, Target
    <2>3. ReaderInv'
      BY <1>a, <1>b DEF ReaderInv, TypeOK, Completed
    <2>4. QED
      BY <1>a, <2>1, <2>2, <2>3 DEF IInv
  <1>9. ASSUME NEW r \in Readers, NEW w \in Words, CopyOut(r, w) PROVE IInv'
    <2> USE <1>9 DEF CopyOut, shared, writer
    <2>1. CountsBalance'
      BY <1>a, <1>b, HoldersSame DEF TypeOK
    <2>2. NoDataRace' /\ WriterInv' /\ ValueInv'
      BY <1>a, <1>b DEF NoDataRace, WriterInv, ValueInv, TypeOK, Completed, Target
    <2>3. ReaderInv'
      BY <1>a, <1>b DEF ReaderInv, TypeOK, Completed
    <2>4. QED
      BY <1>a, <2>1, <2>2, <2>3 DEF IInv
  <1>10. ASSUME NEW r \in Readers, LoadEnd(r) PROVE IInv'
    <2> USE <1>10 DEF LoadEnd, writer
    <2>1. CountsBalance'
      BY <1>a, <1>b, HoldersLeave
    <2>2. NoDataRace' /\ WriterInv' /\ ValueInv' /\ ReaderInv'
      BY <1>a, <1>b DEF NoDataRace, WriterInv, ValueInv, ReaderInv, TypeOK, Completed, Target
    <2>3. QED
      BY <1>a, <2>1, <2>2 DEF IInv
  <1>11. ASSUME NEW r \in Readers, Leave(r) PROVE IInv'
    <2> USE <1>11 DEF Leave, writer
    <2>1. CountsBalance'
      BY <1>a, <1>b, HoldersLeave
    <2>2. NoDataRace' /\ WriterInv' /\ ValueInv' /\ ReaderInv'
      BY <1>a, <1>b DEF NoDataRace, WriterInv, ValueInv, ReaderInv, TypeOK, Completed, Target
    <2>3. QED
      BY <1>a, <2>1, <2>2 DEF IInv
  <1>12. ASSUME NEW r \in Readers, Retry(r) PROVE IInv'
    <2> USE <1>12 DEF Retry, shared, writer
    <2>1. CountsBalance'
      <3>1. ASSUME NEW s \in Slots PROVE Holders(s) = Holders(s)'
        BY <1>a DEF Holders, TypeOK
      <3>2. QED
        BY <1>b, <3>1 DEF CountsBalance
    <2>2. NoDataRace' /\ WriterInv' /\ ValueInv'
      BY <1>a, <1>b DEF NoDataRace, WriterInv, ValueInv, TypeOK, Completed, Target
    <2>3. ReaderInv'
      BY <1>a, <1>b DEF ReaderInv, ValueInv, TypeOK, Completed
    <2>4. QED
      BY <1>a, <2>1, <2>2, <2>3 DEF IInv
  <1>13. CASE UNCHANGED vars
    <2> USE <1>13 DEF vars, shared, writer, reader
    <2>1. CountsBalance'
      BY <1>a, <1>b, HoldersSame DEF TypeOK
    <2>2. NoDataRace' /\ WriterInv' /\ ValueInv' /\ ReaderInv'
      BY <1>a, <1>b DEF NoDataRace, WriterInv, ValueInv, ReaderInv, TypeOK, Completed, Target
    <2>3. QED
      BY <1>a, <2>1, <2>2 DEF IInv
  <1>14. QED
    BY <1>1, <1>2, <1>3, <1>4, <1>5, <1>6, <1>7, <1>8, <1>9, <1>10, <1>11, <1>12, <1>13
       DEF Next, StoreStep, LoadStep

\* A Load never copies from a slot the writer copies into, and the counts,
\* values and locals stay consistent: LockFreeQueue.h:402-436.
THEOREM LockSafety == Spec => [](IInv /\ NoDataRace /\ CountsBalance)
  <1>1. IInv => NoDataRace /\ CountsBalance
    BY DEF IInv
  <1>2. QED
    BY InitIInv, StepIInv, <1>1, PTL DEF Spec

-----------------------------------------------------------------------------
\* Who has seen a slot being written began before a Store that has completed,
\* and another Store writes that slot.
LEMMA StepRetry == IInv /\ RetryNeedsTwoStores /\ [Next]_vars => RetryNeedsTwoStores'
  <1> SUFFICES ASSUME IInv, RetryNeedsTwoStores, [Next]_vars PROVE RetryNeedsTwoStores'
    OBVIOUS
  <1> USE SeqLockAssumption DEF RetryNeedsTwoStores
  <1>a. TypeOK /\ WriterInv /\ ReaderInv
    BY DEF IInv
  <1>b. Target \in Slots /\ (n < NumSlots => Target # current)
    BY <1>a, TargetLemma DEF Target, TypeOK
  <1>1. ASSUME NEW r \in Readers, Enter(r) PROVE RetryNeedsTwoStores'
    <2>1. writing[index[r]] => floor[r] + 2 <= stores
      BY <1>1, <1>a, <1>b DEF Enter, WriterInv, ReaderInv, TypeOK, Completed
    <2>2. QED
      BY <1>1, <1>a, <2>1 DEF Enter, writer, TypeOK
  <1>2. CASE StoreBegin \/ StoreStep
    BY <1>2, <1>a DEF StoreBegin, StoreStep, Claim, Yield, CopyIn, Unlock, Publish, shared, reader, TypeOK
  <1>3. ASSUME NEW r \in Readers,
               LoadBegin(r) \/ LoadEnd(r) \/ Leave(r) \/ Retry(r) \/ \E w \in Words : CopyOut(r, w)
        PROVE  RetryNeedsTwoStores'
    BY <1>3, <1>a DEF LoadBegin, LoadEnd, Leave, Retry, CopyOut, shared, writer, TypeOK
  <1>4. CASE UNCHANGED vars
    BY <1>4 DEF vars, shared, writer, reader
  <1>5. QED
    BY <1>1, <1>2, <1>3, <1>4 DEF Next, LoadStep

\* Load is lock-free (LockFreeQueue.h:420-436): it goes round again only when a
\* Store has completed and a further one has begun since it was called.
THEOREM LoadIsLockFree == Spec => []RetryNeedsTwoStores
  <1>1. Init => RetryNeedsTwoStores
    BY DEF Init, RetryNeedsTwoStores
  <1>2. QED
    BY <1>1, InitIInv, StepIInv, StepRetry, PTL DEF Spec

-----------------------------------------------------------------------------
\* Every step of the lock is a step of the register or leaves it unchanged.
LEMMA StepRegister == IInv /\ [Next]_vars => [Register!Next]_(Register!vars)
  <1> SUFFICES ASSUME IInv, [Next]_vars PROVE [Register!Next]_(Register!vars)
    OBVIOUS
  <1> USE SeqLockAssumption DEF Register!vars, Register!Next
  <1>a. TypeOK /\ WriterInv /\ NoDataRace /\ ValueInv /\ ReaderInv
    BY DEF IInv
  <1>1. CASE StoreBegin
    <2>1. Register!BeginStore
      BY <1>1, <1>a DEF StoreBegin, shared, reader, Register!BeginStore, Completed, TypeOK
    <2>2. QED
      BY <2>1
  <1>2. ASSUME StoreStep, ~Publish PROVE UNCHANGED Register!vars
    BY <1>2, <1>a DEF StoreStep, Claim, Yield, CopyIn, Unlock, shared, reader, Completed, TypeOK
  <1>3. CASE Publish
    <2>1. Register!EndStore
      BY <1>3, <1>a DEF Publish, reader, Register!EndStore, Completed, TypeOK
    <2>2. QED
      BY <2>1
  <1>4. ASSUME NEW r \in Readers, LoadBegin(r) PROVE Register!BeginLoad(r)
    BY <1>4, <1>a DEF LoadBegin, shared, writer, Register!BeginLoad, Completed, TypeOK
  <1>5. ASSUME NEW r \in Readers, Enter(r) \/ Leave(r) \/ Retry(r) \/ \E w \in Words : CopyOut(r, w)
        PROVE UNCHANGED Register!vars
    BY <1>5, <1>a DEF Enter, Leave, Retry, CopyOut, shared, writer, Completed, TypeOK
  <1>6. ASSUME NEW r \in Readers, LoadEnd(r) PROVE Register!EndLoad(r)
    <2> USE <1>6, <1>a DEF LoadEnd, writer
    <2>1. PICK w0 \in Words : TRUE
      OBVIOUS
    <2> DEFINE v == value[index[r]][w0]
    <2>2. index[r] \in Slots /\ v \in Nat /\ floor[r] \in Int /\ stores \in Nat
      BY <2>1 DEF TypeOK
    <2>3. floor[r] <= v /\ v <= stores
      BY <2>1, <2>2 DEF ReaderInv, ValueInv
    <2>4. out[r] = Register!Whole(v)
      <3>1. \A w \in Words : out[r][w] = v
        BY <2>1, <2>2 DEF ReaderInv, ValueInv, NoDataRace
      <3>2. QED
        BY <3>1 DEF Register!Whole, TypeOK
    <2>5. v \in floor[r] .. (IF wpc # "idle" THEN Completed + 1 ELSE Completed)
      BY <2>2, <2>3 DEF Completed
    <2>6. result' = [result EXCEPT ![r] = Register!Whole(v)]
      BY <2>4
    <2>7. UNCHANGED <<Completed, wpc, floor>>
      BY DEF Completed
    <2>8. [q \in Readers |-> rpc'[q] # "idle"] = [[q \in Readers |-> rpc[q] # "idle"] EXCEPT ![r] = FALSE]
      BY DEF TypeOK
    <2>9. QED
      BY <2>5, <2>6, <2>7, <2>8 DEF Register!EndLoad
  <1>7. CASE UNCHANGED vars
    BY <1>7 DEF vars, shared, writer, reader, Completed
  <1>8. QED
    BY <1>1, <1>2, <1>3, <1>4, <1>5, <1>6, <1>7 DEF Next, LoadStep

\* SeqLock implements the regular register: a Load returns one whole value,
\* no older than the last Store published before the Load began.
THEOREM LockRefinement == Spec => ImplementsRegister
  <1>1. Init => Register!Init
    BY DEF Init, Register!Init, Register!Whole, Completed
  <1>2. QED
    BY <1>1, InitIInv, StepIInv, StepRegister, PTL DEF Spec, ImplementsRegister, Register!Spec

-----------------------------------------------------------------------------
(* Recursion on 0 .. len                                                       *)

LEMMA UpTo ==
  ASSUME NEW len \in Nat, NEW T, 0 \in T, \A k \in 1 .. len : k - 1 \in T => k \in T
  PROVE  0 .. len \subseteq T
<1> DEFINE Missing == (0 .. len) \ T
<1>1. SUFFICES ASSUME Missing # {} PROVE FALSE
  OBVIOUS
<1>2. PICK m \in Missing : \A k \in Missing : ~(<<k, m>> \in OpToRel(<, Nat))
  <2>1. Missing \subseteq Nat
    OBVIOUS
  <2> HIDE DEF Missing
  <2> QED
    BY <1>1, <2>1, WFMin, NatLessThanWellFounded
<1>3. ASSUME NEW k \in Missing, k < m PROVE FALSE
  <2>1. <<k, m>> \in Nat \X Nat /\ <<k, m>>[1] = k /\ <<k, m>>[2] = m
    OBVIOUS
  <2>2. <<k, m>> \in OpToRel(<, Nat)
    BY <2>1, <1>3 DEF OpToRel
  <2> QED
    BY <2>2, <1>2
<1>4. m \in 1 .. len /\ m - 1 \in 0 .. len
  OBVIOUS
<1>5. m - 1 \in T
  BY <1>3, <1>4
<1> QED
  BY <1>4, <1>5

Recurses(g, len, S, base, step) ==
  g \in [0 .. len -> S] /\ g[0] = base /\ \A k \in 1 .. len : g[k] = step[<<k, g[k - 1]>>]

\* A function may be defined by recursion on 0 .. n.
LEMMA Iterate ==
  ASSUME NEW len \in Nat, NEW S, NEW base \in S, NEW step \in [(1 .. len) \X S -> S]
  PROVE  \E g : Recurses(g, len, S, base, step)
<1> DEFINE Is(g, k) == g[0] = base /\ \A j \in 1 .. k : g[j] = step[<<j, g[j - 1]>>]
           T == {k \in 0 .. len : \E g \in [0 .. k -> S] : Is(g, k)}
<1>1. 0 \in T
  <2> DEFINE h == [j \in 0 .. 0 |-> base]
  <2>1. h \in [0 .. 0 -> S] /\ h[0] = base /\ 0 \in 0 .. len
    OBVIOUS
  <2>2. Is(h, 0)
    BY <2>1
  <2> QED
    BY <2>1, <2>2
<1>2. ASSUME NEW k \in 1 .. len, k - 1 \in T PROVE k \in T
  <2>1. PICK g \in [0 .. k - 1 -> S] : Is(g, k - 1)
    BY <1>2
  <2> DEFINE h == [j \in 0 .. k |-> IF j = k THEN step[<<k, g[k - 1]>>] ELSE g[j]]
  <2>2. g[k - 1] \in S /\ step[<<k, g[k - 1]>>] \in S
    OBVIOUS
  <2>3. h \in [0 .. k -> S]
    BY <2>2
  <2>4. Is(h, k)
    <3>1. h[0] = base
      BY <2>1
    <3>2. ASSUME NEW j \in 1 .. k PROVE h[j] = step[<<j, h[j - 1]>>]
      <4>1. CASE j = k
        <5>1. k \in 0 .. k /\ k - 1 \in 0 .. k /\ k - 1 # k
          OBVIOUS
        <5>2. h[k] = step[<<k, g[k - 1]>>] /\ h[k - 1] = g[k - 1]
          BY <5>1
        <5> HIDE DEF h
        <5> QED
          BY <4>1, <5>2
      <4>2. CASE j # k
        BY <4>2, <2>1
      <4> QED
        BY <4>1, <4>2
    <3> HIDE DEF h
    <3> QED
      BY <3>1, <3>2
  <2> HIDE DEF h, Is
  <2> QED
    BY <2>3, <2>4
<1> HIDE DEF T
<1>3. 0 .. len \subseteq T
  BY <1>1, <1>2, UpTo
<1> QED
  BY <1>3 DEF T, Recurses

-----------------------------------------------------------------------------
(* The hash table                                                            *)

\* A set of numbers has a least element.
LEMMA FirstOf ==
  ASSUME NEW S \in SUBSET Nat, S # {}
  PROVE  First(S) \in S /\ \A l \in S : First(S) <= l
<1>1. PICK m \in S : \A k \in S : ~(<<k, m>> \in OpToRel(<, Nat))
  BY WFMin, NatLessThanWellFounded
<1>2. ASSUME NEW k \in S PROVE m <= k
  <2>1. <<k, m>> \in Nat \X Nat /\ <<k, m>>[1] = k /\ <<k, m>>[2] = m
    OBVIOUS
  <2>2. k < m => <<k, m>> \in OpToRel(<, Nat)
    BY <2>1 DEF OpToRel
  <2>3. k \in Nat /\ m \in Nat /\ ~(k < m)
    BY <2>2, <1>1
  <2> QED
    BY <2>3
<1>3. \E x \in S : \A l \in S : x <= l
  BY <1>2
<1> QED
  BY <1>3, Zenon DEF First

LEMMA TableNumbers == HashSize \in Nat /\ HashSize > 1 /\ NumCaptureSlots \in Nat /\ NumCaptureSlots > 0
  BY TableAssumption

\* x lies in [a, b), going round the table.
OnTheWay(a, x, b) == IF a <= b THEN a <= x /\ x < b ELSE x >= a \/ x < b
Distance(a, b) == IF a <= b THEN b - a ELSE b - a + HashSize

LEMMA Wrap ==
  ASSUME NEW H \in Nat, H > 1, NEW x \in 0 .. 2 * H - 2
  PROVE  x % H = IF x < H THEN x ELSE x - H
  OBVIOUS

LEMMA ProbeIs ==
  ASSUME NEW c \in EngineChannels, NEW k \in Buckets
  PROVE  /\ Home[c] \in Buckets
         /\ Probe(c, k) \in Buckets
         /\ Probe(c, k) = IF Home[c] + k < HashSize THEN Home[c] + k ELSE Home[c] + k - HashSize
<1>1. HashSize \in Nat /\ HashSize > 1
  BY TableNumbers
<1>2. Home[c] \in 0 .. HashSize - 1 /\ k \in 0 .. HashSize - 1
  BY TableAssumption DEF Buckets
<1>4. Home[c] + k \in 0 .. 2 * HashSize - 2
  BY <1>1, <1>2
<1>5. PICK x \in 0 .. 2 * HashSize - 2 : x = Home[c] + k
  BY <1>4
<1>6. x % HashSize = IF x < HashSize THEN x ELSE x - HashSize
  BY <1>1, Wrap
<1>7. Probe(c, k) = IF x < HashSize THEN x ELSE x - HashSize
  BY <1>5, <1>6, Zenon DEF Probe
<1> QED
  BY <1>1, <1>2, <1>5, <1>7 DEF Buckets

\* The probes of a channel up to a bucket are the buckets on the way there.
LEMMA ProbesBefore ==
  ASSUME NEW c \in EngineChannels, NEW b \in Buckets
  PROVE  /\ Distance(Home[c], b) \in Buckets /\ Probe(c, Distance(Home[c], b)) = b
         /\ \A k \in Buckets : k < Distance(Home[c], b) => OnTheWay(Home[c], Probe(c, k), b)
         /\ \A x \in Buckets : OnTheWay(Home[c], x, b) =>
              Distance(Home[c], x) < Distance(Home[c], b)
<1>1. HashSize \in Nat /\ HashSize > 1 /\ Home[c] \in Buckets
  BY TableNumbers, TableAssumption
<1>2. Distance(Home[c], b) \in Buckets
  BY <1>1 DEF Distance, Buckets
<1>3. Probe(c, Distance(Home[c], b)) = b
  BY <1>1, <1>2, ProbeIs DEF Distance, Buckets
<1>4. \A k \in Buckets : k < Distance(Home[c], b) => OnTheWay(Home[c], Probe(c, k), b)
  <2> SUFFICES ASSUME NEW k \in Buckets, k < Distance(Home[c], b) PROVE OnTheWay(Home[c], Probe(c, k), b)
    OBVIOUS
  <2>1. Probe(c, k) = IF Home[c] + k < HashSize THEN Home[c] + k ELSE Home[c] + k - HashSize
    BY ProbeIs
  <2> QED
    BY <2>1, <1>1 DEF Distance, Buckets, OnTheWay
<1>5. \A x \in Buckets : OnTheWay(Home[c], x, b) => Distance(Home[c], x) < Distance(Home[c], b)
  BY <1>1 DEF Distance, Buckets, OnTheWay
<1> QED
  BY <1>2, <1>3, <1>4, <1>5

-----------------------------------------------------------------------------
(* Deletion: the loop over the entries behind the hole                       *)

Stops(s) == s.hash[s.next] = Empty
Shift(s) ==
  LET entry == s.hash[s.next]
      onward == (s.next + 1) % HashSize
  IN IF Between(s.hole, Home[entry.key], s.next) THEN [s EXCEPT !.next = onward]
     ELSE [s EXCEPT !.hash = [@ EXCEPT ![s.hole] = entry, ![s.next] = Empty],
                    !.index = [@ EXCEPT ![entry.slot] = s.hole], !.hole = s.next, !.next = onward]

\* The bucket behind x.
LEMMA Onward ==
  ASSUME NEW x \in Buckets
  PROVE  (x + 1) % HashSize \in Buckets /\ (x + 1) % HashSize = IF x + 1 = HashSize THEN 0 ELSE x + 1
<1>1. HashSize \in Nat /\ HashSize > 1 /\ x \in 0 .. HashSize - 1
  BY TableNumbers DEF Buckets
<1>2. PICK y \in 0 .. 2 * HashSize - 2 : y = x + 1
  BY <1>1
<1>3. y % HashSize = IF y < HashSize THEN y ELSE y - HashSize
  BY <1>1, Wrap
<1> QED
  BY <1>1, <1>2, <1>3 DEF Buckets

LEMMA ShiftIs ==
  ASSUME NEW s \in Shifting
  PROVE  /\ Shift(s) \in Shifting
         /\ Shift(s).next = (s.next + 1) % HashSize
         /\ Between(s.hole, Home[s.hash[s.next].key], s.next) =>
              Shift(s).hash = s.hash /\ Shift(s).index = s.index /\ Shift(s).hole = s.hole
         /\ ~Between(s.hole, Home[s.hash[s.next].key], s.next) =>
              /\ Shift(s).hole = s.next
              /\ Shift(s).hash = [s.hash EXCEPT ![s.hole] = s.hash[s.next], ![s.next] = Empty]
              /\ Shift(s).index = [s.index EXCEPT ![s.hash[s.next].slot] = s.hole]
<1> DEFINE entry == s.hash[s.next]
           onward == (s.next + 1) % HashSize
           Keys == [key : EngineChannels \union {NoChannel}, slot : CaptureSlots \union {NoSlot}]
<1>1. s.hash \in [Buckets -> Keys] /\ s.index \in [CaptureSlots -> Buckets \union {NoSlot}] /\ s.hole \in Buckets /\ s.next \in Buckets
  BY DEF Shifting
<1>2. onward \in Buckets
  BY <1>1, Onward
<1>3. Empty \in Keys /\ entry \in Keys
  BY <1>1 DEF Empty
<1>4. [s.hash EXCEPT ![s.hole] = entry, ![s.next] = Empty] \in [Buckets -> Keys]
  BY <1>1, <1>3
<1>5. [s.index EXCEPT ![entry.slot] = s.hole] \in [CaptureSlots -> Buckets \union {NoSlot}]
  BY <1>1
<1> HIDE DEF Keys
<1>6. CASE Between(s.hole, Home[entry.key], s.next)
  <2>1. Shift(s) = [s EXCEPT !.next = onward]
    BY <1>6, Zenon DEF Shift
  <2> HIDE DEF onward, entry
  <2>2. Shift(s) \in Shifting
    BY <2>1, <1>2 DEF Shifting
  <2>3. Shift(s).next = onward /\ Shift(s).hash = s.hash /\ Shift(s).index = s.index /\ Shift(s).hole = s.hole
    BY <2>1 DEF Shifting
  <2> QED
    BY <2>2, <2>3, <1>6 DEF onward, entry
<1>7. CASE ~Between(s.hole, Home[entry.key], s.next)
  <2>1. Shift(s) = [s EXCEPT !.hash = [s.hash EXCEPT ![s.hole] = entry, ![s.next] = Empty],
                             !.index = [s.index EXCEPT ![entry.slot] = s.hole], !.hole = s.next, !.next = onward]
    BY <1>7, Zenon DEF Shift
  <2> HIDE DEF onward, entry
  <2>2. Shift(s) \in Shifting
    BY <2>1, <1>1, <1>2, <1>4, <1>5 DEF Shifting, Keys
  <2>3. /\ Shift(s).next = onward /\ Shift(s).hole = s.next
        /\ Shift(s).hash = [s.hash EXCEPT ![s.hole] = entry, ![s.next] = Empty]
        /\ Shift(s).index = [s.index EXCEPT ![entry.slot] = s.hole]
    BY <2>1 DEF Shifting
  <2> QED
    BY <2>2, <2>3, <1>7 DEF onward, entry
<1> QED
  BY <1>6, <1>7

\* d is where the loop that starts in s stops after n steps.
RunsTo(g, len, s, d) ==
  /\ g \in [0 .. len -> Shifting] /\ g[0] = s /\ g[len] = d /\ Stops(d)
  /\ \A k \in 1 .. len : ~Stops(g[k - 1]) /\ g[k] = Shift(g[k - 1])
Ends(s) == {d \in Shifting : \E len \in Nat : \E g : RunsTo(g, len, s, d)}

LEMMA EndsOfStopped ==
  ASSUME NEW s \in Shifting, Stops(s)
  PROVE  Ends(s) = {s}
<1>1. s \in Ends(s)
  <2> DEFINE g == [k \in 0 .. 0 |-> s]
  <2>1. g \in [0 .. 0 -> Shifting] /\ g[0] = s
    OBVIOUS
  <2>2. RunsTo(g, 0, s, s)
    BY <2>1 DEF RunsTo
  <2> QED
    BY <2>2 DEF Ends
<1>2. ASSUME NEW d \in Ends(s) PROVE d = s
  <2>1. PICK len \in Nat : \E g : RunsTo(g, len, s, d)
    BY DEF Ends
  <2>2. PICK g : RunsTo(g, len, s, d)
    BY <2>1
  <2>3. len = 0
    <3>1. ASSUME len # 0 PROVE FALSE
      <4>1. 1 \in 1 .. len /\ 1 - 1 = 0
        BY <3>1
      <4>2. ~Stops(g[1 - 1])
        BY <4>1, <2>2 DEF RunsTo
      <4> QED
        BY <4>1, <4>2, <2>2 DEF RunsTo
    <3> QED
      BY <3>1
  <2> QED
    BY <2>2, <2>3 DEF RunsTo
<1> QED
  BY <1>1, <1>2

LEMMA EndsOfNext ==
  ASSUME NEW s \in Shifting, ~Stops(s)
  PROVE  Ends(s) = Ends(Shift(s))
<1>0. Shift(s) \in Shifting
  BY ShiftIs
<1>1. ASSUME NEW d \in Ends(s) PROVE d \in Ends(Shift(s))
  <2>1. PICK len \in Nat : \E g : RunsTo(g, len, s, d)
    BY <1>1 DEF Ends
  <2>2. PICK g : RunsTo(g, len, s, d)
    BY <2>1
  <2>3. len # 0
    BY <2>2 DEF RunsTo
  <2> DEFINE h == [k \in 0 .. len - 1 |-> g[k + 1]]
  <2>4. len - 1 \in Nat /\ h \in [0 .. len - 1 -> Shifting] /\ h[0] = g[1] /\ h[len - 1] = g[len]
    <3>1. g \in [0 .. len -> Shifting] /\ 0 \in 0 .. len - 1 /\ len - 1 \in 0 .. len - 1 /\ len - 1 + 1 = len /\ 0 + 1 = 1
      BY <2>2, <2>3 DEF RunsTo
    <3>2. h[0] = g[0 + 1] /\ h[len - 1] = g[len - 1 + 1]
      BY <3>1
    <3>3. h \in [0 .. len - 1 -> Shifting]
      BY <3>1, <2>3
    <3> QED
      BY <3>1, <3>2, <3>3, <2>3
  <2>5. h[0] = Shift(s)
    <3>1. 1 \in 1 .. len /\ 1 - 1 = 0
      BY <2>3
    <3> QED
      BY <3>1, <2>4, <2>2 DEF RunsTo
  <2>6. ASSUME NEW k \in 1 .. len - 1 PROVE ~Stops(h[k - 1]) /\ h[k] = Shift(h[k - 1])
    <3>1. k + 1 \in 1 .. len /\ k + 1 - 1 = k /\ k - 1 \in 0 .. len - 1 /\ k \in 0 .. len - 1 /\ k - 1 + 1 = k
      OBVIOUS
    <3>2. ~Stops(g[k + 1 - 1]) /\ g[k + 1] = Shift(g[k + 1 - 1])
      BY <3>1, <2>2 DEF RunsTo
    <3>3. h[k - 1] = g[k - 1 + 1] /\ h[k] = g[k + 1]
      BY <3>1
    <3> HIDE DEF h
    <3> QED
      BY <3>1, <3>2, <3>3
  <2>7. RunsTo(h, len - 1, Shift(s), d)
    <3> HIDE DEF h
    <3> QED
      BY <2>2, <2>4, <2>5, <2>6 DEF RunsTo
  <2> QED
    BY <2>7, <2>4, <1>1 DEF Ends
<1>2. ASSUME NEW d \in Ends(Shift(s)) PROVE d \in Ends(s)
  <2>1. PICK len \in Nat : \E g : RunsTo(g, len, Shift(s), d)
    BY <1>2 DEF Ends
  <2>2. PICK g : RunsTo(g, len, Shift(s), d)
    BY <2>1
  <2> DEFINE h == [k \in 0 .. len + 1 |-> IF k = 0 THEN s ELSE g[k - 1]]
  <2>3. g \in [0 .. len -> Shifting] /\ g[0] = Shift(s) /\ g[len] = d /\ Stops(d)
    BY <2>2 DEF RunsTo
  <2>4. len + 1 \in Nat /\ h \in [0 .. len + 1 -> Shifting] /\ h[0] = s /\ h[len + 1] = d
    <3>1. 0 \in 0 .. len + 1 /\ len + 1 \in 0 .. len + 1 /\ len + 1 - 1 = len /\ len + 1 # 0
      OBVIOUS
    <3>2. h[0] = s /\ h[len + 1] = g[len + 1 - 1]
      BY <3>1
    <3>3. h \in [0 .. len + 1 -> Shifting]
      BY <2>3
    <3> QED
      BY <3>1, <3>2, <3>3, <2>3
  <2>5. ASSUME NEW k \in 1 .. len + 1 PROVE ~Stops(h[k - 1]) /\ h[k] = Shift(h[k - 1])
    <3>1. CASE k = 1
      <4>1. h[1] = g[1 - 1] /\ 1 - 1 = 0
        OBVIOUS
      <4> HIDE DEF h
      <4> QED
        BY <4>1, <3>1, <2>3, <2>4
    <3>2. CASE k # 1
      <4>1. k - 1 \in 1 .. len /\ k - 1 \in 0 .. len + 1 /\ k \in 0 .. len + 1 /\ k - 1 # 0 /\ k # 0
        BY <3>2
      <4>2. h[k - 1] = g[k - 1 - 1] /\ h[k] = g[k - 1]
        BY <4>1
      <4>3. ~Stops(g[k - 1 - 1]) /\ g[k - 1] = Shift(g[k - 1 - 1])
        BY <4>1, <2>2 DEF RunsTo
      <4> HIDE DEF h
      <4> QED
        BY <4>2, <4>3
    <3> QED
      BY <3>1, <3>2
  <2>6. RunsTo(h, len + 1, s, d)
    <3> HIDE DEF h
    <3> QED
      BY <2>3, <2>4, <2>5 DEF RunsTo
  <2> QED
    BY <2>6, <2>4, <1>2 DEF Ends
<1> QED
  BY <1>1, <1>2

\* The recursion has a solution whether or not it ends, and unfolds.
LEMMA ShiftedUnfolds ==
  \A s \in Shifting : Shifted[s] = IF Stops(s) THEN s ELSE Shifted[Shift(s)]
<1> DEFINE Result(D) == CHOOSE d : d \in D
           f == [s \in Shifting |-> Result(Ends(s))]
           Body(h, s) ==
             LET entry == s.hash[s.next]
                 onward == (s.next + 1) % HashSize
             IN IF entry = Empty THEN s
                ELSE IF Between(s.hole, Home[entry.key], s.next) THEN h[[s EXCEPT !.next = onward]]
                ELSE h[[s EXCEPT !.hash = [@ EXCEPT ![s.hole] = entry, ![s.next] = Empty],
                                 !.index = [@ EXCEPT ![entry.slot] = s.hole], !.hole = s.next, !.next = onward]]
<1>1. \A h : \A s : Body(h, s) = IF Stops(s) THEN s ELSE h[Shift(s)]
  BY Zenon DEF Stops, Shift
<1>2. \A s \in Shifting : f[s] = IF Stops(s) THEN s ELSE f[Shift(s)]
  <2> SUFFICES ASSUME NEW s \in Shifting PROVE f[s] = IF Stops(s) THEN s ELSE f[Shift(s)]
    OBVIOUS
  <2>1. CASE Stops(s)
    <3>1. Ends(s) = {s}
      BY <2>1, EndsOfStopped
    <3>2. Result({s}) = s
      OBVIOUS
    <3>3. f[s] = Result(Ends(s))
      OBVIOUS
    <3> HIDE DEF f, Result
    <3> QED
      BY <2>1, <3>1, <3>2, <3>3
  <2>2. CASE ~Stops(s)
    <3>1. Ends(s) = Ends(Shift(s)) /\ Shift(s) \in Shifting
      BY <2>2, EndsOfNext, ShiftIs
    <3>2. f[s] = Result(Ends(s)) /\ f[Shift(s)] = Result(Ends(Shift(s)))
      BY <3>1
    <3> HIDE DEF f, Result
    <3> QED
      BY <2>2, <3>1, <3>2
  <2> QED
    BY <2>1, <2>2
<1>3. f = [s \in Shifting |-> Body(f, s)]
  <2> HIDE DEF Body
  <2>1. DOMAIN f = Shifting
    OBVIOUS
  <2>2. \A s \in Shifting : f[s] = Body(f, s)
    <3> HIDE DEF f
    <3> QED
      BY <1>1, <1>2
  <2>3. f = [s \in Shifting |-> f[s]]
    OBVIOUS
  <2> HIDE DEF f
  <2> QED
    BY <2>2, <2>3
<1>4. Shifted = [s \in Shifting |-> Body(Shifted, s)]
  <2>1. Shifted = CHOOSE h : h = [s \in Shifting |-> Body(h, s)]
    BY Zenon DEF Shifted
  <2> HIDE DEF f, Body
  <2> QED
    BY <2>1, <1>3, Zenon
<1> HIDE DEF Body
<1>5. \A s \in Shifting : Shifted[s] = Body(Shifted, s)
  BY <1>4
<1> QED
  BY <1>1, <1>5

\* A hash table and what the slots know of it.
HashEntries == [key : EngineChannels \union {NoChannel}, slot : CaptureSlots \union {NoSlot}]
IsHash(T) ==
  /\ T \in [Buckets -> HashEntries]
  /\ \A b \in Buckets : T[b] # Empty => T[b].key \in EngineChannels /\ T[b].slot \in CaptureSlots
Pointers == [CaptureSlots -> EngineChannels \union {NoChannel}]
Agrees(T, idx, ptr) ==
  /\ \A i \in CaptureSlots : ptr[i] # NoChannel => idx[i] \in Buckets /\ T[idx[i]].key = ptr[i] /\ T[idx[i]].slot = i
  /\ \A b \in Buckets : T[b] # Empty => ptr[T[b].slot] = T[b].key /\ idx[T[b].slot] = b
\* No gap but the hole is on the way to an entry.
Reached(T, hole) ==
  \A b, x \in Buckets : T[b] # Empty /\ OnTheWay(Home[T[b].key], x, b) /\ x # hole => T[x] # Empty

\* x lies strictly between a and b, going round the table.
Inside(a, x, b) == IF a < b THEN a < x /\ x < b ELSE x > a \/ x < b

\* The loop has looked at the entries between the hole and next; e is a gap.
LoopOK(s, ptr, e) ==
  /\ s \in Shifting /\ IsHash(s.hash) /\ Agrees(s.hash, s.index, ptr)
  /\ s.hash[s.hole] = Empty /\ s.hash[e] = Empty /\ e # s.hole
  /\ Reached(s.hash, s.hole)
  /\ \A x \in Buckets : Inside(s.hole, x, s.next) => s.hash[x] # Empty /\ ~OnTheWay(Home[s.hash[x].key], s.hole, x)

LEMMA ShiftingIs ==
  ASSUME NEW s \in Shifting
  PROVE  s.hash \in [Buckets -> HashEntries] /\ s.index \in [CaptureSlots -> Buckets \union {NoSlot}] /\ s.hole \in Buckets /\ s.next \in Buckets
  BY DEF Shifting, HashEntries

LEMMA HomeIs == \A c \in EngineChannels : Home[c] \in Buckets
  BY TableAssumption

LEMMA BucketsAre == \A x \in Buckets : x \in Nat /\ x < HashSize
  BY TableNumbers DEF Buckets

\* An entry that does not move keeps what the loop knows.
LEMMA Passed ==
  ASSUME NEW s \in Shifting, NEW ptr \in Pointers, NEW e \in Buckets, LoopOK(s, ptr, e), ~Stops(s),
         Between(s.hole, Home[s.hash[s.next].key], s.next)
  PROVE  LoopOK(Shift(s), ptr, e)
<1> DEFINE r == Shift(s)
<1>1. r \in Shifting /\ r.next = (s.next + 1) % HashSize /\ r.hash = s.hash /\ r.index = s.index /\ r.hole = s.hole
  BY ShiftIs
<1>2. s.hole \in Buckets /\ s.next \in Buckets /\ s.hash[s.next] # Empty /\ Home[s.hash[s.next].key] \in Buckets
  BY ShiftingIs, HomeIs DEF LoopOK, IsHash, Stops
<1>3. r.next = IF s.next + 1 = HashSize THEN 0 ELSE s.next + 1
  BY <1>1, <1>2, Onward
<1> HIDE DEF r
<1>4. s.next # s.hole
  BY <1>2 DEF LoopOK
<1>5. ~OnTheWay(Home[s.hash[s.next].key], s.hole, s.next)
  BY <1>2, <1>4, BucketsAre DEF OnTheWay, Between
<1>6. ASSUME NEW x \in Buckets, Inside(s.hole, x, r.next) PROVE x = s.next \/ Inside(s.hole, x, s.next)
  <2>1. x \in Nat /\ x < HashSize /\ s.hole \in Nat /\ s.next \in Nat /\ s.next < HashSize /\ s.hole < HashSize /\ HashSize \in Nat
    BY <1>2, BucketsAre, TableNumbers
  <2>2. CASE s.next + 1 = HashSize
    BY <2>1, <2>2, <1>3, <1>4, <1>6 DEF Inside
  <2>3. CASE s.next + 1 # HashSize
    BY <2>1, <2>3, <1>3, <1>4, <1>6 DEF Inside
  <2> QED
    BY <2>2, <2>3
<1>7. \A x \in Buckets : Inside(r.hole, x, r.next) => r.hash[x] # Empty /\ ~OnTheWay(Home[r.hash[x].key], r.hole, x)
  <2> SUFFICES ASSUME NEW x \in Buckets, Inside(s.hole, x, r.next)
               PROVE  s.hash[x] # Empty /\ ~OnTheWay(Home[s.hash[x].key], s.hole, x)
    BY <1>1
  <2>1. CASE x = s.next
    BY <2>1, <1>2, <1>5
  <2>2. CASE Inside(s.hole, x, s.next)
    BY <2>2 DEF LoopOK
  <2> QED
    BY <2>1, <2>2, <1>6
<1> QED
  BY <1>1, <1>7 DEF LoopOK, r

\* An entry that moves into the hole leaves one behind.
LEMMA MovedBack ==
  ASSUME NEW s \in Shifting, NEW ptr \in Pointers, NEW e \in Buckets, LoopOK(s, ptr, e), ~Stops(s),
         ~Between(s.hole, Home[s.hash[s.next].key], s.next)
  PROVE  LoopOK(Shift(s), ptr, e)
<1> DEFINE r == Shift(s)
           T == s.hash
           entry == s.hash[s.next]
<1>1. /\ r \in Shifting /\ r.next = (s.next + 1) % HashSize /\ r.hole = s.next
      /\ r.hash = [T EXCEPT ![s.hole] = entry, ![s.next] = Empty]
      /\ r.index = [s.index EXCEPT ![entry.slot] = s.hole]
  BY ShiftIs
<1>2. /\ s.hole \in Buckets /\ s.next \in Buckets /\ T \in [Buckets -> HashEntries] /\ s.index \in [CaptureSlots -> Buckets \union {NoSlot}]
      /\ entry # Empty /\ entry.key \in EngineChannels /\ entry.slot \in CaptureSlots /\ Home[entry.key] \in Buckets
      /\ T[s.hole] = Empty /\ T[e] = Empty /\ e # s.hole
  BY ShiftingIs, HomeIs DEF LoopOK, IsHash, Stops
<1>3. r.next = IF s.next + 1 = HashSize THEN 0 ELSE s.next + 1
  BY <1>1, <1>2, Onward
<1>4. s.next # s.hole /\ s.next # e
  BY <1>2
<1>5. /\ r.hash[s.hole] = entry /\ r.hash[s.next] = Empty
      /\ \A b \in Buckets : b # s.hole /\ b # s.next => r.hash[b] = T[b]
  BY <1>1, <1>2, <1>4
<1>6. r.index[entry.slot] = s.hole /\ \A i \in CaptureSlots : i # entry.slot => r.index[i] = s.index[i]
  BY <1>1, <1>2
<1>7. r.hash \in [Buckets -> HashEntries]
  BY <1>1, ShiftingIs
<1> HIDE DEF r, T, entry
<1>8. IsHash(r.hash)
  <2> SUFFICES ASSUME NEW b \in Buckets, r.hash[b] # Empty PROVE r.hash[b].key \in EngineChannels /\ r.hash[b].slot \in CaptureSlots
    BY <1>7 DEF IsHash
  <2>1. CASE b = s.hole
    BY <2>1, <1>5, <1>2
  <2>2. CASE b # s.hole /\ b # s.next
    BY <2>2, <1>5 DEF LoopOK, IsHash, T
  <2> QED
    BY <2>1, <2>2, <1>5
<1>9. Agrees(r.hash, r.index, ptr)
  <2>0. Agrees(T, s.index, ptr)
    BY DEF LoopOK, T
  <2>1. ptr[entry.slot] = entry.key /\ s.index[entry.slot] = s.next
    BY <2>0, <1>2 DEF Agrees, T, entry
  <2>2. ASSUME NEW i \in CaptureSlots, ptr[i] # NoChannel
        PROVE  r.index[i] \in Buckets /\ r.hash[r.index[i]].key = ptr[i] /\ r.hash[r.index[i]].slot = i
    <3>1. CASE i = entry.slot
      BY <3>1, <2>1, <1>2, <1>5, <1>6
    <3>2. CASE i # entry.slot
      <4>1. s.index[i] \in Buckets /\ T[s.index[i]].key = ptr[i] /\ T[s.index[i]].slot = i /\ r.index[i] = s.index[i]
        BY <3>2, <2>0, <2>2, <1>6 DEF Agrees
      <4>2. s.index[i] # s.next /\ s.index[i] # s.hole
        BY <4>1, <3>2, <1>2, <2>2 DEF Empty, T, entry
      <4> QED
        BY <4>1, <4>2, <1>5
    <3> QED
      BY <3>1, <3>2
  <2>3. ASSUME NEW b \in Buckets, r.hash[b] # Empty
        PROVE  ptr[r.hash[b].slot] = r.hash[b].key /\ r.index[r.hash[b].slot] = b
    <3>1. CASE b = s.hole
      BY <3>1, <2>1, <1>5, <1>6
    <3>2. CASE b # s.hole /\ b # s.next
      <4>1. r.hash[b] = T[b] /\ T[b].slot \in CaptureSlots
        BY <3>2, <1>5, <2>3 DEF LoopOK, IsHash, T
      <4>2. ptr[T[b].slot] = T[b].key /\ s.index[T[b].slot] = b
        BY <4>1, <2>0, <2>3 DEF Agrees
      <4>3. T[b].slot # entry.slot
        BY <4>2, <2>1, <3>2
      <4> QED
        BY <4>1, <4>2, <4>3, <1>6
    <3> QED
      BY <3>1, <3>2, <2>3, <1>5
  <2> QED
    BY <2>2, <2>3 DEF Agrees
<1>10. Reached(r.hash, r.hole)
  <2> SUFFICES ASSUME NEW b \in Buckets, NEW x \in Buckets, r.hash[b] # Empty, OnTheWay(Home[r.hash[b].key], x, b), x # s.next
               PROVE  r.hash[x] # Empty
    BY <1>1 DEF Reached, r
  <2>0. Reached(T, s.hole)
    BY DEF LoopOK, T
  <2>1. CASE x = s.hole
    BY <2>1, <1>2, <1>5
  <2>2. CASE x # s.hole /\ b = s.hole
    <3>1. OnTheWay(Home[entry.key], x, s.hole)
      BY <2>2, <1>5
    <3>2. OnTheWay(Home[entry.key], x, s.next)
      BY <3>1, <2>2, <1>2, <1>4, BucketsAre DEF OnTheWay, Between, entry
    <3>3. T[x] # Empty
      BY <3>2, <2>0, <2>2, <1>2 DEF Reached, entry, T
    <3> QED
      BY <3>3, <2>2, <1>5
  <2>3. CASE x # s.hole /\ b # s.hole
    <3>1. r.hash[b] = T[b] /\ r.hash[x] = T[x]
      BY <2>3, <1>5
    <3> QED
      BY <3>1, <2>0, <2>3 DEF Reached
  <2> QED
    BY <2>1, <2>2, <2>3
<1>11. ASSUME NEW x \in Buckets PROVE ~Inside(s.next, x, r.next)
  BY <1>2, <1>3, BucketsAre, TableNumbers DEF Inside
<1>12. r.hash[e] = Empty
  BY <1>2, <1>4, <1>5
<1> QED
  BY <1>1, <1>4, <1>5, <1>8, <1>9, <1>10, <1>11, <1>12 DEF LoopOK, r

\* When it stops there is no gap on the way to any entry.
LEMMA NothingIsCutOff ==
  ASSUME NEW s \in Shifting, NEW ptr \in Pointers, NEW e \in Buckets, LoopOK(s, ptr, e), Stops(s)
  PROVE  Reached(s.hash, NoSlot)
<1>1. s.hole \in Buckets /\ s.next \in Buckets /\ s.hash[s.next] = Empty /\ s.hash[s.hole] = Empty
  BY ShiftingIs DEF LoopOK, Stops
<1>2. s.next # s.hole
  <2>1. e # s.hole /\ s.hash[e] = Empty /\ (Inside(s.hole, e, s.next) => s.hash[e] # Empty)
    BY DEF LoopOK
  <2> QED
    BY <2>1, <1>1, BucketsAre DEF Inside
<1>3. ASSUME NEW b \in Buckets, s.hash[b] # Empty PROVE ~OnTheWay(Home[s.hash[b].key], s.hole, b)
  <2>1. SUFFICES ASSUME OnTheWay(Home[s.hash[b].key], s.hole, b) PROVE FALSE
    OBVIOUS
  <2>2. Home[s.hash[b].key] \in Buckets
    BY <1>3, HomeIs DEF LoopOK, IsHash
  <2>3. ~Inside(s.hole, b, s.next) /\ b # s.next /\ b # s.hole
    BY <1>1, <1>3, <2>1 DEF LoopOK
  <2>4. OnTheWay(Home[s.hash[b].key], s.next, b)
    BY <2>1, <2>2, <2>3, <1>1, <1>2, BucketsAre DEF OnTheWay, Inside
  <2> QED
    BY <2>4, <1>1, <1>2, <1>3 DEF LoopOK, Reached
<1> QED
  BY <1>3 DEF LoopOK, Reached

\* The loop comes to its end, since next comes nearer to the gap.
LEMMA LoopRuns ==
  ASSUME NEW ptr \in Pointers, NEW e \in Buckets, NEW s \in Shifting, LoopOK(s, ptr, e)
  PROVE  Shifted[s] \in Shifting /\ LoopOK(Shifted[s], ptr, e) /\ Stops(Shifted[s])
<1> DEFINE Good(r) == Shifted[r] \in Shifting /\ LoopOK(Shifted[r], ptr, e) /\ Stops(Shifted[r])
           T == {len \in 0 .. HashSize : \A r \in Shifting : LoopOK(r, ptr, e) /\ Distance(r.next, e) <= len => Good(r)}
<1>1. \A r \in Shifting : Distance(r.next, e) \in 0 .. HashSize
  BY ShiftingIs, BucketsAre, TableNumbers DEF Distance
<1>2. ASSUME NEW r \in Shifting, LoopOK(r, ptr, e), Stops(r) PROVE Good(r)
  BY <1>2, ShiftedUnfolds
<1>3. ASSUME NEW r \in Shifting, LoopOK(r, ptr, e), ~Stops(r)
      PROVE  /\ Shift(r) \in Shifting /\ LoopOK(Shift(r), ptr, e) /\ (Good(Shift(r)) => Good(r))
             /\ Distance(Shift(r).next, e) < Distance(r.next, e)
  <2>1. Shift(r) \in Shifting /\ Shift(r).next = (r.next + 1) % HashSize
    BY ShiftIs
  <2>2. LoopOK(Shift(r), ptr, e)
    BY <1>3, Passed, MovedBack
  <2>3. r.next \in Buckets /\ r.next # e
    BY <1>3, ShiftingIs DEF LoopOK, Stops
  <2>4. Shift(r).next = IF r.next + 1 = HashSize THEN 0 ELSE r.next + 1
    BY <2>1, <2>3, Onward
  <2>5. Distance(Shift(r).next, e) < Distance(r.next, e)
    BY <2>3, <2>4, BucketsAre, TableNumbers DEF Distance
  <2>6. Shifted[r] = Shifted[Shift(r)]
    BY <1>3, ShiftedUnfolds
  <2> QED
    BY <2>1, <2>2, <2>5, <2>6
<1> HIDE DEF Good
<1>4. 0 \in T
  <2> SUFFICES ASSUME NEW r \in Shifting, LoopOK(r, ptr, e), Distance(r.next, e) <= 0 PROVE Good(r)
    BY TableNumbers
  <2>1. ~Stops(r) => Distance(Shift(r).next, e) < 0 /\ Shift(r) \in Shifting
    BY <1>1, <1>3
  <2> QED
    BY <2>1, <1>1, <1>2
<1>5. ASSUME NEW len \in 1 .. HashSize, len - 1 \in T PROVE len \in T
  <2> SUFFICES ASSUME NEW r \in Shifting, LoopOK(r, ptr, e), Distance(r.next, e) <= len PROVE Good(r)
    OBVIOUS
  <2>1. CASE Stops(r)
    BY <2>1, <1>2
  <2>2. CASE ~Stops(r)
    <3>1. Shift(r) \in Shifting /\ LoopOK(Shift(r), ptr, e) /\ (Good(Shift(r)) => Good(r)) /\ Distance(Shift(r).next, e) < Distance(r.next, e)
      BY <2>2, <1>3
    <3>2. Distance(Shift(r).next, e) <= len - 1
      BY <3>1, <1>1
    <3> QED
      BY <3>1, <3>2, <1>5
  <2> QED
    BY <2>1, <2>2
<1> HIDE DEF T
<1>6. HashSize \in T
  BY <1>4, <1>5, TableNumbers, UpTo
<1>7. Good(s)
  BY <1>6, <1>1 DEF T
<1> QED
  BY <1>7 DEF Good

-----------------------------------------------------------------------------
(* Table, records and free list together                                       *)

SlotRecords ==
  [ptr : EngineChannels \union {NoChannel}, lastClock : Nat, everMixed : BOOLEAN, hashIndex : Buckets \union {NoSlot},
   idleSince : Nat, stageEnd : Nat, groupDiv : Groups, groupKnown : BOOLEAN, lastGuid : Nat, fullStart : {0} \union Groups]
SlotArrays == [CaptureSlots -> SlotRecords]
Ptrs(records) == [i \in CaptureSlots |-> records[i].ptr]
HashIndexes(records) == [i \in CaptureSlots |-> records[i].hashIndex]

HashOK(T, records) == IsHash(T) /\ Reached(T, NoSlot) /\ Agrees(T, HashIndexes(records), Ptrs(records))
OneSlotEach(ptr) == \A i, j \in CaptureSlots : ptr[i] = ptr[j] /\ ptr[i] # NoChannel => i = j
FreeOK(list, ptr) ==
  /\ list \in Seq(CaptureSlots) /\ \A k, l \in DOMAIN list : list[k] = list[l] => k = l
  /\ \A i \in CaptureSlots : ptr[i] = NoChannel <=> \E k \in DOMAIN list : list[k] = i
TableOK(t) == HashOK(t.hash, t.slots) /\ OneSlotEach(Ptrs(t.slots)) /\ FreeOK(t.free, Ptrs(t.slots))
SlotTables ==
  {t \in [hash : [Buckets -> HashEntries], slots : SlotArrays, free : Seq(CaptureSlots)] : TableOK(t)}

LEMMA RecordIs ==
  ASSUME NEW a \in SlotRecords
  PROVE  /\ a.ptr \in EngineChannels \union {NoChannel} /\ a.lastClock \in Nat /\ a.everMixed \in BOOLEAN
         /\ a.hashIndex \in Buckets \union {NoSlot} /\ a.idleSince \in Nat /\ a.stageEnd \in Nat
         /\ a.groupDiv \in Groups /\ a.groupKnown \in BOOLEAN /\ a.lastGuid \in Nat /\ a.fullStart \in {0} \union Groups
  BY DEF SlotRecords

LEMMA PtrsType ==
  ASSUME NEW records \in SlotArrays
  PROVE  /\ Ptrs(records) \in Pointers /\ HashIndexes(records) \in [CaptureSlots -> Buckets \union {NoSlot}]
         /\ \A i \in CaptureSlots : Ptrs(records)[i] = records[i].ptr /\ HashIndexes(records)[i] = records[i].hashIndex
<1>1. \A i \in CaptureSlots : records[i] \in SlotRecords
  BY DEF SlotArrays
<1> QED
  BY <1>1, RecordIs DEF Ptrs, HashIndexes, Pointers

LEMMA TableParts ==
  ASSUME NEW t \in SlotTables
  PROVE  /\ t.hash \in [Buckets -> HashEntries] /\ t.slots \in SlotArrays /\ t.free \in Seq(CaptureSlots)
         /\ IsHash(t.hash) /\ Reached(t.hash, NoSlot) /\ Agrees(t.hash, HashIndexes(t.slots), Ptrs(t.slots))
         /\ OneSlotEach(Ptrs(t.slots)) /\ FreeOK(t.free, Ptrs(t.slots))
         /\ Ptrs(t.slots) \in Pointers
         /\ \A i \in CaptureSlots : Ptrs(t.slots)[i] = t.slots[i].ptr /\ HashIndexes(t.slots)[i] = t.slots[i].hashIndex
<1>1. /\ t.hash \in [Buckets -> HashEntries] /\ t.slots \in SlotArrays /\ t.free \in Seq(CaptureSlots) /\ TableOK(t)
  BY DEF SlotTables
<1> QED
  BY <1>1, PtrsType DEF TableOK, HashOK

LEMMA CaptureSlotsAre == IsFiniteSet(CaptureSlots) /\ Cardinality(CaptureSlots) = NumCaptureSlots /\ \A i \in CaptureSlots : i \in Nat
<1>1. \A i \in CaptureSlots : i \in Nat
  BY TableNumbers DEF CaptureSlots
<1>2. 0 \in Int /\ NumCaptureSlots - 1 \in Int /\ 0 <= NumCaptureSlots - 1
  BY TableNumbers
<1>3. IsFiniteSet(0 .. NumCaptureSlots - 1) /\ Cardinality(0 .. NumCaptureSlots - 1) = NumCaptureSlots - 1 - 0 + 1
  BY <1>2, FS_Interval
<1> QED
  BY <1>1, <1>3, TableNumbers DEF CaptureSlots

\* There are more buckets than slots.
LEMMA HasGap ==
  ASSUME NEW t \in SlotTables
  PROVE  \E e \in Buckets : t.hash[e] = Empty
<1> SUFFICES ASSUME \A b \in Buckets : t.hash[b] # Empty PROVE FALSE
  OBVIOUS
<1> DEFINE f == [b \in Buckets |-> t.hash[b].slot]
<1>1. f \in [Buckets -> CaptureSlots]
  BY TableParts DEF IsHash
<1>2. \A a, b \in Buckets : f[a] = f[b] => a = b
  BY TableParts, <1>1 DEF Agrees
<1>3. f \in Injection(Buckets, CaptureSlots)
  <2> HIDE DEF f
  <2> QED
    BY <1>1, <1>2 DEF Injection, IsInjective
<1>4. Cardinality(Buckets) <= Cardinality(CaptureSlots)
  <2> HIDE DEF f
  <2> QED
    BY <1>3, CaptureSlotsAre, FS_Injection
<1>5. Cardinality(Buckets) = HashSize
  <2>1. 0 \in Int /\ HashSize - 1 \in Int /\ 0 <= HashSize - 1
    BY TableNumbers
  <2>2. Cardinality(0 .. HashSize - 1) = HashSize - 1 - 0 + 1
    BY <2>1, FS_Interval
  <2> QED
    BY <2>2, TableNumbers DEF Buckets
<1> QED
  BY <1>4, <1>5, CaptureSlotsAre, TableAssumption

\* Probing finds the slot a channel is bound to, and none for another channel.
LEMMA LookupFinds ==
  ASSUME NEW t \in SlotTables, NEW c \in EngineChannels
  PROVE  /\ \A i \in CaptureSlots : t.slots[i].ptr = c => Lookup(t.hash, c) = i
         /\ (\A i \in CaptureSlots : t.slots[i].ptr # c) => Lookup(t.hash, c) = NoSlot
<1> DEFINE T == t.hash
           ends == {k \in Buckets : T[Probe(c, k)].key \in {c, NoChannel}}
<1>1. T \in [Buckets -> HashEntries] /\ IsHash(T) /\ NoChannel \notin EngineChannels /\ Home[c] \in Buckets
  BY TableParts, TableAssumption, HomeIs
<1>2. \A b \in Buckets : T[b].key = NoChannel <=> T[b] = Empty
  BY <1>1 DEF IsHash, Empty
<1>3. ends \subseteq Nat
  BY BucketsAre
<1>4. Lookup(T, c) = IF ends = {} THEN NoSlot ELSE T[Probe(c, First(ends))].slot
  BY Zenon DEF Lookup
<1>5. ASSUME NEW i \in CaptureSlots, t.slots[i].ptr = c PROVE Lookup(T, c) = i
  <2> DEFINE b == t.slots[i].hashIndex
             d == Distance(Home[c], b)
  <2>1. b \in Buckets /\ T[b].key = c /\ T[b].slot = i
    BY <1>1, <1>5, TableParts DEF Agrees
  <2>2. /\ d \in Buckets /\ Probe(c, d) = b
        /\ \A k \in Buckets : k < d => OnTheWay(Home[c], Probe(c, k), b) /\ Probe(c, k) \in Buckets
    BY <2>1, ProbesBefore, ProbeIs
  <2> HIDE DEF b, d
  <2>3. d \in ends
    BY <2>1, <2>2
  <2>4. ASSUME NEW k \in ends, k < d PROVE FALSE
    <3>1. k \in Buckets /\ Probe(c, k) \in Buckets /\ OnTheWay(Home[c], Probe(c, k), b)
      BY <2>2, <2>4
    <3>2. Probe(c, k) # NoSlot
      BY <3>1, BucketsAre DEF NoSlot
    <3>3. T[b] # Empty
      BY <2>1, <1>1, <1>2
    <3>4. T[Probe(c, k)] # Empty
      BY <3>1, <3>2, <3>3, <2>1, TableParts DEF Reached
    <3>5. T[Probe(c, k)].key = c
      BY <3>1, <3>4, <1>2
    <3>6. T[Probe(c, k)].slot \in CaptureSlots
      BY <3>1, <3>4, <1>1 DEF IsHash
    <3>7. t.slots[T[Probe(c, k)].slot].ptr = c /\ t.slots[T[Probe(c, k)].slot].hashIndex = Probe(c, k)
      BY <3>1, <3>4, <3>5, <3>6, TableParts DEF Agrees
    <3>8. T[Probe(c, k)].slot = i
      <4> DEFINE j == T[Probe(c, k)].slot
      <4>1. Ptrs(t.slots)[j] = c /\ Ptrs(t.slots)[i] = c /\ OneSlotEach(Ptrs(t.slots))
        BY <3>6, <3>7, <1>5, TableParts
      <4> HIDE DEF j
      <4>2. j \in CaptureSlots
        BY <3>6 DEF j
      <4> QED
        BY <4>1, <4>2, <1>1 DEF OneSlotEach, j
    <3>9. Probe(c, k) = b
      BY <3>7, <3>8 DEF b
    <3> QED
      BY <3>1, <3>9, <1>1, <2>1, BucketsAre DEF OnTheWay
  <2> HIDE DEF ends
  <2>5. First(ends) \in ends /\ First(ends) <= d
    BY <2>3, <1>3, FirstOf
  <2>6. First(ends) = d
    <3>1. First(ends) \in Nat /\ d \in Nat /\ ~(First(ends) < d)
      BY <2>3, <2>4, <2>5, <1>3
    <3> QED
      BY <3>1, <2>5
  <2> QED
    BY <2>3, <2>6, <2>1, <2>2, <1>4
<1>6. ASSUME \A i \in CaptureSlots : t.slots[i].ptr # c PROVE Lookup(T, c) = NoSlot
  <2>1. ASSUME ends # {} PROVE T[Probe(c, First(ends))].slot = NoSlot
    <3> DEFINE k == First(ends)
    <3>1. k \in ends
      <4> HIDE DEF ends
      <4> QED
        BY <1>3, <2>1, FirstOf
    <3> HIDE DEF k
    <3>2. k \in Buckets /\ Probe(c, k) \in Buckets /\ T[Probe(c, k)].key \in {c, NoChannel}
      BY <3>1, ProbeIs
    <3>3. T[Probe(c, k)].key # c
      <4>1. SUFFICES ASSUME T[Probe(c, k)].key = c PROVE FALSE
        OBVIOUS
      <4>2. T[Probe(c, k)] # Empty
        BY <4>1, <3>2, <1>1, <1>2
      <4>3. T[Probe(c, k)].slot \in CaptureSlots
        BY <4>2, <3>2, <1>1 DEF IsHash
      <4> QED
        BY <4>1, <4>2, <4>3, <3>2, <1>6, TableParts DEF Agrees
    <3>4. T[Probe(c, k)] = Empty
      BY <3>2, <3>3, <1>2
    <3> QED
      BY <3>4 DEF Empty, k
  <2> HIDE DEF ends
  <2> QED
    BY <2>1, <1>4
<1> QED
  BY <1>5, <1>6

\* What stays of a slot when another channel's entry is moved.
SameSound(a, b) ==
  /\ a.lastClock = b.lastClock /\ a.everMixed = b.everMixed /\ a.groupDiv = b.groupDiv /\ a.groupKnown = b.groupKnown
  /\ a.lastGuid = b.lastGuid /\ a.fullStart = b.fullStart
SameSlot(a, b) == a.ptr = b.ptr /\ a.idleSince = b.idleSince /\ a.stageEnd = b.stageEnd /\ SameSound(a, b)
ReleasedFrom(t, r, i) ==
  /\ r \in SlotTables /\ r.free = Append(t.free, i)
  /\ \A j \in CaptureSlots \ {i} : SameSlot(r.slots[j], t.slots[j])
  /\ SameSound(r.slots[i], t.slots[i]) /\ r.slots[i].ptr = NoChannel /\ r.slots[i].stageEnd = 0 /\ r.slots[i].idleSince = 0

LEMMA ShiftingHas ==
  ASSUME NEW K \in [Buckets -> [key : EngineChannels \union {NoChannel}, slot : CaptureSlots \union {NoSlot}]],
         NEW idx \in [CaptureSlots -> Buckets \union {NoSlot}], NEW hole \in Buckets, NEW next \in Buckets
  PROVE  [hash |-> K, index |-> idx, hole |-> hole, next |-> next] \in Shifting
  BY DEF Shifting

\* The table before the loop, the slot's own entry taken out.
LEMMA LoopStarts ==
  ASSUME NEW t \in SlotTables, NEW i \in CaptureSlots, t.slots[i].ptr # NoChannel, NEW s,
         s = [hash |-> [t.hash EXCEPT ![t.slots[i].hashIndex] = Empty], index |-> [j \in CaptureSlots |-> t.slots[j].hashIndex],
              hole |-> t.slots[i].hashIndex, next |-> (t.slots[i].hashIndex + 1) % HashSize]
  PROVE  s \in Shifting /\ \E e \in Buckets : LoopOK(s, [Ptrs(t.slots) EXCEPT ![i] = NoChannel], e)
<1> DEFINE T == t.hash
           hole == t.slots[i].hashIndex
           idx == HashIndexes(t.slots)
           ptr == [Ptrs(t.slots) EXCEPT ![i] = NoChannel]
           K == [T EXCEPT ![hole] = Empty]
<1>1. /\ T \in [Buckets -> HashEntries] /\ IsHash(T) /\ Reached(T, NoSlot) /\ Agrees(T, idx, Ptrs(t.slots))
      /\ OneSlotEach(Ptrs(t.slots)) /\ Ptrs(t.slots) \in Pointers /\ idx \in [CaptureSlots -> Buckets \union {NoSlot}]
      /\ \A j \in CaptureSlots : Ptrs(t.slots)[j] = t.slots[j].ptr /\ idx[j] = t.slots[j].hashIndex
  BY TableParts, PtrsType
<1>2. hole \in Buckets /\ T[hole].slot = i /\ T[hole].key = t.slots[i].ptr
  BY <1>1 DEF Agrees
<1>3. (hole + 1) % HashSize \in Buckets /\ (hole + 1) % HashSize = IF hole + 1 = HashSize THEN 0 ELSE hole + 1
  BY <1>2, Onward
<1>4. Empty \in HashEntries
  BY DEF Empty, HashEntries
<1>5. K \in [Buckets -> HashEntries] /\ K[hole] = Empty /\ \A b \in Buckets : b # hole => K[b] = T[b]
  BY <1>1, <1>2, <1>4
<1>6. s.hash = K /\ s.index = idx /\ s.hole = hole /\ s.next = (hole + 1) % HashSize
  BY DEF HashIndexes
<1> HIDE DEF T, hole, idx, K
<1>7. s \in Shifting
  <2>1. s = [hash |-> K, index |-> idx, hole |-> hole, next |-> (hole + 1) % HashSize]
    BY DEF K, T, idx, hole, HashIndexes
  <2>2. /\ K \in [Buckets -> [key : EngineChannels \union {NoChannel}, slot : CaptureSlots \union {NoSlot}]]
        /\ idx \in [CaptureSlots -> Buckets \union {NoSlot}] /\ hole \in Buckets /\ (hole + 1) % HashSize \in Buckets
    BY <1>1, <1>2, <1>3, <1>5 DEF HashEntries
  <2> DEFINE next == (hole + 1) % HashSize
  <2> HIDE DEF next
  <2>3. s = [hash |-> K, index |-> idx, hole |-> hole, next |-> next]
    BY <2>1 DEF next
  <2>4. next \in Buckets
    BY <2>2 DEF next
  <2> QED
    BY <2>2, <2>3, <2>4, ShiftingHas
<1>8. PICK e \in Buckets : T[e] = Empty
  BY HasGap DEF T
<1>9. hole # e
  <2>1. T[hole].key # NoChannel
    BY <1>2
  <2> QED
    BY <2>1, <1>8 DEF Empty
<1>10. ptr \in Pointers /\ ptr[i] = NoChannel /\ \A j \in CaptureSlots : j # i => ptr[j] = Ptrs(t.slots)[j]
  BY <1>1 DEF Pointers
<1> HIDE DEF ptr
<1>11. IsHash(K)
  <2> SUFFICES ASSUME NEW b \in Buckets, K[b] # Empty PROVE K[b].key \in EngineChannels /\ K[b].slot \in CaptureSlots
    BY <1>5 DEF IsHash
  <2> QED
    BY <1>1, <1>5 DEF IsHash
<1>12. Agrees(K, idx, ptr)
  <2>1. ASSUME NEW j \in CaptureSlots, ptr[j] # NoChannel
        PROVE  idx[j] \in Buckets /\ K[idx[j]].key = ptr[j] /\ K[idx[j]].slot = j
    <3>1. j # i /\ ptr[j] = Ptrs(t.slots)[j]
      BY <2>1, <1>10
    <3>2. idx[j] \in Buckets /\ T[idx[j]].key = ptr[j] /\ T[idx[j]].slot = j
      BY <3>1, <2>1, <1>1 DEF Agrees
    <3>3. idx[j] # hole
      BY <3>1, <3>2, <1>2
    <3> QED
      BY <3>2, <3>3, <1>5
  <2>2. ASSUME NEW b \in Buckets, K[b] # Empty PROVE ptr[K[b].slot] = K[b].key /\ idx[K[b].slot] = b
    <3>1. b # hole /\ K[b] = T[b] /\ T[b].slot \in CaptureSlots
      BY <2>2, <1>1, <1>5 DEF IsHash
    <3>2. Ptrs(t.slots)[T[b].slot] = T[b].key /\ idx[T[b].slot] = b
      BY <3>1, <2>2, <1>1 DEF Agrees
    <3>3. T[b].slot # i
      BY <3>1, <3>2, <1>1 DEF hole
    <3> QED
      BY <3>1, <3>2, <3>3, <1>10
  <2> QED
    BY <2>1, <2>2 DEF Agrees
<1>13. Reached(K, hole)
  <2> SUFFICES ASSUME NEW b \in Buckets, NEW x \in Buckets, K[b] # Empty, OnTheWay(Home[K[b].key], x, b), x # hole
               PROVE  K[x] # Empty
    BY DEF Reached
  <2>1. K[b] = T[b] /\ K[x] = T[x] /\ x # NoSlot
    BY <1>5, BucketsAre DEF NoSlot
  <2> QED
    BY <2>1, <1>1 DEF Reached
<1>14. ASSUME NEW x \in Buckets PROVE ~Inside(hole, x, (hole + 1) % HashSize)
  BY <1>2, <1>3, BucketsAre, TableNumbers DEF Inside
<1>15. LoopOK(s, ptr, e)
  BY <1>5, <1>6, <1>7, <1>8, <1>9, <1>11, <1>12, <1>13, <1>14 DEF LoopOK
<1> QED
  BY <1>7, <1>15 DEF ptr

\* Released, a slot leaves a table that still finds every other one.
LEMMA ReleaseKeeps ==
  ASSUME NEW t \in SlotTables, NEW i \in CaptureSlots, t.slots[i].ptr # NoChannel
  PROVE  ReleasedFrom(t, ReleaseSlot(t, i), i)
<1> DEFINE s0 == [hash |-> [t.hash EXCEPT ![t.slots[i].hashIndex] = Empty], index |-> [j \in CaptureSlots |-> t.slots[j].hashIndex],
                  hole |-> t.slots[i].hashIndex, next |-> (t.slots[i].hashIndex + 1) % HashSize]
           s == Shifted[s0]
           ptr == [Ptrs(t.slots) EXCEPT ![i] = NoChannel]
           shifted == [j \in CaptureSlots |-> [t.slots[j] EXCEPT !.hashIndex = s.index[j]]]
           new == [shifted EXCEPT ![i] = [ResetStage(@) EXCEPT !.hashIndex = NoSlot, !.ptr = NoChannel, !.idleSince = 0]]
           r == [hash |-> s.hash, free |-> Append(t.free, i), slots |-> new]
<1>1. ReleaseSlot(t, i) = r
  BY Zenon DEF ReleaseSlot
<1>2. s0 \in Shifting /\ \E e \in Buckets : LoopOK(s0, ptr, e)
  <2> HIDE DEF s0
  <2>1. s0 = s0
    OBVIOUS
  <2> QED
    BY LoopStarts, <2>1 DEF s0
<1>3. /\ t.slots \in SlotArrays /\ t.free \in Seq(CaptureSlots) /\ FreeOK(t.free, Ptrs(t.slots)) /\ OneSlotEach(Ptrs(t.slots)) /\ Ptrs(t.slots) \in Pointers
      /\ \A j \in CaptureSlots : Ptrs(t.slots)[j] = t.slots[j].ptr
  BY TableParts
<1>4. ptr \in Pointers /\ ptr[i] = NoChannel /\ \A j \in CaptureSlots : j # i => ptr[j] = t.slots[j].ptr
  BY <1>3 DEF Pointers
<1> HIDE DEF s0, ptr
<1>5. s \in Shifting /\ IsHash(s.hash) /\ Agrees(s.hash, s.index, ptr) /\ Reached(s.hash, NoSlot)
  <2>1. PICK e \in Buckets : LoopOK(s0, ptr, e)
    BY <1>2
  <2>2. s \in Shifting /\ LoopOK(s, ptr, e) /\ Stops(s)
    BY <2>1, <1>2, <1>4, LoopRuns
  <2> HIDE DEF s
  <2> QED
    BY <2>2, <1>4, NothingIsCutOff DEF LoopOK
<1> HIDE DEF s
<1>6. s.hash \in [Buckets -> HashEntries] /\ s.index \in [CaptureSlots -> Buckets \union {NoSlot}]
  BY <1>5, ShiftingIs
<1>7. \A j \in CaptureSlots : t.slots[j] \in SlotRecords
  BY <1>3 DEF SlotArrays
<1>8. \A j \in CaptureSlots : /\ shifted[j] \in SlotRecords /\ SameSlot(shifted[j], t.slots[j]) /\ shifted[j].hashIndex = s.index[j]
  <2> SUFFICES ASSUME NEW j \in CaptureSlots
               PROVE  shifted[j] \in SlotRecords /\ SameSlot(shifted[j], t.slots[j]) /\ shifted[j].hashIndex = s.index[j]
    OBVIOUS
  <2>1. s.index[j] \in Buckets \union {NoSlot} /\ t.slots[j] \in SlotRecords /\ shifted[j] = [t.slots[j] EXCEPT !.hashIndex = s.index[j]]
    BY <1>6, <1>7
  <2> HIDE DEF shifted
  <2> QED
    BY <2>1 DEF SlotRecords, SameSlot, SameSound
<1>9. /\ new \in SlotArrays
      /\ \A j \in CaptureSlots : j # i => new[j] = shifted[j]
      /\ SameSound(new[i], shifted[i]) /\ new[i].ptr = NoChannel /\ new[i].stageEnd = 0 /\ new[i].idleSince = 0 /\ new[i].hashIndex = NoSlot
  <2> DEFINE last == [ResetStage(shifted[i]) EXCEPT !.hashIndex = NoSlot, !.ptr = NoChannel, !.idleSince = 0]
  <2>1. shifted[i] \in SlotRecords
    BY <1>8
  <2>2. DOMAIN shifted = CaptureSlots /\ \A j \in CaptureSlots : shifted[j] \in SlotRecords
    BY <1>8
  <2>3. new = [shifted EXCEPT ![i] = last]
    OBVIOUS
  <2> HIDE DEF new, shifted
  <2>4. /\ last \in SlotRecords /\ SameSound(last, shifted[i]) /\ last.ptr = NoChannel /\ last.stageEnd = 0 /\ last.idleSince = 0
        /\ last.hashIndex = NoSlot
    BY <2>1 DEF SlotRecords, ResetStage, SameSound
  <2> HIDE DEF last
  <2>5. shifted \in [CaptureSlots -> SlotRecords]
    BY <2>2, <1>8 DEF shifted
  <2>6. new \in [CaptureSlots -> SlotRecords] /\ new[i] = last /\ \A j \in CaptureSlots : j # i => new[j] = shifted[j]
    BY <2>3, <2>4, <2>5
  <2> QED
    BY <2>4, <2>6 DEF SlotArrays
<1> HIDE DEF new, shifted
<1>10. r.slots = new /\ r.hash = s.hash /\ r.free = Append(t.free, i) /\ Append(t.free, i) \in Seq(CaptureSlots)
  BY <1>3
<1>11. Ptrs(new) = ptr
  <2>1. Ptrs(new) \in Pointers /\ \A j \in CaptureSlots : Ptrs(new)[j] = new[j].ptr
    BY <1>9, PtrsType
  <2>2. \A j \in CaptureSlots : new[j].ptr = ptr[j]
    BY <1>4, <1>8, <1>9 DEF SameSlot
  <2> QED
    BY <2>1, <2>2, <1>4 DEF Pointers
<1>12. Agrees(s.hash, HashIndexes(new), ptr)
  <2>1. \A j \in CaptureSlots : HashIndexes(new)[j] = new[j].hashIndex
    BY <1>9, PtrsType
  <2>2. \A j \in CaptureSlots : j # i => HashIndexes(new)[j] = s.index[j]
    BY <2>1, <1>8, <1>9
  <2>3. ASSUME NEW b \in Buckets, s.hash[b] # Empty PROVE ptr[s.hash[b].slot] = s.hash[b].key /\ HashIndexes(new)[s.hash[b].slot] = b
    <3>1. s.hash[b].slot \in CaptureSlots /\ s.hash[b].key \in EngineChannels /\ ptr[s.hash[b].slot] = s.hash[b].key /\ s.index[s.hash[b].slot] = b
      BY <2>3, <1>5 DEF IsHash, Agrees
    <3>2. s.hash[b].slot # i
      BY <3>1, <1>4, TableAssumption
    <3> QED
      BY <3>1, <3>2, <2>2
  <2>4. ASSUME NEW j \in CaptureSlots, ptr[j] # NoChannel
        PROVE  HashIndexes(new)[j] \in Buckets /\ s.hash[HashIndexes(new)[j]].key = ptr[j] /\ s.hash[HashIndexes(new)[j]].slot = j
    BY <2>4, <2>2, <1>4, <1>5 DEF Agrees
  <2> QED
    BY <2>3, <2>4 DEF Agrees
<1>13. OneSlotEach(ptr)
  BY <1>3, <1>4 DEF OneSlotEach
<1>14. FreeOK(Append(t.free, i), ptr)
  <2>1. \A k \in DOMAIN t.free : t.free[k] # i
    BY <1>3 DEF FreeOK
  <2>2. /\ DOMAIN Append(t.free, i) = 1 .. Len(t.free) + 1 /\ Append(t.free, i)[Len(t.free) + 1] = i
        /\ \A k \in DOMAIN t.free : Append(t.free, i)[k] = t.free[k]
        /\ DOMAIN t.free = 1 .. Len(t.free) /\ Len(t.free) \in Nat
    BY <1>3
  <2> DEFINE q == Append(t.free, i)
  <2> HIDE DEF q
  <2>3. \A k, l \in DOMAIN q : q[k] = q[l] => k = l
    <3> SUFFICES ASSUME NEW k \in DOMAIN q, NEW l \in DOMAIN q, q[k] = q[l] PROVE k = l
      OBVIOUS
    <3>1. (k = Len(t.free) + 1 \/ k \in DOMAIN t.free) /\ (l = Len(t.free) + 1 \/ l \in DOMAIN t.free)
      BY <2>2 DEF q
    <3> QED
      BY <3>1, <2>1, <2>2, <1>3 DEF FreeOK, q
  <2>4. ASSUME NEW j \in CaptureSlots PROVE ptr[j] = NoChannel <=> \E k \in DOMAIN q : q[k] = j
    <3>1. CASE j = i
      <4>1. Len(t.free) + 1 \in DOMAIN q /\ q[Len(t.free) + 1] = i
        BY <2>2 DEF q
      <4> QED
        BY <4>1, <3>1, <1>4
    <3>2. CASE j # i
      <4>1. ptr[j] = NoChannel <=> \E k \in DOMAIN t.free : t.free[k] = j
        BY <3>2, <1>3, <1>4 DEF FreeOK
      <4>2. \A k \in DOMAIN q : q[k] = j => k \in DOMAIN t.free
        BY <3>2, <2>2 DEF q
      <4>3. \A k \in DOMAIN t.free : k \in DOMAIN q /\ q[k] = t.free[k]
        BY <2>2 DEF q
      <4> QED
        BY <4>1, <4>2, <4>3
    <3> QED
      BY <3>1, <3>2
  <2> QED
    BY <2>3, <2>4, <1>10 DEF FreeOK, q
<1>15. r \in SlotTables
  <2>1. TableOK(r)
    BY <1>5, <1>10, <1>11, <1>12, <1>13, <1>14 DEF TableOK, HashOK
  <2> QED
    BY <2>1, <1>6, <1>9, <1>10 DEF SlotTables
<1> HIDE DEF r
<1>16. SameSound(r.slots[i], t.slots[i])
  BY <1>8, <1>9, <1>10 DEF SameSlot, SameSound
<1>17. \A j \in CaptureSlots \ {i} : SameSlot(r.slots[j], t.slots[j])
  BY <1>8, <1>9, <1>10
<1> QED
  BY <1>1, <1>9, <1>10, <1>15, <1>16, <1>17 DEF ReleasedFrom

LEMMA VictimIs ==
  ASSUME NEW t \in SlotTables
  PROVE  Victim(t) \in CaptureSlots /\ \A j \in CaptureSlots : t.slots[Victim(t)].lastClock <= t.slots[j].lastClock
<1> DEFINE clocks == {t.slots[i].lastClock : i \in CaptureSlots}
           oldest == {i \in CaptureSlots : \A j \in CaptureSlots : t.slots[i].lastClock <= t.slots[j].lastClock}
<1>1. \A i \in CaptureSlots : t.slots[i].lastClock \in Nat
  BY TableParts, RecordIs DEF SlotArrays
<1>2. 0 \in CaptureSlots
  BY TableNumbers DEF CaptureSlots
<1>3. clocks \subseteq Nat /\ clocks # {}
  BY <1>1, <1>2
<1>4. First(clocks) \in clocks /\ \A l \in clocks : First(clocks) <= l
  <2> HIDE DEF clocks
  <2> QED
    BY <1>3, FirstOf
<1>5. PICK i \in CaptureSlots : t.slots[i].lastClock = First(clocks)
  BY <1>4
<1>6. i \in oldest
  BY <1>4, <1>5
<1>7. oldest \subseteq Nat
  BY CaptureSlotsAre
<1>8. First(oldest) \in oldest
  <2> HIDE DEF oldest
  <2>1. oldest # {} /\ oldest \in SUBSET Nat
    BY <1>6, <1>7
  <2> QED
    BY <2>1, FirstOf
<1> QED
  BY <1>8, Zenon DEF Victim

LEMMA ProbeDistance ==
  ASSUME NEW c \in EngineChannels, NEW k \in Buckets
  PROVE  Distance(Home[c], Probe(c, k)) = k
<1>1. /\ Home[c] \in Buckets /\ Probe(c, k) \in Buckets
      /\ Probe(c, k) = IF Home[c] + k < HashSize THEN Home[c] + k ELSE Home[c] + k - HashSize
  BY ProbeIs
<1> QED
  BY <1>1, BucketsAre, TableNumbers DEF Distance

\* The entry of a channel goes into the first gap it is probed in.
LEMMA GapIs ==
  ASSUME NEW t \in SlotTables, NEW c \in EngineChannels
  PROVE  /\ Gap(t.hash, c) \in Buckets /\ t.hash[Gap(t.hash, c)] = Empty
         /\ \A x \in Buckets : OnTheWay(Home[c], x, Gap(t.hash, c)) => t.hash[x] # Empty
<1> DEFINE T == t.hash
           gaps == {k \in Buckets : T[Probe(c, k)].key = NoChannel}
           m == First(gaps)
<1>1. IsHash(T) /\ \A b \in Buckets : T[b].key = NoChannel <=> T[b] = Empty
  BY TableParts, TableAssumption DEF IsHash, Empty
<1>2. gaps # {}
  <2>1. PICK e \in Buckets : T[e] = Empty
    BY HasGap
  <2>2. Distance(Home[c], e) \in Buckets /\ Probe(c, Distance(Home[c], e)) = e
    BY ProbesBefore
  <2> QED
    BY <2>1, <2>2, <1>1
<1>3. gaps \subseteq Nat
  BY BucketsAre
<1>4. m \in gaps /\ \A l \in gaps : m <= l
  <2> HIDE DEF gaps
  <2> QED
    BY <1>2, <1>3, FirstOf
<1>5. Gap(T, c) = Probe(c, m)
  BY Zenon DEF Gap
<1> HIDE DEF m, T
<1>6. m \in Buckets /\ Probe(c, m) \in Buckets /\ T[Probe(c, m)] = Empty /\ Distance(Home[c], Probe(c, m)) = m
  BY <1>1, <1>4, ProbeIs, ProbeDistance
<1>7. ASSUME NEW x \in Buckets, OnTheWay(Home[c], x, Probe(c, m)), T[x] = Empty PROVE FALSE
  <2>1. Distance(Home[c], x) \in Buckets /\ Probe(c, Distance(Home[c], x)) = x
    BY ProbesBefore
  <2>2. Distance(Home[c], x) < m
    BY <1>6, <1>7, ProbesBefore
  <2>3. Distance(Home[c], x) \in gaps
    BY <2>1, <1>1, <1>7
  <2> QED
    BY <2>2, <2>3, <1>4, <2>1, <1>6, BucketsAre
<1> QED
  BY <1>5, <1>6, <1>7 DEF T

NewSlot(a, c, time, guid) ==
  /\ a.ptr = c /\ a.lastClock = time /\ ~a.everMixed /\ a.idleSince = 0 /\ a.groupDiv = 1 /\ ~a.groupKnown
  /\ a.lastGuid = guid /\ a.fullStart = 0
BoundAs(t, u, c, i) ==
  /\ u \in SlotTables
  /\ \A j \in CaptureSlots \ {i} : SameSlot(u.slots[j], t.slots[j])
  /\ NewSlot(u.slots[i], c, paintClock, sound[c].guid)
  /\ u.slots[i].stageEnd = IF t.slots[i].ptr = NoChannel THEN t.slots[i].stageEnd ELSE 0

Taken(r, i, c) ==
  LET h == Gap(r.hash, c)
  IN [hash |-> [r.hash EXCEPT ![h] = [key |-> c, slot |-> i]], free |-> SubSeq(r.free, 1, Len(r.free) - 1),
      slots |-> [r.slots EXCEPT ![i] = [BeginNewSound(@, c) EXCEPT !.hashIndex = h, !.idleSince = 0]]]

\* The slot freed last is taken.
LEMMA TakeKeeps ==
  ASSUME NEW r \in SlotTables, NEW c \in EngineChannels, \A j \in CaptureSlots : r.slots[j].ptr # c, r.free # <<>>,
         paintClock \in Nat, sound[c].guid \in Nat,
         NEW i, i = r.free[Len(r.free)]
  PROVE  /\ i \in CaptureSlots /\ r.slots[i].ptr = NoChannel /\ BoundAs(r, Taken(r, i, c), c, i)
         /\ Taken(r, i, c).slots[i].stageEnd = r.slots[i].stageEnd
<1> DEFINE u == Taken(r, i, c)
           h == Gap(r.hash, c)
           T == r.hash
           new == [BeginNewSound(r.slots[i], c) EXCEPT !.hashIndex = h, !.idleSince = 0]
           len == Len(r.free)
           q == SubSeq(r.free, 1, len - 1)
           ptr == Ptrs(r.slots)
           idx == HashIndexes(r.slots)
<1>1. /\ T \in [Buckets -> HashEntries] /\ r.slots \in SlotArrays /\ r.free \in Seq(CaptureSlots) /\ IsHash(T) /\ Reached(T, NoSlot)
      /\ Agrees(T, idx, ptr) /\ OneSlotEach(ptr) /\ FreeOK(r.free, ptr) /\ ptr \in Pointers
      /\ \A j \in CaptureSlots : ptr[j] = r.slots[j].ptr /\ idx[j] = r.slots[j].hashIndex
  BY TableParts
<1>2. h \in Buckets /\ T[h] = Empty /\ \A x \in Buckets : OnTheWay(Home[c], x, h) => T[x] # Empty
  BY GapIs
<1>3. len \in Nat /\ len > 0 /\ len \in DOMAIN r.free /\ DOMAIN r.free = 1 .. len
  BY <1>1
<1>4. i \in CaptureSlots /\ ptr[i] = NoChannel
  BY <1>1, <1>3 DEF FreeOK
<1> HIDE DEF T, ptr, idx, len, h
<1>5. r.slots \in [CaptureSlots -> SlotRecords] /\ r.slots[i] \in SlotRecords
  BY <1>1, <1>4 DEF SlotArrays
<1>6. /\ new \in SlotRecords /\ NewSlot(new, c, paintClock, sound[c].guid) /\ new.stageEnd = r.slots[i].stageEnd /\ new.hashIndex = h
      /\ new.ptr = c
  BY <1>2, <1>5 DEF SlotRecords, BeginNewSound, NewSlot, Groups
<1>7. u.slots = [r.slots EXCEPT ![i] = new] /\ u.hash = [T EXCEPT ![h] = [key |-> c, slot |-> i]] /\ u.free = q
  BY DEF T, len, h, Taken
<1> HIDE DEF new, q, u, h
<1>8. u.slots \in SlotArrays /\ u.slots[i] = new /\ \A j \in CaptureSlots : j # i => u.slots[j] = r.slots[j]
  BY <1>4, <1>5, <1>6, <1>7 DEF SlotArrays
<1>9. [key |-> c, slot |-> i] \in HashEntries /\ [key |-> c, slot |-> i] # Empty
  BY <1>4, TableAssumption DEF HashEntries, Empty
<1>10. /\ u.hash \in [Buckets -> HashEntries] /\ u.hash[h].key = c /\ u.hash[h].slot = i /\ u.hash[h] # Empty
       /\ \A b \in Buckets : b # h => u.hash[b] = T[b]
  BY <1>1, <1>2, <1>7, <1>9
<1> DEFINE ptr2 == Ptrs(u.slots)
           index2 == HashIndexes(u.slots)
<1>11. ptr2[i] = c /\ index2[i] = h /\ \A j \in CaptureSlots : j # i => ptr2[j] = ptr[j] /\ index2[j] = idx[j]
  <2>1. \A j \in CaptureSlots : ptr2[j] = u.slots[j].ptr /\ index2[j] = u.slots[j].hashIndex
    BY <1>8, PtrsType
  <2> HIDE DEF ptr2, index2
  <2> QED
    BY <2>1, <1>1, <1>4, <1>6, <1>8
<1>12. c # NoChannel /\ \A j \in CaptureSlots : ptr[j] # c
  BY <1>1, TableAssumption
<1> HIDE DEF ptr2, index2
<1>13. IsHash(u.hash)
  <2> SUFFICES ASSUME NEW b \in Buckets, u.hash[b] # Empty PROVE u.hash[b].key \in EngineChannels /\ u.hash[b].slot \in CaptureSlots
    BY <1>10 DEF IsHash
  <2> QED
    BY <1>1, <1>4, <1>10 DEF IsHash
<1>14. Agrees(u.hash, index2, ptr2)
  <2>1. ASSUME NEW j \in CaptureSlots, ptr2[j] # NoChannel
        PROVE  index2[j] \in Buckets /\ u.hash[index2[j]].key = ptr2[j] /\ u.hash[index2[j]].slot = j
    <3>1. CASE j = i
      BY <3>1, <1>2, <1>10, <1>11
    <3>2. CASE j # i
      <4>1. idx[j] \in Buckets /\ T[idx[j]].key = ptr[j] /\ T[idx[j]].slot = j /\ ptr[j] # NoChannel
        BY <3>2, <2>1, <1>1, <1>11 DEF Agrees
      <4>2. idx[j] # h
        BY <4>1, <1>2 DEF Empty
      <4> QED
        BY <4>1, <4>2, <3>2, <1>10, <1>11
    <3> QED
      BY <3>1, <3>2
  <2>2. ASSUME NEW b \in Buckets, u.hash[b] # Empty PROVE ptr2[u.hash[b].slot] = u.hash[b].key /\ index2[u.hash[b].slot] = b
    <3>1. CASE b = h
      BY <3>1, <1>10, <1>11
    <3>2. CASE b # h
      <4>1. u.hash[b] = T[b] /\ T[b] # Empty /\ T[b].slot \in CaptureSlots /\ T[b].key \in EngineChannels
        BY <3>2, <2>2, <1>1, <1>10 DEF IsHash
      <4>2. ptr[T[b].slot] = T[b].key /\ idx[T[b].slot] = b
        BY <4>1, <1>1 DEF Agrees
      <4>3. T[b].slot # i
        BY <4>1, <4>2, <1>4, TableAssumption
      <4> QED
        BY <4>1, <4>2, <4>3, <1>11
    <3> QED
      BY <3>1, <3>2
  <2> QED
    BY <2>1, <2>2 DEF Agrees
<1>15. Reached(u.hash, NoSlot)
  <2> SUFFICES ASSUME NEW b \in Buckets, NEW x \in Buckets, u.hash[b] # Empty, OnTheWay(Home[u.hash[b].key], x, b), x # NoSlot
               PROVE  u.hash[x] # Empty
    BY DEF Reached
  <2>1. CASE x = h
    BY <2>1, <1>10
  <2>2. CASE x # h /\ b = h
    BY <2>2, <1>2, <1>10
  <2>3. CASE x # h /\ b # h
    BY <2>3, <1>1, <1>10 DEF Reached
  <2> QED
    BY <2>1, <2>2, <2>3
<1>16. OneSlotEach(ptr2)
  BY <1>1, <1>11, <1>12 DEF OneSlotEach
<1>17. FreeOK(q, ptr2)
  <2>1. q \in Seq(CaptureSlots) /\ DOMAIN q = 1 .. len - 1 /\ \A k \in 1 .. len - 1 : q[k] = r.free[k]
    BY <1>1, <1>3 DEF q, len
  <2>2. \A k, l \in DOMAIN q : q[k] = q[l] => k = l
    BY <2>1, <1>1, <1>3 DEF FreeOK
  <2>3. ASSUME NEW j \in CaptureSlots PROVE ptr2[j] = NoChannel <=> \E k \in DOMAIN q : q[k] = j
    <3>1. CASE j = i
      <4>1. ASSUME NEW k \in DOMAIN q, q[k] = i PROVE FALSE
        <5>1. k \in DOMAIN r.free /\ r.free[k] = r.free[len] /\ k # len
          BY <4>1, <2>1, <1>3 DEF len
        <5> QED
          BY <5>1, <1>1, <1>3 DEF FreeOK
      <4> QED
        BY <4>1, <3>1, <1>11, <1>12
    <3>2. CASE j # i
      <4>1. ptr2[j] = NoChannel <=> \E k \in DOMAIN r.free : r.free[k] = j
        BY <3>2, <1>1, <1>11 DEF FreeOK
      <4>2. \A k \in DOMAIN r.free : r.free[k] = j => k \in DOMAIN q /\ q[k] = j
        <5> SUFFICES ASSUME NEW k \in DOMAIN r.free, r.free[k] = j PROVE k \in DOMAIN q /\ q[k] = j
          OBVIOUS
        <5>1. k # len
          BY <3>2 DEF len
        <5> QED
          BY <5>1, <2>1, <1>3
      <4>3. \A k \in DOMAIN q : k \in DOMAIN r.free /\ q[k] = r.free[k]
        BY <2>1, <1>3
      <4> QED
        BY <4>1, <4>2, <4>3
    <3> QED
      BY <3>1, <3>2
  <2> QED
    BY <2>1, <2>2, <2>3 DEF FreeOK
<1>18. u \in SlotTables
  <2>1. TableOK(u)
    BY <1>7, <1>13, <1>14, <1>15, <1>16, <1>17 DEF TableOK, HashOK, ptr2, index2
  <2>2. q \in Seq(CaptureSlots)
    BY <1>17 DEF FreeOK
  <2> DEFINE K == u.hash
             S == u.slots
  <2>3. u = [hash |-> K, free |-> q, slots |-> S]
    BY DEF u, h, q, len, T, new, Taken
  <2>4. K \in [Buckets -> HashEntries] /\ S \in SlotArrays
    BY <1>8, <1>10
  <2> HIDE DEF K, S
  <2>5. [hash |-> K, free |-> q, slots |-> S] \in [hash : [Buckets -> HashEntries], slots : SlotArrays, free : Seq(CaptureSlots)]
    BY <2>2, <2>4
  <2> QED
    BY <2>1, <2>3, <2>5, Zenon DEF SlotTables
<1>19. \A j \in CaptureSlots \ {i} : SameSlot(u.slots[j], r.slots[j])
  BY <1>8 DEF SameSlot, SameSound
<1> QED
  BY <1>1, <1>4, <1>6, <1>8, <1>18, <1>19 DEF BoundAs, u

MayGo(t, i) ==
  \/ t.slots[i].ptr = NoChannel
  \/ (\A j \in CaptureSlots : t.slots[j].ptr # NoChannel) /\ \A j \in CaptureSlots : t.slots[i].lastClock <= t.slots[j].lastClock

\* A free slot, or the one that was mixed the longest ago.
LEMMA AllocateBinds ==
  ASSUME NEW t \in SlotTables, NEW c \in EngineChannels, \A j \in CaptureSlots : t.slots[j].ptr # c,
         paintClock \in Nat, sound[c].guid \in Nat
  PROVE  \E i \in CaptureSlots : BoundAs(t, AllocateSlot(t, c), c, i) /\ MayGo(t, i)
<1> DEFINE r == IF t.free = <<>> THEN ReleaseSlot(t, Victim(t)) ELSE t
           i == r.free[Len(r.free)]
           u == Taken(r, i, c)
<1>1. AllocateSlot(t, c) = u
  BY Zenon DEF AllocateSlot, Taken
<1>0. ASSUME r.free # <<>>, r \in SlotTables, \A j \in CaptureSlots : r.slots[j].ptr # c
      PROVE  i \in CaptureSlots /\ r.slots[i].ptr = NoChannel /\ BoundAs(r, u, c, i) /\ u.slots[i].stageEnd = r.slots[i].stageEnd
  <2> HIDE DEF r
  <2> QED
    BY <1>0, TakeKeeps
<1> HIDE DEF u, i
<1>2. CASE t.free # <<>>
  <2>1. r = t
    BY <1>2
  <2> HIDE DEF r
  <2>2. i \in CaptureSlots /\ r.slots[i].ptr = NoChannel /\ BoundAs(r, u, c, i)
    BY <2>1, <1>0, <1>2
  <2> QED
    BY <2>1, <2>2, <1>1 DEF MayGo
<1>3. CASE t.free = <<>>
  <2> DEFINE v == Victim(t)
  <2>1. r = ReleaseSlot(t, v)
    BY <1>3
  <2>2. v \in CaptureSlots /\ \A j \in CaptureSlots : t.slots[v].lastClock <= t.slots[j].lastClock
    BY VictimIs
  <2> HIDE DEF r, v
  <2>3. \A j \in CaptureSlots : t.slots[j].ptr # NoChannel
    BY <1>3, TableParts DEF FreeOK
  <2>4. ReleasedFrom(t, r, v)
    BY <2>1, <2>2, <2>3, ReleaseKeeps
  <2>5. r.free = <<v>>
    BY <2>4, <1>3, <2>2 DEF ReleasedFrom
  <2>6. r \in SlotTables /\ r.free # <<>> /\ i = v
    BY <2>4, <2>5 DEF ReleasedFrom, i
  <2>7. \A j \in CaptureSlots : r.slots[j].ptr # c
    BY <2>4, TableAssumption DEF ReleasedFrom, SameSlot
  <2>8. BoundAs(r, u, c, i) /\ u.slots[i].stageEnd = r.slots[i].stageEnd
    BY <2>6, <2>7, <1>0
  <2>9. BoundAs(t, u, c, v)
    <3>1. /\ u \in SlotTables /\ NewSlot(u.slots[v], c, paintClock, sound[c].guid)
          /\ \A j \in CaptureSlots \ {v} : SameSlot(u.slots[j], r.slots[j])
      BY <2>6, <2>8 DEF BoundAs
    <3>2. u.slots[v].stageEnd = 0 /\ t.slots[v].ptr # NoChannel
      BY <2>2, <2>3, <2>4, <2>6, <2>8 DEF ReleasedFrom
    <3>3. \A j \in CaptureSlots \ {v} : SameSlot(u.slots[j], t.slots[j])
      BY <3>1, <2>4 DEF ReleasedFrom, SameSlot, SameSound
    <3> QED
      BY <3>1, <3>2, <3>3 DEF BoundAs
  <2> QED
    BY <2>2, <2>3, <2>9, <1>1 DEF MayGo
<1> QED
  BY <1>2, <1>3

-----------------------------------------------------------------------------
(* The steps of the mixer                                                    *)

TheTable == [hash |-> hash, slots |-> captureSlots, free |-> free]
MixerTypeOK ==
  /\ paintClock \in Nat /\ iteration \in {0} \union Lengths
  /\ stagedSlots \in Seq(CaptureSlots) /\ sound \in [EngineChannels -> [guid : Nat, group : Groups]]

\* A slot before its first commit knows nothing; one that began with a full
\* block knows the group of the sound it is on.
GroupKnown(mine) ==
  /\ ~mine.everMixed => ~mine.groupKnown /\ mine.groupDiv = 1 /\ mine.fullStart = 0
  /\ mine.ptr # NoChannel =>
       /\ mine.lastGuid <= sound[mine.ptr].guid
       /\ mine.fullStart # 0 =>
            mine.groupKnown /\ mine.groupDiv = mine.fullStart /\ (mine.lastGuid = sound[mine.ptr].guid => sound[mine.ptr].group = mine.fullStart)
IsStaged(i) == \E k \in DOMAIN stagedSlots : stagedSlots[k] = i
StageOK(mine) ==
  mine.stageEnd > 0 =>
    /\ mine.ptr # NoChannel /\ mine.idleSince = 0 /\ mine.lastGuid = sound[mine.ptr].guid
    /\ iteration > 0 /\ mine.stageEnd <= iteration \div sound[mine.ptr].group

TableSafe ==
  /\ TheTable \in SlotTables /\ MixerTypeOK
  /\ \A i \in CaptureSlots : GroupKnown(captureSlots[i]) /\ StageOK(captureSlots[i]) /\ (captureSlots[i].stageEnd > 0 => IsStaged(i))

\* Slots may change but for whom they are bound to and where they are found.
LEMMA SameTable ==
  ASSUME NEW t \in SlotTables, NEW records \in SlotArrays,
         \A j \in CaptureSlots : records[j].ptr = t.slots[j].ptr /\ records[j].hashIndex = t.slots[j].hashIndex
  PROVE  [hash |-> t.hash, slots |-> records, free |-> t.free] \in SlotTables
<1> DEFINE u == [hash |-> t.hash, slots |-> records, free |-> t.free]
<1>1. /\ t.hash \in [Buckets -> HashEntries] /\ t.free \in Seq(CaptureSlots)
      /\ IsHash(t.hash) /\ Reached(t.hash, NoSlot) /\ Agrees(t.hash, HashIndexes(t.slots), Ptrs(t.slots))
      /\ OneSlotEach(Ptrs(t.slots)) /\ FreeOK(t.free, Ptrs(t.slots))
  BY TableParts
<1>2. Ptrs(records) = Ptrs(t.slots) /\ HashIndexes(records) = HashIndexes(t.slots)
  BY DEF Ptrs, HashIndexes
<1>3. u.hash = t.hash /\ u.slots = records /\ u.free = t.free
  OBVIOUS
<1>4. u \in [hash : [Buckets -> HashEntries], slots : SlotArrays, free : Seq(CaptureSlots)]
  BY <1>1
<1> HIDE DEF u
<1>5. TableOK(u)
  BY <1>1, <1>2, <1>3 DEF TableOK, HashOK
<1>6. u \in SlotTables
  BY <1>4, <1>5, Zenon DEF SlotTables
<1> QED
  BY <1>6 DEF u

LEMMA TheTableIs == TheTable.hash = hash /\ TheTable.slots = captureSlots /\ TheTable.free = free
  BY DEF TheTable

LEMMA SoundIs ==
  ASSUME MixerTypeOK, NEW c \in EngineChannels
  PROVE  sound[c].guid \in Nat /\ sound[c].group \in Groups
  BY DEF MixerTypeOK

LEMMA LengthsAre == \A len \in Lengths : len \in Nat /\ len > 0 /\ len % 4 = 0
  BY TableAssumption

LEMMA SafeSlots ==
  ASSUME TableSafe, NEW i \in CaptureSlots
  PROVE  captureSlots \in SlotArrays /\ captureSlots[i] \in SlotRecords
<1>1. TheTable.slots \in SlotArrays
  BY TableParts DEF TableSafe
<1> QED
  BY <1>1, TheTableIs DEF SlotArrays

\* Another sound begins in a channel.
LEMMA StartSoundSafe ==
  ASSUME TableSafe, NEW c \in EngineChannels, NEW guid \in 2 .. MaxGuid, NEW group \in Groups, StartSound(c, guid, group)
  PROVE  TableSafe'
<1>1. /\ iteration = 0 /\ \A d \in EngineChannels : sound[d].guid < guid
      /\ sound' = [sound EXCEPT ![c] = [guid |-> guid, group |-> group]]
      /\ UNCHANGED <<hash, captureSlots, free, stagedSlots, paintClock, iteration>>
  BY DEF StartSound
<1>2. guid \in Nat
  OBVIOUS
<1>3. TheTable' = TheTable
  BY <1>1 DEF TheTable
<1>4. sound' \in [EngineChannels -> [guid : Nat, group : Groups]] /\ \A d \in EngineChannels : d # c => sound'[d] = sound[d]
  BY <1>1, <1>2 DEF TableSafe, MixerTypeOK
<1>5. sound'[c].guid = guid
  BY <1>1 DEF TableSafe, MixerTypeOK
<1>6. MixerTypeOK'
  BY <1>1, <1>4 DEF TableSafe, MixerTypeOK
<1>7. ASSUME NEW i \in CaptureSlots
      PROVE  GroupKnown(captureSlots[i])' /\ StageOK(captureSlots[i])' /\ (captureSlots[i].stageEnd > 0 => IsStaged(i))'
  <2> DEFINE mine == captureSlots[i]
  <2>1. mine \in SlotRecords /\ GroupKnown(mine) /\ StageOK(mine) /\ captureSlots' = captureSlots
    BY <1>1, SafeSlots DEF TableSafe
  <2>2. mine.stageEnd \in Nat /\ mine.lastGuid \in Nat /\ mine.ptr \in EngineChannels \union {NoChannel}
    BY <2>1, RecordIs
  <2> HIDE DEF mine
  <2>3. ~(mine.stageEnd > 0)
    BY <2>1, <1>1 DEF StageOK
  <2>4. mine.ptr = c => mine.lastGuid < guid
    BY <2>1, <2>2, <1>1, <1>2, SoundIs, TableAssumption DEF TableSafe, GroupKnown
  <2>5. GroupKnown(mine)'
    <3>1. CASE mine.ptr = c
      <4>1. mine.lastGuid <= guid /\ mine.lastGuid # guid
        BY <3>1, <2>2, <2>4, <1>2
      <4>2. mine' = mine
        BY <1>1 DEF mine
      <4> QED
        BY <3>1, <4>1, <4>2, <2>1, <1>5 DEF GroupKnown
    <3>2. CASE mine.ptr # c
      <4>1. mine' = mine
        BY <1>1 DEF mine
      <4>2. mine.ptr # NoChannel => sound'[mine.ptr] = sound[mine.ptr]
        BY <3>2, <2>2, <1>4
      <4> QED
        BY <4>1, <4>2, <2>1 DEF GroupKnown
    <3> QED
      BY <3>1, <3>2
  <2>6. mine' = mine
    BY <1>1 DEF mine
  <2> QED
    BY <2>3, <2>5, <2>6 DEF StageOK, mine
<1> QED
  BY <1>3, <1>6, <1>7 DEF TableSafe

LEMMA OnMixBeginSafe ==
  ASSUME TableSafe, NEW len \in Lengths, OnMixBegin(len)
  PROVE  TableSafe'
<1>1. iteration = 0 /\ iteration' = len /\ UNCHANGED <<hash, captureSlots, free, stagedSlots, paintClock, sound>>
  BY DEF OnMixBegin
<1>2. TheTable' = TheTable
  BY <1>1 DEF TheTable
<1>3. MixerTypeOK'
  BY <1>1 DEF TableSafe, MixerTypeOK
<1>4. ASSUME NEW i \in CaptureSlots
      PROVE  GroupKnown(captureSlots[i])' /\ StageOK(captureSlots[i])' /\ (captureSlots[i].stageEnd > 0 => IsStaged(i))'
  <2>1. captureSlots' = captureSlots /\ sound' = sound
    BY <1>1
  <2>2. ~(captureSlots[i].stageEnd > 0)
    BY <1>1 DEF TableSafe, StageOK
  <2> QED
    BY <2>1, <2>2 DEF TableSafe, StageOK, GroupKnown
<1> QED
  BY <1>2, <1>3, <1>4 DEF TableSafe

\* How the slot of a channel is found or taken.
FoundOrBound(t, c, i) ==
  /\ t \in SlotTables /\ t.slots[i].ptr = c /\ Lookup(t.hash, c) = i
  /\ \/ t = TheTable
     \/ BoundAs(TheTable, t, c, i) /\ MayGo(TheTable, i) /\ \A j \in CaptureSlots : captureSlots[j].ptr # c

LEMMA LookupOrBindKeeps ==
  ASSUME TableSafe, NEW c \in EngineChannels
  PROVE  \E i \in CaptureSlots : FoundOrBound(LookupOrBind(TheTable, c), c, i)
<1>1. TheTable \in SlotTables /\ TheTable.slots = captureSlots /\ TheTable.hash = hash
  BY TheTableIs DEF TableSafe
<1>2. CASE \E i \in CaptureSlots : captureSlots[i].ptr = c
  <2>1. PICK i \in CaptureSlots : captureSlots[i].ptr = c
    BY <1>2
  <2>2. Lookup(hash, c) = i
    BY <2>1, <1>1, LookupFinds
  <2>3. i # NoSlot
    BY CaptureSlotsAre DEF NoSlot
  <2>4. LookupOrBind(TheTable, c) = TheTable
    BY <2>2, <2>3, <1>1, Zenon DEF LookupOrBind
  <2> QED
    BY <2>1, <2>2, <2>4, <1>1 DEF FoundOrBound
<1>3. CASE \A i \in CaptureSlots : captureSlots[i].ptr # c
  <2> DEFINE u == AllocateSlot(TheTable, c)
  <2>1. Lookup(hash, c) = NoSlot
    BY <1>3, <1>1, LookupFinds
  <2>2. LookupOrBind(TheTable, c) = u
    BY <2>1, <1>1, Zenon DEF LookupOrBind
  <2>3. paintClock \in Nat /\ sound[c].guid \in Nat
    BY SoundIs DEF TableSafe, MixerTypeOK
  <2>4. PICK i \in CaptureSlots : BoundAs(TheTable, u, c, i) /\ MayGo(TheTable, i)
    BY <1>1, <1>3, <2>3, AllocateBinds
  <2> HIDE DEF u
  <2>5. u \in SlotTables /\ u.slots[i].ptr = c
    BY <2>4 DEF BoundAs, NewSlot
  <2>6. Lookup(u.hash, c) = i
    BY <2>5, LookupFinds
  <2> QED
    BY <2>2, <2>4, <2>5, <2>6, <1>3 DEF FoundOrBound
<1> QED
  BY <1>2, <1>3

\* A slot that goes on as it was, or with another channel's entry moved.
LEMMA SameSlotKnows ==
  ASSUME NEW a, NEW b, SameSlot(a, b), GroupKnown(b), StageOK(b)
  PROVE  GroupKnown(a) /\ StageOK(a)
  BY DEF SameSlot, SameSound, GroupKnown, StageOK

Mixed(old, c) == [Renewed(old, c) EXCEPT !.idleSince = 0]

LEMMA MixedIs ==
  ASSUME MixerTypeOK, NEW c \in EngineChannels, NEW old \in SlotRecords, old.ptr = c, GroupKnown(old), StageOK(old)
  PROVE  /\ Mixed(old, c) \in SlotRecords /\ Mixed(old, c).ptr = c /\ Mixed(old, c).hashIndex = old.hashIndex
         /\ Mixed(old, c).lastClock = old.lastClock /\ Mixed(old, c).stageEnd = old.stageEnd /\ Mixed(old, c).idleSince = 0
         /\ Mixed(old, c).lastGuid = sound[c].guid /\ GroupKnown(Mixed(old, c)) /\ StageOK(Mixed(old, c))
<1> DEFINE new == Mixed(old, c)
           again == old.everMixed /\ (paintClock > old.lastClock + IdleSamples \/ sound[c].guid # old.lastGuid)
<1>1. sound[c].guid \in Nat /\ sound[c].group \in Groups /\ c # NoChannel
  BY SoundIs, TableAssumption
<1>2. CASE again
  <2>1. new = [[old EXCEPT !.everMixed = FALSE, !.groupDiv = 1, !.groupKnown = FALSE, !.fullStart = 0, !.lastGuid = sound[c].guid]
                EXCEPT !.idleSince = 0]
    BY <1>2, Zenon DEF Mixed, Renewed
  <2> HIDE DEF new
  <2>2. /\ new \in SlotRecords /\ new.ptr = c /\ new.hashIndex = old.hashIndex /\ new.lastClock = old.lastClock
        /\ new.stageEnd = old.stageEnd /\ new.idleSince = 0 /\ new.lastGuid = sound[c].guid
        /\ ~new.everMixed /\ ~new.groupKnown /\ new.groupDiv = 1 /\ new.fullStart = 0
    BY <2>1, <1>1 DEF SlotRecords, Groups
  <2>3. GroupKnown(new) /\ StageOK(new)
    BY <2>2, <1>1 DEF GroupKnown, StageOK
  <2> QED
    BY <2>2, <2>3 DEF new
<1>3. CASE ~again
  <2>1. new = [[old EXCEPT !.lastGuid = sound[c].guid] EXCEPT !.idleSince = 0]
    BY <1>3, Zenon DEF Mixed, Renewed
  <2> HIDE DEF new
  <2>2. /\ new \in SlotRecords /\ new.ptr = c /\ new.hashIndex = old.hashIndex /\ new.lastClock = old.lastClock
        /\ new.stageEnd = old.stageEnd /\ new.idleSince = 0 /\ new.lastGuid = sound[c].guid
        /\ new.everMixed = old.everMixed /\ new.groupKnown = old.groupKnown /\ new.groupDiv = old.groupDiv
        /\ new.fullStart = old.fullStart
    BY <2>1, <1>1 DEF SlotRecords
  <2>3. GroupKnown(new)
    BY <2>2, <1>1, <1>3 DEF GroupKnown
  <2>4. StageOK(new)
    BY <2>2 DEF StageOK
  <2> QED
    BY <2>2, <2>3, <2>4 DEF new
<1> QED
  BY <1>2, <1>3

\* What a block makes of the slots.
MixOutcome(c, i) ==
  /\ captureSlots'[i].ptr = c /\ \A j \in CaptureSlots \ {i} : captureSlots'[j].ptr = captureSlots[j].ptr /\ captureSlots'[j].lastClock = captureSlots[j].lastClock
  /\ \/ captureSlots[i].ptr = c /\ captureSlots'[i].lastClock = captureSlots[i].lastClock
     \/ /\ \A j \in CaptureSlots : captureSlots[j].ptr # c
        /\ MayGo(TheTable, i) /\ captureSlots'[i].lastClock = paintClock

LEMMA CaptureMixSafe ==
  ASSUME TableSafe, NEW c \in EngineChannels, NEW offset \in Nat, NEW amount \in Int, CaptureMix(c, offset, amount)
  PROVE  TableSafe' /\ \E i \in CaptureSlots : MixOutcome(c, i)
<1> DEFINE t == LookupOrBind(TheTable, c)
<1>1. PICK i \in CaptureSlots : FoundOrBound(t, c, i)
  BY LookupOrBindKeeps
<1> DEFINE old == t.slots[i]
           mine == Mixed(old, c)
           duplicate == mine.stageEnd > 0 /\ offset < mine.stageEnd
<1>2. /\ iteration > 0 /\ amount > 0 /\ offset + amount <= iteration \div sound[c].group
      /\ hash' = t.hash /\ free' = t.free
      /\ IF duplicate
         THEN captureSlots' = [t.slots EXCEPT ![i] = mine] /\ UNCHANGED stagedSlots
         ELSE /\ captureSlots' = [t.slots EXCEPT ![i] = [mine EXCEPT !.stageEnd = offset + amount]]
              /\ stagedSlots' = IF mine.stageEnd = 0 THEN Append(stagedSlots, i) ELSE stagedSlots
      /\ UNCHANGED <<paintClock, iteration, iterations, sound>>
  <2>1. Lookup(t.hash, c) = i
    BY <1>1 DEF FoundOrBound
  <2> QED
    BY <2>1, Zenon DEF CaptureMix, Mixed, TheTable
<1> HIDE DEF t
<1>3. /\ t \in SlotTables /\ t.slots \in SlotArrays /\ t.slots \in [CaptureSlots -> SlotRecords] /\ t.slots[i] \in SlotRecords /\ t.slots[i].ptr = c
      /\ t.hash \in [Buckets -> HashEntries] /\ t.free \in Seq(CaptureSlots)
  BY <1>1, TableParts DEF FoundOrBound, SlotArrays
<1>4. MixerTypeOK /\ \A j \in CaptureSlots : captureSlots[j] \in SlotRecords /\ GroupKnown(captureSlots[j]) /\ StageOK(captureSlots[j])
                       /\ (captureSlots[j].stageEnd > 0 => IsStaged(j))
  BY SafeSlots DEF TableSafe
<1>5. sound[c].guid \in Nat /\ sound[c].group \in Groups /\ c # NoChannel /\ iteration \in Nat
  BY <1>4, SoundIs, LengthsAre, TableAssumption DEF MixerTypeOK
<1>6. \A j \in CaptureSlots \ {i} : SameSlot(t.slots[j], captureSlots[j])
  BY <1>1, TheTableIs DEF FoundOrBound, BoundAs, SameSlot, SameSound
<1>7. /\ GroupKnown(old) /\ StageOK(old) /\ (old.stageEnd > 0 => IsStaged(i))
      /\ \/ captureSlots[i].ptr = c /\ old.lastClock = captureSlots[i].lastClock
         \/ (\A j \in CaptureSlots : captureSlots[j].ptr # c) /\ MayGo(TheTable, i) /\ old.lastClock = paintClock
  <2>1. CASE t = TheTable
    BY <2>1, <1>3, <1>4, TheTableIs
  <2>2. CASE BoundAs(TheTable, t, c, i) /\ MayGo(TheTable, i) /\ \A j \in CaptureSlots : captureSlots[j].ptr # c
    <3>1. /\ NewSlot(old, c, paintClock, sound[c].guid)
          /\ old.stageEnd = IF captureSlots[i].ptr = NoChannel THEN captureSlots[i].stageEnd ELSE 0
      BY <2>2, TheTableIs DEF BoundAs
    <3>2. captureSlots[i].ptr = NoChannel => captureSlots[i].stageEnd = 0
      BY <1>4, RecordIs DEF StageOK
    <3>3. old.stageEnd = 0
      BY <3>1, <3>2
    <3>4. old.ptr = c /\ ~old.everMixed /\ ~old.groupKnown /\ old.groupDiv = 1 /\ old.fullStart = 0 /\ old.lastGuid = sound[c].guid /\ old.lastClock = paintClock
      BY <3>1 DEF NewSlot
    <3> HIDE DEF old
    <3>5. GroupKnown(old) /\ StageOK(old)
      BY <3>3, <3>4, <1>5 DEF GroupKnown, StageOK
    <3> QED
      BY <2>2, <3>3, <3>4, <3>5
  <2> QED
    BY <2>1, <2>2, <1>1 DEF FoundOrBound
<1>8. /\ mine \in SlotRecords /\ mine.ptr = c /\ mine.hashIndex = old.hashIndex /\ mine.lastClock = old.lastClock
      /\ mine.stageEnd = old.stageEnd /\ mine.idleSince = 0 /\ mine.lastGuid = sound[c].guid /\ GroupKnown(mine) /\ StageOK(mine)
  BY <1>3, <1>4, <1>7, MixedIs
<1> DEFINE new == IF duplicate THEN mine ELSE [mine EXCEPT !.stageEnd = offset + amount]
<1>9. captureSlots' = [t.slots EXCEPT ![i] = new]
  BY <1>2
<1> HIDE DEF mine, old
<1>10. /\ new \in SlotRecords /\ new.ptr = c /\ new.hashIndex = old.hashIndex /\ new.lastClock = old.lastClock
       /\ new.idleSince = 0 /\ new.lastGuid = sound[c].guid /\ GroupKnown(new) /\ StageOK(new)
  <2>1. CASE duplicate
    BY <2>1, <1>8
  <2>2. CASE ~duplicate
    <3>1. new = [mine EXCEPT !.stageEnd = offset + amount]
      BY <2>2
    <3>2. offset + amount \in Nat
      BY <1>2
    <3> HIDE DEF new, duplicate
    <3>3. /\ new \in SlotRecords /\ new.ptr = c /\ new.hashIndex = old.hashIndex /\ new.lastClock = old.lastClock
          /\ new.idleSince = 0 /\ new.lastGuid = sound[c].guid /\ new.stageEnd = offset + amount
          /\ new.everMixed = mine.everMixed /\ new.groupKnown = mine.groupKnown /\ new.groupDiv = mine.groupDiv /\ new.fullStart = mine.fullStart
      BY <3>1, <3>2, <1>8 DEF SlotRecords
    <3>4. GroupKnown(new)
      BY <3>3, <1>8 DEF GroupKnown
    <3>5. StageOK(new)
      BY <3>3, <1>2, <1>5 DEF StageOK
    <3> QED
      BY <3>3, <3>4, <3>5
  <2> QED
    BY <2>1, <2>2
<1>11. stagedSlots' \in Seq(CaptureSlots) /\ (\A j \in CaptureSlots : IsStaged(j) => IsStaged(j)') /\ (new.stageEnd > 0 => IsStaged(i)')
  <2>1. stagedSlots \in Seq(CaptureSlots)
    BY <1>4 DEF MixerTypeOK
  <2>2. CASE duplicate
    BY <2>1, <2>2, <1>2, <1>7, <1>8 DEF IsStaged
  <2>3. CASE ~duplicate /\ mine.stageEnd # 0
    <3>1. mine.stageEnd > 0
      BY <2>3, <1>8, RecordIs
    <3> QED
      BY <2>1, <2>3, <3>1, <1>2, <1>7, <1>8 DEF IsStaged
  <2>4. CASE ~duplicate /\ mine.stageEnd = 0
    <3>1. stagedSlots' = Append(stagedSlots, i)
      BY <2>4, <1>2
    <3>2. /\ Append(stagedSlots, i) \in Seq(CaptureSlots) /\ DOMAIN Append(stagedSlots, i) = 1 .. Len(stagedSlots) + 1
          /\ Append(stagedSlots, i)[Len(stagedSlots) + 1] = i /\ DOMAIN stagedSlots = 1 .. Len(stagedSlots) /\ Len(stagedSlots) \in Nat
          /\ \A k \in DOMAIN stagedSlots : Append(stagedSlots, i)[k] = stagedSlots[k]
      BY <2>1
    <3> DEFINE q == Append(stagedSlots, i)
    <3> HIDE DEF q, new
    <3>3. Len(stagedSlots) + 1 \in DOMAIN q /\ \A k \in DOMAIN stagedSlots : k \in DOMAIN q
      BY <3>2 DEF q
    <3> QED
      BY <3>1, <3>2, <3>3 DEF IsStaged, q
  <2> QED
    BY <2>2, <2>3, <2>4
<1> HIDE DEF new, duplicate
<1>12. /\ captureSlots' \in SlotArrays /\ captureSlots'[i] = new
       /\ \A j \in CaptureSlots : j # i => captureSlots'[j] = t.slots[j]
  BY <1>3, <1>9, <1>10 DEF SlotArrays
<1>13. TheTable' \in SlotTables
  <2>1. \A j \in CaptureSlots : captureSlots'[j].ptr = t.slots[j].ptr /\ captureSlots'[j].hashIndex = t.slots[j].hashIndex
    BY <1>3, <1>10, <1>12 DEF old
  <2>2. [hash |-> t.hash, slots |-> captureSlots', free |-> t.free] \in SlotTables
    BY <1>3, <1>12, <2>1, SameTable
  <2> QED
    BY <2>2, <1>2 DEF TheTable
<1>14. MixerTypeOK'
  BY <1>2, <1>4, <1>11 DEF MixerTypeOK
<1>15. ASSUME NEW j \in CaptureSlots
       PROVE  GroupKnown(captureSlots[j])' /\ StageOK(captureSlots[j])' /\ (captureSlots[j].stageEnd > 0 => IsStaged(j))'
  <2> DEFINE s == captureSlots'[j]
  <2>1. GroupKnown(s) /\ StageOK(s) /\ (s.stageEnd > 0 => IsStaged(j)')
    <3>1. CASE j = i
      BY <3>1, <1>10, <1>11, <1>12
    <3>2. CASE j # i
      <4>1. SameSlot(s, captureSlots[j])
        BY <3>2, <1>6, <1>12
      <4> HIDE DEF s
      <4>2. s.stageEnd = captureSlots[j].stageEnd
        BY <4>1 DEF SameSlot
      <4> QED
        BY <4>1, <4>2, <1>4, <1>11, SameSlotKnows
    <3> QED
      BY <3>1, <3>2
  <2>2. UNCHANGED <<iteration, sound>>
    BY <1>2
  <2> QED
    BY <2>1, <2>2 DEF GroupKnown, StageOK
<1>16. MixOutcome(c, i)
  <2>1. \A j \in CaptureSlots \ {i} : captureSlots'[j].ptr = captureSlots[j].ptr /\ captureSlots'[j].lastClock = captureSlots[j].lastClock
    BY <1>6, <1>12 DEF SameSlot, SameSound
  <2> QED
    BY <2>1, <1>7, <1>10, <1>12 DEF MixOutcome
<1> QED
  BY <1>13, <1>14, <1>15, <1>16 DEF TableSafe


\* A block that is as long as its group allows tells the group; no other block
\* of that sound changes it.
LEMMA GroupOfIs ==
  ASSUME NEW mine \in SlotRecords, NEW len \in Nat, len > 0, len % 4 = 0, NEW group \in Groups,
         mine.stageEnd > 0, mine.stageEnd <= len \div group,
         mine.fullStart # 0 => mine.groupKnown /\ mine.groupDiv = mine.fullStart /\ group = mine.fullStart
  PROVE  /\ GroupOf(mine, len) \in Groups
         /\ mine.fullStart # 0 => GroupOf(mine, len) = mine.fullStart
         /\ ~mine.groupKnown /\ mine.stageEnd * group = len => GroupOf(mine, len) = group
<1>1. mine.stageEnd \in Nat /\ mine.groupDiv \in Groups /\ mine.groupKnown \in BOOLEAN /\ mine.fullStart \in {0} \union Groups
  BY RecordIs
<1>2. PICK q \in Nat : len = 4 * q /\ len \div 4 = q /\ len \div 2 = 2 * q /\ len \div 1 = 4 * q
  <2>1. len = 4 * (len \div 4)
    OBVIOUS
  <2>2. len \div 4 \in Nat /\ len \div 2 = 2 * (len \div 4) /\ len \div 1 = len
    OBVIOUS
  <2> QED
    BY <2>1, <2>2
<1> DEFINE s == mine.stageEnd
           d == mine.groupDiv
           g == GroupOf(mine, len)
<1>3. g = CASE s = len -> 1
            [] s = len \div 2 /\ (~mine.groupKnown \/ d = 2) -> 2
            [] s = len \div 4 /\ (~mine.groupKnown \/ d = 4) -> 4
            [] OTHER -> IF s * d > len THEN 1 ELSE d
  BY Zenon DEF GroupOf
<1>4. s \in Nat /\ d \in Groups /\ q > 0 /\ s > 0
  BY <1>1, <1>2
<1> HIDE DEF g
<1>5. g \in Groups
  <2>1. g \in {1, 2, 4, d}
    <3>1. (IF s * d > len THEN 1 ELSE d) \in {1, d}
      OBVIOUS
    <3> HIDE DEF s, d
    <3>2. s = len => g = 1
      BY <1>3, <1>2, <1>4
    <3> DEFINE o == IF s * d > len THEN 1 ELSE d
    <3>3. o \in {1, d}
      BY <3>1
    <3>4. g = CASE s = len -> 1
                [] s = len \div 2 /\ (~mine.groupKnown \/ d = 2) -> 2
                [] s = len \div 4 /\ (~mine.groupKnown \/ d = 4) -> 4
                [] OTHER -> o
      BY <1>3
    <3> HIDE DEF o
    <3> QED
      BY <3>3, <3>4
  <2> QED
    BY <2>1, <1>4 DEF Groups
<1>6. ASSUME mine.fullStart # 0 PROVE g = mine.fullStart
  <2>1. mine.groupKnown /\ d = group /\ group = mine.fullStart /\ s <= len \div group
    BY <1>6
  <2>2. CASE group = 1
    <3>1. s * d <= len
      BY <2>1, <2>2, <1>4, <1>2
    <3> QED
      BY <3>1, <1>3, <2>1, <2>2, <1>1, <1>2, <1>4
  <2>3. CASE group = 2
    <3>1. s <= 2 * q /\ s # len
      BY <2>1, <2>3, <1>2, <1>4
    <3>2. ~(s * 2 > len)
      BY <3>1, <1>2, <1>4
    <3> HIDE DEF s
    <3> QED
      BY <3>1, <3>2, <1>3, <2>1, <2>3, <1>1, <1>2, <1>4
  <2>4. CASE group = 4
    <3>1. s <= q /\ s # len /\ s # len \div 2
      BY <2>1, <2>4, <1>2, <1>4
    <3>2. ~(s * 4 > len)
      BY <3>1, <1>2, <1>4
    <3> HIDE DEF s
    <3> QED
      BY <3>1, <3>2, <1>3, <2>1, <2>4, <1>1, <1>2, <1>4
  <2> QED
    BY <2>2, <2>3, <2>4 DEF Groups
<1>7. ASSUME ~mine.groupKnown, s * group = len PROVE g = group
  <2>1. CASE group = 1
    BY <2>1, <1>3, <1>7, <1>4, <1>2
  <2>2. CASE group = 2
    <3>1. s = 2 * q /\ s # len
      BY <2>2, <1>7, <1>2, <1>4
    <3> QED
      BY <3>1, <2>2, <1>3, <1>7, <1>2
  <2>3. CASE group = 4
    <3>1. s = q /\ s # len /\ s # len \div 2
      BY <2>3, <1>7, <1>2, <1>4
    <3> QED
      BY <3>1, <2>3, <1>3, <1>7, <1>2
  <2> QED
    BY <2>1, <2>2, <2>3 DEF Groups
<1> QED
  BY <1>5, <1>6, <1>7 DEF g

\* What the end of an iteration makes of a slot before the sweep.
FlushedTo(a, b) ==
  /\ b \in SlotRecords /\ b.ptr = a.ptr /\ b.hashIndex = a.hashIndex /\ b.idleSince = a.idleSince /\ b.stageEnd = 0
  /\ GroupKnown(b)
  /\ b.lastClock = a.lastClock \/ (a.idleSince = 0 /\ paintClock <= b.lastClock)

LEMMA CommittedKeeps ==
  ASSUME MixerTypeOK, NEW a \in SlotRecords, GroupKnown(a), StageOK(a), a.stageEnd > 0
  PROVE  FlushedTo(a, Committed(a))
<1> DEFINE len == iteration
           group == sound[a.ptr].group
           div == GroupOf(a, len)
           known == a.groupKnown \/ a.stageEnd * div = len
           time == paintClock + a.stageEnd * div
           start == IF a.everMixed THEN a.fullStart ELSE IF a.stageEnd * group = len THEN group ELSE 0
           b == Committed(a)
<1>1. /\ a.ptr \in EngineChannels /\ a.idleSince = 0 /\ a.lastGuid = sound[a.ptr].guid /\ len > 0 /\ a.stageEnd <= len \div group
  BY RecordIs DEF StageOK
<1>2. group \in Groups /\ sound[a.ptr].guid \in Nat /\ a.ptr # NoChannel /\ len \in Nat /\ len % 4 = 0 /\ paintClock \in Nat
  BY <1>1, SoundIs, LengthsAre, TableAssumption DEF MixerTypeOK
<1>3. /\ a.stageEnd \in Nat /\ a.groupDiv \in Groups /\ a.groupKnown \in BOOLEAN /\ a.everMixed \in BOOLEAN
      /\ a.fullStart \in {0} \union Groups /\ a.lastGuid \in Nat
  BY RecordIs
<1>4. a.fullStart # 0 => a.groupKnown /\ a.groupDiv = a.fullStart /\ group = a.fullStart
  BY <1>1, <1>2 DEF GroupKnown
<1>5. ~a.everMixed => ~a.groupKnown /\ a.groupDiv = 1 /\ a.fullStart = 0
  BY DEF GroupKnown
<1>6. b = ResetStage([a EXCEPT !.groupDiv = div, !.groupKnown = known, !.lastClock = time, !.everMixed = TRUE, !.fullStart = start])
  BY Zenon DEF Committed
<1> HIDE DEF group, len
<1>7. /\ div \in Groups /\ (a.fullStart # 0 => div = a.fullStart)
      /\ (~a.groupKnown /\ a.stageEnd * group = len => div = group)
  BY <1>1, <1>2, <1>4, GroupOfIs
<1> HIDE DEF div
<1>8. a.stageEnd * div \in Nat /\ time \in Nat /\ paintClock <= time
  <2>1. a.stageEnd * div \in Nat
    BY <1>3, <1>7 DEF Groups
  <2> QED
    BY <2>1, <1>2
<1>9. known \in BOOLEAN /\ start \in {0} \union Groups
  BY <1>2, <1>3
<1>10. start # 0 => known /\ div = start /\ group = start
  <2>1. CASE a.everMixed
    BY <2>1, <1>4, <1>7
  <2>2. CASE ~a.everMixed
    BY <2>2, <1>5, <1>7
  <2> QED
    BY <2>1, <2>2
<1> HIDE DEF known, time, start, b
<1>11. /\ b \in SlotRecords /\ b.ptr = a.ptr /\ b.hashIndex = a.hashIndex /\ b.idleSince = a.idleSince /\ b.stageEnd = 0
       /\ b.lastClock = time /\ b.everMixed /\ b.groupDiv = div /\ b.groupKnown = known /\ b.fullStart = start /\ b.lastGuid = a.lastGuid
  BY <1>6, <1>7, <1>8, <1>9 DEF SlotRecords, ResetStage
<1>12. GroupKnown(b)
  BY <1>1, <1>2, <1>10, <1>11 DEF GroupKnown, group
<1> QED
  BY <1>1, <1>8, <1>11, <1>12 DEF FlushedTo, b

LEMMA FlushKeeps ==
  ASSUME TableSafe
  PROVE  /\ FlushStages \in SlotArrays /\ \A i \in CaptureSlots : FlushedTo(captureSlots[i], FlushStages[i])
         /\ [hash |-> hash, slots |-> FlushStages, free |-> free] \in SlotTables
<1>1. ASSUME NEW i \in CaptureSlots PROVE FlushedTo(captureSlots[i], FlushStages[i])
  <2> DEFINE a == captureSlots[i]
             b == FlushStages[i]
  <2>1. a \in SlotRecords /\ GroupKnown(a) /\ StageOK(a) /\ (a.stageEnd > 0 => IsStaged(i)) /\ MixerTypeOK
    BY SafeSlots DEF TableSafe
  <2>2. a.stageEnd \in Nat
    BY <2>1, RecordIs
  <2>3. b = IF IsStaged(i) THEN IF a.stageEnd = 0 \/ a.ptr = NoChannel THEN ResetStage(a) ELSE Committed(a) ELSE a
    BY DEF FlushStages, IsStaged
  <2> HIDE DEF a, b
  <2>4. CASE a.stageEnd > 0
    <3>1. a.ptr # NoChannel /\ IsStaged(i)
      BY <2>1, <2>4 DEF StageOK
    <3>2. b = Committed(a)
      BY <2>3, <2>4, <3>1
    <3> QED
      BY <2>1, <2>4, <3>2, CommittedKeeps DEF a, b
  <2>5. CASE a.stageEnd = 0
    <3>1. b \in {a, ResetStage(a)}
      BY <2>3, <2>5
    <3>2. ASSUME NEW x, x = ResetStage(a) PROVE FlushedTo(a, x)
      <4>1. /\ x \in SlotRecords /\ x.ptr = a.ptr /\ x.hashIndex = a.hashIndex /\ x.idleSince = a.idleSince /\ x.stageEnd = 0
            /\ SameSound(x, a)
        BY <2>1, <3>2 DEF ResetStage, SlotRecords, SameSound
      <4> QED
        BY <4>1, <2>1 DEF FlushedTo, GroupKnown, SameSound
    <3>3. FlushedTo(a, a)
      BY <2>1, <2>5 DEF FlushedTo
    <3> QED
      BY <3>1, <3>2, <3>3 DEF a, b
  <2> QED
    BY <2>2, <2>4, <2>5
<1>2. FlushStages \in SlotArrays
  <2>1. \A i \in CaptureSlots : FlushStages[i] \in SlotRecords
    BY <1>1 DEF FlushedTo
  <2>2. FlushStages = [i \in CaptureSlots |-> FlushStages[i]]
    BY DEF FlushStages
  <2> QED
    BY <2>1, <2>2 DEF SlotArrays
<1>3. TheTable \in SlotTables /\ TheTable.hash = hash /\ TheTable.slots = captureSlots /\ TheTable.free = free
  BY TheTableIs DEF TableSafe
<1>4. [hash |-> TheTable.hash, slots |-> FlushStages, free |-> TheTable.free] \in SlotTables
  BY <1>1, <1>2, <1>3, SameTable DEF FlushedTo
<1> QED
  BY <1>1, <1>2, <1>3, <1>4

\* What the sweep makes of a slot.
SweptTo(a, b, time) ==
  /\ SameSound(b, a)
  /\ \/ b.ptr = a.ptr /\ b.stageEnd = a.stageEnd
     \/ b.ptr = NoChannel /\ b.stageEnd = 0 /\ a.lastClock + IdleSamples < time /\ a.idleSince # 0

LEMMA SweptKeeps ==
  ASSUME NEW t \in SlotTables, NEW i \in CaptureSlots, NEW time \in Nat
  PROVE  /\ Swept(t, i, time) \in SlotTables
         /\ \A j \in CaptureSlots : j # i => SameSlot(Swept(t, i, time).slots[j], t.slots[j])
         /\ SweptTo(t.slots[i], Swept(t, i, time).slots[i], time)
<1> DEFINE r == Swept(t, i, time)
           a == t.slots[i]
           stays == a.ptr = NoChannel \/ a.lastClock + IdleSamples >= time
<1>1. r = IF stays THEN t ELSE IF a.idleSince = 0 THEN [t EXCEPT !.slots[i].idleSince = time]
          ELSE IF time - a.idleSince > IdleSamples * 4 THEN ReleaseSlot(t, i) ELSE t
  BY Zenon DEF Swept
<1>2. t.slots \in SlotArrays /\ a \in SlotRecords /\ a.lastClock \in Nat /\ IdleSamples \in Nat
  BY TableParts, RecordIs, TableAssumption DEF SlotArrays
<1> HIDE DEF r
<1>3. CASE r = t
  BY <1>3 DEF SameSlot, SameSound, SweptTo, r
<1>4. CASE ~stays /\ a.idleSince = 0
  <2> DEFINE b == [a EXCEPT !.idleSince = time]
             records == [t.slots EXCEPT ![i] = b]
  <2>1. r = [t EXCEPT !.slots = records]
    BY <1>1, <1>4
  <2>2. b \in SlotRecords /\ b.ptr = a.ptr /\ b.hashIndex = a.hashIndex /\ b.stageEnd = a.stageEnd /\ SameSound(b, a)
    BY <1>2 DEF SlotRecords, SameSound
  <2> HIDE DEF b
  <2>3. records \in SlotArrays /\ records[i] = b /\ \A j \in CaptureSlots : j # i => records[j] = t.slots[j]
    BY <1>2, <2>2 DEF SlotArrays
  <2> HIDE DEF records
  <2>4. [hash |-> t.hash, slots |-> records, free |-> t.free] \in SlotTables
    BY <2>2, <2>3, SameTable
  <2>5. r = [hash |-> t.hash, slots |-> records, free |-> t.free]
    <3>1. t \in [hash : [Buckets -> HashEntries], slots : SlotArrays, free : Seq(CaptureSlots)]
      BY DEF SlotTables
    <3> QED
      BY <3>1, <2>1
  <2>6. r.slots = records
    BY <2>5
  <2> QED
    BY <2>2, <2>3, <2>4, <2>5, <2>6 DEF SameSlot, SameSound, SweptTo, r
<1>5. CASE ~stays /\ a.idleSince # 0 /\ r # t
  <2>1. r = ReleaseSlot(t, i) /\ a.ptr # NoChannel
    BY <1>1, <1>5
  <2>2. ReleasedFrom(t, r, i)
    BY <2>1, ReleaseKeeps
  <2>3. a.lastClock + IdleSamples < time
    BY <1>2, <1>5
  <2> QED
    BY <2>2, <2>3, <1>5 DEF ReleasedFrom, SweptTo, r
<1> QED
  BY <1>1, <1>3, <1>4, <1>5

\* What the sweep of the slots below k makes of u.
SweptBelow(k, u, t, time) ==
  /\ t \in SlotTables
  /\ \A j \in CaptureSlots : SweptTo(u.slots[j], t.slots[j], time) /\ (j >= k => SameSlot(t.slots[j], u.slots[j]))

\* The sweep, slot after slot.
LEMMA SweepKeeps ==
  ASSUME NEW u \in SlotTables, NEW time \in Nat,
         NEW sweep, sweep = CHOOSE f : f = [k \in 0 .. NumCaptureSlots |-> IF k = 0 THEN u ELSE Swept(f[k - 1], k - 1, time)]
  PROVE  /\ sweep[NumCaptureSlots] \in SlotTables
         /\ \A j \in CaptureSlots : SweptTo(u.slots[j], sweep[NumCaptureSlots].slots[j], time)
<1> DEFINE N == NumCaptureSlots
           step == [x \in (1 .. N) \X SlotTables |-> Swept(x[2], x[1] - 1, time)]
<1>1. N \in Nat /\ \A k \in 1 .. N : k - 1 \in CaptureSlots
  BY TableNumbers DEF CaptureSlots
<1>2. step \in [(1 .. N) \X SlotTables -> SlotTables] /\ \A k \in 1 .. N, t \in SlotTables : step[<<k, t>>] = Swept(t, k - 1, time)
  BY <1>1, SweptKeeps
<1> HIDE DEF step, N
<1>3. PICK g \in [0 .. N -> SlotTables] : g[0] = u /\ \A k \in 1 .. N : g[k] = step[<<k, g[k - 1]>>]
  <2>1. \E g : Recurses(g, N, SlotTables, u, step)
    BY <1>1, <1>2, Iterate
  <2> QED
    BY <2>1 DEF Recurses
<1>4. g = [k \in 0 .. N |-> IF k = 0 THEN u ELSE Swept(g[k - 1], k - 1, time)]
  <2>1. ASSUME NEW k \in 0 .. N PROVE g[k] = IF k = 0 THEN u ELSE Swept(g[k - 1], k - 1, time)
    <3>1. CASE k = 0
      BY <3>1, <1>3
    <3>2. CASE k # 0
      <4>1. k \in 1 .. N /\ k - 1 \in 0 .. N
        BY <3>2, <1>1
      <4> QED
        BY <3>2, <4>1, <1>2, <1>3
    <3> QED
      BY <3>1, <3>2
  <2> QED
    BY <2>1
<1>5. sweep = [k \in 0 .. N |-> IF k = 0 THEN u ELSE Swept(sweep[k - 1], k - 1, time)]
  BY <1>4, Zenon DEF N
<1>6. sweep[0] = u /\ \A k \in 1 .. N : sweep[k] = Swept(sweep[k - 1], k - 1, time)
  <2>1. \A k \in 0 .. N : sweep[k] = IF k = 0 THEN u ELSE Swept(sweep[k - 1], k - 1, time)
    BY <1>5, Zenon
  <2> QED
    BY <2>1, <1>1
<1> DEFINE T == {k \in 0 .. N : SweptBelow(k, u, sweep[k], time)}
<1>7. 0 \in T
  <2>1. SweptBelow(0, u, u, time)
    BY DEF SweptBelow, SweptTo, SameSlot, SameSound
  <2> QED
    BY <1>1, <1>6, <2>1
<1>8. ASSUME NEW k \in 1 .. N, k - 1 \in T PROVE k \in T
  <2> DEFINE t == sweep[k - 1]
             r == Swept(t, k - 1, time)
  <2>1. /\ t \in SlotTables /\ k - 1 \in CaptureSlots
        /\ \A j \in CaptureSlots : SweptTo(u.slots[j], t.slots[j], time) /\ (j >= k - 1 => SameSlot(t.slots[j], u.slots[j]))
    BY <1>1, <1>8 DEF SweptBelow
  <2>2. sweep[k] = r
    BY <1>6
  <2> HIDE DEF t
  <2>3. /\ r \in SlotTables /\ SweptTo(t.slots[k - 1], r.slots[k - 1], time)
        /\ \A j \in CaptureSlots : j # k - 1 => SameSlot(r.slots[j], t.slots[j])
    BY <2>1, SweptKeeps
  <2> HIDE DEF r
  <2>4. ASSUME NEW j \in CaptureSlots PROVE SweptTo(u.slots[j], r.slots[j], time) /\ (j >= k => SameSlot(r.slots[j], u.slots[j]))
    <3>1. CASE j = k - 1
      <4>1. SameSlot(t.slots[j], u.slots[j]) /\ ~(j >= k)
        BY <3>1, <2>1, CaptureSlotsAre
      <4> QED
        BY <4>1, <3>1, <2>3 DEF SweptTo, SameSlot, SameSound
    <3>2. CASE j # k - 1
      <4>1. SameSlot(r.slots[j], t.slots[j]) /\ SweptTo(u.slots[j], t.slots[j], time) /\ (j >= k => SameSlot(t.slots[j], u.slots[j]))
        BY <3>2, <2>1, <2>3, CaptureSlotsAre
      <4> QED
        BY <4>1 DEF SweptTo, SameSlot, SameSound
    <3> QED
      BY <3>1, <3>2
  <2>5. SweptBelow(k, u, r, time) /\ k \in 0 .. N
    BY <2>3, <2>4 DEF SweptBelow
  <2> QED
    BY <2>2, <2>5
<1> HIDE DEF T
<1>9. 0 .. N \subseteq T
  BY <1>1, <1>7, <1>8, UpTo
<1>10. N \in T
  BY <1>1, <1>9
<1> QED
  BY <1>10 DEF T, N, SweptBelow

EndOutcome ==
  /\ paintClock' > paintClock
  /\ \A i \in CaptureSlots :
       /\ captureSlots'[i].lastClock = captureSlots[i].lastClock \/ paintClock <= captureSlots'[i].lastClock
       /\ \/ captureSlots'[i].ptr = captureSlots[i].ptr
          \/ /\ captureSlots'[i].ptr = NoChannel /\ captureSlots'[i].lastClock = captureSlots[i].lastClock
             /\ captureSlots[i].lastClock + IdleSamples < paintClock'

LEMMA OnTransferSafe ==
  ASSUME TableSafe, OnTransferSamples
  PROVE  TableSafe' /\ EndOutcome
<1> DEFINE time == paintClock + iteration
           u == [hash |-> hash, slots |-> FlushStages, free |-> free]
           sweep == CHOOSE f : f = [k \in 0 .. NumCaptureSlots |-> IF k = 0 THEN u ELSE Swept(f[k - 1], k - 1, time)]
           t == sweep[NumCaptureSlots]
<1>1. /\ iteration > 0 /\ iteration' = 0 /\ paintClock' = time /\ hash' = t.hash /\ captureSlots' = t.slots /\ free' = t.free
      /\ stagedSlots' = <<>> /\ UNCHANGED <<iterations, sound>>
  BY Zenon DEF OnTransferSamples
<1>2. u \in SlotTables /\ u.slots = FlushStages /\ \A i \in CaptureSlots : FlushedTo(captureSlots[i], FlushStages[i])
  BY FlushKeeps
<1>3. paintClock \in Nat /\ iteration \in Nat /\ time \in Nat /\ time > paintClock
  BY <1>1, LengthsAre DEF TableSafe, MixerTypeOK
<1> HIDE DEF u, time
<1>4. t \in SlotTables /\ \A j \in CaptureSlots : SweptTo(u.slots[j], t.slots[j], time)
  <2> HIDE DEF sweep
  <2>1. sweep = CHOOSE f : f = [k \in 0 .. NumCaptureSlots |-> IF k = 0 THEN u ELSE Swept(f[k - 1], k - 1, time)]
    BY DEF sweep
  <2> QED
    BY <1>2, <1>3, <2>1, SweepKeeps
<1> HIDE DEF t
<1>5. TheTable' \in SlotTables
  <2>1. t = [hash |-> t.hash, slots |-> t.slots, free |-> t.free]
    BY <1>4 DEF SlotTables
  <2> QED
    BY <1>1, <1>4, <2>1 DEF TheTable
<1>6. MixerTypeOK'
  BY <1>1, <1>3 DEF TableSafe, MixerTypeOK
<1>7. ASSUME NEW i \in CaptureSlots
      PROVE  /\ GroupKnown(captureSlots[i])' /\ captureSlots'[i].stageEnd = 0
             /\ captureSlots'[i].lastClock = captureSlots[i].lastClock \/ paintClock <= captureSlots'[i].lastClock
             /\ \/ captureSlots'[i].ptr = captureSlots[i].ptr
                \/ /\ captureSlots'[i].ptr = NoChannel /\ captureSlots'[i].lastClock = captureSlots[i].lastClock
                   /\ captureSlots[i].lastClock + IdleSamples < paintClock'
  <2> DEFINE a == captureSlots[i]
             b == FlushStages[i]
             c == captureSlots'[i]
  <2>1. FlushedTo(a, b) /\ SweptTo(b, c, time)
    BY <1>1, <1>2, <1>4
  <2> HIDE DEF a, b, c
  <2>2. GroupKnown(c)
    BY <2>1 DEF FlushedTo, SweptTo, SameSound, GroupKnown
  <2>3. c.stageEnd = 0 /\ (c.lastClock = a.lastClock \/ paintClock <= c.lastClock)
        /\ (c.ptr = a.ptr \/ (c.ptr = NoChannel /\ c.lastClock = a.lastClock /\ a.lastClock + IdleSamples < time))
    BY <2>1 DEF FlushedTo, SweptTo, SameSound
  <2>4. GroupKnown(captureSlots[i])'
    <3>1. sound' = sound
      BY <1>1
    <3> QED
      BY <2>2, <3>1 DEF GroupKnown, c
  <2> QED
    BY <2>3, <2>4, <1>1 DEF a, c
<1>8. \A i \in CaptureSlots : StageOK(captureSlots[i])' /\ (captureSlots[i].stageEnd > 0 => IsStaged(i))'
  BY <1>7 DEF StageOK
<1>9. TableSafe'
  BY <1>5, <1>6, <1>7, <1>8 DEF TableSafe
<1> QED
  BY <1>1, <1>3, <1>7, <1>9 DEF EndOutcome

LEMMA TableInitSafe == TableInit => TableSafe
<1> SUFFICES ASSUME TableInit PROVE TableSafe
  OBVIOUS
<1>1. /\ hash = [h \in Buckets |-> Empty] /\ captureSlots = [i \in CaptureSlots |-> Unbound]
      /\ free = [k \in 1 .. NumCaptureSlots |-> NumCaptureSlots - k] /\ stagedSlots = <<>>
      /\ paintClock = 1 /\ iteration = 0 /\ sound = [c \in EngineChannels |-> [guid |-> 1, group |-> 1]]
  BY DEF TableInit
<1>2. Unbound \in SlotRecords /\ Unbound.ptr = NoChannel /\ Unbound.stageEnd = 0 /\ GroupKnown(Unbound)
  <2>1. Unbound \in SlotRecords
    BY DEF Unbound, SlotRecords, Groups
  <2>2. Unbound.ptr = NoChannel /\ Unbound.stageEnd = 0 /\ ~Unbound.groupKnown /\ Unbound.groupDiv = 1 /\ Unbound.fullStart = 0
    BY DEF Unbound
  <2> QED
    BY <2>1, <2>2 DEF GroupKnown
<1>3. captureSlots \in SlotArrays /\ \A i \in CaptureSlots : captureSlots[i] = Unbound
  BY <1>1, <1>2 DEF SlotArrays
<1>4. Ptrs(captureSlots) \in Pointers /\ \A i \in CaptureSlots : Ptrs(captureSlots)[i] = NoChannel
  BY <1>2, <1>3, PtrsType
<1>5. hash \in [Buckets -> HashEntries] /\ \A b \in Buckets : hash[b] = Empty
  BY <1>1 DEF Empty, HashEntries
<1>6. HashOK(hash, captureSlots) /\ OneSlotEach(Ptrs(captureSlots))
  BY <1>4, <1>5 DEF HashOK, IsHash, Reached, Agrees, OneSlotEach
<1>7. FreeOK(free, Ptrs(captureSlots))
  <2> DEFINE N == NumCaptureSlots
             q == [k \in 1 .. N |-> N - k]
  <2>1. N \in Nat /\ N > 0 /\ CaptureSlots = 0 .. N - 1
    BY TableNumbers DEF CaptureSlots
  <2> HIDE DEF N
  <2>2. q \in [1 .. N -> CaptureSlots]
    BY <2>1
  <2>3. q \in Seq(CaptureSlots) /\ DOMAIN q = 1 .. N
    BY <2>1, <2>2
  <2>4. \A k, l \in 1 .. N : q[k] = q[l] => k = l
    BY <2>1
  <2>5. \A i \in CaptureSlots : N - i \in 1 .. N /\ q[N - i] = i
    BY <2>1
  <2>6. free = q
    BY <1>1 DEF N
  <2> HIDE DEF q
  <2>7. \A i \in CaptureSlots : \E k \in DOMAIN q : q[k] = i
    BY <2>3, <2>5
  <2> QED
    BY <2>3, <2>4, <2>6, <2>7, <1>4 DEF FreeOK
<1>8. TheTable \in SlotTables
  <2> DEFINE A == hash
             B == captureSlots
             C == free
  <2> HIDE DEF A, B, C
  <2>1. A \in [Buckets -> HashEntries] /\ B \in SlotArrays /\ C \in Seq(CaptureSlots) /\ HashOK(A, B) /\ OneSlotEach(Ptrs(B)) /\ FreeOK(C, Ptrs(B))
    BY <1>3, <1>5, <1>6, <1>7 DEF FreeOK, A, B, C
  <2> DEFINE t == [hash |-> A, slots |-> B, free |-> C]
  <2>2. t \in [hash : [Buckets -> HashEntries], slots : SlotArrays, free : Seq(CaptureSlots)] /\ t.hash = A /\ t.slots = B /\ t.free = C
    BY <2>1
  <2> HIDE DEF t
  <2>3. TableOK(t)
    BY <2>1, <2>2 DEF TableOK
  <2>4. t \in SlotTables
    BY <2>2, <2>3, Zenon DEF SlotTables
  <2> QED
    BY <2>4 DEF t, A, B, C, TheTable
<1>9. MixerTypeOK
  BY <1>1 DEF MixerTypeOK, Groups
<1>10. \A i \in CaptureSlots : GroupKnown(captureSlots[i]) /\ StageOK(captureSlots[i]) /\ ~(captureSlots[i].stageEnd > 0)
  BY <1>2, <1>3 DEF StageOK
<1> QED
  BY <1>8, <1>9, <1>10 DEF TableSafe

\* What a step of the mixer makes of the slots.
TableStep ==
  \/ UNCHANGED <<captureSlots, paintClock>>
  \/ EndOutcome
  \/ UNCHANGED paintClock /\ \E c \in EngineChannels, i \in CaptureSlots : MixOutcome(c, i)

LEMMA TableStepSafe == TableSafe /\ [TableNext]_tableVars => TableSafe' /\ TableStep
<1> SUFFICES ASSUME TableSafe, [TableNext]_tableVars PROVE TableSafe' /\ TableStep
  OBVIOUS
<1>1. CASE UNCHANGED tableVars
  <2>1. UNCHANGED <<hash, captureSlots, free, stagedSlots, paintClock, iteration, sound>>
    BY <1>1 DEF tableVars
  <2> QED
    BY <2>1 DEF TableSafe, TheTable, MixerTypeOK, GroupKnown, StageOK, IsStaged, TableStep
<1>2. CASE OnTransferSamples
  BY <1>2, OnTransferSafe DEF TableStep
<1>3. ASSUME NEW len \in Lengths, OnMixBegin(len) PROVE TableSafe' /\ TableStep
  BY <1>3, OnMixBeginSafe DEF TableStep, OnMixBegin
<1>4. ASSUME NEW c \in EngineChannels, NEW guid \in 2 .. MaxGuid, NEW group \in Groups, StartSound(c, guid, group)
      PROVE  TableSafe' /\ TableStep
  BY <1>4, StartSoundSafe DEF TableStep, StartSound
<1>5. ASSUME NEW c \in EngineChannels, NEW offset \in {0, iteration \div 2}, NEW part \in Groups,
             CaptureMix(c, offset, iteration \div part - offset)
      PROVE  TableSafe' /\ TableStep
  <2>1. iteration \in Nat
    BY LengthsAre DEF TableSafe, MixerTypeOK
  <2>2. iteration \div part \in Nat /\ iteration \div 2 \in Nat
    BY <2>1 DEF Groups
  <2>3. offset \in Nat /\ iteration \div part - offset \in Int
    BY <2>2
  <2> DEFINE amount == iteration \div part - offset
  <2>4. amount \in Int /\ CaptureMix(c, offset, amount)
    BY <2>3, <1>5
  <2> HIDE DEF amount
  <2>5. TableSafe' /\ \E i \in CaptureSlots : MixOutcome(c, i)
    BY <2>3, <2>4, CaptureMixSafe
  <2>6. UNCHANGED paintClock
    BY <1>5 DEF CaptureMix
  <2> QED
    BY <2>5, <2>6 DEF TableStep
<1> QED
  BY <1>1, <1>2, <1>3, <1>4, <1>5 DEF TableNext

LEMMA TableSafeImplies == TableSafe => TableInv /\ GroupIsKept
<1> SUFFICES ASSUME TableSafe PROVE TableInv /\ GroupIsKept
  OBVIOUS
<1> DEFINE ptr == Ptrs(captureSlots)
           idx == HashIndexes(captureSlots)
<1>1. /\ hash \in [Buckets -> HashEntries] /\ captureSlots \in SlotArrays /\ free \in Seq(CaptureSlots)
      /\ IsHash(hash) /\ Agrees(hash, idx, ptr) /\ OneSlotEach(ptr) /\ FreeOK(free, ptr) /\ TheTable \in SlotTables
      /\ \A i \in CaptureSlots : ptr[i] = captureSlots[i].ptr /\ idx[i] = captureSlots[i].hashIndex
  BY TableParts, TheTableIs DEF TableSafe
<1>2. \A i \in CaptureSlots : captureSlots[i].ptr \in EngineChannels \union {NoChannel}
  BY <1>1, RecordIs DEF SlotArrays
<1> HIDE DEF ptr, idx
<1>3. \A i \in Bound : /\ Lookup(hash, captureSlots[i].ptr) = i
                       /\ hash[captureSlots[i].hashIndex] = [key |-> captureSlots[i].ptr, slot |-> i]
  <2> SUFFICES ASSUME NEW i \in Bound
               PROVE  /\ Lookup(hash, captureSlots[i].ptr) = i
                      /\ hash[captureSlots[i].hashIndex] = [key |-> captureSlots[i].ptr, slot |-> i]
    OBVIOUS
  <2>1. i \in CaptureSlots /\ captureSlots[i].ptr \in EngineChannels /\ captureSlots[i].ptr # NoChannel
    BY <1>2 DEF Bound
  <2>2. Lookup(hash, captureSlots[i].ptr) = i
    BY <2>1, <1>1, TheTableIs, LookupFinds
  <2> DEFINE b == captureSlots[i].hashIndex
             c == captureSlots[i].ptr
  <2>3. b \in Buckets /\ hash[b].key = c /\ hash[b].slot = i
    BY <2>1, <1>1 DEF Agrees
  <2> HIDE DEF b, c
  <2>4. hash[b] \in HashEntries
    BY <2>3, <1>1
  <2>5. hash[b] = [key |-> c, slot |-> i]
    BY <2>3, <2>4 DEF HashEntries
  <2> QED
    BY <2>2, <2>5 DEF b, c
<1>4. IsFiniteSet(Bound) /\ Cardinality(Bound) \in Nat /\ Bound \subseteq CaptureSlots
  <2>1. Bound \in SUBSET CaptureSlots
    BY DEF Bound
  <2> QED
    BY <2>1, CaptureSlotsAre, FS_Subset, FS_CardinalityType
<1>5. Cardinality({h \in Buckets : hash[h] # Empty}) = Cardinality(Bound)
  <2> DEFINE S == {h \in Buckets : hash[h] # Empty}
             f == [i \in Bound |-> idx[i]]
  <2>1. \A i \in Bound : idx[i] \in S /\ hash[idx[i]].slot = i
    BY <1>1, TableAssumption DEF Bound, Agrees, Empty
  <2>2. \A h \in S : hash[h].slot \in Bound /\ idx[hash[h].slot] = h
    BY <1>1, TableAssumption DEF Bound, Agrees, IsHash
  <2> HIDE DEF S
  <2>3. f \in [Bound -> S] /\ IsInjective(f) /\ \A h \in S : \E i \in Bound : f[i] = h
    BY <2>1, <2>2 DEF IsInjective
  <2> HIDE DEF f
  <2>4. ExistsBijection(Bound, S)
    BY <2>3 DEF ExistsBijection, Bijection, Injection, Surjection
  <2>5. Cardinality(S) = Cardinality(Bound)
    BY <2>4, <1>4, FS_Bijection
  <2> QED
    BY <2>5 DEF S
<1>6. {free[k] : k \in DOMAIN free} = CaptureSlots \ Bound
  <2>1. \A k \in DOMAIN free : free[k] \in CaptureSlots
    BY <1>1
  <2> QED
    BY <2>1, <1>1 DEF FreeOK, Bound
<1>7. Len(free) = NumCaptureSlots - Cardinality(Bound)
  <2> DEFINE S == CaptureSlots \ Bound
  <2>1. DOMAIN free = 1 .. Len(free) /\ Len(free) \in Nat /\ free \in [1 .. Len(free) -> CaptureSlots]
    BY <1>1
  <2>2. free \in [1 .. Len(free) -> S] /\ IsInjective(free) /\ \A i \in S : \E k \in 1 .. Len(free) : free[k] = i
    <3>1. \A k \in 1 .. Len(free) : free[k] \in S
      BY <1>6, <2>1
    <3>2. \A i \in S : \E k \in 1 .. Len(free) : free[k] = i
      BY <1>6, <2>1
    <3> HIDE DEF S
    <3> QED
      BY <3>1, <3>2, <2>1, <1>1 DEF FreeOK, IsInjective
  <2> HIDE DEF S
  <2>3. ExistsBijection(1 .. Len(free), S)
    BY <2>2 DEF ExistsBijection, Bijection, Injection, Surjection
  <2>4. IsFiniteSet(1 .. Len(free)) /\ Cardinality(1 .. Len(free)) = Len(free)
    <3>1. 1 \in Int /\ Len(free) \in Int
      BY <2>1
    <3>2. IsFiniteSet(1 .. Len(free)) /\ Cardinality(1 .. Len(free)) = IF 1 > Len(free) THEN 0 ELSE Len(free) - 1 + 1
      BY <3>1, FS_Interval
    <3> QED
      BY <3>2, <2>1
  <2>5. Cardinality(S) = Len(free)
    BY <2>3, <2>4, FS_Bijection
  <2>6. Cardinality(S) = Cardinality(CaptureSlots) - Cardinality(CaptureSlots \cap Bound)
    BY CaptureSlotsAre, FS_Difference DEF S
  <2>7. CaptureSlots \cap Bound = Bound
    BY <1>4
  <2> QED
    BY <2>5, <2>6, <2>7, CaptureSlotsAre
<1>8. \A i \in CaptureSlots : captureSlots[i].stageEnd > 0 => i \in Bound /\ \E k \in DOMAIN stagedSlots : stagedSlots[k] = i
  BY DEF TableSafe, StageOK, IsStaged, Bound
<1>9. GroupIsKept
  BY DEF GroupIsKept, Bound, TableSafe, GroupKnown
<1> QED
  BY <1>3, <1>5, <1>6, <1>7, <1>8, <1>9 DEF TableInv

\* After any order of insertions, backward shifts and evictions probing finds
\* every bound slot, the table holds nothing else, the free list holds the rest,
\* and a sound keeps the rate group its first full block told.
THEOREM TableSafety == TableSpec => [](TableInv /\ GroupIsKept)
<1>1. TableSafe /\ [TableNext]_tableVars => TableSafe'
  BY TableStepSafe
<1> QED
  BY <1>1, TableInitSafe, TableSafeImplies, PTL DEF TableSpec

-----------------------------------------------------------------------------
(* What the table promises                                                   *)

LEMMA PromiseInit == TableInit => Promise!MapInit
<1> SUFFICES ASSUME TableInit PROVE Promise!MapInit
  OBVIOUS
<1>1. captureSlots = [i \in CaptureSlots |-> Unbound] /\ paintClock = 1
  BY DEF TableInit
<1>2. \A i \in CaptureSlots : captureSlots[i].ptr = NoChannel /\ captureSlots[i].lastClock = 0
  BY <1>1 DEF Unbound
<1> QED
  BY <1>1, <1>2 DEF Promise!MapInit

LEMMA PromiseStep == TableSafe /\ TableSafe' /\ TableStep => [Promise!MapNext]_(Promise!mapVars)
<1> SUFFICES ASSUME TableSafe, TableSafe', TableStep PROVE [Promise!MapNext]_(Promise!mapVars)
  OBVIOUS
<1> DEFINE holder == [i \in CaptureSlots |-> captureSlots[i].ptr]
           mixed == [i \in CaptureSlots |-> captureSlots[i].lastClock]
<1>1. CASE UNCHANGED <<captureSlots, paintClock>>
  BY <1>1 DEF Promise!mapVars
<1>2. CASE EndOutcome
  <2>1. \A i \in CaptureSlots : captureSlots'[i].ptr \in EngineChannels \union {NoChannel}
    <3>1. \A i \in CaptureSlots : TheTable'.slots[i] \in SlotRecords /\ TheTable'.slots = captureSlots'
      BY TableParts DEF TableSafe, TheTable, SlotArrays
    <3> QED
      BY <3>1, RecordIs
  <2>2. holder' = [i \in CaptureSlots |-> captureSlots'[i].ptr] /\ mixed' = [i \in CaptureSlots |-> captureSlots'[i].lastClock]
    OBVIOUS
  <2>3. holder' \in [CaptureSlots -> EngineChannels \union {NoChannel}]
    BY <2>1, <2>2
  <2>4. \A i \in CaptureSlots : /\ holder[i] = captureSlots[i].ptr /\ holder'[i] = captureSlots'[i].ptr
                                /\ mixed[i] = captureSlots[i].lastClock /\ mixed'[i] = captureSlots'[i].lastClock
                                /\ captureSlots[i].lastClock \in Nat
    BY <2>2, SafeSlots, RecordIs
  <2>5. Promise!EndIteration
    <3> HIDE DEF holder, mixed
    <3>1. /\ paintClock' > paintClock
          /\ \A i \in CaptureSlots : mixed[i] <= mixed'[i] \/ paintClock <= mixed'[i]
          /\ \A i \in CaptureSlots : \/ holder'[i] = holder[i]
                                     \/ holder'[i] = NoChannel /\ mixed'[i] = mixed[i] /\ mixed[i] + IdleSamples < paintClock'
      BY <1>2, <2>4 DEF EndOutcome
    <3> QED
      BY <3>1, <2>3 DEF Promise!EndIteration, holder, mixed
  <2> QED
    BY <2>5 DEF Promise!MapNext
<1>3. ASSUME UNCHANGED paintClock, NEW c \in EngineChannels, NEW i \in CaptureSlots, MixOutcome(c, i)
      PROVE  [Promise!MapNext]_(Promise!mapVars)
  <2>1. /\ captureSlots'[i].ptr = c
        /\ \A j \in CaptureSlots \ {i} : captureSlots'[j].ptr = captureSlots[j].ptr /\ captureSlots'[j].lastClock = captureSlots[j].lastClock
    BY <1>3 DEF MixOutcome
  <2>2. CASE captureSlots[i].ptr = c /\ captureSlots'[i].lastClock = captureSlots[i].lastClock
    <3>1. \A j \in CaptureSlots : captureSlots'[j].ptr = captureSlots[j].ptr /\ captureSlots'[j].lastClock = captureSlots[j].lastClock
      BY <2>1, <2>2
    <3>2. holder' = holder /\ mixed' = mixed
      BY <3>1
    <3> QED
      BY <3>2, <1>3 DEF Promise!mapVars
  <2>3. CASE (\A j \in CaptureSlots : captureSlots[j].ptr # c) /\ MayGo(TheTable, i) /\ captureSlots'[i].lastClock = paintClock
    <3>1. \A j \in CaptureSlots : holder[j] = captureSlots[j].ptr /\ mixed[j] = captureSlots[j].lastClock
      OBVIOUS
    <3>2. holder' = [holder EXCEPT ![i] = c] /\ mixed' = [mixed EXCEPT ![i] = paintClock]
      BY <2>1, <2>3
    <3>3. \/ captureSlots[i].ptr = NoChannel
          \/ (\A j \in CaptureSlots : captureSlots[j].ptr # NoChannel) /\ \A j \in CaptureSlots : captureSlots[i].lastClock <= captureSlots[j].lastClock
      BY <2>3, TheTableIs DEF MayGo
    <3>4. Promise!Bind(c, i)
      <4> HIDE DEF holder, mixed
      <4>1. i \in {k \in CaptureSlots : holder[k] = NoChannel}
              \/ ({k \in CaptureSlots : holder[k] = NoChannel} = {} /\ \A j \in CaptureSlots : mixed[i] <= mixed[j])
        BY <3>1, <3>3
      <4>2. \A j \in CaptureSlots : holder[j] # c
        BY <3>1, <2>3
      <4> QED
        BY <3>2, <4>1, <4>2, <1>3 DEF Promise!Bind, Promise!Free, Promise!Oldest, holder, mixed
    <3> QED
      BY <3>4 DEF Promise!MapNext
  <2> QED
    BY <1>3, <2>2, <2>3 DEF MixOutcome
<1> QED
  BY <1>1, <1>2, <1>3 DEF TableStep

\* The table of slots is a map from channels to slots that forgets, when it is
\* full, the channel mixed the longest ago, and otherwise only idle ones.
THEOREM TableRefinement == TableSpec => ImplementsSlotMap
<1>1. TableSafe /\ [TableNext]_tableVars => TableSafe' /\ [Promise!MapNext]_(Promise!mapVars)
  BY TableStepSafe, PromiseStep
<1> QED
  BY <1>1, TableInitSafe, PromiseInit, PTL DEF TableSpec, ImplementsSlotMap, Promise!MapSpec

-----------------------------------------------------------------------------
(* The fields of channel_t                                                   *)

LEMMA StrideIs == Stride \in Nat /\ Stride > 0 /\ Offset["origin"] \in 0 .. Stride - 1 /\ Offset["fvolume"] \in 0 .. Stride - 1
  BY LayoutAssumption DEF Fields

LEMMA LeavesRemainder ==
  ASSUME NEW S \in Nat, S > 0, NEW k \in Int, NEW r \in 0 .. S - 1, NEW o \in Nat, o = k * S + r
  PROVE  o % S = r
<1> DEFINE q == o \div S
           m == o % S
<1>1. q \in Int /\ m \in 0 .. S - 1 /\ o = S * q + m
  OBVIOUS
<1> HIDE DEF q, m
<1>2. (k - q) * S = m - r
  BY <1>1
<1>3. k - q = 0
  <2> DEFINE d == k - q
  <2>1. d \in Int /\ d * S = m - r /\ m - r < S /\ m - r > -S
    BY <1>1, <1>2
  <2> HIDE DEF d
  <2>2. ~(d >= 1)
    <3> SUFFICES ASSUME d >= 1 PROVE FALSE
      OBVIOUS
    <3>1. d * S >= 1 * S
      BY <2>1
    <3> QED
      BY <3>1, <2>1, <1>1
  <2>3. ~(d <= -1)
    <3> SUFFICES ASSUME d <= -1 PROVE FALSE
      OBVIOUS
    <3>1. d * S <= (-1) * S
      BY <2>1
    <3> QED
      BY <3>1, <2>1, <1>1
  <2> QED
    BY <2>1, <2>2, <2>3 DEF d
<1> QED
  BY <1>1, <1>2, <1>3 DEF m

LEMMA LeastChosen ==
  ASSUME NEW S \in SUBSET Nat, S # {}
  PROVE  (CHOOSE o \in S : \A p \in S : o <= p) \in S
<1>1. First(S) \in S /\ \A l \in S : First(S) <= l
  BY FirstOf
<1> QED
  BY <1>1

\* The winner has votes.
LEMMA WinnerIs ==
  ASSUME NEW v, DOMAIN v \subseteq Nat, NEW minVotes, NEW share
  PROVE  Winner(v, minVotes, share) = Unknown
           \/ (Winner(v, minVotes, share) \in DOMAIN v /\ v[Winner(v, minVotes, share)] > 0)
<1> DEFINE strong == {o \in DOMAIN v : v[o] > 0 /\ \A p \in DOMAIN v : 10 * v[o] >= share * v[p]}
           w == Winner(v, minVotes, share)
<1>1. w = IF Sum(v) < minVotes \/ strong = {} THEN Unknown ELSE CHOOSE o \in strong : \A p \in strong : o <= p
  BY Zenon DEF Winner
<1>2. strong \in SUBSET Nat
  OBVIOUS
<1>3. \A o \in strong : o \in DOMAIN v /\ v[o] > 0
  OBVIOUS
<1> HIDE DEF strong, w
<1>4. w = Unknown \/ w \in strong
  <2>1. CASE Sum(v) < minVotes \/ strong = {}
    BY <2>1, <1>1
  <2>2. CASE ~(Sum(v) < minVotes \/ strong = {})
    <3>1. strong # {}
      BY <2>2
    <3>2. w = CHOOSE o \in strong : \A p \in strong : o <= p
      BY <2>2, <1>1
    <3> QED
      BY <3>1, <3>2, <1>2, LeastChosen
  <2> QED
    BY <2>1, <2>2
<1>5. w = Unknown \/ (w \in DOMAIN v /\ v[w] > 0)
  BY <1>3, <1>4
<1> QED
  BY <1>5, Zenon DEF w

\* Votes that are all the distance of the field from a channel.
TrueVotes(f) == {v \in [Offsets -> Nat] : \A o \in Offsets : v[o] > 0 => o % Stride = Offset[f]}

LEMMA OffsetsAre == \A o \in Offsets : o \in Nat
  BY StrideIs DEF Offsets

LEMMA VotedIsTrue ==
  ASSUME NEW f \in Fields, NEW v \in TrueVotes(f), NEW p \in ArrayPositions,
         IsFiniteSet(boundChannels), boundChannels \subseteq ArrayPositions
  PROVE  Voted(v, Address(f, p)) \in TrueVotes(f)
<1> DEFINE behind(o) == {q \in boundChannels : Address(f, p) - q * Stride = o}
           u == Voted(v, Address(f, p))
<1>1. \A o \in Offsets : Cardinality(behind(o)) \in Nat
  <2> SUFFICES ASSUME NEW o \in Offsets PROVE Cardinality(behind(o)) \in Nat
    OBVIOUS
  <2>1. behind(o) \in SUBSET boundChannels
    OBVIOUS
  <2> HIDE DEF behind
  <2> QED
    BY <2>1, FS_Subset, FS_CardinalityType
<1>2. u = [o \in Offsets |-> v[o] + Cardinality(behind(o))]
  BY DEF Voted
<1>3. ASSUME NEW o \in Offsets, behind(o) # {} PROVE o % Stride = Offset[f]
  <2>1. PICK q \in boundChannels : Address(f, p) - q * Stride = o
    BY <1>3
  <2>2. p \in Nat /\ q \in Nat /\ o \in Nat /\ Stride \in Nat /\ Stride > 0 /\ Offset[f] \in 0 .. Stride - 1
    BY LayoutAssumption, OffsetsAre
  <2>3. o = (p - q) * Stride + Offset[f] /\ p - q \in Int
    BY <2>1, <2>2 DEF Address
  <2>4. PICK k \in Int : k = p - q
    BY <2>3
  <2>5. PICK r \in 0 .. Stride - 1 : r = Offset[f]
    BY <2>2
  <2>6. o = k * Stride + r
    BY <2>3, <2>4, <2>5
  <2>7. o % Stride = r
    BY <2>2, <2>6, LeavesRemainder
  <2> QED
    BY <2>5, <2>7
<1>4. Cardinality({}) = 0
  BY FS_EmptySet
<1> HIDE DEF behind
<1>5. \A o \in Offsets : v[o] \in Nat /\ (v[o] > 0 => o % Stride = Offset[f])
  BY DEF TrueVotes
<1>6. u \in [Offsets -> Nat]
  BY <1>1, <1>2, <1>5
<1>7. \A o \in Offsets : u[o] > 0 => o % Stride = Offset[f]
  <2> SUFFICES ASSUME NEW o \in Offsets, u[o] > 0 PROVE o % Stride = Offset[f]
    OBVIOUS
  <2>1. u[o] = v[o] + Cardinality(behind(o))
    BY <1>2
  <2>2. CASE behind(o) = {}
    <3>1. u[o] = v[o]
      BY <2>1, <2>2, <1>4, <1>5
    <3> QED
      BY <3>1, <1>5
  <2>3. CASE behind(o) # {}
    BY <2>3, <1>3
  <2> QED
    BY <2>2, <2>3
<1> HIDE DEF u
<1>8. u \in TrueVotes(f)
  BY <1>6, <1>7 DEF TrueVotes
<1> QED
  BY <1>8 DEF u

\* Why the votes can be trusted.
LayoutSafe ==
  /\ IsFiniteSet(boundChannels) /\ boundChannels \subseteq ArrayPositions
  /\ anchors \in Seq({Address("fvolume", p) : p \in ArrayPositions})
  /\ votes \in [Fields -> [Offsets -> Nat]] /\ \A f \in Fields : votes[f] \in TrueVotes(f)
  /\ DOMAIN strideVotes = Strides /\ stride \in Strides \union {Unknown}
  /\ layout \in [Fields -> Offsets \union {Unknown}] /\ sized \subseteq Fields
  /\ OffsetsAreTrue

LEMMA StridesAre == \A s \in Strides : s \in Nat /\ s > 0 /\ s % Stride = 0
<1> SUFFICES ASSUME NEW s \in Strides PROVE s \in Nat /\ s > 0 /\ s % Stride = 0
  OBVIOUS
<1>1. PICK k \in 1 .. 2 : s = Stride * k
  BY DEF Strides
<1>2. s \in Nat /\ s > 0 /\ s = k * Stride + 0 /\ 0 \in 0 .. Stride - 1
  BY <1>1, StrideIs
<1> QED
  BY <1>2, StrideIs, LeavesRemainder

\* The addresses of a run are folded into the votes.
LEMMA FoldIsTrue ==
  ASSUME LayoutSafe,
         NEW fold, fold = CHOOSE g : g = [k \in 0 .. Len(anchors) |-> IF k = 0 THEN votes["fvolume"] ELSE Voted(g[k - 1], anchors[k])]
  PROVE  fold[Len(anchors)] \in TrueVotes("fvolume")
<1> DEFINE N == Len(anchors)
           V == TrueVotes("fvolume")
           base == votes["fvolume"]
           step == [x \in (1 .. N) \X V |-> Voted(x[2], anchors[x[1]])]
<1>1. N \in Nat /\ base \in V /\ \A k \in 1 .. N, v \in V : Voted(v, anchors[k]) \in V
  <2>1. N \in Nat /\ \A k \in 1 .. N : anchors[k] \in {Address("fvolume", p) : p \in ArrayPositions}
    BY DEF LayoutSafe
  <2>2. base \in V /\ IsFiniteSet(boundChannels) /\ boundChannels \subseteq ArrayPositions
    BY DEF LayoutSafe, Fields
  <2>3. ASSUME NEW k \in 1 .. N, NEW v \in V PROVE Voted(v, anchors[k]) \in V
    <3>1. PICK p \in ArrayPositions : anchors[k] = Address("fvolume", p)
      BY <2>1
    <3>2. "fvolume" \in Fields
      BY DEF Fields
    <3> QED
      BY <3>1, <3>2, <2>2, VotedIsTrue
  <2> QED
    BY <2>1, <2>2, <2>3
<1> HIDE DEF V, base, N
<1>2. step \in [(1 .. N) \X V -> V] /\ \A k \in 1 .. N, v \in V : step[<<k, v>>] = Voted(v, anchors[k])
  BY <1>1
<1> HIDE DEF step
<1>3. PICK g \in [0 .. N -> V] : g[0] = base /\ \A k \in 1 .. N : g[k] = step[<<k, g[k - 1]>>]
  <2>1. \E g : Recurses(g, N, V, base, step)
    BY <1>1, <1>2, Iterate
  <2> QED
    BY <2>1 DEF Recurses
<1>4. g = [k \in 0 .. N |-> IF k = 0 THEN base ELSE Voted(g[k - 1], anchors[k])]
  <2>1. ASSUME NEW k \in 0 .. N PROVE g[k] = IF k = 0 THEN base ELSE Voted(g[k - 1], anchors[k])
    <3>1. CASE k = 0
      BY <3>1, <1>3
    <3>2. CASE k # 0
      <4>1. k \in 1 .. N /\ k - 1 \in 0 .. N
        BY <3>2, <1>1
      <4> QED
        BY <3>2, <4>1, <1>2, <1>3
    <3> QED
      BY <3>1, <3>2
  <2> QED
    BY <2>1
<1>5. fold = [k \in 0 .. N |-> IF k = 0 THEN base ELSE Voted(fold[k - 1], anchors[k])]
  BY <1>4, Zenon DEF N, base
<1>6. fold[0] = base /\ \A k \in 1 .. N : fold[k] = Voted(fold[k - 1], anchors[k])
  <2>1. \A k \in 0 .. N : fold[k] = IF k = 0 THEN base ELSE Voted(fold[k - 1], anchors[k])
    BY <1>5, Zenon
  <2>2. N \in Nat /\ 0 \in 0 .. N
    BY <1>1
  <2>3. ASSUME NEW k \in 1 .. N PROVE fold[k] = Voted(fold[k - 1], anchors[k])
    <3>1. k \in 0 .. N /\ k # 0
      BY <2>2
    <3> QED
      BY <2>1, <3>1, Zenon
  <2>4. fold[0] = base
    BY <2>1, <2>2, Zenon
  <2> QED
    BY <2>3, <2>4
<1> DEFINE T == {k \in 0 .. N : fold[k] \in V}
<1>7. 0 \in T
  <2>1. 0 \in 0 .. N /\ fold[0] \in V
    BY <1>1, <1>6
  <2> QED
    BY <2>1
<1>8. ASSUME NEW k \in 1 .. N, k - 1 \in T PROVE k \in T
  <2>1. k \in 0 .. N /\ fold[k - 1] \in V
    BY <1>1, <1>8
  <2>2. fold[k] \in V
    BY <2>1, <1>1, <1>6
  <2> QED
    BY <2>1, <2>2
<1> HIDE DEF T
<1>9. 0 .. N \subseteq T
  BY <1>1, <1>7, <1>8, UpTo
<1> QED
  BY <1>1, <1>9 DEF T, N, V

LEMMA LayoutInitSafe == LayoutInit => LayoutSafe
<1> SUFFICES ASSUME LayoutInit PROVE LayoutSafe
  OBVIOUS
<1>1. votes \in [Fields -> [Offsets -> Nat]] /\ \A f \in Fields : votes[f] \in TrueVotes(f)
  BY DEF LayoutInit, TrueVotes
<1>2. IsFiniteSet(boundChannels) /\ boundChannels \subseteq ArrayPositions
  BY FS_EmptySet DEF LayoutInit
<1> QED
  BY <1>1, <1>2 DEF LayoutInit, LayoutSafe, OffsetsAreTrue

LEMMA RunSafe ==
  ASSUME LayoutSafe, RunLayoutInference
  PROVE  LayoutSafe'
<1> DEFINE several == stride = Unknown /\ Cardinality(boundChannels) >= 2
           sv == IF several /\ CommonStride \in Strides THEN [strideVotes EXCEPT ![CommonStride] = @ + 1] ELSE strideVotes
           size == IF several THEN Winner(sv, MinVotes, 9) ELSE stride
           fold == CHOOSE g : g = [k \in 0 .. Len(anchors) |-> IF k = 0 THEN votes["fvolume"] ELSE Voted(g[k - 1], anchors[k])]
           fv == [votes EXCEPT !["fvolume"] = IF layout["fvolume"] = Unknown THEN fold[Len(anchors)] ELSE @]
           w(f) == Winner(fv[f], MinVotes, 8)
           found == {f \in Fields : layout[f] = Unknown /\ WithinChannel(w(f), size)}
<1>1. /\ anchors' = <<>> /\ votes' = fv /\ strideVotes' = sv /\ stride' = size
      /\ layout' = [f \in Fields |-> IF f \in found THEN w(f) ELSE layout[f]]
      /\ sized' = IF size = Stride THEN sized \union found ELSE sized
      /\ boundChannels' = boundChannels
  BY Zenon DEF RunLayoutInference
<1>2. fold[Len(anchors)] \in TrueVotes("fvolume")
  <2> HIDE DEF fold
  <2>1. fold = CHOOSE g : g = [k \in 0 .. Len(anchors) |-> IF k = 0 THEN votes["fvolume"] ELSE Voted(g[k - 1], anchors[k])]
    BY DEF fold
  <2> QED
    BY <2>1, FoldIsTrue
<1> HIDE DEF fold
<1>3. fv \in [Fields -> [Offsets -> Nat]] /\ \A f \in Fields : fv[f] \in TrueVotes(f)
  <2>1. votes \in [Fields -> [Offsets -> Nat]] /\ \A f \in Fields : votes[f] \in TrueVotes(f)
    BY DEF LayoutSafe
  <2> DEFINE new == IF layout["fvolume"] = Unknown THEN fold[Len(anchors)] ELSE votes["fvolume"]
  <2>2. new \in TrueVotes("fvolume") /\ new \in [Offsets -> Nat]
    <3>1. votes["fvolume"] \in TrueVotes("fvolume")
      BY <2>1 DEF Fields
    <3> QED
      BY <3>1, <1>2 DEF TrueVotes
  <2>3. fv = [votes EXCEPT !["fvolume"] = new]
    OBVIOUS
  <2> HIDE DEF new, fv
  <2>4. fv["fvolume"] = new /\ \A f \in Fields : f # "fvolume" => fv[f] = votes[f]
    BY <2>1, <2>3 DEF Fields
  <2>5. \A f \in Fields : fv[f] \in TrueVotes(f)
    BY <2>1, <2>2, <2>4
  <2> QED
    BY <2>1, <2>2, <2>3, <2>5
<1> HIDE DEF fv
<1>4. \A f \in Fields : w(f) = Unknown \/ (w(f) \in Offsets /\ w(f) % Stride = Offset[f])
  <2> SUFFICES ASSUME NEW f \in Fields PROVE w(f) = Unknown \/ (w(f) \in Offsets /\ w(f) % Stride = Offset[f])
    OBVIOUS
  <2> DEFINE v == fv[f]
  <2>1. DOMAIN v = Offsets /\ \A o \in Offsets : v[o] > 0 => o % Stride = Offset[f]
    BY <1>3 DEF TrueVotes
  <2> HIDE DEF v
  <2>2. DOMAIN v \subseteq Nat
    BY <2>1, OffsetsAre
  <2>3. Winner(v, MinVotes, 8) = Unknown \/ (Winner(v, MinVotes, 8) \in DOMAIN v /\ v[Winner(v, MinVotes, 8)] > 0)
    BY <2>2, WinnerIs
  <2> QED
    BY <2>1, <2>3 DEF v
<1> HIDE DEF w
<1>5. DOMAIN sv = Strides
  BY DEF LayoutSafe
<1> HIDE DEF sv
<1>6. size \in Strides \union {Unknown}
  <2>1. DOMAIN sv \subseteq Nat
    BY <1>5, StridesAre
  <2>2. Winner(sv, MinVotes, 9) \in Strides \union {Unknown}
    BY <2>1, <1>5, WinnerIs
  <2> QED
    BY <2>2 DEF LayoutSafe
<1> HIDE DEF size
<1>7. layout' \in [Fields -> Offsets \union {Unknown}]
  BY <1>1, <1>4 DEF LayoutSafe
<1>8. found \subseteq Fields /\ \A f \in found : layout[f] = Unknown /\ w(f) # Unknown /\ (size = Unknown \/ w(f) < size)
  BY DEF WithinChannel
<1> HIDE DEF found
<1>9. OffsetsAreTrue'
  <2>1. stride' # Unknown => stride' % Stride = 0
    BY <1>1, <1>6, StridesAre
  <2>2. ASSUME NEW f \in sized' PROVE layout'[f] = Offset[f]
    <3>0. f \in Fields /\ Offset[f] \in 0 .. Stride - 1 /\ Stride \in Nat /\ Stride > 0 /\ sized \subseteq Fields
      BY <1>1, <1>8, <2>2, LayoutAssumption DEF LayoutSafe
    <3>1. CASE f \in found
      <4>1. layout'[f] = w(f) /\ w(f) \in Nat /\ w(f) % Stride = Offset[f] /\ layout[f] = Unknown
        BY <3>0, <3>1, <1>1, <1>4, <1>8, OffsetsAre
      <4>2. f \notin sized
        BY <4>1, <3>0 DEF LayoutSafe, OffsetsAreTrue, Unknown
      <4>3. size = Stride
        BY <4>2, <2>2, <1>1
      <4>4. w(f) < Stride
        BY <4>3, <3>0, <3>1, <1>8 DEF Unknown
      <4> HIDE DEF w
      <4>5. w(f) % Stride = w(f)
        BY <4>1, <4>4, <3>0
      <4> QED
        BY <4>1, <4>5
    <3>2. CASE f \notin found
      <4>1. f \in sized /\ layout'[f] = layout[f]
        BY <3>0, <3>2, <2>2, <1>1
      <4> QED
        BY <4>1 DEF LayoutSafe, OffsetsAreTrue
    <3> QED
      BY <3>1, <3>2
  <2> QED
    BY <2>1, <2>2 DEF OffsetsAreTrue
<1>10. sized' \subseteq Fields /\ anchors' \in Seq({Address("fvolume", p) : p \in ArrayPositions})
  BY <1>1, <1>8 DEF LayoutSafe
<1> QED
  BY <1>1, <1>3, <1>5, <1>6, <1>7, <1>9, <1>10 DEF LayoutSafe

LEMMA LayoutStep == LayoutSafe /\ [LayoutNext]_layoutVars => LayoutSafe'
<1> SUFFICES ASSUME LayoutSafe, [LayoutNext]_layoutVars PROVE LayoutSafe'
  OBVIOUS
<1>1. CASE UNCHANGED layoutVars
  BY <1>1 DEF layoutVars, LayoutSafe, OffsetsAreTrue
<1>2. CASE RunLayoutInference
  BY <1>2, RunSafe
<1>3. ASSUME NEW p \in ArrayPositions, Rebind(p) PROVE LayoutSafe'
  <2>1. IsFiniteSet(boundChannels') /\ boundChannels' \subseteq ArrayPositions
    <3>1. IsFiniteSet(boundChannels \ {p})
      BY FS_Difference DEF LayoutSafe
    <3>2. IsFiniteSet(boundChannels \union {p})
      BY FS_AddElement DEF LayoutSafe
    <3> QED
      BY <3>1, <3>2, <1>3 DEF Rebind, LayoutSafe
  <2> QED
    BY <2>1, <1>3 DEF Rebind, LayoutSafe, OffsetsAreTrue
<1>4. ASSUME NEW p \in ArrayPositions, OnSpatialize(p) PROVE LayoutSafe'
  <2> DEFINE A == {Address("fvolume", q) : q \in ArrayPositions}
             a == Address("fvolume", p)
  <2>1. a \in A /\ anchors \in Seq(A) /\ anchors' = Append(anchors, a)
    BY <1>4 DEF OnSpatialize, LayoutSafe
  <2> HIDE DEF A, a
  <2>2. anchors' \in Seq(A)
    BY <2>1
  <2> QED
    BY <2>2, <1>4 DEF OnSpatialize, LayoutSafe, OffsetsAreTrue, A
<1>5. ASSUME NEW p \in ArrayPositions, VoteOriginAnchor(p) PROVE LayoutSafe'
  <2> DEFINE new == Voted(votes["origin"], Address("origin", p))
  <2>1. "origin" \in Fields /\ votes \in [Fields -> [Offsets -> Nat]] /\ votes["origin"] \in TrueVotes("origin")
    BY DEF Fields, LayoutSafe
  <2>2. new \in TrueVotes("origin")
    BY <2>1, VotedIsTrue DEF LayoutSafe
  <2>3. new \in [Offsets -> Nat]
    BY <2>2 DEF TrueVotes
  <2>4. votes' = [votes EXCEPT !["origin"] = new]
    BY <1>5 DEF VoteOriginAnchor
  <2> HIDE DEF new
  <2>5. votes' \in [Fields -> [Offsets -> Nat]] /\ \A f \in Fields : votes'[f] \in TrueVotes(f)
    BY <2>1, <2>2, <2>3, <2>4 DEF LayoutSafe
  <2> QED
    BY <2>5, <1>5 DEF VoteOriginAnchor, LayoutSafe, OffsetsAreTrue
<1> QED
  BY <1>1, <1>2, <1>3, <1>4, <1>5 DEF LayoutNext

\* A stride that was inferred is a multiple of sizeof(channel_t), and an offset
\* found while the size was known is the true one.
THEOREM LayoutSafety == LayoutSpec => []OffsetsAreTrue
<1>1. LayoutSafe => OffsetsAreTrue
  BY DEF LayoutSafe
<1> QED
  BY <1>1, LayoutInitSafe, LayoutStep, PTL DEF LayoutSpec

-----------------------------------------------------------------------------
(* The capture                                                               *)

LEMMA CaptureStep ==
  TableSafe /\ LayoutSafe /\ [MCNext]_<<vars, queueVars, ringVars, tableVars, layoutVars, subject>> => (TableSafe /\ LayoutSafe)'
<1> SUFFICES ASSUME TableSafe, LayoutSafe, [MCNext]_<<vars, queueVars, ringVars, tableVars, layoutVars, subject>>
             PROVE  (TableSafe /\ LayoutSafe)'
  OBVIOUS
<1>1. [TableNext]_tableVars /\ [LayoutNext]_layoutVars
  BY Zenon DEF MCNext
<1> QED
  BY <1>1, TableStepSafe, LayoutStep

\* The capture addresses the right slot, rate group and field: the table and
\* the inference together, whatever else of the mixer moves.
THEOREM CaptureSafety == MCFairSpec => []CaptureInv
<1>1. MCInit => TableSafe /\ LayoutSafe
  BY TableInitSafe, LayoutInitSafe DEF MCInit
<1>2. TableSafe /\ LayoutSafe => CaptureInv
  BY TableSafeImplies DEF CaptureInv, LayoutSafe
<1> QED
  BY <1>1, <1>2, CaptureStep, PTL DEF MCFairSpec

=============================================================================
