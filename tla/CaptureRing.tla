----------------------------- MODULE CaptureRing -----------------------------
(***************************************************************************)
(* The TimedSampleRing of one capture slot (mixing/LockFreeQueue.h) between*)
(* the engine's mixer thread, which commits a paint iteration at a time    *)
(* (ChannelCapture.cpp), and the audio thread, which reads a frame at its  *)
(* render clock (AudioThread.cpp).  Every access to a shared word and to a *)
(* sample is an action.  A cell holds the set of clock positions whose     *)
(* samples were added to it since it was cleared.                          *)
(***************************************************************************)
EXTENDS Integers

CONSTANTS RingCapacity,   \* m_capacity
          Guard,      \* kConsumerGuard
          Frame,      \* samples per audio frame
          Iteration,  \* samples per paint iteration
          MaxLead,    \* bound on how far the engine paints ahead of the render clock
          MaxClock    \* bound on the paint clock

ASSUME CaptureRingAssumption ==
  /\ RingCapacity \in Nat /\ Guard \in Nat /\ Frame \in Nat /\ Iteration \in Nat
  /\ MaxLead \in Nat /\ MaxClock \in Nat
  /\ 0 < Frame /\ Frame <= Guard /\ 2 * Guard <= RingCapacity /\ 0 < Iteration

RingCells == 0 .. RingCapacity - 1
Cell(pos) == pos % RingCapacity
Larger(a, b) == IF a > b THEN a ELSE b
Smaller(a, b) == IF a < b THEN a ELSE b

VARIABLES
  data,         \* m_data: data[i] is the set of positions summed in cell i
  cleared,      \* m_clearedUpTo
  written,      \* m_writtenUpTo
  cursor,       \* m_readCursor
  frontier,     \* ChannelCapture::m_frontier (m_paintClock between iterations)
  bound,        \* the slot's enginePtr # 0
  everMixed,    \* the slot's everMixed
  mpc, block,   \* the mixer: location, samples staged in this iteration
  rc, begin, end, pos,  \* its locals in Accumulate and AdvanceFrontier
  late,         \* Accumulate returned false: FlushStages counts a late block
  apc, anchored, clock, active,  \* the audio thread: location, clock, slot rendered
  limit, cellIndex, \* its locals in ReadAt
  accepted,     \* history: positions of samples the ring took
  settled       \* history: the frame was committed before the cursor moved

ring == <<data, cleared, written, cursor>>
slot == <<frontier, bound, everMixed>>
mixer == <<mpc, block, rc, begin, end, pos, late>>
audio == <<apc, anchored, clock, active, limit, cellIndex>>
history == <<accepted, settled>>
ringVars == <<ring, slot, mixer, audio, history>>

\* TimedSampleRing::Reset at the first paint, before anything is read.
RingInit ==
  /\ data = [i \in RingCells |-> {}] /\ cleared = 0 /\ written = 0 /\ cursor = 0
  /\ frontier = 0 /\ bound = FALSE /\ everMixed = FALSE
  /\ mpc = "idle" /\ block = 0 /\ rc = 0 /\ begin = 0 /\ end = 0 /\ pos = 0 /\ late = FALSE
  /\ apc = "idle" /\ anchored = FALSE /\ clock = 0 /\ active = FALSE /\ limit = 0 /\ cellIndex = 0
  /\ accepted = {} /\ settled = FALSE

-----------------------------------------------------------------------------
(* The mixer thread                                                         *)

\* One iteration stages a block for the channel (or none); a new sound binds
\* the slot and a block shorter than the iteration is a sound that ends.
Mix(k) ==
  /\ mpc = "idle" /\ frontier + Iteration <= MaxClock
  /\ frontier + Iteration <= clock + MaxLead
  /\ block' = k /\ late' = FALSE
  /\ bound' = (bound \/ k > 0) /\ everMixed' = (everMixed /\ bound)
  /\ mpc' = IF k > 0 THEN "accumulate" ELSE "transfer"
  /\ UNCHANGED <<ring, frontier, rc, begin, end, pos, audio, history>>

\* Where Accumulate stops: a ring's length past the cursor, less the guard.
\* Mutants: no guard; the guard on both sides.
MaxEndUnguarded(c) == c + RingCapacity
MaxEndTwice(c) == c + RingCapacity - 2 * Guard
MaxEnd(c) == c + RingCapacity - Guard

\* Accumulate loads the cursor once, drops what is late and clamps what is far.
Accumulate ==
  /\ mpc = "accumulate"
  /\ LET b == Larger(frontier, cursor)
         e == Smaller(frontier + block, MaxEnd(cursor))
     IN  IF b < e
         THEN /\ rc' = cursor /\ begin' = b /\ end' = e /\ pos' = Larger(cleared, cursor)
              /\ mpc' = "clear" /\ UNCHANGED late
         ELSE /\ late' = TRUE /\ mpc' = "flushed" /\ rc' = cursor
              /\ UNCHANGED <<begin, end, pos>>
  /\ UNCHANGED <<ring, slot, block, audio, history>>

\* ClearRange, one cell at a time; m_clearedUpTo only moves if there was a range.
ClearCell ==
  /\ mpc \in {"clear", "clearGap"} /\ pos < end
  /\ data' = [data EXCEPT ![Cell(pos)] = {}] /\ pos' = pos + 1 /\ cleared' = pos + 1
  /\ UNCHANGED <<written, cursor, slot, mpc, block, rc, begin, end, late, audio, history>>

EndClear ==
  /\ mpc \in {"clear", "clearGap"} /\ pos >= end
  /\ mpc' = IF mpc = "clear" THEN "add" ELSE "publishGap"
  /\ pos' = begin
  /\ UNCHANGED <<ring, slot, block, rc, begin, end, late, audio, history>>

AddSample ==
  /\ mpc = "add" /\ pos < end
  /\ data' = [data EXCEPT ![Cell(pos)] = @ \cup {pos}] /\ pos' = pos + 1
  /\ accepted' = accepted \cup {pos}
  /\ UNCHANGED <<cleared, written, cursor, slot, mpc, block, rc, begin, end, late, audio, settled>>

\* The frontier of the ring moves forward only when samples were added.
PublishBlock ==
  /\ mpc = "add" /\ pos >= end
  /\ written' = Larger(end, written) /\ mpc' = "flushed"
  /\ UNCHANGED <<data, cleared, cursor, slot, block, rc, begin, end, pos, late, audio, history>>

\* FlushStages marks the slot mixed whether or not the ring took the block.
Flushed ==
  /\ mpc = "flushed" /\ everMixed' = TRUE /\ mpc' = "transfer"
  /\ UNCHANGED <<ring, frontier, bound, block, rc, begin, end, pos, late, audio, history>>

\* OnTransferSamples publishes the painted frontier, then visits bound slots.
TransferSamples ==
  /\ mpc = "transfer" /\ frontier' = frontier + Iteration
  /\ mpc' = IF bound THEN "advance" ELSE "idle"
  /\ UNCHANGED <<ring, bound, everMixed, block, rc, begin, end, pos, late, audio, history>>

\* Mutant: the gap is published without being cleared.
AdvanceUncleared ==
  /\ mpc = "advance"
  /\ IF frontier > written
     THEN end' = Smaller(frontier, MaxEnd(cursor)) /\ rc' = cursor /\ mpc' = "publishGap"
     ELSE mpc' = "advanced" /\ UNCHANGED <<rc, end>>
  /\ UNCHANGED <<ring, slot, block, begin, pos, late, audio, history>>

AdvanceFrontier ==
  /\ mpc = "advance"
  /\ IF frontier > written
     THEN /\ rc' = cursor /\ end' = Smaller(frontier, MaxEnd(cursor))
          /\ pos' = Larger(cleared, cursor) /\ mpc' = "clearGap"
     ELSE mpc' = "advanced" /\ UNCHANGED <<rc, end, pos>>
  /\ UNCHANGED <<ring, slot, block, begin, late, audio, history>>

PublishGap ==
  /\ mpc = "publishGap" /\ written' = end /\ mpc' = "advanced"
  /\ UNCHANGED <<data, cleared, cursor, slot, block, rc, begin, end, pos, late, audio, history>>

\* A slot that has not been mixed for a while is released.
Advanced ==
  /\ mpc = "advanced" /\ mpc' = "idle"
  /\ bound' \in (IF block = 0 THEN BOOLEAN ELSE {TRUE})
  /\ UNCHANGED <<ring, frontier, everMixed, block, rc, begin, end, pos, late, audio, history>>

Mixer ==
  \/ \E k \in 0 .. Iteration : Mix(k)
  \/ Accumulate \/ ClearCell \/ EndClear \/ AddSample \/ PublishBlock \/ Flushed
  \/ TransferSamples \/ AdvanceFrontier \/ PublishGap \/ Advanced

-----------------------------------------------------------------------------
(* The audio thread                                                         *)

\* Mutant: an unpainted frame is not held.
ScheduleUnheld(t) ==
  /\ apc = "idle" /\ anchored => t >= clock
  /\ anchored' = TRUE /\ clock' = t /\ apc' = "slot"
  /\ UNCHANGED <<ring, slot, mixer, active, limit, cellIndex, history>>

\* ScheduleNativeClock: the first frame anchors the clock anywhere painted, a
\* later one stays or skips ahead; an unpainted frame is held.
Schedule(t) ==
  /\ apc = "idle" /\ t + Frame <= frontier
  /\ anchored => t >= clock
  /\ anchored' = TRUE /\ clock' = t /\ apc' = "slot"
  /\ UNCHANGED <<ring, slot, mixer, active, limit, cellIndex, history>>

\* RenderEngineSlots reads the ring only of a slot that is being rendered.
RenderSlot ==
  /\ apc = "slot"
  /\ active' = (active \/ (bound /\ everMixed))
  /\ apc' = IF active' THEN "read" ELSE "end"
  /\ UNCHANGED <<ring, slot, mixer, anchored, clock, limit, cellIndex, history>>

\* ReadAt publishes the cursor, loads the ring's frontier and copies.
ReadAt ==
  /\ apc = "read" /\ cursor' = clock + Frame /\ apc' = "limit"
  /\ settled' = (written >= clock + Frame)
  /\ UNCHANGED <<data, cleared, written, slot, mixer, anchored, clock, active, limit, cellIndex, accepted>>

LoadWritten ==
  /\ apc = "limit" /\ limit' = written /\ cellIndex' = clock /\ apc' = "copy"
  /\ UNCHANGED <<ring, slot, mixer, anchored, clock, active, history>>

CopySample ==
  /\ apc = "copy" /\ cellIndex < clock + Frame /\ cellIndex' = cellIndex + 1
  /\ UNCHANGED <<ring, slot, mixer, apc, anchored, clock, active, limit, history>>

EndRead ==
  /\ apc = "copy" /\ cellIndex = clock + Frame /\ apc' = "end"
  /\ UNCHANGED <<ring, slot, mixer, anchored, clock, active, limit, cellIndex, history>>

\* The frame ends: the clock advances and a slot that was released may finish.
EndFrame ==
  /\ apc = "end" /\ apc' = "idle" /\ clock' = clock + Frame
  /\ active' \in (IF active /\ ~bound THEN BOOLEAN ELSE {active})
  /\ UNCHANGED <<ring, slot, mixer, anchored, limit, cellIndex, history>>

Audio ==
  \/ \E t \in 0 .. MaxClock : Schedule(t)
  \/ RenderSlot \/ ReadAt \/ LoadWritten \/ CopySample \/ EndRead \/ EndFrame

RingNext == Mixer \/ Audio

RingSpec == RingInit /\ [][RingNext]_ringVars

-----------------------------------------------------------------------------
(* Properties                                                               *)

Positions == 0 .. MaxClock

RingTypeOK ==
  /\ data \in [RingCells -> SUBSET Positions]
  /\ {cleared, written, cursor, frontier, rc, begin, end, pos, clock, limit, cellIndex} \subseteq Positions
  /\ {bound, everMixed, late, anchored, active, settled} \subseteq BOOLEAN
  /\ mpc \in {"idle", "accumulate", "clear", "add", "flushed", "transfer", "advance",
              "clearGap", "publishGap", "advanced"}
  /\ apc \in {"idle", "slot", "read", "limit", "copy", "end"}
  /\ block \in 0 .. Iteration /\ accepted \subseteq Positions

\* The positions ReadAt copies from a cell rather than replacing by silence.
Copying == apc = "copy" /\ cellIndex < clock + Frame /\ cellIndex < limit
Touching == (mpc \in {"clear", "clearGap", "add"}) /\ pos < end

\* No sample is cleared or added while the audio thread copies it: the guard
\* keeps the producer off the cells of the frame published by the cursor.
NoSampleRace == Copying /\ Touching => Cell(cellIndex) # Cell(pos)

\* "It never writes at a position lower than m_readCursor" (LockFreeQueue.h:260).
\* Accumulate checks a cursor that may be old, so this rests on the render clock
\* never passing the painted frontier.
NoLateWrite == mpc = "add" /\ pos < end => pos >= cursor

\* The cursor is the end of the last frame read, and follows a clock that never
\* passes the painted frontier.
ClockOrder ==
  /\ cursor <= frontier /\ (~anchored => clock = 0 /\ apc = "idle")
  /\ clock + (IF apc = "idle" THEN 0 ELSE Frame) <= frontier
  /\ apc \in {"idle", "slot", "read"} => cursor <= clock
  /\ apc \in {"limit", "copy"} => cursor = clock + Frame
  /\ apc = "end" => cursor <= clock + Frame
  /\ apc = "copy" => limit <= written /\ clock <= cellIndex /\ cellIndex <= clock + Frame

\* What counts as written was cleared or is behind the cursor, and no cell is
\* cleared for a position a ring's length, less the guard, past the cursor.
RingOrder ==
  /\ written <= cleared \/ written <= cursor
  /\ cleared <= MaxEnd(cursor)
  /\ \A p \in accepted : p < cleared

\* Where the mixer is between its look at the cursor and its publication.
MixerOrder ==
  /\ mpc \in {"accumulate", "clear", "add", "flushed", "transfer"} => frontier + Iteration <= MaxClock
  /\ mpc = "accumulate" => block > 0
  /\ mpc \in {"clear", "add", "clearGap", "publishGap"} => rc <= cursor /\ end <= MaxEnd(rc)
  /\ mpc \in {"clear", "clearGap"} => cleared <= pos /\ written <= pos /\ (pos = cleared \/ pos = rc)
  /\ mpc \in {"clear", "add"} => frontier <= begin /\ rc <= begin /\ begin < end /\ end <= frontier + block
  /\ mpc = "add" => end <= cleared /\ begin <= pos
  /\ mpc \in {"clearGap", "publishGap"} => written <= end /\ end <= frontier
  /\ mpc = "publishGap" => end <= cleared \/ end <= rc

\* A cell holds exactly what the ring took at its position: from the cursor on as
\* far as the ring was cleared, and in a frame that had been committed before it
\* was read.
ExactInv ==
  /\ \A p \in Positions : cursor <= p /\ p < cleared => data[Cell(p)] = accepted \cap {p}
  /\ apc \in {"limit", "copy"} /\ settled =>
       clock + Frame <= cleared /\ \A p \in clock .. clock + Frame - 1 : data[Cell(p)] = accepted \cap {p}

\* No race on a sample and no late write: producer and consumer share the ring
\* without a lock.  The parts between tie the clock, the cursor and the mixer's
\* locals together, so that every step preserves the whole.
RingInv ==
  /\ RingTypeOK /\ ClockOrder /\ RingOrder /\ MixerOrder /\ ExactInv
  /\ NoSampleRace /\ NoLateWrite

\* A frame whose positions the mixer had committed before the cursor moved is
\* read exactly: every sample the ring took, and nothing from an earlier lap.
SettledReadsAreExact ==
  Copying /\ settled => data[Cell(cellIndex)] = accepted \cap {cellIndex}

\* "Positions not yet written read as silence" (LockFreeQueue.h:258).
UnwrittenReadsSilence == Copying => data[Cell(cellIndex)] \subseteq {cellIndex}

\* A slot the audio thread reads keeps every block whole as long as the engine
\* paints less than a ring, less the guard, ahead of the render clock.
ActiveSlotKeepsBlock ==
  [][Accumulate /\ cursor >= clock /\ frontier + block <= clock + RingCapacity - Guard
       => begin' = frontier /\ end' = frontier + block]_ringVars
=============================================================================
