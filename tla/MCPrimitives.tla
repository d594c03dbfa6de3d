---------------------------- MODULE MCPrimitives ----------------------------
(***************************************************************************)
(* What the engine's mixer and the audio thread share without a lock: the  *)
(* primitives SeqLock, SpscQueue and TimedSampleRing, and the tables the   *)
(* mixer finds slots and fields with, each alone, in one instance for TLC: *)
(* `subject` says which of them moves in a behaviour.  Only SeqLock has a  *)
(* liveness property, and only its steps are fair.                         *)
(***************************************************************************)
EXTENDS SeqLock, SpscQueue, CaptureRing, SlotTable, LayoutInference

CONSTANTS r1, r2

MCReaders == {r1, r2}

\* Two channels hash to the last bucket, from which probing wraps round.
MCHome == [c \in EngineChannels |-> IF c = "b" THEN 0 ELSE 2]

MCOffset == [f \in Fields |-> IF f = "origin" THEN 0 ELSE 1]

VARIABLE subject

MCInit ==
  /\ Init /\ QueueInit /\ RingInit /\ TableInit /\ LayoutInit
  /\ subject \in {"lock", "queue", "ring", "table", "layout"}

MCNext ==
  /\ UNCHANGED subject
  /\ \/ subject = "lock" /\ Next /\ UNCHANGED <<queueVars, ringVars, tableVars, layoutVars>>
     \/ subject = "queue" /\ QueueNext /\ UNCHANGED <<vars, ringVars, tableVars, layoutVars>>
     \/ subject = "ring" /\ RingNext /\ UNCHANGED <<vars, queueVars, tableVars, layoutVars>>
     \/ subject = "table" /\ TableNext /\ UNCHANGED <<vars, queueVars, ringVars, layoutVars>>
     \/ subject = "layout" /\ LayoutNext /\ UNCHANGED <<vars, queueVars, ringVars, tableVars>>

MCFairSpec ==
  /\ MCInit /\ [][MCNext]_<<vars, queueVars, ringVars, tableVars, layoutVars, subject>>
  /\ Fairness

-----------------------------------------------------------------------------
\* The capture addresses the right slot, rate group and field, whatever the
\* order of sounds, evictions and votes: SlotTable's table and groups,
\* LayoutInference's offsets.
CaptureInv ==
  (subject = "table" => TableInv /\ GroupIsKept) /\ (subject = "layout" => OffsetsAreTrue)
=============================================================================
