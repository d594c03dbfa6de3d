------------------------------ MODULE AudioClock ------------------------------
(***************************************************************************)
(* The clock of mixing/AudioThread.  The engine's mixer paints ahead and   *)
(* publishes how far (core/ChannelCapture); the output device, or the      *)
(* engine itself, takes what was rendered; the audio thread has to keep    *)
(* between two clocks it does not control: it holds while the engine is    *)
(* late, and skips when it has fallen behind.                              *)
(***************************************************************************)
EXTENDS Integers

CONSTANTS
  FrameSize,     \* samples per frame
  Latency,       \* m_latencyFrames: samples the output ring is filled to
  EngineLead,    \* m_engineLeadFrames, for the fixed lead
  MaxLag,        \* m_maxLagFrames
  DeviceLatency, \* m_deviceLatencyFrames
  FirstClock,    \* where the paint clock starts, 2^32 in the code
  Paints,        \* lengths of an iteration
  MaxClock       \* bound on the paint clock

ASSUME ClockAssumption ==
  /\ FrameSize \in Nat \ {0} /\ Latency \in Nat /\ Latency >= 2 * FrameSize
  /\ FirstClock \in Nat /\ FirstClock >= Latency + FrameSize
  /\ {EngineLead, MaxLag, DeviceLatency} \subseteq Nat /\ Paints \subseteq Nat \ {0}

VARIABLES
  outputPath, fixedLead,              \* the set-up: path of the output, lead fixed or by the play cursor
  mixPc, paintBase, paintFrontier,    \* the mixer; m_paintClock and m_frontier
  soundClock, firstSound,             \* m_soundClock; history: the first paint knew the play cursor
  audioPc, renderClock, anchored,     \* the audio thread; m_renderClock, m_clockAnchored
  seenFrontier, haveData, advance,    \* locals of RenderFrame
  outLevel, overrun                   \* samples in the output ring; history: it was too full

paintVars == <<mixPc, paintBase, paintFrontier, soundClock, firstSound>>
frameVars == <<audioPc, renderClock, anchored, seenFrontier, haveData, advance>>
setupVars == <<outputPath, fixedLead>>
clockVars == <<setupVars, paintVars, frameVars, outLevel, overrun>>

Least(a, b) == IF a < b THEN a ELSE b

ClockInit ==
  /\ outputPath \in {"native", "engine"} /\ fixedLead \in BOOLEAN
  /\ mixPc = "idle" /\ paintBase = 0 /\ paintFrontier = 0 /\ soundClock = 0 /\ firstSound = FALSE
  /\ audioPc = "wait" /\ renderClock = 0 /\ anchored = FALSE
  /\ seenFrontier = 0 /\ haveData = FALSE /\ advance = TRUE
  /\ outLevel = (IF outputPath = "native" THEN Latency ELSE 0) /\ overrun = FALSE

-----------------------------------------------------------------------------
(* The engine's mixer                                                      *)

PaintKeeps == UNCHANGED <<setupVars, frameVars, outLevel, overrun>>

\* The clock goes on by the engine's step, or from the frontier when the engine
\* rewound its time; unplayed is how far it is ahead of its play cursor, a
\* negative one is not believed.
Rebased(step) ==
  CASE paintFrontier = 0 -> FirstClock
    [] paintFrontier # 0 /\ step >= 0 -> paintBase + step
    [] OTHER -> paintFrontier

\* OnPaintBegin up to the play cursor.
OnPaintBegin(step, unplayed) ==
  /\ mixPc = "idle" /\ mixPc' = "begin" /\ Rebased(step) <= MaxClock
  /\ paintBase' = Rebased(step)
  /\ soundClock' = IF unplayed >= 0 THEN Rebased(step) - unplayed ELSE soundClock
  /\ firstSound' = IF paintFrontier = 0 THEN unplayed >= 0 ELSE firstSound
  /\ PaintKeeps /\ UNCHANGED paintFrontier

\* The first time, the rings are reset and the frontier appears.
PublishPaintClock ==
  /\ mixPc = "begin" /\ mixPc' = "paint"
  /\ paintFrontier' = IF paintFrontier = 0 THEN paintBase ELSE paintFrontier
  /\ PaintKeeps /\ UNCHANGED <<paintBase, soundClock, firstSound>>

TransferredSamples(n) ==
  /\ mixPc = "paint" /\ paintBase + n <= MaxClock
  /\ paintBase' = paintBase + n
  /\ paintFrontier' = IF paintBase + n > paintFrontier THEN paintBase + n ELSE paintFrontier
  /\ PaintKeeps /\ UNCHANGED <<mixPc, soundClock, firstSound>>

PaintEnds == mixPc = "paint" /\ mixPc' = "idle" /\ PaintKeeps
             /\ UNCHANGED <<paintBase, paintFrontier, soundClock, firstSound>>

-----------------------------------------------------------------------------
(* The audio thread                                                        *)

FrameKeeps == UNCHANGED <<setupVars, paintVars>>

\* Mutant: the frame to come is not counted.
RoomNow == outLevel <= Latency
\* WaitForWork, native: a frame fits under the latency.
Room == outLevel + FrameSize <= Latency

WorkReady ==
  IF outputPath = "native" THEN Room
  ELSE paintFrontier >= FrameSize + (IF anchored THEN renderClock ELSE 0)

WaitForWork ==
  /\ audioPc = "wait" /\ WorkReady /\ audioPc' = "clock"
  /\ seenFrontier' = paintFrontier
  /\ FrameKeeps /\ UNCHANGED <<renderClock, anchored, haveData, advance, outLevel, overrun>>

\* Before the first paint a frame renders without the engine.
RenderWithoutEngine ==
  /\ audioPc = "clock" /\ outputPath = "native" /\ seenFrontier < FrameSize /\ audioPc' = "publish"
  /\ haveData' = FALSE /\ advance' = TRUE
  /\ FrameKeeps /\ UNCHANGED <<renderClock, anchored, seenFrontier, outLevel, overrun>>

\* The engine path follows the frontier from the first frame on.
AnchorToEngine ==
  /\ audioPc = "clock" /\ outputPath = "engine" /\ audioPc' = "publish"
  /\ renderClock' = IF anchored THEN renderClock ELSE seenFrontier - FrameSize
  /\ anchored' = TRUE /\ haveData' = TRUE /\ advance' = TRUE
  /\ FrameKeeps /\ UNCHANGED <<seenFrontier, outLevel, overrun>>

LeadTarget(back) == IF seenFrontier > back THEN seenFrontier - back ELSE 0
\* Right behind the engine's play cursor, never beyond the last painted frame.
Target ==
  Least(seenFrontier - FrameSize,
        IF fixedLead THEN LeadTarget(EngineLead)
        ELSE IF soundClock # 0 THEN soundClock + outLevel + DeviceLatency
        ELSE LeadTarget(Latency))

\* Mutant: a frame that is just painted is held.
HoldTooLong(clock) == seenFrontier - clock <= FrameSize
Hold(clock) == seenFrontier - clock < FrameSize
\* Mutant: the clock is put to the target whichever way it is off.
ResyncBothWays(clock) == Target - clock > MaxLag \/ clock - Target > MaxLag
Resync(clock) == Target - clock > MaxLag

ScheduleNativeClock ==
  LET clock == IF anchored THEN renderClock ELSE Target
  IN /\ audioPc = "clock" /\ outputPath = "native" /\ seenFrontier >= FrameSize /\ audioPc' = "publish"
     /\ anchored' = TRUE
     /\ haveData' = ~Hold(clock) /\ advance' = ~Hold(clock)
     /\ renderClock' = IF ~Hold(clock) /\ Resync(clock) THEN Target ELSE clock
     /\ FrameKeeps /\ UNCHANGED <<seenFrontier, outLevel, overrun>>

\* PublishOutput; a device ring without room for the frame drops its end.
PublishOutput ==
  /\ audioPc = "publish" /\ audioPc' = "wait"
  /\ IF outputPath = "native"
     THEN /\ outLevel' = Least(outLevel + FrameSize, Latency + 4 * FrameSize)
          /\ overrun' = (overrun \/ outLevel + FrameSize > Latency)
     ELSE UNCHANGED <<outLevel, overrun>>
  /\ renderClock' = IF advance /\ renderClock < MaxClock THEN renderClock + FrameSize ELSE renderClock
  /\ seenFrontier' = 0 /\ haveData' = FALSE /\ advance' = TRUE
  /\ FrameKeeps /\ UNCHANGED anchored

\* The device; an empty ring is filled up with silence.
PullStereo(n) ==
  /\ outputPath = "native" /\ outLevel' = IF n < outLevel THEN outLevel - n ELSE 0
  /\ UNCHANGED <<setupVars, paintVars, frameVars, overrun>>

-----------------------------------------------------------------------------

Mixer ==
  \/ \E step \in {-1, 0, 1}, unplayed \in {-1, 0, FrameSize} : OnPaintBegin(step, unplayed)
  \/ PublishPaintClock \/ PaintEnds \/ \E n \in Paints : TransferredSamples(n)

Audio == WaitForWork \/ RenderWithoutEngine \/ AnchorToEngine \/ ScheduleNativeClock \/ PublishOutput

Device == \E n \in {1, FrameSize} : PullStereo(n)

ClockNext == Mixer \/ Audio \/ Device

\* The thread runs, a device that was started pulls.
ClockFairness == WF_clockVars(Audio) /\ WF_clockVars(Device)

ClockSpec == ClockInit /\ [][ClockNext]_clockVars /\ ClockFairness

-----------------------------------------------------------------------------
(* Properties                                                              *)

ClockTypeOK ==
  /\ outputPath \in {"native", "engine"} /\ mixPc \in {"idle", "begin", "paint"} /\ audioPc \in {"wait", "clock", "publish"}
  /\ {fixedLead, firstSound, anchored, haveData, advance, overrun} \subseteq BOOLEAN
  /\ {paintBase, paintFrontier, soundClock, renderClock, seenFrontier, outLevel} \subseteq Nat

\* The first paint puts the clock so high that a lead can be taken from it.
PaintOrder ==
  /\ paintFrontier # 0 => paintFrontier >= FirstClock
  /\ paintFrontier # 0 \/ mixPc # "idle" =>
       paintBase >= FirstClock /\ (firstSound => soundClock # 0)

\* What WaitForWork waited for still holds when the frame is placed and written.
FrameOrder ==
  /\ outputPath = "native" /\ audioPc # "wait" => Room
  /\ outputPath = "engine" /\ audioPc = "clock" =>
       seenFrontier >= FrameSize + (IF anchored THEN renderClock ELSE 0)

\* What a frame takes from the capture rings was painted when it was taken, the
\* output ring never has to drop, and a thread that sees a frontier sees the
\* play cursor the engine gave with it (comment at ChannelCapture.cpp:171).
ClockInv ==
  /\ ClockTypeOK /\ PaintOrder /\ FrameOrder
  /\ audioPc = "publish" /\ haveData => renderClock + FrameSize <= seenFrontier
  /\ ~overrun
  /\ paintFrontier # 0 /\ firstSound => soundClock # 0

\* No sample the engine painted is heard twice: the clock moves forward only.
HeardOnce == [][anchored => renderClock' >= renderClock]_clockVars

\* Frames are heard in time and once.
ClockIsKept == []ClockInv /\ HeardOnce

\* A hold ends: the clock does not stand in front of a painted frame for ever.
HoldsEnd ==
  \/ []<>~(anchored /\ paintFrontier >= renderClock + FrameSize)
  \/ []<><<renderClock' > renderClock>>_clockVars
=============================================================================
