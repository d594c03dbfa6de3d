-------------------------- MODULE AudioThreadProofs --------------------------
(* Proofs about the audio thread's clock, about the outputs and about the     *)
(* source handles the audio thread uses, for every size of frame, latency,    *)
(* lead and lag, every set of endpoints and formats, any sources and handles  *)
(* and any grace period of at least one frame.                                *)
EXTENDS AudioClock, OutputDevice, HandleLifetime, TLAPS

-----------------------------------------------------------------------------
(* The clock                                                               *)

\* What is placed behind the play cursor is painted: the target leaves a frame.
LEMMA TargetIsPainted ==
  ASSUME ClockTypeOK, seenFrontier >= FrameSize
  PROVE  Target \in Nat /\ Target + FrameSize <= seenFrontier
BY ClockAssumption DEF ClockTypeOK, Target, Least, LeadTarget

\* The paint clock never falls under its start, whatever the engine's step.
LEMMA RebasedIsHigh ==
  ASSUME ClockTypeOK, PaintOrder, NEW step \in Int
  PROVE  Rebased(step) \in Nat /\ Rebased(step) >= FirstClock
<1>1. CASE paintFrontier = 0
  BY <1>1, ClockAssumption DEF Rebased
<1>2. CASE paintFrontier # 0 /\ step >= 0
  BY <1>2, ClockAssumption DEF Rebased, ClockTypeOK, PaintOrder
<1>3. CASE paintFrontier # 0 /\ ~(step >= 0)
  BY <1>3, ClockAssumption DEF Rebased, ClockTypeOK, PaintOrder
<1> QED
  BY <1>1, <1>2, <1>3

LEMMA ClockInitInv == ClockInit => ClockInv
<1> SUFFICES ASSUME ClockInit PROVE ClockInv
  OBVIOUS
<1> USE ClockAssumption DEF ClockInit
<1>1. {fixedLead, firstSound, anchored, haveData, advance, overrun} \subseteq BOOLEAN
  BY Zenon
<1>2. {paintBase, paintFrontier, soundClock, renderClock, seenFrontier, outLevel} \subseteq Nat
  OBVIOUS
<1>3. PaintOrder /\ FrameOrder
  BY DEF PaintOrder, FrameOrder
<1> QED
  BY <1>1, <1>2, <1>3 DEF ClockInv, ClockTypeOK

\* The mixer: it moves the painted frontier and nothing of a frame.
LEMMA MixerKeepsClock == ClockInv /\ Mixer => ClockInv'
<1> SUFFICES ASSUME ClockInv, Mixer PROVE ClockInv'
  OBVIOUS
<1> USE ClockAssumption DEF ClockInv, PaintKeeps, setupVars, frameVars
<1>1. ASSUME NEW step \in {-1, 0, 1}, NEW unplayed \in {-1, 0, FrameSize}, OnPaintBegin(step, unplayed)
      PROVE  ClockInv'
  <2> USE <1>1 DEF OnPaintBegin
  <2>1. Rebased(step) \in Nat /\ Rebased(step) >= FirstClock
    BY RebasedIsHigh
  <2>2. soundClock' \in Nat /\ (unplayed >= 0 => soundClock' # 0)
    BY <2>1 DEF ClockTypeOK
  <2>3. firstSound' \in BOOLEAN
    <3>1. firstSound \in BOOLEAN
      BY DEF ClockTypeOK
    <3>2. firstSound' = TRUE \/ firstSound' = FALSE \/ firstSound' = firstSound
      OBVIOUS
    <3> QED
      BY <3>1, <3>2, Zenon
  <2>4. ClockTypeOK'
    BY <2>1, <2>2, <2>3 DEF ClockTypeOK
  <2>5. PaintOrder'
    <3>1. paintBase' >= FirstClock
      BY <2>1
    <3>2. firstSound' => soundClock' # 0
      BY <2>2 DEF PaintOrder, ClockTypeOK
    <3> QED
      BY <3>1, <3>2 DEF PaintOrder
  <2>6. FrameOrder'
    BY DEF FrameOrder, Room
  <2> QED
    BY <2>4, <2>5, <2>6 DEF PaintOrder
<1>2. ASSUME PublishPaintClock \/ PaintEnds \/ \E n \in Paints : TransferredSamples(n) PROVE ClockInv'
  <2> USE <1>2 DEF PublishPaintClock, PaintEnds, TransferredSamples
  <2>1. ClockTypeOK'
    BY DEF ClockTypeOK
  <2>2. PaintOrder'
    BY DEF PaintOrder, ClockTypeOK
  <2>3. FrameOrder'
    BY DEF FrameOrder, Room
  <2> QED
    BY <2>1, <2>2, <2>3 DEF PaintOrder, ClockTypeOK
<1> QED
  BY <1>1, <1>2 DEF Mixer

\* The audio thread and the device, which work below what was painted.
LEMMA FrameKeepsClock == ClockInv /\ (Audio \/ Device) => ClockInv'
<1> SUFFICES ASSUME ClockInv, Audio \/ Device PROVE ClockInv'
  OBVIOUS
<1> USE ClockAssumption DEF ClockInv, FrameKeeps, setupVars, paintVars, frameVars
<1>1. CASE WaitForWork
  BY <1>1 DEF WaitForWork, WorkReady, Room, ClockTypeOK, PaintOrder, FrameOrder
<1>2. CASE RenderWithoutEngine
  BY <1>2 DEF RenderWithoutEngine, Room, ClockTypeOK, PaintOrder, FrameOrder
<1>3. CASE AnchorToEngine
  BY <1>3 DEF AnchorToEngine, Room, ClockTypeOK, PaintOrder, FrameOrder
<1>4. CASE ScheduleNativeClock
  <2> DEFINE clock == IF anchored THEN renderClock ELSE Target
  <2> USE <1>4 DEF ScheduleNativeClock
  <2>1. Target \in Nat /\ Target + FrameSize <= seenFrontier
    BY TargetIsPainted
  <2>2. clock \in Nat /\ renderClock' \in Nat
    BY <2>1 DEF ClockTypeOK
  <2>3. haveData' => renderClock' + FrameSize <= seenFrontier'
    BY <2>1, <2>2 DEF ClockTypeOK, Hold
  <2>4. haveData' \in BOOLEAN /\ advance' \in BOOLEAN
    <3>1. haveData' = ~Hold(clock) /\ advance' = ~Hold(clock)
      OBVIOUS
    <3> QED
      BY <3>1, Zenon
  <2>5. ClockTypeOK'
    BY <2>2, <2>4 DEF ClockTypeOK
  <2> QED
    BY <2>3, <2>5 DEF PaintOrder, FrameOrder, Room
<1>5. CASE PublishOutput
  <2> USE <1>5 DEF PublishOutput
  <2>1. outLevel' \in Nat /\ renderClock' \in Nat
    BY DEF ClockTypeOK, FrameOrder, Room, Least
  <2>2. ~overrun'
    BY DEF ClockTypeOK, FrameOrder, Room
  <2>3. overrun' \in BOOLEAN
    <3>1. overrun' = FALSE \/ overrun' = overrun
      BY DEF ClockTypeOK, FrameOrder, Room
    <3>2. overrun \in BOOLEAN
      BY DEF ClockTypeOK
    <3> QED
      BY <3>1, <3>2, Zenon
  <2>4. {fixedLead, firstSound, anchored, haveData, advance}' \subseteq BOOLEAN
    BY DEF ClockTypeOK
  <2>5. {paintBase, paintFrontier, soundClock, seenFrontier}' \subseteq Nat
    BY DEF ClockTypeOK
  <2>6. ClockTypeOK'
    BY <2>1, <2>3, <2>4, <2>5 DEF ClockTypeOK
  <2> QED
    BY <2>2, <2>6 DEF PaintOrder, FrameOrder
<1>6. ASSUME NEW n \in {1, FrameSize}, PullStereo(n) PROVE ClockInv'
  BY <1>6 DEF PullStereo, Room, ClockTypeOK, PaintOrder, FrameOrder
<1> QED
  BY <1>1, <1>2, <1>3, <1>4, <1>5, <1>6 DEF Audio, Device

\* Whoever moves, the invariant of the clock is kept.
LEMMA ClockInvStep == ClockInv /\ [ClockNext]_clockVars => ClockInv'
<1> SUFFICES ASSUME ClockInv, UNCHANGED clockVars PROVE ClockInv'
  BY MixerKeepsClock, FrameKeepsClock DEF ClockNext
<1> QED
  BY DEF clockVars, setupVars, paintVars, frameVars, ClockInv, ClockTypeOK, PaintOrder, FrameOrder, Room

\* A frame that is placed again goes forward: the clock is only put to a target
\* that is ahead of it by more than the lag.
LEMMA ClockForward ==
  ClockInv /\ [ClockNext]_clockVars => [anchored => renderClock' >= renderClock]_clockVars
<1> SUFFICES ASSUME ClockInv, ClockNext, anchored PROVE renderClock' >= renderClock
  OBVIOUS
<1>n. renderClock \in Nat /\ seenFrontier \in Nat /\ FrameSize \in Nat /\ MaxLag \in Nat
  BY ClockAssumption DEF ClockInv, ClockTypeOK
<1>1. ASSUME Mixer \/ Device \/ WaitForWork \/ RenderWithoutEngine PROVE renderClock' >= renderClock
  <2>1. CASE Mixer
    <3>1. PaintKeeps
      BY <2>1 DEF Mixer, OnPaintBegin, PublishPaintClock, PaintEnds, TransferredSamples
    <3> QED
      BY <1>n, <3>1 DEF PaintKeeps, frameVars
  <2>2. CASE Device
    BY <1>n, <2>2 DEF Device, PullStereo, setupVars, paintVars, frameVars
  <2>3. CASE WaitForWork
    BY <1>n, <2>3 DEF WaitForWork
  <2>4. CASE RenderWithoutEngine
    BY <1>n, <2>4 DEF RenderWithoutEngine
  <2> QED
    BY <1>1, <2>1, <2>2, <2>3, <2>4
<1>2. CASE AnchorToEngine
  BY <1>n, <1>2 DEF AnchorToEngine
<1>3. CASE ScheduleNativeClock
  <2>1. Target \in Nat
    BY <1>3, TargetIsPainted DEF ScheduleNativeClock, ClockInv
  <2> QED
    BY <1>n, <1>3, <2>1 DEF ScheduleNativeClock, Resync
<1>4. CASE PublishOutput
  BY <1>n, <1>4 DEF PublishOutput
<1> QED
  BY <1>1, <1>2, <1>3, <1>4 DEF ClockNext, Audio

\* For every frame size, latency, lead and lag: a frame is rendered from samples
\* that were painted when it was placed, the output ring never drops, and no
\* painted sample is rendered twice.
THEOREM ClockSafety == ClockSpec => ClockIsKept
<1>1. ClockSpec => []ClockInv
  BY ClockInitInv, ClockInvStep, PTL DEF ClockSpec
<1> QED
  BY <1>1, ClockForward, PTL DEF ClockSpec, ClockIsKept, HeardOnce

-----------------------------------------------------------------------------
(* The outputs                                                             *)

\* A clamped sample, and the mean of two, is at most full scale.
LEMMA ClampInRange ==
  ASSUME NEW v \in Int, NEW w \in Int
  PROVE  Clamp(v) \in -2 .. 2 /\ (Clamp(v) + Clamp(w)) \div 2 \in -2 .. 2
BY DEF Clamp

\* Quantizing at most full scale stays in the range of the layout.
LEMMA QuantizedInRange ==
  ASSUME NEW layout, NEW v \in -2 .. 2
  PROVE  Quantized(layout, v) \in -Top(layout) .. Top(layout)
<1>1. Top(layout) \in {2, 32767, 8388607, 2147483647}
  BY DEF Top
<1>2. CASE v = 0
  BY <1>1, <1>2 DEF Quantized
<1>3. CASE v \in {-1, 1}
  BY <1>1, <1>3 DEF Quantized
<1>4. CASE v \in {-2, 2}
  BY <1>1, <1>4 DEF Quantized
<1> QED
  BY <1>2, <1>3, <1>4

\* Whatever is pulled, no channel of any endpoint leaves the range of its layout.
LEMMA ConvertInRange ==
  ASSUME NEW f, NEW l \in Int, NEW r \in Int, NEW c \in DOMAIN Convert(f, l, r)
  PROVE  Convert(f, l, r)[c] \in -Top(Layout(f)) .. Top(Layout(f))
<1> DEFINE v == CASE f.channels = 1 -> (Clamp(l) + Clamp(r)) \div 2
                  [] c = 1 /\ f.channels > 1 -> Clamp(l) [] c = 2 -> Clamp(r) [] OTHER -> 0
<1>1. v \in -2 .. 2
  BY ClampInRange
<1>2. Convert(f, l, r)[c] = Quantized(Layout(f), v)
  BY DEF Convert
<1> HIDE DEF v
<1> QED
  BY <1>1, <1>2, QuantizedInRange

LEMMA DeviceInitInv == DeviceInit => DeviceInv
<1> SUFFICES ASSUME DeviceInit PROVE DeviceInv
  OBVIOUS
<1> USE DeviceAssumption DEF DeviceInit
<1>1. {accepted, running, started, needsRestart, sourceSet, notifying, lateDefault} \subseteq BOOLEAN
  BY Zenon
<1>2. DeviceTypeOK
  BY <1>1 DEF DeviceTypeOK
<1> QED
  BY <1>2 DEF DeviceInv, ThreadOrder, Opened, Joined

\* Every step of the owner, the thread and the system preserves the types.
LEMMA DeviceTypeStep == DeviceTypeOK /\ [DeviceNext]_deviceVars => DeviceTypeOK'
<1> SUFFICES ASSUME DeviceTypeOK, [DeviceNext]_deviceVars PROVE DeviceTypeOK'
  OBVIOUS
<1> USE DEF DeviceTypeOK, Stop, Keeps, Leave, ownerVars, flagVars, threadVars, systemVars
<1>1. CASE StopOutput \/ StartBegin \/ StartGivesUp
  BY <1>1 DEF StopOutput, StartBegin, StartGivesUp
<1>2. CASE StopEnds \/ Accepted
  BY <1>2 DEF StopEnds, Accepted
<1>3. ASSUME NEW d \in Devices \union {NoDevice}, StartThread(d) PROVE DeviceTypeOK'
  BY <1>3 DEF StartThread, Requested
<1>4. ASSUME NEW d \in Devices \union {NoDevice}, StartRefused(d) PROVE DeviceTypeOK'
  BY <1>4 DEF StartRefused, Requested
<1>5. ASSUME NEW valid \in BOOLEAN, StartNull(valid) PROVE DeviceTypeOK'
  BY <1>5 DEF StartNull
<1>6. CASE LookupDevice \/ InitializeFailed
  BY <1>6 DEF LookupDevice, InitializeFailed
<1>7. CASE DeviceIsLost \/ StopIsSeen
  BY <1>7 DEF DeviceIsLost, StopIsSeen
<1>8. CASE BufferIsReady \/ NullPull \/ Cleanup
  BY <1>8 DEF BufferIsReady, NullPull, Cleanup
<1>9. ASSUME NEW fails \in BOOLEAN, OpenDevice(fails) PROVE DeviceTypeOK'
  BY <1>9 DEF OpenDevice
<1>10. ASSUME NEW fails \in BOOLEAN, RegisterNotification(fails) PROVE DeviceTypeOK'
  BY <1>10 DEF RegisterNotification
<1>11. ASSUME NEW l, NEW r, Pull(l, r) PROVE DeviceTypeOK'
  BY <1>11 DEF Pull
<1>12. ASSUME NEW d \in Devices \union {NoDevice}, OnDefaultDeviceChanged(d) PROVE DeviceTypeOK'
  BY <1>12 DEF OnDefaultDeviceChanged
<1>13. ASSUME NEW d \in Devices \union {NoDevice}, DeviceGoes(d) PROVE DeviceTypeOK'
  BY <1>13 DEF DeviceGoes
<1>14. CASE UNCHANGED deviceVars
  BY <1>14 DEF deviceVars
<1> QED
  BY <1>1, <1>2, <1>3, <1>4, <1>5, <1>6, <1>7, <1>8, <1>9, <1>10, <1>11, <1>12, <1>13, <1>14
     DEF DeviceNext, Owner, Thread, System

\* What a thread converted is in the range of the endpoint it has open.
PlayedInRange == \A c \in DOMAIN played : played[c] \in -Top(Layout(FormatOf[device])) .. Top(Layout(FormatOf[device]))

\* The thread answers the Start that made it, and the notification covers the
\* endpoint it opened: one step per action.
LEMMA DeviceInvStep == DeviceInv /\ [DeviceNext]_deviceVars => DeviceInv'
<1> SUFFICES ASSUME DeviceInv, [DeviceNext]_deviceVars PROVE DeviceInv'
  OBVIOUS
<1>a. DeviceTypeOK /\ ThreadOrder /\ PlayedInRange
      /\ (notifying => outPc \in {"loop", "pull", "leave"})
      /\ (ownerPc = "idle" /\ accepted /\ backend = "wasapi" => startResult = "ok")
      /\ (Opened /\ device # wanted /\ ~lateDefault /\ device # defaultDevice => needsRestart)
  BY DEF DeviceInv, PlayedInRange
<1>b. DeviceTypeOK'
  BY <1>a, DeviceTypeStep
<1> DEFINE Order == ThreadOrder /\ (notifying => outPc \in {"loop", "pull", "leave"})
                    /\ (ownerPc = "idle" /\ accepted /\ backend = "wasapi" => startResult = "ok")
                    /\ (Opened /\ device # wanted /\ ~lateDefault /\ device # defaultDevice => needsRestart)
<1>c. ASSUME Order', PlayedInRange' PROVE DeviceInv'
  BY <1>b, <1>c DEF DeviceInv, PlayedInRange, ThreadOrder, Joined
<1>d. ASSUME UNCHANGED <<played, device>> PROVE PlayedInRange'
  BY <1>a, <1>d DEF PlayedInRange
<1> USE <1>a DEF DeviceTypeOK, ThreadOrder, Opened, Joined, Stop, Keeps, Leave, ownerVars, flagVars, threadVars, systemVars
<1>1. CASE StopOutput \/ StartBegin \/ StartGivesUp
  BY <1>1, <1>c, <1>d DEF StopOutput, StartBegin, StartGivesUp
<1>2. CASE StopEnds \/ Accepted
  BY <1>2, <1>c, <1>d DEF StopEnds, Accepted
<1>3. ASSUME NEW d \in Devices \union {NoDevice}, StartThread(d) PROVE DeviceInv'
  <2>1. PlayedInRange'
    BY <1>3 DEF StartThread, PlayedInRange
  <2> QED
    BY <1>3, <1>c, <2>1 DEF StartThread, Requested
<1>4. ASSUME NEW d \in Devices \union {NoDevice}, StartRefused(d) PROVE DeviceInv'
  BY <1>4, <1>c, <1>d DEF StartRefused, Requested
<1>5. ASSUME NEW valid \in BOOLEAN, StartNull(valid) PROVE DeviceInv'
  BY <1>5, <1>c, <1>d DEF StartNull
<1>6. CASE LookupDevice
  <2>1. PlayedInRange'
    BY <1>6 DEF LookupDevice, PlayedInRange
  <2> QED
    BY <1>6, <1>c, <2>1 DEF LookupDevice
<1>7. CASE InitializeFailed \/ DeviceIsLost \/ StopIsSeen
  BY <1>7, <1>c, <1>d DEF InitializeFailed, DeviceIsLost, StopIsSeen
<1>8. CASE BufferIsReady \/ NullPull \/ Cleanup
  BY <1>8, <1>c, <1>d DEF BufferIsReady, NullPull, Cleanup
<1>9. ASSUME NEW fails \in BOOLEAN, OpenDevice(fails) PROVE DeviceInv'
  BY <1>9, <1>c, <1>d DEF OpenDevice
<1>10. ASSUME NEW fails \in BOOLEAN, RegisterNotification(fails) PROVE DeviceInv'
  BY <1>10, <1>c, <1>d DEF RegisterNotification
<1>11. ASSUME NEW l \in Int, NEW r \in Int, Pull(l, r) PROVE DeviceInv'
  <2>1. PlayedInRange'
    BY <1>11, ConvertInRange DEF Pull, PlayedInRange
  <2> QED
    BY <1>11, <1>c, <2>1 DEF Pull
<1>12. ASSUME NEW d \in Devices \union {NoDevice}, OnDefaultDeviceChanged(d) PROVE DeviceInv'
  BY <1>12, <1>c, <1>d DEF OnDefaultDeviceChanged
<1>13. ASSUME NEW d \in Devices \union {NoDevice}, DeviceGoes(d) PROVE DeviceInv'
  BY <1>13, <1>c, <1>d DEF DeviceGoes
<1>14. CASE UNCHANGED deviceVars
  BY <1>14, <1>c, <1>d DEF deviceVars
<1> QED
  BY <1>1, <1>2, <1>3, <1>4, <1>5, <1>6, <1>7, <1>8, <1>9, <1>10, <1>11, <1>12, <1>13, <1>14
     DEF DeviceNext, Owner, Thread, System

\* For every set of endpoints and formats: the source is pulled only while it is
\* set, the notification never outlives the thread, a Start that said yes has a
\* device, samples stay in range, and a change of the default is never missed.
THEOREM DeviceSafety == DeviceSpec => []DeviceInv
BY DeviceInitInv, DeviceInvStep, PTL DEF DeviceSpec

-----------------------------------------------------------------------------
(* The source handles: IInv is inductive, so the audio thread never uses a  *)
(* released handle, never reads outputs that were not simulated, and no     *)
(* reference is lost.                                                       *)

\* The counter notes no frame while a handle is held: Held is empty then.
LEMMA NoneHeld ==
  ASSUME IInv, apc \notin {"load", "outputs"}
  PROVE  Held = {} /\ seen = {} /\ using = NoHandle
BY DEF IInv, HeldInv, Held

LEMMA SnapshotFields ==
  /\ Cleared \in Snapshots /\ Cleared.handle = NoHandle /\ Cleared.ready = FALSE
  /\ \A p \in Snapshots : p.handle \in Handles \cup {NoHandle} /\ p.ready \in BOOLEAN
  /\ \A h \in Handles, b \in BOOLEAN : [handle |-> h, ready |-> b] \in Snapshots
BY DEF Snapshots, Cleared

-----------------------------------------------------------------------------
\* Every action preserves the types.
LEMMA TypeStep == ASSUME IInv, [Next]_vars PROVE TypeOK'
<1> USE SnapshotFields DEF IInv, TypeOK, Retiring, Stopping
<1>1. ASSUME NEW s \in Sources, CreateSource(s) PROVE TypeOK'
  <2>1. PICK h \in Handles :
         /\ created' = created \cup {h} /\ refs' = [refs EXCEPT ![h] = 2]
         /\ source' = [source EXCEPT ![s] = h]
         /\ BeginStore(s, [handle |-> h, ready |-> FALSE])
    BY <1>1 DEF CreateSource
  <2>2. PICK p \in Snapshots : BeginStore(s, p)
    BY <2>1
  <2>3. storing' \in BOOLEAN /\ pending' \in Snapshots /\ cur' \in Sources
        /\ seen' \in SUBSET Snapshots
    BY <2>2 DEF BeginStore
  <2>4. created' \in SUBSET Handles /\ refs' \in [Handles -> Int]
        /\ source' \in [Sources -> Handles \cup {NoHandle}]
    BY <2>1
  <2>. QED  BY <1>1, <2>3, <2>4 DEF CreateSource
<1>2. ASSUME NEW s \in Sources, MarkSimulationReady(s) PROVE TypeOK'
  <2>1. source[s] \in Handles
    BY <1>2 DEF MarkSimulationReady
  <2>2. latest[s] \in Snapshots
    OBVIOUS
  <2>3. [latest[s] EXCEPT !.ready = TRUE] \in Snapshots
    BY <2>2 DEF Snapshots
  <2>. QED  BY <1>2, <2>1, <2>3 DEF MarkSimulationReady, BeginStore
<1>3. ASSUME NEW s \in Sources, DestroySource(s) PROVE TypeOK'
  BY <1>3 DEF DestroySource, BeginStore, handles
<1>4. CASE EndStore
  BY <1>4 DEF EndStore, handles, audio
<1>5. CASE NoteFrame
  BY <1>5 DEF NoteFrame, handles, register, audio
<1>6. CASE Defer
  <2>1. source[cur] \in Handles
    BY <1>6 DEF Defer, PublishInv
  <2>. QED  BY <1>6, <2>1 DEF Defer, register, audio
<1>7. CASE ReadCounter
  BY <1>7 DEF ReadCounter, handles, register, audio
<1>8. CASE ProcessDeferredReleases
  BY <1>8 DEF ProcessDeferredReleases, Release, register, audio
<1>9. CASE BeginStop
  BY <1>9 DEF BeginStop, handles, register, audio
<1>10. CASE DestroyAllSources
  BY <1>10 DEF DestroyAllSources, Release, register, audio
<1>11. CASE AudioStep
  BY <1>11 DEF AudioStep, BeginFrame, EndLoad, GetOutputs, EndFrame, handles, register, sim
<1>12. ASSUME NEW s \in Sources, BeginLoad(s) PROVE TypeOK'
  BY <1>12 DEF BeginLoad, handles, register, sim
<1>13. CASE StopAudio
  BY <1>13 DEF StopAudio, handles, register, sim
<1>14. CASE UNCHANGED vars
  BY <1>14 DEF vars, handles, register, sim, audio
<1>. QED
  BY <1>1, <1>2, <1>3, <1>4, <1>5, <1>6, <1>7, <1>8, <1>9, <1>10, <1>11, <1>12, <1>13, <1>14
  DEF Next, SimStep, ReleaseStep

\* Only four actions touch the ledger of owners, deferred releases and counts.
LEMMA LedgerUntouched ==
  ASSUME [Next]_vars,
         \A s \in Sources : ~CreateSource(s), ~Defer, ~ProcessDeferredReleases, ~DestroyAllSources
  PROVE  UNCHANGED <<created, refs, source, deferred>>
BY DEF Next, SimStep, ReleaseStep, AudioStep, MarkSimulationReady, DestroySource, EndStore,
       NoteFrame, ReadCounter, BeginStop, BeginFrame, BeginLoad, EndLoad, GetOutputs, EndFrame,
       StopAudio, vars, handles

\* Releasing deferred entries takes one reference from each of their handles.
LEMMA ReleaseBalance ==
  ASSUME IInv, NEW due \in SUBSET deferred, Release(due), UNCHANGED <<created, source>>
  PROVE  OwnerInv' /\ ReferencesBalance'
<1> USE DEF IInv, TypeOK, OwnerInv, Owned
<1>1. OwnerInv'
  BY DEF Release
<1>2. ASSUME NEW h \in Handles
      PROVE  refs'[h] = IF Owned(h)' THEN 2 ELSE IF \E d \in deferred' : d.handle = h THEN 1 ELSE 0
  <2>1. CASE \E d \in due : d.handle = h
    <3>1. refs'[h] = refs[h] - 1 /\ ~Owned(h) /\ refs[h] = 1
      BY <2>1 DEF Release, ReferencesBalance
    <3>2. ~\E d \in deferred' : d.handle = h
      BY <2>1 DEF Release
    <3>. QED  BY <3>1, <3>2
  <2>2. CASE ~\E d \in due : d.handle = h
    <3>1. refs'[h] = refs[h] /\ Owned(h)' = Owned(h)
      BY <2>2 DEF Release
    <3>2. (\E d \in deferred' : d.handle = h) <=> (\E d \in deferred : d.handle = h)
      BY <2>2 DEF Release
    <3>. QED  BY <3>1, <3>2 DEF ReferencesBalance
  <2>. QED  BY <2>1, <2>2
<1>. QED  BY <1>1, <1>2 DEF ReferencesBalance

LEMMA LedgerStep == ASSUME IInv, [Next]_vars PROVE OwnerInv' /\ ReferencesBalance'
<1> USE HandleAssumption DEF IInv, TypeOK, OwnerInv, Owned
<1>1. ASSUME NEW s \in Sources, CreateSource(s) PROVE OwnerInv' /\ ReferencesBalance'
  <2>1. PICK h \in Handles \ created :
          /\ created' = created \cup {h} /\ refs' = [refs EXCEPT ![h] = 2]
          /\ source' = [source EXCEPT ![s] = h]
    BY <1>1 DEF CreateSource
  <2>2. deferred' = deferred /\ source[s] = NoHandle
    BY <1>1 DEF CreateSource
  <2>3. OwnerInv'
    BY <2>1, <2>2
  <2>4. ASSUME NEW g \in Handles
        PROVE refs'[g] = IF Owned(g)' THEN 2 ELSE IF \E d \in deferred' : d.handle = g THEN 1 ELSE 0
    <3>1. CASE g = h
      BY <2>1, <2>2, <3>1
    <3>2. CASE g # h
      BY <2>1, <2>2, <3>2 DEF ReferencesBalance
    <3>. QED  BY <3>1, <3>2
  <2>. QED  BY <2>3, <2>4 DEF ReferencesBalance
<1>2. CASE Defer
  <2> DEFINE h == source[cur]
             d == [handle |-> h, retiredAt |-> mark]
  <2>1. /\ h \in created /\ h \in Handles /\ h # NoHandle /\ cur \in Sources
        /\ deferred' = deferred \cup {d} /\ refs' = [refs EXCEPT ![h] = @ - 1]
        /\ source' = [source EXCEPT ![cur] = NoHandle] /\ created' = created
    BY <1>2 DEF Defer, PublishInv, Retiring
  <2>2. \A e \in deferred : e.handle # h
    BY <2>1
  <2>3. \A s \in Sources : source'[s] = (IF s = cur THEN NoHandle ELSE source[s])
    BY <2>1
  <2>4. d.handle = h /\ source[cur] = h
    OBVIOUS
  <2> HIDE DEF h, d
  <2>5. OwnerInv'
    BY <2>1, <2>2, <2>3, <2>4
  <2>6. ASSUME NEW g \in Handles
        PROVE refs'[g] = IF Owned(g)' THEN 2 ELSE IF \E e \in deferred' : e.handle = g THEN 1 ELSE 0
    <3>1. CASE g = h
      <4>0. Owned(h)
        BY <2>1, <2>4
      <4>1. refs[h] = 2
        BY <2>1, <4>0 DEF ReferencesBalance
      <4>2. \A s \in Sources : source'[s] # h
        BY <2>1, <2>3, <2>4
      <4>3. (\E e \in deferred' : e.handle = h) /\ refs'[h] = 1
        BY <2>1, <2>4, <4>1
      <4>. QED  BY <3>1, <4>2, <4>3
    <3>2. CASE g # h
      <4>1. Owned(g)' <=> Owned(g)
        BY <2>1, <2>3, <2>4, <3>2
      <4>2. (\E e \in deferred' : e.handle = g) <=> \E e \in deferred : e.handle = g
        BY <2>1, <2>4, <3>2
      <4>. QED  BY <2>1, <3>2, <4>1, <4>2 DEF ReferencesBalance
    <3>. QED  BY <3>1, <3>2
  <2>. QED  BY <2>5, <2>6 DEF ReferencesBalance
<1>3. CASE ProcessDeferredReleases
  BY <1>3, ReleaseBalance DEF ProcessDeferredReleases
<1>4. CASE DestroyAllSources
  BY <1>4, ReleaseBalance DEF DestroyAllSources
<1>5. CASE UNCHANGED <<created, refs, source, deferred>>
  BY <1>5 DEF ReferencesBalance
<1>. QED  BY <1>1, <1>2, <1>3, <1>4, <1>5, LedgerUntouched

\* What is published or about to be is the owner's handle or nothing.
LEMMA PublishStep == ASSUME IInv, [Next]_vars PROVE PublishInv'
<1> USE HandleAssumption, SnapshotFields DEF IInv, TypeOK, PublishInv, Retiring, Stopping
<1>1. ASSUME NEW s \in Sources, CreateSource(s) PROVE PublishInv'
  <2>1. PICK h \in Handles :
          source' = [source EXCEPT ![s] = h] /\ BeginStore(s, [handle |-> h, ready |-> FALSE])
    BY <1>1 DEF CreateSource
  <2>2. /\ spc' = "publish" /\ source[s] = NoHandle /\ latest' = latest
        /\ storing' = TRUE /\ cur' = s /\ pending'.handle = h /\ spc = "tick"
    BY <1>1, <2>1 DEF CreateSource, BeginStore
  <2>3. source'[s] = h /\ \A t \in Sources \ {s} : source'[t] = source[t]
    BY <2>1
  <2>4. \A t \in Sources : latest'[t].handle \in {NoHandle, source'[t]}
    BY <2>2, <2>3
  <2>5. \A t \in Sources \ {s} : source'[t] # NoHandle => latest'[t].handle = source'[t]
    BY <2>2, <2>3
  <2>. QED  BY <2>2, <2>3, <2>4, <2>5
<1>2. ASSUME NEW s \in Sources, MarkSimulationReady(s) PROVE PublishInv'
  <2>1. /\ spc' = "publish" /\ source' = source /\ latest' = latest
        /\ storing' = TRUE /\ cur' = s /\ pending' = [latest[s] EXCEPT !.ready = TRUE]
        /\ spc = "tick" /\ latest[s].handle = source[s]
    BY <1>2 DEF MarkSimulationReady, BeginStore
  <2>2. latest[s] \in Snapshots
    OBVIOUS
  <2>3. pending'.handle = latest[s].handle
    BY <2>1, <2>2 DEF Snapshots
  <2>. QED  BY <2>1, <2>3
<1>3. ASSUME NEW s \in Sources, DestroySource(s) PROVE PublishInv'
  BY <1>3 DEF DestroySource, BeginStore, handles
<1>4. CASE EndStore
  BY <1>4 DEF EndStore, handles, audio
<1>5. CASE NoteFrame
  BY <1>5 DEF NoteFrame, handles, register
<1>6. CASE Defer
  BY <1>6 DEF Defer, register
<1>7. CASE ReadCounter \/ ProcessDeferredReleases \/ BeginStop \/ DestroyAllSources
  BY <1>7 DEF ReadCounter, ProcessDeferredReleases, BeginStop, DestroyAllSources, handles, register
<1>8. CASE UNCHANGED <<handles, register, sim>>
  BY <1>8 DEF handles, register, sim
<1>. QED
  BY <1>1, <1>2, <1>3, <1>4, <1>5, <1>6, <1>7, <1>8
  DEF Next, SimStep, ReleaseStep, AudioStep, BeginFrame, BeginLoad, EndLoad, GetOutputs, EndFrame,
      StopAudio, vars

\* Readiness is only ever published for handles the simulator has run.
LEMMA ReadyStep == ASSUME IInv, [Next]_vars PROVE ReadyInv'
<1> USE HandleAssumption, SnapshotFields DEF IInv, TypeOK, ReadyInv, IsReady, OutputsAreSimulated
<1>1. ASSUME NEW s \in Sources, CreateSource(s) PROVE ReadyInv'
  <2>1. PICK h \in Handles : BeginStore(s, [handle |-> h, ready |-> FALSE])
    BY <1>1 DEF CreateSource
  <2>2. pending'.ready = FALSE /\ seen' \subseteq seen \cup {pending'}
    BY <2>1 DEF BeginStore
  <2>. QED  BY <1>1, <2>2 DEF CreateSource
<1>2. ASSUME NEW s \in Sources, MarkSimulationReady(s) PROVE ReadyInv'
  <2>1. /\ pending' = [latest[s] EXCEPT !.ready = TRUE] /\ seen' \subseteq seen \cup {pending'}
        /\ simulated' = simulated \cup {source[s]} /\ UNCHANGED <<latest, using>>
        /\ source[s] # NoHandle /\ spc = "tick"
    BY <1>2 DEF MarkSimulationReady, BeginStore
  <2>2. latest[s] \in Snapshots
    OBVIOUS
  <2>3. pending'.handle = latest[s].handle
    BY <2>1, <2>2 DEF Snapshots
  <2>4. latest[s].handle = source[s]
    BY <2>1 DEF PublishInv, Retiring
  <2>5. pending'.handle \in simulated'
    BY <2>1, <2>3, <2>4
  <2>6. \A p \in seen' : p.ready => p.handle \in simulated'
    BY <2>1, <2>5
  <2>7. \A t \in Sources : latest'[t].ready => latest'[t].handle \in simulated'
    BY <2>1
  <2>8. using' # NoHandle => using' \in simulated'
    BY <2>1
  <2>. QED  BY <2>5, <2>6, <2>7, <2>8
<1>3. ASSUME NEW s \in Sources, DestroySource(s) PROVE ReadyInv'
  BY <1>3 DEF DestroySource, BeginStore, handles
<1>4. CASE EndStore
  BY <1>4 DEF EndStore, handles, audio
<1>5. ASSUME NEW s \in Sources, BeginLoad(s) PROVE ReadyInv'
  BY <1>5 DEF BeginLoad, handles, register, sim
<1>6. CASE EndLoad
  BY <1>6 DEF EndLoad, handles, register, sim
<1>7. CASE GetOutputs
  BY <1>7 DEF GetOutputs, handles, register, sim
<1>8. CASE UNCHANGED <<simulated, register, seen, using>>
  BY <1>8 DEF register
<1>. QED
  BY <1>1, <1>2, <1>3, <1>4, <1>5, <1>6, <1>7, <1>8
  DEF Next, SimStep, ReleaseStep, NoteFrame, Defer, ReadCounter, ProcessDeferredReleases, BeginStop,
      DestroyAllSources, AudioStep, BeginFrame, EndFrame, StopAudio, vars, handles, audio

\* A snapshot that becomes loadable adds nothing but a handle its owner still has.
LEMMA StoreHeld ==
  ASSUME IInv, NEW s \in Sources, NEW p, BeginStore(s, p), UNCHANGED <<using, apc>>
  PROVE  /\ Held' \subseteq Held \cup {p.handle}
         /\ NoHandle \notin Held'
         /\ apc' # "load" => seen' = {}
BY DEF BeginStore, Held, IInv, HeldInv

\* A handle the audio thread may use belongs to a source or was retired while
\* the frame that holds it was already running.
LEMMA HeldStep == ASSUME IInv, [Next]_vars PROVE HeldInv'
<1> USE HandleAssumption, SnapshotFields DEF IInv, TypeOK, HeldInv, Owned, Retiring, Stopping
<1>1. ASSUME NEW s \in Sources, CreateSource(s) PROVE HeldInv'
  <2>1. PICK h \in Handles :
          source' = [source EXCEPT ![s] = h] /\ BeginStore(s, [handle |-> h, ready |-> FALSE])
    BY <1>1 DEF CreateSource
  <2>2. /\ spc = "tick" /\ spc' = "publish" /\ source[s] = NoHandle
        /\ UNCHANGED <<deferred, frames, apc, using>>
    BY <1>1 DEF CreateSource
  <2>3. Held' \subseteq Held \cup {h} /\ NoHandle \notin Held' /\ (apc' # "load" => seen' = {})
    BY <2>1, <2>2, StoreHeld
  <2>4. NoHandle \notin Held
    BY DEF Held
  <2>5. \A g \in Held' : Owned(g)' \/ \E d \in deferred' : d.handle = g /\ frames' <= d.retiredAt
    BY <2>1, <2>2, <2>3, <2>4
  <2>. QED  BY <2>2, <2>3, <2>5
<1>2. ASSUME NEW s \in Sources, MarkSimulationReady(s) PROVE HeldInv'
  <2>1. /\ BeginStore(s, [latest[s] EXCEPT !.ready = TRUE]) /\ spc = "tick" /\ spc' = "publish"
        /\ UNCHANGED <<source, deferred, frames, apc, using>>
    BY <1>2 DEF MarkSimulationReady
  <2>2. latest[s] \in Snapshots
    OBVIOUS
  <2>3. [latest[s] EXCEPT !.ready = TRUE].handle \in {NoHandle, source[s]}
    BY <2>2 DEF PublishInv, Snapshots
  <2>4. /\ Held' \subseteq Held \cup {[latest[s] EXCEPT !.ready = TRUE].handle}
        /\ NoHandle \notin Held' /\ (apc' # "load" => seen' = {})
    BY <2>1, StoreHeld
  <2>. QED  BY <2>1, <2>3, <2>4
<1>3. ASSUME NEW s \in Sources, DestroySource(s) PROVE HeldInv'
  <2>1. /\ BeginStore(s, Cleared) /\ UNCHANGED <<source, deferred, frames, apc, using>>
        /\ spc' = IF spc = "tick" THEN "retire" ELSE "retireLast"
        /\ spc \in {"tick", "stopping"}
    BY <1>3 DEF DestroySource, handles
  <2>2. Held' \subseteq Held /\ (apc' # "load" => seen' = {})
    BY <2>1, StoreHeld
  <2>. QED  BY <2>1, <2>2
<1>4. CASE EndStore
  <2>1. /\ UNCHANGED <<source, deferred, frames, apc, seen, using, mark, cur>> /\ Held' = Held
        /\ spc' = (IF spc = "publish" THEN "tick" ELSE spc) /\ storing
    BY <1>4 DEF EndStore, handles, audio, Held
  <2>. QED  BY <2>1 DEF PublishInv
<1>5. CASE NoteFrame
  <2>1. Held' = Held
    BY <1>5 DEF NoteFrame, audio, Held
  <2>. QED  BY <1>5, <2>1 DEF NoteFrame, handles, register, audio
<1>6. CASE Defer
  <2>1. Held' = Held
    BY <1>6 DEF Defer, audio, Held
  <2>2. ASSUME NEW g \in Held
        PROVE  Owned(g)' \/ \E d \in deferred' : d.handle = g /\ frames' <= d.retiredAt
    <3>1. CASE g = source[cur]
      <4>1. [handle |-> g, retiredAt |-> mark] \in deferred' /\ frames' <= mark
        BY <1>6, <3>1 DEF Defer, audio
      <4>. QED  BY <4>1
    <3>2. CASE g # source[cur]
      BY <1>6, <3>2 DEF Defer, audio
    <3>. QED  BY <3>1, <3>2
  <2>3. UNCHANGED <<frames, apc, seen, using>> /\ spc' = (IF spc = "defer" THEN "tick" ELSE "stopping")
        /\ spc \in {"defer", "deferLast"}
    BY <1>6 DEF Defer, audio
  <2>. QED  BY <2>1, <2>2, <2>3
<1>7. CASE ReadCounter
  <2>1. Held' = Held
    BY <1>7 DEF ReadCounter, audio, Held
  <2>. QED  BY <1>7, <2>1 DEF ReadCounter, handles, register, audio
<1>8. CASE ProcessDeferredReleases
  <2>1. Held' = Held /\ UNCHANGED <<source, frames, apc, seen, using>> /\ spc = "release" /\ spc' = "tick"
    BY <1>8 DEF ProcessDeferredReleases, audio, Held
  <2>2. \A d \in deferred : frames <= d.retiredAt => d \in deferred'
    BY <1>8, <2>1 DEF ProcessDeferredReleases, Release, Matured
  <2>. QED  BY <2>1, <2>2
<1>9. CASE BeginStop
  <2>1. Held' = Held
    BY <1>9 DEF BeginStop, audio, Held
  <2>. QED  BY <1>9, <2>1 DEF BeginStop, handles, register, audio
<1>10. CASE DestroyAllSources
  <2>1. /\ Held' = Held /\ UNCHANGED <<source, frames, apc, seen, using>>
        /\ spc = "stopping" /\ spc' = "stopped" /\ deferred' = {} /\ Occupied = {}
    BY <1>10 DEF DestroyAllSources, Release, audio, Held
  <2>2. Held = {}
    BY <2>1, NoneHeld
  <2>. QED  BY <2>1, <2>2 DEF Occupied
<1>11. ASSUME NEW s \in Sources, BeginLoad(s) PROVE HeldInv'
  <2>1. /\ UNCHANGED <<source, deferred, spc, cur, mark, frames>> /\ using' = NoHandle
        /\ apc = "frame" /\ apc' = "load"
        /\ seen' = {latest[s]} \cup (IF storing /\ cur = s THEN {pending} ELSE {})
    BY <1>11 DEF BeginLoad, handles, register, sim
  <2>2. ASSUME NEW g \in Held'
        PROVE  g = source[s] /\ g # NoHandle /\ ~(spc \in {"defer", "deferLast"} /\ cur = s)
    <3>1. g # NoHandle /\ \E p \in seen' : p.handle = g
      BY <2>1 DEF Held
    <3>2. CASE latest[s].handle = g
      BY <3>1, <3>2 DEF PublishInv
    <3>3. CASE storing /\ cur = s /\ pending.handle = g
      BY <3>1, <3>3 DEF PublishInv
    <3>. QED  BY <2>1, <3>1, <3>2, <3>3
  <2>. QED  BY <2>1, <2>2 DEF OwnerInv, Occupied
<1>12. CASE EndLoad
  <2>1. Held' \subseteq Held
    BY <1>12 DEF EndLoad, Held
  <2>. QED  BY <1>12, <2>1 DEF EndLoad, handles, register, sim, Occupied
<1>13. CASE BeginFrame \/ GetOutputs \/ EndFrame \/ StopAudio
  <2>1. Held' = {} /\ apc' \notin {"load", "outputs"} /\ seen' = {} /\ using' = NoHandle
    BY <1>13 DEF BeginFrame, GetOutputs, EndFrame, StopAudio, Held
  <2>2. UNCHANGED <<handles, register, sim>> /\ frames <= frames' /\ apc # "stopped"
    BY <1>13 DEF BeginFrame, GetOutputs, EndFrame, StopAudio
  <2>3. UNCHANGED <<source, deferred, spc, mark, Occupied>>
    BY <2>2 DEF handles, sim, Occupied
  <2>4. spc' \notin Stopping
    BY <2>2, <2>3
  <2>5. spc = "release" => mark <= frames'
    BY <1>13 DEF BeginFrame, GetOutputs, EndFrame, StopAudio
  <2>. QED  BY <2>1, <2>3, <2>4, <2>5
<1>14. CASE UNCHANGED vars
  <2>1. Held' = Held
    BY <1>14 DEF vars, audio, Held
  <2>. QED  BY <1>14, <2>1 DEF vars, handles, register, sim, audio, Occupied
<1>. QED
  BY <1>1, <1>2, <1>3, <1>4, <1>5, <1>6, <1>7, <1>8, <1>9, <1>10, <1>11, <1>12, <1>13, <1>14
  DEF Next, SimStep, ReleaseStep, AudioStep

-----------------------------------------------------------------------------
LEMMA InitIInv == Init => IInv
<1> SUFFICES ASSUME Init PROVE IInv
  OBVIOUS
<1> USE HandleAssumption, SnapshotFields DEF Init
<1>1. TypeOK
  <2>1. latest \in [Sources -> Snapshots] /\ pending \in Snapshots /\ source \in [Sources -> Handles \cup {NoHandle}]
    OBVIOUS
  <2>2. refs \in [Handles -> Int] /\ deferred \in SUBSET [handle : Handles, retiredAt : Nat]
    OBVIOUS
  <2>. QED  BY <2>1, <2>2 DEF TypeOK, Retiring, Stopping
<1>2. OwnerInv /\ ReferencesBalance
  BY DEF OwnerInv, ReferencesBalance, Owned
<1>3. PublishInv
  BY DEF PublishInv, Retiring
<1>4. HeldInv
  BY DEF HeldInv, Held, Stopping
<1>5. ReadyInv
  BY DEF ReadyInv, IsReady, OutputsAreSimulated
<1>. QED  BY <1>1, <1>2, <1>3, <1>4, <1>5 DEF IInv

\* IInv implies that what the audio thread can reach is alive, and that
\* stopping leaves no handle behind.
LEMMA Consequences == IInv => NoUseAfterRelease /\ NothingLeaks
<1> SUFFICES ASSUME IInv PROVE NoUseAfterRelease /\ NothingLeaks
  OBVIOUS
<1> USE DEF IInv, TypeOK, ReferencesBalance, Owned, Live
<1>1. ASSUME NEW h \in Held PROVE Live(h)
  <2>1. h \in Handles
    BY DEF Held, Snapshots
  <2>2. Owned(h) \/ \E d \in deferred : d.handle = h
    BY DEF HeldInv
  <2>3. refs[h] = 2 \/ refs[h] = 1
    BY <2>1, <2>2
  <2>. QED  BY <2>3
<1>2. \A s \in Sources : latest[s].handle # NoHandle => Live(latest[s].handle)
  BY DEF PublishInv
<1>3. NothingLeaks
  <2> SUFFICES ASSUME spc = "stopped", NEW h \in Handles PROVE ~Live(h)
    BY DEF NothingLeaks
  <2>1. Occupied = {} /\ deferred = {}
    BY DEF HeldInv
  <2>2. ~Owned(h)
    BY <2>1, HandleAssumption DEF Occupied
  <2>3. refs[h] = 0
    BY <2>1, <2>2
  <2>. QED  BY <2>3
<1>. QED  BY <1>1, <1>2, <1>3 DEF NoUseAfterRelease

\* The audio thread never reads outputs through a released handle, for any
\* grace period of a frame or more; every reference is released exactly once;
\* stopping the threads leaks none; only simulated outputs are read.
THEOREM HandleSafety ==
  Spec => [](IInv /\ NoUseAfterRelease /\ ReferencesBalance /\ NothingLeaks /\ OutputsAreSimulated)
<1>1. IInv /\ [Next]_vars => IInv'
  BY TypeStep, LedgerStep, PublishStep, HeldStep, ReadyStep DEF IInv
<1>2. IInv => ReferencesBalance /\ OutputsAreSimulated
  BY DEF IInv, ReadyInv
<1>. QED  BY InitIInv, <1>1, <1>2, Consequences, PTL DEF Spec

\* The handles' ledger, counters and published snapshots agree in every state.
THEOREM HandleInvariant == Spec => []IInv
BY HandleSafety, PTL
=============================================================================
