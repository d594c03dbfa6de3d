---------------------------- MODULE OutputDevice ----------------------------
(***************************************************************************)
(* The outputs of platform/PlatformAudioOutput: the WASAPI endpoint and    *)
(* the null output.  The owner starts and stops them, a thread of theirs   *)
(* pulls the frames, and the system takes devices away and makes others    *)
(* the default meanwhile.                                                  *)
(***************************************************************************)
EXTENDS Integers, Sequences

CONSTANTS
  Devices,      \* endpoints
  FormatOf,     \* mix format of each: [tag, sub, bits, channels]
  MaxStarts,    \* bound on the calls of Start
  MaxChanges    \* bound on what the system does to the devices

NoDevice == "none"

ASSUME DeviceAssumption == NoDevice \notin Devices /\ {MaxStarts, MaxChanges} \subseteq Nat

VARIABLES
  backend, wanted,                    \* which output; m_request.deviceId, NoDevice for the default
  ownerPc, starts, accepted,          \* the owner; what Start answered last
  running, started, needsRestart, startResult, sourceSet,   \* m_running, m_started, ...; m_source is set
  outPc, device, notifying,           \* the thread; the endpoint it opened; m_notify is registered
  played, lateDefault,                \* the frame converted last; history: a change nobody could see
  present, defaultDevice, changes     \* the system

ownerVars == <<backend, wanted, ownerPc, starts, accepted>>
flagVars == <<running, started, needsRestart, startResult, sourceSet>>
threadVars == <<outPc, device, notifying, played, lateDefault>>
systemVars == <<present, defaultDevice, changes>>
deviceVars == <<ownerVars, flagVars, threadVars, systemVars>>

DeviceInit ==
  /\ backend \in {"wasapi", "null"} /\ wanted = NoDevice /\ ownerPc = "idle" /\ starts = 0 /\ accepted = FALSE
  /\ running = FALSE /\ started = FALSE /\ needsRestart = FALSE /\ startResult = "pending" /\ sourceSet = FALSE
  /\ outPc = "none" /\ device = NoDevice /\ notifying = FALSE /\ played = <<>> /\ lateDefault = FALSE
  /\ present = Devices /\ defaultDevice \in Devices /\ changes = 0

-----------------------------------------------------------------------------
(* Formats and samples                                                     *)

\* ClassifyFormat: an extensible format is what its sub-format says.
Tag(f) == IF f.tag = "extensible" /\ f.sub \in {"float", "pcm"} THEN f.sub ELSE f.tag
Layout(f) ==
  CASE Tag(f) = "float" /\ f.bits = 32 -> "float32"
    [] Tag(f) = "pcm" /\ f.bits \in {16, 24, 32} -> <<"pcm16", "pcm24", "pcm32">>[f.bits \div 8 - 1]
    [] OTHER -> "unsupported"

\* A sample is in halves of full scale.  Mutant: it is not clamped.
ClampOnlyAbove(v) == IF v > 2 THEN 2 ELSE v
Clamp(v) == IF v > 2 THEN 2 ELSE IF v < -2 THEN -2 ELSE v

\* Full scale of each layout; a half is rounded to even, half for half.
Top(layout) == CASE layout = "pcm16" -> 32767 [] layout = "pcm24" -> 8388607 [] layout = "pcm32" -> 2147483647 [] OTHER -> 2
Quantized(layout, v) ==
  LET size == IF v < 0 THEN -v ELSE v
      q == CASE size = 0 -> 0 [] size = 1 -> Top(layout) \div 2 + (Top(layout) % 2) [] size = 2 -> Top(layout)
             [] OTHER -> -Top(layout) - 1   \* wraps
  IN IF v < 0 /\ q > 0 THEN -q ELSE q

\* Channels beyond the first two are silent, a mono endpoint gets the mean.
Convert(f, l, r) ==
  [c \in 1 .. f.channels |->
     Quantized(Layout(f), CASE f.channels = 1 -> (Clamp(l) + Clamp(r)) \div 2
                            [] c = 1 /\ f.channels > 1 -> Clamp(l) [] c = 2 -> Clamp(r) [] OTHER -> 0)]

-----------------------------------------------------------------------------
(* The owner, on the game thread                                           *)

\* Stop begins: the thread is told, then joined.
Stop(then) == running' = FALSE /\ ownerPc' = then

StopOutput == ownerPc = "idle" /\ Stop("stopping") /\ UNCHANGED <<backend, wanted, starts, accepted, threadVars, systemVars,
                                                          started, needsRestart, startResult, sourceSet>>

StartBegin ==
  /\ ownerPc = "idle" /\ starts < MaxStarts /\ starts' = starts + 1 /\ Stop("restarting")
  /\ UNCHANGED <<backend, wanted, accepted, started, needsRestart, startResult, sourceSet, threadVars, systemVars>>

Joined == outPc \in {"none", "done"}

\* The join; what follows it.
StopEnds ==
  /\ ownerPc \in {"stopping", "failing"} /\ Joined /\ ownerPc' = "idle"
  /\ outPc' = "none" /\ sourceSet' = FALSE /\ accepted' = FALSE
  /\ UNCHANGED <<backend, wanted, starts, running, started, needsRestart, startResult, device, notifying, played,
                 lateDefault, systemVars>>

\* WASAPI, after the join.  The flag of the last device is cleared before the
\* thread can set it.
Requested(d) == backend = "wasapi" /\ ownerPc = "restarting" /\ Joined /\ wanted' = d /\ needsRestart' = FALSE /\ startResult' = "pending"

StartThread(d) ==
  /\ Requested(d) /\ running' = TRUE /\ sourceSet' = TRUE /\ played' = <<>> /\ ownerPc' = "waiting" /\ outPc' = "lookup"
  /\ UNCHANGED <<backend, starts, accepted, started, device, notifying, lateDefault, systemVars>>

\* There is no event to wake the thread with.
StartRefused(d) ==
  /\ Requested(d) /\ ownerPc' = "idle" /\ outPc' = "none" /\ sourceSet' = FALSE /\ accepted' = FALSE
  /\ UNCHANGED <<backend, starts, running, started, device, notifying, played, lateDefault, systemVars>>

\* The null output knows its format at once, or refuses an invalid request.
StartNull(valid) ==
  /\ backend = "null" /\ ownerPc = "restarting" /\ Joined /\ ownerPc' = "idle" /\ accepted' = valid
  /\ running' = valid /\ sourceSet' = valid /\ outPc' = IF valid THEN "loop" ELSE "none"
  /\ UNCHANGED <<backend, wanted, starts, started, needsRestart, startResult, device, notifying, played, lateDefault, systemVars>>

\* Mutant: the flag is cleared when the device is up.
AcceptedAndCleared ==
  /\ ownerPc = "waiting" /\ startResult = "ok" /\ ownerPc' = "idle" /\ accepted' = TRUE /\ needsRestart' = FALSE
  /\ UNCHANGED <<backend, wanted, starts, running, started, startResult, sourceSet, threadVars, systemVars>>
\* The wait for the device is bounded; too late is failed.
Accepted ==
  /\ ownerPc = "waiting" /\ startResult = "ok" /\ ownerPc' = "idle" /\ accepted' = TRUE
  /\ UNCHANGED <<backend, wanted, starts, flagVars, threadVars, systemVars>>

StartGivesUp ==
  /\ ownerPc = "waiting" /\ Stop("failing")
  /\ UNCHANGED <<backend, wanted, starts, accepted, started, needsRestart, startResult, sourceSet, threadVars, systemVars>>

-----------------------------------------------------------------------------
(* The thread of the output                                                *)

Keeps == UNCHANGED <<ownerVars, systemVars>>

\* Initialize, up to the endpoint: the one asked for, or the default.
LookupDevice ==
  /\ outPc = "lookup"
  /\ device' = IF wanted \in present THEN wanted ELSE defaultDevice
  /\ outPc' = IF device' = NoDevice THEN "failed" ELSE "open"
  /\ lateDefault' = FALSE /\ Keeps /\ UNCHANGED <<flagVars, notifying, played>>

\* Activate .. IAudioClient::Start: any call may fail, and an endpoint that is
\* gone or whose format is unknown fails for sure.
OpenDevice(fails) ==
  /\ outPc = "open" /\ outPc' = IF fails \/ device \notin present \/ Layout(FormatOf[device]) = "unsupported" THEN "failed" ELSE "register"
  /\ Keeps /\ UNCHANGED <<flagVars, device, notifying, played, lateDefault>>

\* The notification comes last; without it the default is not followed.
RegisterNotification(fails) ==
  /\ outPc = "register" /\ outPc' = "loop" /\ notifying' = ~fails /\ lateDefault' = (lateDefault \/ fails)
  /\ started' = TRUE /\ startResult' = "ok"
  /\ Keeps /\ UNCHANGED <<running, needsRestart, sourceSet, device, played>>

InitializeFailed ==
  /\ outPc = "failed" /\ outPc' = "done" /\ notifying' = FALSE /\ startResult' = "failed"
  /\ Keeps /\ UNCHANGED <<running, started, needsRestart, sourceSet, device, played, lateDefault>>

Leave(restart) ==
  /\ outPc' = "leave" /\ needsRestart' = (needsRestart \/ restart)
  /\ Keeps /\ UNCHANGED <<running, started, startResult, sourceSet, device, notifying, played, lateDefault>>

\* Mutant: a device that gives no events is waited for.
TimeoutIsIgnored == outPc = "loop" /\ backend = "wasapi" /\ ~running /\ Leave(FALSE)
\* The event does not come, or the device says it is invalid.
DeviceIsLost ==
  /\ outPc = "loop" /\ backend = "wasapi"
  /\ IF ~running THEN Leave(FALSE) ELSE device \notin present /\ Leave(TRUE)

StopIsSeen == outPc = "loop" /\ ~running /\ Leave(FALSE)

\* The event, the padding and the buffer; other failures and a full buffer are
\* waited out.
BufferIsReady ==
  /\ outPc = "loop" /\ running /\ (backend = "null" \/ device \in present)
  /\ outPc' = "pull" /\ Keeps /\ UNCHANGED <<flagVars, device, notifying, played, lateDefault>>

Pull(l, r) ==
  /\ outPc = "pull" /\ backend = "wasapi" /\ outPc' = "loop" /\ played' = Convert(FormatOf[device], l, r)
  /\ Keeps /\ UNCHANGED <<flagVars, device, notifying, lateDefault>>

\* The null output pulls at its own pace and throws the frames away.
NullPull ==
  /\ outPc = "pull" /\ backend = "null" /\ outPc' = "loop"
  /\ Keeps /\ UNCHANGED <<flagVars, device, notifying, played, lateDefault>>

\* Mutant: the notification stays registered.
CleanupForgets ==
  /\ outPc = "leave" /\ outPc' = "done" /\ started' = FALSE
  /\ Keeps /\ UNCHANGED <<running, needsRestart, startResult, sourceSet, device, notifying, played, lateDefault>>
Cleanup ==
  /\ outPc = "leave" /\ outPc' = "done" /\ started' = FALSE /\ notifying' = FALSE
  /\ Keeps /\ UNCHANGED <<running, needsRestart, startResult, sourceSet, device, played, lateDefault>>

-----------------------------------------------------------------------------
(* The system                                                              *)

OnDefaultDeviceChanged(d) ==
  /\ changes < MaxChanges /\ changes' = changes + 1 /\ d # defaultDevice /\ d \in present \union {NoDevice}
  /\ defaultDevice' = d
  /\ needsRestart' = (needsRestart \/ notifying)
  /\ lateDefault' = (lateDefault \/ outPc \in {"open", "register"})
  /\ UNCHANGED <<ownerVars, running, started, startResult, sourceSet, outPc, device, notifying, played, present>>

DeviceGoes(d) ==
  /\ changes < MaxChanges /\ changes' = changes + 1 /\ d \in present \ {defaultDevice} /\ present' = present \ {d}
  /\ UNCHANGED <<ownerVars, flagVars, threadVars, defaultDevice>>

-----------------------------------------------------------------------------

Owner == StopOutput \/ StopEnds \/ StartBegin \/ Accepted \/ StartGivesUp
         \/ \E d \in Devices \union {NoDevice} : StartRefused(d) \/ StartThread(d)
         \/ \E valid \in BOOLEAN : StartNull(valid)

Thread ==
  \/ LookupDevice \/ InitializeFailed \/ DeviceIsLost \/ StopIsSeen \/ BufferIsReady \/ NullPull \/ Cleanup
  \/ \E fails \in BOOLEAN : OpenDevice(fails) \/ RegisterNotification(fails)
  \/ \E s \in {<<-3, -3>>, <<-3, 3>>, <<-1, 1>>} : Pull(s[1], s[2])

System == \E d \in Devices \union {NoDevice} : OnDefaultDeviceChanged(d) \/ DeviceGoes(d)

DeviceNext == Owner \/ Thread \/ System

\* A thread runs, and the wait of a Start or a Stop returns when it may.
DeviceFairness == WF_deviceVars(Thread) /\ WF_deviceVars(StopEnds) /\ WF_deviceVars(Accepted \/ StartGivesUp)

DeviceSpec == DeviceInit /\ [][DeviceNext]_deviceVars /\ DeviceFairness

-----------------------------------------------------------------------------
(* Properties                                                              *)

Opened == outPc \in {"loop", "pull"} /\ backend = "wasapi"

DeviceTypeOK ==
  /\ backend \in {"wasapi", "null"} /\ wanted \in Devices \union {NoDevice}
  /\ ownerPc \in {"idle", "stopping", "failing", "restarting", "waiting"}
  /\ {accepted, running, started, needsRestart, sourceSet, notifying, lateDefault} \subseteq BOOLEAN
  /\ startResult \in {"pending", "ok", "failed"}
  /\ outPc \in {"none", "done", "lookup", "open", "register", "failed", "loop", "pull", "leave"}
  /\ {device, defaultDevice} \subseteq Devices \union {NoDevice} /\ present \subseteq Devices

\* Start resets what the thread answers with, and joins the last one first.
ThreadOrder ==
  /\ ~Joined => sourceSet
  /\ outPc \in {"lookup", "open", "register", "failed"} => startResult = "pending"
  /\ outPc = "lookup" => played = <<>>
  /\ outPc \in {"open", "register"} /\ device # wanted /\ ~lateDefault => device = defaultDevice
  /\ Opened => notifying \/ lateDefault

\* The source is pulled only between its Start and its Stop; the notification,
\* which refers to the output, never outlives the thread; a Start that said
\* yes has, or had, a device; no sample leaves the range of its layout; and a
\* default that changed while it was followed asks for a restart, unless it
\* changed while the thread was opening the old one.
DeviceInv ==
  /\ DeviceTypeOK /\ ThreadOrder
  /\ outPc = "pull" => sourceSet
  /\ notifying => outPc \in {"loop", "pull", "leave"}
  /\ ownerPc = "idle" /\ accepted /\ backend = "wasapi" => startResult = "ok"
  /\ \A c \in DOMAIN played : LET t == Top(Layout(FormatOf[device])) IN played[c] \in -t .. t
  /\ Opened /\ device # wanted /\ ~lateDefault /\ device # defaultDevice => needsRestart

\* A device that is gone is reported: the thread asks for a restart or is told
\* to stop, whatever it was doing.
LossIsReported == (Opened /\ device \notin present) ~> (needsRestart \/ ~running)
=============================================================================
