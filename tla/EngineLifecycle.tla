-------------------------- MODULE EngineLifecycle --------------------------
(***************************************************************************)
(* The life of the audio engine (AudioEngine): initialisation with its     *)
(* fallbacks, the part of a tick that reinstalls hooks and recovers the    *)
(* output device, restart and shutdown, on the game thread, against the    *)
(* engine's mixer threads in the hooks and the thread of the output device *)
(* that pulls from the audio thread's rings.  What the audio and the       *)
(* simulation thread do is in StreamLifecycle and SimulationCommands.      *)
(***************************************************************************)
EXTENDS EngineHooks

CONSTANTS
  MaxRetries,   \* kMaxDeviceRetries
  MaxRounds     \* bound on the restarts asked for and the devices replaced

ASSUME LifecycleAssumption == MaxRetries \in Nat \ {0} /\ MaxRounds \in Nat

VARIABLES
  pc,              \* where the game thread is
  enabled,         \* snd_sa_enabled
  wantEngine,      \* outputMode asks for the engine's paint buffer, or leaves it open
  paintBuffer,     \* the paint buffer was located
  hooksInstalled,  \* m_hooksInstalled
  slotSources,     \* the capture is initialised and its slots hold sources
  outputPath,      \* m_outputPath
  rings,           \* the audio thread's rings are allocated
  audioRunning,    \* the audio thread runs
  output,          \* m_output: None, "native" or "null"
  needsRestart,    \* the device was lost, or is no longer the default one
  devicePc,        \* the device thread: "off", "idle", "pull"
  retries,         \* m_deviceRetries
  after,           \* where a shutdown leads: "init", "inactive", "closed"
  rounds,          \* restarts asked for, devices replaced
  tookDown,        \* history: the last Shutdown removed hooks
  reinstallFailed  \* history: a tick could not reinstall the hooks

deviceVars == <<output, needsRestart, devicePc>>
threadVars == <<rings, audioRunning>>
configVars == <<enabled, wantEngine, paintBuffer>>
historyVars == <<rounds, tookDown, reinstallFailed>>
engineVars == <<pc, configVars, hooksInstalled, slotSources, outputPath, threadVars, deviceVars, retries, after, historyVars>>
lifeVars == <<hookVars, engineVars>>

LifeInit ==
  /\ HooksInit
  /\ pc = "init" /\ enabled \in BOOLEAN /\ wantEngine \in BOOLEAN /\ paintBuffer = FALSE
  /\ hooksInstalled = FALSE /\ slotSources = FALSE /\ outputPath = "native"
  /\ rings = FALSE /\ audioRunning = FALSE
  /\ output = None /\ needsRestart = FALSE /\ devicePc = "off" /\ retries = 0 /\ after = "init"
  /\ rounds = 0 /\ tookDown = FALSE /\ reinstallFailed = FALSE

EngineOutputPossible == hooksInstalled /\ paintBuffer
HooksKeep == UNCHANGED hookVars
SinkKeeps == UNCHANGED <<device, known, tableVars, gHooks, capture, passthrough, mixerVars>>

SetPassthrough(on) ==
  /\ passthrough' = on
  /\ UNCHANGED <<device, known, tableVars, gHooks, capture, sink, mixerVars>>

-----------------------------------------------------------------------------
(* Initialize                                                              *)

InitKeeps == UNCHANGED <<enabled, wantEngine, outputPath, threadVars, deviceVars, retries, after, historyVars>>

LoadConfigsFails ==
  /\ pc = "init" /\ pc' = "inactive"
  /\ HooksKeep /\ InitKeeps /\ UNCHANGED <<paintBuffer, hooksInstalled, slotSources>>

\* The engine's module or its device is not found; the file system and the entity
\* list are left out.
NoEngineSide ==
  /\ pc = "init" /\ pc' = "output"
  /\ HooksKeep /\ InitKeeps /\ UNCHANGED <<paintBuffer, hooksInstalled, slotSources>>

\* The device is resolved and the slots get sources before hooks are installed.
EngineSide ==
  /\ pc = "init" /\ pc' = "installing"
  /\ known' = device /\ paintBuffer' \in BOOLEAN /\ slotSources' = TRUE
  /\ BeginInstall \/ RefuseInstall
  /\ InitKeeps /\ UNCHANGED hooksInstalled

InstallDone ==
  /\ pc = "installing" /\ hookPc = "idle"
  /\ pc' = "output" /\ hooksInstalled' = (attached # None)
  /\ HooksKeep /\ InitKeeps /\ UNCHANGED <<paintBuffer, slotSources>>

StartKeeps == UNCHANGED <<configVars, hooksInstalled, slotSources, after, historyVars>>

\* The sink is known to the hooks before the audio thread is started.
InitializeOutput ==
  /\ pc = "output" /\ pc' = "startAudio"
  /\ LET engine == wantEngine /\ EngineOutputPossible
     IN /\ outputPath' = IF engine THEN "engine" ELSE "native"
        /\ sink' = engine
  /\ SinkKeeps /\ StartKeeps /\ UNCHANGED <<threadVars, deviceVars, retries>>

\* AudioThread::Start makes new rings in place of those of an earlier start.
StartAudio ==
  /\ pc = "startAudio" /\ rings' = TRUE /\ audioRunning' = TRUE
  /\ pc' = IF outputPath = "native" THEN "openDevice" ELSE "announce"
  /\ HooksKeep /\ StartKeeps /\ UNCHANGED <<outputPath, deviceVars, retries>>

DeviceOn(kind) == output' = kind /\ needsRestart' = FALSE /\ devicePc' = "idle"
DeviceOff == output' = None /\ needsRestart' = FALSE /\ devicePc' = "off"

OpenDevice ==
  /\ pc = "openDevice"
  /\ \/ pc' = "announce" /\ DeviceOn("native") /\ UNCHANGED <<audioRunning, retries>>
     \/ EngineOutputPossible /\ pc' = "switch" /\ audioRunning' = FALSE /\ UNCHANGED <<deviceVars, retries>>
     \/ ~EngineOutputPossible /\ pc' = "announce" /\ (DeviceOn("null") \/ DeviceOff) /\ retries' = 0
        /\ UNCHANGED audioRunning
  /\ HooksKeep /\ StartKeeps /\ UNCHANGED <<outputPath, rings>>

\* The device failed and the paint buffer is there: the audio thread, stopped by
\* now, is started once more for the engine's output.
SwitchToEngineOutput ==
  /\ pc = "switch" /\ pc' = "startAudio" /\ outputPath' = "engine"
  /\ sink' = TRUE
  /\ SinkKeeps /\ StartKeeps /\ UNCHANGED <<threadVars, deviceVars, retries>>

\* An exception, say of a thread that cannot be made, and a refused start end in Shutdown.
InitializeThrows ==
  /\ pc \in {"output", "startAudio", "openDevice", "switch", "announce"}
  /\ pc' = "closeDevice" /\ after' = "inactive"
  /\ HooksKeep
  /\ UNCHANGED <<configVars, hooksInstalled, slotSources, outputPath, threadVars, deviceVars, retries, historyVars>>

Announce ==
  /\ pc = "announce" /\ pc' = "running" /\ SetPassthrough(~enabled)
  /\ UNCHANGED <<configVars, hooksInstalled, slotSources, outputPath, threadVars, deviceVars, retries, after, historyVars>>

Initialize ==
  \/ LoadConfigsFails \/ NoEngineSide \/ EngineSide \/ InstallDone \/ InitializeOutput \/ StartAudio \/ OpenDevice
  \/ SwitchToEngineOutput \/ InitializeThrows \/ Announce

-----------------------------------------------------------------------------
(* While the engine runs                                                   *)

RunKeeps == UNCHANGED <<wantEngine, paintBuffer, slotSources, outputPath, threadVars, retries, after>>

SetRuntimeConfig ==
  /\ pc = "running" /\ enabled' = ~enabled /\ SetPassthrough(enabled)
  /\ RunKeeps /\ UNCHANGED <<pc, hooksInstalled, deviceVars, historyVars>>

\* Tick: the engine's device has another class than the one the hooks know.
DetachFromOldDevice ==
  /\ pc = "running" /\ hooksInstalled /\ known # device
  /\ rounds < MaxRounds /\ rounds' = rounds + 1
  /\ pc' = "detaching" /\ BeginUninstall
  /\ RunKeeps /\ UNCHANGED <<enabled, hooksInstalled, deviceVars, tookDown, reinstallFailed>>

\* RefreshAudioDevice may fail to find the new one.
Reinstall ==
  /\ pc = "detaching" /\ hookPc = "idle" /\ pc' = "reinstalling"
  /\ known' \in {known, device}
  /\ BeginInstall \/ RefuseInstall
  /\ RunKeeps /\ UNCHANGED <<enabled, hooksInstalled, deviceVars, historyVars>>

ReinstallKeeps == RunKeeps /\ UNCHANGED <<enabled, deviceVars, rounds, tookDown>>
\* Mutant: passthrough, set by Uninstall, is not restored.
ReinstallDoneMuted ==
  /\ pc = "reinstalling" /\ hookPc = "idle" /\ pc' = "running" /\ hooksInstalled' = (attached # None)
  /\ reinstallFailed' = (reinstallFailed \/ attached = None)
  /\ HooksKeep /\ ReinstallKeeps
ReinstallDone ==
  /\ pc = "reinstalling" /\ hookPc = "idle" /\ pc' = "running"
  /\ hooksInstalled' = (attached # None)
  /\ reinstallFailed' = (reinstallFailed \/ attached = None)
  /\ IF attached = None
     THEN HooksKeep
     ELSE /\ passthrough' = ~enabled
          /\ sink' = (sink \/ outputPath = "engine")
          /\ UNCHANGED <<device, known, tableVars, gHooks, capture, mixerVars>>
  /\ ReinstallKeeps

\* RecoverOutputDevice: the device is lost or never came up, and the retry timer
\* has elapsed.  OpenNativeOutput asks the old device's thread to stop, and goes
\* on once it has.
DeviceLost == outputPath = "native" /\ (output # "native" \/ needsRestart)
RecoverKeeps == UNCHANGED <<enabled, paintBuffer, hooksInstalled, slotSources, outputPath, threadVars, historyVars>>

RecoverOutputDevice ==
  /\ pc = "running" /\ DeviceLost /\ pc' = "reopen"
  /\ retries' = IF needsRestart THEN 0 ELSE retries
  /\ HooksKeep /\ RecoverKeeps /\ UNCHANGED <<wantEngine, deviceVars, after>>

Reopen ==
  /\ pc = "reopen" /\ devicePc # "pull" /\ pc' = "running"
  /\ DeviceOn("native") /\ retries' = 0
  /\ HooksKeep /\ RecoverKeeps /\ UNCHANGED <<wantEngine, after>>

\* Mutant: the engine's output is not tried however often the device fails.
GiveUpNever(n) == FALSE
GiveUp(n) == n >= MaxRetries /\ EngineOutputPossible

ReopenFails ==
  /\ pc = "reopen" /\ devicePc # "pull"
  /\ DeviceOn("null") \/ DeviceOff
  /\ retries' = IF retries < MaxRetries THEN retries + 1 ELSE MaxRetries
  /\ IF GiveUp(retries + 1)
     THEN wantEngine' = TRUE /\ after' = "init" /\ pc' = "closeDevice"
     ELSE UNCHANGED <<wantEngine, after>> /\ pc' = "running"
  /\ HooksKeep /\ RecoverKeeps

Tick == DetachFromOldDevice \/ Reinstall \/ ReinstallDone \/ RecoverOutputDevice \/ Reopen \/ ReopenFails

-----------------------------------------------------------------------------
(* Shutdown, alone or as the first half of Restart                         *)

AskKeeps == UNCHANGED <<enabled, paintBuffer, hooksInstalled, slotSources, outputPath, threadVars, deviceVars, retries,
                        tookDown, reinstallFailed>>

Restart ==   \* snd_sa_restart: with the pending configuration
  /\ pc \in {"running", "inactive"} /\ rounds < MaxRounds /\ rounds' = rounds + 1
  /\ pc' = "closeDevice" /\ after' = "init" /\ wantEngine' \in BOOLEAN
  /\ HooksKeep /\ AskKeeps

Close ==   \* the module is unloaded
  /\ pc \in {"running", "inactive"} /\ pc' = "closeDevice" /\ after' = "closed"
  /\ HooksKeep /\ AskKeeps /\ UNCHANGED <<wantEngine, rounds>>

CloseKeeps == UNCHANGED <<configVars, slotSources, outputPath, retries, after, rounds, reinstallFailed>>

\* Mutant: the device is closed without joining its thread.
CloseUnjoined ==
  /\ pc = "closeDevice" /\ pc' = "sinkOff" /\ output' = None /\ needsRestart' = FALSE
  /\ HooksKeep /\ CloseKeeps /\ UNCHANGED <<devicePc, hooksInstalled, threadVars, tookDown>>
CloseNativeOutput ==
  /\ pc = "closeDevice" /\ devicePc # "pull" /\ pc' = "sinkOff" /\ DeviceOff
  /\ HooksKeep /\ CloseKeeps /\ UNCHANGED <<hooksInstalled, threadVars, tookDown>>

\* The sink, then the threads.  The rings stay allocated.
StopThreads ==
  /\ pc = "sinkOff" /\ pc' = "uninstall" /\ sink' = FALSE /\ audioRunning' = FALSE
  /\ SinkKeeps /\ CloseKeeps /\ UNCHANGED <<hooksInstalled, rings, deviceVars, tookDown>>

ShutdownHooks ==
  /\ pc = "uninstall" /\ pc' = "uninstalling" /\ tookDown' = hooksInstalled
  /\ IF hooksInstalled THEN BeginUninstall ELSE HooksKeep
  /\ CloseKeeps /\ UNCHANGED <<hooksInstalled, threadVars, deviceVars>>

ShutdownEnds ==
  /\ pc = "uninstalling" /\ hookPc = "idle" /\ pc' = after
  /\ hooksInstalled' = FALSE /\ slotSources' = FALSE /\ paintBuffer' = FALSE /\ reinstallFailed' = FALSE
  /\ HooksKeep
  /\ UNCHANGED <<enabled, wantEngine, outputPath, threadVars, deviceVars, retries, after, rounds, tookDown>>

Shutdown == Restart \/ Close \/ CloseNativeOutput \/ StopThreads \/ ShutdownHooks \/ ShutdownEnds

-----------------------------------------------------------------------------
(* The output device and its thread                                        *)

\* Mutant: the device's thread is joined without being told to stop.
StopUnasked == FALSE
StopRequested == pc \in {"reopen", "closeDevice"}

BeginPull ==
  /\ devicePc = "idle" /\ ~StopRequested /\ devicePc' = "pull"
  /\ UNCHANGED <<hookVars, pc, configVars, hooksInstalled, slotSources, outputPath, threadVars, output, needsRestart,
                 retries, after, historyVars>>
EndPull ==
  /\ devicePc = "pull" /\ devicePc' = "idle"
  /\ UNCHANGED <<hookVars, pc, configVars, hooksInstalled, slotSources, outputPath, threadVars, output, needsRestart,
                 retries, after, historyVars>>
LoseDevice ==
  /\ output = "native" /\ ~needsRestart /\ ~StopRequested /\ needsRestart' = TRUE
  /\ UNCHANGED <<hookVars, pc, configVars, hooksInstalled, slotSources, outputPath, threadVars, output, devicePc,
                 retries, after, historyVars>>

-----------------------------------------------------------------------------
HookThread == HookStep /\ UNCHANGED engineVars
MixerThread == (\E m \in Mixers : InTrampoline(m)) /\ UNCHANGED engineVars
Engine == ((\E m \in Mixers, k \in Kinds : Dispatch(m, k)) \/ SwitchDevice) /\ UNCHANGED engineVars

LifeNext ==
  \/ Initialize \/ SetRuntimeConfig \/ Tick \/ Shutdown \/ HookThread
  \/ MixerThread \/ Engine \/ BeginPull \/ EndPull \/ LoseDevice
LifeSpec == LifeInit /\ [][LifeNext]_lifeVars

\* A call the game thread is in goes on, the game ticks, a thread in a trampoline
\* and a pull under way come to their ends.
LifeFairSpec ==
  /\ LifeSpec
  /\ WF_lifeVars(Initialize \/ HookThread)
  /\ WF_lifeVars(Reinstall \/ ReinstallDone)
  /\ WF_lifeVars(RecoverOutputDevice \/ Reopen \/ ReopenFails)
  /\ WF_lifeVars(CloseNativeOutput \/ StopThreads \/ ShutdownHooks \/ ShutdownEnds)
  /\ WF_lifeVars(EndPull)
  /\ \A m \in Mixers : WF_lifeVars(InTrampoline(m) /\ UNCHANGED engineVars)

-----------------------------------------------------------------------------
LifeTypeOK ==
  /\ HooksTypeOK
  /\ pc \in {"init", "installing", "output", "startAudio", "openDevice", "switch", "announce", "running", "detaching",
             "reinstalling", "reopen", "closeDevice", "sinkOff", "uninstall", "uninstalling", "inactive", "closed"}
  /\ outputPath \in {"native", "engine"} /\ output \in {None, "native", "null"} /\ devicePc \in {"off", "idle", "pull"}
  /\ after \in {"init", "inactive", "closed"} /\ retries \in 0..MaxRetries /\ rounds \in 0..MaxRounds
  /\ enabled \in BOOLEAN /\ wantEngine \in BOOLEAN /\ paintBuffer \in BOOLEAN /\ hooksInstalled \in BOOLEAN
  /\ slotSources \in BOOLEAN /\ rings \in BOOLEAN /\ audioRunning \in BOOLEAN /\ needsRestart \in BOOLEAN
  /\ tookDown \in BOOLEAN /\ reinstallFailed \in BOOLEAN

\* What a mixer thread found through g_hooks is there until it has counted itself
\* out, whatever the game thread does meanwhile: the originals of the table, the
\* capture, the capture's slots.
HooksOutliveCalls ==
  \A m \in Mixers : mpc[m] \in {"hooked", "capturing", "filling"} => attached # None /\ capture /\ slotSources

\* Rings of an earlier start are not replaced under a reader: the device thread has
\* been joined, and the mixer is kept out by the passthrough that removing the
\* hooks has switched on and only the end of Initialize switches off.
OldRingsAreUnread ==
  pc = "startAudio" /\ rings => devicePc # "pull" /\ (tookDown => \A m \in Mixers : mpc[m] # "filling")

\* An engine that is down has left nothing behind in the engine: no trampoline in
\* the table of any device it ever had, no thread in the hooks, no device, no thread.
DownIsDown ==
  pc \in {"inactive", "closed"} =>
    /\ \A c \in Classes : vtable[c] = {}
    /\ \A m \in Mixers : mpc[m] \notin {"hooked", "capturing", "filling"}
    /\ ~gHooks /\ ~sink
    /\ output = None /\ devicePc = "off" /\ ~audioRunning

\* The output is on one path: with the engine's, on hooks and a paint buffer that are
\* there and on no device of its own; else not in the engine.  (A tick that fails to
\* reinstall the hooks loses the engine's output for good.)
OnOnePath ==
  IF outputPath = "engine"
  THEN sink /\ output = None /\ (EngineOutputPossible \/ reinstallFailed)
  ELSE ~sink

\* Between its calls the game thread leaves the engine heard on one path, and the
\* hooks' switch as snd_sa_enabled has it, also after hooks were removed, which sets
\* it, and installed anew.
RunsAsConfigured ==
  pc = "running" => OnOnePath /\ (hooksInstalled => passthrough = ~enabled)

\* What every step preserves, for the proofs of the properties above.  Whether hooks
\* are installed is known outside of Install and Uninstall, and inside of them from
\* where the game thread is.
CallsInv ==
  /\ pc \notin {"installing", "detaching", "reinstalling", "uninstalling"} =>
       hookPc = "idle" /\ (hooksInstalled <=> attached # None)
  /\ pc \in {"detaching", "uninstalling"} => hookPc # "hook" /\ (hookPc = "idle" => attached = None)
  /\ pc \in {"init", "installing", "inactive", "closed"} => ~hooksInstalled
  /\ pc = "switch" => EngineOutputPossible

\* Only the attached table is patched, and what a trampoline uses goes with it.
TableInv ==
  /\ \A c \in Classes : c # attached => vtable[c] = {}
  /\ hookPc = "wait" => ~gHooks /\ vtable[attached] = {}
  /\ gHooks => attached # None
  /\ attached # None => capture /\ slotSources
  /\ pc = "detaching" => slotSources

OutputInv ==
  /\ pc \in {"init", "installing", "uninstall", "uninstalling", "inactive", "closed"} => ~sink /\ ~audioRunning
  /\ pc \in {"init", "installing", "output", "startAudio", "openDevice", "switch", "sinkOff", "uninstall",
             "uninstalling", "inactive", "closed"} => output = None /\ devicePc = "off"
  /\ pc \in {"openDevice", "switch", "reopen"} => outputPath = "native"
  /\ pc \in {"startAudio", "openDevice", "switch", "announce", "running", "detaching", "reinstalling", "reopen"} =>
       OnOnePath
  /\ pc \in {"running", "reopen"} /\ hooksInstalled => passthrough = ~enabled

CoreInv == LifeTypeOK /\ CallsInv /\ TableInv /\ HooksOutliveCalls /\ OutputInv

\* From the end of a Shutdown that removed hooks to the end of the next Initialize no
\* thread is past the switch in a trampoline that asks for it.
Down == {"init", "installing", "output", "startAudio", "openDevice", "switch", "announce", "inactive", "closed"}
QuietInv ==
  /\ \A m \in Mixers : mpc[m] = "filling" => call[m] = "transfer"
  /\ tookDown /\ pc \in Down \union {"uninstalling"} => passthrough
  /\ tookDown /\ (pc \in Down \/ (pc = "uninstalling" /\ hookPc = "idle")) =>
       \A m \in Mixers : mpc[m] \in {"capturing", "filling"} => call[m] = "observe"

\* Without the singleton no slot leads into a trampoline, and a thread on its way
\* into one has lost no call yet.
LostInv ==
  /\ lost \in [Mixers -> {0, 1}]
  /\ hookPc = "hook" => gHooks
  /\ ~gHooks => /\ \A c \in Classes : vtable[c] = {}
                /\ \A m \in Mixers : mpc[m] \in {"dispatched", "counted"} => lost[m] = 0

LifeInv == CoreInv /\ QuietInv /\ LostInv

\* The engine runs as it is configured, starts anew on rings that nobody reads and
\* leaves nothing behind, with what keeps it so.
EngineInv == LifeInv /\ OldRingsAreUnread /\ DownIsDown /\ RunsAsConfigured

\* An engine whose device is lost gets one back or, where it can, gives up on devices.
LostDeviceIsReplaced ==
  pc = "running" /\ DeviceLost /\ EngineOutputPossible ~> ~DeviceLost \/ ~EngineOutputPossible

\* A shutdown ends: the waits for the device thread and for the mixer threads do.
ShutdownComesToAnEnd == pc = "closeDevice" ~> pc \in {"init", "inactive", "closed"}

\* AudioThread.h has device and mixer threads meet the audio thread "through
\* lock-free rings only"; a start of the audio thread replaces the rings, so nobody
\* may be reading them.
RingsAreUnread ==
  pc = "startAudio" /\ rings => devicePc # "pull" /\ \A m \in Mixers : mpc[m] # "filling"
=============================================================================
