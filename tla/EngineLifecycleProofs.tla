----------------------- MODULE EngineLifecycleProofs -----------------------
(***************************************************************************)
(* For any number of mixer threads, classes of device, retries and         *)
(* rounds: LifeInv is inductive, so what a trampoline uses outlives its    *)
(* calls and an engine that is down has left nothing behind.               *)
(***************************************************************************)
EXTENDS EngineLifecycle, TLAPS

-----------------------------------------------------------------------------
\* Types go by the hooks' part and the rest.
LEMMA TypesOfHooks == ASSUME LifeTypeOK, UNCHANGED engineVars, HooksTypeOK' PROVE LifeTypeOK'
BY DEF LifeTypeOK, engineVars, configVars, historyVars, threadVars, deviceVars

\* A step that leaves the hooks alone keeps their types.
LEMMA HooksKeepTypes == ASSUME LifeTypeOK, UNCHANGED hookVars PROVE HooksTypeOK'
BY DEF LifeTypeOK, HooksTypeOK, hookVars, tableVars, mixerVars

\* The program starts in the invariant.
LEMMA InitInv == LifeInit => LifeInv
<1> SUFFICES ASSUME LifeInit PROVE LifeInv
  OBVIOUS
<1> USE HooksAssumption, LifecycleAssumption DEF LifeInit, HooksInit
<1>1. LifeTypeOK
  <2>1. gHooks \in BOOLEAN /\ capture \in BOOLEAN /\ passthrough \in BOOLEAN /\ sink \in BOOLEAN
    OBVIOUS
  <2>2. HooksTypeOK
    BY <2>1 DEF HooksTypeOK, Kinds
  <2>3. /\ enabled \in BOOLEAN /\ wantEngine \in BOOLEAN /\ paintBuffer \in BOOLEAN /\ hooksInstalled \in BOOLEAN
        /\ slotSources \in BOOLEAN /\ rings \in BOOLEAN /\ audioRunning \in BOOLEAN /\ needsRestart \in BOOLEAN
        /\ tookDown \in BOOLEAN /\ reinstallFailed \in BOOLEAN
    OBVIOUS
  <2>. QED  BY <2>2, <2>3 DEF LifeTypeOK
<1>2. CallsInv /\ TableInv /\ OutputInv
  BY DEF CallsInv, TableInv, OutputInv, OnOnePath
<1>3. HooksOutliveCalls
  BY DEF HooksOutliveCalls
<1>4. QuietInv /\ LostInv
  BY DEF QuietInv, LostInv
<1>. QED  BY <1>1, <1>2, <1>3, <1>4 DEF LifeInv, CoreInv

-----------------------------------------------------------------------------
(* Mixer threads and the engine                                            *)

\* A step of a mixer thread changes its own place only.
LEMMA MixerStep ==
  ASSUME CoreInv, NEW m \in Mixers, InTrampoline(m), UNCHANGED engineVars
  PROVE  CoreInv'
<1> USE DEF CoreInv
<1>1. /\ UNCHANGED <<device, known, vtable, attached, toHook, hookPc, gHooks, capture, passthrough, sink>>
      /\ UNCHANGED engineVars
  BY DEF InTrampoline, CountIn, LoadHooks, Capture, PassThrough, Fill, Captured, Filled, Leaves, Moves, MixerKeeps, tableVars
<1>2. \E to \in {"out", "counted", "hooked", "capturing", "filling"} :
        /\ mpc' = [mpc EXCEPT ![m] = to]
        /\ to \in {"hooked", "capturing", "filling"} => gHooks \/ mpc[m] \in {"hooked", "capturing"}
  BY DEF InTrampoline, CountIn, LoadHooks, Capture, PassThrough, Fill, Captured, Filled, Leaves, Moves
<1>3. call' \in [Mixers -> Kinds] /\ DOMAIN lost' = Mixers
  BY DEF InTrampoline, CountIn, LoadHooks, Capture, PassThrough, Fill, Captured, Filled, Leaves, Moves, LifeTypeOK,
         HooksTypeOK, Kinds
<1> USE <1>1 DEF engineVars, configVars, historyVars, threadVars, deviceVars
<1>4. LifeTypeOK'
  <2>1. mpc' \in [Mixers -> {"out", "dispatched", "counted", "hooked", "capturing", "filling"}]
    BY <1>2 DEF LifeTypeOK, HooksTypeOK
  <2>2. HooksTypeOK'
    BY <1>3, <2>1 DEF LifeTypeOK, HooksTypeOK
  <2>. QED  BY <2>2, TypesOfHooks
<1>5. CallsInv' /\ TableInv' /\ OutputInv'
  BY DEF CallsInv, TableInv, OutputInv, OnOnePath, EngineOutputPossible
<1>6. HooksOutliveCalls'
  BY <1>2 DEF HooksOutliveCalls, TableInv, LifeTypeOK, HooksTypeOK
<1>. QED  BY <1>4, <1>5, <1>6

\* A call of the engine, or its change of device, disturbs nothing the invariant relates.
LEMMA EngineStep == ASSUME CoreInv, Engine PROVE CoreInv'
<1> USE DEF CoreInv
<1>1. /\ UNCHANGED <<known, vtable, attached, toHook, hookPc, gHooks, capture, passthrough, sink, lost>>
      /\ UNCHANGED engineVars
  BY DEF Engine, Dispatch, SwitchDevice, Moves, MixerKeeps, tableVars, mixerVars
<1>2. /\ \A m \in Mixers : mpc'[m] \in {mpc[m], "dispatched"}
      /\ mpc' \in [Mixers -> {"out", "dispatched", "counted", "hooked", "capturing", "filling"}]
      /\ call' \in [Mixers -> Kinds] /\ device' \in Classes
  BY DEF Engine, Dispatch, SwitchDevice, Moves, MixerKeeps, tableVars, mixerVars, LifeTypeOK, HooksTypeOK
<1> USE <1>1 DEF engineVars, configVars, historyVars, threadVars, deviceVars
<1>3. LifeTypeOK'
  BY <1>2 DEF LifeTypeOK, HooksTypeOK
<1>4. CallsInv' /\ TableInv' /\ OutputInv'
  BY DEF CallsInv, TableInv, OutputInv, OnOnePath, EngineOutputPossible
<1>5. HooksOutliveCalls'
  BY <1>2 DEF HooksOutliveCalls
<1>. QED  BY <1>3, <1>4, <1>5

\* Neither do the device thread's pulls and the loss of the device.
LEMMA DeviceStep == ASSUME CoreInv, BeginPull \/ EndPull \/ LoseDevice PROVE CoreInv'
<1> USE DEF CoreInv, hookVars, tableVars, mixerVars, configVars, threadVars, historyVars, BeginPull, EndPull, LoseDevice
<1>1. LifeTypeOK'
  <2>1. needsRestart' \in BOOLEAN
    BY DEF LifeTypeOK
  <2>. QED  BY <2>1, HooksKeepTypes DEF LifeTypeOK
<1>2. CallsInv' /\ TableInv' /\ HooksOutliveCalls'
  BY DEF CallsInv, TableInv, HooksOutliveCalls, EngineOutputPossible
<1>3. OutputInv'
  BY DEF OutputInv, OnOnePath, EngineOutputPossible
<1>. QED  BY <1>1, <1>2, <1>3

\* Each step of Install and Uninstall keeps the table, the singleton and what the
\* trampolines use together.
LEMMA HookThreadStep == ASSUME CoreInv, HookThread PROVE CoreInv'
<1> USE HooksAssumption DEF CoreInv, engineVars, configVars, historyVars, threadVars, deviceVars, tableVars, mixerVars,
    EngineOutputPossible
<1>1. ASSUME NEW k \in Kinds, HookSlot(k) PROVE CoreInv'
  <2> USE <1>1 DEF HookThread, HookSlot, InstallKeeps, ClearKeeps
  <2>1. attached \in Classes /\ hookPc = "hook"
    BY DEF LifeTypeOK, HooksTypeOK
  <2>2. vtable' \in [Classes -> SUBSET Kinds] /\ \A c \in Classes : c # attached => vtable'[c] = vtable[c]
    BY <2>1 DEF LifeTypeOK, HooksTypeOK
  <2>3. LifeTypeOK'
    BY <2>2 DEF LifeTypeOK, HooksTypeOK
  <2>4. TableInv' /\ HooksOutliveCalls'
    BY <2>1, <2>2 DEF TableInv, HooksOutliveCalls
  <2>5. CallsInv' /\ OutputInv'
    BY DEF CallsInv, OutputInv, OnOnePath
  <2>. QED  BY <2>3, <2>4, <2>5
<1>2. ASSUME NEW k \in Kinds, RestoreSlot(k) PROVE CoreInv'
  <2> USE <1>2 DEF HookThread, RestoreSlot, InstallKeeps, ClearKeeps
  <2>1. attached \in Classes /\ hookPc = "restore"
    BY DEF LifeTypeOK, HooksTypeOK
  <2>2. vtable' \in [Classes -> SUBSET Kinds] /\ \A c \in Classes : c # attached => vtable'[c] = vtable[c]
    BY <2>1 DEF LifeTypeOK, HooksTypeOK
  <2>3. LifeTypeOK'
    BY <2>2 DEF LifeTypeOK, HooksTypeOK
  <2>4. TableInv' /\ HooksOutliveCalls'
    BY <2>1, <2>2 DEF TableInv, HooksOutliveCalls
  <2>5. CallsInv' /\ OutputInv'
    BY DEF CallsInv, OutputInv, OnOnePath
  <2>. QED  BY <2>3, <2>4, <2>5
<1>3. CASE EndInstall
  <2> USE <1>3 DEF HookThread, EndInstall, InstallKeeps, ClearKeeps
  <2>1. LifeTypeOK'
    BY DEF LifeTypeOK, HooksTypeOK
  <2>2. CallsInv' /\ TableInv'
    BY DEF CallsInv, TableInv
  <2>3. HooksOutliveCalls' /\ OutputInv'
    BY DEF HooksOutliveCalls, OutputInv, OnOnePath
  <2>. QED  BY <2>1, <2>2, <2>3
<1>4. CASE FailSlot
  <2> USE <1>4 DEF HookThread, FailSlot, BeginUninstall
  <2>1. LifeTypeOK'
    BY DEF LifeTypeOK, HooksTypeOK
  <2>2. CallsInv' /\ TableInv'
    BY DEF CallsInv, TableInv
  <2>3. HooksOutliveCalls' /\ OutputInv'
    BY DEF HooksOutliveCalls, OutputInv, OnOnePath, CallsInv
  <2>. QED  BY <2>1, <2>2, <2>3
<1>5. CASE ClearHooks
  <2> USE <1>5 DEF HookThread, ClearHooks, ClearKeeps
  <2>1. LifeTypeOK'
    <3>1. gHooks' \in BOOLEAN
      OBVIOUS
    <3>2. HooksTypeOK'
      BY <3>1 DEF LifeTypeOK, HooksTypeOK
    <3>. QED  BY <3>2, TypesOfHooks
  <2>2. CallsInv' /\ TableInv'
    BY DEF CallsInv, TableInv
  <2>3. HooksOutliveCalls' /\ OutputInv'
    BY DEF HooksOutliveCalls, OutputInv, OnOnePath
  <2>. QED  BY <2>1, <2>2, <2>3
<1>6. CASE Detach
  <2> USE <1>6 DEF HookThread, Detach, Detached, InstallKeeps, ClearKeeps
  <2>1. LifeTypeOK'
    <3>1. capture' \in BOOLEAN
      OBVIOUS
    <3>2. HooksTypeOK'
      BY <3>1 DEF LifeTypeOK, HooksTypeOK
    <3>. QED  BY <3>2, TypesOfHooks
  <2>2. \A c \in Classes : vtable[c] = {}
    BY DEF TableInv
  <2>3. CallsInv' /\ TableInv'
    BY <2>2 DEF CallsInv, TableInv
  <2>4. HooksOutliveCalls'
    BY DEF HooksOutliveCalls, Readers, LifeTypeOK, HooksTypeOK
  <2>5. OutputInv'
    BY DEF OutputInv, OnOnePath
  <2>. QED  BY <2>1, <2>3, <2>4, <2>5
<1>. QED  BY <1>1, <1>2, <1>3, <1>4, <1>5, <1>6 DEF HookThread, HookStep

-----------------------------------------------------------------------------
(* The game thread: Initialize                                             *)

\* Initialize, with its fallbacks and its exits into Shutdown.
LEMMA InitializeStep == ASSUME CoreInv, Initialize PROVE CoreInv'
<1> USE HooksAssumption, LifecycleAssumption DEF CoreInv, hookVars, configVars, historyVars, threadVars, deviceVars, tableVars,
    mixerVars, EngineOutputPossible
<1>1. CASE LoadConfigsFails
  <2> USE <1>1 DEF LoadConfigsFails, InitKeeps, HooksKeep
  <2>1. LifeTypeOK'
    <3>. QED  BY HooksKeepTypes DEF LifeTypeOK
  <2>2. CallsInv' /\ TableInv'
    BY DEF CallsInv, TableInv
  <2>3. HooksOutliveCalls' /\ OutputInv'
    BY DEF HooksOutliveCalls, OutputInv, OnOnePath, CallsInv, TableInv
  <2>. QED  BY <2>1, <2>2, <2>3
<1>2. CASE NoEngineSide
  <2> USE <1>2 DEF NoEngineSide, InitKeeps, HooksKeep
  <2>1. LifeTypeOK'
    <3>. QED  BY HooksKeepTypes DEF LifeTypeOK
  <2>2. CallsInv' /\ TableInv'
    BY DEF CallsInv, TableInv
  <2>3. HooksOutliveCalls' /\ OutputInv'
    BY DEF HooksOutliveCalls, OutputInv, OnOnePath, CallsInv, TableInv
  <2>. QED  BY <2>1, <2>2, <2>3
<1>3. CASE EngineSide
  <2> USE <1>3 DEF EngineSide, InitKeeps, BeginInstall, RefuseInstall, RefreshKeeps
  <2>0. /\ attached = None /\ known' \in Classes /\ None \notin Classes
       /\ \A c \in Classes : vtable[c] = {}
       /\ \A m \in Mixers : mpc[m] \notin {"hooked", "capturing", "filling"}
    BY DEF CallsInv, TableInv, HooksOutliveCalls, LifeTypeOK, HooksTypeOK
  <2>1. LifeTypeOK'
    <3>1. gHooks' \in BOOLEAN /\ capture' \in BOOLEAN /\ slotSources' \in BOOLEAN /\ paintBuffer' \in BOOLEAN
      OBVIOUS
    <3>2. HooksTypeOK'
      BY <3>1 DEF LifeTypeOK, HooksTypeOK
    <3>. QED  BY <3>2, <3>1 DEF LifeTypeOK
  <2>2. CallsInv' /\ TableInv'
    BY <2>0 DEF CallsInv, TableInv
  <2>3. HooksOutliveCalls' /\ OutputInv'
    BY <2>0 DEF HooksOutliveCalls, OutputInv, OnOnePath, CallsInv, TableInv
  <2>. QED  BY <2>1, <2>2, <2>3
<1>4. CASE InstallDone
  <2> USE <1>4 DEF InstallDone, InitKeeps, HooksKeep
  <2>1. LifeTypeOK'
    <3>1. hooksInstalled' \in BOOLEAN
      OBVIOUS
    <3>. QED  BY <3>1, HooksKeepTypes DEF LifeTypeOK
  <2>2. CallsInv' /\ TableInv'
    BY DEF CallsInv, TableInv
  <2>3. HooksOutliveCalls' /\ OutputInv'
    BY DEF HooksOutliveCalls, OutputInv, OnOnePath, CallsInv, TableInv
  <2>. QED  BY <2>1, <2>2, <2>3
<1>5. CASE InitializeOutput
  <2> USE <1>5 DEF InitializeOutput, StartKeeps, SinkKeeps
  <2>1. LifeTypeOK'
    <3>1. sink' \in BOOLEAN
      BY DEF LifeTypeOK
    <3>2. HooksTypeOK'
      BY <3>1 DEF LifeTypeOK, HooksTypeOK
    <3>. QED  BY <3>2, <3>1 DEF LifeTypeOK
  <2>2. CallsInv' /\ TableInv'
    BY DEF CallsInv, TableInv
  <2>3. HooksOutliveCalls' /\ OutputInv'
    BY DEF HooksOutliveCalls, OutputInv, OnOnePath, CallsInv, TableInv
  <2>. QED  BY <2>1, <2>2, <2>3
<1>6. CASE StartAudio
  <2> USE <1>6 DEF StartAudio, StartKeeps, HooksKeep
  <2>1. LifeTypeOK'
    <3>1. rings' \in BOOLEAN /\ audioRunning' \in BOOLEAN
      OBVIOUS
    <3>. QED  BY <3>1, HooksKeepTypes DEF LifeTypeOK
  <2>2. CallsInv' /\ TableInv'
    BY DEF CallsInv, TableInv
  <2>3. HooksOutliveCalls' /\ OutputInv'
    BY DEF HooksOutliveCalls, OutputInv, OnOnePath, CallsInv, TableInv
  <2>. QED  BY <2>1, <2>2, <2>3
<1>7. CASE OpenDevice
  <2> USE <1>7 DEF OpenDevice, StartKeeps, HooksKeep, DeviceOn, DeviceOff
  <2>1. LifeTypeOK'
    <3>1. audioRunning' \in BOOLEAN /\ needsRestart' \in BOOLEAN
      BY DEF LifeTypeOK
    <3>. QED  BY <3>1, HooksKeepTypes DEF LifeTypeOK
  <2>2. CallsInv' /\ TableInv'
    BY DEF CallsInv, TableInv
  <2>3. HooksOutliveCalls' /\ OutputInv'
    BY DEF HooksOutliveCalls, OutputInv, OnOnePath, CallsInv, TableInv
  <2>. QED  BY <2>1, <2>2, <2>3
<1>8. CASE SwitchToEngineOutput
  <2> USE <1>8 DEF SwitchToEngineOutput, StartKeeps, SinkKeeps
  <2>1. LifeTypeOK'
    <3>1. sink' \in BOOLEAN
      OBVIOUS
    <3>2. HooksTypeOK'
      BY <3>1 DEF LifeTypeOK, HooksTypeOK
    <3>. QED  BY <3>2, <3>1 DEF LifeTypeOK
  <2>2. CallsInv' /\ TableInv'
    BY DEF CallsInv, TableInv
  <2>3. HooksOutliveCalls' /\ OutputInv'
    BY DEF HooksOutliveCalls, OutputInv, OnOnePath, CallsInv, TableInv
  <2>. QED  BY <2>1, <2>2, <2>3
<1>9. CASE InitializeThrows
  <2> USE <1>9 DEF InitializeThrows, HooksKeep
  <2>1. LifeTypeOK'
    <3>. QED  BY HooksKeepTypes DEF LifeTypeOK
  <2>2. CallsInv' /\ TableInv'
    BY DEF CallsInv, TableInv
  <2>3. HooksOutliveCalls' /\ OutputInv'
    BY DEF HooksOutliveCalls, OutputInv, OnOnePath, CallsInv, TableInv
  <2>. QED  BY <2>1, <2>2, <2>3
<1>10. CASE Announce
  <2> USE <1>10 DEF Announce, SetPassthrough
  <2>1. LifeTypeOK'
    <3>1. passthrough' \in BOOLEAN
      BY DEF LifeTypeOK
    <3>2. HooksTypeOK'
      BY <3>1 DEF LifeTypeOK, HooksTypeOK
    <3>. QED  BY <3>2, <3>1 DEF LifeTypeOK
  <2>2. CallsInv' /\ TableInv'
    BY DEF CallsInv, TableInv
  <2>3. HooksOutliveCalls' /\ OutputInv'
    BY DEF HooksOutliveCalls, OutputInv, OnOnePath, CallsInv, TableInv
  <2>. QED  BY <2>1, <2>2, <2>3
<1>. QED  BY <1>1, <1>2, <1>3, <1>4, <1>5, <1>6, <1>7, <1>8, <1>9, <1>10 DEF Initialize

-----------------------------------------------------------------------------
(* The game thread: configuration and ticks                                *)

\* A change of the configuration, and what a tick does to hooks and device.
LEMMA RunStep == ASSUME CoreInv, SetRuntimeConfig \/ Tick PROVE CoreInv'
<1> USE HooksAssumption, LifecycleAssumption DEF CoreInv, hookVars, configVars, historyVars, threadVars, deviceVars, tableVars,
    mixerVars, EngineOutputPossible
<1>1. CASE SetRuntimeConfig
  <2> USE <1>1 DEF SetRuntimeConfig, SetPassthrough, RunKeeps
  <2>0. passthrough' = ~enabled'
    BY DEF LifeTypeOK
  <2>1. LifeTypeOK'
    <3>1. enabled' \in BOOLEAN /\ passthrough' \in BOOLEAN
      BY DEF LifeTypeOK
    <3>2. HooksTypeOK'
      BY <3>1 DEF LifeTypeOK, HooksTypeOK
    <3>. QED  BY <3>2, <3>1 DEF LifeTypeOK
  <2>2. CallsInv' /\ TableInv'
    BY <2>0 DEF CallsInv, TableInv
  <2>3. HooksOutliveCalls' /\ OutputInv'
    BY <2>0 DEF HooksOutliveCalls, OutputInv, OnOnePath, CallsInv, TableInv
  <2>. QED  BY <2>1, <2>2, <2>3
<1>2. CASE DetachFromOldDevice
  <2> USE <1>2 DEF DetachFromOldDevice, BeginUninstall, RunKeeps
  <2>1. LifeTypeOK'
    <3>1. passthrough' \in BOOLEAN
      OBVIOUS
    <3>2. HooksTypeOK'
      BY <3>1 DEF LifeTypeOK, HooksTypeOK
    <3>. QED  BY <3>2, <3>1 DEF LifeTypeOK
  <2>2. CallsInv' /\ TableInv'
    BY DEF CallsInv, TableInv
  <2>3. HooksOutliveCalls' /\ OutputInv'
    BY DEF HooksOutliveCalls, OutputInv, OnOnePath, CallsInv, TableInv
  <2>. QED  BY <2>1, <2>2, <2>3
<1>3. CASE Reinstall
  <2> USE <1>3 DEF Reinstall, BeginInstall, RefuseInstall, RefreshKeeps, RunKeeps
  <2>0. /\ attached = None /\ known' \in Classes /\ None \notin Classes
       /\ \A c \in Classes : vtable[c] = {}
       /\ \A m \in Mixers : mpc[m] \notin {"hooked", "capturing", "filling"}
    BY DEF CallsInv, TableInv, HooksOutliveCalls, LifeTypeOK, HooksTypeOK
  <2>1. LifeTypeOK'
    <3>1. gHooks' \in BOOLEAN /\ capture' \in BOOLEAN
      OBVIOUS
    <3>2. HooksTypeOK'
      BY <3>1 DEF LifeTypeOK, HooksTypeOK
    <3>. QED  BY <3>2, <3>1 DEF LifeTypeOK
  <2>2. CallsInv' /\ TableInv'
    BY <2>0 DEF CallsInv, TableInv
  <2>3. HooksOutliveCalls' /\ OutputInv'
    BY <2>0 DEF HooksOutliveCalls, OutputInv, OnOnePath, CallsInv, TableInv
  <2>. QED  BY <2>1, <2>2, <2>3
<1>4. CASE ReinstallDone
  <2>1. CASE attached = None
    <3> USE <1>4, <2>1 DEF ReinstallDone, ReinstallKeeps, RunKeeps, HooksKeep
    <3>1. hooksInstalled' = FALSE /\ reinstallFailed' = TRUE
      OBVIOUS
    <3>2. LifeTypeOK'
      BY <3>1, HooksKeepTypes DEF LifeTypeOK
    <3>3. CallsInv' /\ TableInv'
      BY <3>1 DEF CallsInv, TableInv
    <3>4. HooksOutliveCalls' /\ OutputInv'
      BY <3>1 DEF HooksOutliveCalls, OutputInv, OnOnePath, CallsInv, TableInv
    <3>. QED  BY <3>2, <3>3, <3>4
  <2>2. CASE attached # None
    <3> USE <1>4, <2>2 DEF ReinstallDone, ReinstallKeeps, RunKeeps
    <3>1. hooksInstalled' = TRUE /\ reinstallFailed' = reinstallFailed
      BY DEF LifeTypeOK
    <3>2. passthrough' = ~enabled' /\ passthrough' \in BOOLEAN
      BY DEF LifeTypeOK
    <3>3. sink' \in BOOLEAN /\ (outputPath = "engine" => sink') /\ (outputPath # "engine" => sink' = sink)
      BY DEF LifeTypeOK, HooksTypeOK
    <3>4. HooksTypeOK'
      BY <3>2, <3>3 DEF LifeTypeOK, HooksTypeOK
    <3>5. LifeTypeOK'
      BY <3>1, <3>4 DEF LifeTypeOK
    <3>6. CallsInv' /\ TableInv'
      BY <3>1 DEF CallsInv, TableInv
    <3>7. HooksOutliveCalls' /\ OutputInv'
      BY <3>1, <3>2, <3>3 DEF HooksOutliveCalls, OutputInv, OnOnePath, CallsInv, TableInv
    <3>. QED  BY <3>5, <3>6, <3>7
  <2>. QED  BY <2>1, <2>2
<1>5. CASE RecoverOutputDevice
  <2> USE <1>5 DEF RecoverOutputDevice, DeviceLost, HooksKeep, RecoverKeeps
  <2>1. LifeTypeOK'
    <3>. QED  BY HooksKeepTypes DEF LifeTypeOK
  <2>2. CallsInv' /\ TableInv'
    BY DEF CallsInv, TableInv
  <2>3. HooksOutliveCalls' /\ OutputInv'
    BY DEF HooksOutliveCalls, OutputInv, OnOnePath, CallsInv, TableInv
  <2>. QED  BY <2>1, <2>2, <2>3
<1>6. CASE Reopen
  <2> USE <1>6 DEF Reopen, HooksKeep, RecoverKeeps, DeviceOn
  <2>1. LifeTypeOK'
    <3>1. needsRestart' \in BOOLEAN
      OBVIOUS
    <3>. QED  BY <3>1, HooksKeepTypes DEF LifeTypeOK
  <2>2. CallsInv' /\ TableInv'
    BY DEF CallsInv, TableInv
  <2>3. HooksOutliveCalls' /\ OutputInv'
    BY DEF HooksOutliveCalls, OutputInv, OnOnePath, CallsInv, TableInv
  <2>. QED  BY <2>1, <2>2, <2>3
<1>7. CASE ReopenFails
  <2> USE <1>7 DEF ReopenFails, HooksKeep, RecoverKeeps, DeviceOn, DeviceOff, GiveUp
  <2>1. LifeTypeOK'
    <3>1. needsRestart' \in BOOLEAN /\ wantEngine' \in BOOLEAN
      BY DEF LifeTypeOK
    <3>. QED  BY <3>1, HooksKeepTypes DEF LifeTypeOK
  <2>2. CallsInv' /\ TableInv'
    BY DEF CallsInv, TableInv
  <2>3. HooksOutliveCalls' /\ OutputInv'
    BY DEF HooksOutliveCalls, OutputInv, OnOnePath, CallsInv, TableInv
  <2>. QED  BY <2>1, <2>2, <2>3
<1>. QED  BY <1>1, <1>2, <1>3, <1>4, <1>5, <1>6, <1>7 DEF Tick

-----------------------------------------------------------------------------
(* The game thread: Shutdown                                               *)

\* Shutdown takes device, sink, threads and hooks down in this order.
LEMMA ShutdownStep == ASSUME CoreInv, Shutdown PROVE CoreInv'
<1> USE HooksAssumption, LifecycleAssumption DEF CoreInv, hookVars, configVars, historyVars, threadVars, deviceVars, tableVars,
    mixerVars, EngineOutputPossible
<1>1. CASE Restart
  <2> USE <1>1 DEF Restart, HooksKeep, AskKeeps
  <2>1. LifeTypeOK'
    <3>1. wantEngine' \in BOOLEAN
      OBVIOUS
    <3>. QED  BY <3>1, HooksKeepTypes DEF LifeTypeOK
  <2>2. CallsInv' /\ TableInv'
    BY DEF CallsInv, TableInv
  <2>3. HooksOutliveCalls' /\ OutputInv'
    BY DEF HooksOutliveCalls, OutputInv, OnOnePath, CallsInv, TableInv
  <2>. QED  BY <2>1, <2>2, <2>3
<1>2. CASE Close
  <2> USE <1>2 DEF Close, HooksKeep, AskKeeps
  <2>1. LifeTypeOK'
    <3>. QED  BY HooksKeepTypes DEF LifeTypeOK
  <2>2. CallsInv' /\ TableInv'
    BY DEF CallsInv, TableInv
  <2>3. HooksOutliveCalls' /\ OutputInv'
    BY DEF HooksOutliveCalls, OutputInv, OnOnePath, CallsInv, TableInv
  <2>. QED  BY <2>1, <2>2, <2>3
<1>3. CASE CloseNativeOutput
  <2> USE <1>3 DEF CloseNativeOutput, HooksKeep, CloseKeeps, DeviceOff
  <2>1. LifeTypeOK'
    <3>1. needsRestart' \in BOOLEAN
      OBVIOUS
    <3>. QED  BY <3>1, HooksKeepTypes DEF LifeTypeOK
  <2>2. CallsInv' /\ TableInv'
    BY DEF CallsInv, TableInv
  <2>3. HooksOutliveCalls' /\ OutputInv'
    BY DEF HooksOutliveCalls, OutputInv, OnOnePath, CallsInv, TableInv
  <2>. QED  BY <2>1, <2>2, <2>3
<1>4. CASE StopThreads
  <2> USE <1>4 DEF StopThreads, SinkKeeps, CloseKeeps
  <2>1. LifeTypeOK'
    <3>1. sink' \in BOOLEAN /\ audioRunning' \in BOOLEAN
      OBVIOUS
    <3>2. HooksTypeOK'
      BY <3>1 DEF LifeTypeOK, HooksTypeOK
    <3>. QED  BY <3>2, <3>1 DEF LifeTypeOK
  <2>2. CallsInv' /\ TableInv'
    BY DEF CallsInv, TableInv
  <2>3. HooksOutliveCalls' /\ OutputInv'
    BY DEF HooksOutliveCalls, OutputInv, OnOnePath, CallsInv, TableInv
  <2>. QED  BY <2>1, <2>2, <2>3
<1>5. CASE ShutdownHooks
  <2>1. CASE hooksInstalled
    <3> USE <1>5, <2>1 DEF ShutdownHooks, CloseKeeps, BeginUninstall
    <3>1. passthrough' \in BOOLEAN /\ tookDown' \in BOOLEAN
      OBVIOUS
    <3>2. HooksTypeOK'
      BY <3>1 DEF LifeTypeOK, HooksTypeOK
    <3>3. LifeTypeOK'
      BY <3>1, <3>2 DEF LifeTypeOK
    <3>4. CallsInv' /\ TableInv'
      BY DEF CallsInv, TableInv
    <3>5. HooksOutliveCalls' /\ OutputInv'
      BY DEF HooksOutliveCalls, OutputInv, OnOnePath, CallsInv, TableInv
    <3>. QED  BY <3>3, <3>4, <3>5
  <2>2. CASE ~hooksInstalled
    <3> USE <1>5, <2>2 DEF ShutdownHooks, CloseKeeps, HooksKeep
    <3>1. tookDown' \in BOOLEAN
      BY DEF LifeTypeOK
    <3>2. LifeTypeOK'
      BY <3>1, HooksKeepTypes DEF LifeTypeOK
    <3>3. CallsInv' /\ TableInv'
      BY DEF CallsInv, TableInv
    <3>4. HooksOutliveCalls' /\ OutputInv'
      BY DEF HooksOutliveCalls, OutputInv, OnOnePath, CallsInv, TableInv
    <3>. QED  BY <3>2, <3>3, <3>4
  <2>. QED  BY <2>1, <2>2
<1>6. CASE ShutdownEnds
  <2> USE <1>6 DEF ShutdownEnds, HooksKeep
  <2>0. /\ attached = None /\ after \in {"init", "inactive", "closed"}
       /\ \A c \in Classes : vtable[c] = {}
       /\ \A m \in Mixers : mpc[m] \notin {"hooked", "capturing", "filling"}
    BY DEF CallsInv, TableInv, HooksOutliveCalls, LifeTypeOK
  <2>1. LifeTypeOK'
    <3>1. hooksInstalled' \in BOOLEAN /\ slotSources' \in BOOLEAN /\ paintBuffer' \in BOOLEAN /\ reinstallFailed' \in BOOLEAN
      OBVIOUS
    <3>. QED  BY <3>1, HooksKeepTypes DEF LifeTypeOK
  <2>2. CallsInv' /\ TableInv'
    BY <2>0 DEF CallsInv, TableInv
  <2>3. HooksOutliveCalls' /\ OutputInv'
    BY <2>0 DEF HooksOutliveCalls, OutputInv, OnOnePath, CallsInv, TableInv
  <2>. QED  BY <2>1, <2>2, <2>3
<1>. QED  BY <1>1, <1>2, <1>3, <1>4, <1>5, <1>6 DEF Shutdown

-----------------------------------------------------------------------------
\* The core of the invariant is preserved by every step.
LEMMA CoreStep == ASSUME CoreInv, [LifeNext]_lifeVars PROVE CoreInv'
<1>1. CASE UNCHANGED lifeVars
  <2> USE <1>1 DEF lifeVars
  <2>1. LifeTypeOK'
    BY HooksKeepTypes, TypesOfHooks DEF CoreInv
  <2>2. CallsInv' /\ TableInv' /\ HooksOutliveCalls' /\ OutputInv'
    BY DEF CoreInv, CallsInv, TableInv, HooksOutliveCalls, OutputInv, OnOnePath, EngineOutputPossible, hookVars,
       engineVars, configVars, historyVars, threadVars, deviceVars, tableVars, mixerVars
  <2>. QED  BY <2>1, <2>2 DEF CoreInv
<1>. QED
  BY <1>1, InitializeStep, RunStep, ShutdownStep, HookThreadStep, MixerStep, EngineStep, DeviceStep
  DEF LifeNext, MixerThread

-----------------------------------------------------------------------------
(* The switch while the engine is down, and the calls lost                 *)

\* The game thread leaves the places of the mixer threads alone.
LEMMA GameLeavesMixers ==
  ASSUME Initialize \/ SetRuntimeConfig \/ Tick \/ Shutdown \/ BeginPull \/ EndPull \/ LoseDevice
  PROVE  UNCHANGED <<mpc, call, lost>>
BY DEF Initialize, LoadConfigsFails, NoEngineSide, EngineSide, InstallDone, InitializeOutput, StartAudio, OpenDevice,
       SwitchToEngineOutput, InitializeThrows, Announce, SetRuntimeConfig, Tick, DetachFromOldDevice, Reinstall,
       ReinstallDone, RecoverOutputDevice, Reopen, ReopenFails, Shutdown, Restart, Close, CloseNativeOutput, StopThreads,
       ShutdownHooks, ShutdownEnds, BeginPull, EndPull, LoseDevice, BeginInstall, RefuseInstall, BeginUninstall,
       SetPassthrough, HooksKeep, SinkKeeps, RefreshKeeps, hookVars, mixerVars

\* Passthrough stays on from the removal of the hooks to the end of Initialize, and
\* keeps threads out of the mixing path.
LEMMA QuietStep == ASSUME CoreInv, QuietInv, [LifeNext]_lifeVars PROVE QuietInv'
<1> USE DEF hookVars, tableVars, mixerVars, configVars, historyVars, threadVars, deviceVars
<1>1. CASE Initialize
  <2>1. pc' \in Down => pc \in Down /\ (passthrough => passthrough')
    BY <1>1 DEF Initialize, LoadConfigsFails, NoEngineSide, EngineSide, InstallDone, InitializeOutput, StartAudio,
         OpenDevice, SwitchToEngineOutput, InitializeThrows, Announce, HooksKeep, SinkKeeps, BeginInstall, RefuseInstall,
         RefreshKeeps, Down
  <2>2. pc' # "uninstalling" /\ tookDown' = tookDown
    BY <1>1 DEF Initialize, LoadConfigsFails, NoEngineSide, EngineSide, InstallDone, InitializeOutput, StartAudio,
         OpenDevice, SwitchToEngineOutput, InitializeThrows, Announce, InitKeeps, StartKeeps
  <2>. QED  BY <1>1, <2>1, <2>2, GameLeavesMixers DEF QuietInv
<1>2. CASE SetRuntimeConfig \/ Tick
  <2>1. pc' \notin Down \union {"uninstalling"}
    BY <1>2 DEF SetRuntimeConfig, Tick, DetachFromOldDevice, Reinstall, ReinstallDone, RecoverOutputDevice, Reopen,
         ReopenFails, Down
  <2>. QED  BY <1>2, <2>1, GameLeavesMixers DEF QuietInv
<1>3. CASE Shutdown
  <2>1. CASE Restart \/ Close \/ CloseNativeOutput \/ StopThreads
    <3>1. pc' \notin Down \union {"uninstalling"}
      BY <2>1 DEF Restart, Close, CloseNativeOutput, StopThreads, Down
    <3>. QED  BY <1>3, <3>1, GameLeavesMixers DEF QuietInv
  <2>2. CASE ShutdownHooks
    <3>1. pc' = "uninstalling" /\ (tookDown' => passthrough' /\ hookPc' # "idle")
      BY <2>2 DEF ShutdownHooks, BeginUninstall
    <3>. QED  BY <1>3, <3>1, GameLeavesMixers DEF QuietInv, Down
  <2>3. CASE ShutdownEnds
    <3>1. pc = "uninstalling" /\ hookPc = "idle" /\ UNCHANGED <<passthrough, tookDown, hookPc>>
      BY <2>3 DEF ShutdownEnds, HooksKeep
    <3>. QED  BY <1>3, <3>1, GameLeavesMixers DEF QuietInv
  <2>. QED  BY <1>3, <2>1, <2>2, <2>3 DEF Shutdown
<1>4. CASE HookThread
  <2>1. UNCHANGED <<mpc, call, pc, tookDown>> /\ (passthrough => passthrough')
    BY <1>4 DEF HookThread, HookStep, HookSlot, RestoreSlot, EndInstall, FailSlot, BeginUninstall, ClearHooks, Detach,
         Detached, InstallKeeps, ClearKeeps, engineVars
  <2>2. pc = "uninstalling" /\ hookPc' = "idle" => \A m \in Mixers : mpc[m] \notin {"capturing", "filling"}
    BY <1>4 DEF HookThread, HookStep, HookSlot, RestoreSlot, EndInstall, FailSlot, BeginUninstall, ClearHooks, Detach,
         Readers, CoreInv, CallsInv
  <2>. QED  BY <2>1, <2>2 DEF QuietInv, Down
<1>5. ASSUME NEW m \in Mixers, InTrampoline(m), UNCHANGED engineVars PROVE QuietInv'
  <2>1. /\ UNCHANGED <<passthrough, hookPc, pc, tookDown>>
        /\ \A n \in Mixers \ {m} : mpc'[n] = mpc[n] /\ call'[n] = call[n]
    BY <1>5 DEF InTrampoline, CountIn, LoadHooks, Capture, PassThrough, Fill, Captured, Filled, Leaves, Moves, MixerKeeps,
         engineVars, CoreInv, LifeTypeOK, HooksTypeOK
  <2>2. \/ mpc'[m] \notin {"capturing", "filling"}
        \/ mpc'[m] = "capturing" /\ call'[m] = call[m] /\ (passthrough => call[m] = "observe")
        \/ mpc[m] = "capturing" /\ mpc'[m] = "filling" /\ call[m] = "transfer" /\ call'[m] = call[m]
    BY <1>5 DEF InTrampoline, CountIn, LoadHooks, Capture, PassThrough, Fill, Captured, Filled, Leaves, Moves, CoreInv,
         LifeTypeOK, HooksTypeOK
  <2>. QED  BY <2>1, <2>2 DEF QuietInv
<1>6. CASE Engine
  <2>1. /\ UNCHANGED <<passthrough, hookPc, pc, tookDown>>
        /\ \A n \in Mixers : mpc'[n] # "dispatched" => mpc'[n] = mpc[n] /\ call'[n] = call[n]
    BY <1>6 DEF Engine, Dispatch, SwitchDevice, Moves, MixerKeeps, engineVars, CoreInv, LifeTypeOK, HooksTypeOK
  <2>. QED  BY <2>1 DEF QuietInv
<1>7. CASE BeginPull \/ EndPull \/ LoseDevice \/ UNCHANGED lifeVars
  <2>1. UNCHANGED <<passthrough, hookPc, pc, tookDown, mpc, call>>
    BY <1>7 DEF BeginPull, EndPull, LoseDevice, lifeVars, engineVars
  <2>. QED  BY <2>1 DEF QuietInv
<1>. QED  BY <1>1, <1>2, <1>3, <1>4, <1>5, <1>6, <1>7 DEF LifeNext, MixerThread

\* The calls a thread has lost are accounted for by where the singleton and the thread are.
LEMMA LostStep == ASSUME CoreInv, LostInv, [LifeNext]_lifeVars PROVE LostInv'
<1> USE DEF hookVars, tableVars, mixerVars
<1>1. CASE Initialize \/ SetRuntimeConfig \/ Tick \/ Shutdown \/ BeginPull \/ EndPull \/ LoseDevice
  <2>1. vtable' = vtable
    BY <1>1 DEF Initialize, LoadConfigsFails, NoEngineSide, EngineSide, InstallDone, InitializeOutput, StartAudio,
         OpenDevice, SwitchToEngineOutput, InitializeThrows, Announce, SetRuntimeConfig, Tick, DetachFromOldDevice,
         Reinstall, ReinstallDone, RecoverOutputDevice, Reopen, ReopenFails, Shutdown, Restart, Close, CloseNativeOutput,
         StopThreads, ShutdownHooks, ShutdownEnds, BeginPull, EndPull, LoseDevice, BeginInstall, RefuseInstall,
         BeginUninstall, SetPassthrough, HooksKeep, SinkKeeps, RefreshKeeps
  <2>2. gHooks' = gHooks \/ gHooks' = TRUE \/ (pc \in {"init", "detaching"} /\ hookPc = "idle")
    BY <1>1 DEF Initialize, LoadConfigsFails, NoEngineSide, EngineSide, InstallDone, InitializeOutput, StartAudio,
         OpenDevice, SwitchToEngineOutput, InitializeThrows, Announce, SetRuntimeConfig, Tick, DetachFromOldDevice,
         Reinstall, ReinstallDone, RecoverOutputDevice, Reopen, ReopenFails, Shutdown, Restart, Close, CloseNativeOutput,
         StopThreads, ShutdownHooks, ShutdownEnds, BeginPull, EndPull, LoseDevice, BeginInstall, RefuseInstall,
         BeginUninstall, SetPassthrough, HooksKeep, SinkKeeps, RefreshKeeps
  <2>3. pc \in {"init", "detaching"} /\ hookPc = "idle" => ~gHooks
    BY DEF CoreInv, CallsInv, TableInv
  <2>4. hookPc' = "hook" => gHooks' \/ (hookPc = "hook" /\ gHooks' = gHooks)
    BY <1>1 DEF Initialize, LoadConfigsFails, NoEngineSide, EngineSide, InstallDone, InitializeOutput, StartAudio,
         OpenDevice, SwitchToEngineOutput, InitializeThrows, Announce, SetRuntimeConfig, Tick, DetachFromOldDevice,
         Reinstall, ReinstallDone, RecoverOutputDevice, Reopen, ReopenFails, Shutdown, Restart, Close, CloseNativeOutput,
         StopThreads, ShutdownHooks, ShutdownEnds, BeginPull, EndPull, LoseDevice, BeginInstall, RefuseInstall,
         BeginUninstall, SetPassthrough, HooksKeep, SinkKeeps, RefreshKeeps
  <2>. QED  BY <1>1, <2>1, <2>2, <2>3, <2>4, GameLeavesMixers DEF LostInv
<1>2. CASE HookThread
  <2>1. ASSUME NEW k \in Kinds, HookSlot(k) PROVE LostInv'
    <3>1. UNCHANGED <<gHooks, hookPc, mpc, lost>> /\ gHooks
      BY <2>1 DEF HookSlot, InstallKeeps, ClearKeeps, LostInv
    <3>. QED  BY <3>1 DEF LostInv
  <2>2. ASSUME NEW k \in Kinds, RestoreSlot(k) PROVE LostInv'
    <3>1. UNCHANGED <<gHooks, hookPc, mpc, lost>> /\ \A c \in Classes : vtable'[c] \subseteq vtable[c]
      BY <2>2 DEF RestoreSlot, InstallKeeps, ClearKeeps, CoreInv, LifeTypeOK, HooksTypeOK
    <3>. QED  BY <3>1 DEF LostInv
  <2>3. CASE EndInstall
    <3>1. UNCHANGED <<gHooks, mpc, lost, vtable>> /\ hookPc' = "idle"
      BY <2>3 DEF EndInstall, InstallKeeps, ClearKeeps
    <3>. QED  BY <3>1 DEF LostInv
  <2>4. CASE FailSlot
    <3>1. UNCHANGED <<gHooks, mpc, lost, vtable>> /\ hookPc' = "restore"
      BY <2>4 DEF FailSlot, BeginUninstall
    <3>. QED  BY <3>1 DEF LostInv
  <2>5. CASE ClearHooks
    <3>1. vtable' = vtable /\ hookPc' = "wait" /\ lost' = [m \in Mixers |-> 0]
      BY <2>5 DEF ClearHooks
    <3>2. \A c \in Classes : vtable[c] = {}
      BY <2>5 DEF ClearHooks, CoreInv, TableInv
    <3>. QED  BY <3>1, <3>2 DEF LostInv
  <2>6. CASE Detach
    <3>1. UNCHANGED <<gHooks, mpc, lost, vtable>> /\ hookPc' = "idle"
      BY <2>6 DEF Detach, Detached, InstallKeeps, ClearKeeps
    <3>. QED  BY <3>1 DEF LostInv
  <2>. QED  BY <1>2, <2>1, <2>2, <2>3, <2>4, <2>5, <2>6 DEF HookThread, HookStep
<1>3. ASSUME NEW m \in Mixers, InTrampoline(m) PROVE LostInv'
  <2>1. UNCHANGED <<gHooks, hookPc, vtable>>
    BY <1>3 DEF InTrampoline, CountIn, LoadHooks, Capture, PassThrough, Fill, Captured, Filled, Leaves, Moves, MixerKeeps
  <2>2. CASE CountIn(m)
    <3>1. lost' = lost /\ mpc[m] = "dispatched" /\ \A n \in Mixers \ {m} : mpc'[n] = mpc[n]
      BY <2>2 DEF CountIn, Moves, CoreInv, LifeTypeOK, HooksTypeOK
    <3>. QED  BY <2>1, <3>1 DEF LostInv
  <2>3. CASE LoadHooks(m) /\ ~gHooks
    <3>1. /\ lost[m] = 0 /\ lost' = [lost EXCEPT ![m] = 1]
          /\ mpc'[m] = "out" /\ \A n \in Mixers \ {m} : mpc'[n] = mpc[n]
      BY <2>3 DEF LoadHooks, Leaves, Moves, LostInv, CoreInv, LifeTypeOK, HooksTypeOK
    <3>. QED  BY <2>1, <3>1 DEF LostInv
  <2>4. CASE (LoadHooks(m) /\ gHooks) \/ Capture(m) \/ PassThrough(m) \/ Fill(m) \/ Captured(m) \/ Filled(m)
    <3>1. lost' = lost /\ mpc'[m] \notin {"dispatched", "counted"} /\ \A n \in Mixers \ {m} : mpc'[n] = mpc[n]
      BY <2>4 DEF LoadHooks, Capture, PassThrough, Fill, Captured, Filled, Leaves, Moves, CoreInv, LifeTypeOK, HooksTypeOK
    <3>. QED  BY <2>1, <3>1 DEF LostInv
  <2>. QED  BY <1>3, <2>2, <2>3, <2>4 DEF InTrampoline
<1>4. ASSUME NEW m \in Mixers, NEW k \in Kinds, Dispatch(m, k) PROVE LostInv'
  <2>1. gHooks
    BY <1>4 DEF Dispatch, LostInv, CoreInv, LifeTypeOK, HooksTypeOK
  <2>2. UNCHANGED <<gHooks, hookPc, vtable, lost>>
    BY <1>4 DEF Dispatch, Moves, MixerKeeps
  <2>. QED  BY <2>1, <2>2 DEF LostInv
<1>5. CASE SwitchDevice \/ UNCHANGED lifeVars
  <2>1. UNCHANGED <<gHooks, hookPc, vtable, lost, mpc>>
    BY <1>5 DEF SwitchDevice, lifeVars
  <2>. QED  BY <2>1 DEF LostInv
<1>. QED  BY <1>1, <1>2, <1>3, <1>4, <1>5 DEF LifeNext, MixerThread, Engine

-----------------------------------------------------------------------------
(* Theorems                                                                *)

\* LifeInv is inductive.
LEMMA InvStep == LifeInv /\ [LifeNext]_lifeVars => LifeInv'
BY CoreStep, QuietStep, LostStep DEF LifeInv

\* The inductive invariant holds in every reachable state.
THEOREM LifeInvariant == LifeSpec => []LifeInv
BY InitInv, InvStep, PTL DEF LifeSpec

\* What a mixer thread found through g_hooks (EngineHooks.cpp) is there until the
\* thread has counted itself out.
THEOREM HooksOutliveTheirCalls == LifeSpec => []HooksOutliveCalls
<1>1. LifeInv => HooksOutliveCalls
  BY DEF LifeInv, CoreInv
<1>. QED  BY <1>1, LifeInvariant, PTL

\* Per removal of the hooks a thread loses at most the call that was on its way
\* into a trampoline.
THEOREM CallsLost == LifeSpec => []AtMostOneCallLost
<1>1. LifeInv => AtMostOneCallLost
  BY DEF LifeInv, LostInv, AtMostOneCallLost
<1>. QED  BY <1>1, LifeInvariant, PTL

\* A restart replaces rings nobody reads (AudioThread::Start).
THEOREM RingsAreReplacedUnread == LifeSpec => []OldRingsAreUnread
<1>1. LifeInv => OldRingsAreUnread
  <2>1. ASSUME LifeInv, pc = "startAudio" PROVE devicePc # "pull"
    BY <2>1 DEF LifeInv, CoreInv, OutputInv
  <2>2. ASSUME LifeInv, pc = "startAudio", tookDown, NEW m \in Mixers PROVE mpc[m] # "filling"
    <3>1. pc \in Down
      BY <2>2 DEF Down
    <3>. QED  BY <2>2, <3>1 DEF LifeInv, QuietInv
  <2>. QED  BY <2>1, <2>2 DEF OldRingsAreUnread
<1>. QED  BY <1>1, LifeInvariant, PTL

\* AudioEngine::Shutdown, complete or after a failed Initialize, leaves nothing in
\* the engine.
THEOREM DownLeavesNothing == LifeSpec => []DownIsDown
<1>1. LifeInv => DownIsDown
  <2>1. ASSUME LifeInv, pc \in {"inactive", "closed"} PROVE attached = None
    BY <2>1 DEF LifeInv, CoreInv, CallsInv
  <2>2. ASSUME LifeInv, attached = None
        PROVE  /\ \A c \in Classes : vtable[c] = {}
               /\ \A m \in Mixers : mpc[m] \notin {"hooked", "capturing", "filling"}
               /\ ~gHooks
    BY <2>2, HooksAssumption DEF LifeInv, CoreInv, TableInv, HooksOutliveCalls
  <2>3. ASSUME LifeInv, pc \in {"inactive", "closed"} PROVE ~sink /\ output = None /\ devicePc = "off" /\ ~audioRunning
    BY <2>3 DEF LifeInv, CoreInv, OutputInv
  <2>. QED  BY <2>1, <2>2, <2>3 DEF DownIsDown
<1>. QED  BY <1>1, LifeInvariant, PTL

\* Between its calls the game thread leaves the engine on one output path and the
\* passthrough switch as the configuration has it.
THEOREM ConfigurationHolds == LifeSpec => []RunsAsConfigured
<1>1. LifeInv => RunsAsConfigured
  BY DEF LifeInv, CoreInv, OutputInv, RunsAsConfigured
<1>. QED  BY <1>1, LifeInvariant, PTL

\* All of these at once: what the engine's hooks, threads and outputs are through
\* any number of starts, losses, replacements and shutdowns.
THEOREM EngineSafety == LifeSpec => []EngineInv
<1>1. LifeInv /\ OldRingsAreUnread /\ DownIsDown /\ RunsAsConfigured => EngineInv
  BY DEF EngineInv
<1>. QED
  BY <1>1, LifeInvariant, RingsAreReplacedUnread, DownLeavesNothing, ConfigurationHolds, PTL

=============================================================================
