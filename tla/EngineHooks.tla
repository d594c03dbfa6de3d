---------------------------- MODULE EngineHooks ----------------------------
(***************************************************************************)
(* Installation and removal of the hooks on the engine's audio device      *)
(* (EngineHooks, VmtHook) under the feet of the engine's mixer threads.    *)
(* Slots of the virtual table are patched and restored one by one; a       *)
(* thread that finds a trampoline in a slot counts itself in, loads the    *)
(* singleton g_hooks and goes by what it finds.  Uninstall clears the      *)
(* singleton and waits until nobody is counted in.                         *)
(***************************************************************************)
EXTENDS Naturals, FiniteSets

CONSTANTS
  Mixers,    \* engine threads that call into the audio device
  Classes    \* classes of audio device the engine may switch to

\* TransferSamples, and the other trampolines: some of them ask for the passthrough
\* switch, some do not.
Kinds == {"observe", "transfer"}
None == "none"

ASSUME HooksAssumption == Mixers # {} /\ Classes # {} /\ None \notin Classes

VARIABLES
  device,        \* the class of the engine's current device
  known,         \* the class of m_interfaces.AudioDevice(), as last resolved
  vtable,        \* per class the slots that hold a trampoline
  attached,      \* m_vmt: the class whose table is patched, or None
  toHook,        \* slots Install has yet to patch
  hookPc,        \* where the game thread is in Install or Uninstall
  gHooks,        \* g_hooks is set
  capture,       \* m_capture is set
  passthrough,   \* m_passthrough
  sink,          \* m_engineOutput and m_outputSink, which are set and reset together
  mpc, call,     \* where a mixer thread is, and in which trampoline
  lost           \* history: engine calls per thread that vanished since g_hooks was last cleared

tableVars == <<vtable, attached, toHook, hookPc>>
mixerVars == <<mpc, call, lost>>
hookVars == <<device, known, tableVars, gHooks, capture, passthrough, sink, mixerVars>>

HooksInit ==
  /\ device \in Classes /\ known = device /\ vtable = [c \in Classes |-> {}] /\ attached = None /\ toHook = {} /\ hookPc = "idle"
  /\ gHooks = FALSE /\ capture = FALSE /\ passthrough = FALSE /\ sink = FALSE
  /\ mpc = [m \in Mixers |-> "out"] /\ call = [m \in Mixers |-> "observe"]
  /\ lost = [m \in Mixers |-> 0]

-----------------------------------------------------------------------------
(* Mixer threads                                                           *)

MixerKeeps == UNCHANGED <<device, known, tableVars, gHooks, capture, passthrough, sink>>
Moves(m, from, to) == mpc[m] = from /\ mpc' = [mpc EXCEPT ![m] = to] /\ MixerKeeps

\* The slot is read; the thread may be preempted before the trampoline's first
\* instruction.  A slot without a trampoline leads to the engine's function.
Dispatch(m, k) ==
  /\ k \in vtable[device]
  /\ Moves(m, "out", "dispatched")
  /\ call' = [call EXCEPT ![m] = k] /\ UNCHANGED lost

CountIn(m) == Moves(m, "dispatched", "counted") /\ UNCHANGED <<call, lost>>   \* HookInvocation

\* A trampoline ends with its last step, which counts the thread out.
Leaves(m, from) == Moves(m, from, "out") /\ call' = [call EXCEPT ![m] = "observe"]

\* Without the singleton the original is unknown: the engine's call does nothing.
LoadHooks(m) ==
  IF gHooks THEN Moves(m, "counted", "hooked") /\ UNCHANGED <<call, lost>>
            ELSE Leaves(m, "counted") /\ lost' = [lost EXCEPT ![m] = @ + 1]

\* Captured, or passed through to the engine's function alone.  Of the trampolines
\* that look on, ChannelReset does not ask for the switch.
Capture(m) ==
  /\ capture /\ (~passthrough \/ call[m] = "observe")
  /\ Moves(m, "hooked", "capturing") /\ UNCHANGED <<call, lost>>
PassThrough(m) == (passthrough \/ ~capture) /\ Leaves(m, "hooked") /\ UNCHANGED lost

\* TransferSamples in engine output mode fills the paint buffer from the sink.
Fill(m) == call[m] = "transfer" /\ sink /\ Moves(m, "capturing", "filling") /\ UNCHANGED <<call, lost>>
Captured(m) == (call[m] # "transfer" \/ ~sink) /\ Leaves(m, "capturing") /\ UNCHANGED lost
Filled(m) == Leaves(m, "filling") /\ UNCHANGED lost

InTrampoline(m) == CountIn(m) \/ LoadHooks(m) \/ Capture(m) \/ PassThrough(m) \/ Fill(m) \/ Captured(m) \/ Filled(m)
Readers == {m \in Mixers : mpc[m] \notin {"out", "dispatched"}}   \* g_hookReaders

-----------------------------------------------------------------------------
(* Game thread: Install and Uninstall                                      *)

ClearKeeps == UNCHANGED <<device, known, passthrough, sink, mpc, call>>
InstallKeeps == ClearKeeps /\ UNCHANGED lost
RefreshKeeps == UNCHANGED <<device, passthrough, sink, mixerVars>>

\* Not validated, or switched off by the configuration: m_capture is set already.
RefuseInstall ==
  /\ hookPc = "idle" /\ capture' = TRUE /\ gHooks' = FALSE
  /\ RefreshKeeps /\ UNCHANGED tableVars

\* Mutant: the singleton is published before the table is attached.
PublishFirst ==
  /\ hookPc = "idle" /\ hookPc' = "hook"
  /\ toHook' = Kinds /\ gHooks' = TRUE /\ capture' = TRUE
  /\ RefreshKeeps /\ UNCHANGED <<vtable, attached>>
\* On the device the interfaces have resolved.
BeginInstall ==
  /\ hookPc = "idle" /\ hookPc' = "hook"
  /\ attached' = known' /\ toHook' = Kinds
  /\ gHooks' = TRUE /\ capture' = TRUE
  /\ RefreshKeeps /\ UNCHANGED vtable

HookSlot(k) ==
  /\ hookPc = "hook" /\ k \in toHook /\ toHook' = toHook \ {k}
  /\ vtable' = [vtable EXCEPT ![attached] = @ \union {k}]
  /\ InstallKeeps /\ UNCHANGED <<attached, hookPc, gHooks, capture>>

EndInstall ==
  /\ hookPc = "hook" /\ toHook = {} /\ hookPc' = "idle"
  /\ InstallKeeps /\ UNCHANGED <<vtable, attached, toHook, gHooks, capture>>

\* Mutant: the switch is left alone.
BeginUninstallLive ==
  /\ attached # None /\ hookPc' = "restore" /\ toHook' = {}
  /\ UNCHANGED <<device, known, vtable, attached, gHooks, capture, passthrough, sink, mixerVars>>
BeginUninstall ==
  /\ attached # None /\ hookPc' = "restore" /\ passthrough' = TRUE /\ toHook' = {}
  /\ UNCHANGED <<device, known, vtable, attached, gHooks, capture, sink, mixerVars>>

\* A slot that cannot be written takes back the others.
FailSlot == hookPc = "hook" /\ toHook # {} /\ BeginUninstall

RestoreSlot(k) ==
  /\ hookPc = "restore" /\ k \in vtable[attached]
  /\ vtable' = [vtable EXCEPT ![attached] = @ \ {k}]
  /\ InstallKeeps /\ UNCHANGED <<attached, toHook, hookPc, gHooks, capture>>

\* Mutant: the singleton is dropped before the slots are restored.
ClearBeforeRestore ==
  /\ hookPc = "restore"
  /\ hookPc' = (IF vtable[attached] = {} THEN "wait" ELSE "restore")
  /\ gHooks' = FALSE /\ lost' = (IF gHooks THEN [m \in Mixers |-> 0] ELSE lost)
  /\ ClearKeeps /\ UNCHANGED <<vtable, attached, toHook, capture>>
ClearHooks ==
  /\ hookPc = "restore" /\ vtable[attached] = {}
  /\ hookPc' = "wait" /\ gHooks' = FALSE /\ lost' = [m \in Mixers |-> 0]
  /\ ClearKeeps /\ UNCHANGED <<vtable, attached, toHook, capture>>

Detached ==
  /\ hookPc' = "idle" /\ attached' = None /\ capture' = FALSE
  /\ InstallKeeps /\ UNCHANGED <<vtable, toHook, gHooks>>
\* Mutant: capture state is torn down without waiting for the mixer.
DetachAtOnce == hookPc = "wait" /\ Detached
Detach == hookPc = "wait" /\ Readers = {} /\ Detached

HookStep == (\E k \in Kinds : HookSlot(k) \/ RestoreSlot(k)) \/ EndInstall \/ FailSlot \/ ClearHooks \/ Detach

SwitchDevice ==   \* by the engine, at any time
  /\ device' \in Classes \ {device}
  /\ UNCHANGED <<known, tableVars, gHooks, capture, passthrough, sink, mixerVars>>

-----------------------------------------------------------------------------
HooksTypeOK ==
  /\ device \in Classes /\ known \in Classes /\ vtable \in [Classes -> SUBSET Kinds] /\ attached \in Classes \union {None}
  /\ toHook \subseteq Kinds /\ hookPc \in {"idle", "hook", "restore", "wait"}
  /\ hookPc # "idle" => attached # None
  /\ gHooks \in BOOLEAN /\ capture \in BOOLEAN /\ passthrough \in BOOLEAN /\ sink \in BOOLEAN
  /\ mpc \in [Mixers -> {"out", "dispatched", "counted", "hooked", "capturing", "filling"}]
  /\ call \in [Mixers -> Kinds] /\ DOMAIN lost = Mixers

\* Of the calls a thread makes, at most one vanishes each time the hooks are removed:
\* the one that was on its way into a trampoline when the table was restored.
AtMostOneCallLost == \A m \in Mixers : lost[m] <= 1

=============================================================================
