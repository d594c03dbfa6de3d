--------------------------- MODULE SlotGenerations ---------------------------
(***************************************************************************)
(* One capture slot whose engine channel is given to one sound after       *)
(* another, and the four threads that work on it without a lock: the mixer *)
(* (ChannelCapture) numbers the sounds by `generation` and publishes the   *)
(* parameters it captured, the game thread (EngineHooks) publishes better  *)
(* ones, the simulation thread (SimulationThread) simulates the slot and   *)
(* labels the result with a generation, and the audio thread takes only    *)
(* outputs whose label is the captured generation.  Every Load and Store   *)
(* of a SeqLock is one step here.  A sound is a number, in the order the   *)
(* engine starts them; parameters and outputs are named by their sound.    *)
(***************************************************************************)
EXTENDS Integers

CONSTANTS Channels,   \* the channel_t pointers
          NoChannel,  \* enginePtr 0
          Modes,      \* ways to run (see `mode`)
          MaxSounds,  \* bound on the sounds started
          MaxGen,     \* bound on generation
          MaxHandles  \* bound on the IPLSources created

ASSUME SlotAssumption ==
  /\ NoChannel \notin Channels
  /\ Modes \subseteq [channels : SUBSET Channels, guidKnown : BOOLEAN, asyncMixer : BOOLEAN,
                     listComplete : BOOLEAN]
  /\ MaxSounds \in Nat /\ MaxGen \in Nat /\ MaxHandles \in Nat

VARIABLES
  mode,  \* fixed for a run: the channels in use, whether the guid offset of channel_t is
         \* known (ChannelLayout::guid), whether the engine mixes on a worker thread
         \* (snd_mix_async), whether its sound list names every sound that has started
  heard, started,  \* the sound each channel_t holds, the sounds started so far
  gap,             \* the bound channel has been silent for kReuseIdleSamples
  ptr, gen, everMixed, lastGuid,  \* CaptureSlot
  captured,        \* m_captureParams: sound, generation, guid
  genOf,           \* the generation a sound was last captured under, 0 before
  mpc, target,     \* the mixer's location and the channel it mixes
  params,          \* m_params: sound, generation, guid
  track,           \* m_slotTrack: generation, guid, hadInfo
  gpc, info, ggen, gch, p,  \* the game thread: location and locals (info: 0 = nullptr)
  handle, simGen,  \* Sim().source (0 = nullptr) and Sim().generation
  created, outputs,\* IPLSources created, the sound each was last run with
  published,       \* m_audioSimulation: handle, generation, ready
  tpc, tgen, tp,   \* the simulation thread: location, generation read, parameters
  apc, loaded  \* the audio thread: location, snapshot loaded

engine == <<mode, heard, started, gap>>
slot == <<ptr, gen, everMixed, lastGuid, captured, genOf>>
mixer == <<slot, mpc, target>>
game == <<params, track, gpc, info, ggen, gch, p>>
sim == <<handle, simGen, created, outputs, published, tpc, tgen, tp>>
audio == <<apc, loaded>>
vars == <<engine, mixer, game, sim, audio>>

Sounds == 0 .. MaxSounds
Heard(c) == IF c = NoChannel THEN 0 ELSE heard[c]
Guid(s) == IF mode.guidKnown THEN s ELSE 0   \* ReadGuid: a sound's guid is its number
NoParams == [sound |-> 0, gen |-> 0, guid |-> 0]
NoOutputs == [handle |-> 0, gen |-> 0, ready |-> FALSE]

Init ==
  /\ mode \in Modes /\ heard = [c \in Channels |-> 0] /\ started = 0 /\ gap = FALSE
  /\ ptr = NoChannel /\ gen = 0 /\ everMixed = FALSE /\ lastGuid = 0
  /\ captured = NoParams
  /\ genOf = [s \in Sounds |-> 0] /\ mpc = "idle" /\ target = NoChannel
  /\ params = NoParams
  /\ track = [gen |-> 0, guid |-> 0, hadInfo |-> FALSE]
  /\ gpc = "idle" /\ info = 0 /\ ggen = 0 /\ gch = NoChannel /\ p = 0
  /\ handle = 0 /\ simGen = 0 /\ created = 0
  /\ outputs = [h \in 0 .. MaxHandles |-> 0] /\ published = NoOutputs
  /\ tpc = "idle" /\ tgen = 0 /\ tp = NoParams
  /\ apc = "idle" /\ loaded = NoOutputs

-----------------------------------------------------------------------------
(* The engine                                                               *)

\* Without snd_mix_async the mixer and the game thread are one thread: neither
\* a paint iteration nor a poll is interrupted by the other.
MixerMayRun == mode.asyncMixer \/ gpc = "idle"
GameMayRun == mode.asyncMixer \/ mpc = "idle"

\* Between two paint iterations the engine starts a sound on a channel.  Where
\* the guid is unknown only a gap tells it from the sound before it.
StartSound(c) ==
  /\ MixerMayRun /\ mpc = "idle" /\ started < MaxSounds
  /\ mode.guidKnown \/ ptr # c \/ gap
  /\ started' = started + 1 /\ heard' = [heard EXCEPT ![c] = started + 1]
  /\ UNCHANGED <<mode, gap, mixer, game, sim, audio>>

FallSilent ==
  /\ MixerMayRun /\ mpc = "idle" /\ ptr # NoChannel /\ ~gap /\ gap' = TRUE
  /\ UNCHANGED <<mode, heard, started, mixer, game, sim, audio>>

-----------------------------------------------------------------------------
(* The mixer                                                                *)

\* OnTransferSamples releases a slot that stays silent.
ReleaseIdle ==
  /\ MixerMayRun /\ mpc = "idle" /\ gap /\ ptr' = NoChannel /\ gap' = FALSE
  /\ UNCHANGED <<mode, heard, started, gen, everMixed, lastGuid, captured, genOf, mpc, target,
                 game, sim, audio>>

NewSoundOnChannel(c) == gap \/ (Guid(heard[c]) # 0 /\ lastGuid # 0 /\ Guid(heard[c]) # lastGuid)

\* CaptureMix of channel c: another channel takes the slot over (ReleaseSlot,
\* then BeginNewSound), a new sound restarts it, and the same sound goes on.
CaptureMix(c) ==
  /\ MixerMayRun /\ mpc = "idle" /\ heard[c] # 0 /\ target' = c
  /\ \/ /\ ptr # c /\ ptr' = NoChannel /\ mpc' = "rebind" /\ gap' = FALSE
        /\ UNCHANGED lastGuid
     \/ /\ ptr = c /\ UNCHANGED <<ptr, gap>>
        /\ mpc' = IF everMixed /\ NewSoundOnChannel(c) THEN "restart" ELSE "staged"
        /\ lastGuid' = IF mode.guidKnown THEN heard[c] ELSE lastGuid
  /\ UNCHANGED <<mode, heard, started, gen, everMixed, captured, genOf, game, sim, audio>>

\* Mutant: the slot stays visible while it is renumbered.
LeaveSlotShown ==
  /\ mpc \in {"rebind", "restart"}
  /\ mpc' = IF mpc = "rebind" THEN "point" ELSE "number"
  /\ UNCHANGED <<engine, slot, target, game, sim, audio>>

\* The slot is hidden before it is renumbered.
HideSlot ==
  /\ mpc \in {"rebind", "restart"} /\ everMixed' = FALSE
  /\ mpc' = IF mpc = "rebind" THEN "point" ELSE "number"
  /\ UNCHANGED <<engine, ptr, gen, lastGuid, captured, genOf, target, game, sim, audio>>

PointSlot ==
  /\ mpc = "point" /\ ptr' = target /\ mpc' = "number" /\ lastGuid' = Guid(heard[target])
  /\ UNCHANGED <<engine, gen, everMixed, captured, genOf, target, game, sim, audio>>

NumberSound ==
  /\ mpc = "number" /\ gen < MaxGen /\ gen' = gen + 1 /\ mpc' = "staged"
  /\ UNCHANGED <<engine, ptr, everMixed, lastGuid, captured, genOf, target, game, sim, audio>>

\* FlushStages publishes the captured parameters, then shows the slot.
SetCapturedParams ==
  /\ mpc = "staged" /\ mpc' = "captured" /\ gap' = FALSE
  /\ captured' = [sound |-> heard[ptr], gen |-> gen, guid |-> lastGuid]
  /\ target' = NoChannel
  /\ genOf' = [genOf EXCEPT ![heard[ptr]] = gen]
  /\ UNCHANGED <<mode, heard, started, ptr, gen, everMixed, lastGuid, game, sim, audio>>

ShowSlot ==
  /\ mpc = "captured" /\ everMixed' = TRUE /\ mpc' = "idle"
  /\ UNCHANGED <<engine, ptr, gen, lastGuid, captured, genOf, target, game, sim, audio>>

-----------------------------------------------------------------------------
(* The game thread: PollActiveSounds, ApplyParamsForSlot                    *)

\* The engine's sound list names the sound of the slot's channel, or misses it.
PollActiveSounds ==
  /\ GameMayRun /\ gpc = "idle" /\ ptr # NoChannel /\ gpc' = "generation"
  /\ info' \in IF mode.listComplete THEN {heard[ptr]} ELSE {0, heard[ptr]}
  /\ UNCHANGED <<engine, mixer, params, track, ggen, gch, p, sim, audio>>

ReadGeneration ==
  /\ gpc = "generation" /\ ggen' = gen /\ gpc' = "pointer"
  /\ UNCHANGED <<engine, mixer, params, track, info, gch, p, sim, audio>>

ReadPointer ==
  /\ gpc = "pointer" /\ gch' = ptr /\ gpc' = "params"
  /\ UNCHANGED <<engine, mixer, params, track, info, ggen, p, sim, audio>>

\* Mutant: the guids are not compared.
SameGeneration(g, c) == g.gen = c.gen
\* GetParams: the game thread's parameters when they are of the captured sound.
SameSound(g, c) == IF g.guid # 0 /\ c.guid # 0 THEN g.guid = c.guid ELSE g.gen = c.gen
Current(g, c) == IF SameSound(g, c) THEN g.sound ELSE c.sound

\* A new generation starts from defaults (sound 0).
GetParams ==
  /\ gpc = "params" /\ gpc' = "guid"
  /\ p' = IF ggen # track.gen THEN 0 ELSE Current(params, captured)
  /\ track' = IF ggen # track.gen THEN [gen |-> ggen, guid |-> 0, hadInfo |-> FALSE] ELSE track
  /\ ggen' = 0
  /\ UNCHANGED <<engine, mixer, params, info, gch, sim, audio>>

\* So does a new guid on the same channel.
ReadGuid ==
  /\ gpc = "guid" /\ gpc' = "position"
  /\ LET g == Guid(Heard(gch))
         changed == track.guid # 0 /\ g # track.guid IN
     IF g = 0 THEN UNCHANGED <<track, p>>
     ELSE /\ p' = IF changed THEN 0 ELSE p
          /\ track' = [track EXCEPT !.guid = g, !.hadInfo = @ /\ ~changed]
  /\ UNCHANGED <<engine, mixer, params, info, ggen, gch, sim, audio>>

\* The position is the sound list's, the channel's own, or what it was.
ReadPosition ==
  /\ gpc = "position" /\ gpc' = "label"
  /\ p' = IF info # 0 THEN info ELSE IF ~track.hadInfo THEN Heard(gch) ELSE p
  /\ track' = [track EXCEPT !.hadInfo = @ \/ info # 0]
  /\ gch' = NoChannel
  /\ UNCHANGED <<engine, mixer, params, info, ggen, sim, audio>>

\* SetEngineParams labels them with the generation captured now.
SetEngineParams ==
  /\ gpc = "label" /\ gpc' = "idle"
  /\ params' = [sound |-> p, gen |-> captured.gen, guid |-> IF info # 0 THEN info ELSE track.guid]
  /\ p' = 0 /\ info' = 0
  /\ UNCHANGED <<engine, mixer, track, ggen, gch, sim, audio>>

-----------------------------------------------------------------------------
(* The simulation thread: one slot of Tick                                  *)

Retired == [published EXCEPT !.handle = 0, !.ready = FALSE, !.gen = simGen]

\* An unbound slot whose source is idle loses it.
RetireUnbound ==
  /\ tpc = "idle" /\ ptr = NoChannel /\ handle # 0
  /\ handle' = 0 /\ published' = Retired
  /\ UNCHANGED <<engine, mixer, game, simGen, created, outputs, tpc, tgen, tp, audio>>

TickPointer ==
  /\ tpc = "idle" /\ ptr # NoChannel /\ tpc' = "generation"
  /\ UNCHANGED <<engine, mixer, game, handle, simGen, created, outputs, published, tgen, tp, audio>>

TickGeneration ==
  /\ tpc = "generation" /\ tgen' = gen /\ tpc' = "mixed"
  /\ UNCHANGED <<engine, mixer, game, handle, simGen, created, outputs, published, tp, audio>>

TickMixed ==
  /\ tpc = "mixed"
  /\ IF everMixed THEN tpc' = "params" /\ UNCHANGED tgen ELSE tpc' = "idle" /\ tgen' = 0
  /\ UNCHANGED <<engine, mixer, game, handle, simGen, created, outputs, published, tp, audio>>

\* GetParams loads m_params, then m_captureParams.
TickParams ==
  /\ tpc = "params" /\ tp' = params /\ tpc' = "captured"
  /\ UNCHANGED <<engine, mixer, game, handle, simGen, created, outputs, published, tgen, audio>>

TickCaptured ==
  /\ tpc = "captured" /\ tpc' = "ensure"
  /\ tp' = [NoParams EXCEPT !.sound = Current(tp, captured)]
  /\ UNCHANGED <<engine, mixer, game, handle, simGen, created, outputs, published, tgen, audio>>

\* Parameters that are not spatialized retire the source.
SkipSource ==
  /\ tpc = "ensure" /\ tpc' = "idle" /\ tgen' = 0 /\ tp' = NoParams
  /\ handle' = 0 /\ published' = IF handle # 0 THEN Retired ELSE published
  /\ UNCHANGED <<engine, mixer, game, simGen, created, outputs, audio>>

\* EnsureSimulationSource: a source of another generation is retired, and a new
\* one published, not ready, before Sim().generation is set.
EnsureSource ==
  /\ tpc = "ensure" /\ tp.sound # 0 /\ tpc' = "run" /\ simGen' = tgen /\ tgen' = 0
  /\ IF handle # 0 /\ simGen = tgen
     THEN UNCHANGED <<handle, created, published>>
     ELSE /\ created < MaxHandles /\ created' = created + 1 /\ handle' = created + 1
          /\ published' = [handle |-> created + 1, gen |-> simGen, ready |-> FALSE]
  /\ UNCHANGED <<engine, mixer, game, outputs, tp, audio>>

\* SetInputs and RunDirect: from now on the handle's outputs are of this sound.
RunSimulation ==
  /\ tpc = "run" /\ tpc' = "ready"
  /\ outputs' = [outputs EXCEPT ![handle] = tp.sound] /\ tp' = NoParams
  /\ UNCHANGED <<engine, mixer, game, handle, simGen, created, published, tgen, audio>>

MarkSimulationReady ==
  /\ tpc = "ready" /\ tpc' = "idle"
  /\ published' = [published EXCEPT !.ready = TRUE, !.gen = simGen]
  /\ UNCHANGED <<engine, mixer, game, handle, simGen, created, outputs, tgen, tp, audio>>

-----------------------------------------------------------------------------
(* The audio thread: LoadAudioSimulation, iplSourceGetOutputs               *)

\* A load that finds no ready handle changes nothing.
LoadPublished ==
  /\ apc = "idle" /\ published.handle # 0 /\ published.ready
  /\ loaded' = published /\ apc' = "check"
  /\ UNCHANGED <<engine, mixer, game, sim>>

Take(accepted) ==
  IF accepted THEN apc' = "outputs" /\ UNCHANGED loaded
              ELSE apc' = "idle" /\ loaded' = NoOutputs

CheckGeneration ==
  /\ apc = "check"
  /\ Take(loaded.gen = captured.gen)
  /\ UNCHANGED <<engine, mixer, game, sim>>

GetOutputs ==
  /\ apc = "outputs" /\ apc' = "idle" /\ loaded' = NoOutputs
  /\ UNCHANGED <<engine, mixer, game, sim>>

-----------------------------------------------------------------------------
MixerStep == HideSlot \/ PointSlot \/ NumberSound \/ SetCapturedParams \/ ShowSlot
MixerNext == ReleaseIdle \/ (\E c \in mode.channels : CaptureMix(c)) \/ MixerStep
EngineNext == FallSilent \/ \E c \in mode.channels : StartSound(c)
GameStep == ReadGeneration \/ ReadPointer \/ GetParams \/ ReadGuid \/ ReadPosition \/ SetEngineParams
SimStep ==
  TickPointer \/ TickGeneration \/ TickMixed \/ TickParams \/ TickCaptured \/ EnsureSource
    \/ RunSimulation \/ MarkSimulationReady
AudioStep == LoadPublished \/ CheckGeneration \/ GetOutputs

Next ==
  EngineNext \/ MixerNext \/ PollActiveSounds \/ GameStep \/ SimStep \/ SkipSource
    \/ RetireUnbound \/ AudioStep

Spec == Init /\ [][Next]_vars

-----------------------------------------------------------------------------
(* Properties                                                               *)

Params == [sound : Sounds, gen : Nat, guid : Nat]

EngineTypes == mode \in Modes /\ heard \in [Channels -> Sounds] /\ started \in Sounds /\ gap \in BOOLEAN

MixerTypes ==
  /\ ptr \in Channels \cup {NoChannel} /\ target \in Channels \cup {NoChannel}
  /\ gen \in Nat /\ lastGuid \in Nat /\ everMixed \in BOOLEAN
  /\ captured \in Params /\ genOf \in [Sounds -> Nat]
  /\ mpc \in {"idle", "rebind", "restart", "point", "number", "staged", "captured"}

GameTypes ==
  /\ params \in Params /\ track \in [gen : Nat, guid : Nat, hadInfo : BOOLEAN]
  /\ info \in Sounds /\ p \in Sounds /\ ggen \in Nat /\ gch \in Channels \cup {NoChannel}
  /\ gpc \in {"idle", "generation", "pointer", "params", "guid", "position", "label"}

SimTypes ==
  /\ handle \in Nat /\ simGen \in Nat /\ created \in Nat /\ tgen \in Nat /\ tp \in Params
  /\ outputs \in [0 .. MaxHandles -> Sounds] /\ published \in [handle : Nat, gen : Nat, ready : BOOLEAN]
  /\ tpc \in {"idle", "generation", "mixed", "params", "captured", "ensure", "run", "ready"}

AudioTypes == loaded \in [handle : Nat, gen : Nat, ready : BOOLEAN] /\ apc \in {"idle", "check", "outputs"}

TypeOK == EngineTypes /\ MixerTypes /\ GameTypes /\ SimTypes /\ AudioTypes

\* A sound that is not older than the one captured under generation g.
NotBefore(s, g) == s # 0 => genOf[s] = 0 \/ genOf[s] >= g

\* The outputs the audio thread takes for the captured generation were never
\* simulated for a sound that had left the slot before that generation began.
NoStaleOutputs == apc = "outputs" => NotBefore(outputs[loaded.handle], loaded.gen)

\* How the game thread tells a sound from the one before it in the slot: by its guid
\* and an entry of the engine's list, or because it mixes the sounds itself.
SoundsAreTold == IF mode.guidKnown THEN mode.listComplete ELSE ~mode.asyncMixer

\* A sound is numbered, captured and shown in this order: a slot that is shown has
\* captured its generation, and one whose sound goes on captures the same again.
MixerInv ==
  /\ captured.gen <= gen /\ captured.guid = Guid(captured.sound)
  /\ genOf[captured.sound] = captured.gen /\ genOf[0] = 0
  /\ \A s \in Sounds : genOf[s] <= captured.gen /\ (s > started => genOf[s] = 0)
  /\ \A c \in Channels : heard[c] <= started
  /\ \A c \in {ptr, target} : c = NoChannel \/ heard[c] # 0
  /\ everMixed \/ mpc # "staged" => captured.gen = gen
  /\ mpc \in {"point", "number"} => ~everMixed
  /\ mpc \in {"rebind", "point"} => ptr = NoChannel /\ target # NoChannel
  /\ mpc \in {"restart", "number", "staged"} => ptr # NoChannel /\ lastGuid = Guid(heard[ptr])
  /\ mpc = "staged" => captured.gen < gen \/ captured.sound = heard[ptr]
  /\ mpc = "captured" => ptr # NoChannel
  /\ mpc = "idle" /\ ptr # NoChannel => everMixed
  /\ mpc \in {"captured", "idle"} /\ ptr # NoChannel =>
       /\ captured.sound # 0 /\ lastGuid = captured.guid
       /\ heard[ptr] = captured.sound \/ (genOf[heard[ptr]] = 0 /\ (mode.guidKnown \/ gap))

\* Parameters name their sound by its guid, or else by its generation.
Faithful(g) == IF mode.guidKnown THEN g.sound = g.guid ELSE NotBefore(g.sound, g.gen)

\* The game thread knows the sound its parameters are of: from the list, or
\* because the mixer waits for the end of the poll.
GameInv ==
  /\ params.gen <= captured.gen /\ Faithful(params)
  /\ mode.guidKnown => (gpc # "idle" => info # 0) /\ (gpc = "label" => p = info)
  /\ ~mode.guidKnown =>
       /\ track.guid = 0
       /\ gpc # "idle" => mpc = "idle" /\ ptr # NoChannel /\ info \in {0, heard[ptr]}
       /\ gpc \in {"params", "guid", "position"} => gch = ptr
       /\ gpc \in {"guid", "position", "label"} => NotBefore(p, captured.gen)

\* What a source was last run with is not before the generation it is simulated for.
SimInv ==
  /\ tgen <= gen /\ simGen <= captured.gen
  /\ tpc \in {"params", "captured", "ensure"} => tgen <= captured.gen
  /\ tpc = "captured" => tp.gen <= captured.gen /\ Faithful(tp)
  /\ tpc = "ensure" => NotBefore(tp.sound, tgen)
  /\ tpc = "run" => NotBefore(tp.sound, simGen)
  /\ tpc \in {"run", "ready"} => handle # 0
  /\ handle <= created /\ created <= MaxHandles
  /\ \A h \in 0 .. MaxHandles : h = 0 \/ h > created => outputs[h] = 0
  /\ NotBefore(outputs[handle], simGen)
  /\ published.handle = handle /\ (published.ready => published.gen = simGen)

\* A handle the audio thread holds is never run for another generation.
AudioInv ==
  apc # "idle" =>
    /\ loaded.handle \in 1 .. created /\ loaded.gen <= captured.gen
    /\ NotBefore(outputs[loaded.handle], loaded.gen)
    /\ loaded.handle = handle => loaded.gen = simGen

\* No stale outputs, and the parts it takes to see why.
SlotInv == NoStaleOutputs /\ SoundsAreTold /\ MixerInv /\ GameInv /\ SimInv /\ AudioInv

\* "New sound on this channel: start from defaults" (EngineHooks.cpp): what
\* GetParams takes for the captured sound is never an earlier sound's.
GameParamsAreCurrent ==
  SameSound(params, captured) => NotBefore(params.sound, captured.gen)
=============================================================================
