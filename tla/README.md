# gmod-steamaudio in TLA+

gmod-steamaudio is a client-side binary module for Garry's Mod that takes the sounds of the game
engine, of Lua streams and of BASS channels and renders them through Steam Audio. It is loaded into
a running game, patches the game's audio device, and runs two threads of its own beside the game's.
This directory holds TLA+ models of its control logic, the TLC configurations that model-check them
on small instances, and proofs of the most important results for all instances, checked by TLAPS.
Paths below are relative to `src/src/`.

1. [The system](#1-the-system)
2. [What makes it hard](#2-what-makes-it-hard)
3. [Modules and how they relate](#3-modules-and-how-they-relate)
4. [From code to model, module by module](#4-from-code-to-model-module-by-module)
5. [Runs, bounds and fairness](#5-runs-bounds-and-fairness)
6. [Proofs](#6-proofs)
7. [Where code and words disagree](#7-where-code-and-words-disagree)
8. [Not modelled](#8-not-modelled)
9. [Plan](#9-plan)

## 1. The system

Four kinds of threads meet in the module:

| thread | runs | paced by |
|---|---|---|
| game thread | Lua calls, console variables, `AudioEngine::Tick`, Initialize/Shutdown | the game's frames |
| engine mixer | the trampolines of `EngineHooks` inside the engine's own mixing | the engine; with `snd_mix_async` a worker, else the game thread |
| audio thread | `AudioThread::Run`: waits for work, renders frames, drains commands | the output clock or the capture frontier |
| simulation thread | `SimulationThread::Run`: drains commands, simulates, publishes outputs | a timed wait |

A device thread (WASAPI or a null device) pulls rendered sound in native mode, a bake has a thread
of its own, and BASS calls its DSP callbacks on threads of its own.

| component | state | operations | talks to |
|---|---|---|---|
| sequence lock (`mixing/LockFreeQueue.h` SeqLock) | slots, reader counts, published index | Store (one writer), Load (any) | carries parameters, outputs and handles between threads |
| command queue (`SpscQueue`) | ring of cells, head, tail, a copy of the other's index on each side | TryPush, TryPop | commands to both threads, finished sources back |
| capture ring (`TimedSampleRing`) | samples by clock, read cursor, written-up-to, cleared-up-to | Accumulate, AdvanceFrontier, ReadAt, ClearRange | engine mixer to audio thread |
| channel capture (`core/ChannelCapture`) | slots bound to engine channels, hash from channel to slot, generation and everMixed per slot, paint clock | OnPaintBegin, OnTransferSamples, LookupOrBind, BeginNewSound, FlushStages | hooks, capture rings, sources |
| slot table and layout inference (`core/ChannelCapture`) | table of buckets, slots, free list; votes for field offsets | LookupOrBind, AllocateSlot, ReleaseSlot, CaptureMix; RunLayoutInference, VoteOriginAnchor | the engine's `channel_t` records |
| engine hooks (`core/EngineHooks`, `core/VmtHook`) | patched tables, singleton, reader count, passthrough | Install, Uninstall, trampolines, PollActiveSounds | the engine's device, channel capture |
| sources (`mixing/SoundSource`) | parameters, outputs, generation, flags of a stream | Set/GetParams, Push, RequestStop, ... | all threads |
| Phonon handles (`steamaudio/Simulator`) | handles with reference counts, deferred releases, frames rendered | CreateSource, DestroySource, ProcessDeferredReleases | simulation and audio thread |
| audio thread (`mixing/AudioThread`) | stream sources, render clock, output rings | Start, Stop, Add/RemoveSource, RenderFrame, PullStereo, FillPaintBuffer | queues, capture rings, outputs |
| simulation thread (`mixing/SimulationThread`) | queue, scene state, bake flags | QueueCommand, HandleCommand, Tick, RequestBake, CancelBake | queue, baking, sources |
| baking (`steamaudio/ReflectionSimulator`, `PathCacheFile`) | phase, progress, thread, cache files | StartBake, ContinuePathing, CancelBake, FinishBake | simulation thread, file system |
| streams (`mixing/ProceduralAudioBridge`) | table of streams | Create, Push, Stop, Destroy, Tick | audio and simulation thread by registration |
| orchestrator (`core/AudioEngine`) | all of the above, output path, retries, pending geometry | Initialize, Tick, Restart, Shutdown, LoadMap, UnloadMap | everything |
| audio clock (`mixing/AudioThread`) | render clock, anchored or not, output ring | WaitForWork, ScheduleNativeClock, RenderFrame, PublishOutput, PullStereo | capture's frontier and play cursor, the device |
| effects (`steamaudio/HRTFRenderer`) | pool of effect sets, free, held by a source or ringing out | AcquireEffects, ReleaseEffects, RenderSource, EndFrame | audio thread, simulation outputs |
| scene (`steamaudio/SceneBuilder`) | static, retired and dynamic meshes, dirty flag | AddStaticMesh, AddDynamic, UpdateDynamic, RemoveDynamic, ClearStatic, Commit | Steam Audio, simulation thread |
| dynamic occluders (`core/DynamicOccluders`) | entities followed with mesh, pose and missed updates; brushes pushed | Update, RefreshTransforms, Clear | command queue, entity snapshots |
| entity walk (`core/ClientEntityList`, `core/AudioEngine`) | state of the walk, sweep under way, batch of Lua | Validate, PollSnapshot, BeginLuaEntities, PushLuaEntity, EndLuaEntities | the game's memory, dynamic occluders |
| map and models (`steamaudio/BspGeometry`, `PhyModel`, `StaticPropResolver`) | lumps, meshes, models loaded | ParseBsp, ParsePhy, ResolveStaticProps | file system, surface properties, scene |
| surface properties (`steamaudio/SurfaceProps`) | scripts, aliases, what each texture's `.vmt` said | ResolveName, DescribeTexture, AddScript | file system, text readers |
| path cache (`steamaudio/PathCacheFile`) | header, index of rows, pages in memory | Begin, WriteRow, Finish, Open, Lookup | bake, disk |
| files and texts (`core/EngineFileSystem`, `util/GmaArchive`, `util/Json`, `util/KeyValues`) | slots of the engine's file system, archives and their indexes | ReadGameFile, Invalidate, parsers | engine, disk |
| sound overrides (`core/SoundOverrides`) | rules, entities, sounds, expectations | AddRule, SetForEntity, SetForGuid, ExpectSound, Observe, Resolve | Lua, EmitSound hook, poll |
| outputs (`platform/PlatformAudioOutput_*`) | device, its thread, needs-restart flag | Start, Stop, NeedsRestart | audio thread's rings |
| BASS bridge (`mixing/BassBridge`) | table from handles to channels (lock, DSP, source), list of dead channels, detours with a count of calls inside | detoured BASS calls on any thread, DSP callback, Tick, Attach, Shutdown | BASS, audio and simulation thread by registration |

Further parts (bindings, DSP, backends, logging) are listed in `PROJECT.json` with what is done
about each.

What makes the core parts correct:

- *sequence lock*: a Load returns one Store's value whole, the last one published or a newer one;
  neither side blocks the other for good.
- *queue*: what is pushed is popped once, in order; a refusal means it was full.
- *capture ring*: mixer and audio thread never touch one sample at a time; a frame read behind the
  frontier has every sample mixed for it, and silence elsewhere.
- *slots*: parameters and outputs taken for a sound were never computed for an earlier sound in the
  same slot.
- *handles*: the audio thread never uses a released handle; every handle is released once.
- *simulation and baking*: probes and bakes belong to the map that is loaded, the cache on disk is
  whole at every moment, whatever was asked for is done.
- *streams*: a stream plays to its end, is freed on the game thread unless a full queue forbids it,
  and nothing outlives a shutdown.
- *BASS bridge*: BASS never calls back into a channel that is gone, a stream that plays has a source
  to be heard through, and a source whose stream is gone comes to its end.
- *engine*: what a hook uses outlives every call in it; an engine that is down has left nothing in
  the game; one that runs is heard on exactly one path.
- *clock and device*: a frame is rendered from samples that are painted, and no sample twice; a hold
  ends; the loss of a device is noticed whatever its thread is doing.
- *slot table, layout*: probing finds each bound channel and nothing else; the slot given up is the
  one mixed longest ago; an offset that is settled on is the field's.
- *effects*: a set has one user or rings out; each share of a sound is rendered once.
- *scene and occluders*: the tracer sees no mesh where its entity is not, although any command may
  be refused; an entity it does not see is one whose mesh could not be made (which nobody is told)
  or whose removal was refused at a change of map; an SDK object is released once, and not while the
  scene has it.
- *readers*: damage to a file costs what refers to it and no more; a walk of a damaged tree ends; a
  row of the path cache is read whole or not at all, whatever crash came before.
- *overrides*: a sound plays with what was asked for it, and with nothing asked for another one.

## 2. What makes it hard

- Four threads share state with atomics and without locks; most defects are orders of single loads
  and stores, out of a unit test's reach.
- A slot or a stream is reused or removed while other threads hold values computed for its previous
  use; only labels (generations, guids, frame counts) tell them apart.
- Every queue is bounded and its pushes may be refused; what was refused is sometimes repeated,
  sometimes dropped.
- Cancelling goes round the command queue as a flag.
- The hooks are removed under threads the module does not own and cannot stop.
- Initialisation, device recovery, device change and restart share one set of fallbacks.
- A bake writes a cache that must survive a crash of the game, and a later process resumes it.
- What is read from the engine's memory and from files may be damaged, foreign or change between two
  reads; layouts (of `channel_t`, of a map's headers, of virtual tables) are guessed by evidence.

`PROJECT.json` lists these as hazards, each at its line with the properties that would notice it.

## 3. Modules and how they relate

```
RegularRegister <-- SeqLock <--- PrimitivesProofs
BoundedFifo <------ SpscQueue <- PrimitivesProofs
CaptureRing <------------------- PrimitivesProofs
SlotMap <---------- SlotTable <- PrimitivesProofs
LayoutInference <--------------- PrimitivesProofs
AudioClock, OutputDevice, HandleLifetime <--- AudioThreadProofs
BakeJob <---------- SimulationCommands <--- SimulationCommandsProofs
StreamLifecycle <-- StreamLifecycleProofs
EngineHooks <------ EngineLifecycle <--- EngineLifecycleProofs

MCPrimitives          SeqLock, SpscQueue, CaptureRing, SlotTable, LayoutInference
MCAudioThread         AudioClock, OutputDevice, HandleLifetime
MCRendering           SlotGenerations, EffectPool, RenderPlan <--- RenderingProofs
MCSimulationCommands  SimulationCommands
MCEngineLifecycle     EngineLifecycle
MCWorld               DynamicOccluders, SceneBuilder, EntityWalk, MapGeometry, PhySolid, StaticProps,
                      MaterialLookup, GameFiles, PathCache, TextReaders <--- WorldProofs
MCGameSounds          SoundOverrides, BassBridge <--- GameSoundsProofs
```

`RegularRegister`, `BoundedFifo` and `SlotMap` are abstract specifications; `SeqLock`, `SpscQueue`
and `SlotTable` are shown to implement them by a refinement mapping. The larger modules use the
primitives at the strength those refinements establish: `HandleLifetime` has the regular register's
Load (a value current at some moment of the call, or the new one of a Store that overlaps it), the
queues of `SimulationCommands` and `StreamLifecycle` are bounded sequences. `SlotGenerations` and
`BakeJob` take a Load or a Store as one step; the late answers a regular register allows are those
of a Load placed earlier, and every Load is a step of its own there.

`SimulationCommands` composes the command loop with the bake (`BakeJob`, extended), and
`EngineLifecycle` composes the game thread and the device thread with the hooks and the mixer
threads (`EngineHooks`, extended): in both, one module's steps leave the other's variables unchanged
and the shared ones are written by the actions named in section 4.

Components that do not share state with each other share a run: the MC module has a variable
`subject`, chosen in the initial state, that says which of them moves; the others keep one initial
state. Their steps are never interleaved, so a run's states are the sum of theirs.

A definition named in a comment as "Mutant" is a plausible bug: a run must fail when it replaces the
definition below it. The mutants show that the properties can fail.

## 4. From code to model, module by module

**SeqLock** (`mixing/LockFreeQueue.h` 364-460). One action per atomic access: Store looks for a slot
other than the published one without readers (the compare-and-swap to `kWriting`), writes word by
word, releases the slot, publishes the index; Load reads the index, counts itself in, goes back if
it finds the writer there, copies word by word, counts itself out. The data races C++ forbids are
visible because words are written and read one at a time. `RegularRegister` says what is left: a
Load returns the value of the last Store that ended before it began or of one that overlaps it. It
is *not* an atomic register: a slot may be read after it was written and before its index is
published, and a second Load may then see the older value.

**SpscQueue** (52-140). One action per atomic access of TryPush and TryPop, with the cached indices;
a refusal and a miss take effect when the other side's index is read.

**CaptureRing** (220-360, with `ChannelCapture::FlushStages` and `AudioThread::RenderEngineSlots`).
The mixer paints, loads the read cursor, accumulates sample by sample and advances the frontier; the
audio thread publishes its cursor and loads the frontier and the samples. Sample values are reduced
to what they were mixed for: nothing, the clock they belong to, or leftovers of another lap. `Guard`
is the distance (`kGuardSamples`, 4096 in the code) the producer keeps from the wrap. A slot may be
idle: no frame reads it.

**HandleLifetime** (`steamaudio/Simulator.cpp` 155-223, `SimulationThread.cpp` 780-930,
`AudioThread.cpp` 380-407). Creation, publication with or without readiness, retirement of a handle
with the frame count read at retirement, release when `Grace` frames have gone by; on the other side
the audio thread's frame from its Load to its count. Releases happen per reference.

**SlotGenerations** (`core/ChannelCapture.cpp`, `core/EngineHooks.cpp` 489-758,
`mixing/SoundSource`, `mixing/SimulationThread.cpp` 700-930). One slot, sounds that follow each
other in it on one or two engine channels, and the four threads that label values with the slot's
generation: mixer (bind, restart), game thread (poll: read generation, copy parameters, compute,
store), simulation thread (read the binding, the generation, everMixed, the parameters; ensure a
handle; simulate; publish), audio thread (the frame). A sound is a number that grows, so that
"computed for an earlier sound" is a comparison. `Modes` are the configurations that matter: whether
the mixer is the game thread, whether guids are known, whether the engine's list names every sound.

**BakeJob, SimulationCommands** (`steamaudio/ReflectionSimulator.cpp` 380-760,
`mixing/SimulationThread.cpp` 150-700 and 1020-1060, `core/AudioEngine.cpp` 1265-1434 and
1650-1680). The game thread's calls are sequences of queue pushes and flag stores (`todo`), each a
step, with the refusals and the retry of pending geometry in Tick; the simulation thread drains the
queue, takes the cancel flag, starts and attaches bakes; the bake thread goes through its phases,
waits for the decision on pathing, writes a temporary file and replaces the cache. A crash drops
everything but the files. StartBake is one step (the flag others look at is its last store). On the
simulation thread CancelBake is one step; on the game thread it is flag, test and store. The queue's
waits are timed, so that a tick of the simulation thread may begin at any time. What the SDK's own
cancel functions do to a later bake, a failing thread creation and exceptions of allocation are left
out.

**StreamLifecycle** (`mixing/ProceduralAudioBridge`, `mixing/AudioThread.cpp`,
`mixing/SimulationThread.cpp`, `core/AudioEngine.cpp` 647-670, 827-838, 1040-1050). Game thread:
create with registration at both threads and the roll-back of a refused one, push, finish, stop,
destroy; the tick that erases finished streams and drains the two queues of returned sources;
shutdown. Audio thread: drain commands, per stream a read and a decision about its end, fade or
tail, the mark before the hand-back. Simulation thread: commands, giving and taking handles,
hand-back. Who holds a reference is explicit, so that "freed" is the moment the last one goes, on
the thread that drops it. The two pushes of a call are one step, as they go to different consumers.
The order of streams in a frame is open. Samples are counted only while the count decides something.
Geometry commands that share the simulation queue are left out: with a capacity of one, streams fill
it themselves. `DownIsEmpty` makes a restart begin like Init, so that restarts are not modelled
here.

**BassBridge** (`mixing/BassBridge`, with the audio thread's end of registration). What the code
does inside one section of `m_mutex` or of a channel's lock is one action, and so is a call of
BASS's own; RetireChannel, which removes the record, the DSP and the source in this order, is one
action as well, because a call that comes between its parts leaves the same state as one that came
before. A call on any thread goes through its sections with `call[t]`; Tick and Shutdown go through
theirs with `gamePc`, holding shared pointers (`keptChannels`) of what they took out. `channel` is
the `Channel` record reduced to handle, source and the two flags of registration;
`pendingUnregister` and `stale` are `m_pendingUnregister`, the second for the records a restart
makes for an old source alone; `dsp` is the raw pointer BASS keeps. Calls that are counted but find
no instance are left out, as `EngineHooks` models such calls. "playing" covers stalled and paused
streams. The toggle for capture, parameters, positions and the conversion of samples are left out,
and detours are installed or removed together. Assumed of BASS: removing a DSP or freeing a stream
waits for a callback under way; a handle is not given out again while a call with it is under way;
no caller knows a handle before its creation has returned. Channels and sources are interchangeable
names, and a new one is always the same one of those not used yet (`NextOf`).

**EngineHooks** (`core/EngineHooks.cpp`, `core/VmtHook.cpp`). A mixer thread reads a slot of the
current device's table (the engine's virtual call), and only then reaches the trampoline's first
instruction, which counts it in; it loads `g_hooks`, goes by passthrough and capture, and counts
itself out. Install and Uninstall patch and restore slot by slot, in any order; Uninstall sets
passthrough, clears the singleton, waits for the count and only then detaches. Calls the engine
makes on the game thread cannot overlap Uninstall and need no thread of their own. A slot whose
restoring write fails is not modelled.

**EngineLifecycle** (`core/AudioEngine.cpp`, `core/ModuleEntry.cpp`). The game thread's program
counter goes through Initialize with every early exit and fallback, Tick's reinstallation of hooks
and recovery of the device, restart and shutdown. `sink` stands for `m_engineOutput` and
`m_outputSink`, which are set and reset together. `known` is the device the interfaces resolved,
which a refresh may fail to bring up to date. A reinstallation that fails is never repeated by the
code (`reinstallFailed` remembers it). The simulation thread's start and stop, the initialisation of
Steam Audio, the file system, the entity list, the dedicated-server exit and the retry timer's value
are left out.

**AudioClock** (`mixing/AudioThread.cpp` 36-723, `core/ChannelCapture.cpp` 146-207). The mixer
publishes base, frontier and play cursor of an iteration one store at a time; the audio thread waits
for work (room in the output ring on the native path, a painted frame on the engine's), loads the
frontier, anchors, holds, skips, renders and publishes; the device pulls any part. The clock is a
number of samples, the output ring its level; samples themselves are CaptureRing's. The engine may
rewind its time, stall and report a negative play cursor.

**OutputDevice** (`platform/PlatformAudioOutput_Windows.cpp`, `_Null.cpp`). The owner's Start (with
its bounded wait) and Stop, the thread's way from the lookup of the endpoint to its loop with every
call that may fail, the pull, and the callbacks of Windows. A frame is two samples in halves of full
scale, so that clamping, the mean for a mono endpoint and the rounding of each layout show. What
reaches the owner is `needsRestart`, which the orchestrator polls (EngineLifecycle). `lateDefault`
is history: the default changed while it could not be heard of.

**SlotTable** (`core/ChannelCapture.cpp` 55-672). Everything runs on the mixer thread, an iteration
being OnMixBegin, any CaptureMix of any channel, OnTransferSamples. The hash of a channel is a
constant, so that collisions and the wrap of the table happen; deletion by backward shift is a
recursive function over the table. `SlotMap` is the promise: a channel has a slot to itself until it
is idle or all are taken and it was mixed the longest ago.

**LayoutInference** (`core/ChannelCapture.cpp` 18-826). Votes for the offsets of two fields and for
the stride. An address is a number, channels lie side by side, and the mixer's and the engine's
addresses arrive in any order, also of channels nobody bound.

**EffectPool** (`steamaudio/HRTFRenderer.cpp` 134-726, `mixing/AudioThread.cpp` 204-675). A frame
visits slots, then streams, one step each (`turn`); taking, returning and ringing out follow the
vectors of the code, including the swap removal of a set whose tail is cut short when the pool is
empty. Gains are counts of frames.

**RenderPlan** (`steamaudio/HRTFRenderer.cpp` 461-682, `OcclusionShaping.h`). One step: what
RenderSource makes of configuration, parameters and outputs, as a record of what is rendered and
with what weight. Gains are integers in units of 1/`Full`.

**DynamicOccluders** (`core/DynamicOccluders.cpp`, `core/AudioEngine.cpp` 1442-1557,
`mixing/SimulationThread.cpp` 144-757). Update is one action per entity of the snapshot (Consider),
then the pass over what was missed (EndUpdate); the sink takes or refuses each command, a full queue
refuses all. An entity's identity and pose are opaque values; a pose is what the simulation thread
tells apart (`HasDynamicChanged` on origin and orientation fingerprint). LoadMap resets the tracker,
clears the scene and, if the file could be read, tells the map's geometry; a failed load leaves the
scene cleared. What the queue refused of the two is left in `m_geometryPending` and told by Tick
(`TellAgain`), which updates nothing before that; refused removals are not repeated (`unfollowed` is
history of those). The simulation thread may fail to make any mesh it is asked for
(`HandleGeometry`), an entity's or a brush's: one brush, or every brush where `dynamicGeometry` is
off and they are made static. The tracker hears nothing of it; `unmade` is history of those of
entities. Updates may go on after an unload, which the code does not do but after a failed load.
Candidates come in any order. Meshes Lua adds by itself are left out.

**SceneBuilder** (`steamaudio/SceneBuilder.cpp` 415-674). Objects of the SDK are numbers in the
order of their creation; `added` is what the SDK's scene holds, `traced` what it held at its last
commit. Any creation may fail, also the rebuilding of each flattened mesh.

**EntityWalk** (`core/ClientEntityList.cpp`, `core/AudioEngine.cpp` 1508-1613). The game creates and
removes entities, changes the level and unloads it; the walk is validated, swept in slices and given
up when too many reads fault; Lua's batch takes its place. `layout` says whether the guessed
virtual-table slots are this client's: right, wrong, or right for the world entity alone, which
passes the validation and faults on everything else. `held` is history.

**MapGeometry** (`steamaudio/BspGeometry.cpp`, `SceneBuilder.cpp` 20-133). The file is the records
of its lumps; damage replaces a header, a number in a record or a token of the entity text. Parsing
is one step (ParseBsp); geometry is exact, in units that keep the grid of a displacement whole.

**PhySolid** (`steamaudio/PhyModel.cpp` 22-206). One call of WalkTree is one step, then the linear
recovery. The bytes are what each node and ledge place may hold, in units of 16.

**StaticProps** (`steamaudio/PhyModel.cpp` 339-520, `StaticPropResolver.cpp`). One prop is one step;
a triangle is its material index. Files are records of what they hold or the way they are broken.

**MaterialLookup** (`steamaudio/SurfaceProps.cpp`, `SceneBuilder.cpp` 214-404,
`core/AudioEngine.cpp` 1165-1268). Names are model values with their bases, families, aliases and
hints; the resolution is a function of the scripts, the cache the state.

**GameFiles** (`util/GmaArchive.cpp`, `core/EngineFileSystem.cpp`, `core/AudioEngine.cpp`
1350-1394). An archive is its entries, the length of its index, the bytes that are there and a
version; Steam writes, cuts short and removes archives between any two reads.

**PathCache** (`steamaudio/PathCacheFile.cpp`). A file is a header and a sequence of blocks; Finish
is cut off after any of its steps by a failure or a death; when the power fails, every block that
was not synced is new, old or junk. The page cache is a sequence of rows, least recently used first.

**TextReaders** (`util/Json.cpp`, `util/KeyValues.cpp`). A parser is a fold of a step over tokens;
the grammars it is compared with generate their texts independently.

**SoundOverrides** (`core/SoundOverrides.cpp`, `core/EngineHooks.cpp` 272-697, `lua/LuaBindings.cpp`
968-1264). The game starts, fails to start and ends sounds; Lua's calls, the EmitSound hook and the
poll work on the table. `asked` and `taken` are history: what was asked for each sound, and whether
a poll heard it and it took an expectation then or later. All of it runs on the game thread, in any
order. Three times the repository's README promises something else than the code does (section 7);
model and history follow the code there: a sound is new until a poll has heard it, a full list
refuses a rule, an empty table is refused. So `OverridesInv` shows that the code does consistently
what it means, not that it does what those sentences say.

## 5. Runs, bounds and fairness

| run | instance | asks | bounds and why they are enough |
|---|---|---|---|
| primitives | MCPrimitives | what threads share, each structure alone | SeqLock: 3 slots, 2 readers, 2 words, 4 stores: with the published slot and one per reader the writer finds no free slot, and reuses every slot. Queue: 4 cells, 8 pushes (two laps), 3 refusals and misses. Ring of 4, guard 2, frames of 1, paints of 2, clock to 8: every sample position is used twice. Table: 3 channels, two of which collide, 2 slots, 3 buckets, so that it wraps and evicts. Inference: 3 channels, 2 votes |
| audio_thread | MCAudioThread | render clock, output device, handles against frames | frames of 2, paints of 4, output ring of 2 frames, both paths and both leads, clock to 10; 3 devices with different formats, 2 starts, 2 changes by the system; 2 sources, 2 handles (one source waits for the other's release), grace of 2 as in the code, 4 frames |
| rendering | MCRendering | slots' generations, effect sets, the plan of a mix | 2 sounds, 2 generations, 2 handles, with a worker mixing one channel or the game thread two, which are alike: the first sound starts on the first; a slot and a stream over 2 sets, fades of 2 frames; every combination of settings and 21 visibilities |
| simulation_commands | MCSimulationCommands | command loop, bakes, cache, crash | 2 maps, 2 calls of the game thread, queue of 2, 1 crash |
| bake_after_map_load | same, `MCSimulationCommandsLoad.cfg` | each load is baked (refuted) | queue of 3, no crash |
| stream_lifecycle | StreamLifecycle | streams from creation to disposal | 2 sources, 1 stream at a time, queues of 1, 1 sample, fade and tail of 1 frame: each push can be refused |
| engine_lifecycle | MCEngineLifecycle | hooks, outputs, initialisation, shutdown | 1 mixer thread, 2 classes of device, 2 retries, 1 restart or device change beyond what closing needs |
| rings_replaced | same, `MCEngineLifecycleRings.cfg` | rings are unread when replaced (refuted) | no rounds, 1 retry |
| world | MCWorld | scene, entities, map, models, materials, files, cache, texts | 2 entities and a brush, room for 1, 2 meshes (a second replaces one that was not made, moved or missed), queue of 2, 3 snapshots or loads; 7 SDK objects, 5 edits; 3 indexes in slices of 2, 2 maps, 5 happenings; a map of 4 faces with a displacement and 1 damage anywhere; 3 node places with every combination of words; 3 props of 2 models; 3 surface properties with every script over them; 2 archives, 2 files, 2 changes; 3 rows, 2 mishaps; all texts of 6 tokens |
| game_sounds | MCGameSounds | overrides; BASS calls against ticks, callbacks and shutdown | 3 sounds, a table of 2, 2 rules, 1 expectation, 2 calls of Lua; one handle used twice, 2 channels, 2 sources, the game thread and another one, 4 detoured calls: create, play, free and create again |
| ring_stale_read | CaptureRing, `MCCaptureRingStale.cfg` | unwritten positions read as silence (refuted) | ring of 4, paints of 1 |
| bass_short_stream | BassBridge, `MCBassBridgeShort.cfg` | short streams drain (refuted) | one channel, one source, one thread |

What the runs show:

- *primitives*. The writer of the sequence lock and its readers never race on a word (`IInv`), the
  lock implements a regular register (`ImplementsRegister`), a Load starts again only after the
  published index has moved by two Stores (`RetryNeedsTwoStores`), and every Store ends
  (`StoreTerminates`). The queue implements a bounded first-in-first-out sequence whatever copies of
  the indices the sides go by (`ImplementsFifo`), with each live item in its cell and no other
  (`QueueInv`). No sample is cleared or added while the audio thread copies it, and nothing is
  written below the read cursor although the cursor Accumulate checked may be old (`NoSampleRace`
  and `NoLateWrite`, in `RingInv`); a frame the mixer had committed before the cursor moved is read
  exactly (`SettledReadsAreExact`), and a slot that is read keeps every block whole while the engine
  paints less than a ring, less the guard, ahead (`ActiveSlotKeepsBlock`). `CaptureInv`: probing
  finds every bound slot and the table holds nothing else (`TableInv`), a sound that began with a
  full block keeps its rate group (`GroupIsKept`), and an offset found while the size of a channel
  was known is the field's (`OffsetsAreTrue`). The table is a map that forgets the channel mixed the
  longest ago (`ImplementsSlotMap`).
- *audio_thread*. `ClockIsKept`: a frame was painted when it was taken, the output ring never
  overflows, and the clock, once anchored, never goes back, so that no sample is heard twice.
  `HoldsEnd`: the clock does not stand in front of a painted frame for ever. `DeviceInv`: the source
  is pulled between Start and Stop only, the notification never outlives the thread, a Start that
  said yes has or had a device, no sample leaves its layout's range, and a change of the followed
  default asks for a restart unless it fell into the thread's opening. `LossIsReported`: a device
  that is gone ends in a restart asked for or a stop. No use after release (`NoUseAfterRelease`), no
  outputs read that were never simulated, each reference accounted for and none left at the end
  (`IInv`), and each retired handle released (`RetiredIsReleased`).
- *rendering*. `NoStaleOutputs` (in `SlotInv`): outputs the audio thread takes were not simulated
  for a sound that had left the slot before its generation began. `GameParamsAreCurrent`: what
  `GetParams` returns for the captured sound was not computed for an earlier one. `RenderInv`: every
  effect set is free, ringing out or held by one source that renders, and none is held when the sets
  are destroyed (`PoolInv`); with physical acoustics direct sound and paths share the source without
  gap or overlap, without them occlusion leaves a floor (`PlanInv`).
- *simulation_commands*. In `CommandsInv`, `ProbesAreOfThisMap`: probes attached are of the map in
  the scene, and `PendingCoversQueue`: the counter the thread is woken by covers the queue and never
  falls below zero, although it is raised after the push and lowered after the drain.
  `CacheReplacementIsAtomic`: no step, nor a crash, leaves anything but the old file or a complete
  one. `SettlesDown`: once the game makes no more calls, everything asked for has been done:
  commands handled, geometry committed, cancellations obeyed, the thread joined by Stop.
- *stream_lifecycle*. `StreamInv`: a source is freed off the game thread only when a release queue
  refused it (`FreedElsewhereOnlyWhenRefused`); the handle goes before the last reference
  (`HandleGoesFirst`); a stream said to be finished is not rendered again (`FinishedIsFinal`);
  nothing outlives shutdown (`DownIsEmpty`). One that survives on the simulation thread alone has
  been lost twice (`GhostWasLostTwice`); a stream plays out what was pushed (`PlaysToTheEnd`); what
  ended is freed (`AllDisposed`).
- *engine_lifecycle*. `HooksOutliveCalls`, `AtMostOneCallLost` (per removal of the hooks a thread
  loses at most the call that was on its way into a trampoline; the comment at `EngineHooks.h:24`
  speaks of original behaviour being restored); `EngineInv`: rings are replaced unread at a restart
  (`OldRingsAreUnread`), an engine that is down has left nothing behind (`DownIsDown`), one that
  runs is heard on one path with passthrough as configured (`RunsAsConfigured`);
  `LostDeviceIsReplaced` and `ShutdownComesToAnEnd` under fairness.
- *world*. `WorldInv`: every mesh of the scene belongs to one tracked entity and is where the
  tracker believes it to be, whatever the queue refused and the scene failed to make; a tracked
  entity's mesh is missing only if it could not be made or its removal was refused when the map
  changed (`SceneIsFollowed`); places are within bounds (`PlacesAreBounded`); SDK objects are held
  exactly as long as they are alive, and after a commit the tracer sees every mesh where the last
  call put it (`SceneryInv`); a sweep belongs to one map and leaves out no entity that was there
  throughout (`WalkInv`). `MapInv`: headers are read in the layout they are stored in, the triangles
  of a face cover it once, damage costs the faces that refer to it and no others, placed props lie
  within their lump (`MapGeometryInv`); the walk of a collision tree ends, reads no ledge twice and
  misses none it leads to (`PhySolidInv`); props are instanced whole, once, within the budget and in
  the materials their files name (`StaticPropsInv`); materials are inherited through chains and
  circles, and the cache is of this map (`LookupInv`); JSON is read exactly by its grammar,
  KeyValues of the grammar give their tree, and what is cut off is said to be (`ReadersInv`).
  `ReadInv`: an archive opens exactly when it is whole, and what is read is in it now (`FilesInv`);
  a row the index names is whole, a published cache complete, and a row said to be written survives
  a death of the process, and the pages kept in memory stay within their limit, but for one page too
  large by itself (`PathCacheInv`).
- *game_sounds*. `OverridesInv`: after a poll each sound plays with what its rules, its entity and
  the calls for it ask for, computed anew (`PlaysAsAsked`), a sound takes an expectation at the
  first poll that hears it or never (`TakesWhenNew`), and the greedy matcher of globs finds a match
  whenever there is one (`GlobsMatch`). BASS's pointers are alive, at rest and under a callback
  (`DspTargetIsAlive`), and once Shutdown has waited for the count, no call and no callback is in
  the bridge (`ShutdownIsAlone`, both in `BridgeInv`); a source that is no channel's any more has
  been told to end (`OnlyCurrentSourcesGoOn`); between ticks and calls, a playing stream without a
  live source is one whose source the audio thread turned away after the queue had taken it
  (`AudioThread.cpp:230`), or one that another thread restarted between Tick's look at its state and
  the channel's lock (`BassBridge.cpp:602`) (`SilenceIsExplained`). Without either of the two causes
  in the formula TLC finds a counterexample: the bridge then mutes the stream and has nothing to
  play it with, until the next restart.

The invariants also carry the type invariant of their modules; that of the slots is in `RenderInv`,
which evaluates it where two channels share the slot, and is proved for every instance. An MC
module's conjunctions (`RenderInv`, `WorldInv`, `MapInv`, `ReadInv`) join what different components
promise: each conjunct speaks of one module's variables, and is vacuous for no run since every
component has its behaviours.

`world` and `game_sounds` have a VIEW: a state is told apart by the variables of the component that
moves, the others being constant in a behaviour. It merges no states that differ, and the runs check
invariants alone. No run uses symmetry.

Deadlock is looked for in `engine_lifecycle` and `rings_replaced`. The other instances really stop:
their bounded calls, stores, clocks or sounds are used up, a text has been read, or the threads have
been stopped.

Bounds appear as constants named `Max...` in guards: `MaxStores`, `MaxPushes`, `MaxFails`,
`MaxFrames`, `MaxSources`, `MaxLead`, `MaxClock`, `MaxIterations`, `MaxStaged`, `MaxGuid`,
`MaxVotes`, `MaxStarts`, `MaxChanges`, `MaxSounds`, `MaxGen`, `MaxHandles`, `MaxCalls`,
`MaxCrashes`, `MaxPcm`, `MaxRounds`, `MaxMeshes`, `MaxSnapshots`, `MaxQueued`, `MaxEdits`,
`MaxHappenings`, `MaxDamages`, `MaxMounts`, `MaxVersions`, `MaxMishaps`, `MaxJsonText`, `MaxKvText`,
`MaxNow`, `MaxPlaying`, `MaxBassCalls`; the names are local to their modules. Limits of the code
itself, made small, are `MaxStreams`, `MaxRetries`, `MaxSets`, `MaxLag`, `MaxOccluders`,
`MaxLedges`, `MaxSolidTriangles`, `MaxTreeDepth`, `MaxModelTriangles`, `MaxPropTriangles`,
`MaxChain`, `MaxPatchDepth`, `MaxIndex`, `MaxJsonDepth`, `MaxKvDepth`, `MaxKvNodes`,
`MaxGuidEntries`, `MaxPending` and `MaxRules`.

Fairness assumed, and why:

- *SeqLock*: a thread inside Store or Load takes its next step (the operating system runs every
  thread). Nobody has to call either.
- *AudioClock*: the audio thread runs, and a device that was started pulls. The engine need not
  paint.
- *OutputDevice*: the thread runs, and the waits of a Start or a Stop return when they may. The
  system need not do anything.
- *HandleLifetime*: frames and ticks begin and end, and each tick ends with a release pass. The last
  step of a frame, the release pass and the stop are strongly fair: a thread reaches them again and
  again, but stands at them only between its other work. Frames stop at `MaxFrames`, so that release
  is claimed for handles whose grace ends before it, or once the engine stops.
- *SimulationCommands*: simulation thread and bake thread run, the SDK's bakers return, time passes,
  a call under way goes on. No call has to be made and nobody is forced to answer the pathing
  question: cancellation and shutdown do not depend on it.
- *StreamLifecycle*: the game ticks, the device pulls frames, both threads run.
- *EngineLifecycle*: calls of the game thread go on, the game ticks, pulls and trampolines end. A
  device asked to stop begins no new pull (its thread tests the flag before each).

In a run of several components each fairness condition is that of the module, for the behaviours in
which that component moves.

## 6. Proofs

TLAPS checks eight modules, each from the assumptions on its constants alone: sets of threads,
handles, channels and sources are any sets, sizes and capacities any numbers the assumption allows,
and the bounds that keep TLC's instances finite are parameters like the rest. Each follows the same
argument. An invariant of named parts is shown to hold initially and to be kept by every action (a
lemma per action or group of actions, a step per part it can disturb); the theorems follow from it.
Where the parts that make an invariant inductive are of interest by themselves they are conjuncts of
the invariant the runs check, so that TLC has evaluated them on the small instances; those that only
carry an argument (EffectPool, the modules of the world, the capture's tables) are defined with the
proofs.

**PrimitivesProofs**. *SeqLock* (`SeqLockAssumption`: at least two slots, finitely many readers, at
least one word). `LockSafety`: `Spec => []IInv`. The invariant ties the writer's slot to the reader
counts: a reader that is counted in a slot without the writer's mark keeps the writer out, so that
what it has copied so far belongs to one Store. `LockRefinement`: `Spec => ImplementsRegister`. Each
access is shown to be a Begin, an End or a stutter of the register: from the published index on,
what a reader may copy is no older than the Stores completed when its Load began. `LoadIsLockFree`:
`Spec => []RetryNeedsTwoStores`: the writer never takes the published slot, so a reader that meets a
mark read an index of an earlier Store.

*SpscQueue and CaptureRing* (any capacity; for the capture ring a guard of at least a frame and at
most half the ring). `QueueSafety`: `QueueSpec => []QueueInv`: the copy each side keeps of the
other's index is behind it, and a position's slot is known from its remainder, so that two positions
less than a capacity apart never share one. `QueueRefinement`: with that, a push appends, a pop
takes the first item, a refusal happens when the queue was full at the read of the other index, and
everything else stutters: `QueueSpec => ImplementsFifo`. `RingSafety`: `RingSpec => []RingInv`. Each
clear and each added sample lies in the mixer's window, each copied sample in the audio thread's
frame, and the guard keeps the windows at different remainders although each side knows only an
older value of the other's position. `SettledReads` and `BlocksAreKept` need more: every cell holds
what was accepted for the last position that maps to it and nothing else, up to the cell the mixer
is at.

*SlotTable* (any channels and homes, any number of slots, more buckets than slots, any lengths of an
iteration that are multiples of four). `TableSafety`: `TableSpec => [](TableInv /\ GroupIsKept)`.
The invariant `TableSafe` says of the table that no gap is on the way from an entry's home to the
entry (`Reached`), that entries and slots name each other (`Agrees`), and that the free list holds
each other slot once. For the deletion it is weakened to a loop invariant (`LoopOK`): the hole is
the only gap on the way to an entry, and nothing between the hole and `next` may be moved into it.
The recursive function `Shifted` is shown to unfold for every argument (`ShiftedUnfolds`, whether or
not the loop ends), and the loop to end because `next` comes nearer to a gap, which there is since
buckets outnumber slots (`HasGap`, `LoopRuns`). Eviction, insertion at the first gap and the sweep
over the slots, a recursion of known length (`Iterate`, `SweepKeeps`), each keep a table a table
(`ReleaseKeeps`, `TakeKeeps`). That a group is kept needs that what is staged fits the true group of
the sound the slot was told last (`StageOK`, `GroupOfIs`). `TableRefinement`: `TableSpec =>
ImplementsSlotMap`: a block is a Bind of the channel or stutters, the end of an iteration an
EndIteration, in which only slots that staged nothing are released.

*LayoutInference* (any array of channels, size of a channel and offsets within it). `LayoutSafety`:
`LayoutSpec => []OffsetsAreTrue`: every vote ever counted for a field is the field's offset but for
whole channels (`TrueVotes`, kept through the votes of a run by `FoldIsTrue`), so that the one below
the true size is the true one. How votes are weighed against each other plays no part in it.
`CaptureSafety` joins the two: `MCFairSpec => []CaptureInv`.

**AudioThreadProofs**. *AudioClock and OutputDevice* (a latency of at least two frames; any lead,
lag, endpoints and formats). `ClockSafety`: `ClockSpec => ClockIsKept`: what `WaitForWork` saw
painted is carried to the frame it lets through, since the frontier only grows and the target leaves
a frame below it; a new anchor is never behind what was rendered. `DeviceSafety`: `DeviceSpec =>
[]DeviceInv`: which of the calls of Start and Stop and the device thread is waiting for which, and
that a change of the default is either before the opening or notified.

*HandleLifetime* (grace of at least one frame, any sources and handles). `HandleSafety`: `Spec =>
[]NoUseAfterRelease`. Alone, the property is not inductive: that a handle is unreleased while a
frame uses it follows from the frame count at its retirement, which is why the invariant relates
published values, values a Load may still return, deferred releases and their marks, and the
reference counts.

**RenderingProofs**. *SlotGenerations* (any channels, sounds, generations and handles).
`SlotSafety`: `Spec /\ SoundsAreTold => [](TypeOK /\ SlotInv)`. That the outputs taken are not stale
rests on the order of one tick: the generation is read first, then whether the slot is shown, then
the parameters; a slot that is shown has captured its generation (`MixerInv`), so that the
parameters are not before the label (`SimInv`), and a source is never run for two generations
(`AudioInv`). `ParamsAreOfTheirSound`: `GameParamsAreCurrent`. Both have the hypothesis
`SoundsAreTold`: either guids are known and the engine's list names the sound, or guids are unknown
and the game thread mixes. It is necessary: TLC finds each of the two properties violated in runs
where guids are known and the list misses a sound it has named, and where guids are unknown and a
worker mixes (section 7).

*EffectPool* (any number of sets, slots and streams, any lengths of tails). `EffectSafety`:
`EffectSpec => []PoolInv`. The invariant it rests on, `PoolSafe`, follows a set through one call:
while a source is bound, mixed and its sets given back the free and the draining list and the
sources' handles divide the sets, which is carried from one step of `Acquire`, `Release` and the
tails to the next as a predicate on the state of the pool (`AcquireKept`, `ReleaseKept`,
`TailsKept`), and for the loop over the draining sets by an induction on the index (`UpTo`,
`Iterate`). *RenderPlan* (any quantities): `PlanInv` speaks of the plan a choice of inputs gives, so
each conjunct is proved of that choice. `RenderSafety` joins the three, as `MCRendering` composes
them: `MCSpec /\ (subject = "slots" => SoundsAreTold) => []RenderInv`.

**WorldProofs**. *DynamicOccluders* (any finite set of entities, any identities and poses, any
brushes whose ids no mesh is given, any number of meshes and places in the queue).
`OccludersSafety`: `OccludersSpec => []OccludersInv`. The invariant speaks of the scene the
simulation thread will have once it has carried out what is queued, a fold over the queue; a command
appended to it is the last one handled (`PushKept`). When the oldest one is handled in full the
fold's value is what it was (`FoldTail`); when the scene fails to make some of its meshes, the fold
becomes a part of what it was, the same where it is defined and lacking at most those meshes
(`FoldPart`, `HandledPart`), and what it lacks of a tracked entity is in `unmade` (`MayMiss`). While
a map's geometry is still to be told no brush has been pushed, so that the scene it replaces has
nothing of the new map's. In one Update the removals and additions are made one entity at a time,
each step of which keeps `Follows`: the scene ahead holds the tracked meshes at the poses pushed
last, and the brushes. That places are bounded although entities that are missed keep theirs for
some snapshots needs a count of its own: no more than `MaxOccluders` entities are missed for the
same number of snapshots (`PlacesKept`). *SceneBuilder* (any places and meshes). `ScenerySafety`:
`SceneryInit /\ [][SceneryNext]_sceneryVars => []SceneryInv`. A handle belongs to one holder
(`HoldersApart`); of what the tracer refers to only instances may be dead, because the SDK keeps
them (`TracerSafe`); and a place that differs from what was asked for is marked dirty or stale until
the next commit (`PlacesCurrent`). *EntityWalk* (any entities, any number of faults). `WalkSafety`:
`WalkSpec => []WalkInv`. What a sweep has left behind it is counted while it goes on: the entities
it passed without a record although they were there all the time are no more than its faults, and
beyond the highest index there is nothing; a sweep of the map before is abandoned before its records
are given to anyone. *GameFiles* (any finite set of files; any archives, windows and limits).
`FilesSafety`: `FilesInit /\ [][FilesNext]_filesVars => []FilesInv`. That an archive opens exactly
when it is whole is a fact about the windows its index is read in: an induction downwards over the
windows shows that the header is understood in the first window that holds it, and that a larger one
changes nothing (`OpensWhole`). `FilesSafe` relates the index to the archive it was read from, and
the disk to whether it has changed since. *PathCache* (any keys but the marks `"none"` and `"torn"`,
any rows, block sizes and mishaps). `PathCacheSafety`: `PathCacheSpec => []PathCacheInv`.
`CacheSafe` says of the file being baked that it has the bake's key, its rows tile its front without
overlap, what the writer believes is where it believes it, and once its header says that it is
finished all rows are there and on the disk (`BakeRight`); of the published file that it is complete
(`PublishedRight`); and of the reader that its index is of the file it has open (`ReaderRight`). The
scan with which a later process resumes finds every row placed, because at a block there is one row
only (`ScanResumes`); the pages' sizes add up as they are moved and evicted (`TakeRemove`,
`TakeAppend`). `WorldSafety`: `MCSpec => []WorldInv`; `ReadSafety`: `MCSpec => []ReadInv`.

**SimulationCommandsProofs** (any maps and capacity). `CommandsSafety`: `Spec => []CommandsInv`.
That the counter covers the queue needs the order of the steps of one call, counted before they are
pushed; that probes and bake are of the map in the scene needs that the worker has been joined and
its flags are reset, in that order, before the scene changes. `CacheSafety`:
`CacheReplacementIsAtomic`.

**StreamLifecycleProofs** (any sources; queues of any capacity). `StreamSafety`: `Spec =>
[]StreamInv`. A source has at most one Add in each queue and nothing before it; it is held by
whoever will free it until it is freed; its end is announced or the announcement was refused;
effects fade, ring out and go in that order. `GhostsAreLostTwice`, and `StreamsPlayOut`: the end
flag is read before the ring, so that a ring found empty under it is empty for good.

**GameSoundsProofs**. *BassBridge* (any threads, with the game thread among them, handles, channels
and sources). `BridgeSafety`: `BridgeSpec => []BridgeInv`. That BASS's pointers are alive is not
inductive. `DspIsOfItsHandle`: a pointer leads to the channel of that very handle, and the table,
the call that is creating it, or Shutdown still has it. `OneHandle`: a channel is in one place, and
out of the table it never comes back. `TickOrder`: what the game thread still has to look at is kept
by its references. `OneOwner`, `RegisteredIsKnown` and `KnownIsNotStopped` give
`SourcesEndWithTheirChannels` (`OnlyCurrentSourcesGoOn`), and `SilenceIsBeingMended` gives
`SilentStreamsAreExplained` (`SilenceIsExplained`): a stream that falls silent in mid-call is one a
call of BASS_ChannelPlay is about to give a fresh source.

*SoundOverrides* (any sounds, entities, tables of parameters, globs and names; any sizes of the
table and of the lists, any retention). `OverridesSafety`: `OverridesSpec => []OverridesInv`.
`PlaysAsAsked` speaks of the moment after a poll, and the table may have forgotten a sound by then.
The invariant it rests on, `OverridesCore`, says of each sound that plays (`Fits`, `Tracks`): an
entry was seen no earlier than at the last poll, has what was asked for the sound, has the rules'
parameters whenever it has the rules' version, and is marked observed if a poll has heard the sound;
a sound without an entry was asked for nothing and has not been heard. That the table forgets no
such entry is a count: `Trim` drops the half seen the longest ago, and what was seen since the last
poll is at most the other half (`RecentAreFew`, `TrimKeeps`), which the model's guard `FewAreRecent`
assumes of the engine (128 sounds against 2048 entries). The walk over the engine's list is an
induction on its length (`WalkStep`, `WalkEnds`): each sound is met once, and the sounds met before
stay met. `GlobMatchIsSplits`: for any two sequences of characters the greedy matcher `GlobMatch`,
which after a mismatch tries only the last star again, decides whether the pattern's characters can
be cut over the text (`Splits`). What a state of the matcher is worth (`Worth`: the rest of the text
splits there, or a later piece behind the last star does) is kept by each of its steps; `AtStarStep`
is the heart of it: once a second star is reached, an earlier one has nothing to win from a second
try. That the recursion computes just this is shown at a spot where it would not: the last in the
order of star, place of the try and place in the pattern (`GlobRunIsWorth`).

**EngineLifecycleProofs** (at least one mixer thread and one class of device, any number of retries
and rounds). `LifeInvariant`: `LifeSpec => []LifeInv`, and from it `HooksOutliveTheirCalls`,
`CallsLost`, `RingsAreReplacedUnread`, `DownLeavesNothing` and `ConfigurationHolds`. `LifeInv` is
built of named parts. `CallsInv`: whether hooks are installed is known outside of Install and
Uninstall, and inside of them from where the game thread is. `TableInv`: only the attached table is
patched, and capture and slots are there while one is. `OutputInv`: sink, device and threads follow
the path the game thread has taken. `QuietInv`: passthrough stays on from the removal of the hooks
to the end of the next Initialize, so that no thread is in the mixing path when rings are replaced.
`LostInv`: without the singleton no slot leads into a trampoline, and a thread on its way into one
has lost no call yet. `CoreStep` goes through the steps of mixer threads, hooks, Initialize, Tick
and Shutdown one by one; `QuietStep` and `LostStep` use it.

`EngineSafety` and `HandleInvariant` state `EngineInv` and HandleLifetime's `IInv`, the invariants
of the runs, as they are checked there.

Only model-checked, because outside of what the provers reach: liveness (`StoreTerminates`,
`HoldsEnd`, `LossIsReported`, `RetiredIsReleased`, `SettlesDown`, `AllDisposed`,
`LostDeviceIsReplaced`, `ShutdownComesToAnEnd`), and what folds and recursive functions over data
compute: the parsers, geometry and materials (`MapInv`). No module declares a recursive operator:
recursion is written as recursive functions and folds.

## 7. Where code and words disagree

| run | where | what |
|---|---|---|
| ring_stale_read | `mixing/LockFreeQueue.h:337` | A read cursor published between the mixer's look at it and its publication of the frontier makes AdvanceFrontier count as written what it skipped; ReadAt returns samples of an earlier lap where a comment promises silence. |
| bake_after_map_load | `mixing/SimulationThread.cpp:290` | The cancel flag of a map load may be taken after the same load's bake request, which is lost although the README promises a bake after map load. |
| bass_short_stream | `mixing/BassBridge.cpp:605` | A stream that frees itself at its end (BASS_STREAM_AUTOFREE) before its source was registered is retired by Tick without being registered; what was captured is lost although the README promises that short streams drain. |
| rings_replaced | `core/AudioEngine.cpp:702` | When the native device fails, the sink is attached before the audio thread is started anew; the start frees rings the engine's mixer may be reading. |

Smaller disagreements, met while modelling and stated in the models rather than refuted by a run:

- `steamaudio/PhyModel.cpp:124`: a second leaf that shares a ledge counts as read even when that
  ledge could not be, and the linear recovery (78-84) is then skipped. `NothingIsLost` excepts it.
- `steamaudio/BspGeometry.cpp:632` says that empty lumps carry no evidence; an empty lump of a
  rotated file with an offset still votes, since it is read in the standard layout.
- `core/ChannelCapture.cpp:589-606`: a sound whose first block is short is put into the group that
  block suggests until a full one comes; `GroupIsKept` is claimed for sounds that begin with a full
  block.
- `core/ChannelCapture.cpp:35-37` calls the smallest strong candidate the right offset; while the
  size of a channel is not known it may be the field of a later channel, and the stride itself may
  be a multiple of the size. `OffsetsAreTrue` is claimed for offsets found with a stride.
- `steamaudio/HRTFRenderer.cpp:298` speaks of the oldest reflection tail; removal by swapping does
  not keep the sets in the order of their age.
- `platform/PlatformAudioOutput.h` says that a change of the default device asks for a restart; one
  between the lookup of the device and the registration of the notification does not
  (`lateDefault`).
- `core/DynamicOccluders.cpp:344` and 661: a removal refused at a change of map leaves an entity
  tracked whose mesh is gone with the scene (`unfollowed`), until it is missed.
- `mixing/SimulationThread.cpp:640-646` and 748-755: a mesh that `SceneBuilder::AddDynamic` fails to
  make is dropped and nobody is told. The tracker goes on following the entity and sending its
  updates, which are ignored (651-652): it does not occlude until it has been missed and is tracked
  anew. `SceneIsFollowed` excepts it (`unmade`).
- `mixing/SimulationThread.cpp:654`: the orientation of a mesh is compared by `forward + up * 3`
  alone; a rotation about that axis leaves it as it is, and the update is dropped.
- `README.md:572-575` (of the repository) says of ExpectSound that "the first *new* sound from that
  entity" takes the parameters and that "Sounds already playing never consume it".
  `core/SoundOverrides.cpp:415-418` takes for new what no poll has observed yet: a sound that
  started before the call and has not been polled consumes it. `TakesWhenNew` claims what the code
  keeps: no sound a poll has heard does.
- `README.md:588` (of the repository): "512 rules (oldest dropped)".
  `core/SoundOverrides.cpp:215-216` refuses a rule when there are 512; none is dropped.
- `README.md:578` (of the repository): "`ClearEntitySoundParams` or an empty table removes it".
  `lua/LuaBindings.cpp:1144-1147` returns false for a table that sets nothing and removes nothing;
  the erasure in `SoundOverrideTable::SetForEntity` (`core/SoundOverrides.cpp:183-186`) is not
  reached from there.
- `steamaudio/SceneBuilder.cpp:663-669`: a flattened mesh whose rebuilding failed at a commit is not
  built again until it moves.
- `core/AudioEngine.cpp:1167-1169`: the surfaceprop scripts are read once per start of the engine,
  even if reading them failed.
- `util/GmaArchive.cpp`: archives mounted later are not seen before the next Invalidate, and a file
  that vanished from the first archive that had it is not looked for in the others.
- `core/ClientEntityList.h:93`: entities above index 16384 are not walked; a validation that failed
  keeps the native walk off until the next start.
- `steamaudio/PathCacheFile.cpp`: a process that dies between creating the `.partial` file and
  writing its header leaves a file every later Begin refuses.
- `util/KeyValues.h`: the flag for a truncated document stays unset when a brace stands where a
  value should (`KeyValues.cpp:139-166`); `TruncationIsSaid` excepts it.
- `core/EngineHooks.cpp:436`: a call of EmitSound that started nothing gives its name to the sound
  the last guid names, which may be one of the network.

Two limits of the code are assumptions of runs rather than findings. `NoStaleOutputs` and
`GameParamsAreCurrent` are claimed with guids and a list that names the sound, or without guids when
the game thread mixes (`SoundsAreTold`): parameters are labelled with the generation of the moment
they are stored (`core/EngineHooks.cpp:757`), so that without guids and with `snd_mix_async` those
of an old sound may pass as the new one's; and with guids, when the list names a new sound before
the mixer has captured it and misses it at the next poll, what GetParams returned for the old sound
is stored under the new one's guid. `ActiveSlotKeepsBlock` is claimed for slots that are read: one
nobody reads keeps its cursor, and the first block of the next sound in it may be refused as too far
ahead (`mixing/LockFreeQueue.h:310`).

`SoundSource.h:8-11` says that sources are always destroyed on the game thread. When a release queue
is full the last reference goes on the thread that could not hand it back;
`FreedElsewhereOnlyWhenRefused` holds and says that this is the only case.

## 8. Not modelled

- Signal processing (HRTF, filters, convolution, meters, resampling) and geometry of rays and
  meshes: arithmetic without control state.
- Byte formats below the level of records: lexing of characters, LZMA, VPK and MDL layouts,
  checksums.
- Engine interface resolution (RTTI, byte patterns): reads the host's memory once.
- The fallback mixer, the room DSP, automatic directivity, the pathing simulator, the backends and
  the binding of the SDK: arithmetic, tables and one-time probing, without a state that changes
  afterwards.
- `sa_run_limited` and the bounded process behind it: a separate tool the module does not call.
- A slot of a virtual table whose restoring write fails (`core/VmtHook.cpp:128`), and inline
  detours.
- Branches no property depends on: an LZMA-compressed archive (`util/GmaArchive.cpp:226-280`) and
  the early return where the engine's file system misses and nothing else may be tried
  (`core/AudioEngine.cpp:1368-1371`) in `GameFiles`; the implausible highest index and the checks on
  the local player in `EntityWalk`; a published cache that cannot be opened again after Replace in
  `PathCache`.
- The Lua bindings' conversions beyond those of overrides, console variables, logging.
- The SDK and the engine, beyond what the code assumes of them.
- Memory orders weaker than the interleaving of single accesses. The code's acquire and release
  pairs are on the accesses the models interleave; where a plain access races, the model makes the
  race visible as a violation instead of choosing a value.

Components that are partly modelled say in `PROJECT.json` what is missing.

## 9. Plan

Done: primitives with their abstract specifications, handles, capture ring, slot table and layout
inference, slot generations, effects, render clock and output device, simulation and baking,
streams, the BASS bridge, overrides, hooks and engine lifecycle, scene and entities, map, models,
materials and files; proofs for the primitives, the capture ring and the capture's tables, the audio
thread with its clock, output and handles, slots, effects and the rendering plan, simulation
commands, streams, the BASS bridge, overrides, the engine's lifecycle, and occluders, scene and
entities.
