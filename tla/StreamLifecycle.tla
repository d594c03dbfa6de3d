-------------------------- MODULE StreamLifecycle --------------------------
(***************************************************************************)
(* The life of a streamed source (ProceduralAudioBridge), shared by the    *)
(* game, audio and simulation threads: it is registered through two        *)
(* command queues, rendered until it is stopped or has played all its      *)
(* samples, handed back through two release queues and freed by whoever    *)
(* drops the last reference.  Every queue is bounded and every push may be *)
(* refused.  The queues are the FIFO that SpscQueue implements.            *)
(***************************************************************************)
EXTENDS Naturals, Sequences, FiniteSets

CONSTANTS
  Sources,           \* sources ever created: ids are never used again
  MaxStreams,        \* kMaxStreamSources
  AudioCapacity,     \* m_commands of the audio thread
  SimCapacity,       \* m_commands of the simulation thread
  ReleaseCapacity,   \* m_released of either thread
  MaxPcm,            \* bound on the frames queued in a stream's ring
  FadeFrames,        \* frames a fade takes: one at the default fadeSeconds
  TailFrames         \* silent frames after which a stream counts as drained

ASSUME LifecycleAssumption ==
  /\ "none" \notin Sources
  /\ {MaxStreams, AudioCapacity, SimCapacity, ReleaseCapacity} \subseteq Nat \ {0}
  /\ {MaxPcm, FadeFrames, TailFrames} \subseteq Nat \ {0}

VARIABLES
  stop, eos, renderFinished,                  \* sources with m_stopRequested, m_endOfStream, m_renderFinished
  pcm,                                        \* frames queued per source
  gamePc, bridge, toCheck,                    \* game thread; the bridge's streams, those Tick has yet to look at
  audioRunning, audioPc, audioCommands, audioReleased,
  audioStreams, toRender, gain, silent, inHand,
  simRunning, simPc, simCommands, simReleased, simStreams, simulated,
  created, freed, refused, lost   \* history

flagVars == <<stop, eos, renderFinished>>
gameVars == <<gamePc, bridge, toCheck>>
audioVars == <<audioPc, audioStreams, toRender, gain, silent, inHand>>
simVars == <<simPc, simStreams, simulated>>
vars == <<flagVars, pcm, gameVars, audioVars, simVars, audioRunning, audioCommands, audioReleased,
          simRunning, simCommands, simReleased, created, freed, refused, lost>>

None == "none"
Add(s) == [type |-> "Add", source |-> s]
Remove(s) == [type |-> "Remove", source |-> s]
Commands == {Add(s) : s \in Sources} \union {Remove(s) : s \in Sources}
Pushed(q, capacity, x) == IF Len(q) < capacity THEN Append(q, x) ELSE q
Items(q) == {q[i] : i \in DOMAIN q}

\* Who keeps the source alive: a Remove command holds the id alone.
HeldByAudio(s) ==
  s \in audioStreams \/ s \in Items(audioReleased) \/ Add(s) \in Items(audioCommands) \/ inHand.retiring = s
HeldBySim(s) == s \in simStreams \/ s \in Items(simReleased) \/ Add(s) \in Items(simCommands)
Held(s) == s \in bridge \/ HeldByAudio(s) \/ HeldBySim(s)

\* The thread whose step drops the last reference runs ~SoundSource.
FreeOn(thread) ==
  freed' = [s \in Sources |-> IF freed[s] = None /\ s \in created' /\ ~Held(s)' THEN thread ELSE freed[s]]

NothingInHand == [source |-> None, hasData |-> FALSE, retiring |-> None]

ThreadsInit ==
  /\ audioRunning = TRUE /\ audioPc = "drain" /\ audioStreams = {} /\ toRender = {} /\ inHand = NothingInHand
  /\ simRunning \in BOOLEAN   \* FALSE: Steam Audio is not there
  /\ simPc = (IF simRunning THEN "drain" ELSE "ended") /\ simStreams = {} /\ simulated = {}

Init ==
  /\ ThreadsInit
  /\ stop = {} /\ eos = {} /\ renderFinished = {} /\ pcm = [s \in Sources |-> 0]
  /\ gamePc = "lua" /\ bridge = {} /\ toCheck = {}
  /\ audioCommands = <<>> /\ audioReleased = <<>> /\ simCommands = <<>> /\ simReleased = <<>>
  /\ gain = [s \in Sources |-> 0] /\ silent = [s \in Sources |-> 0]
  /\ created = {} /\ freed = [s \in Sources |-> None] /\ refused = {}
  /\ lost = [s \in Sources |-> 0]

-----------------------------------------------------------------------------
(* Game thread: the bridge.  The two queues of a call have different       *)
(* consumers, so that its pushes are one step.                             *)

\* CreateStream: refused by the audio queue, the source goes at once; refused
\* by the simulation queue, it is rendered without simulation.
CreateStream(s) ==
  /\ gamePc = "lua" /\ s \notin created /\ created' = created \union {s}
  /\ IF Len(audioCommands) < AudioCapacity
     THEN /\ audioCommands' = Append(audioCommands, Add(s))
          /\ simCommands' = IF simRunning THEN Pushed(simCommands, SimCapacity, Add(s)) ELSE simCommands
          /\ bridge' = bridge \union {s}
     ELSE UNCHANGED <<audioCommands, simCommands, bridge>>
  /\ UNCHANGED <<flagVars, pcm, gamePc, toCheck, audioVars, simVars, audioRunning, audioReleased,
                 simRunning, simReleased, refused, lost>>
  /\ FreeOn("game")

\* What is written to a stream the audio thread has left is never read.
WriteFloat(s) ==
  /\ gamePc = "lua" /\ s \in bridge \ (eos \union renderFinished) /\ pcm[s] < MaxPcm
  /\ pcm' = [pcm EXCEPT ![s] = @ + 1]
  /\ UNCHANGED <<flagVars, gameVars, audioVars, simVars, audioRunning, audioCommands, audioReleased,
                 simRunning, simCommands, simReleased, created, freed, refused, lost>>

Finish(s) ==
  /\ gamePc = "lua" /\ s \in bridge \ eos
  /\ eos' = eos \union {s}
  /\ UNCHANGED <<stop, renderFinished, pcm, gameVars, audioVars, simVars, audioRunning, audioCommands, audioReleased,
                 simRunning, simCommands, simReleased, created, freed, refused, lost>>

SendRemove(s) ==   \* to the simulation thread
  /\ simCommands' = IF simRunning THEN Pushed(simCommands, SimCapacity, Remove(s)) ELSE simCommands
  /\ lost' = [lost EXCEPT ![s] = IF simRunning /\ HeldBySim(s) /\ Len(simCommands) = SimCapacity THEN @ + 1 ELSE @]

\* unregisterSource, then the bridge forgets the stream.
\* Nothing waits for the samples of a stream that is told to stop.
Forget(s) ==
  /\ audioCommands' = Pushed(audioCommands, AudioCapacity, Remove(s))
  /\ SendRemove(s)
  /\ bridge' = bridge \ {s}
  /\ pcm' = [pcm EXCEPT ![s] = 0]
  /\ UNCHANGED <<eos, renderFinished, audioVars, simVars, audioRunning, audioReleased,
                 simRunning, simReleased, created, refused>>
  /\ FreeOn("game")
\* Mutant: only the audio thread's queue carries the request to stop.
UnregisterUnstopped(s) == Forget(s) /\ UNCHANGED stop
Unregister(s) == Forget(s) /\ stop' = stop \union {s}

Destroy(s) ==
  /\ gamePc = "lua" /\ s \in bridge
  /\ Unregister(s) /\ UNCHANGED <<gamePc, toCheck>>

-----------------------------------------------------------------------------
(* Game thread: the tick                                                   *)

GoTo(pc) ==
  /\ gamePc' = pc
  /\ UNCHANGED <<flagVars, pcm, bridge, audioVars, simVars, audioCommands, audioReleased,
                 simCommands, simReleased, created, freed, refused, lost>>

\* ProceduralAudioBridge::Tick: the finished streams of its map, found together,
\* are unregistered one by one.
BeginTick ==
  /\ gamePc = "lua" /\ toCheck' = bridge \intersect renderFinished
  /\ GoTo("bridges") /\ UNCHANGED <<audioRunning, simRunning>>

TickBridge(s) ==
  /\ gamePc = "bridges" /\ s \in toCheck /\ toCheck' = toCheck \ {s}
  /\ Unregister(s) /\ UNCHANGED gamePc

BridgesTicked ==
  /\ gamePc = "bridges" /\ toCheck = {}
  /\ GoTo("drainAudio") /\ UNCHANGED <<toCheck, audioRunning, simRunning>>

PopAudioReleased ==
  /\ gamePc = "drainAudio" /\ audioReleased # <<>>
  /\ audioReleased' = Tail(audioReleased)
  /\ UNCHANGED <<flagVars, pcm, gameVars, audioVars, simVars, audioRunning, audioCommands,
                 simRunning, simReleased, created, refused>>
  /\ FreeOn("game")
\* Mutant: the game thread drops the source without telling the simulation thread.
DrainSilently == UNCHANGED <<simCommands, lost>> /\ PopAudioReleased
\* DrainReleasedSources, one source of the audio thread's queue.
DrainAudioReleased == audioReleased # <<>> /\ SendRemove(Head(audioReleased)) /\ PopAudioReleased

AudioDrained ==
  /\ gamePc = "drainAudio" /\ audioReleased = <<>>
  /\ GoTo("drainSim") /\ UNCHANGED <<toCheck, audioRunning, simRunning>>

DrainSimReleased ==
  /\ gamePc = "drainSim" /\ simReleased # <<>>
  /\ simReleased' = Tail(simReleased)
  /\ UNCHANGED <<flagVars, pcm, gameVars, audioVars, simVars, audioRunning, audioCommands, audioReleased,
                 simRunning, simCommands, created, refused, lost>>
  /\ FreeOn("game")

\* The end of a tick; with the audio thread stopped, the end of Shutdown.
SimDrained ==
  /\ gamePc = "drainSim" /\ simReleased = <<>>
  /\ GoTo(IF audioRunning THEN "lua" ELSE "down") /\ UNCHANGED <<toCheck, audioRunning, simRunning>>

-----------------------------------------------------------------------------
(* Game thread: Shutdown.  A restart finds the threads, the queues and the  *)
(* bridge as Init does (DownIsEmpty), and is not modelled.                 *)

BeginShutdown ==
  /\ gamePc = "lua"
  /\ GoTo("destroyAll") /\ UNCHANGED <<toCheck, audioRunning, simRunning>>

DestroyAll(s) ==
  /\ gamePc = "destroyAll" /\ s \in bridge
  /\ Unregister(s) /\ UNCHANGED <<gamePc, toCheck>>

StopAudio ==   \* AudioThread::Stop, up to the join
  /\ gamePc = "destroyAll" /\ bridge = {} /\ audioRunning' = FALSE
  /\ GoTo("joinAudio") /\ UNCHANGED <<toCheck, simRunning>>

StopSimulation ==   \* the audio thread is joined; SimulationThread::Stop, up to the join
  /\ gamePc = "joinAudio" /\ audioPc = "ended" /\ simRunning' = FALSE
  /\ GoTo("joinSim") /\ UNCHANGED <<toCheck, audioRunning>>

\* Mutant: the queues are not drained after the threads have ended.
ThreadsAbandoned ==
  /\ gamePc = "joinSim" /\ simPc = "ended"
  /\ GoTo("down") /\ UNCHANGED <<toCheck, audioRunning, simRunning>>
ThreadsStopped ==
  /\ gamePc = "joinSim" /\ simPc = "ended"
  /\ GoTo("drainAudio") /\ UNCHANGED <<toCheck, audioRunning, simRunning>>

-----------------------------------------------------------------------------
HasRoom(streams) == Cardinality(streams) < MaxStreams

(* Audio thread.  A frame first drains the commands, then renders every    *)
(* stream; the order of the streams is that of a vector removals reorder,  *)
(* and is left open.                                                       *)

AudioKeeps == UNCHANGED <<stop, eos, gameVars, simVars, audioRunning, simRunning, simCommands, simReleased,
                          created, lost>>

\* Mutant: the audio thread drops what it has finished with.
DropHere(s) == UNCHANGED <<audioReleased, refused>>
\* The end of a stream: marked, then handed back; a full queue drops it here.
HandBack(s) ==
  /\ audioReleased' = Pushed(audioReleased, ReleaseCapacity, s)
  /\ refused' = IF Len(audioReleased) = ReleaseCapacity THEN refused \union {s} ELSE refused

DrainAdd(s) ==
  /\ audioCommands' = Tail(audioCommands)
  /\ IF HasRoom(audioStreams)
     THEN /\ audioStreams' = audioStreams \union {s}
          /\ gain' = [gain EXCEPT ![s] = 0] /\ silent' = [silent EXCEPT ![s] = 0]
          /\ UNCHANGED <<renderFinished, audioReleased, refused>>
     ELSE /\ renderFinished' = renderFinished \union {s} /\ HandBack(s)
          /\ UNCHANGED <<audioStreams, gain, silent>>
  /\ AudioKeeps /\ UNCHANGED <<pcm, audioPc, toRender, inHand>>
  /\ FreeOn("audio")

DrainRemove(s) ==
  /\ audioCommands' = Tail(audioCommands)
  /\ stop' = IF s \in audioStreams THEN stop \union {s} ELSE stop
  /\ UNCHANGED <<eos, renderFinished, pcm, gameVars, audioVars, simVars, audioRunning, audioReleased, simRunning,
                 simCommands, simReleased, created, freed, refused, lost>>

DrainCommand ==
  /\ audioPc \in {"drain", "teardown"} /\ audioCommands # <<>>
  /\ LET c == Head(audioCommands)
     IN (c.type = "Add" /\ DrainAdd(c.source)) \/ (c.type = "Remove" /\ DrainRemove(c.source))

\* The queue is empty: the next frame once the output has room for it, or the end.
BeginFrame ==
  /\ audioPc = "drain" /\ audioCommands = <<>>
  /\ IF audioRunning THEN audioPc' = "render" /\ toRender' = audioStreams
                     ELSE audioPc' = "teardown" /\ UNCHANGED toRender
  /\ AudioKeeps
  /\ UNCHANGED <<renderFinished, pcm, audioCommands, audioReleased, audioStreams, gain, silent, inHand, freed, refused>>

\* ReadStreamFrames and QueuedStreamFrames: a stream that is not primed yields
\* nothing until its end is known, which is asked again later in the frame.
ReadStream(s) ==
  /\ audioPc = "render" /\ inHand = NothingInHand /\ s \in toRender
  /\ toRender' = toRender \ {s}
  /\ inHand' = [source |-> s, hasData |-> pcm[s] > 0, retiring |-> None]
  /\ \/ pcm[s] > 0 /\ pcm' = [pcm EXCEPT ![s] = @ - 1]
     \/ (pcm[s] > 0 => s \notin eos) /\ UNCHANGED pcm
  /\ AudioKeeps
  /\ UNCHANGED <<renderFinished, audioPc, audioCommands, audioReleased, audioStreams, gain, silent, freed, refused>>

\* Mutant: a finished stream is not taken out of m_streams.
StillThere(s) == audioStreams
Without(s) == audioStreams \ {s}

Drained(s) == silent[s] >= TailFrames
\* Mutant: a stream that has ended is over in the first frame without samples.
EndingAtOnce(s) == s \in stop \/ (s \in eos /\ ~inHand.hasData)
Ending(s) == s \in stop \/ (s \in eos /\ ~inHand.hasData /\ Drained(s))

\* StopRequested, EndOfStream and SourceFrameGain: a fade reaches zero a frame
\* before the stream is finished.
RenderStream ==
  /\ inHand.source # None
  /\ LET s == inHand.source
         finished == Ending(s) /\ gain[s] = 0
     IN /\ gain' = [gain EXCEPT ![s] = IF Ending(s) THEN (IF @ > 0 THEN @ - 1 ELSE 0)
                                       ELSE IF @ < FadeFrames THEN @ + 1 ELSE @]
        /\ silent' = [silent EXCEPT ![s] = IF inHand.hasData \/ finished THEN 0 ELSE IF @ < TailFrames THEN @ + 1 ELSE @]
        /\ renderFinished' = IF finished THEN renderFinished \union {s} ELSE renderFinished
        /\ audioStreams' = IF finished THEN Without(s) ELSE audioStreams
        /\ inHand' = [NothingInHand EXCEPT !.retiring = IF finished THEN s ELSE None]
  /\ AudioKeeps
  /\ UNCHANGED <<pcm, audioPc, toRender, audioCommands, audioReleased, freed, refused>>

HandBackFinished ==
  /\ inHand.retiring # None
  /\ HandBack(inHand.retiring) /\ inHand' = NothingInHand
  /\ AudioKeeps
  /\ UNCHANGED <<renderFinished, pcm, audioPc, audioCommands, audioStreams, toRender, gain, silent>>
  /\ FreeOn("audio")

EndFrame ==
  /\ audioPc = "render" /\ toRender = {} /\ inHand = NothingInHand
  /\ audioPc' = "drain"
  /\ AudioKeeps
  /\ UNCHANGED <<renderFinished, pcm, audioCommands, audioReleased, audioStreams, toRender, gain, silent, inHand,
                 freed, refused>>

AudioTeardown(s) ==
  /\ audioPc = "teardown" /\ s \in audioStreams
  /\ audioStreams' = audioStreams \ {s}
  /\ renderFinished' = renderFinished \union {s} /\ HandBack(s)
  /\ gain' = [gain EXCEPT ![s] = 0] /\ silent' = [silent EXCEPT ![s] = 0]
  /\ AudioKeeps
  /\ UNCHANGED <<pcm, audioPc, audioCommands, toRender, inHand>>
  /\ FreeOn("audio")

AudioEnds ==
  /\ audioPc = "teardown" /\ audioCommands = <<>> /\ audioStreams = {}
  /\ audioPc' = "ended"
  /\ AudioKeeps
  /\ UNCHANGED <<renderFinished, pcm, audioCommands, audioReleased, audioStreams, toRender, gain, silent, inHand,
                 freed, refused>>

-----------------------------------------------------------------------------
(* Simulation thread                                                       *)

SimKeeps == UNCHANGED <<flagVars, pcm, gameVars, audioVars, audioRunning, audioCommands, audioReleased, simRunning,
                        created, lost>>

SimHandBack(s) ==
  /\ simReleased' = Pushed(simReleased, ReleaseCapacity, s)
  /\ refused' = IF Len(simReleased) = ReleaseCapacity THEN refused \union {s} ELSE refused

AddSource(s) ==
  /\ IF HasRoom(simStreams)
     THEN simStreams' = simStreams \union {s} /\ UNCHANGED <<simReleased, refused>>
     ELSE SimHandBack(s) /\ UNCHANGED simStreams
  /\ UNCHANGED simulated

\* Mutant: the source goes back with its IPLSource.
RemoveUnretired(s) ==
  /\ simStreams' = simStreams \ {s} /\ simulated' = simulated
  /\ IF s \in simStreams THEN SimHandBack(s) ELSE UNCHANGED <<simReleased, refused>>
RemoveSource(s) ==
  /\ simStreams' = simStreams \ {s} /\ simulated' = simulated \ {s}
  /\ IF s \in simStreams THEN SimHandBack(s) ELSE UNCHANGED <<simReleased, refused>>

HandleCommand ==
  /\ simPc = "drain" /\ simCommands # <<>> /\ simCommands' = Tail(simCommands)
  /\ LET c == Head(simCommands)
     IN \/ c.type = "Add" /\ AddSource(c.source)
        \/ c.type = "Remove" /\ RemoveSource(c.source)
  /\ SimKeeps /\ UNCHANGED simPc
  /\ FreeOn("sim")

\* The rest of a tick: without a listener it touches no stream; otherwise those
\* that are finished or not spatial lose their IPLSource and the others get one
\* while the simulator has room.
SimulateStreams ==
  /\ simPc = "drain" /\ simCommands = <<>> /\ simRunning
  /\ simulated' \in {simulated} \union SUBSET (simStreams \ renderFinished)
  /\ SimKeeps /\ UNCHANGED <<simPc, simStreams, simCommands, simReleased, freed, refused>>

SimTeardown(s) ==
  /\ simPc = "drain" /\ simCommands = <<>> /\ ~simRunning /\ s \in simStreams
  /\ simulated' = {}   \* DestroyAllSources
  /\ simStreams' = simStreams \ {s} /\ SimHandBack(s)
  /\ SimKeeps /\ UNCHANGED <<simPc, simCommands>>
  /\ FreeOn("sim")

SimEnds ==
  /\ simPc = "drain" /\ simCommands = <<>> /\ ~simRunning /\ simStreams = {}
  /\ simPc' = "ended"
  /\ SimKeeps /\ UNCHANGED <<simStreams, simulated, simCommands, simReleased, freed, refused>>

-----------------------------------------------------------------------------
Lua ==
  \/ \E s \in Sources : CreateStream(s) \/ WriteFloat(s) \/ Finish(s) \/ Destroy(s)
  \/ BeginShutdown

Tick ==
  \/ BeginTick \/ (\E s \in Sources : TickBridge(s)) \/ BridgesTicked
  \/ DrainAudioReleased \/ AudioDrained \/ DrainSimReleased \/ SimDrained
  \/ (\E s \in Sources : DestroyAll(s)) \/ StopAudio \/ StopSimulation \/ ThreadsStopped

AudioNext ==
  \/ DrainCommand \/ BeginFrame \/ (\E s \in Sources : ReadStream(s)) \/ RenderStream \/ HandBackFinished
  \/ EndFrame \/ (\E s \in Sources : AudioTeardown(s)) \/ AudioEnds

SimNext == HandleCommand \/ SimulateStreams \/ (\E s \in Sources : SimTeardown(s)) \/ SimEnds

Next == Lua \/ Tick \/ AudioNext \/ SimNext

Spec == Init /\ [][Next]_vars

\* The game ticks, the device pulls frames and the operating system runs both
\* threads; what Lua does and when the engine is restarted is open.
FairSpec == Spec /\ WF_vars(Tick) /\ WF_vars(AudioNext) /\ WF_vars(SimNext)

-----------------------------------------------------------------------------
TypeOK ==
  /\ stop \subseteq Sources /\ eos \subseteq Sources /\ renderFinished \subseteq Sources
  /\ pcm \in [Sources -> 0..MaxPcm]
  /\ gamePc \in {"lua", "bridges", "drainAudio", "drainSim", "destroyAll", "joinAudio", "joinSim", "down"}
  /\ bridge \subseteq Sources /\ toCheck \subseteq Sources
  /\ audioRunning \in BOOLEAN /\ audioPc \in {"drain", "render", "teardown", "ended"}
  /\ audioCommands \in Seq(Commands) /\ Len(audioCommands) <= AudioCapacity
  /\ audioReleased \in Seq(Sources) /\ Len(audioReleased) <= ReleaseCapacity
  /\ audioStreams \subseteq Sources /\ toRender \subseteq audioStreams
  /\ IsFiniteSet(audioStreams) /\ Cardinality(audioStreams) <= MaxStreams
  /\ gain \in [Sources -> 0..FadeFrames] /\ silent \in [Sources -> 0..TailFrames]
  /\ inHand \in [source : Sources \union {None}, hasData : BOOLEAN, retiring : Sources \union {None}]
  /\ simRunning \in BOOLEAN /\ simPc \in {"drain", "ended"}
  /\ simCommands \in Seq(Commands) /\ Len(simCommands) <= SimCapacity
  /\ simReleased \in Seq(Sources) /\ Len(simReleased) <= ReleaseCapacity
  /\ simStreams \subseteq Sources /\ simulated \subseteq Sources
  /\ IsFiniteSet(simStreams) /\ Cardinality(simStreams) <= MaxStreams
  /\ created \subseteq Sources /\ freed \in [Sources -> {None, "game", "audio", "sim"}]
  /\ refused \subseteq Sources /\ lost \in [Sources -> Nat]

\* A source is destroyed on a thread other than the game thread only when that
\* thread's release queue refused it: every other path hands it back.
FreedElsewhereOnlyWhenRefused == \A s \in Sources : freed[s] \in {"audio", "sim"} => s \in refused

\* No source is destroyed, and none is handed to the game thread, with an
\* IPLSource left in the simulator: the simulation thread alone can retire it.
HandleGoesFirst == simulated \subseteq simStreams

\* The audio thread has finished with a stream, whichever way it ended, once it
\* says so: RenderFinished is what the bridge erases a stream on.
FinishedIsFinal == renderFinished \intersect audioStreams = {}

\* A stream only the simulation thread still holds has had both its Remove
\* commands refused, or its way through the audio thread's release queue: each
\* of the two paths that announce the end of a stream suffices alone.
Ghost(s) ==
  /\ s \in simStreams /\ simRunning
  /\ s \notin bridge /\ ~HeldByAudio(s) /\ Remove(s) \notin Items(simCommands)
RefusedByAudio(s) == IF s \in refused THEN 1 ELSE 0
GhostWasLostTwice == \A s \in Sources : Ghost(s) => lost[s] + RefusedByAudio(s) >= 2

\* Nothing survives Shutdown: whatever was queued, rendered, simulated or on its
\* way back when the threads were stopped has been freed.
DownIsEmpty == gamePc = "down" => \A s \in created : freed[s] # None

\* The id of a source that exists was handed out by CreateStream.
SourcesExist ==
  /\ bridge \union toCheck \union audioStreams \union simStreams \union renderFinished \union refused \subseteq created
  /\ {c.source : c \in Items(audioCommands) \union Items(simCommands)} \subseteq created
  /\ inHand.retiring = None \/ inHand.retiring \in renderFinished
  /\ Items(audioReleased) \subseteq renderFinished

\* In neither queue does anything about a source come before its Add, which is
\* there once: removing a source that is known never overtakes adding it.
AddComesFirst(q) == \A i, j \in DOMAIN q : i < j /\ q[j].type = "Add" => q[i].source # q[j].source
CommandOrder ==
  /\ AddComesFirst(audioCommands) /\ AddComesFirst(simCommands)
  /\ \A s \in Sources : Add(s) \in Items(audioCommands) => s \notin audioStreams \union renderFinished
  /\ \A s \in Sources : Add(s) \in Items(simCommands) => s \notin simStreams
  /\ inHand.retiring \notin Items(audioReleased)

\* A stream is in hand during a frame only; what is left of the frame excludes it.
FrameOrder ==
  /\ inHand # NothingInHand => audioPc = "render"
  /\ toRender # {} => audioPc = "render"
  /\ inHand.source # None => inHand.source \in audioStreams \ toRender /\ inHand.retiring = None

\* Which thread runs in which part of Shutdown, and what it has left behind.
ThreadPhases ==
  /\ audioRunning => gamePc \notin {"joinAudio", "joinSim", "down"} /\ audioPc \in {"drain", "render"}
  /\ ~audioRunning => gamePc \notin {"lua", "bridges", "destroyAll"} /\ bridge = {}
  /\ ~audioRunning /\ gamePc # "joinAudio" => audioPc = "ended" /\ ~simRunning
  /\ ~audioRunning /\ gamePc \notin {"joinAudio", "joinSim"} => simPc = "ended"
  /\ ~audioRunning /\ gamePc \in {"drainSim", "down"} => audioReleased = <<>>
  /\ gamePc = "down" => simReleased = <<>>
  /\ gamePc # "bridges" => toCheck = {}
  /\ audioPc = "ended" => audioCommands = <<>> /\ audioStreams = {}
  /\ simPc = "ended" => ~simRunning /\ simCommands = <<>> /\ simStreams = {}

\* A source that has not been freed is held by someone: none is leaked.
HeldUntilFreed == \A s \in created : freed[s] = None => Held(s)

\* A stream the bridge has forgotten has been told to stop.
ForgottenIsStopped ==
  \A s \in Sources : s \in audioStreams \/ Add(s) \in Items(audioCommands) => s \in bridge \union stop

\* Each holder that has let go of a source the simulation thread still has to
\* remove, has told it so: the Remove is queued, or was refused.
InSim(s) == s \in simStreams \/ Add(s) \in Items(simCommands)
Announcements(s) == (IF s \in bridge THEN 0 ELSE 1) + (IF HeldByAudio(s) THEN 0 ELSE 1)
EndsAreAnnounced ==
  /\ \A s \in Sources :
       InSim(s) /\ simRunning /\ Remove(s) \notin Items(simCommands) => Announcements(s) <= lost[s] + RefusedByAudio(s)
  /\ \A s \in refused : InSim(s) => ~HeldByAudio(s)

\* While a stream fades in nothing is silent yet; a stream found without samples
\* after it has faded out is out of samples for good.
FadesInOrder ==
  \A s \in audioStreams \ stop :
    gain[s] = 0 /\ silent[s] > 0 =>
      s \in eos /\ (inHand.source = s /\ ~inHand.hasData => pcm[s] = 0)

\* A source ends once, in the right order and on the right thread, and nothing is
\* left of it, with the types and bounds (room, queues) of the variables; the
\* parts it takes to see why.
StreamInv ==
  /\ TypeOK /\ HandleGoesFirst /\ FreedElsewhereOnlyWhenRefused /\ FinishedIsFinal /\ DownIsEmpty
  /\ SourcesExist /\ CommandOrder /\ FrameOrder /\ ThreadPhases /\ HeldUntilFreed
  /\ ForgottenIsStopped /\ EndsAreAnnounced /\ FadesInOrder

\* A stream that plays out is not ended while samples wait in its ring: the
\* samples written before Finish are read before its end is believed, though
\* the ring and the end flag are read at different moments of a frame.
PlaysToTheEnd ==
  [][\A s \in audioStreams : s \in renderFinished' \ renderFinished /\ s \notin stop => pcm[s] = 0]_vars

\* Every stream the bridge has forgotten, its producer has finished or the audio
\* thread has refused is freed in the end, unless both announcements were refused.
Disposed(s) ==
  (s \in bridge => s \in eos \union renderFinished) /\ lost[s] + RefusedByAudio(s) < 2 => freed[s] # None
AllDisposed == <>[](\A s \in created : Disposed(s))
=============================================================================
