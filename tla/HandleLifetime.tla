--------------------------- MODULE HandleLifetime ---------------------------
(***************************************************************************)
(* How long an IPLSource lives.  The simulation thread creates, publishes, *)
(* marks ready and retires the handle of a SoundSource (Simulator.cpp,     *)
(* SimulationThread.cpp); the audio thread loads it from the SeqLock and   *)
(* reads its outputs inside a frame (HRTFRenderer.cpp, AudioThread.cpp).   *)
(* The SeqLock is the regular register it implements (RegularRegister):    *)
(* a Load returns the value of the last Store completed before it began or *)
(* of any later one.                                                       *)
(***************************************************************************)
EXTENDS Integers, FiniteSets

CONSTANTS Sources,     \* SoundSource objects
          Handles,     \* the IPLSources iplSourceCreate may return, each once
          NoHandle,    \* nullptr
          Grace,       \* frames a retired handle is kept, 2 in the code
          MaxSources,  \* Settings().maxNumSources
          MaxFrames    \* bound on framesRendered

ASSUME HandleAssumption ==
  /\ NoHandle \notin Handles
  /\ Grace \in Nat \ {0}
  /\ MaxSources \in Nat /\ MaxFrames \in Nat

Snapshots == [handle : Handles \cup {NoHandle}, ready : BOOLEAN]
Cleared == [handle |-> NoHandle, ready |-> FALSE]

VARIABLES
  created,    \* handles iplSourceCreate has returned
  simulated,  \* handles the simulator has produced outputs for
  refs,       \* refs[h]: references held on the handle by this program
  source,     \* source[s]: Sim().source
  latest,     \* latest[s]: the snapshot of the last completed Store
  storing,    \* a Store is in progress on source `cur`
  pending,    \* the snapshot it stores
  deferred,   \* m_deferred
  spc, cur, mark,  \* the simulation thread: location, source, frame counter read
  frames,     \* framesRendered
  apc, asrc, seen, using  \* the audio thread: location, source, loadable snapshots, handle

handles == <<created, simulated, refs, source, deferred>>
register == <<latest, storing, pending>>
sim == <<spc, cur, mark>>
audio == <<frames, apc, asrc, seen, using>>
vars == <<handles, register, sim, audio>>

Init ==
  /\ created = {} /\ simulated = {} /\ refs = [h \in Handles |-> 0]
  /\ source = [s \in Sources |-> NoHandle] /\ deferred = {}
  /\ latest = [s \in Sources |-> Cleared] /\ storing = FALSE /\ pending = Cleared
  /\ spc = "tick" /\ cur \in Sources /\ mark = 0
  /\ frames = 0 /\ apc = "idle" /\ asrc \in Sources /\ seen = {} /\ using = NoHandle

-----------------------------------------------------------------------------
(* The simulation thread                                                    *)

\* The Store of snapshot p on source s begins: a Load in progress may return it.
BeginStore(s, p) ==
  /\ storing' = TRUE /\ pending' = p /\ cur' = s
  /\ seen' = IF apc = "load" /\ asrc = s THEN seen \cup {p} ELSE seen

Occupied == {s \in Sources : source[s] # NoHandle}

\* Simulator::CreateSource: one reference for each thread, published not ready.
CreateSource(s) ==
  /\ spc = "tick" /\ source[s] = NoHandle /\ Cardinality(Occupied) < MaxSources
  /\ \E h \in Handles \ created :
       /\ created' = created \cup {h} /\ refs' = [refs EXCEPT ![h] = 2]
       /\ source' = [source EXCEPT ![s] = h]
       /\ BeginStore(s, [handle |-> h, ready |-> FALSE])
  /\ spc' = "publish"
  /\ UNCHANGED <<simulated, deferred, latest, mark, frames, apc, asrc, using>>

\* The tick ran the simulator for this source and publishes the readiness.
MarkSimulationReady(s) ==
  /\ spc = "tick" /\ source[s] # NoHandle
  /\ simulated' = simulated \cup {source[s]}
  /\ BeginStore(s, [latest[s] EXCEPT !.ready = TRUE])
  /\ spc' = "publish"
  /\ UNCHANGED <<created, refs, source, deferred, latest, mark, frames, apc, asrc, using>>

\* Simulator::DestroySource up to its first Store.
DestroySource(s) ==
  /\ spc \in {"tick", "stopping"} /\ source[s] # NoHandle
  /\ BeginStore(s, Cleared)
  /\ spc' = IF spc = "tick" THEN "retire" ELSE "retireLast"
  /\ UNCHANGED <<handles, latest, mark, frames, apc, asrc, using>>

EndStore ==
  /\ storing /\ storing' = FALSE
  /\ latest' = [latest EXCEPT ![cur] = pending]
  /\ spc' = IF spc = "publish" THEN "tick" ELSE spc
  /\ UNCHANGED <<handles, pending, cur, mark, audio>>

\* Mutant: the counter is noted while the old snapshot is still published.
NoteFrameEarly ==
  /\ spc \in {"retire", "retireLast"} /\ storing
  /\ mark' = frames /\ spc' = IF spc = "retire" THEN "defer" ELSE "deferLast"
  /\ UNCHANGED <<handles, register, cur, audio>>

\* DestroySource notes the frame counter once the empty snapshot is published.
NoteFrame ==
  /\ spc \in {"retire", "retireLast"} /\ ~storing
  /\ mark' = frames /\ spc' = IF spc = "retire" THEN "defer" ELSE "deferLast"
  /\ UNCHANGED <<handles, register, cur, audio>>

\* It queues the audio thread's reference and releases its own.
Defer ==
  /\ spc \in {"defer", "deferLast"}
  /\ LET h == source[cur] IN
       /\ deferred' = deferred \cup {[handle |-> h, retiredAt |-> mark]}
       /\ refs' = [refs EXCEPT ![h] = @ - 1]
  /\ source' = [source EXCEPT ![cur] = NoHandle]
  /\ spc' = IF spc = "defer" THEN "tick" ELSE "stopping"
  /\ UNCHANGED <<created, simulated, register, cur, mark, audio>>

\* Simulator::ProcessDeferredReleases reads the counter, then releases.
ReadCounter ==
  /\ spc = "tick" /\ deferred # {} /\ mark' = frames /\ spc' = "release"
  /\ UNCHANGED <<handles, register, cur, audio>>

\* Mutants: no grace period; a comparison for equality.
MaturedAtOnce(d, now) == now >= d.retiredAt
MaturedExactly(d, now) == now = d.retiredAt + Grace

Matured(d, now) == now >= d.retiredAt + Grace

Release(due) ==
  /\ deferred' = deferred \ due
  /\ refs' = [h \in Handles |-> IF \E d \in due : d.handle = h THEN refs[h] - 1 ELSE refs[h]]

ProcessDeferredReleases ==
  /\ spc = "release" /\ spc' = "tick"
  /\ Release({d \in deferred : Matured(d, mark)})
  /\ UNCHANGED <<created, simulated, source, register, cur, mark, audio>>

\* AudioEngine::StopThreads joins the audio thread first; then the simulation
\* thread retires every source and releases whatever the frame counter says.
BeginStop ==
  /\ spc = "tick" /\ apc = "stopped" /\ spc' = "stopping"
  /\ UNCHANGED <<handles, register, cur, mark, audio>>

\* Mutant: the last release pass is not forced.
DestroyUnforced ==
  /\ spc = "stopping" /\ Occupied = {} /\ spc' = "stopped"
  /\ Release({d \in deferred : Matured(d, frames)})
  /\ UNCHANGED <<created, simulated, source, register, cur, mark, audio>>

DestroyAllSources ==
  /\ spc = "stopping" /\ Occupied = {} /\ spc' = "stopped"
  /\ Release(deferred)
  /\ UNCHANGED <<created, simulated, source, register, cur, mark, audio>>

-----------------------------------------------------------------------------
(* The audio thread                                                         *)

BeginFrame ==
  /\ apc = "idle" /\ frames < MaxFrames /\ apc' = "frame"
  /\ UNCHANGED <<handles, register, sim, frames, asrc, seen, using>>

\* RenderSource: LoadAudioSimulation begins, returns a snapshot, and the outputs
\* of a ready handle are read.
BeginLoad(s) ==
  /\ apc = "frame" /\ apc' = "load" /\ asrc' = s
  /\ seen' = {latest[s]} \cup (IF storing /\ cur = s THEN {pending} ELSE {})
  /\ UNCHANGED <<handles, register, sim, frames, using>>

\* Mutant: the outputs are read whether ready or not.
EndLoadUnready ==
  /\ apc = "load"
  /\ \E p \in seen :
       /\ using' = p.handle
       /\ apc' = IF p.handle # NoHandle THEN "outputs" ELSE "frame"
  /\ seen' = {}
  /\ UNCHANGED <<handles, register, sim, frames, asrc>>

EndLoad ==
  /\ apc = "load"
  /\ \E p \in seen :
       /\ using' = IF p.ready THEN p.handle ELSE NoHandle
       /\ apc' = IF p.handle # NoHandle /\ p.ready THEN "outputs" ELSE "frame"
  /\ seen' = {}
  /\ UNCHANGED <<handles, register, sim, frames, asrc>>

GetOutputs ==
  /\ apc = "outputs" /\ apc' = "frame" /\ using' = NoHandle
  /\ UNCHANGED <<handles, register, sim, frames, asrc, seen>>

EndFrame ==
  /\ apc = "frame" /\ apc' = "idle" /\ frames' = frames + 1
  /\ UNCHANGED <<handles, register, sim, asrc, seen, using>>

StopAudio ==
  /\ apc = "idle" /\ apc' = "stopped"
  /\ UNCHANGED <<handles, register, sim, frames, asrc, seen, using>>

-----------------------------------------------------------------------------
ReleaseStep ==
  EndStore \/ NoteFrame \/ Defer \/ ReadCounter \/ ProcessDeferredReleases

SimStep ==
  \/ \E s \in Sources : CreateSource(s) \/ MarkSimulationReady(s) \/ DestroySource(s)
  \/ ReleaseStep \/ BeginStop \/ DestroyAllSources

AudioStep == BeginFrame \/ EndLoad \/ GetOutputs \/ EndFrame

Next == SimStep \/ AudioStep \/ (\E s \in Sources : BeginLoad(s)) \/ StopAudio

Spec == Init /\ [][Next]_vars

\* Every frame and every tick ends, and each tick ends with a release pass.
Fairness ==
  /\ WF_vars(BeginFrame) /\ WF_vars(EndLoad \/ GetOutputs) /\ SF_vars(EndFrame)
  /\ WF_vars(EndStore) /\ WF_vars(NoteFrame) /\ WF_vars(Defer)
  /\ SF_vars(ReadCounter) /\ WF_vars(ProcessDeferredReleases)
  /\ SF_vars(BeginStop) /\ WF_vars(DestroyAllSources)
  /\ WF_vars(\E s \in Sources : spc = "stopping" /\ DestroySource(s))

FairSpec == Spec /\ Fairness

-----------------------------------------------------------------------------
(* Properties                                                               *)

Live(h) == refs[h] > 0
Owned(h) == \E s \in Sources : source[s] = h
Held == (({p.handle : p \in seen} \cup {using}) \ {NoHandle})
Retiring == {"retire", "retireLast", "defer", "deferLast"}
Stopping == {"stopping", "retireLast", "deferLast", "stopped"}

TypeOK ==
  /\ created \in SUBSET Handles /\ simulated \in SUBSET Handles
  /\ refs \in [Handles -> Int]
  /\ source \in [Sources -> Handles \cup {NoHandle}]
  /\ latest \in [Sources -> Snapshots] /\ storing \in BOOLEAN /\ pending \in Snapshots
  /\ deferred \in SUBSET [handle : Handles, retiredAt : Nat]
  /\ spc \in {"tick", "publish", "release"} \cup Retiring \cup Stopping
  /\ cur \in Sources /\ mark \in Nat
  /\ frames \in Nat /\ apc \in {"idle", "frame", "load", "outputs", "stopped"}
  /\ asrc \in Sources /\ seen \in SUBSET Snapshots /\ using \in Handles \cup {NoHandle}

\* A handle the audio thread reads outputs from, may yet get from a Load in
\* progress or would find published is alive: the frame counter, read after the
\* empty snapshot is published, outlives every frame that saw the old one.
NoUseAfterRelease ==
  /\ \A h \in Held : Live(h)
  /\ \A s \in Sources : latest[s].handle # NoHandle => Live(latest[s].handle)

\* The audio thread reads outputs only of a handle the simulator has run,
\* although handle and readiness are published by different Stores.
OutputsAreSimulated == using # NoHandle => using \in simulated

\* Two references while the simulation thread owns the handle, one while it
\* waits in m_deferred, none afterwards: no double release and no leak.
ReferencesBalance ==
  \A h \in Handles :
    refs[h] = IF Owned(h) THEN 2 ELSE IF \E d \in deferred : d.handle = h THEN 1 ELSE 0

\* After the threads have stopped every handle ever created is released.
NothingLeaks == spc = "stopped" => \A h \in Handles : ~Live(h)

\* A retired handle is released in the end, while frames keep being rendered
\* (the first conjunct keeps clear of the bound on the counter) or on Stop.
RetiredIsReleased ==
  \A h \in Handles :
    (\E d \in deferred : d.handle = h /\ d.retiredAt + Grace <= MaxFrames) ~> ~Live(h)

\* What every step preserves.
OwnerInv ==
  /\ \A s \in Sources : source[s] # NoHandle => source[s] \in created
  /\ \A s, t \in Sources : source[s] = source[t] /\ source[s] # NoHandle => s = t
  /\ \A d \in deferred : d.handle \in created /\ ~Owned(d.handle)
  /\ \A d, e \in deferred : d.handle = e.handle => d = e

PublishInv ==
  /\ \A s \in Sources : latest[s].handle \in {NoHandle, source[s]}
  /\ storing => pending.handle \in {NoHandle, source[cur]}
  /\ storing => spc \in {"publish", "retire", "retireLast"}
  /\ spc = "publish" => storing /\ pending.handle = source[cur]
  /\ \A s \in Sources :
       source[s] # NoHandle =>
         latest[s].handle = source[s] \/ (cur = s /\ spc \in Retiring \cup {"publish"})
  /\ spc \in Retiring => source[cur] # NoHandle
  /\ spc \in Retiring => IF storing THEN pending = Cleared ELSE latest[cur] = Cleared

HeldInv ==
  /\ apc # "load" => seen = {}
  /\ apc # "outputs" => using = NoHandle
  /\ \A h \in Held : Owned(h) \/ \E d \in deferred : d.handle = h /\ frames <= d.retiredAt
  /\ spc \in {"defer", "deferLast"} /\ source[cur] \in Held => frames <= mark
  /\ spc = "release" => mark <= frames
  /\ spc \in Stopping => apc = "stopped"
  /\ spc = "stopped" => Occupied = {} /\ deferred = {}

IsReady(p) == p.ready => p.handle \in simulated

ReadyInv ==
  /\ \A s \in Sources : IsReady(latest[s])
  /\ storing => IsReady(pending)
  /\ \A p \in seen : IsReady(p)
  /\ OutputsAreSimulated

IInv == TypeOK /\ OwnerInv /\ PublishInv /\ HeldInv /\ ReferencesBalance /\ ReadyInv
=============================================================================
