------------------------ MODULE SimulationCommands ------------------------
(***************************************************************************)
(* The commands the game thread gives the simulation thread about the map, *)
(* its geometry and its bake: AudioEngine's calls, SimulationThread's      *)
(* queue, command handler, tick and teardown, composed with the bake they  *)
(* drive (BakeJob).  A call of the game thread is the sequence of its      *)
(* steps that another thread can come between; the simulation thread is a  *)
(* program counter over the parts of Run and Tick.  Sources, listeners and *)
(* simulation passes belong to other modules.                              *)
(***************************************************************************)
EXTENDS BakeJob, Sequences

CONSTANTS
  BakeOnMapLoad,   \* runtime.bakeOnMapLoad
  UseBakedReverb,  \* runtime.useBakedReverb
  QueueCapacity,   \* m_commands holds 1024 in the code
  MaxCalls,        \* bound on the calls the game thread makes
  MaxCrashes       \* bound on the crashes of the process

ASSUME CommandsAssumption ==
  /\ BakeOnMapLoad \in BOOLEAN /\ UseBakedReverb \in BOOLEAN
  /\ QueueCapacity \in Nat \ {0} /\ MaxCalls \in Nat /\ MaxCrashes \in Nat

VARIABLES
  m_running, m_commands, m_pendingCommands, m_cancelBakeRequested,   \* shared
  simPc, stopping, cmd,                        \* simulation thread: location, command in hand
  m_mapGeometry, m_bakeRequested, m_bakeForce, m_bakeAttempted,
  m_sceneDirty, commitDue,                     \* the scene has changes; m_nextGeometryCommit is past
  todo, m_geometry, m_geometryPending,         \* game thread: the rest of its call, the engine's map
  calls, crashes                               \* counted against the bounds

sharedVars == <<m_running, m_commands, m_pendingCommands, m_cancelBakeRequested>>
requestVars == <<m_bakeRequested, m_bakeForce, m_bakeAttempted>>
sceneVars == <<m_sceneDirty, commitDue>>
simVars == <<simPc, stopping, cmd, m_mapGeometry, requestVars, sceneVars>>
gameVars == <<todo, m_geometry, m_geometryPending, calls>>
vars == <<bakeVars, sharedVars, simVars, gameVars, crashes>>

NoCommand == [type |-> "none", map |-> NoMap, flag |-> FALSE]
SetMap(map) == [type |-> "SetMap", map |-> map, flag |-> FALSE]
ClearGeometry == [type |-> "ClearGeometry", map |-> NoMap, flag |-> FALSE]
Bake(force) == [type |-> "Bake", map |-> NoMap, flag |-> force]
Edit == [type |-> "Edit", map |-> NoMap, flag |-> FALSE]            \* AddStatic, AddDynamic, RemoveDynamic
UpdateDynamic == [type |-> "UpdateDynamic", map |-> NoMap, flag |-> FALSE]
Commands == {SetMap(m) : m \in Maps} \union {ClearGeometry, Edit, UpdateDynamic}
              \union {Bake(f) : f \in BOOLEAN}

\* What a process starts with: SimulationThread::Start, an engine without a map.
ProcessInit ==
  /\ JobInit
  /\ m_running = TRUE /\ m_commands = <<>> /\ m_pendingCommands = 0
  /\ m_cancelBakeRequested = FALSE
  /\ simPc = "loop" /\ stopping = FALSE /\ cmd = NoCommand
  /\ m_mapGeometry = NoMap
  /\ m_bakeRequested = FALSE /\ m_bakeForce = FALSE /\ m_bakeAttempted = FALSE
  /\ m_sceneDirty = FALSE /\ commitDue = TRUE
  /\ todo = <<>> /\ m_geometry = NoMap /\ m_geometryPending = FALSE

Init ==
  /\ ProcessInit
  /\ cache = [m \in Maps |-> "none"]
  /\ calls = 0 /\ crashes = 0

-----------------------------------------------------------------------------
(* Game thread *)

Step(op, c) == [op |-> op, cmd |-> c]
\* Mutant: a command is counted after it is pushed.
PushThenCount(c) == <<Step("push", c), Step("count", c)>>
QueueCommand(c) == <<Step("count", c), Step("push", c)>>
CancelSteps == <<Step("flag", NoCommand), Step("test", NoCommand), Step("store", NoCommand)>>

Call(steps) ==
  /\ m_running /\ todo = <<>> /\ todo' = steps
  /\ calls < MaxCalls /\ calls' = calls + 1
  /\ UNCHANGED <<bakeVars, sharedVars, simVars, crashes>>

\* LoadMap: UnloadMap, then ApplyBsp.
LoadMap(map) ==
  /\ Call(CancelSteps \o QueueCommand(ClearGeometry) \o QueueCommand(SetMap(map))
            \o IF BakeOnMapLoad /\ UseBakedReverb THEN QueueCommand(Bake(FALSE)) ELSE <<>>)
  /\ m_geometry' = map /\ m_geometryPending' = FALSE

UnloadMap ==
  /\ Call(CancelSteps \o QueueCommand(ClearGeometry))
  /\ m_geometry' = NoMap /\ m_geometryPending' = FALSE

RequestBake(force) ==
  /\ m_geometry # NoMap /\ Call(QueueCommand(Bake(force)))
  /\ UNCHANGED <<m_geometry, m_geometryPending>>

RequestCancel ==   \* AudioEngine::CancelBake
  /\ Call(CancelSteps)
  /\ UNCHANGED <<m_geometry, m_geometryPending>>

ContinuePathing(enabled) ==   \* not counted: it has an effect once per bake
  /\ MayContinuePathing /\ m_running /\ todo = <<>>
  /\ todo' = <<Step("decide", Bake(enabled))>>
  /\ UNCHANGED <<bakeVars, sharedVars, simVars, m_geometry, m_geometryPending, calls, crashes>>

ChangeGeometry(c) ==   \* UpdateDynamicOccluders and the geometry calls of the Lua API
  /\ c = UpdateDynamic => m_geometry # NoMap /\ ~m_geometryPending
  /\ Call(QueueCommand(c))
  /\ UNCHANGED <<m_geometry, m_geometryPending>>

\* AudioEngine::Tick hands over a map the queue had no room for.
RetryGeometry ==
  /\ m_geometryPending /\ m_running /\ todo = <<>>
  /\ todo' = QueueCommand(IF m_geometry = NoMap THEN ClearGeometry ELSE SetMap(m_geometry))
  /\ UNCHANGED <<bakeVars, sharedVars, simVars, m_geometry, m_geometryPending, calls, crashes>>

Stop ==
  /\ m_running /\ todo = <<>> /\ calls < MaxCalls
  /\ m_running' = FALSE
  /\ UNCHANGED <<bakeVars, m_commands, m_pendingCommands, m_cancelBakeRequested, simVars, gameVars, crashes>>

Doing(op) == todo # <<>> /\ Head(todo).op = op
Did == todo' = Tail(todo)
KeepGame == UNCHANGED <<simVars, m_geometry, calls, crashes>>

SetCancelFlag ==
  /\ Doing("flag") /\ Did /\ m_cancelBakeRequested' = TRUE
  /\ KeepGame /\ UNCHANGED <<bakeVars, m_running, m_commands, m_pendingCommands, m_geometryPending>>

TestBakeRunning ==
  /\ Doing("test") /\ todo' = IF m_bakeRunning THEN Tail(todo) ELSE Tail(Tail(todo))
  /\ KeepGame /\ UNCHANGED <<bakeVars, sharedVars, m_geometryPending>>

StoreBakeCancel ==
  /\ Doing("store") /\ Did /\ CancelStore
  /\ KeepGame /\ UNCHANGED <<sharedVars, m_geometryPending>>

StoreDecision ==
  /\ Doing("decide") /\ Did /\ DecidePathing(Head(todo).cmd.flag)
  /\ KeepGame /\ UNCHANGED <<sharedVars, m_geometryPending>>

\* QueueCommand counts the command before it pushes it; its mutex does not
\* keep the consumer away.
CountPending ==
  /\ Doing("count") /\ Did /\ m_pendingCommands' = m_pendingCommands + 1
  /\ KeepGame /\ UNCHANGED <<bakeVars, m_running, m_commands, m_cancelBakeRequested, m_geometryPending>>

\* A map that finds no room is kept for RetryGeometry, and its bake is not asked for.
PushCommand ==
  LET c == Head(todo).cmd
      full == Len(m_commands) = QueueCapacity
  IN /\ Doing("push")
     /\ m_commands' = IF full THEN m_commands ELSE Append(m_commands, c)
     /\ m_pendingCommands' = IF full THEN m_pendingCommands - 1 ELSE m_pendingCommands
     /\ todo' = IF full /\ c.type = "SetMap" THEN <<>> ELSE Tail(todo)
     /\ m_geometryPending' =
          IF c.type \in {"SetMap", "ClearGeometry"} THEN full ELSE m_geometryPending
     /\ KeepGame /\ UNCHANGED <<bakeVars, m_running, m_cancelBakeRequested>>

GameStep ==
  \/ SetCancelFlag \/ TestBakeRunning \/ StoreBakeCancel \/ StoreDecision
  \/ CountPending \/ PushCommand \/ RetryGeometry
GameCall ==
  \/ \E m \in Maps : LoadMap(m)
  \/ \E b \in BOOLEAN : RequestBake(b) \/ ContinuePathing(b)
  \/ \E c \in {Edit, UpdateDynamic} : ChangeGeometry(c)
  \/ UnloadMap \/ RequestCancel \/ Stop

-----------------------------------------------------------------------------
(* Simulation thread *)

SimGoto(from, to) == simPc = from /\ simPc' = to
KeepSim == UNCHANGED <<gameVars, crashes>>

\* Run: the waits before a tick are timed, so a tick can begin at any time.
BeginTick ==
  /\ m_running /\ SimGoto("loop", "drain")
  /\ KeepSim /\ UNCHANGED <<bakeVars, sharedVars, stopping, cmd, m_mapGeometry, requestVars, sceneVars>>

PopCommand ==
  /\ SimGoto("drain", "handle") /\ m_commands # <<>>
  /\ cmd' = Head(m_commands) /\ m_commands' = Tail(m_commands)
  /\ m_pendingCommands' = m_pendingCommands - 1
  /\ KeepSim /\ UNCHANGED <<bakeVars, m_running, m_cancelBakeRequested, stopping, m_mapGeometry,
                            requestVars, sceneVars>>

HandleBake ==
  /\ cmd.type = "Bake" /\ SimGoto("handle", "drain")
  /\ m_bakeRequested' = TRUE /\ m_bakeForce' = cmd.flag
  /\ cmd' = NoCommand
  /\ KeepSim /\ UNCHANGED <<bakeVars, sharedVars, stopping, m_mapGeometry, m_bakeAttempted, sceneVars>>

\* A change of an object the scene holds; a moved one waits its turn.
HandleGeometry ==
  /\ cmd.type \in {"Edit", "UpdateDynamic"} /\ SimGoto("handle", "drain")
  /\ m_sceneDirty' = (m_sceneDirty \/ cmd.type = "Edit" \/ m_mapGeometry # NoMap)
  /\ commitDue' = (commitDue \/ cmd.type = "Edit")
  /\ cmd' = NoCommand
  /\ KeepSim /\ UNCHANGED <<bakeVars, sharedVars, stopping, m_mapGeometry, requestVars>>

\* SetMap and ClearGeometry cancel the bake and wait for it to end.
CancelForMap ==
  /\ cmd.type \in {"SetMap", "ClearGeometry"} /\ SimGoto("handle", "waitMap") /\ CancelBake
  /\ KeepSim /\ UNCHANGED <<sharedVars, stopping, cmd, m_mapGeometry, requestVars, sceneVars>>

ReplaceMap ==
  /\ ~BakeInProgress /\ SimGoto("waitMap", "drain")
  /\ ReplaceProbes(cmd.map, UseBakedReverb)
  /\ m_mapGeometry' = cmd.map
  /\ IF cmd.type = "SetMap"
     THEN /\ m_bakeAttempted' = FALSE
          /\ IF UseBakedReverb /\ CachedBatch(cmd.map) = NoBatch /\ BakeOnMapLoad
             THEN m_bakeRequested' = TRUE /\ m_bakeForce' = FALSE
             ELSE UNCHANGED <<m_bakeRequested, m_bakeForce>>
     ELSE m_bakeRequested' = FALSE /\ UNCHANGED <<m_bakeForce, m_bakeAttempted>>
  /\ m_sceneDirty' = (m_sceneDirty \/ m_mapGeometry # NoMap \/ cmd.map # NoMap)
  /\ commitDue' = TRUE
  /\ cmd' = NoCommand
  /\ KeepSim /\ UNCHANGED <<sharedVars, stopping>>

\* The end of DrainCommands, in a tick or in Run's teardown.
EndDrain ==
  /\ m_commands = <<>> /\ SimGoto("drain", IF stopping THEN "exited" ELSE "flag")
  /\ KeepSim /\ UNCHANGED <<bakeVars, sharedVars, stopping, cmd, m_mapGeometry, requestVars, sceneVars>>

TakeCancelFlag ==
  /\ SimGoto("flag", "poll")
  /\ IF m_cancelBakeRequested
     THEN m_bakeRequested' = FALSE /\ CancelBake
     ELSE UNCHANGED <<m_bakeRequested, bakeVars>>
  /\ m_cancelBakeRequested' = FALSE
  /\ KeepSim /\ UNCHANGED <<m_running, m_commands, m_pendingCommands, stopping, cmd, m_mapGeometry,
                            m_bakeForce, m_bakeAttempted, sceneVars>>

PollFinishedBake ==
  /\ SimGoto("poll", "commit") /\ PollBake
  /\ KeepSim /\ UNCHANGED <<sharedVars, stopping, cmd, m_mapGeometry, requestVars, sceneVars>>

\* The scene is committed at its own rate; then a bake that was asked for
\* starts, once, whether StartBakeForCurrentMap takes it or not.
CommitAndBake ==
  LET commits == m_sceneDirty /\ commitDue
      asked == m_bakeRequested /\ (~m_sceneDirty \/ commits) /\ m_mapGeometry # NoMap /\ ~BakeInProgress
      wanted == m_bakeForce \/ (~m_bakeAttempted /\ m_probeBatch = NoBatch)
  IN /\ SimGoto("commit", "loop")
     /\ m_sceneDirty' = (m_sceneDirty /\ ~commits)
     /\ commitDue' = (commitDue /\ ~commits)
     /\ m_bakeRequested' = (m_bakeRequested /\ ~asked)
     /\ IF asked /\ wanted
        THEN m_bakeAttempted' = TRUE /\ \E extraStep \in BOOLEAN : StartBake(m_mapGeometry, extraStep)
        ELSE UNCHANGED <<m_bakeAttempted, bakeVars>>
     /\ KeepSim /\ UNCHANGED <<sharedVars, stopping, cmd, m_mapGeometry, m_bakeForce>>

TimePasses ==
  /\ ~commitDue /\ commitDue' = TRUE
  /\ KeepSim /\ UNCHANGED <<bakeVars, sharedVars, simPc, stopping, cmd, m_mapGeometry, requestVars,
                            m_sceneDirty>>

\* Run after its loop: cancel, wait, collect, drain.
BeginTeardown ==
  /\ ~m_running /\ SimGoto("loop", "waitStop") /\ stopping' = TRUE /\ CancelBake
  /\ KeepSim /\ UNCHANGED <<sharedVars, cmd, m_mapGeometry, requestVars, sceneVars>>

EndTeardown ==
  /\ ~BakeInProgress /\ SimGoto("waitStop", "drain") /\ PollBake
  /\ KeepSim /\ UNCHANGED <<sharedVars, stopping, cmd, m_mapGeometry, requestVars, sceneVars>>

SimStep ==
  \/ BeginTick \/ PopCommand \/ HandleBake \/ HandleGeometry
  \/ CancelForMap \/ ReplaceMap \/ EndDrain \/ TakeCancelFlag \/ PollFinishedBake
  \/ CommitAndBake \/ BeginTeardown \/ EndTeardown

-----------------------------------------------------------------------------
BakeStep == BakeThread /\ UNCHANGED <<sharedVars, simVars, gameVars, crashes>>
Watchdog == MemoryGuardTrips /\ UNCHANGED <<sharedVars, simVars, gameVars, crashes>>

\* The process dies and starts anew; its files stay as they are.  Without a bake
\* no file is being written, and a crash is no more than an Init.
Crash ==
  /\ bakePc # "exited" /\ crashes < MaxCrashes /\ crashes' = crashes + 1
  /\ bakePc' = "exited" /\ m_activeJob' = NoJob
  /\ m_bakeRunning' = FALSE /\ m_bakeDone' = FALSE /\ m_bakeCancel' = FALSE
  /\ m_pathingDecision' = 0 /\ m_status' = "Idle" /\ m_probeBatch' = NoBatch
  /\ m_running' = TRUE /\ m_commands' = <<>> /\ m_pendingCommands' = 0
  /\ m_cancelBakeRequested' = FALSE
  /\ simPc' = "loop" /\ stopping' = FALSE /\ cmd' = NoCommand
  /\ m_mapGeometry' = NoMap
  /\ m_bakeRequested' = FALSE /\ m_bakeForce' = FALSE /\ m_bakeAttempted' = FALSE
  /\ m_sceneDirty' = FALSE /\ commitDue' = TRUE
  /\ todo' = <<>> /\ m_geometry' = NoMap /\ m_geometryPending' = FALSE
  /\ UNCHANGED <<calls, cache>>

Next == GameCall \/ GameStep \/ SimStep \/ TimePasses \/ BakeStep \/ Watchdog \/ Crash

Spec == Init /\ [][Next]_vars

\* The threads run, a call that has begun goes on, time passes and the Steam
\* Audio bakers return; no call has to be made and no bake has to be confirmed.
FairSpec ==
  Spec /\ WF_vars(GameStep) /\ WF_vars(SimStep) /\ WF_vars(BakeStep) /\ WF_vars(TimePasses)

-----------------------------------------------------------------------------
(* Properties *)

TypeOK ==
  /\ BakeTypeOK
  /\ m_running \in BOOLEAN /\ m_commands \in Seq(Commands) /\ Len(m_commands) <= QueueCapacity
  /\ m_pendingCommands \in Int /\ m_cancelBakeRequested \in BOOLEAN
  /\ simPc \in {"loop", "drain", "handle", "waitMap", "flag", "poll", "commit",
                "waitStop", "exited"}
  /\ stopping \in BOOLEAN /\ cmd \in Commands \union {NoCommand}
  /\ m_mapGeometry \in Maps \union {NoMap} /\ m_geometry \in Maps \union {NoMap}
  /\ {m_bakeRequested, m_bakeForce, m_bakeAttempted, m_sceneDirty, commitDue,
      m_geometryPending} \subseteq BOOLEAN
  /\ calls \in 0 .. MaxCalls /\ crashes \in 0 .. MaxCrashes

\* The bake in progress and the probes the simulator reads are of the map whose
\* geometry is in the scene: SetMap lets no bake of the map before outlive it.
ProbesAreOfThisMap ==
  /\ m_activeJob # NoJob => m_activeJob.map = m_mapGeometry
  /\ m_probeBatch # NoBatch => m_probeBatch.map = m_mapGeometry

\* The counter that wakes the thread covers the queue, and never goes below
\* zero: it is unsigned, and -1 would keep the thread from sleeping.
PendingCoversQueue == m_pendingCommands >= Len(m_commands)

\* A call counts each command right before it pushes it, and the test of a cancel
\* is followed by its store.
Steps == [op : {"flag", "test", "store", "decide", "count", "push"}, cmd : Commands \union {NoCommand}]
InOrder(s) ==
  /\ s \in Seq(Steps)
  /\ \A i \in 1 .. Len(s) : s[i].op \in {"count", "push"} => s[i].cmd \in Commands
  /\ \A i \in 1 .. Len(s) : s[i].op = "count" => i < Len(s) /\ s[i + 1].op = "push"
  /\ \A i \in 1 .. Len(s) : s[i].op = "test" => i < Len(s) /\ s[i + 1].op = "store"
  /\ \A i \in 2 .. Len(s) : s[i].op = "push" => s[i - 1].op = "count"

\* What is counted is in the queue or in the hand of the game thread.
PendingIsCounted == m_pendingCommands = Len(m_commands) + IF Doing("push") THEN 1 ELSE 0

\* The counter covers the queue and no bake or probe is of an earlier map, with
\* what every step preserves: the types, the order of a call's steps and of a
\* job's flags.
CommandsInv ==
  /\ TypeOK /\ JobOrder /\ InOrder(todo) /\ PendingIsCounted
  /\ PendingCoversQueue /\ ProbesAreOfThisMap

\* "Cache replacement is atomic" (README.md): whatever fails, and wherever the
\* process dies, a cache file is what it was or a complete batch.
CacheReplacementIsAtomic ==
  [][\A m \in Maps : cache'[m] = cache[m] \/ cache'[m] \in Complete]_vars

\* Once the game thread makes no more calls, all it asked for has been done: its
\* commands handled, the map handed over, the geometry committed, a cancel
\* obeyed, the simulation thread joined by Stop.  A bake that nobody cancels may
\* wait for the pathing decision for ever, and nothing may wait for it.
Settled ==
  /\ todo = <<>> /\ m_commands = <<>> /\ m_pendingCommands = 0
  /\ m_running => /\ ~m_geometryPending /\ ~m_sceneDirty /\ ~m_cancelBakeRequested
                  /\ m_bakeRequested => m_mapGeometry = NoMap \/ m_bakeRunning
  /\ ~m_running => simPc = "exited" /\ ~m_bakeRunning
  /\ simPc \notin {"waitMap", "waitStop"}
  /\ m_bakeRunning => bakePc = "await" /\ ~m_bakeCancel
SettlesDown == <>[]Settled

\* "bake probes in the background after map load" (README.md): when the
\* first call was a LoadMap, it has been carried out and nothing is left to do, the
\* map has probes or had its bake.
AtRest ==
  /\ m_running /\ simPc = "loop" /\ m_commands = <<>> /\ todo = <<>>
  /\ ~m_cancelBakeRequested /\ ~m_bakeRequested /\ ~m_geometryPending
BakesAfterMapLoad ==
  calls = 1 /\ m_geometry # NoMap /\ AtRest => m_bakeAttempted \/ m_probeBatch # NoBatch
=============================================================================
