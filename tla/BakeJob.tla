------------------------------ MODULE BakeJob ------------------------------
(***************************************************************************)
(* The probe bake of ReflectionSimulator: the worker thread that generates *)
(* probes, bakes reverb, saves the cache, waits for the pathing decision   *)
(* and bakes pathing; the watchdog beside it; and the calls by which the   *)
(* simulation thread starts, polls and cancels it.  The calls that a       *)
(* caller composes into its own step are operators that give the next      *)
(* value of every variable of the job.  Locks, progress numbers and log    *)
(* lines are left out: m_status keeps the phase, the one field that is     *)
(* read back.                                                              *)
(***************************************************************************)
EXTENDS Integers

CONSTANTS Maps,   \* maps that can be baked (a bake fingerprint stands for its map)
          NoMap   \* no geometry

ASSUME MapsAssumption == NoMap \notin Maps

VARIABLES
  bakePc,             \* where BakeThreadMain is; "exited" when there is no thread
  m_activeJob,        \* the bake not yet collected by PollBake, or NoJob
  m_bakeRunning,
  m_bakeDone,
  m_bakeCancel,
  m_pathingDecision,  \* 0 undecided, 1 bake pathing, -1 skip it
  m_status,           \* the published phase
  m_probeBatch,       \* the batch attached to the simulator, or NoBatch
  cache               \* per map, what is in its cache file

jobVars == <<bakePc, m_activeJob, m_bakeRunning, m_bakeDone, m_bakeCancel,
             m_pathingDecision, m_status, m_probeBatch>>
bakeVars == <<jobVars, cache>>

Complete == {"reflections", "pathing"}   \* layers of a batch: reverb, or reverb and paths
NoJob == [map |-> NoMap, extraStep |-> FALSE, succeeded |-> FALSE, pathingBaked |-> FALSE]
NoBatch == [map |-> NoMap, layers |-> "none"]
Jobs == [map : Maps, extraStep : BOOLEAN, succeeded : BOOLEAN, pathingBaked : BOOLEAN]
Batches == [map : Maps, layers : Complete]
Phases == {"Idle", "Preparing", "Probes", "Reflections", "AwaitingPathing", "Pathing",
           "Saving", "Ready", "Cancelled", "Failed"}
BakePcs == {"exited", "scene", "probes", "reflections", "save", "rename", "await",
            "decided", "pathing", "finish", "finishFailed", "done", "running"}

BakeTypeOK ==
  /\ bakePc \in BakePcs
  /\ m_activeJob \in Jobs \union {NoJob}
  /\ m_bakeRunning \in BOOLEAN /\ m_bakeDone \in BOOLEAN /\ m_bakeCancel \in BOOLEAN
  /\ m_pathingDecision \in {-1, 0, 1}
  /\ m_status \in Phases
  /\ m_probeBatch \in Batches \union {NoBatch}
  /\ cache \in [Maps -> Complete \union {"none", "torn"}]

\* A thread that runs has its job until it has said that it is done, and a job
\* outlives its thread only to be collected.
JobOrder ==
  /\ m_bakeRunning <=> bakePc # "exited"
  /\ bakePc # "exited" => m_activeJob # NoJob
  /\ bakePc = "running" => m_bakeDone
  /\ m_activeJob # NoJob => m_bakeRunning \/ m_bakeDone

\* A process with no bake.  The files outlive the process.
JobInit ==
  /\ bakePc = "exited" /\ m_activeJob = NoJob
  /\ m_bakeRunning = FALSE /\ m_bakeDone = FALSE /\ m_bakeCancel = FALSE
  /\ m_pathingDecision = 0 /\ m_status = "Idle" /\ m_probeBatch = NoBatch

Layers(job) == IF job.pathingBaked THEN "pathing" ELSE "reflections"

-----------------------------------------------------------------------------
(* Calls made on the simulation thread. *)

BakeInProgress == m_bakeRunning

\* StartBake for the geometry of `map`.  Another thread reads what it stores
\* only once m_bakeRunning is set, its last store, so it is one step.
StartBakeAccepts(map) == map # NoMap /\ ~m_bakeRunning

StartBake(map, extraStep) ==
  /\ StartBakeAccepts(map)
  /\ m_activeJob' = [NoJob EXCEPT !.map = map, !.extraStep = extraStep]
  /\ m_status' = "Preparing"
  /\ m_pathingDecision' = 0
  /\ m_bakeCancel' = FALSE
  /\ m_bakeDone' = FALSE
  /\ m_bakeRunning' = TRUE
  /\ bakePc' = "scene"
  /\ UNCHANGED <<m_probeBatch, cache>>

\* CancelBake on the thread that also starts bakes: no bake can begin between
\* its test and its store.
CancelBake ==
  /\ m_bakeCancel' = (m_bakeCancel \/ m_bakeRunning)
  /\ UNCHANGED <<bakePc, m_activeJob, m_bakeRunning, m_bakeDone, m_pathingDecision, m_status,
                 m_probeBatch, cache>>

\* PollBake collects a finished job; it joins the thread, so it waits for its
\* last store.  CollectedBatch is what it leaves attached.
BakeIsDone == m_activeJob # NoJob /\ m_bakeDone
CollectedBatch ==
  IF BakeIsDone /\ m_activeJob.succeeded
  THEN [map |-> m_activeJob.map, layers |-> Layers(m_activeJob)] ELSE m_probeBatch

PollBake ==
  /\ BakeIsDone => bakePc = "exited"
  /\ m_activeJob' = IF BakeIsDone THEN NoJob ELSE m_activeJob
  /\ m_bakeDone' = (m_bakeDone /\ ~BakeIsDone)
  /\ m_probeBatch' = CollectedBatch
  /\ UNCHANGED <<bakePc, m_bakeRunning, m_bakeCancel, m_pathingDecision, m_status, cache>>

\* PollBake, ClearProbes and LoadCachedBake(map), in that order, once no bake
\* runs: what SetMap and ClearGeometry do.  A torn file does not load.
CachedBatch(map) ==
  IF map \in Maps /\ cache[map] \in Complete THEN [map |-> map, layers |-> cache[map]] ELSE NoBatch

\* Mutant: the finished job is not collected first.
ReplaceUncollected(map, useBakedReverb) ==
  /\ m_probeBatch' = IF useBakedReverb THEN CachedBatch(map) ELSE NoBatch
  /\ UNCHANGED <<m_activeJob, m_bakeDone, m_status, bakePc, m_bakeRunning, m_bakeCancel,
                 m_pathingDecision, cache>>

ReplaceProbes(map, useBakedReverb) ==
  /\ m_activeJob' = IF BakeIsDone THEN NoJob ELSE m_activeJob
  /\ m_bakeDone' = (m_bakeDone /\ ~BakeIsDone)
  /\ m_probeBatch' = IF useBakedReverb THEN CachedBatch(map) ELSE NoBatch
  /\ m_status' = IF useBakedReverb /\ CachedBatch(map) # NoBatch THEN "Ready" ELSE m_status
  /\ UNCHANGED <<bakePc, m_bakeRunning, m_bakeCancel, m_pathingDecision, cache>>

-----------------------------------------------------------------------------
(* Calls made on the game thread, split where another thread can come between. *)

CancelStore ==   \* CancelBake after its test of m_bakeRunning
  /\ m_bakeCancel' = TRUE
  /\ UNCHANGED <<bakePc, m_activeJob, m_bakeRunning, m_bakeDone, m_pathingDecision, m_status,
                 m_probeBatch, cache>>

MayContinuePathing == m_bakeRunning /\ m_status = "AwaitingPathing"

DecidePathing(enabled) ==   \* ContinuePathing after its test of the status
  /\ m_pathingDecision' = IF enabled THEN 1 ELSE -1
  /\ UNCHANGED <<bakePc, m_activeJob, m_bakeRunning, m_bakeDone, m_bakeCancel, m_status,
                 m_probeBatch, cache>>

-----------------------------------------------------------------------------
(* The bake thread. *)

Goto(from, to) == bakePc = from /\ bakePc' = to
KeepFlags == UNCHANGED <<m_bakeRunning, m_bakeDone, m_bakeCancel, m_pathingDecision, m_probeBatch>>

\* The bake scene is built from the job's own geometry; each brush model looks
\* at the cancel flag.
BuildScene ==
  /\ \/ Goto("scene", "probes") /\ m_status' = "Probes"
     \/ Goto("scene", "finishFailed") /\ UNCHANGED m_status    \* a failure, or cancelled
  /\ KeepFlags /\ UNCHANGED <<m_activeJob, cache>>

GenerateProbes ==
  /\ \/ ~m_bakeCancel /\ Goto("probes", "reflections") /\ m_status' = "Reflections"
     \/ Goto("probes", "finishFailed") /\ UNCHANGED m_status   \* no probes, or cancelled
  /\ KeepFlags /\ UNCHANGED <<m_activeJob, cache>>

BakeReflections ==
  /\ \/ /\ ~m_bakeCancel
        /\ Goto("reflections", "save")
        /\ m_activeJob' = [m_activeJob EXCEPT !.succeeded = TRUE]
        /\ m_status' = "Saving"
     \/ /\ Goto("reflections", "finishFailed")                 \* no data, or cancelled
        /\ UNCHANGED <<m_activeJob, m_status>>
  /\ KeepFlags /\ UNCHANGED cache

\* SaveBatch writes a temporary file, which a crash may leave torn and nothing
\* reads, then renames it over the cache.  After the first save comes the
\* pathing question.
AfterSave(from) ==
  \E to \in {"await", "finish"} :
    /\ Goto(from, to)
    /\ IF m_activeJob.extraStep /\ ~m_activeJob.pathingBaked
       THEN to = "await" /\ m_status' = "AwaitingPathing"
       ELSE to = "finish" /\ UNCHANGED m_status

\* Mutant: the batch is written over the cache file.
WriteInPlace ==
  /\ Goto("save", "rename") /\ cache' = [cache EXCEPT ![m_activeJob.map] = "torn"]
  /\ KeepFlags /\ UNCHANGED <<m_activeJob, m_status>>

WriteTemporary ==
  /\ \/ Goto("save", "rename") /\ UNCHANGED m_status
     \/ AfterSave("save")                                      \* the write failed
  /\ KeepFlags /\ UNCHANGED <<m_activeJob, cache>>

RenameTemporary ==
  /\ AfterSave("rename")
  /\ \/ cache' = [cache EXCEPT ![m_activeJob.map] = Layers(m_activeJob)]
     \/ UNCHANGED cache                                        \* the rename failed
  /\ KeepFlags /\ UNCHANGED m_activeJob

\* Mutant: a cancel does not end the wait.
AwaitAnswer ==
  /\ m_pathingDecision # 0
  /\ Goto("await", "decided")
  /\ KeepFlags /\ UNCHANGED <<m_activeJob, m_status, cache>>

AwaitDecision ==
  /\ m_pathingDecision # 0 \/ m_bakeCancel
  /\ Goto("await", "decided")
  /\ KeepFlags /\ UNCHANGED <<m_activeJob, m_status, cache>>

\* The two flags are read again outside the mutex; the memory budget may then
\* refuse the step.
BeginPathing ==
  /\ \/ /\ ~m_bakeCancel /\ m_pathingDecision > 0
        /\ Goto("decided", "pathing") /\ m_status' = "Pathing"
     \/ Goto("decided", "finish") /\ UNCHANGED m_status        \* skipped, cancelled or refused
  /\ m_bakeCancel \/ m_pathingDecision # 0
  /\ KeepFlags /\ UNCHANGED <<m_activeJob, cache>>

\* The memory watchdog, which lives as long as the pathing step.
MemoryGuardTrips ==
  /\ bakePc = "pathing" /\ ~m_bakeCancel
  /\ m_bakeCancel' = TRUE
  /\ UNCHANGED <<bakePc, m_activeJob, m_bakeRunning, m_bakeDone, m_pathingDecision, m_status,
                 m_probeBatch, cache>>

BakePathing ==
  /\ \/ /\ ~m_bakeCancel
        /\ Goto("pathing", "save")
        /\ m_activeJob' = [m_activeJob EXCEPT !.pathingBaked = TRUE]
        /\ m_status' = "Saving"
     \/ /\ Goto("pathing", "finish")                           \* no data, failed or cancelled
        /\ UNCHANGED <<m_activeJob, m_status>>
  /\ KeepFlags /\ UNCHANGED cache

\* FinishBake publishes the outcome, then the two flags in this order.
FinishStatus ==
  /\ \/ Goto("finish", "done") /\ m_status' = "Ready"
     \/ /\ Goto("finishFailed", "done")
        /\ m_status' = IF m_bakeCancel THEN "Cancelled" ELSE "Failed"
  /\ KeepFlags /\ UNCHANGED <<m_activeJob, cache>>

FinishDone ==
  /\ Goto("done", "running")
  /\ m_bakeDone' = TRUE
  /\ UNCHANGED <<m_activeJob, m_bakeRunning, m_bakeCancel, m_pathingDecision, m_status,
                 m_probeBatch, cache>>

FinishRunning ==
  /\ Goto("running", "exited")
  /\ m_bakeRunning' = FALSE
  /\ UNCHANGED <<m_activeJob, m_bakeDone, m_bakeCancel, m_pathingDecision, m_status,
                 m_probeBatch, cache>>

BakeThread ==
  \/ BuildScene \/ GenerateProbes \/ BakeReflections
  \/ WriteTemporary \/ RenameTemporary
  \/ AwaitDecision \/ BeginPathing \/ BakePathing
  \/ FinishStatus \/ FinishDone \/ FinishRunning
=============================================================================
