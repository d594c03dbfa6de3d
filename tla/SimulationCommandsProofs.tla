---------------------- MODULE SimulationCommandsProofs ----------------------
(* Proofs about the commands of the simulation thread and the bake they drive, *)
(* for every set of maps, capacity of the queue and number of calls.           *)
EXTENDS SimulationCommands, TLAPS

-----------------------------------------------------------------------------
(* Commands and the steps of a call                                        *)

LEMMA CommandTypes ==
  /\ \A c \in Commands \union {NoCommand} : c.map \in Maps \union {NoMap} /\ c.flag \in BOOLEAN
  /\ \A m \in Maps : SetMap(m) \in Commands
  /\ \A f \in BOOLEAN : Bake(f) \in Commands
  /\ {ClearGeometry, Edit, UpdateDynamic} \subseteq Commands
<1>1. \A m \in Maps : SetMap(m) \in Commands
  BY DEF Commands
<1>2. \A f \in BOOLEAN : Bake(f) \in Commands
  BY DEF Commands
<1>3. {ClearGeometry, Edit, UpdateDynamic} \subseteq Commands
  BY DEF Commands
<1>4. ASSUME NEW c \in Commands \union {NoCommand} PROVE c.map \in Maps \union {NoMap} /\ c.flag \in BOOLEAN
  <2>1. CASE \E m \in Maps : c = SetMap(m)
    BY <2>1 DEF SetMap
  <2>2. CASE \E f \in BOOLEAN : c = Bake(f)
    BY <2>2 DEF Bake
  <2>3. CASE c \in {ClearGeometry, Edit, UpdateDynamic, NoCommand}
    <3>1. c.map = NoMap /\ c.flag = FALSE
      BY <2>3 DEF ClearGeometry, Edit, UpdateDynamic, NoCommand
    <3> QED
      BY <3>1, Zenon
  <2> QED
    BY <2>1, <2>2, <2>3 DEF Commands
<1> QED
  BY <1>1, <1>2, <1>3, <1>4

\* A queued command is counted before it is pushed.
LEMMA QueueInOrder ==
  ASSUME NEW c \in Commands
  PROVE  InOrder(QueueCommand(c)) /\ QueueCommand(c) # <<>> /\ Head(QueueCommand(c)).op # "push"
<1>1. Step("count", c) \in Steps /\ Step("push", c) \in Steps
  BY DEF Step, Steps
<1>2. QueueCommand(c) = <<Step("count", c), Step("push", c)>>
  BY DEF QueueCommand
<1>3. Step("count", c).op = "count" /\ Step("push", c).op = "push" /\ Step("count", c).cmd = c /\ Step("push", c).cmd = c
  BY DEF Step
<1> HIDE DEF Step
<1>4. QueueCommand(c) \in Seq(Steps) /\ Len(QueueCommand(c)) = 2
      /\ QueueCommand(c)[1] = Step("count", c) /\ QueueCommand(c)[2] = Step("push", c)
  BY <1>1, <1>2
<1> QED
  BY <1>3, <1>4 DEF InOrder

LEMMA CancelInOrder == InOrder(CancelSteps) /\ CancelSteps # <<>> /\ Head(CancelSteps).op # "push"
<1> DEFINE a == Step("flag", NoCommand)  b == Step("test", NoCommand)  c == Step("store", NoCommand)
<1>1. a \in Steps /\ b \in Steps /\ c \in Steps /\ a.op = "flag" /\ b.op = "test" /\ c.op = "store"
  BY DEF Step, Steps
<1>2. CancelSteps = <<a, b, c>>
  BY DEF CancelSteps
<1> HIDE DEF a, b, c
<1>3. CancelSteps \in Seq(Steps) /\ Len(CancelSteps) = 3 /\ Head(CancelSteps) = a
  BY <1>1, <1>2
<1>4. CancelSteps[1] = a /\ CancelSteps[2] = b /\ CancelSteps[3] = c
  BY <1>1, <1>2
<1> DEFINE s == CancelSteps
<1> HIDE DEF s
<1>i. \A i \in 1 .. Len(s) : i = 1 \/ i = 2 \/ i = 3
  BY <1>3 DEF s
<1>5. ASSUME NEW i \in 1 .. Len(s)
      PROVE  \/ i = 1 /\ s[i].op = "flag"
             \/ i = 2 /\ s[i].op = "test"
             \/ i = 3 /\ s[i].op = "store"
  <2>1. s[1].op = "flag" /\ s[2].op = "test" /\ s[3].op = "store"
    BY <1>1, <1>4 DEF s
  <2>2. CASE i = 1
    BY <2>1, <2>2
  <2>3. CASE i = 2
    BY <2>1, <2>3
  <2>4. CASE i = 3
    BY <2>1, <2>4
  <2> QED
    BY <1>i, <2>2, <2>3, <2>4
<1>6. Len(s) = 3 /\ s[3].op = "store"
  BY <1>1, <1>3, <1>4 DEF s
<1>7. InOrder(s)
  BY <1>3, <1>5, <1>6 DEF InOrder, s
<1>8. CancelSteps # <<>>
  BY <1>3
<1> QED
  BY <1>1, <1>3, <1>7, <1>8 DEF s

\* A call is made of parts in order, and what is left of one is in order.
LEMMA AppendInOrder ==
  ASSUME NEW s, NEW t, InOrder(s), s # <<>>, InOrder(t), t # <<>> => Head(t).op # "push"
  PROVE  InOrder(s \o t) /\ s \o t # <<>> /\ Head(s \o t) = Head(s)
<1> DEFINE u == s \o t
<1>1. s \in Seq(Steps) /\ t \in Seq(Steps)
  BY DEF InOrder
<1>2. u \in Seq(Steps) /\ Len(u) = Len(s) + Len(t)
  BY <1>1
<1>3. \A i \in 1 .. Len(u) : u[i] = IF i <= Len(s) THEN s[i] ELSE t[i - Len(s)]
  BY <1>1
<1>n. Len(s) \in Nat \ {0} /\ Len(t) \in Nat
  BY <1>1
<1>h. u # <<>> /\ Head(u) = Head(s) /\ (Len(t) # 0 => t[1].op # "push")
  BY <1>1, <1>2, <1>3, <1>n
<1> HIDE DEF u
<1>4. \A i \in 1 .. Len(u) : u[i].op \in {"count", "push"} => u[i].cmd \in Commands
  BY SMTT(30), <1>2, <1>3, <1>n DEF InOrder
<1>5. ASSUME NEW i \in 1 .. Len(u), u[i].op = "count" PROVE i < Len(u) /\ u[i + 1].op = "push"
  <2>1. CASE i <= Len(s)
    <3>1. s[i].op = "count"
      BY <1>3, <1>5, <2>1
    <3>2. i < Len(s) /\ s[i + 1].op = "push"
      BY <1>n, <2>1, <3>1 DEF InOrder
    <3>3. i + 1 \in 1 .. Len(u) /\ i + 1 <= Len(s)
      BY <1>2, <1>n, <3>2
    <3> QED
      BY <1>2, <1>3, <1>n, <3>2, <3>3
  <2>2. CASE ~(i <= Len(s))
    <3> DEFINE j == i - Len(s)
    <3>1. j \in 1 .. Len(t) /\ t[j].op = "count"
      BY <1>2, <1>3, <1>n, <1>5, <2>2
    <3>2. j < Len(t) /\ t[j + 1].op = "push"
      BY <3>1 DEF InOrder
    <3>3. i + 1 \in 1 .. Len(u) /\ ~(i + 1 <= Len(s)) /\ (i + 1) - Len(s) = j + 1
      BY <1>2, <1>n, <2>2, <3>2
    <3>4. u[i + 1] = t[j + 1]
      BY <1>3, <3>3
    <3> QED
      BY <1>2, <1>n, <3>2, <3>3, <3>4
  <2> QED
    BY <2>1, <2>2
<1>6. ASSUME NEW i \in 1 .. Len(u), u[i].op = "test" PROVE i < Len(u) /\ u[i + 1].op = "store"
  <2>1. CASE i <= Len(s)
    <3>1. s[i].op = "test"
      BY <1>3, <1>6, <2>1
    <3>2. i < Len(s) /\ s[i + 1].op = "store"
      BY <1>n, <2>1, <3>1 DEF InOrder
    <3>3. i + 1 \in 1 .. Len(u) /\ i + 1 <= Len(s)
      BY <1>2, <1>n, <3>2
    <3> QED
      BY <1>2, <1>3, <1>n, <3>2, <3>3
  <2>2. CASE ~(i <= Len(s))
    <3> DEFINE j == i - Len(s)
    <3>1. j \in 1 .. Len(t) /\ t[j].op = "test"
      BY <1>2, <1>3, <1>n, <1>6, <2>2
    <3>2. j < Len(t) /\ t[j + 1].op = "store"
      BY <3>1 DEF InOrder
    <3>3. i + 1 \in 1 .. Len(u) /\ ~(i + 1 <= Len(s)) /\ (i + 1) - Len(s) = j + 1
      BY <1>2, <1>n, <2>2, <3>2
    <3>4. u[i + 1] = t[j + 1]
      BY <1>3, <3>3
    <3> QED
      BY <1>2, <1>n, <3>2, <3>3, <3>4
  <2> QED
    BY <2>1, <2>2
<1>7. \A i \in 2 .. Len(u) : u[i].op = "push" => u[i - 1].op = "count"
  BY SMTT(30), <1>2, <1>3, <1>n, <1>h DEF InOrder
<1> QED
  BY <1>2, <1>h, <1>4, <1>5, <1>6, <1>7 DEF InOrder, u

LEMMA TailInOrder ==
  ASSUME NEW s, InOrder(s), s # <<>>
  PROVE  /\ InOrder(Tail(s)) /\ Head(s) \in Steps
         /\ Head(s).op \in {"count", "push"} => Head(s).cmd \in Commands
         /\ Head(s).op = "count" <=> (Tail(s) # <<>> /\ Head(Tail(s)).op = "push")
         /\ Head(s).op = "test" => Tail(s) # <<>> /\ Head(Tail(s)).op = "store"
<1> DEFINE t == Tail(s)
<1>1. s \in Seq(Steps) /\ Len(s) \in Nat \ {0} /\ Head(s) = s[1] /\ s[1] \in Steps
  BY DEF InOrder
<1>2. t \in Seq(Steps) /\ Len(t) = Len(s) - 1 /\ (t # <<>> => Head(t) = s[2] /\ Len(s) >= 2)
      /\ \A i \in 1 .. Len(t) : t[i] = s[i + 1]
  BY <1>1
<1> HIDE DEF t
<1>3. Len(s) >= 2 => t # <<>>
  <2>1. t = <<>> => Len(t) = 0
    OBVIOUS
  <2> QED
    BY <1>1, <1>2, <2>1
<1>4. \A i \in 1 .. Len(t) : i + 1 \in 1 .. Len(s)
  BY <1>1, <1>2
<1>5. InOrder(t)
  <2>1. \A i \in 1 .. Len(t) : t[i].op \in {"count", "push"} => t[i].cmd \in Commands
    BY <1>2, <1>4 DEF InOrder
  <2>2. ASSUME NEW i \in 1 .. Len(t), t[i].op = "count" PROVE i < Len(t) /\ t[i + 1].op = "push"
    <3>1. i + 1 < Len(s) /\ s[(i + 1) + 1].op = "push"
      BY <1>2, <1>4, <2>2 DEF InOrder
    <3>2. i + 1 \in 1 .. Len(t)
      BY <1>1, <1>2, <3>1
    <3> QED
      BY <1>1, <1>2, <3>1, <3>2
  <2>3. ASSUME NEW i \in 1 .. Len(t), t[i].op = "test" PROVE i < Len(t) /\ t[i + 1].op = "store"
    <3>1. i + 1 < Len(s) /\ s[(i + 1) + 1].op = "store"
      BY <1>2, <1>4, <2>3 DEF InOrder
    <3>2. i + 1 \in 1 .. Len(t)
      BY <1>1, <1>2, <3>1
    <3> QED
      BY <1>1, <1>2, <3>1, <3>2
  <2>4. ASSUME NEW i \in 2 .. Len(t), t[i].op = "push" PROVE t[i - 1].op = "count"
    <3>1. i + 1 \in 2 .. Len(s) /\ s[i + 1].op = "push" /\ (i + 1) - 1 = i /\ (i - 1) + 1 = i /\ i - 1 \in 1 .. Len(t)
      BY <1>1, <1>2, <2>4
    <3>2. s[(i + 1) - 1].op = "count"
      BY <3>1 DEF InOrder
    <3> QED
      BY <1>2, <3>1, <3>2
  <2> QED
    BY <1>2, <2>1, <2>2, <2>3, <2>4 DEF InOrder
<1>6. Head(s).op \in {"count", "push"} => Head(s).cmd \in Commands
  BY <1>1 DEF InOrder
<1>7. ASSUME Head(s).op = "count" PROVE t # <<>> /\ Head(t).op = "push"
  BY <1>1, <1>2, <1>3, <1>7 DEF InOrder
<1>8. ASSUME t # <<>>, Head(t).op = "push" PROVE Head(s).op = "count"
  <2>1. 2 \in 2 .. Len(s) /\ s[2].op = "push" /\ 2 - 1 = 1
    BY <1>1, <1>2, <1>8
  <2>2. s[2 - 1].op = "count"
    BY <2>1 DEF InOrder
  <2> QED
    BY <1>1, <2>1, <2>2
<1>9. ASSUME Head(s).op = "test" PROVE t # <<>> /\ Head(t).op = "store"
  BY <1>1, <1>2, <1>3, <1>9 DEF InOrder
<1> QED
  BY <1>1, <1>5, <1>6, <1>7, <1>8, <1>9 DEF t

-----------------------------------------------------------------------------
(* The bake                                                                *)

\* What the map and the probes share with the job: the part of the invariant the
\* bake thread can disturb.
JobInv == BakeTypeOK /\ JobOrder /\ ProbesAreOfThisMap

\* A job of a map is a job, and what it carries beside the map keeps it one.
LEMMA JobTypes ==
  /\ NoJob \notin Jobs /\ NoBatch \notin Batches
  /\ \A j \in Jobs : j.map \in Maps /\ j # NoJob
       /\ [j EXCEPT !.succeeded = TRUE] \in Jobs /\ [j EXCEPT !.succeeded = TRUE].map = j.map
       /\ [j EXCEPT !.pathingBaked = TRUE] \in Jobs /\ [j EXCEPT !.pathingBaked = TRUE].map = j.map
  /\ \A m \in Maps, e \in BOOLEAN :
       LET j == [NoJob EXCEPT !.map = m, !.extraStep = e] IN j \in Jobs /\ j.map = m
  /\ \A j \in Jobs : LET b == [map |-> j.map, layers |-> Layers(j)] IN b \in Batches /\ b.map = j.map
<1> USE MapsAssumption
<1>1. NoJob \notin Jobs /\ NoBatch \notin Batches
  BY DEF NoJob, NoBatch, Jobs, Batches
<1>2. \A j \in Jobs : j.map \in Maps /\ j # NoJob
  BY <1>1 DEF Jobs
<1>3. ASSUME NEW j \in Jobs
      PROVE  /\ [j EXCEPT !.succeeded = TRUE] \in Jobs /\ [j EXCEPT !.succeeded = TRUE].map = j.map
             /\ [j EXCEPT !.pathingBaked = TRUE] \in Jobs /\ [j EXCEPT !.pathingBaked = TRUE].map = j.map
  BY DEF Jobs
<1>4. ASSUME NEW m \in Maps, NEW e \in BOOLEAN
      PROVE  LET j == [NoJob EXCEPT !.map = m, !.extraStep = e] IN j \in Jobs /\ j.map = m
  BY DEF NoJob, Jobs
<1>5. ASSUME NEW j \in Jobs
      PROVE  LET b == [map |-> j.map, layers |-> Layers(j)] IN b \in Batches /\ b.map = j.map
  BY <1>2 DEF Layers, Batches, Complete
<1> QED
  BY <1>1, <1>2, <1>3, <1>4, <1>5

LEMMA CachedBatchType ==
  ASSUME BakeTypeOK, NEW m \in Maps \union {NoMap}
  PROVE  CachedBatch(m) = NoBatch \/ (CachedBatch(m) \in Batches /\ CachedBatch(m).map = m)
BY DEF CachedBatch, Batches, BakeTypeOK

\* A file is renamed over the cache, or the cache stays: no step leaves a part.
LEMMA BakeThreadCache ==
  ASSUME BakeTypeOK, BakeThread
  PROVE  \A m \in Maps : cache'[m] = cache[m] \/ cache'[m] \in Complete
<1>1. CASE RenameTemporary
  BY <1>1 DEF RenameTemporary, BakeTypeOK, Layers, Complete
<1>2. ASSUME ~RenameTemporary PROVE UNCHANGED cache
  BY <1>2 DEF BakeThread, BuildScene, GenerateProbes, BakeReflections, WriteTemporary, AwaitDecision, BeginPathing,
              BakePathing, FinishStatus, FinishDone, FinishRunning
<1> QED
  BY <1>1, <1>2

\* The bake thread and its watchdog keep the job with its map until it is over.
LEMMA BakeThreadInv ==
  ASSUME JobInv, BakeThread \/ MemoryGuardTrips, UNCHANGED m_mapGeometry
  PROVE  JobInv'
<1> USE DEF JobInv, BakeTypeOK, JobOrder, ProbesAreOfThisMap, Goto, KeepFlags, Phases, BakePcs
<1>1. CASE BuildScene
  BY <1>1 DEF BuildScene
<1>2. CASE GenerateProbes
  BY <1>2 DEF GenerateProbes
<1>3. CASE BakeReflections
  BY ZenonT(30), <1>3, JobTypes DEF BakeReflections
<1>4. CASE WriteTemporary
  BY <1>4 DEF WriteTemporary, AfterSave
<1>5. CASE RenameTemporary
  <2>1. Layers(m_activeJob) \in Complete
    BY DEF Layers, Complete
  <2>2. cache' \in [Maps -> Complete \union {"none", "torn"}]
    BY <1>5, <2>1 DEF RenameTemporary
  <2> QED
    BY <1>5, <2>2 DEF RenameTemporary, AfterSave
<1>6. CASE AwaitDecision \/ BeginPathing
  BY <1>6 DEF AwaitDecision, BeginPathing
<1>7. CASE BakePathing
  BY ZenonT(30), <1>7, JobTypes DEF BakePathing
<1>8. CASE FinishStatus
  BY <1>8 DEF FinishStatus
<1>9. CASE FinishDone \/ FinishRunning
  BY <1>9 DEF FinishDone, FinishRunning
<1>10. CASE MemoryGuardTrips
  BY <1>10 DEF MemoryGuardTrips
<1> QED
  BY <1>1, <1>2, <1>3, <1>4, <1>5, <1>6, <1>7, <1>8, <1>9, <1>10 DEF BakeThread

\* The calls the two other threads make into the job.
LEMMA CancelKeeps ==
  ASSUME JobInv, UNCHANGED m_mapGeometry, CancelBake \/ CancelStore \/ \E b \in BOOLEAN : DecidePathing(b)
  PROVE  JobInv'
<1> USE DEF JobInv, BakeTypeOK, JobOrder, ProbesAreOfThisMap
<1>1. CASE CancelBake
  BY <1>1 DEF CancelBake
<1>2. CASE CancelStore
  BY <1>2 DEF CancelStore
<1>3. CASE \E b \in BOOLEAN : DecidePathing(b)
  BY <1>3 DEF DecidePathing
<1> QED
  BY <1>1, <1>2, <1>3

LEMMA PollKeeps ==
  ASSUME JobInv, UNCHANGED m_mapGeometry, PollBake
  PROVE  JobInv'
<1> USE DEF JobInv, BakeTypeOK, JobOrder, ProbesAreOfThisMap
<1>1. CASE BakeIsDone
  <2>1. m_activeJob \in Jobs
    BY <1>1 DEF BakeIsDone
  <2>2. m_probeBatch' = m_probeBatch \/ (m_probeBatch' \in Batches /\ m_probeBatch'.map = m_activeJob.map)
    BY <2>1, JobTypes DEF PollBake, CollectedBatch
  <2> QED
    BY <1>1, <2>1, <2>2 DEF PollBake, BakeIsDone
<1>2. CASE ~BakeIsDone
  BY <1>2 DEF PollBake, CollectedBatch
<1> QED
  BY <1>1, <1>2

LEMMA ReplaceKeeps ==
  ASSUME JobInv, ~BakeInProgress, NEW m \in Maps \union {NoMap}, NEW b,
         ReplaceProbes(m, b), m_mapGeometry' = m
  PROVE  JobInv'
<1> USE DEF JobInv, BakeTypeOK, JobOrder, ProbesAreOfThisMap
<1>1. m_activeJob' = NoJob
  BY DEF ReplaceProbes, BakeIsDone, BakeInProgress
<1>2. m_probeBatch' = NoBatch \/ (m_probeBatch' \in Batches /\ m_probeBatch'.map = m)
  BY CachedBatchType DEF ReplaceProbes
<1>3. m_bakeDone' \in BOOLEAN /\ m_status' \in Phases
  BY DEF ReplaceProbes, Phases
<1> QED
  BY <1>1, <1>2, <1>3 DEF ReplaceProbes, BakeInProgress

LEMMA StartKeeps ==
  ASSUME JobInv, NEW b \in BOOLEAN, StartBake(m_mapGeometry, b), m_mapGeometry \in Maps, UNCHANGED m_mapGeometry
  PROVE  JobInv'
BY JobTypes DEF JobInv, BakeTypeOK, JobOrder, ProbesAreOfThisMap, StartBake, Phases, BakePcs

-----------------------------------------------------------------------------
(* The calls and the queue                                                 *)

CallInv == InOrder(todo) /\ PendingIsCounted

LEMMA EmptyInOrder == InOrder(<<>>) /\ <<>> \in Seq(Commands)
BY DEF InOrder

\* A call starts with nothing counted.
LEMMA CallBegins ==
  ASSUME CallInv, todo = <<>>, NEW s, InOrder(s), s # <<>> => Head(s).op # "push", todo' = s,
         UNCHANGED <<m_commands, m_pendingCommands>>
  PROVE  CallInv'
BY DEF CallInv, PendingIsCounted, Doing

\* What every call of the game thread is made of.
LEMMA CallsInOrder ==
  ASSUME CallInv, TypeOK, GameCall \/ RetryGeometry
  PROVE  CallInv'
<1> USE DEF Call
<1>1. ASSUME NEW m \in Maps, LoadMap(m) PROVE CallInv'
  <2> DEFINE last == IF BakeOnMapLoad /\ UseBakedReverb THEN QueueCommand(Bake(FALSE)) ELSE <<>>
             s1 == CancelSteps \o QueueCommand(ClearGeometry)
             s2 == s1 \o QueueCommand(SetMap(m))
  <2>1. {ClearGeometry, SetMap(m), Bake(FALSE)} \subseteq Commands
    BY CommandTypes
  <2>2. InOrder(last) /\ (last # <<>> => Head(last).op # "push")
    BY <2>1, QueueInOrder, EmptyInOrder
  <2>3. InOrder(s1) /\ s1 # <<>> /\ Head(s1).op # "push"
    BY <2>1, QueueInOrder, CancelInOrder, AppendInOrder
  <2> HIDE DEF last, s1
  <2>4. InOrder(s2) /\ s2 # <<>> /\ Head(s2).op # "push"
    BY <2>1, <2>3, QueueInOrder, AppendInOrder
  <2> HIDE DEF s2
  <2>5. InOrder(s2 \o last) /\ s2 \o last # <<>> /\ Head(s2 \o last).op # "push"
    BY <2>2, <2>4, AppendInOrder
  <2>6. todo = <<>> /\ todo' = s2 \o last /\ UNCHANGED <<m_commands, m_pendingCommands>>
    BY <1>1 DEF LoadMap, sharedVars, last, s1, s2
  <2> HIDE DEF Call
  <2> QED
    BY <2>5, <2>6, CallBegins
<1>2. CASE UnloadMap
  <2> DEFINE s == CancelSteps \o QueueCommand(ClearGeometry)
  <2>1. ClearGeometry \in Commands
    BY CommandTypes
  <2>2. InOrder(s) /\ s # <<>> /\ Head(s).op # "push"
    BY <2>1, QueueInOrder, CancelInOrder, AppendInOrder
  <2>3. todo = <<>> /\ todo' = s /\ UNCHANGED <<m_commands, m_pendingCommands>>
    BY <1>2 DEF UnloadMap, sharedVars
  <2> HIDE DEF s
  <2> QED
    BY <2>2, <2>3, CallBegins
<1>3. CASE RequestCancel
  <2>1. todo = <<>> /\ todo' = CancelSteps /\ UNCHANGED <<m_commands, m_pendingCommands>>
    BY <1>3 DEF RequestCancel, sharedVars
  <2> QED
    BY <2>1, CancelInOrder, CallBegins
<1>4. ASSUME NEW c \in Commands, todo = <<>>, todo' = QueueCommand(c), UNCHANGED <<m_commands, m_pendingCommands>>
      PROVE  CallInv'
  BY <1>4, QueueInOrder, CallBegins
<1>5. ASSUME NEW b \in BOOLEAN, RequestBake(b) PROVE CallInv'
  BY <1>4, <1>5, CommandTypes DEF RequestBake, sharedVars
<1>6. ASSUME NEW c \in {Edit, UpdateDynamic}, ChangeGeometry(c) PROVE CallInv'
  BY <1>4, <1>6, CommandTypes DEF ChangeGeometry, sharedVars
<1>7. CASE RetryGeometry
  <2>1. (IF m_geometry = NoMap THEN ClearGeometry ELSE SetMap(m_geometry)) \in Commands
    BY CommandTypes DEF TypeOK
  <2> QED
    BY <1>4, <1>7, <2>1 DEF RetryGeometry, sharedVars
<1>8. ASSUME NEW b \in BOOLEAN, ContinuePathing(b) PROVE CallInv'
  <2> DEFINE d == Step("decide", Bake(b))  s == <<d>>
  <2>1. d \in Steps /\ d.op = "decide"
    BY CommandTypes DEF Step, Steps
  <2> HIDE DEF d
  <2>2. s \in Seq(Steps) /\ Len(s) = 1 /\ s[1] = d /\ s # <<>> /\ Head(s) = d
    BY <2>1
  <2> HIDE DEF s
  <2>3. InOrder(s)
    BY <2>1, <2>2 DEF InOrder
  <2>4. todo = <<>> /\ todo' = s /\ UNCHANGED <<m_commands, m_pendingCommands>>
    BY <1>8 DEF ContinuePathing, sharedVars, s, d
  <2> QED
    BY <2>1, <2>2, <2>3, <2>4, CallBegins
<1>9. CASE Stop
  BY <1>9 DEF Stop, CallInv, PendingIsCounted, Doing, gameVars
<1> QED
  BY <1>1, <1>2, <1>3, <1>5, <1>6, <1>7, <1>8, <1>9 DEF GameCall

\* The steps of a call, and the simulation thread taking a command.
LEMMA CallStep ==
  ASSUME CallInv, TypeOK, [Next]_vars
  PROVE  CallInv' /\ m_commands' \in Seq(Commands) /\ Len(m_commands') <= QueueCapacity /\ m_pendingCommands' \in Int
<1> USE CommandsAssumption
<1>a. m_commands \in Seq(Commands) /\ Len(m_commands) \in Nat /\ Len(m_commands) <= QueueCapacity /\ m_pendingCommands \in Int
  BY DEF TypeOK
<1>b. InOrder(todo) /\ PendingIsCounted
  BY DEF CallInv
<1>c. ASSUME UNCHANGED m_commands, m_pendingCommands' \in Int, CallInv'
      PROVE  CallInv' /\ m_commands' \in Seq(Commands) /\ Len(m_commands') <= QueueCapacity /\ m_pendingCommands' \in Int
  BY <1>a, <1>c
<1>1. CASE GameCall \/ RetryGeometry
  <2>1. UNCHANGED <<m_commands, m_pendingCommands>>
    BY <1>1 DEF GameCall, LoadMap, UnloadMap, RequestCancel, RequestBake, ContinuePathing, ChangeGeometry, Call, Stop,
                RetryGeometry, sharedVars
  <2> QED
    BY <1>1, <1>a, <1>c, <2>1, CallsInOrder
<1>2. CASE SetCancelFlag \/ StoreBakeCancel \/ StoreDecision
  <2>1. todo # <<>> /\ Head(todo).op \in {"flag", "store", "decide"} /\ todo' = Tail(todo)
        /\ UNCHANGED <<m_commands, m_pendingCommands>>
    BY <1>2 DEF SetCancelFlag, StoreBakeCancel, StoreDecision, Doing, Did, sharedVars
  <2>2. InOrder(todo') /\ ~(todo' # <<>> /\ Head(todo').op = "push")
    BY <1>b, <2>1, TailInOrder
  <2> QED
    BY <1>a, <1>b, <1>c, <2>1, <2>2 DEF CallInv, PendingIsCounted, Doing
<1>3. CASE TestBakeRunning
  <2>1. todo # <<>> /\ Head(todo).op = "test" /\ (todo' = Tail(todo) \/ todo' = Tail(Tail(todo)))
        /\ UNCHANGED <<m_commands, m_pendingCommands>>
    BY <1>3 DEF TestBakeRunning, Doing, sharedVars
  <2>2. InOrder(Tail(todo)) /\ Tail(todo) # <<>> /\ Head(Tail(todo)).op = "store"
    BY <1>b, <2>1, TailInOrder
  <2>3. InOrder(Tail(Tail(todo))) /\ ~(Tail(Tail(todo)) # <<>> /\ Head(Tail(Tail(todo))).op = "push")
    BY <2>2, TailInOrder
  <2>4. InOrder(todo') /\ ~(todo' # <<>> /\ Head(todo').op = "push")
    BY <2>1, <2>2, <2>3
  <2> QED
    BY <1>a, <1>b, <1>c, <2>1, <2>4 DEF CallInv, PendingIsCounted, Doing
<1>4. CASE CountPending
  <2>1. todo # <<>> /\ Head(todo).op = "count" /\ todo' = Tail(todo)
        /\ m_pendingCommands' = m_pendingCommands + 1 /\ UNCHANGED m_commands
    BY <1>4 DEF CountPending, Doing, Did
  <2>2. InOrder(todo') /\ todo' # <<>> /\ Head(todo').op = "push"
    BY <1>b, <2>1, TailInOrder
  <2> QED
    BY <1>a, <1>b, <1>c, <2>1, <2>2 DEF CallInv, PendingIsCounted, Doing
<1>5. CASE PushCommand
  <2> DEFINE c == Head(todo).cmd
  <2>1. todo # <<>> /\ Head(todo).op = "push" /\ (todo' = Tail(todo) \/ todo' = <<>>)
        /\ m_commands' = (IF Len(m_commands) = QueueCapacity THEN m_commands ELSE Append(m_commands, c))
        /\ m_pendingCommands' = (IF Len(m_commands) = QueueCapacity THEN m_pendingCommands - 1 ELSE m_pendingCommands)
    BY <1>5 DEF PushCommand, Doing
  <2>2. c \in Commands
    BY <1>b, <2>1, TailInOrder
  <2>3. InOrder(todo') /\ ~(todo' # <<>> /\ Head(todo').op = "push")
    BY ZenonT(30), <1>b, <2>1, TailInOrder, EmptyInOrder
  <2> HIDE DEF c
  <2>4. m_pendingCommands = Len(m_commands) + 1
    BY <1>b, <2>1 DEF PendingIsCounted, Doing
  <2>5. m_commands' \in Seq(Commands) /\ Len(m_commands') <= QueueCapacity /\ m_pendingCommands' = Len(m_commands')
    BY <1>a, <2>1, <2>2, <2>4
  <2>6. Len(m_commands') \in Nat
    BY <2>5
  <2> QED
    BY <2>3, <2>5, <2>6 DEF CallInv, PendingIsCounted, Doing
<1>6. CASE PopCommand
  <2>1. m_commands # <<>> /\ m_commands' = Tail(m_commands) /\ m_pendingCommands' = m_pendingCommands - 1 /\ UNCHANGED todo
    BY <1>6 DEF PopCommand, KeepSim, gameVars
  <2>2. m_commands' \in Seq(Commands) /\ Len(m_commands') = Len(m_commands) - 1
    BY <1>a, <2>1
  <2>3. Doing("push")' <=> Doing("push")
    BY <2>1 DEF Doing
  <2>4. PendingIsCounted'
    <3> DEFINE one == IF Doing("push") THEN 1 ELSE 0
    <3>1. one \in Int /\ m_pendingCommands = Len(m_commands) + one
      BY <1>b DEF PendingIsCounted
    <3>2. one' = one
      BY <2>3
    <3> HIDE DEF one
    <3>3. m_pendingCommands' = Len(m_commands') + one'
      BY <1>a, <2>1, <2>2, <3>1, <3>2
    <3> QED
      BY <3>3 DEF PendingIsCounted, one
  <2>5. Len(m_commands') <= QueueCapacity /\ m_pendingCommands' \in Int
    BY <1>a, <2>1, <2>2
  <2> QED
    BY <1>b, <2>1, <2>2, <2>4, <2>5 DEF CallInv
<1>7. ASSUME UNCHANGED <<todo, m_commands, m_pendingCommands>>
      PROVE  CallInv' /\ m_commands' \in Seq(Commands) /\ Len(m_commands') <= QueueCapacity /\ m_pendingCommands' \in Int
  BY <1>7, <1>a, <1>b DEF CallInv, PendingIsCounted, Doing
<1>8. CASE SimStep /\ ~PopCommand
  BY <1>7, <1>8 DEF SimStep, BeginTick, HandleBake, HandleGeometry, CancelForMap, ReplaceMap, EndDrain, TakeCancelFlag,
                    PollFinishedBake, CommitAndBake, BeginTeardown, EndTeardown, KeepSim, gameVars, sharedVars
<1>9. CASE TimePasses \/ BakeStep \/ Watchdog \/ UNCHANGED vars
  BY <1>7, <1>9 DEF TimePasses, BakeStep, Watchdog, KeepSim, vars, gameVars, sharedVars
<1>10. CASE Crash
  <2>1. todo' = <<>> /\ m_commands' = <<>> /\ m_pendingCommands' = 0
    BY <1>10 DEF Crash
  <2>2. Len(<<>>) = 0
    OBVIOUS
  <2> QED
    BY <2>1, <2>2, EmptyInOrder DEF CallInv, PendingIsCounted, Doing
<1> QED
  BY <1>1, <1>2, <1>3, <1>4, <1>5, <1>6, <1>8, <1>9, <1>10 DEF Next, GameStep

-----------------------------------------------------------------------------
(* The two threads                                                         *)

\* What TypeOK says beside the bake and the queue.
ThreadTypeOK ==
  /\ m_running \in BOOLEAN /\ m_cancelBakeRequested \in BOOLEAN
  /\ simPc \in {"loop", "drain", "handle", "waitMap", "flag", "poll", "commit",
                "waitStop", "exited"}
  /\ stopping \in BOOLEAN /\ cmd \in Commands \union {NoCommand}
  /\ m_mapGeometry \in Maps \union {NoMap} /\ m_geometry \in Maps \union {NoMap}
  /\ {m_bakeRequested, m_bakeForce, m_bakeAttempted, m_sceneDirty, commitDue,
      m_geometryPending} \subseteq BOOLEAN
  /\ calls \in 0 .. MaxCalls /\ crashes \in 0 .. MaxCrashes

LEMMA ThreadTypeStep == CommandsInv /\ [Next]_vars => ThreadTypeOK'
<1> SUFFICES ASSUME CommandsInv, [Next]_vars PROVE ThreadTypeOK'
  OBVIOUS
<1>a. ThreadTypeOK /\ InOrder(todo) /\ m_commands \in Seq(Commands)
  BY DEF CommandsInv, TypeOK, ThreadTypeOK
<1> USE <1>a, CommandsAssumption DEF ThreadTypeOK, sharedVars, requestVars, sceneVars, simVars, gameVars
<1>1. CASE GameCall
  <2> USE DEF Call
  <2>1. ASSUME NEW m \in Maps, LoadMap(m) PROVE ThreadTypeOK'
    <3>1. m_geometryPending' = FALSE /\ m_geometry' = m
      BY <2>1 DEF LoadMap
    <3>2. m_geometryPending' \in BOOLEAN
      BY <3>1, Zenon
    <3> QED
      BY <2>1, <3>1, <3>2 DEF LoadMap
  <2>2. CASE UnloadMap
    <3>1. m_geometryPending' = FALSE /\ m_geometry' = NoMap
      BY <2>2 DEF UnloadMap
    <3>2. m_geometryPending' \in BOOLEAN
      BY <3>1, Zenon
    <3> QED
      BY <2>2, <3>1, <3>2 DEF UnloadMap
  <2>5. CASE RequestCancel
    BY <2>5 DEF RequestCancel
  <2>6. CASE Stop
    <3>1. m_running' = FALSE
      BY <2>6 DEF Stop
    <3>2. m_running' \in BOOLEAN
      BY <3>1, Zenon
    <3> QED
      BY <2>6, <3>2 DEF Stop
  <2>3. ASSUME NEW b \in BOOLEAN, RequestBake(b) \/ ContinuePathing(b) PROVE ThreadTypeOK'
    BY <2>3 DEF RequestBake, ContinuePathing
  <2>4. ASSUME NEW c \in {Edit, UpdateDynamic}, ChangeGeometry(c) PROVE ThreadTypeOK'
    BY <2>4 DEF ChangeGeometry
  <2> QED
    BY <1>1, <2>1, <2>2, <2>3, <2>4, <2>5, <2>6 DEF GameCall
<1>2. CASE SetCancelFlag \/ TestBakeRunning \/ StoreBakeCancel \/ StoreDecision \/ CountPending \/ RetryGeometry
  BY <1>2 DEF SetCancelFlag, TestBakeRunning, StoreBakeCancel, StoreDecision, CountPending, RetryGeometry, KeepGame
<1>3. CASE PushCommand
  <2>1. m_geometryPending' = TRUE \/ m_geometryPending' = FALSE \/ UNCHANGED m_geometryPending
    BY <1>3 DEF PushCommand
  <2>2. m_geometryPending \in BOOLEAN
    OBVIOUS
  <2>3. m_geometryPending' \in BOOLEAN
    BY <2>1, <2>2, Zenon
  <2> QED
    BY <1>3, <2>3 DEF PushCommand, KeepGame
<1>4. CASE PopCommand
  <2>1. Head(m_commands) \in Commands
    BY <1>4 DEF PopCommand
  <2> QED
    BY <1>4, <2>1 DEF PopCommand, KeepSim, SimGoto
<1>5. CASE HandleBake
  <2>1. cmd.flag \in BOOLEAN
    BY CommandTypes
  <2> QED
    BY <1>5, <2>1 DEF HandleBake, KeepSim, SimGoto
<1>6. CASE HandleGeometry
  BY <1>6 DEF HandleGeometry, KeepSim, SimGoto
<1>7. CASE ReplaceMap
  <2>1. cmd.map \in Maps \union {NoMap}
    BY CommandTypes
  <2> QED
    BY <1>7, <2>1 DEF ReplaceMap, KeepSim, SimGoto
<1>8. CASE BeginTick \/ CancelForMap \/ EndDrain \/ PollFinishedBake \/ BeginTeardown \/ EndTeardown
  BY <1>8 DEF BeginTick, CancelForMap, EndDrain, PollFinishedBake, BeginTeardown, EndTeardown, KeepSim, SimGoto
<1>9. CASE TakeCancelFlag
  BY <1>9 DEF TakeCancelFlag, KeepSim, SimGoto
<1>10. CASE CommitAndBake
  BY <1>10 DEF CommitAndBake, KeepSim, SimGoto
<1>11. CASE TimePasses \/ BakeStep \/ Watchdog \/ UNCHANGED vars
  BY <1>11 DEF TimePasses, BakeStep, Watchdog, KeepSim, vars
<1>12. CASE Crash
  <2>1. {m_running, m_cancelBakeRequested, stopping, m_bakeRequested, m_bakeForce, m_bakeAttempted, m_sceneDirty,
         commitDue, m_geometryPending}' \subseteq BOOLEAN
    BY <1>12, Zenon DEF Crash
  <2>2. simPc' = "loop" /\ cmd' = NoCommand /\ m_mapGeometry' = NoMap /\ m_geometry' = NoMap
    BY <1>12 DEF Crash
  <2>3. calls' \in 0 .. MaxCalls /\ crashes' \in 0 .. MaxCrashes
    BY <1>12 DEF Crash
  <2> QED
    BY <2>1, <2>2, <2>3
<1> QED
  BY <1>1, <1>2, <1>3, <1>4, <1>5, <1>6, <1>7, <1>8, <1>9, <1>10, <1>11, <1>12 DEF Next, GameStep, SimStep

\* No bake and no probes of an earlier map: the map changes only when no bake
\* runs, and what was baked is collected before it does.
LEMMA JobStep == CommandsInv /\ [Next]_vars => JobInv'
<1> SUFFICES ASSUME CommandsInv, [Next]_vars PROVE JobInv'
  OBVIOUS
<1>a. JobInv /\ cmd \in Commands \union {NoCommand} /\ m_mapGeometry \in Maps \union {NoMap} /\ InOrder(todo)
  BY DEF CommandsInv, TypeOK, JobInv
<1>b. ASSUME UNCHANGED <<bakeVars, m_mapGeometry>> PROVE JobInv'
  BY <1>a, <1>b DEF bakeVars, jobVars, JobInv, BakeTypeOK, JobOrder, ProbesAreOfThisMap
<1>1. CASE GameCall \/ SetCancelFlag \/ TestBakeRunning \/ CountPending \/ PushCommand \/ RetryGeometry
  BY <1>1, <1>b DEF GameCall, LoadMap, UnloadMap, RequestCancel, Stop, RequestBake, ContinuePathing, ChangeGeometry, Call,
                    SetCancelFlag, TestBakeRunning, CountPending, PushCommand, RetryGeometry, KeepGame, simVars
<1>2. CASE StoreBakeCancel
  BY <1>a, <1>2, CancelKeeps DEF StoreBakeCancel, KeepGame, simVars
<1>3. CASE StoreDecision
  <2>1. Head(todo).cmd.flag \in BOOLEAN
    <3>1. Head(todo) \in Steps
      BY <1>a, <1>3, TailInOrder DEF StoreDecision, Doing
    <3> QED
      BY <3>1, CommandTypes DEF Steps
  <2>2. \E b \in BOOLEAN : DecidePathing(b)
    BY <1>3, <2>1 DEF StoreDecision
  <2> QED
    BY <1>a, <1>3, <2>2, CancelKeeps DEF StoreDecision, KeepGame, simVars
<1>4. CASE BeginTick \/ PopCommand \/ HandleBake \/ HandleGeometry \/ EndDrain \/ TimePasses
  BY <1>4, <1>b DEF BeginTick, PopCommand, HandleBake, HandleGeometry, EndDrain, TimePasses
<1>5. CASE CancelForMap \/ BeginTeardown
  BY <1>a, <1>5, CancelKeeps DEF CancelForMap, BeginTeardown
<1>6. CASE ReplaceMap
  <2>1. cmd.map \in Maps \union {NoMap}
    BY <1>a, CommandTypes
  <2> QED
    BY <1>a, <1>6, <2>1, ReplaceKeeps DEF ReplaceMap
<1>7. CASE TakeCancelFlag
  BY <1>a, <1>7, <1>b, CancelKeeps DEF TakeCancelFlag
<1>8. CASE PollFinishedBake \/ EndTeardown
  BY <1>a, <1>8, PollKeeps DEF PollFinishedBake, EndTeardown
<1>9. CASE CommitAndBake
  BY <1>a, <1>9, <1>b, StartKeeps DEF CommitAndBake
<1>10. CASE BakeStep \/ Watchdog
  BY <1>a, <1>10, BakeThreadInv DEF BakeStep, Watchdog, simVars
<1>11. CASE Crash
  <2>1. m_probeBatch' = NoBatch /\ m_activeJob' = NoJob /\ UNCHANGED cache
    BY <1>11 DEF Crash
  <2>2. m_bakeRunning' = FALSE /\ m_bakeDone' = FALSE /\ m_bakeCancel' = FALSE /\ bakePc' = "exited"
        /\ m_pathingDecision' = 0 /\ m_status' = "Idle"
    BY <1>11 DEF Crash
  <2> QED
    BY <1>a, <2>1, <2>2 DEF JobInv, BakeTypeOK, JobOrder, ProbesAreOfThisMap, Phases, BakePcs
<1>12. CASE UNCHANGED vars
  BY <1>12, <1>b DEF vars, simVars
<1> QED
  BY <1>1, <1>2, <1>3, <1>4, <1>5, <1>6, <1>7, <1>8, <1>9, <1>10, <1>11, <1>12 DEF Next, GameStep, SimStep

\* What is counted covers what is queued.
LEMMA CountCovers ==
  ASSUME m_commands \in Seq(Commands), PendingIsCounted
  PROVE  PendingCoversQueue
BY DEF PendingIsCounted, PendingCoversQueue

LEMMA CommandsInitInv == Init => CommandsInv
<1> SUFFICES ASSUME Init PROVE CommandsInv
  OBVIOUS
<1> USE CommandsAssumption DEF Init, ProcessInit, JobInit
<1>1. BakeTypeOK /\ JobOrder /\ ProbesAreOfThisMap
  BY DEF BakeTypeOK, JobOrder, ProbesAreOfThisMap, BakePcs, Phases
<1>2. m_commands \in Seq(Commands) /\ InOrder(todo)
  BY EmptyInOrder
<1>3. Len(m_commands) = 0 /\ PendingIsCounted
  BY DEF PendingIsCounted, Doing
<1>4. ThreadTypeOK
  <2>1. {m_running, m_cancelBakeRequested, stopping, m_bakeRequested, m_bakeForce, m_bakeAttempted, m_sceneDirty,
         commitDue, m_geometryPending} \subseteq BOOLEAN
    BY Zenon
  <2> QED
    BY <2>1 DEF ThreadTypeOK
<1>5. m_pendingCommands \in Int /\ Len(m_commands) <= QueueCapacity
  BY <1>3
<1> HIDE DEF Init, ProcessInit, JobInit
<1> QED
  BY <1>1, <1>2, <1>3, <1>4, <1>5, CountCovers DEF CommandsInv, TypeOK, ThreadTypeOK

LEMMA CommandsInvStep == CommandsInv /\ [Next]_vars => CommandsInv'
<1> SUFFICES ASSUME CommandsInv, [Next]_vars PROVE CommandsInv'
  OBVIOUS
<1>1. CallInv' /\ m_commands' \in Seq(Commands) /\ Len(m_commands') <= QueueCapacity /\ m_pendingCommands' \in Int
  BY CallStep DEF CommandsInv, CallInv
<1>2. JobInv' /\ ThreadTypeOK'
  BY JobStep, ThreadTypeStep
<1>3. PendingCoversQueue'
  BY <1>1 DEF CallInv, PendingIsCounted, PendingCoversQueue
<1> QED
  BY <1>1, <1>2, <1>3 DEF CommandsInv, TypeOK, ThreadTypeOK, CallInv, JobInv

\* For every set of maps and every capacity of the queue: the counter the thread
\* sleeps on covers what is queued, and neither the bake nor the probes are of
\* another map than the scene (SimulationThread.cpp:580-700).
THEOREM CommandsSafety == Spec => []CommandsInv
BY CommandsInitInv, CommandsInvStep, PTL DEF Spec

\* "Cache replacement is atomic" (README.md), whenever the process dies.
THEOREM CacheSafety == Spec => CacheReplacementIsAtomic
<1>1. CommandsInv /\ [Next]_vars => [\A m \in Maps : cache'[m] = cache[m] \/ cache'[m] \in Complete]_vars
  <2> SUFFICES ASSUME CommandsInv, Next PROVE \A m \in Maps : cache'[m] = cache[m] \/ cache'[m] \in Complete
    OBVIOUS
  <2>1. BakeTypeOK
    BY DEF CommandsInv, TypeOK
  <2>2. CASE BakeStep
    BY <2>1, <2>2, BakeThreadCache DEF BakeStep
  <2>3. ASSUME ~BakeStep PROVE UNCHANGED cache
    <3>1. CASE GameCall \/ GameStep
      BY <3>1 DEF GameCall, LoadMap, UnloadMap, RequestCancel, Stop, RequestBake, ContinuePathing, ChangeGeometry, Call,
                  GameStep, SetCancelFlag, TestBakeRunning, CountPending, PushCommand, RetryGeometry, StoreBakeCancel,
                  StoreDecision, CancelStore, DecidePathing, bakeVars
    <3>2. CASE SimStep \/ TimePasses
      BY <3>2 DEF SimStep, BeginTick, PopCommand, HandleBake, HandleGeometry, CancelForMap, ReplaceMap, EndDrain,
                  TakeCancelFlag, PollFinishedBake, CommitAndBake, BeginTeardown, EndTeardown, TimePasses,
                  CancelBake, PollBake, ReplaceProbes, StartBake, bakeVars
    <3>3. CASE Watchdog \/ Crash
      BY <3>3 DEF Watchdog, MemoryGuardTrips, Crash
    <3> QED
      BY <2>3, <3>1, <3>2, <3>3 DEF Next
  <2> QED
    BY <2>2, <2>3
<1> QED
  BY <1>1, CommandsSafety, PTL DEF Spec, CacheReplacementIsAtomic

=============================================================================
