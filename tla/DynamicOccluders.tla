------------------------- MODULE DynamicOccluders -------------------------
(***************************************************************************)
(* The entities that get acoustic geometry: DynamicOccluders follows the   *)
(* snapshots of the game thread and gives its sink, the command queue of   *)
(* the simulation thread, meshes to add, move and remove; the simulation   *)
(* thread applies them to its instances.  The queue may refuse any         *)
(* command, and the scene may fail to make any mesh.  Of an entity the     *)
(* tracker compares its identity (serial, model, kind) and its pose; the   *)
(* candidates come in the order of their distance, whatever it is.  A pose *)
(* is what the simulation thread tells apart: an update within its         *)
(* thresholds and with the same orientation fingerprint is no change.      *)
(***************************************************************************)
EXTENDS Integers, FiniteSets, SequencesExt

CONSTANTS
  Entities, Brushes,          \* entity indices; brush models of the map
  Identities, Poses,          \* serial with model and kind; origin with angles
  SpawnPose,                  \* where the map registers its brushes
  MaxOccluders,               \* m_options.maxOccluders
  MissedBeforeRemove,         \* m_options.missedUpdatesBeforeRemove
  MaxMeshes, MaxSnapshots, MaxQueued   \* bounds

NotPushed == "not pushed"

ASSUME OccludersAssumption ==
  /\ SpawnPose \in Poses /\ NotPushed \notin Poses /\ MissedBeforeRemove \in Nat \ {0}
  /\ {MaxOccluders, MaxMeshes, MaxSnapshots, MaxQueued} \subseteq Nat
  /\ IsFiniteSet(Entities) /\ 0 \notin Entities   \* the world occludes nothing
  /\ Brushes \intersect 1..MaxMeshes = {}   \* "ids below are reserved for BSP brush models"

VARIABLES
  m_tracked, m_brush,  \* entity -> its mesh; brush -> the pose it was pushed with
  considering,         \* the pass over the snapshot: entities not considered yet
  accepted,            \* entities the pass gave a place
  refusedOnce,         \* the sink refused a removal when meshes were last removed
  geometryQueue,       \* commands on their way to the simulation thread
  m_geometryPending,   \* the map command the queue refused, or "no"
  m_dynamic,           \* simulation thread: id -> pose of the instance in the scene
  nextDynamicId, snapshots,
  unfollowed,          \* history: meshes kept over a map change
  unmade               \* history: meshes the scene failed to make

trackerVars == <<m_tracked, m_brush, considering, accepted, refusedOnce, m_geometryPending, unfollowed>>
occluderVars == <<trackerVars, geometryQueue, m_dynamic, nextDynamicId, snapshots, unmade>>

NoIdentity == "none"
Untracked == [id |-> 0, identity |-> NoIdentity, pose |-> SpawnPose, missed |-> 0]
Mesh(type, id, pose) == [type |-> type, id |-> id, pose |-> pose]
Spawned == [b \in Brushes |-> SpawnPose]
NoMeshes == [i \in {} |-> SpawnPose]
Idle == {0}
Known(e) == m_tracked[e].id # 0

OccludersInit ==
  /\ m_tracked = [e \in Entities |-> Untracked] /\ m_brush = [b \in Brushes |-> NotPushed]
  /\ considering = Idle /\ accepted = {} /\ refusedOnce = FALSE /\ unfollowed = {}
  /\ m_geometryPending = "no" /\ unmade = {}
  /\ geometryQueue = <<>> /\ m_dynamic = NoMeshes /\ nextDynamicId = 1 /\ snapshots = 0

-----------------------------------------------------------------------------
(* The sink: a command is queued, or refused when the queue is full *)

Send(commands, tracked) ==
  /\ Len(geometryQueue) + Len(commands) <= MaxQueued
  /\ geometryQueue' = geometryQueue \o commands /\ m_tracked' = tracked
Refused(tracked) == geometryQueue' = geometryQueue /\ m_tracked' = tracked

\* The pose is kept only if the sink took it, so a refused one is sent again.
Move(e, pose) ==
  LET here == [m_tracked[e] EXCEPT !.missed = 0]
  IN \/ /\ m_tracked[e].pose # pose
        /\ Send(<<Mesh("update", m_tracked[e].id, pose)>>,
                [m_tracked EXCEPT ![e] = [here EXCEPT !.pose = pose]])
     \/ Refused([m_tracked EXCEPT ![e] = here])

Removal(e) == Mesh("remove", m_tracked[e].id, SpawnPose)
\* A mesh leaves the tracker when the sink took its removal.
\* Mutant: it leaves either way.
RemoveMeshesAnyway(es) ==
  \E kept \in SUBSET es :
    /\ Send(SetToSeq({Removal(e) : e \in es \ kept}), [e \in Entities |-> IF e \in es THEN Untracked ELSE m_tracked[e]])
    /\ refusedOnce' = (kept # {})
RemoveMeshes(es) ==
  \E kept \in SUBSET es :
    /\ Send(SetToSeq({Removal(e) : e \in es \ kept}),
            [e \in Entities |-> IF e \in es \ kept THEN Untracked ELSE m_tracked[e]])
    /\ refusedOnce' = (kept # {})

-----------------------------------------------------------------------------
(* Update: every entity of the snapshot in turn, nearest first *)

BeginUpdate ==
  /\ m_geometryPending = "no" /\ considering = Idle /\ snapshots < MaxSnapshots
  /\ snapshots' = snapshots + 1
  /\ considering' \in SUBSET Entities /\ accepted' = {}
  /\ m_tracked' = [e \in Entities |-> IF Known(e) THEN [m_tracked[e] EXCEPT !.missed = @ + 1]
                                      ELSE m_tracked[e]]
  /\ UNCHANGED <<m_geometryPending, unmade, unfollowed, m_brush, refusedOnce, geometryQueue, m_dynamic, nextDynamicId>>

Room == Cardinality(accepted) < MaxOccluders
Considered(e) == considering # Idle /\ e \in considering /\ considering' = considering \ {e}

\* Known under another identity: the entity index was reused, or its model changed.
\* When the removal is refused the entity waits for the next update.
ReplaceStranger(e, seen) ==
  LET add == Mesh("add", nextDynamicId, seen.pose)
      new == [id |-> nextDynamicId, identity |-> seen.identity, pose |-> seen.pose, missed |-> 0]
  IN /\ Known(e) /\ m_tracked[e].identity # seen.identity
     /\ \/ Refused(m_tracked) /\ UNCHANGED <<accepted, nextDynamicId>>
        \/ /\ Send(<<Removal(e)>>, [m_tracked EXCEPT ![e] = Untracked])   \* and no mesh for it yet
           /\ accepted' = accepted /\ nextDynamicId' \in {nextDynamicId, nextDynamicId + 1}
        \/ /\ Room /\ Send(<<Removal(e), add>>, [m_tracked EXCEPT ![e] = new])
           /\ accepted' = accepted \union {e} /\ nextDynamicId' = nextDynamicId + 1

FollowKnown(e, seen) ==
  /\ Known(e) /\ m_tracked[e].identity = seen.identity
  /\ UNCHANGED nextDynamicId
  /\ \/ Room /\ Move(e, seen.pose) /\ accepted' = accepted \union {e}
     \/ Refused(m_tracked) /\ UNCHANGED accepted   \* no room, or the listener is inside it: missed

\* Not loaded yet, too small, without geometry, around the listener, or refused: not tracked.
TrackNew(e, seen) ==
  /\ ~Known(e)
  /\ \/ Refused(m_tracked) /\ UNCHANGED accepted /\ nextDynamicId' \in {nextDynamicId, nextDynamicId + 1}
     \/ /\ Room
        /\ Send(<<Mesh("add", nextDynamicId, seen.pose)>>,
                [m_tracked EXCEPT ![e] = [id |-> nextDynamicId, identity |-> seen.identity,
                                          pose |-> seen.pose, missed |-> 0]])
        /\ accepted' = accepted \union {e} /\ nextDynamicId' = nextDynamicId + 1

Consider(e, seen) ==
  /\ Considered(e) /\ nextDynamicId <= MaxMeshes
  /\ ReplaceStranger(e, seen) \/ FollowKnown(e, seen) \/ TrackNew(e, seen)
  /\ UNCHANGED <<m_geometryPending, unmade, unfollowed, m_brush, refusedOnce, m_dynamic, snapshots>>

\* A brush is pushed at its first sighting and when it moved; seen again after
\* it was gone it is pushed once more.  RefreshTransforms pushes as well.
PushBrush(b, pose) ==
  /\ m_geometryPending = "no" /\ m_brush[b] # pose
  /\ pose = NotPushed => considering # Idle   \* only a whole snapshot can miss it
  /\ IF pose = NotPushed THEN UNCHANGED geometryQueue
     ELSE Send(<<Mesh("update", b, pose)>>, m_tracked)
  /\ m_brush' = [m_brush EXCEPT ![b] = pose]
  /\ UNCHANGED <<m_geometryPending, unmade, unfollowed, m_tracked, considering, accepted, refusedOnce, m_dynamic, nextDynamicId, snapshots>>

\* Mutant: an entity is given one more update.
OverdueLater == {e \in Entities : Known(e) /\ m_tracked[e].missed > MissedBeforeRemove}
Overdue == {e \in Entities : Known(e) /\ m_tracked[e].missed >= MissedBeforeRemove}

EndUpdate ==
  /\ considering = {} /\ considering' = Idle
  /\ RemoveMeshes(Overdue)
  /\ UNCHANGED <<m_geometryPending, unmade, unfollowed, m_brush, accepted, m_dynamic, nextDynamicId, snapshots>>

\* While the native walk is in progress known entities only follow their pose.
RefreshTransforms(e, seen) ==
  /\ m_geometryPending = "no" /\ considering = Idle /\ Known(e) /\ m_tracked[e].identity = seen.identity
  /\ m_tracked[e].pose # seen.pose
  /\ Send(<<Mesh("update", m_tracked[e].id, seen.pose)>>, [m_tracked EXCEPT ![e].pose = seen.pose])
  /\ UNCHANGED <<m_geometryPending, unmade, unfollowed, m_brush, considering, accepted, refusedOnce, m_dynamic, nextDynamicId, snapshots>>

\* Dynamic geometry switched off.
Clear ==
  /\ m_geometryPending = "no" /\ considering = Idle /\ \E e \in Entities : Known(e)
  /\ RemoveMeshes({e \in Entities : Known(e)})
  /\ m_brush' = [b \in Brushes |-> NotPushed]
  /\ UNCHANGED <<m_geometryPending, unmade, unfollowed, considering, accepted, m_dynamic, nextDynamicId, snapshots>>

\* LoadMap and UnloadMap: ResetDynamicOccluders, ClearGeometry and, if the file
\* could be read, SetMapGeometry.  Each may be refused; the last one refused is
\* left for Tick, the removals are not.  (Between an unload and the next load the
\* code updates nothing; here updates may go on, as they do after a failed load.)
Clearing == Mesh("clear", 0, SpawnPose)
Loading == Mesh("map", 0, SpawnPose)
Told == {<<>>, <<Clearing>>, <<Loading>>, <<Clearing, Loading>>}
LeftToTell(told) ==
  CASE told = <<>> -> {"clear", "map"} [] told = <<Clearing>> -> {"no", "map"} [] OTHER -> {"no"}

LoadMap ==
  /\ considering = Idle /\ snapshots < MaxSnapshots
  /\ \E kept \in SUBSET {e \in Entities : Known(e)}, told \in Told :
       /\ Send(SetToSeq({Removal(e) : e \in {f \in Entities : Known(f)} \ kept}) \o told,
               [e \in Entities |-> IF e \in kept THEN m_tracked[e] ELSE Untracked])
       /\ refusedOnce' = (kept # {}) /\ m_geometryPending' \in LeftToTell(told)
       /\ unfollowed' = IF told = <<>> THEN unfollowed ELSE {m_tracked[e].id : e \in kept}
  /\ m_brush' = [b \in Brushes |-> NotPushed] /\ snapshots' = snapshots + 1
  /\ UNCHANGED <<unmade, considering, accepted, m_dynamic, nextDynamicId>>

\* Tick repeats what it could not tell; until then there is no update.
TellAgain ==
  /\ m_geometryPending # "no" /\ m_geometryPending' = "no"
  /\ Send(<<Mesh(m_geometryPending, 0, SpawnPose)>>, m_tracked)
  /\ unfollowed' = {m_tracked[e].id : e \in {f \in Entities : Known(f)}}
  /\ UNCHANGED <<unmade, m_brush, considering, accepted, refusedOnce, m_dynamic, nextDynamicId, snapshots>>

-----------------------------------------------------------------------------
(* Simulation thread *)

\* HandleCommand, as far as every mesh can be made; an unknown id is ignored.
Handled(scene, cmd) ==
  CASE cmd.type = "add" -> [i \in DOMAIN scene \union {cmd.id} |-> IF i = cmd.id THEN cmd.pose ELSE scene[i]]
    [] cmd.type = "update" /\ cmd.id \in DOMAIN scene -> [scene EXCEPT ![cmd.id] = cmd.pose]
    [] cmd.type = "remove" -> [i \in DOMAIN scene \ {cmd.id} |-> scene[i]]
    [] cmd.type = "map" -> Spawned
    [] cmd.type = "clear" -> NoMeshes
    [] OTHER -> scene

\* A mesh the scene does not make (no scene, AddDynamic fails, or a brush that is
\* made static because dynamicGeometry is off) is not there, nor what it replaced,
\* and nobody is told.
MeshesOf(cmd) == CASE cmd.type = "add" -> {cmd.id} [] cmd.type = "map" -> Brushes [] OTHER -> {}

HandleGeometry ==
  /\ geometryQueue # <<>> /\ geometryQueue' = Tail(geometryQueue)
  /\ \E failed \in SUBSET MeshesOf(Head(geometryQueue)) :
       LET made == Handled(m_dynamic, Head(geometryQueue))
       IN /\ m_dynamic' = [i \in DOMAIN made \ failed |-> made[i]]
          /\ unmade' = unmade \union (failed \ Brushes)
  /\ UNCHANGED <<trackerVars, nextDynamicId, snapshots>>

OccludersNext ==
  \/ BeginUpdate \/ EndUpdate \/ Clear \/ LoadMap \/ TellAgain \/ HandleGeometry
  \/ \E e \in Entities, seen \in [identity : Identities, pose : Poses] :
       Consider(e, seen) \/ RefreshTransforms(e, seen)
  \/ \E b \in Brushes, pose \in Poses \union {NotPushed} : PushBrush(b, pose)
-----------------------------------------------------------------------------

Instances == 1..MaxMeshes
OccludersTypeOK ==
  /\ m_tracked \in [Entities -> [id : 0..MaxMeshes, identity : Identities \union {NoIdentity},
                                 pose : Poses, missed : 0..(MaxSnapshots + 1)]]
  /\ m_brush \in [Brushes -> Poses \union {NotPushed}]
  /\ considering = Idle \/ considering \subseteq Entities
  /\ accepted \subseteq Entities /\ refusedOnce \in BOOLEAN /\ unfollowed \subseteq Instances
  /\ unmade \subseteq Instances /\ m_geometryPending \in {"no", "clear", "map"}
  /\ DOMAIN m_dynamic \subseteq Instances \union Brushes
  /\ nextDynamicId \in 1..(MaxMeshes + 1) /\ snapshots \in 0..MaxSnapshots

\* The scene as it will be when the queue is drained, if all that can be made is made.
Ahead == FoldLeft(Handled, m_dynamic, geometryQueue)
Followed == {e \in Entities : Known(e)}

\* Whatever the queue refused and the scene failed to make on the way: every
\* mesh of the scene belongs to one tracked entity, so none is left behind; a
\* tracked entity's mesh, and a brush the tracker pushed, is, if it is in the
\* scene, where the tracker believes it to be; and it is not in the scene only if
\* the scene failed to make it, or its removal was refused when the map changed.
SceneIsFollowed ==
  /\ DOMAIN Ahead \ Brushes \subseteq {m_tracked[e].id : e \in Followed}
  /\ \A e, f \in Followed : m_tracked[e].id = m_tracked[f].id => e = f
  /\ \A e \in Followed : IF m_tracked[e].id \in DOMAIN Ahead THEN Ahead[m_tracked[e].id] = m_tracked[e].pose
                         ELSE m_tracked[e].id \in unfollowed \union unmade
  /\ \A b \in Brushes \intersect DOMAIN Ahead : m_brush[b] # NotPushed => Ahead[b] = m_brush[b]

\* dynamic_max bounds the entities given a place in one update, so of those
\* last seen in the same update; entities of MissedBeforeRemove updates may be
\* in the scene at once, and no more unless the sink refuses removals.
PlacesAreBounded ==
  /\ \A n \in 0..MaxSnapshots : Cardinality({e \in Followed : m_tracked[e].missed = n}) <= MaxOccluders
  /\ considering = Idle /\ ~refusedOnce => Cardinality(Followed) <= MissedBeforeRemove * MaxOccluders

OccludersInv == OccludersTypeOK /\ SceneIsFollowed /\ PlacesAreBounded

OccludersSpec == OccludersInit /\ [][OccludersNext]_occluderVars
=============================================================================
