--------------------------- MODULE SceneBuilder ---------------------------
(***************************************************************************)
(* The scene the rays are traced in: SceneBuilder and the objects it gets  *)
(* from the SDK.  Adding and removing take effect for the tracer at the    *)
(* next commit, so a static mesh taken out of the scene is kept until      *)
(* then.  A dynamic mesh is an instance of a scene of its own, or, for a   *)
(* tracer without instances (Radeon Rays), a static mesh built anew for    *)
(* every pose.  Any creation in the SDK may fail.  Geometry is a mesh with *)
(* the pose it was built at.                                               *)
(***************************************************************************)
EXTENDS Integers, FiniteSets

CONSTANTS
  Places,                    \* transforms
  MaxHandles, MaxEdits       \* bounds: objects the SDK creates, calls

Fixed == "fixed"   \* a static mesh, in world coordinates

ASSUME SceneAssumption == {MaxHandles, MaxEdits} \subseteq Nat /\ Places # {} /\ Fixed \notin Places

VARIABLES
  flattened,                 \* m_sceneSettings.type = IPL_SCENETYPE_RADEONRAYS
  m_scene,                   \* TRUE: there is a scene
  m_staticMeshes, m_retiredMeshes,
  m_dynamicEntries,          \* set of dynamic entries
  m_dirty,
  added, traced,             \* SDK: objects in the scene; the same as of its last commit
  live, lastHandle,          \* SDK: objects not released; the last one created
  place,                     \* SDK: where each object of the scene is
  edits

builderVars == <<flattened, m_scene, m_staticMeshes, m_retiredMeshes, m_dynamicEntries, m_dirty>>
sdkVars == <<added, traced, live, lastHandle, place>>
sceneryVars == <<builderVars, sdkVars, edits>>

None == 0
Handles == 1..MaxHandles
\* subMesh, subScene, instance; the mesh itself when flattened.
DynamicEntry(sub, scene, instance, transform) ==
  [subMesh |-> sub, subScene |-> scene, instance |-> instance, transform |-> transform,
   dirty |-> FALSE, stale |-> FALSE]
Held(entry) == {entry.subMesh, entry.subScene, entry.instance} \ {None}
InScene(entry) == IF flattened THEN entry.subMesh ELSE entry.instance

SceneryInit ==
  /\ flattened \in BOOLEAN /\ m_scene = TRUE
  /\ m_staticMeshes = {} /\ m_retiredMeshes = {} /\ m_dynamicEntries = {} /\ m_dirty = FALSE
  /\ added = {} /\ traced = {} /\ live = {} /\ lastHandle = None
  /\ place = [h \in Handles |-> Fixed] /\ edits = 0

Edited == edits < MaxEdits /\ edits' = edits + 1

-----------------------------------------------------------------------------
(* Static meshes *)

AddStaticMesh ==
  /\ m_scene /\ Edited /\ lastHandle < MaxHandles
  /\ LET mesh == lastHandle + 1
     IN /\ lastHandle' = mesh /\ live' = live \union {mesh}
        /\ m_staticMeshes' = m_staticMeshes \union {mesh} /\ added' = added \union {mesh}
  /\ m_dirty' = TRUE
  /\ UNCHANGED <<flattened, m_scene, m_retiredMeshes, m_dynamicEntries, traced, place>>

ClearStatic ==
  /\ m_scene /\ Edited /\ m_staticMeshes # {}
  /\ added' = added \ m_staticMeshes
  /\ m_retiredMeshes' = m_retiredMeshes \union m_staticMeshes /\ m_staticMeshes' = {}
  /\ m_dirty' = TRUE
  /\ UNCHANGED <<flattened, m_scene, m_dynamicEntries, traced, live, lastHandle, place>>

-----------------------------------------------------------------------------
(* Dynamic meshes *)

NewDynamicEntry(first, transform) ==
  IF flattened THEN DynamicEntry(first, None, None, transform) ELSE DynamicEntry(first + 1, first, first + 2, transform)

AddDynamic(transform) ==
  /\ m_scene /\ Edited
  /\ LET entry == NewDynamicEntry(lastHandle + 1, transform)
     IN /\ lastHandle + Cardinality(Held(entry)) <= MaxHandles
        /\ lastHandle' = lastHandle + Cardinality(Held(entry))
        /\ live' = live \union Held(entry) /\ added' = added \union {InScene(entry)}
        /\ place' = [place EXCEPT ![InScene(entry)] = transform]
        /\ m_dynamicEntries' = m_dynamicEntries \union {entry}
  /\ m_dirty' = TRUE
  /\ UNCHANGED <<flattened, m_scene, m_staticMeshes, m_retiredMeshes, traced>>

\* Mutant: the sub-scene of a failed entry stays.
FailedKeepsScene(created) == created \ {lastHandle + 1}
FailedReleases(created) == created

\* Creating the sub-scene, its mesh or the instance fails: what was created is released.
AddDynamicFails ==
  /\ m_scene /\ Edited
  /\ \E steps \in 0..2 :
       LET created == (lastHandle + 1)..(lastHandle + steps)
       IN /\ flattened => steps = 0
          /\ lastHandle + steps <= MaxHandles /\ lastHandle' = lastHandle + steps
          /\ live' = (live \union created) \ FailedReleases(created)
  /\ UNCHANGED <<builderVars, added, traced, place>>

\* A transform equal to the one of the entry changes nothing.
UpdateDynamic(entry, transform) ==
  /\ m_scene /\ Edited /\ entry.transform # transform
  /\ m_dynamicEntries' = (m_dynamicEntries \ {entry})
                           \union {[entry EXCEPT !.transform = transform, !.dirty = TRUE]}
  /\ m_dirty' = TRUE
  /\ UNCHANGED <<flattened, m_scene, m_staticMeshes, m_retiredMeshes, sdkVars>>

\* Of an entry the instance, its mesh and its scene are released at once, a
\* flattened mesh at the next commit.
\* Mutant: as the others.
RemovedAtOnce(entries) == UNION {Held(e) : e \in entries}
ReleasedAtOnce(entries) == IF flattened THEN {} ELSE UNION {Held(e) : e \in entries}

RemoveEntries(entries) ==
  /\ m_dynamicEntries' = m_dynamicEntries \ entries
  /\ added' = added \ {InScene(e) : e \in entries}
  /\ live' = live \ ReleasedAtOnce(entries)
  /\ m_retiredMeshes' = m_retiredMeshes \union ((UNION {Held(e) : e \in entries}) \ ReleasedAtOnce(entries))

RemoveDynamic(entries) ==   \* of one, or ClearDynamic
  /\ m_scene /\ Edited /\ entries # {} /\ RemoveEntries(entries)
  /\ m_dirty' = TRUE
  /\ UNCHANGED <<flattened, m_scene, m_staticMeshes, traced, lastHandle, place>>

-----------------------------------------------------------------------------
(* Commit *)

Moved == {e \in m_dynamicEntries : e.dirty}
\* The replacements of flattened entries, numbered after the last object.
Renamed(rebuilt) == CHOOSE f \in [rebuilt -> (lastHandle + 1)..(lastHandle + Cardinality(rebuilt))] :
                      \A a, b \in rebuilt : f[a] = f[b] => a = b

\* RebuildFlattenedDynamic puts the replacement in and retires the old mesh;
\* when it fails the old one stays, and is not built again until the entry moves.
CommitFlattened(rebuilt) ==
  LET new == Renamed(rebuilt)
      After(e) == IF e \in rebuilt THEN [e EXCEPT !.subMesh = new[e], !.dirty = FALSE, !.stale = FALSE]
                  ELSE [e EXCEPT !.dirty = FALSE, !.stale = @ \/ e.dirty]
      old == {e.subMesh : e \in rebuilt}
  IN /\ flattened /\ lastHandle + Cardinality(rebuilt) <= MaxHandles
     /\ lastHandle' = lastHandle + Cardinality(rebuilt)
     /\ m_dynamicEntries' = {After(e) : e \in m_dynamicEntries}
     /\ added' = (added \ old) \union {new[e] : e \in rebuilt}
     /\ live' = (live \union {new[e] : e \in rebuilt}) \ (m_retiredMeshes \union old)
     /\ place' = [h \in Handles |-> IF \E e \in rebuilt : new[e] = h
                                    THEN (CHOOSE e \in rebuilt : new[e] = h).transform ELSE place[h]]

CommitInstances ==
  /\ ~flattened
  /\ m_dynamicEntries' = {[e EXCEPT !.dirty = FALSE] : e \in m_dynamicEntries}
  /\ place' = [h \in Handles |-> IF \E e \in Moved : e.instance = h
                                 THEN (CHOOSE e \in Moved : e.instance = h).transform ELSE place[h]]
  /\ live' = live \ m_retiredMeshes /\ UNCHANGED <<added, lastHandle>>

\* The retired meshes are released after the scene's commit.
Commit ==
  /\ m_scene /\ m_dirty
  /\ CommitInstances \/ \E rebuilt \in SUBSET Moved : CommitFlattened(rebuilt)
  /\ traced' = added' /\ m_retiredMeshes' = {} /\ m_dirty' = FALSE
  /\ UNCHANGED <<flattened, m_scene, m_staticMeshes, edits>>

\* Everything leaves the scene, which is committed empty and released.
Shutdown ==
  /\ m_scene /\ m_scene' = FALSE
  /\ live' = live \ (m_staticMeshes \union m_retiredMeshes \union UNION {Held(e) : e \in m_dynamicEntries})
  /\ m_staticMeshes' = {} /\ m_retiredMeshes' = {} /\ m_dynamicEntries' = {} /\ m_dirty' = FALSE
  /\ added' = {} /\ traced' = {}
  /\ UNCHANGED <<flattened, lastHandle, place, edits>>

SceneryNext ==
  \/ AddStaticMesh \/ ClearStatic \/ AddDynamicFails \/ Commit \/ Shutdown
  \/ \E p \in Places : AddDynamic(p) \/ \E e \in m_dynamicEntries : UpdateDynamic(e, p)
  \/ \E entries \in {{e} : e \in m_dynamicEntries} \union {m_dynamicEntries} : RemoveDynamic(entries)

-----------------------------------------------------------------------------

SceneryTypeOK ==
  /\ flattened \in BOOLEAN /\ m_scene \in BOOLEAN /\ m_dirty \in BOOLEAN
  /\ m_staticMeshes \subseteq Handles /\ m_retiredMeshes \subseteq Handles
  /\ added \subseteq Handles /\ traced \subseteq Handles /\ live \subseteq Handles
  /\ lastHandle \in 0..MaxHandles /\ place \in [Handles -> Places \union {Fixed}] /\ edits \in 0..MaxEdits

\* Every object of the SDK is held exactly as long as it is alive, so none is
\* leaked or released twice, whatever failed; a static mesh the tracer may
\* still hit is alive; and after a commit the tracer sees every mesh where the
\* last call put it, but for a flattened one whose rebuilding failed.
SceneryInv ==
  /\ SceneryTypeOK
  /\ live = m_staticMeshes \union m_retiredMeshes \union UNION {Held(e) : e \in m_dynamicEntries}
  /\ \A a, b \in m_dynamicEntries : a # b => Held(a) \intersect Held(b) = {}
  /\ \A h \in traced \ live : ~flattened /\ place[h] # Fixed   \* instances, which the SDK keeps
  /\ m_scene /\ ~m_dirty =>
       /\ traced = m_staticMeshes \union {InScene(e) : e \in m_dynamicEntries}
       /\ m_retiredMeshes = {}
       /\ \A e \in m_dynamicEntries : place[InScene(e)] = e.transform \/ (flattened /\ e.stale)
=============================================================================
