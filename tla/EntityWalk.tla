----------------------------- MODULE EntityWalk -----------------------------
(***************************************************************************)
(* Where the entities that occlude sound come from: the walk of the        *)
(* client's entity list, sliced over frames while the game goes on         *)
(* creating and removing entities, and the batches Lua collects while the  *)
(* walk is not trusted (core/ClientEntityList, core/AudioEngine).  Both    *)
(* end in one call that is given the entities of the map.                  *)
(***************************************************************************)
EXTENDS Integers, FiniteSets, SequencesExt

CONSTANTS
  WalkMaps, Beings,      \* maps; what an index of the list can hold
  LastIndex,             \* indexes above the world's
  SliceSize,             \* entities of a slice at most (256)
  FewFaults,             \* reads that may fault before a share of them counts (8)
  MaxHappenings          \* bound on what happens in the game

ASSUME WalkAssumption ==
  /\ {LastIndex, SliceSize, FewFaults, MaxHappenings} \subseteq Nat
  /\ SliceSize > 0 /\ "none" \notin Beings /\ "" \notin WalkMaps

VARIABLES
  gameMap, list,         \* the game: its map, index -> being or "none"
  layout,                \* whether the slots are those of this client: right, wrong, or right for the world only
  m_walkState, m_snapshotMap, m_sweep,         \* ClientEntityList
  m_mapName, nativeActive,                     \* AudioEngine
  luaBatch,              \* [open, entities, ready, handed over]
  given,                 \* the last entities an update was given
  held,                  \* history: index -> what it has held since the sweep began
  happenings

walkVars == <<gameMap, list, layout, m_walkState, m_snapshotMap, m_sweep, m_mapName, nativeActive,
              luaBatch, given, held, happenings>>

Indexes == 1..LastIndex
IdleSweep == [active |-> FALSE, next |-> 0, highest |-> 0, faults |-> 0, pending |-> {}]
NoBatch == [open |-> FALSE, entities |-> {}, ready |-> FALSE, closed |-> {}]
NothingGiven == [by |-> "none", map |-> "", records |-> {}, missed |-> {}, faults |-> 0, highest |-> 0]
Record(i) == [index |-> i, map |-> gameMap, being |-> list[i]]
Occupied == {i \in Indexes : list[i] # "none"}

WalkInit ==
  /\ gameMap \in WalkMaps /\ list = [i \in Indexes |-> "none"]
  /\ layout \in {"right", "wrong", "world"}
  /\ m_walkState = "Uninitialized" /\ m_snapshotMap = "" /\ m_sweep = IdleSweep
  /\ m_mapName = "" /\ nativeActive = FALSE
  /\ luaBatch = NoBatch /\ given = NothingGiven /\ held = <<>> /\ happenings = 0

-----------------------------------------------------------------------------
(* The game *)

Happens(change) == happenings < MaxHappenings /\ happenings' = happenings + 1 /\ change

\* An entity is created at a free index or removed; a running sweep remembers what its index held.
EntityChanges(i, being) ==
  /\ (being = "none") # (list[i] = "none")
  /\ list' = [list EXCEPT ![i] = being]
  /\ held' = IF i \in DOMAIN held THEN [held EXCEPT ![i] = @ \cup {being}] ELSE held
  /\ UNCHANGED <<gameMap, layout, m_walkState, m_snapshotMap, m_sweep, m_mapName, nativeActive, luaBatch, given>>

\* The level changes after the ShutDown hook has unloaded the map.
LevelChanges(map) ==
  /\ m_mapName = "" /\ map # gameMap
  /\ gameMap' = map /\ list' = [i \in Indexes |-> "none"]
  /\ UNCHANGED <<layout, m_walkState, m_snapshotMap, m_sweep, m_mapName, nativeActive, luaBatch, given, held>>

-----------------------------------------------------------------------------
(* ClientEntityList *)

\* Shutdown, then the interfaces: the configuration may disable the walk, an interface or a slot be missing.
InitializeList(resolved) ==
  /\ m_walkState = "Uninitialized"
  /\ m_sweep' = IdleSweep /\ m_snapshotMap' = ""
  /\ m_walkState' = IF resolved THEN "Unvalidated" ELSE "Failed"
  /\ UNCHANGED <<gameMap, list, layout, m_mapName, nativeActive, luaBatch, given, held>>

ShutdownList ==
  /\ m_walkState # "Uninitialized" /\ m_mapName = ""
  /\ m_sweep' = IdleSweep /\ m_snapshotMap' = "" /\ m_walkState' = "Uninitialized"
  /\ UNCHANGED <<gameMap, list, layout, m_mapName, nativeActive, luaBatch, given, held>>

\* Cancels the sweep and forgets the validation; a failed walk stays failed.
Invalidated == IF m_walkState = "Validated" THEN "Unvalidated" ELSE m_walkState
\* Mutant: a sweep goes on into the next map.
MapChangeKeepsSweep == m_sweep
SweepAfterInvalidate == IdleSweep

GetHighestEntityIndex == IF Occupied = {} THEN 0 ELSE Max(Occupied)

\* Validate: the list has entities, the world is that of this map.
Validate ==
  CASE layout = "wrong" -> "no"
    [] layout # "wrong" /\ GetHighestEntityIndex = 0 -> "later"
    [] OTHER -> IF gameMap = m_mapName THEN "yes" ELSE "no"

\* ReadEntity: nobody there, or everything, or a fault where a slot is not what it should be.
MayFault(i) == layout = "world" /\ i \in Occupied
BeginSweep == [IdleSweep EXCEPT !.active = TRUE, !.next = 1, !.highest = GetHighestEntityIndex]

\* Advance, by a slice that reads up to index last, faulting on some.
SweepBy(sweep, last, faulting) ==
  LET reads == (sweep.next..last) \cap (Occupied \ faulting)
  IN [sweep EXCEPT !.next = last + 1, !.faults = @ + Cardinality(faulting),
                   !.pending = @ \cup {Record(i) : i \in reads}]

TooManyFaults(sweep) == sweep.faults > FewFaults /\ sweep.faults * 4 > sweep.highest
RecentFaults(sweep, last, faulting) == SweepBy([sweep EXCEPT !.pending = {}], last, faulting).pending

\* What the walk has come to after the test of the map's name and the validation: its state.
StateToWalk ==
  LET state == IF m_snapshotMap # m_mapName THEN Invalidated ELSE m_walkState
  IN CASE state # "Unvalidated" -> state
       [] state = "Unvalidated" /\ Validate = "yes" -> "Validated"
       [] state = "Unvalidated" /\ Validate = "later" -> "Unvalidated"
       [] OTHER -> "Failed"
SweepToWalk ==
  LET sweep == IF m_snapshotMap # m_mapName THEN SweepAfterInvalidate ELSE m_sweep
  IN IF sweep.active THEN sweep ELSE BeginSweep

-----------------------------------------------------------------------------
(* AudioEngine *)

Give(by, records, missed, sweep) ==
  [by |-> by, map |-> gameMap, records |-> records, missed |-> missed,
   faults |-> sweep.faults, highest |-> sweep.highest]
\* What held an index all along and was not read.
Missed(during, records) ==
  {i \in Indexes : during[i] # {"none"} /\ Cardinality(during[i]) = 1} \ {r.index : r \in records}
GiveLua ==
  IF luaBatch.ready
  THEN luaBatch' = [luaBatch EXCEPT !.ready = FALSE] /\ given' = Give("lua", luaBatch.closed, {}, IdleSweep)
  ELSE UNCHANGED <<luaBatch, given>>

\* The walk is in use and validated: a slice of it, and the entities once it is complete.
WalkSlice ==
  LET sweep == SweepToWalk
      begun == IF m_sweep.active /\ sweep = m_sweep THEN held ELSE [i \in Indexes |-> {list[i]}]
  IN \E last \in (sweep.next - 1)..Min({sweep.highest, sweep.next + SliceSize - 1}) :
       \E faulting \in SUBSET {i \in sweep.next..last : MayFault(i)} :
         LET after == SweepBy(sweep, last, faulting)
             complete == last = sweep.highest
             failed == complete /\ TooManyFaults(after)
         IN /\ sweep.highest > 0 => last >= sweep.next
            /\ m_walkState' = IF failed THEN "Failed" ELSE "Validated"
            /\ m_sweep' = IF complete THEN IdleSweep ELSE after
            /\ held' = IF complete THEN <<>> ELSE begun
            /\ m_snapshotMap' = m_mapName /\ nativeActive' = ~failed
            /\ IF failed THEN GiveLua
               ELSE /\ luaBatch' = [luaBatch EXCEPT !.ready = FALSE]
                    /\ given' = IF complete
                                THEN Give("walk", after.pending,
                                          Missed(begun, after.pending), after)
                                ELSE Give("slice", RecentFaults(sweep, last, faulting), {}, after)

\* UpdateDynamicOccluders when it is time or a sweep goes on.
UpdateFromWalk(nativeWanted) ==
  /\ m_mapName # ""
  /\ LET available == nativeWanted /\ m_walkState \notin {"Failed", "Uninitialized"}
     IN IF available /\ StateToWalk = "Validated" THEN WalkSlice
        ELSE /\ m_walkState' = IF available THEN StateToWalk ELSE m_walkState
             /\ m_snapshotMap' = IF available THEN m_mapName ELSE m_snapshotMap
             /\ m_sweep' = IdleSweep /\ held' = <<>> /\ nativeActive' = FALSE
             /\ GiveLua
  /\ UNCHANGED <<gameMap, list, layout, m_mapName>>

\* No kind of occluder is wanted.
UpdateWithNothingWanted ==
  /\ m_mapName # ""
  /\ m_sweep' = IdleSweep /\ held' = <<>> /\ luaBatch' = [luaBatch EXCEPT !.ready = FALSE]
  /\ UNCHANGED <<gameMap, list, layout, m_walkState, m_snapshotMap, m_mapName, nativeActive, given>>

BeginLuaEntities ==
  /\ luaBatch' = [luaBatch EXCEPT !.open = TRUE, !.entities = {}]
  /\ UNCHANGED <<gameMap, list, layout, m_walkState, m_snapshotMap, m_sweep, m_mapName, nativeActive, given, held>>
PushLuaEntity(i) ==
  /\ luaBatch.open /\ i \in Occupied
  /\ luaBatch' = [luaBatch EXCEPT !.entities = @ \cup {Record(i)}]
  /\ UNCHANGED <<gameMap, list, layout, m_walkState, m_snapshotMap, m_sweep, m_mapName, nativeActive, given, held>>
EndLuaEntities ==
  /\ luaBatch.open
  /\ luaBatch' = [open |-> FALSE, entities |-> {}, ready |-> TRUE, closed |-> luaBatch.entities]
  /\ UNCHANGED <<gameMap, list, layout, m_walkState, m_snapshotMap, m_sweep, m_mapName, nativeActive, given, held>>

\* ResetDynamicOccluders with the map's name: LoadMap and UnloadMap.
\* Mutant: what Lua reported of the map before is kept.
ResetKeepsBatch == luaBatch
LuaAfterReset == NoBatch
MapIs(name) ==
  /\ m_mapName' = name /\ m_walkState' = Invalidated /\ m_sweep' = SweepAfterInvalidate
  /\ held' = IF SweepAfterInvalidate.active THEN held ELSE <<>>
  /\ m_snapshotMap' = "" /\ luaBatch' = LuaAfterReset /\ nativeActive' = FALSE
  /\ given' = NothingGiven
  /\ UNCHANGED <<gameMap, list, layout>>

WalkNext ==
  \/ /\ UNCHANGED happenings
     /\ \/ \E nativeWanted \in BOOLEAN : UpdateFromWalk(nativeWanted)
        \/ UpdateWithNothingWanted
        \/ BeginLuaEntities \/ EndLuaEntities \/ \E i \in Indexes : PushLuaEntity(i)
  \/ Happens(\/ \E i \in Indexes, being \in Beings \cup {"none"} : EntityChanges(i, being)
             \/ \E map \in WalkMaps : LevelChanges(map) \/ MapIs(map)
             \/ m_mapName # "" /\ MapIs("")
             \/ ShutdownList \/ \E resolved \in BOOLEAN : InitializeList(resolved))
WalkSpec == WalkInit /\ [][WalkNext]_walkVars

-----------------------------------------------------------------------------
(* Properties *)

\* A sweep belongs to a validated walk of the engine's map, and never outlives it.
SweepIsOfThisMap ==
  m_sweep.active => /\ m_walkState = "Validated" /\ m_snapshotMap = m_mapName /\ gameMap = m_mapName
                    /\ \A r \in m_sweep.pending : r.map = gameMap

\* Whoever collected them, the entities an update is given are those of the map the game runs.
GivenOfThisMap == \A r \in given.records : r.map = given.map

\* A complete walk is no picture of one moment, yet leaves out no entity that
\* was there from its beginning to its end, but for the few whose reads faulted.
NobodyIsMissed ==
  /\ Cardinality(given.missed) <= given.faults
  /\ given.by = "walk" => given.faults <= FewFaults \/ given.faults * 4 <= given.highest

WalkInv ==
  /\ m_walkState \in {"Uninitialized", "Unvalidated", "Validated", "Failed"}
  /\ m_sweep.next <= m_sweep.highest + 1 /\ m_sweep.highest <= LastIndex
  /\ SweepIsOfThisMap /\ GivenOfThisMap /\ NobodyIsMissed
=============================================================================
