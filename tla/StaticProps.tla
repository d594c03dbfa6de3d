---------------------------- MODULE StaticProps ----------------------------
(***************************************************************************)
(* The props placed in a map become part of its static mesh: the geometry  *)
(* of a model comes from its .phy, or, failing that, from the hull box of  *)
(* its .mdl; each model is loaded once, and a budget bounds the triangles. *)
(* A triangle is its material; its vertices are those of PhySolid.         *)
(***************************************************************************)
EXTENDS Integers, Sequences, FiniteSets, SequencesExt, FiniteSetsExt

CONSTANTS
  Models,
  PhyFiles,               \* what a .phy may be: solids, blocks of its text, or neither
  MdlFiles,               \* what an .mdl may be: read or not, hull, surfaceprop
  PropCount,              \* number of props placed
  MaxModelTriangles,      \* StaticPropOptions
  MaxPropTriangles        \* StaticPropOptions::maxTriangles

BoxTriangles == 12
MaxMaterialIndex == 127

ASSUME StaticPropsAssumption ==
  {PropCount, MaxModelTriangles, MaxPropTriangles} \subseteq Nat

VARIABLES
  phyFile, mdlFile,       \* the files of each model
  propOptions,            \* boxFallback, includeNonSolid
  placed,                 \* the props of the map, [model, solid]
  nextProp,               \* the prop to instance next; past the last when done
  propModels,             \* cache: model -> its geometry
  propMesh,               \* the triangles so far: prop and material
  loads                   \* history: how often the files of each model were read

propVars == <<phyFile, mdlFile, propOptions, placed, nextProp, propModels, propMesh, loads>>

NoName == ""
NoModel == [valid |-> FALSE, names |-> <<NoName>>, triangles |-> <<>>]

-----------------------------------------------------------------------------
(* ParsePhy and its text *)

\* A solid that is no VPHY solid, or has no ledges, keeps its number and is
\* empty; one whose size is wrong ends the list.
SolidsOf(phy) ==
  LET cut == {s \in DOMAIN phy.solids : phy.solids[s].kind = "cut"}
  IN [s \in 1..(IF cut = {} THEN Len(phy.solids) ELSE Min(cut) - 1) |->
        IF phy.solids[s].kind = "good" THEN phy.solids[s].triangles ELSE <<>>]
TrianglesOf(phy) == FlattenSeq(SolidsOf(phy))
\* A block names the surfaceprop of a solid: of the one it counts, or of the
\* only one when it gives no number.  The last block of a solid decides, except
\* that a block without a number leaves a name that is there.
NameSolid(props, b) ==
  IF b.index \in 0..(Len(props) - 1) THEN [props EXCEPT ![b.index + 1] = b.name]
  ELSE IF b.index < 0 /\ Len(props) = 1 /\ props[1] = NoName THEN [props EXCEPT ![1] = b.name] ELSE props
SolidProps(phy) == FoldLeft(LAMBDA props, b : IF b.block = "solid" THEN NameSolid(props, b) ELSE props,
                            [s \in DOMAIN SolidsOf(phy) |-> NoName], phy.blocks)
\* The material table counts from 1; what nothing names is empty.
NameMaterial(table, b) ==
  IF b.index \notin 1..MaxMaterialIndex THEN table
  ELSE [i \in 1..Max({Len(table), b.index}) |-> IF i = b.index THEN b.name ELSE IF i <= Len(table) THEN table[i] ELSE NoName]
MaterialTable(phy) == FoldLeft(LAMBDA table, b : IF b.block = "materialtable" THEN NameMaterial(table, b) ELSE table,
                               <<>>, phy.blocks)

-----------------------------------------------------------------------------
(* LoadPropModelGeometry *)

FirstName(names) == LET named == {i \in DOMAIN names : names[i] # NoName}
                    IN IF named = {} THEN NoName ELSE names[Min(named)]
HavePhy(m) == phyFile[m].read /\ TrianglesOf(phyFile[m]) # <<>>
NeedMdl(m) == ~HavePhy(m) \/ SolidProps(phyFile[m])[1] = NoName
SurfaceProp(m) ==
  LET ofPhy == IF HavePhy(m) THEN FirstName(SolidProps(phyFile[m])) ELSE NoName
  IN IF ofPhy = NoName /\ NeedMdl(m) /\ mdlFile[m].read THEN mdlFile[m].prop ELSE ofPhy
\* Material 0 is the surfaceprop of the model, as is one the table does not have.
FromPhy(m) ==
  LET names == <<SurfaceProp(m)>> \o MaterialTable(phyFile[m])
      all == TrianglesOf(phyFile[m])
  IN [valid |-> TRUE, names |-> names, triangles |-> [t \in DOMAIN all |-> IF all[t] < Len(names) THEN all[t] ELSE 0]]
FromBox(m) == [valid |-> TRUE, names |-> <<SurfaceProp(m)>>, triangles |-> [t \in 1..BoxTriangles |-> 0]]
LoadPropModelGeometry(m) ==
  IF HavePhy(m) /\ Len(TrianglesOf(phyFile[m])) <= MaxModelTriangles THEN FromPhy(m)
  ELSE IF propOptions.boxFallback /\ mdlFile[m].read /\ mdlFile[m].hull THEN FromBox(m)
  ELSE NoModel

-----------------------------------------------------------------------------
(* ResolveStaticProps, one prop a step *)

StaticPropsInit ==
  /\ phyFile \in [Models -> PhyFiles] /\ mdlFile \in [Models -> MdlFiles]
  /\ propOptions \in [boxFallback : BOOLEAN, includeNonSolid : BOOLEAN]
  /\ placed \in [1..PropCount -> [model : Models, solid : BOOLEAN]]
  /\ nextProp = 1 /\ propModels = <<>> /\ propMesh = <<>> /\ loads = [m \in Models |-> 0]

Skips(p) == ~p.solid /\ ~propOptions.includeNonSolid
\* Mutant: the budget is checked before the model is counted.
FitsBefore(g) == Len(propMesh) <= MaxPropTriangles
FitsBudget(g) == Len(propMesh) + Len(g.triangles) <= MaxPropTriangles
GeometryOf(m) == IF m \in DOMAIN propModels THEN propModels[m] ELSE LoadPropModelGeometry(m)
\* Mutant: a material index counts as one of the table.
MaterialByTable(g, t) == g.names[IF g.triangles[t] = 0 THEN 1 ELSE g.triangles[t]]
MaterialOf(g, t) == g.names[g.triangles[t] + 1]
Instanced(g) == [t \in DOMAIN g.triangles |-> [prop |-> nextProp, material |-> MaterialOf(g, t)]]

SkipProp == /\ nextProp <= PropCount /\ Skips(placed[nextProp])
            /\ nextProp' = nextProp + 1 /\ UNCHANGED <<propModels, propMesh, loads, phyFile, mdlFile, propOptions, placed>>
InstanceProp ==
  /\ nextProp <= PropCount /\ ~Skips(placed[nextProp])
  /\ LET m == placed[nextProp].model
         g == GeometryOf(m)
     IN /\ propModels' = [k \in DOMAIN propModels \union {m} |-> IF k = m THEN g ELSE propModels[k]]
        /\ loads' = [loads EXCEPT ![m] = @ + IF m \in DOMAIN propModels THEN 0 ELSE 1]
        /\ propMesh' = IF g.valid /\ FitsBudget(g) THEN propMesh \o Instanced(g) ELSE propMesh
        \* The first prop over the budget ends it for all that follow.
        /\ nextProp' = IF g.valid /\ ~FitsBudget(g) THEN PropCount + 1 ELSE nextProp + 1
  /\ UNCHANGED <<phyFile, mdlFile, propOptions, placed>>

StaticPropsNext == SkipProp \/ InstanceProp

-----------------------------------------------------------------------------
(* Properties *)

StaticPropsTypeOK == nextProp \in 1..(PropCount + 1) /\ DOMAIN propModels \subseteq Models

\* Every material of an instanced triangle is one its model's files name for
\* it: that of its index in the table, else the surfaceprop of the first
\* solid that has one, else of the .mdl.
NameInTable(phy, i) == LET bs == {b \in DOMAIN phy.blocks : phy.blocks[b].block = "materialtable" /\ phy.blocks[b].index = i}
                       IN IF bs = {} THEN NoName ELSE phy.blocks[Max(bs)].name
MaterialsAreNamed ==
  \A m \in DOMAIN propModels :
    LET g == propModels[m]   phy == phyFile[m]
        ofPhy == HavePhy(m) /\ Len(TrianglesOf(phy)) <= MaxModelTriangles
        index(t) == IF ofPhy THEN TrianglesOf(phy)[t] ELSE 0
        inTable(i) == \E j \in i..MaxMaterialIndex : NameInTable(phy, j) # NoName
    IN g.valid => \A t \in DOMAIN g.triangles :
         MaterialOf(g, t) = IF index(t) > 0 /\ inTable(index(t)) THEN NameInTable(phy, index(t)) ELSE SurfaceProp(m)
\* The budget holds, and what is instanced is each prop once, in order, whole.
BudgetHolds == Len(propMesh) <= MaxPropTriangles
InstancedWhole ==
  /\ \A i, j \in DOMAIN propMesh : i < j => propMesh[i].prop <= propMesh[j].prop
  /\ \A i \in DOMAIN propMesh : LET p == propMesh[i].prop IN
       /\ p < nextProp /\ ~Skips(placed[p])
       /\ Cardinality({j \in DOMAIN propMesh : propMesh[j].prop = p}) = Len(propModels[placed[p].model].triangles)
LoadedOnce == \A m \in Models : loads[m] <= 1
\* Within the budget every solid prop whose model has geometry is there.
NoPropLost ==
  nextProp > PropCount =>
    LET wanted == {p \in 1..PropCount : ~Skips(placed[p]) /\ LoadPropModelGeometry(placed[p].model).valid}
    IN MapThenSumSet(LAMBDA p : Len(LoadPropModelGeometry(placed[p].model).triangles), wanted) <= MaxPropTriangles
         => {propMesh[i].prop : i \in DOMAIN propMesh} = wanted

StaticPropsInv == StaticPropsTypeOK /\ MaterialsAreNamed /\ BudgetHolds /\ InstancedWhole /\ LoadedOnce /\ NoPropLost
=============================================================================
