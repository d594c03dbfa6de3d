------------------------------- MODULE MCWorld -------------------------------
(***************************************************************************)
(* What reaches the engine from outside its audio path, each component     *)
(* alone, in one instance for TLC: the map's geometry, its props and its   *)
(* moving entities, materials and files.  `subject` says which of them     *)
(* moves in a behaviour.                                                   *)
(***************************************************************************)
EXTENDS DynamicOccluders, SceneBuilder, EntityWalk, MapGeometry, PhySolid, StaticProps,
        MaterialLookup, GameFiles, PathCache, TextReaders, TLC

-----------------------------------------------------------------------------
(* A map: a quad and a triangle of the world, a displacement over the quad *)
(* and the triangle again as a door; two strings of materials, one with a  *)
(* light; one static prop.                                                 *)

MCFace(first, num, texinfo, disp) == [first |-> first, num |-> num, texinfo |-> texinfo, disp |-> disp]

MCPropLump ==
  [dir |-> << [id |-> "sprp", packed |-> FALSE, ofs |-> 2000, len |-> 432] >>, whole |-> FALSE, lzma |-> 0,
   size |-> 3000, at |-> 2000,
   words |-> [size |-> 4 + 256 + 4 + 4 + 4 + 160, models |-> 2, leaves |-> 2, count |-> 2, version |-> 11,
              types |-> <<0, 1>>]]

MCBsp ==
  [vertexes |-> << <<0, 0, 0>>, <<2, 0, 0>>, <<2, 2, 0>>, <<0, 2, 0>>, <<4, 0, 0>> >>,
   edges |-> << <<0, 0>>, <<0, 1>>, <<1, 2>>, <<2, 3>>, <<3, 0>>, <<1, 4>>, <<4, 2>> >>,
   surfedges |-> <<1, 2, 3, 4, 5, 6, -2>>,
   faces |-> <<MCFace(0, 4, 0, -1), MCFace(4, 3, 1, -1), MCFace(0, 4, 0, 0), MCFace(4, 3, 1, -1)>>,
   models |-> <<[first |-> 0, num |-> 3], [first |-> 3, num |-> 1]>>,
   texinfo |-> <<[flags |-> {}, data |-> 0], [flags |-> {"light"}, data |-> 1]>>,
   texdata |-> <<0, 1>>, table |-> <<0, 1>>, strings |-> <<"wood", "stone">>,
   dispinfo |-> <<[start |-> <<2, 0, 0>>, first |-> 0, power |-> 1]>>,
   dispverts |-> [i \in 1 .. 9 |-> IF i = 1 THEN <<0, 0, 1>> ELSE <<0, 0, 0>>],
   entities |-> <<"{", "classname", "worldspawn", "}",
                  "{", "model", "*1", "classname", "trigger_multiple", "}",
                  "{", "model", "*1", "classname", "func_door", "origin", "1 0 0", "}">>,
   props |-> <<MCPropLump>>]

-----------------------------------------------------------------------------
(* Collision models                                                        *)

MCLedge(points, corners, size) == [points |-> points, corners |-> corners, size |-> size]

\* A good ledge beside one that is good, degenerate or out of bounds, or behind
\* one without points.
MCLedges ==
  {(3 :> MCLedge(4, << <<0, 1, 2>> >>, 2)) @@ (5 :> MCLedge(2, <<c>>, 5)) :
     c \in {<<0, 1, 2>>, <<0, 0, 1>>, <<0, 99, 1>>}}
  \union {(3 :> MCLedge(0, << <<0, 1, 2>> >>, 2)) @@ (5 :> MCLedge(2, << <<0, 1, 2>> >>, 5))}

\* Nodes lead on, back, to themselves or out of the solid, to no ledge, to
\* either one, beyond the end or to the start.
MCNodeWords ==
  [n \in NodePlaces |->
     [right : {-2, 0, 2, 4} \ (IF n = 12 THEN {4} ELSE IF n = 14 THEN {2} ELSE {}),
      ledge : {0, 3 - n, 5 - n, 20, -n}]]

-----------------------------------------------------------------------------
(* Props: a .phy may be unreadable, cut, foreign, with blocks for solids   *)
(* or material tables that name any index.                                 *)

Solid(kind, triangles) == [kind |-> kind, triangles |-> triangles]
Block(kind, index, name) == [block |-> kind, index |-> index, name |-> name]
Phy(read, solids, blocks) == [read |-> read, solids |-> solids, blocks |-> blocks]

MCPhys ==
  {Phy(FALSE, <<>>, <<>>),
   Phy(TRUE, <<Solid("foreign", <<>>), Solid("cut", <<>>), Solid("good", <<0>>)>>, <<>>),
   Phy(TRUE, <<Solid("good", <<0, 2>>)>>, <<Block("solid", -1, "wood")>>),
   Phy(TRUE, <<Solid("foreign", <<>>), Solid("good", <<1, 2>>), Solid("good", <<3>>)>>,
       <<Block("solid", 1, "wood"), Block("materialtable", 2, "metal"), Block("solid", 5, "x")>>),
   Phy(TRUE, <<Solid("good", <<0, 0, 0, 0>>)>>, <<Block("solid", 0, "wood"), Block("materialtable", 128, "metal")>>)}

MCMdls ==
  {[read |-> FALSE, hull |-> FALSE, prop |-> ""], [read |-> TRUE, hull |-> TRUE, prop |-> "glass"],
   [read |-> TRUE, hull |-> FALSE, prop |-> ""]}

-----------------------------------------------------------------------------
(* Materials and files                                                     *)

MCHint == [p \in Props |-> "metal"]
MCArchives == <<1, 2>>
MCLayouts == <<"x">>
MCRowBlocks == [r \in ProbeRows |-> IF r = 2 THEN 1 ELSE r]

-----------------------------------------------------------------------------
VARIABLE subject

One(S) == CHOOSE x \in S : TRUE

\* What does not move starts in one state.
AtRest ==
  /\ subject # "scenery" => flattened = FALSE
  /\ subject # "walk" => gameMap = One(WalkMaps) /\ layout = "right"
  /\ subject # "geometry" =>
       bspLayout = One(HeaderLayouts) /\ bsp = [SoundBsp EXCEPT !["props"][1] = GameLumpAs(@, FALSE, 0, FALSE)]
  /\ subject # "solid" =>
       solidBytes = [root |-> One(Roots), nodes |-> [n \in NodePlaces |-> One(NodeWords[n])], ledges |-> One(LedgeVariants)]
  /\ subject # "props" =>
       /\ phyFile = [m \in Models |-> One(PhyFiles)] /\ mdlFile = [m \in Models |-> One(MdlFiles)]
       /\ propOptions = [boxFallback |-> FALSE, includeNonSolid |-> FALSE]
       /\ placed = [p \in 1 .. PropCount |-> [model |-> One(Models), solid |-> TRUE]]
  /\ subject # "materials" => scripts = One(Scripts) /\ m_materials = One(Library) /\ m_aliases = <<>>
  /\ subject # "files" => engineFiles = {} /\ looseFiles = {}
  /\ subject # "readers" => reading = "json" /\ tokens = <<>>

\* Everything but the variables of the component that moves stands still.
Rest(c) ==
  /\ c # "occluders" => UNCHANGED occluderVars
  /\ c # "scenery" => UNCHANGED sceneryVars
  /\ c # "walk" => UNCHANGED walkVars
  /\ c # "geometry" => UNCHANGED bspVars
  /\ c # "solid" => UNCHANGED phyVars
  /\ c # "props" => UNCHANGED propVars
  /\ c # "materials" => UNCHANGED lookupVars
  /\ c # "files" => UNCHANGED filesVars
  /\ c # "cache" => UNCHANGED cacheVars
  /\ c # "readers" => UNCHANGED readerVars

MCInit ==
  /\ subject \in {"occluders", "scenery", "walk", "geometry", "solid", "props",
                 "materials", "files", "cache", "readers"}
  /\ AtRest
  /\ OccludersInit /\ SceneryInit /\ WalkInit /\ MapGeometryInit
  /\ LookupInit /\ FilesInit /\ PathCacheInit /\ ReadersInit
  /\ StaticPropsInit /\ PhySolidInit

MCNext ==
  /\ UNCHANGED subject
  /\ \/ subject = "occluders" /\ OccludersNext /\ Rest("occluders")
     \/ subject = "scenery" /\ SceneryNext /\ Rest("scenery")
     \/ subject = "walk" /\ WalkNext /\ Rest("walk")
     \/ subject = "geometry" /\ MapGeometryNext /\ Rest("geometry")
     \/ subject = "solid" /\ PhySolidNext /\ Rest("solid")
     \/ subject = "props" /\ StaticPropsNext /\ Rest("props")
     \/ subject = "materials" /\ LookupNext /\ Rest("materials")
     \/ subject = "files" /\ FilesNext /\ Rest("files")
     \/ subject = "cache" /\ PathCacheNext /\ Rest("cache")
     \/ subject = "readers" /\ ReadersNext /\ Rest("readers")

mcVars ==
  <<occluderVars, sceneryVars, walkVars, bspVars, phyVars, propVars, lookupVars,
    filesVars, cacheVars, readerVars, subject>>

MCSpec == MCInit /\ [][MCNext]_mcVars

\* States are told apart by what may have moved.
MCView ==
  <<subject,
    CASE subject = "occluders" -> <<occluderVars>>
      [] subject = "scenery" -> <<sceneryVars>>
      [] subject = "walk" -> <<walkVars>>
      [] subject = "geometry" -> <<bspVars>>
      [] subject = "solid" -> <<phyVars>>
      [] subject = "props" -> <<propVars>>
      [] subject = "materials" -> <<lookupVars>>
      [] subject = "files" -> <<filesVars>>
      [] subject = "cache" -> <<cacheVars>>
      [] subject = "readers" -> <<readerVars>>>>

-----------------------------------------------------------------------------
\* A component at rest is not looked at.
Moves(c, inv) == subject = c => inv

\* The scene the simulation traces is the world: what DynamicOccluders tracks,
\* SceneBuilder builds and EntityWalk reports.
WorldInv ==
  Moves("occluders", OccludersInv) /\ Moves("scenery", SceneryInv) /\ Moves("walk", WalkInv)

\* The geometry and materials of a map are the file's: what MapGeometry,
\* PhySolid, StaticProps, MaterialLookup and the parsers of TextReaders take from it.
MapInv ==
  /\ Moves("geometry", MapGeometryInv) /\ Moves("solid", PhySolidInv)
  /\ Moves("props", StaticPropsInv) /\ Moves("materials", LookupInv) /\ Moves("readers", ReadersInv)

\* What is read is what the files hold: GameFiles and PathCache.
ReadInv == Moves("files", FilesInv) /\ Moves("cache", PathCacheInv)
=============================================================================
