----------------------------- MODULE PhySolid -----------------------------
(***************************************************************************)
(* One collision solid of a .phy: a binary tree of nodes whose leaves      *)
(* point to ledges (convex pieces), read from bytes that may be damaged.   *)
(* The tree is walked depth first, one call of WalkTree a step; when it    *)
(* yields nothing, the ledges are read one after the other.  Offsets are   *)
(* in units of 16 bytes, from the start of the compact surface.            *)
(***************************************************************************)
EXTENDS Integers, Sequences, FiniteSets, SequencesExt

CONSTANTS
  SolidEnd,               \* where the solid ends
  NodePlaces,             \* where nodes of the tree may lie
  NodeWords,              \* place -> what the two words of a node there may be
  LedgeVariants,          \* functions from the places of ledges to their words
  Roots,                  \* what the offset of the root may be
  MaxLedges,              \* kMaxLedgesPerSolid = 65536
  MaxSolidTriangles,      \* kMaxTrianglesPerSolid
  MaxTreeDepth            \* kMaxTreeDepth = 64

HeaderUnits == 3          \* kCompactSurfaceSize
NodeUnits == 2            \* kLedgeNodeSize; ledges, triangles and points take 1

ASSUME PhySolidAssumption ==
  {SolidEnd, MaxLedges, MaxSolidTriangles, MaxTreeDepth} \subseteq Nat /\ NodePlaces \subseteq 0..(SolidEnd - NodeUnits)

VARIABLES
  solidBytes,             \* what the file holds: root, nodes, ledges
  walk,                   \* stack of calls still to make, seen nodes and ledges, whether any ledge was read
  solidPhase,             \* "tree", "linear", "read"
  nextLedge,                  \* linear recovery: the next ledge
  solid,                  \* m_out: vertices, triangles, number of ledges
  emitted, walkSteps      \* history: the ledges read, the number of steps

phyVars == <<solidBytes, walk, solidPhase, nextLedge, solid, emitted, walkSteps>>

NoSolid == [vertices |-> <<>>, triangles |-> <<>>, ledges |-> 0]
NoLedge == [points |-> 0, corners |-> <<>>, size |-> 0]
\* Anything else found at a place is no ledge.
LedgeAt(p) == IF p \in DOMAIN solidBytes.ledges THEN solidBytes.ledges[p] ELSE NoLedge

-----------------------------------------------------------------------------
(* SurfaceParser::ReadLedge, Vertex *)

\* Points are numbered in the order triangles ask for them, each once a ledge;
\* a triangle asks for none after one that is out of range.
Asked(corner, room) == LET bad == {k \in 1..3 : corner[k] >= room}
                       IN SubSeq(corner, 1, IF bad = {} THEN 3 ELSE (CHOOSE k \in bad : \A j \in bad : k <= j) - 1)
Points(corners, room) == FoldLeft(LAMBDA done, x : IF Contains(done, x) THEN done ELSE Append(done, x),
                                  <<>>, FlattenSeq([t \in DOMAIN corners |-> Asked(corners[t], room)]))
PointRoom(p) == SolidEnd - (p + LedgeAt(p).points)
GoodCorners(p) == SelectSeq(LedgeAt(p).corners, LAMBDA c : (\A k \in 1..3 : c[k] < PointRoom(p)) /\ Cardinality({c[k] : k \in 1..3}) = 3)
\* The ledge lies within the solid and says so of its triangles and points.
LedgeFits(p) == /\ p + 1 <= SolidEnd /\ LedgeAt(p).corners # <<>> /\ LedgeAt(p).points > 0
                /\ Len(solid.triangles) + Len(LedgeAt(p).corners) <= MaxSolidTriangles
                /\ p + 1 + Len(LedgeAt(p).corners) <= SolidEnd /\ p + LedgeAt(p).points < SolidEnd
Reads(p) == LedgeFits(p) /\ GoodCorners(p) # <<>>
ReadLedge(p) ==
  LET order == Points(LedgeAt(p).corners, PointRoom(p))
      index(x) == Len(solid.vertices) + (CHOOSE i \in DOMAIN order : order[i] = x) - 1
  IN IF ~LedgeFits(p) THEN UNCHANGED <<solid, emitted>>
     ELSE /\ solid' = [vertices |-> solid.vertices \o [i \in DOMAIN order |-> <<p + LedgeAt(p).points, order[i]>>],
                       triangles |-> solid.triangles \o [t \in DOMAIN GoodCorners(p) |->
                                       [k \in 1..3 |-> index(GoodCorners(p)[t][k])]],
                       ledges |-> solid.ledges + IF Reads(p) THEN 1 ELSE 0]
          /\ emitted' = IF Reads(p) THEN Append(emitted, p) ELSE emitted

-----------------------------------------------------------------------------
(* SurfaceParser::WalkTree, one call a step; the left subtree goes first *)

RootFits == solidBytes.root > 0 /\ solidBytes.root + NodeUnits <= SolidEnd
PhySolidInit ==
  /\ solidBytes \in [root : Roots, nodes : {f \in [NodePlaces -> UNION {NodeWords[n] : n \in NodePlaces}] :
                                              \A n \in NodePlaces : f[n] \in NodeWords[n]}, ledges : LedgeVariants]
  /\ walk = [stack |-> IF RootFits THEN <<[node |-> solidBytes.root, depth |-> 0]>> ELSE <<>>,
             nodes |-> {}, ledges |-> {}, any |-> FALSE]
  /\ solidPhase = "tree" /\ nextLedge = HeaderUnits /\ solid = NoSolid /\ emitted = <<>> /\ walkSteps = 0

Call == Head(walk.stack)
Visits == /\ Call.depth <= MaxTreeDepth /\ Call.node + NodeUnits <= SolidEnd
          /\ Cardinality(walk.nodes) < 2 * MaxLedges /\ Call.node \notin walk.nodes
Returned == [walk EXCEPT !.stack = Tail(@), !.nodes = @ \union {Call.node}]
Turns == /\ solidPhase = "tree" /\ walk.stack # <<>> /\ walkSteps' = walkSteps + 1
         /\ UNCHANGED <<solidBytes, solidPhase, nextLedge>>
\* Every place a call may reach holds a node's words.
Words == solidBytes.nodes[Call.node]
RefuseNode == /\ Turns /\ ~Visits
              /\ walk' = [walk EXCEPT !.stack = Tail(@)] /\ UNCHANGED <<solid, emitted>>
\* Mutant: a leaf that is shared is read again.
SharedIsRead(p) == FALSE
SharedLeaf(p) == p \in walk.ledges
VisitLeaf ==
  /\ Turns /\ Visits /\ Words.right = 0
  /\ LET p == Call.node + Words.ledge
     IN IF Words.ledge = 0 \/ p < HeaderUnits \/ p >= SolidEnd
        THEN walk' = Returned /\ UNCHANGED <<solid, emitted>>
        ELSE IF SharedLeaf(p) THEN walk' = [Returned EXCEPT !.any = TRUE] /\ UNCHANGED <<solid, emitted>>
        ELSE walk' = [Returned EXCEPT !.ledges = @ \union {p}, !.any = @ \/ Reads(p)] /\ ReadLedge(p)
VisitInner ==
  /\ Turns /\ Visits /\ Words.right # 0 /\ UNCHANGED <<solid, emitted>>
  /\ walk' = IF Words.right < 0 \/ solid.ledges >= MaxLedges THEN Returned
             ELSE [Returned EXCEPT !.stack = <<[node |-> Call.node + NodeUnits, depth |-> Call.depth + 1],
                                              [node |-> Call.node + Words.right, depth |-> Call.depth + 1]>> \o @]

-----------------------------------------------------------------------------
(* SurfaceParser::Parse *)

\* Without a ledge from the tree what it left behind is dropped.
EndTree ==
  /\ solidPhase = "tree" /\ walk.stack = <<>>
  /\ IF walk.any THEN solidPhase' = "read" /\ UNCHANGED <<solid, emitted>>
     ELSE solidPhase' = "linear" /\ solid' = NoSolid /\ emitted' = <<>>
  /\ walkSteps' = walkSteps + 1 /\ UNCHANGED <<solidBytes, walk, nextLedge>>
\* Ledges lie back to back ahead of the tree.
LinearStop == IF solidBytes.root > 0 THEN IF solidBytes.root < SolidEnd THEN solidBytes.root ELSE SolidEnd ELSE SolidEnd
NextLedge ==
  /\ solidPhase = "linear" /\ walkSteps' = walkSteps + 1 /\ UNCHANGED <<solidBytes, walk>>
  /\ IF /\ nextLedge + 1 <= LinearStop /\ solid.ledges < MaxLedges
        /\ LedgeAt(nextLedge).size >= 1 /\ nextLedge + LedgeAt(nextLedge).size <= LinearStop /\ Reads(nextLedge)
     THEN /\ ReadLedge(nextLedge) /\ nextLedge' = nextLedge + LedgeAt(nextLedge).size /\ UNCHANGED solidPhase
     ELSE /\ solidPhase' = "read" /\ UNCHANGED <<nextLedge, solid, emitted>>

PhySolidNext == RefuseNode \/ VisitLeaf \/ VisitInner \/ EndTree \/ NextLedge

-----------------------------------------------------------------------------
(* Properties *)

PhySolidTypeOK == /\ solidPhase \in {"tree", "linear", "read"} /\ walk.nodes \subseteq NodePlaces /\ walk.any \in BOOLEAN
                  /\ nextLedge \in 0..SolidEnd /\ solid.ledges = Len(emitted)

\* No ledge is read twice, however the tree refers to it, and no triangle
\* refers to a vertex that is not there.
EachLedgeOnce == \A i, j \in DOMAIN emitted : emitted[i] = emitted[j] => i = j
VerticesExist == \A t \in ToSet(solid.triangles) :
                   Cardinality({t[k] : k \in 1..3}) = 3 /\ \A k \in 1..3 : t[k] \in 0..(Len(solid.vertices) - 1)
\* A tree that refers back to itself does not keep the parser.
WalkEnds == walkSteps <= 3 * Cardinality(NodePlaces) + MaxLedges + 3
\* What the tree leads to through nodes that are as they should be is read,
\* and a solid whose tree leads to nothing has the ledges that lie ahead of it.
\* A second leaf that shares a ledge counts as read even when that ledge could
\* not be: then the ledges are not looked for.
LeadsTo[d \in 0..MaxTreeDepth] ==
  IF d = 0 THEN {solidBytes.root}
  ELSE UNION {{n + NodeUnits, n + solidBytes.nodes[n].right} :
                n \in {n \in LeadsTo[d - 1] \intersect NodePlaces : solidBytes.nodes[n].right > 0}}
Leaves == {n + solidBytes.nodes[n].ledge :
             n \in {n \in NodePlaces \intersect UNION {LeadsTo[d] : d \in 0..MaxTreeDepth} :
                      solidBytes.nodes[n].right = 0 /\ solidBytes.nodes[n].ledge # 0}}
AllIsRead == solidPhase = "read" /\ RootFits =>
               \A p \in Leaves : p \in HeaderUnits..(SolidEnd - 1) /\ Reads(p) => p \in ToSet(emitted)
NothingIsLost == solidPhase = "read" /\ emitted = <<>> /\ ~walk.any => ~(HeaderUnits + LedgeAt(HeaderUnits).size <= LinearStop
                                                            /\ LedgeAt(HeaderUnits).size >= 1 /\ Reads(HeaderUnits))

PhySolidInv == PhySolidTypeOK /\ EachLedgeOnce /\ VerticesExist /\ WalkEnds /\ AllIsRead /\ NothingIsLost
=============================================================================
