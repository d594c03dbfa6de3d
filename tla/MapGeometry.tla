---------------------------- MODULE MapGeometry ----------------------------
(***************************************************************************)
(* From the bytes of a .bsp to the acoustic meshes: the lumps of the file  *)
(* under either layout of their headers, the faces with their chain of     *)
(* references (surfedges, edges, vertexes, texinfo), displacements, brush  *)
(* entities and placed props, and the clean-up of a mesh.  A file may be   *)
(* damaged anywhere: what is damaged is left out and the rest is read.     *)
(* Numbers of a lump are read as the code reads them, 0-based.             *)
(***************************************************************************)
EXTENDS Integers, Sequences, FiniteSets, SequencesExt, FiniteSetsExt

CONSTANTS
  SoundBsp,               \* the file as the compiler wrote it, LumpNames -> Seq
  HeaderLayouts,          \* layouts of the headers files have: "standard", "rotated"
  MinPower, MaxPower,     \* powers of a displacement, 2 and 4 in the code
  Far,                    \* a number outside everything
  MaxDamages              \* bound

LumpNames == {"faces", "vertexes", "edges", "surfedges", "models", "texinfo", "texdata", "table", "strings",
              "dispinfo", "dispverts", "entities", "props"}
\* Surface flags and texture names no sound is blocked by.
SkipFlags == {"sky", "sky2d", "trigger", "hint", "skip"}
SolidTools == {"tools/toolsnodraw", "tools/toolsclip"}
OtherTools == {"tools/toolsareaportal", "tools/toolstrigger"}
\* Classes IsAcousticBrushClass turns down, one for all prefixes.
SilentClasses == {"trigger_multiple"}

ASSUME MapGeometryAssumption ==
  /\ DOMAIN SoundBsp = LumpNames /\ HeaderLayouts \subseteq {"standard", "rotated"}
  /\ {MinPower, MaxPower, Far, MaxDamages} \subseteq Nat /\ MinPower <= MaxPower

VARIABLES
  bsp,                    \* the lumps of the file, as they are now
  bspHeaders,             \* their headers: offset, length, version
  bspLayout,              \* the layout the headers are stored in
  damages,                \* history: what was damaged, pairs of a lump and a 0-based index
  lumps,                  \* ParseContext: the lumps as they were loaded
  geometry                \* what ParseBsp made of the file

bspVars == <<bsp, bspHeaders, bspLayout, damages, lumps, geometry>>

HeaderOf == -1             \* the header of a lump, among what was damaged
NoLumps == [l \in {} |-> <<>>]
NotParsed == [parsed |-> FALSE]
NoMesh == [vertices |-> <<>>, triangles |-> <<>>, materials |-> <<>>]

-----------------------------------------------------------------------------
(* The file: headers and lumps *)

FileSize == 9000
\* Lumps lie behind the 1036 bytes of the headers and are longer than 64 bytes.
SoundHeader(l) == [offset |-> 1100, length |-> IF SoundBsp[l] = <<>> THEN 0 ELSE 100 + Len(SoundBsp[l]), version |-> 0]

Stored(h) == IF bspLayout = "standard" THEN <<h.offset, h.length, h.version>> ELSE <<h.version, h.offset, h.length>>
ReadAs(s, layout) == IF layout = "standard" THEN [offset |-> s[1], length |-> s[2], version |-> s[3]]
                     ELSE [offset |-> s[2], length |-> s[3], version |-> s[1]]
InFile(h) == h.offset + h.length <= FileSize
\* Mutant: any version will do.
VoteForAnyVersion(h) == IF h.length = 0 THEN 0 ELSE IF InFile(h) THEN 1 ELSE -1
Vote(h) == IF h.length = 0 THEN 0 ELSE IF InFile(h) /\ h.version < 64 THEN 1 ELSE -1
Votes(layout) == MapThenSumSet(LAMBDA l : Vote(ReadAs(Stored(bspHeaders[l]), layout)), LumpNames)
ChosenLayout == IF Votes("rotated") > Votes("standard") THEN "rotated" ELSE "standard"

\* What is read through a header that is not the lump's own, or that leaves
\* the file, is no lump.
LoadLumps == LET layout == ChosenLayout
                 read(l) == ReadAs(Stored(bspHeaders[l]), layout)
             IN [l \in LumpNames |-> IF read(l).length > 0 /\ InFile(read(l)) /\ read(l) = bspHeaders[l]
                                     THEN bsp[l] ELSE <<>>]
Has(l, i) == i \in 0..(Len(lumps[l]) - 1)
At(l, i) == lumps[l][i + 1]

-----------------------------------------------------------------------------
(* Faces *)

\* Texinfo, texdata, string table, string: a link that is broken gives no name.
TextureName(t) ==
  IF /\ Has("texinfo", t)
     /\ Has("texdata", At("texinfo", t).data)
     /\ Has("table", At("texdata", At("texinfo", t).data))
     /\ Has("strings", At("table", At("texdata", At("texinfo", t).data)))
  THEN At("strings", At("table", At("texdata", At("texinfo", t).data))) ELSE "no name"
TexinfoFlags(t) == IF Has("texinfo", t) THEN At("texinfo", t).flags ELSE {}
ShouldSkipFace(f) == \/ TexinfoFlags(f.texinfo) \intersect SkipFlags # {}
                     \/ TextureName(f.texinfo) \in OtherTools

Abs(n) == IF n < 0 THEN -n ELSE n
\* A surfedge walks its edge backwards when it is negative.
CornerOf(s) == LET e == At("surfedges", s) IN At("edges", Abs(e))[IF e >= 0 THEN 1 ELSE 2]
Readable(f) ==
  /\ f.num >= 3 /\ f.first >= 0
  /\ \A s \in f.first..(f.first + f.num - 1) :
       Has("surfedges", s) /\ Has("edges", Abs(At("surfedges", s))) /\ Has("vertexes", CornerOf(s))
FaceVertices(f) == [i \in 1..f.num |-> At("vertexes", CornerOf(f.first + i - 1))]

\* Points are <<x, y, z>> in units of 1/Unit, so that those of a grid are whole.
Unit == (2 ^ MaxPower) * (2 ^ MaxPower)
Plus(a, b) == [k \in 1..3 |-> a[k] + b[k]]
Minus(a, b) == [k \in 1..3 |-> a[k] - b[k]]
Times(n, a) == [k \in 1..3 |-> n * a[k]]
Cross(a, b) == <<a[2] * b[3] - a[3] * b[2], a[3] * b[1] - a[1] * b[3], a[1] * b[2] - a[2] * b[1]>>
SquaredDistance(a, b) == LET d == Minus(a, b) IN d[1] * d[1] + d[2] * d[2] + d[3] * d[3]

AddMaterial(mesh, m) == [mesh EXCEPT !.materials = IF m \in ToSet(@) THEN @ ELSE Append(@, m)]
MaterialIndex(mesh, m) == (CHOOSE i \in DOMAIN mesh.materials : mesh.materials[i] = m) - 1
\* Adds vertices and the triangles between them, which count from the first of them.
AddShape(mesh, points, corners, material) ==
  [mesh EXCEPT !.vertices = @ \o points,
               !.triangles = @ \o [i \in DOMAIN corners |->
                  [at |-> [k \in 1..3 |-> Len(mesh.vertices) + corners[i][k]], material |-> material]]]

AppendPolygon(mesh, poly, material, pivot) ==
  AddShape(mesh, [i \in DOMAIN poly |-> Times(Unit, Minus(poly[i], pivot))],
           [i \in 1..(Len(poly) - 2) |-> <<0, i, i + 1>>], material)

\* A grid of size * size vertices, row by row; diagonals alternate.
CellOf(size, row, col) ==
  LET i0 == row * size + col   i1 == i0 + 1   i2 == i0 + size   i3 == i2 + 1
  IN IF (row + col) % 2 = 0 THEN <<<<i0, i2, i3>>, <<i0, i3, i1>>>> ELSE <<<<i0, i2, i1>>, <<i1, i2, i3>>>>
GridTriangles(size) ==
  FlattenSeq([c \in 1..((size - 1) * (size - 1)) |-> CellOf(size, (c - 1) \div (size - 1), (c - 1) % (size - 1))])
DispSound(f, corners) ==
  /\ Len(corners) = 4 /\ Has("dispinfo", f.disp)
  /\ LET d == At("dispinfo", f.disp) IN
       /\ d.power \in MinPower..MaxPower /\ d.first >= 0
       /\ d.first + (2 ^ d.power + 1) * (2 ^ d.power + 1) <= Len(lumps["dispverts"])
\* The corner nearest to the start position, the first of those, is corner 0.
StartCorner(corners, start) ==
  CHOOSE s \in 0..3 : \A i \in 0..3 : LET far(k) == SquaredDistance(corners[k + 1], start)
                                      IN far(s) < far(i) \/ (far(s) = far(i) /\ s <= i)
GridPoint(d, c, row, col, pivot) ==
  LET n == 2 ^ d.power
      flat == Plus(Times(n - col, Plus(Times(n - row, c[1]), Times(row, c[2]))),
                   Times(col, Plus(Times(n - row, c[4]), Times(row, c[3]))))
  IN Plus(Times(Unit \div (n * n), flat), Times(Unit, Minus(At("dispverts", d.first + row * (n + 1) + col), pivot)))
AppendDisplacement(mesh, f, corners, material, pivot) ==
  IF ~DispSound(f, corners) THEN mesh
  ELSE LET d == At("dispinfo", f.disp)
           size == 2 ^ d.power + 1
           c == [i \in 1..4 |-> corners[((StartCorner(corners, d.start) + i - 1) % 4) + 1]]
       IN AddShape(mesh, [v \in 1..(size * size) |-> GridPoint(d, c, (v - 1) \div size, (v - 1) % size, pivot)],
                   GridTriangles(size), material)

\* The material of a face is that of its texture (MaterialLookup).
AppendFace(mesh, f, pivot) ==
  LET with == AddMaterial(mesh, TextureName(f.texinfo))
      m == MaterialIndex(with, TextureName(f.texinfo))
  IN IF ShouldSkipFace(f) \/ ~Readable(f) THEN mesh
     ELSE IF f.disp >= 0 THEN AppendDisplacement(with, f, FaceVertices(f), m, pivot)
     ELSE AppendPolygon(with, FaceVertices(f), m, pivot)
ModelFaces(n) ==
  IF Has("models", n) /\ LET o == At("models", n) IN o.first >= 0 /\ o.num >= 0 /\ o.first + o.num <= Len(lumps["faces"])
  THEN [i \in 1..At("models", n).num |-> At("faces", At("models", n).first + i - 1)] ELSE <<>>
\* Mutant: the first face that cannot be read ends the model.
BuildUpToDamage(n, pivot) ==
  LET faces == ModelFaces(n)
      bad == {i \in DOMAIN faces : ~Readable(faces[i])}
  IN FoldLeft(LAMBDA mesh, f : AppendFace(mesh, f, pivot), NoMesh,
              IF bad = {} THEN faces ELSE SubSeq(faces, 1, Min(bad) - 1))
BuildModel(n, pivot) == FoldLeft(LAMBDA mesh, f : AppendFace(mesh, f, pivot), NoMesh, ModelFaces(n))

-----------------------------------------------------------------------------
(* MeshData::Compact: drops triangles that are out of range or have no area *)

HasArea(mesh, t) == Cross(Minus(mesh.vertices[t.at[2] + 1], mesh.vertices[t.at[1] + 1]),
                          Minus(mesh.vertices[t.at[3] + 1], mesh.vertices[t.at[1] + 1])) # <<0, 0, 0>>
KeptTriangle(mesh, t) == (\A k \in 1..3 : t.at[k] \in 0..(Len(mesh.vertices) - 1)) /\ HasArea(mesh, t)
InOrder(s) == FoldLeft(LAMBDA done, x : IF Contains(done, x) THEN done ELSE Append(done, x), <<>>, s)
Compact(mesh) ==
  LET materials == IF mesh.materials = <<>> THEN <<"generic">> ELSE mesh.materials
      kept == SelectSeq(mesh.triangles, LAMBDA t : KeptTriangle(mesh, t))
      order == InOrder(FlattenSeq([i \in DOMAIN kept |-> kept[i].at]))
      moved(v) == (CHOOSE i \in DOMAIN order : order[i] = v) - 1
  IN [vertices |-> [i \in DOMAIN order |-> mesh.vertices[order[i] + 1]],
      triangles |-> [i \in DOMAIN kept |-> [at |-> [k \in 1..3 |-> moved(kept[i].at[k])],
                        material |-> IF kept[i].material < Len(materials) THEN kept[i].material ELSE 0]],
      materials |-> materials]

-----------------------------------------------------------------------------
(* Entities: the text as tokens; a quoted string is a token of its own *)

Marks == {"{", "}", "?"}
\* An entity that is malformed ends at the next brace that closes.
ReadToken(s, t) ==
  CASE s.in = "text"  -> IF t = "{" THEN [s EXCEPT !.in = "key", !.now = <<>>] ELSE s
    [] s.in = "key" /\ t = "}" -> [s EXCEPT !.in = "text", !.done = Append(@, s.now)]
    [] s.in = "key" /\ t \notin Marks -> [s EXCEPT !.in = "value", !.key = t]
    [] s.in = "value" /\ t \notin Marks -> [s EXCEPT !.in = "key", !.now = [k \in DOMAIN @ \union {s.key} |->
                                              IF k = s.key THEN t ELSE @[k]]]
    [] s.in \in {"value", "lost"} /\ t = "}" -> [s EXCEPT !.in = "text", !.done = Append(@, s.now)]
    [] OTHER -> [s EXCEPT !.in = "lost"]
ParseEntities(tokens) ==
  LET end == FoldLeft(ReadToken, [in |-> "text", now |-> <<>>, key |-> "", done |-> <<>>], tokens)
  IN IF end.in = "text" THEN end.done ELSE Append(end.done, end.now)

\* "*1" stands for every reference to a brush model; ModelOf gives its number.
ModelOf == [m \in {"*1", "*2"} |-> IF m = "*1" THEN 1 ELSE 2]
IsBrush(e) == /\ {"model", "classname"} \subseteq DOMAIN e
              /\ e["model"] \in DOMAIN ModelOf /\ e["classname"] \notin SilentClasses
\* An "origin" is a name of a point: it moves the pivot of the mesh.
OriginOf(e) == IF "origin" \in DOMAIN e /\ e["origin"] = "1 0 0" THEN <<1, 0, 0>> ELSE <<0, 0, 0>>
SolidBrush(e) == /\ ~("solidity" \in DOMAIN e /\ e["solidity"] = "1")
                 /\ ~("solid" \in DOMAIN e /\ e["solid"] = "0")
BrushOf(e) == [model |-> ModelOf[e["model"]], origin |-> OriginOf(e), solid |-> SolidBrush(e),
               mesh |-> Compact(BuildModel(ModelOf[e["model"]], OriginOf(e)))]
BrushModels == LET all == SelectSeq(ParseEntities(lumps["entities"]), IsBrush)
           IN SelectSeq([i \in DOMAIN all |-> BrushOf(all[i])], LAMBDA b : b.mesh.triangles # <<>>)

-----------------------------------------------------------------------------
(* Static props: one of the game lumps *)

\* The lump "props" is one record of the game lump: dir, its directory of
\* [id, packed, ofs, len]; whole, whether it is compressed as a whole, and size,
\* its bytes when decompressed; where the static props really are, at, whether they
\* are compressed by themselves, lzma, and their words: the counts of
\* models, leaves and props, the version, and the type of each prop.
LzmaHeader == 17
GameLump == At("props", 0)
NoPayload == [size |-> 0, models |-> 0, leaves |-> 0, count |-> 0, version |-> 0, types |-> <<>>]
\* Mutant: offsets in a game lump that was decompressed are taken as they are.
PlaceNotRebased(g, d) == d.ofs
PlaceOf(g, d) == IF g.whole THEN d.ofs - SoundHeader("props").offset ELSE d.ofs
LoadGameLump(g) ==
  LET wanted == {i \in DOMAIN g.dir : g.dir[i].id = "sprp"}
      d == g.dir[Min(wanted)]
      from == PlaceOf(g, d)
      source == IF g.whole THEN g.size ELSE FileSize
      blob == g.lzma > 0 /\ from = g.at                \* an LZMA header is found there
      length == IF blob THEN LzmaHeader + g.lzma ELSE d.len
  IN IF \/ wanted = {} \/ d.ofs < 0 \/ d.len < 0 \/ from < 0 \/ from > source
        \/ d.packed /\ (from + LzmaHeader > source \/ ~blob)
        \/ from + length > source
     THEN NoPayload
     ELSE IF from # g.at THEN [NoPayload EXCEPT !.size = length]   \* bytes of something else
     ELSE [g.words EXCEPT !.size = IF blob THEN @ ELSE length]
Payload == IF lumps["props"] = <<>> THEN NoPayload ELSE LoadGameLump(GameLump)
PropsBegin(p) == 4 + 128 * p.models + 4 + 2 * p.leaves + 4
CountsFit(p) ==
  /\ p.models >= 0 /\ p.models <= (p.size - 4) \div 128 /\ 4 + 128 * p.models + 4 <= p.size
  /\ p.leaves >= 0 /\ p.leaves <= (p.size - 4 - 128 * p.models - 4) \div 2 /\ PropsBegin(p) <= p.size
  /\ p.count > 0
PropStride(p) == (p.size - PropsBegin(p)) \div p.count
PropAt(p, i) == [from |-> PropsBegin(p) + i * PropStride(p), stride |-> PropStride(p), type |-> p.types[i + 1],
                 scaled |-> p.version >= 11 /\ PropStride(p) >= 80]
ParseStaticProps ==
  LET p == Payload
  IN IF p.size < 4 \/ ~CountsFit(p) \/ PropStride(p) < 32 THEN <<>>
     ELSE SelectSeq([i \in 1..p.count |-> PropAt(p, i - 1)], LAMBDA x : x.type < p.models)

-----------------------------------------------------------------------------
\* The whole of ParseBsp: it fails without faces, vertexes or models, and
\* when the world has no triangle.
ParseBsp ==
  LET world == Compact(BuildModel(0, <<0, 0, 0>>))
  IN IF \E l \in {"faces", "vertexes", "models"} : lumps[l] = <<>>
     THEN [parsed |-> TRUE, ok |-> FALSE, world |-> NoMesh, brushes |-> <<>>, props |-> <<>>]
     ELSE [parsed |-> TRUE, ok |-> world.triangles # <<>>, world |-> world, brushes |-> BrushModels,
           props |-> ParseStaticProps]

\* bspzip compresses the game lump as a whole, or the static props by
\* themselves, with or without the flag that says so.
GameLumpAs(g, whole, lzma, flag) ==
  [g EXCEPT !.whole = whole, !.lzma = lzma, !.dir[1].packed = flag,
            !.dir[1].ofs = IF whole THEN g.at + SoundHeader("props").offset ELSE g.at,
            !.dir[1].len = IF lzma > 0 THEN LzmaHeader + lzma ELSE g.words.size]
MapGeometryInit ==
  /\ \E whole \in BOOLEAN, lzma \in {0, 50} : \E flag \in {FALSE, lzma > 0} :
       bsp = [SoundBsp EXCEPT !["props"][1] = GameLumpAs(@, whole, lzma, flag)]
  /\ bspLayout \in HeaderLayouts /\ damages = {} /\ lumps = NoLumps /\ geometry = NotParsed
  /\ bspHeaders = [l \in LumpNames |-> SoundHeader(l)]

\* ParseBsp in two steps; nothing happens in between, the bytes are a copy.
Load == /\ lumps = NoLumps /\ lumps' = LoadLumps
        /\ UNCHANGED <<bsp, bspHeaders, bspLayout, damages, geometry>>
Parse == /\ lumps # NoLumps /\ geometry = NotParsed /\ geometry' = ParseBsp
         /\ UNCHANGED <<bsp, bspHeaders, bspLayout, damages, lumps>>

\* What damage may make of an entry: a reference that leads nowhere or elsewhere.
Damaged(l, x) ==
  CASE l = "faces"    -> UNION {{[x EXCEPT !.first = n] : n \in {-1, 1, Far}}, {[x EXCEPT !.num = n] : n \in {2, Far}},
                                {[x EXCEPT !.texinfo = n] : n \in {-1, Far}}, {[x EXCEPT !.disp = n] : n \in {0, Far}}}
    [] l = "models"   -> {[x EXCEPT !.first = n] : n \in {-1, 1, Far}} \union {[x EXCEPT !.num = n] : n \in {-1, Far}}
    [] l = "edges"    -> {<<Far, x[2]>>, <<x[2], x[1]>>}
    [] l = "surfedges" -> {-x, Far, -Far}
    [] l = "vertexes" -> {SoundBsp["vertexes"][1]}
    [] l = "texinfo"  -> {[x EXCEPT !.data = n] : n \in {-1, Far}} \union {[x EXCEPT !.flags = {"sky"}]}
    [] l \in {"texdata", "table"} -> {-1, Far}
    [] l = "strings"  -> OtherTools
    [] l = "dispinfo" -> {[x EXCEPT !.power = n] : n \in {MinPower - 1, MaxPower + 1}}
                           \union {[x EXCEPT !.first = n] : n \in {-1, 1}} \union {[x EXCEPT !.start = <<2, 2, 0>>]}
    [] l = "entities" -> Marks
    [] l = "props"    -> UNION {{[x EXCEPT !.dir[1].ofs = n] : n \in {-1, x.at + 4, 2 * FileSize}},
                                {[x EXCEPT !.dir[1].len = n] : n \in {-1, 3, 200, 2 * FileSize}},
                                {[x EXCEPT !.dir[1].packed = ~@], [x EXCEPT !.dir[1].id = "other"]},
                                {[x EXCEPT !.words.models = n] : n \in {-1, 1, Far}}, {[x EXCEPT !.words.leaves = n] : n \in {-1, Far}},
                                {[x EXCEPT !.words.count = n] : n \in {-1, 1, Far}}}
    [] OTHER -> {}
Damage(l) ==
  /\ lumps = NoLumps /\ Cardinality(damages) < MaxDamages
  /\ \E i \in DOMAIN bsp[l] : \E x \in Damaged(l, bsp[l][i]) \ {bsp[l][i]} :
       <<l, i - 1>> \notin damages /\ bsp' = [bsp EXCEPT ![l][i] = x] /\ damages' = damages \union {<<l, i - 1>>}
  /\ UNCHANGED <<bspHeaders, bspLayout, lumps, geometry>>
DamageHeader(l) ==
  /\ lumps = NoLumps /\ Cardinality(damages) < MaxDamages /\ bspHeaders[l] = SoundHeader(l) /\ bsp[l] # <<>>
  /\ \E h \in {[SoundHeader(l) EXCEPT !.offset = FileSize], [SoundHeader(l) EXCEPT !.length = FileSize],
               [SoundHeader(l) EXCEPT !.length = 0]} : bspHeaders' = [bspHeaders EXCEPT ![l] = h]
  /\ damages' = damages \union {<<l, HeaderOf>>} /\ UNCHANGED <<bsp, bspLayout, lumps, geometry>>

MapGeometryNext == Load \/ Parse \/ \E l \in LumpNames : Damage(l) \/ DamageHeader(l)

-----------------------------------------------------------------------------
(* Properties *)

MapGeometryTypeOK ==
  /\ bspLayout \in HeaderLayouts /\ damages \subseteq LumpNames \X (HeaderOf..Far) /\ Cardinality(damages) <= MaxDamages
  /\ DOMAIN bsp = LumpNames /\ DOMAIN bspHeaders = LumpNames

TrianglePoints(mesh) == {[points |-> [k \in 1..3 |-> mesh.vertices[t.at[k] + 1]], of |-> mesh.materials[t.material + 1]] :
                           t \in {t \in ToSet(mesh.triangles) : HasArea(mesh, t)}}

\* A mesh goes to the tracer only with triangles whose vertices and material
\* it has, all with an area, and without vertices nothing uses.
MeshIsSound(mesh) ==
  /\ \A t \in ToSet(mesh.triangles) : /\ \A k \in 1..3 : t.at[k] \in 0..(Len(mesh.vertices) - 1)
                                       /\ HasArea(mesh, t) /\ t.material \in 0..(Len(mesh.materials) - 1)
  /\ UNION {{t.at[k] : k \in 1..3} : t \in ToSet(mesh.triangles)} = 0..(Len(mesh.vertices) - 1)
MeshesAreSound == \A mesh \in {geometry.world} \union {b.mesh : b \in ToSet(geometry.brushes)} : MeshIsSound(mesh)

\* The triangles of a face cover it once, whatever its polygon became, and so
\* do those of a displacement: their areas add up to that of the outline.
Shoelace(points) == FoldFunctionOnSet(+, 0, [i \in DOMAIN points |->
                      LET a == points[i]   b == points[(i % Len(points)) + 1] IN a[1] * b[2] - a[2] * b[1]], DOMAIN points)
AreaOf(mesh) == FoldFunctionOnSet(+, 0, [i \in DOMAIN mesh.triangles |->
                  LET p(k) == mesh.vertices[mesh.triangles[i].at[k] + 1]
                  IN Cross(Minus(p(2), p(1)), Minus(p(3), p(1)))[3]], DOMAIN mesh.triangles)
FacesAreCovered ==
  \A f \in ToSet(lumps["faces"]) :
     Readable(f) /\ ~ShouldSkipFace(f) /\ (f.disp < 0 \/ DispSound(f, FaceVertices(f)))
       => AreaOf(AppendFace(NoMesh, f, <<0, 0, 0>>)) = Unit * Unit * Shoelace(FaceVertices(f))

\* Damage costs the faces that refer to what was damaged, and no others.
FaceReach(n) ==
  LET f == SoundBsp["faces"][n + 1]
      edges == {Abs(SoundBsp["surfedges"][s + 1]) : s \in f.first..(f.first + f.num - 1)}
      data == SoundBsp["texinfo"][f.texinfo + 1].data
      string == SoundBsp["texdata"][data + 1]
  IN UNION {{<<"faces", n>>, <<"texinfo", f.texinfo>>, <<"texdata", data>>, <<"table", string>>,
             <<"strings", SoundBsp["table"][string + 1]>>, <<"dispinfo", f.disp>>},
            {<<l, HeaderOf>> : l \in LumpNames}, {<<"surfedges", s>> : s \in f.first..(f.first + f.num - 1)},
            {<<"edges", e>> : e \in edges}, {<<"vertexes", SoundBsp["edges"][e + 1][k]>> : e \in edges, k \in 1..2}}
ModelIsThere(n, pivot, mesh) ==
  LET o == SoundBsp["models"][n + 1]
  IN <<"models", n>> \notin damages =>
       \A i \in o.first..(o.first + o.num - 1) :
         FaceReach(i) \intersect damages = {}
           => TrianglePoints(AppendFace(NoMesh, SoundBsp["faces"][i + 1], pivot)) \subseteq TrianglePoints(mesh)
\* An entity of the text and the close of the one before it.
EntitySpans ==
  LET text == SoundBsp["entities"]
  IN {s \in (DOMAIN text) \X (DOMAIN text) :
        /\ s[1] < s[2] /\ text[s[1]] = "{" /\ text[s[2]] = "}"
        /\ \A k \in (s[1] + 1)..(s[2] - 1) : text[k] # "}"}
ModelIsIntact(n) ==
  LET o == SoundBsp["models"][n + 1]
  IN ({<<"models", n>>} \union UNION {FaceReach(i) : i \in o.first..(o.first + o.num - 1)}) \intersect damages = {}
EntityIsThere(p, q) ==
  LET e == ParseEntities(SubSeq(SoundBsp["entities"], p, q))[1]
      mine == {b \in ToSet(geometry.brushes) : b.model = ModelOf[e["model"]] /\ b.solid = SolidBrush(e)}
  IN IsBrush(e) => IF mine = {} THEN ~ModelIsIntact(ModelOf[e["model"]])
                   ELSE \E b \in mine : ModelIsThere(b.model, OriginOf(e), b.mesh)
DamageIsLocal ==
  geometry.ok =>
    /\ ModelIsThere(0, <<0, 0, 0>>, geometry.world)
    /\ \A span \in EntitySpans :
         ({<<"entities", k - 1>> : k \in (span[1] - 1)..span[2]} \union {<<"entities", HeaderOf>>}) \intersect damages = {}
           => EntityIsThere(span[1], span[2])
    /\ {<<"props", 0>>, <<"props", HeaderOf>>} \intersect damages = {}
         => Len(geometry.props) = GameLump.words.count

\* What is read of a placed prop lies within the lump, and so does its name.
PropsAreWithin ==
  \A x \in ToSet(geometry.props) :
     x.from >= 0 /\ x.from + x.stride <= Payload.size /\ 4 + 128 * (x.type + 1) <= Payload.size

\* Headers are read in the layout they are stored in.
LayoutIsTrue == ChosenLayout = bspLayout

MapGeometryInv ==
  /\ MapGeometryTypeOK /\ LayoutIsTrue
  /\ geometry.parsed => MeshesAreSound /\ FacesAreCovered /\ DamageIsLocal /\ PropsAreWithin
=============================================================================
