---------------------------- MODULE WorldProofs ----------------------------
(* Proofs about the scene the rays are traced in, for any entities, meshes,    *)
(* places and bounds: what is tracked (DynamicOccluders), what is built         *)
(* (SceneBuilder) and where the entities come from (EntityWalk); and about     *)
(* what is read from the game's files (GameFiles) and from the cache of the    *)
(* bakes (PathCache), for any files, rows, archives and mishaps.               *)
EXTENDS MCWorld, TLAPS, FiniteSetTheorems, WellFoundedInduction

-----------------------------------------------------------------------------
(* Recursive functions over the numbers                                      *)

\* A set of numbers with 0 and the successor of each of its elements below n has all up to n.
LEMMA UpTo ==
  ASSUME NEW n \in Nat, NEW T, 0 \in T, \A k \in 1 .. n : k - 1 \in T => k \in T
  PROVE  0 .. n \subseteq T
<1> DEFINE Missing == (0 .. n) \ T
<1>1. SUFFICES ASSUME Missing # {} PROVE FALSE
  OBVIOUS
<1>2. PICK m \in Missing : \A k \in Missing : ~(<<k, m>> \in OpToRel(<, Nat))
  <2>1. Missing \subseteq Nat
    OBVIOUS
  <2> HIDE DEF Missing
  <2> QED
    BY <1>1, <2>1, WFMin, NatLessThanWellFounded
<1>3. ASSUME NEW k \in Missing, k < m PROVE FALSE
  <2>1. <<k, m>> \in Nat \X Nat /\ <<k, m>>[1] = k /\ <<k, m>>[2] = m
    OBVIOUS
  <2>2. <<k, m>> \in OpToRel(<, Nat)
    BY <2>1, <1>3 DEF OpToRel
  <2> QED
    BY <2>2, <1>2
<1>4. m \in 1 .. n /\ m - 1 \in 0 .. n
  OBVIOUS
<1>5. m - 1 \in T
  BY <1>3, <1>4
<1> QED
  BY <1>4, <1>5

Recurses(g, n, S, base, step) ==
  g \in [0 .. n -> S] /\ g[0] = base /\ \A k \in 1 .. n : g[k] = step[<<k, g[k - 1]>>]

\* A function may be defined by recursion on 0 .. n.
LEMMA Iterate ==
  ASSUME NEW n \in Nat, NEW S, NEW base \in S, NEW step \in [(1 .. n) \X S -> S]
  PROVE  \E g : Recurses(g, n, S, base, step)
<1> DEFINE Is(g, k) == g[0] = base /\ \A j \in 1 .. k : g[j] = step[<<j, g[j - 1]>>]
           T == {k \in 0 .. n : \E g \in [0 .. k -> S] : Is(g, k)}
<1>1. 0 \in T
  <2> DEFINE h == [j \in 0 .. 0 |-> base]
  <2>1. h \in [0 .. 0 -> S] /\ h[0] = base /\ 0 \in 0 .. n
    OBVIOUS
  <2>2. Is(h, 0)
    BY <2>1
  <2> QED
    BY <2>1, <2>2
<1>2. ASSUME NEW k \in 1 .. n, k - 1 \in T PROVE k \in T
  <2>1. PICK g \in [0 .. k - 1 -> S] : Is(g, k - 1)
    BY <1>2
  <2> DEFINE h == [j \in 0 .. k |-> IF j = k THEN step[<<k, g[k - 1]>>] ELSE g[j]]
  <2>2. g[k - 1] \in S /\ step[<<k, g[k - 1]>>] \in S
    OBVIOUS
  <2>3. h \in [0 .. k -> S]
    BY <2>2
  <2>4. Is(h, k)
    <3>1. h[0] = base
      BY <2>1
    <3>2. ASSUME NEW j \in 1 .. k PROVE h[j] = step[<<j, h[j - 1]>>]
      <4>1. CASE j = k
        <5>1. k \in 0 .. k /\ k - 1 \in 0 .. k /\ k - 1 # k
          OBVIOUS
        <5>2. h[k] = step[<<k, g[k - 1]>>] /\ h[k - 1] = g[k - 1]
          BY <5>1
        <5> HIDE DEF h
        <5> QED
          BY <4>1, <5>2
      <4>2. CASE j # k
        BY <4>2, <2>1
      <4> QED
        BY <4>1, <4>2
    <3> HIDE DEF h
    <3> QED
      BY <3>1, <3>2
  <2> HIDE DEF h, Is
  <2> QED
    BY <2>3, <2>4
<1> HIDE DEF T
<1>3. 0 .. n \subseteq T
  BY <1>1, <1>2, UpTo
<1> QED
  BY <1>3 DEF T, Recurses

-----------------------------------------------------------------------------
(* The queue of commands and the scene it leads to                           *)

Ids == Instances \cup Brushes
Scenes == UNION {[D -> Poses] : D \in SUBSET Ids}
Commands ==
  {c \in [type : {"add", "update", "remove", "map", "clear"}, id : Ids \cup {0}, pose : Poses] : c.type = "add" => c.id \in Ids}
Fold(s, q) == FoldLeft(Handled, s, q)

LEMMA MaxOf ==
  ASSUME NEW n \in Nat, NEW z \in SUBSET (1 .. n), z # {}
  PROVE  Max(z) \in z /\ \A y \in z : y <= Max(z)
<1> DEFINE Bounds == {k \in 0 .. n : \E y \in z : y > k}
<1>1. SUFFICES ASSUME \A m \in z : \E y \in z : y > m PROVE FALSE
  <2>1. SUFFICES ASSUME NEW m \in z, \A y \in z : ~(y > m) PROVE Max(z) \in z /\ \A y \in z : y <= Max(z)
    BY <1>1
  <2>2. \E x \in z : \A y \in z : x >= y
    BY <2>1
  <2> QED
    BY <2>2, Zenon DEF Max
<1>2. 0 \in Bounds
  <2>1. PICK y \in z : TRUE
    OBVIOUS
  <2>2. y > 0
    OBVIOUS
  <2> QED
    BY <2>2
<1>3. \A k \in 1 .. n : k - 1 \in Bounds => k \in Bounds
  <2> SUFFICES ASSUME NEW k \in 1 .. n, NEW y \in z, y > k - 1 PROVE \E x \in z : x > k
    OBVIOUS
  <2>1. CASE y > k
    BY <2>1
  <2>2. CASE y = k
    BY <2>2, <1>1
  <2> QED
    BY <2>1, <2>2
<1>4. n \in Bounds
  <2> HIDE DEF Bounds
  <2> QED
    BY <1>2, <1>3, UpTo
<1> QED
  BY <1>4

LEMMA NoMeshesIs == NoMeshes \in Scenes /\ DOMAIN NoMeshes = {}
<1>1. NoMeshes \in [{} -> Poses]
  BY DEF NoMeshes
<1> QED
  BY <1>1 DEF Scenes

LEMMA HandledType ==
  ASSUME NEW s \in Scenes, NEW c \in Commands
  PROVE  Handled(s, c) \in Scenes
<1>1. PICK D \in SUBSET Ids : s \in [D -> Poses]
  BY DEF Scenes
<1>2. /\ c.type \in {"add", "update", "remove", "map", "clear"} /\ c.pose \in Poses /\ DOMAIN s = D
      /\ c.type = "add" => c.id \in Ids
  BY <1>1 DEF Commands
<1>3. CASE c.type = "add"
  <2>1. Handled(s, c) \in [D \cup {c.id} -> Poses]
    BY <1>1, <1>2, <1>3 DEF Handled
  <2> QED
    BY <1>2, <1>3, <2>1 DEF Scenes
<1>4. CASE c.type = "update"
  BY <1>1, <1>2, <1>4 DEF Handled, Scenes
<1>5. CASE c.type = "remove"
  <2>1. Handled(s, c) \in [D \ {c.id} -> Poses]
    BY <1>1, <1>2, <1>5 DEF Handled
  <2> QED
    BY <2>1 DEF Scenes
<1>6. CASE c.type = "map"
  <2>1. Handled(s, c) \in [Brushes -> Poses]
    BY <1>6, OccludersAssumption DEF Handled, Spawned
  <2> QED
    BY <2>1 DEF Scenes, Ids
<1>7. CASE c.type = "clear"
  <2>1. NoMeshes \in Scenes
    BY NoMeshesIs
  <2> QED
    BY <2>1, <1>7 DEF Handled
<1> QED
  BY <1>2, <1>3, <1>4, <1>5, <1>6, <1>7

IsFold(g, s, q) ==
  g \in [0 .. Len(q) -> Scenes] /\ g[0] = s /\ \A k \in 1 .. Len(q) : g[k] = Handled(g[k - 1], q[k])

LEMMA FoldExists ==
  ASSUME NEW s \in Scenes, NEW q \in Seq(Commands)
  PROVE  \E g : IsFold(g, s, q) /\ Fold(s, q) = g[Len(q)]
<1> DEFINE n == Len(q)
           Z == SUBSET (1 .. n)
           S == [Z -> Scenes]
           base == [z \in Z |-> s]
           Take(k, h) == [z \in Z |-> IF k \in z THEN Handled(h[z], q[k]) ELSE h[z]]
           step == [x \in (1 .. n) \X S |-> Take(x[1], x[2])]
           iter == CHOOSE f : f = [z \in SUBSET DOMAIN q |-> IF z = {} THEN s ELSE Handled(f[z \ {Max(z)}], q[Max(z)])]
<1>1. Fold(s, q) = iter[DOMAIN q]
  BY Zenon DEF Fold, FoldLeft, MapThenFoldSet
<1>2. n \in Nat /\ DOMAIN q = 1 .. n /\ \A k \in 1 .. n : q[k] \in Commands
  OBVIOUS
<1> HIDE DEF n
<1>3. base \in S
  OBVIOUS
<1>4. \A k \in 1 .. n, h \in S : Take(k, h) \in S
  <2> SUFFICES ASSUME NEW k \in 1 .. n, NEW h \in S PROVE Take(k, h) \in S
    OBVIOUS
  <2>1. \A z \in Z : h[z] \in Scenes /\ Handled(h[z], q[k]) \in Scenes
    BY <1>2, HandledType
  <2> QED
    BY <2>1
<1> HIDE DEF Take, base, S
<1>5. step \in [(1 .. n) \X S -> S] /\ \A k \in 1 .. n, h \in S : step[<<k, h>>] = Take(k, h)
  BY <1>4
<1> HIDE DEF step
<1>6. PICK h \in [0 .. n -> S] : h[0] = base /\ \A k \in 1 .. n : h[k] = step[<<k, h[k - 1]>>]
  <2>1. \E h : Recurses(h, n, S, base, step)
    BY <1>2, <1>3, <1>5, Iterate
  <2> QED
    BY <2>1 DEF Recurses
<1>7. \A k \in 1 .. n : k - 1 \in 0 .. n /\ h[k - 1] \in S /\ h[k] = Take(k, h[k - 1])
  <2> SUFFICES ASSUME NEW k \in 1 .. n PROVE k - 1 \in 0 .. n /\ h[k - 1] \in S /\ h[k] = Take(k, h[k - 1])
    OBVIOUS
  <2>1. k - 1 \in 0 .. n
    BY <1>2
  <2>2. h[k - 1] \in S
    BY <2>1
  <2> QED
    BY <2>1, <2>2, <1>5, <1>6
<1>8. \A z \in Z : h[0][z] = s
  BY <1>6 DEF base
<1>81. ASSUME NEW k \in 1 .. n, NEW z \in Z
       PROVE  h[k][z] = IF k \in z THEN Handled(h[k - 1][z], q[k]) ELSE h[k - 1][z]
  <2>1. h[k] = Take(k, h[k - 1])
    BY <1>7
  <2>2. Take(k, h[k - 1])[z] = IF k \in z THEN Handled(h[k - 1][z], q[k]) ELSE h[k - 1][z]
    BY DEF Take
  <2> HIDE DEF Z
  <2> QED
    BY <2>1, <2>2
\* What is taken up to k is all that counts for it.
<1> DEFINE Same == {k \in 0 .. n : \A y, z \in Z : (\A j \in 1 .. k : j \in y <=> j \in z) => h[k][y] = h[k][z]}
<1>9. 0 .. n \subseteq Same
  <2>1. 0 \in Same
    BY <1>2, <1>8
  <2>2. ASSUME NEW k \in 1 .. n, k - 1 \in Same PROVE k \in Same
    <3> SUFFICES ASSUME NEW y \in Z, NEW z \in Z, \A j \in 1 .. k : j \in y <=> j \in z
                 PROVE  h[k][y] = h[k][z]
      BY <1>2
    <3>1. h[k - 1][y] = h[k - 1][z]
      BY <2>2
    <3>2. k \in y <=> k \in z
      OBVIOUS
    <3> QED
      BY <3>1, <3>2, <1>81
  <2> HIDE DEF Same
  <2> QED
    BY <2>1, <2>2, <1>2, UpTo
\* What comes after the last that is taken does not count.
<1>10. ASSUME NEW m \in 0 .. n, NEW z \in Z, \A j \in z : j <= m
       PROVE  h[n][z] = h[m][z]
  <2> DEFINE T == {k \in 0 .. n : k >= m => h[k][z] = h[m][z]}
  <2>1. 0 \in T
    BY <1>2
  <2>2. ASSUME NEW k \in 1 .. n, k - 1 \in T PROVE k \in T
    <3>1. CASE k <= m
      BY <3>1, <1>2
    <3>2. CASE k > m
      <4>1. h[k - 1][z] = h[m][z] /\ k \notin z
        BY <2>2, <3>2, <1>10
      <4> QED
        BY <4>1, <1>81, <1>2
    <3> QED
      BY <3>1, <3>2, <1>2
  <2> HIDE DEF T
  <2>3. n \in T
    BY <2>1, <2>2, <1>2, UpTo
  <2> QED
    BY <2>3, <1>2 DEF T
<1>11. ASSUME NEW z \in Z, z # {} PROVE h[n][z] = Handled(h[n][z \ {Max(z)}], q[Max(z)])
  <2> DEFINE m == Max(z)
             y == z \ {m}
  <2>1. m \in z /\ (\A j \in z : j <= m) /\ m \in 1 .. n
    BY <1>2, <1>11, MaxOf
  <2>2. y \in Z /\ (\A j \in y : j <= m - 1) /\ m - 1 \in 0 .. n
    BY <2>1, <1>2
  <2> HIDE DEF m, y
  <2>3. h[n][z] = h[m][z] /\ h[n][y] = h[m - 1][y]
    BY <2>1, <2>2, <1>10
  <2>4. h[m][z] = Handled(h[m - 1][z], q[m])
    BY <2>1, <1>81
  <2>5. h[m - 1][z] = h[m - 1][y]
    <3>1. \A j \in 1 .. m - 1 : j \in y <=> j \in z
      BY <2>1 DEF y
    <3> QED
      BY <3>1, <2>2, <1>9
  <2> QED
    BY <2>3, <2>4, <2>5 DEF m, y
<1>12. h[n][{}] = s
  BY <1>2, <1>8, <1>10
<1>13. h[n] = [z \in SUBSET DOMAIN q |-> IF z = {} THEN s ELSE Handled(h[n][z \ {Max(z)}], q[Max(z)])]
  <2>1. h[n] \in [Z -> Scenes]
    <3>1. n \in 0 .. n
      BY <1>2
    <3> QED
      BY <3>1 DEF S
  <2>2. \A z \in Z : h[n][z] = IF z = {} THEN s ELSE Handled(h[n][z \ {Max(z)}], q[Max(z)])
    BY <1>11, <1>12
  <2> QED
    BY <2>1, <2>2, <1>2
<1>14. iter = [z \in SUBSET DOMAIN q |-> IF z = {} THEN s ELSE Handled(iter[z \ {Max(z)}], q[Max(z)])]
  BY <1>13, Zenon
<1> HIDE DEF iter
<1>15. iter[{}] = s /\ \A z \in Z : z # {} => iter[z] = Handled(iter[z \ {Max(z)}], q[Max(z)])
  <2>1. \A z \in SUBSET DOMAIN q : iter[z] = IF z = {} THEN s ELSE Handled(iter[z \ {Max(z)}], q[Max(z)])
    BY <1>14, Zenon
  <2> QED
    BY <2>1, <1>2
<1> DEFINE g == [k \in 0 .. n |-> iter[1 .. k]]
<1>16. \A k \in 1 .. n : iter[1 .. k] = Handled(iter[1 .. k - 1], q[k])
  <2> SUFFICES ASSUME NEW k \in 1 .. n PROVE iter[1 .. k] = Handled(iter[1 .. k - 1], q[k])
    OBVIOUS
  <2>1. 1 .. k \in Z /\ 1 .. k # {} /\ 1 .. k \in SUBSET (1 .. n)
    BY <1>2
  <2>2. Max(1 .. k) = k
    <3>1. Max(1 .. k) \in 1 .. k /\ \A j \in 1 .. k : j <= Max(1 .. k)
      BY <2>1, <1>2, MaxOf
    <3> QED
      BY <3>1
  <2>3. (1 .. k) \ {k} = 1 .. k - 1
    BY <1>2
  <2> QED
    BY <2>1, <2>2, <2>3, <1>15
<1> DEFINE T == {k \in 0 .. n : iter[1 .. k] \in Scenes}
<1>17. 0 .. n \subseteq T
  <2>1. 0 \in T
    BY <1>2, <1>15
  <2>2. ASSUME NEW k \in 1 .. n, k - 1 \in T PROVE k \in T
    BY <2>2, <1>2, <1>16, HandledType
  <2> HIDE DEF T
  <2> QED
    BY <2>1, <2>2, <1>2, UpTo
<1>18. IsFold(g, s, q)
  <2>1. g \in [0 .. n -> Scenes]
    BY <1>17
  <2>2. g[0] = s
    <3>1. 1 .. 0 = {} /\ 0 \in 0 .. n
      BY <1>2
    <3> QED
      BY <3>1, <1>15
  <2>3. \A k \in 1 .. n : g[k] = Handled(g[k - 1], q[k])
    <3> SUFFICES ASSUME NEW k \in 1 .. n PROVE g[k] = Handled(g[k - 1], q[k])
      OBVIOUS
    <3>1. k \in 0 .. n /\ k - 1 \in 0 .. n
      BY <1>2
    <3> QED
      BY <3>1, <1>16
  <2> HIDE DEF g
  <2> QED
    BY <2>1, <2>2, <2>3 DEF IsFold, n
<1>19. Fold(s, q) = g[n]
  BY <1>1, <1>2
<1> HIDE DEF g
<1> QED
  BY <1>18, <1>19 DEF n

\* There is one way to fold.
LEMMA FoldUnique ==
  ASSUME NEW s \in Scenes, NEW q \in Seq(Commands), NEW n \in 0 .. Len(q), NEW g, NEW h,
         g[0] = s, \A k \in 1 .. n : g[k] = Handled(g[k - 1], q[k]),
         h[0] = s, \A k \in 1 .. n : h[k] = Handled(h[k - 1], q[k])
  PROVE  g[n] = h[n]
<1> DEFINE T == {k \in 0 .. n : g[k] = h[k]}
<1>1. n \in Nat
  OBVIOUS
<1>2. 0 \in T
  BY <1>1
<1>3. ASSUME NEW k \in 1 .. n, k - 1 \in T PROVE k \in T
  <2>1. k \in 0 .. n
    BY <1>1
  <2>2. g[k - 1] = h[k - 1]
    BY <1>3
  <2>3. g[k] = Handled(g[k - 1], q[k]) /\ h[k] = Handled(h[k - 1], q[k])
    OBVIOUS
  <2>4. g[k] = h[k]
    BY <2>2, <2>3
  <2> QED
    BY <2>1, <2>4
<1> HIDE DEF T
<1>4. n \in T
  <2>1. 0 .. n \subseteq T
    BY <1>1, <1>2, <1>3, UpTo
  <2> QED
    BY <2>1, <1>1
<1> QED
  BY <1>4 DEF T

LEMMA FoldType == ASSUME NEW s \in Scenes, NEW q \in Seq(Commands) PROVE Fold(s, q) \in Scenes
<1>1. PICK g : IsFold(g, s, q) /\ Fold(s, q) = g[Len(q)]
  BY FoldExists
<1>2. Len(q) \in 0 .. Len(q)
  OBVIOUS
<1> QED
  BY <1>1, <1>2 DEF IsFold

LEMMA FoldEmpty == ASSUME NEW s \in Scenes PROVE Fold(s, << >>) = s
<1>1. << >> \in Seq(Commands)
  OBVIOUS
<1>2. PICK g : IsFold(g, s, << >>) /\ Fold(s, << >>) = g[Len(<< >>)]
  BY <1>1, FoldExists
<1> QED
  BY <1>2 DEF IsFold

LEMMA FoldAppend ==
  ASSUME NEW s \in Scenes, NEW q \in Seq(Commands), NEW c \in Commands
  PROVE  Fold(s, Append(q, c)) = Handled(Fold(s, q), c)
<1> DEFINE a == Append(q, c)
           n == Len(q)
<1>1. a \in Seq(Commands) /\ Len(a) = n + 1 /\ n \in Nat /\ a[n + 1] = c /\ \A k \in 1 .. n : a[k] = q[k]
  OBVIOUS
<1>2. PICK g : IsFold(g, s, q) /\ Fold(s, q) = g[n]
  BY FoldExists
<1> HIDE DEF a
<1>3. PICK h : IsFold(h, s, a) /\ Fold(s, a) = h[Len(a)]
  BY <1>1, FoldExists
<1>4. g[n] = h[n]
  <2>1. g[0] = s /\ \A k \in 1 .. n : g[k] = Handled(g[k - 1], q[k])
    BY <1>2 DEF IsFold
  <2>2. h[0] = s /\ \A k \in 1 .. n : h[k] = Handled(h[k - 1], q[k])
    BY <1>1, <1>3 DEF IsFold
  <2>3. n \in 0 .. Len(q)
    OBVIOUS
  <2> HIDE DEF n
  <2> QED
    BY <2>1, <2>2, <2>3, FoldUnique
<1>5. h[n + 1] = Handled(h[n], c)
  BY <1>1, <1>3 DEF IsFold
<1> QED
  BY <1>1, <1>2, <1>3, <1>4, <1>5 DEF a

\* The head may be handled first.
LEMMA FoldTail ==
  ASSUME NEW s \in Scenes, NEW q \in Seq(Commands), q # << >>
  PROVE  Fold(Handled(s, Head(q)), Tail(q)) = Fold(s, q) /\ Head(q) \in Commands
<1> DEFINE r == Tail(q)
           t == Handled(s, Head(q))
           n == Len(r)
<1>1. r \in Seq(Commands) /\ Len(q) = n + 1 /\ n \in Nat /\ Head(q) = q[1] /\ q[1] \in Commands
      /\ \A k \in 1 .. n : r[k] = q[k + 1]
  OBVIOUS
<1>2. t \in Scenes
  BY <1>1, HandledType
<1> HIDE DEF r, t, n
<1>3. PICK g : IsFold(g, s, q) /\ Fold(s, q) = g[Len(q)]
  BY FoldExists
<1>4. PICK h : IsFold(h, t, r) /\ Fold(t, r) = h[n]
  BY <1>1, <1>2, FoldExists DEF n
<1> DEFINE f == [k \in 0 .. n |-> g[k + 1]]
<1>5. f[0] = t /\ \A k \in 1 .. n : f[k] = Handled(f[k - 1], r[k])
  <2>1. f[0] = t
    <3>1. f[0] = g[1] /\ g[1] = Handled(g[0], q[1]) /\ g[0] = s
      BY <1>1, <1>3 DEF IsFold
    <3> QED
      BY <3>1, <1>1 DEF t
  <2>2. ASSUME NEW k \in 1 .. n PROVE f[k] = Handled(f[k - 1], r[k])
    <3>1. k + 1 \in 1 .. Len(q) /\ k \in 0 .. n /\ k - 1 \in 0 .. n /\ r[k] = q[k + 1] /\ (k + 1) - 1 = k /\ (k - 1) + 1 = k
      BY <1>1
    <3>2. g[k + 1] = Handled(g[k], q[k + 1])
      BY <3>1, <1>3 DEF IsFold
    <3>3. f[k] = g[k + 1] /\ f[k - 1] = g[k]
      BY <3>1
    <3> QED
      BY <3>1, <3>2, <3>3
  <2> HIDE DEF f
  <2> QED
    BY <2>1, <2>2
<1>6. f[n] = h[n]
  <2>1. h[0] = t /\ \A k \in 1 .. n : h[k] = Handled(h[k - 1], r[k])
    BY <1>1, <1>4 DEF IsFold, n
  <2>2. n \in 0 .. Len(r)
    BY <1>1 DEF n
  <2> HIDE DEF f
  <2> QED
    BY <2>1, <2>2, <1>1, <1>2, <1>5, FoldUnique
<1>7. f[n] = g[Len(q)]
  BY <1>1
<1> QED
  BY <1>1, <1>3, <1>4, <1>6, <1>7 DEF r, t

\* Removals take their meshes out and leave the others where they are.
LEMMA FoldRemovals ==
  ASSUME NEW s \in Scenes, NEW q \in Seq(Commands), NEW r \in Seq(Commands), \A k \in 1 .. Len(r) : r[k].type = "remove"
  PROVE  /\ DOMAIN Fold(s, q \o r) = DOMAIN Fold(s, q) \ {r[k].id : k \in 1 .. Len(r)}
         /\ \A i \in DOMAIN Fold(s, q \o r) : Fold(s, q \o r)[i] = Fold(s, q)[i]
<1> DEFINE n == Len(r)
           a(k) == q \o SubSeq(r, 1, k)
           Out(k) == {r[j].id : j \in 1 .. k}
           T == {k \in 0 .. n : /\ DOMAIN Fold(s, a(k)) = DOMAIN Fold(s, q) \ Out(k)
                                /\ \A i \in DOMAIN Fold(s, a(k)) : Fold(s, a(k))[i] = Fold(s, q)[i]}
<1>1. n \in Nat /\ \A k \in 1 .. n : r[k] \in Commands /\ r[k].type = "remove"
  OBVIOUS
<1>2. a(0) = q /\ a(n) = q \o r
  <2>1. SubSeq(r, 1, 0) = << >> /\ SubSeq(r, 1, n) = r
    OBVIOUS
  <2> QED
    BY <2>1
<1>3. ASSUME NEW k \in 1 .. n PROVE a(k - 1) \in Seq(Commands) /\ a(k) = Append(a(k - 1), r[k])
  <2> DEFINE u == SubSeq(r, 1, k - 1)
             v == SubSeq(r, 1, k)
  <2>1. /\ u \in Seq(Commands) /\ Len(u) = k - 1 /\ v \in Seq(Commands) /\ Len(v) = k
        /\ \A j \in 1 .. k - 1 : u[j] = r[j]
        /\ \A j \in 1 .. k : v[j] = r[j]
    BY <1>1
  <2> HIDE DEF u, v, n
  <2>2. v = Append(u, r[k])
    BY <2>1, <1>1
  <2>3. q \o Append(u, r[k]) = Append(q \o u, r[k])
    <3> DEFINE x == r[k]
    <3>1. q \in Seq(Commands) /\ u \in Seq(Commands) /\ x \in Commands
      BY <2>1, <1>1
    <3> HIDE DEF x
    <3>2. q \o Append(u, x) = Append(q \o u, x)
      BY <3>1
    <3> QED
      BY <3>2 DEF x
  <2>4. a(k - 1) = q \o u /\ a(k) = q \o v
    BY Zenon DEF u, v
  <2> HIDE DEF a
  <2>5. q \o u \in Seq(Commands)
    BY <2>1
  <2> QED
    BY <2>2, <2>3, <2>4, <2>5, Zenon
<1> HIDE DEF a, n
<1>4. 0 \in T
  <2>1. Out(0) = {} /\ 0 \in 0 .. n
    BY <1>1
  <2> HIDE DEF Out
  <2> QED
    BY <2>1, <1>2
<1>5. ASSUME NEW k \in 1 .. n, k - 1 \in T PROVE k \in T
  <2> DEFINE F == Fold(s, a(k - 1))
  <2>1. DOMAIN F = DOMAIN Fold(s, q) \ Out(k - 1) /\ \A i \in DOMAIN F : F[i] = Fold(s, q)[i]
    BY <1>5
  <2>2. Fold(s, a(k)) = Handled(F, r[k])
    BY <1>1, <1>3, FoldAppend
  <2>3. Handled(F, r[k]) = [i \in DOMAIN F \ {r[k].id} |-> F[i]]
    BY <1>1 DEF Handled
  <2>4. Out(k) = Out(k - 1) \cup {r[k].id}
    <3>1. \A j : j \in 1 .. k <=> (j \in 1 .. k - 1 \/ j = k)
      BY <1>1
    <3> QED
      BY <3>1
  <2> HIDE DEF F, Out
  <2>5. DOMAIN Fold(s, a(k)) = DOMAIN Fold(s, q) \ Out(k)
    BY <2>1, <2>2, <2>3, <2>4
  <2>6. \A i \in DOMAIN Fold(s, a(k)) : Fold(s, a(k))[i] = Fold(s, q)[i]
    BY <2>1, <2>2, <2>3
  <2>7. k \in 0 .. n
    BY <1>1
  <2> QED
    BY <2>5, <2>6, <2>7
<1> HIDE DEF T
<1>6. n \in T
  <2>1. 0 .. n \subseteq T
    BY <1>1, <1>4, <1>5, UpTo
  <2> QED
    BY <2>1, <1>1
<1> QED
  BY <1>2, <1>6 DEF T, n

\* A scene without some meshes of another: it lacks the same or fewer later on.
Part(G, F, gone) == DOMAIN G \subseteq DOMAIN F /\ DOMAIN F \ DOMAIN G \subseteq gone /\ \A i \in DOMAIN G : G[i] = F[i]

LEMMA HandledPart ==
  ASSUME NEW G \in Scenes, NEW F \in Scenes, NEW gone, Part(G, F, gone), NEW c \in Commands
  PROVE  Part(Handled(G, c), Handled(F, c), gone)
<1>1. c.type \in {"add", "update", "remove", "map", "clear"}
  BY DEF Commands
<1>2. CASE c.type = "add"
  BY <1>2 DEF Handled, Part
<1>3. CASE c.type = "update"
  <2>1. G = [i \in DOMAIN G |-> G[i]] /\ F = [i \in DOMAIN F |-> F[i]]
    BY DEF Scenes
  <2>2. CASE c.id \in DOMAIN G
    <3>1. Handled(G, c) = [G EXCEPT ![c.id] = c.pose] /\ Handled(F, c) = [F EXCEPT ![c.id] = c.pose]
      BY <1>3, <2>2 DEF Handled, Part
    <3> QED
      BY <2>1, <2>2, <3>1 DEF Part
  <2>3. CASE c.id \notin DOMAIN G /\ c.id \in DOMAIN F
    <3>1. Handled(G, c) = G /\ Handled(F, c) = [F EXCEPT ![c.id] = c.pose]
      BY <1>3, <2>3 DEF Handled
    <3> QED
      BY <2>1, <2>3, <3>1 DEF Part
  <2>4. CASE c.id \notin DOMAIN F
    <3>1. Handled(G, c) = G /\ Handled(F, c) = F
      BY <1>3, <2>4 DEF Handled, Part
    <3> QED
      BY <3>1
  <2> QED
    BY <2>2, <2>3, <2>4
<1>4. CASE c.type = "remove"
  BY <1>4 DEF Handled, Part
<1>5. CASE c.type \in {"map", "clear"}
  BY <1>5 DEF Handled, Part
<1> QED
  BY <1>1, <1>2, <1>3, <1>4, <1>5

LEMMA FoldPart ==
  ASSUME NEW G \in Scenes, NEW F \in Scenes, NEW gone, Part(G, F, gone), NEW q \in Seq(Commands)
  PROVE  Part(Fold(G, q), Fold(F, q), gone)
<1> DEFINE n == Len(q)
<1>1. n \in Nat /\ \A k \in 1 .. n : q[k] \in Commands
  OBVIOUS
<1>2. PICK g : IsFold(g, G, q) /\ Fold(G, q) = g[n]
  BY FoldExists
<1>3. PICK f : IsFold(f, F, q) /\ Fold(F, q) = f[n]
  BY FoldExists
<1> DEFINE T == {k \in 0 .. n : Part(g[k], f[k], gone)}
<1>4. 0 \in T
  BY <1>1, <1>2, <1>3 DEF IsFold
<1>5. ASSUME NEW k \in 1 .. n, k - 1 \in T PROVE k \in T
  <2>1. k - 1 \in 0 .. n /\ k \in 0 .. n
    BY <1>1
  <2>2. g[k - 1] \in Scenes /\ f[k - 1] \in Scenes /\ g[k] = Handled(g[k - 1], q[k]) /\ f[k] = Handled(f[k - 1], q[k])
    BY <1>2, <1>3, <2>1 DEF IsFold
  <2>3. Part(g[k], f[k], gone)
    BY <1>1, <1>5, <2>2, HandledPart
  <2> QED
    BY <2>1, <2>3
<1> HIDE DEF T, n
<1>6. n \in T
  <2>1. 0 .. n \subseteq T
    BY <1>1, <1>4, <1>5, UpTo
  <2> QED
    BY <2>1, <1>1
<1> QED
  BY <1>2, <1>3, <1>6 DEF T

-----------------------------------------------------------------------------
(* What is tracked and where the commands lead                               *)

Tracks == [id : 0..MaxMeshes, identity : Identities \union {NoIdentity}, pose : Poses, missed : 0..(MaxSnapshots + 1)]

\* A mesh is where the tracker believes it, or among those that are missing.
Stands(F, x, u) == IF x.id \in DOMAIN F THEN F[x.id] = x.pose ELSE x.id \in u

\* Entities t tracks, brushes br and meshes u that may be missing, against the scene F.
Follows(F, t, br, u) ==
  /\ F \in Scenes /\ t \in [Entities -> Tracks]
  /\ \A i \in DOMAIN F \ Brushes : \E e \in Entities : t[e].id # 0 /\ t[e].id = i
  /\ \A e, f \in Entities : t[e].id # 0 /\ t[e].id = t[f].id => e = f
  /\ \A e \in Entities : t[e].id # 0 => Stands(F, t[e], u)
  /\ \A b \in Brushes \intersect DOMAIN F : br[b] # NotPushed => F[b] = br[b]

\* Meshes that may be missing.
MayMiss == unfollowed \union unmade

LEMMA MeshType ==
  ASSUME NEW i \in Ids, NEW p \in Poses
  PROVE  /\ Mesh("add", i, p) \in Commands /\ Mesh("update", i, p) \in Commands /\ Mesh("remove", i, SpawnPose) \in Commands
         /\ Clearing \in Commands /\ Loading \in Commands
<1>1. SpawnPose \in Poses
  BY OccludersAssumption
<1>2. Mesh("add", i, p) \in Commands
  BY DEF Mesh, Commands
<1>3. Mesh("update", i, p) \in Commands
  BY DEF Mesh, Commands
<1>4. Mesh("remove", i, SpawnPose) \in Commands
  BY <1>1 DEF Mesh, Commands
<1>5. Clearing \in Commands /\ Loading \in Commands
  BY <1>1 DEF Mesh, Commands, Clearing, Loading
<1> QED
  BY <1>2, <1>3, <1>4, <1>5

LEMMA MeshIds ==
  ASSUME NEW i \in 1..MaxMeshes PROVE i \in Ids /\ i \notin Brushes /\ i # 0
  BY OccludersAssumption DEF Ids, Instances

LEMMA SceneIs == ASSUME NEW F \in Scenes PROVE F = [i \in DOMAIN F |-> F[i]] /\ DOMAIN F \subseteq Ids /\ \A i \in DOMAIN F : F[i] \in Poses
  BY DEF Scenes

LEMMA Updated ==
  ASSUME NEW F \in Scenes, NEW i, NEW p, NEW G, G = Handled(F, Mesh("update", i, p))
  PROVE  DOMAIN G = DOMAIN F /\ (i \in DOMAIN F => G[i] = p) /\ \A j \in DOMAIN F : j # i => G[j] = F[j]
<1>1. F = [j \in DOMAIN F |-> F[j]]
  BY SceneIs
<1>2. CASE i \in DOMAIN F
  <2>1. G = [F EXCEPT ![i] = p]
    BY <1>2 DEF Handled, Mesh
  <2> QED
    BY <1>1, <1>2, <2>1
<1>3. CASE i \notin DOMAIN F
  <2>1. G = F
    BY <1>3 DEF Handled, Mesh
  <2> QED
    BY <1>3, <2>1
<1> QED
  BY <1>2, <1>3

\* Poses and counts of missed updates may change where the meshes follow.
LEMMA UpdateKept ==
  ASSUME NEW F, NEW t, NEW br, NEW u, Follows(F, t, br, u), NEW e \in Entities, t[e].id # 0, NEW p \in Poses,
         NEW s \in [Entities -> Tracks], \A f \in Entities : s[f].id = t[f].id, s[e].pose = p,
         \A f \in Entities \ {e} : s[f].pose = t[f].pose
  PROVE  Follows(Handled(F, Mesh("update", t[e].id, p)), s, br, u)
<1> DEFINE i == t[e].id
           G == Handled(F, Mesh("update", i, p))
<1>1. i \in 1 .. MaxMeshes /\ i \in Ids /\ i \notin Brushes /\ F \in Scenes
  BY MeshIds DEF Follows, Tracks
<1> HIDE DEF i
<1>2. G \in Scenes
  BY <1>1, MeshType, HandledType
<1>3. DOMAIN G = DOMAIN F /\ (i \in DOMAIN F => G[i] = p) /\ \A j \in DOMAIN F : j # i => G[j] = F[j]
  BY <1>1, Updated
<1> HIDE DEF G
<1>4. \A f \in Entities : s[f].id # 0 => Stands(G, s[f], u)
  <2> SUFFICES ASSUME NEW f \in Entities, s[f].id # 0 PROVE Stands(G, s[f], u)
    OBVIOUS
  <2>1. s[f].id = t[f].id /\ Stands(F, t[f], u)
    BY DEF Follows
  <2>2. CASE f = e
    BY <2>1, <2>2, <1>3 DEF i, Stands
  <2>3. CASE f # e
    <3>1. t[f].id # i
      BY <2>3, <1>1 DEF Follows, i
    <3> QED
      BY <2>1, <2>3, <3>1, <1>3 DEF Stands
  <2> QED
    BY <2>2, <2>3
<1>5. \A b \in Brushes \intersect DOMAIN G : G[b] = F[b]
  BY <1>1, <1>3
<1> QED
  BY <1>2, <1>3, <1>4, <1>5 DEF Follows, G, i

LEMMA AddKept ==
  ASSUME NEW F, NEW t, NEW br, NEW u, Follows(F, t, br, u), NEW e \in Entities, t[e].id = 0, NEW i \in 1 .. MaxMeshes,
         \A f \in Entities : t[f].id # i, NEW p \in Poses, NEW x \in Tracks, x.id = i, x.pose = p
  PROVE  Follows(Handled(F, Mesh("add", i, p)), [t EXCEPT ![e] = x], br, u)
<1> DEFINE G == Handled(F, Mesh("add", i, p))
           s == [t EXCEPT ![e] = x]
<1>1. i \in Ids /\ i \notin Brushes /\ i # 0 /\ F \in Scenes /\ t \in [Entities -> Tracks]
  BY MeshIds DEF Follows
<1>2. G \in Scenes /\ G = Handled(F, Mesh("add", i, p))
  BY <1>1, MeshType, HandledType
<1> HIDE DEF G
<1>3. DOMAIN G = DOMAIN F \cup {i} /\ G[i] = p /\ \A j \in DOMAIN F : j # i => G[j] = F[j]
  <2>1. G = [j \in DOMAIN F \union {i} |-> IF j = i THEN p ELSE F[j]]
    BY <1>2 DEF Handled, Mesh
  <2> QED
    BY <2>1
<1>4. s \in [Entities -> Tracks] /\ s[e] = x /\ \A f \in Entities : f # e => s[f] = t[f]
  BY <1>1
<1> HIDE DEF s
<1>5. \A f \in Entities : s[f].id # 0 => Stands(G, s[f], u)
  <2> SUFFICES ASSUME NEW f \in Entities, s[f].id # 0 PROVE Stands(G, s[f], u)
    OBVIOUS
  <2>1. CASE f = e
    BY <2>1, <1>3, <1>4 DEF Stands
  <2>2. CASE f # e
    BY <2>2, <1>3, <1>4 DEF Follows, Stands
  <2> QED
    BY <2>1, <2>2
<1>6. \A b \in Brushes \intersect DOMAIN G : b \in DOMAIN F /\ G[b] = F[b]
  BY <1>1, <1>3
<1>7. \A j \in DOMAIN G \ Brushes : \E f \in Entities : s[f].id # 0 /\ s[f].id = j
  <2> SUFFICES ASSUME NEW j \in DOMAIN G \ Brushes PROVE \E f \in Entities : s[f].id # 0 /\ s[f].id = j
    OBVIOUS
  <2>1. CASE j = i
    BY <2>1, <1>1, <1>4
  <2>2. CASE j # i
    BY <2>2, <1>3, <1>4 DEF Follows
  <2> QED
    BY <2>1, <2>2
<1>8. \A f, g \in Entities : s[f].id # 0 /\ s[f].id = s[g].id => f = g
  BY <1>4 DEF Follows
<1> QED
  BY <1>2, <1>4, <1>5, <1>6, <1>7, <1>8 DEF Follows, G, s

\* The entities es lose their meshes.
LEMMA RemoveKept ==
  ASSUME NEW F, NEW t, NEW br, NEW u, Follows(F, t, br, u), NEW es \in SUBSET Entities, \A e \in es : t[e].id # 0,
         NEW G \in Scenes, DOMAIN G = DOMAIN F \ {t[e].id : e \in es}, \A i \in DOMAIN G : G[i] = F[i]
  PROVE  Follows(G, [e \in Entities |-> IF e \in es THEN Untracked ELSE t[e]], br, u)
<1> DEFINE s == [e \in Entities |-> IF e \in es THEN Untracked ELSE t[e]]
<1>1. /\ t \in [Entities -> Tracks]
      /\ \A e \in es : t[e].id \in 1 .. MaxMeshes /\ t[e].id \notin Brushes
  BY MeshIds DEF Follows, Tracks
<1>2. Untracked \in Tracks /\ Untracked.id = 0
  <2>1. 0 \in 0 .. MaxMeshes /\ 0 \in 0 .. MaxSnapshots + 1 /\ SpawnPose \in Poses
    BY OccludersAssumption
  <2> QED
    BY <2>1 DEF Untracked, Tracks
<1>3. s \in [Entities -> Tracks] /\ \A e \in Entities : s[e] = IF e \in es THEN Untracked ELSE t[e]
  BY <1>1, <1>2
<1> HIDE DEF s
<1>4. \A e \in Entities : s[e].id # 0 => e \notin es /\ s[e] = t[e]
  BY <1>2, <1>3
<1>5. DOMAIN G \subseteq DOMAIN F
  OBVIOUS
<1>6. \A i \in DOMAIN G \ Brushes : \E e \in Entities : s[e].id # 0 /\ s[e].id = i
  <2> SUFFICES ASSUME NEW i \in DOMAIN G \ Brushes PROVE \E e \in Entities : s[e].id # 0 /\ s[e].id = i
    OBVIOUS
  <2>1. PICK e \in Entities : t[e].id # 0 /\ t[e].id = i
    BY DEF Follows
  <2> QED
    BY <2>1, <1>3
<1>7. \A e, f \in Entities : s[e].id # 0 /\ s[e].id = s[f].id => e = f
  BY <1>4 DEF Follows
<1>8. \A e \in Entities : s[e].id # 0 => Stands(G, s[e], u)
  <2> SUFFICES ASSUME NEW e \in Entities, s[e].id # 0 PROVE Stands(G, s[e], u)
    OBVIOUS
  <2>1. e \notin es /\ s[e] = t[e] /\ Stands(F, t[e], u)
    BY <1>4 DEF Follows
  <2>2. \A f \in es : t[f].id # t[e].id
    BY <2>1 DEF Follows
  <2> QED
    BY <2>1, <2>2 DEF Stands
<1>9. \A b \in Brushes \intersect DOMAIN G : br[b] # NotPushed => G[b] = br[b]
  BY <1>5 DEF Follows
<1> QED
  BY <1>3, <1>6, <1>7, <1>8, <1>9 DEF Follows, s

LEMMA RestrictType == ASSUME NEW F \in Scenes, NEW D \in SUBSET DOMAIN F PROVE [i \in D |-> F[i]] \in Scenes
<1>1. PICK E \in SUBSET Ids : F \in [E -> Poses]
  BY DEF Scenes
<1>2. [i \in D |-> F[i]] \in [D -> Poses] /\ D \in SUBSET Ids
  BY <1>1
<1> QED
  BY <1>2 DEF Scenes

LEMMA PushKept ==
  ASSUME NEW F, NEW t, NEW br, NEW u, Follows(F, t, br, u), NEW b \in Brushes, NEW p \in Poses, br \in [Brushes -> Poses \cup {NotPushed}]
  PROVE  Follows(Handled(F, Mesh("update", b, p)), t, [br EXCEPT ![b] = p], u)
<1> DEFINE G == Handled(F, Mesh("update", b, p))
<1>1. b \in Ids /\ F \in Scenes /\ t \in [Entities -> Tracks]
  BY DEF Follows, Ids
<1>2. G \in Scenes
  BY <1>1, MeshType, HandledType
<1>3. DOMAIN G = DOMAIN F /\ (b \in DOMAIN F => G[b] = p) /\ \A j \in DOMAIN F : j # b => G[j] = F[j]
  BY <1>1, Updated
<1> HIDE DEF G
<1>4. \A e \in Entities : t[e].id # 0 => t[e].id # b
  BY <1>1, MeshIds DEF Tracks
<1>5. \A e \in Entities : t[e].id # 0 => Stands(G, t[e], u)
  BY <1>3, <1>4 DEF Follows, Stands
<1>6. \A c \in Brushes \intersect DOMAIN G : [br EXCEPT ![b] = p][c] # NotPushed => G[c] = [br EXCEPT ![b] = p][c]
  BY <1>3 DEF Follows
<1> QED
  BY <1>2, <1>3, <1>5, <1>6 DEF Follows, G

\* What the scene does not make is missing from then on.
LEMMA PartKept ==
  ASSUME NEW F, NEW t, NEW br, NEW u, Follows(F, t, br, u), NEW G \in Scenes, NEW gone, Part(G, F, gone)
  PROVE  Follows(G, t, br, u \union (gone \ Brushes))
<1>1. \A e \in Entities : t[e].id # 0 => t[e].id \notin Brushes
  BY MeshIds DEF Follows, Tracks
<1>2. \A e \in Entities : t[e].id # 0 => Stands(G, t[e], u \union (gone \ Brushes))
  BY <1>1 DEF Follows, Stands, Part
<1> QED
  BY <1>2 DEF Follows, Part

-----------------------------------------------------------------------------
(* An update: places and the order of the passes                             *)

ListsAll(r, S, T) ==
  /\ r \in Seq(T) /\ \A k \in 1 .. Len(r) : r[k] \in S
  /\ \A x \in S : \E k \in 1 .. Len(r) : r[k] = x

\* SetToSeq lists the set.
LEMMA SequenceOf == ASSUME NEW T, NEW S \in SUBSET T, IsFiniteSet(S) PROVE ListsAll(SetToSeq(S), S, T)
<1> DEFINE n == Cardinality(S)
           f == SetToSeq(S)
<1>1. n \in Nat /\ ExistsBijection(1 .. n, S)
  BY FS_CardinalityType
<1>2. \E g \in [1 .. n -> S] : IsInjective(g)
  BY <1>1 DEF ExistsBijection, Bijection, Injection
<1>3. f \in [1 .. n -> S] /\ IsInjective(f)
  BY <1>2, Zenon DEF SetToSeq
<1> HIDE DEF n, f
<1>4. Cardinality(1 .. n) = n /\ f \in Injection(1 .. n, S)
  BY <1>1, <1>3, FS_Interval DEF Injection
<1>5. f \in Surjection(1 .. n, S)
  <2>1. Cardinality(1 .. n) = Cardinality(S) <=> f \in Surjection(1 .. n, S)
    BY <1>4, FS_Injection
  <2> QED
    BY <2>1, <1>4 DEF n
<1>6. f \in Seq(T) /\ Len(f) = n
  <2>1. f \in [1 .. n -> T]
    BY <1>3
  <2> QED
    BY <1>1, <2>1
<1>7. (\A k \in 1 .. n : f[k] \in S) /\ \A x \in S : \E k \in 1 .. n : f[k] = x
  BY <1>3, <1>5 DEF Surjection
<1> QED
  BY <1>6, <1>7 DEF f, ListsAll

LEMMA RemovalsKept ==
  ASSUME NEW s \in Scenes, NEW q \in Seq(Commands), NEW br, NEW u, Follows(Fold(s, q), m_tracked, br, u),
         NEW es \in SUBSET Entities, \A e \in es : m_tracked[e].id # 0,
         NEW r, r = SetToSeq({Removal(e) : e \in es})
  PROVE  /\ r \in Seq(Commands)
         /\ Follows(Fold(s, q \o r), [e \in Entities |-> IF e \in es THEN Untracked ELSE m_tracked[e]], br, u)
<1> DEFINE R == {Removal(e) : e \in es}
<1>1. \A e \in es : m_tracked[e].id \in Ids
  BY MeshIds DEF Follows, Tracks
<1>2. R \subseteq Commands /\ \A c \in R : c.type = "remove"
  <2>1. SpawnPose \in Poses
    BY OccludersAssumption
  <2> QED
    BY <1>1, <2>1 DEF Removal, Mesh, Commands
<1>3. IsFiniteSet(R)
  <2> DEFINE f == [e \in es |-> Removal(e)]
  <2>1. f \in Surjection(es, R)
    BY DEF Surjection
  <2>2. IsFiniteSet(es)
    BY OccludersAssumption, FS_Subset
  <2> HIDE DEF f, R
  <2> QED
    BY <2>1, <2>2, FS_Surjection
<1>4. {c.id : c \in R} = {m_tracked[e].id : e \in es}
  <2>1. \A e \in es : Removal(e).id = m_tracked[e].id
    BY DEF Removal, Mesh
  <2> QED
    BY <2>1
<1>5. r = SetToSeq(R)
  OBVIOUS
<1> HIDE DEF R
<1>6. ListsAll(r, R, Commands)
  BY <1>2, <1>3, <1>5, SequenceOf
<1>7. r \in Seq(Commands) /\ (\A k \in 1 .. Len(r) : r[k].type = "remove") /\ {r[k].id : k \in 1 .. Len(r)} = {m_tracked[e].id : e \in es}
  <2>1. r \in Seq(Commands) /\ \A k \in 1 .. Len(r) : r[k].type = "remove"
    BY <1>2, <1>6 DEF ListsAll
  <2>2. ASSUME NEW k \in 1 .. Len(r) PROVE r[k].id \in {c.id : c \in R}
    BY <1>6 DEF ListsAll
  <2>3. ASSUME NEW c \in R PROVE c.id \in {r[k].id : k \in 1 .. Len(r)}
    <3>1. PICK k \in 1 .. Len(r) : r[k] = c
      BY <1>6 DEF ListsAll
    <3> QED
      BY <3>1
  <2>4. {r[k].id : k \in 1 .. Len(r)} = {c.id : c \in R}
    BY <2>2, <2>3, Zenon
  <2> QED
    BY <1>4, <2>1, <2>4
<1>8. /\ DOMAIN Fold(s, q \o r) = DOMAIN Fold(s, q) \ {m_tracked[e].id : e \in es}
      /\ \A i \in DOMAIN Fold(s, q \o r) : Fold(s, q \o r)[i] = Fold(s, q)[i]
  <2>1. DOMAIN Fold(s, q \o r) = DOMAIN Fold(s, q) \ {r[k].id : k \in 1 .. Len(r)}
    BY <1>7, FoldRemovals
  <2>2. \A i \in DOMAIN Fold(s, q \o r) : Fold(s, q \o r)[i] = Fold(s, q)[i]
    BY <1>7, FoldRemovals
  <2> QED
    BY <2>1, <2>2, <1>7
<1>9. Fold(s, q \o r) \in Scenes
  <2>1. q \o r \in Seq(Commands)
    BY <1>7
  <2> QED
    BY <2>1, FoldType
<1> QED
  BY <1>7, <1>8, <1>9, RemoveKept

\* Entities of one count of missed updates, of what t tracks.
SameUpdate(t, n) == {e \in Entities : t[e].id # 0 /\ t[e].missed = n}
Placed(t) == \A n \in 0 .. MaxSnapshots : Cardinality(SameUpdate(t, n)) <= MaxOccluders

LEMMA PlacedNext ==
  ASSUME NEW t, NEW s, NEW a \in SUBSET Entities, Placed(t), Cardinality(a) <= MaxOccluders,
         \A e \in Entities : s[e].id # 0 => \/ s[e].missed = 0 /\ e \in a
                                            \/ t[e].id # 0 /\ s[e].missed = t[e].missed /\ (s[e].missed = 0 => e \in a)
  PROVE  Placed(s)
<1> SUFFICES ASSUME NEW n \in 0 .. MaxSnapshots PROVE Cardinality(SameUpdate(s, n)) <= MaxOccluders
  BY DEF Placed
<1>1. IsFiniteSet(a) /\ IsFiniteSet(SameUpdate(t, n)) /\ IsFiniteSet(SameUpdate(s, n)) /\ MaxOccluders \in Nat
  <2>1. SameUpdate(t, n) \in SUBSET Entities /\ SameUpdate(s, n) \in SUBSET Entities
    BY DEF SameUpdate
  <2> QED
    BY <2>1, OccludersAssumption, FS_Subset
<1>2. Cardinality(a) \in Nat /\ Cardinality(SameUpdate(t, n)) \in Nat /\ Cardinality(SameUpdate(s, n)) \in Nat
  BY <1>1, FS_CardinalityType
<1>3. CASE n = 0
  <2>1. SameUpdate(s, n) \in SUBSET a
    BY <1>3 DEF SameUpdate
  <2>2. Cardinality(SameUpdate(s, n)) <= Cardinality(a)
    BY <2>1, <1>1, FS_Subset
  <2> QED
    BY <2>2, <1>1, <1>2
<1>4. CASE n # 0
  <2>1. SameUpdate(s, n) \in SUBSET SameUpdate(t, n)
    BY <1>4 DEF SameUpdate
  <2>2. Cardinality(SameUpdate(s, n)) <= Cardinality(SameUpdate(t, n)) /\ Cardinality(SameUpdate(t, n)) <= MaxOccluders
    BY <2>1, <1>1, FS_Subset DEF Placed
  <2> QED
    BY <2>2, <1>1, <1>2
<1> QED
  BY <1>3, <1>4

\* An update makes every entity of count n one of count n + 1.
LEMMA PlacedLater ==
  ASSUME NEW t \in [Entities -> Tracks], Placed(t), NEW s,
         \A e \in Entities : s[e].id = t[e].id /\ (t[e].id # 0 => s[e].missed = t[e].missed + 1)
  PROVE  Placed(s)
<1> SUFFICES ASSUME NEW n \in 0 .. MaxSnapshots PROVE Cardinality(SameUpdate(s, n)) <= MaxOccluders
  BY DEF Placed
<1>1. MaxOccluders \in Nat /\ MaxSnapshots \in Nat
  BY OccludersAssumption
<1>2. \A e \in Entities : t[e].missed \in Nat
  BY <1>1 DEF Tracks
<1>3. CASE n = 0
  <2>1. SameUpdate(s, n) = {}
    BY <1>2, <1>3 DEF SameUpdate
  <2> QED
    BY <2>1, <1>1, FS_EmptySet
<1>4. CASE n # 0
  <2>1. n - 1 \in 0 .. MaxSnapshots
    BY <1>4, <1>1
  <2>2. SameUpdate(s, n) = SameUpdate(t, n - 1)
    BY <1>2, <2>1 DEF SameUpdate
  <2> QED
    BY <2>1, <2>2 DEF Placed
<1> QED
  BY <1>3, <1>4

\* Entities of fewer than n missed updates are at most n times as many.
LEMMA PlacedBelow ==
  ASSUME NEW t \in [Entities -> Tracks], Placed(t), NEW n \in Nat, NEW E,
         E = {e \in Entities : t[e].id # 0 /\ t[e].missed < n}, \A e \in Entities : t[e].id # 0 => t[e].missed <= MaxSnapshots
  PROVE  Cardinality(E) <= n * MaxOccluders
<1> DEFINE Below(k) == {e \in Entities : t[e].id # 0 /\ t[e].missed < k}
           T == {k \in 0 .. n : Cardinality(Below(k)) <= k * MaxOccluders}
<1>1. MaxOccluders \in Nat /\ MaxSnapshots \in Nat
  BY OccludersAssumption
<1>2. \A e \in Entities : t[e].missed \in Nat
  BY <1>1 DEF Tracks
<1>3. 0 \in T
  <2>1. Below(0) = {}
    BY <1>2
  <2>2. Cardinality(Below(0)) = 0
    BY <2>1, FS_EmptySet
  <2> QED
    BY <2>2, <1>1
<1>4. ASSUME NEW k \in 1 .. n, k - 1 \in T PROVE k \in T
  <2> DEFINE A == Below(k - 1)
             B == SameUpdate(t, k - 1)
  <2>1. Below(k) = A \cup B
    BY <1>2 DEF SameUpdate
  <2>2. Cardinality(A) <= (k - 1) * MaxOccluders
    BY <1>4
  <2>3. IsFiniteSet(A) /\ IsFiniteSet(B)
    <3>1. A \in SUBSET Entities /\ B \in SUBSET Entities
      BY DEF SameUpdate
    <3> QED
      BY <3>1, OccludersAssumption, FS_Subset
  <2>4. Cardinality(B) <= MaxOccluders
    <3>1. CASE k - 1 \in 0 .. MaxSnapshots
      BY <3>1 DEF Placed
    <3>2. CASE k - 1 \notin 0 .. MaxSnapshots
      <4>1. B = {}
        BY <3>2, <1>1, <1>2 DEF SameUpdate
      <4> QED
        BY <4>1, <1>1, FS_EmptySet
    <3> QED
      BY <3>1, <3>2
  <2> HIDE DEF A, B, Below
  <2>5. Cardinality(A \cup B) = Cardinality(A) + Cardinality(B) - Cardinality(A \cap B)
    BY <2>3, FS_Union
  <2>6. IsFiniteSet(A \cap B)
    BY <2>3, FS_Intersection
  <2>7. Cardinality(A) \in Nat /\ Cardinality(B) \in Nat /\ Cardinality(A \cap B) \in Nat
    BY <2>3, <2>6, FS_CardinalityType
  <2>8. (k - 1) * MaxOccluders + MaxOccluders = k * MaxOccluders /\ (k - 1) * MaxOccluders \in Nat
    BY <1>1
  <2>9. Cardinality(A \cup B) <= k * MaxOccluders
    <3>1. Cardinality(A) + Cardinality(B) <= (k - 1) * MaxOccluders + MaxOccluders
      BY <2>2, <2>4, <2>7, <2>8, <1>1
    <3>2. Cardinality(A \cup B) <= Cardinality(A) + Cardinality(B)
      BY <2>5, <2>7
    <3> DEFINE a == Cardinality(A)  b == Cardinality(B)  c == Cardinality(A \cup B)
               x == (k - 1) * MaxOccluders + MaxOccluders
    <3>3. a \in Nat /\ b \in Nat /\ c \in Int /\ x \in Nat /\ a + b <= x /\ c <= a + b
      BY <2>5, <2>7, <2>8, <3>1, <3>2, <1>1
    <3> HIDE DEF a, b, c, x
    <3>4. c <= x
      BY <3>3
    <3> QED
      BY <3>4, <2>8 DEF c, x
  <2>10. Cardinality(Below(k)) <= k * MaxOccluders
    BY <2>1, <2>9
  <2> QED
    BY <2>10 DEF Below
<1>5. n \in T
  <2> HIDE DEF T
  <2>1. 0 .. n \subseteq T
    BY <1>3, <1>4, UpTo
  <2> QED
    BY <2>1
<1> QED
  BY <1>5

\* The pass: who was seen last when, and who has a place.
PlacesKept ==
  /\ Placed(m_tracked)
  /\ \A e \in Entities : m_tracked[e].id # 0 => m_tracked[e].missed <= snapshots /\ (m_tracked[e].missed = 0 => e \in accepted)
  /\ Cardinality(accepted) <= MaxOccluders
  /\ considering = Idle /\ ~refusedOnce => \A e \in Entities : m_tracked[e].id # 0 => m_tracked[e].missed < MissedBeforeRemove

TrackerSafe ==
  /\ OccludersTypeOK /\ geometryQueue \in Seq(Commands) /\ m_dynamic \in Scenes
  /\ \A e \in Entities : m_tracked[e].id < nextDynamicId
  /\ Follows(Ahead, m_tracked, m_brush, MayMiss)
  /\ m_geometryPending # "no" => \A b \in Brushes : m_brush[b] = NotPushed
  /\ PlacesKept

LEMMA OccNumbers ==
  /\ MaxMeshes \in Nat /\ MaxSnapshots \in Nat /\ MaxOccluders \in Nat /\ MissedBeforeRemove \in Nat /\ MissedBeforeRemove > 0
  /\ SpawnPose \in Poses /\ IsFiniteSet(Entities) /\ 0 \notin Entities
  /\ Brushes \intersect (1 .. MaxMeshes) = {} /\ NotPushed \notin Poses
<1>1. {MaxOccluders, MaxMeshes, MaxSnapshots, MaxQueued} \subseteq Nat /\ MissedBeforeRemove \in Nat \ {0}
  BY OccludersAssumption
<1> QED
  BY <1>1, OccludersAssumption

LEMMA TrackIs ==
  ASSUME OccludersTypeOK, NEW e \in Entities
  PROVE  /\ m_tracked \in [Entities -> Tracks] /\ m_tracked[e] \in Tracks
         /\ m_tracked[e].id \in 0 .. MaxMeshes /\ m_tracked[e].missed \in 0 .. MaxSnapshots + 1 /\ m_tracked[e].pose \in Poses
  BY DEF OccludersTypeOK, Tracks

LEMMA UntrackedType == Untracked \in Tracks /\ Untracked.id = 0
<1>1. 0 \in 0 .. MaxMeshes /\ 0 \in 0 .. MaxSnapshots + 1 /\ SpawnPose \in Poses
  BY OccNumbers
<1> QED
  BY <1>1 DEF Untracked, Tracks

LEMMA IdleIsOutside == ASSUME NEW S \in SUBSET Entities PROVE S # Idle
  BY OccNumbers DEF Idle

LEMMA AheadType == ASSUME TrackerSafe PROVE Ahead \in Scenes /\ Ahead = Fold(m_dynamic, geometryQueue)
  BY FoldType DEF TrackerSafe, Ahead, Fold

LEMMA OccStart == OccludersInit => TrackerSafe
<1> SUFFICES ASSUME OccludersInit PROVE TrackerSafe
  OBVIOUS
<1> USE DEF OccludersInit
<1>1. Untracked \in Tracks /\ Untracked.id = 0
  BY UntrackedType
<1>2. NoMeshes \in Scenes /\ DOMAIN NoMeshes = {}
  BY NoMeshesIs
<1>3. geometryQueue \in Seq(Commands) /\ Ahead = NoMeshes
  <2>1. geometryQueue = << >>
    OBVIOUS
  <2>2. Fold(NoMeshes, << >>) = NoMeshes
    BY <1>2, FoldEmpty
  <2> QED
    BY <2>1, <2>2 DEF Ahead, Fold
<1>4. \A e \in Entities : m_tracked[e] = Untracked
  OBVIOUS
<1>5. OccludersTypeOK
  <2>1. m_tracked \in [Entities -> Tracks]
    BY <1>1
  <2>2. DOMAIN m_dynamic \subseteq Instances \union Brushes
    BY <1>2
  <2>3. m_brush \in [Brushes -> Poses \union {NotPushed}] /\ considering = Idle /\ accepted \subseteq Entities
        /\ refusedOnce \in BOOLEAN /\ unfollowed \subseteq Instances /\ unmade \subseteq Instances
        /\ m_geometryPending \in {"no", "clear", "map"}
    OBVIOUS
  <2>4. nextDynamicId \in 1 .. (MaxMeshes + 1) /\ snapshots \in 0 .. MaxSnapshots
    BY OccNumbers
  <2> QED
    BY <2>1, <2>2, <2>3, <2>4 DEF OccludersTypeOK, Tracks
<1>6. Follows(Ahead, m_tracked, m_brush, MayMiss)
  <2>1. DOMAIN Ahead = {}
    BY <1>2, <1>3
  <2>2. \A b \in Brushes : m_brush[b] = NotPushed
    OBVIOUS
  <2>3. m_tracked \in [Entities -> Tracks]
    BY <1>1
  <2> QED
    BY <1>1, <1>2, <1>3, <1>4, <2>1, <2>2, <2>3 DEF Follows
<1>7. Placed(m_tracked)
  <2>1. \A n \in 0 .. MaxSnapshots : SameUpdate(m_tracked, n) = {}
    BY <1>1, <1>4 DEF SameUpdate
  <2>2. Cardinality({}) = 0
    BY FS_EmptySet
  <2>3. ASSUME NEW n \in 0 .. MaxSnapshots PROVE Cardinality(SameUpdate(m_tracked, n)) <= MaxOccluders
    <3>1. SameUpdate(m_tracked, n) = {} /\ MaxOccluders \in Nat
      BY <2>1, OccNumbers
    <3>2. Cardinality(SameUpdate(m_tracked, n)) = 0
      BY <3>1, <2>2, Zenon
    <3> QED
      BY <3>1, <3>2
  <2> QED
    BY <2>3 DEF Placed
<1>8. PlacesKept
  BY <1>1, <1>4, <1>7, FS_EmptySet, OccNumbers DEF PlacesKept
<1> QED
  BY <1>1, <1>2, <1>3, <1>4, <1>5, <1>6, <1>8 DEF TrackerSafe

-----------------------------------------------------------------------------

LEMMA SentOne ==
  ASSUME TrackerSafe, NEW c \in Commands, geometryQueue' = geometryQueue \o <<c>>, m_dynamic' = m_dynamic
  PROVE  geometryQueue' \in Seq(Commands) /\ Ahead' = Handled(Ahead, c)
<1>1. geometryQueue \in Seq(Commands) /\ m_dynamic \in Scenes
  BY DEF TrackerSafe
<1>2. geometryQueue \o <<c>> = Append(geometryQueue, c) /\ Append(geometryQueue, c) \in Seq(Commands)
  BY <1>1
<1>3. Fold(m_dynamic, Append(geometryQueue, c)) = Handled(Fold(m_dynamic, geometryQueue), c)
  BY <1>1, FoldAppend
<1> QED
  BY <1>2, <1>3 DEF Ahead, Fold

LEMMA SentTwo ==
  ASSUME TrackerSafe, NEW c \in Commands, NEW d \in Commands, geometryQueue' = geometryQueue \o <<c, d>>, m_dynamic' = m_dynamic
  PROVE  geometryQueue' \in Seq(Commands) /\ Ahead' = Handled(Handled(Ahead, c), d)
<1>1. geometryQueue \in Seq(Commands) /\ m_dynamic \in Scenes
  BY DEF TrackerSafe
<1> DEFINE q == Append(geometryQueue, c)
<1>2. q \in Seq(Commands)
  BY <1>1
<1>3. geometryQueue \o <<c, d>> = Append(q, d) /\ Append(q, d) \in Seq(Commands)
  BY <1>1, <1>2
<1>4. Fold(m_dynamic, Append(q, d)) = Handled(Fold(m_dynamic, q), d)
  BY <1>1, <1>2, FoldAppend
<1>5. Fold(m_dynamic, q) = Handled(Fold(m_dynamic, geometryQueue), c)
  BY <1>1, FoldAppend
<1> HIDE DEF q
<1> QED
  BY <1>3, <1>4, <1>5 DEF Ahead, Fold

LEMMA SentNothing == ASSUME UNCHANGED <<geometryQueue, m_dynamic>> PROVE Ahead' = Ahead
  BY DEF Ahead

LEMMA BeginKept == ASSUME TrackerSafe, BeginUpdate PROVE TrackerSafe'
<1> USE DEF BeginUpdate
<1>1. /\ OccludersTypeOK /\ m_tracked \in [Entities -> Tracks] /\ snapshots \in 0 .. MaxSnapshots /\ snapshots < MaxSnapshots
  BY TrackIs DEF TrackerSafe, OccludersTypeOK, Tracks
<1>2. \A e \in Entities : m_tracked'[e] = IF m_tracked[e].id # 0 THEN [m_tracked[e] EXCEPT !.missed = @ + 1] ELSE m_tracked[e]
  BY DEF Known
<1>3. \A e \in Entities : m_tracked[e].id # 0 => m_tracked[e].missed <= snapshots
  BY DEF TrackerSafe, PlacesKept
<1>4. ASSUME NEW e \in Entities
      PROVE  /\ m_tracked'[e] \in Tracks /\ m_tracked'[e].id = m_tracked[e].id /\ m_tracked'[e].pose = m_tracked[e].pose
             /\ m_tracked[e].id # 0 => m_tracked'[e].missed = m_tracked[e].missed + 1
  <2>1. m_tracked[e] \in Tracks /\ m_tracked[e].missed \in Nat
    BY <1>1, OccNumbers DEF Tracks
  <2>2. CASE m_tracked[e].id # 0
    <3>1. m_tracked[e].missed + 1 \in 0 .. MaxSnapshots + 1
      <4>1. m_tracked[e].missed <= snapshots /\ snapshots \in Nat /\ MaxSnapshots \in Nat /\ snapshots < MaxSnapshots
        BY <2>2, <1>1, <1>3, OccNumbers
      <4> QED
        BY <4>1, <2>1
    <3> QED
      BY <2>1, <2>2, <3>1, <1>2 DEF Tracks
  <2>3. CASE m_tracked[e].id = 0
    BY <2>1, <2>3, <1>2
  <2> QED
    BY <2>2, <2>3
<1>5. m_tracked' \in [Entities -> Tracks]
  BY <1>4
<1>6. OccludersTypeOK'
  <2>1. considering' \subseteq Entities /\ accepted' \subseteq Entities /\ snapshots' \in 0 .. MaxSnapshots
    BY <1>1, OccNumbers
  <2> QED
    BY <2>1, <1>1, <1>5 DEF OccludersTypeOK, Tracks
<1>7. Follows(Ahead', m_tracked', m_brush', MayMiss')
  <2>1. Ahead' = Ahead
    BY SentNothing
  <2> QED
    BY <2>1, <1>4, <1>5 DEF TrackerSafe, Follows, MayMiss, Stands
<1>8. Placed(m_tracked)'
  <2>1. Placed(m_tracked')
    BY <1>1, <1>4, PlacedLater DEF TrackerSafe, PlacesKept
  <2> QED
    BY <2>1 DEF Placed, SameUpdate
<1>9. PlacesKept'
  <2>1. \A e \in Entities : m_tracked'[e].id # 0 => m_tracked'[e].missed <= snapshots' /\ m_tracked'[e].missed # 0
    <3> SUFFICES ASSUME NEW e \in Entities, m_tracked'[e].id # 0
                 PROVE  m_tracked'[e].missed <= snapshots' /\ m_tracked'[e].missed # 0
      OBVIOUS
    <3>1. m_tracked[e].id # 0
      BY <1>4
    <3>2. m_tracked[e].missed \in Nat /\ m_tracked[e].missed <= snapshots /\ m_tracked'[e].missed = m_tracked[e].missed + 1
      <4>1. m_tracked[e].missed \in Nat
        BY <1>1, OccNumbers DEF Tracks
      <4> QED
        BY <4>1, <3>1, <1>3, <1>4
    <3>3. snapshots' = snapshots + 1 /\ snapshots \in Nat
      BY <1>1, OccNumbers
    <3> QED
      BY <3>2, <3>3
  <2>2. considering' # Idle
    BY IdleIsOutside
  <2>3. Cardinality(accepted') <= MaxOccluders
    BY FS_EmptySet, OccNumbers
  <2> QED
    BY <2>1, <2>2, <2>3, <1>8 DEF PlacesKept
<1>10. \A e \in Entities : m_tracked'[e].id < nextDynamicId'
  BY <1>4 DEF TrackerSafe
<1> QED
  BY <1>6, <1>7, <1>9, <1>10 DEF TrackerSafe

-----------------------------------------------------------------------------
(* The steps of the tracker                                                  *)

LEMMA RemoveOneKept ==
  ASSUME NEW F, NEW t, NEW br, NEW u, Follows(F, t, br, u), NEW e \in Entities, t[e].id # 0,
         NEW G, G = Handled(F, Mesh("remove", t[e].id, SpawnPose))
  PROVE  Follows(G, [t EXCEPT ![e] = Untracked], br, u)
<1>1. F \in Scenes /\ t \in [Entities -> Tracks] /\ t[e].id \in Ids
  BY MeshIds DEF Follows, Tracks
<1>2. G = [i \in DOMAIN F \ {t[e].id} |-> F[i]]
  BY DEF Handled, Mesh
<1>3. G \in Scenes
  BY <1>1, <1>2, RestrictType
<1>4. DOMAIN G = DOMAIN F \ {t[e].id} /\ \A i \in DOMAIN G : G[i] = F[i]
  BY <1>2
<1> DEFINE es == {e}
<1>5. DOMAIN G = DOMAIN F \ {t[f].id : f \in es} /\ es \in SUBSET Entities /\ \A f \in es : t[f].id # 0
  <2>1. {t[f].id : f \in es} = {t[e].id}
    OBVIOUS
  <2> QED
    BY <2>1, <1>4
<1>6. [f \in Entities |-> IF f \in es THEN Untracked ELSE t[f]] = [t EXCEPT ![e] = Untracked]
  BY <1>1
<1> HIDE DEF es
<1>7. Follows(G, [f \in Entities |-> IF f \in es THEN Untracked ELSE t[f]], br, u)
  BY <1>3, <1>4, <1>5, RemoveKept
<1> QED
  BY <1>6, <1>7

LEMMA SamePosesKept ==
  ASSUME NEW F, NEW t, NEW br, NEW u, Follows(F, t, br, u), NEW s \in [Entities -> Tracks],
         \A e \in Entities : s[e].id = t[e].id /\ (t[e].id # 0 => s[e].pose = t[e].pose)
  PROVE  Follows(F, s, br, u)
  BY DEF Follows, Stands

\* What a place needs of an entity.
Place(f) ==
  m_tracked'[f].id # 0 => \/ m_tracked'[f].missed = 0 /\ f \in accepted'
                          \/ m_tracked[f].id # 0 /\ m_tracked'[f].missed = m_tracked[f].missed /\ (m_tracked'[f].missed = 0 => f \in accepted')

LEMMA PlacesNext ==
  ASSUME TrackerSafe, \A f \in Entities : Place(f), accepted' \subseteq Entities, Cardinality(accepted') <= MaxOccluders,
         snapshots' \in Nat, snapshots' >= snapshots, considering' = Idle /\ ~refusedOnce' => \A e \in Entities : m_tracked'[e].id # 0 => m_tracked'[e].missed < MissedBeforeRemove
  PROVE  PlacesKept'
<1>1. PlacesKept /\ snapshots \in Nat
  BY OccNumbers DEF TrackerSafe, OccludersTypeOK
<1>2. Placed(m_tracked')
  BY <1>1, PlacedNext DEF PlacesKept, Place
<1>3. Placed(m_tracked)'
  BY <1>2 DEF Placed, SameUpdate
<1>4. ASSUME NEW e \in Entities, m_tracked'[e].id # 0
      PROVE  m_tracked'[e].missed <= snapshots' /\ (m_tracked'[e].missed = 0 => e \in accepted')
  <2>1. CASE m_tracked'[e].missed = 0 /\ e \in accepted'
    BY <2>1
  <2>2. CASE m_tracked[e].id # 0 /\ m_tracked'[e].missed = m_tracked[e].missed /\ (m_tracked'[e].missed = 0 => e \in accepted')
    <3>1. m_tracked[e].missed <= snapshots
      BY <2>2, <1>1 DEF PlacesKept
    <3>2. m_tracked[e].missed \in Nat
      BY TrackIs, OccNumbers DEF TrackerSafe
    <3> QED
      BY <2>2, <3>1, <3>2, <1>1
  <2> QED
    BY <2>1, <2>2, <1>4 DEF Place
<1> QED
  BY <1>3, <1>4 DEF PlacesKept

LEMMA Considering ==
  ASSUME TrackerSafe, NEW e \in Entities, Considered(e), nextDynamicId <= MaxMeshes,
         UNCHANGED <<m_geometryPending, unmade, unfollowed, m_brush, refusedOnce, m_dynamic, snapshots>>, nextDynamicId' \in {nextDynamicId, nextDynamicId + 1},
         accepted' = accepted \/ (Room /\ accepted' = accepted \union {e}),
         geometryQueue' \in Seq(Commands), Follows(Ahead', m_tracked', m_brush, MayMiss),
         \A f \in Entities : m_tracked'[f].id < nextDynamicId', \A f \in Entities : Place(f)
  PROVE  TrackerSafe'
<1>1. OccludersTypeOK /\ PlacesKept /\ m_dynamic \in Scenes
  BY DEF TrackerSafe
<1>2. considering' \subseteq Entities /\ considering' # Idle
  <2>1. considering \subseteq Entities
    BY <1>1 DEF Considered, OccludersTypeOK
  <2>2. considering' \in SUBSET Entities
    BY <2>1 DEF Considered
  <2> QED
    BY <2>2, IdleIsOutside
<1>3. accepted' \subseteq Entities /\ Cardinality(accepted') <= MaxOccluders
  <2>1. CASE accepted' = accepted
    BY <2>1, <1>1 DEF OccludersTypeOK, PlacesKept
  <2>2. CASE Room /\ accepted' = accepted \union {e}
    <3>1. accepted \subseteq Entities /\ IsFiniteSet(accepted)
      BY <1>1, OccNumbers, FS_Subset DEF OccludersTypeOK
    <3>2. Cardinality(accepted) \in Nat /\ Cardinality(accepted) < MaxOccluders
      BY <2>2, <3>1, FS_CardinalityType DEF Room
    <3>3. Cardinality(accepted \union {e}) = IF e \in accepted THEN Cardinality(accepted) ELSE Cardinality(accepted) + 1
      BY <3>1, FS_AddElement
    <3>4. Cardinality(accepted \union {e}) <= MaxOccluders
      BY <3>2, <3>3, OccNumbers
    <3> QED
      BY <2>2, <3>1, <3>4
  <2> QED
    BY <2>1, <2>2
<1>4. OccludersTypeOK'
  <2>1. m_tracked' \in [Entities -> Tracks]
    BY DEF Follows
  <2>2. nextDynamicId' \in 1 .. (MaxMeshes + 1)
    BY <1>1, OccNumbers DEF OccludersTypeOK
  <2> QED
    BY <1>1, <1>2, <1>3, <2>1, <2>2 DEF OccludersTypeOK, Tracks
<1>5. PlacesKept'
  <2>1. snapshots' \in Nat /\ snapshots' >= snapshots
    BY <1>1, OccNumbers DEF OccludersTypeOK
  <2> QED
    BY <2>1, <1>2, <1>3, PlacesNext
<1>6. Follows(Ahead', m_tracked', m_brush', MayMiss')
  BY DEF MayMiss
<1> QED
  BY <1>1, <1>4, <1>5, <1>6 DEF TrackerSafe

LEMMA ConsiderKept ==
  ASSUME TrackerSafe, NEW e \in Entities, NEW seen \in [identity : Identities, pose : Poses], Consider(e, seen)
  PROVE  TrackerSafe'
<1> DEFINE n == nextDynamicId
<1>1. /\ OccludersTypeOK /\ PlacesKept /\ m_tracked \in [Entities -> Tracks] /\ m_tracked[e] \in Tracks
      /\ Considered(e) /\ n <= MaxMeshes /\ UNCHANGED <<m_geometryPending, unmade, unfollowed, m_brush, refusedOnce, m_dynamic, snapshots>>
      /\ seen.identity \in Identities /\ seen.pose \in Poses /\ n \in Nat /\ n \in 1 .. MaxMeshes /\ n + 1 > n
      /\ Follows(Ahead, m_tracked, m_brush, MayMiss) /\ geometryQueue \in Seq(Commands)
  BY TrackIs, OccNumbers DEF TrackerSafe, Consider, OccludersTypeOK
<1>2. \A f \in Entities : m_tracked[f].id \in Nat /\ m_tracked[f].id < n /\ m_tracked[f].id # n
  <2>1. \A f \in Entities : m_tracked[f].id \in Nat
    BY <1>1, OccNumbers DEF Tracks
  <2> QED
    BY <2>1, <1>1 DEF TrackerSafe
<1>3. \A f \in Entities : m_tracked[f].id # 0 /\ m_tracked[f].missed = 0 => f \in accepted
  BY <1>1 DEF PlacesKept
<1>4. 0 \in 0 .. MaxMeshes /\ 0 \in 0 .. MaxSnapshots + 1 /\ n \in 0 .. MaxMeshes
  BY <1>1, OccNumbers
<1> DEFINE new == [id |-> n, identity |-> seen.identity, pose |-> seen.pose, missed |-> 0]
           here == [m_tracked[e] EXCEPT !.missed = 0]
<1>5. new \in Tracks /\ new.id = n /\ new.pose = seen.pose /\ new.missed = 0
  BY <1>1, <1>4 DEF Tracks
<1>6. here \in Tracks /\ here.id = m_tracked[e].id /\ here.pose = m_tracked[e].pose /\ here.missed = 0
  BY <1>1, <1>4 DEF Tracks
<1>7. /\ Mesh("add", n, seen.pose) \in Commands
      /\ Known(e) => Removal(e) \in Commands /\ Mesh("update", m_tracked[e].id, seen.pose) \in Commands
  <2>1. n \in Ids /\ (Known(e) => m_tracked[e].id \in Ids)
    BY <1>1, MeshIds DEF Known, Tracks
  <2> QED
    BY <2>1, <1>1, MeshType DEF Removal
<1> HIDE DEF n, new, here
\* Nothing happens to its mesh.
<1>8. CASE /\ Refused(m_tracked) /\ UNCHANGED accepted /\ n' \in {n, n + 1}
  <2>1. Follows(Ahead', m_tracked', m_brush, MayMiss)
    BY <1>1, <1>8, SentNothing DEF Refused
  <2>2. \A f \in Entities : m_tracked'[f].id < n' /\ Place(f)
    BY <1>1, <1>2, <1>3, <1>8 DEF Refused, Place, n
  <2> QED
    BY <2>1, <2>2, <1>1, <1>8, Considering DEF Refused, n
<1>9. CASE ReplaceStranger(e, seen)
  <2>1. Known(e) /\ Removal(e) \in Commands /\ m_tracked[e].id # 0
    BY <1>7, <1>9 DEF ReplaceStranger, Known
  <2>2. CASE /\ Send(<<Removal(e)>>, [m_tracked EXCEPT ![e] = Untracked]) /\ accepted' = accepted /\ n' \in {n, n + 1}
    <3>1. Ahead' = Handled(Ahead, Removal(e)) /\ geometryQueue' \in Seq(Commands)
      BY <2>1, <2>2, <1>1, SentOne DEF Send
    <3>2. Follows(Ahead', [m_tracked EXCEPT ![e] = Untracked], m_brush, MayMiss)
      BY <2>1, <3>1, <1>1, RemoveOneKept DEF Removal
    <3>3. m_tracked' = [m_tracked EXCEPT ![e] = Untracked] /\ m_tracked'[e].id = 0 /\ \A f \in Entities : f # e => m_tracked'[f] = m_tracked[f]
      BY <2>2, <1>1, UntrackedType DEF Send
    <3>4. \A f \in Entities : m_tracked'[f].id < n' /\ Place(f)
      BY <3>3, <2>2, <1>1, <1>2, <1>3 DEF Place, n
    <3> QED
      BY <3>1, <3>2, <3>3, <3>4, <2>2, <1>1, Considering DEF n
  <2>3. CASE /\ Room /\ Send(<<Removal(e), Mesh("add", n, seen.pose)>>, [m_tracked EXCEPT ![e] = new])
             /\ accepted' = accepted \union {e} /\ n' = n + 1
    <3> DEFINE gone == [m_tracked EXCEPT ![e] = Untracked]
    <3>1. Ahead' = Handled(Handled(Ahead, Removal(e)), Mesh("add", n, seen.pose)) /\ geometryQueue' \in Seq(Commands)
      BY <2>1, <2>3, <1>1, <1>7, SentTwo DEF Send
    <3>2. Follows(Handled(Ahead, Removal(e)), gone, m_brush, MayMiss)
      BY <2>1, <1>1, RemoveOneKept DEF Removal
    <3>3. gone \in [Entities -> Tracks] /\ gone[e].id = 0 /\ (\A f \in Entities : gone[f].id # n) /\ [gone EXCEPT ![e] = new] = [m_tracked EXCEPT ![e] = new]
      <4>1. gone \in [Entities -> Tracks] /\ gone[e] = Untracked /\ \A f \in Entities : f # e => gone[f] = m_tracked[f]
        BY <1>1, UntrackedType
      <4>2. 0 # n
        BY <1>1
      <4>3. [gone EXCEPT ![e] = new] = [m_tracked EXCEPT ![e] = new]
        BY <1>1
      <4> HIDE DEF gone
      <4> QED
        BY <4>1, <4>2, <4>3, <1>2, UntrackedType
    <3> HIDE DEF gone
    <3>4. Follows(Ahead', [gone EXCEPT ![e] = new], m_brush, MayMiss)
      BY <3>1, <3>2, <3>3, <1>1, <1>5, AddKept
    <3>5. m_tracked' = [m_tracked EXCEPT ![e] = new] /\ m_tracked'[e] = new /\ \A f \in Entities : f # e => m_tracked'[f] = m_tracked[f]
      BY <2>3, <1>1 DEF Send
    <3>6. \A f \in Entities : m_tracked'[f].id < n' /\ Place(f)
      BY <3>5, <2>3, <1>1, <1>2, <1>3, <1>5 DEF Place
    <3> QED
      BY <3>1, <3>3, <3>4, <3>5, <3>6, <2>3, <1>1, Considering DEF n
  <2> QED
    BY <1>8, <1>9, <2>2, <2>3 DEF ReplaceStranger, n, new
<1>10. CASE FollowKnown(e, seen)
  <2>1. Known(e) /\ m_tracked[e].id # 0 /\ Mesh("update", m_tracked[e].id, seen.pose) \in Commands /\ n' = n
    BY <1>7, <1>10 DEF FollowKnown, Known, n
  <2>2. CASE /\ Room /\ accepted' = accepted \union {e}
             /\ Send(<<Mesh("update", m_tracked[e].id, seen.pose)>>, [m_tracked EXCEPT ![e] = [here EXCEPT !.pose = seen.pose]])
    <3> DEFINE moved == [here EXCEPT !.pose = seen.pose]
    <3>1. moved \in Tracks /\ moved.id = m_tracked[e].id /\ moved.pose = seen.pose /\ moved.missed = 0
      BY <1>1, <1>6 DEF Tracks
    <3> HIDE DEF moved
    <3>2. m_tracked' = [m_tracked EXCEPT ![e] = moved]
      BY <2>2 DEF Send, moved
    <3>3. m_tracked' \in [Entities -> Tracks] /\ m_tracked'[e] = moved /\ \A f \in Entities : f # e => m_tracked'[f] = m_tracked[f]
      BY <3>1, <3>2, <1>1
    <3>4. Ahead' = Handled(Ahead, Mesh("update", m_tracked[e].id, seen.pose)) /\ geometryQueue' \in Seq(Commands)
      BY <2>1, <2>2, <1>1, SentOne DEF Send
    <3>5. /\ \A f \in Entities : m_tracked'[f].id = m_tracked[f].id
          /\ m_tracked'[e].pose = seen.pose /\ \A f \in Entities \ {e} : m_tracked'[f].pose = m_tracked[f].pose
      BY <3>1, <3>3
    <3>6. Follows(Ahead', m_tracked', m_brush, MayMiss)
      BY <2>1, <3>3, <3>4, <3>5, <1>1, UpdateKept
    <3>7. \A f \in Entities : m_tracked'[f].id < n' /\ Place(f)
      BY <3>1, <3>3, <2>1, <2>2, <1>1, <1>2, <1>3 DEF Place
    <3> QED
      BY <3>4, <3>6, <3>7, <2>1, <2>2, <1>1, Considering DEF n
  <2>3. CASE /\ Room /\ accepted' = accepted \union {e} /\ Refused([m_tracked EXCEPT ![e] = here])
    <3>1. m_tracked' \in [Entities -> Tracks] /\ m_tracked'[e] = here /\ \A f \in Entities : f # e => m_tracked'[f] = m_tracked[f]
      BY <2>3, <1>1, <1>6 DEF Refused
    <3>2. Ahead' = Ahead /\ geometryQueue' \in Seq(Commands)
      BY <2>3, <1>1, SentNothing DEF Refused
    <3>3. \A f \in Entities : m_tracked'[f].id = m_tracked[f].id /\ m_tracked'[f].pose = m_tracked[f].pose
      BY <3>1, <1>6
    <3>4. Follows(Ahead', m_tracked', m_brush, MayMiss)
      BY <3>1, <3>2, <3>3, <1>1, SamePosesKept
    <3>5. \A f \in Entities : m_tracked'[f].id < n' /\ Place(f)
      BY <3>1, <2>1, <2>3, <1>1, <1>2, <1>3, <1>6 DEF Place
    <3> QED
      BY <3>2, <3>4, <3>5, <2>1, <2>3, <1>1, Considering DEF n
  <2> QED
    BY <1>8, <1>10, <2>1, <2>2, <2>3 DEF FollowKnown, Move, here, n
<1>11. CASE TrackNew(e, seen)
  <2>1. CASE /\ Room /\ Send(<<Mesh("add", n, seen.pose)>>, [m_tracked EXCEPT ![e] = new])
             /\ accepted' = accepted \union {e} /\ n' = n + 1
    <3>1. Ahead' = Handled(Ahead, Mesh("add", n, seen.pose)) /\ geometryQueue' \in Seq(Commands)
      BY <2>1, <1>1, <1>7, SentOne DEF Send
    <3>2. m_tracked[e].id = 0
      BY <1>11 DEF TrackNew, Known
    <3>3. Follows(Ahead', [m_tracked EXCEPT ![e] = new], m_brush, MayMiss)
      BY <3>1, <3>2, <1>1, <1>2, <1>5, AddKept
    <3>4. m_tracked' = [m_tracked EXCEPT ![e] = new] /\ m_tracked'[e] = new /\ \A f \in Entities : f # e => m_tracked'[f] = m_tracked[f]
      BY <2>1, <1>1 DEF Send
    <3>5. \A f \in Entities : m_tracked'[f].id < n' /\ Place(f)
      BY <3>4, <2>1, <1>1, <1>2, <1>3, <1>5 DEF Place
    <3> QED
      BY <3>1, <3>3, <3>4, <3>5, <2>1, <1>1, Considering DEF n
  <2> QED
    BY <1>8, <1>11, <2>1 DEF TrackNew, n, new
<1> QED
  BY <1>9, <1>10, <1>11 DEF Consider

LEMMA NothingPushed ==
  ASSUME NEW F, NEW t, NEW br, NEW u, Follows(F, t, br, u)
  PROVE  Follows(F, t, [b \in Brushes |-> NotPushed], u)
  BY DEF Follows

LEMMA PushBrushKept ==
  ASSUME TrackerSafe, NEW b \in Brushes, NEW pose \in Poses \union {NotPushed}, PushBrush(b, pose)
  PROVE  TrackerSafe'
<1> DEFINE br == [m_brush EXCEPT ![b] = pose]
<1>1. /\ OccludersTypeOK /\ PlacesKept /\ m_tracked \in [Entities -> Tracks] /\ m_brush \in [Brushes -> Poses \union {NotPushed}]
      /\ Follows(Ahead, m_tracked, m_brush, MayMiss) /\ geometryQueue \in Seq(Commands)
      /\ m_tracked' = m_tracked /\ m_brush' = br
      /\ UNCHANGED <<m_geometryPending, unmade, unfollowed, considering, accepted, refusedOnce, m_dynamic, nextDynamicId, snapshots>>
  BY DEF TrackerSafe, OccludersTypeOK, PushBrush, Tracks, Send
<1>2. br \in [Brushes -> Poses \union {NotPushed}]
  BY <1>1
<1>3. geometryQueue' \in Seq(Commands) /\ Follows(Ahead', m_tracked, br, MayMiss)
  <2>1. CASE pose = NotPushed
    <3>1. geometryQueue' = geometryQueue /\ Ahead' = Ahead
      BY <2>1, <1>1, SentNothing DEF PushBrush
    <3>2. \A c \in Brushes \intersect DOMAIN Ahead : br[c] # NotPushed => Ahead[c] = br[c]
      <4>1. br[b] = NotPushed /\ \A c \in Brushes : c # b => br[c] = m_brush[c]
        BY <2>1, <1>1
      <4> HIDE DEF br
      <4> QED
        BY <4>1, <1>1 DEF Follows
    <3> QED
      BY <3>1, <3>2, <1>1 DEF Follows
  <2>2. CASE pose # NotPushed
    <3>1. Mesh("update", b, pose) \in Commands /\ pose \in Poses
      BY <2>2, MeshType DEF Ids
    <3>2. Ahead' = Handled(Ahead, Mesh("update", b, pose)) /\ geometryQueue' \in Seq(Commands)
      BY <2>2, <3>1, <1>1, SentOne DEF PushBrush, Send
    <3> QED
      BY <3>1, <3>2, <1>1, PushKept
  <2> QED
    BY <2>1, <2>2
<1>4. OccludersTypeOK'
  BY <1>1, <1>2 DEF OccludersTypeOK
<1>5. PlacesKept'
  <2>1. Placed(m_tracked)'
    BY <1>1 DEF PlacesKept, Placed, SameUpdate
  <2> QED
    BY <2>1, <1>1 DEF PlacesKept
<1>6. MayMiss' = MayMiss /\ m_geometryPending' = "no"
  BY <1>1 DEF MayMiss, PushBrush
<1>7. Follows(Ahead', m_tracked', m_brush', MayMiss')
  BY <1>1, <1>3, <1>6
<1>8. m_dynamic' \in Scenes /\ \A e \in Entities : m_tracked'[e].id < nextDynamicId'
  BY <1>1 DEF TrackerSafe
<1> HIDE DEF br
<1> QED
  BY <1>3, <1>4, <1>5, <1>6, <1>7, <1>8 DEF TrackerSafe

\* Entities lose their meshes; those whose removal was refused keep them.
LEMMA LostMeshesKept ==
  ASSUME TrackerSafe, NEW es \in SUBSET Entities, NEW out \in SUBSET es, \A e \in es : Known(e),
         \A e \in Entities : m_tracked'[e].id = 0 \/ (e \notin out /\ m_tracked'[e] = m_tracked[e]),
         considering' \in {considering, Idle}, accepted' = accepted, m_dynamic' = m_dynamic, nextDynamicId' = nextDynamicId,
         snapshots' \in 0 .. MaxSnapshots, snapshots' >= snapshots, m_brush' \in [Brushes -> Poses \union {NotPushed}],
         unfollowed' \subseteq Instances, unmade' = unmade, m_geometryPending' \in {"no", "clear", "map"},
         m_geometryPending' # "no" => \A b \in Brushes : m_brush'[b] = NotPushed,
         geometryQueue' \in Seq(Commands), Follows(Ahead', m_tracked', m_brush', MayMiss'),
         refusedOnce' \in BOOLEAN,
         ~refusedOnce' => out = es /\ \A e \in Entities : Known(e) /\ m_tracked[e].missed >= MissedBeforeRemove => e \in es
  PROVE  TrackerSafe'
<1>1. OccludersTypeOK /\ PlacesKept /\ m_dynamic \in Scenes /\ m_tracked \in [Entities -> Tracks]
  BY DEF TrackerSafe, OccludersTypeOK, Tracks
<1>2. nextDynamicId > 0
  BY <1>1, OccNumbers DEF OccludersTypeOK
<1>3. OccludersTypeOK'
  <2>1. m_tracked' \in [Entities -> Tracks]
    BY DEF Follows
  <2> QED
    BY <2>1, <1>1 DEF OccludersTypeOK, Tracks
<1>4. \A e \in Entities : m_tracked'[e].id < nextDynamicId'
  BY <1>2 DEF TrackerSafe
<1>5. \A f \in Entities : Place(f)
  BY <1>1 DEF Place, PlacesKept
<1>6. ASSUME ~refusedOnce', NEW e \in Entities, m_tracked'[e].id # 0 PROVE m_tracked'[e].missed < MissedBeforeRemove
  <2>1. e \notin es /\ m_tracked'[e] = m_tracked[e] /\ Known(e)
    BY <1>6 DEF Known
  <2>2. m_tracked[e].missed \in Nat /\ MissedBeforeRemove \in Nat
    BY <1>1, OccNumbers DEF Tracks
  <2> QED
    BY <2>1, <2>2, <1>6
<1>7. PlacesKept'
  <2>1. snapshots' \in Nat
    BY OccNumbers
  <2>2. accepted' \subseteq Entities /\ Cardinality(accepted') <= MaxOccluders
    BY <1>1 DEF OccludersTypeOK, PlacesKept
  <2> QED
    BY <2>1, <2>2, <1>5, <1>6, PlacesNext
<1> QED
  BY <1>1, <1>3, <1>4, <1>7 DEF TrackerSafe

LEMMA RemoveMeshesKept ==
  ASSUME TrackerSafe, NEW es \in SUBSET Entities, \A e \in es : Known(e), RemoveMeshes(es),
         \A e \in Entities : Known(e) /\ m_tracked[e].missed >= MissedBeforeRemove => e \in es,
         considering' \in {considering, Idle}, UNCHANGED <<accepted, m_dynamic, nextDynamicId, snapshots, unfollowed, unmade, m_geometryPending>>,
         m_brush' \in {m_brush, [b \in Brushes |-> NotPushed]}
  PROVE  TrackerSafe'
<1>1. PICK kept \in SUBSET es :
         /\ Send(SetToSeq({Removal(e) : e \in es \ kept}), [e \in Entities |-> IF e \in es \ kept THEN Untracked ELSE m_tracked[e]])
         /\ refusedOnce' = (kept # {})
  BY DEF RemoveMeshes
<1> DEFINE out == es \ kept
           r == SetToSeq({Removal(e) : e \in out})
<1>2. geometryQueue' = geometryQueue \o r /\ m_tracked' = [e \in Entities |-> IF e \in out THEN Untracked ELSE m_tracked[e]]
  BY <1>1 DEF Send
<1>3. out \in SUBSET es /\ out \in SUBSET Entities /\ (\A e \in out : m_tracked[e].id # 0) /\ (~refusedOnce' => out = es) /\ refusedOnce' \in BOOLEAN
  BY <1>1 DEF Known
<1>4. /\ geometryQueue \in Seq(Commands) /\ m_dynamic \in Scenes /\ Follows(Fold(m_dynamic, geometryQueue), m_tracked, m_brush, MayMiss)
      /\ m_brush \in [Brushes -> Poses \union {NotPushed}] /\ unfollowed \subseteq Instances /\ snapshots \in 0 .. MaxSnapshots
      /\ m_geometryPending \in {"no", "clear", "map"} /\ MayMiss' = MayMiss
  BY DEF TrackerSafe, OccludersTypeOK, Ahead, Fold, MayMiss
<1>5. r = SetToSeq({Removal(e) : e \in out})
  OBVIOUS
<1> HIDE DEF out, r
<1>6. /\ r \in Seq(Commands)
      /\ Follows(Fold(m_dynamic, geometryQueue \o r), [e \in Entities |-> IF e \in out THEN Untracked ELSE m_tracked[e]], m_brush, MayMiss)
  BY <1>3, <1>4, <1>5, RemovalsKept
<1>7. geometryQueue' \in Seq(Commands) /\ Ahead' = Fold(m_dynamic, geometryQueue \o r)
  BY <1>2, <1>4, <1>6 DEF Ahead, Fold
<1>8. Follows(Ahead', m_tracked', m_brush, MayMiss)
  BY <1>2, <1>6, <1>7
<1>9. Follows(Ahead', m_tracked', m_brush', MayMiss') /\ m_brush' \in [Brushes -> Poses \union {NotPushed}]
  BY <1>4, <1>8, NothingPushed
<1>10. snapshots' \in 0 .. MaxSnapshots /\ snapshots' >= snapshots
  BY <1>4, OccNumbers
<1>11. \A e \in Entities : m_tracked'[e].id = 0 \/ (e \notin out /\ m_tracked'[e] = m_tracked[e])
  BY <1>2, UntrackedType
<1>12. m_geometryPending' # "no" => \A b \in Brushes : m_brush'[b] = NotPushed
  BY DEF TrackerSafe
<1> QED
  BY <1>3, <1>4, <1>7, <1>9, <1>10, <1>11, <1>12, LostMeshesKept

LEMMA EndUpdateKept == ASSUME TrackerSafe, EndUpdate PROVE TrackerSafe'
<1>1. Overdue \in SUBSET Entities /\ (\A e \in Overdue : Known(e))
      /\ \A e \in Entities : Known(e) /\ m_tracked[e].missed >= MissedBeforeRemove => e \in Overdue
  BY DEF Overdue
<1> HIDE DEF Overdue
<1> QED
  BY <1>1, RemoveMeshesKept DEF EndUpdate

LEMMA ClearKept == ASSUME TrackerSafe, Clear PROVE TrackerSafe'
<1> DEFINE es == {e \in Entities : Known(e)}
<1>1. es \in SUBSET Entities /\ (\A e \in es : Known(e))
      /\ \A e \in Entities : Known(e) /\ m_tracked[e].missed >= MissedBeforeRemove => e \in es
  OBVIOUS
<1>2. RemoveMeshes(es) /\ considering' = considering /\ m_brush' = [b \in Brushes |-> NotPushed]
      /\ UNCHANGED <<accepted, m_dynamic, nextDynamicId, snapshots, unfollowed, unmade, m_geometryPending>>
  BY DEF Clear
<1> HIDE DEF es
<1> QED
  BY <1>1, <1>2, RemoveMeshesKept

LEMMA AppendTwice ==
  ASSUME NEW S, NEW a \in Seq(S), NEW b \in Seq(S), NEW c \in Seq(S)
  PROVE  a \o (b \o c) = (a \o b) \o c
  OBVIOUS

\* A map command puts another scene in the place of what went before.
LEMMA MapCommands ==
  ASSUME NEW t \in Scenes, NEW q \in Seq(Commands), NEW told \in Told
  PROVE  /\ told \in Seq(Commands) /\ q \o told \in Seq(Commands)
         /\ IF told = <<>> THEN Fold(t, q \o told) = Fold(t, q)
            ELSE Fold(t, q \o told) \in Scenes /\ DOMAIN Fold(t, q \o told) \subseteq Brushes
<1>1. Clearing \in Commands /\ Loading \in Commands
  BY OccNumbers DEF Clearing, Loading, Mesh, Commands
<1>2. told \in {<<>>, <<Clearing>>, <<Loading>>, <<Clearing, Loading>>}
  BY DEF Told
<1>3. \A F : Handled(F, Clearing) = NoMeshes /\ Handled(F, Loading) = Spawned
  BY DEF Handled, Clearing, Loading, Mesh
<1>4. NoMeshes \in Scenes /\ DOMAIN NoMeshes \subseteq Brushes /\ Spawned \in Scenes /\ DOMAIN Spawned \subseteq Brushes
  <2>1. Spawned \in [Brushes -> Poses]
    BY OccNumbers DEF Spawned
  <2>2. Spawned \in Scenes /\ DOMAIN Spawned = Brushes
    BY <2>1 DEF Scenes, Ids
  <2> QED
    BY <2>2, NoMeshesIs
<1>5. CASE told = <<>>
  BY <1>5
<1>6. ASSUME NEW p \in Seq(Commands), NEW c \in {Clearing, Loading}, q \o told = Append(p, c), told \in Seq(Commands), told # <<>>
      PROVE  Fold(t, q \o told) \in Scenes /\ DOMAIN Fold(t, q \o told) \subseteq Brushes
  <2>1. Fold(t, Append(p, c)) = Handled(Fold(t, p), c)
    BY <1>1, FoldAppend
  <2> QED
    BY <2>1, <1>3, <1>4, <1>6
<1>7. CASE told = <<Clearing>>
  <2>1. told \in Seq(Commands) /\ told # <<>> /\ q \o told = Append(q, Clearing)
    BY <1>1, <1>7
  <2> QED
    BY <2>1, <1>6
<1>8. CASE told = <<Loading>>
  <2>1. told \in Seq(Commands) /\ told # <<>> /\ q \o told = Append(q, Loading)
    BY <1>1, <1>8
  <2> QED
    BY <2>1, <1>6
<1>9. CASE told = <<Clearing, Loading>>
  <2> DEFINE p == Append(q, Clearing)
  <2>1. p \in Seq(Commands) /\ told \in Seq(Commands) /\ told # <<>>
    BY <1>1, <1>9
  <2>2. q \o told = Append(p, Loading)
    BY <1>1, <1>9
  <2> HIDE DEF p
  <2> QED
    BY <2>1, <2>2, <1>6
<1> QED
  BY <1>2, <1>5, <1>7, <1>8, <1>9

\* Nothing but brushes is in the scene: it is followed, whatever is tracked.
LEMMA NewMapFollows ==
  ASSUME NEW F, NEW t, NEW br, NEW u, Follows(F, t, br, u), NEW G \in Scenes, DOMAIN G \subseteq Brushes,
         NEW s \in [Entities -> Tracks], \A e \in Entities : s[e].id = 0 \/ s[e] = t[e],
         NEW v, \A e \in Entities : s[e].id # 0 => s[e].id \in v,
         NEW after, \A b \in Brushes : after[b] = NotPushed
  PROVE  Follows(G, s, after, v)
<1>1. \A e \in Entities : s[e].id # 0 => s[e].id \notin DOMAIN G
  BY MeshIds DEF Tracks
<1> QED
  BY <1>1 DEF Follows, Stands

LEMMA LoadMapKept == ASSUME TrackerSafe, LoadMap PROVE TrackerSafe'
<1> DEFINE es == {e \in Entities : Known(e)}
<1>1. PICK kept \in SUBSET es, told \in Told :
       /\ Send(SetToSeq({Removal(e) : e \in es \ kept}) \o told,
               [e \in Entities |-> IF e \in kept THEN m_tracked[e] ELSE Untracked])
       /\ refusedOnce' = (kept # {}) /\ m_geometryPending' \in LeftToTell(told)
       /\ unfollowed' = IF told = <<>> THEN unfollowed ELSE {m_tracked[e].id : e \in kept}
  BY DEF LoadMap
<1> DEFINE out == es \ kept
           r == SetToSeq({Removal(e) : e \in out})
           q == geometryQueue \o r
<1>2. /\ geometryQueue' = geometryQueue \o (r \o told)
      /\ m_tracked' = [e \in Entities |-> IF e \in kept THEN m_tracked[e] ELSE Untracked]
  BY <1>1 DEF Send
<1>3. /\ out \in SUBSET es /\ out \in SUBSET Entities /\ es \in SUBSET Entities /\ (\A e \in es : Known(e)) /\ (\A e \in out : m_tracked[e].id # 0)
      /\ (~refusedOnce' => out = es) /\ refusedOnce' \in BOOLEAN
      /\ \A e \in Entities : e \in kept <=> m_tracked[e].id # 0 /\ e \notin out
  BY <1>1 DEF Known
<1>4. /\ geometryQueue \in Seq(Commands) /\ m_dynamic \in Scenes /\ Follows(Fold(m_dynamic, geometryQueue), m_tracked, m_brush, MayMiss)
      /\ snapshots \in 0 .. MaxSnapshots /\ m_tracked \in [Entities -> Tracks] /\ unfollowed \subseteq Instances
  BY DEF TrackerSafe, OccludersTypeOK, Ahead, Fold, Tracks
<1>5. r = SetToSeq({Removal(e) : e \in out})
  OBVIOUS
<1>6. \A e \in Entities : Known(e) => e \in es
  OBVIOUS
<1> HIDE DEF out, r, q, es
<1>7. r \in Seq(Commands) /\ Follows(Fold(m_dynamic, q), [e \in Entities |-> IF e \in out THEN Untracked ELSE m_tracked[e]], m_brush, MayMiss)
  BY <1>3, <1>4, <1>5, RemovalsKept DEF q
<1>8. q \in Seq(Commands)
  BY <1>4, <1>7 DEF q
<1>9. told \in Seq(Commands)
  BY <1>4, <1>8, MapCommands
<1>10. geometryQueue' = q \o told /\ geometryQueue' \in Seq(Commands) /\ Ahead' = Fold(m_dynamic, q \o told)
  <2>1. geometryQueue \o (r \o told) = (geometryQueue \o r) \o told
    BY <1>4, <1>7, <1>9, AppendTwice
  <2>2. q \o told \in Seq(Commands)
    BY <1>8, <1>9
  <2>3. geometryQueue' = q \o told
    BY <1>2, <2>1 DEF q
  <2> QED
    BY <2>2, <2>3 DEF Ahead, Fold, LoadMap
<1>11. \A e \in Entities : IF e \in kept THEN m_tracked'[e] = m_tracked[e] /\ m_tracked[e].id # 0 ELSE m_tracked'[e] = Untracked /\ m_tracked'[e].id = 0
  BY <1>2, <1>3, UntrackedType
<1>12. m_tracked' \in [Entities -> Tracks]
  BY <1>2, <1>4, UntrackedType
<1>13. \A b \in Brushes : m_brush'[b] = NotPushed
  BY DEF LoadMap
<1>14. Follows(Ahead', m_tracked', m_brush', MayMiss')
  <2>1. CASE told = <<>>
    <3>1. Ahead' = Fold(m_dynamic, q) /\ MayMiss' = MayMiss
      BY <2>1, <1>1, <1>4, <1>8, <1>10, MapCommands DEF MayMiss, LoadMap
    <3>2. Follows(Ahead', [e \in Entities |-> IF e \in out THEN Untracked ELSE m_tracked[e]], m_brush, MayMiss')
      BY <3>1, <1>7
    <3>3. \A e \in Entities : LET x == IF e \in out THEN Untracked ELSE m_tracked[e]
                              IN  m_tracked'[e].id = x.id /\ (x.id # 0 => m_tracked'[e].pose = x.pose)
      BY <1>3, <1>11, UntrackedType
    <3> DEFINE left == [e \in Entities |-> IF e \in out THEN Untracked ELSE m_tracked[e]]
    <3>4. \A e \in Entities : m_tracked'[e].id = left[e].id /\ (left[e].id # 0 => m_tracked'[e].pose = left[e].pose)
      BY <3>3
    <3>5. m_brush' = [b \in Brushes |-> NotPushed]
      BY DEF LoadMap
    <3>6. Follows(Ahead', left, m_brush, MayMiss')
      BY <3>2
    <3> HIDE DEF left
    <3>7. Follows(Ahead', m_tracked', m_brush, MayMiss')
      BY <3>4, <3>6, <1>12, SamePosesKept
    <3> QED
      BY <3>5, <3>7, NothingPushed
  <2>2. CASE told # <<>>
    <3>1. Ahead' \in Scenes /\ DOMAIN Ahead' \subseteq Brushes
      BY <2>2, <1>4, <1>8, <1>10, MapCommands
    <3>2. \A e \in Entities : (m_tracked'[e].id = 0 \/ m_tracked'[e] = m_tracked[e]) /\ (m_tracked'[e].id # 0 => m_tracked'[e].id \in MayMiss')
      BY <2>2, <1>1, <1>11 DEF MayMiss
    <3> QED
      BY <3>1, <3>2, <1>4, <1>12, <1>13, NewMapFollows
  <2> QED
    BY <2>1, <2>2
<1>15. \A e \in Entities : m_tracked'[e].id = 0 \/ (e \notin out /\ m_tracked'[e] = m_tracked[e])
  BY <1>3, <1>11
<1>16. unfollowed' \subseteq Instances /\ unmade' = unmade
  <2>1. \A e \in kept : m_tracked[e].id \in Instances
    BY <1>1, <1>3, <1>4 DEF Tracks, Instances
  <2> QED
    BY <2>1, <1>1, <1>4 DEF LoadMap
<1>17. m_geometryPending' \in {"no", "clear", "map"} /\ (m_geometryPending' # "no" => \A b \in Brushes : m_brush'[b] = NotPushed)
  BY <1>1, <1>13 DEF LeftToTell
<1>18. snapshots' \in 0 .. MaxSnapshots /\ snapshots' >= snapshots
  BY <1>4, OccNumbers DEF LoadMap
<1>19. m_brush' \in [Brushes -> Poses \union {NotPushed}] /\ considering' = considering /\ accepted' = accepted
       /\ m_dynamic' = m_dynamic /\ nextDynamicId' = nextDynamicId
  BY DEF LoadMap
<1> QED
  BY <1>3, <1>6, <1>10, <1>14, <1>15, <1>16, <1>17, <1>18, <1>19, LostMeshesKept

LEMMA RefreshKept ==
  ASSUME TrackerSafe, NEW e \in Entities, NEW seen \in [identity : Identities, pose : Poses], RefreshTransforms(e, seen)
  PROVE  TrackerSafe'
<1> DEFINE i == m_tracked[e].id
           c == Mesh("update", i, seen.pose)
<1>1. /\ OccludersTypeOK /\ PlacesKept /\ m_tracked \in [Entities -> Tracks] /\ m_tracked[e] \in Tracks /\ i # 0 /\ seen.pose \in Poses
      /\ Follows(Ahead, m_tracked, m_brush, MayMiss) /\ geometryQueue \in Seq(Commands)
      /\ UNCHANGED <<m_geometryPending, unmade, unfollowed, m_brush, considering, accepted, refusedOnce, m_dynamic, nextDynamicId, snapshots>>
      /\ geometryQueue' = geometryQueue \o <<c>> /\ m_tracked' = [m_tracked EXCEPT ![e].pose = seen.pose]
  BY TrackIs DEF TrackerSafe, RefreshTransforms, Send, Known
<1>2. c \in Commands
  <2>1. i \in Ids
    BY <1>1, MeshIds DEF Tracks
  <2> QED
    BY <1>1, <2>1, MeshType
<1>3. \A f \in Entities : m_tracked'[f].id = m_tracked[f].id /\ m_tracked'[f].missed = m_tracked[f].missed /\ m_tracked'[f] \in Tracks
  BY <1>1 DEF Tracks
<1>4. m_tracked'[e].pose = seen.pose /\ \A f \in Entities \ {e} : m_tracked'[f].pose = m_tracked[f].pose
  BY <1>1 DEF Tracks
<1>5. m_tracked' \in [Entities -> Tracks]
  BY <1>1, <1>3
<1>6. Ahead' = Handled(Ahead, c) /\ geometryQueue' \in Seq(Commands)
  BY <1>1, <1>2, SentOne
<1>7. Follows(Ahead', m_tracked', m_brush, MayMiss)
  BY <1>1, <1>3, <1>4, <1>5, <1>6, UpdateKept
<1>8. Placed(m_tracked)'
  BY <1>1, <1>3 DEF PlacesKept, Placed, SameUpdate
<1>9. PlacesKept'
  BY <1>1, <1>3, <1>8 DEF PlacesKept
<1>10. OccludersTypeOK'
  BY <1>1, <1>5 DEF OccludersTypeOK, Tracks
<1>11. \A f \in Entities : m_tracked'[f].id < nextDynamicId'
  BY <1>1, <1>3 DEF TrackerSafe
<1>12. MayMiss' = MayMiss
  BY <1>1 DEF MayMiss
<1> QED
  BY <1>1, <1>6, <1>7, <1>9, <1>10, <1>11, <1>12 DEF TrackerSafe

\* What is tracked while the map command waits is missing once it is told.
LEMMA TellAgainKept == ASSUME TrackerSafe, TellAgain PROVE TrackerSafe'
<1> DEFINE c == Mesh(m_geometryPending, 0, SpawnPose)
<1>1. /\ OccludersTypeOK /\ PlacesKept /\ m_tracked \in [Entities -> Tracks] /\ geometryQueue \in Seq(Commands)
      /\ m_dynamic \in Scenes /\ Follows(Ahead, m_tracked, m_brush, MayMiss)
      /\ UNCHANGED <<unmade, m_tracked, m_brush, considering, accepted, refusedOnce, m_dynamic, nextDynamicId, snapshots>>
  BY DEF TrackerSafe, OccludersTypeOK, Tracks, TellAgain, Send
<1>2. c \in {Clearing, Loading} /\ m_geometryPending' = "no"
  BY <1>1 DEF TellAgain, OccludersTypeOK, Clearing, Loading
<1>3. geometryQueue' = geometryQueue \o <<c>> /\ <<c>> \in Told /\ <<c>> # <<>>
  BY <1>2 DEF TellAgain, Send, Told
<1>4. unfollowed' = {m_tracked[e].id : e \in {f \in Entities : m_tracked[f].id # 0}}
  BY DEF TellAgain, Known
<1> HIDE DEF c
<1>5. geometryQueue' \in Seq(Commands) /\ Ahead' \in Scenes /\ DOMAIN Ahead' \subseteq Brushes
  BY <1>1, <1>3, MapCommands DEF Ahead, Fold
<1>6. Follows(Ahead', m_tracked', m_brush', MayMiss')
  <2>1. \A b \in Brushes : m_brush'[b] = NotPushed
    BY <1>1 DEF TrackerSafe, TellAgain
  <2>2. \A e \in Entities : m_tracked'[e] = m_tracked[e] /\ (m_tracked'[e].id # 0 => m_tracked'[e].id \in MayMiss')
    BY <1>1, <1>4 DEF MayMiss
  <2> QED
    BY <2>1, <2>2, <1>1, <1>5, NewMapFollows
<1>7. OccludersTypeOK'
  BY <1>1, <1>2, <1>4 DEF OccludersTypeOK, Instances
<1>8. PlacesKept'
  <2>1. Placed(m_tracked)'
    BY <1>1 DEF PlacesKept, Placed, SameUpdate
  <2> QED
    BY <2>1, <1>1 DEF PlacesKept
<1>9. m_geometryPending' = "no" /\ m_dynamic' \in Scenes /\ \A e \in Entities : m_tracked'[e].id < nextDynamicId'
  BY <1>1, <1>2 DEF TrackerSafe
<1> QED
  BY <1>5, <1>6, <1>7, <1>8, <1>9 DEF TrackerSafe

LEMMA HandleKept == ASSUME TrackerSafe, HandleGeometry PROVE TrackerSafe'
<1> DEFINE head == Head(geometryQueue)
           made == Handled(m_dynamic, head)
<1>1. PICK failed \in SUBSET MeshesOf(head) :
         /\ m_dynamic' = [i \in DOMAIN made \ failed |-> made[i]] /\ unmade' = unmade \union (failed \ Brushes)
  BY DEF HandleGeometry
<1>2. /\ OccludersTypeOK /\ PlacesKept /\ m_dynamic \in Scenes /\ geometryQueue \in Seq(Commands) /\ geometryQueue # << >>
      /\ geometryQueue' = Tail(geometryQueue) /\ UNCHANGED <<trackerVars, nextDynamicId, snapshots>>
      /\ Follows(Ahead, m_tracked, m_brush, MayMiss)
  BY DEF TrackerSafe, HandleGeometry
<1>3. Fold(made, Tail(geometryQueue)) = Ahead /\ head \in Commands
  BY <1>2, FoldTail DEF Ahead, Fold
<1>4. made \in Scenes /\ geometryQueue' \in Seq(Commands)
  BY <1>2, <1>3, HandledType
<1>5. failed \ Brushes \subseteq Instances
  BY <1>3 DEF MeshesOf, Commands, Ids
<1> HIDE DEF head, made
<1>6. m_dynamic' \in Scenes /\ Part(m_dynamic', made, failed)
  <2>1. m_dynamic' \in Scenes
    BY <1>1, <1>4, RestrictType
  <2> QED
    BY <2>1, <1>1 DEF Part
<1>7. Part(Ahead', Ahead, failed) /\ Ahead' \in Scenes
  <2>1. Part(Fold(m_dynamic', geometryQueue'), Fold(made, geometryQueue'), failed) /\ Fold(m_dynamic', geometryQueue') \in Scenes
    BY <1>4, <1>6, FoldPart, FoldType
  <2>2. Ahead' = Fold(m_dynamic', geometryQueue')
    BY DEF Ahead, Fold
  <2> QED
    BY <2>1, <2>2, <1>2, <1>3
<1>8. Follows(Ahead', m_tracked', m_brush', MayMiss')
  <2>1. MayMiss' = MayMiss \union (failed \ Brushes)
    BY <1>1, <1>2 DEF MayMiss, trackerVars
  <2>2. Follows(Ahead', m_tracked, m_brush, MayMiss \union (failed \ Brushes))
    BY <1>2, <1>7, PartKept
  <2> QED
    BY <2>1, <2>2, <1>2 DEF trackerVars
<1>9. OccludersTypeOK'
  <2>1. DOMAIN m_dynamic' \subseteq Instances \union Brushes
    BY <1>6 DEF Scenes, Ids
  <2> QED
    BY <2>1, <1>1, <1>2, <1>5 DEF OccludersTypeOK, trackerVars
<1>10. PlacesKept'
  <2>1. Placed(m_tracked)'
    BY <1>2 DEF PlacesKept, Placed, SameUpdate, trackerVars
  <2> QED
    BY <2>1, <1>2 DEF PlacesKept, trackerVars
<1> QED
  BY <1>2, <1>4, <1>6, <1>8, <1>9, <1>10 DEF TrackerSafe, trackerVars

LEMMA OccStep == TrackerSafe /\ [OccludersNext]_occluderVars => TrackerSafe'
<1> SUFFICES ASSUME TrackerSafe, [OccludersNext]_occluderVars PROVE TrackerSafe'
  OBVIOUS
<1>1. CASE UNCHANGED occluderVars
  <2>1. Ahead' = Ahead
    BY <1>1, SentNothing DEF occluderVars
  <2>2. Placed(m_tracked)'
    BY <1>1 DEF TrackerSafe, PlacesKept, Placed, SameUpdate, occluderVars, trackerVars
  <2>3. PlacesKept'
    BY <1>1, <2>2 DEF TrackerSafe, PlacesKept, occluderVars, trackerVars
  <2>4. OccludersTypeOK'
    BY <1>1 DEF TrackerSafe, OccludersTypeOK, occluderVars, trackerVars
  <2>5. MayMiss' = MayMiss
    BY <1>1 DEF MayMiss, occluderVars, trackerVars
  <2> QED
    BY <1>1, <2>1, <2>3, <2>4, <2>5 DEF TrackerSafe, occluderVars, trackerVars
<1>2. CASE OccludersNext
  BY <1>2, BeginKept, EndUpdateKept, ClearKept, LoadMapKept, TellAgainKept, HandleKept, ConsiderKept, RefreshKept, PushBrushKept
     DEF OccludersNext
<1> QED
  BY <1>1, <1>2

LEMMA TrackerSafeIsEnough == TrackerSafe => OccludersInv
<1> SUFFICES ASSUME TrackerSafe PROVE OccludersInv
  OBVIOUS
<1>1. OccludersTypeOK /\ PlacesKept /\ Follows(Ahead, m_tracked, m_brush, MayMiss) /\ m_tracked \in [Entities -> Tracks]
  BY DEF TrackerSafe, OccludersTypeOK, Tracks
<1>2. SceneIsFollowed
  <2>1. DOMAIN Ahead \ Brushes \subseteq {m_tracked[e].id : e \in Followed}
    BY <1>1 DEF Follows, Followed, Known
  <2>2. \A e \in Followed : IF m_tracked[e].id \in DOMAIN Ahead THEN Ahead[m_tracked[e].id] = m_tracked[e].pose
                           ELSE m_tracked[e].id \in unfollowed \union unmade
    BY <1>1 DEF Follows, Followed, Known, Stands, MayMiss
  <2> QED
    BY <1>1, <2>1, <2>2 DEF SceneIsFollowed, Follows, Followed, Known
<1>3. \A n \in 0 .. MaxSnapshots : Cardinality({e \in Followed : m_tracked[e].missed = n}) <= MaxOccluders
  <2> SUFFICES ASSUME NEW n \in 0 .. MaxSnapshots PROVE Cardinality({e \in Followed : m_tracked[e].missed = n}) <= MaxOccluders
    OBVIOUS
  <2>1. {e \in Followed : m_tracked[e].missed = n} = SameUpdate(m_tracked, n)
    BY DEF SameUpdate, Followed, Known
  <2> QED
    BY <2>1, <1>1 DEF PlacesKept, Placed
<1>4. ASSUME considering = Idle, ~refusedOnce PROVE Cardinality(Followed) <= MissedBeforeRemove * MaxOccluders
  <2>1. Followed = {e \in Entities : m_tracked[e].id # 0 /\ m_tracked[e].missed < MissedBeforeRemove}
    BY <1>1, <1>4 DEF PlacesKept, Followed, Known
  <2>2. \A e \in Entities : m_tracked[e].id # 0 => m_tracked[e].missed <= MaxSnapshots
    <3> SUFFICES ASSUME NEW e \in Entities, m_tracked[e].id # 0 PROVE m_tracked[e].missed <= MaxSnapshots
      OBVIOUS
    <3>1. m_tracked[e].missed \in Nat /\ m_tracked[e].missed <= snapshots
      BY <1>1, OccNumbers DEF PlacesKept, Tracks
    <3> QED
      BY <3>1, <1>1, OccNumbers DEF OccludersTypeOK
  <2> QED
    BY <2>1, <2>2, <1>1, PlacedBelow, OccNumbers DEF PlacesKept
<1> QED
  BY <1>1, <1>2, <1>3, <1>4 DEF OccludersInv, PlacesAreBounded

\* Whatever commands the queue refuses and whatever meshes the scene fails to
\* make: with every command carried out, the scene holds meshes of tracked
\* entities and brushes only, each where the tracker believes it to be; the mesh
\* of a tracked entity is missing only if the scene failed to make it or its
\* removal was refused when the map changed; and no update follows more entities
\* than it has places for.
THEOREM OccludersSafety == OccludersSpec => []OccludersInv
<1>1. OccludersInit => TrackerSafe
  BY OccStart
<1>2. TrackerSafe /\ [OccludersNext]_occluderVars => TrackerSafe'
  BY OccStep
<1>3. TrackerSafe => OccludersInv
  BY TrackerSafeIsEnough
<1> QED
  BY <1>1, <1>2, <1>3, PTL DEF OccludersSpec

-----------------------------------------------------------------------------
(* The scene: who holds which object                                         *)

Made == 1 .. lastHandle
AllHeld == UNION {Held(e) : e \in m_dynamicEntries}
AllInScene == {InScene(e) : e \in m_dynamicEntries}
\* An entry holds what its tracer needs, made by now.
EntryOK(e, flat, last) ==
  /\ e \in [subMesh : 1 .. last, subScene : {None} \union 1 .. last, instance : {None} \union 1 .. last,
            transform : Places, dirty : BOOLEAN, stale : BOOLEAN]
  /\ flat => e.subScene = None /\ e.instance = None
  /\ ~flat => e.subScene # None /\ e.instance # None /\ e.instance # e.subMesh /\ e.instance # e.subScene

\* Who holds what.
HoldersApart ==
  /\ live = m_staticMeshes \union m_retiredMeshes \union AllHeld
  /\ m_staticMeshes \intersect m_retiredMeshes = {}
  /\ (m_staticMeshes \union m_retiredMeshes) \intersect AllHeld = {}
  /\ \A a, b \in m_dynamicEntries : a # b => Held(a) \intersect Held(b) = {}
  /\ m_staticMeshes \subseteq Made /\ m_retiredMeshes \subseteq Made /\ traced \subseteq Made
\* What is in the scene, and what the tracer may still hit.
TracerSafe ==
  /\ added = m_staticMeshes \union AllInScene
  /\ \A h \in traced : h \in m_staticMeshes \union m_retiredMeshes \union AllInScene \/ (~flattened /\ place[h] \in Places)
  /\ ~flattened => \A e \in m_dynamicEntries : e.subMesh \notin traced /\ e.subScene \notin traced
  /\ \A e \in m_dynamicEntries : place[InScene(e)] \in Places
PlacesCurrent ==
  /\ \A e \in m_dynamicEntries : e.dirty \/ place[InScene(e)] = e.transform \/ (flattened /\ e.stale)
  /\ m_scene /\ ~m_dirty => traced = added /\ m_retiredMeshes = {} /\ \A e \in m_dynamicEntries : ~e.dirty
ScenerySafe ==
  /\ SceneryTypeOK /\ \A e \in m_dynamicEntries : EntryOK(e, flattened, lastHandle)
  /\ HoldersApart /\ TracerSafe /\ PlacesCurrent

LEMMA SceneNumbers == MaxHandles \in Nat /\ MaxEdits \in Nat /\ Fixed \notin Places
<1>1. {MaxHandles, MaxEdits} \subseteq Nat
  BY SceneAssumption
<1> QED
  BY <1>1, SceneAssumption

\* What an entry holds.
LEMMA HeldIs ==
  ASSUME NEW e, NEW last \in Nat, EntryOK(e, flattened, last)
  PROVE  /\ Held(e) = IF flattened THEN {e.subMesh} ELSE {e.subMesh, e.subScene, e.instance}
         /\ Held(e) \subseteq 1 .. last /\ InScene(e) \in Held(e)
         /\ InScene(e) = IF flattened THEN e.subMesh ELSE e.instance
<1>1. e.subMesh \in 1 .. last /\ e.subScene \in {None} \union 1 .. last /\ e.instance \in {None} \union 1 .. last
      /\ None \notin 1 .. last /\ e.subMesh # None
  BY DEF EntryOK, None
<1>2. CASE flattened
  <2>1. e.subScene = None /\ e.instance = None
    BY <1>2 DEF EntryOK
  <2>2. Held(e) = {e.subMesh}
    BY <1>1, <2>1 DEF Held
  <2> QED
    BY <2>2, <1>1, <1>2 DEF InScene
<1>3. CASE ~flattened
  <2>1. e.subScene # None /\ e.instance # None
    BY <1>3 DEF EntryOK
  <2>2. Held(e) = {e.subMesh, e.subScene, e.instance}
    BY <1>1, <2>1 DEF Held
  <2> QED
    BY <2>1, <2>2, <1>1, <1>3 DEF InScene
<1> QED
  BY <1>2, <1>3

LEMMA EntryLater ==
  ASSUME NEW e, NEW flat \in BOOLEAN, NEW last \in Nat, NEW more \in Nat, last <= more, EntryOK(e, flat, last)
  PROVE  EntryOK(e, flat, more)
<1>1. 1 .. last \subseteq 1 .. more
  OBVIOUS
<1> QED
  BY <1>1 DEF EntryOK

LEMMA SceneryStart == SceneryInit => ScenerySafe
<1> SUFFICES ASSUME SceneryInit PROVE ScenerySafe
  OBVIOUS
<1> USE DEF SceneryInit
<1>1. SceneryTypeOK
  <2>1. 0 \in 0 .. MaxHandles /\ 0 \in 0 .. MaxEdits
    BY SceneNumbers
  <2>2. place \in [Handles -> Places \union {Fixed}]
    OBVIOUS
  <2> QED
    BY <2>1, <2>2 DEF SceneryTypeOK, None
<1>2. HoldersApart
  BY DEF HoldersApart, AllHeld
<1>3. TracerSafe
  BY DEF TracerSafe, AllInScene
<1>4. PlacesCurrent
  BY DEF PlacesCurrent
<1> QED
  BY <1>1, <1>2, <1>3, <1>4 DEF ScenerySafe

LEMMA ScenerySafeIsEnough == ScenerySafe => SceneryInv
<1> SUFFICES ASSUME ScenerySafe PROVE SceneryInv
  OBVIOUS
<1>1. SceneryTypeOK /\ HoldersApart /\ TracerSafe /\ PlacesCurrent /\ lastHandle \in Nat /\ flattened \in BOOLEAN
  BY SceneNumbers DEF ScenerySafe, SceneryTypeOK
<1>2. \A e \in m_dynamicEntries : InScene(e) \in Held(e)
  BY <1>1, HeldIs DEF ScenerySafe
<1>3. AllInScene \subseteq AllHeld
  BY <1>2 DEF AllInScene, AllHeld
<1>4. \A h \in traced \ live : ~flattened /\ place[h] # Fixed
  BY <1>1, <1>3, SceneNumbers DEF HoldersApart, TracerSafe
<1>5. m_scene /\ ~m_dirty =>
       /\ traced = m_staticMeshes \union {InScene(e) : e \in m_dynamicEntries}
       /\ m_retiredMeshes = {}
       /\ \A e \in m_dynamicEntries : place[InScene(e)] = e.transform \/ (flattened /\ e.stale)
  BY <1>1 DEF TracerSafe, PlacesCurrent, AllInScene
<1> QED
  BY <1>1, <1>4, <1>5 DEF SceneryInv, HoldersApart, AllHeld

-----------------------------------------------------------------------------

LEMMA AddStaticKept == ASSUME ScenerySafe, AddStaticMesh PROVE ScenerySafe'
<1> DEFINE h == lastHandle + 1
<1>1. /\ SceneryTypeOK /\ HoldersApart /\ TracerSafe /\ PlacesCurrent /\ lastHandle \in Nat /\ flattened \in BOOLEAN
      /\ lastHandle \in 0 .. MaxHandles /\ h \in Handles /\ h \notin Made /\ MaxHandles \in Nat
  BY SceneNumbers DEF ScenerySafe, SceneryTypeOK, AddStaticMesh, Handles, Made
<1>2. /\ lastHandle' = h /\ live' = live \union {h} /\ m_staticMeshes' = m_staticMeshes \union {h} /\ added' = added \union {h}
      /\ m_dirty' = TRUE /\ edits < MaxEdits /\ edits' = edits + 1
      /\ UNCHANGED <<flattened, m_scene, m_retiredMeshes, m_dynamicEntries, traced, place>>
  BY DEF AddStaticMesh, Edited
<1>3. Made' = Made \union {h}
  BY <1>1, <1>2 DEF Made
<1>4. AllHeld \subseteq Made
  BY <1>1, HeldIs DEF ScenerySafe, AllHeld, Made
<1>5. AllHeld' = AllHeld /\ AllInScene' = AllInScene /\ \A e \in m_dynamicEntries : InScene(e)' = InScene(e)
  BY <1>2 DEF AllHeld, AllInScene, InScene
<1>6. SceneryTypeOK'
  BY <1>1, <1>2, SceneNumbers DEF SceneryTypeOK, Handles
<1>7. \A e \in m_dynamicEntries' : EntryOK(e, flattened', lastHandle')
  BY <1>1, <1>2, EntryLater DEF ScenerySafe
<1> HIDE DEF h
<1>8. HoldersApart'
  <2>1. \A a, b \in m_dynamicEntries' : a # b => Held(a) \intersect Held(b) = {}
    BY <1>1, <1>2 DEF HoldersApart
  <2> QED
    BY <2>1, <1>1, <1>2, <1>3, <1>4, <1>5 DEF HoldersApart
<1>9. TracerSafe'
  BY <1>1, <1>2, <1>5 DEF TracerSafe, InScene
<1>10. PlacesCurrent'
  BY <1>1, <1>2 DEF PlacesCurrent, InScene
<1> QED
  BY <1>6, <1>7, <1>8, <1>9, <1>10 DEF ScenerySafe

LEMMA ClearStaticKept == ASSUME ScenerySafe, ClearStatic PROVE ScenerySafe'
<1>1. /\ SceneryTypeOK /\ HoldersApart /\ TracerSafe /\ PlacesCurrent /\ lastHandle \in Nat /\ flattened \in BOOLEAN
  BY SceneNumbers DEF ScenerySafe, SceneryTypeOK
<1>2. /\ m_dirty' = TRUE /\ edits < MaxEdits /\ edits' = edits + 1 /\ added' = added \ m_staticMeshes
      /\ m_retiredMeshes' = m_retiredMeshes \union m_staticMeshes /\ m_staticMeshes' = {}
      /\ UNCHANGED <<flattened, m_scene, m_dynamicEntries, traced, live, lastHandle, place>>
  BY DEF ClearStatic, Edited
<1>3. AllHeld' = AllHeld /\ AllInScene' = AllInScene /\ Made' = Made
  BY <1>2 DEF AllHeld, AllInScene, InScene, Made
<1>4. AllInScene \subseteq AllHeld
  <2>1. \A e \in m_dynamicEntries : InScene(e) \in Held(e)
    BY <1>1, HeldIs DEF ScenerySafe
  <2> QED
    BY <2>1 DEF AllInScene, AllHeld
<1>5. SceneryTypeOK'
  BY <1>1, <1>2, SceneNumbers DEF SceneryTypeOK
<1>6. \A e \in m_dynamicEntries' : EntryOK(e, flattened', lastHandle')
  BY <1>2 DEF ScenerySafe
<1>7. HoldersApart'
  <2>1. \A a, b \in m_dynamicEntries' : a # b => Held(a) \intersect Held(b) = {}
    BY <1>1, <1>2 DEF HoldersApart
  <2> QED
    BY <2>1, <1>1, <1>2, <1>3 DEF HoldersApart
<1>8. TracerSafe'
  <2>1. added' = m_staticMeshes' \union AllInScene'
    BY <1>1, <1>2, <1>3, <1>4 DEF TracerSafe, HoldersApart
  <2> QED
    BY <2>1, <1>1, <1>2, <1>3 DEF TracerSafe, InScene
<1>9. PlacesCurrent'
  BY <1>1, <1>2 DEF PlacesCurrent, InScene
<1> QED
  BY <1>5, <1>6, <1>7, <1>8, <1>9 DEF ScenerySafe

LEMMA ThreeHeld ==
  ASSUME NEW a, NEW b, NEW c, a # b, a # c, b # c
  PROVE  Cardinality({a, b, c}) = 3 /\ Cardinality({a}) = 1
<1>1. IsFiniteSet({a}) /\ Cardinality({a}) = 1
  BY FS_Singleton
<1>2. IsFiniteSet({a} \cup {b}) /\ Cardinality({a} \cup {b}) = 2
  BY <1>1, FS_AddElement
<1>3. Cardinality(({a} \cup {b}) \cup {c}) = 3
  BY <1>2, FS_AddElement
<1>4. {a, b, c} = ({a} \cup {b}) \cup {c}
  OBVIOUS
<1> QED
  BY <1>1, <1>3, <1>4

LEMMA EntryIs ==
  ASSUME NEW n \in Nat, NEW a \in 1 .. n, NEW b \in {None} \union 1 .. n, NEW c \in {None} \union 1 .. n, NEW p \in Places,
         NEW e, e = DynamicEntry(a, b, c, p)
  PROVE  /\ e \in [subMesh : 1 .. n, subScene : {None} \union 1 .. n, instance : {None} \union 1 .. n,
                   transform : Places, dirty : BOOLEAN, stale : BOOLEAN]
         /\ e.subMesh = a /\ e.subScene = b /\ e.instance = c /\ e.transform = p /\ ~e.dirty /\ ~e.stale
  BY DEF DynamicEntry

\* A new entry holds handles of its own.
LEMMA NewEntryIs ==
  ASSUME lastHandle \in Nat, flattened \in BOOLEAN, NEW p \in Places, NEW e, e = NewDynamicEntry(lastHandle + 1, p)
  PROVE  LET last == lastHandle + Cardinality(Held(e))
         IN /\ EntryOK(e, flattened, last) /\ last \in Nat /\ last > lastHandle /\ Held(e) = (lastHandle + 1) .. last
            /\ ~e.dirty /\ ~e.stale /\ e.transform = p
<1> DEFINE n == lastHandle + 1
           last == lastHandle + Cardinality(Held(e))
<1>1. n \in Nat /\ n # 0 /\ n + 1 # 0 /\ n + 2 # 0 /\ lastHandle + 1 = n /\ lastHandle + 3 = n + 2 /\ n + 2 > lastHandle /\ n > lastHandle
  OBVIOUS
<1>2. SUFFICES /\ EntryOK(e, flattened, last) /\ last \in Nat /\ last > lastHandle /\ Held(e) = n .. last
               /\ ~e.dirty /\ ~e.stale /\ e.transform = p
  OBVIOUS
<1>3. last = lastHandle + Cardinality(Held(e)) /\ e = NewDynamicEntry(n, p)
  OBVIOUS
<1> HIDE DEF n, last
<1>4. CASE flattened
  <2>1. n \in 1 .. n /\ {n} = n .. n /\ None \in {None} \union 1 .. n
    BY <1>1
  <2>2. e = DynamicEntry(n, None, None, p)
    BY <1>3, <1>4 DEF NewDynamicEntry
  <2>3. /\ EntryOK(e, flattened, n) /\ e.subMesh = n /\ e.subScene = None /\ e.instance = None
        /\ ~e.dirty /\ ~e.stale /\ e.transform = p
    BY <2>1, <2>2, <1>1, <1>4, EntryIs DEF EntryOK
  <2>4. Held(e) = {n}
    BY <2>3, <1>1 DEF Held, None
  <2>5. Cardinality({n}) = 1
    BY FS_Singleton, Zenon
  <2>6. last = n
    BY <2>4, <2>5, <1>1, <1>3
  <2> QED
    BY <2>1, <2>3, <2>4, <2>6, <1>1
<1>5. CASE ~flattened
  <2> DEFINE k == n + 1  m == n + 2
  <2>1. k # n /\ k # m /\ n # m /\ k # 0 /\ m # 0 /\ n \in 1 .. m /\ k \in 1 .. m /\ m \in 1 .. m /\ m \in Nat /\ {k, n, m} = n .. m
        /\ lastHandle + 3 = m
    BY <1>1
  <2>2. e = DynamicEntry(k, n, m, p)
    BY <1>3, <1>5 DEF NewDynamicEntry
  <2> HIDE DEF k, m
  <2>3. /\ EntryOK(e, flattened, m) /\ e.subMesh = k /\ e.subScene = n /\ e.instance = m
        /\ ~e.dirty /\ ~e.stale /\ e.transform = p
    BY <2>1, <2>2, <1>1, <1>5, EntryIs DEF EntryOK, None
  <2>4. Held(e) = {k, n, m}
    BY <2>1, <2>3, <1>1 DEF Held, None
  <2>5. Cardinality({k, n, m}) = 3
    BY <2>1, ThreeHeld
  <2>6. last = m
    BY <2>1, <2>4, <2>5, <1>1, <1>3
  <2>7. last \in Nat /\ last > lastHandle
    BY <2>1, <2>6, <1>1 DEF m
  <2>8. Held(e) = n .. last
    BY <2>1, <2>4, <2>6
  <2>9. EntryOK(e, flattened, last)
    BY <2>3, <2>6
  <2> QED
    BY <2>3, <2>7, <2>8, <2>9
<1> QED
  BY <1>4, <1>5

LEMMA AddDynamicKept == ASSUME ScenerySafe, NEW p \in Places, AddDynamic(p) PROVE ScenerySafe'
<1> DEFINE x == NewDynamicEntry(lastHandle + 1, p)
           last == lastHandle + Cardinality(Held(x))
<1>1. /\ SceneryTypeOK /\ HoldersApart /\ TracerSafe /\ PlacesCurrent /\ lastHandle \in Nat /\ flattened \in BOOLEAN
      /\ lastHandle \in 0 .. MaxHandles /\ MaxHandles \in Nat
  BY SceneNumbers DEF ScenerySafe, SceneryTypeOK
<1>2. /\ last <= MaxHandles /\ lastHandle' = last /\ live' = live \union Held(x) /\ added' = added \union {InScene(x)}
      /\ place' = [place EXCEPT ![InScene(x)] = p] /\ m_dynamicEntries' = m_dynamicEntries \union {x}
      /\ m_dirty' = TRUE /\ edits < MaxEdits /\ edits' = edits + 1
      /\ UNCHANGED <<flattened, m_scene, m_staticMeshes, m_retiredMeshes, traced>>
  BY DEF AddDynamic, Edited
<1>3. /\ EntryOK(x, flattened, last) /\ last \in Nat /\ last > lastHandle /\ Held(x) = (lastHandle + 1) .. last
      /\ ~x.dirty /\ ~x.stale /\ x.transform = p
  BY <1>1, NewEntryIs
<1> HIDE DEF x, last
<1>4. InScene(x) \in Held(x)
  BY <1>3, HeldIs
<1>5. Held(x) \intersect Made = {} /\ Made' = Made \union Held(x) /\ Held(x) \subseteq Handles
  BY <1>1, <1>2, <1>3 DEF Made, Handles
<1>6. \A e \in m_dynamicEntries : Held(e) \subseteq Made /\ InScene(e) \in Held(e)
  BY <1>1, HeldIs DEF ScenerySafe, Made
<1>7. AllHeld' = AllHeld \union Held(x) /\ AllInScene' = AllInScene \union {InScene(x)} /\ AllHeld \subseteq Made
  BY <1>2, <1>6 DEF AllHeld, AllInScene, InScene
<1>8. \A e : InScene(e)' = InScene(e)
  BY <1>2 DEF InScene
<1>9. /\ \A h \in Made : place'[h] = place[h]
      /\ place'[InScene(x)] = p
  <2>1. place \in [Handles -> Places \union {Fixed}] /\ Made \subseteq Handles
    BY <1>1 DEF SceneryTypeOK, Handles, Made
  <2>2. InScene(x) \in Handles /\ InScene(x) \notin Made
    BY <1>4, <1>5
  <2> QED
    BY <2>1, <2>2, <1>2
<1>10. SceneryTypeOK'
  <2>1. place' \in [Handles -> Places \union {Fixed}]
    BY <1>1, <1>2 DEF SceneryTypeOK
  <2>2. lastHandle' \in 0 .. MaxHandles /\ edits' \in 0 .. MaxEdits
    BY <1>1, <1>2, <1>3, SceneNumbers DEF SceneryTypeOK
  <2>3. added' \subseteq Handles /\ live' \subseteq Handles
    BY <1>1, <1>2, <1>4, <1>5 DEF SceneryTypeOK
  <2> QED
    BY <2>1, <2>2, <2>3, <1>1, <1>2 DEF SceneryTypeOK
<1>11. \A e \in m_dynamicEntries' : EntryOK(e, flattened', lastHandle')
  BY <1>1, <1>2, <1>3, EntryLater DEF ScenerySafe
<1>12. HoldersApart'
  <2>1. ASSUME NEW a \in m_dynamicEntries', NEW b \in m_dynamicEntries', a # b PROVE Held(a) \intersect Held(b) = {}
    BY <2>1, <1>1, <1>2, <1>5, <1>6 DEF HoldersApart
  <2> QED
    BY <2>1, <1>1, <1>2, <1>5, <1>7 DEF HoldersApart
<1>13. TracerSafe'
  <2>1. \A e \in m_dynamicEntries' : place'[InScene(e)'] \in Places
    BY <1>1, <1>2, <1>6, <1>8, <1>9 DEF TracerSafe
  <2>2. \A h \in traced : place'[h] = place[h]
    BY <1>1, <1>9 DEF HoldersApart
  <2>3. added' = m_staticMeshes' \union AllInScene'
    BY <1>1, <1>2, <1>7 DEF TracerSafe
  <2>4. ~flattened => x.subMesh \notin traced /\ x.subScene \notin traced
    <3>1. ~flattened => x.subMesh \in Held(x) /\ x.subScene \in Held(x)
      BY <1>3, HeldIs
    <3> QED
      BY <3>1, <1>1, <1>5 DEF HoldersApart
  <2> QED
    BY <2>1, <2>2, <2>3, <2>4, <1>1, <1>2, <1>7 DEF TracerSafe
<1>14. PlacesCurrent'
  <2>1. \A e \in m_dynamicEntries' : e.dirty \/ place'[InScene(e)'] = e.transform \/ (flattened /\ e.stale)
    BY <1>1, <1>2, <1>3, <1>6, <1>8, <1>9 DEF PlacesCurrent
  <2> QED
    BY <2>1, <1>2 DEF PlacesCurrent
<1> QED
  BY <1>10, <1>11, <1>12, <1>13, <1>14 DEF ScenerySafe

LEMMA AddDynamicFailsKept == ASSUME ScenerySafe, AddDynamicFails PROVE ScenerySafe'
<1>1. /\ SceneryTypeOK /\ HoldersApart /\ TracerSafe /\ PlacesCurrent /\ lastHandle \in Nat /\ flattened \in BOOLEAN
      /\ lastHandle \in 0 .. MaxHandles /\ MaxHandles \in Nat
  BY SceneNumbers DEF ScenerySafe, SceneryTypeOK
<1>2. PICK steps \in 0 .. 2 :
         LET created == (lastHandle + 1) .. (lastHandle + steps)
         IN lastHandle + steps <= MaxHandles /\ lastHandle' = lastHandle + steps /\ live' = (live \union created) \ created
  BY DEF AddDynamicFails, FailedReleases
<1>3. edits < MaxEdits /\ edits' = edits + 1 /\ UNCHANGED <<builderVars, added, traced, place>>
  BY DEF AddDynamicFails, Edited
<1>4. AllHeld \subseteq Made
  BY <1>1, HeldIs DEF ScenerySafe, AllHeld, Made
<1>5. lastHandle' \in Nat /\ lastHandle <= lastHandle' /\ lastHandle' \in 0 .. MaxHandles /\ Made \subseteq Made'
  BY <1>1, <1>2 DEF Made
<1>6. live' = live
  <2>1. live \subseteq Made
    BY <1>1, <1>4 DEF HoldersApart
  <2>2. Made \intersect ((lastHandle + 1) .. (lastHandle + steps)) = {}
    BY <1>1 DEF Made
  <2> QED
    BY <2>1, <2>2, <1>2
<1>7. AllHeld' = AllHeld /\ AllInScene' = AllInScene
  BY <1>3 DEF AllHeld, AllInScene, InScene, builderVars
<1>8. SceneryTypeOK'
  BY <1>1, <1>3, <1>5, <1>6, SceneNumbers DEF SceneryTypeOK, builderVars
<1>9. \A e \in m_dynamicEntries' : EntryOK(e, flattened', lastHandle')
  BY <1>1, <1>3, <1>5, EntryLater DEF ScenerySafe, builderVars
<1>10. HoldersApart'
  <2>1. \A a, b \in m_dynamicEntries' : a # b => Held(a) \intersect Held(b) = {}
    BY <1>1, <1>3 DEF HoldersApart, builderVars
  <2> QED
    BY <2>1, <1>1, <1>3, <1>5, <1>6, <1>7 DEF HoldersApart, builderVars
<1>11. TracerSafe'
  BY <1>1, <1>3, <1>7 DEF TracerSafe, InScene, builderVars
<1>12. PlacesCurrent'
  BY <1>1, <1>3 DEF PlacesCurrent, InScene, builderVars
<1> QED
  BY <1>8, <1>9, <1>10, <1>11, <1>12 DEF ScenerySafe

LEMMA UpdateDynamicKept ==
  ASSUME ScenerySafe, NEW entry \in m_dynamicEntries, NEW p \in Places, UpdateDynamic(entry, p)
  PROVE  ScenerySafe'
<1> DEFINE x == [entry EXCEPT !.transform = p, !.dirty = TRUE]
<1>1. /\ SceneryTypeOK /\ HoldersApart /\ TracerSafe /\ PlacesCurrent /\ lastHandle \in Nat /\ flattened \in BOOLEAN
      /\ EntryOK(entry, flattened, lastHandle)
  BY SceneNumbers DEF ScenerySafe, SceneryTypeOK
<1>2. /\ m_dynamicEntries' = (m_dynamicEntries \ {entry}) \union {x}
      /\ m_dirty' = TRUE /\ edits < MaxEdits /\ edits' = edits + 1
      /\ UNCHANGED <<flattened, m_scene, m_staticMeshes, m_retiredMeshes, sdkVars>>
  BY DEF UpdateDynamic, Edited
<1>3. /\ x.subMesh = entry.subMesh /\ x.subScene = entry.subScene /\ x.instance = entry.instance /\ x.dirty /\ EntryOK(x, flattened, lastHandle)
  BY <1>1 DEF EntryOK
<1> HIDE DEF x
<1>4. Held(x) = Held(entry) /\ InScene(x) = InScene(entry)
  BY <1>3 DEF Held, InScene
<1>5. AllHeld' = AllHeld /\ AllInScene' = AllInScene /\ Made' = Made
  <2>1. AllHeld' = AllHeld
    BY <1>2, <1>4 DEF AllHeld
  <2>2. AllInScene' = AllInScene
    BY <1>2, <1>4 DEF AllInScene, InScene
  <2> QED
    BY <2>1, <2>2, <1>2 DEF Made, sdkVars
<1>6. SceneryTypeOK'
  BY <1>1, <1>2, SceneNumbers DEF SceneryTypeOK, sdkVars
<1>7. \A e \in m_dynamicEntries' : EntryOK(e, flattened', lastHandle')
  BY <1>2, <1>3 DEF ScenerySafe, sdkVars
<1>8. HoldersApart'
  <2>1. \A a, b \in m_dynamicEntries' : a # b => Held(a) \intersect Held(b) = {}
    BY <1>1, <1>2, <1>4 DEF HoldersApart
  <2> QED
    BY <2>1, <1>1, <1>2, <1>5 DEF HoldersApart, sdkVars
<1>9. TracerSafe'
  <2>1. \A e \in m_dynamicEntries' : place'[InScene(e)'] \in Places
    BY <1>1, <1>2, <1>4 DEF TracerSafe, sdkVars, InScene
  <2> QED
    BY <2>1, <1>1, <1>2, <1>3, <1>5 DEF TracerSafe, sdkVars
<1>10. PlacesCurrent'
  BY <1>1, <1>2, <1>3 DEF PlacesCurrent, InScene, sdkVars
<1> QED
  BY <1>6, <1>7, <1>8, <1>9, <1>10 DEF ScenerySafe

-----------------------------------------------------------------------------
(* The scene: what leaves it, and the commit                                 *)

LEMMA RemoveDynamicKept ==
  ASSUME ScenerySafe, NEW entries \in SUBSET m_dynamicEntries, RemoveDynamic(entries)
  PROVE  ScenerySafe'
<1> DEFINE outs == UNION {Held(e) : e \in entries}
           gone == IF flattened THEN {} ELSE outs
           left == {InScene(e) : e \in entries}
<1>1. /\ SceneryTypeOK /\ HoldersApart /\ TracerSafe /\ PlacesCurrent /\ lastHandle \in Nat /\ flattened \in BOOLEAN
      /\ lastHandle \in 0 .. MaxHandles /\ MaxHandles \in Nat
  BY SceneNumbers DEF ScenerySafe, SceneryTypeOK
<1>2. /\ m_dynamicEntries' = m_dynamicEntries \ entries /\ added' = added \ left /\ live' = live \ gone
      /\ m_retiredMeshes' = m_retiredMeshes \union (outs \ gone) /\ m_dirty' = TRUE /\ edits < MaxEdits /\ edits' = edits + 1
      /\ UNCHANGED <<flattened, m_scene, m_staticMeshes, traced, lastHandle, place>>
  <2>1. /\ m_dynamicEntries' = m_dynamicEntries \ entries /\ added' = added \ left
        /\ live' = live \ ReleasedAtOnce(entries)
        /\ m_retiredMeshes' = m_retiredMeshes \union (outs \ ReleasedAtOnce(entries))
    BY Zenon DEF RemoveDynamic, RemoveEntries
  <2>2. ReleasedAtOnce(entries) = gone
    BY Zenon DEF ReleasedAtOnce
  <2>3. /\ m_dirty' = TRUE /\ edits < MaxEdits /\ edits' = edits + 1
        /\ UNCHANGED <<flattened, m_scene, m_staticMeshes, traced, lastHandle, place>>
    BY Zenon DEF RemoveDynamic, Edited
  <2> HIDE DEF outs, gone, left
  <2> QED
    BY <2>1, <2>2, <2>3
<1>3. gone = IF flattened THEN {} ELSE outs
  OBVIOUS
<1>4. /\ \A e \in m_dynamicEntries : Held(e) \subseteq Made /\ InScene(e) \in Held(e)
      /\ \A e \in m_dynamicEntries : InScene(e) = IF flattened THEN e.subMesh ELSE e.instance
  BY <1>1, HeldIs DEF ScenerySafe, Made
<1>5. \A a, b \in m_dynamicEntries : a # b => Held(a) \intersect Held(b) = {}
  BY <1>1 DEF HoldersApart
<1>6. outs \subseteq AllHeld /\ AllHeld' = AllHeld \ outs
  <2>1. \A a \in entries : \A b \in m_dynamicEntries \ entries : Held(a) \intersect Held(b) = {}
    BY <1>5
  <2>2. AllHeld' = UNION {Held(e) : e \in m_dynamicEntries \ entries}
    BY <1>2 DEF AllHeld
  <2> QED
    BY <2>1, <2>2 DEF AllHeld
<1>7. left \subseteq AllInScene /\ AllInScene' = AllInScene \ left /\ AllInScene \subseteq AllHeld /\ left \subseteq outs
  <2>1. \A a \in entries : \A b \in m_dynamicEntries \ entries : InScene(a) # InScene(b)
    BY <1>4, <1>5
  <2>2. AllInScene' = {InScene(e) : e \in m_dynamicEntries \ entries}
    BY <1>2 DEF AllInScene, InScene
  <2>3. AllInScene \subseteq AllHeld /\ left \subseteq outs
    BY <1>4 DEF AllInScene, AllHeld
  <2> QED
    BY <2>1, <2>2, <2>3 DEF AllInScene
<1>8. \A h \in left : ~flattened => place[h] \in Places
  BY <1>1 DEF TracerSafe
<1> HIDE DEF outs, gone, left
<1>9. AllHeld \subseteq Made /\ Made' = Made /\ Made \subseteq Handles
  <2>1. AllHeld \subseteq Made
    BY <1>4 DEF AllHeld
  <2>2. Made' = Made /\ Made \subseteq Handles
    BY <1>1, <1>2 DEF Made, Handles
  <2> QED
    BY <2>1, <2>2
<1>10. SceneryTypeOK'
  <2>1. m_retiredMeshes' \subseteq Handles
    BY <1>1, <1>2, <1>6, <1>9 DEF SceneryTypeOK
  <2>2. edits' \in 0 .. MaxEdits
    BY <1>1, <1>2, SceneNumbers DEF SceneryTypeOK
  <2> QED
    BY <2>1, <2>2, <1>1, <1>2 DEF SceneryTypeOK
<1>11. \A e \in m_dynamicEntries' : EntryOK(e, flattened', lastHandle')
  BY <1>2 DEF ScenerySafe
<1>12. HoldersApart'
  <2>1. live' = m_staticMeshes' \union m_retiredMeshes' \union AllHeld'
    BY <1>1, <1>2, <1>3, <1>6 DEF HoldersApart
  <2>2. \A a, b \in m_dynamicEntries' : a # b => Held(a) \intersect Held(b) = {}
    BY <1>2, <1>5
  <2>3. m_staticMeshes' \intersect m_retiredMeshes' = {} /\ (m_staticMeshes' \union m_retiredMeshes') \intersect AllHeld' = {}
    BY <1>1, <1>2, <1>6 DEF HoldersApart
  <2>4. m_staticMeshes' \subseteq Made' /\ m_retiredMeshes' \subseteq Made' /\ traced' \subseteq Made'
    BY <1>1, <1>2, <1>6, <1>9 DEF HoldersApart
  <2> QED
    BY <2>1, <2>2, <2>3, <2>4 DEF HoldersApart
<1>13. TracerSafe'
  <2>1. added' = m_staticMeshes' \union AllInScene'
    BY <1>1, <1>2, <1>7 DEF TracerSafe, HoldersApart
  <2>2. \A h \in traced' : h \in m_staticMeshes' \union m_retiredMeshes' \union AllInScene' \/ (~flattened' /\ place'[h] \in Places)
    BY <1>1, <1>2, <1>3, <1>7, <1>8 DEF TracerSafe
  <2>3. \A e \in m_dynamicEntries' : place'[InScene(e)'] \in Places
    BY <1>1, <1>2 DEF TracerSafe, InScene
  <2>4. ~flattened' => \A e \in m_dynamicEntries' : e.subMesh \notin traced' /\ e.subScene \notin traced'
    BY <1>1, <1>2 DEF TracerSafe
  <2> QED
    BY <2>1, <2>2, <2>3, <2>4 DEF TracerSafe
<1>14. PlacesCurrent'
  BY <1>1, <1>2 DEF PlacesCurrent, InScene
<1> QED
  BY <1>10, <1>11, <1>12, <1>13, <1>14 DEF ScenerySafe

LEMMA ShutdownSceneKept == ASSUME ScenerySafe, Shutdown PROVE ScenerySafe'
<1>1. /\ SceneryTypeOK /\ HoldersApart
  BY DEF ScenerySafe
<1>2. /\ m_scene' = FALSE /\ m_staticMeshes' = {} /\ m_retiredMeshes' = {} /\ m_dynamicEntries' = {} /\ m_dirty' = FALSE
      /\ added' = {} /\ traced' = {} /\ UNCHANGED <<flattened, lastHandle, place, edits>>
      /\ live' = live \ (m_staticMeshes \union m_retiredMeshes \union AllHeld)
  BY DEF Shutdown, AllHeld
<1>3. live' = {}
  BY <1>1, <1>2 DEF HoldersApart
<1>4. AllHeld' = {} /\ AllInScene' = {}
  BY <1>2 DEF AllHeld, AllInScene
<1>5. SceneryTypeOK'
  BY <1>1, <1>2, <1>3 DEF SceneryTypeOK
<1> QED
  BY <1>2, <1>3, <1>4, <1>5 DEF ScenerySafe, HoldersApart, TracerSafe, PlacesCurrent

-----------------------------------------------------------------------------
(* Commit *)

LEMMA CommitInstancesKept == ASSUME ScenerySafe, Commit, CommitInstances PROVE ScenerySafe'
<1> DEFINE Clean(e) == [e EXCEPT !.dirty = FALSE]
           EntryAt(h) == CHOOSE e \in Moved : e.instance = h
<1>1. /\ SceneryTypeOK /\ HoldersApart /\ TracerSafe /\ PlacesCurrent /\ lastHandle \in Nat /\ ~flattened
  BY SceneNumbers DEF ScenerySafe, SceneryTypeOK, CommitInstances
<1>2. /\ m_dynamicEntries' = {Clean(e) : e \in m_dynamicEntries} /\ live' = live \ m_retiredMeshes
      /\ traced' = added' /\ m_retiredMeshes' = {} /\ m_dirty' = FALSE
      /\ UNCHANGED <<flattened, m_scene, m_staticMeshes, edits, added, lastHandle>>
      /\ place' = [h \in Handles |-> IF \E e \in Moved : e.instance = h THEN EntryAt(h).transform ELSE place[h]]
  <2>1. m_dynamicEntries' = {Clean(e) : e \in m_dynamicEntries}
    BY Zenon DEF CommitInstances
  <2>2. place' = [h \in Handles |-> IF \E e \in Moved : e.instance = h THEN EntryAt(h).transform ELSE place[h]]
    BY Zenon DEF CommitInstances
  <2>3. /\ live' = live \ m_retiredMeshes /\ traced' = added' /\ m_retiredMeshes' = {} /\ m_dirty' = FALSE
        /\ UNCHANGED <<flattened, m_scene, m_staticMeshes, edits, added, lastHandle>>
    BY Zenon DEF Commit, CommitInstances
  <2> HIDE DEF Clean, EntryAt
  <2> QED
    BY <2>1, <2>2, <2>3, Zenon
<1>3. \A e \in m_dynamicEntries : EntryOK(e, FALSE, lastHandle)
  <2>1. flattened = FALSE
    BY <1>1 DEF SceneryTypeOK
  <2> QED
    BY <2>1, Zenon DEF ScenerySafe
<1>4. ASSUME NEW e \in m_dynamicEntries
      PROVE  /\ EntryOK(Clean(e), FALSE, lastHandle) /\ Held(Clean(e)) = Held(e) /\ InScene(Clean(e)) = InScene(e)
             /\ Clean(e).subMesh = e.subMesh /\ Clean(e).subScene = e.subScene /\ Clean(e).transform = e.transform /\ ~Clean(e).dirty
  <2>1. EntryOK(e, FALSE, lastHandle)
    BY <1>3
  <2> QED
    BY <2>1 DEF EntryOK, Held, InScene
<1>5. ASSUME NEW e \in m_dynamicEntries
      PROVE  /\ e.instance \in Made /\ InScene(e) = e.instance /\ e.instance \in Held(e) /\ e.subMesh \in Held(e) /\ e.subScene \in Held(e)
             /\ e.subMesh # e.instance /\ e.subScene # e.instance /\ e.transform \in Places /\ Held(e) \subseteq Made
  <2>1. EntryOK(e, FALSE, lastHandle) /\ flattened = FALSE
    BY <1>1, <1>3 DEF SceneryTypeOK
  <2> QED
    BY <2>1, <1>1, HeldIs DEF EntryOK, Made
<1>6. \A a, b \in m_dynamicEntries : a # b => Held(a) \intersect Held(b) = {}
  BY <1>1 DEF HoldersApart
<1>7. \A a, b \in m_dynamicEntries : a.instance = b.instance => a = b
  BY <1>5, <1>6
<1>8. ASSUME NEW e \in Moved PROVE EntryAt(e.instance) = e
  <2> DEFINE h == e.instance
  <2>0. \E f \in Moved : f.instance = h
    OBVIOUS
  <2> HIDE DEF h
  <2>1. EntryAt(h) \in Moved /\ EntryAt(h).instance = h
    BY <2>0, Zenon
  <2>2. h = e.instance
    BY Zenon DEF h
  <2>3. Moved \subseteq m_dynamicEntries
    BY DEF Moved
  <2> HIDE DEF EntryAt
  <2>4. EntryAt(h) = e
    BY <2>1, <2>2, <2>3, <1>7
  <2> QED
    BY <2>2, <2>4, Zenon
<1> HIDE DEF Clean
<1>9. Made \subseteq Handles /\ Made' = Made
  <2>1. lastHandle <= MaxHandles
    BY <1>1, SceneNumbers DEF SceneryTypeOK
  <2> QED
    BY <2>1, <1>1, <1>2, SceneNumbers DEF Made, Handles
<1>10. \A h \in Handles : (\E e \in Moved : e.instance = h) => EntryAt(h).transform \in Places
  <2> SUFFICES ASSUME NEW h \in Handles, NEW e \in Moved, e.instance = h PROVE EntryAt(h).transform \in Places
    OBVIOUS
  <2> HIDE DEF EntryAt
  <2> QED
    BY <1>5, <1>8 DEF Moved
<1> HIDE DEF EntryAt
<1>11. \A e \in m_dynamicEntries : IF e.dirty THEN place'[e.instance] = e.transform ELSE place'[e.instance] = place[e.instance]
  <2> SUFFICES ASSUME NEW e \in m_dynamicEntries
               PROVE  IF e.dirty THEN place'[e.instance] = e.transform ELSE place'[e.instance] = place[e.instance]
    OBVIOUS
  <2>1. e.instance \in Handles
    BY <1>5, <1>9
  <2>2. CASE e.dirty
    <3>1. e \in Moved
      BY <2>2 DEF Moved
    <3> QED
      BY <2>1, <2>2, <3>1, <1>2, <1>8
  <2>3. CASE ~e.dirty
    <3>1. ~ \E f \in Moved : f.instance = e.instance
      BY <2>3, <1>7 DEF Moved
    <3> QED
      BY <2>1, <2>3, <3>1, <1>2
  <2> QED
    BY <2>2, <2>3
<1>12. AllHeld' = AllHeld /\ AllInScene' = AllInScene
  <2>1. AllHeld' = UNION {Held(Clean(e)) : e \in m_dynamicEntries}
    BY <1>2 DEF AllHeld
  <2>2. AllInScene' = {InScene(Clean(e)) : e \in m_dynamicEntries}
    BY <1>2 DEF AllInScene, InScene
  <2>3. \A e \in m_dynamicEntries : Held(Clean(e)) = Held(e) /\ InScene(Clean(e)) = InScene(e)
    BY <1>4
  <2> QED
    BY <2>1, <2>2, <2>3 DEF AllHeld, AllInScene
<1>13. SceneryTypeOK'
  <2>1. place' \in [Handles -> Places \union {Fixed}]
    <3>1. \A h \in Handles : place[h] \in Places \union {Fixed}
      BY <1>1 DEF SceneryTypeOK
    <3> QED
      BY <3>1, <1>2, <1>10
  <2> QED
    BY <2>1, <1>1, <1>2 DEF SceneryTypeOK
<1>14. \A e \in m_dynamicEntries' : EntryOK(e, flattened', lastHandle')
  <2>1. flattened' = FALSE /\ lastHandle' = lastHandle
    BY <1>1, <1>2 DEF SceneryTypeOK
  <2>2. ASSUME NEW e \in m_dynamicEntries' PROVE EntryOK(e, FALSE, lastHandle)
    BY <1>2, <1>4
  <2> QED
    BY <2>1, <2>2, Zenon
<1>15. HoldersApart'
  <2>1. ASSUME NEW a \in m_dynamicEntries', NEW b \in m_dynamicEntries', a # b PROVE Held(a) \intersect Held(b) = {}
    <3>1. PICK c \in m_dynamicEntries, d \in m_dynamicEntries : a = Clean(c) /\ b = Clean(d)
      BY <1>2
    <3>2. Held(a) = Held(c) /\ Held(b) = Held(d) /\ c # d
      BY <3>1, <2>1, <1>4
    <3> QED
      BY <3>2, <1>6
  <2>2. live' = m_staticMeshes' \union m_retiredMeshes' \union AllHeld'
    BY <1>1, <1>2, <1>12 DEF HoldersApart
  <2>3. AllInScene \subseteq Made
    BY <1>5 DEF AllInScene
  <2>4. traced' \subseteq Made'
    BY <2>3, <1>1, <1>2, <1>9 DEF HoldersApart, TracerSafe
  <2> QED
    BY <2>1, <2>2, <2>4, <1>1, <1>2, <1>9, <1>12 DEF HoldersApart
<1>16. TracerSafe'
  <2>1. added' = m_staticMeshes' \union AllInScene'
    BY <1>1, <1>2, <1>12 DEF TracerSafe
  <2>2. ASSUME NEW e \in m_dynamicEntries PROVE e.subMesh \notin traced' /\ e.subScene \notin traced'
    <3>1. e.subMesh \notin m_staticMeshes /\ e.subScene \notin m_staticMeshes
      BY <1>1, <1>5 DEF HoldersApart, AllHeld
    <3>2. ASSUME NEW f \in m_dynamicEntries PROVE e.subMesh # InScene(f) /\ e.subScene # InScene(f)
      BY <1>5, <1>6
    <3> QED
      BY <3>1, <3>2, <2>1, <1>2, <1>12 DEF AllInScene
  <2>3. \A e \in m_dynamicEntries' : e.subMesh \notin traced' /\ e.subScene \notin traced'
    BY <2>2, <1>2, <1>4
  <2>4. \A e \in m_dynamicEntries' : place'[InScene(e)'] \in Places
    <3>1. \A e \in m_dynamicEntries : place'[e.instance] \in Places
      BY <1>1, <1>5, <1>11 DEF TracerSafe
    <3>2. \A e \in m_dynamicEntries : InScene(Clean(e)) = e.instance
      BY <1>4, <1>5
    <3>3. \A e \in m_dynamicEntries : InScene(Clean(e))' = InScene(Clean(e))
      BY <1>2 DEF InScene
    <3> QED
      BY <3>1, <3>2, <3>3, <1>2
  <2>5. \A h \in traced' : h \in m_staticMeshes' \union m_retiredMeshes' \union AllInScene'
    BY <2>1, <1>2
  <2> QED
    BY <2>1, <2>3, <2>4, <2>5 DEF TracerSafe
<1>17. PlacesCurrent'
  <2>1. ASSUME NEW e \in m_dynamicEntries PROVE place'[InScene(Clean(e))'] = Clean(e).transform
    <3>1. InScene(Clean(e))' = InScene(Clean(e)) /\ InScene(Clean(e)) = e.instance /\ Clean(e).transform = e.transform
      BY <1>2, <1>4, <1>5 DEF InScene
    <3>2. e.dirty \/ place[e.instance] = e.transform
      BY <1>1, <1>5 DEF PlacesCurrent
    <3> QED
      BY <3>1, <3>2, <1>11
  <2>2. \A e \in m_dynamicEntries' : place'[InScene(e)'] = e.transform /\ ~e.dirty
    BY <2>1, <1>2, <1>4
  <2> QED
    BY <2>2, <1>2 DEF PlacesCurrent
<1> QED
  BY <1>13, <1>14, <1>15, <1>16, <1>17 DEF ScenerySafe

\* The replacements have handles of their own, above the ones given out so far.
LEMMA RenamedIs ==
  ASSUME NEW rebuilt, IsFiniteSet(rebuilt), lastHandle \in Nat
  PROVE  /\ Renamed(rebuilt) \in [rebuilt -> (lastHandle + 1)..(lastHandle + Cardinality(rebuilt))]
         /\ \A a, b \in rebuilt : Renamed(rebuilt)[a] = Renamed(rebuilt)[b] => a = b
<1> DEFINE n == Cardinality(rebuilt)
           T == (lastHandle + 1)..(lastHandle + n)
<1>1. n \in Nat
  BY FS_CardinalityType
<1> HIDE DEF n
<1>2. lastHandle + 1 \in Int /\ lastHandle + n \in Int
  BY <1>1
<1>3. IsFiniteSet(T) /\ Cardinality(T) = IF lastHandle + 1 > lastHandle + n THEN 0 ELSE (lastHandle + n) - (lastHandle + 1) + 1
  BY <1>2, FS_Interval
<1>4. Cardinality(T) = n
  BY <1>1, <1>3
<1>5. ExistsBijection(rebuilt, T)
  BY <1>3, <1>4, FS_SameCardinalityBij DEF n
<1> HIDE DEF T
<1>6. PICK g \in [rebuilt -> T] : \A a, b \in rebuilt : g[a] = g[b] => a = b
  BY <1>5 DEF ExistsBijection, Bijection, Injection, IsInjective
<1>7. \E f \in [rebuilt -> T] : \A a, b \in rebuilt : f[a] = f[b] => a = b
  BY <1>6
<1> DEFINE r == CHOOSE f \in [rebuilt -> T] : \A a, b \in rebuilt : f[a] = f[b] => a = b
<1>8. Renamed(rebuilt) = r
  BY Zenon DEF Renamed, T, n
<1>9. r \in [rebuilt -> T] /\ \A a, b \in rebuilt : r[a] = r[b] => a = b
  BY <1>7, Zenon
<1> HIDE DEF r
<1>10. /\ Renamed(rebuilt) \in [rebuilt -> T]
       /\ \A a, b \in rebuilt : Renamed(rebuilt)[a] = Renamed(rebuilt)[b] => a = b
  BY <1>8, <1>9
<1> QED
  BY <1>10, Zenon DEF T, n

\* There are finitely many entries: each has an object of its own in the scene.
LEMMA FiniteEntries == ASSUME ScenerySafe PROVE IsFiniteSet(m_dynamicEntries)
<1> DEFINE g == [e \in m_dynamicEntries |-> InScene(e)]
<1>1. lastHandle \in Nat /\ HoldersApart
  BY SceneNumbers DEF ScenerySafe, SceneryTypeOK
<1>2. \A e \in m_dynamicEntries : InScene(e) \in Held(e) /\ Held(e) \subseteq 1 .. lastHandle
  BY <1>1, HeldIs DEF ScenerySafe
<1>3. \A a, b \in m_dynamicEntries : a # b => Held(a) \intersect Held(b) = {}
  BY <1>1 DEF HoldersApart
<1>4. \A a, b \in m_dynamicEntries : InScene(a) = InScene(b) => a = b
  BY <1>2, <1>3
<1>5. \A e \in m_dynamicEntries : InScene(e) \in 1 .. lastHandle
  BY <1>2
<1>6. g \in [m_dynamicEntries -> 1 .. lastHandle]
  BY <1>5
<1>7. \A a, b \in m_dynamicEntries : g[a] = g[b] => a = b
  BY <1>4
<1> HIDE DEF g
<1>8. g \in Injection(m_dynamicEntries, 1 .. lastHandle)
  BY <1>6, <1>7 DEF Injection, IsInjective
<1>9. IsFiniteSet(1 .. lastHandle)
  BY <1>1, FS_Interval
<1> QED
  BY <1>8, <1>9, FS_Injection

\* What an entry is after it was built anew as new, or was not.
Rebuilt(e, new) == [e EXCEPT !.subMesh = new, !.dirty = FALSE, !.stale = FALSE]
Left(e) == [e EXCEPT !.dirty = FALSE, !.stale = @ \/ e.dirty]

BuiltAs(e, mesh, more) ==
  /\ EntryOK(Rebuilt(e, mesh), TRUE, more)
  /\ Held(Rebuilt(e, mesh)) = {mesh} /\ InScene(Rebuilt(e, mesh)) = mesh /\ Rebuilt(e, mesh).transform = e.transform
  /\ ~Rebuilt(e, mesh).dirty /\ ~Rebuilt(e, mesh).stale

LEMMA RebuiltIs ==
  ASSUME NEW e, flattened, NEW last \in Nat, NEW more \in Nat, last <= more, EntryOK(e, TRUE, last), NEW mesh \in 1 .. more
  PROVE  /\ BuiltAs(e, mesh, more) /\ EntryOK(Left(e), TRUE, more)
         /\ Held(Left(e)) = {e.subMesh} /\ InScene(Left(e)) = e.subMesh /\ Left(e).transform = e.transform
         /\ ~Left(e).dirty /\ Left(e).stale = (e.stale \/ e.dirty) /\ Left(e).subMesh = e.subMesh
         /\ Held(e) = {e.subMesh} /\ InScene(e) = e.subMesh /\ e.subMesh \in 1 .. last /\ e.transform \in Places
<1>1. /\ e \in [subMesh : 1 .. last, subScene : {None} \union 1 .. last, instance : {None} \union 1 .. last,
                transform : Places, dirty : BOOLEAN, stale : BOOLEAN]
      /\ e.subScene = None /\ e.instance = None
  BY DEF EntryOK
<1>2. 1 .. last \subseteq 1 .. more /\ None \notin 1 .. more
  BY DEF None
<1>3. /\ Rebuilt(e, mesh) \in [subMesh : 1 .. more, subScene : {None} \union 1 .. more, instance : {None} \union 1 .. more,
                              transform : Places, dirty : BOOLEAN, stale : BOOLEAN]
      /\ Rebuilt(e, mesh).subMesh = mesh /\ Rebuilt(e, mesh).subScene = None /\ Rebuilt(e, mesh).instance = None
      /\ Rebuilt(e, mesh).transform = e.transform /\ Rebuilt(e, mesh).dirty = FALSE /\ Rebuilt(e, mesh).stale = FALSE
  BY <1>1, <1>2 DEF Rebuilt
<1>4. /\ Left(e) \in [subMesh : 1 .. more, subScene : {None} \union 1 .. more, instance : {None} \union 1 .. more,
                      transform : Places, dirty : BOOLEAN, stale : BOOLEAN]
      /\ Left(e).subMesh = e.subMesh /\ Left(e).subScene = None /\ Left(e).instance = None
      /\ Left(e).transform = e.transform /\ Left(e).dirty = FALSE /\ Left(e).stale = (e.stale \/ e.dirty)
  BY <1>1, <1>2 DEF Left
<1>5. e.subMesh \in 1 .. last /\ e.subMesh # None /\ mesh # None /\ e.transform \in Places
  BY <1>1, <1>2
<1>6. EntryOK(Rebuilt(e, mesh), TRUE, more) /\ EntryOK(Left(e), TRUE, more)
  BY <1>3, <1>4 DEF EntryOK
<1>7. Held(Rebuilt(e, mesh)) = {mesh} /\ Held(Left(e)) = {e.subMesh} /\ Held(e) = {e.subMesh}
  BY <1>1, <1>3, <1>4, <1>5 DEF Held
<1>8. InScene(Rebuilt(e, mesh)) = mesh /\ InScene(Left(e)) = e.subMesh /\ InScene(e) = e.subMesh
  BY <1>3, <1>4 DEF InScene
<1> QED
  BY <1>3, <1>4, <1>5, <1>6, <1>7, <1>8 DEF BuiltAs

LEMMA CommitFlattenedKept ==
  ASSUME ScenerySafe, Commit, NEW rebuilt \in SUBSET Moved, CommitFlattened(rebuilt)
  PROVE  ScenerySafe'
<1> DEFINE n == Cardinality(rebuilt)
           last == lastHandle + n
           new == Renamed(rebuilt)
           After(e) == IF e \in rebuilt THEN Rebuilt(e, new[e]) ELSE Left(e)
           MeshOf(e) == IF e \in rebuilt THEN new[e] ELSE e.subMesh
           fresh == {new[e] : e \in rebuilt}
           old == {e.subMesh : e \in rebuilt}
           EntryAt(h) == CHOOSE e \in rebuilt : new[e] = h
<1>1. /\ SceneryTypeOK /\ HoldersApart /\ TracerSafe /\ PlacesCurrent /\ lastHandle \in Nat /\ flattened = TRUE
      /\ lastHandle \in 0 .. MaxHandles /\ MaxHandles \in Nat
  <2>1. flattened /\ SceneryTypeOK /\ HoldersApart /\ TracerSafe /\ PlacesCurrent
    BY Zenon DEF ScenerySafe, CommitFlattened
  <2> HIDE DEF n, last, new, fresh, old
  <2> QED
    BY <2>1, SceneNumbers DEF SceneryTypeOK
<1>2. IsFiniteSet(rebuilt) /\ n \in Nat /\ rebuilt \subseteq m_dynamicEntries
  <2>1. rebuilt \subseteq m_dynamicEntries
    BY DEF Moved
  <2>2. IsFiniteSet(rebuilt)
    BY <2>1, FiniteEntries, FS_Subset
  <2> QED
    BY <2>1, <2>2, FS_CardinalityType
<1>3. new \in [rebuilt -> (lastHandle + 1) .. last] /\ \A a, b \in rebuilt : new[a] = new[b] => a = b
  BY <1>1, <1>2, RenamedIs
<1>4. m_dynamicEntries' = {After(e) : e \in m_dynamicEntries}
  BY Zenon DEF CommitFlattened, Rebuilt, Left
<1>5. place' = [h \in Handles |-> IF \E e \in rebuilt : new[e] = h THEN EntryAt(h).transform ELSE place[h]]
  BY Zenon DEF CommitFlattened
<1>6. /\ last <= MaxHandles /\ lastHandle' = last /\ added' = (added \ old) \union fresh
      /\ live' = (live \union fresh) \ (m_retiredMeshes \union old)
      /\ traced' = added' /\ m_retiredMeshes' = {} /\ m_dirty' = FALSE
      /\ UNCHANGED <<flattened, m_scene, m_staticMeshes, edits>>
  BY Zenon DEF Commit, CommitFlattened
<1>7. last \in Nat /\ lastHandle <= last /\ last = lastHandle + n
  BY <1>1, <1>2
<1> HIDE DEF n, last, new
<1>8. Made' = Made \union (lastHandle + 1) .. last /\ Made \intersect (lastHandle + 1) .. last = {} /\ Made' \subseteq Handles /\ Made \subseteq Handles
  BY <1>1, <1>6, <1>7 DEF Made, Handles
<1>9. \A e \in rebuilt : new[e] \in 1 .. last /\ new[e] \in Made' /\ new[e] \notin Made
  <2>1. (lastHandle + 1) .. last \subseteq 1 .. last
    BY <1>1, <1>7
  <2> QED
    BY <2>1, <1>3, <1>8
<1>10. fresh \subseteq Made' /\ fresh \intersect Made = {}
  BY <1>9
<1>11. ASSUME NEW e \in m_dynamicEntries
       PROVE  /\ EntryOK(After(e), TRUE, last) /\ Held(After(e)) = {MeshOf(e)} /\ InScene(After(e)) = MeshOf(e) /\ After(e).transform = e.transform
              /\ ~After(e).dirty /\ (e \notin rebuilt => After(e).stale = (e.stale \/ e.dirty))
              /\ Held(e) = {e.subMesh} /\ InScene(e) = e.subMesh /\ e.subMesh \in Made /\ e.transform \in Places
  <2>1. EntryOK(e, TRUE, lastHandle)
    BY <1>1, Zenon DEF ScenerySafe
  <2>2. CASE e \in rebuilt
    <3>1. After(e) = Rebuilt(e, new[e]) /\ MeshOf(e) = new[e] /\ new[e] \in 1 .. last
      BY <2>2, <1>9
    <3> DEFINE x == new[e]
    <3>2. x \in 1 .. last /\ flattened /\ lastHandle \in Nat /\ last \in Nat /\ lastHandle <= last
      BY <3>1, <1>1, <1>7
    <3> HIDE DEF After, MeshOf, x
    <3>3. /\ BuiltAs(e, x, last)
          /\ Held(e) = {e.subMesh} /\ InScene(e) = e.subMesh /\ e.subMesh \in 1 .. lastHandle /\ e.transform \in Places
      BY <2>1, <3>2, RebuiltIs
    <3>4. After(e) = Rebuilt(e, x) /\ MeshOf(e) = x
      BY <3>1 DEF x
    <3> QED
      BY <2>2, <3>3, <3>4 DEF BuiltAs, Made
  <2>3. CASE e \notin rebuilt
    <3>1. After(e) = Left(e) /\ MeshOf(e) = e.subMesh
      BY <2>3
    <3>2. 1 .. lastHandle \subseteq 1 .. last /\ e.subMesh \in 1 .. lastHandle
      BY <2>1, <1>1, <1>7 DEF EntryOK
    <3> HIDE DEF After, MeshOf
    <3>3. e.subMesh \in 1 .. last /\ flattened
      BY <3>2, <1>1
    <3>4. /\ EntryOK(Left(e), TRUE, last) /\ Held(Left(e)) = {e.subMesh} /\ InScene(Left(e)) = e.subMesh
          /\ Left(e).transform = e.transform /\ ~Left(e).dirty /\ Left(e).stale = (e.stale \/ e.dirty)
          /\ Held(e) = {e.subMesh} /\ InScene(e) = e.subMesh /\ e.subMesh \in 1 .. lastHandle /\ e.transform \in Places
      BY <2>1, <3>3, <1>1, <1>7, RebuiltIs
    <3> QED
      BY <2>3, <3>1, <3>4 DEF Made
  <2> QED
    BY <2>2, <2>3
<1>12. \A a, b \in m_dynamicEntries : a.subMesh = b.subMesh => a = b
  <2>1. \A a, b \in m_dynamicEntries : a # b => Held(a) \intersect Held(b) = {}
    BY <1>1 DEF HoldersApart
  <2> QED
    BY <2>1, <1>11
<1>13. \A a, b \in m_dynamicEntries : MeshOf(a) = MeshOf(b) => a = b
  BY <1>3, <1>9, <1>11, <1>12
<1>14. AllHeld = {e.subMesh : e \in m_dynamicEntries} /\ AllInScene = AllHeld
  <2>1. \A e \in m_dynamicEntries : Held(e) = {e.subMesh} /\ InScene(e) = e.subMesh
    BY <1>11
  <2> QED
    BY <2>1 DEF AllHeld, AllInScene
<1>15. AllHeld \subseteq Made
  BY <1>11, <1>14
<1>16. {MeshOf(e) : e \in m_dynamicEntries} = (AllHeld \ old) \union fresh
  <2>1. \A e \in m_dynamicEntries : e \notin rebuilt => e.subMesh \notin old
    BY <1>2, <1>12
  <2> QED
    BY <2>1, <1>2, <1>14
<1>17. \A h \in Handles : (\E e \in rebuilt : new[e] = h) => EntryAt(h) \in rebuilt /\ new[EntryAt(h)] = h
  <2> TAKE h \in Handles
  <2> HAVE \E e \in rebuilt : new[e] = h
  <2> QED
    BY Zenon
<1> HIDE DEF EntryAt, After, MeshOf, old
<1>18. \A h \in Made : place'[h] = place[h]
  BY <1>5, <1>8, <1>9
<1>19. ASSUME NEW e \in rebuilt PROVE place'[new[e]] = e.transform
  <2>1. new[e] \in Handles
    BY <1>8, <1>9
  <2>2. EntryAt(new[e]) = e
    BY <2>1, <1>3, <1>17
  <2> QED
    BY <2>1, <2>2, <1>5
<1>20. AllHeld' = (AllHeld \ old) \union fresh /\ AllInScene' = AllHeld'
  <2>1. \A e \in m_dynamicEntries : Held(After(e)) = {MeshOf(e)} /\ InScene(After(e)) = MeshOf(e)
    BY <1>11
  <2>2. AllHeld' = UNION {Held(After(e)) : e \in m_dynamicEntries}
    BY <1>4 DEF AllHeld
  <2>3. AllInScene' = {InScene(After(e)) : e \in m_dynamicEntries}
    BY <1>4, <1>6 DEF AllInScene, InScene
  <2> HIDE DEF fresh
  <2>4. AllHeld' = {MeshOf(e) : e \in m_dynamicEntries} /\ AllInScene' = {MeshOf(e) : e \in m_dynamicEntries}
    BY <2>1, <2>2, <2>3
  <2> QED
    BY <2>4, <1>16
<1> HIDE DEF fresh
<1>21. old \subseteq AllHeld
  BY <1>2, <1>14 DEF old
<1>22. m_dynamicEntries' \subseteq {After(e) : e \in m_dynamicEntries}
  BY <1>4
<1>23. SceneryTypeOK'
  <2>1. place' \in [Handles -> Places \union {Fixed}]
    <3>1. \A h \in Handles : place[h] \in Places \union {Fixed}
      BY <1>1 DEF SceneryTypeOK
    <3>2. \A h \in Handles : (\E e \in rebuilt : new[e] = h) => EntryAt(h).transform \in Places
      BY <1>2, <1>11, <1>17
    <3> QED
      BY <3>1, <3>2, <1>5
  <2>2. added' \subseteq Handles /\ traced' \subseteq Handles /\ live' \subseteq Handles
    BY <1>1, <1>6, <1>8, <1>10 DEF SceneryTypeOK
  <2>3. lastHandle' \in 0 .. MaxHandles
    BY <1>1, <1>6, <1>7
  <2> QED
    BY <2>1, <2>2, <2>3, <1>1, <1>6 DEF SceneryTypeOK
<1>24. \A e \in m_dynamicEntries' : EntryOK(e, flattened', lastHandle')
  <2>1. flattened' = TRUE /\ lastHandle' = last
    BY <1>1, <1>6
  <2>2. ASSUME NEW e \in m_dynamicEntries' PROVE EntryOK(e, TRUE, last)
    <3> HIDE DEF After, last
    <3>1. PICK d \in m_dynamicEntries : e = After(d)
      BY <1>22, Zenon
    <3> QED
      BY <1>11, <3>1, Zenon
  <2> QED
    BY <2>1, <2>2, Zenon
<1>25. HoldersApart'
  <2>1. ASSUME NEW a \in m_dynamicEntries', NEW b \in m_dynamicEntries', a # b PROVE Held(a) \intersect Held(b) = {}
    <3>1. PICK c \in m_dynamicEntries, d \in m_dynamicEntries : a = After(c) /\ b = After(d)
      BY <1>22
    <3>2. Held(a) = {MeshOf(c)} /\ Held(b) = {MeshOf(d)} /\ c # d
      BY <3>1, <2>1, <1>11
    <3> QED
      BY <3>2, <1>13
  <2>2. live' = m_staticMeshes' \union m_retiredMeshes' \union AllHeld'
    BY <1>1, <1>6, <1>10, <1>15, <1>20, <1>21 DEF HoldersApart
  <2>3. /\ m_staticMeshes' \subseteq Made' /\ m_retiredMeshes' = {}
        /\ m_staticMeshes' \intersect AllHeld' = {}
    BY <1>1, <1>6, <1>8, <1>10, <1>20 DEF HoldersApart
  <2>4. traced' \subseteq Made'
    BY <1>1, <1>6, <1>8, <1>10, <1>14, <1>15 DEF HoldersApart, TracerSafe
  <2> QED
    BY <2>1, <2>2, <2>3, <2>4 DEF HoldersApart
<1>26. added' = m_staticMeshes' \union AllInScene'
  BY <1>1, <1>6, <1>14, <1>20, <1>21 DEF HoldersApart, TracerSafe
<1>27. ASSUME NEW e \in m_dynamicEntries
       PROVE  /\ place'[MeshOf(e)] \in Places
              /\ place'[MeshOf(e)] = e.transform \/ After(e).stale
  <2>1. e.transform \in Places /\ e.subMesh \in Made /\ InScene(e) = e.subMesh
    BY <1>11
  <2>2. CASE e \in rebuilt
    <3>1. MeshOf(e) = new[e]
      BY <2>2 DEF MeshOf
    <3> QED
      BY <2>1, <2>2, <3>1, <1>19
  <2>3. CASE e \notin rebuilt
    <3>1. MeshOf(e) = e.subMesh /\ After(e).stale = (e.stale \/ e.dirty)
      BY <2>3, <1>11 DEF MeshOf
    <3>2. place'[MeshOf(e)] = place[InScene(e)]
      BY <2>1, <3>1, <1>18
    <3> QED
      BY <3>1, <3>2, <2>1, <1>1 DEF TracerSafe, PlacesCurrent
  <2> QED
    BY <2>2, <2>3
<1>28. ASSUME NEW e \in m_dynamicEntries'
       PROVE  place'[InScene(e)'] \in Places /\ ~e.dirty /\ (place'[InScene(e)'] = e.transform \/ e.stale)
  <2>1. PICK f \in m_dynamicEntries : e = After(f)
    BY <1>22
  <2>2. InScene(e)' = MeshOf(f) /\ e.transform = f.transform /\ ~e.dirty
    <3>1. InScene(e)' = InScene(e)
      BY <1>6 DEF InScene
    <3> QED
      BY <3>1, <2>1, <1>11
  <2> QED
    BY <2>1, <2>2, <1>27
<1>29. flattened' = TRUE
  BY <1>1, <1>6
<1>30. TracerSafe'
  <2>1. \A h \in traced' : h \in m_staticMeshes' \union m_retiredMeshes' \union AllInScene'
    BY <1>6, <1>26
  <2>2. \A e \in m_dynamicEntries' : place'[InScene(e)'] \in Places
    BY <1>28
  <2> QED
    BY <2>1, <2>2, <1>26, <1>29 DEF TracerSafe
<1>31. PlacesCurrent'
  <2>1. \A e \in m_dynamicEntries' : ~e.dirty /\ (place'[InScene(e)'] = e.transform \/ e.stale)
    BY <1>28
  <2> QED
    BY <2>1, <1>6, <1>29 DEF PlacesCurrent
<1> QED
  BY <1>23, <1>24, <1>25, <1>30, <1>31 DEF ScenerySafe

LEMMA SceneryStep == ScenerySafe /\ [SceneryNext]_sceneryVars => ScenerySafe'
<1> SUFFICES ASSUME ScenerySafe, [SceneryNext]_sceneryVars PROVE ScenerySafe'
  OBVIOUS
<1>1. CASE AddStaticMesh
  BY <1>1, AddStaticKept
<1>2. CASE ClearStatic
  BY <1>2, ClearStaticKept
<1>3. CASE AddDynamicFails
  BY <1>3, AddDynamicFailsKept
<1>4. CASE Commit
  <2>1. CASE CommitInstances
    BY <1>4, <2>1, CommitInstancesKept
  <2>2. CASE \E rebuilt \in SUBSET Moved : CommitFlattened(rebuilt)
    BY <1>4, <2>2, CommitFlattenedKept
  <2> QED
    BY <1>4, <2>1, <2>2 DEF Commit
<1>5. CASE Shutdown
  BY <1>5, ShutdownSceneKept
<1>6. ASSUME NEW p \in Places, AddDynamic(p) PROVE ScenerySafe'
  BY <1>6, AddDynamicKept
<1>7. ASSUME NEW p \in Places, NEW e \in m_dynamicEntries, UpdateDynamic(e, p) PROVE ScenerySafe'
  BY <1>7, UpdateDynamicKept
<1>8. ASSUME NEW entries \in {{e} : e \in m_dynamicEntries} \union {m_dynamicEntries}, RemoveDynamic(entries) PROVE ScenerySafe'
  <2>1. entries \in SUBSET m_dynamicEntries
    OBVIOUS
  <2> QED
    BY <1>8, <2>1, RemoveDynamicKept
<1>9. CASE UNCHANGED sceneryVars
  <2>1. /\ UNCHANGED <<flattened, m_scene, m_staticMeshes, m_retiredMeshes, m_dynamicEntries, m_dirty>>
        /\ UNCHANGED <<added, traced, live, lastHandle, place, edits>>
    BY <1>9 DEF sceneryVars, builderVars, sdkVars
  <2>2. Made' = Made /\ AllHeld' = AllHeld /\ AllInScene' = AllInScene
    BY <2>1 DEF Made, AllHeld, AllInScene, InScene
  <2>3. SceneryTypeOK' /\ HoldersApart'
    BY <2>1, <2>2 DEF ScenerySafe, SceneryTypeOK, HoldersApart
  <2>4. TracerSafe' /\ PlacesCurrent'
    BY <2>1, <2>2 DEF ScenerySafe, TracerSafe, PlacesCurrent, InScene
  <2> QED
    BY <2>1, <2>3, <2>4 DEF ScenerySafe
<1> QED
  BY <1>1, <1>2, <1>3, <1>4, <1>5, <1>6, <1>7, <1>8, <1>9 DEF SceneryNext

\* Every object of the SDK is held for as long as it lives, by one holder, what the
\* tracer may hit is alive, and after a commit it stands where it was put last.
THEOREM ScenerySafety == SceneryInit /\ [][SceneryNext]_sceneryVars => []SceneryInv
<1>1. SceneryInit => ScenerySafe
  BY SceneryStart
<1>2. ScenerySafe /\ [SceneryNext]_sceneryVars => ScenerySafe'
  BY SceneryStep
<1>3. ScenerySafe => SceneryInv
  BY ScenerySafeIsEnough
<1> QED
  BY <1>1, <1>2, <1>3, PTL

-----------------------------------------------------------------------------
(* The walk: what a slice leaves out                                         *)

Things == Beings \union {"none"}
Always(been) == been # {"none"} /\ Cardinality(been) = 1
\* Below next, what held an index all along and is not among the records.
Gone(during, next, records) == {i \in Indexes : i < next /\ Always(during[i]) /\ ~ \E r \in records : r.index = i}

Sweeps == [active : BOOLEAN, next : Nat, highest : 0 .. LastIndex, faults : Nat,
           pending : SUBSET [index : Indexes, map : WalkMaps, being : Things]]

\* What is seen of the entities since a sweep began.
SeenOK ==
  /\ DOMAIN held = Indexes
  /\ \A i \in Indexes : IsFiniteSet(held[i]) /\ list[i] \in held[i] /\ (i > m_sweep.highest => "none" \in held[i])
WalkTypeOK ==
  /\ m_walkState \in {"Uninitialized", "Unvalidated", "Validated", "Failed"}
  /\ list \in [Indexes -> Things]
  /\ m_sweep \in Sweeps
  /\ gameMap \in WalkMaps /\ m_mapName \in WalkMaps \union {""}
SweepSafe ==
  /\ m_sweep.next <= m_sweep.highest + 1
  /\ m_sweep.active => m_walkState = "Validated" /\ m_sweep.next > 0 /\ SeenOK
  /\ m_sweep.active => Cardinality(Gone(held, m_sweep.next, m_sweep.pending)) <= m_sweep.faults
  /\ m_sweep.active => \A r \in m_sweep.pending : r.map = gameMap
MapSafe ==
  /\ m_walkState = "Validated" => m_mapName # "" /\ gameMap = m_mapName /\ m_snapshotMap = m_mapName
  /\ m_mapName # "" => \A r \in luaBatch.entities \union luaBatch.closed : r.map = gameMap
  /\ DOMAIN luaBatch = {"open", "entities", "ready", "closed"}
GivenSafe == GivenOfThisMap /\ NobodyIsMissed
WalkSafe == WalkTypeOK /\ SweepSafe /\ MapSafe /\ GivenSafe

LEMMA WalkNumbers == LastIndex \in Nat /\ SliceSize \in Nat /\ FewFaults \in Nat /\ MaxHappenings \in Nat /\ SliceSize > 0
<1>1. {LastIndex, SliceSize, FewFaults, MaxHappenings} \subseteq Nat
  BY WalkAssumption
<1> QED
  BY <1>1, WalkAssumption

LEMMA NoNumbers == Cardinality({}) = 0
  BY FS_EmptySet, Zenon

\* An index held by one thing only.
LEMMA AlwaysIs ==
  ASSUME NEW S, IsFiniteSet(S), Always(S), NEW x \in S, NEW y \in S
  PROVE  x = y /\ x # "none"
<1>1. \E z : S = {z}
  BY FS_Singleton DEF Always
<1> QED
  BY <1>1 DEF Always

LEMMA LessOf ==
  ASSUME NEW a \in Int, NEW b \in Int
  PROVE  Min({a, b}) \in Int /\ Min({a, b}) <= a /\ Min({a, b}) <= b
<1>1. \E x \in {a, b} : \A y \in {a, b} : x =< y
  <2>1. CASE a <= b
    BY <2>1
  <2>2. CASE ~(a <= b)
    BY <2>2
  <2> QED
    BY <2>1, <2>2
<1>2. Min({a, b}) \in {a, b} /\ \A y \in {a, b} : Min({a, b}) =< y
  BY <1>1, Zenon DEF Min
<1> QED
  BY <1>2

\* Indexes beyond the highest one are free.
LEMMA HighestIs ==
  ASSUME list \in [Indexes -> Things]
  PROVE  /\ GetHighestEntityIndex \in 0 .. LastIndex
         /\ \A i \in Indexes : i > GetHighestEntityIndex => list[i] = "none"
<1>1. LastIndex \in Nat /\ Occupied \subseteq 1 .. LastIndex
  BY WalkNumbers DEF Occupied, Indexes
<1>2. CASE Occupied = {}
  <2>1. GetHighestEntityIndex = 0
    BY <1>2, Zenon DEF GetHighestEntityIndex
  <2> QED
    BY <2>1, <1>1, <1>2 DEF Occupied
<1>3. CASE Occupied # {}
  <2> DEFINE m == Max(Occupied)
  <2>1. GetHighestEntityIndex = m
    BY <1>3, Zenon DEF GetHighestEntityIndex
  <2>2. m \in Occupied /\ \A y \in Occupied : y <= m
    BY <1>1, <1>3, MaxOf
  <2> HIDE DEF m
  <2>3. m \in 1 .. LastIndex
    BY <2>2, <1>1
  <2>4. ASSUME NEW i \in Indexes, i > m PROVE list[i] = "none"
    <3>1. i \notin Occupied
      <4>1. i \in Int /\ m \in Int /\ ~(i <= m)
        BY <2>3, <2>4, <1>1 DEF Indexes
      <4> QED
        BY <4>1, <2>2
    <3> QED
      BY <3>1 DEF Occupied
  <2>5. m \in 0 .. LastIndex
    BY <2>3, <1>1
  <2> QED
    BY <2>1, <2>4, <2>5
<1> QED
  BY <1>2, <1>3

\* The walk goes on only where the list is validated for the map that runs.
LEMMA WalkedIsValid ==
  ASSUME StateToWalk = "Validated", MapSafe, WalkTypeOK
  PROVE  /\ gameMap = m_mapName
         /\ m_sweep.active /\ SweepSafe => SweepToWalk = m_sweep
         /\ m_snapshotMap # m_mapName => m_walkState # "Validated"
<1>1. m_snapshotMap # m_mapName => m_walkState # "Validated"
  BY DEF MapSafe
<1>2. Validate = "yes" => gameMap = m_mapName
  <2>1. layout = "wrong" => Validate = "no"
    BY DEF Validate
  <2>2. layout # "wrong" /\ GetHighestEntityIndex = 0 => Validate = "later"
    BY DEF Validate
  <2>3. layout # "wrong" /\ GetHighestEntityIndex # 0 => Validate = IF gameMap = m_mapName THEN "yes" ELSE "no"
    BY DEF Validate
  <2> QED
    BY <2>1, <2>2, <2>3
<1>3. gameMap = m_mapName
  <2> DEFINE state == IF m_snapshotMap # m_mapName THEN Invalidated ELSE m_walkState
  <2>1. CASE state = "Unvalidated"
    <3>1. Validate = "yes"
      BY <2>1 DEF StateToWalk
    <3> QED
      BY <3>1, <1>2
  <2>2. CASE state # "Unvalidated"
    <3>1. StateToWalk = state
      BY <2>2 DEF StateToWalk
    <3>2. state = "Validated"
      BY <3>1
    <3>3. m_walkState = "Validated"
      BY <3>2, <1>1 DEF Invalidated
    <3> QED
      BY <3>3 DEF MapSafe
  <2> QED
    BY <2>1, <2>2
<1>4. m_sweep.active /\ SweepSafe => SweepToWalk = m_sweep
  <2> SUFFICES ASSUME m_sweep.active, SweepSafe PROVE SweepToWalk = m_sweep
    OBVIOUS
  <2>1. m_walkState = "Validated"
    BY DEF SweepSafe
  <2>2. m_snapshotMap = m_mapName
    BY <2>1, <1>1
  <2> QED
    BY <2>2 DEF SweepToWalk
<1> QED
  BY <1>1, <1>3, <1>4

RecordsOfMap(records) == \A r \in records : r.map = gameMap
\* What a slice makes of a sweep.
SliceOK(sweep, after, during, last) ==
  /\ after \in Sweeps /\ after.next = last + 1 /\ after.highest = sweep.highest /\ after.active = sweep.active
  /\ RecordsOfMap(sweep.pending) => RecordsOfMap(after.pending)
  /\ Cardinality(Gone(during, last + 1, after.pending)) <= after.faults

\* All a slice can leave out of what was always there is what faulted.
LEMMA SliceIs ==
  ASSUME WalkTypeOK, NEW sweep \in Sweeps, NEW during,
         \A i \in Indexes : IsFiniteSet(during[i]) /\ list[i] \in during[i],
         NEW last \in Nat, last <= LastIndex, NEW faulting \in SUBSET (sweep.next .. last), sweep.next > 0,
         Cardinality(Gone(during, sweep.next, sweep.pending)) <= sweep.faults
  PROVE  SliceOK(sweep, SweepBy(sweep, last, faulting), during, last)
<1> DEFINE after == SweepBy(sweep, last, faulting)
           reads == (sweep.next..last) \cap (Occupied \ faulting)
           records == {Record(i) : i \in reads}
<1>1. /\ LastIndex \in Nat /\ sweep.next \in Nat /\ sweep.faults \in Nat /\ sweep.highest \in 0 .. LastIndex /\ sweep.active \in BOOLEAN
      /\ sweep.pending \in SUBSET [index : Indexes, map : WalkMaps, being : Things]
      /\ gameMap \in WalkMaps /\ list \in [Indexes -> Things]
  BY WalkNumbers DEF WalkTypeOK, Sweeps
<1>2. IsFiniteSet(faulting) /\ Cardinality(faulting) \in Nat
  <2>1. IsFiniteSet(sweep.next .. last)
    <3>1. sweep.next \in Int /\ last \in Int
      BY <1>1
    <3> QED
      BY <3>1, FS_Interval
  <2> QED
    BY <2>1, FS_Subset, FS_CardinalityType
<1>3. reads \subseteq Indexes
  BY DEF Occupied
<1>4. \A i \in Indexes : Record(i) \in [index : Indexes, map : WalkMaps, being : Things] /\ Record(i).index = i /\ Record(i).map = gameMap
  BY <1>1 DEF Record
<1>5. records \subseteq [index : Indexes, map : WalkMaps, being : Things] /\ RecordsOfMap(records) /\ \A i \in reads : \E r \in records : r.index = i
  BY <1>3, <1>4 DEF RecordsOfMap
<1>6. /\ after \in Sweeps /\ after.next = last + 1 /\ after.highest = sweep.highest /\ after.active = sweep.active
      /\ after.pending = sweep.pending \union records /\ after.faults = sweep.faults + Cardinality(faulting)
  <2> HIDE DEF records
  <2>1. after = [sweep EXCEPT !.next = last + 1, !.faults = sweep.faults + Cardinality(faulting), !.pending = sweep.pending \union records]
    BY Zenon DEF SweepBy, records
  <2>2. last + 1 \in Nat /\ sweep.faults + Cardinality(faulting) \in Nat /\ sweep.pending \union records \in SUBSET [index : Indexes, map : WalkMaps, being : Things]
    BY <1>1, <1>2, <1>5
  <2> DEFINE c == sweep.faults + Cardinality(faulting)
             l == last + 1
             p == sweep.pending \union records
  <2>3. after = [sweep EXCEPT !.next = l, !.faults = c, !.pending = p] /\ c \in Nat /\ l \in Nat
        /\ p \in SUBSET [index : Indexes, map : WalkMaps, being : Things]
    BY <2>1, <2>2
  <2> HIDE DEF after, c, l, p
  <2>4. /\ after \in Sweeps /\ after.next = l /\ after.highest = sweep.highest /\ after.active = sweep.active
        /\ after.pending = p /\ after.faults = c
    BY <2>3 DEF Sweeps
  <2> QED
    BY <2>4 DEF l, c, p
<1>7. RecordsOfMap(sweep.pending) => RecordsOfMap(after.pending)
  BY <1>5, <1>6 DEF RecordsOfMap
<1>8. Gone(during, last + 1, after.pending) \subseteq Gone(during, sweep.next, sweep.pending) \union faulting
  <2> SUFFICES ASSUME NEW i \in Gone(during, last + 1, after.pending), i \notin faulting
               PROVE  i \in Gone(during, sweep.next, sweep.pending)
    OBVIOUS
  <2>1. i \in Indexes /\ i < last + 1 /\ Always(during[i]) /\ ~ \E r \in sweep.pending \union records : r.index = i
    BY <1>6 DEF Gone
  <2>2. list[i] # "none"
    BY <2>1, AlwaysIs
  <2>3. i \in Occupied
    BY <2>1, <2>2 DEF Occupied
  <2>4. i \notin reads
    BY <2>1, <1>5
  <2>5. i \in Nat /\ ~(i >= sweep.next /\ i <= last)
    BY <2>1, <2>3, <2>4, <1>1 DEF Indexes
  <2>6. i < sweep.next
    BY <2>1, <2>5, <1>1
  <2> QED
    BY <2>1, <2>6 DEF Gone
<1>9. IsFiniteSet(Gone(during, sweep.next, sweep.pending))
  <2>1. IsFiniteSet(Indexes)
    BY <1>1, FS_Interval DEF Indexes
  <2> QED
    BY <2>1, FS_Subset DEF Gone
<1> DEFINE a == Gone(during, sweep.next, sweep.pending)
           b == Gone(during, last + 1, after.pending)
<1> HIDE DEF a, b, after
<1>10. IsFiniteSet(a \union faulting) /\ Cardinality(a \union faulting) <= Cardinality(a) + Cardinality(faulting) /\ Cardinality(a) \in Nat
  <2>1. IsFiniteSet(a)
    BY <1>9 DEF a
  <2>2. IsFiniteSet(a \union faulting)
    BY <2>1, <1>2, FS_Union
  <2>3. Cardinality(a \union faulting) = Cardinality(a) + Cardinality(faulting) - Cardinality(a \cap faulting)
    BY <2>1, <1>2, FS_Union
  <2>4. Cardinality(a) \in Nat /\ Cardinality(a \cap faulting) \in Nat /\ Cardinality(a \union faulting) \in Nat
    <3>1. IsFiniteSet(a \cap faulting)
      BY <2>1, FS_Intersection
    <3> QED
      BY <3>1, <2>1, <2>2, FS_CardinalityType
  <2> QED
    BY <2>2, <2>3, <2>4, <1>2
<1>11. Cardinality(b) <= Cardinality(a \union faulting) /\ Cardinality(b) \in Nat /\ Cardinality(a \union faulting) \in Nat
  <2>1. b \in SUBSET (a \union faulting)
    BY <1>8 DEF a, b
  <2>2. IsFiniteSet(b)
    BY <2>1, <1>10, FS_Subset
  <2> QED
    BY <2>1, <2>2, <1>10, FS_Subset, FS_CardinalityType
<1>12. Cardinality(a) <= sweep.faults
  BY Zenon DEF a
<1>13. Cardinality(b) <= after.faults
  BY <1>1, <1>2, <1>6, <1>10, <1>11, <1>12
<1>14. Cardinality(Gone(during, last + 1, after.pending)) <= after.faults
  BY <1>13, Zenon DEF b
<1>15. SliceOK(sweep, after, during, last)
  BY <1>6, <1>7, <1>14 DEF SliceOK
<1> QED
  BY <1>15, Zenon DEF after

During == IF m_sweep.active /\ SweepToWalk = m_sweep THEN held ELSE [i \in Indexes |-> {list[i]}]
\* A sweep a slice can go on with.
Sweeping(sweep, during) ==
  /\ sweep \in Sweeps /\ sweep.active /\ sweep.next > 0 /\ sweep.next <= sweep.highest + 1 /\ RecordsOfMap(sweep.pending)
  /\ Cardinality(Gone(during, sweep.next, sweep.pending)) <= sweep.faults
  /\ DOMAIN during = Indexes
  /\ \A i \in Indexes : IsFiniteSet(during[i]) /\ list[i] \in during[i] /\ (i > sweep.highest => "none" \in during[i])

LEMMA SweptFrom == ASSUME WalkSafe, StateToWalk = "Validated" PROVE Sweeping(SweepToWalk, During)
<1>1. WalkTypeOK /\ SweepSafe /\ MapSafe
  BY DEF WalkSafe
<1>2. CASE m_sweep.active
  <2>1. SweepToWalk = m_sweep
    BY <1>1, <1>2, WalkedIsValid
  <2>2. During = held
    BY <1>2, <2>1 DEF During
  <2>3. Sweeping(m_sweep, held)
    BY <1>1, <1>2 DEF Sweeping, SweepSafe, SeenOK, WalkTypeOK, RecordsOfMap
  <2> QED
    BY <2>1, <2>2, <2>3
<1>3. CASE ~m_sweep.active
  <2> DEFINE n == GetHighestEntityIndex
             d == [i \in Indexes |-> {list[i]}]
  <2>1. n \in 0 .. LastIndex /\ \A i \in Indexes : i > n => list[i] = "none"
    BY <1>1, HighestIs DEF WalkTypeOK
  <2>2. SweepToWalk = BeginSweep
    <3>1. ~SweepAfterInvalidate.active
      BY DEF SweepAfterInvalidate, IdleSweep
    <3> QED
      BY <3>1, <1>3 DEF SweepToWalk
  <2>3. During = d
    BY <1>3, Zenon DEF During
  <2> HIDE DEF n
  <2> DEFINE s == BeginSweep
  <2>4. /\ s \in Sweeps /\ s.active /\ s.next = 1 /\ s.highest = n /\ s.faults = 0 /\ s.pending = {}
    <3> DEFINE r == IdleSweep
    <3>1. r \in Sweeps /\ r.faults = 0 /\ r.pending = {}
      BY WalkNumbers DEF IdleSweep, Sweeps
    <3> HIDE DEF r
    <3>2. s = [r EXCEPT !.active = TRUE, !.next = 1, !.highest = n]
      BY Zenon DEF BeginSweep, r, n
    <3> QED
      BY <2>1, <3>1, <3>2 DEF Sweeps
  <2> HIDE DEF s
  <2>5. 1 > 0 /\ 1 <= n + 1
    BY <2>1
  <2>6. Gone(d, 1, {}) = {}
    BY WalkNumbers DEF Gone, Indexes
  <2>7. Cardinality(Gone(d, 1, {})) <= 0
    BY <2>6, NoNumbers
  <2>8. DOMAIN d = Indexes /\ \A i \in Indexes : d[i] = {list[i]}
    OBVIOUS
  <2>9. \A i \in Indexes : IsFiniteSet(d[i]) /\ list[i] \in d[i] /\ (i > n => "none" \in d[i])
    BY <2>1, <2>8, FS_Singleton
  <2> HIDE DEF d
  <2>10. RecordsOfMap(s.pending)
    BY <2>4 DEF RecordsOfMap
  <2>11. Sweeping(s, d)
    BY <2>4, <2>5, <2>7, <2>8, <2>9, <2>10 DEF Sweeping
  <2> QED
    BY <2>2, <2>3, <2>11, Zenon DEF s
<1> QED
  BY <1>2, <1>3

\* A slice goes no further than the sweep, and all that is missed at its end faulted.
LEMMA SweptTo ==
  ASSUME WalkSafe, NEW sweep, NEW during, Sweeping(sweep, during),
         NEW last \in (sweep.next - 1)..Min({sweep.highest, sweep.next + SliceSize - 1}),
         NEW faulting \in SUBSET {i \in sweep.next..last : MayFault(i)}
  PROVE  /\ SliceOK(sweep, SweepBy(sweep, last, faulting), during, last) /\ last \in Nat /\ last <= sweep.highest
         /\ RecordsOfMap(RecentFaults(sweep, last, faulting))
<1>1. /\ LastIndex \in Nat /\ sweep.next \in Nat /\ sweep.next > 0 /\ sweep.highest \in 0 .. LastIndex /\ SliceSize \in Nat
      /\ sweep \in Sweeps /\ WalkTypeOK
  BY WalkNumbers DEF WalkSafe, Sweeping, Sweeps
<1>2. sweep.highest \in Int /\ sweep.next + SliceSize - 1 \in Int
  BY <1>1
<1> DEFINE m == Min({sweep.highest, sweep.next + SliceSize - 1})
<1>3. m \in Int /\ m <= sweep.highest
  BY <1>2, LessOf
<1> HIDE DEF m
<1>4. last \in (sweep.next - 1)..m
  BY Zenon DEF m
<1>5. last \in Nat /\ last <= sweep.highest /\ last <= LastIndex
  BY <1>1, <1>3, <1>4
<1>6. faulting \in SUBSET (sweep.next .. last)
  OBVIOUS
<1>7. SliceOK(sweep, SweepBy(sweep, last, faulting), during, last)
  BY <1>1, <1>5, <1>6, SliceIs DEF Sweeping
<1>8. RecordsOfMap(RecentFaults(sweep, last, faulting))
  <2> DEFINE s == [sweep EXCEPT !.pending = {}]
             records == {Record(i) : i \in (s.next..last) \cap (Occupied \ faulting)}
  <2>1. \A i : Record(i).map = gameMap
    BY DEF Record
  <2>2. RecordsOfMap({} \cup records)
    BY <2>1 DEF RecordsOfMap
  <2>3. s \in [active : BOOLEAN, next : Nat, highest : 0 .. LastIndex, faults : Nat,
               pending : SUBSET [index : Indexes, map : WalkMaps, being : Things]] /\ s.pending = {}
    BY <1>1 DEF Sweeps
  <2> HIDE DEF s, records
  <2> DEFINE k == last + 1
             c == s.faults + Cardinality(faulting)
             p == {} \cup records
  <2>4. RecentFaults(sweep, last, faulting) = [s EXCEPT !.next = k, !.faults = c, !.pending = p].pending
    BY <2>3, Zenon DEF RecentFaults, SweepBy, records, s
  <2> HIDE DEF k, c, p
  <2>5. [s EXCEPT !.next = k, !.faults = c, !.pending = p].pending = p
    BY <2>3
  <2> QED
    BY <2>2, <2>4, <2>5 DEF p
<1> QED
  BY <1>5, <1>7, <1>8

\* A complete sweep.
LEMMA MissedIs ==
  ASSUME NEW sweep, NEW during, Sweeping(sweep, during), NEW records
  PROVE  Missed(during, records) \subseteq Gone(during, sweep.highest + 1, records)
<1>1. sweep.highest \in Nat
  BY WalkNumbers DEF Sweeping, Sweeps
<1> SUFFICES ASSUME NEW i \in Missed(during, records) PROVE i \in Gone(during, sweep.highest + 1, records)
  OBVIOUS
<1>2. i \in Indexes /\ Always(during[i]) /\ ~ \E r \in records : r.index = i
  BY DEF Missed, Always
<1>3. ~(i > sweep.highest)
  <2>1. IsFiniteSet(during[i])
    BY <1>2 DEF Sweeping
  <2>2. "none" \notin during[i]
    BY <2>1, <1>2, AlwaysIs
  <2> QED
    BY <2>2, <1>2 DEF Sweeping
<1>4. i < sweep.highest + 1
  BY <1>1, <1>2, <1>3, WalkNumbers DEF Indexes
<1> QED
  BY <1>2, <1>4 DEF Gone

-----------------------------------------------------------------------------
(* The steps of the walk                                                     *)

LuaSafe ==
  /\ m_mapName # "" => \A r \in luaBatch.entities \union luaBatch.closed : r.map = gameMap
  /\ DOMAIN luaBatch = {"open", "entities", "ready", "closed"}

LEMMA FiniteIndexes == IsFiniteSet(Indexes)
<1>1. LastIndex \in Int /\ 1 \in Int
  BY WalkNumbers
<1> QED
  BY <1>1, FS_Interval DEF Indexes

LEMMA HighestIsNumber == ASSUME NEW sweep, sweep.highest \in 0 .. LastIndex PROVE sweep.highest \in Nat
  BY WalkNumbers

LEMMA OneMore == ASSUME NEW a \in Nat, NEW b \in Nat, a <= b PROVE a + 1 <= b + 1 /\ a + 1 > 0
  OBVIOUS

LEMMA NothingMissed == ASSUME NEW n \in Nat PROVE Cardinality({}) <= n
<1> DEFINE c == Cardinality({})
<1>1. c = 0
  BY NoNumbers
<1> HIDE DEF c
<1>2. c <= n
  BY <1>1
<1> QED
  BY <1>2, Zenon DEF c

LEMMA AtMost ==
  ASSUME NEW f \in Nat, NEW a, NEW b, IsFiniteSet(b), a \in SUBSET b, Cardinality(b) <= f
  PROVE  Cardinality(a) <= f
<1> DEFINE x == Cardinality(a)
           y == Cardinality(b)
<1>1. IsFiniteSet(a) /\ x <= y
  BY FS_Subset
<1>2. x \in Nat /\ y \in Nat
  BY <1>1, FS_CardinalityType
<1>3. y <= f
  OBVIOUS
<1> HIDE DEF x, y
<1>4. x <= f
  BY <1>1, <1>2, <1>3
<1> QED
  BY <1>4 DEF x

LEMMA FewFaulted ==
  ASSUME NEW sweep, sweep.faults \in Nat, sweep.highest \in Nat, ~TooManyFaults(sweep)
  PROVE  sweep.faults <= FewFaults \/ sweep.faults * 4 <= sweep.highest
<1> DEFINE f == sweep.faults
           h == sweep.highest
<1>1. ~(f > FewFaults /\ f * 4 > h) /\ f \in Nat /\ h \in Nat /\ FewFaults \in Nat
  BY WalkNumbers, Zenon DEF TooManyFaults
<1> HIDE DEF f, h
<1>2. f <= FewFaults \/ f * 4 <= h
  BY <1>1
<1> QED
  BY <1>2, Zenon DEF f, h

LEMMA GivenIs ==
  ASSUME NEW by, NEW records, NEW missed, NEW sweep, given' = Give(by, records, missed, sweep), RecordsOfMap(records),
         Cardinality(missed) <= sweep.faults,
         by = "walk" => sweep.faults <= FewFaults \/ sweep.faults * 4 <= sweep.highest
  PROVE  GivenSafe'
<1>1. /\ given'.by = by /\ given'.map = gameMap /\ given'.records = records /\ given'.missed = missed
      /\ given'.faults = sweep.faults /\ given'.highest = sweep.highest
  BY DEF Give
<1>2. GivenOfThisMap'
  BY <1>1 DEF GivenOfThisMap, RecordsOfMap
<1>3. NobodyIsMissed'
  BY <1>1 DEF NobodyIsMissed
<1> QED
  BY <1>2, <1>3 DEF GivenSafe

LEMMA NotReady ==
  ASSUME LuaSafe, luaBatch' = [luaBatch EXCEPT !.ready = FALSE], UNCHANGED <<gameMap, m_mapName>>
  PROVE  LuaSafe'
<1>1. luaBatch'.entities = luaBatch.entities /\ luaBatch'.closed = luaBatch.closed /\ DOMAIN luaBatch' = DOMAIN luaBatch
  BY DEF LuaSafe
<1> QED
  BY <1>1 DEF LuaSafe

LEMMA GiveLuaKept ==
  ASSUME LuaSafe, GivenSafe, m_mapName # "", GiveLua, UNCHANGED <<gameMap, m_mapName>>
  PROVE  LuaSafe' /\ GivenSafe'
<1>1. CASE luaBatch.ready
  <2>1. luaBatch' = [luaBatch EXCEPT !.ready = FALSE] /\ given' = Give("lua", luaBatch.closed, {}, IdleSweep)
    BY <1>1, Zenon DEF GiveLua
  <2>2. RecordsOfMap(luaBatch.closed)
    BY DEF LuaSafe, RecordsOfMap
  <2>3. IdleSweep.faults = 0
    BY DEF IdleSweep
  <2>4. Cardinality({}) <= IdleSweep.faults
    <3>1. Cardinality({}) <= 0
      BY NothingMissed
    <3> QED
      BY <3>1, <2>3, Zenon
  <2>5. GivenSafe'
    BY <2>1, <2>2, <2>4, GivenIs
  <2>6. LuaSafe'
    BY <2>1, NotReady
  <2> QED
    BY <2>5, <2>6
<1>2. CASE ~luaBatch.ready
  <2>1. UNCHANGED <<luaBatch, given>>
    BY <1>2 DEF GiveLua
  <2> QED
    BY <2>1 DEF LuaSafe, GivenSafe, GivenOfThisMap, NobodyIsMissed
<1> QED
  BY <1>1, <1>2

LEMMA IdleIs == IdleSweep \in Sweeps /\ IdleSweep.active = FALSE /\ IdleSweep.next = 0 /\ IdleSweep.highest = 0
  BY WalkNumbers DEF IdleSweep, Sweeps

\* Without a sweep nothing is asked of it.
LEMMA NoSweep ==
  ASSUME m_sweep' = IdleSweep
  PROVE  m_sweep' \in Sweeps /\ SweepSafe'
<1>1. m_sweep' \in Sweeps /\ m_sweep'.active = FALSE /\ m_sweep'.next = 0 /\ m_sweep'.highest = 0
  BY IdleIs
<1> QED
  BY <1>1 DEF SweepSafe

LEMMA WalkSliceKept ==
  ASSUME WalkSafe, m_mapName # "", StateToWalk = "Validated", WalkSlice, UNCHANGED <<gameMap, list, layout, m_mapName>>
  PROVE  WalkSafe'
<1> DEFINE sweep == SweepToWalk
           during == During
<1>1. WalkTypeOK /\ SweepSafe /\ MapSafe /\ GivenSafe /\ LuaSafe
  BY DEF WalkSafe, MapSafe, LuaSafe
<1>2. Sweeping(sweep, during)
  BY SweptFrom
<1>3. gameMap = m_mapName
  BY <1>1, WalkedIsValid
<1>4. PICK last \in (sweep.next - 1)..Min({sweep.highest, sweep.next + SliceSize - 1}) :
        \E faulting \in SUBSET {i \in sweep.next..last : MayFault(i)} :
         LET after == SweepBy(sweep, last, faulting)
             complete == last = sweep.highest
             failed == complete /\ TooManyFaults(after)
         IN /\ m_walkState' = IF failed THEN "Failed" ELSE "Validated"
            /\ m_sweep' = IF complete THEN IdleSweep ELSE after
            /\ held' = IF complete THEN <<>> ELSE during
            /\ m_snapshotMap' = m_mapName
            /\ IF failed THEN GiveLua
               ELSE /\ luaBatch' = [luaBatch EXCEPT !.ready = FALSE]
                    /\ given' = IF complete
                                THEN Give("walk", after.pending, Missed(during, after.pending), after)
                                ELSE Give("slice", RecentFaults(sweep, last, faulting), {}, after)
  BY Zenon DEF WalkSlice, During
<1>5. PICK faulting \in SUBSET {i \in sweep.next..last : MayFault(i)} :
         LET after == SweepBy(sweep, last, faulting)
             complete == last = sweep.highest
             failed == complete /\ TooManyFaults(after)
         IN /\ m_walkState' = IF failed THEN "Failed" ELSE "Validated"
            /\ m_sweep' = IF complete THEN IdleSweep ELSE after
            /\ held' = IF complete THEN <<>> ELSE during
            /\ m_snapshotMap' = m_mapName
            /\ IF failed THEN GiveLua
               ELSE /\ luaBatch' = [luaBatch EXCEPT !.ready = FALSE]
                    /\ given' = IF complete
                                THEN Give("walk", after.pending, Missed(during, after.pending), after)
                                ELSE Give("slice", RecentFaults(sweep, last, faulting), {}, after)
  BY <1>4, Zenon
<1> DEFINE after == SweepBy(sweep, last, faulting)
<1>6. /\ SliceOK(sweep, after, during, last) /\ last \in Nat /\ last <= sweep.highest
      /\ RecordsOfMap(RecentFaults(sweep, last, faulting))
  <2> HIDE DEF sweep, during
  <2> QED
    BY <1>2, SweptTo
<1>7. /\ m_walkState' = IF last = sweep.highest /\ TooManyFaults(after) THEN "Failed" ELSE "Validated"
      /\ m_sweep' = IF last = sweep.highest THEN IdleSweep ELSE after
      /\ held' = IF last = sweep.highest THEN <<>> ELSE during
      /\ m_snapshotMap' = m_mapName
      /\ IF last = sweep.highest /\ TooManyFaults(after) THEN GiveLua
         ELSE /\ luaBatch' = [luaBatch EXCEPT !.ready = FALSE]
              /\ given' = IF last = sweep.highest
                          THEN Give("walk", after.pending, Missed(during, after.pending), after)
                          ELSE Give("slice", RecentFaults(sweep, last, faulting), {}, after)
  BY <1>5, Zenon
<1> HIDE DEF sweep, during, after
<1>8. /\ after \in Sweeps /\ after.next = last + 1 /\ after.highest = sweep.highest /\ after.active
      /\ RecordsOfMap(after.pending) /\ Cardinality(Gone(during, last + 1, after.pending)) <= after.faults
  BY <1>2, <1>6 DEF SliceOK, Sweeping
<1>9. sweep.highest \in Nat /\ after.faults \in Nat /\ after.highest \in Nat /\ FewFaults \in Nat
  <2>1. sweep.highest \in 0 .. LastIndex /\ after.faults \in Nat
    BY <1>2, <1>8 DEF Sweeping, Sweeps
  <2>2. sweep.highest \in Nat
    BY <2>1, HighestIsNumber
  <2> QED
    BY <2>1, <2>2, <1>8, WalkNumbers
<1>10. DOMAIN during = Indexes /\ \A i \in Indexes : IsFiniteSet(during[i]) /\ list[i] \in during[i] /\ (i > sweep.highest => "none" \in during[i])
  BY <1>2 DEF Sweeping
<1>11. m_walkState' \in {"Uninitialized", "Unvalidated", "Validated", "Failed"}
  BY <1>7
<1>12. MapSafe' /\ GivenSafe' /\ m_sweep' \in Sweeps /\ SweepSafe'
  <2>1. CASE last = sweep.highest /\ TooManyFaults(after)
    <3>1. GiveLua /\ m_sweep' = IdleSweep /\ m_walkState' = "Failed"
      BY <2>1, <1>7, Zenon
    <3>2. LuaSafe' /\ GivenSafe'
      BY <3>1, <1>1, GiveLuaKept
    <3>3. m_sweep' \in Sweeps /\ SweepSafe'
      BY <3>1, NoSweep
    <3> QED
      BY <3>1, <3>2, <3>3 DEF MapSafe, LuaSafe
  <2>2. CASE last = sweep.highest /\ ~TooManyFaults(after)
    <3>1. /\ m_sweep' = IdleSweep /\ m_walkState' = "Validated" /\ luaBatch' = [luaBatch EXCEPT !.ready = FALSE]
          /\ given' = Give("walk", after.pending, Missed(during, after.pending), after)
      BY <2>2, <1>7, Zenon
    <3>2. LuaSafe'
      BY <3>1, <1>1, NotReady
    <3>3. m_sweep' \in Sweeps /\ SweepSafe'
      BY <3>1, NoSweep
    <3>4. after.faults <= FewFaults \/ after.faults * 4 <= after.highest
      BY <2>2, <1>9, FewFaulted
    <3>5. Cardinality(Missed(during, after.pending)) <= after.faults
      <4> DEFINE a == Missed(during, after.pending)
                 b == Gone(during, sweep.highest + 1, after.pending)
      <4>1. a \subseteq b
        BY <1>2, MissedIs
      <4>2. IsFiniteSet(Indexes) /\ b \subseteq Indexes
        BY FiniteIndexes DEF Gone
      <4>3. Cardinality(b) <= after.faults
        BY <2>2, <1>8
      <4> HIDE DEF a, b
      <4>4. IsFiniteSet(b)
        BY <4>2, FS_Subset
      <4>5. Cardinality(a) <= after.faults
        BY <4>1, <4>3, <4>4, <1>9, AtMost
      <4> QED
        BY <4>5, Zenon DEF a
    <3>6. GivenSafe'
      BY <3>1, <3>4, <3>5, <1>8, GivenIs
    <3> QED
      BY <3>1, <3>2, <3>3, <3>6, <1>3, <1>7 DEF MapSafe, LuaSafe
  <2>3. CASE last # sweep.highest
    <3>1. /\ m_sweep' = after /\ m_walkState' = "Validated" /\ luaBatch' = [luaBatch EXCEPT !.ready = FALSE] /\ held' = during
          /\ given' = Give("slice", RecentFaults(sweep, last, faulting), {}, after)
      BY <2>3, <1>7, Zenon
    <3>2. LuaSafe'
      BY <3>1, <1>1, NotReady
    <3>3. Cardinality({}) <= after.faults
      BY <1>9, NothingMissed
    <3>4. GivenSafe'
      BY <3>1, <3>3, <1>6, GivenIs
    <3>5. SweepSafe'
      <4>1. m_sweep'.next <= m_sweep'.highest + 1 /\ m_sweep'.next > 0
        <5>1. last + 1 <= sweep.highest + 1 /\ last + 1 > 0
          BY <1>6, <1>9, OneMore
        <5> QED
          BY <5>1, <3>1, <1>8
      <4>2. SeenOK'
        BY <3>1, <1>8, <1>10 DEF SeenOK
      <4>3. Gone(during, m_sweep'.next, m_sweep'.pending) = Gone(held, m_sweep.next, m_sweep.pending)'
        BY <3>1 DEF Gone
      <4>4. Cardinality(Gone(held, m_sweep.next, m_sweep.pending)') <= m_sweep'.faults
        BY <4>3, <3>1, <1>8
      <4>5. \A r \in m_sweep'.pending : r.map = gameMap'
        BY <3>1, <1>8 DEF RecordsOfMap
      <4> QED
        BY <4>1, <4>2, <4>4, <4>5, <3>1, Zenon DEF SweepSafe
    <3> QED
      BY <3>1, <3>2, <3>4, <3>5, <1>3, <1>7, <1>8 DEF MapSafe, LuaSafe
  <2> QED
    BY <2>1, <2>2, <2>3
<1>13. WalkTypeOK'
  BY <1>1, <1>11, <1>12 DEF WalkTypeOK
<1> QED
  BY <1>12, <1>13 DEF WalkSafe

LEMMA WalkStart == WalkInit => WalkSafe
<1> SUFFICES ASSUME WalkInit PROVE WalkSafe
  OBVIOUS
<1>1. /\ gameMap \in WalkMaps /\ list = [i \in Indexes |-> "none"] /\ m_walkState = "Uninitialized" /\ m_sweep = IdleSweep
      /\ m_mapName = "" /\ luaBatch = NoBatch /\ given = NothingGiven
  BY DEF WalkInit
<1>2. m_sweep \in Sweeps /\ m_sweep.active = FALSE /\ m_sweep.next = 0 /\ m_sweep.highest = 0
  BY <1>1, IdleIs
<1>3. WalkTypeOK
  BY <1>1, <1>2 DEF WalkTypeOK, Things
<1>4. SweepSafe
  BY <1>2 DEF SweepSafe
<1>5. MapSafe
  BY <1>1 DEF MapSafe, NoBatch
<1>6. GivenSafe
  <2>1. given.by = "none" /\ given.records = {} /\ given.missed = {} /\ given.faults = 0
    BY <1>1 DEF NothingGiven
  <2>2. Cardinality({}) <= 0
    BY NothingMissed
  <2> QED
    BY <2>1, <2>2 DEF GivenSafe, GivenOfThisMap, NobodyIsMissed
<1> QED
  BY <1>3, <1>4, <1>5, <1>6 DEF WalkSafe

LEMMA WalkSafeIsEnough == WalkSafe => WalkInv
<1> SUFFICES ASSUME WalkSafe PROVE WalkInv
  OBVIOUS
<1>1. WalkTypeOK /\ SweepSafe /\ MapSafe /\ GivenSafe
  BY DEF WalkSafe
<1>2. m_sweep.highest <= LastIndex
  <2>1. m_sweep.highest \in 0 .. LastIndex
    BY <1>1 DEF WalkTypeOK, Sweeps
  <2> QED
    BY <2>1, WalkNumbers
<1>3. SweepIsOfThisMap
  BY <1>1 DEF SweepIsOfThisMap, SweepSafe, MapSafe
<1> QED
  BY <1>1, <1>2, <1>3 DEF WalkInv, WalkTypeOK, SweepSafe, GivenSafe

\* What the state may be after a test that did not lead on to a slice.
LEMMA StateIs ==
  ASSUME m_walkState \in {"Uninitialized", "Unvalidated", "Validated", "Failed"}
  PROVE  StateToWalk \in {"Uninitialized", "Unvalidated", "Validated", "Failed"}
<1> DEFINE state == IF m_snapshotMap # m_mapName THEN Invalidated ELSE m_walkState
<1>1. state \in {"Uninitialized", "Unvalidated", "Validated", "Failed"}
  BY DEF Invalidated
<1>2. state # "Unvalidated" => StateToWalk = state
  BY DEF StateToWalk
<1>3. state = "Unvalidated" => StateToWalk \in {"Validated", "Unvalidated", "Failed"}
  BY DEF StateToWalk
<1> QED
  BY <1>1, <1>2, <1>3

LEMMA UpdateFromWalkKept == ASSUME WalkSafe, NEW nativeWanted \in BOOLEAN, UpdateFromWalk(nativeWanted) PROVE WalkSafe'
<1> DEFINE available == nativeWanted /\ m_walkState \notin {"Failed", "Uninitialized"}
<1>1. m_mapName # "" /\ UNCHANGED <<gameMap, list, layout, m_mapName>>
  BY DEF UpdateFromWalk
<1>2. CASE available /\ StateToWalk = "Validated"
  <2>1. WalkSlice
    BY <1>2, Zenon DEF UpdateFromWalk
  <2> QED
    BY <2>1, <1>1, <1>2, WalkSliceKept
<1>3. CASE ~(available /\ StateToWalk = "Validated")
  <2>1. /\ m_walkState' = IF available THEN StateToWalk ELSE m_walkState
        /\ m_snapshotMap' = IF available THEN m_mapName ELSE m_snapshotMap
        /\ m_sweep' = IdleSweep /\ GiveLua
    BY <1>3, Zenon DEF UpdateFromWalk
  <2>2. WalkTypeOK /\ MapSafe /\ GivenSafe /\ LuaSafe
    BY DEF WalkSafe, MapSafe, LuaSafe
  <2>3. LuaSafe' /\ GivenSafe'
    BY <2>1, <2>2, <1>1, GiveLuaKept
  <2>4. m_sweep' \in Sweeps /\ SweepSafe'
    BY <2>1, NoSweep
  <2>5. m_walkState' \in {"Uninitialized", "Unvalidated", "Validated", "Failed"}
    BY <2>1, <2>2, StateIs DEF WalkTypeOK
  <2>6. m_walkState' = "Validated" => m_walkState = "Validated" /\ m_snapshotMap' = m_snapshotMap
    BY <1>3, <2>1
  <2>7. MapSafe'
    BY <2>2, <2>3, <2>6, <1>1 DEF MapSafe, LuaSafe
  <2>8. WalkTypeOK'
    BY <2>2, <2>4, <2>5, <1>1 DEF WalkTypeOK
  <2> QED
    BY <2>3, <2>4, <2>7, <2>8 DEF WalkSafe
<1> QED
  BY <1>2, <1>3

\* The sweep and what is seen since it began stay.
LEMMA SweepStays ==
  ASSUME SweepSafe, UNCHANGED <<list, gameMap, m_walkState, m_sweep, held>>
  PROVE  SweepSafe'
<1>1. Gone(held, m_sweep.next, m_sweep.pending)' = Gone(held, m_sweep.next, m_sweep.pending)
  BY DEF Gone
<1>2. SeenOK => SeenOK'
  BY DEF SeenOK
<1> QED
  BY <1>1, <1>2 DEF SweepSafe

LEMMA GivenStays == ASSUME GivenSafe, UNCHANGED given PROVE GivenSafe'
  BY DEF GivenSafe, GivenOfThisMap, NobodyIsMissed

LEMMA UpdateWithNothingWantedKept == ASSUME WalkSafe, UpdateWithNothingWanted PROVE WalkSafe'
<1>1. /\ m_sweep' = IdleSweep /\ luaBatch' = [luaBatch EXCEPT !.ready = FALSE]
      /\ UNCHANGED <<gameMap, list, m_walkState, m_snapshotMap, m_mapName, given>>
  BY DEF UpdateWithNothingWanted
<1>2. WalkTypeOK /\ MapSafe /\ GivenSafe /\ LuaSafe
  BY DEF WalkSafe, MapSafe, LuaSafe
<1>3. LuaSafe'
  BY <1>1, <1>2, NotReady
<1>4. m_sweep' \in Sweeps /\ SweepSafe'
  BY <1>1, NoSweep
<1>5. GivenSafe'
  BY <1>1, <1>2, GivenStays
<1>6. WalkTypeOK' /\ MapSafe'
  BY <1>1, <1>2, <1>3, <1>4 DEF WalkTypeOK, MapSafe, LuaSafe
<1> QED
  BY <1>4, <1>5, <1>6 DEF WalkSafe

\* Lua's batch changes, of entities of the map that runs.
LEMMA LuaChanges ==
  ASSUME WalkSafe, UNCHANGED <<gameMap, list, m_walkState, m_snapshotMap, m_sweep, m_mapName, given, held>>,
         DOMAIN luaBatch' = {"open", "entities", "ready", "closed"},
         \A r \in luaBatch'.entities \union luaBatch'.closed : r \in luaBatch.entities \union luaBatch.closed \/ r.map = gameMap
  PROVE  WalkSafe'
<1>1. SweepSafe' /\ GivenSafe'
  BY SweepStays, GivenStays DEF WalkSafe
<1>2. WalkTypeOK' /\ MapSafe'
  BY DEF WalkSafe, WalkTypeOK, MapSafe
<1> QED
  BY <1>1, <1>2 DEF WalkSafe

LEMMA LuaKept ==
  ASSUME WalkSafe, BeginLuaEntities \/ EndLuaEntities \/ \E i \in Indexes : PushLuaEntity(i)
  PROVE  WalkSafe'
<1>1. DOMAIN luaBatch = {"open", "entities", "ready", "closed"}
  BY DEF WalkSafe, MapSafe
<1>2. CASE BeginLuaEntities
  <2>1. /\ luaBatch' = [luaBatch EXCEPT !.open = TRUE, !.entities = {}]
        /\ UNCHANGED <<gameMap, list, m_walkState, m_snapshotMap, m_sweep, m_mapName, given, held>>
    BY <1>2 DEF BeginLuaEntities
  <2>2. DOMAIN luaBatch' = {"open", "entities", "ready", "closed"} /\ luaBatch'.entities = {} /\ luaBatch'.closed = luaBatch.closed
    BY <2>1, <1>1
  <2> QED
    BY <2>1, <2>2, LuaChanges
<1>3. CASE EndLuaEntities
  <2>1. /\ luaBatch' = [open |-> FALSE, entities |-> {}, ready |-> TRUE, closed |-> luaBatch.entities]
        /\ UNCHANGED <<gameMap, list, m_walkState, m_snapshotMap, m_sweep, m_mapName, given, held>>
    BY <1>3 DEF EndLuaEntities
  <2>2. DOMAIN luaBatch' = {"open", "entities", "ready", "closed"} /\ luaBatch'.entities = {} /\ luaBatch'.closed = luaBatch.entities
    BY <2>1
  <2> QED
    BY <2>1, <2>2, LuaChanges
<1>4. ASSUME NEW i \in Indexes, PushLuaEntity(i) PROVE WalkSafe'
  <2> DEFINE more == luaBatch.entities \cup {Record(i)}
  <2>1. /\ luaBatch' = [luaBatch EXCEPT !.entities = more]
        /\ UNCHANGED <<gameMap, list, m_walkState, m_snapshotMap, m_sweep, m_mapName, given, held>>
    BY <1>4 DEF PushLuaEntity
  <2>2. Record(i).map = gameMap
    BY DEF Record
  <2>3. \A r \in more : r \in luaBatch.entities \/ r.map = gameMap
    BY <2>2
  <2> HIDE DEF more
  <2>4. DOMAIN luaBatch' = {"open", "entities", "ready", "closed"} /\ luaBatch'.entities = more /\ luaBatch'.closed = luaBatch.closed
    BY <2>1, <1>1
  <2> QED
    BY <2>1, <2>3, <2>4, LuaChanges
<1> QED
  BY <1>2, <1>3, <1>4

\* What an index held when something else came to it is no longer what it held all along.
LEMMA EntityChangesKept ==
  ASSUME WalkSafe, NEW i \in Indexes, NEW being \in Things, EntityChanges(i, being)
  PROVE  WalkSafe'
<1>1. /\ (being = "none") # (list[i] = "none") /\ list' = [list EXCEPT ![i] = being]
      /\ held' = IF i \in DOMAIN held THEN [held EXCEPT ![i] = held[i] \cup {being}] ELSE held
      /\ UNCHANGED <<gameMap, m_walkState, m_snapshotMap, m_sweep, m_mapName, luaBatch, given>>
  BY DEF EntityChanges
<1>2. WalkTypeOK /\ SweepSafe /\ MapSafe /\ GivenSafe
  BY DEF WalkSafe
<1>3. list \in [Indexes -> Things] /\ list' \in [Indexes -> Things]
  BY <1>1, <1>2 DEF WalkTypeOK
<1>4. GivenSafe' /\ MapSafe'
  BY <1>1, <1>2, GivenStays DEF MapSafe
<1>5. WalkTypeOK'
  BY <1>1, <1>2, <1>3 DEF WalkTypeOK
<1>6. ASSUME m_sweep.active
      PROVE  /\ SeenOK'
             /\ Cardinality(Gone(held, m_sweep.next, m_sweep.pending)') <= m_sweep.faults
  <2>1. /\ DOMAIN held = Indexes
        /\ \A k \in Indexes : IsFiniteSet(held[k]) /\ list[k] \in held[k] /\ (k > m_sweep.highest => "none" \in held[k])
    BY <1>2, <1>6 DEF SweepSafe, SeenOK
  <2>2. DOMAIN held' = Indexes /\ held'[i] = held[i] \cup {being} /\ \A k \in Indexes \ {i} : held'[k] = held[k] /\ list'[k] = list[k]
    BY <2>1, <1>1, <1>3
  <2>3. list'[i] = being
    BY <1>1, <1>3
  <2>4. IsFiniteSet(held'[i])
    BY <2>1, <2>2, FS_AddElement
  <2>5. ASSUME NEW k \in Indexes
        PROVE  IsFiniteSet(held'[k]) /\ list'[k] \in held'[k] /\ (k > m_sweep.highest => "none" \in held'[k])
    BY <2>1, <2>2, <2>3, <2>4
  <2>6. SeenOK'
    BY <2>2, <2>5, <1>1 DEF SeenOK
  <2>7. ~Always(held'[i])
    <3>1. list[i] \in held'[i] /\ being \in held'[i] /\ being # list[i]
      BY <2>1, <2>2, <1>1
    <3> QED
      BY <3>1, <2>4, AlwaysIs
  <2> DEFINE a == Gone(held', m_sweep.next, m_sweep.pending)
             b == Gone(held, m_sweep.next, m_sweep.pending)
  <2>8. a \subseteq b
    BY <2>2, <2>7 DEF Gone
  <2>9. b \subseteq Indexes
    BY DEF Gone
  <2>10. Cardinality(b) <= m_sweep.faults /\ m_sweep.faults \in Nat
    BY <1>2, <1>6 DEF SweepSafe, WalkTypeOK, Sweeps
  <2>11. a = Gone(held, m_sweep.next, m_sweep.pending)'
    BY <1>1 DEF Gone
  <2> HIDE DEF a, b
  <2>12. IsFiniteSet(b)
    BY <2>9, FiniteIndexes, FS_Subset
  <2>13. Cardinality(a) <= m_sweep.faults
    BY <2>8, <2>10, <2>12, AtMost
  <2> QED
    BY <2>6, <2>11, <2>13
<1>7. SweepSafe'
  <2>1. m_sweep'.active => m_walkState' = "Validated" /\ m_sweep'.next > 0 /\ \A r \in m_sweep'.pending : r.map = gameMap'
    BY <1>1, <1>2 DEF SweepSafe
  <2>2. m_sweep'.next <= m_sweep'.highest + 1
    BY <1>1, <1>2 DEF SweepSafe
  <2>3. m_sweep'.active => SeenOK' /\ Cardinality(Gone(held, m_sweep.next, m_sweep.pending)') <= m_sweep'.faults
    BY <1>1, <1>6
  <2> QED
    BY <2>1, <2>2, <2>3, Zenon DEF SweepSafe
<1> QED
  BY <1>4, <1>5, <1>7 DEF WalkSafe

LEMMA LevelChangesKept == ASSUME WalkSafe, NEW map \in WalkMaps, LevelChanges(map) PROVE WalkSafe'
<1>1. /\ m_mapName = "" /\ gameMap' = map /\ list' = [i \in Indexes |-> "none"]
      /\ UNCHANGED <<m_walkState, m_snapshotMap, m_sweep, m_mapName, luaBatch, given, held>>
  BY DEF LevelChanges
<1>2. WalkTypeOK /\ SweepSafe /\ MapSafe /\ GivenSafe
  BY DEF WalkSafe
<1>3. m_walkState # "Validated" /\ ~m_sweep.active
  BY <1>1, <1>2 DEF MapSafe, SweepSafe
<1>4. SweepSafe'
  BY <1>1, <1>2, <1>3 DEF SweepSafe
<1>5. WalkTypeOK' /\ MapSafe'
  BY <1>1, <1>2, <1>3 DEF WalkTypeOK, MapSafe, Things
<1>6. GivenSafe'
  BY <1>1, <1>2, GivenStays
<1> QED
  BY <1>4, <1>5, <1>6 DEF WalkSafe

LEMMA MapIsKept == ASSUME WalkSafe, NEW name \in WalkMaps \union {""}, MapIs(name) PROVE WalkSafe'
<1>1. /\ m_mapName' = name /\ m_walkState' = Invalidated /\ m_sweep' = IdleSweep /\ luaBatch' = NoBatch
      /\ given' = NothingGiven /\ UNCHANGED <<gameMap, list>>
  BY DEF MapIs, SweepAfterInvalidate, LuaAfterReset
<1>2. WalkTypeOK
  BY DEF WalkSafe
<1>3. m_sweep' \in Sweeps /\ SweepSafe'
  BY <1>1, NoSweep
<1>4. m_walkState' \in {"Uninitialized", "Unvalidated", "Failed"}
  BY <1>1, <1>2 DEF WalkTypeOK, Invalidated
<1>5. MapSafe'
  BY <1>1, <1>4 DEF MapSafe, NoBatch
<1>6. GivenSafe'
  <2>1. given'.by = "none" /\ given'.records = {} /\ given'.missed = {} /\ given'.faults = 0
    BY <1>1 DEF NothingGiven
  <2>2. Cardinality({}) <= 0
    BY NothingMissed
  <2> QED
    BY <2>1, <2>2 DEF GivenSafe, GivenOfThisMap, NobodyIsMissed
<1>7. WalkTypeOK'
  BY <1>1, <1>2, <1>3, <1>4 DEF WalkTypeOK
<1> QED
  BY <1>3, <1>5, <1>6, <1>7 DEF WalkSafe

\* The list goes or comes, without a sweep.
LEMMA ListKept ==
  ASSUME WalkSafe, ShutdownList \/ \E resolved \in BOOLEAN : InitializeList(resolved)
  PROVE  WalkSafe'
<1>1. /\ m_walkState' \in {"Uninitialized", "Unvalidated", "Failed"} /\ m_sweep' = IdleSweep
      /\ UNCHANGED <<gameMap, list, m_mapName, luaBatch, given>>
  BY DEF ShutdownList, InitializeList
<1>2. WalkTypeOK /\ MapSafe /\ GivenSafe
  BY DEF WalkSafe
<1>3. m_sweep' \in Sweeps /\ SweepSafe'
  BY <1>1, NoSweep
<1>4. MapSafe' /\ WalkTypeOK'
  BY <1>1, <1>2, <1>3 DEF MapSafe, WalkTypeOK
<1>5. GivenSafe'
  BY <1>1, <1>2, GivenStays
<1> QED
  BY <1>3, <1>4, <1>5 DEF WalkSafe

LEMMA WalkStep == WalkSafe /\ [WalkNext]_walkVars => WalkSafe'
<1> SUFFICES ASSUME WalkSafe, [WalkNext]_walkVars PROVE WalkSafe'
  OBVIOUS
<1>1. ASSUME NEW nativeWanted \in BOOLEAN, UpdateFromWalk(nativeWanted) PROVE WalkSafe'
  BY <1>1, UpdateFromWalkKept
<1>2. CASE UpdateWithNothingWanted
  BY <1>2, UpdateWithNothingWantedKept
<1>3. CASE BeginLuaEntities \/ EndLuaEntities \/ \E i \in Indexes : PushLuaEntity(i)
  BY <1>3, LuaKept
<1>4. ASSUME NEW i \in Indexes, NEW being \in Beings \cup {"none"}, EntityChanges(i, being) PROVE WalkSafe'
  BY <1>4, EntityChangesKept DEF Things
<1>5. ASSUME NEW map \in WalkMaps, LevelChanges(map) \/ MapIs(map) PROVE WalkSafe'
  BY <1>5, LevelChangesKept, MapIsKept
<1>6. CASE MapIs("")
  BY <1>6, MapIsKept
<1>7. CASE ShutdownList \/ \E resolved \in BOOLEAN : InitializeList(resolved)
  BY <1>7, ListKept
<1>8. CASE UNCHANGED walkVars
  <2>1. UNCHANGED <<gameMap, list, layout, m_walkState, m_snapshotMap, m_sweep, m_mapName, luaBatch, given, held>>
    BY <1>8 DEF walkVars
  <2>2. SweepSafe' /\ GivenSafe'
    BY <2>1, SweepStays, GivenStays DEF WalkSafe
  <2>3. WalkTypeOK' /\ MapSafe'
    BY <2>1 DEF WalkSafe, WalkTypeOK, MapSafe
  <2> QED
    BY <2>2, <2>3 DEF WalkSafe
<1> QED
  BY <1>1, <1>2, <1>3, <1>4, <1>5, <1>6, <1>7, <1>8 DEF WalkNext, Happens

\* The entities an update is given are those of the map that runs, and a complete
\* walk leaves out no entity that was there all along but the few that faulted.
THEOREM WalkSafety == WalkSpec => []WalkInv
<1>1. WalkInit => WalkSafe
  BY WalkStart
<1>2. WalkSafe /\ [WalkNext]_walkVars => WalkSafe'
  BY WalkStep
<1>3. WalkSafe => WalkInv
  BY WalkSafeIsEnough
<1> QED
  BY <1>1, <1>2, <1>3, PTL DEF WalkSpec

-----------------------------------------------------------------------------
(* The files of the game                                                     *)

Wider(d, w) == IF 4 * w < d.size THEN 4 * w ELSE d.size
Narrowest(d) == IF FirstWindow < d.size THEN FirstWindow ELSE d.size
WindowNext(f, d, w) ==
  LET r == Parsed(d, w) IN IF r # "more" \/ w >= d.size \/ w >= MaxIndex THEN r ELSE f[Wider(d, w)]
IsWindows(f, d) == f = [w \in 1 .. d.size |-> WindowNext(f, d, w)]
Windows(d) == CHOOSE f : IsWindows(f, d)
ArchiveFiles == [files : SUBSET Files, index : Nat, size : Nat, version : Nat]
Holds(d) == d.index + Cardinality(d.files) <= d.size

LEMMA FileNumbers == IsFiniteSet(Files) /\ Archives \in Seq(Nat) /\ FirstWindow \in Nat /\ FirstWindow > 0 /\ MaxIndex \in Nat
BY FilesAssumption

LEMMA OpensIs == ASSUME NEW d PROVE Opens(d) <=> d.size > 0 /\ Windows(d)[Narrowest(d)] = "ok"
BY Zenon DEF Opens, Windows, IsWindows, WindowNext, Wider, Narrowest

LEMMA FilesCounted == ASSUME NEW d \in ArchiveFiles PROVE Cardinality(d.files) \in Nat /\ d.index \in Nat /\ d.size \in Nat
<1>1. d.files \in SUBSET Files /\ d.index \in Nat /\ d.size \in Nat
  BY DEF ArchiveFiles
<1>2. IsFiniteSet(d.files)
  BY <1>1, FileNumbers, FS_Subset
<1> QED
  BY <1>1, <1>2, FS_CardinalityType

LEMMA ParsedIs ==
  ASSUME NEW d \in ArchiveFiles, NEW w \in Nat
  PROVE  /\ w < d.index => Parsed(d, w) = "more"
         /\ ~(w < d.index) /\ Holds(d) => Parsed(d, w) = "ok"
         /\ Parsed(d, w) = "ok" => ~(d.index + Cardinality(d.files) > d.size)
<1> DEFINE more == w < d.index
           bad == w >= d.index /\ d.index + Cardinality(d.files) > d.size
<1>1. Parsed(d, w) = CASE more -> "more" [] bad -> "bad" [] OTHER -> "ok"
  BY Zenon DEF Parsed
<1>2. ~(more /\ bad) /\ (~more /\ Holds(d) => ~bad) /\ (~more /\ ~bad => ~(d.index + Cardinality(d.files) > d.size))
  BY FilesCounted DEF Holds
<1>3. more <=> w < d.index
  OBVIOUS
<1> HIDE DEF more, bad
<1> QED
  BY <1>1, <1>2, <1>3

LEMMA WindowsAre ==
  ASSUME NEW d \in ArchiveFiles, d.size > 0
  PROVE  \A w \in 1 .. d.size : Windows(d)[w] = WindowNext(Windows(d), d, w)
<1> DEFINE n == d.size
           Is(f, k) == f = [w \in 1 .. n |-> f[w]] /\ \A w \in n - k .. n : w > 0 => f[w] = WindowNext(f, d, w)
           T == {k \in 0 .. n : \E f : Is(f, k)}
<1>1. n \in Nat /\ n > 0
  BY DEF ArchiveFiles
<1>2. ASSUME NEW f, NEW g, NEW w \in 1 .. n, \A other \in w + 1 .. n : f[other] = g[other]
      PROVE  WindowNext(f, d, w) = WindowNext(g, d, w)
  <2>1. CASE w >= n
    BY <2>1 DEF WindowNext
  <2>2. CASE ~(w >= n)
    <3>1. Wider(d, w) \in w + 1 .. n
      <4>1. Wider(d, w) = IF 4 * w < n THEN 4 * w ELSE n
        BY DEF Wider
      <4> HIDE DEF n
      <4> QED
        BY <4>1, <2>2, <1>1
    <3>2. f[Wider(d, w)] = g[Wider(d, w)]
      BY <1>2, <3>1
    <3> QED
      BY <3>2 DEF WindowNext
  <2> QED
    BY <2>1, <2>2
<1> HIDE DEF n
<1>3. 0 \in T
  <2> DEFINE f == [w \in 1 .. n |-> Parsed(d, n)]
  <2>1. f = [w \in 1 .. n |-> f[w]] /\ f[n] = Parsed(d, n)
    BY <1>1
  <2> HIDE DEF f
  <2>2. WindowNext(f, d, n) = Parsed(d, n)
    BY <1>1 DEF WindowNext, n
  <2>3. \A w \in n - 0 .. n : w = n
    BY <1>1
  <2>4. Is(f, 0)
    BY <2>1, <2>2, <2>3
  <2> QED
    BY <1>1, <2>4
<1>4. ASSUME NEW k \in 1 .. n, k - 1 \in T PROVE k \in T
  <2>1. PICK g : Is(g, k - 1)
    BY <1>4
  <2> DEFINE p == n - k
             h == [w \in 1 .. n |-> IF w = p THEN WindowNext(g, d, p) ELSE g[w]]
  <2>2. p \in 0 .. n - 1 /\ n - (k - 1) = p + 1
    BY <1>1
  <2>3. \A w \in 1 .. n : h[w] = IF w = p THEN WindowNext(g, d, p) ELSE g[w]
    OBVIOUS
  <2>4. h = [w \in 1 .. n |-> h[w]]
    OBVIOUS
  <2> HIDE DEF h, p
  <2>5. ASSUME NEW w \in p .. n, w > 0 PROVE h[w] = WindowNext(h, d, w)
    <3>1. w \in 1 .. n /\ \A other \in w + 1 .. n : other \in 1 .. n /\ other # p
      BY <1>1, <2>2, <2>5
    <3>2. \A other \in w + 1 .. n : g[other] = h[other]
      BY <2>3, <3>1
    <3>3. WindowNext(g, d, w) = WindowNext(h, d, w)
      BY <1>2, <3>1, <3>2
    <3>4. CASE w = p
      BY <3>4, <2>3, <3>1, <3>3
    <3>5. CASE w # p
      <4>1. w \in p + 1 .. n
        BY <3>5, <1>1, <2>2
      <4>2. g[w] = WindowNext(g, d, w)
        BY <4>1, <2>1, <2>2, <2>5
      <4> QED
        BY <3>5, <4>2, <2>3, <3>1, <3>3
    <3> QED
      BY <3>4, <3>5
  <2>6. Is(h, k)
    BY <2>4, <2>5 DEF p
  <2> HIDE DEF Is
  <2> QED
    BY <2>6
<1>5. PICK f : Is(f, n)
  <2> HIDE DEF T
  <2>1. 0 .. n \subseteq T
    BY <1>1, <1>3, <1>4, UpTo
  <2>2. n \in T
    BY <1>1, <2>1
  <2> QED
    BY <2>2 DEF T
<1>6. f = [w \in 1 .. n |-> f[w]] /\ \A w \in n - n .. n : w > 0 => f[w] = WindowNext(f, d, w)
  BY <1>5
<1>7. \A w \in 1 .. n : f[w] = WindowNext(f, d, w)
  <2>1. \A w \in 1 .. n : w \in n - n .. n /\ w > 0
    BY <1>1
  <2> QED
    BY <1>6, <2>1
<1>8. f = [w \in 1 .. n |-> WindowNext(f, d, w)]
  BY <1>6, <1>7
<1>9. IsWindows(f, d)
  BY <1>8 DEF IsWindows, n
<1>10. IsWindows(Windows(d), d)
  BY <1>9, Zenon DEF Windows
<1> DEFINE g == Windows(d)
<1>11. g = [w \in 1 .. n |-> WindowNext(g, d, w)]
  BY <1>10 DEF IsWindows, n
<1> HIDE DEF g
<1>12. \A w \in 1 .. n : g[w] = WindowNext(g, d, w)
  BY <1>11
<1> QED
  BY <1>12 DEF g, n

\* An archive opens exactly when it is whole, however its index is read.
LEMMA OpensWhole ==
  ASSUME NEW d \in ArchiveFiles
  PROVE  /\ Opens(d) => d.size > 0 /\ Holds(d)
         /\ d.size > 0 /\ Holds(d) /\ d.index <= MaxIndex => Opens(d)
<1> DEFINE n == d.size
           f == Windows(d)
           Good(w) == (f[w] = "ok" => Holds(d)) /\ (Holds(d) /\ d.index <= MaxIndex => f[w] = "ok")
           T == {k \in 0 .. n : \A w \in n - k .. n : w > 0 => Good(w)}
<1>1. n \in Nat /\ d.index \in Nat /\ Cardinality(d.files) \in Nat
  BY FilesCounted
<1>2. ASSUME n > 0, NEW w \in 1 .. n, \A other \in w + 1 .. n : Good(other) PROVE Good(w)
  <2>1. f[w] = WindowNext(f, d, w)
    BY <1>2, WindowsAre
  <2> DEFINE r == Parsed(d, w)
  <2>2. f[w] = IF r # "more" \/ w >= n \/ w >= MaxIndex THEN r ELSE f[Wider(d, w)]
    BY <2>1, Zenon DEF WindowNext
  <2>3. /\ r = "ok" => Holds(d)
        /\ w < d.index => r = "more"
        /\ ~(w < d.index) /\ Holds(d) => r = "ok"
    <3>1. /\ w < d.index => r = "more"
          /\ ~(w < d.index) /\ Holds(d) => r = "ok"
          /\ r = "ok" => ~(d.index + Cardinality(d.files) > n)
      BY ParsedIs
    <3>2. ~(d.index + Cardinality(d.files) > n) => Holds(d)
      BY <1>1 DEF Holds
    <3> QED
      BY <3>1, <3>2
  <2>4. Wider(d, w) \in w + 1 .. n \/ w >= n
    <3>1. Wider(d, w) = IF 4 * w < n THEN 4 * w ELSE n
      BY DEF Wider
    <3> HIDE DEF n
    <3> QED
      BY <1>1, <3>1
  <2> HIDE DEF f, r
  <2>5. CASE r # "more" \/ w >= n \/ w >= MaxIndex
    <3>1. f[w] = r
      BY <2>2, <2>5
    <3>2. Holds(d) /\ d.index <= MaxIndex => ~(w < d.index)
      <4>1. ASSUME Holds(d), d.index <= MaxIndex, w < d.index PROVE FALSE
        <5>1. w >= n \/ w >= MaxIndex
          BY <2>3, <2>5, <4>1
        <5>2. d.index <= n
          BY <1>1, <4>1 DEF Holds
        <5> QED
          BY <1>1, <4>1, <5>1, <5>2, FileNumbers
      <4> QED
        BY <4>1
    <3> QED
      BY <2>3, <3>1, <3>2
  <2>6. CASE ~(r # "more" \/ w >= n \/ w >= MaxIndex)
    <3>1. f[w] = f[Wider(d, w)]
      BY <2>2, <2>6
    <3>2. Good(Wider(d, w))
      BY <1>2, <2>4, <2>6
    <3> QED
      BY <3>1, <3>2
  <2> QED
    BY <2>5, <2>6
<1> HIDE DEF f, Good, n
<1>3. ASSUME n > 0 PROVE \A w \in 1 .. n : Good(w)
  <2>1. 0 \in T
    <3>1. \A w \in n - 0 .. n : w = n
      BY <1>1
    <3>2. n \in 1 .. n /\ \A other \in n + 1 .. n : FALSE
      BY <1>1, <1>3
    <3>3. Good(n)
      BY <1>2, <1>3, <3>2
    <3> QED
      BY <1>1, <3>1, <3>3
  <2>2. ASSUME NEW k \in 1 .. n, k - 1 \in T PROVE k \in T
    <3>1. \A w \in n - k + 1 .. n : w > 0 => Good(w)
      <4>1. n - (k - 1) = n - k + 1
        BY <1>1
      <4> QED
        BY <2>2, <4>1
    <3>2. ASSUME NEW w \in n - k .. n, w > 0 PROVE Good(w)
      <4>1. CASE w = n - k
        <5>1. w \in 1 .. n /\ \A other \in w + 1 .. n : other \in n - k + 1 .. n /\ other > 0
          BY <1>1, <3>2, <4>1
        <5> QED
          BY <1>2, <1>3, <3>1, <5>1
      <4>2. CASE w # n - k
        <5>1. w \in n - k + 1 .. n
          BY <1>1, <4>2
        <5> QED
          BY <3>1, <3>2, <5>1
      <4> QED
        BY <4>1, <4>2
    <3>3. k \in 0 .. n
      BY <1>1
    <3> QED
      BY <3>2, <3>3
  <2> HIDE DEF T
  <2>3. 0 .. n \subseteq T
    BY <1>1, <2>1, <2>2, UpTo
  <2>4. n \in T /\ \A w \in 1 .. n : w \in n - n .. n /\ w > 0
    BY <1>1, <2>3
  <2> QED
    BY <2>4 DEF T
<1>4. Opens(d) <=> n > 0 /\ f[Narrowest(d)] = "ok"
  BY OpensIs DEF n, f
<1>5. n > 0 => Narrowest(d) \in 1 .. n
  <2>1. Narrowest(d) = IF FirstWindow < n THEN FirstWindow ELSE n
    BY DEF Narrowest, n
  <2> QED
    BY <1>1, <2>1, FileNumbers
<1> QED
  BY <1>3, <1>4, <1>5 DEF Good, n

FilesTypeOK ==
  /\ disk \in [Names -> ArchiveFiles] /\ steady \in [Names -> SUBSET Files] /\ m_archives \subseteq Names
  /\ DOMAIN m_indexed \subseteq Names /\ m_scanned \in BOOLEAN /\ version \in Nat
\* Before the scan there is no index; what an index has and has not changed since is still there.
IndexSafe ==
  /\ ~m_scanned => \A a \in Names : steady[a] = {}
  /\ \A a \in Names : steady[a] \subseteq disk[a].files
  /\ \A a \in DOMAIN m_indexed : \A file \in steady[a] : file \in m_indexed[a] /\ Opens(disk[a])
FilesSafe == FilesTypeOK /\ IndexSafe /\ LookupsAreCurrent

LEMMA NamesAre == (\A i \in DOMAIN Archives : Archives[i] \in Names) /\ NoArchive \in ArchiveFiles
BY DEF Names, NoArchive, ArchiveFiles

LEMMA FilesSafeIsEnough == FilesSafe => FilesInv
<1> SUFFICES ASSUME FilesSafe PROVE FilesInv
  OBVIOUS
<1>1. disk \in [Names -> ArchiveFiles]
  BY DEF FilesSafe, FilesTypeOK
<1>2. ArchivesOpen
  <2>1. ASSUME NEW a \in Names
        PROVE  LET d == disk[a]
                   whole == d.size > 0 /\ d.index + Cardinality(d.files) <= d.size
               IN /\ Opens(d) => whole
                  /\ whole /\ d.index <= MaxIndex => Opens(d)
    <3>1. disk[a] \in ArchiveFiles
      BY <1>1
    <3> QED
      BY <3>1, OpensWhole DEF Holds
  <2> QED
    BY <2>1 DEF ArchivesOpen
<1> QED
  BY <1>2 DEF FilesSafe, FilesInv

LEMMA NowhereIs == Nowhere.from = "none" /\ Nowhere.file = "none"
BY DEF Nowhere

LEMMA NothingLookedUp == ASSUME lookup' = Nowhere PROVE LookupsAreCurrent'
BY NowhereIs DEF LookupsAreCurrent

LEMMA FilesStart == FilesInit => FilesSafe
<1> SUFFICES ASSUME FilesInit PROVE FilesSafe
  OBVIOUS
<1>1. disk = [a \in Names |-> NoArchive] /\ steady = [a \in Names |-> {}] /\ m_archives = {} /\ m_scanned = FALSE
      /\ m_indexed = << >> /\ lookup = Nowhere /\ version = 0
  BY DEF FilesInit
<1>2. DOMAIN m_indexed = {}
  BY <1>1
<1>3. FilesTypeOK /\ IndexSafe
  BY <1>1, <1>2, NamesAre DEF FilesTypeOK, IndexSafe
<1>4. LookupsAreCurrent
  BY <1>1, NowhereIs DEF LookupsAreCurrent
<1> QED
  BY <1>3, <1>4 DEF FilesSafe

LEMMA InvalidateKept == ASSUME FilesSafe, Invalidate PROVE FilesSafe'
<1>1. /\ m_scanned' = FALSE /\ m_archives' = {} /\ m_indexed' = << >> /\ steady' = [a \in Names |-> {}]
      /\ lookup' = Nowhere /\ disk' = disk /\ version' = version
  BY DEF Invalidate
<1>2. DOMAIN m_indexed' = {} /\ disk \in [Names -> ArchiveFiles] /\ version \in Nat
  BY <1>1 DEF FilesSafe, FilesTypeOK
<1>3. FilesTypeOK' /\ IndexSafe'
  BY <1>1, <1>2 DEF FilesTypeOK, IndexSafe
<1> QED
  BY <1>1, <1>3, NothingLookedUp DEF FilesSafe

LEMMA FilesStay ==
  ASSUME FilesSafe, UNCHANGED <<disk, m_scanned, m_archives, m_indexed, steady, version>>,
         lookup' = Nowhere \/ UNCHANGED <<looseFiles, lookup>>
  PROVE  FilesSafe'
<1>1. FilesTypeOK' /\ IndexSafe'
  BY DEF FilesSafe, FilesTypeOK, IndexSafe
<1>2. LookupsAreCurrent'
  BY NothingLookedUp DEF FilesSafe, LookupsAreCurrent
<1> QED
  BY <1>1, <1>2 DEF FilesSafe

LEMMA ChangeArchiveKept == ASSUME FilesSafe, NEW a \in Names, ChangeArchive(a) PROVE FilesSafe'
<1>1. /\ lookup' = Nowhere /\ UNCHANGED <<m_scanned, m_archives, m_indexed>> /\ version' = version + 1
  BY DEF ChangeArchive
<1>2. PICK files \in SUBSET Files, index \in 1 .. MaxIndexLength, cut \in 0 .. 1 :
        /\ index + Cardinality(files) - cut > 0
        /\ disk' = [disk EXCEPT ![a] = [files |-> files, index |-> index, size |-> index + Cardinality(files) - cut,
                                        version |-> version + 1]]
        /\ steady' = [steady EXCEPT ![a] = IF Opens(disk'[a]) THEN @ \intersect files ELSE {}]
  BY DEF ChangeArchive
<1> DEFINE new == [files |-> files, index |-> index, size |-> index + Cardinality(files) - cut, version |-> version + 1]
<1>3. FilesTypeOK /\ IndexSafe
  BY DEF FilesSafe
<1>4. new \in ArchiveFiles /\ new.files = files
  <2>1. Cardinality(files) \in Nat
    BY FileNumbers, FS_Subset, FS_CardinalityType
  <2>2. index + Cardinality(files) - cut \in Nat /\ index \in Nat /\ version + 1 \in Nat
    BY <1>2, <1>3, <2>1 DEF FilesTypeOK
  <2> QED
    BY <2>2 DEF ArchiveFiles
<1>5. disk' = [disk EXCEPT ![a] = new]
  BY <1>2
<1> HIDE DEF new
<1>6. disk' \in [Names -> ArchiveFiles] /\ disk'[a] = new /\ \A n \in Names : n # a => disk'[n] = disk[n]
  BY <1>3, <1>4, <1>5 DEF FilesTypeOK
<1>7. steady'[a] = IF Opens(new) THEN steady[a] \intersect files ELSE {}
  BY <1>2, <1>3, <1>6 DEF FilesTypeOK
<1>8. steady' \in [Names -> SUBSET Files] /\ \A n \in Names : n # a => steady'[n] = steady[n]
  BY <1>2, <1>3 DEF FilesTypeOK
<1>9. FilesTypeOK'
  BY <1>1, <1>3, <1>6, <1>8 DEF FilesTypeOK
<1>10. ~m_scanned' => \A n \in Names : steady'[n] = {}
  <2>1. ASSUME ~m_scanned, NEW n \in Names PROVE steady'[n] = {}
    <3>1. steady[n] = {} /\ steady[a] = {}
      BY <1>3, <2>1 DEF IndexSafe
    <3> QED
      BY <1>7, <1>8, <3>1
  <2> QED
    BY <1>1, <2>1
<1>11. \A n \in Names : steady'[n] \subseteq disk'[n].files
  <2>1. ASSUME NEW n \in Names PROVE steady'[n] \subseteq disk'[n].files
    <3>1. CASE n = a
      BY <3>1, <1>4, <1>6, <1>7
    <3>2. CASE n # a
      BY <3>2, <1>3, <1>6, <1>8 DEF IndexSafe
    <3> QED
      BY <3>1, <3>2
  <2> QED
    BY <2>1
<1>12. ASSUME NEW n \in DOMAIN m_indexed, NEW file \in steady'[n] PROVE file \in m_indexed[n] /\ Opens(disk'[n])
  <2>1. n \in Names
    BY <1>3 DEF FilesTypeOK
  <2>2. CASE n = a
    <3>1. Opens(new) /\ file \in steady[a]
      BY <1>7, <1>12, <2>2
    <3> QED
      BY <1>3, <1>6, <2>2, <3>1 DEF IndexSafe
  <2>3. CASE n # a
    BY <1>3, <1>6, <1>8, <1>12, <2>1, <2>3 DEF IndexSafe
  <2> QED
    BY <2>2, <2>3
<1>13. IndexSafe'
  BY <1>1, <1>10, <1>11, <1>12, Zenon DEF IndexSafe
<1> QED
  BY <1>1, <1>9, <1>13, NothingLookedUp DEF FilesSafe

\* The first archive whose index has the file.
LEMMA FirstWith ==
  ASSUME NEW n \in Nat, NEW with \in SUBSET (1 .. n), with # {}
  PROVE  LET i == CHOOSE i \in with : \A j \in with : i <= j IN i \in with /\ \A j \in with : i <= j
<1>1. PICK x \in with : \A y \in with : ~(<<y, x>> \in OpToRel(<, Nat))
  <2>1. with \subseteq Nat
    OBVIOUS
  <2> QED
    BY <2>1, WFMin, NatLessThanWellFounded
<1>2. ASSUME NEW y \in with, y < x PROVE FALSE
  <2>1. <<y, x>> \in Nat \X Nat /\ <<y, x>>[1] = y /\ <<y, x>>[2] = x
    OBVIOUS
  <2>2. <<y, x>> \in OpToRel(<, Nat)
    BY <2>1, <1>2 DEF OpToRel
  <2> QED
    BY <2>2, <1>1
<1>3. \A y \in with : x <= y
  BY <1>2
<1> QED
  BY <1>3

\* What Find gives of an index: a file that is there now, or that the first archive with it has lost.
Found(index, file, result) ==
  \/ /\ result.from = "archive" /\ result.file = file
     /\ \E a \in Names : result.version = disk[a].version /\ file \in disk[a].files /\ Opens(disk[a])
  \/ /\ result.from = "none"
     /\ \A i \in DOMAIN Archives : Archives[i] \in DOMAIN index /\ file \in index[Archives[i]] =>
          \E j \in 1 .. i : /\ Archives[j] \in DOMAIN index /\ file \in index[Archives[j]]
                            /\ ~(Opens(disk[Archives[j]]) /\ file \in disk[Archives[j]].files)

LEMMA FindIs == ASSUME NEW index, NEW file PROVE Found(index, file, Find(index, file))
<1> DEFINE with == {i \in DOMAIN Archives : Archives[i] \in DOMAIN index /\ file \in index[Archives[i]]}
           k == CHOOSE i \in with : \A j \in with : i <= j
           a == Archives[k]
<1>1. Find(index, file) = IF with = {} THEN Nowhere
                          ELSE IF Opens(disk[a]) /\ file \in disk[a].files THEN Result(file, "archive", disk[a].version)
                               ELSE Nowhere
  BY Zenon DEF Find
<1>2. Len(Archives) \in Nat /\ DOMAIN Archives = 1 .. Len(Archives)
  BY FileNumbers
<1>3. with \in SUBSET (1 .. Len(Archives))
  BY <1>2
<1>4. with # {} => k \in with /\ \A j \in with : k <= j
  <2> HIDE DEF with
  <2> QED
    BY <1>2, <1>3, FirstWith
<1>5. \A i \in DOMAIN Archives : i \in with <=> Archives[i] \in DOMAIN index /\ file \in index[Archives[i]]
  OBVIOUS
<1> HIDE DEF k, with
<1>6. CASE with = {}
  <2>1. Find(index, file) = Nowhere
    BY <1>1, <1>6
  <2>2. \A i \in DOMAIN Archives : ~(Archives[i] \in DOMAIN index /\ file \in index[Archives[i]])
    BY <1>5, <1>6
  <2> QED
    BY <2>1, <2>2, NowhereIs DEF Found
<1>7. CASE with # {}
  <2>1. k \in DOMAIN Archives /\ a \in Names /\ k \in with
    BY <1>2, <1>3, <1>4, <1>7, NamesAre
  <2>2. CASE Opens(disk[a]) /\ file \in disk[a].files
    <3>1. Find(index, file) = Result(file, "archive", disk[a].version)
      BY <1>1, <1>7, <2>2
    <3>2. \A v : Result(file, "archive", v).from = "archive" /\ Result(file, "archive", v).file = file
                 /\ Result(file, "archive", v).version = v
      BY DEF Result
    <3> QED
      BY <2>1, <2>2, <3>1, <3>2 DEF Found
  <2>3. CASE ~(Opens(disk[a]) /\ file \in disk[a].files)
    <3>1. Find(index, file) = Nowhere
      BY <1>1, <1>7, <2>3
    <3>2. ASSUME NEW i \in DOMAIN Archives, Archives[i] \in DOMAIN index /\ file \in index[Archives[i]]
          PROVE  \E j \in 1 .. i : /\ Archives[j] \in DOMAIN index /\ file \in index[Archives[j]]
                                   /\ ~(Opens(disk[Archives[j]]) /\ file \in disk[Archives[j]].files)
      <4>1. i \in with /\ k <= i
        BY <1>4, <1>5, <1>7, <3>2
      <4>2. k \in 1 .. i
        BY <1>2, <2>1, <4>1
      <4>3. Archives[k] \in DOMAIN index /\ file \in index[Archives[k]]
        BY <1>5, <2>1
      <4> QED
        BY <2>3, <4>2, <4>3
    <3> QED
      BY <3>1, <3>2, NowhereIs DEF Found
  <2> QED
    BY <2>2, <2>3
<1> QED
  BY <1>6, <1>7

\* The index a search goes by: the one that is kept, or one of the archives that open now.
LEMMA IndexIsSafe ==
  ASSUME FilesSafe
  PROVE  /\ ScanArchives \subseteq Names /\ DOMAIN IndexAll \subseteq Names
         /\ \A a \in DOMAIN IndexAll : \A file \in (IF m_scanned THEN steady[a] ELSE disk[a].files) :
              file \in IndexAll[a] /\ Opens(disk[a])
<1>1. FilesTypeOK /\ IndexSafe
  BY DEF FilesSafe
<1>2. ScanArchives \subseteq Names
  BY <1>1 DEF ScanArchives, FilesTypeOK
<1>3. CASE DOMAIN m_indexed # {} /\ m_scanned
  <2>1. IndexAll = m_indexed
    BY <1>3 DEF IndexAll
  <2> QED
    BY <1>1, <1>2, <1>3, <2>1 DEF FilesTypeOK, IndexSafe
<1>4. CASE ~(DOMAIN m_indexed # {} /\ m_scanned)
  <2> DEFINE D == {b \in ScanArchives : Opens(disk[b])}
  <2>1. IndexAll = [a \in D |-> disk[a].files]
    BY <1>4 DEF IndexAll
  <2>2. D \subseteq Names /\ \A a \in D : Opens(disk[a])
    BY <1>2
  <2> HIDE DEF D
  <2>3. DOMAIN IndexAll = D /\ \A a \in D : IndexAll[a] = disk[a].files
    BY <2>1
  <2>4. \A a \in D : steady[a] \subseteq disk[a].files
    BY <1>1, <2>2 DEF IndexSafe
  <2> QED
    BY <1>2, <2>2, <2>3, <2>4
<1> QED
  BY <1>3, <1>4

LEMMA ReadKept == ASSUME FilesSafe, NEW file \in Files, ReadGameFile(file) PROVE FilesSafe'
<1> DEFINE searches == ~EngineHas(file) /\ file \notin looseFiles
           found == Find(IndexAll, file)
<1>1. /\ lookup' = (CASE EngineHas(file) -> Result(file, "engine", 0)
                      [] file \in looseFiles /\ ~EngineHas(file) -> Result(file, "disk", 0)
                      [] OTHER -> [found EXCEPT !.file = file])
      /\ IF searches
         THEN /\ m_scanned' = TRUE /\ m_archives' = ScanArchives /\ m_indexed' = IndexAll
              /\ steady' = IF m_scanned THEN steady ELSE [a \in Names |-> disk[a].files]
         ELSE UNCHANGED <<m_scanned, m_archives, m_indexed, steady>>
      /\ UNCHANGED <<m_slots, m_stringSlotState, engineFiles, looseFiles, disk, version>>
  BY Zenon DEF ReadGameFile
<1>2. FilesTypeOK /\ IndexSafe
  BY DEF FilesSafe
<1>3. \A w, v : Result(file, w, v).from = w
  BY DEF Result
<1>4. CASE ~searches
  <2>1. lookup' = Result(file, "engine", 0) \/ lookup' = Result(file, "disk", 0)
    BY <1>1, <1>4
  <2>2. lookup'.from # "archive" /\ lookup'.from # "none"
    BY <1>3, <2>1
  <2>3. LookupsAreCurrent'
    BY <2>2 DEF LookupsAreCurrent
  <2>4. FilesTypeOK' /\ IndexSafe'
    BY <1>1, <1>2, <1>4 DEF FilesTypeOK, IndexSafe
  <2> QED
    BY <2>3, <2>4 DEF FilesSafe
<1>5. CASE searches
  <2>1. lookup' = [found EXCEPT !.file = file]
    BY <1>1, <1>5
  <2>2. m_scanned' = TRUE /\ m_archives' = ScanArchives /\ m_indexed' = IndexAll /\ disk' = disk /\ looseFiles' = looseFiles
        /\ steady' = (IF m_scanned THEN steady ELSE [a \in Names |-> disk[a].files]) /\ version' = version
    BY <1>1, <1>5
  <2>3. disk \in [Names -> ArchiveFiles] /\ \A a \in Names : disk[a].files \in SUBSET Files
    BY <1>2 DEF FilesTypeOK, ArchiveFiles
  <2>4. steady' \in [Names -> SUBSET Files] /\ \A a \in Names : steady'[a] = IF m_scanned THEN steady[a] ELSE disk[a].files
    BY <1>2, <2>2, <2>3 DEF FilesTypeOK
  <2>5. ScanArchives \subseteq Names /\ DOMAIN IndexAll \subseteq Names
    BY IndexIsSafe
  <2>6. FilesTypeOK'
    BY <1>2, <2>2, <2>3, <2>4, <2>5 DEF FilesTypeOK
  <2>7. \A a \in DOMAIN IndexAll : \A other \in steady'[a] : other \in IndexAll[a] /\ Opens(disk[a])
    BY <2>4, <2>5, IndexIsSafe
  <2>8. \A a \in Names : steady'[a] \subseteq disk[a].files
    BY <1>2, <2>4 DEF IndexSafe
  <2>9. IndexSafe'
    BY <2>2, <2>7, <2>8 DEF IndexSafe
  <2>10. Found(IndexAll, file, found)
    BY FindIs
  <2>11. found \in [file : {file, "none"}, from : {"archive", "none"}, version : {found.version}]
    <3>1. found = Nowhere \/ \E v : found = Result(file, "archive", v)
      BY Zenon DEF Find
    <3>2. CASE found = Nowhere
      BY <3>2 DEF Nowhere
    <3>3. ASSUME NEW v, found = Result(file, "archive", v) PROVE found \in [file : {file, "none"}, from : {"archive", "none"}, version : {found.version}]
      BY <3>3 DEF Result
    <3> QED
      BY <3>1, <3>2, <3>3
  <2> HIDE DEF found
  <2>12. lookup'.file = file /\ lookup'.from = found.from /\ lookup'.version = found.version
    BY <2>1, <2>11
  <2>13. lookup'.from = "archive" =>
           \E a \in Names : lookup'.version = disk[a].version /\ lookup'.file \in disk[a].files /\ Opens(disk[a])
    BY <2>10, <2>12 DEF Found
  <2>14. ASSUME lookup'.from = "none", NEW i \in DOMAIN Archives,
                file \in steady'[Archives[i]], Archives[i] \in DOMAIN IndexAll
         PROVE  \E j \in 1 .. (i - 1) : /\ Archives[j] \in DOMAIN IndexAll
                                        /\ file \in IndexAll[Archives[j]] /\ file \notin steady'[Archives[j]]
    <3>1. file \in IndexAll[Archives[i]]
      BY <2>7, <2>14
    <3>2. PICK j \in 1 .. i : /\ Archives[j] \in DOMAIN IndexAll /\ file \in IndexAll[Archives[j]]
                              /\ ~(Opens(disk[Archives[j]]) /\ file \in disk[Archives[j]].files)
      BY <2>10, <2>12, <2>14, <3>1 DEF Found
    <3>3. file \notin steady'[Archives[j]]
      BY <2>5, <2>7, <2>8, <3>2
    <3>4. i \in Nat /\ j # i
      BY <2>14, <3>3, FileNumbers
    <3>5. j \in 1 .. (i - 1)
      BY <3>4
    <3> QED
      BY <3>2, <3>3, <3>5
  <2>15. file \notin looseFiles
    BY <1>5
  <2>16. LookupsAreCurrent'
    BY <2>2, <2>12, <2>13, <2>14, <2>15 DEF LookupsAreCurrent
  <2> QED
    BY <2>6, <2>9, <2>16 DEF FilesSafe
<1> QED
  BY <1>4, <1>5

LEMMA FilesStep == FilesSafe /\ [FilesNext]_filesVars => FilesSafe'
<1> SUFFICES ASSUME FilesSafe, [FilesNext]_filesVars PROVE FilesSafe'
  OBVIOUS
<1>1. CASE Invalidate
  BY <1>1, InvalidateKept
<1>2. CASE InitializeFileSystem
  BY <1>2, FilesStay DEF InitializeFileSystem
<1>3. CASE ShutdownFileSystem
  BY <1>3, FilesStay DEF ShutdownFileSystem
<1>4. ASSUME NEW file \in Files, ReadGameFile(file) PROVE FilesSafe'
  BY <1>4, ReadKept
<1>5. ASSUME NEW i \in DOMAIN Archives, ChangeArchive(Archives[i]) PROVE FilesSafe'
  BY <1>5, NamesAre, ChangeArchiveKept
<1>6. ASSUME NEW isPath \in BOOLEAN, FileNameFromHandle(isPath) PROVE FilesSafe'
  BY <1>6, FilesStay DEF FileNameFromHandle
<1>7. CASE UNCHANGED filesVars
  BY <1>7, FilesStay DEF filesVars
<1> QED
  BY <1>1, <1>2, <1>3, <1>4, <1>5, <1>6, <1>7, Zenon DEF FilesNext

\* What is read from an archive is in it now, a file it kept since the scan is found, and an
\* archive opens exactly when it is whole, for any archives, windows and limits.
THEOREM FilesSafety == FilesInit /\ [][FilesNext]_filesVars => []FilesInv
<1>1. FilesInit => FilesSafe
  BY FilesStart
<1>2. FilesSafe => FilesInv
  BY FilesSafeIsEnough
<1> QED
  BY <1>1, <1>2, FilesStep, PTL

-----------------------------------------------------------------------------
(* The cache of the routes between the probes                                *)

CacheWords == CacheKeys \cup {"none", "torn"}
DataBlock(key, r, k) == [is |-> "data", key |-> key, row |-> r, part |-> k]
IndexBlock(at) == [is |-> "index", rowAt |-> at]
Blocks ==
  {Junk} \cup {RowHeader(k, r) : k \in CacheKeys, r \in ProbeRows}
         \cup {DataBlock(k, r, n) : k \in CacheKeys, r \in ProbeRows, n \in Nat}
         \cup {IndexBlock(x) : x \in [ProbeRows -> Nat]}
CacheFiles == [head : [key : CacheWords, finished : BOOLEAN, at : Nat], blocks : Seq(Blocks)]

\* A whole row r of the bake `key` begins at block `at`.
RowIs(b, key, r, at) ==
  /\ at > 0 /\ at + RowBlocks[r] <= Len(b)
  /\ \A k \in 1 .. RowBlocks[r] + 1 : b[at + k - 1] = RowOnDisk(key, r)[k]

\* The blocks in front of c are whole rows, one behind the other; the numbers in T are where
\* they begin, and c; each row of `some` is among them.
Tiles(T, b, key, c, some) ==
  /\ c <= Len(b) + 1 /\ T \subseteq 1 .. c /\ 1 \in T /\ c \in T
  /\ \A at \in T \ {c} : \E r \in ProbeRows :
        /\ RowIs(b, key, r, at) /\ at + RowBlocks[r] + 1 \in T
        /\ \A other \in T : other <= at \/ other > at + RowBlocks[r]
  /\ \A r \in some : \E at \in T \ {c} : RowIs(b, key, r, at) /\ at + RowBlocks[r] < c
Tiled(b, key, c, some) == \E T : Tiles(T, b, key, c, some)

\* The header of a row names the bake of its file.
OneKey(b, key) ==
  \A i \in 1 .. Len(b), k \in CacheKeys, r \in ProbeRows : b[i] = RowHeader(k, r) => k = key

SameBelow(b, e, c) == c <= Len(b) + 1 /\ c <= Len(e) + 1 /\ \A i \in 1 .. c - 1 : b[i] = e[i]

\* The rows an index names are whole in front of c.
WholeBelow(b, key, x, c) == \A r \in ProbeRows : x[r] > 0 => RowIs(b, key, r, x[r]) /\ x[r] + RowBlocks[r] < c

LEMMA CacheNumbers == PageLimit \in Nat /\ \A r \in ProbeRows : RowBlocks[r] \in Nat
BY PathCacheAssumption

LEMMA CacheWordsIs == "none" \notin CacheKeys /\ "torn" \notin CacheKeys
BY PathCacheAssumption

LEMMA RowOnDiskIs ==
  ASSUME NEW key \in CacheKeys, NEW r \in ProbeRows
  PROVE  /\ RowOnDisk(key, r) \in Seq(Blocks) /\ Len(RowOnDisk(key, r)) = RowBlocks[r] + 1
         /\ RowOnDisk(key, r)[1] = RowHeader(key, r)
         /\ \A k \in 2 .. RowBlocks[r] + 1 : RowOnDisk(key, r)[k] = DataBlock(key, r, k)
<1>1. RowBlocks[r] \in Nat /\ RowBlocks[r] + 1 \in Nat
  BY CacheNumbers
<1>2. RowHeader(key, r) \in Blocks /\ \A k \in Nat : DataBlock(key, r, k) \in Blocks
  BY DEF Blocks
<1>3. RowOnDisk(key, r) = [k \in 1 .. RowBlocks[r] + 1 |-> IF k = 1 THEN RowHeader(key, r) ELSE DataBlock(key, r, k)]
  BY DEF RowOnDisk, DataBlock
<1>4. \A k \in 1 .. RowBlocks[r] + 1 : (IF k = 1 THEN RowHeader(key, r) ELSE DataBlock(key, r, k)) \in Blocks
  BY <1>2
<1>5. RowOnDisk(key, r) \in [1 .. RowBlocks[r] + 1 -> Blocks]
  BY <1>3, <1>4
<1> QED
  BY <1>1, <1>3, <1>5

LEMMA HeadersDiffer ==
  ASSUME NEW k, NEW r, NEW e, NEW s, RowHeader(k, r) = RowHeader(e, s) PROVE k = e /\ r = s
BY DEF RowHeader

LEMMA JunkDiffers == ASSUME NEW x, NEW e, NEW s PROVE Junk # RowHeader(e, s) /\ IndexBlock(x) # RowHeader(e, s)
<1>1. Junk.is = "junk" /\ IndexBlock(x).is = "index" /\ RowHeader(e, s).is = "row"
  BY DEF Junk, IndexBlock, RowHeader
<1> QED
  BY <1>1

LEMMA DataDiffers == ASSUME NEW k, NEW r, NEW n, NEW e, NEW s PROVE DataBlock(k, r, n) # RowHeader(e, s)
<1>1. DataBlock(k, r, n).is = "data" /\ RowHeader(e, s).is = "row"
  BY DEF DataBlock, RowHeader
<1> QED
  BY <1>1

LEMMA RowIsBlocks ==
  ASSUME NEW b \in Seq(Blocks), NEW key \in CacheKeys, NEW r \in ProbeRows, NEW at \in Nat
  PROVE  /\ at > 0 /\ at + RowBlocks[r] <= Len(b) /\ SubSeq(b, at, at + RowBlocks[r]) = RowOnDisk(key, r) => RowIs(b, key, r, at)
         /\ RowIs(b, key, r, at) => SubSeq(b, at, at + RowBlocks[r]) = RowOnDisk(key, r)
         /\ RowIs(b, key, r, at) => b[at] = RowHeader(key, r)
<1>1. RowBlocks[r] \in Nat
  BY CacheNumbers
<1> DEFINE n == RowBlocks[r]
           row == RowOnDisk(key, r)
           cut == SubSeq(b, at, at + n)
<1>2. n \in Nat /\ row \in Seq(Blocks) /\ Len(row) = n + 1 /\ row[1] = RowHeader(key, r)
  BY <1>1, RowOnDiskIs
<1>3. RowIs(b, key, r, at) <=> at > 0 /\ at + n <= Len(b) /\ \A k \in 1 .. n + 1 : b[at + k - 1] = row[k]
  BY DEF RowIs
<1> HIDE DEF n, row
<1>4. ASSUME at > 0, at + n <= Len(b) PROVE cut = [k \in 1 .. n + 1 |-> b[at + k - 1]]
  BY <1>2, <1>4
<1> HIDE DEF cut
<1>5. row = [k \in 1 .. n + 1 |-> row[k]]
  BY <1>2
<1>6. at > 0 /\ at + n <= Len(b) /\ cut = row => RowIs(b, key, r, at)
  BY <1>2, <1>3, <1>4
<1>7. RowIs(b, key, r, at) => cut = row
  BY <1>2, <1>3, <1>4, <1>5
<1>8. RowIs(b, key, r, at) => b[at] = RowHeader(key, r)
  BY <1>2, <1>3
<1> QED
  BY <1>6, <1>7, <1>8 DEF n, row, cut

\* What is written from c on leaves the rows in front of it alone.
LEMMA RowStays ==
  ASSUME NEW b, NEW e, NEW c \in Nat, SameBelow(b, e, c), NEW key, NEW r \in ProbeRows, NEW at \in Nat,
         RowIs(b, key, r, at), at + RowBlocks[r] < c, Len(e) \in Nat
  PROVE  RowIs(e, key, r, at)
<1>1. RowBlocks[r] \in Nat
  BY CacheNumbers
<1>2. ASSUME NEW k \in 1 .. RowBlocks[r] + 1 PROVE e[at + k - 1] = RowOnDisk(key, r)[k]
  <2>1. at > 0 /\ b[at + k - 1] = RowOnDisk(key, r)[k]
    BY DEF RowIs
  <2>2. at + k - 1 \in 1 .. c - 1
    BY <1>1, <2>1
  <2> QED
    BY <2>1, <2>2 DEF SameBelow
<1>3. at > 0 /\ at + RowBlocks[r] <= Len(e)
  BY <1>1 DEF RowIs, SameBelow
<1> QED
  BY <1>2, <1>3 DEF RowIs

LEMMA TilesStay ==
  ASSUME NEW b, NEW e, NEW c \in Nat, SameBelow(b, e, c), Len(e) \in Nat, NEW key, NEW some \in SUBSET ProbeRows,
         Tiled(b, key, c, some)
  PROVE  Tiled(e, key, c, some)
<1>1. PICK T : Tiles(T, b, key, c, some)
  BY DEF Tiled
<1>2. T \subseteq 1 .. c /\ 1 \in T /\ c \in T /\ c <= Len(e) + 1
  BY <1>1 DEF Tiles, SameBelow
<1>3. ASSUME NEW at \in T \ {c} 
      PROVE  \E r \in ProbeRows : /\ RowIs(e, key, r, at) /\ at + RowBlocks[r] + 1 \in T
                                  /\ \A other \in T : other <= at \/ other > at + RowBlocks[r]
  <2>1. PICK r \in ProbeRows : /\ RowIs(b, key, r, at) /\ at + RowBlocks[r] + 1 \in T
                               /\ \A other \in T : other <= at \/ other > at + RowBlocks[r]
    BY <1>1 DEF Tiles
  <2>2. RowBlocks[r] \in Nat /\ at \in Nat /\ at + RowBlocks[r] < c
    BY <1>2, <2>1, CacheNumbers
  <2>3. RowIs(e, key, r, at)
    BY <2>1, <2>2, RowStays
  <2> QED
    BY <2>1, <2>3
<1>4. ASSUME NEW r \in some PROVE \E at \in T \ {c} : RowIs(e, key, r, at) /\ at + RowBlocks[r] < c
  <2>1. PICK at \in T \ {c} : RowIs(b, key, r, at) /\ at + RowBlocks[r] < c
    BY <1>1 DEF Tiles
  <2>2. RowIs(e, key, r, at)
    BY <1>2, <2>1, RowStays
  <2> QED
    BY <2>1, <2>2
<1>5. Tiles(T, e, key, c, some)
  BY <1>2, <1>3, <1>4 DEF Tiles
<1> QED
  BY <1>5 DEF Tiled

LEMMA TilesGrow ==
  ASSUME NEW b, NEW c \in Nat, NEW key, NEW some \in SUBSET ProbeRows, NEW r \in ProbeRows,
         Tiled(b, key, c, some), RowIs(b, key, r, c), Len(b) \in Nat
  PROVE  Tiled(b, key, c + RowBlocks[r] + 1, some \cup {r})
<1> DEFINE d == c + RowBlocks[r] + 1
<1>1. PICK T : Tiles(T, b, key, c, some)
  BY DEF Tiled
<1>2. RowBlocks[r] \in Nat /\ d \in Nat /\ d > c /\ c + RowBlocks[r] < d
  BY CacheNumbers
<1>3. T \subseteq 1 .. c /\ 1 \in T /\ c \in T
  BY <1>1 DEF Tiles
<1>4. d <= Len(b) + 1
  BY <1>2 DEF RowIs
<1> DEFINE U == T \cup {d}
<1>5. U \subseteq 1 .. d /\ 1 \in U /\ d \in U /\ U \ {d} = T
  <2> HIDE DEF d
  <2>1. \A at \in T : at \in 1 .. d /\ at # d
    BY <1>2, <1>3
  <2>2. d \in 1 .. d
    BY <1>2
  <2> QED
    BY <1>3, <2>1, <2>2
<1>6. ASSUME NEW at \in T
      PROVE  \E s \in ProbeRows : /\ RowIs(b, key, s, at) /\ at + RowBlocks[s] + 1 \in U
                                  /\ \A other \in U : other <= at \/ other > at + RowBlocks[s]
  <2>1. CASE at = c
    BY <2>1, <1>2, <1>3
  <2>2. CASE at # c
    <3>1. PICK s \in ProbeRows : /\ RowIs(b, key, s, at) /\ at + RowBlocks[s] + 1 \in T
                                 /\ \A other \in T : other <= at \/ other > at + RowBlocks[s]
      BY <1>1, <2>2 DEF Tiles
    <3>2. RowBlocks[s] \in Nat /\ at + RowBlocks[s] + 1 <= c /\ at \in Nat
      BY <1>3, <3>1, CacheNumbers
    <3> QED
      BY <1>2, <3>1, <3>2
  <2> QED
    BY <2>1, <2>2
<1>7. ASSUME NEW s \in some \cup {r} PROVE \E at \in T : RowIs(b, key, s, at) /\ at + RowBlocks[s] < d
  <2>1. CASE s = r
    BY <2>1, <1>2, <1>3
  <2>2. CASE s \in some
    <3>1. PICK at \in T \ {c} : RowIs(b, key, s, at) /\ at + RowBlocks[s] < c
      BY <1>1, <2>2 DEF Tiles
    <3>2. RowBlocks[s] \in Nat /\ at \in Nat
      BY <1>3, CacheNumbers
    <3> QED
      BY <1>2, <3>1, <3>2
  <2> QED
    BY <2>1, <2>2
<1> HIDE DEF d, U
<1>8. Tiles(U, b, key, d, some \cup {r})
  BY <1>4, <1>5, <1>6, <1>7 DEF Tiles
<1>9. Tiled(b, key, d, some \cup {r})
  BY <1>8 DEF Tiled
<1> QED
  BY <1>9 DEF d

LEMMA TilesNone == ASSUME NEW b, NEW key, Len(b) \in Nat PROVE Tiled(b, key, 1, {})
<1>1. Tiles({1}, b, key, 1, {})
  BY DEF Tiles
<1> QED
  BY <1>1 DEF Tiled

LEMMA TilesFewer ==
  ASSUME NEW b, NEW key, NEW c, NEW some, NEW fewer \in SUBSET some, Tiled(b, key, c, some)
  PROVE  Tiled(b, key, c, fewer)
BY DEF Tiled, Tiles

LEMMA MaxOfTwo == ASSUME NEW m \in Nat, NEW n \in Nat PROVE Max({m, n}) = IF m >= n THEN m ELSE n
BY DEF Max
LEMMA MinOfTwo == ASSUME NEW m \in Nat, NEW n \in Nat PROVE Min({m, n}) = IF m <= n THEN m ELSE n
BY DEF Min

\* What Overwritten leaves: the blocks in front, then the new ones.
OverwrittenRight(b, at, new, e) ==
  /\ e \in Seq(Blocks) /\ Len(e) >= Len(b) /\ Len(e) >= at + Len(new) - 1
  /\ Len(b) <= at + Len(new) - 1 => Len(e) = at + Len(new) - 1
  /\ Len(b) >= at + Len(new) - 1 => Len(e) = Len(b)
  /\ SameBelow(b, e, at)
  /\ \A k \in 1 .. Len(new) : e[at + k - 1] = new[k]
  /\ \A i \in at + Len(new) .. Len(e) : e[i] = b[i]

LEMMA OverwrittenIs ==
  ASSUME NEW b \in Seq(Blocks), NEW at \in Nat, at > 0, at <= Len(b) + 1, NEW new \in Seq(Blocks)
  PROVE  OverwrittenRight(b, at, new, Overwritten(b, at, new))
<1> DEFINE n == Len(new)
           m == IF Len(b) >= at + n - 1 THEN Len(b) ELSE at + n - 1
           e == [i \in 1 .. m |-> IF i \in at .. at + n - 1 THEN new[i - at + 1] ELSE b[i]]
<1>1. n \in Nat /\ Len(b) \in Nat /\ at + n - 1 \in Nat
  OBVIOUS
<1>2. Max({Len(b), at + n - 1}) = m
  BY <1>1, MaxOfTwo
<1>3. e = Overwritten(b, at, new)
  BY <1>2, Zenon DEF Overwritten
<1>4. m \in Nat /\ m >= Len(b) /\ m >= at + n - 1
  BY <1>1
<1>5. ASSUME NEW i \in 1 .. m PROVE (IF i \in at .. at + n - 1 THEN new[i - at + 1] ELSE b[i]) \in Blocks
  <2>1. CASE i \in at .. at + n - 1
    <3>1. i - at + 1 \in 1 .. n
      BY <2>1, <1>1
    <3> QED
      BY <2>1, <3>1
  <2>2. CASE i \notin at .. at + n - 1
    <3>1. i \in 1 .. Len(b)
      BY <2>2, <1>1
    <3> QED
      BY <2>2, <3>1
  <2> QED
    BY <2>1, <2>2
<1>12. e \in [1 .. m -> Blocks]
  BY <1>5
<1>6. \A i \in 1 .. m : e[i] = IF i \in at .. at + n - 1 THEN new[i - at + 1] ELSE b[i]
  OBVIOUS
<1>7. (Len(b) >= at + n - 1 => m = Len(b)) /\ (Len(b) <= at + n - 1 => m = at + n - 1)
  BY <1>1
<1> HIDE DEF e, m
<1>8. e \in Seq(Blocks) /\ Len(e) = m
  BY <1>4, <1>12
<1>9. ASSUME NEW k \in 1 .. n PROVE e[at + k - 1] = new[k]
  <2>1. at + k - 1 \in at .. at + n - 1 /\ at + k - 1 \in 1 .. m /\ at + k - 1 - at + 1 = k
    BY <1>1, <1>4
  <2> QED
    BY <1>6, <2>1
<1>10. SameBelow(b, e, at)
  <2>1. ASSUME NEW i \in 1 .. at - 1 PROVE b[i] = e[i]
    <3>1. i \in 1 .. m /\ i \notin at .. at + n - 1
      BY <1>1, <1>4
    <3> QED
      BY <1>6, <3>1
  <2> QED
    BY <1>1, <1>4, <1>8, <2>1 DEF SameBelow
<1>11. ASSUME NEW i \in at + n .. m PROVE e[i] = b[i]
  BY <1>1, <1>6
<1> QED
  BY <1>1, <1>3, <1>4, <1>7, <1>8, <1>9, <1>10, <1>11 DEF OverwrittenRight, n

LEMMA OneKeyOverwritten ==
  ASSUME NEW b \in Seq(Blocks), NEW at \in Nat, at > 0, NEW new \in Seq(Blocks), NEW e, NEW key,
         OverwrittenRight(b, at, new, e), OneKey(b, key), OneKey(new, key)
  PROVE  OneKey(e, key)
<1>1. ASSUME NEW i \in 1 .. Len(e), NEW k \in CacheKeys, NEW r \in ProbeRows, e[i] = RowHeader(k, r) PROVE k = key
  <2>1. e \in Seq(Blocks) /\ Len(new) \in Nat /\ Len(b) \in Nat /\ Len(e) \in Nat
    BY DEF OverwrittenRight
  <2>2. CASE i < at
    <3>1. i \in 1 .. at - 1 /\ at <= Len(b) + 1 /\ b[i] = e[i]
      BY <2>1, <2>2 DEF OverwrittenRight, SameBelow
    <3>2. i \in 1 .. Len(b)
      BY <2>1, <3>1
    <3> QED
      BY <1>1, <3>1, <3>2 DEF OneKey
  <2>3. CASE i \in at .. at + Len(new) - 1
    <3>1. i - at + 1 \in 1 .. Len(new) /\ at + (i - at + 1) - 1 = i
      BY <2>1, <2>3
    <3>2. e[at + (i - at + 1) - 1] = new[i - at + 1]
      BY <3>1 DEF OverwrittenRight
    <3>3. new[i - at + 1] = RowHeader(k, r)
      BY <1>1, <3>1, <3>2
    <3> QED
      BY <3>1, <3>3 DEF OneKey
  <2>4. CASE i >= at + Len(new)
    <3>1. i \in at + Len(new) .. Len(e)
      BY <2>1, <2>4
    <3>2. e[i] = b[i]
      BY <3>1 DEF OverwrittenRight
    <3>3. i \in 1 .. Len(b)
      BY <2>1, <3>1 DEF OverwrittenRight
    <3> QED
      BY <1>1, <3>2, <3>3 DEF OneKey
  <2> QED
    BY <2>1, <2>2, <2>3, <2>4
<1> QED
  BY <1>1 DEF OneKey

LEMMA OneKeyRow == ASSUME NEW key \in CacheKeys, NEW r \in ProbeRows PROVE OneKey(RowOnDisk(key, r), key)
<1>1. RowBlocks[r] \in Nat
  BY CacheNumbers
<1>2. ASSUME NEW i \in 1 .. Len(RowOnDisk(key, r)), NEW k \in CacheKeys, NEW s \in ProbeRows,
             RowOnDisk(key, r)[i] = RowHeader(k, s)
      PROVE  k = key
  <2>1. CASE i = 1
    BY <2>1, <1>2, RowOnDiskIs, HeadersDiffer
  <2>2. CASE i # 1
    <3>1. i \in 2 .. RowBlocks[r] + 1
      BY <2>2, <1>1, RowOnDiskIs
    <3>2. RowOnDisk(key, r)[i] = DataBlock(key, r, i)
      BY <3>1, RowOnDiskIs
    <3>3. DataBlock(key, r, i) # RowHeader(k, s)
      BY DataDiffers
    <3> QED
      BY <3>2, <3>3, <1>2
  <2> QED
    BY <2>1, <2>2
<1> QED
  BY <1>2 DEF OneKey

LEMMA TornIs ==
  ASSUME NEW key \in CacheKeys, NEW r \in ProbeRows, NEW n \in 0 .. RowBlocks[r]
  PROVE  LET torn == SubSeq(RowOnDisk(key, r), 1, n) \o <<Junk>>
         IN torn \in Seq(Blocks) /\ Len(torn) = n + 1 /\ OneKey(torn, key)
<1> DEFINE row == RowOnDisk(key, r)
           cut == SubSeq(row, 1, n)
           torn == cut \o <<Junk>>
<1>1. row \in Seq(Blocks) /\ Len(row) = RowBlocks[r] + 1 /\ RowBlocks[r] \in Nat /\ OneKey(row, key)
  BY RowOnDiskIs, CacheNumbers, OneKeyRow
<1> HIDE DEF row
<1>2. cut \in Seq(Blocks) /\ Len(cut) = n /\ \A i \in 1 .. n : cut[i] = row[i]
  BY <1>1
<1> HIDE DEF cut
<1>3. Junk \in Blocks
  BY DEF Blocks
<1> HIDE DEF Junk
<1>4. torn \in Seq(Blocks) /\ Len(torn) = n + 1 /\ torn[n + 1] = Junk
  BY <1>2, <1>3
<1>5. \A i \in 1 .. n : torn[i] = cut[i]
  BY <1>2, <1>3
<1> HIDE DEF torn
<1>6. ASSUME NEW i \in 1 .. Len(torn), NEW k \in CacheKeys, NEW s \in ProbeRows, torn[i] = RowHeader(k, s) PROVE k = key
  <2>1. i # n + 1
    BY <1>4, <1>6, JunkDiffers
  <2>2. i \in 1 .. n /\ i \in 1 .. Len(row) /\ row[i] = RowHeader(k, s)
    BY <1>1, <1>2, <1>4, <1>5, <1>6, <2>1
  <2> QED
    BY <1>1, <2>2 DEF OneKey
<1>7. OneKey(torn, key)
  BY <1>6 DEF OneKey
<1> QED
  BY <1>4, <1>7 DEF torn, cut, row

(* The scan of a file left behind                                            *)

Wholes(b, at, end) == {r \in ProbeRows : WholeRow(b, r, at, end)}
FirstWhole(b, at, end) == CHOOSE x \in Wholes(b, at, end) : TRUE
Behind(b, at, end) == at + 1 + RowBlocks[FirstWhole(b, at, end)]
ScanFrom(f, b, end, at) ==
  IF Wholes(b, at, end) = {} THEN [found |-> {}, stop |-> at]
  ELSE [found |-> {<<FirstWhole(b, at, end), at>>} \cup f[Behind(b, at, end)].found, stop |-> f[Behind(b, at, end)].stop]
IsScan(f, b, end) == f = [at \in 1 .. Len(b) + 2 |-> ScanFrom(f, b, end, at)]
Scans(b, end) == CHOOSE f : IsScan(f, b, end)
ScanEnd(file) == IF file.head.finished THEN file.head.at ELSE Len(file.blocks) + 1

LEMMA ScanOpens == ASSUME NEW file PROVE Scan(file) = Scans(file.blocks, ScanEnd(file))[1]
BY Zenon DEF Scan, Scans, IsScan, ScanFrom, Wholes, FirstWhole, Behind, ScanEnd

LEMMA WholesAre ==
  ASSUME NEW b \in Seq(Blocks), NEW at \in Nat, NEW end \in Nat, end <= Len(b) + 1, NEW key, OneKey(b, key),
         NEW r \in Wholes(b, at, end)
  PROVE  r \in ProbeRows /\ at > 0 /\ at + RowBlocks[r] < end /\ key \in CacheKeys /\ RowIs(b, key, r, at) /\ b[at] = RowHeader(key, r)
<1>1. r \in ProbeRows /\ at > 0 /\ at + RowBlocks[r] < end /\ RowBlocks[r] \in Nat
  BY CacheNumbers DEF Wholes, WholeRow
<1>2. PICK k \in CacheKeys : SubSeq(b, at, at + RowBlocks[r]) = RowOnDisk(k, r)
  BY DEF Wholes, WholeRow
<1>3. at + RowBlocks[r] <= Len(b)
  BY <1>1
<1>4. RowIs(b, k, r, at) /\ b[at] = RowHeader(k, r)
  BY <1>1, <1>2, <1>3, RowIsBlocks
<1>5. at \in 1 .. Len(b)
  BY <1>1, <1>3
<1>6. k = key
  BY <1>1, <1>4, <1>5 DEF OneKey
<1> QED
  BY <1>1, <1>4, <1>6

LEMMA RowIsWhole ==
  ASSUME NEW b \in Seq(Blocks), NEW at \in Nat, NEW end \in Nat, NEW key \in CacheKeys, NEW r \in ProbeRows,
         RowIs(b, key, r, at), at + RowBlocks[r] < end
  PROVE  r \in Wholes(b, at, end) /\ WholeRow(b, r, at, end)
BY RowIsBlocks DEF Wholes, WholeRow, RowIs

LEMMA BehindIs ==
  ASSUME NEW b \in Seq(Blocks), NEW at \in Nat, NEW end \in Nat, end <= Len(b) + 1, Wholes(b, at, end) # {}
  PROVE  /\ FirstWhole(b, at, end) \in Wholes(b, at, end) /\ Behind(b, at, end) \in at + 1 .. Len(b) + 1
         /\ Behind(b, at, end) <= end
<1>1. FirstWhole(b, at, end) \in Wholes(b, at, end)
  BY DEF FirstWhole
<1> DEFINE r == FirstWhole(b, at, end)
<1>2. r \in ProbeRows /\ at + RowBlocks[r] < end /\ RowBlocks[r] \in Nat
  BY <1>1, CacheNumbers DEF Wholes, WholeRow
<1>3. Behind(b, at, end) = at + 1 + RowBlocks[r]
  BY DEF Behind
<1> HIDE DEF r
<1> QED
  BY <1>1, <1>2, <1>3

LEMMA ScansIs ==
  ASSUME NEW b \in Seq(Blocks), NEW end \in Nat, end <= Len(b) + 1
  PROVE  IsScan(Scans(b, end), b, end)
<1> DEFINE n == Len(b) + 1
           Is(f, k) == DOMAIN f = 1 .. n + 1 /\ f = [at \in 1 .. n + 1 |-> f[at]]
                       /\ \A at \in n + 1 - k .. n + 1 : f[at] = ScanFrom(f, b, end, at)
           T == {k \in 0 .. n : \E f : Is(f, k)}
<1>1. n \in Nat /\ n + 1 = Len(b) + 2
  OBVIOUS
<1>2. 0 \in T
  <2> DEFINE f == [at \in 1 .. n + 1 |-> [found |-> {}, stop |-> n + 1]]
  <2>1. f[n + 1] = [found |-> {}, stop |-> n + 1] /\ DOMAIN f = 1 .. n + 1 /\ f = [at \in 1 .. n + 1 |-> f[at]]
    BY <1>1
  <2> HIDE DEF f
  <2>2. Wholes(b, n + 1, end) = {}
    <3>1. ASSUME NEW r \in Wholes(b, n + 1, end) PROVE FALSE
      <4>1. r \in ProbeRows /\ n + 1 + RowBlocks[r] < end /\ RowBlocks[r] \in Nat
        BY <3>1, CacheNumbers DEF Wholes, WholeRow
      <4> QED
        BY <4>1, <1>1
    <3> QED
      BY <3>1
  <2>3. ScanFrom(f, b, end, n + 1) = [found |-> {}, stop |-> n + 1]
    BY <2>2, Zenon DEF ScanFrom
  <2>4. \A at \in n + 1 - 0 .. n + 1 : at = n + 1
    BY <1>1
  <2>5. Is(f, 0)
    BY <2>1, <2>3, <2>4
  <2> QED
    BY <1>1, <2>5
<1>3. ASSUME NEW k \in 1 .. n, k - 1 \in T PROVE k \in T
  <2>1. PICK g : Is(g, k - 1)
    BY <1>3
  <2> DEFINE p == n + 1 - k
             h == [at \in 1 .. n + 1 |-> IF at = p THEN ScanFrom(g, b, end, p) ELSE g[at]]
  <2>2. p \in 1 .. n /\ p \in Nat /\ n + 1 - (k - 1) = p + 1
    BY <1>1
  <2>3. h[p] = ScanFrom(g, b, end, p) /\ \A at \in 1 .. n + 1 : at # p => h[at] = g[at]
    BY <2>2
  <2>4. DOMAIN h = 1 .. n + 1 /\ h = [at \in 1 .. n + 1 |-> h[at]]
    OBVIOUS
  <2> HIDE DEF h
  <2>5. ASSUME NEW at \in p .. n + 1 PROVE ScanFrom(h, b, end, at) = ScanFrom(g, b, end, at)
    <3>1. CASE Wholes(b, at, end) = {}
      BY <3>1 DEF ScanFrom
    <3>2. CASE Wholes(b, at, end) # {}
      <4>1. Behind(b, at, end) \in at + 1 .. n
        BY <3>2, <2>2, BehindIs
      <4>2. Behind(b, at, end) \in 1 .. n + 1 /\ Behind(b, at, end) # p
        BY <4>1, <2>2, <1>1
      <4>3. h[Behind(b, at, end)] = g[Behind(b, at, end)]
        BY <4>2, <2>3
      <4> QED
        BY <3>2, <4>3 DEF ScanFrom
    <3> QED
      BY <3>1, <3>2
  <2>6. ASSUME NEW at \in p .. n + 1 PROVE h[at] = ScanFrom(h, b, end, at)
    <3>1. CASE at = p
      BY <3>1, <2>3, <2>5
    <3>2. CASE at # p
      <4>1. at \in p + 1 .. n + 1 /\ at \in 1 .. n + 1
        BY <3>2, <2>2, <1>1
      <4>2. g[at] = ScanFrom(g, b, end, at)
        BY <4>1, <2>1, <2>2
      <4> QED
        BY <3>2, <4>1, <4>2, <2>3, <2>5
    <3> QED
      BY <3>1, <3>2
  <2>7. Is(h, k)
    BY <2>4, <2>6
  <2> HIDE DEF Is, p
  <2> QED
    BY <2>7
<1>4. PICK f : Is(f, n)
  <2> HIDE DEF n, T
  <2>1. 0 .. n \subseteq T
    BY <1>1, <1>2, <1>3, UpTo
  <2>2. n \in T
    BY <1>1, <2>1
  <2> QED
    BY <2>2 DEF T
<1>5. n + 1 - n = 1
  BY <1>1
<1>6. \A at \in 1 .. n + 1 : f[at] = ScanFrom(f, b, end, at)
  BY <1>4, <1>5
<1>7. f = [at \in 1 .. n + 1 |-> f[at]]
  BY <1>4
<1>8. f = [at \in 1 .. n + 1 |-> ScanFrom(f, b, end, at)]
  BY <1>6, <1>7
<1>9. IsScan(f, b, end)
  BY <1>1, <1>8 DEF IsScan
<1> QED
  BY <1>9, Zenon DEF Scans

\* What a scan from p finds: rows, one behind the other, as far as anyone has placed them.
ScanRight(scan, b, key, end, p) ==
  /\ scan.stop \in p .. end /\ scan.found \subseteq ProbeRows \X Nat
  /\ \A f \in scan.found : f[2] >= p /\ RowIs(b, key, f[1], f[2]) /\ f[2] + RowBlocks[f[1]] < scan.stop
  /\ \E T \in SUBSET (p .. scan.stop) :
       /\ p \in T /\ scan.stop \in T /\ \A f \in scan.found : f[2] \in T
       /\ \A at \in T \ {scan.stop} : \E r \in ProbeRows :
            /\ RowIs(b, key, r, at) /\ at + RowBlocks[r] + 1 \in T
            /\ \A other \in T : other <= at \/ other > at + RowBlocks[r]
  /\ \A c \in Nat : \A T, some : Tiles(T, b, key, c, some) /\ c <= end /\ p \in T =>
       /\ c <= scan.stop
       /\ \A at \in T \ {c}, r \in ProbeRows : at >= p /\ RowIs(b, key, r, at) => <<r, at>> \in scan.found

LEMMA ScanStops ==
  ASSUME NEW b \in Seq(Blocks), NEW key \in CacheKeys, NEW end \in Nat, end <= Len(b) + 1, OneKey(b, key), NEW p \in 1 .. end,
         Wholes(b, p, end) = {}
  PROVE  ScanRight([found |-> {}, stop |-> p], b, key, end, p)
<1> DEFINE scan == [found |-> {}, stop |-> p]
<1>1. scan.stop = p /\ scan.found = {} /\ p \in p .. end
  OBVIOUS
<1> HIDE DEF scan
<1>2. ASSUME NEW c \in Nat, NEW T, NEW some, Tiles(T, b, key, c, some), c <= end, p \in T, p # c PROVE FALSE
  <2>1. PICK r \in ProbeRows : RowIs(b, key, r, p) /\ p + RowBlocks[r] + 1 \in T
    BY <1>2 DEF Tiles
  <2>2. p + RowBlocks[r] + 1 \in 1 .. c /\ RowBlocks[r] \in Nat
    BY <1>2, <2>1, CacheNumbers DEF Tiles
  <2>3. p + RowBlocks[r] < end /\ p \in Nat
    BY <1>2, <2>2
  <2> QED
    BY <2>1, <2>3, RowIsWhole
<1>3. ASSUME NEW c \in Nat, NEW T, NEW some, Tiles(T, b, key, c, some), c <= end, p \in T
      PROVE  /\ c <= scan.stop
             /\ \A at \in T \ {c}, r \in ProbeRows : at >= p /\ RowIs(b, key, r, at) => <<r, at>> \in scan.found
  <2>1. p = c
    BY <1>2, <1>3
  <2>2. \A at \in T \ {c} : at \in Nat /\ at < c
    BY <1>3 DEF Tiles
  <2> QED
    BY <1>1, <2>1, <2>2
<1>4. {p} \in SUBSET (p .. scan.stop) /\ p \in {p} /\ scan.stop \in {p} /\ {p} \ {scan.stop} = {}
      /\ \A f \in scan.found : f[2] \in {p}
  BY <1>1
<1>5. ScanRight(scan, b, key, end, p)
  BY <1>1, <1>3, <1>4 DEF ScanRight
<1> QED
  BY <1>5 DEF scan

LEMMA ScanGoesOn ==
  ASSUME NEW b \in Seq(Blocks), NEW key \in CacheKeys, NEW end \in Nat, end <= Len(b) + 1, OneKey(b, key), NEW p \in 1 .. end,
         Wholes(b, p, end) # {}, NEW behind, ScanRight(behind, b, key, end, Behind(b, p, end))
  PROVE  ScanRight([found |-> {<<FirstWhole(b, p, end), p>>} \cup behind.found, stop |-> behind.stop], b, key, end, p)
<1> DEFINE x == FirstWhole(b, p, end)
           q == Behind(b, p, end)
           scan == [found |-> {<<x, p>>} \cup behind.found, stop |-> behind.stop]
<1>1. p \in Nat /\ x \in Wholes(b, p, end) /\ q = p + 1 + RowBlocks[x] /\ q \in p + 1 .. Len(b) + 1 /\ q <= end
  BY BehindIs DEF Behind
<1>2. x \in ProbeRows /\ RowIs(b, key, x, p) /\ b[p] = RowHeader(key, x) /\ RowBlocks[x] \in Nat
  BY <1>1, WholesAre, CacheNumbers
<1>3. scan.stop = behind.stop /\ scan.found = {<<x, p>>} \cup behind.found
  OBVIOUS
<1>4. /\ behind.stop \in q .. end /\ behind.found \subseteq ProbeRows \X Nat
      /\ \A f \in behind.found : f[2] >= q /\ RowIs(b, key, f[1], f[2]) /\ f[2] + RowBlocks[f[1]] < behind.stop
  BY DEF ScanRight
<1>5. PICK U \in SUBSET (q .. behind.stop) :
        /\ q \in U /\ behind.stop \in U /\ \A f \in behind.found : f[2] \in U
        /\ \A at \in U \ {behind.stop} : \E r \in ProbeRows :
             /\ RowIs(b, key, r, at) /\ at + RowBlocks[r] + 1 \in U
             /\ \A other \in U : other <= at \/ other > at + RowBlocks[r]
  BY DEF ScanRight
<1>6. ASSUME NEW c \in Nat, NEW T, NEW some, Tiles(T, b, key, c, some), c <= end, q \in T
      PROVE  /\ c <= behind.stop
             /\ \A at \in T \ {c}, r \in ProbeRows : at >= q /\ RowIs(b, key, r, at) => <<r, at>> \in behind.found
  BY <1>6, Zenon DEF ScanRight
<1> HIDE DEF scan, x, q
<1>13. p + RowBlocks[x] + 1 = q
  <2>1. RowBlocks[x] \in Nat /\ p \in Nat /\ q = p + 1 + RowBlocks[x]
    BY <1>1, <1>2
  <2> QED
    BY <2>1
<1>7. scan.stop \in p .. end /\ scan.found \subseteq ProbeRows \X Nat
  BY <1>1, <1>2, <1>3, <1>4
<1>8. ASSUME NEW f \in scan.found
      PROVE  f[2] >= p /\ RowIs(b, key, f[1], f[2]) /\ f[2] + RowBlocks[f[1]] < scan.stop
  <2>1. CASE f = <<x, p>>
    BY <2>1, <1>1, <1>2, <1>3, <1>4
  <2>2. CASE f \in behind.found
    BY <2>2, <1>1, <1>3, <1>4
  <2> QED
    BY <2>1, <2>2, <1>3
<1> DEFINE W == U \cup {p}
<1>9. W \in SUBSET (p .. scan.stop) /\ p \in W /\ scan.stop \in W
  BY <1>1, <1>3, <1>4, <1>5
<1>14. ASSUME NEW f \in scan.found PROVE f[2] \in W
  BY <1>3, <1>5
<1>10. ASSUME NEW at \in W \ {scan.stop}
       PROVE  \E r \in ProbeRows : /\ RowIs(b, key, r, at) /\ at + RowBlocks[r] + 1 \in W
                                   /\ \A other \in W : other <= at \/ other > at + RowBlocks[r]
  <2>1. CASE at = p
    <3>1. at + RowBlocks[x] + 1 = q /\ q \in W
      BY <2>1, <1>13, <1>5
    <3>2. ASSUME NEW other \in W PROVE other <= at \/ other > at + RowBlocks[x]
      <4>1. CASE other = p
        BY <4>1, <2>1, <1>1
      <4>2. CASE other \in U
        <5>1. other \in q .. behind.stop
          BY <4>2
        <5> QED
          BY <5>1, <2>1, <1>1, <1>2, <1>4
      <4> QED
        BY <4>1, <4>2
    <3> QED
      BY <2>1, <1>2, <3>1, <3>2
  <2>2. CASE at \in U
    <3>1. PICK r \in ProbeRows : /\ RowIs(b, key, r, at) /\ at + RowBlocks[r] + 1 \in U
                                 /\ \A other \in U : other <= at \/ other > at + RowBlocks[r]
      BY <1>3, <1>5, <2>2
    <3>2. at \in q .. behind.stop
      BY <2>2
    <3>3. p <= at
      BY <3>2, <1>1, <1>4
    <3> QED
      BY <3>1, <3>3
  <2> QED
    BY <2>1, <2>2
<1> HIDE DEF W
<1>11. ASSUME NEW c \in Nat, NEW T, NEW some, Tiles(T, b, key, c, some), c <= end, p \in T
       PROVE  /\ c <= scan.stop
              /\ \A at \in T \ {c}, r \in ProbeRows : at >= p /\ RowIs(b, key, r, at) => <<r, at>> \in scan.found
  <2>1. T \subseteq 1 .. c
    BY <1>11 DEF Tiles
  <2>2. CASE p = c
    <3>1. \A at \in T \ {c} : at \in Nat /\ at < c
      BY <2>1
    <3>2. c <= scan.stop
      BY <2>2, <1>7
    <3> QED
      BY <2>2, <3>1, <3>2
  <2>3. CASE p # c
    <3>1. PICK s \in ProbeRows : /\ RowIs(b, key, s, p) /\ p + RowBlocks[s] + 1 \in T
                                 /\ \A other \in T : other <= p \/ other > p + RowBlocks[s]
      BY <1>11, <2>3 DEF Tiles
    <3>2. b[p] = RowHeader(key, s)
      BY <1>1, <3>1, RowIsBlocks
    <3>6. RowHeader(key, s) = RowHeader(key, x)
      BY <1>2, <3>2
    <3>3. s = x
      BY <3>6, HeadersDiffer
    <3>4. q \in T
      BY <1>13, <3>1, <3>3
    <3>5. c <= behind.stop /\ \A at \in T \ {c}, r \in ProbeRows : at >= q /\ RowIs(b, key, r, at) => <<r, at>> \in behind.found
      BY <1>6, <1>11, <3>4
    <3>7. ASSUME NEW at \in T \ {c}, NEW r \in ProbeRows, at >= p, RowIs(b, key, r, at) PROVE <<r, at>> \in scan.found
      <4>1. CASE at = p
        <5>1. b[p] = RowHeader(key, r)
          BY <4>1, <3>7, <1>1, RowIsBlocks
        <5>2. r = x
          BY <1>2, <5>1, HeadersDiffer
        <5> QED
          BY <4>1, <5>2, <1>3
      <4>2. CASE at # p
        <5>1. at \in Nat /\ at > p + RowBlocks[x]
          BY <4>2, <3>1, <3>3, <3>7, <2>1, <1>1
        <5>2. at >= q
          BY <5>1, <1>1, <1>2
        <5> QED
          BY <5>2, <3>5, <3>7, <1>3
      <4> QED
        BY <4>1, <4>2
    <3> QED
      BY <3>5, <3>7, <1>3
  <2> QED
    BY <2>2, <2>3
<1>12. ScanRight(scan, b, key, end, p)
  BY <1>7, <1>8, <1>9, <1>10, <1>11, <1>14 DEF ScanRight
<1> QED
  BY <1>12 DEF scan, x

LEMMA ScansAreRight ==
  ASSUME NEW b \in Seq(Blocks), NEW key \in CacheKeys, NEW end \in Nat, end <= Len(b) + 1, OneKey(b, key), NEW p \in 1 .. end
  PROVE  ScanRight(Scans(b, end)[p], b, key, end, p)
<1> DEFINE f == Scans(b, end)
           T == {k \in 0 .. end - 1 : \A at \in end - k .. end : ScanRight(f[at], b, key, end, at)}
<1>1. \A at \in 1 .. end : f[at] = ScanFrom(f, b, end, at)
  <2>1. f = [at \in 1 .. Len(b) + 2 |-> ScanFrom(f, b, end, at)]
    BY ScansIs DEF IsScan
  <2> HIDE DEF f
  <2>2. \A at \in 1 .. end : at \in 1 .. Len(b) + 2
    OBVIOUS
  <2> QED
    BY <2>1, <2>2
<1> HIDE DEF f
<1>2. ASSUME NEW at \in 1 .. end, \A other \in at + 1 .. end : ScanRight(f[other], b, key, end, other)
      PROVE  ScanRight(f[at], b, key, end, at)
  <2>1. CASE Wholes(b, at, end) = {}
    <3>1. f[at] = [found |-> {}, stop |-> at]
      BY <1>1, <2>1, Zenon DEF ScanFrom
    <3> QED
      BY <3>1, <2>1, ScanStops
  <2>2. CASE Wholes(b, at, end) # {}
    <3>1. f[at] = [found |-> {<<FirstWhole(b, at, end), at>>} \cup f[Behind(b, at, end)].found, stop |-> f[Behind(b, at, end)].stop]
      BY <1>1, <2>2, Zenon DEF ScanFrom
    <3>2. Behind(b, at, end) \in at + 1 .. end
      BY <2>2, BehindIs
    <3> QED
      BY <1>2, <2>2, <3>1, <3>2, ScanGoesOn
  <2> QED
    BY <2>1, <2>2
<1>3. 0 \in T
  <2>1. end \in 1 .. end /\ \A other \in end + 1 .. end : FALSE
    OBVIOUS
  <2>2. ScanRight(f[end], b, key, end, end)
    BY <1>2, <2>1
  <2>3. 0 \in 0 .. end - 1 /\ \A at \in end - 0 .. end : at = end
    OBVIOUS
  <2> QED
    BY <2>2, <2>3
<1>4. ASSUME NEW k \in 1 .. end - 1, k - 1 \in T PROVE k \in T
  <2>1. \A at \in end - k + 1 .. end : ScanRight(f[at], b, key, end, at)
    <3>1. end - (k - 1) = end - k + 1
      OBVIOUS
    <3> QED
      BY <1>4, <3>1
  <2>2. end - k \in 1 .. end
    OBVIOUS
  <2>3. ScanRight(f[end - k], b, key, end, end - k)
    BY <1>2, <2>1, <2>2
  <2>4. \A at \in end - k .. end : at = end - k \/ at \in end - k + 1 .. end
    OBVIOUS
  <2> QED
    BY <2>1, <2>3, <2>4
<1>5. end - 1 \in Nat /\ end - 1 \in 0 .. end - 1 /\ p \in end - (end - 1) .. end
  OBVIOUS
<1>6. end - 1 \in T
  <2> HIDE DEF T
  <2>1. 0 .. end - 1 \subseteq T
    BY <1>3, <1>4, <1>5, UpTo
  <2> QED
    BY <1>5, <2>1
<1> QED
  BY <1>5, <1>6 DEF f

\* What a bake resumes from: every row that was placed is found, and the scan stops behind the last.
Resumable(b, key, end, x, stop) ==
  /\ stop \in 1 .. end /\ x \in [ProbeRows -> Nat]
  /\ WholeBelow(b, key, x, stop) /\ Tiled(b, key, stop, {r \in ProbeRows : x[r] > 0})
  /\ \A c \in Nat, some \in SUBSET ProbeRows : Tiled(b, key, c, some) /\ c <= end => c <= stop /\ \A r \in some : x[r] > 0

LEMMA IndexIs ==
  ASSUME NEW n \in Nat, NEW found \in SUBSET (ProbeRows \X (1 .. n))
  PROVE  /\ IndexOf(found) \in [ProbeRows -> Nat]
         /\ \A r \in ProbeRows : IndexOf(found)[r] > 0 => <<r, IndexOf(found)[r]>> \in found
         /\ \A f \in found : IndexOf(found)[f[1]] > 0
<1> DEFINE Copies(r) == {f[2] : f \in {x \in found : x[1] = r}}
           LastCopy(r) == IF Copies(r) = {} THEN 0 ELSE Max(Copies(r))
<1>1. IndexOf(found) = [r \in ProbeRows |-> LastCopy(r)]
  BY Zenon DEF IndexOf
<1>2. ASSUME NEW r \in ProbeRows
      PROVE  /\ Copies(r) \in SUBSET (1 .. n) /\ \A m \in Copies(r) : <<r, m>> \in found
  BY <1>2
<1>3. ASSUME NEW r \in ProbeRows
      PROVE  /\ LastCopy(r) \in Nat /\ (LastCopy(r) > 0 => <<r, LastCopy(r)>> \in found)
             /\ Copies(r) # {} => LastCopy(r) > 0
  <2> DEFINE a == Copies(r)
  <2>1. a \in SUBSET (1 .. n) /\ \A m \in a : <<r, m>> \in found
    BY <1>2
  <2>2. LastCopy(r) = IF a = {} THEN 0 ELSE Max(a)
    OBVIOUS
  <2> HIDE DEF a, Copies, LastCopy
  <2>3. CASE a = {}
    BY <2>1, <2>2, <2>3 DEF a
  <2>4. CASE a # {}
    <3>1. Max(a) \in a
      BY <2>1, <2>4, MaxOf
    <3>2. Max(a) \in Nat /\ Max(a) > 0 /\ <<r, Max(a)>> \in found
      <4> DEFINE m == Max(a)
      <4>1. m \in a
        BY <3>1
      <4> HIDE DEF m
      <4>2. m \in 1 .. n /\ <<r, m>> \in found
        BY <2>1, <4>1
      <4>3. m \in Nat /\ m > 0
        BY <4>2
      <4> QED
        BY <4>2, <4>3 DEF m
    <3>3. LastCopy(r) = Max(a)
      BY <2>2, <2>4
    <3> QED
      BY <3>2, <3>3
  <2> QED
    BY <2>3, <2>4
<1>4. ASSUME NEW f \in found PROVE f[1] \in ProbeRows /\ Copies(f[1]) # {}
  OBVIOUS
<1> HIDE DEF Copies, LastCopy
<1> QED
  BY <1>1, <1>3, <1>4

LEMMA ScanResumes ==
  ASSUME NEW file \in CacheFiles, NEW key \in CacheKeys, OneKey(file.blocks, key),
         ScanEnd(file) \in 1 .. Len(file.blocks) + 1
  PROVE  Resumable(file.blocks, key, ScanEnd(file), IndexOf(Scan(file).found), Scan(file).stop)
<1> DEFINE b == file.blocks
           end == ScanEnd(file)
           scan == Scan(file)
           x == IndexOf(scan.found)
<1>1. b \in Seq(Blocks) /\ end \in Nat /\ end <= Len(b) + 1 /\ 1 \in 1 .. end /\ Len(b) \in Nat
  BY DEF CacheFiles
<1>2. scan = Scans(b, end)[1]
  BY ScanOpens
<1> HIDE DEF b, end, scan
<1>3. ScanRight(scan, b, key, end, 1)
  BY <1>1, <1>2, ScansAreRight DEF b
<1>4. /\ scan.stop \in 1 .. end /\ scan.found \subseteq ProbeRows \X Nat
      /\ \A f \in scan.found : f[2] >= 1 /\ RowIs(b, key, f[1], f[2]) /\ f[2] + RowBlocks[f[1]] < scan.stop
  BY <1>3 DEF ScanRight
<1>5. scan.found \in SUBSET (ProbeRows \X (1 .. end))
  <2>1. ASSUME NEW f \in scan.found PROVE f \in ProbeRows \X (1 .. end)
    <3>1. f[1] \in ProbeRows /\ f[2] \in Nat /\ f = <<f[1], f[2]>>
      BY <1>4
    <3>2. RowBlocks[f[1]] \in Nat
      BY <3>1, CacheNumbers
    <3>3. f[2] \in 1 .. end
      BY <1>1, <1>4, <3>1, <3>2
    <3> QED
      BY <3>1, <3>3
  <2> QED
    BY <2>1
<1>6. /\ x \in [ProbeRows -> Nat]
      /\ \A r \in ProbeRows : x[r] > 0 => <<r, x[r]>> \in scan.found
      /\ \A f \in scan.found : x[f[1]] > 0
  BY <1>1, <1>5, IndexIs
<1> HIDE DEF x
<1>7. WholeBelow(b, key, x, scan.stop)
  <2>1. ASSUME NEW r \in ProbeRows, x[r] > 0 PROVE RowIs(b, key, r, x[r]) /\ x[r] + RowBlocks[r] < scan.stop
    <3> DEFINE f == <<r, x[r]>>
    <3>1. f \in scan.found /\ f[1] = r /\ f[2] = x[r]
      BY <1>6, <2>1
    <3> HIDE DEF f
    <3>2. RowIs(b, key, f[1], f[2]) /\ f[2] + RowBlocks[f[1]] < scan.stop
      BY <1>4, <3>1
    <3> QED
      BY <3>1, <3>2
  <2> QED
    BY <2>1 DEF WholeBelow
<1>8. PICK T \in SUBSET (1 .. scan.stop) :
        /\ 1 \in T /\ scan.stop \in T /\ \A f \in scan.found : f[2] \in T
        /\ \A at \in T \ {scan.stop} : \E r \in ProbeRows :
             /\ RowIs(b, key, r, at) /\ at + RowBlocks[r] + 1 \in T
             /\ \A other \in T : other <= at \/ other > at + RowBlocks[r]
  BY <1>3 DEF ScanRight
<1> DEFINE placedRows == {r \in ProbeRows : x[r] > 0}
<1>9. Tiled(b, key, scan.stop, placedRows)
  <2>1. ASSUME NEW r \in placedRows PROVE \E at \in T \ {scan.stop} : RowIs(b, key, r, at) /\ at + RowBlocks[r] < scan.stop
    <3> DEFINE f == <<r, x[r]>>
    <3>1. f \in scan.found /\ f[1] = r /\ f[2] = x[r]
      BY <1>6
    <3> HIDE DEF f
    <3>2. x[r] \in T
      BY <1>8, <3>1
    <3>3. RowIs(b, key, r, x[r]) /\ x[r] + RowBlocks[r] < scan.stop
      BY <1>7 DEF WholeBelow
    <3>4. x[r] # scan.stop
      <4>1. RowBlocks[r] \in Nat /\ x[r] \in Nat
        BY <1>6, CacheNumbers
      <4> QED
        BY <3>3, <4>1, <1>4
    <3> QED
      BY <3>2, <3>3, <3>4
  <2>2. scan.stop <= Len(b) + 1
    BY <1>1, <1>4
  <2>3. Tiles(T, b, key, scan.stop, placedRows)
    BY <1>8, <2>1, <2>2 DEF Tiles
  <2> QED
    BY <2>3 DEF Tiled
<1>10. \A c \in Nat : \A U, some : Tiles(U, b, key, c, some) /\ c <= end /\ 1 \in U =>
         /\ c <= scan.stop
         /\ \A at \in U \ {c}, r \in ProbeRows : at >= 1 /\ RowIs(b, key, r, at) => <<r, at>> \in scan.found
  BY <1>3, Zenon DEF ScanRight
<1>11. ASSUME NEW c \in Nat, NEW some \in SUBSET ProbeRows, Tiled(b, key, c, some), c <= end
       PROVE  c <= scan.stop /\ \A r \in some : x[r] > 0
  <2>1. PICK U : Tiles(U, b, key, c, some)
    BY <1>11 DEF Tiled
  <2>2. 1 \in U /\ \A at \in U : at >= 1
    BY <2>1 DEF Tiles
  <2>3. c <= scan.stop /\ \A at \in U \ {c}, r \in ProbeRows : at >= 1 /\ RowIs(b, key, r, at) => <<r, at>> \in scan.found
    BY <1>10, <1>11, <2>1, <2>2
  <2>4. ASSUME NEW r \in some PROVE x[r] > 0
    <3>1. PICK at \in U \ {c} : RowIs(b, key, r, at)
      BY <2>1 DEF Tiles
    <3> DEFINE f == <<r, at>>
    <3>2. f \in scan.found /\ f[1] = r
      BY <2>2, <2>3, <3>1
    <3> HIDE DEF f
    <3> QED
      BY <1>6, <3>2
  <2> QED
    BY <2>3, <2>4
<1>12. Resumable(b, key, end, x, scan.stop)
  BY <1>4, <1>6, <1>7, <1>9, <1>11 DEF Resumable
<1> QED
  BY <1>12 DEF b, end, x, scan

(* What holds of the files and the reader                                    *)

WriterRight(p, rd, x, c, ack) ==
  rd.open = "partial" =>
    /\ p.head.key = rd.key /\ Tiled(p.blocks, rd.key, c, {r \in ProbeRows : x[r] > 0})
    /\ WholeBelow(p.blocks, rd.key, x, c) /\ \A r \in ack : x[r] > 0
\* Once a header says so the rows are all there, on the disk too, and no longer change.
Sealed(p, d, rd, x, c) ==
  /\ p.head.finished =>
       /\ Len(p.blocks) = p.head.at /\ Len(d.blocks) = p.head.at
       /\ \A i \in 1 .. p.head.at - 1 : p.blocks[i] = d.blocks[i]
       /\ Tiled(p.blocks, p.head.key, p.head.at, ProbeRows)
       /\ rd.open = "partial" => c = p.head.at /\ \A r \in ProbeRows : x[r] > 0
  /\ d.head.finished => d.head = p.head
BakeRight(p, d, rd, x, c, ack) ==
  /\ p \in CacheFiles /\ d \in CacheFiles /\ d.head.key = p.head.key
  /\ OneKey(p.blocks, p.head.key) /\ OneKey(d.blocks, d.head.key)
  /\ p # NoFile => \E n \in Nat : Tiled(p.blocks, p.head.key, n, ack)
  /\ WriterRight(p, rd, x, c, ack) /\ Sealed(p, d, rd, x, c)
\* A file in the cache's place names all its rows, which are whole.
CompleteFile(f) ==
  /\ f.head.finished /\ f.head.key \in CacheKeys /\ f.head.at > 0 /\ Len(f.blocks) = f.head.at
  /\ \E x \in [ProbeRows -> Nat] :
       /\ f.blocks[f.head.at] = IndexBlock(x) /\ \A r \in ProbeRows : x[r] > 0
       /\ WholeBelow(f.blocks, f.head.key, x, f.head.at)
PublishedRight(f, rd, x) ==
  /\ f \in CacheFiles
  /\ f # NoFile => CompleteFile(f)
  /\ rd.open = "published" => \A r \in ProbeRows : x[r] > 0 => RowIs(f.blocks, rd.key, r, x[r])
ReaderRight(rd, x, c, ack) ==
  /\ rd \in [open : {"no", "partial", "published"}, key : CacheWords] /\ (rd.open # "no" => rd.key \in CacheKeys)
  /\ x \in [ProbeRows -> Nat] /\ c \in Nat /\ c > 0 /\ ack \in SUBSET ProbeRows

CacheSafe ==
  /\ BakeRight(partial, durable, reader, rowAt, cursorAt, acknowledged)
  /\ PublishedRight(published, reader, rowAt)
  /\ ReaderRight(reader, rowAt, cursorAt, acknowledged)
  /\ pages \in Seq(ProbeRows) /\ PagesFit

LEMMA NoFileIs ==
  /\ NoFile \in CacheFiles /\ NoFile.blocks = << >> /\ NoFile.head.key = "none" /\ NoFile.head.finished = FALSE
  /\ OneKey(NoFile.blocks, "none") /\ Len(NoFile.blocks) = 0
<1>1. << >> \in Seq(Blocks) /\ Len(<< >>) = 0
  OBVIOUS
<1>2. NoFile \in CacheFiles /\ NoFile.blocks = << >> /\ NoFile.head.key = "none" /\ NoFile.head.finished = FALSE
  BY <1>1 DEF NoFile, Header, CacheFiles, CacheWords
<1> QED
  BY <1>1, <1>2 DEF OneKey

LEMMA ClosedIs ==
  ASSUME NEW p, NEW d, NEW rd, NEW x, NEW c, NEW ack, BakeRight(p, d, rd, x, c, ack), NEW other, other.open # "partial", NEW y, NEW e
  PROVE  BakeRight(p, d, other, y, e, ack)
BY DEF BakeRight, WriterRight, Sealed

LEMMA NoRowsIs == NoRows \in [ProbeRows -> Nat] /\ (\A r \in ProbeRows : NoRows[r] = 0) /\ ReaderRight(Closed, NoRows, 1, {})
                  /\ Closed.open = "no"
BY DEF NoRows, Closed, ReaderRight, CacheWords

LEMMA CacheStart == PathCacheInit => CacheSafe
<1> SUFFICES ASSUME PathCacheInit PROVE CacheSafe
  OBVIOUS
<1>1. /\ published = NoFile /\ partial = NoFile /\ durable = NoFile /\ reader = Closed /\ rowAt = NoRows /\ cursorAt = 1
      /\ pages = <<>> /\ acknowledged = {}
  BY DEF PathCacheInit
<1>2. BakeRight(partial, durable, reader, rowAt, cursorAt, acknowledged)
  BY <1>1, NoFileIs, NoRowsIs DEF BakeRight, WriterRight, Sealed
<1>3. PublishedRight(published, reader, rowAt)
  BY <1>1, NoFileIs, NoRowsIs DEF PublishedRight
<1>4. ReaderRight(reader, rowAt, cursorAt, acknowledged)
  BY <1>1, NoRowsIs
<1>5. pages \in Seq(ProbeRows) /\ PagesFit
  BY <1>1 DEF PagesFit
<1> QED
  BY <1>2, <1>3, <1>4, <1>5 DEF CacheSafe

LEMMA IndexBlockIs == ASSUME NEW x PROVE IndexBlock(x).is = "index" /\ IndexBlock(x).rowAt = x
BY DEF IndexBlock

LEMMA CacheSafeIsEnough == CacheSafe => PathCacheInv
<1> SUFFICES ASSUME CacheSafe PROVE PathCacheInv
  OBVIOUS
<1>1. /\ BakeRight(partial, durable, reader, rowAt, cursorAt, acknowledged) /\ PublishedRight(published, reader, rowAt)
      /\ ReaderRight(reader, rowAt, cursorAt, acknowledged) /\ PagesFit
  BY DEF CacheSafe
<1>2. published.blocks \in Seq(Blocks) /\ partial.blocks \in Seq(Blocks) /\ published.head.at \in Nat
  BY <1>1 DEF PublishedRight, BakeRight, CacheFiles
<1>3. IndexedRowsAreWhole
  <2>1. ASSUME NEW r \in ProbeRows, rowAt[r] > 0, reader.open # "no"
        PROVE  SubSeq(FileOpen.blocks, rowAt[r], rowAt[r] + RowBlocks[r]) = RowOnDisk(reader.key, r)
    <3>1. rowAt[r] \in Nat /\ reader.key \in CacheKeys /\ reader.open \in {"no", "partial", "published"}
      BY <1>1, <2>1 DEF ReaderRight
    <3>2. CASE reader.open = "published"
      <4>1. FileOpen = published /\ RowIs(published.blocks, reader.key, r, rowAt[r])
        BY <1>1, <2>1, <3>2 DEF FileOpen, PublishedRight
      <4> QED
        BY <1>2, <3>1, <4>1, RowIsBlocks
    <3>3. CASE reader.open = "partial"
      <4>1. FileOpen = partial /\ WholeBelow(partial.blocks, reader.key, rowAt, cursorAt)
        BY <1>1, <3>3 DEF FileOpen, BakeRight, WriterRight
      <4>2. RowIs(partial.blocks, reader.key, r, rowAt[r])
        BY <2>1, <4>1 DEF WholeBelow
      <4> QED
        BY <1>2, <3>1, <4>1, <4>2, RowIsBlocks
    <3> QED
      BY <2>1, <3>1, <3>2, <3>3
  <2> QED
    BY <2>1 DEF IndexedRowsAreWhole
<1>4. PublishedIsComplete
  <2>1. ASSUME published # NoFile, NEW r \in ProbeRows
        PROVE  WholeRow(published.blocks, r, Last(published.blocks).rowAt[r], published.head.at)
    <3>1. CompleteFile(published)
      BY <1>1, <2>1 DEF PublishedRight
    <3>2. PICK x \in [ProbeRows -> Nat] :
            /\ published.blocks[published.head.at] = IndexBlock(x) /\ x[r] > 0
            /\ WholeBelow(published.blocks, published.head.key, x, published.head.at)
      BY <3>1 DEF CompleteFile
    <3>3. Last(published.blocks) = IndexBlock(x) /\ published.head.key \in CacheKeys
      BY <3>1, <3>2 DEF CompleteFile, Last
    <3>4. Last(published.blocks).rowAt = x
      BY <3>3, IndexBlockIs
    <3>5. RowIs(published.blocks, published.head.key, r, x[r]) /\ x[r] + RowBlocks[r] < published.head.at /\ x[r] \in Nat
      BY <3>2 DEF WholeBelow
    <3> QED
      BY <1>2, <3>3, <3>4, <3>5, RowIsWhole
  <2> QED
    BY <2>1 DEF PublishedIsComplete
<1>5. NoRowIsLost
  BY <1>1 DEF NoRowIsLost, IsWriter, BakeRight, WriterRight
<1> QED
  BY <1>1, <1>3, <1>4, <1>5 DEF PathCacheInv

\* The conjuncts of CacheSafe in the next state, for an action that says what each file becomes.
LEMMA CacheNext ==
  ASSUME BakeRight(partial', durable', reader', rowAt', cursorAt', acknowledged'),
         PublishedRight(published', reader', rowAt'), ReaderRight(reader', rowAt', cursorAt', acknowledged'),
         pages' \in Seq(ProbeRows), PagesFit'
  PROVE  CacheSafe'
BY Zenon DEF CacheSafe

LEMMA PagesStay ==
  ASSUME CacheSafe, UNCHANGED pages \/ pages' = << >> PROVE pages' \in Seq(ProbeRows) /\ PagesFit'
<1>1. CASE UNCHANGED pages
  BY <1>1 DEF CacheSafe, PagesFit, PagesTake
<1>2. CASE pages' = << >>
  <2>1. Len(pages') = 0 /\ pages' \in Seq(ProbeRows)
    BY <1>2
  <2> QED
    BY <2>1 DEF PagesFit
<1> QED
  BY <1>1, <1>2

LEMMA ClosesKept ==
  ASSUME CacheSafe, reader' = Closed, rowAt' = NoRows, cursorAt' = 1, pages' = << >>,
         UNCHANGED <<published, partial, durable, acknowledged>>
  PROVE  CacheSafe'
<1>1. BakeRight(partial', durable', reader', rowAt', cursorAt', acknowledged')
  BY NoRowsIs, ClosedIs DEF CacheSafe
<1>2. PublishedRight(published', reader', rowAt')
  BY NoRowsIs DEF CacheSafe, PublishedRight
<1>3. ReaderRight(reader', rowAt', cursorAt', acknowledged')
  BY NoRowsIs DEF CacheSafe, ReaderRight
<1> QED
  BY <1>1, <1>2, <1>3, PagesStay, CacheNext

LEMMA OpensPublishedKept ==
  ASSUME CacheSafe, NEW key \in CacheKeys, CanOpen(key), OpensPublished(key) PROVE CacheSafe'
<1>1. /\ reader' = [open |-> "published", key |-> key] /\ rowAt' = Last(published.blocks).rowAt
      /\ cursorAt' = published.head.at /\ pages' = << >> /\ UNCHANGED <<published, partial, durable, acknowledged>>
  BY DEF OpensPublished
<1>2. reader'.open = "published" /\ reader'.key = key /\ reader' \in [open : {"no", "partial", "published"}, key : CacheWords]
  BY <1>1 DEF CacheWords
<1>3. published.head.key = key
  BY DEF CanOpen, HeaderIsOf
<1>4. published # NoFile
  BY <1>3, NoFileIs, CacheWordsIs
<1>5. CompleteFile(published) /\ published \in CacheFiles
  BY <1>4 DEF CacheSafe, PublishedRight
<1>6. PICK x \in [ProbeRows -> Nat] :
        /\ published.blocks[published.head.at] = IndexBlock(x)
        /\ WholeBelow(published.blocks, published.head.key, x, published.head.at)
  BY <1>5 DEF CompleteFile
<1>7. rowAt' = x
  <2>1. Last(published.blocks) = IndexBlock(x)
    BY <1>5, <1>6 DEF CompleteFile, Last
  <2> QED
    BY <1>1, <2>1, IndexBlockIs
<1>8. BakeRight(partial', durable', reader', rowAt', cursorAt', acknowledged')
  BY <1>1, <1>2, ClosedIs DEF CacheSafe
<1>9. PublishedRight(published', reader', rowAt')
  BY <1>1, <1>2, <1>3, <1>5, <1>6, <1>7 DEF PublishedRight, WholeBelow
<1>10. ReaderRight(reader', rowAt', cursorAt', acknowledged')
  <2>1. published.head.at \in Nat /\ published.head.at > 0
    BY <1>5 DEF CompleteFile, CacheFiles
  <2> QED
    BY <1>1, <1>2, <1>7, <2>1 DEF CacheSafe, ReaderRight
<1> QED
  BY <1>1, <1>8, <1>9, <1>10, PagesStay, CacheNext

LEMMA CreatePartialKept ==
  ASSUME CacheSafe, NEW key \in CacheKeys, NEW written \in BOOLEAN, CreatePartial(key, written), pages' = << >>, UNCHANGED published
  PROVE  CacheSafe'
<1> DEFINE word == IF written THEN key ELSE "torn"
<1>1. /\ partial' = [head |-> Header(word, FALSE, 0), blocks |-> << >>] /\ durable' = partial'
      /\ rowAt' = NoRows /\ cursorAt' = 1 /\ acknowledged' = {}
      /\ reader' = IF written THEN [open |-> "partial", key |-> key] ELSE Closed
  BY DEF CreatePartial, TornHeader
<1>2. /\ partial'.head = Header(word, FALSE, 0) /\ partial'.blocks = << >>
      /\ partial'.head.key = word /\ partial'.head.finished = FALSE
  BY <1>1 DEF Header
<1>3. << >> \in Seq(Blocks) /\ Len(<< >>) = 0
  OBVIOUS
<1>4. partial' \in CacheFiles
  BY <1>1, <1>3 DEF CacheFiles, Header, CacheWords
<1>5. OneKey(partial'.blocks, word) /\ Tiled(partial'.blocks, word, 1, {})
  <2>1. Len(partial'.blocks) = 0
    BY <1>2, <1>3
  <2> QED
    BY <2>1, TilesNone DEF OneKey
<1>6. WriterRight(partial', reader', rowAt', cursorAt', acknowledged')
  <2>1. CASE written
    <3>1. reader'.key = key /\ word = key /\ {r \in ProbeRows : rowAt'[r] > 0} = {}
      BY <1>1, <2>1, NoRowsIs
    <3>2. WholeBelow(partial'.blocks, key, rowAt', 1)
      BY <1>1, NoRowsIs DEF WholeBelow
    <3> QED
      BY <1>1, <1>2, <1>5, <3>1, <3>2 DEF WriterRight
  <2>2. CASE ~written
    BY <1>1, <2>2 DEF WriterRight, Closed
  <2> QED
    BY <2>1, <2>2
<1>7. BakeRight(partial', durable', reader', rowAt', cursorAt', acknowledged')
  <2>1. Sealed(partial', durable', reader', rowAt', cursorAt')
    BY <1>1, <1>2 DEF Sealed
  <2>2. 1 \in Nat
    OBVIOUS
  <2> QED
    BY <1>1, <1>2, <1>4, <1>5, <1>6, <2>1, <2>2 DEF BakeRight
<1>8. reader'.open # "published" /\ reader' \in [open : {"no", "partial", "published"}, key : CacheWords]
      /\ (reader'.open # "no" => reader'.key \in CacheKeys)
  BY <1>1 DEF Closed, CacheWords
<1>9. PublishedRight(published', reader', rowAt')
  BY <1>8 DEF CacheSafe, PublishedRight
<1>10. ReaderRight(reader', rowAt', cursorAt', acknowledged')
  BY <1>1, <1>8, NoRowsIs DEF ReaderRight
<1> QED
  BY <1>7, <1>9, <1>10, PagesStay, CacheNext

LEMMA ResumeKept ==
  ASSUME CacheSafe, NEW key \in CacheKeys, Resume(key), pages' = << >>, UNCHANGED published PROVE CacheSafe'
<1>1. partial # NoFile /\ UNCHANGED <<partial, durable, acknowledged>>
  BY DEF Resume
<1>2. CASE partial.head.key # key
  BY <1>1, <1>2, ClosesKept DEF Resume, HeaderIsOf
<1>3. CASE partial.head.key = key
  <2> DEFINE x == IndexOf(Scan(partial).found)
             stop == Scan(partial).stop
             b == partial.blocks
             end == ScanEnd(partial)
  <2>1. reader' = [open |-> "partial", key |-> key] /\ rowAt' = x /\ cursorAt' = stop
    BY <1>3 DEF Resume, HeaderIsOf
  <2>2. BakeRight(partial, durable, reader, rowAt, cursorAt, acknowledged) /\ ReaderRight(reader, rowAt, cursorAt, acknowledged)
    BY DEF CacheSafe
  <2>3. partial \in CacheFiles /\ OneKey(b, key) /\ b \in Seq(Blocks) /\ Len(b) \in Nat
    BY <1>3, <2>2 DEF BakeRight, CacheFiles
  <2>4. Sealed(partial, durable, reader, rowAt, cursorAt) /\ \E n \in Nat : Tiled(b, key, n, acknowledged)
    BY <1>1, <1>3, <2>2 DEF BakeRight
  <2>5. partial.head.finished => Len(b) = partial.head.at /\ Tiled(b, key, partial.head.at, ProbeRows) /\ partial.head.at > 0
    <3>1. partial.head.finished => Len(b) = partial.head.at /\ Tiled(b, key, partial.head.at, ProbeRows)
      BY <1>3, <2>4 DEF Sealed
    <3>2. Tiled(b, key, partial.head.at, ProbeRows) /\ partial.head.at \in Nat => partial.head.at > 0
      BY DEF Tiled, Tiles
    <3> QED
      BY <2>3, <3>1, <3>2
  <2>6. end \in 1 .. Len(b) + 1
    BY <2>3, <2>5 DEF ScanEnd
  <2>7. Resumable(b, key, end, x, stop)
    BY <2>3, <2>6, ScanResumes
  <2> HIDE DEF x, stop
  <2>8. reader'.open = "partial" /\ reader'.key = key /\ reader' \in [open : {"no", "partial", "published"}, key : CacheWords]
    BY <2>1 DEF CacheWords
  <2>9. \A c \in Nat, some \in SUBSET ProbeRows : Tiled(b, key, c, some) /\ c <= end => c <= stop /\ \A r \in some : x[r] > 0
    BY <2>7 DEF Resumable
  <2>10. stop \in 1 .. end /\ x \in [ProbeRows -> Nat] /\ WholeBelow(b, key, x, stop)
         /\ Tiled(b, key, stop, {r \in ProbeRows : x[r] > 0})
    BY <2>7 DEF Resumable
  <2>11. acknowledged \in SUBSET ProbeRows
    BY <2>2 DEF ReaderRight
  <2>12. \A r \in acknowledged : x[r] > 0
    <3>1. CASE partial.head.finished
      <4>1. Len(b) = partial.head.at /\ end = partial.head.at /\ Tiled(b, key, end, ProbeRows) /\ end \in Nat
        BY <2>3, <2>5, <3>1 DEF ScanEnd
      <4>2. end <= end /\ ProbeRows \in SUBSET ProbeRows
        BY <4>1
      <4>3. \A r \in ProbeRows : x[r] > 0
        BY <2>9, <4>1, <4>2
      <4> QED
        BY <2>11, <4>3
    <3>2. CASE ~partial.head.finished
      <4>1. PICK n \in Nat : Tiled(b, key, n, acknowledged)
        BY <2>4
      <4>2. n <= end
        BY <3>2, <4>1 DEF Tiled, Tiles, ScanEnd
      <4> QED
        BY <2>9, <2>11, <4>1, <4>2
    <3> QED
      BY <3>1, <3>2
  <2>13. WriterRight(partial', reader', rowAt', cursorAt', acknowledged')
    BY <1>1, <1>3, <2>1, <2>8, <2>10, <2>12 DEF WriterRight
  <2>14. Sealed(partial', durable', reader', rowAt', cursorAt')
    <3>1. ASSUME partial.head.finished PROVE stop = partial.head.at /\ \A r \in ProbeRows : x[r] > 0
      <4>1. end = partial.head.at /\ Tiled(b, key, end, ProbeRows) /\ end \in Nat
        BY <2>3, <2>5, <3>1 DEF ScanEnd
      <4>2. end <= end /\ ProbeRows \in SUBSET ProbeRows
        BY <4>1
      <4>3. end <= stop /\ \A r \in ProbeRows : x[r] > 0
        BY <2>9, <4>1, <4>2
      <4> QED
        BY <2>10, <4>1, <4>3
    <3> QED
      BY <1>1, <2>1, <2>4, <3>1 DEF Sealed
  <2>15. BakeRight(partial', durable', reader', rowAt', cursorAt', acknowledged')
    BY <1>1, <2>2, <2>13, <2>14 DEF BakeRight
  <2>16. PublishedRight(published', reader', rowAt')
    BY <2>8 DEF CacheSafe, PublishedRight
  <2>17. ReaderRight(reader', rowAt', cursorAt', acknowledged')
    BY <1>1, <2>1, <2>2, <2>8, <2>10 DEF ReaderRight
  <2> QED
    BY <2>15, <2>16, <2>17, PagesStay, CacheNext
<1> QED
  BY <1>2, <1>3

\* The rows in front of the cursor after a write behind them.
LEMMA WriterAfter ==
  ASSUME NEW p, NEW q, NEW rd, NEW x, NEW c \in Nat, NEW ack, Len(q.blocks) \in Nat, q.head.key = p.head.key,
         SameBelow(p.blocks, q.blocks, c), WriterRight(p, rd, x, c, ack), x \in [ProbeRows -> Nat], rd.open = "partial"
  PROVE  WriterRight(q, rd, x, c, ack)
<1> DEFINE some == {r \in ProbeRows : x[r] > 0}
<1>1. Tiled(p.blocks, rd.key, c, some) /\ WholeBelow(p.blocks, rd.key, x, c) /\ p.head.key = rd.key
  BY DEF WriterRight
<1>2. some \in SUBSET ProbeRows
  OBVIOUS
<1>3. Tiled(q.blocks, rd.key, c, some)
  BY <1>1, <1>2, TilesStay
<1>4. ASSUME NEW r \in ProbeRows, x[r] > 0 PROVE RowIs(q.blocks, rd.key, r, x[r]) /\ x[r] + RowBlocks[r] < c
  <2>1. RowIs(p.blocks, rd.key, r, x[r]) /\ x[r] + RowBlocks[r] < c /\ x[r] \in Nat
    BY <1>1, <1>4 DEF WholeBelow
  <2> QED
    BY <2>1, RowStays
<1> QED
  BY <1>1, <1>3, <1>4 DEF WriterRight, WholeBelow

LEMMA WriteKept ==
  ASSUME CacheSafe, NEW r \in ProbeRows, NEW n \in 0 .. RowBlocks[r] + 1, WriteRow(r, n) PROVE CacheSafe'
<1> DEFINE key == reader.key
           row == RowOnDisk(key, r)
           new == IF n < Len(row) THEN SubSeq(row, 1, n) \o <<Junk>> ELSE row
           b == partial.blocks
           e == Overwritten(b, cursorAt, new)
<1>1. /\ reader.open = "partial" /\ rowAt[r] = 0
      /\ partial' = [partial EXCEPT !.blocks = e]
      /\ UNCHANGED <<published, durable, reader, finishedFlag, pages>>
  BY DEF WriteRow, IsWriter
<1>2. /\ n < Len(row) => UNCHANGED <<rowAt, cursorAt, acknowledged>>
      /\ ~(n < Len(row)) => /\ rowAt' = [rowAt EXCEPT ![r] = cursorAt] /\ cursorAt' = cursorAt + Len(row)
                            /\ acknowledged' = acknowledged \cup {r}
  BY DEF WriteRow
<1>3. BakeRight(partial, durable, reader, rowAt, cursorAt, acknowledged) /\ ReaderRight(reader, rowAt, cursorAt, acknowledged)
      /\ PublishedRight(published, reader, rowAt)
  BY DEF CacheSafe
<1>4. /\ key \in CacheKeys /\ rowAt \in [ProbeRows -> Nat] /\ cursorAt \in Nat /\ cursorAt > 0 /\ acknowledged \in SUBSET ProbeRows
  BY <1>1, <1>3 DEF ReaderRight
<1>5. row \in Seq(Blocks) /\ Len(row) = RowBlocks[r] + 1 /\ RowBlocks[r] \in Nat /\ OneKey(row, key)
  BY <1>4, RowOnDiskIs, OneKeyRow, CacheNumbers
<1>6. partial \in CacheFiles /\ b \in Seq(Blocks) /\ partial.head.key = key /\ OneKey(b, key) /\ Len(b) \in Nat
  BY <1>1, <1>3 DEF BakeRight, CacheFiles, WriterRight
<1>7. WriterRight(partial, reader, rowAt, cursorAt, acknowledged) /\ Sealed(partial, durable, reader, rowAt, cursorAt)
  BY <1>3 DEF BakeRight
<1>8. ~partial.head.finished
  BY <1>1, <1>7 DEF Sealed
<1>9. cursorAt <= Len(b) + 1
  BY <1>1, <1>7 DEF WriterRight, Tiled, Tiles
<1>10. new \in Seq(Blocks) /\ OneKey(new, key) /\ Len(new) \in Nat
  <2>1. CASE n < Len(row)
    <3>1. n \in 0 .. RowBlocks[r]
      BY <2>1, <1>5
    <3> QED
      BY <2>1, <3>1, <1>4, TornIs
  <2>2. CASE ~(n < Len(row))
    BY <2>2, <1>5
  <2> QED
    BY <2>1, <2>2
<1> HIDE DEF new
<1>11. OverwrittenRight(b, cursorAt, new, e)
  BY <1>4, <1>6, <1>9, <1>10, OverwrittenIs
<1> HIDE DEF e
<1>12. e \in Seq(Blocks) /\ Len(e) \in Nat /\ SameBelow(b, e, cursorAt) /\ OneKey(e, key)
  <2>1. OneKey(e, key)
    BY <1>4, <1>6, <1>10, <1>11, OneKeyOverwritten
  <2> QED
    BY <1>11, <2>1 DEF OverwrittenRight
<1>13. partial' \in CacheFiles /\ partial'.head = partial.head /\ partial'.blocks = e
  BY <1>1, <1>6, <1>12 DEF CacheFiles
<1>14. WriterRight(partial', reader, rowAt, cursorAt, acknowledged)
  BY <1>1, <1>4, <1>6, <1>7, <1>12, <1>13, WriterAfter
<1>15. Sealed(partial', durable', reader', rowAt', cursorAt')
  BY <1>1, <1>7, <1>8, <1>13 DEF Sealed
<1>16. ReaderRight(reader', rowAt', cursorAt', acknowledged')
  BY <1>1, <1>2, <1>3, <1>4, <1>5 DEF ReaderRight
<1>17. WriterRight(partial', reader', rowAt', cursorAt', acknowledged')
  <2>1. CASE n < Len(row)
    BY <2>1, <1>1, <1>2, <1>14
  <2>2. CASE ~(n < Len(row))
    <3>1. new = row
      BY <2>2 DEF new
    <3>2. RowIs(e, key, r, cursorAt)
      <4>1. cursorAt + RowBlocks[r] <= Len(e) /\ \A k \in 1 .. Len(row) : e[cursorAt + k - 1] = row[k]
        BY <1>4, <1>5, <1>11, <1>12, <3>1 DEF OverwrittenRight
      <4> QED
        BY <1>4, <1>5, <4>1 DEF RowIs
    <3> DEFINE c == cursorAt + RowBlocks[r] + 1
               x == [rowAt EXCEPT ![r] = cursorAt]
               some == {s \in ProbeRows : rowAt[s] > 0}
    <3>3. cursorAt' = c /\ rowAt' = x /\ acknowledged' = acknowledged \cup {r} /\ c > cursorAt
      BY <1>1, <1>2, <1>4, <1>5, <2>2
    <3>4. Tiled(e, key, cursorAt, some) /\ WholeBelow(e, key, rowAt, cursorAt) /\ \A s \in acknowledged : rowAt[s] > 0
      BY <1>1, <1>13, <1>14 DEF WriterRight
    <3>5. Tiled(e, key, c, some \cup {r})
      <4>1. some \in SUBSET ProbeRows
        OBVIOUS
      <4> HIDE DEF some
      <4> QED
        BY <1>4, <1>12, <3>2, <3>4, <4>1, TilesGrow
    <3>6. x[r] = cursorAt /\ \A s \in ProbeRows : s # r => x[s] = rowAt[s]
      BY <1>4
    <3> HIDE DEF x, c
    <3>7. some \cup {r} = {s \in ProbeRows : x[s] > 0}
      BY <1>4, <3>6
    <3>8. WholeBelow(e, key, x, c)
      <4>1. ASSUME NEW s \in ProbeRows, x[s] > 0 PROVE RowIs(e, key, s, x[s]) /\ x[s] + RowBlocks[s] < c
        <5>1. CASE s = r
          BY <5>1, <3>2, <3>6, <1>4, <1>5 DEF c
        <5>2. CASE s # r
          <6>1. RowIs(e, key, s, rowAt[s]) /\ rowAt[s] + RowBlocks[s] < cursorAt /\ x[s] = rowAt[s]
            BY <4>1, <5>2, <3>4, <3>6 DEF WholeBelow
          <6>2. rowAt[s] \in Nat /\ RowBlocks[s] \in Nat /\ c \in Nat
            BY <1>4, <1>5, CacheNumbers DEF c
          <6> QED
            BY <3>3, <6>1, <6>2, <1>4
        <5> QED
          BY <5>1, <5>2
      <4> QED
        BY <4>1 DEF WholeBelow
    <3>9. \A s \in acknowledged' : x[s] > 0
      BY <1>4, <3>3, <3>4, <3>6
    <3>10. Tiled(e, key, c, {s \in ProbeRows : x[s] > 0})
      BY <3>5, <3>7
    <3> QED
      BY <1>1, <1>6, <1>13, <3>3, <3>8, <3>9, <3>10 DEF WriterRight
  <2> QED
    BY <2>1, <2>2
<1>18. Tiled(partial'.blocks, key, cursorAt', acknowledged')
  <2>1. Tiled(partial'.blocks, key, cursorAt', {s \in ProbeRows : rowAt'[s] > 0}) /\ \A s \in acknowledged' : rowAt'[s] > 0
    BY <1>1, <1>17 DEF WriterRight
  <2>2. acknowledged' \subseteq {s \in ProbeRows : rowAt'[s] > 0}
    BY <1>16, <2>1 DEF ReaderRight
  <2> QED
    BY <2>1, <2>2, TilesFewer
<1>19. BakeRight(partial', durable', reader', rowAt', cursorAt', acknowledged')
  <2>1. cursorAt' \in Nat
    BY <1>16 DEF ReaderRight
  <2> QED
    BY <1>1, <1>3, <1>6, <1>12, <1>13, <1>15, <1>17, <1>18, <2>1 DEF BakeRight
<1>20. PublishedRight(published', reader', rowAt')
  BY <1>1, <1>3 DEF PublishedRight
<1> QED
  BY <1>1, <1>16, <1>19, <1>20, PagesStay, CacheNext


\* A file with the index behind its rows: what Finish leaves after its first or second step.
IndexedRight(e, b, key, x, c) ==
  /\ e \in Seq(Blocks) /\ Len(e) >= c /\ SameBelow(b, e, c) /\ e[c] = IndexBlock(x)
  /\ OneKey(e, key) /\ (Len(b) <= c => Len(e) = c)

LEMMA IndexedIs ==
  ASSUME NEW b \in Seq(Blocks), NEW key, OneKey(b, key), NEW x \in [ProbeRows -> Nat], NEW c \in Nat, c > 0, c <= Len(b) + 1
  PROVE  LET e == Overwritten(b, c, <<IndexBlock(x)>>)
             cut == SubSeq(e, 1, c)
         IN IndexedRight(e, b, key, x, c) /\ IndexedRight(cut, b, key, x, c) /\ Len(cut) = c /\ Last(cut) = IndexBlock(x)
<1> DEFINE new == <<IndexBlock(x)>>
           e == Overwritten(b, c, new)
           cut == SubSeq(e, 1, c)
<1>1. IndexBlock(x) \in Blocks
  BY DEF Blocks
<1>2. new \in Seq(Blocks) /\ Len(new) = 1 /\ new[1] = IndexBlock(x)
  BY <1>1
<1> HIDE DEF new
<1>3. OneKey(new, key)
  <2>1. ASSUME NEW i \in 1 .. Len(new), NEW k \in CacheKeys, NEW r \in ProbeRows, new[i] = RowHeader(k, r) PROVE k = key
    <3>1. i = 1
      BY <1>2
    <3> QED
      BY <1>2, <2>1, <3>1, JunkDiffers
  <2> QED
    BY <2>1 DEF OneKey
<1>4. OverwrittenRight(b, c, new, e)
  BY <1>2, OverwrittenIs
<1>5. OneKey(e, key)
  BY <1>2, <1>3, <1>4, OneKeyOverwritten
<1> HIDE DEF e
<1>6. e \in Seq(Blocks) /\ Len(e) \in Nat /\ Len(e) >= c /\ SameBelow(b, e, c) /\ (Len(b) <= c => Len(e) = c)
  BY <1>2, <1>4 DEF OverwrittenRight
<1>7. e[c] = IndexBlock(x)
  <2>1. 1 \in 1 .. Len(new) /\ c + 1 - 1 = c
    BY <1>2
  <2>2. e[c + 1 - 1] = new[1]
    BY <1>4, <2>1 DEF OverwrittenRight
  <2> QED
    BY <1>2, <2>1, <2>2
<1>8. IndexedRight(e, b, key, x, c)
  BY <1>5, <1>6, <1>7 DEF IndexedRight
<1>9. cut \in Seq(Blocks) /\ Len(cut) = c /\ \A i \in 1 .. c : cut[i] = e[i]
  BY <1>6
<1> HIDE DEF cut
<1>10. cut[c] = IndexBlock(x) /\ Last(cut) = IndexBlock(x)
  BY <1>7, <1>9 DEF Last
<1>11. SameBelow(b, cut, c)
  <2>1. c <= Len(b) + 1 /\ \A i \in 1 .. c - 1 : b[i] = e[i]
    BY <1>6 DEF SameBelow
  <2>2. \A i \in 1 .. c - 1 : i \in 1 .. c
    OBVIOUS
  <2> QED
    BY <1>9, <2>1, <2>2 DEF SameBelow
<1>12. OneKey(cut, key)
  <2>1. ASSUME NEW i \in 1 .. Len(cut), NEW k \in CacheKeys, NEW r \in ProbeRows, cut[i] = RowHeader(k, r) PROVE k = key
    <3>1. i \in 1 .. c /\ i \in 1 .. Len(e)
      BY <1>6, <1>9
    <3>2. e[i] = RowHeader(k, r)
      BY <1>9, <2>1, <3>1
    <3> QED
      BY <1>5, <3>1, <3>2 DEF OneKey
  <2> QED
    BY <2>1 DEF OneKey
<1>13. IndexedRight(cut, b, key, x, c)
  BY <1>9, <1>10, <1>11, <1>12 DEF IndexedRight
<1> QED
  BY <1>8, <1>9, <1>10, <1>13 DEF e, cut, new

\* What each step of Finish leaves of the file, of what is on the disk and in the cache's place.
FinishLeaves(steps, p, d, f, e, cut, key, c, q, g, h) ==
  LET indexed == [p EXCEPT !.blocks = IF steps = 1 THEN e ELSE cut]
      headed == [indexed EXCEPT !.head = Header(key, TRUE, c)]
  IN /\ q = (CASE steps \in {1, 2} -> indexed
               [] steps \in {3, 4} -> headed
               [] OTHER -> NoFile)
     /\ g = (CASE steps = 1 -> d
               [] steps \in {2, 3} -> indexed
               [] steps = 4 -> headed
               [] OTHER -> NoFile)
     /\ h = IF steps = 5 THEN headed ELSE f

LEMMA NewHead ==
  ASSUME NEW a, NEW z, NEW h PROVE [[head |-> a, blocks |-> z] EXCEPT !.head = h] = [head |-> h, blocks |-> z]
OBVIOUS

LeftBy(steps, p, d, f, e, cut, sealed, q, g, h) ==
  /\ steps = 1 => q = [head |-> p.head, blocks |-> e] /\ g = d /\ h = f
  /\ steps = 2 => q = [head |-> p.head, blocks |-> cut] /\ g = q /\ h = f
  /\ steps = 3 => q = [head |-> sealed, blocks |-> cut] /\ g = [head |-> p.head, blocks |-> cut] /\ h = f
  /\ steps = 4 => q = [head |-> sealed, blocks |-> cut] /\ g = q /\ h = f
  /\ steps = 5 => q = NoFile /\ g = NoFile /\ h = [head |-> sealed, blocks |-> cut]

LEMMA FinishedIs ==
  ASSUME NEW p \in CacheFiles, NEW d, NEW f, NEW e \in Seq(Blocks), NEW cut \in Seq(Blocks), NEW key \in CacheKeys,
         NEW c \in Nat, NEW q, NEW g, NEW h, NEW steps \in 1 .. 5, FinishLeaves(steps, p, d, f, e, cut, key, c, q, g, h)
  PROVE  LeftBy(steps, p, d, f, e, cut, Header(key, TRUE, c), q, g, h)
<1>1. /\ [p EXCEPT !.blocks = e] = [head |-> p.head, blocks |-> e]
      /\ [p EXCEPT !.blocks = cut] = [head |-> p.head, blocks |-> cut]
      /\ [[p EXCEPT !.blocks = cut] EXCEPT !.head = Header(key, TRUE, c)] = [head |-> Header(key, TRUE, c), blocks |-> cut]
  <2>1. p = [head |-> p.head, blocks |-> p.blocks]
    BY DEF CacheFiles
  <2>2. \A a, bs, k, h2 : /\ [[head |-> a, blocks |-> bs] EXCEPT !.blocks = k] = [head |-> a, blocks |-> k]
                         /\ [[head |-> a, blocks |-> k] EXCEPT !.head = h2] = [head |-> h2, blocks |-> k]
    OBVIOUS
  <2>3. [p EXCEPT !.blocks = e] = [head |-> p.head, blocks |-> e]
    BY <2>1, <2>2
  <2>4. [p EXCEPT !.blocks = cut] = [head |-> p.head, blocks |-> cut]
    BY <2>1, <2>2
  <2>5. [[head |-> p.head, blocks |-> cut] EXCEPT !.head = Header(key, TRUE, c)] = [head |-> Header(key, TRUE, c), blocks |-> cut]
    BY NewHead
  <2> QED
    BY <2>3, <2>4, <2>5, Zenon
<1> DEFINE indexed == [p EXCEPT !.blocks = IF steps = 1 THEN e ELSE cut]
           headed == [indexed EXCEPT !.head = Header(key, TRUE, c)]
<1>2. /\ q = (CASE steps \in {1, 2} -> indexed [] steps \in {3, 4} -> headed [] OTHER -> NoFile)
      /\ g = (CASE steps = 1 -> d [] steps \in {2, 3} -> indexed [] steps = 4 -> headed [] OTHER -> NoFile)
      /\ h = IF steps = 5 THEN headed ELSE f
  BY Zenon DEF FinishLeaves
<1>3. /\ steps = 1 => indexed = [head |-> p.head, blocks |-> e]
      /\ steps # 1 => /\ indexed = [head |-> p.head, blocks |-> cut]
                      /\ headed = [head |-> Header(key, TRUE, c), blocks |-> cut]
  BY <1>1
<1> HIDE DEF indexed, headed
<1>4. /\ steps = 1 => q = indexed /\ g = d /\ h = f
      /\ steps = 2 => q = indexed /\ g = indexed /\ h = f
      /\ steps = 3 => q = headed /\ g = indexed /\ h = f
      /\ steps = 4 => q = headed /\ g = headed /\ h = f
      /\ steps = 5 => q = NoFile /\ g = NoFile /\ h = headed
  BY <1>2
<1>5. (steps = 2 => steps # 1) /\ (steps = 3 => steps # 1) /\ (steps = 4 => steps # 1) /\ (steps = 5 => steps # 1)
  OBVIOUS
<1> QED
  BY <1>3, <1>4, <1>5 DEF LeftBy

\* A file of whole rows and their index, being written or sealed.
LEMMA RowsBehind ==
  ASSUME NEW z, NEW b, NEW key, NEW x \in [ProbeRows -> Nat], NEW c \in Nat, c > 0, IndexedRight(z, b, key, x, c),
         Tiled(b, key, c, ProbeRows), WholeBelow(b, key, x, c)
  PROVE  Tiled(z, key, c, ProbeRows) /\ WholeBelow(z, key, x, c)
<1>1. SameBelow(b, z, c) /\ Len(z) \in Nat
  BY DEF IndexedRight
<1>2. Tiled(z, key, c, ProbeRows)
  <2>1. ProbeRows \in SUBSET ProbeRows
    OBVIOUS
  <2> QED
    BY <1>1, <2>1, TilesStay
<1>3. ASSUME NEW r \in ProbeRows, x[r] > 0 PROVE RowIs(z, key, r, x[r]) /\ x[r] + RowBlocks[r] < c
  <2>1. RowIs(b, key, r, x[r]) /\ x[r] + RowBlocks[r] < c /\ x[r] \in Nat
    BY <1>3 DEF WholeBelow
  <2> QED
    BY <1>1, <2>1, RowStays
<1> QED
  BY <1>2, <1>3 DEF WholeBelow

LEMMA FinishKept == ASSUME CacheSafe, NEW steps \in 1 .. 5, Finish(steps) PROVE CacheSafe'
<1> DEFINE key == reader.key
           b == partial.blocks
           c == cursorAt
           x == rowAt
           e == Overwritten(b, c, <<IndexBlock(x)>>)
           cut == SubSeq(e, 1, c)
           last == Overwritten(b, c, <<Last(cut)>>)
           H == Header(key, TRUE, c)
<1>1. /\ reader.open = "partial" /\ (\A r \in ProbeRows : x[r] > 0) /\ UNCHANGED <<rowAt, cursorAt, pages, acknowledged>>
      /\ FinishLeaves(steps, partial, durable, published, last, cut, key, c, partial', durable', published')
      /\ reader' = (CASE steps = 4 -> Closed
                      [] steps = 5 -> [reader EXCEPT !.open = "published"]
                      [] OTHER -> reader)
  <2>1. IsWriter /\ Complete
    BY DEF Finish, MayFinish
  <2>2. reader' = (CASE steps = 4 -> Closed
                      [] steps = 5 -> [reader EXCEPT !.open = "published"]
                      [] OTHER -> reader)
    BY Zenon DEF Finish
  <2>3. FinishLeaves(steps, partial, durable, published, last, cut, key, c, partial', durable', published')
    BY Zenon DEF Finish, FinishLeaves, IndexBlock
  <2>4. UNCHANGED <<rowAt, cursorAt, pages, acknowledged>>
    BY DEF Finish
  <2> QED
    BY <2>1, <2>2, <2>3, <2>4 DEF IsWriter, Complete
<1>2. BakeRight(partial, durable, reader, rowAt, cursorAt, acknowledged) /\ ReaderRight(reader, rowAt, cursorAt, acknowledged)
      /\ PublishedRight(published, reader, rowAt)
  BY DEF CacheSafe
<1>3. /\ key \in CacheKeys /\ x \in [ProbeRows -> Nat] /\ c \in Nat /\ c > 0 /\ acknowledged \in SUBSET ProbeRows
      /\ reader = [open |-> "partial", key |-> key]
  BY <1>1, <1>2 DEF ReaderRight
<1>4. /\ partial \in CacheFiles /\ durable \in CacheFiles /\ b \in Seq(Blocks) /\ partial.head.key = key /\ OneKey(b, key)
      /\ durable.head.key = key /\ OneKey(durable.blocks, key)
  BY <1>1, <1>2 DEF BakeRight, CacheFiles, WriterRight
<1>5. Sealed(partial, durable, reader, x, c)
  BY <1>2 DEF BakeRight
<1>6. Tiled(b, key, c, ProbeRows) /\ WholeBelow(b, key, x, c) /\ c <= Len(b) + 1
  <2>1. {r \in ProbeRows : x[r] > 0} = ProbeRows
    BY <1>1
  <2>2. WriterRight(partial, reader, x, c, acknowledged)
    BY <1>2 DEF BakeRight
  <2>3. Tiled(b, key, c, {r \in ProbeRows : x[r] > 0}) /\ WholeBelow(b, key, x, c)
    BY <1>1, <2>2 DEF WriterRight
  <2> QED
    BY <2>1, <2>3 DEF Tiled, Tiles
<1>7. IndexedRight(e, b, key, x, c) /\ IndexedRight(cut, b, key, x, c) /\ Len(cut) = c /\ Last(cut) = IndexBlock(x)
  BY <1>3, <1>4, <1>6, IndexedIs
<1>8. last = e
  BY <1>7
<1> HIDE DEF e, cut, last
<1>9. e \in Seq(Blocks) /\ cut \in Seq(Blocks) /\ Len(b) \in Nat
  BY <1>4, <1>7 DEF IndexedRight
<1>10. /\ Tiled(e, key, c, ProbeRows) /\ WholeBelow(e, key, x, c) /\ OneKey(e, key)
       /\ Tiled(cut, key, c, ProbeRows) /\ WholeBelow(cut, key, x, c) /\ OneKey(cut, key)
  <2>1. OneKey(e, key) /\ OneKey(cut, key)
    BY <1>7 DEF IndexedRight
  <2> QED
    BY <1>3, <1>6, <1>7, <2>1, RowsBehind
<1>11. LeftBy(steps, partial, durable, published, e, cut, H, partial', durable', published')
  <2>1. FinishLeaves(steps, partial, durable, published, e, cut, key, c, partial', durable', published')
    BY <1>1, <1>8
  <2> QED
    BY <1>3, <1>4, <1>9, <2>1, FinishedIs
<1>12. /\ H \in [key : CacheWords, finished : BOOLEAN, at : Nat] /\ H.key = key /\ H.finished = TRUE /\ H.at = c
       /\ partial.head \in [key : CacheWords, finished : BOOLEAN, at : Nat]
       /\ partial.head.finished => partial.head.at = c /\ partial.head = H
  <2>1. H = [key |-> key, finished |-> TRUE, at |-> c]
    BY DEF Header
  <2>2. partial.head \in [key : CacheWords, finished : BOOLEAN, at : Nat]
    BY <1>4 DEF CacheFiles
  <2>3. partial.head.finished => partial.head.at = c
    BY <1>1, <1>5 DEF Sealed
  <2>4. partial.head = [key |-> partial.head.key, finished |-> partial.head.finished, at |-> partial.head.at]
    BY <2>2
  <2>5. key \in CacheWords
    BY <1>3 DEF CacheWords
  <2>6. H \in [key : CacheWords, finished : BOOLEAN, at : Nat] /\ H.key = key /\ H.finished = TRUE /\ H.at = c
    <3>1. key \in CacheWords /\ c \in Nat
      BY <1>3, <2>5
    <3> HIDE DEF key, c
    <3> QED
      BY <3>1 DEF Header
  <2>7. ASSUME partial.head.finished PROVE partial.head = H
    <3>1. partial.head.finished = TRUE
      BY <2>2, <2>7
    <3> QED
      BY <1>4, <2>1, <2>3, <2>4, <2>7, <3>1
  <2> QED
    BY <2>2, <2>3, <2>6, <2>7
<1> HIDE DEF H, key, b, c, x
<1>13. \A z \in {e, cut} : \A h \in {partial.head, H} :
         LET f == [head |-> h, blocks |-> z]
         IN f \in CacheFiles /\ f.head = h /\ f.blocks = z /\ f.head.key = key
  BY <1>4, <1>9, <1>12 DEF CacheFiles
<1>14. /\ partial.head.finished => Len(e) = c /\ Len(b) = c /\ Len(durable.blocks) = c
       /\ \A i \in 1 .. c - 1 : b[i] = e[i] /\ b[i] = cut[i]
       /\ partial.head.finished => \A i \in 1 .. c - 1 : b[i] = durable.blocks[i]
       /\ durable.head.finished => durable.head = partial.head
  <2>1. partial.head.finished => Len(b) = c /\ Len(durable.blocks) = c /\ \A i \in 1 .. c - 1 : b[i] = durable.blocks[i]
    BY <1>5, <1>12 DEF Sealed, b
  <2>2. partial.head.finished => Len(e) = c
    BY <1>3, <1>7, <2>1 DEF IndexedRight
  <2>3. \A i \in 1 .. c - 1 : b[i] = e[i] /\ b[i] = cut[i]
    BY <1>7 DEF IndexedRight, SameBelow
  <2>4. durable.head.finished => durable.head = partial.head
    BY <1>5 DEF Sealed
  <2> QED
    BY <2>1, <2>2, <2>3, <2>4
<1>15. \A z \in {e, cut} : OneKey(z, key) /\ Tiled(z, key, c, ProbeRows) /\ WholeBelow(z, key, x, c)
  BY <1>10
<1>16. \A h \in {partial.head, H}, z \in {e, cut} :
         WriterRight([head |-> h, blocks |-> z], reader, x, c, acknowledged)
         /\ \E n \in Nat : Tiled(z, key, n, acknowledged)
  <2> SUFFICES ASSUME NEW h \in {partial.head, H}, NEW z \in {e, cut}
               PROVE  WriterRight([head |-> h, blocks |-> z], reader, x, c, acknowledged)
                      /\ \E n \in Nat : Tiled(z, key, n, acknowledged)
    OBVIOUS
  <2> DEFINE f == [head |-> h, blocks |-> z]
  <2>1. f.head.key = key /\ f.blocks = z
    BY <1>13
  <2> HIDE DEF f
  <2>2. {r \in ProbeRows : x[r] > 0} = ProbeRows /\ reader.key = key /\ \A r \in acknowledged : x[r] > 0
    BY <1>1, <1>3 DEF x, key
  <2>3. WriterRight(f, reader, x, c, acknowledged)
    BY <1>15, <2>1, <2>2 DEF WriterRight
  <2>4. Tiled(z, key, c, acknowledged)
    BY <1>3, <1>15, TilesFewer
  <2> QED
    BY <1>3, <2>3, <2>4 DEF c, f
<1>17. c \in Nat /\ x \in [ProbeRows -> Nat] /\ c > 0 /\ key \in CacheKeys /\ rowAt' = x /\ cursorAt' = c /\ acknowledged' = acknowledged
  BY <1>1, <1>3 DEF c, x, key
<1>18. CASE steps = 1
  <2>1. partial' = [head |-> partial.head, blocks |-> e] /\ durable' = durable /\ published' = published /\ reader' = reader
    BY <1>1, <1>11, <1>18 DEF LeftBy
  <2>2. partial' \in CacheFiles /\ partial'.head = partial.head /\ partial'.blocks = e /\ partial'.head.key = key
    BY <1>13, <2>1
  <2>3. Sealed(partial', durable', reader', rowAt', cursorAt')
    <3>1. ASSUME partial.head.finished
          PROVE  /\ Len(e) = c /\ Len(durable.blocks) = c /\ partial.head.at = c
                 /\ \A i \in 1 .. c - 1 : e[i] = durable.blocks[i]
      BY <1>12, <1>14, <3>1
    <3>2. Tiled(e, key, c, ProbeRows) /\ \A r \in ProbeRows : x[r] > 0
      BY <1>1, <1>15 DEF x
    <3> QED
      BY <1>14, <1>17, <2>1, <2>2, <3>1, <3>2 DEF Sealed
  <2>4. BakeRight(partial', durable', reader', rowAt', cursorAt', acknowledged')
    BY <1>4, <1>15, <1>16, <1>17, <2>1, <2>2, <2>3 DEF BakeRight, key
  <2>5. PublishedRight(published', reader', rowAt') /\ ReaderRight(reader', rowAt', cursorAt', acknowledged')
    BY <1>2, <1>17, <2>1 DEF x, c
  <2> QED
    BY <1>1, <2>4, <2>5, PagesStay, CacheNext
<1>19. CASE steps = 2
  <2>1. /\ partial' = [head |-> partial.head, blocks |-> cut] /\ durable' = partial' /\ published' = published /\ reader' = reader
    BY <1>1, <1>11, <1>19 DEF LeftBy
  <2>2. partial' \in CacheFiles /\ partial'.head = partial.head /\ partial'.blocks = cut /\ partial'.head.key = key
    BY <1>13, <2>1
  <2>3. Sealed(partial', durable', reader', rowAt', cursorAt')
    <3>1. Tiled(cut, key, c, ProbeRows) /\ \A r \in ProbeRows : x[r] > 0
      BY <1>1, <1>15 DEF x
    <3>2. Len(cut) = c
      BY <1>7 DEF c
    <3> QED
      BY <1>12, <1>17, <2>1, <2>2, <3>1, <3>2 DEF Sealed
  <2>4. BakeRight(partial', durable', reader', rowAt', cursorAt', acknowledged')
    BY <1>15, <1>16, <1>17, <2>1, <2>2, <2>3 DEF BakeRight
  <2>5. PublishedRight(published', reader', rowAt') /\ ReaderRight(reader', rowAt', cursorAt', acknowledged')
    BY <1>2, <1>17, <2>1 DEF x, c
  <2> QED
    BY <1>1, <2>4, <2>5, PagesStay, CacheNext
<1>20. CASE steps = 3
  <2>1. /\ partial' = [head |-> H, blocks |-> cut] /\ durable' = [head |-> partial.head, blocks |-> cut]
        /\ published' = published /\ reader' = reader
    BY <1>1, <1>11, <1>20 DEF LeftBy
  <2>2. /\ partial' \in CacheFiles /\ partial'.head = H /\ partial'.blocks = cut /\ partial'.head.key = key
        /\ durable' \in CacheFiles /\ durable'.head = partial.head /\ durable'.blocks = cut /\ durable'.head.key = key
    BY <1>13, <2>1
  <2>3. Sealed(partial', durable', reader', rowAt', cursorAt')
    <3>1. Tiled(cut, key, c, ProbeRows) /\ \A r \in ProbeRows : x[r] > 0
      BY <1>1, <1>15 DEF x
    <3>2. Len(cut) = c
      BY <1>7 DEF c
    <3> QED
      BY <1>12, <1>17, <2>1, <2>2, <3>1, <3>2 DEF Sealed
  <2>4. BakeRight(partial', durable', reader', rowAt', cursorAt', acknowledged')
    BY <1>15, <1>16, <1>17, <2>1, <2>2, <2>3 DEF BakeRight
  <2>5. PublishedRight(published', reader', rowAt') /\ ReaderRight(reader', rowAt', cursorAt', acknowledged')
    BY <1>2, <1>17, <2>1 DEF x, c
  <2> QED
    BY <1>1, <2>4, <2>5, PagesStay, CacheNext
<1>21. CASE steps = 4
  <2>1. partial' = [head |-> H, blocks |-> cut] /\ durable' = partial' /\ published' = published /\ reader' = Closed
    BY <1>1, <1>11, <1>21 DEF LeftBy
  <2>2. partial' \in CacheFiles /\ partial'.head = H /\ partial'.blocks = cut /\ partial'.head.key = key
    BY <1>13, <2>1
  <2>3. Closed.open = "no" /\ Closed \in [open : {"no", "partial", "published"}, key : CacheWords]
    BY NoRowsIs DEF ReaderRight
  <2>4. Sealed(partial', durable', reader', rowAt', cursorAt')
    <3>1. Tiled(cut, key, c, ProbeRows) /\ Len(cut) = c
      BY <1>7, <1>15 DEF c
    <3> QED
      BY <1>12, <1>17, <2>1, <2>2, <2>3, <3>1 DEF Sealed
  <2>5. BakeRight(partial', durable', reader', rowAt', cursorAt', acknowledged')
    BY <1>15, <1>16, <1>17, <2>1, <2>2, <2>3, <2>4 DEF BakeRight, WriterRight
  <2>6. PublishedRight(published', reader', rowAt') /\ ReaderRight(reader', rowAt', cursorAt', acknowledged')
    BY <1>2, <1>3, <1>17, <2>1, <2>3 DEF PublishedRight, ReaderRight
  <2> QED
    BY <1>1, <2>5, <2>6, PagesStay, CacheNext
<1>22. CASE steps = 5
  <2>1. /\ partial' = NoFile /\ durable' = NoFile /\ published' = [head |-> H, blocks |-> cut]
        /\ reader' = [reader EXCEPT !.open = "published"]
    BY <1>1, <1>11, <1>22 DEF LeftBy
  <2>2. published' \in CacheFiles /\ published'.head = H /\ published'.blocks = cut
    BY <1>13, <2>1
  <2>3. reader' = [open |-> "published", key |-> key]
    BY <1>3, <2>1 DEF key
  <2>4. reader'.open = "published" /\ reader'.key = key /\ reader' \in [open : {"no", "partial", "published"}, key : CacheWords]
    BY <1>17, <2>3 DEF CacheWords
  <2>5. BakeRight(partial', durable', reader', rowAt', cursorAt', acknowledged')
    BY <2>1, <2>4, NoFileIs DEF BakeRight, WriterRight, Sealed
  <2>6. CompleteFile(published')
    <3>1. cut[c] = IndexBlock(x) /\ Len(cut) = c
      BY <1>7 DEF c, x, IndexedRight
    <3>2. WholeBelow(cut, key, x, c) /\ \A r \in ProbeRows : x[r] > 0
      BY <1>1, <1>15 DEF x
    <3> QED
      BY <1>12, <1>17, <2>2, <3>1, <3>2 DEF CompleteFile
  <2>7. PublishedRight(published', reader', rowAt')
    BY <1>15, <1>17, <2>2, <2>4, <2>6 DEF PublishedRight, WholeBelow
  <2>8. ReaderRight(reader', rowAt', cursorAt', acknowledged')
    BY <1>3, <1>17, <2>4 DEF ReaderRight
  <2> QED
    BY <1>1, <2>5, <2>7, <2>8, PagesStay, CacheNext
<1> QED
  BY <1>18, <1>19, <1>20, <1>21, <1>22

(* The pages in memory                                                       *)

TakeNext(f, rows, n) == IF n = 0 THEN 0 ELSE f[n - 1] + PageSize(rows[n])
IsTaking(f, rows) == f = [n \in 0 .. Len(rows) |-> TakeNext(f, rows, n)]
Taking(rows) == CHOOSE f : IsTaking(f, rows)

LEMMA TakingOpens == ASSUME NEW rows PROVE PagesTake(rows) = Taking(rows)[Len(rows)]
BY Zenon DEF PagesTake, Taking, IsTaking, TakeNext

LEMMA SizeIs == ASSUME NEW r \in ProbeRows PROVE PageSize(r) \in Nat
BY CacheNumbers DEF PageSize

Takes(f, rows) == f[0] = 0 /\ \A n \in 1 .. Len(rows) : f[n] = f[n - 1] + PageSize(rows[n])

LEMMA TakeIs ==
  ASSUME NEW rows \in Seq(ProbeRows)
  PROVE  \E f \in [0 .. Len(rows) -> Nat] : Takes(f, rows) /\ PagesTake(rows) = f[Len(rows)]
<1> DEFINE m == Len(rows)
           step == [z \in (1 .. m) \X Nat |-> z[2] + PageSize(rows[z[1]])]
           f == Taking(rows)
<1>1. m \in Nat /\ 0 \in Nat
  OBVIOUS
<1>2. step \in [(1 .. m) \X Nat -> Nat]
  <2>1. ASSUME NEW z \in (1 .. m) \X Nat PROVE z[2] + PageSize(rows[z[1]]) \in Nat
    <3>1. rows[z[1]] \in ProbeRows /\ z[2] \in Nat
      OBVIOUS
    <3> QED
      BY <3>1, SizeIs
  <2> QED
    BY <2>1
<1>3. PICK g : Recurses(g, m, Nat, 0, step)
  <2> HIDE DEF m, step
  <2> QED
    BY <1>1, <1>2, Iterate
<1>4. g \in [0 .. m -> Nat] /\ g[0] = 0 /\ \A n \in 1 .. m : g[n] = step[<<n, g[n - 1]>>]
  BY <1>3 DEF Recurses
<1>5. ASSUME NEW n \in 1 .. m PROVE g[n] = g[n - 1] + PageSize(rows[n])
  <2>1. n - 1 \in 0 .. m /\ g[n - 1] \in Nat
    BY <1>1, <1>4
  <2> DEFINE z == <<n, g[n - 1]>>
  <2>2. z \in (1 .. m) \X Nat /\ z[1] = n /\ z[2] = g[n - 1]
    BY <2>1
  <2> HIDE DEF z
  <2>3. step[z] = z[2] + PageSize(rows[z[1]])
    BY <2>2
  <2>4. g[n] = step[z]
    BY <1>4 DEF z
  <2> QED
    BY <2>2, <2>3, <2>4
<1>6. g = [n \in 0 .. m |-> TakeNext(g, rows, n)]
  <2>1. \A n \in 0 .. m : g[n] = TakeNext(g, rows, n)
    <3>1. ASSUME NEW n \in 0 .. m PROVE g[n] = TakeNext(g, rows, n)
      <4>1. CASE n = 0
        BY <4>1, <1>4 DEF TakeNext
      <4>2. CASE n # 0
        <5>1. n \in 1 .. m
          BY <4>2, <1>1
        <5> QED
          BY <4>2, <5>1, <1>5 DEF TakeNext
      <4> QED
        BY <4>1, <4>2
    <3> QED
      BY <3>1
  <2>2. g = [n \in 0 .. m |-> g[n]]
    BY <1>4
  <2> QED
    BY <2>1, <2>2
<1>7. IsTaking(f, rows)
  BY <1>6, Zenon DEF IsTaking, Taking
<1>8. f = [n \in 0 .. m |-> TakeNext(f, rows, n)]
  BY <1>7 DEF IsTaking
<1> HIDE DEF f
<1>9. f[0] = 0 /\ \A n \in 1 .. m : f[n] = f[n - 1] + PageSize(rows[n])
  BY <1>1, <1>8 DEF TakeNext
<1>10. \A n \in 0 .. m : f[n] \in Nat
  <2> DEFINE T == {n \in 0 .. m : f[n] \in Nat}
  <2>1. 0 \in T
    BY <1>1, <1>9
  <2>2. ASSUME NEW n \in 1 .. m, n - 1 \in T PROVE n \in T
    <3>1. rows[n] \in ProbeRows /\ f[n - 1] \in Nat /\ n \in 0 .. m
      BY <1>1, <2>2
    <3> QED
      BY <3>1, <2>2, <1>9, SizeIs
  <2> HIDE DEF T
  <2>3. 0 .. m \subseteq T
    BY <1>1, <2>1, <2>2, UpTo
  <2> QED
    BY <2>3 DEF T
<1>11. f \in [0 .. m -> Nat]
  BY <1>8, <1>10
<1>12. PagesTake(rows) = f[m]
  BY TakingOpens DEF f
<1> QED
  BY <1>9, <1>11, <1>12 DEF Takes

LEMMA TakeUnique ==
  ASSUME NEW rows \in Seq(ProbeRows), NEW g \in [0 .. Len(rows) -> Int], Takes(g, rows) PROVE PagesTake(rows) = g[Len(rows)]
<1> DEFINE m == Len(rows)
<1>1. PICK f \in [0 .. m -> Nat] : Takes(f, rows) /\ PagesTake(rows) = f[m]
  BY TakeIs
<1> DEFINE T == {n \in 0 .. m : f[n] = g[n]}
<1>2. 0 \in T /\ m \in Nat
  BY <1>1 DEF Takes
<1>3. ASSUME NEW n \in 1 .. m, n - 1 \in T PROVE n \in T
  BY <1>1, <1>3 DEF Takes
<1> HIDE DEF T
<1>4. 0 .. m \subseteq T
  BY <1>2, <1>3, UpTo
<1>5. m \in T
  BY <1>2, <1>4
<1> QED
  BY <1>1, <1>5 DEF T

LEMMA TakeNat == ASSUME NEW rows \in Seq(ProbeRows) PROVE PagesTake(rows) \in Nat
<1>1. Len(rows) \in 0 .. Len(rows)
  OBVIOUS
<1> QED
  BY <1>1, TakeIs

LEMMA TakeAppend ==
  ASSUME NEW rows \in Seq(ProbeRows), NEW r \in ProbeRows
  PROVE  PagesTake(Append(rows, r)) = PagesTake(rows) + PageSize(r)
<1> DEFINE m == Len(rows)
           more == Append(rows, r)
<1>1. PICK f \in [0 .. m -> Nat] : Takes(f, rows) /\ PagesTake(rows) = f[m]
  BY TakeIs
<1> DEFINE g == [n \in 0 .. m + 1 |-> IF n = m + 1 THEN f[m] + PageSize(r) ELSE f[n]]
<1>2. m \in Nat /\ f[m] \in Nat /\ PageSize(r) \in Nat
  BY SizeIs
<1>3. more \in Seq(ProbeRows) /\ Len(more) = m + 1 /\ more[m + 1] = r /\ \A n \in 1 .. m : more[n] = rows[n]
  OBVIOUS
<1>4. g \in [0 .. m + 1 -> Int] /\ g[m + 1] = f[m] + PageSize(r) /\ \A n \in 0 .. m : g[n] = f[n]
  BY <1>2
<1> HIDE DEF g, more
<1>5. Takes(g, more)
  <2>1. g[0] = 0
    BY <1>1, <1>2, <1>4 DEF Takes
  <2>2. ASSUME NEW n \in 1 .. m + 1 PROVE g[n] = g[n - 1] + PageSize(more[n])
    <3>1. CASE n = m + 1
      <4>1. n - 1 = m /\ g[m] = f[m]
        BY <3>1, <1>2, <1>4
      <4> QED
        BY <3>1, <4>1, <1>3, <1>4
    <3>2. CASE n # m + 1
      <4>1. n \in 1 .. m /\ n \in 0 .. m /\ n - 1 \in 0 .. m
        BY <3>2, <1>2
      <4>2. f[n] = f[n - 1] + PageSize(rows[n])
        BY <4>1, <1>1 DEF Takes
      <4> QED
        BY <4>1, <4>2, <1>3, <1>4
    <3> QED
      BY <3>1, <3>2
  <2> QED
    BY <1>3, <2>1, <2>2 DEF Takes
<1>6. PagesTake(more) = g[Len(more)]
  BY <1>3, <1>4, <1>5, TakeUnique
<1> QED
  BY <1>1, <1>3, <1>4, <1>6 DEF more

LEMMA RemoveIs ==
  ASSUME NEW rows \in Seq(ProbeRows), NEW i \in 1 .. Len(rows)
  PROVE  /\ RemoveAt(rows, i) \in Seq(ProbeRows) /\ Len(RemoveAt(rows, i)) = Len(rows) - 1
         /\ \A n \in 1 .. Len(rows) - 1 : RemoveAt(rows, i)[n] = IF n < i THEN rows[n] ELSE rows[n + 1]
<1> DEFINE front == SubSeq(rows, 1, i - 1)
           back == SubSeq(rows, i + 1, Len(rows))
           left == front \o back
<1>1. RemoveAt(rows, i) = left
  BY Zenon DEF RemoveAt
<1>2. front \in Seq(ProbeRows) /\ Len(front) = i - 1 /\ \A n \in 1 .. i - 1 : front[n] = rows[n]
  OBVIOUS
<1>3. back \in Seq(ProbeRows) /\ Len(back) = Len(rows) - i /\ \A n \in 1 .. Len(rows) - i : back[n] = rows[i + n]
  OBVIOUS
<1> HIDE DEF front, back
<1>4. left \in Seq(ProbeRows) /\ Len(left) = Len(rows) - 1
  BY <1>2, <1>3
<1>5. ASSUME NEW n \in 1 .. Len(rows) - 1 PROVE left[n] = IF n < i THEN rows[n] ELSE rows[n + 1]
  <2>1. CASE n < i
    BY <2>1, <1>2, <1>3
  <2>2. CASE ~(n < i)
    <3>1. n - (i - 1) \in 1 .. Len(rows) - i /\ i + (n - (i - 1)) = n + 1
      BY <2>2
    <3>2. left[n] = back[n - (i - 1)]
      BY <2>2, <1>2, <1>3
    <3> QED
      BY <2>2, <3>1, <3>2, <1>3
  <2> QED
    BY <2>1, <2>2
<1> QED
  BY <1>1, <1>4, <1>5

LEMMA TakeRemove ==
  ASSUME NEW rows \in Seq(ProbeRows), NEW i \in 1 .. Len(rows)
  PROVE  PagesTake(RemoveAt(rows, i)) + PageSize(rows[i]) = PagesTake(rows)
<1> DEFINE m == Len(rows)
           less == RemoveAt(rows, i)
           size == PageSize(rows[i])
<1>1. PICK f \in [0 .. m -> Nat] : Takes(f, rows) /\ PagesTake(rows) = f[m]
  BY TakeIs
<1> DEFINE g == [n \in 0 .. m - 1 |-> IF n < i THEN f[n] ELSE f[n + 1] - size]
<1>2. m \in Nat /\ m > 0 /\ size \in Nat /\ i \in 1 .. m
  BY SizeIs
<1>3. less \in Seq(ProbeRows) /\ Len(less) = m - 1 /\ \A n \in 1 .. m - 1 : less[n] = IF n < i THEN rows[n] ELSE rows[n + 1]
  BY RemoveIs
<1>4. \A n \in 1 .. m : f[n] = f[n - 1] + PageSize(rows[n])
  BY <1>1 DEF Takes
<1>5. f[0] = 0 /\ f[i] = f[i - 1] + size
  BY <1>1, <1>2, <1>4 DEF Takes
<1> HIDE DEF less, size, m
<1>6. g \in [0 .. m - 1 -> Int] /\ \A n \in 0 .. m - 1 : g[n] = IF n < i THEN f[n] ELSE f[n + 1] - size
  BY <1>2
<1> HIDE DEF g
<1>7. \A n \in 0 .. m - 1 : n >= i - 1 => g[n] = f[n + 1] - size
  <2>1. ASSUME NEW n \in 0 .. m - 1, n >= i - 1 PROVE g[n] = f[n + 1] - size
    <3>1. CASE n = i - 1
      <4>1. n < i /\ n + 1 = i /\ n \in 0 .. m /\ f[n] \in Nat
        BY <3>1, <1>1, <1>2
      <4>2. f[i] = f[n] + size
        BY <3>1, <1>5
      <4>3. g[n] = f[n]
        BY <4>1, <1>6
      <4>4. f[n + 1] = f[n] + size
        BY <4>1, <4>2
      <4> QED
        BY <4>1, <4>3, <4>4, <1>2
    <3>2. CASE n # i - 1
      BY <3>2, <2>1, <1>2, <1>6
    <3> QED
      BY <3>1, <3>2
  <2> QED
    BY <2>1
<1>8. Takes(g, less)
  <2>1. g[0] = 0
    BY <1>2, <1>5, <1>6
  <2>2. ASSUME NEW n \in 1 .. m - 1 PROVE g[n] = g[n - 1] + PageSize(less[n])
    <3>1. CASE n < i
      <4>1. n \in 1 .. m /\ n \in 0 .. m - 1 /\ n - 1 \in 0 .. m - 1 /\ n - 1 < i
        BY <3>1, <1>2
      <4>2. g[n] = f[n] /\ g[n - 1] = f[n - 1] /\ less[n] = rows[n]
        BY <3>1, <4>1, <1>3, <1>6
      <4> QED
        BY <4>1, <4>2, <1>4
    <3>2. CASE n >= i
      <4>1. n + 1 \in 1 .. m /\ n \in 0 .. m - 1 /\ n - 1 \in 0 .. m - 1 /\ n - 1 >= i - 1 /\ n >= i - 1
        BY <3>2, <1>2
      <4>2. g[n] = f[n + 1] - size /\ g[n - 1] = f[n - 1 + 1] - size /\ less[n] = rows[n + 1]
        BY <3>2, <4>1, <1>2, <1>3, <1>7
      <4>3. f[n + 1] = f[n + 1 - 1] + PageSize(rows[n + 1]) /\ n - 1 + 1 = n /\ n + 1 - 1 = n
        BY <4>1, <1>4
      <4>4. f[n] \in Nat /\ f[n + 1] \in Nat /\ PageSize(rows[n + 1]) \in Nat
        <5>1. rows[n + 1] \in ProbeRows /\ n \in 0 .. m /\ n + 1 \in 0 .. m
          BY <4>1, <1>2 DEF m
        <5> QED
          BY <5>1, SizeIs, <1>1
      <4> QED
        BY <4>2, <4>3, <4>4, <1>2
    <3> QED
      BY <3>1, <3>2, <1>2
  <2> QED
    BY <1>3, <2>1, <2>2 DEF Takes
<1>9. PagesTake(less) = g[m - 1]
  BY <1>3, <1>6, <1>8, TakeUnique
<1>10. g[m - 1] = f[m] - size
  BY <1>2, <1>7
<1>11. f[m] \in Nat
  BY <1>1, <1>2
<1> QED
  BY <1>1, <1>2, <1>9, <1>10, <1>11 DEF less, size, m

\* What is left once the oldest have made room for `needed` blocks.
LEMMA EvictLeaves ==
  ASSUME NEW rows \in Seq(ProbeRows), NEW needed \in Nat
  PROVE  Evict(rows, needed) \in Seq(ProbeRows)
         /\ (Evict(rows, needed) = << >> \/ PagesTake(Evict(rows, needed)) + needed <= PageLimit)
<1> DEFINE enough == {n \in 0 .. Len(rows) : PagesTake(SubSeq(rows, n + 1, Len(rows))) + needed <= PageLimit}
           kept == SubSeq(rows, Min(enough) + 1, Len(rows))
<1>1. Evict(rows, needed) = IF enough = {} THEN << >> ELSE kept
  BY Zenon DEF Evict
<1>2. CASE enough = {}
  <2>1. << >> \in Seq(ProbeRows)
    OBVIOUS
  <2> HIDE DEF enough
  <2> QED
    BY <1>1, <1>2, <2>1
<1>3. CASE enough # {}
  <2>1. Min(enough) \in enough
    <3>1. \E x \in enough : \A y \in enough : x <= y
      <4>1. enough \subseteq Nat
        OBVIOUS
      <4> HIDE DEF enough
      <4>2. PICK x \in enough : \A y \in enough : ~(<<y, x>> \in OpToRel(<, Nat))
        BY <1>3, <4>1, WFMin, NatLessThanWellFounded
      <4>3. ASSUME NEW y \in enough, y < x PROVE FALSE
        <5>1. <<y, x>> \in Nat \X Nat /\ <<y, x>>[1] = y /\ <<y, x>>[2] = x
          BY <4>1
        <5>2. <<y, x>> \in OpToRel(<, Nat)
          BY <5>1, <4>3 DEF OpToRel
        <5> QED
          BY <5>2, <4>2
      <4>4. \A y \in enough : x <= y
        BY <4>1, <4>3
      <4> QED
        BY <4>4
    <3> HIDE DEF enough
    <3> QED
      BY <3>1, Zenon DEF Min
  <2> DEFINE n == Min(enough)
  <2>2. n \in 0 .. Len(rows) /\ PagesTake(SubSeq(rows, n + 1, Len(rows))) + needed <= PageLimit
    BY <2>1
  <2> HIDE DEF enough, n
  <2>3. SubSeq(rows, n + 1, Len(rows)) \in Seq(ProbeRows)
    BY <2>2
  <2> QED
    BY <1>1, <1>3, <2>2, <2>3 DEF n
<1> QED
  BY <1>2, <1>3

LEMMA LookupKept == ASSUME CacheSafe, NEW r \in ProbeRows, Lookup(r) PROVE CacheSafe'
<1> DEFINE kept == Evict(pages, PageSize(r))
           at == CHOOSE i \in DOMAIN pages : pages[i] = r
<1>1. /\ pages' = (CASE r \in Range(pages) -> Append(RemoveAt(pages, at), r)
                     [] WholeRow(FileOpen.blocks, r, rowAt[r], cursorAt) /\ r \notin Range(pages) -> Append(kept, r)
                     [] OTHER -> kept)
      /\ UNCHANGED <<published, partial, durable, reader, rowAt, cursorAt, finishedFlag, acknowledged>>
  BY Zenon DEF Lookup
<1>2. pages \in Seq(ProbeRows) /\ PagesFit /\ PageSize(r) \in Nat
  BY SizeIs DEF CacheSafe
<1>3. kept \in Seq(ProbeRows) /\ (kept = << >> \/ PagesTake(kept) + PageSize(r) <= PageLimit) /\ PageLimit \in Nat
  BY <1>2, EvictLeaves, CacheNumbers
<1>4. r \in Range(pages) => at \in 1 .. Len(pages) /\ pages[at] = r
  <2>1. ASSUME r \in Range(pages) PROVE \E i \in DOMAIN pages : pages[i] = r
    BY <2>1 DEF Range
  <2>2. DOMAIN pages = 1 .. Len(pages)
    BY <1>2
  <2> QED
    BY <2>1, <2>2
<1> HIDE DEF kept, at
<1>5. \/ r \in Range(pages) /\ pages' = Append(RemoveAt(pages, at), r)
      \/ pages' = Append(kept, r) \/ pages' = kept
  BY <1>1
<1>6. CASE r \in Range(pages) /\ pages' = Append(RemoveAt(pages, at), r)
  <2> DEFINE less == RemoveAt(pages, at)
  <2>1. at \in 1 .. Len(pages) /\ pages[at] = r /\ Len(pages) \in Nat
    BY <1>2, <1>4, <1>6
  <2>2. less \in Seq(ProbeRows) /\ Len(less) = Len(pages) - 1
    BY <1>2, <2>1, RemoveIs
  <2>3. PagesTake(less) + PageSize(r) = PagesTake(pages)
    BY <1>2, <2>1, TakeRemove
  <2> HIDE DEF less
  <2>4. pages' = Append(less, r)
    BY <1>6 DEF less
  <2>5. PagesTake(Append(less, r)) = PagesTake(pages) /\ Append(less, r) \in Seq(ProbeRows) /\ Len(Append(less, r)) = Len(pages)
    BY <2>1, <2>2, <2>3, TakeAppend
  <2>6. Len(pages') <= 1 \/ PagesTake(pages') <= PageLimit
    BY <1>2, <2>4, <2>5, Zenon DEF PagesFit
  <2> QED
    BY <2>4, <2>5, <2>6, <1>1, Zenon DEF CacheSafe, PagesFit
<1>7. ASSUME pages' = Append(kept, r) \/ pages' = kept PROVE pages' \in Seq(ProbeRows) /\ (Len(pages') <= 1 \/ PagesTake(pages') <= PageLimit)
  <2>1. CASE kept = << >>
    <3>1. Append(<< >>, r) \in Seq(ProbeRows) /\ << >> \in Seq(ProbeRows) /\ Len(Append(<< >>, r)) <= 1 /\ Len(<< >>) <= 1
      OBVIOUS
    <3> QED
      BY <1>7, <2>1, <3>1
  <2>2. CASE kept # << >>
    <3>1. PagesTake(kept) + PageSize(r) <= PageLimit /\ PagesTake(kept) \in Nat
      BY <1>3, <2>2, TakeNat
    <3>2. PagesTake(Append(kept, r)) = PagesTake(kept) + PageSize(r) /\ Append(kept, r) \in Seq(ProbeRows)
      BY <1>3, TakeAppend
    <3>3. PagesTake(kept) <= PageLimit
      BY <3>1, <1>2, <1>3
    <3> QED
      BY <1>3, <1>7, <3>1, <3>2, <3>3
  <2> QED
    BY <2>1, <2>2
<1> QED
  BY <1>1, <1>5, <1>6, <1>7, Zenon DEF CacheSafe, PagesFit

(* The power fails                                                           *)

LEMMA PowerFailsKept == ASSUME CacheSafe, PowerFails PROVE CacheSafe'
<1> DEFINE b == partial.blocks
           k == durable.blocks
           dirty == {i \in DOMAIN b : i \notin DOMAIN k \/ b[i] # k[i]}
           After(n, there, before) == [i \in 1 .. n |-> CASE i \in before -> k[i]
                                                          [] i \in dirty \ (there \cup before) -> Junk
                                                          [] OTHER -> b[i]]
<1>1. PICK head \in {partial.head, durable.head}, there \in SUBSET dirty, before \in SUBSET dirty,
           n \in {Len(b), Min({Len(b), Len(k)})} :
        /\ before \subseteq DOMAIN k
        /\ partial' = [head |-> head, blocks |-> After(n, there, before)]
        /\ durable' = partial' /\ acknowledged' = {}
        /\ reader' = Closed /\ rowAt' = NoRows /\ cursorAt' = 1 /\ pages' = << >> /\ UNCHANGED published
  BY Zenon DEF PowerFails
<1>2. BakeRight(partial, durable, reader, rowAt, cursorAt, acknowledged) /\ PublishedRight(published, reader, rowAt)
  BY DEF CacheSafe
<1> DEFINE key == partial.head.key
<1>3. /\ partial \in CacheFiles /\ durable \in CacheFiles /\ durable.head.key = key /\ OneKey(b, key) /\ OneKey(k, key)
      /\ b \in Seq(Blocks) /\ k \in Seq(Blocks) /\ Len(b) \in Nat /\ Len(k) \in Nat
      /\ DOMAIN b = 1 .. Len(b) /\ DOMAIN k = 1 .. Len(k)
  BY <1>2 DEF BakeRight, CacheFiles
<1>4. Sealed(partial, durable, reader, rowAt, cursorAt)
  BY <1>2 DEF BakeRight
<1>5. n \in Nat /\ n <= Len(b) /\ (Len(b) = Len(k) => n = Len(b))
  BY <1>3, MinOfTwo
<1> DEFINE e == After(n, there, before)
<1>6. ASSUME NEW i \in 1 .. n
      PROVE  /\ i \in 1 .. Len(b) /\ (e[i] = Junk \/ e[i] = b[i] \/ (e[i] = k[i] /\ i \in 1 .. Len(k)))
             /\ (i \in 1 .. Len(k) /\ b[i] = k[i] => e[i] = b[i])
  <2>1. i \in 1 .. Len(b) /\ i \in DOMAIN b
    BY <1>3, <1>5
  <2>2. e[i] = CASE i \in before -> k[i] [] i \in dirty \ (there \cup before) -> Junk [] OTHER -> b[i]
    OBVIOUS
  <2>3. i \in 1 .. Len(k) /\ b[i] = k[i] => i \notin dirty
    BY <1>3
  <2>4. before \subseteq dirty /\ (i \in before => i \in 1 .. Len(k))
    BY <1>1, <1>3
  <2> HIDE DEF e, dirty
  <2> QED
    BY <2>1, <2>2, <2>3, <2>4
<1>7. Junk \in Blocks
  BY DEF Blocks
<1>8. e = [i \in 1 .. n |-> e[i]]
  OBVIOUS
<1>9. partial' = [head |-> head, blocks |-> e]
  BY <1>1
<1> HIDE DEF e, dirty, After, Junk
<1>10. e \in Seq(Blocks) /\ Len(e) = n
  <2>1. \A i \in 1 .. n : e[i] \in Blocks
    <3>1. ASSUME NEW i \in 1 .. n PROVE e[i] \in Blocks
      BY <1>3, <1>6, <1>7
    <3> QED
      BY <3>1
  <2>2. e \in [1 .. n -> Blocks]
    BY <1>8, <2>1
  <2> QED
    BY <1>5, <2>2
<1>11. /\ head \in [key : CacheWords, finished : BOOLEAN, at : Nat] /\ head.key = key
       /\ partial' \in CacheFiles /\ partial'.head = head /\ partial'.blocks = e
  BY <1>1, <1>3, <1>9, <1>10 DEF CacheFiles
<1>12. OneKey(e, key)
  <2>1. ASSUME NEW i \in 1 .. Len(e), NEW word \in CacheKeys, NEW r \in ProbeRows, e[i] = RowHeader(word, r) PROVE word = key
    <3>1. i \in 1 .. n
      BY <1>10
    <3>2. e[i] # Junk
      BY <2>1, JunkDiffers
    <3>3. CASE e[i] = b[i]
      BY <1>3, <1>6, <2>1, <3>1, <3>3 DEF OneKey
    <3>4. CASE e[i] = k[i] /\ i \in 1 .. Len(k)
      BY <1>3, <2>1, <3>4 DEF OneKey
    <3> QED
      BY <1>6, <3>1, <3>2, <3>3, <3>4
  <2> QED
    BY <2>1 DEF OneKey
<1>13. Sealed(partial', durable', reader', rowAt', cursorAt')
  <2>1. ASSUME head.finished
        PROVE  Len(e) = head.at /\ Tiled(e, key, head.at, ProbeRows)
    <3>1. partial.head.finished /\ head = partial.head
      BY <1>1, <1>4, <2>1 DEF Sealed
    <3>2. /\ Len(b) = head.at /\ Len(k) = head.at /\ (\A i \in 1 .. head.at - 1 : b[i] = k[i])
          /\ Tiled(b, key, head.at, ProbeRows)
      BY <1>4, <3>1 DEF Sealed
    <3>3. Len(e) = head.at /\ n = head.at
      BY <1>5, <1>10, <3>2
    <3>4. SameBelow(b, e, head.at)
      <4>1. ASSUME NEW i \in 1 .. head.at - 1 PROVE b[i] = e[i]
        <5>1. i \in 1 .. n /\ i \in 1 .. Len(k)
          BY <1>5, <3>2, <3>3
        <5> QED
          BY <1>6, <3>2, <5>1
      <4> QED
        BY <1>5, <3>2, <3>3, <4>1 DEF SameBelow
    <3>5. Tiled(e, key, head.at, ProbeRows)
      <4>1. head.at \in Nat /\ ProbeRows \in SUBSET ProbeRows /\ Len(e) \in Nat
        BY <1>5, <3>3
      <4> QED
        BY <3>2, <3>4, <4>1, TilesStay
    <3> QED
      BY <3>3, <3>5
  <2> QED
    BY <1>1, <1>11, <2>1, NoRowsIs DEF Sealed
<1>14. BakeRight(partial', durable', reader', rowAt', cursorAt', acknowledged')
  <2>1. Tiled(e, key, 1, {}) /\ 1 \in Nat
    BY <1>5, <1>10, TilesNone
  <2>2. WriterRight(partial', reader', rowAt', cursorAt', acknowledged')
    BY <1>1, NoRowsIs DEF WriterRight
  <2> QED
    BY <1>1, <1>11, <1>12, <1>13, <2>1, <2>2 DEF BakeRight
<1>15. PublishedRight(published', reader', rowAt')
  BY <1>1, <1>2, NoRowsIs DEF PublishedRight
<1>16. ReaderRight(reader', rowAt', cursorAt', acknowledged')
  BY <1>1, NoRowsIs
<1> QED
  BY <1>1, <1>14, <1>15, <1>16, PagesStay, CacheNext

LEMMA CacheStep == CacheSafe /\ [PathCacheNext]_cacheVars => CacheSafe'
<1> SUFFICES ASSUME CacheSafe, [PathCacheNext]_cacheVars PROVE CacheSafe'
  OBVIOUS
<1>1. ASSUME NEW key \in CacheKeys, Open(key) PROVE CacheSafe'
  <2>1. CASE CanOpen(key)
    BY <1>1, <2>1, OpensPublishedKept DEF Open
  <2>2. CASE ~CanOpen(key)
    BY <1>1, <2>2, ClosesKept DEF Open
  <2> QED
    BY <2>1, <2>2
<1>2. ASSUME NEW key \in CacheKeys, NEW written \in BOOLEAN, Begin(key, written) PROVE CacheSafe'
  <2>1. CASE CanOpen(key)
    BY <1>2, <2>1, OpensPublishedKept DEF Begin
  <2>2. CASE ~CanOpen(key)
    <3>1. (CreatePartial(key, written) \/ Resume(key)) /\ pages' = << >> /\ UNCHANGED published
      BY <1>2, <2>2 DEF Begin
    <3> QED
      BY <3>1, CreatePartialKept, ResumeKept
  <2> QED
    BY <2>1, <2>2
<1>3. ASSUME NEW r \in ProbeRows, NEW n \in 0 .. RowBlocks[r] + 1, WriteRow(r, n) PROVE CacheSafe'
  BY <1>3, WriteKept
<1>4. ASSUME NEW r \in ProbeRows, Lookup(r) PROVE CacheSafe'
  BY <1>4, LookupKept
<1>5. ASSUME NEW steps \in 1 .. 5, Finish(steps) PROVE CacheSafe'
  BY <1>5, FinishKept
<1>6. CASE CloseOrDie
  BY <1>6, ClosesKept DEF CloseOrDie
<1>7. CASE PowerFails
  BY <1>7, PowerFailsKept
<1>8. CASE UNCHANGED cacheVars
  <2>1. UNCHANGED <<published, partial, durable, reader, rowAt, cursorAt, pages, acknowledged>>
    BY <1>8 DEF cacheVars
  <2> QED
    BY <2>1, PagesStay, Zenon DEF CacheSafe
<1>9. \A r \in ProbeRows : RowBlocks[r] \in Nat /\ 1 + RowBlocks[r] \in 0 .. RowBlocks[r] + 1
  BY CacheNumbers
<1>10. \A r \in ProbeRows : \A n \in 0 .. RowBlocks[r] : n \in 0 .. RowBlocks[r] + 1
  BY CacheNumbers
<1>11. TRUE \in BOOLEAN /\ FALSE \in BOOLEAN /\ 5 \in 1 .. 5 /\ \A steps \in 1 .. 4 : steps \in 1 .. 5
  OBVIOUS
<1> QED
  BY <1>1, <1>2, <1>3, <1>4, <1>5, <1>6, <1>7, <1>8, <1>9, <1>10, <1>11, Zenon DEF PathCacheNext, Mishap

\* Whatever write fails and whenever the process dies or the power goes, the rows an open cache
\* names are whole and of the bake asked for, a published cache has them all, no row is lost that
\* was said to be written, and the pages in memory stay within their limit.
THEOREM PathCacheSafety == PathCacheSpec => []PathCacheInv
<1>1. PathCacheInit => CacheSafe
  BY CacheStart
<1>2. CacheSafe => PathCacheInv
  BY CacheSafeIsEnough
<1> QED
  BY <1>1, <1>2, CacheStep, PTL DEF PathCacheSpec

-----------------------------------------------------------------------------
(* The world as a whole                                                      *)

\* What holds of the three: a component moves by its own steps or not at all.
WorldSafe == TrackerSafe /\ ScenerySafe /\ WalkSafe

LEMMA WorldStep == WorldSafe /\ [MCNext]_mcVars => WorldSafe'
<1> SUFFICES ASSUME WorldSafe, [MCNext]_mcVars PROVE WorldSafe'
  OBVIOUS
<1>1. [OccludersNext]_occluderVars
  BY Zenon DEF MCNext, mcVars, Rest
<1>2. [SceneryNext]_sceneryVars
  BY Zenon DEF MCNext, mcVars, Rest
<1>3. [WalkNext]_walkVars
  BY Zenon DEF MCNext, mcVars, Rest
<1> QED
  BY <1>1, <1>2, <1>3, OccStep, SceneryStep, WalkStep, Zenon DEF WorldSafe

\* Whatever the engine reports, the queue refuses and the SDK fails to make: no mesh
\* is where the tracker does not believe it to be, and one is missing only for a
\* reason SceneIsFollowed names; the SDK's objects are held as long as they live, and
\* the tracer sees what was committed; a walk misses what faulted and nothing else.
THEOREM WorldSafety == MCSpec => []WorldInv
<1>1. MCInit => WorldSafe
  BY OccStart, SceneryStart, WalkStart DEF MCInit, WorldSafe
<1>2. WorldSafe => WorldInv
  BY TrackerSafeIsEnough, ScenerySafeIsEnough, WalkSafeIsEnough, Zenon DEF WorldSafe, WorldInv, Moves
<1> QED
  BY <1>1, <1>2, WorldStep, PTL DEF MCSpec

\* What holds of what is read.
ReadSafe == FilesSafe /\ CacheSafe

LEMMA ReadStep == ReadSafe /\ [MCNext]_mcVars => ReadSafe'
<1> SUFFICES ASSUME ReadSafe, [MCNext]_mcVars PROVE ReadSafe'
  OBVIOUS
<1>1. [FilesNext]_filesVars
  BY Zenon DEF MCNext, mcVars, Rest
<1>2. [PathCacheNext]_cacheVars
  BY Zenon DEF MCNext, mcVars, Rest
<1> QED
  BY <1>1, <1>2, FilesStep, CacheStep, Zenon DEF ReadSafe

\* What is read is what the files hold, whatever comes and goes on the disk and whenever
\* the process dies or the power fails.
THEOREM ReadSafety == MCSpec => []ReadInv
<1>1. MCInit => ReadSafe
  BY FilesStart, CacheStart DEF MCInit, ReadSafe
<1>2. ReadSafe => ReadInv
  BY FilesSafeIsEnough, CacheSafeIsEnough, Zenon DEF ReadSafe, ReadInv, Moves
<1> QED
  BY <1>1, <1>2, ReadStep, PTL DEF MCSpec
=============================================================================
