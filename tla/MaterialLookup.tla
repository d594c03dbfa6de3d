-------------------------- MODULE MaterialLookup --------------------------
(***************************************************************************)
(* From a texture of the map to the acoustic material of its faces: the    *)
(* $surfaceprop of its .vmt, which may be a patch of another .vmt, then    *)
(* the material of that surface property, which inherits from its base     *)
(* through the game's surfaceproperties scripts, has aliases and, failing  *)
(* those, a family or a hint in its name.  The game's files change when    *)
(* addons are mounted; what was read is cached.  Names are compared in     *)
(* lower case throughout, so a name stands for its lower-case form.        *)
(***************************************************************************)
EXTENDS Integers, FiniteSets

CONSTANTS
  Props,                  \* surface properties of scripts and textures
  Families,               \* materials a gamematerial letter or a hint can name
  Materials,              \* other materials the overrides may define
  Hint,                   \* Props -> Families: what a name contains
  Aliased,                \* names that may have an alias
  Vmts,                   \* .vmt files of the textures
  MaxChain,               \* kMaxChain = 16
  MaxPatchDepth,          \* kMaxPatchDepth = 4
  MaxMounts               \* bound

ASSUME LookupAssumption ==
  /\ Hint \in [Props -> Families] /\ {MaxChain, MaxPatchDepth, MaxMounts} \subseteq Nat

VARIABLES
  scripts,                \* the database: name -> its base and gamematerial
  m_materials, m_aliases, \* the library
  vmtFiles,               \* game files: what a .vmt says
  m_vmtSurfaceProps,      \* cache: .vmt -> surface property
  mounted                 \* history: the contents of the files since the map was loaded

lookupVars == <<scripts, m_materials, m_aliases, vmtFiles, m_vmtSurfaceProps, mounted>>

Nothing == "nothing"
Generic == "generic"
NotCached == "not cached"

\* AddScript drops a base that is the block itself.
ScriptEntry == [base : Props \union {Nothing}, family : Families \union {Nothing}]
Scripts == {s \in [Props -> ScriptEntry] : \A p \in Props : s[p].base # p}
\* A patch has its own $surfaceprop or includes another file; TextureToVmtPath
\* finds no path in an include that is empty or leaves the game directory.
VmtContents == [prop : {Nothing} \union Props, include : Vmts \union {Nothing}]
NoVmt == [prop |-> Nothing, include |-> Nothing]   \* says as much as a file that is not there

-----------------------------------------------------------------------------
(* MaterialLibrary and SurfacePropDatabase *)

Knows(p) == p \in m_materials \/ (p \in DOMAIN m_aliases /\ m_aliases[p] \in m_materials)
Direct(p) == IF p \in m_materials THEN p ELSE m_aliases[p]

\* The names from p to its furthest base the code looks at.
\* Mutant: one name less.
ChainTooShort(p) ==
  LET at[i \in 0..MaxChain] == IF i = 0 THEN p ELSE IF at[i - 1] = Nothing THEN Nothing ELSE scripts[at[i - 1]].base
  IN [i \in 0..(MaxChain - 2) |-> at[i]]
Chain(p) ==
  LET at[i \in 0..MaxChain] == IF i = 0 THEN p ELSE IF at[i - 1] = Nothing THEN Nothing ELSE scripts[at[i - 1]].base
  IN [i \in 0..(MaxChain - 1) |-> at[i]]
First(chain, Test(_)) == {i \in DOMAIN chain : Test(chain[i]) /\ \A j \in 0..(i - 1) : ~Test(chain[j])}

\* The nearest known name; else the family of the nearest name that has one.
Canonicalize(p) ==
  LET chain == Chain(p)
      known == First(chain, Knows)
      HasFamily(q) == q # Nothing /\ scripts[q].family # Nothing
      withFamily == First(chain, HasFamily)
  IN IF known # {} THEN chain[CHOOSE i \in known : TRUE]
     ELSE IF withFamily = {} THEN Nothing
     ELSE LET family == scripts[chain[CHOOSE i \in withFamily : TRUE]].family
          IN IF Knows(family) THEN family ELSE Nothing

NameFromTexture(p) == IF Hint[p] \in m_materials THEN Hint[p] ELSE Generic

ResolveName(p) ==
  CASE p = Nothing -> Generic
    [] p # Nothing /\ Knows(p) -> Direct(p)
    [] OTHER -> LET c == Canonicalize(p) IN IF c # Nothing THEN Direct(c) ELSE NameFromTexture(p)

-----------------------------------------------------------------------------
(* AudioEngine *)

\* ResolveSurfaceProp: through the patches, a bounded number of files.
PropOf(files, vmt) ==
  LET read[d \in 0..MaxPatchDepth, v \in Vmts \union {Nothing}] ==
        CASE d = MaxPatchDepth \/ v = Nothing -> Nothing
          [] OTHER -> IF files[v].prop # Nothing THEN files[v].prop ELSE read[d + 1, files[v].include]
  IN read[0, vmt]

\* Built in, or defined by the overrides.
Library == {m \union {Generic} : m \in SUBSET (Materials \union Families)}

LookupInit ==
  /\ scripts \in Scripts /\ m_materials \in Library
  /\ m_aliases \in UNION {[a -> Families] : a \in SUBSET Aliased}
  /\ vmtFiles = [v \in Vmts |-> NoVmt] /\ mounted = {vmtFiles}
  /\ m_vmtSurfaceProps = [v \in Vmts |-> NotCached]

DescribeTexture(v) ==
  /\ m_vmtSurfaceProps[v] = NotCached
  /\ m_vmtSurfaceProps' = [m_vmtSurfaceProps EXCEPT ![v] = PropOf(vmtFiles, v)]
  /\ UNCHANGED <<scripts, m_materials, m_aliases, vmtFiles, mounted>>

Mount ==
  /\ Cardinality(mounted) <= MaxMounts
  /\ vmtFiles' \in [Vmts -> VmtContents] /\ mounted' = mounted \union {vmtFiles'}
  /\ UNCHANGED <<scripts, m_materials, m_aliases, m_vmtSurfaceProps>>

\* Addons mounted between maps may add or override materials.
\* Mutant: the cache outlives the map.
ApplyBspKeeps ==
  /\ m_vmtSurfaceProps' = m_vmtSurfaceProps /\ mounted' = {vmtFiles}
  /\ UNCHANGED <<scripts, m_materials, m_aliases, vmtFiles>>
ApplyBsp ==
  /\ m_vmtSurfaceProps' = [v \in Vmts |-> NotCached] /\ mounted' = {vmtFiles}
  /\ UNCHANGED <<scripts, m_materials, m_aliases, vmtFiles>>

LookupNext == Mount \/ ApplyBsp \/ \E v \in Vmts : DescribeTexture(v)

-----------------------------------------------------------------------------

Ancestry(p) ==
  LET up[n \in 0..Cardinality(Props)] ==
        IF n = 0 THEN {p} ELSE up[n - 1] \union {scripts[q].base : q \in up[n - 1] \ {Nothing}}
  IN up[Cardinality(Props)] \ {Nothing}

\* A surface property that is not known itself has the material of its base
\* when any ancestor is known, else that of a family of its own: a chain of
\* bases is followed to its end, also when it is as long as the scripts can
\* make it, and one that runs in a circle ends.  Whatever is resolved is a
\* material of the library.
MaterialsAreInherited ==
  \A p \in Props :
    /\ ResolveName(p) \in m_materials
    /\ ~Knows(p) /\ (\E q \in Ancestry(p) : Knows(q)) => ResolveName(p) = ResolveName(scripts[p].base)
    /\ (\A q \in Ancestry(p) : ~Knows(q)) /\ scripts[p].family # Nothing /\ Knows(scripts[p].family)
         => ResolveName(p) = scripts[p].family

\* What the cache says of a texture the files said since the map was loaded.
CacheIsOfThisMap ==
  \A v \in Vmts : \/ m_vmtSurfaceProps[v] = NotCached
                  \/ \E files \in mounted : m_vmtSurfaceProps[v] = PropOf(files, v)

LookupInv == MaterialsAreInherited /\ CacheIsOfThisMap
=============================================================================
