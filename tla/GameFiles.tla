----------------------------- MODULE GameFiles -----------------------------
(***************************************************************************)
(* Where a file of the game comes from: the engine's file system, once one *)
(* of its possible slot layouts has been probed; then the disk; then the   *)
(* addon archives, whose list and indexes are read once and kept while the *)
(* archives on disk come, go and are replaced.  An archive is the sequence *)
(* of its entries; a file's contents are the version of what holds it.     *)
(***************************************************************************)
EXTENDS Integers, FiniteSets, SequencesExt

CONSTANTS
  Files, Archives,       \* the archives in the order of their names
  Layouts,               \* slot layouts tried, in order
  FirstWindow, MaxIndex, \* bytes of an index read at first; kMaxIndexBytes
  MaxIndexLength,        \* bound on the bytes of an index
  MaxVersions            \* bound on the changes of the disk

ASSUME FilesAssumption ==
  /\ IsFiniteSet(Files) /\ Archives \in Seq(Nat) /\ Layouts \in Seq(STRING)
  /\ {FirstWindow, MaxIndex, MaxIndexLength, MaxVersions} \subseteq Nat /\ FirstWindow > 0

VARIABLES
  m_slots,               \* EngineFileSystem: the layout that passed the probe
  m_stringSlotState,     \* its FileNameHandle_t resolver
  engineFiles, looseFiles,   \* what the engine's file system and the disk have
  disk,                  \* archive -> [files, length of its index, bytes of the file, version]
  m_scanned, m_archives, m_indexed,   \* GmaLocator: the list; archive -> files of its index
  steady,                \* history: archive -> files it has had unchanged since the scan
  lookup,                \* the last file asked for and its outcome
  version

filesVars == <<m_slots, m_stringSlotState, engineFiles, looseFiles, disk, m_scanned, m_archives,
               m_indexed, steady, lookup, version>>

Unavailable == "unavailable"
Names == {Archives[i] : i \in DOMAIN Archives}
NoArchive == [files |-> {}, index |-> 0, size |-> 0, version |-> 0]
Nowhere == [file |-> "none", from |-> "none", version |-> 0]
Result(file, from, v) == [file |-> file, from |-> from, version |-> v]

FilesInit ==
  /\ m_slots = Unavailable /\ m_stringSlotState = "unvalidated"
  /\ engineFiles \in SUBSET Files /\ looseFiles \in SUBSET (Files \ engineFiles)
  /\ disk = [a \in Names |-> NoArchive] /\ version = 0
  /\ m_scanned = FALSE /\ m_archives = {} /\ m_indexed = <<>>
  /\ steady = [a \in Names |-> {}] /\ lookup = Nowhere

-----------------------------------------------------------------------------
(* GmaArchive *)

\* ParseIndex on the first n bytes: an index that goes on says so.
Parsed(archive, n) ==
  CASE n < archive.index -> "more"
    [] n >= archive.index /\ archive.index + Cardinality(archive.files) > archive.size -> "bad"   \* more data than it holds
    [] OTHER -> "ok"

\* Open reads four times as much until the index is whole.
Opens(archive) ==
  LET read[w \in 1..archive.size] ==
        LET r == Parsed(archive, w)
        IN IF r # "more" \/ w >= archive.size \/ w >= MaxIndex THEN r
           ELSE read[IF 4 * w < archive.size THEN 4 * w ELSE archive.size]
  IN archive.size > 0 /\ read[IF FirstWindow < archive.size THEN FirstWindow ELSE archive.size] = "ok"

-----------------------------------------------------------------------------
(* GmaLocator *)

ScanArchives == IF m_scanned THEN m_archives ELSE {a \in Names : disk[a] # NoArchive}

\* IndexAll: an archive that does not open is passed over; an empty index is read again.
IndexAll ==
  IF DOMAIN m_indexed # {} /\ m_scanned THEN m_indexed
  ELSE [a \in {b \in ScanArchives : Opens(disk[b])} |-> disk[a].files]

\* The first archive whose index has the file is opened again; what it no
\* longer has is not looked for elsewhere.
\* Mutant: the index is trusted.
FoundInIndex(index, file) ==
  LET with == {i \in DOMAIN Archives : Archives[i] \in DOMAIN index /\ file \in index[Archives[i]]}
  IN IF with = {} THEN Nowhere
     ELSE LET a == Archives[CHOOSE i \in with : \A j \in with : i <= j]
          IN Result(file, "archive", disk[a].version)
Find(index, file) ==
  LET with == {i \in DOMAIN Archives : Archives[i] \in DOMAIN index /\ file \in index[Archives[i]]}
  IN IF with = {} THEN Nowhere
     ELSE LET a == Archives[CHOOSE i \in with : \A j \in with : i <= j]
          IN IF Opens(disk[a]) /\ file \in disk[a].files THEN Result(file, "archive", disk[a].version)
             ELSE Nowhere

EngineHas(file) == m_slots # Unavailable /\ file \in engineFiles

\* The engine's file system first, then the disk, then the archives.
ReadGameFile(file) ==
  LET searches == ~EngineHas(file) /\ file \notin looseFiles
      found == Find(IndexAll, file)
  IN /\ lookup' = CASE EngineHas(file) -> Result(file, "engine", 0)
                    [] file \in looseFiles /\ ~EngineHas(file) -> Result(file, "disk", 0)
                    [] OTHER -> [found EXCEPT !.file = file]
     /\ IF searches
        THEN /\ m_scanned' = TRUE /\ m_archives' = ScanArchives /\ m_indexed' = IndexAll
             /\ steady' = IF m_scanned THEN steady ELSE [a \in Names |-> disk[a].files]
        ELSE UNCHANGED <<m_scanned, m_archives, m_indexed, steady>>
     /\ UNCHANGED <<m_slots, m_stringSlotState, engineFiles, looseFiles, disk, version>>

Invalidate ==
  /\ m_scanned' = FALSE /\ m_archives' = {} /\ m_indexed' = <<>> /\ steady' = [a \in Names |-> {}]
  /\ lookup' = Nowhere
  /\ UNCHANGED <<m_slots, m_stringSlotState, engineFiles, looseFiles, disk, version>>

\* Steam writes, replaces or removes an archive; a download may be cut short.
ChangeArchive(a) ==
  /\ version < MaxVersions /\ version' = version + 1
  /\ \E files \in SUBSET Files, index \in 1..MaxIndexLength, cut \in 0..1 :
       LET size == index + Cardinality(files) - cut
       IN /\ size > 0
          /\ disk' = [disk EXCEPT ![a] = [files |-> files, index |-> index, size |-> size,
                                          version |-> version + 1]]
          /\ steady' = [steady EXCEPT ![a] = IF Opens(disk'[a]) THEN @ \intersect files ELSE {}]
  /\ lookup' = Nowhere
  /\ UNCHANGED <<m_slots, m_stringSlotState, engineFiles, looseFiles, m_scanned, m_archives, m_indexed>>

-----------------------------------------------------------------------------
(* EngineFileSystem *)

\* A layout passes when its slots lie in the module and every call of the
\* probe, on a file every game has, gives what it must.
Passing(plausible, probed) == plausible \intersect probed

\* The first layout that passes is used; without one the file system is not.
InitializeFileSystem ==
  /\ m_slots = Unavailable
  /\ \E plausible, probed \in SUBSET ToSet(Layouts) :
       LET passes == Passing(plausible, probed)
       IN m_slots' = IF passes = {} THEN Unavailable
                     ELSE Layouts[CHOOSE i \in DOMAIN Layouts :
                                    Layouts[i] \in passes /\ \A j \in 1..(i - 1) : Layouts[j] \notin passes]
  /\ m_stringSlotState' = "unvalidated" /\ lookup' = Nowhere
  /\ UNCHANGED <<engineFiles, looseFiles, disk, m_scanned, m_archives, m_indexed, steady, version>>

ShutdownFileSystem ==
  /\ m_slots # Unavailable /\ m_slots' = Unavailable
  /\ m_stringSlotState' = "unvalidated" /\ lookup' = Nowhere
  /\ UNCHANGED <<engineFiles, looseFiles, disk, m_scanned, m_archives, m_indexed, steady, version>>

\* The first answer decides whether the slot is ever called again.
FileNameFromHandle(isPath) ==
  /\ m_slots # Unavailable /\ m_stringSlotState # "broken"
  /\ m_stringSlotState' = CASE isPath -> "validated"
                            [] ~isPath /\ m_stringSlotState = "unvalidated" -> "broken"
                            [] OTHER -> m_stringSlotState
  /\ UNCHANGED <<m_slots, engineFiles, looseFiles, disk, m_scanned, m_archives, m_indexed, steady,
                 lookup, version>>

FilesNext ==
  \/ Invalidate \/ InitializeFileSystem \/ ShutdownFileSystem
  \/ \E f \in Files : ReadGameFile(f)
  \/ \E i \in DOMAIN Archives : ChangeArchive(Archives[i])
  \/ \E isPath \in BOOLEAN : FileNameFromHandle(isPath)

-----------------------------------------------------------------------------

\* An archive opens exactly when its index and its data are whole, however
\* many windows its index takes, up to the first one past the limit.
ArchivesOpen ==
  \A a \in Names :
    LET d == disk[a]
        whole == d.size > 0 /\ d.index + Cardinality(d.files) <= d.size
    IN /\ Opens(d) => whole
       /\ whole /\ d.index <= MaxIndex => Opens(d)

\* What is read from an archive is in that archive now, not in the index of
\* what it was; a file that an archive has had ever since the scan is found,
\* unless one before it lost its own copy; and the archives are not asked for
\* what the engine or the disk has.
LookupsAreCurrent ==
  /\ lookup.from = "archive" =>
       \E a \in Names : lookup.version = disk[a].version /\ lookup.file \in disk[a].files /\ Opens(disk[a])
  /\ lookup.from = "none" /\ lookup.file # "none" =>
       /\ lookup.file \notin looseFiles
       /\ \A i \in DOMAIN Archives :
            lookup.file \in steady[Archives[i]] /\ Archives[i] \in DOMAIN m_indexed =>
              \E j \in 1..(i - 1) : /\ Archives[j] \in DOMAIN m_indexed
                                    /\ lookup.file \in m_indexed[Archives[j]]
                                    /\ lookup.file \notin steady[Archives[j]]
  /\ lookup.from = "archive" => lookup.file \notin looseFiles

FilesInv == ArchivesOpen /\ LookupsAreCurrent
=============================================================================
