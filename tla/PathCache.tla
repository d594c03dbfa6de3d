----------------------------- MODULE PathCache -----------------------------
(***************************************************************************)
(* The file that keeps the routes between the probes of a map, one row per *)
(* probe (steamaudio/PathCacheFile).  Rows are appended to a .partial file *)
(* a later bake resumes from; a finished one replaces the cache.  The      *)
(* process may die and the power may fail at any moment: of what was not   *)
(* synced, each block is then new, as it was, or junk.                     *)
(***************************************************************************)
EXTENDS Integers, FiniteSets, SequencesExt

CONSTANTS
  CacheKeys,             \* keys of bakes: the map's geometry and settings
  ProbeRows, RowBlocks,  \* rows; row -> blocks its packed routes take
  PageLimit,             \* what the pages in memory may take
  MaxMishaps             \* bound on failed writes, deaths and power failures

ASSUME PathCacheAssumption ==
  /\ RowBlocks \in [ProbeRows -> Nat] /\ PageLimit \in Nat /\ MaxMishaps \in Nat
  /\ CacheKeys \cap {"none", "torn"} = {}

VARIABLES
  published, partial,    \* the files: NoFile or [head, blocks]
  durable,               \* what of partial has reached the disk
  reader,                \* Impl: which file is open, with which key
  rowAt, cursorAt, finishedFlag,   \* Impl: index (0: none), cursor, header.flags
  pages,                 \* Impl: rows in memory, least recently used first
  acknowledged,          \* history: rows WriteRow has said it wrote since the power last failed
  mishaps

cacheVars == <<published, partial, durable, reader, rowAt, cursorAt, finishedFlag, pages, acknowledged, mishaps>>

Junk == [is |-> "junk"]
Header(key, finished, at) == [key |-> key, finished |-> finished, at |-> at]
TornHeader == Header("torn", FALSE, 0)
NoFile == [head |-> Header("none", FALSE, 0), blocks |-> <<>>]
RowHeader(key, r) == [is |-> "row", key |-> key, row |-> r]
RowOnDisk(key, r) ==
  [k \in 1..(RowBlocks[r] + 1) |-> IF k = 1 THEN RowHeader(key, r)
                                    ELSE [is |-> "data", key |-> key, row |-> r, part |-> k]]
Closed == [open |-> "no", key |-> "none"]
NoRows == [r \in ProbeRows |-> 0]

PathCacheInit ==
  /\ published = NoFile /\ partial = NoFile /\ durable = NoFile
  /\ reader = Closed /\ rowAt = NoRows /\ cursorAt = 1 /\ finishedFlag = FALSE
  /\ pages = <<>> /\ acknowledged = {} /\ mishaps = 0

-----------------------------------------------------------------------------
(* Reading *)

\* ReadPage: the row's header and what its checksum covers, before the end.
\* Mutant: the packed blocks are not checked.
WholeHeaderOnly(blocks, r, at, end) ==
  at > 0 /\ at + RowBlocks[r] < end /\ \E key \in CacheKeys : blocks[at] = RowHeader(key, r)
WholeRow(blocks, r, at, end) ==
  /\ at > 0 /\ at + RowBlocks[r] < end
  /\ \E key \in CacheKeys : SubSeq(blocks, at, at + RowBlocks[r]) = RowOnDisk(key, r)

\* ReadHeader: the magic, the version, the checksum, and the bake the file is of.
HeaderIsOf(file, key) == file.head.key = key

\* Begin scans from the first row to the first block that does not begin a whole one.
Scan(file) ==
  LET end == IF file.head.finished THEN file.head.at ELSE Len(file.blocks) + 1
      from[at \in 1..(Len(file.blocks) + 2)] ==
        LET rows == {r \in ProbeRows : WholeRow(file.blocks, r, at, end)}
        IN IF rows = {} THEN [found |-> {}, stop |-> at]
           ELSE LET r == CHOOSE x \in rows : TRUE
                    rest == from[at + 1 + RowBlocks[r]]
                IN [found |-> {<<r, at>>} \cup rest.found, stop |-> rest.stop]
  IN from[1]
\* The last of a row's copies counts.
IndexOf(found) ==
  [r \in ProbeRows |-> LET at == {f[2] : f \in {x \in found : x[1] = r}}
                       IN IF at = {} THEN 0 ELSE Max(at)]

CanOpen(key) ==
  /\ HeaderIsOf(published, key) /\ published.head.finished
  /\ Len(published.blocks) = published.head.at /\ Last(published.blocks).is = "index"
  /\ \A r \in ProbeRows : Last(published.blocks).rowAt[r] \in 1..(published.head.at - 1)

OpensPublished(key) ==
  /\ reader' = [open |-> "published", key |-> key]
  /\ rowAt' = Last(published.blocks).rowAt /\ cursorAt' = published.head.at /\ finishedFlag' = TRUE
  /\ pages' = <<>> /\ UNCHANGED <<published, partial, durable, acknowledged>>
Open(key) ==
  IF CanOpen(key) THEN OpensPublished(key)
  ELSE /\ reader' = Closed /\ rowAt' = NoRows /\ cursorAt' = 1 /\ finishedFlag' = FALSE /\ pages' = <<>>
       /\ UNCHANGED <<published, partial, durable, acknowledged>>

-----------------------------------------------------------------------------
(* Writing *)

\* Nothing to resume: the file is created and, unless that fails, its header written and synced.
CreatePartial(key, written) ==
  /\ partial = NoFile
  /\ partial' = [head |-> IF written THEN Header(key, FALSE, 0) ELSE TornHeader, blocks |-> <<>>]
  /\ durable' = partial'
  /\ reader' = IF written THEN [open |-> "partial", key |-> key] ELSE Closed
  /\ rowAt' = NoRows /\ cursorAt' = 1 /\ acknowledged' = {}
Resume(key) ==
  /\ partial # NoFile
  /\ IF HeaderIsOf(partial, key)
     THEN LET scan == Scan(partial)
          IN /\ reader' = [open |-> "partial", key |-> key]
             /\ rowAt' = IndexOf(scan.found) /\ cursorAt' = scan.stop
     ELSE reader' = Closed /\ rowAt' = NoRows /\ cursorAt' = 1
  /\ UNCHANGED <<partial, durable, acknowledged>>
Begin(key, written) ==
  IF CanOpen(key) THEN written /\ OpensPublished(key)
  ELSE /\ CreatePartial(key, written) \/ (written /\ Resume(key))
       /\ pages' = <<>> /\ finishedFlag' = FALSE /\ UNCHANGED published

Overwritten(blocks, at, new) ==
  [i \in 1..Max({Len(blocks), at + Len(new) - 1}) |->
     IF i \in at..(at + Len(new) - 1) THEN new[i - at + 1] ELSE blocks[i]]

IsWriter == reader.open = "partial"
Complete == \A r \in ProbeRows : rowAt[r] > 0

\* WriteRow; when the disk is full only the first blocks get there, the last of them torn.
WriteRow(r, n) ==
  LET row == RowOnDisk(reader.key, r)
      torn == n < Len(row)
  IN /\ IsWriter /\ rowAt[r] = 0
     /\ partial' = [partial EXCEPT !.blocks =
                      Overwritten(@, cursorAt, IF torn THEN SubSeq(row, 1, n) \o <<Junk>> ELSE row)]
     /\ IF torn THEN UNCHANGED <<rowAt, cursorAt, acknowledged>>
        ELSE /\ rowAt' = [rowAt EXCEPT ![r] = cursorAt]
             /\ cursorAt' = cursorAt + Len(row)
             /\ acknowledged' = acknowledged \cup {r}
     /\ UNCHANGED <<published, durable, reader, finishedFlag, pages>>

\* Finish: the index behind the rows, synced; the size; the header, synced; the file in the
\* cache's place.  It may fail, or the process die, after any of these steps.
\* Mutant: with rows missing.
MayFinishEarly == \E r \in ProbeRows : rowAt[r] > 0
MayFinish == Complete
Finish(steps) ==
  LET cut == SubSeq(Overwritten(partial.blocks, cursorAt, <<[is |-> "index", rowAt |-> rowAt]>>), 1, cursorAt)
      indexed == [partial EXCEPT !.blocks = IF steps = 1 THEN Overwritten(@, cursorAt, <<Last(cut)>>) ELSE cut]
      headed == [indexed EXCEPT !.head = Header(reader.key, TRUE, cursorAt)]
  IN /\ IsWriter /\ MayFinish
     /\ partial' = CASE steps \in {1, 2} -> indexed
                     [] steps \in {3, 4} -> headed
                     [] OTHER -> NoFile
     /\ durable' = CASE steps = 1 -> durable
                     [] steps \in {2, 3} -> indexed
                     [] steps = 4 -> headed
                     [] OTHER -> NoFile
     /\ published' = IF steps = 5 THEN headed ELSE published
     /\ finishedFlag' = (steps \in 3..5)
     /\ reader' = CASE steps = 4 -> Closed            \* closed, and not put in place
                    [] steps = 5 -> [reader EXCEPT !.open = "published"]
                    [] OTHER -> reader
     /\ UNCHANGED <<rowAt, cursorAt, pages, acknowledged>>

-----------------------------------------------------------------------------
(* Lookup: a row's page from memory, or read after the oldest have made room. *)

PageSize(r) == RowBlocks[r] + 1
PagesTake(rows) ==
  LET take[n \in 0..Len(rows)] == IF n = 0 THEN 0 ELSE take[n - 1] + PageSize(rows[n])
  IN take[Len(rows)]
Evict(rows, needed) ==
  LET enough == {n \in 0..Len(rows) : PagesTake(SubSeq(rows, n + 1, Len(rows))) + needed <= PageLimit}
  IN IF enough = {} THEN <<>> ELSE SubSeq(rows, Min(enough) + 1, Len(rows))

FileOpen == IF reader.open = "published" THEN published ELSE partial
Lookup(r) ==
  LET kept == Evict(pages, PageSize(r))
      at == CHOOSE i \in DOMAIN pages : pages[i] = r
  IN /\ reader.open # "no" /\ rowAt[r] > 0
     /\ pages' = CASE r \in Range(pages) -> Append(RemoveAt(pages, at), r)
                   [] WholeRow(FileOpen.blocks, r, rowAt[r], cursorAt) /\ r \notin Range(pages) -> Append(kept, r)
                   [] OTHER -> kept
     /\ UNCHANGED <<published, partial, durable, reader, rowAt, cursorAt, finishedFlag, acknowledged>>

-----------------------------------------------------------------------------
(* Mishaps *)

\* Close; the death of the process is the same to the files.
CloseOrDie ==
  /\ reader' = Closed /\ rowAt' = NoRows /\ cursorAt' = 1 /\ finishedFlag' = FALSE /\ pages' = <<>>
  /\ UNCHANGED <<published, partial, durable, acknowledged>>

PowerFails ==
  LET blocks == partial.blocks
      kept == durable.blocks
      dirty == {i \in DOMAIN blocks : i \notin DOMAIN kept \/ blocks[i] # kept[i]}
  IN \E head \in {partial.head, durable.head}, there \in SUBSET dirty, before \in SUBSET dirty,
        n \in {Len(blocks), Min({Len(blocks), Len(kept)})} :
       /\ there \cap before = {} /\ before \subseteq DOMAIN kept /\ dirty \cap (n + 1..Len(blocks)) \subseteq there
       /\ partial' = [head |-> head,
                      blocks |-> [i \in 1..n |-> CASE i \in before -> kept[i]
                                                   [] i \in dirty \ (there \cup before) -> Junk
                                                   [] OTHER -> blocks[i]]]
       /\ durable' = partial' /\ acknowledged' = {}
       /\ reader' = Closed /\ rowAt' = NoRows /\ cursorAt' = 1 /\ finishedFlag' = FALSE /\ pages' = <<>>
       /\ UNCHANGED published

Mishap(happens) == mishaps < MaxMishaps /\ mishaps' = mishaps + 1 /\ happens
PathCacheNext ==
  \/ /\ UNCHANGED mishaps
     /\ \/ \E key \in CacheKeys : reader = Closed /\ (Open(key) \/ Begin(key, TRUE))
        \/ \E r \in ProbeRows : WriteRow(r, 1 + RowBlocks[r]) \/ Lookup(r)
        \/ Finish(5)
  \/ Mishap(\/ \E key \in CacheKeys : reader = Closed /\ Begin(key, FALSE)
            \/ \E r \in ProbeRows : \E n \in 0..RowBlocks[r] : WriteRow(r, n)
            \/ \E steps \in 1..4 : Finish(steps)
            \/ CloseOrDie \/ PowerFails)
PathCacheSpec == PathCacheInit /\ [][PathCacheNext]_cacheVars

-----------------------------------------------------------------------------
(* Properties *)

\* Every row the index of an open cache names is whole in the file, and of the bake asked for.
IndexedRowsAreWhole ==
  \A r \in ProbeRows :
    rowAt[r] > 0 /\ reader.open # "no" =>
      SubSeq(FileOpen.blocks, rowAt[r], rowAt[r] + RowBlocks[r]) = RowOnDisk(reader.key, r)

\* What is published is complete: every row is there, whatever failed on the way.
PublishedIsComplete ==
  published # NoFile => \A r \in ProbeRows : WholeRow(published.blocks, r, Last(published.blocks).rowAt[r], published.head.at)

\* As long as the power lasts, a resumed bake has every row it was told was written.
NoRowIsLost ==
  IsWriter => \A r \in acknowledged : rowAt[r] > 0

\* The pages in memory are within their limit, but for one that is too large by itself.
PagesFit == Len(pages) <= 1 \/ PagesTake(pages) <= PageLimit

PathCacheInv ==
  /\ PagesFit /\ IndexedRowsAreWhole /\ PublishedIsComplete /\ NoRowIsLost
=============================================================================
