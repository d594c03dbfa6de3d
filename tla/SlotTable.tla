------------------------------ MODULE SlotTable ------------------------------
(***************************************************************************)
(* The slots of core/ChannelCapture, which belong to the engine's mixer    *)
(* thread: an open-addressed table from engine channels to slots with      *)
(* deletion by backward shift, eviction of the slot mixed the longest ago, *)
(* release of idle slots, and the staging of one block per channel and     *)
(* iteration whose length tells the rate group of the sound.               *)
(***************************************************************************)
EXTENDS Integers, Sequences, FiniteSets

CONSTANTS
  EngineChannels,   \* addresses of channel_t
  NumCaptureSlots,  \* kSlots
  HashSize,         \* kHashSize
  Home,             \* hash of each address
  IdleSamples,      \* kReuseIdleSamples
  Lengths,          \* lengths of an iteration, as multiples of four
  MaxIterations,    \* bound on the iterations painted
  MaxStaged,        \* bound on the slots staged in an iteration
  MaxGuid           \* bound on the sounds started

CaptureSlots == 0 .. NumCaptureSlots - 1
Buckets == 0 .. HashSize - 1
NoChannel == "none"
NoSlot == -1

ASSUME TableAssumption ==
  /\ NumCaptureSlots \in Nat \ {0} /\ HashSize \in Nat /\ HashSize > NumCaptureSlots
  /\ Home \in [EngineChannels -> Buckets] /\ NoChannel \notin EngineChannels
  /\ IdleSamples \in Nat \ {0} /\ Lengths \subseteq {n \in Nat \ {0} : n % 4 = 0}

VARIABLES
  hash, captureSlots, free,  \* m_hash, m_slots, m_freeSlots
  stagedSlots,               \* m_stagedSlots
  paintClock,                \* m_paintClock at the start of the iteration
  iteration,                 \* its length, 0 between iterations
  iterations,                \* how many were painted
  sound                      \* what the engine plays in each channel

tableVars == <<hash, captureSlots, free, stagedSlots, paintClock, iteration, iterations, sound>>

\* Sounds are mixed at 1, 1/2 or 1/4 of the DMA rate.
Groups == {1, 2, 4}
Empty == [key |-> NoChannel, slot |-> NoSlot]
\* fullStart is history: the group of a sound whose first block was full.
Unbound == [ptr |-> NoChannel, lastClock |-> 0, everMixed |-> FALSE, hashIndex |-> NoSlot, idleSince |-> 0,
            stageEnd |-> 0, groupDiv |-> 1, groupKnown |-> FALSE, lastGuid |-> 0, fullStart |-> 0]

TableInit ==
  /\ hash = [h \in Buckets |-> Empty] /\ captureSlots = [i \in CaptureSlots |-> Unbound]
  /\ free = [k \in 1 .. NumCaptureSlots |-> NumCaptureSlots - k] /\ stagedSlots = <<>>
  /\ paintClock = 1 /\ iteration = 0 /\ iterations = 0
  /\ sound = [c \in EngineChannels |-> [guid |-> 1, group |-> 1]]

-----------------------------------------------------------------------------
(* The hash table                                                          *)

Probe(c, k) == (Home[c] + k) % HashSize
First(S) == CHOOSE k \in S : \A l \in S : k <= l

\* Probing ends at the key or at the first gap.
Lookup(table, c) ==
  LET ends == {k \in Buckets : table[Probe(c, k)].key \in {c, NoChannel}}
  IN IF ends = {} THEN NoSlot ELSE table[Probe(c, First(ends))].slot

Gap(table, c) == Probe(c, First({k \in Buckets : table[Probe(c, k)].key = NoChannel}))

\* Mutant: the wrap of the table is forgotten.
BetweenWithoutWrap(hole, home, next) == home > hole /\ home <= next
\* home lies within (hole, next], going round the table.
Between(hole, home, next) ==
  IF hole <= next THEN home > hole /\ home <= next ELSE home > hole \/ home <= next

\* Deletion: entries after the hole are moved back unless that takes them in
\* front of their home.
Shifting ==
  [hash : [Buckets -> [key : EngineChannels \union {NoChannel}, slot : CaptureSlots \union {NoSlot}]],
   index : [CaptureSlots -> Buckets \union {NoSlot}], hole : Buckets, next : Buckets]
Shifted[s \in Shifting] ==
  LET entry == s.hash[s.next]
      onward == (s.next + 1) % HashSize
  IN IF entry = Empty THEN s
     ELSE IF Between(s.hole, Home[entry.key], s.next) THEN Shifted[[s EXCEPT !.next = onward]]
     ELSE Shifted[[s EXCEPT !.hash = [@ EXCEPT ![s.hole] = entry, ![s.next] = Empty],
                            !.index = [@ EXCEPT ![entry.slot] = s.hole], !.hole = s.next, !.next = onward]]

ResetStage(slot) == [slot EXCEPT !.stageEnd = 0]

\* t bundles the table: [hash, slots, free].
ReleaseSlot(t, i) ==
  LET hole == t.slots[i].hashIndex
      s == Shifted[[hash |-> [t.hash EXCEPT ![hole] = Empty], index |-> [j \in CaptureSlots |-> t.slots[j].hashIndex],
                    hole |-> hole, next |-> (hole + 1) % HashSize]]
      moved == [j \in CaptureSlots |-> [t.slots[j] EXCEPT !.hashIndex = s.index[j]]]
  IN IF t.slots[i].ptr = NoChannel THEN t
     ELSE [hash |-> s.hash, free |-> Append(t.free, i),
           slots |-> [moved EXCEPT ![i] = [ResetStage(@) EXCEPT !.hashIndex = NoSlot, !.ptr = NoChannel, !.idleSince = 0]]]

\* Mutant: the lowest slot is evicted.
AnyVictim(t) == First(CaptureSlots)
Victim(t) ==
  First({i \in CaptureSlots : \A j \in CaptureSlots : t.slots[i].lastClock <= t.slots[j].lastClock})

BeginNewSound(slot, c) ==
  [slot EXCEPT !.lastClock = paintClock, !.everMixed = FALSE, !.ptr = c, !.groupDiv = 1, !.groupKnown = FALSE,
               !.lastGuid = sound[c].guid, !.fullStart = 0]

AllocateSlot(t, c) ==
  LET r == IF t.free = <<>> THEN ReleaseSlot(t, Victim(t)) ELSE t
      i == r.free[Len(r.free)]
      h == Gap(r.hash, c)
  IN [hash |-> [r.hash EXCEPT ![h] = [key |-> c, slot |-> i]], free |-> SubSeq(r.free, 1, Len(r.free) - 1),
      slots |-> [r.slots EXCEPT ![i] = [BeginNewSound(@, c) EXCEPT !.hashIndex = h, !.idleSince = 0]]]

LookupOrBind(t, c) == IF Lookup(t.hash, c) # NoSlot THEN t ELSE AllocateSlot(t, c)

-----------------------------------------------------------------------------
(* The engine's mixer                                                      *)

\* A channel_t is taken for another sound; the guid is always known.
StartSound(c, guid, group) ==
  /\ iteration = 0 /\ \A d \in EngineChannels : sound[d].guid < guid
  /\ sound' = [sound EXCEPT ![c] = [guid |-> guid, group |-> group]]
  /\ UNCHANGED <<hash, captureSlots, free, stagedSlots, paintClock, iteration, iterations>>

OnMixBegin(n) ==
  /\ iteration = 0 /\ iterations < MaxIterations
  /\ iteration' = n /\ iterations' = iterations + 1
  /\ UNCHANGED <<hash, captureSlots, free, stagedSlots, paintClock, sound>>

\* A channel that was silent for a while, or has another guid, has a new sound.
Renewed(slot, c) ==
  IF slot.everMixed /\ (paintClock > slot.lastClock + IdleSamples \/ sound[c].guid # slot.lastGuid)
  THEN [slot EXCEPT !.everMixed = FALSE, !.groupDiv = 1, !.groupKnown = FALSE, !.fullStart = 0, !.lastGuid = sound[c].guid]
  ELSE [slot EXCEPT !.lastGuid = sound[c].guid]

\* One block, behind what is staged or over it: the same samples mixed into a
\* second paint buffer are not taken twice.
CaptureMix(c, offset, count) ==
  LET t == LookupOrBind([hash |-> hash, slots |-> captureSlots, free |-> free], c)
      i == Lookup(t.hash, c)
      slot == [Renewed(t.slots[i], c) EXCEPT !.idleSince = 0]
      duplicate == slot.stageEnd > 0 /\ offset < slot.stageEnd
  IN /\ iteration > 0 /\ count > 0 /\ Len(stagedSlots) < MaxStaged /\ offset + count <= iteration \div sound[c].group
     /\ hash' = t.hash /\ free' = t.free
     /\ IF duplicate
        THEN captureSlots' = [t.slots EXCEPT ![i] = slot] /\ UNCHANGED stagedSlots
        ELSE /\ captureSlots' = [t.slots EXCEPT ![i] = [slot EXCEPT !.stageEnd = offset + count]]
             /\ stagedSlots' = IF slot.stageEnd = 0 THEN Append(stagedSlots, i) ELSE stagedSlots
     /\ UNCHANGED <<paintClock, iteration, iterations, sound>>

\* Mutant: the group is not kept once it is known.
FreshGroup(slot, n) ==
  CASE slot.stageEnd = n -> 1
    [] slot.stageEnd = n \div 2 -> 2
    [] slot.stageEnd = n \div 4 -> 4
    [] OTHER -> IF slot.stageEnd * slot.groupDiv > n THEN 1 ELSE slot.groupDiv
\* A full block tells the rate group; a shorter one keeps the group known.
GroupOf(slot, n) ==
  CASE slot.stageEnd = n -> 1
    [] slot.stageEnd = n \div 2 /\ (~slot.groupKnown \/ slot.groupDiv = 2) -> 2
    [] slot.stageEnd = n \div 4 /\ (~slot.groupKnown \/ slot.groupDiv = 4) -> 4
    [] OTHER -> IF slot.stageEnd * slot.groupDiv > n THEN 1 ELSE slot.groupDiv

Committed(slot) ==
  LET div == GroupOf(slot, iteration)
      full == slot.stageEnd * sound[slot.ptr].group = iteration
  IN ResetStage([slot EXCEPT !.groupDiv = div, !.groupKnown = @ \/ slot.stageEnd * div = iteration,
                             !.lastClock = paintClock + slot.stageEnd * div, !.everMixed = TRUE,
                             !.fullStart = IF slot.everMixed THEN @ ELSE IF full THEN sound[slot.ptr].group ELSE 0])

\* A slot evicted while it was staged stands in stagedSlots with nothing staged.
FlushStages ==
  [i \in CaptureSlots |-> IF \E k \in DOMAIN stagedSlots : stagedSlots[k] = i
                   THEN IF captureSlots[i].stageEnd = 0 \/ captureSlots[i].ptr = NoChannel THEN ResetStage(captureSlots[i])
                        ELSE Committed(captureSlots[i])
                   ELSE captureSlots[i]]

\* A slot that is no longer mixed is released after a grace period.
Swept(t, i, next) ==
  IF t.slots[i].ptr = NoChannel \/ t.slots[i].lastClock + IdleSamples >= next THEN t
  ELSE IF t.slots[i].idleSince = 0 THEN [t EXCEPT !.slots[i].idleSince = next]
  ELSE IF next - t.slots[i].idleSince > IdleSamples * 4 THEN ReleaseSlot(t, i)
  ELSE t

OnTransferSamples ==
  LET next == paintClock + iteration
      sweep[k \in 0 .. NumCaptureSlots] ==
        IF k = 0 THEN [hash |-> hash, slots |-> FlushStages, free |-> free] ELSE Swept(sweep[k - 1], k - 1, next)
      t == sweep[NumCaptureSlots]
  IN /\ iteration > 0 /\ iteration' = 0 /\ paintClock' = next
     /\ hash' = t.hash /\ captureSlots' = t.slots /\ free' = t.free /\ stagedSlots' = <<>>
     /\ UNCHANGED <<iterations, sound>>

TableNext ==
  \/ OnTransferSamples
  \/ \E n \in Lengths : OnMixBegin(n)
  \/ \E c \in EngineChannels :
       \/ \E guid \in 2 .. MaxGuid, group \in Groups : StartSound(c, guid, group)
       \/ \E offset \in {0, iteration \div 2}, part \in Groups : CaptureMix(c, offset, iteration \div part - offset)

TableSpec == TableInit /\ [][TableNext]_tableVars

-----------------------------------------------------------------------------
(* Properties                                                              *)

Bound == {i \in CaptureSlots : captureSlots[i].ptr # NoChannel}

\* After any order of insertions and shifts: probing finds every bound slot,
\* the table holds nothing else, the free list holds the other slots once each,
\* and what is staged will be flushed.
TableInv ==
  /\ \A i \in Bound : /\ Lookup(hash, captureSlots[i].ptr) = i
                      /\ hash[captureSlots[i].hashIndex] = [key |-> captureSlots[i].ptr, slot |-> i]
  /\ Cardinality({h \in Buckets : hash[h] # Empty}) = Cardinality(Bound)
  /\ {free[k] : k \in DOMAIN free} = CaptureSlots \ Bound /\ Len(free) = NumCaptureSlots - Cardinality(Bound)
  /\ \A i \in CaptureSlots : captureSlots[i].stageEnd > 0 => i \in Bound /\ \E k \in DOMAIN stagedSlots : stagedSlots[k] = i

\* A sound that began with a full block has its samples placed on the clock by
\* its true rate group for good, whatever shorter blocks follow.
GroupIsKept ==
  \A i \in Bound : captureSlots[i].fullStart # 0 => captureSlots[i].groupDiv = captureSlots[i].fullStart

Promise == INSTANCE SlotMap WITH
  Slots <- CaptureSlots,
  owner <- [i \in CaptureSlots |-> captureSlots[i].ptr],
  lastMixed <- [i \in CaptureSlots |-> captureSlots[i].lastClock], now <- paintClock

\* The table is a map from channels to slots that forgets the channel mixed
\* the longest ago.
ImplementsSlotMap == Promise!MapSpec
=============================================================================
