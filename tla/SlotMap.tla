------------------------------- MODULE SlotMap -------------------------------
(***************************************************************************)
(* What the slot table of core/ChannelCapture promises: each engine        *)
(* channel that is mixed has one slot to itself, keeps it while it is      *)
(* mixed, and loses it only to idleness or, when all are taken, to another *)
(* channel because it was mixed the longest ago.                           *)
(***************************************************************************)
EXTENDS Integers

CONSTANTS EngineChannels, Slots, NoChannel, IdleSamples

VARIABLES
  owner,      \* channel each slot is bound to
  lastMixed,  \* clock up to which each slot was mixed
  now         \* the paint clock

mapVars == <<owner, lastMixed, now>>

MapInit ==
  /\ owner = [i \in Slots |-> NoChannel]
  /\ lastMixed = [i \in Slots |-> 0]
  /\ now \in Nat

Free == {i \in Slots : owner[i] = NoChannel}
Oldest(i) == \A j \in Slots : lastMixed[i] <= lastMixed[j]

Bind(c, i) ==
  /\ \A j \in Slots : owner[j] # c
  /\ i \in Free \/ (Free = {} /\ Oldest(i))
  /\ owner' = [owner EXCEPT ![i] = c]
  /\ lastMixed' = [lastMixed EXCEPT ![i] = now]
  /\ now' = now

\* The iteration ends: what was mixed is later than before, what has been idle
\* may go.
EndIteration ==
  /\ now' > now
  /\ \A i \in Slots : lastMixed[i] <= lastMixed'[i] \/ now <= lastMixed'[i]
  /\ owner' \in [Slots -> EngineChannels \union {NoChannel}]
  /\ \A i \in Slots : \/ owner'[i] = owner[i]
                      \/ owner'[i] = NoChannel /\ lastMixed'[i] = lastMixed[i] /\ lastMixed[i] + IdleSamples < now'

MapNext == EndIteration \/ \E c \in EngineChannels, i \in Slots : Bind(c, i)

MapSpec == MapInit /\ [][MapNext]_mapVars
=============================================================================
