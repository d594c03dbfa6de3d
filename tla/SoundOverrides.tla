---------------------------- MODULE SoundOverrides ----------------------------
(***************************************************************************)
(* Overrides of the sounds the engine plays (core/SoundOverrides, the      *)
(* EmitSound hook and the poll of core/EngineHooks, the Lua functions of   *)
(* lua/LuaBindings): rules on names, below overrides of an entity, below   *)
(* overrides of one sound, which an expectation of a sound to come turns   *)
(* into.  The table caches what the rules give and forgets sounds.         *)
(***************************************************************************)
EXTENDS Integers, FiniteSets, SequencesExt

CONSTANTS
  LastGuid,          \* sounds the engine starts
  Emitters, ChanIds, \* entities, channels of an entity
  SoundNames,        \* normalized sample paths, sequences of characters
  Patterns,          \* globs
  Tables,            \* parameter tables of Lua: key -> <<value>>, or <<>> for a value of another type
  Priorities,
  MaxGuidEntries, MaxPending, MaxRules,    \* kMaxGuidEntries, kMaxPending, kMaxRules
  Retention, Ttl,    \* kGuidRetentionSeconds, ttlSeconds of an expectation
  MaxPlaying,        \* sounds that play at a time
  MaxCalls, MaxNow   \* bounds on the calls of Lua, on the clock

ASSUME OverridesAssumption ==
  /\ {LastGuid, MaxGuidEntries, MaxPending, MaxRules, Retention, Ttl, MaxPlaying, MaxCalls, MaxNow} \subseteq Nat
  /\ "" \notin Emitters \union ChanIds
  /\ Patterns \union SoundNames \subseteq Seq(STRING)

VARIABLES
  playing,                            \* the engine: guid -> its active sound
  lastStarted,                        \* GetGuidForLastSoundEmitted
  guids, entities, pending, rules,    \* m_guids, m_entities, m_pending, m_rules
  nextRuleId, rulesVersion, tableNow, \* m_nextRuleId, m_rulesVersion, m_now
  lastEmittedGuid,                    \* m_lastEmittedGuid
  applied,                            \* guid -> parameters the last poll gave the sound's source
  polled,                             \* nothing was called since the poll
  asked, taken,                       \* history: overrides asked for a sound, as the code reads it; whether
                                      \* a poll heard it and whether it took an expectation then or too late
  overrideCalls

tableState == <<guids, entities, pending, rules, nextRuleId, rulesVersion, tableNow>>
overrideVars == <<playing, lastStarted, tableState, lastEmittedGuid, applied, polled, asked, taken, overrideCalls>>

-----------------------------------------------------------------------------
(* Overrides and names                                                     *)

Keys == {"gain", "spatialize", "occlusion", "pos"}
Unset == <<>>
MaxGain == 4
NoOverride == [k \in Keys |-> Unset]

\* A flag that is no boolean is set, other values of a wrong type are not
\* taken; a gain is clamped.
ReadSoundOverride(table) ==
  [k \in Keys |-> CASE k \notin DOMAIN table -> Unset
                    [] k \in DOMAIN table /\ k \in {"spatialize", "occlusion"} -> IF table[k] = <<>> THEN <<TRUE>> ELSE table[k]
                    [] k \in DOMAIN table /\ k = "gain" /\ table[k] # <<>> -> <<IF table[k][1] > MaxGain THEN MaxGain ELSE table[k][1]>>
                    [] OTHER -> table[k]]

Merge(below, above) == [k \in Keys |-> IF above[k] = Unset THEN below[k] ELSE above[k]]

\* The greedy matcher: after a mismatch only the last star is tried again.
\* The pattern behind it has no other star, and took the text behind `back`.
GlobMatch(pattern, text) ==
  LET pn == Len(pattern)
      tn == Len(text)
      run[s \in {s \in [p : 1 .. pn + 1, t : 1 .. tn + 1, star : 0 .. pn, back : 1 .. tn + 1] :
                   /\ s.star < s.p /\ s.t - s.back = s.p - s.star - 1
                   /\ \A q \in s.star + 1 .. s.p - 1 : pattern[q] # "*"}] ==
        CASE s.t > tn -> \A q \in s.p .. pn : pattern[q] = "*"
          [] s.t <= tn /\ s.p <= pn /\ pattern[s.p] = "*" -> run[[p |-> s.p + 1, t |-> s.t, star |-> s.p, back |-> s.t]]
          [] s.t <= tn /\ s.p <= pn /\ pattern[s.p] \in {"?", text[s.t]} /\ pattern[s.p] # "*"
             -> run[[p |-> s.p + 1, t |-> s.t + 1, star |-> s.star, back |-> s.back]]
          [] OTHER -> s.star # 0 /\ run[[p |-> s.star + 1, t |-> s.back + 1, star |-> s.star, back |-> s.back + 1]]
  IN run[[p |-> 1, t |-> 1, star |-> 0, back |-> 1]]

-----------------------------------------------------------------------------
(* The table; t bundles [guids, pending] with the history of what was taken *)

\* A sound without a name is matched by the rule for everything only.
RulesFor(list, channel, name) ==
  LET applies(r) ==
        /\ r.channel \in {"", channel}
        /\ IF name = <<>> THEN r.pattern = <<"*">> ELSE GlobMatch(r.pattern, name)
  IN FoldLeft(LAMBDA ov, r : IF applies(r) THEN Merge(ov, r.ov) ELSE ov, NoOverride, list)
EvaluateRules(e) == RulesFor(rules, e.channel, e.name)

NewEntry(now) ==
  [name |-> <<>>, ov |-> NoOverride, rule |-> NoOverride, version |-> 0, entity |-> "", channel |-> "",
   lastSeen |-> now, observed |-> FALSE]

\* Mutant: the entries seen last are dropped.
TrimLatest(g) ==
  {k \in DOMAIN g : Cardinality({l \in DOMAIN g : g[l].lastSeen > g[k].lastSeen \/ (g[l].lastSeen = g[k].lastSeen /\ l > k)})
                    >= Cardinality(DOMAIN g) \div 2}
\* The half seen the longest ago is dropped.
Trim(g) ==
  {k \in DOMAIN g : Cardinality({l \in DOMAIN g : g[l].lastSeen < g[k].lastSeen \/ (g[l].lastSeen = g[k].lastSeen /\ l < k)})
                    >= Cardinality(DOMAIN g) \div 2}

WithEntry(g, guid, now) ==
  LET room == IF Cardinality(DOMAIN g) >= MaxGuidEntries THEN Restrict(g, Trim(g)) ELSE g
  IN IF guid \in DOMAIN g THEN g ELSE [k \in DOMAIN room \union {guid} |-> IF k = guid THEN NewEntry(now) ELSE room[k]]

\* The first expectation of this entity and channel.
Expected(e, waiting) ==
  {k \in DOMAIN waiting : waiting[k].entity = e.entity /\ waiting[k].channel \in {"", e.channel}}

\* Mutant: a sound takes an expectation whenever it is observed.
TakesAlways(e) == TRUE
\* A sound is new until a poll has heard it, also one that started before the
\* expectation was made.  (Of such a sound README.md:574-575 says otherwise.)
Takes(e) == ~e.observed
Taking(heard, consumes) ==
  CASE consumes -> IF heard = "unheard" THEN "took" ELSE "too late"
    [] OTHER -> IF heard = "unheard" THEN "heard" ELSE heard

Observe(t, guid, now) ==
  LET sound == playing[guid]
      known == WithEntry(t.guids, guid, now)
      named == known[guid].name = <<>> /\ sound.handle
      e == [known[guid] EXCEPT !.lastSeen = now, !.entity = sound.entity, !.channel = sound.channel, !.observed = TRUE,
                               !.name = IF named THEN sound.name ELSE @, !.version = IF named THEN 0 ELSE @]
      first == CHOOSE k \in Expected(e, t.pending) : \A l \in Expected(e, t.pending) : k <= l
      consumes == Takes(known[guid]) /\ Expected(e, t.pending) # {}
      after == IF consumes THEN [e EXCEPT !.ov = Merge(@, t.pending[first].ov)] ELSE e
      ruled == IF after.version = rulesVersion THEN after
               ELSE [after EXCEPT !.version = rulesVersion, !.rule = EvaluateRules(after)]
  IN [guids |-> [known EXCEPT ![guid] = ruled],
      pending |-> IF consumes THEN RemoveAt(t.pending, first) ELSE t.pending,
      asked |-> IF consumes THEN [t.asked EXCEPT ![guid] = Merge(@, t.pending[first].ov)] ELSE t.asked,
      taken |-> [t.taken EXCEPT ![guid] = Taking(@, consumes)]]

\* Rules below the entity below the sound.
Combined(rule, entity, own) == Merge(Merge(rule, IF entity \in DOMAIN entities THEN entities[entity] ELSE NoOverride), own)
Resolve(g, guid) ==
  IF guid \in DOMAIN g THEN Combined(g[guid].rule, playing[guid].entity, g[guid].ov)
  ELSE Combined(NoOverride, playing[guid].entity, NoOverride)

\* Without a place a sound has no acoustics, whatever else was asked.
Apply(p, ov) ==
  LET set(k) == IF ov[k] = Unset THEN p[k] ELSE ov[k]
      merged == [k \in Keys |-> IF k = "gain" /\ ov[k] # Unset THEN <<p[k][1] * ov[k][1]>> ELSE set(k)]
  IN IF merged["spatialize"] = <<FALSE>> THEN [merged EXCEPT !["occlusion"] = <<FALSE>>] ELSE merged

\* ApplyParamsForSlot: an override's position or its flag decides before the
\* other parameters follow from it.
ApplyParams(sound, ov) ==
  LET placed == sound.origin \/ ov["pos"] # Unset
      spatialize == IF ov["spatialize"] = Unset THEN <<placed>> ELSE ov["spatialize"]
      p == [gain |-> <<1>>, pos |-> Unset, spatialize |-> spatialize, occlusion |-> spatialize]
  IN Apply(p, ov)

-----------------------------------------------------------------------------
(* The engine and its EmitSound hook                                       *)

\* NoteEmitted; a call that started nothing is known by the guid of the last one.
OnSoundEmitted(guid, entity, channel, name) ==
  IF guid \in {0, lastEmittedGuid} THEN UNCHANGED <<guids, lastEmittedGuid>>
  ELSE LET known == WithEntry(guids, guid, tableNow)
       IN /\ lastEmittedGuid' = guid
          /\ guids' = [known EXCEPT ![guid] = [known[guid] EXCEPT !.lastSeen = tableNow, !.entity = entity, !.channel = channel,
                                                         !.name = name, !.version = IF name = known[guid].name THEN known[guid].version ELSE 0]]

SoundKeeps == UNCHANGED <<entities, pending, rules, nextRuleId, rulesVersion, tableNow, applied, asked, taken, overrideCalls>>

Recent == {g \in DOMAIN guids : guids[g].lastSeen = tableNow} \union DOMAIN playing
\* About half of the entries at most are of sounds seen since the last poll:
\* the engine plays 128 sounds, the table holds 2048.
FewAreRecent(guid) == Cardinality(Recent \union {guid}) <= MaxGuidEntries - MaxGuidEntries \div 2 + 1

\* A sound starts, by a call of the client or over the network.
StartSound(byCall, handle, entity, channel, name, origin) ==
  LET guid == lastStarted + 1
  IN /\ guid <= LastGuid /\ Cardinality(DOMAIN playing) < MaxPlaying /\ FewAreRecent(guid) /\ lastStarted' = guid /\ polled' = FALSE
     /\ playing' = [g \in DOMAIN playing \union {guid} |->
                     IF g = guid THEN [entity |-> entity, channel |-> channel, name |-> name, handle |-> handle, origin |-> origin]
                     ELSE playing[g]]
     /\ IF byCall THEN OnSoundEmitted(guid, entity, channel, name) ELSE UNCHANGED <<guids, lastEmittedGuid>>
     /\ SoundKeeps

\* A call that starts nothing, its sample not precached or every channel busy.
StartFails(entity, channel, name) ==
  /\ FewAreRecent(lastStarted) /\ OnSoundEmitted(lastStarted, entity, channel, name) /\ polled' = FALSE
  /\ SoundKeeps /\ UNCHANGED <<playing, lastStarted>>

SoundEnds(guid) ==
  /\ playing' = Restrict(playing, DOMAIN playing \ {guid}) /\ applied' = Restrict(applied, DOMAIN applied \ {guid})
  /\ UNCHANGED <<lastStarted, tableState, lastEmittedGuid, polled, asked, taken, overrideCalls>>

-----------------------------------------------------------------------------
(* Operations of the table                                                 *)

SetForGuid(guid, ov) ==
  LET known == WithEntry(guids, guid, tableNow)
  IN /\ guids' = [known EXCEPT ![guid] = [known[guid] EXCEPT !.ov = Merge(known[guid].ov, ov), !.lastSeen = tableNow]]
     /\ asked' = [asked EXCEPT ![guid] = Merge(@, ov)]
     /\ UNCHANGED <<entities, pending, rules, nextRuleId, rulesVersion>>

ClearGuid(guid) ==
  /\ guid \in DOMAIN guids /\ guids[guid].ov # NoOverride
  /\ guids' = [guids EXCEPT ![guid].ov = NoOverride] /\ asked' = [asked EXCEPT ![guid] = NoOverride]
  /\ UNCHANGED <<entities, pending, rules, nextRuleId, rulesVersion>>

SetForEntity(entity, ov) ==
  /\ entities' = [e \in DOMAIN entities \union {entity} |->
                   IF e # entity THEN entities[e] ELSE IF e \in DOMAIN entities THEN Merge(entities[e], ov) ELSE ov]
  /\ UNCHANGED <<guids, pending, rules, nextRuleId, rulesVersion, asked>>

ClearEntity(entity) ==
  /\ entities' = Restrict(entities, DOMAIN entities \ {entity})
  /\ UNCHANGED <<guids, pending, rules, nextRuleId, rulesVersion, asked>>

\* Full, the oldest expectation makes room.
Expect(entity, channel, ov) ==
  LET room == IF Len(pending) >= MaxPending THEN Tail(pending) ELSE pending
  IN /\ pending' = Append(room, [entity |-> entity, channel |-> channel, ov |-> ov, expires |-> tableNow + Ttl])
     /\ UNCHANGED <<guids, entities, rules, nextRuleId, rulesVersion, asked>>

\* Behind the rules of its priority.  A full list refuses the rule; none is
\* dropped for it, as README.md:588 has it.
AddRule(pattern, channel, priority, ov) ==
  LET before == SelectSeq(rules, LAMBDA r : r.priority <= priority)
      rule == [id |-> nextRuleId, pattern |-> pattern, channel |-> channel, priority |-> priority, ov |-> ov]
  IN /\ ov # NoOverride /\ pattern # <<>> /\ Len(rules) < MaxRules
     /\ rules' = before \o <<rule>> \o SelectSeq(rules, LAMBDA r : r.priority > priority)
     /\ nextRuleId' = nextRuleId + 1 /\ rulesVersion' = rulesVersion + 1
     /\ UNCHANGED <<guids, entities, pending, asked>>

\* Mutant: a rule is removed and the cached overrides stay.
RemoveRuleOnly(id) ==
  /\ \E k \in DOMAIN rules : rules[k].id = id
  /\ rules' = SelectSeq(rules, LAMBDA r : r.id # id)
  /\ UNCHANGED <<guids, entities, pending, nextRuleId, rulesVersion, asked>>
RemoveRule(id) ==
  /\ \E k \in DOMAIN rules : rules[k].id = id
  /\ rules' = SelectSeq(rules, LAMBDA r : r.id # id) /\ rulesVersion' = rulesVersion + 1
  /\ UNCHANGED <<guids, entities, pending, nextRuleId, asked>>

ClearRules ==
  /\ rules # <<>> /\ rules' = <<>> /\ rulesVersion' = rulesVersion + 1
  /\ UNCHANGED <<guids, entities, pending, nextRuleId, asked>>

ClearAll ==
  /\ guids' = [g \in DOMAIN guids |-> [guids[g] EXCEPT !.ov = NoOverride]] /\ asked' = [g \in DOMAIN asked |-> NoOverride]
  /\ entities' = <<>> /\ pending' = <<>> /\ rules' = <<>> /\ rulesVersion' = rulesVersion + 1
  /\ UNCHANGED nextRuleId

-----------------------------------------------------------------------------
(* Lua; a table that sets nothing is refused, also by SetEntitySoundParams, *)
(* where README.md:578 lets it remove the entity's overrides               *)

LuaCalls == overrideCalls < MaxCalls /\ overrideCalls' = overrideCalls + 1 /\ polled' = FALSE
LuaKeeps == UNCHANGED <<playing, lastStarted, tableNow, lastEmittedGuid, applied, taken>>

SetSoundParams(guid, table) == ReadSoundOverride(table) # NoOverride /\ SetForGuid(guid, ReadSoundOverride(table))
ClearSoundParams(guid) == ClearGuid(guid)
SetEntitySoundParams(entity, table) == ReadSoundOverride(table) # NoOverride /\ SetForEntity(entity, ReadSoundOverride(table))
ClearEntitySoundParams(entity) == ClearEntity(entity)
ExpectSound(entity, channel, table) ==
  ReadSoundOverride(table) # NoOverride /\ Expect(entity, channel, ReadSoundOverride(table))
AddSoundRule(pattern, channel, priority, table) == AddRule(pattern, channel, priority, ReadSoundOverride(table))
RemoveSoundRule(id) == RemoveRule(id)
ClearSoundRules == ClearRules
ClearSoundOverrides == ClearAll

Lua ==
  /\ LuaCalls /\ LuaKeeps
  /\ \/ ClearSoundRules \/ ClearSoundOverrides
     \/ \E guid \in DOMAIN guids : ClearSoundParams(guid)
     \/ \E entity \in DOMAIN entities : ClearEntitySoundParams(entity)
     \/ \E id \in 1 .. nextRuleId - 1 : RemoveSoundRule(id)
     \/ \E table \in Tables :
          \/ \E guid \in DOMAIN playing : SetSoundParams(guid, table)
          \/ \E entity \in Emitters : SetEntitySoundParams(entity, table)
          \/ \E channel \in ChanIds \union {""} :
               \/ \E entity \in Emitters : ExpectSound(entity, channel, table)
               \/ \E pattern \in Patterns, priority \in Priorities : AddSoundRule(pattern, channel, priority, table)

-----------------------------------------------------------------------------
(* The poll of the game thread                                             *)

\* BeginPoll.
Unexpired(now) == SelectSeq(pending, LAMBDA p : p.expires > now)
\* EndPoll.
Kept(g, now) == {k \in DOMAIN g : now - g[k].lastSeen <= Retention}

\* One sound of the engine's list after the other.
ObserveAll(order, now) ==
  LET observed[k \in 0 .. Len(order)] ==
        IF k = 0 THEN [guids |-> guids, pending |-> Unexpired(now), asked |-> asked, taken |-> taken]
        ELSE Observe(observed[k - 1], order[k], now)
  IN observed[Len(order)]

\* order is that of the engine's list.
PollActiveSounds(order, passed) ==
  LET now == tableNow + passed
      observed == ObserveAll(order, now)
  IN /\ now <= MaxNow /\ tableNow' = now /\ polled' = TRUE
     /\ guids' = Restrict(observed.guids, Kept(observed.guids, now))
     /\ pending' = observed.pending /\ asked' = observed.asked /\ taken' = observed.taken
     /\ applied' = [guid \in DOMAIN playing |-> ApplyParams(playing[guid], Resolve(observed.guids, guid))]
     /\ UNCHANGED <<playing, lastStarted, entities, rules, nextRuleId, rulesVersion, lastEmittedGuid, overrideCalls>>

-----------------------------------------------------------------------------

OverridesInit ==
  /\ playing = <<>> /\ lastStarted = 0 /\ guids = <<>> /\ entities = <<>> /\ pending = <<>> /\ rules = <<>>
  /\ nextRuleId = 1 /\ rulesVersion = 1 /\ tableNow = 0 /\ lastEmittedGuid = 0 /\ applied = <<>> /\ polled = FALSE
  /\ asked = [g \in 1 .. LastGuid |-> NoOverride] /\ taken = [g \in 1 .. LastGuid |-> "unheard"] /\ overrideCalls = 0

OverridesNext ==
  \/ Lua
  \/ \E entity \in Emitters, channel \in ChanIds, name \in SoundNames :
       \/ \E handle \in BOOLEAN : StartSound(FALSE, handle, entity, channel, name, FALSE)
       \/ StartSound(TRUE, FALSE, entity, channel, name, TRUE)
       \/ StartFails(entity, channel, name)
  \/ \E guid \in DOMAIN playing : SoundEnds(guid)
  \/ \E order \in SetToSeqs(DOMAIN playing), passed \in {1, Retention + 1} : PollActiveSounds(order, passed)

OverridesSpec == OverridesInit /\ [][OverridesNext]_overrideVars

-----------------------------------------------------------------------------
(* Properties                                                              *)

\* A sound plays with what the rules that stand now, its entity and the calls
\* for it ask for, computed anew: neither the cached rules nor the entries the
\* table has forgotten are seen.  What is asked for a sound is what the code takes
\* the calls for, where the README says otherwise too.
PlaysAsAsked ==
  polled => \A guid \in DOMAIN applied :
    guid \in DOMAIN guids /\ applied[guid] = ApplyParams(playing[guid], Combined(EvaluateRules(guids[guid]), playing[guid].entity, asked[guid]))

\* A sound takes an expectation the first time a poll hears it or never: no
\* second one, and none made after that poll, however long it plays and whatever
\* the table forgets meanwhile.
TakesWhenNew == \A guid \in DOMAIN taken : taken[guid] # "too late"

\* The matcher finds a match whenever the text can be cut into what the
\* characters of the pattern take: a star any piece, another one a character.
Splits(pattern, text) ==
  \E cut \in [1 .. Len(pattern) + 1 -> 1 .. Len(text) + 1] :
    /\ cut[1] = 1 /\ cut[Len(pattern) + 1] = Len(text) + 1
    /\ \A p \in 1 .. Len(pattern) :
         IF pattern[p] = "*" THEN cut[p] <= cut[p + 1]
         ELSE cut[p + 1] = cut[p] + 1 /\ pattern[p] \in {"?", text[cut[p]]}
GlobsMatch == \A pattern \in Patterns, text \in SoundNames : GlobMatch(pattern, text) = Splits(pattern, text)

OverridesInv == PlaysAsAsked /\ TakesWhenNew /\ GlobsMatch
=============================================================================
