------------------------------ MODULE EffectPool ------------------------------
(***************************************************************************)
(* The effect sets of steamaudio/HRTFRenderer and the sources of           *)
(* mixing/AudioThread that borrow them, frame by frame on the audio        *)
(* thread: capture slots that are bound, renewed and unbound, streams that *)
(* end, sets whose reflections ring out before they are free again.        *)
(***************************************************************************)
EXTENDS Integers, Sequences, FiniteSets

CONSTANTS
  NumSlotSources,   \* capture slots rendered, kSlots in the code
  NumStreams,       \* streams rendered after them
  MaxSets,          \* poolSize
  FadeFrames,       \* frames a fade takes
  TailFrames        \* frames a silent source may still be heard

ASSUME PoolAssumption ==
  {NumSlotSources, NumStreams, FadeFrames, TailFrames} \subseteq Nat /\ MaxSets \in Nat \ {0}

EffectSources == 1 .. NumSlotSources + NumStreams
IsSlot(s) == s <= NumSlotSources
NoSet == 0

VARIABLES
  sets, withReflection,       \* how many sets Initialize created, and which have a reflection effect
  freeSets, draining,         \* m_freeEffects, m_drainingEffects
  applied, inUse,             \* reflectionApplied, inUse of each set
  effectsOf,                  \* RenderState::effects
  isLive, fade, silent,       \* SlotRender::active or in m_streams; fadeGain; silentFrames
  turn, renders               \* the next source of the frame, 0 between frames; it is the renderer's frame

poolVars == <<freeSets, draining, applied, inUse>>
sourceVars == <<effectsOf, isLive, fade, silent>>
effectVars == <<sets, withReflection, poolVars, sourceVars, turn, renders>>

Sets == 1 .. sets
Creating == -2   \* `turn` while Initialize fills the pool
Stopped == -1

EffectInit ==
  /\ sets = 0 /\ withReflection = {} /\ freeSets = <<>> /\ draining = <<>>
  /\ applied = [e \in 1 .. MaxSets |-> FALSE] /\ inUse = [e \in 1 .. MaxSets |-> FALSE]
  /\ effectsOf = [s \in EffectSources |-> NoSet] /\ isLive = [s \in EffectSources |-> FALSE]
  /\ fade = [s \in EffectSources |-> 0] /\ silent = [s \in EffectSources |-> 0]
  /\ turn = Creating /\ renders = FALSE

\* A set may be created without its reflection effect.
CreateEffectSet(reflection) ==
  /\ turn = Creating /\ sets' = sets + 1 /\ freeSets' = Append(freeSets, sets + 1)
  /\ withReflection' = IF reflection THEN withReflection \union {sets + 1} ELSE withReflection
  /\ turn' = IF sets + 1 = MaxSets THEN 0 ELSE Creating
  /\ UNCHANGED <<draining, applied, inUse, sourceVars, renders>>

\* The pool is cut short where a set fails; without any the renderer is not
\* valid and the fallback renders.
CreationFails ==
  /\ turn = Creating /\ turn' = 0
  /\ UNCHANGED <<sets, withReflection, poolVars, sourceVars, renders>>

-----------------------------------------------------------------------------
(* The pool; p is [free, draining, applied, inUse]                         *)

Pool == [free |-> freeSets, draining |-> draining, applied |-> applied, inUse |-> inUse]
SetPool(p) == freeSets' = p.free /\ draining' = p.draining /\ applied' = p.applied /\ inUse' = p.inUse

LastOf(q) == q[Len(q)]
ButLast(q) == SubSeq(q, 1, Len(q) - 1)
\* The last element takes the place of the k-th.
SwapRemove(q, k) == ButLast([q EXCEPT ![k] = LastOf(q)])

\* Mutant: the set whose tail was cut still rings out.
TakeFromPoolTwice(p) ==
  IF p.free # <<>> THEN [set |-> LastOf(p.free), pool |-> [p EXCEPT !.free = ButLast(@)]]
  ELSE [set |-> p.draining[1], pool |-> p]
TakeFromPool(p) ==
  IF p.free # <<>> THEN [set |-> LastOf(p.free), pool |-> [p EXCEPT !.free = ButLast(@)]]
  ELSE [set |-> p.draining[1], pool |-> [p EXCEPT !.draining = SwapRemove(@, 1)]]

AcquireEffects(p) ==
  IF p.free = <<>> /\ p.draining = <<>> THEN [set |-> NoSet, pool |-> p]
  ELSE LET t == TakeFromPool(p)
       IN [t EXCEPT !.pool.inUse[t.set] = TRUE, !.pool.applied[t.set] = FALSE]

\* A set whose reflections were fed rings out first.
ReleaseEffects(p, e) ==
  IF e = NoSet THEN p
  ELSE IF e \in withReflection /\ p.applied[e]
       THEN [p EXCEPT !.inUse[e] = FALSE, !.draining = Append(@, e)]
       ELSE [p EXCEPT !.inUse[e] = FALSE, !.free = Append(@, e)]

\* RenderReflectionTails: `complete` are the sets whose tail is over.
RenderReflectionTails(complete) ==
  LET over(e) == e \in complete \/ e \notin withReflection
      after[k \in 0 .. 2 * MaxSets] ==
        IF k = 0 THEN [at |-> 1, draining |-> draining, free |-> freeSets]
        ELSE LET q == after[k - 1]
             IN IF q.at > Len(q.draining) THEN q
                ELSE IF over(q.draining[q.at]) \/ inUse[q.draining[q.at]]
                     THEN [q EXCEPT !.draining = SwapRemove(@, q.at),
                                    !.free = IF inUse[q.draining[q.at]] THEN @ ELSE Append(@, q.draining[q.at])]
                     ELSE [q EXCEPT !.at = @ + 1]
  IN freeSets' = after[2 * MaxSets].free /\ draining' = after[2 * MaxSets].draining /\ UNCHANGED <<applied, inUse>>

-----------------------------------------------------------------------------
(* A source in a frame; r is [pool, held, live, fade, silent]              *)

Of(s) == [pool |-> Pool, held |-> effectsOf[s], live |-> isLive[s], fade |-> fade[s], silent |-> silent[s]]
Rendered(s, r) ==
  /\ SetPool(r.pool) /\ effectsOf' = [effectsOf EXCEPT ![s] = r.held] /\ isLive' = [isLive EXCEPT ![s] = r.live]
  /\ fade' = [fade EXCEPT ![s] = r.fade] /\ silent' = [silent EXCEPT ![s] = r.silent]
  /\ turn' = (turn + 1) % (Cardinality(EffectSources) + 2)
  /\ UNCHANGED <<sets, withReflection, renders>>

\* A slot starts at full gain, a stream fades in.
BeginSource(s, r) == [r EXCEPT !.live = TRUE, !.fade = IF IsSlot(s) THEN FadeFrames ELSE 0, !.silent = 0]

Releases(r) == [r EXCEPT !.pool = ReleaseEffects(@, r.held), !.held = NoSet]
\* Mutant: the source keeps its effects.
EndKeepsEffects(r) == [r EXCEPT !.live = FALSE, !.fade = 0]
EndSourceEffects(r) == [Releases(r) EXCEPT !.live = FALSE, !.fade = 0]

\* The fade after SourceFrameGain, and whether it was over before.
Step(r, ending) ==
  IF ending THEN (IF r.fade > 0 THEN r.fade - 1 ELSE 0) ELSE IF r.fade < FadeFrames THEN r.fade + 1 ELSE r.fade
Finished(r, ending) == ending /\ r.fade = 0
SourceFrameGain(r, data, ending) ==
  [r EXCEPT !.fade = Step(r, ending), !.silent = IF data THEN 0 ELSE IF @ <= TailFrames THEN @ + 1 ELSE @]

\* HRTFRenderer::RenderEffects as far as the effects go: a source that is not
\* spatialized gives its set back, one that is takes one if it can.
RenderEffects(r, spatialize, reflects) ==
  LET a == AcquireEffects(r.pool)
      t == IF ~spatialize THEN Releases(r)
           ELSE IF r.held # NoSet THEN r ELSE [r EXCEPT !.pool = a.pool, !.held = a.set]
  IN IF t.held # NoSet /\ reflects /\ t.held \in withReflection THEN [t EXCEPT !.pool.applied[t.held] = TRUE] ELSE t

Rendering(r, spatialize, reflects) == IF renders THEN RenderEffects(r, spatialize, reflects) ELSE r

\* What a slot is rendered from: bound to an engine channel, to another sound
\* than before, with samples in its ring, painted up to its last block.
RenderEngineSlot(bound, renewed, data, inputEnded, spatialize, reflects) ==
  LET s == turn
      begins == bound /\ (~isLive[s] \/ renewed)
      r == IF begins THEN BeginSource(s, IF isLive[s] THEN EndSourceEffects(Of(s)) ELSE Of(s)) ELSE Of(s)
      g == SourceFrameGain(r, data, ~bound)
  IN /\ s \in EffectSources /\ IsSlot(s)
     /\ Rendered(s, CASE ~r.live -> r
                      [] r.live /\ Finished(r, ~bound) -> EndSourceEffects(g)
                      [] r.live /\ ~Finished(r, ~bound) /\ ~data /\ inputEnded /\ g.silent > TailFrames -> Releases(g)
                      [] OTHER -> Rendering(g, spatialize, reflects))

\* A stream is in the list, or is added in front of the frame; it ends when it
\* is stopped, or at its end with nothing left to hear.
RenderStreamSource(added, stopped, atEnd, data, spatialize, reflects) ==
  LET s == turn
      r == IF added /\ ~isLive[s] THEN BeginSource(s, Of(s)) ELSE Of(s)
      ending == stopped \/ (atEnd /\ ~data /\ r.silent > TailFrames)
      g == SourceFrameGain(r, data, ending)
  IN /\ s \in EffectSources /\ ~IsSlot(s)
     /\ Rendered(s, CASE ~r.live -> r
                      [] r.live /\ Finished(r, ending) -> EndSourceEffects(g)
                      [] r.live /\ ~Finished(r, ending) /\ ~data /\ g.silent > TailFrames -> g
                      [] OTHER -> Rendering(g, spatialize, reflects))

\* A frame is the renderer's, or the fallback's while it is switched off.
BeginEffectFrame(enabled) ==
  /\ turn = 0 /\ turn' = 1 /\ renders' = (enabled /\ sets > 0)
  /\ UNCHANGED <<sets, withReflection, poolVars, sourceVars>>

EndEffectFrame(complete) ==
  /\ turn = Cardinality(EffectSources) + 1 /\ turn' = 0
  /\ IF renders THEN RenderReflectionTails(complete) ELSE UNCHANGED poolVars
  /\ UNCHANGED <<sets, withReflection, sourceVars, renders>>

\* Run ends: every source that renders gives its effects back.
AudioRunEnds ==
  LET ended[s \in 0 .. Cardinality(EffectSources)] ==
        IF s = 0 THEN Pool ELSE IF isLive[s] THEN ReleaseEffects(ended[s - 1], effectsOf[s]) ELSE ended[s - 1]
  IN /\ turn = 0 /\ turn' = Stopped /\ SetPool(ended[Cardinality(EffectSources)])
     /\ effectsOf' = [s \in EffectSources |-> IF isLive[s] THEN NoSet ELSE effectsOf[s]] /\ isLive' = [s \in EffectSources |-> FALSE]
     /\ UNCHANGED <<sets, withReflection, fade, silent, renders>>

\* Shutdown destroys the sets, wherever they are.
ShutdownRenderer ==
  /\ turn = Stopped /\ turn' = Creating /\ sets' = 0 /\ withReflection' = {} /\ freeSets' = <<>> /\ draining' = <<>>
  /\ applied' = [e \in 1 .. MaxSets |-> FALSE] /\ inUse' = [e \in 1 .. MaxSets |-> FALSE]
  /\ UNCHANGED <<sourceVars, renders>>

EffectNext ==
  \/ CreationFails \/ \E reflection \in BOOLEAN : CreateEffectSet(reflection)
  \/ AudioRunEnds \/ ShutdownRenderer \/ \E enabled \in BOOLEAN : BeginEffectFrame(enabled)
  \/ \E complete \in SUBSET Sets : EndEffectFrame(complete)
  \/ /\ turn \in EffectSources   \* inputs that nothing asks for are FALSE
     /\ \E a, b, data, c, spatialize, reflects \in BOOLEAN :
          /\ c => ~data
          /\ reflects => spatialize
          /\ \/ (b => a) /\ RenderEngineSlot(a, b, data, c, spatialize, reflects)
             \/ RenderStreamSource(a, b, c, data, spatialize, reflects)

EffectSpec == EffectInit /\ [][EffectNext]_effectVars

-----------------------------------------------------------------------------
(* Properties                                                              *)

\* Every effect set is free, ringing out or held by one source that renders,
\* never two of them and never none, only a set that can ring is ringing, and no
\* source has a set when the sets are destroyed.
PoolInv ==
  /\ \A e \in Sets :
       Cardinality({k \in DOMAIN freeSets : freeSets[k] = e}) + Cardinality({k \in DOMAIN draining : draining[k] = e})
       + Cardinality({s \in EffectSources : effectsOf[s] = e}) = 1
  /\ \A s \in EffectSources : effectsOf[s] # NoSet => isLive[s] /\ inUse[effectsOf[s]]
  /\ turn = Stopped => \A s \in EffectSources : effectsOf[s] = NoSet
  /\ \A k \in DOMAIN draining : draining[k] \in withReflection /\ applied[draining[k]]
=============================================================================
