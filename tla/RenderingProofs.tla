-------------------------- MODULE RenderingProofs --------------------------
(* Proofs about what is rendered and with what: a capture slot's sounds          *)
(* (SlotGenerations), the effect sets (EffectPool) and the plan of a source's    *)
(* mix (RenderPlan), for any channels, sounds, sources, sets and gains.          *)
EXTENDS MCRendering, TLAPS, FiniteSetTheorems, WellFoundedInduction

-----------------------------------------------------------------------------
(* A capture slot: types                                                   *)

\* The modes' fields; a guid is a number of a sound.
LEMMA ModeFields ==
  ASSUME EngineTypes
  PROVE  /\ mode.guidKnown \in BOOLEAN /\ mode.asyncMixer \in BOOLEAN /\ mode.listComplete \in BOOLEAN
         /\ mode.channels \subseteq Channels
         /\ \A s \in Sounds : Guid(s) \in Sounds
<1>1. mode \in [channels : SUBSET Channels, guidKnown : BOOLEAN, asyncMixer : BOOLEAN, listComplete : BOOLEAN]
  BY SlotAssumption DEF EngineTypes
<1>2. 0 \in Sounds
  BY SlotAssumption DEF Sounds
<1> QED
  BY <1>1, <1>2 DEF Guid

LEMMA SoundNumbers == Sounds \subseteq Nat /\ 0 \in Sounds /\ NoParams \in Params
  BY SlotAssumption DEF Sounds, NoParams, Params

\* The sound GetParams settles on is the captured one or the one passed in.
LEMMA CurrentType ==
  ASSUME NEW g \in Params, NEW c \in Params
  PROVE  Current(g, c) \in Sounds
  BY DEF Current, Params

LEMMA HeardType ==
  ASSUME EngineTypes, NEW c \in Channels \cup {NoChannel}
  PROVE  Heard(c) \in Sounds
  BY SoundNumbers DEF EngineTypes, Heard

LEMMA EngineTypeStep == ASSUME TypeOK, EngineNext PROVE TypeOK'
<1>1. UNCHANGED <<mixer, game, sim, audio>>
  BY DEF EngineNext, FallSilent, StartSound
<1>2. MixerTypes' /\ GameTypes' /\ SimTypes' /\ AudioTypes'
  BY <1>1 DEF TypeOK, MixerTypes, GameTypes, SimTypes, AudioTypes, mixer, slot, game, sim, audio
<1>3. ASSUME NEW c \in mode.channels, StartSound(c) PROVE EngineTypes'
  <2>1. started + 1 \in Sounds
    BY <1>3, SlotAssumption DEF StartSound, Sounds, TypeOK, EngineTypes
  <2> QED
    BY <1>3, <2>1 DEF StartSound, TypeOK, EngineTypes
<1>4. ASSUME FallSilent PROVE EngineTypes'
  BY <1>4 DEF FallSilent, TypeOK, EngineTypes
<1> QED
  BY <1>2, <1>3, <1>4 DEF TypeOK, EngineNext

LEMMA MixerTypeStep == ASSUME TypeOK, MixerInv, MixerNext PROVE TypeOK'
<1>1. UNCHANGED <<mode, heard, started, game, sim, audio>> /\ gap' \in BOOLEAN
  BY DEF MixerNext, MixerStep, ReleaseIdle, CaptureMix, HideSlot, PointSlot, NumberSound, SetCapturedParams, ShowSlot,
         engine, TypeOK, EngineTypes
<1>2. EngineTypes' /\ GameTypes' /\ SimTypes' /\ AudioTypes'
  BY <1>1 DEF TypeOK, EngineTypes, GameTypes, SimTypes, AudioTypes, game, sim, audio
<1>3. ASSUME ReleaseIdle PROVE MixerTypes'
  BY <1>3 DEF ReleaseIdle, TypeOK, MixerTypes
<1>4. ASSUME NEW c \in mode.channels, CaptureMix(c) PROVE MixerTypes'
  <2>1. c \in Channels /\ heard[c] \in Nat
    BY ModeFields, SoundNumbers DEF TypeOK, EngineTypes
  <2> QED
    BY <1>4, <2>1 DEF CaptureMix, TypeOK, MixerTypes
<1>5. ASSUME HideSlot PROVE MixerTypes'
  BY <1>5 DEF HideSlot, TypeOK, MixerTypes
<1>6. ASSUME PointSlot PROVE MixerTypes'
  <2>1. target \in Channels
    BY <1>6 DEF PointSlot, MixerInv, TypeOK, MixerTypes
  <2>2. Guid(heard[target]) \in Nat
    BY <2>1, ModeFields, SoundNumbers DEF TypeOK, EngineTypes
  <2> QED
    BY <1>6, <2>1, <2>2 DEF PointSlot, TypeOK, MixerTypes
<1>7. ASSUME NumberSound PROVE MixerTypes'
  BY <1>7 DEF NumberSound, TypeOK, MixerTypes
<1>8. ASSUME SetCapturedParams PROVE MixerTypes'
  <2>1. ptr \in Channels /\ lastGuid \in Nat /\ gen \in Nat
    BY <1>8 DEF SetCapturedParams, MixerInv, TypeOK, MixerTypes
  <2>2. heard[ptr] \in Sounds
    BY <2>1 DEF TypeOK, EngineTypes
  <2>3. captured' \in Params /\ genOf' \in [Sounds -> Nat] /\ target' = NoChannel
    BY <1>8, <2>1, <2>2 DEF SetCapturedParams, Params, TypeOK, MixerTypes
  <2> QED
    BY <1>8, <2>3 DEF SetCapturedParams, TypeOK, MixerTypes
<1>9. ASSUME ShowSlot PROVE MixerTypes'
  BY <1>9 DEF ShowSlot, TypeOK, MixerTypes, engine
<1> QED
  BY <1>2, <1>3, <1>4, <1>5, <1>6, <1>7, <1>8, <1>9 DEF TypeOK, MixerNext, MixerStep

LEMMA GameTypeStep == ASSUME TypeOK, SlotInv, PollActiveSounds \/ GameStep PROVE TypeOK'
<1>1. UNCHANGED <<engine, mixer, sim, audio>>
  BY DEF GameStep, PollActiveSounds, ReadGeneration, ReadPointer, GetParams, ReadGuid, ReadPosition, SetEngineParams
<1>2. EngineTypes' /\ MixerTypes' /\ SimTypes' /\ AudioTypes'
  BY <1>1 DEF TypeOK, EngineTypes, MixerTypes, SimTypes, AudioTypes, engine, mixer, slot, sim, audio
<1>3. ASSUME PollActiveSounds PROVE GameTypes'
  <2>1. ptr \in Channels /\ heard[ptr] \in Sounds
    BY <1>3 DEF PollActiveSounds, TypeOK, EngineTypes, MixerTypes
  <2>2. info' \in Sounds
    BY <1>3, <2>1, SoundNumbers DEF PollActiveSounds
  <2> QED
    BY <1>3, <2>2 DEF PollActiveSounds, TypeOK, GameTypes
<1>4. ASSUME ReadGeneration PROVE GameTypes'
  BY <1>4 DEF ReadGeneration, TypeOK, GameTypes, MixerTypes
<1>5. ASSUME ReadPointer PROVE GameTypes'
  BY <1>5 DEF ReadPointer, TypeOK, GameTypes, MixerTypes
<1>6. ASSUME GetParams PROVE GameTypes'
  <2>1. Current(params, captured) \in Sounds
    BY CurrentType DEF TypeOK, GameTypes, MixerTypes
  <2>2. p' \in Sounds /\ track' \in [gen : Nat, guid : Nat, hadInfo : BOOLEAN]
    BY <1>6, <2>1, SoundNumbers DEF GetParams, TypeOK, GameTypes
  <2> QED
    BY <1>6, <2>2 DEF GetParams, TypeOK, GameTypes
<1>7. ASSUME ReadGuid PROVE GameTypes'
  <2>1. Guid(Heard(gch)) \in Nat
    BY HeardType, ModeFields, SoundNumbers DEF TypeOK, GameTypes
  <2>2. p' \in Sounds /\ track' \in [gen : Nat, guid : Nat, hadInfo : BOOLEAN]
    BY <1>7, <2>1, SoundNumbers DEF ReadGuid, TypeOK, GameTypes
  <2> QED
    BY <1>7, <2>2 DEF ReadGuid, TypeOK, GameTypes
<1>8. ASSUME ReadPosition PROVE GameTypes'
  <2>1. Heard(gch) \in Sounds
    BY HeardType DEF TypeOK, GameTypes
  <2>2. p' \in Sounds /\ track' \in [gen : Nat, guid : Nat, hadInfo : BOOLEAN]
    BY <1>8, <2>1 DEF ReadPosition, TypeOK, GameTypes
  <2> QED
    BY <1>8, <2>2 DEF ReadPosition, TypeOK, GameTypes
<1>9. ASSUME SetEngineParams PROVE GameTypes'
  <2>1. captured.gen \in Nat /\ track.guid \in Nat /\ info \in Nat
    BY SoundNumbers DEF TypeOK, GameTypes, MixerTypes, Params
  <2>2. params' \in Params
    BY <1>9, <2>1 DEF SetEngineParams, TypeOK, GameTypes, Params
  <2> QED
    BY <1>9, <2>2, SoundNumbers DEF SetEngineParams, TypeOK, GameTypes
<1> QED
  BY <1>2, <1>3, <1>4, <1>5, <1>6, <1>7, <1>8, <1>9 DEF TypeOK, GameStep

LEMMA SimTypeStep == ASSUME TypeOK, SimInv, SimStep \/ SkipSource \/ RetireUnbound PROVE TypeOK'
<1>1. UNCHANGED <<engine, mixer, game, audio>>
  BY DEF SimStep, SkipSource, RetireUnbound, TickPointer, TickGeneration, TickMixed, TickParams, TickCaptured,
         EnsureSource, RunSimulation, MarkSimulationReady
<1>2. EngineTypes' /\ MixerTypes' /\ GameTypes' /\ AudioTypes'
  BY <1>1 DEF TypeOK, EngineTypes, MixerTypes, GameTypes, AudioTypes, engine, mixer, slot, game, audio
<1>3. Retired \in [handle : Nat, gen : Nat, ready : BOOLEAN]
  BY DEF Retired, TypeOK, SimTypes
<1>4. ASSUME RetireUnbound PROVE SimTypes'
  BY <1>3, <1>4 DEF RetireUnbound, TypeOK, SimTypes
<1>5. ASSUME TickPointer PROVE SimTypes'
  BY <1>5 DEF TickPointer, TypeOK, SimTypes
<1>6. ASSUME TickGeneration PROVE SimTypes'
  BY <1>6 DEF TickGeneration, TypeOK, SimTypes, MixerTypes
<1>7. ASSUME TickMixed PROVE SimTypes'
  BY <1>7 DEF TickMixed, TypeOK, SimTypes
<1>8. ASSUME TickParams PROVE SimTypes'
  BY <1>8 DEF TickParams, TypeOK, SimTypes, GameTypes
<1>9. ASSUME TickCaptured PROVE SimTypes'
  <2>1. Current(tp, captured) \in Sounds
    BY CurrentType DEF TypeOK, SimTypes, MixerTypes
  <2>2. tp' \in Params
    BY <1>9, <2>1, SoundNumbers DEF TickCaptured, Params, NoParams
  <2> QED
    BY <1>9, <2>2 DEF TickCaptured, TypeOK, SimTypes
<1>10. ASSUME SkipSource PROVE SimTypes'
  BY <1>3, <1>10, SoundNumbers DEF SkipSource, TypeOK, SimTypes
<1>11. ASSUME EnsureSource PROVE SimTypes'
  <2>1. created' \in Nat /\ handle' \in Nat /\ simGen' \in Nat /\ tgen' \in Nat
    BY <1>11 DEF EnsureSource, TypeOK, SimTypes
  <2>2. published' = published \/ published' = [handle |-> created + 1, gen |-> simGen, ready |-> FALSE]
    BY <1>11 DEF EnsureSource
  <2>3. published' \in [handle : Nat, gen : Nat, ready : BOOLEAN]
    <3>1. published \in [handle : Nat, gen : Nat, ready : BOOLEAN] /\ created + 1 \in Nat /\ simGen \in Nat
      BY DEF TypeOK, SimTypes
    <3>2. \A n \in Nat, g \in Nat, b \in BOOLEAN :
            [handle |-> n, gen |-> g, ready |-> b] \in [handle : Nat, gen : Nat, ready : BOOLEAN]
      OBVIOUS
    <3>3. [handle |-> created + 1, gen |-> simGen, ready |-> FALSE] \in [handle : Nat, gen : Nat, ready : BOOLEAN]
      BY <3>1, <3>2
    <3> QED
      BY <2>2, <3>1, <3>3
  <2> QED
    BY <1>11, <2>1, <2>3 DEF EnsureSource, TypeOK, SimTypes
<1>12. ASSUME RunSimulation PROVE SimTypes'
  <2>1. tp.sound \in Sounds
    BY DEF TypeOK, SimTypes, Params
  <2>2. outputs' \in [0 .. MaxHandles -> Sounds]
    BY <1>12, <2>1 DEF RunSimulation, TypeOK, SimTypes
  <2> QED
    BY <1>12, <2>2, SoundNumbers DEF RunSimulation, TypeOK, SimTypes
<1>13. ASSUME MarkSimulationReady PROVE SimTypes'
  <2>1. published' \in [handle : Nat, gen : Nat, ready : BOOLEAN]
    BY <1>13 DEF MarkSimulationReady, TypeOK, SimTypes
  <2> QED
    BY <1>13, <2>1 DEF MarkSimulationReady, TypeOK, SimTypes
<1> QED
  BY <1>2, <1>4, <1>5, <1>6, <1>7, <1>8, <1>9, <1>10, <1>11, <1>12, <1>13 DEF TypeOK, SimStep

LEMMA AudioTypeStep == ASSUME TypeOK, AudioStep PROVE TypeOK'
<1>1. UNCHANGED <<engine, mixer, game, sim>>
  BY DEF AudioStep, LoadPublished, CheckGeneration, GetOutputs
<1>2. EngineTypes' /\ MixerTypes' /\ GameTypes' /\ SimTypes'
  BY <1>1 DEF TypeOK, EngineTypes, MixerTypes, GameTypes, SimTypes, engine, mixer, slot, game, sim
<1>3. NoOutputs \in [handle : Nat, gen : Nat, ready : BOOLEAN]
  BY DEF NoOutputs
<1>4. AudioTypes'
  BY <1>3 DEF AudioStep, LoadPublished, CheckGeneration, GetOutputs, Take, TypeOK, AudioTypes, SimTypes
<1> QED
  BY <1>2, <1>4 DEF TypeOK


-----------------------------------------------------------------------------
(* The mixer                                                               *)

\* A capture names a sound of the channel in the slot, with its generation.
LEMMA Captures ==
  ASSUME TypeOK, MixerInv, SetCapturedParams
  PROVE  /\ ptr \in Channels /\ heard[ptr] \in Sounds /\ heard[ptr] # 0 /\ heard[ptr] <= started
         /\ captured' = [sound |-> heard[ptr], gen |-> gen, guid |-> lastGuid]
         /\ genOf'[heard[ptr]] = gen
         /\ \A s \in Sounds \ {heard[ptr]} : genOf'[s] = genOf[s]
         /\ \A s \in Sounds : genOf'[s] \in {genOf[s], gen}
<1>1. ptr \in Channels
  BY DEF SetCapturedParams, MixerInv, TypeOK, MixerTypes
<1>2. heard[ptr] \in Sounds /\ heard[ptr] # 0 /\ heard[ptr] <= started
  BY <1>1, SlotAssumption DEF MixerInv, TypeOK, EngineTypes
<1>3. genOf \in [Sounds -> Nat] /\ genOf' = [genOf EXCEPT ![heard[ptr]] = gen]
  BY DEF SetCapturedParams, TypeOK, MixerTypes
<1> QED
  BY <1>1, <1>2, <1>3 DEF SetCapturedParams

\* What the mixer does makes no sound older: generations only grow.
LEMMA History ==
  ASSUME TypeOK, MixerInv, EngineNext \/ MixerNext
  PROVE  /\ captured.gen \in Nat /\ captured'.gen \in Nat /\ gen <= gen' /\ captured.gen <= captured'.gen
         /\ \A s \in Sounds, g \in Nat : g <= captured.gen /\ NotBefore(s, g) => NotBefore(s, g)'
<1>1. CASE SetCapturedParams
  <2>1. captured'.gen = gen /\ gen' = gen /\ gen \in Nat /\ captured.gen <= gen /\ captured.gen \in Nat
    BY <1>1, Captures DEF SetCapturedParams, MixerInv, TypeOK, MixerTypes, Params
  <2>2. \A s \in Sounds : genOf'[s] \in {genOf[s], gen} /\ genOf[s] \in Nat
    BY <1>1, Captures DEF TypeOK, MixerTypes
  <2> QED
    BY <2>1, <2>2 DEF NotBefore
<1>2. CASE ~SetCapturedParams
  <2>1. captured' = captured /\ genOf' = genOf /\ gen' \in {gen, gen + 1}
    BY <1>2 DEF EngineNext, FallSilent, StartSound, MixerNext, MixerStep, ReleaseIdle, CaptureMix, HideSlot,
                PointSlot, NumberSound, ShowSlot, mixer, slot
  <2>2. captured.gen \in Nat /\ gen \in Nat
    BY DEF TypeOK, MixerTypes, Params
  <2> QED
    BY <2>1, <2>2 DEF NotBefore
<1> QED
  BY <1>1, <1>2

LEMMA MixerKept == ASSUME MixerInv, UNCHANGED <<engine, mixer>> PROVE MixerInv'
  BY DEF MixerInv, Guid, engine, mixer, slot

LEMMA MixerInvStep == ASSUME TypeOK, MixerInv, EngineNext \/ MixerNext PROVE MixerInv'
<1> USE DEF TypeOK
<1>0. /\ gen \in Nat /\ captured.gen \in Nat /\ captured.sound \in Sounds /\ started \in Nat
      /\ 0 \in Sounds /\ Sounds \subseteq Nat /\ NoChannel \notin Channels
  BY SlotAssumption, SoundNumbers DEF EngineTypes, MixerTypes, Params
<1>1. ASSUME NEW c \in mode.channels, StartSound(c) PROVE MixerInv'
  <2>1. c \in Channels /\ mode.guidKnown \in BOOLEAN /\ mode' = mode
    BY <1>1, ModeFields DEF StartSound
  <2>2. /\ started' = started + 1 /\ started' \in Sounds /\ mpc = "idle" /\ heard'[c] = started'
        /\ \A d \in Channels \ {c} : heard'[d] = heard[d]
        /\ mode.guidKnown \/ ptr # c \/ gap
        /\ UNCHANGED <<mode, gap, ptr, gen, everMixed, lastGuid, captured, genOf, mpc, target>>
    BY <1>1, <2>1, SlotAssumption DEF StartSound, EngineTypes, Sounds, mixer, slot
  <2>3. /\ genOf[started'] = 0 /\ started' # 0
        /\ \A d \in Channels : heard[d] \in Nat /\ heard[d] <= started
    <3>1. \A s \in Sounds : s > started => genOf[s] = 0
      BY DEF MixerInv
    <3>2. started' > started /\ started' # 0
      BY <1>0, <2>2
    <3>3. \A d \in Channels : heard[d] \in Nat /\ heard[d] <= started
      BY <1>0 DEF MixerInv, EngineTypes
    <3> QED
      BY <2>2, <3>1, <3>2, <3>3
  <2>4. Guid(captured.sound)' = Guid(captured.sound)
    BY <2>2 DEF Guid
  <2>5. \A d \in Channels : heard'[d] <= started' /\ (heard[d] # 0 => heard'[d] # 0)
    <3>1. \A d \in Channels : heard[d] \in Nat /\ heard[d] <= started
      BY <1>0 DEF MixerInv, EngineTypes
    <3>2. \A d \in Channels : d = c \/ heard'[d] = heard[d]
      BY <2>2 DEF EngineTypes
    <3>3. heard'[c] = started' /\ started' # 0 /\ started' \in Nat /\ started < started'
      BY <1>0, <2>2
    <3> QED
      BY <1>0, <3>1, <3>2, <3>3
  <2>6. \A s \in Sounds : s > started' => s > started
    <3>1. started' = started + 1 /\ started \in Nat /\ Sounds \subseteq Nat
      BY <1>0, <2>2
    <3> QED
      BY <3>1
  <2>7. ptr \in Channels \cup {NoChannel} /\ target \in Channels \cup {NoChannel}
    BY DEF MixerTypes
  <2> QED
    BY <1>0, <2>2, <2>3, <2>4, <2>5, <2>6, <2>7 DEF MixerInv
<1>2. ASSUME FallSilent PROVE MixerInv'
  BY <1>2 DEF FallSilent, MixerInv, Guid, mixer, slot
<1>3. ASSUME ReleaseIdle PROVE MixerInv'
  BY <1>3 DEF ReleaseIdle, MixerInv, Guid
<1>4. ASSUME NEW c \in mode.channels, CaptureMix(c) PROVE MixerInv'
  <2>1. /\ c \in Channels /\ heard[c] # 0 /\ mpc = "idle" /\ target' = c
        /\ UNCHANGED <<mode, heard, started, gen, everMixed, captured, genOf>>
    BY <1>4, ModeFields DEF CaptureMix
  <2>2. Guid(captured.sound)' = Guid(captured.sound)
    BY <2>1 DEF Guid
  <2>3. CASE ptr # c
    <3>1. ptr' = NoChannel /\ mpc' = "rebind"
      BY <1>4, <2>3 DEF CaptureMix
    <3> QED
      BY <1>0, <2>1, <2>2, <3>1 DEF MixerInv
  <2>4. CASE ptr = c
    <3>1. /\ ptr' = ptr /\ gap' = gap
          /\ mpc' = IF everMixed /\ NewSoundOnChannel(c) THEN "restart" ELSE "staged"
          /\ lastGuid' = IF mode.guidKnown THEN heard[c] ELSE lastGuid
      BY <1>4, <2>4 DEF CaptureMix
    <3>2. /\ everMixed /\ captured.sound # 0 /\ lastGuid = captured.guid /\ captured.guid = Guid(captured.sound)
          /\ heard[ptr] = captured.sound \/ (genOf[heard[ptr]] = 0 /\ (mode.guidKnown \/ gap))
      BY <1>0, <2>1, <2>4 DEF MixerInv
    <3>3. lastGuid' = Guid(heard[ptr])'
      BY <2>1, <2>4, <3>1, <3>2 DEF Guid
    <3>4. mpc' = "staged" => captured.sound = heard[ptr]
      BY <1>0, <2>1, <2>4, <3>1, <3>2 DEF NewSoundOnChannel, Guid
    <3>5. mpc' \in {"restart", "staged"} /\ captured.gen = gen
      BY <2>1, <3>1 DEF MixerInv
    <3> QED
      BY <1>0, <2>1, <2>2, <2>4, <3>1, <3>3, <3>4, <3>5 DEF MixerInv
  <2> QED
    BY <2>3, <2>4
<1>5. ASSUME HideSlot PROVE MixerInv'
  BY <1>5 DEF HideSlot, MixerInv, Guid, engine
<1>6. ASSUME PointSlot PROVE MixerInv'
  <2>1. Guid(captured.sound)' = Guid(captured.sound) /\ Guid(heard[target])' = Guid(heard[target]')
    BY <1>6 DEF PointSlot, Guid, engine
  <2> QED
    BY <1>6, <2>1 DEF PointSlot, MixerInv, Guid, engine
<1>7. ASSUME NumberSound PROVE MixerInv'
  <2>1. gen' = gen + 1 /\ mpc' = "staged" /\ mpc = "number" /\ UNCHANGED <<engine, ptr, everMixed, lastGuid, captured, genOf, target>>
    BY <1>7 DEF NumberSound
  <2>2. ~everMixed
    BY <2>1 DEF MixerInv
  <2> QED
    BY <1>0, <2>1, <2>2 DEF MixerInv, Guid, engine
<1>8. ASSUME SetCapturedParams PROVE MixerInv'
  <2>1. /\ mpc = "staged" /\ mpc' = "captured" /\ target' = NoChannel
        /\ UNCHANGED <<mode, heard, started, ptr, gen, everMixed, lastGuid>>
    BY <1>8 DEF SetCapturedParams
  <2>2. Guid(captured.sound)' = captured'.guid /\ captured'.guid = lastGuid
    BY <1>8, <2>1, Captures DEF Guid, MixerInv
  <2>3. \A s \in Sounds : genOf'[s] <= gen /\ (s > started => genOf'[s] = 0)
    BY <1>0, <1>8, Captures DEF MixerInv, MixerTypes
  <2> QED
    BY <1>0, <1>8, <2>1, <2>2, <2>3, Captures DEF MixerInv, Guid
<1>9. ASSUME ShowSlot PROVE MixerInv'
  BY <1>9 DEF ShowSlot, MixerInv, Guid, engine
<1> QED
  BY <1>1, <1>2, <1>3, <1>4, <1>5, <1>6, <1>7, <1>8, <1>9 DEF EngineNext, MixerNext, MixerStep

-----------------------------------------------------------------------------
(* The game thread                                                         *)

\* Faithful parameters that pass for the captured sound are not before it.
LEMMA CurrentIsFaithful ==
  ASSUME TypeOK, MixerInv, NEW g \in Params, Faithful(g), g.gen <= captured.gen
  PROVE  NotBefore(Current(g, captured), captured.gen)
<1>1. /\ captured \in Params /\ captured.gen \in Nat /\ captured.sound \in Sounds
      /\ genOf \in [Sounds -> Nat] /\ 0 \in Sounds
      /\ genOf[captured.sound] = captured.gen
  BY SoundNumbers DEF TypeOK, MixerTypes, MixerInv, Params
<1>2. g.sound \in Sounds /\ g.gen \in Nat
  BY DEF Params
<1>3. NotBefore(captured.sound, captured.gen)
  BY <1>1 DEF NotBefore
<1>4. CASE mode.guidKnown
  <2>1. captured.guid = captured.sound /\ g.sound = g.guid
    BY <1>4 DEF MixerInv, Guid, Faithful
  <2>2. ASSUME SameSound(g, captured) PROVE NotBefore(g.sound, captured.gen)
    <3>1. CASE g.guid = 0
      BY <2>1, <3>1 DEF NotBefore
    <3>2. CASE g.guid # 0 /\ captured.guid # 0
      BY <1>3, <2>1, <2>2, <3>2 DEF SameSound
    <3>3. CASE captured.guid = 0
      <4>1. captured.gen = 0
        BY <1>1, <2>1, <3>3 DEF MixerInv
      <4>2. genOf[g.sound] \in Nat
        BY <1>1, <1>2
      <4> QED
        BY <1>1, <1>2, <2>1, <3>3, <4>1, <4>2 DEF NotBefore
    <3> QED
      BY <3>1, <3>2, <3>3
  <2> QED
    BY <1>3, <2>2 DEF Current
<1>5. CASE ~mode.guidKnown
  <2>1. captured.guid = 0 /\ NotBefore(g.sound, g.gen)
    BY <1>5 DEF MixerInv, Guid, Faithful
  <2>2. ASSUME SameSound(g, captured) PROVE NotBefore(g.sound, captured.gen)
    BY <2>1, <2>2 DEF SameSound
  <2> QED
    BY <1>3, <2>2 DEF Current
<1> QED
  BY <1>4, <1>5

LEMMA GameKept == ASSUME GameInv, UNCHANGED <<engine, mixer, game>> PROVE GameInv'
  BY DEF GameInv, Faithful, NotBefore, engine, mixer, slot, game

\* Without guids the mixer and the engine wait for the end of a poll.
LEMMA MixerWaits ==
  ASSUME TypeOK, GameInv, SoundsAreTold, EngineNext \/ MixerNext, ~mode.guidKnown
  PROVE  gpc = "idle"
<1>1. SUFFICES ASSUME gpc # "idle" PROVE FALSE
  OBVIOUS
<1>2. mpc = "idle" /\ ~mode.asyncMixer
  BY <1>1 DEF GameInv, SoundsAreTold
<1>3. ~MixerMayRun
  BY <1>1, <1>2 DEF MixerMayRun
<1> QED
  BY <1>2, <1>3 DEF EngineNext, StartSound, FallSilent, MixerNext, MixerStep, ReleaseIdle, CaptureMix, HideSlot,
                    PointSlot, NumberSound, SetCapturedParams, ShowSlot

LEMMA GameInvMixerStep ==
  ASSUME TypeOK, MixerInv, GameInv, SoundsAreTold, EngineNext \/ MixerNext
  PROVE  GameInv'
<1>1. UNCHANGED <<mode, params, track, gpc, info, p>>
  BY DEF EngineNext, StartSound, FallSilent, MixerNext, MixerStep, ReleaseIdle, CaptureMix, HideSlot,
         PointSlot, NumberSound, SetCapturedParams, ShowSlot, engine, game
<1>2. params.sound \in Sounds /\ params.gen \in Nat
  BY DEF TypeOK, GameTypes, Params
<1>3. params'.gen <= captured'.gen /\ Faithful(params)'
  <2>1. params.gen <= captured.gen /\ Faithful(params)
    BY DEF GameInv
  <2>2. NotBefore(params.sound, params.gen) => NotBefore(params.sound, params.gen)'
    BY <1>1, <1>2, <2>1, History DEF NotBefore
  <2> QED
    BY <1>1, <1>2, <2>1, <2>2, History DEF Faithful
<1>4. ~mode.guidKnown => gpc = "idle"
  BY MixerWaits
<1> QED
  BY <1>1, <1>3, <1>4 DEF GameInv

LEMMA GameInvStep ==
  ASSUME TypeOK, MixerInv, GameInv, SoundsAreTold, PollActiveSounds \/ GameStep
  PROVE  GameInv'
<1> USE DEF TypeOK
<1>1. UNCHANGED <<mode, heard, ptr, mpc, captured, genOf>>
  BY DEF GameStep, PollActiveSounds, ReadGeneration, ReadPointer, GetParams, ReadGuid, ReadPosition, SetEngineParams,
         engine, mixer, slot
<1>2. \A s \in Sounds, g \in Nat : NotBefore(s, g)' <=> NotBefore(s, g)
  BY <1>1 DEF NotBefore
<1>3. mode.guidKnown \in BOOLEAN /\ captured.gen \in Nat /\ 0 \in Sounds /\ p \in Sounds
  BY ModeFields, SoundNumbers DEF MixerTypes, GameTypes, Params
<1>4. ptr # NoChannel => ptr \in Channels /\ heard[ptr] \in Sounds /\ heard[ptr] # 0
  BY DEF MixerTypes, EngineTypes, MixerInv
<1>5. ~mode.guidKnown => (mpc = "idle" /\ ptr # NoChannel => NotBefore(heard[ptr], captured.gen))
  BY <1>3, <1>4 DEF MixerInv, NotBefore, MixerTypes
<1>6. ASSUME PollActiveSounds PROVE GameInv'
  <2>1. /\ ptr # NoChannel /\ gpc' = "generation" /\ UNCHANGED <<params, track, gch, p>> /\ GameMayRun
        /\ info' \in IF mode.listComplete THEN {heard[ptr]} ELSE {0, heard[ptr]}
    BY <1>6 DEF PollActiveSounds
  <2>2. mode.guidKnown => info' # 0
    BY <1>4, <2>1 DEF SoundsAreTold
  <2>3. ~mode.guidKnown => mpc = "idle" /\ info' \in {0, heard[ptr]}
    BY <2>1, <1>6 DEF SoundsAreTold, GameMayRun, PollActiveSounds
  <2> QED
    BY <1>1, <1>2, <2>1, <2>2, <2>3 DEF GameInv, Faithful, NotBefore
<1>7. ASSUME ReadGeneration PROVE GameInv'
  BY <1>1, <1>7 DEF ReadGeneration, GameInv, Faithful, NotBefore
<1>8. ASSUME ReadPointer PROVE GameInv'
  BY <1>1, <1>8 DEF ReadPointer, GameInv, Faithful, NotBefore
<1>9. ASSUME GetParams PROVE GameInv'
  <2>1. /\ gpc = "params" /\ gpc' = "guid" /\ UNCHANGED <<params, info, gch>>
        /\ p' \in {0, Current(params, captured)} /\ track'.guid \in {track.guid, 0}
    BY <1>9 DEF GetParams
  <2>2. NotBefore(Current(params, captured), captured.gen) /\ NotBefore(0, captured.gen)
    BY CurrentIsFaithful DEF GameInv, GameTypes, NotBefore
  <2>3. p' \in Sounds /\ NotBefore(p', captured.gen)
    BY <1>3, <2>1, <2>2, CurrentType DEF MixerTypes, GameTypes
  <2> QED
    BY <1>1, <2>1, <2>3 DEF GameInv, Faithful, NotBefore
<1>10. ASSUME ReadGuid PROVE GameInv'
  <2>1. gpc = "guid" /\ gpc' = "position" /\ UNCHANGED <<params, info, gch>>
    BY <1>10 DEF ReadGuid
  <2>2. ~mode.guidKnown => Guid(Heard(gch)) = 0
    BY DEF Guid
  <2>3. ~mode.guidKnown => UNCHANGED <<track, p>>
    BY <1>10, <2>2 DEF ReadGuid
  <2> QED
    BY <1>1, <2>1, <2>3 DEF GameInv, Faithful, NotBefore
<1>11. ASSUME ReadPosition PROVE GameInv'
  <2>1. /\ gpc = "position" /\ gpc' = "label" /\ UNCHANGED <<params, info>>
        /\ p' = IF info # 0 THEN info ELSE IF ~track.hadInfo THEN Heard(gch) ELSE p
        /\ track' = [track EXCEPT !.hadInfo = @ \/ info # 0]
    BY <1>11 DEF ReadPosition
  <2>2. track'.guid = track.guid
    BY <2>1 DEF GameTypes
  <2>3. mode.guidKnown => p' = info'
    BY <2>1 DEF GameInv
  <2>4. ASSUME ~mode.guidKnown PROVE NotBefore(p', captured.gen)
    <3>1. gch = ptr /\ ptr # NoChannel /\ mpc = "idle" /\ info \in {0, heard[ptr]} /\ NotBefore(p, captured.gen)
      BY <2>1, <2>4 DEF GameInv
    <3>2. Heard(gch) = heard[ptr] /\ NotBefore(heard[ptr], captured.gen)
      BY <1>5, <2>4, <3>1 DEF Heard
    <3>3. p' \in {heard[ptr], p}
      BY <2>1, <3>1, <3>2
    <3> QED
      BY <3>1, <3>2, <3>3
  <2> QED
    BY <1>1, <2>1, <2>2, <2>3, <2>4 DEF GameInv, Faithful, NotBefore
<1>12. ASSUME SetEngineParams PROVE GameInv'
  <2>1. /\ gpc = "label" /\ gpc' = "idle" /\ UNCHANGED <<track, gch>>
        /\ params' = [sound |-> p, gen |-> captured.gen, guid |-> IF info # 0 THEN info ELSE track.guid]
    BY <1>12 DEF SetEngineParams
  <2>2. mode.guidKnown => params'.sound = params'.guid
    BY <2>1 DEF GameInv
  <2>3. ~mode.guidKnown => NotBefore(params'.sound, params'.gen)
    BY <2>1 DEF GameInv
  <2> QED
    BY <1>1, <1>3, <2>1, <2>2, <2>3 DEF GameInv, Faithful, NotBefore
<1> QED
  BY <1>6, <1>7, <1>8, <1>9, <1>10, <1>11, <1>12 DEF GameStep

-----------------------------------------------------------------------------
(* The simulation thread                                                   *)

\* What SimInv says of generations and sounds, kept while the mixer runs.
LEMMA SimInvMixerStep ==
  ASSUME TypeOK, MixerInv, SimInv, EngineNext \/ MixerNext
  PROVE  SimInv'
<1>1. UNCHANGED <<mode, sim>>
  BY DEF EngineNext, StartSound, FallSilent, MixerNext, MixerStep, ReleaseIdle, CaptureMix, HideSlot,
         PointSlot, NumberSound, SetCapturedParams, ShowSlot, engine
<1>2. /\ tgen \in Nat /\ simGen \in Nat /\ handle \in 0 .. MaxHandles /\ tp.sound \in Sounds /\ tp.gen \in Nat
      /\ outputs[handle] \in Sounds /\ gen \in Nat /\ gen' \in Nat
  <2>1. gen \in Nat /\ gen' \in Nat
    BY DEF TypeOK, MixerTypes, EngineNext, StartSound, FallSilent, MixerNext, MixerStep, ReleaseIdle, CaptureMix,
           HideSlot, PointSlot, NumberSound, SetCapturedParams, ShowSlot, mixer, slot
  <2>2. handle \in 0 .. MaxHandles
    BY SlotAssumption DEF TypeOK, SimTypes, SimInv
  <2> QED
    BY <2>1, <2>2 DEF TypeOK, SimTypes, Params
<1>3. /\ gen <= gen' /\ captured.gen <= captured'.gen /\ captured.gen \in Nat /\ captured'.gen \in Nat
      /\ \A s \in Sounds, g \in Nat : g <= captured.gen /\ NotBefore(s, g) => NotBefore(s, g)'
  BY History
<1>4. tgen' <= gen' /\ simGen' <= captured'.gen
  BY <1>1, <1>2, <1>3 DEF SimInv, sim
<1>5. /\ tpc' \in {"params", "captured", "ensure"} => tgen' <= captured'.gen
      /\ tpc' = "captured" => tp'.gen <= captured'.gen
  BY <1>1, <1>2, <1>3 DEF SimInv, sim
<1>6. tpc' = "captured" => Faithful(tp)'
  BY <1>1, <1>2, <1>3 DEF SimInv, sim, Faithful, NotBefore
<1>7. /\ tpc' = "ensure" => NotBefore(tp.sound, tgen)'
      /\ tpc' = "run" => NotBefore(tp.sound, simGen)'
      /\ NotBefore(outputs[handle], simGen)'
  BY <1>1, <1>2, <1>3 DEF SimInv, sim, NotBefore
<1> QED
  BY <1>1, <1>4, <1>5, <1>6, <1>7 DEF SimInv, sim

LEMMA SimKept == ASSUME SimInv, UNCHANGED <<engine, mixer, sim>> PROVE SimInv'
  BY DEF SimInv, Faithful, NotBefore, engine, mixer, slot, sim

LEMMA SimInvStep ==
  ASSUME TypeOK, MixerInv, GameInv, SimInv, SimStep \/ SkipSource \/ RetireUnbound
  PROVE  SimInv'
<1> USE DEF TypeOK
<1>1. UNCHANGED <<mode, gen, captured, genOf, params, everMixed>>
  BY DEF SimStep, SkipSource, RetireUnbound, TickPointer, TickGeneration, TickMixed, TickParams, TickCaptured,
         EnsureSource, RunSimulation, MarkSimulationReady, engine, mixer, slot, game
<1>2. /\ captured.gen \in Nat /\ gen \in Nat /\ tgen \in Nat /\ simGen \in Nat /\ 0 \in Sounds
      /\ created \in Nat /\ handle \in Nat /\ MaxHandles \in Nat /\ captured.gen <= gen /\ NoParams.sound = 0
  BY SlotAssumption, SoundNumbers DEF MixerTypes, SimTypes, Params, MixerInv, NoParams
<1>3. Retired.handle = 0 /\ Retired.ready = FALSE /\ outputs[0] = 0 /\ NotBefore(0, simGen)
  BY <1>2 DEF Retired, SimInv, SimTypes, NotBefore
<1>4. ASSUME RetireUnbound PROVE SimInv'
  BY <1>1, <1>2, <1>3, <1>4 DEF RetireUnbound, SimInv, NotBefore
<1>5. ASSUME TickPointer PROVE SimInv'
  BY <1>1, <1>5 DEF TickPointer, SimInv, NotBefore
<1>6. ASSUME TickGeneration PROVE SimInv'
  BY <1>1, <1>2, <1>6 DEF TickGeneration, SimInv, NotBefore
<1>7. ASSUME TickMixed PROVE SimInv'
  <2>1. everMixed => tgen <= captured.gen
    BY <1>2 DEF MixerInv, SimInv
  <2> QED
    BY <1>1, <1>2, <1>7, <2>1 DEF TickMixed, SimInv, NotBefore
<1>8. ASSUME TickParams PROVE SimInv'
  BY <1>1, <1>8 DEF TickParams, SimInv, GameInv, Faithful, NotBefore
<1>9. ASSUME TickCaptured PROVE SimInv'
  <2>1. tpc = "captured" /\ tpc' = "ensure" /\ UNCHANGED <<handle, simGen, created, outputs, published, tgen>>
    BY <1>9 DEF TickCaptured
  <2>2. tp'.sound = Current(tp, captured)
    BY <1>9 DEF TickCaptured, NoParams
  <2>3. Current(tp, captured) \in Sounds /\ NotBefore(Current(tp, captured), captured.gen)
    BY <2>1, CurrentType, CurrentIsFaithful DEF SimInv, SimTypes, MixerTypes
  <2>4. NotBefore(tp'.sound, tgen)
    BY <1>2, <2>1, <2>2, <2>3 DEF SimInv, NotBefore, MixerTypes
  <2> QED
    BY <1>1, <2>1, <2>4 DEF SimInv, NotBefore
<1>10. ASSUME SkipSource PROVE SimInv'
  <2>1. /\ tpc' = "idle" /\ tgen' = 0 /\ handle' = 0 /\ UNCHANGED <<simGen, created, outputs>>
        /\ published' = IF handle # 0 THEN Retired ELSE published
    BY <1>10 DEF SkipSource
  <2>2. published'.handle = 0 /\ (published'.ready => published'.gen = simGen)
    BY <1>3, <2>1 DEF SimInv
  <2> QED
    BY <1>1, <1>2, <1>3, <2>1, <2>2 DEF SimInv, NotBefore
<1>11. ASSUME EnsureSource PROVE SimInv'
  <2>1. /\ tpc = "ensure" /\ tpc' = "run" /\ simGen' = tgen /\ tgen' = 0 /\ UNCHANGED <<tp, outputs>>
    BY <1>11 DEF EnsureSource
  <2>2. CASE handle # 0 /\ simGen = tgen
    <3>1. UNCHANGED <<handle, created, published>>
      BY <1>11, <2>2 DEF EnsureSource
    <3> QED
      BY <1>1, <1>2, <2>1, <2>2, <3>1 DEF SimInv, NotBefore
  <2>3. CASE ~(handle # 0 /\ simGen = tgen)
    <3>1. /\ created < MaxHandles /\ created' = created + 1 /\ handle' = created + 1
          /\ published' = [handle |-> created + 1, gen |-> simGen, ready |-> FALSE]
      BY <1>11, <2>3 DEF EnsureSource
    <3>2. outputs[handle'] = 0 /\ handle' # 0
      BY <1>2, <3>1 DEF SimInv
    <3>3. published'.handle = handle' /\ published'.ready = FALSE
      BY <3>1
    <3> QED
      BY <1>1, <1>2, <2>1, <3>1, <3>2, <3>3 DEF SimInv, NotBefore
  <2> QED
    BY <2>2, <2>3
<1>12. ASSUME RunSimulation PROVE SimInv'
  <2>1. /\ tpc = "run" /\ tpc' = "ready" /\ tp' = NoParams /\ outputs' = [outputs EXCEPT ![handle] = tp.sound]
        /\ UNCHANGED <<handle, simGen, created, published, tgen>>
    BY <1>12 DEF RunSimulation
  <2>2. handle \in 1 .. created /\ handle \in 0 .. MaxHandles
    BY <1>2, <2>1 DEF SimInv
  <2>3. outputs'[handle] = tp.sound /\ \A h \in 0 .. MaxHandles : h # handle => outputs'[h] = outputs[h]
    BY <2>1, <2>2 DEF SimTypes
  <2> QED
    BY <1>1, <1>2, <2>1, <2>2, <2>3 DEF SimInv, NotBefore
<1>13. ASSUME MarkSimulationReady PROVE SimInv'
  <2>1. /\ tpc = "ready" /\ tpc' = "idle" /\ published' = [published EXCEPT !.ready = TRUE, !.gen = simGen]
        /\ UNCHANGED <<handle, simGen, created, outputs, tgen>>
    BY <1>13 DEF MarkSimulationReady
  <2>2. published'.handle = published.handle /\ published'.gen = simGen
    BY <2>1 DEF SimTypes
  <2> QED
    BY <1>1, <2>1, <2>2 DEF SimInv, NotBefore
<1> QED
  BY <1>4, <1>5, <1>6, <1>7, <1>8, <1>9, <1>10, <1>11, <1>12, <1>13 DEF SimStep

-----------------------------------------------------------------------------
(* The audio thread                                                        *)

LEMMA AudioInvMixerStep ==
  ASSUME TypeOK, MixerInv, SimInv, AudioInv, EngineNext \/ MixerNext
  PROVE  AudioInv'
<1>1. UNCHANGED <<audio, sim>>
  BY DEF EngineNext, StartSound, FallSilent, MixerNext, MixerStep, ReleaseIdle, CaptureMix, HideSlot,
         PointSlot, NumberSound, SetCapturedParams, ShowSlot
<1>2. SUFFICES ASSUME apc # "idle"
               PROVE  loaded.gen <= captured'.gen /\ NotBefore(outputs[loaded.handle], loaded.gen)'
  BY <1>1 DEF AudioInv, audio, sim
<1>3. /\ loaded.gen \in Nat /\ loaded.gen <= captured.gen /\ loaded.handle \in 0 .. MaxHandles
      /\ outputs[loaded.handle] \in Sounds /\ NotBefore(outputs[loaded.handle], loaded.gen)
  <2>1. loaded.handle \in 0 .. MaxHandles
    BY <1>2, SlotAssumption DEF AudioInv, SimInv, TypeOK, SimTypes
  <2> QED
    BY <1>2, <2>1 DEF AudioInv, TypeOK, SimTypes, AudioTypes
<1> QED
  BY <1>1, <1>3, History DEF NotBefore, audio, sim

LEMMA AudioInvSimStep ==
  ASSUME TypeOK, SimInv, AudioInv, SimStep \/ SkipSource \/ RetireUnbound
  PROVE  AudioInv'
<1>1. UNCHANGED <<apc, loaded, captured, genOf>>
  BY DEF SimStep, SkipSource, RetireUnbound, TickPointer, TickGeneration, TickMixed, TickParams, TickCaptured,
         EnsureSource, RunSimulation, MarkSimulationReady, audio, mixer, slot
<1>2. SUFFICES ASSUME apc # "idle"
               PROVE  /\ loaded.handle \in 1 .. created'
                      /\ NotBefore(outputs'[loaded.handle], loaded.gen)
                      /\ loaded.handle = handle' => loaded.gen = simGen'
  BY <1>1 DEF AudioInv, NotBefore
<1>3. /\ loaded.handle \in 1 .. created /\ NotBefore(outputs[loaded.handle], loaded.gen)
      /\ loaded.handle = handle => loaded.gen = simGen
      /\ created \in Nat
  BY <1>2 DEF AudioInv, TypeOK, SimTypes
<1>4. CASE EnsureSource
  <2>1. outputs' = outputs /\ created' \in {created, created + 1}
    BY <1>4 DEF EnsureSource
  <2>2. \/ handle' = handle /\ simGen' = simGen
        \/ handle' = created + 1
    BY <1>4 DEF EnsureSource
  <2> QED
    BY <1>3, <2>1, <2>2
<1>5. CASE RunSimulation
  <2>1. outputs' = [outputs EXCEPT ![handle] = tp.sound] /\ UNCHANGED <<handle, simGen, created>>
    BY <1>5 DEF RunSimulation
  <2>2. NotBefore(tp.sound, simGen)
    BY <1>5 DEF RunSimulation, SimInv
  <2>3. loaded.handle \in 0 .. MaxHandles
    BY <1>3, SlotAssumption DEF SimInv
  <2> QED
    BY <1>3, <2>1, <2>2, <2>3 DEF TypeOK, SimTypes
<1>6. CASE ~EnsureSource /\ ~RunSimulation
  <2>1. UNCHANGED <<simGen, created, outputs>> /\ handle' \in {handle, 0}
    BY <1>6 DEF SimStep, SkipSource, RetireUnbound, TickPointer, TickGeneration, TickMixed, TickParams, TickCaptured,
                MarkSimulationReady
  <2> QED
    BY <1>3, <2>1
<1> QED
  BY <1>4, <1>5, <1>6

LEMMA AudioInvStep ==
  ASSUME TypeOK, SimInv, AudioInv, AudioStep
  PROVE  AudioInv'
<1>1. UNCHANGED <<handle, simGen, created, outputs, captured, genOf, published>>
  BY DEF AudioStep, LoadPublished, CheckGeneration, GetOutputs, sim, mixer, slot
<1>2. CASE LoadPublished
  <2>1. loaded' = published /\ published.handle # 0 /\ published.ready
    BY <1>2 DEF LoadPublished
  <2>2. published.handle = handle /\ published.gen = simGen /\ handle \in 1 .. created
    BY <2>1 DEF SimInv, TypeOK, SimTypes
  <2> QED
    BY <1>1, <2>1, <2>2 DEF AudioInv, SimInv, NotBefore
<1>3. CASE CheckGeneration
  BY <1>1, <1>3 DEF CheckGeneration, Take, AudioInv, NotBefore
<1>4. CASE GetOutputs
  BY <1>4 DEF GetOutputs, AudioInv
<1> QED
  BY <1>2, <1>3, <1>4 DEF AudioStep

LEMMA AudioKept == ASSUME AudioInv, UNCHANGED <<mixer, sim, audio>> PROVE AudioInv'
  BY DEF AudioInv, NotBefore, mixer, slot, sim, audio

-----------------------------------------------------------------------------
(* The theorems                                                            *)

LEMMA SlotInit == Init /\ SoundsAreTold => TypeOK /\ SlotInv
<1> SUFFICES ASSUME Init, SoundsAreTold PROVE TypeOK /\ SlotInv
  OBVIOUS
<1> USE SlotAssumption, SoundNumbers DEF Init
<1>1. TypeOK
  <2>1. captured \in Params /\ params \in Params /\ tp \in Params
    OBVIOUS
  <2>2. EngineTypes /\ MixerTypes
    BY <2>1, ModeFields DEF EngineTypes, MixerTypes
  <2>3. GameTypes
    BY <2>1 DEF GameTypes
  <2>4. SimTypes /\ AudioTypes
    BY <2>1 DEF SimTypes, AudioTypes, NoOutputs
  <2> QED
    BY <2>2, <2>3, <2>4 DEF TypeOK
<1>2. MixerInv
  BY DEF MixerInv, Guid, NoParams, Sounds
<1>3. GameInv
  BY DEF GameInv, Faithful, NotBefore, NoParams
<1>4. SimInv /\ AudioInv /\ NoStaleOutputs
  BY DEF SimInv, AudioInv, NoStaleOutputs, NotBefore, NoParams, NoOutputs
<1> QED
  BY <1>1, <1>2, <1>3, <1>4 DEF SlotInv

LEMMA SlotStep == TypeOK /\ SlotInv /\ [Next]_vars => TypeOK' /\ SlotInv'
<1> SUFFICES ASSUME TypeOK, SlotInv, [Next]_vars PROVE TypeOK' /\ SlotInv'
  OBVIOUS
<1> USE DEF SlotInv
<1>1. CASE EngineNext \/ MixerNext
  <2>1. TypeOK'
    BY <1>1, EngineTypeStep, MixerTypeStep
  <2>2. MixerInv' /\ GameInv' /\ SimInv' /\ AudioInv'
    BY <1>1, MixerInvStep, GameInvMixerStep, SimInvMixerStep, AudioInvMixerStep
  <2>3. mode' = mode
    BY <1>1 DEF EngineNext, StartSound, FallSilent, MixerNext, MixerStep, ReleaseIdle, CaptureMix, HideSlot,
                PointSlot, NumberSound, SetCapturedParams, ShowSlot, engine
  <2> QED
    BY <2>1, <2>2, <2>3 DEF SoundsAreTold, AudioInv, NoStaleOutputs
<1>2. CASE PollActiveSounds \/ GameStep
  <2>1. UNCHANGED <<engine, mixer, sim, audio>>
    BY <1>2 DEF GameStep, PollActiveSounds, ReadGeneration, ReadPointer, GetParams, ReadGuid, ReadPosition,
                SetEngineParams
  <2>2. TypeOK' /\ MixerInv' /\ GameInv' /\ SimInv' /\ AudioInv'
    BY <1>2, <2>1, GameTypeStep, MixerKept, GameInvStep, SimKept, AudioKept
  <2> QED
    BY <2>1, <2>2 DEF SoundsAreTold, AudioInv, NoStaleOutputs, engine
<1>3. CASE SimStep \/ SkipSource \/ RetireUnbound
  <2>1. UNCHANGED <<engine, mixer, game, audio>>
    BY <1>3 DEF SimStep, SkipSource, RetireUnbound, TickPointer, TickGeneration, TickMixed, TickParams, TickCaptured,
                EnsureSource, RunSimulation, MarkSimulationReady
  <2>2. TypeOK' /\ MixerInv' /\ GameInv' /\ SimInv' /\ AudioInv'
    BY <1>3, <2>1, SimTypeStep, MixerKept, GameKept, SimInvStep, AudioInvSimStep
  <2> QED
    BY <2>1, <2>2 DEF SoundsAreTold, AudioInv, NoStaleOutputs, engine
<1>4. CASE AudioStep
  <2>1. UNCHANGED <<engine, mixer, game, sim>>
    BY <1>4 DEF AudioStep, LoadPublished, CheckGeneration, GetOutputs
  <2>2. TypeOK' /\ MixerInv' /\ GameInv' /\ SimInv' /\ AudioInv'
    BY <1>4, <2>1, AudioTypeStep, MixerKept, GameKept, SimKept, AudioInvStep
  <2> QED
    BY <2>1, <2>2 DEF SoundsAreTold, AudioInv, NoStaleOutputs, engine
<1>5. CASE UNCHANGED vars
  <2>1. UNCHANGED <<engine, mixer, game, sim, audio>>
    BY <1>5 DEF vars
  <2>2. TypeOK'
    BY <2>1 DEF TypeOK, EngineTypes, MixerTypes, GameTypes, SimTypes, AudioTypes,
                engine, mixer, slot, game, sim, audio
  <2>3. MixerInv' /\ GameInv' /\ SimInv' /\ AudioInv'
    BY <2>1, MixerKept, GameKept, SimKept, AudioKept
  <2> QED
    BY <2>1, <2>2, <2>3 DEF SoundsAreTold, AudioInv, NoStaleOutputs, engine
<1> QED
  BY <1>1, <1>2, <1>3, <1>4, <1>5 DEF Next

\* Where sounds are told by guid and list, or where the game thread mixes, what the
\* audio thread takes for a sound was never simulated for one that had left the
\* slot: SimulationThread labels a result with a generation it read before the
\* parameters, and a source is never run for two generations.
THEOREM SlotSafety == Spec /\ SoundsAreTold => [](TypeOK /\ SlotInv)
  BY SlotInit, SlotStep, PTL DEF Spec

\* What SoundSource::GetParams takes for the captured sound is never an earlier
\* sound's, although the game thread labels its parameters with the generation of
\* the moment it stores them.
THEOREM ParamsAreOfTheirSound == Spec /\ SoundsAreTold => []GameParamsAreCurrent
<1>1. TypeOK /\ SlotInv => GameParamsAreCurrent
  <2> SUFFICES ASSUME TypeOK, SlotInv, SameSound(params, captured) PROVE NotBefore(params.sound, captured.gen)
    BY DEF GameParamsAreCurrent
  <2>1. NotBefore(Current(params, captured), captured.gen)
    BY CurrentIsFaithful DEF SlotInv, TypeOK, GameTypes, GameInv
  <2> QED
    BY <2>1 DEF Current
<1> QED
  BY <1>1, SlotSafety, PTL

-----------------------------------------------------------------------------
(* Functions defined by recursion on 0 .. n                                *)

\* A set of numbers with 0 and the successor of each of its elements below n has all up to n.
LEMMA UpTo ==
  ASSUME NEW n \in Nat, NEW T, 0 \in T, \A k \in 1 .. n : k - 1 \in T => k \in T
  PROVE  0 .. n \subseteq T
<1> DEFINE Missing == (0 .. n) \ T
<1>1. SUFFICES ASSUME Missing # {} PROVE FALSE
  OBVIOUS
<1>2. PICK m \in Missing : \A k \in Missing : ~(<<k, m>> \in OpToRel(<, Nat))
  <2>1. Missing \subseteq Nat
    OBVIOUS
  <2> HIDE DEF Missing
  <2> QED
    BY <1>1, <2>1, WFMin, NatLessThanWellFounded
<1>3. ASSUME NEW k \in Missing, k < m PROVE FALSE
  <2>1. <<k, m>> \in Nat \X Nat /\ <<k, m>>[1] = k /\ <<k, m>>[2] = m
    OBVIOUS
  <2>2. <<k, m>> \in OpToRel(<, Nat)
    BY <2>1, <1>3 DEF OpToRel
  <2> QED
    BY <2>2, <1>2
<1>4. m \in 1 .. n /\ m - 1 \in 0 .. n
  OBVIOUS
<1>5. m - 1 \in T
  BY <1>3, <1>4
<1> QED
  BY <1>4, <1>5

Recurses(g, n, S, base, step) ==
  g \in [0 .. n -> S] /\ g[0] = base /\ \A k \in 1 .. n : g[k] = step[<<k, g[k - 1]>>]

\* A function may be defined by recursion on 0 .. n.
LEMMA Iterate ==
  ASSUME NEW n \in Nat, NEW S, NEW base \in S, NEW step \in [(1 .. n) \X S -> S]
  PROVE  \E g : Recurses(g, n, S, base, step)
<1> DEFINE Is(g, k) == g[0] = base /\ \A j \in 1 .. k : g[j] = step[<<j, g[j - 1]>>]
           T == {k \in 0 .. n : \E g \in [0 .. k -> S] : Is(g, k)}
<1>1. 0 \in T
  <2> DEFINE h == [j \in 0 .. 0 |-> base]
  <2>1. h \in [0 .. 0 -> S] /\ h[0] = base /\ 0 \in 0 .. n
    OBVIOUS
  <2>2. Is(h, 0)
    BY <2>1
  <2> QED
    BY <2>1, <2>2
<1>2. ASSUME NEW k \in 1 .. n, k - 1 \in T PROVE k \in T
  <2>1. PICK g \in [0 .. k - 1 -> S] : Is(g, k - 1)
    BY <1>2
  <2> DEFINE h == [j \in 0 .. k |-> IF j = k THEN step[<<k, g[k - 1]>>] ELSE g[j]]
  <2>2. g[k - 1] \in S /\ step[<<k, g[k - 1]>>] \in S
    OBVIOUS
  <2>3. h \in [0 .. k -> S]
    BY <2>2
  <2>4. Is(h, k)
    <3>1. h[0] = base
      BY <2>1
    <3>2. ASSUME NEW j \in 1 .. k PROVE h[j] = step[<<j, h[j - 1]>>]
      <4>1. CASE j = k
        <5>1. k \in 0 .. k /\ k - 1 \in 0 .. k /\ k - 1 # k
          OBVIOUS
        <5>2. h[k] = step[<<k, g[k - 1]>>] /\ h[k - 1] = g[k - 1]
          BY <5>1
        <5> HIDE DEF h
        <5> QED
          BY <4>1, <5>2
      <4>2. CASE j # k
        BY <4>2, <2>1
      <4> QED
        BY <4>1, <4>2
    <3> HIDE DEF h
    <3> QED
      BY <3>1, <3>2
  <2> HIDE DEF h, Is
  <2> QED
    BY <2>3, <2>4
<1> HIDE DEF T
<1>3. 0 .. n \subseteq T
  BY <1>1, <1>2, UpTo
<1> QED
  BY <1>3 DEF T, Recurses

-----------------------------------------------------------------------------
(* The lists of the pool: a set is at one place of a list at most            *)

At(q) == {q[k] : k \in DOMAIN q}
Injects(q) == \A j, k \in DOMAIN q : q[j] = q[k] => j = k

\* A list that gets a new element keeps each of its elements at one place.
LEMMA AppendKept ==
  ASSUME NEW S, NEW q \in Seq(S), Injects(q), NEW e \in S, e \notin At(q)
  PROVE  /\ Append(q, e) \in Seq(S) /\ Injects(Append(q, e))
         /\ At(Append(q, e)) = At(q) \cup {e}
<1> DEFINE a == Append(q, e)
<1>1. /\ Len(q) \in Nat /\ DOMAIN q = 1 .. Len(q) /\ a \in Seq(S) /\ Len(a) = Len(q) + 1 /\ DOMAIN a = 1 .. Len(q) + 1
      /\ \A k \in DOMAIN q : a[k] = q[k]
      /\ a[Len(q) + 1] = e
  OBVIOUS
<1> HIDE DEF a
<1>2. Injects(a)
  BY <1>1 DEF Injects, At
<1>3. At(a) = At(q) \cup {e}
  <2>1. \A x : x \in At(a) => x \in At(q) \cup {e}
    BY <1>1 DEF At
  <2>2. \A x : x \in At(q) \cup {e} => x \in At(a)
    BY <1>1 DEF At
  <2> QED
    BY <2>1, <2>2
<1> QED
  BY <1>1, <1>2, <1>3 DEF a

\* Swapping the last element into a place loses the element that was there and no other.
LEMMA SwapRemoveKept ==
  ASSUME NEW S, NEW q \in Seq(S), Injects(q), NEW i \in DOMAIN q
  PROVE  /\ SwapRemove(q, i) \in Seq(S) /\ Injects(SwapRemove(q, i)) /\ q[i] \in S
         /\ At(SwapRemove(q, i)) = At(q) \ {q[i]}
<1> DEFINE b == [q EXCEPT ![i] = LastOf(q)]
           a == SwapRemove(q, i)
           n == Len(q)
<1>1. n \in Nat \ {0} /\ DOMAIN q = 1 .. n /\ i \in 1 .. n /\ \A k \in 1 .. n : q[k] \in S
  OBVIOUS
<1>2. b \in Seq(S) /\ Len(b) = n /\ \A k \in 1 .. n : b[k] = IF k = i THEN q[n] ELSE q[k]
  BY <1>1 DEF LastOf
<1>3. a \in Seq(S) /\ Len(a) = n - 1 /\ DOMAIN a = 1 .. n - 1 /\ \A k \in 1 .. n - 1 : a[k] = b[k]
  <2>1. a = SubSeq(b, 1, n - 1)
    BY <1>2 DEF SwapRemove, ButLast
  <2> HIDE DEF a, b
  <2>2. \A k \in 1 .. n - 1 : b[k] \in S
    BY <1>1, <1>2
  <2> QED
    BY <2>1, <2>2, <1>1, <1>2
<1> HIDE DEF a, b, n
<1>4. \A k \in 1 .. n - 1 : a[k] = IF k = i THEN q[n] ELSE q[k]
  BY <1>1, <1>2, <1>3
<1>5. Injects(a)
  BY <1>1, <1>3, <1>4 DEF Injects
<1>6. At(a) = At(q) \ {q[i]}
  <2>1. \A x : x \in At(a) => x \in At(q) \ {q[i]}
    BY <1>1, <1>3, <1>4 DEF At, Injects
  <2>2. ASSUME NEW x, x \in At(q) \ {q[i]} PROVE x \in At(a)
    <3>1. PICK k \in 1 .. n : x = q[k]
      BY <2>2, <1>1 DEF At
    <3>2. k # i
      BY <2>2, <3>1
    <3>3. CASE k = n
      BY <3>1, <3>2, <3>3, <1>1, <1>3, <1>4 DEF At
    <3>4. CASE k < n
      BY <3>1, <3>2, <3>4, <1>1, <1>3, <1>4 DEF At
    <3> QED
      BY <3>3, <3>4, <1>1
  <2> QED
    BY <2>1, <2>2
<1> QED
  BY <1>1, <1>3, <1>5, <1>6 DEF a

\* Taking the last element loses no other.
LEMMA ButLastKept ==
  ASSUME NEW S, NEW q \in Seq(S), Injects(q), q # <<>>
  PROVE  /\ ButLast(q) \in Seq(S) /\ Injects(ButLast(q)) /\ LastOf(q) \in At(q) /\ LastOf(q) \in S
         /\ At(ButLast(q)) = At(q) \ {LastOf(q)}
<1>1. Len(q) \in DOMAIN q
  OBVIOUS
<1>2. [q EXCEPT ![Len(q)] = LastOf(q)] = q
  BY <1>1 DEF LastOf
<1>3. SwapRemove(q, Len(q)) = ButLast(q)
  BY <1>2 DEF SwapRemove
<1>4. /\ SwapRemove(q, Len(q)) \in Seq(S) /\ Injects(SwapRemove(q, Len(q))) /\ q[Len(q)] \in S
      /\ At(SwapRemove(q, Len(q))) = At(q) \ {q[Len(q)]}
  BY <1>1, SwapRemoveKept
<1>5. q[Len(q)] \in At(q)
  BY <1>1 DEF At
<1> QED
  BY <1>3, <1>4, <1>5 DEF LastOf

-----------------------------------------------------------------------------
(* Where a set is: acquired, released, fed                                   *)

\* A pool and who holds what: every set is at one place, held sets are in use,
\* the ones that ring were fed and are not.
Pools == [free : Seq(Sets), draining : Seq(Sets), applied : [1 .. MaxSets -> BOOLEAN], inUse : [1 .. MaxSets -> BOOLEAN]]
Holders == [EffectSources -> Sets \cup {NoSet}]

Placed(pl, h) ==
  /\ Injects(pl.free) /\ Injects(pl.draining) /\ At(pl.free) \cap At(pl.draining) = {}
  /\ \A s, t \in EffectSources : h[s] = h[t] /\ h[s] # NoSet => s = t
  /\ \A s \in EffectSources : h[s] \notin At(pl.free) /\ h[s] \notin At(pl.draining)
  /\ \A e \in Sets : e \in At(pl.free) \/ e \in At(pl.draining) \/ \E s \in EffectSources : h[s] = e
  /\ \A s \in EffectSources : h[s] # NoSet => pl.inUse[h[s]]
  /\ \A e \in At(pl.draining) : e \in withReflection /\ pl.applied[e] /\ ~pl.inUse[e]
WellKept(pl, h) == pl \in Pools /\ h \in Holders /\ Placed(pl, h)

LEMMA AtType == ASSUME NEW S, NEW q \in Seq(S) PROVE At(q) \subseteq S
  BY DEF At

LEMMA SetNumbers == ASSUME sets \in 0 .. MaxSets PROVE NoSet \notin Sets /\ Sets \subseteq 1 .. MaxSets /\ Sets \subseteq Nat
  BY PoolAssumption DEF Sets, NoSet

\* AcquireEffects hands out a set nobody has, or none where the pool is exhausted: also
\* where it cuts a tail short, the set no longer rings.
LEMMA AcquireKept ==
  ASSUME sets \in 0 .. MaxSets, NEW pl, NEW h, WellKept(pl, h), NEW s \in EffectSources, h[s] = NoSet
  PROVE  WellKept(AcquireEffects(pl).pool, [h EXCEPT ![s] = AcquireEffects(pl).set])
<1> DEFINE a == AcquireEffects(pl)
           t == TakeFromPool(pl)
           new == [h EXCEPT ![s] = a.set]
<1>1. /\ pl \in Pools /\ h \in Holders /\ pl.free \in Seq(Sets) /\ pl.draining \in Seq(Sets)
      /\ pl.inUse \in [1 .. MaxSets -> BOOLEAN] /\ pl.applied \in [1 .. MaxSets -> BOOLEAN]
  BY DEF WellKept, Pools
<1>2. CASE pl.free = <<>> /\ pl.draining = <<>>
  <2>1. a.set = NoSet /\ a.pool = pl
    BY <1>2 DEF AcquireEffects
  <2>2. new = h
    BY <2>1, <1>1 DEF Holders
  <2> QED
    BY <2>1, <2>2
<1>3. CASE ~(pl.free = <<>> /\ pl.draining = <<>>)
  <2>1. /\ t.set \in Sets /\ t.pool \in Pools /\ t.set \notin At(t.pool.free) /\ t.set \notin At(t.pool.draining)
        /\ Injects(t.pool.free) /\ Injects(t.pool.draining)
        /\ \A e : e \in At(t.pool.free) => e \in At(pl.free)
        /\ \A e : e \in At(t.pool.draining) => e \in At(pl.draining)
        /\ \A e : e \in At(pl.free) => e = t.set \/ e \in At(t.pool.free)
        /\ \A e : e \in At(pl.draining) => e = t.set \/ e \in At(t.pool.draining)
        /\ t.set \in At(pl.free) \cup At(pl.draining)
        /\ t.pool.inUse = pl.inUse /\ t.pool.applied = pl.applied
    <3>1. CASE pl.free # <<>>
      <4>1. t.set = LastOf(pl.free) /\ t.pool = [pl EXCEPT !.free = ButLast(@)]
        BY <3>1 DEF TakeFromPool
      <4>2. /\ ButLast(pl.free) \in Seq(Sets) /\ Injects(ButLast(pl.free)) /\ LastOf(pl.free) \in At(pl.free)
            /\ LastOf(pl.free) \in Sets /\ At(ButLast(pl.free)) = At(pl.free) \ {LastOf(pl.free)}
        BY <3>1, <1>1, ButLastKept DEF WellKept, Placed
      <4>3. /\ t.pool.free = ButLast(pl.free) /\ t.pool.draining = pl.draining
            /\ t.pool.inUse = pl.inUse /\ t.pool.applied = pl.applied /\ t.pool \in Pools
        BY <4>1, <4>2, <1>1 DEF Pools
      <4> HIDE DEF t
      <4> QED
        BY <4>1, <4>2, <4>3 DEF WellKept, Placed
    <3>2. CASE pl.free = <<>>
      <4>1. t.set = pl.draining[1] /\ t.pool = [pl EXCEPT !.draining = SwapRemove(@, 1)]
        BY <3>2 DEF TakeFromPool
      <4>2. 1 \in DOMAIN pl.draining /\ pl.draining[1] \in At(pl.draining)
        BY <3>2, <1>3, <1>1 DEF At
      <4>3. /\ SwapRemove(pl.draining, 1) \in Seq(Sets) /\ Injects(SwapRemove(pl.draining, 1))
            /\ pl.draining[1] \in Sets /\ At(SwapRemove(pl.draining, 1)) = At(pl.draining) \ {pl.draining[1]}
        BY <4>2, <1>1, SwapRemoveKept DEF WellKept, Placed
      <4>4. /\ t.pool.draining = SwapRemove(pl.draining, 1) /\ t.pool.free = pl.free
            /\ t.pool.inUse = pl.inUse /\ t.pool.applied = pl.applied /\ t.pool \in Pools
        BY <4>1, <4>3, <1>1 DEF Pools
      <4> HIDE DEF t
      <4> QED
        BY <4>1, <4>2, <4>3, <4>4 DEF WellKept, Placed
    <3> QED
      BY <3>1, <3>2
  <2>2. a = [t EXCEPT !.pool.inUse[t.set] = TRUE, !.pool.applied[t.set] = FALSE]
    BY <1>3 DEF AcquireEffects
  <2>3. /\ a.set = t.set
        /\ a.pool = [t.pool EXCEPT !.inUse[t.set] = TRUE, !.applied[t.set] = FALSE]
    BY <2>2 DEF TakeFromPool
  <2> HIDE DEF t, a
  <2>4. t.set \in 1 .. MaxSets /\ t.set # NoSet
    BY <2>1, SetNumbers
  <2>5. /\ a.pool \in Pools /\ a.pool.free = t.pool.free /\ a.pool.draining = t.pool.draining
        /\ a.pool.inUse = [pl.inUse EXCEPT ![t.set] = TRUE]
        /\ a.pool.applied = [pl.applied EXCEPT ![t.set] = FALSE]
    <3> DEFINE u == [pl.inUse EXCEPT ![t.set] = TRUE]
               v == [pl.applied EXCEPT ![t.set] = FALSE]
    <3>1. u \in [1 .. MaxSets -> BOOLEAN] /\ v \in [1 .. MaxSets -> BOOLEAN]
      BY <1>1
    <3>2. a.pool = [t.pool EXCEPT !.inUse = u, !.applied = v]
      BY <2>1, <2>3
    <3> HIDE DEF u, v
    <3>3. a.pool \in Pools /\ a.pool.free = t.pool.free /\ a.pool.draining = t.pool.draining
          /\ a.pool.inUse = u /\ a.pool.applied = v
      BY <2>1, <3>1, <3>2 DEF Pools
    <3> QED
      BY <3>3 DEF u, v
  <2>6. /\ new \in Holders /\ new[s] = t.set /\ \A u \in EffectSources : u # s => new[u] = h[u]
    BY <1>1, <2>1, <2>3 DEF Holders
  <2>7. \A u \in EffectSources : h[u] # t.set
    BY <2>1, <1>1 DEF WellKept, Placed
  <2>8. \A e \in At(t.pool.draining) : e \in 1 .. MaxSets /\ e # t.set
    BY <2>1, AtType, SetNumbers DEF Pools
  <2> HIDE DEF new
  <2>9. Placed(a.pool, new)
    <3> USE <2>5, <2>6, <2>7, <2>4
    <3>1. /\ Injects(a.pool.free) /\ Injects(a.pool.draining) /\ At(a.pool.free) \cap At(a.pool.draining) = {}
      BY <2>1 DEF WellKept, Placed
    <3>2. \A u, v \in EffectSources : new[u] = new[v] /\ new[u] # NoSet => u = v
      BY DEF WellKept, Placed
    <3>3. \A u \in EffectSources : new[u] \notin At(a.pool.free) /\ new[u] \notin At(a.pool.draining)
      BY <2>1 DEF WellKept, Placed
    <3>4. \A e \in Sets : e \in At(a.pool.free) \/ e \in At(a.pool.draining) \/ \E u \in EffectSources : new[u] = e
      <4> SUFFICES ASSUME NEW e \in Sets, e # t.set
                   PROVE  e \in At(a.pool.free) \/ e \in At(a.pool.draining) \/ \E u \in EffectSources : new[u] = e
        OBVIOUS
      <4>1. CASE e \in At(pl.free) \/ e \in At(pl.draining)
        BY <4>1, <2>1
      <4>2. CASE \E u \in EffectSources : h[u] = e
        BY <4>2, SetNumbers
      <4> QED
        BY <4>1, <4>2 DEF WellKept, Placed
    <3>5. \A u \in EffectSources : new[u] # NoSet => a.pool.inUse[new[u]]
      <4>1. a.pool.inUse[t.set]
        BY <1>1
      <4>2. ASSUME NEW u \in EffectSources, u # s, h[u] # NoSet PROVE a.pool.inUse[h[u]]
        <5>1. pl.inUse[h[u]] /\ h[u] # t.set /\ h[u] \in 1 .. MaxSets
          BY <4>2, <1>1, SetNumbers DEF WellKept, Placed, Holders
        <5> QED
          BY <5>1, <1>1
      <4> QED
        BY <4>1, <4>2
    <3>6. \A e \in At(a.pool.draining) : e \in withReflection /\ a.pool.applied[e] /\ ~a.pool.inUse[e]
      BY <2>1, <2>8, <1>1 DEF WellKept, Placed
    <3> QED
      BY <3>1, <3>2, <3>3, <3>4, <3>5, <3>6 DEF Placed
  <2> QED
    BY <2>5, <2>6, <2>9 DEF WellKept, a, new
<1> QED
  BY <1>2, <1>3

\* ReleaseEffects takes a set back into one of the lists.
LEMMA ReleaseKept ==
  ASSUME sets \in 0 .. MaxSets, NEW pl, NEW h, WellKept(pl, h), NEW s \in EffectSources
  PROVE  WellKept(ReleaseEffects(pl, h[s]), [h EXCEPT ![s] = NoSet])
<1> DEFINE e == h[s]
           r == ReleaseEffects(pl, e)
           new == [h EXCEPT ![s] = NoSet]
           off == [pl.inUse EXCEPT ![e] = FALSE]
<1>1. /\ pl \in Pools /\ h \in Holders /\ pl.free \in Seq(Sets) /\ pl.draining \in Seq(Sets)
      /\ pl.inUse \in [1 .. MaxSets -> BOOLEAN] /\ pl.applied \in [1 .. MaxSets -> BOOLEAN]
      /\ e \in Sets \cup {NoSet}
  BY DEF WellKept, Pools, Holders
<1>2. CASE e = NoSet
  BY <1>2, <1>1 DEF ReleaseEffects, Holders
<1>3. CASE e # NoSet
  <2>1. e \in Sets /\ e \in 1 .. MaxSets /\ e \notin At(pl.free) /\ e \notin At(pl.draining)
    BY <1>1, <1>3, SetNumbers DEF WellKept, Placed
  <2>2. /\ new \in Holders /\ new[s] = NoSet /\ \A u \in EffectSources : u # s => new[u] = h[u] /\ h[u] # e
    BY <1>1, <1>3 DEF Holders, WellKept, Placed
  <2>3. off \in [1 .. MaxSets -> BOOLEAN] /\ ~off[e] /\ \A d \in 1 .. MaxSets : d # e => (off[d] <=> pl.inUse[d])
    BY <1>1, <2>1
  <2>4. /\ r \in Pools /\ r.inUse = off /\ r.applied = pl.applied /\ Injects(r.free) /\ Injects(r.draining)
        /\ \A d : d \in At(r.free) => d \in At(pl.free) \/ d = e
        /\ \A d : d \in At(pl.free) => d \in At(r.free)
        /\ \A d : d \in At(pl.draining) => d \in At(r.draining)
        /\ \A d : d \in At(r.draining) => d \in At(pl.draining) \/ (d = e /\ e \in withReflection /\ pl.applied[e])
        /\ At(r.free) \cap At(r.draining) = {}
        /\ e \in At(r.free) \cup At(r.draining)
    <3>1. CASE e \in withReflection /\ pl.applied[e]
      <4>1. r = [pl EXCEPT !.inUse = off, !.draining = Append(pl.draining, e)]
        BY <1>3, <3>1 DEF ReleaseEffects
      <4>2. /\ Append(pl.draining, e) \in Seq(Sets) /\ Injects(Append(pl.draining, e))
            /\ At(Append(pl.draining, e)) = At(pl.draining) \cup {e}
        BY <1>1, <2>1, AppendKept DEF WellKept, Placed
      <4> HIDE DEF off, r, e
      <4>3. /\ r \in Pools /\ r.inUse = off /\ r.applied = pl.applied /\ r.free = pl.free
            /\ r.draining = Append(pl.draining, e)
        BY <4>1, <4>2, <2>3, <1>1 DEF Pools
      <4> QED
        BY <4>2, <4>3, <2>1, <3>1 DEF WellKept, Placed
    <3>2. CASE ~(e \in withReflection /\ pl.applied[e])
      <4>1. r = [pl EXCEPT !.inUse = off, !.free = Append(pl.free, e)]
        BY <1>3, <3>2 DEF ReleaseEffects
      <4>2. /\ Append(pl.free, e) \in Seq(Sets) /\ Injects(Append(pl.free, e))
            /\ At(Append(pl.free, e)) = At(pl.free) \cup {e}
        BY <1>1, <2>1, AppendKept DEF WellKept, Placed
      <4> HIDE DEF off, r, e
      <4>3. /\ r \in Pools /\ r.inUse = off /\ r.applied = pl.applied /\ r.draining = pl.draining
            /\ r.free = Append(pl.free, e)
        BY <4>1, <4>2, <2>3, <1>1 DEF Pools
      <4> QED
        BY <4>2, <4>3, <2>1 DEF WellKept, Placed
    <3> QED
      BY <3>1, <3>2
  <2>5. \A d \in At(pl.draining) : d \in 1 .. MaxSets /\ d # e
    BY <2>1, <1>1, AtType, SetNumbers
  <2>6. \A u \in EffectSources : h[u] # NoSet => h[u] \in 1 .. MaxSets
    BY <1>1, SetNumbers DEF Holders
  <2>7. \A d \in Sets : d \in At(pl.free) \/ d \in At(pl.draining) \/ d = e \/ \E u \in EffectSources : u # s /\ h[u] = d
    BY DEF WellKept, Placed
  <2> HIDE DEF new, r, off, e
  <2>8. Placed(r, new)
    <3>1. \A u, v \in EffectSources : new[u] = new[v] /\ new[u] # NoSet => u = v
      BY <2>2 DEF WellKept, Placed
    <3>2. \A u \in EffectSources : new[u] \notin At(r.free) /\ new[u] \notin At(r.draining)
      <4>1. NoSet \notin At(r.free) /\ NoSet \notin At(r.draining)
        BY <2>4, AtType, SetNumbers DEF Pools
      <4> QED
        BY <4>1, <2>2, <2>4 DEF WellKept, Placed
    <3>3. \A d \in Sets : d \in At(r.free) \/ d \in At(r.draining) \/ \E u \in EffectSources : new[u] = d
      BY <2>2, <2>4, <2>7
    <3>4. \A u \in EffectSources : new[u] # NoSet => r.inUse[new[u]]
      BY <2>2, <2>3, <2>4, <2>6 DEF WellKept, Placed
    <3>5. \A d \in At(r.draining) : d \in withReflection /\ r.applied[d] /\ ~r.inUse[d]
      BY <2>1, <2>3, <2>4, <2>5 DEF WellKept, Placed
    <3> QED
      BY <2>4, <3>1, <3>2, <3>3, <3>4, <3>5 DEF Placed
  <2> QED
    BY <2>2, <2>4, <2>8 DEF WellKept, new, r, e
<1> QED
  BY <1>2, <1>3

\* Feeding the reflections of a set moves none.
LEMMA ApplyKept ==
  ASSUME sets \in 0 .. MaxSets, NEW pl, NEW h, WellKept(pl, h), NEW e \in Sets
  PROVE  WellKept([pl EXCEPT !.applied[e] = TRUE], h)
<1> DEFINE on == [pl.applied EXCEPT ![e] = TRUE]
           r == [pl EXCEPT !.applied = on]
<1>1. /\ pl \in Pools /\ e \in 1 .. MaxSets /\ pl.applied \in [1 .. MaxSets -> BOOLEAN]
      /\ \A d \in At(pl.draining) : d \in 1 .. MaxSets
  BY AtType, SetNumbers DEF WellKept, Pools
<1>2. on \in [1 .. MaxSets -> BOOLEAN] /\ on[e] /\ \A d \in 1 .. MaxSets : pl.applied[d] => on[d]
  BY <1>1
<1>3. [pl EXCEPT !.applied[e] = TRUE] = r
  OBVIOUS
<1> HIDE DEF on
<1>4. /\ r \in Pools /\ r.applied = on /\ r.inUse = pl.inUse /\ r.free = pl.free /\ r.draining = pl.draining
  BY <1>1, <1>2 DEF Pools
<1> HIDE DEF r
<1>5. \A d \in At(r.draining) : d \in withReflection /\ r.applied[d] /\ ~r.inUse[d]
  BY <1>1, <1>2, <1>4 DEF WellKept, Placed
<1> QED
  BY <1>3, <1>4, <1>5 DEF WellKept, Placed

-----------------------------------------------------------------------------
(* A source in a frame                                                       *)

\* Types, and what the pool relates: a set at every place once, held by a source
\* that renders; nothing held while the sets are created and destroyed.
EffectTypes ==
  /\ sets \in 0 .. MaxSets /\ withReflection \subseteq Sets
  /\ isLive \in [EffectSources -> BOOLEAN] /\ fade \in [EffectSources -> 0 .. FadeFrames]
  /\ silent \in [EffectSources -> 0 .. TailFrames + 1]
  /\ turn \in {Creating, Stopped} \cup 0 .. Cardinality(EffectSources) + 1
PoolSafe ==
  /\ EffectTypes /\ WellKept(Pool, effectsOf)
  /\ \A s \in EffectSources : effectsOf[s] # NoSet => isLive[s]
  /\ turn \in {Creating, Stopped} => \A s \in EffectSources : effectsOf[s] = NoSet /\ ~isLive[s]
  /\ turn = Creating => sets < MaxSets /\ draining = <<>>

LEMMA SourceNumbers ==
  /\ Cardinality(EffectSources) = NumSlotSources + NumStreams
  /\ NumSlotSources + NumStreams \in Nat /\ FadeFrames \in Nat /\ TailFrames \in Nat /\ MaxSets \in Nat \ {0}
<1>1. {NumSlotSources, NumStreams, FadeFrames, TailFrames} \subseteq Nat /\ MaxSets \in Nat \ {0}
  BY PoolAssumption
<1>2. NumSlotSources + NumStreams \in Nat
  BY <1>1
<1>3. Cardinality(1 .. NumSlotSources + NumStreams) = NumSlotSources + NumStreams
  BY <1>2, FS_Interval
<1> QED
  BY <1>1, <1>2, <1>3 DEF EffectSources

\* A source while its frame is worked out, with the pool it leaves.
SourceRecords == [pool : Pools, held : Sets \cup {NoSet}, live : BOOLEAN, fade : 0 .. FadeFrames, silent : 0 .. TailFrames + 1]
SourceKept(s, r) ==
  r \in SourceRecords /\ WellKept(r.pool, [effectsOf EXCEPT ![s] = r.held]) /\ (r.held # NoSet => r.live)

\* What a frame of a source starts from, and each thing it may do with it.
LEMMA OfKept == ASSUME PoolSafe, NEW s \in EffectSources PROVE SourceKept(s, Of(s))
<1>1. Pool \in Pools /\ effectsOf \in Holders /\ EffectTypes
  BY DEF PoolSafe, WellKept
<1>2. Of(s) \in SourceRecords
  BY <1>1 DEF Of, SourceRecords, EffectTypes, Holders
<1>3. Of(s).pool = Pool /\ Of(s).held = effectsOf[s] /\ Of(s).live = isLive[s]
  BY DEF Of
<1>4. [effectsOf EXCEPT ![s] = effectsOf[s]] = effectsOf
  BY <1>1 DEF Holders
<1> QED
  BY <1>2, <1>3, <1>4 DEF SourceKept, PoolSafe

LEMMA BeginKept ==
  ASSUME NEW s \in EffectSources, NEW r, SourceKept(s, r)
  PROVE  SourceKept(s, BeginSource(s, r)) /\ BeginSource(s, r).live
<1> DEFINE f == IF IsSlot(s) THEN FadeFrames ELSE 0
<1>1. f \in 0 .. FadeFrames /\ 0 \in 0 .. TailFrames + 1 /\ r \in SourceRecords
  BY SourceNumbers DEF SourceKept
<1>2. BeginSource(s, r) = [r EXCEPT !.live = TRUE, !.fade = f, !.silent = 0]
  BY DEF BeginSource
<1> HIDE DEF f
<1>3. /\ BeginSource(s, r) \in SourceRecords /\ BeginSource(s, r).live
      /\ BeginSource(s, r).pool = r.pool /\ BeginSource(s, r).held = r.held
  BY <1>1, <1>2 DEF SourceRecords
<1> QED
  BY <1>3 DEF SourceKept

LEMMA ReleasesKept ==
  ASSUME sets \in 0 .. MaxSets, effectsOf \in Holders, NEW s \in EffectSources, NEW r, SourceKept(s, r)
  PROVE  SourceKept(s, Releases(r)) /\ Releases(r).held = NoSet /\ Releases(r).live = r.live
<1> DEFINE h == [effectsOf EXCEPT ![s] = r.held]
           q == ReleaseEffects(r.pool, r.held)
<1>1. r \in SourceRecords /\ WellKept(r.pool, h) /\ h[s] = r.held
  BY DEF SourceKept, Holders
<1>2. WellKept(q, [h EXCEPT ![s] = NoSet])
  <2> HIDE DEF h
  <2> QED
    BY <1>1, ReleaseKept
<1>3. [h EXCEPT ![s] = NoSet] = [effectsOf EXCEPT ![s] = NoSet]
  OBVIOUS
<1>4. q \in Pools
  BY <1>2 DEF WellKept
<1> HIDE DEF q, h
<1>5. Releases(r) = [r EXCEPT !.pool = q, !.held = NoSet]
  BY DEF Releases, q
<1>6. /\ Releases(r) \in SourceRecords /\ Releases(r).pool = q /\ Releases(r).held = NoSet /\ Releases(r).live = r.live
  BY <1>1, <1>4, <1>5 DEF SourceRecords
<1> QED
  BY <1>2, <1>3, <1>6 DEF SourceKept

LEMMA EndKept ==
  ASSUME sets \in 0 .. MaxSets, effectsOf \in Holders, NEW s \in EffectSources, NEW r, SourceKept(s, r)
  PROVE  SourceKept(s, EndSourceEffects(r))
<1> DEFINE t == Releases(r)
<1>1. SourceKept(s, t) /\ t.held = NoSet
  BY ReleasesKept
<1> HIDE DEF t
<1>2. EndSourceEffects(r) = [t EXCEPT !.live = FALSE, !.fade = 0]
  BY DEF EndSourceEffects, t
<1>3. t \in SourceRecords /\ 0 \in 0 .. FadeFrames
  BY <1>1, SourceNumbers DEF SourceKept
<1>4. /\ EndSourceEffects(r) \in SourceRecords /\ EndSourceEffects(r).pool = t.pool /\ EndSourceEffects(r).held = t.held
  BY <1>2, <1>3 DEF SourceRecords
<1> QED
  BY <1>1, <1>4 DEF SourceKept

LEMMA GainKept ==
  ASSUME NEW s \in EffectSources, NEW r, SourceKept(s, r), NEW data, NEW ending
  PROVE  SourceKept(s, SourceFrameGain(r, data, ending)) /\ SourceFrameGain(r, data, ending).live = r.live
<1> DEFINE f == Step(r, ending)
           n == IF data THEN 0 ELSE IF r.silent <= TailFrames THEN r.silent + 1 ELSE r.silent
<1>1. r \in SourceRecords /\ r.fade \in 0 .. FadeFrames /\ r.silent \in 0 .. TailFrames + 1
  BY DEF SourceKept, SourceRecords
<1>2. f \in 0 .. FadeFrames /\ n \in 0 .. TailFrames + 1
  BY <1>1, SourceNumbers DEF Step
<1>3. SourceFrameGain(r, data, ending) = [r EXCEPT !.fade = f, !.silent = n]
  BY DEF SourceFrameGain
<1> HIDE DEF f, n
<1> QED
  BY <1>1, <1>2, <1>3 DEF SourceKept, SourceRecords

\* RenderEffects: the source gives its set back, keeps it or takes one.
LEMMA RenderingKept ==
  ASSUME sets \in 0 .. MaxSets, withReflection \subseteq Sets, effectsOf \in Holders, NEW s \in EffectSources,
         NEW r, SourceKept(s, r), r.live, NEW spatialize, NEW reflects
  PROVE  SourceKept(s, Rendering(r, spatialize, reflects))
<1> DEFINE a == AcquireEffects(r.pool)
           t == IF ~spatialize THEN Releases(r)
                ELSE IF r.held # NoSet THEN r ELSE [r EXCEPT !.pool = a.pool, !.held = a.set]
<1>1. SourceKept(s, t) /\ t.live = r.live
  <2>1. CASE ~spatialize
    BY <2>1, ReleasesKept
  <2>2. CASE spatialize /\ r.held # NoSet
    BY <2>2
  <2>3. CASE spatialize /\ r.held = NoSet
    <3> DEFINE h == [effectsOf EXCEPT ![s] = r.held]
    <3>1. WellKept(r.pool, h) /\ h[s] = NoSet /\ r \in SourceRecords
      BY <2>3 DEF SourceKept, Holders
    <3>2. WellKept(a.pool, [h EXCEPT ![s] = a.set])
      <4> HIDE DEF h
      <4> QED
        BY <3>1, AcquireKept
    <3>3. [h EXCEPT ![s] = a.set] = [effectsOf EXCEPT ![s] = a.set]
      OBVIOUS
    <3>4. a.pool \in Pools /\ a.set \in Sets \cup {NoSet}
      <4>1. [effectsOf EXCEPT ![s] = a.set] \in Holders
        BY <3>2, <3>3 DEF WellKept
      <4>2. [effectsOf EXCEPT ![s] = a.set][s] = a.set
        BY DEF Holders
      <4> QED
        BY <4>1, <4>2, <3>2 DEF WellKept, Holders
    <3>5. t = [r EXCEPT !.pool = a.pool, !.held = a.set]
      BY <2>3
    <3> HIDE DEF a, h, t
    <3>6. t \in SourceRecords /\ t.pool = a.pool /\ t.held = a.set /\ t.live = r.live
      BY <3>1, <3>4, <3>5 DEF SourceRecords
    <3> QED
      BY <3>2, <3>3, <3>6 DEF SourceKept
  <2> QED
    BY <2>1, <2>2, <2>3
<1>2. RenderEffects(r, spatialize, reflects)
      = IF t.held # NoSet /\ reflects /\ t.held \in withReflection THEN [t EXCEPT !.pool.applied[t.held] = TRUE] ELSE t
  BY DEF RenderEffects
<1> HIDE DEF t
<1>3. ASSUME t.held \in withReflection PROVE SourceKept(s, [t EXCEPT !.pool.applied[t.held] = TRUE])
  <2> DEFINE q == [t.pool EXCEPT !.applied[t.held] = TRUE]
  <2>1. WellKept(q, [effectsOf EXCEPT ![s] = t.held])
    BY <1>1, <1>3, ApplyKept DEF SourceKept
  <2>2. [t EXCEPT !.pool.applied[t.held] = TRUE] = [t EXCEPT !.pool = q]
    OBVIOUS
  <2> HIDE DEF q
  <2>3. q \in Pools /\ t \in SourceRecords
    BY <2>1, <1>1 DEF WellKept, SourceKept
  <2>4. [t EXCEPT !.pool = q] \in SourceRecords /\ [t EXCEPT !.pool = q].pool = q /\ [t EXCEPT !.pool = q].held = t.held
        /\ [t EXCEPT !.pool = q].live = t.live
    BY <2>3 DEF SourceRecords
  <2> QED
    BY <2>1, <2>2, <2>4, <1>1 DEF SourceKept
<1> QED
  BY <1>1, <1>2, <1>3 DEF Rendering

\* The frame of a source stores what was worked out.
LEMMA RenderedKept ==
  ASSUME PoolSafe, turn \in EffectSources, NEW r, SourceKept(turn, r), Rendered(turn, r)
  PROVE  PoolSafe'
<1> DEFINE s == turn
<1>1. /\ r \in SourceRecords /\ WellKept(r.pool, [effectsOf EXCEPT ![s] = r.held]) /\ (r.held # NoSet => r.live)
  BY DEF SourceKept
<1>2. /\ Pool' = r.pool /\ effectsOf' = [effectsOf EXCEPT ![s] = r.held]
      /\ sets' = sets /\ withReflection' = withReflection
  <2>1. r.pool \in Pools
    BY <1>1 DEF SourceRecords
  <2> QED
    BY <2>1 DEF Rendered, SetPool, Pool, Pools
<1>3. WellKept(Pool, effectsOf)'
  BY <1>1, <1>2 DEF WellKept, Placed, Pools, Holders, Sets
<1>4. s \in 1 .. Cardinality(EffectSources) /\ Cardinality(EffectSources) \in Nat
  BY SourceNumbers DEF EffectSources
<1>5. turn' \in 0 .. Cardinality(EffectSources) + 1 /\ turn' \notin {Creating, Stopped}
  <2>1. turn' = (s + 1) % (Cardinality(EffectSources) + 2)
    BY DEF Rendered
  <2>2. (s + 1) % (Cardinality(EffectSources) + 2) = s + 1
    BY <1>4
  <2> QED
    BY <2>1, <2>2, <1>4 DEF Creating, Stopped
<1>6. /\ isLive' = [isLive EXCEPT ![s] = r.live] /\ fade' = [fade EXCEPT ![s] = r.fade]
      /\ silent' = [silent EXCEPT ![s] = r.silent]
  BY DEF Rendered
<1>7. EffectTypes'
  BY <1>1, <1>2, <1>5, <1>6 DEF PoolSafe, EffectTypes, SourceRecords, Sets
<1>8. (\A u \in EffectSources : effectsOf[u] # NoSet => isLive[u])'
  BY <1>1, <1>2, <1>6 DEF PoolSafe, EffectTypes, WellKept, Holders
<1> QED
  BY <1>3, <1>5, <1>7, <1>8 DEF PoolSafe

-----------------------------------------------------------------------------
(* The reflections' tails and the end of a run                               *)

\* RenderReflectionTails moves the sets whose tail is over from the one list to the
\* other; a set that rings is never in use.
LEMMA TailsKept ==
  ASSUME PoolSafe, NEW complete, RenderReflectionTails(complete), UNCHANGED <<sets, withReflection, effectsOf>>
  PROVE  WellKept(Pool, effectsOf)'
<1> DEFINE over(e) == e \in complete \/ e \notin withReflection
           N == 2 * MaxSets
           Base == [at |-> 1, draining |-> draining, free |-> freeSets]
           Visit(q) == IF q.at > Len(q.draining) THEN q
                ELSE IF over(q.draining[q.at]) \/ inUse[q.draining[q.at]]
                     THEN [q EXCEPT !.draining = SwapRemove(@, q.at),
                                    !.free = IF inUse[q.draining[q.at]] THEN @ ELSE Append(@, q.draining[q.at])]
                     ELSE [q EXCEPT !.at = @ + 1]
           after == CHOOSE f : f = [k \in 0 .. 2 * MaxSets |->
              IF k = 0 THEN [at |-> 1, draining |-> draining, free |-> freeSets]
              ELSE LET q == f[k - 1]
             IN IF q.at > Len(q.draining) THEN q
                ELSE IF over(q.draining[q.at]) \/ inUse[q.draining[q.at]]
                     THEN [q EXCEPT !.draining = SwapRemove(@, q.at),
                                    !.free = IF inUse[q.draining[q.at]] THEN @ ELSE Append(@, q.draining[q.at])]
                     ELSE [q EXCEPT !.at = @ + 1]]
           PoolOf(q) == [free |-> q.free, draining |-> q.draining, applied |-> applied, inUse |-> inUse]
           S == {q \in [at : Nat \ {0}, draining : Seq(Sets), free : Seq(Sets)] : WellKept(PoolOf(q), effectsOf)}
           step == [x \in (1 .. N) \X S |-> Visit(x[2])]
<1>1. freeSets' = after[N].free /\ draining' = after[N].draining /\ UNCHANGED <<applied, inUse>>
  BY DEF RenderReflectionTails
<1>2. N \in Nat
  BY SourceNumbers
<1>3. ASSUME NEW q \in S PROVE Visit(q) \in S
  <2>1. q \in [at : Nat \ {0}, draining : Seq(Sets), free : Seq(Sets)] /\ WellKept(PoolOf(q), effectsOf) /\ sets \in 0 .. MaxSets
    BY DEF PoolSafe, EffectTypes
  <2> DEFINE e == q.draining[q.at]
  <2>2. CASE q.at > Len(q.draining)
    BY <2>2
  <2>3. CASE q.at <= Len(q.draining)
    <3>1. /\ q.at \in DOMAIN q.draining /\ e \in At(q.draining) /\ e \in Sets
          /\ Injects(q.draining) /\ Injects(q.free) /\ e \notin At(q.free) /\ ~inUse[e]
      <4>1. q.at \in DOMAIN q.draining /\ q.draining[q.at] \in Sets
        BY <2>1, <2>3
      <4>2. e \in At(q.draining)
        BY <4>1 DEF At
      <4>3. /\ PoolOf(q).draining = q.draining /\ PoolOf(q).free = q.free /\ PoolOf(q).inUse = inUse
        OBVIOUS
      <4> HIDE DEF PoolOf, e
      <4>4. Injects(q.draining) /\ Injects(q.free) /\ e \notin At(q.free) /\ ~inUse[e]
        BY <2>1, <4>2, <4>3 DEF WellKept, Placed
      <4> QED
        BY <4>1, <4>2, <4>4 DEF e
    <3>2. CASE over(e)
      <4> DEFINE d == SwapRemove(q.draining, q.at)
                 f == Append(q.free, e)
                 z == [at |-> q.at, draining |-> d, free |-> f]
      <4>1. d \in Seq(Sets) /\ Injects(d) /\ At(d) = At(q.draining) \ {e}
        BY <2>1, <3>1, SwapRemoveKept
      <4>2. f \in Seq(Sets) /\ Injects(f) /\ At(f) = At(q.free) \cup {e}
        BY <2>1, <3>1, AppendKept
      <4> HIDE DEF d, f
      <4>3. Visit(q) = z
        <5>1. Visit(q) = [q EXCEPT !.draining = d, !.free = f]
          BY <2>3, <3>1, <3>2 DEF d, f
        <5> HIDE DEF Visit
        <5> QED
          BY <2>1, <5>1
      <4>4. PoolOf(z) \in Pools
        BY <4>1, <4>2, <2>1 DEF WellKept, Pools
      <4>5. Placed(PoolOf(z), effectsOf)
        BY <4>1, <4>2, <2>1, <3>1 DEF WellKept, Placed
      <4>6. WellKept(PoolOf(z), effectsOf)
        BY <4>4, <4>5, <2>1 DEF WellKept
      <4>7. z \in S
        BY <4>1, <4>2, <4>6, <2>1
      <4> QED
        BY <4>3, <4>7
    <3>3. CASE ~over(e)
      <4> DEFINE z == [at |-> q.at + 1, draining |-> q.draining, free |-> q.free]
      <4>1. Visit(q) = z
        <5>1. Visit(q) = [q EXCEPT !.at = @ + 1]
          BY <2>3, <3>1, <3>3
        <5> HIDE DEF Visit
        <5> QED
          BY <2>1, <5>1
      <4>2. PoolOf(z) = PoolOf(q)
        OBVIOUS
      <4>3. z \in S
        BY <4>2, <2>1
      <4> QED
        BY <4>1, <4>3
    <3> QED
      BY <3>2, <3>3
  <2> QED
    BY <2>1, <2>2, <2>3
<1>4. Base \in S
  <2>1. PoolOf(Base) = Pool
    BY DEF Pool
  <2>2. Pool \in Pools
    BY DEF PoolSafe, WellKept
  <2>3. Base \in [at : Nat \ {0}, draining : Seq(Sets), free : Seq(Sets)]
    BY <2>2 DEF Pools, Pool
  <2> QED
    BY <2>1, <2>3 DEF PoolSafe
<1> HIDE DEF S, Visit, Base, N
<1>5. \A k \in 1 .. N, x \in S : step[<<k, x>>] = Visit(x)
  BY <1>2
<1>55. step \in [(1 .. N) \X S -> S]
  BY <1>3
<1> HIDE DEF step
<1>6. PICK g \in [0 .. N -> S] : g[0] = Base /\ \A k \in 1 .. N : g[k] = step[<<k, g[k - 1]>>]
  <2>1. \E g : Recurses(g, N, S, Base, step)
    BY <1>2, <1>4, <1>55, Iterate
  <2> QED
    BY <2>1 DEF Recurses
<1>7. g = [k \in 0 .. N |-> IF k = 0 THEN Base ELSE Visit(g[k - 1])]
  <2>1. \A k \in 0 .. N : g[k] = IF k = 0 THEN Base ELSE Visit(g[k - 1])
    <3> SUFFICES ASSUME NEW k \in 0 .. N PROVE g[k] = IF k = 0 THEN Base ELSE Visit(g[k - 1])
      OBVIOUS
    <3>1. CASE k = 0
      BY <3>1, <1>6
    <3>2. CASE k # 0
      <4>1. k \in 1 .. N /\ k - 1 \in 0 .. N
        BY <3>2, <1>2
      <4>2. g[k - 1] \in S
        BY <4>1
      <4> QED
        BY <3>2, <4>1, <4>2, <1>5, <1>6
    <3> QED
      BY <3>1, <3>2
  <2> QED
    BY <2>1
<1>8. after = [k \in 0 .. N |-> IF k = 0 THEN Base ELSE Visit(after[k - 1])]
  BY <1>7, Zenon DEF Visit, Base, N
<1> HIDE DEF after
<1>9. after[0] = Base /\ \A k \in 1 .. N : after[k] = Visit(after[k - 1])
  <2>1. \A k \in 0 .. N : after[k] = IF k = 0 THEN Base ELSE Visit(after[k - 1])
    BY <1>8, Zenon
  <2> QED
    BY <2>1, <1>2
<1> DEFINE T == {k \in 0 .. N : after[k] \in S}
<1>10. 0 .. N \subseteq T
  <2>1. 0 \in T /\ \A k \in 1 .. N : k - 1 \in T => k \in T
    BY <1>2, <1>3, <1>4, <1>9
  <2> HIDE DEF T
  <2> QED
    BY <2>1, <1>2, UpTo
<1>11. after[N] \in S
  BY <1>2, <1>10
<1>12. /\ after[N] \in [at : Nat \ {0}, draining : Seq(Sets), free : Seq(Sets)]
       /\ WellKept(PoolOf(after[N]), effectsOf)
  BY <1>11 DEF S
<1>13. Pool' = PoolOf(after[N])
  BY <1>1 DEF Pool
<1> QED
  BY <1>12, <1>13 DEF WellKept, Placed, Pools, Holders, Sets

LEMMA ReleaseType ==
  ASSUME sets \in 0 .. MaxSets, NEW pl \in Pools, NEW e \in Sets \cup {NoSet}
  PROVE  ReleaseEffects(pl, e) \in Pools
<1> DEFINE off == [pl.inUse EXCEPT ![e] = FALSE]
<1>1. off \in [1 .. MaxSets -> BOOLEAN] /\ pl.free \in Seq(Sets) /\ pl.draining \in Seq(Sets)
  BY DEF Pools
<1>2. ASSUME e \in Sets
      PROVE  [pl EXCEPT !.inUse = off, !.draining = Append(pl.draining, e)] \in Pools
             /\ [pl EXCEPT !.inUse = off, !.free = Append(pl.free, e)] \in Pools
  <2>1. Append(pl.draining, e) \in Seq(Sets) /\ Append(pl.free, e) \in Seq(Sets)
    BY <1>1, <1>2
  <2> HIDE DEF off
  <2> QED
    BY <1>1, <2>1 DEF Pools
<1> QED
  BY <1>2 DEF ReleaseEffects

\* The end of a run releases the sets of one source after the other.
LEMMA RunEndKept ==
  ASSUME PoolSafe, AudioRunEnds
  PROVE  WellKept(Pool, effectsOf)' /\ \A s \in EffectSources : effectsOf'[s] = NoSet
<1> DEFINE N == Cardinality(EffectSources)
           Release(s, q) == IF isLive[s] THEN ReleaseEffects(q, effectsOf[s]) ELSE q
           ended == CHOOSE f : f = [s \in 0 .. Cardinality(EffectSources) |->
              IF s = 0 THEN Pool ELSE IF isLive[s] THEN ReleaseEffects(f[s - 1], effectsOf[s]) ELSE f[s - 1]]
           step == [x \in (1 .. N) \X Pools |-> Release(x[1], x[2])]
           Left(k) == [t \in EffectSources |-> IF t <= k THEN NoSet ELSE effectsOf[t]]
<1>1. /\ freeSets' = ended[N].free /\ draining' = ended[N].draining /\ applied' = ended[N].applied
      /\ inUse' = ended[N].inUse
      /\ effectsOf' = [s \in EffectSources |-> IF isLive[s] THEN NoSet ELSE effectsOf[s]]
      /\ sets' = sets /\ withReflection' = withReflection
  BY DEF AudioRunEnds, SetPool
<1>2. N \in Nat /\ EffectSources = 1 .. N /\ sets \in 0 .. MaxSets
  BY SourceNumbers DEF EffectSources, PoolSafe, EffectTypes
<1>3. Pool \in Pools /\ effectsOf \in Holders /\ WellKept(Pool, effectsOf)
  BY DEF PoolSafe, WellKept
<1> HIDE DEF N
<1>4. \A s \in 1 .. N, q \in Pools : Release(s, q) \in Pools
  <2>1. \A s \in 1 .. N : effectsOf[s] \in Sets \cup {NoSet}
    BY <1>2, <1>3 DEF Holders
  <2> QED
    BY <1>2, <2>1, ReleaseType
<1> HIDE DEF Release
<1>5. \A k \in 1 .. N, x \in Pools : step[<<k, x>>] = Release(k, x)
  OBVIOUS
<1>6. step \in [(1 .. N) \X Pools -> Pools]
  BY <1>4
<1> HIDE DEF step
<1>7. PICK g \in [0 .. N -> Pools] : g[0] = Pool /\ \A k \in 1 .. N : g[k] = step[<<k, g[k - 1]>>]
  <2>1. \E g : Recurses(g, N, Pools, Pool, step)
    BY <1>2, <1>3, <1>6, Iterate
  <2> QED
    BY <2>1 DEF Recurses
<1>8. g = [k \in 0 .. N |-> IF k = 0 THEN Pool ELSE Release(k, g[k - 1])]
  <2>1. ASSUME NEW k \in 0 .. N PROVE g[k] = IF k = 0 THEN Pool ELSE Release(k, g[k - 1])
    <3>1. CASE k = 0
      BY <3>1, <1>7
    <3>2. CASE k # 0
      <4>1. k \in 1 .. N /\ k - 1 \in 0 .. N
        BY <3>2, <1>2
      <4>2. g[k - 1] \in Pools
        BY <4>1
      <4> QED
        BY <3>2, <4>1, <4>2, <1>5, <1>7
    <3> QED
      BY <3>1, <3>2
  <2> QED
    BY <2>1
<1>9. ended = [k \in 0 .. N |-> IF k = 0 THEN Pool ELSE Release(k, ended[k - 1])]
  BY <1>8, Zenon DEF Release, N
<1> HIDE DEF ended
<1>10. ended[0] = Pool /\ \A k \in 1 .. N : ended[k] = Release(k, ended[k - 1])
  <2>1. \A k \in 0 .. N : ended[k] = IF k = 0 THEN Pool ELSE Release(k, ended[k - 1])
    BY <1>9, Zenon
  <2> QED
    BY <2>1, <1>2
<1> DEFINE T == {k \in 0 .. N : WellKept(ended[k], Left(k))}
<1>11. 0 .. N \subseteq T
  <2>1. 0 \in T
    <3>1. Left(0) = effectsOf
      BY <1>2, <1>3 DEF Holders
    <3> QED
      BY <3>1, <1>2, <1>3, <1>10
  <2>2. ASSUME NEW k \in 1 .. N, k - 1 \in T PROVE k \in T
    <3>1. WellKept(ended[k - 1], Left(k - 1)) /\ k \in EffectSources
      BY <2>2, <1>2
    <3>2. Left(k - 1)[k] = effectsOf[k]
      BY <1>2
    <3>3. Left(k) = [Left(k - 1) EXCEPT ![k] = NoSet]
      <4>1. \A t \in 1 .. N : t <= k <=> (t <= k - 1 \/ t = k)
        BY <1>2
      <4> QED
        BY <4>1, <1>2
    <3> HIDE DEF Left
    <3>4. CASE isLive[k]
      <4> DEFINE pl == ended[k - 1]
                 h == Left(k - 1)
      <4> HIDE DEF pl, h
      <4>1. WellKept(ReleaseEffects(pl, h[k]), [h EXCEPT ![k] = NoSet])
        BY <3>1, <1>2, ReleaseKept DEF pl, h
      <4> QED
        BY <4>1, <3>2, <3>3, <3>4, <1>2, <1>10 DEF Release, pl, h
    <3>5. CASE ~isLive[k]
      <4>1. effectsOf[k] = NoSet
        BY <3>1, <3>5 DEF PoolSafe
      <4>2. Left(k) = Left(k - 1)
        BY <3>1, <3>2, <3>3, <4>1 DEF WellKept, Holders
      <4> QED
        BY <3>1, <3>5, <4>2, <1>10 DEF Release
    <3> QED
      BY <3>4, <3>5
  <2> HIDE DEF T
  <2> QED
    BY <2>1, <2>2, <1>2, UpTo
<1>12. WellKept(ended[N], Left(N))
  BY <1>2, <1>11
<1>13. \A s \in EffectSources : effectsOf'[s] = NoSet
  BY <1>1 DEF PoolSafe
<1>14. effectsOf' = Left(N)
  BY <1>1, <1>2, <1>13
<1>15. Pool' = ended[N]
  <2>1. ended[N] \in Pools
    BY <1>12 DEF WellKept
  <2> QED
    BY <2>1, <1>1 DEF Pools, Pool
<1> HIDE DEF Left
<1> QED
  BY <1>1, <1>12, <1>13, <1>14, <1>15 DEF WellKept, Placed, Pools, Holders, Sets

LEMMA EffectStart == EffectInit => PoolSafe
<1> SUFFICES ASSUME EffectInit PROVE PoolSafe
  OBVIOUS
<1>1. /\ sets = 0 /\ withReflection = {} /\ freeSets = <<>> /\ draining = <<>>
      /\ applied = [e \in 1 .. MaxSets |-> FALSE] /\ inUse = [e \in 1 .. MaxSets |-> FALSE]
      /\ effectsOf = [s \in EffectSources |-> NoSet]
  BY DEF EffectInit
<1>2. Sets = {}
  BY <1>1 DEF Sets
<1>3. EffectTypes
  BY <1>1, SourceNumbers DEF EffectInit, EffectTypes
<1>4. WellKept(Pool, effectsOf)
  BY <1>1, <1>2 DEF WellKept, Placed, Pools, Holders, Pool, At, Injects
<1> QED
  BY <1>1, <1>3, <1>4, SourceNumbers DEF PoolSafe, EffectInit

\* A set that was created is free.
LEMMA CreateKept == ASSUME PoolSafe, NEW reflection, CreateEffectSet(reflection) PROVE PoolSafe'
<1> DEFINE e == sets + 1
           f == Append(freeSets, e)
<1>1. /\ turn = Creating /\ sets' = e /\ freeSets' = f /\ draining' = draining /\ draining = <<>>
      /\ applied' = applied /\ inUse' = inUse /\ effectsOf' = effectsOf /\ isLive' = isLive
      /\ withReflection' \subseteq withReflection \cup {e} /\ turn' = IF e = MaxSets THEN 0 ELSE Creating
      /\ fade' = fade /\ silent' = silent
  BY DEF CreateEffectSet, sourceVars, PoolSafe
<1>2. sets \in Nat /\ sets < MaxSets /\ Sets' = Sets \cup {e} /\ e \notin Sets /\ e \in 1 .. MaxSets
  BY <1>1, SourceNumbers DEF PoolSafe, EffectTypes, Sets
<1>3. freeSets \in Seq(Sets) /\ Injects(freeSets) /\ e \notin At(freeSets)
  <2>1. freeSets \in Seq(Sets) /\ Injects(freeSets)
    BY DEF PoolSafe, WellKept, Pools, Pool, Placed
  <2> QED
    BY <2>1, <1>2, AtType
<1>4. f \in Seq(Sets)' /\ Injects(f) /\ At(f) = At(freeSets) \cup {e}
  <2>1. freeSets \in Seq(Sets \cup {e})
    BY <1>3
  <2> QED
    BY <2>1, <1>2, <1>3, AppendKept
<1> HIDE DEF f
<1>5. At(draining) = {} /\ Injects(draining) /\ draining \in Seq(Sets)'
  BY <1>1 DEF At, Injects
<1>6. \A s \in EffectSources : effectsOf[s] = NoSet /\ ~isLive[s]
  BY <1>1 DEF PoolSafe
<1>7. Pool' \in Pools'
  BY <1>1, <1>4, <1>5 DEF PoolSafe, WellKept, Pools, Pool
<1>8. effectsOf' \in Holders'
  BY <1>1, <1>2 DEF PoolSafe, WellKept, Holders
<1>9. Placed(Pool, effectsOf)'
  <2>1. Pool'.free = f /\ Pool'.draining = draining
    BY <1>1 DEF Pool
  <2>2. \A d \in Sets : d \in At(freeSets)
    BY <1>5, <1>6, SetNumbers DEF PoolSafe, EffectTypes, WellKept, Placed, Pool
  <2>3. NoSet \notin At(f)
    <3>1. At(freeSets) \subseteq Sets
      BY <1>3, AtType
    <3> QED
      BY <3>1, <1>2, <1>4, SetNumbers DEF PoolSafe, EffectTypes, NoSet
  <2> QED
    BY <2>1, <2>2, <2>3, <1>1, <1>2, <1>4, <1>5, <1>6 DEF Placed
<1>10. EffectTypes'
  BY <1>1, <1>2, SourceNumbers DEF PoolSafe, EffectTypes
<1> QED
  BY <1>1, <1>2, <1>6, <1>7, <1>8, <1>9, <1>10, SourceNumbers DEF PoolSafe, WellKept, Creating, Stopped

\* Nothing is held where the sets are destroyed.
LEMMA ShutdownKept == ASSUME PoolSafe, ShutdownRenderer PROVE PoolSafe'
<1>1. /\ turn = Stopped /\ turn' = Creating /\ sets' = 0 /\ withReflection' = {} /\ freeSets' = <<>> /\ draining' = <<>>
      /\ applied' = [e \in 1 .. MaxSets |-> FALSE] /\ inUse' = [e \in 1 .. MaxSets |-> FALSE]
      /\ effectsOf' = effectsOf /\ isLive' = isLive /\ fade' = fade /\ silent' = silent
  BY DEF ShutdownRenderer, sourceVars
<1>2. Sets' = {} /\ \A s \in EffectSources : effectsOf[s] = NoSet /\ ~isLive[s]
  BY <1>1 DEF PoolSafe, Sets
<1>3. effectsOf' = [s \in EffectSources |-> NoSet]
  BY <1>1, <1>2 DEF PoolSafe, WellKept, Holders
<1>4. EffectTypes'
  BY <1>1, SourceNumbers DEF PoolSafe, EffectTypes
<1>5. WellKept(Pool, effectsOf)'
  BY <1>1, <1>2, <1>3 DEF WellKept, Placed, Pools, Holders, Pool, At, Injects
<1> QED
  BY <1>1, <1>2, <1>4, <1>5, SourceNumbers DEF PoolSafe

\* A capture slot, a stream: whichever way its frame goes.
LEMMA SlotSourceKept ==
  ASSUME PoolSafe, NEW bound \in BOOLEAN, NEW renewed \in BOOLEAN, NEW data \in BOOLEAN, NEW inputEnded \in BOOLEAN,
         NEW spatialize \in BOOLEAN, NEW reflects \in BOOLEAN,
         RenderEngineSlot(bound, renewed, data, inputEnded, spatialize, reflects)
  PROVE  PoolSafe'
<1> DEFINE s == turn
           begins == bound /\ (~isLive[s] \/ renewed)
           r == IF begins THEN BeginSource(s, IF isLive[s] THEN EndSourceEffects(Of(s)) ELSE Of(s)) ELSE Of(s)
           g == SourceFrameGain(r, data, ~bound)
           z == CASE ~r.live -> r
                  [] r.live /\ Finished(r, ~bound) -> EndSourceEffects(g)
                  [] r.live /\ ~Finished(r, ~bound) /\ ~data /\ inputEnded /\ g.silent > TailFrames -> Releases(g)
                  [] OTHER -> Rendering(g, spatialize, reflects)
<1>1. s \in EffectSources /\ Rendered(s, z)
  BY DEF RenderEngineSlot
<1>2. sets \in 0 .. MaxSets /\ withReflection \subseteq Sets /\ effectsOf \in Holders
  BY DEF PoolSafe, EffectTypes, WellKept
<1>3. SourceKept(s, r)
  BY <1>1, <1>2, OfKept, EndKept, BeginKept
<1> HIDE DEF r, s
<1>4. SourceKept(s, g) /\ g.live = r.live
  BY <1>1, <1>3, GainKept
<1> HIDE DEF g
<1>5. SourceKept(s, EndSourceEffects(g)) /\ SourceKept(s, Releases(g))
  BY <1>1, <1>2, <1>4, EndKept, ReleasesKept
<1>6. r.live => SourceKept(s, Rendering(g, spatialize, reflects))
  BY <1>1, <1>2, <1>4, RenderingKept
<1>7. SourceKept(s, z)
  BY <1>3, <1>5, <1>6
<1> HIDE DEF z
<1> QED
  BY <1>1, <1>7, RenderedKept DEF s

LEMMA StreamSourceKept ==
  ASSUME PoolSafe, NEW added \in BOOLEAN, NEW stopped \in BOOLEAN, NEW atEnd \in BOOLEAN, NEW data \in BOOLEAN,
         NEW spatialize \in BOOLEAN, NEW reflects \in BOOLEAN,
         RenderStreamSource(added, stopped, atEnd, data, spatialize, reflects)
  PROVE  PoolSafe'
<1> DEFINE s == turn
           r == IF added /\ ~isLive[s] THEN BeginSource(s, Of(s)) ELSE Of(s)
           ending == stopped \/ (atEnd /\ ~data /\ r.silent > TailFrames)
           g == SourceFrameGain(r, data, ending)
           z == CASE ~r.live -> r
                  [] r.live /\ Finished(r, ending) -> EndSourceEffects(g)
                  [] r.live /\ ~Finished(r, ending) /\ ~data /\ g.silent > TailFrames -> g
                  [] OTHER -> Rendering(g, spatialize, reflects)
<1>1. s \in EffectSources /\ Rendered(s, z)
  BY DEF RenderStreamSource
<1>2. sets \in 0 .. MaxSets /\ withReflection \subseteq Sets /\ effectsOf \in Holders
  BY DEF PoolSafe, EffectTypes, WellKept
<1>3. SourceKept(s, r)
  BY <1>1, OfKept, BeginKept
<1> HIDE DEF r, s, ending
<1>4. SourceKept(s, g) /\ g.live = r.live
  BY <1>1, <1>3, GainKept
<1> HIDE DEF g
<1>5. SourceKept(s, EndSourceEffects(g))
  BY <1>1, <1>2, <1>4, EndKept
<1>6. r.live => SourceKept(s, Rendering(g, spatialize, reflects))
  BY <1>1, <1>2, <1>4, RenderingKept
<1>7. SourceKept(s, z)
  BY <1>3, <1>4, <1>5, <1>6
<1> HIDE DEF z
<1> QED
  BY <1>1, <1>7, RenderedKept DEF s

LEMMA EffectStep == PoolSafe /\ [EffectNext]_effectVars => PoolSafe'
<1> SUFFICES ASSUME PoolSafe, [EffectNext]_effectVars PROVE PoolSafe'
  OBVIOUS
<1>1. CASE UNCHANGED effectVars
  BY <1>1 DEF effectVars, poolVars, sourceVars, PoolSafe, EffectTypes, WellKept, Placed, Pools, Holders, Pool, Sets
<1>2. CASE CreationFails
  <2>1. turn' = 0 /\ UNCHANGED <<sets, withReflection, poolVars, sourceVars>> /\ 0 \in 0 .. Cardinality(EffectSources) + 1
    BY <1>2, SourceNumbers DEF CreationFails
  <2>2. WellKept(Pool, effectsOf)'
    BY <2>1 DEF poolVars, sourceVars, PoolSafe, WellKept, Placed, Pools, Holders, Pool, Sets
  <2>3. EffectTypes'
    BY <2>1 DEF sourceVars, PoolSafe, EffectTypes, Sets
  <2> QED
    BY <2>1, <2>2, <2>3 DEF sourceVars, PoolSafe, Creating, Stopped
<1>3. CASE \E reflection \in BOOLEAN : CreateEffectSet(reflection)
  BY <1>3, CreateKept
<1>4. CASE AudioRunEnds
  <2>1. WellKept(Pool, effectsOf)' /\ \A s \in EffectSources : effectsOf'[s] = NoSet
    BY <1>4, RunEndKept
  <2>2. /\ turn' = Stopped /\ isLive' = [s \in EffectSources |-> FALSE]
        /\ UNCHANGED <<sets, withReflection, fade, silent>>
    BY <1>4 DEF AudioRunEnds
  <2> QED
    BY <2>1, <2>2 DEF PoolSafe, EffectTypes, Sets, Creating, Stopped
<1>5. CASE ShutdownRenderer
  BY <1>5, ShutdownKept
<1>6. CASE \E enabled \in BOOLEAN : BeginEffectFrame(enabled)
  <2>1. turn' = 1 /\ UNCHANGED <<sets, withReflection, poolVars, sourceVars>> /\ 1 \in 0 .. Cardinality(EffectSources) + 1
    BY <1>6, SourceNumbers DEF BeginEffectFrame
  <2>2. WellKept(Pool, effectsOf)'
    BY <2>1 DEF poolVars, sourceVars, PoolSafe, WellKept, Placed, Pools, Holders, Pool, Sets
  <2>3. EffectTypes'
    BY <2>1 DEF sourceVars, PoolSafe, EffectTypes, Sets
  <2> QED
    BY <2>1, <2>2, <2>3 DEF sourceVars, PoolSafe, Creating, Stopped
<1>7. ASSUME NEW complete \in SUBSET Sets, EndEffectFrame(complete) PROVE PoolSafe'
  <2>1. turn' = 0 /\ UNCHANGED <<sets, withReflection, effectsOf, isLive, fade, silent>>
    BY <1>7 DEF EndEffectFrame, sourceVars
  <2>2. WellKept(Pool, effectsOf)'
    <3>1. CASE renders
      BY <1>7, <2>1, <3>1, TailsKept DEF EndEffectFrame
    <3>2. CASE ~renders
      BY <1>7, <2>1, <3>2 DEF EndEffectFrame, poolVars, PoolSafe, WellKept, Placed, Pools, Holders, Pool, Sets
    <3> QED
      BY <3>1, <3>2
  <2> QED
    BY <2>1, <2>2, SourceNumbers DEF PoolSafe, EffectTypes, Sets, Creating, Stopped
<1>8. ASSUME NEW a \in BOOLEAN, NEW b \in BOOLEAN, NEW data \in BOOLEAN, NEW c \in BOOLEAN, NEW spatialize \in BOOLEAN,
             NEW reflects \in BOOLEAN,
             RenderEngineSlot(a, b, data, c, spatialize, reflects) \/ RenderStreamSource(a, b, c, data, spatialize, reflects)
      PROVE  PoolSafe'
  BY <1>8, SlotSourceKept, StreamSourceKept
<1> QED
  BY <1>1, <1>2, <1>3, <1>4, <1>5, <1>6, <1>7, <1>8 DEF EffectNext

\* A set is at one place of a list or at none.
LEMMA Count ==
  ASSUME NEW q, Injects(q), NEW e
  PROVE  Cardinality({k \in DOMAIN q : q[k] = e}) = IF e \in At(q) THEN 1 ELSE 0
<1>1. CASE e \in At(q)
  <2>1. PICK k \in DOMAIN q : q[k] = e
    BY <1>1 DEF At
  <2>2. {j \in DOMAIN q : q[j] = e} = {k}
    BY <2>1 DEF Injects
  <2> QED
    BY <1>1, <2>2, FS_Singleton
<1>2. CASE e \notin At(q)
  <2>1. {j \in DOMAIN q : q[j] = e} = {}
    BY <1>2 DEF At
  <2> QED
    BY <1>2, <2>1, FS_EmptySet
<1> QED
  BY <1>1, <1>2

\* Every set at one place, counted.
LEMMA PoolSafeIsEnough == PoolSafe => PoolInv
<1> SUFFICES ASSUME PoolSafe PROVE PoolInv
  OBVIOUS
<1>1. /\ Placed(Pool, effectsOf) /\ freeSets \in Seq(Sets) /\ draining \in Seq(Sets) /\ sets \in 0 .. MaxSets
  BY DEF PoolSafe, WellKept, EffectTypes, Pools, Pool
<1>2. Pool.free = freeSets /\ Pool.draining = draining /\ Pool.applied = applied /\ Pool.inUse = inUse
  BY DEF Pool
<1>3. ASSUME NEW e \in Sets
      PROVE  Cardinality({k \in DOMAIN freeSets : freeSets[k] = e}) + Cardinality({k \in DOMAIN draining : draining[k] = e})
             + Cardinality({s \in EffectSources : effectsOf[s] = e}) = 1
  <2> DEFINE F == Cardinality({k \in DOMAIN freeSets : freeSets[k] = e})
             D == Cardinality({k \in DOMAIN draining : draining[k] = e})
             H == Cardinality({s \in EffectSources : effectsOf[s] = e})
             Held == {effectsOf[s] : s \in EffectSources}
  <2>1. F = IF e \in At(freeSets) THEN 1 ELSE 0
    BY <1>1, <1>2, Count DEF Placed
  <2>2. D = IF e \in At(draining) THEN 1 ELSE 0
    BY <1>1, <1>2, Count DEF Placed
  <2>3. H = IF e \in Held THEN 1 ELSE 0
    <3>1. CASE e \in Held
      <4>1. PICK s \in EffectSources : effectsOf[s] = e
        BY <3>1
      <4>2. e # NoSet
        BY <1>1, SetNumbers
      <4>3. {t \in EffectSources : effectsOf[t] = e} = {s}
        BY <4>1, <4>2, <1>1 DEF Placed
      <4> QED
        BY <3>1, <4>3, FS_Singleton
    <3>2. CASE e \notin Held
      <4>1. {t \in EffectSources : effectsOf[t] = e} = {}
        BY <3>2
      <4> QED
        BY <3>2, <4>1, FS_EmptySet
    <3> QED
      BY <3>1, <3>2
  <2>4. e \in At(freeSets) \/ e \in At(draining) \/ e \in Held
    BY <1>1, <1>2 DEF Placed
  <2>5. ~(e \in At(freeSets) /\ e \in At(draining)) /\ ~(e \in At(freeSets) /\ e \in Held) /\ ~(e \in At(draining) /\ e \in Held)
    BY <1>1, <1>2 DEF Placed
  <2> HIDE DEF F, D, H, Held
  <2>6. F + D + H = 1
    BY <2>1, <2>2, <2>3, <2>4, <2>5
  <2> QED
    BY <2>6 DEF F, D, H
<1>4. \A s \in EffectSources : effectsOf[s] # NoSet => isLive[s] /\ inUse[effectsOf[s]]
  BY <1>1, <1>2 DEF PoolSafe, Placed
<1>5. \A k \in DOMAIN draining : draining[k] \in withReflection /\ applied[draining[k]]
  BY <1>1, <1>2 DEF Placed, At
<1> QED
  BY <1>3, <1>4, <1>5 DEF PoolInv, PoolSafe

\* HRTFRenderer's effect sets, for any number of sets, slots and streams: every set is
\* free, ringing out or held by one source that renders, never two of them and never
\* none, through fades, cut tails, pools cut short and the end of a run.
THEOREM EffectSafety == EffectSpec => []PoolInv
  BY EffectStart, EffectStep, PoolSafeIsEnough, PTL DEF EffectSpec

-----------------------------------------------------------------------------
(* The plan of a source's mix                                                *)

\* What RenderSource plans of an order.
PlanOf ==
  [flags |-> DirectFlags(order), occlusion |-> Shaped(order).occlusion, leak |-> Shaped(order).leak,
   room |-> RoomSend(order), reflections |-> RenderReflections(order), pathing |-> Pathing(order)]
PlanSafe == order \in Orders /\ plan \in {NoPlan, PlanOf}

LEMMA PlanStep == PlanSafe /\ [PlanNext]_planVars => PlanSafe'
  BY DEF PlanSafe, PlanNext, RenderSource, planVars, PlanOf, NoPlan

LEMMA Quotient == ASSUME NEW a \in Nat, NEW b \in Nat, NEW c \in Nat \ {0} PROVE (a * b) \div c \in Nat
<1>1. a * b \in Nat
  OBVIOUS
<1> DEFINE n == a * b
<1> HIDE DEF n
<1>2. n \in Nat => n \div c \in Nat
  OBVIOUS
<1> QED
  BY <1>1, <1>2 DEF n

\* The knee of the occlusion is never negative.
LEMMA ShapedType == ASSUME NEW o \in Orders PROVE ShapedVisibility(o) \in Nat
<1>1. o.visible \in 0 .. Full /\ o.physical \in BOOLEAN /\ Full \in Nat
      /\ ZeroVisibility \in Nat /\ FullVisibility \in Nat /\ ZeroVisibility < FullVisibility
  BY PlanAssumption DEF Orders
<1>2. CASE o.physical \/ o.visible >= FullVisibility \/ o.visible <= ZeroVisibility
  BY <1>1, <1>2 DEF ShapedVisibility
<1>3. CASE ~(o.physical \/ o.visible >= FullVisibility \/ o.visible <= ZeroVisibility)
  <2> DEFINE a == o.visible - ZeroVisibility
             c == FullVisibility - ZeroVisibility
  <2>1. a \in Nat /\ c \in Nat \ {0}
    BY <1>1, <1>3
  <2>2. ShapedVisibility(o) = (a * Full) \div c
    BY <1>1, <1>3 DEF ShapedVisibility
  <2> HIDE DEF a, c
  <2> QED
    BY <2>1, <2>2, <1>1, Quotient
<1> QED
  BY <1>2, <1>3

\* Direct sound and paths share the source; the floor is kept.
LEMMA PlanSafeIsEnough == PlanSafe => PlanInv
<1> SUFFICES ASSUME order \in Orders, plan = PlanOf, HaveOutputs(order), ~order.listenerRelative
             PROVE  /\ order.physical => DirectGain + plan.pathing \in {DirectGain, Full}
                    /\ order.physical /\ order.pathingOn /\ "pathing" \in order.ready => DirectGain + plan.pathing = Full
                    /\ ~order.physical => DirectGain >= MinGain \/ plan.leak = MinGain
  BY DEF PlanSafe, PlanInv
<1> DEFINE o == order
           flags == DirectFlags(o)
<1>1. /\ o.visible \in 0 .. Full /\ o.physical \in BOOLEAN /\ o.occlusionOn \in BOOLEAN /\ o.occludes \in BOOLEAN
      /\ Full \in Nat \ {0} /\ MinGain \in 0 .. Full
  BY PlanAssumption DEF Orders
<1>2. [o EXCEPT !.listenerRelative = FALSE] = o
  BY DEF Orders
<1>3. Shaped(o) = ShapeOcclusion(o, flags)
  BY <1>2 DEF Shaped
<1>4. plan.flags = flags /\ plan.occlusion = Shaped(o).occlusion /\ plan.leak = Shaped(o).leak /\ plan.pathing = Pathing(o)
  BY DEF PlanOf
<1>5. "occlusion" \in flags <=> o.occlusionOn /\ o.occludes
  BY DEF DirectFlags
<1> HIDE DEF flags
<1>6. CASE o.physical
  <2>1. Shaped(o).occlusion = o.visible
    BY <1>3, <1>6 DEF ShapeOcclusion
  <2>2. DirectGain = IF o.occlusionOn /\ o.occludes THEN o.visible ELSE Full
    BY <1>4, <1>5, <2>1 DEF DirectGain
  <2>3. Pathing(o) \in {0, Full - DirectGain} /\ (o.pathingOn /\ "pathing" \in o.ready => Pathing(o) = Full - DirectGain)
    BY <1>6, <2>2 DEF Pathing, PathWeight
  <2> QED
    BY <1>1, <1>4, <1>6, <2>2, <2>3
<1>7. CASE ~o.physical
  <2>1. CASE "occlusion" \notin flags
    BY <1>1, <1>4, <1>7, <2>1 DEF DirectGain
  <2>2. CASE "occlusion" \in flags /\ "transmission" \in flags
    BY <1>3, <1>4, <1>7, <2>2 DEF ShapeOcclusion
  <2>3. CASE "occlusion" \in flags /\ "transmission" \notin flags
    <3> DEFINE v == ShapedVisibility(o)
    <3>1. DirectGain = MinGain + ((Full - MinGain) * v) \div Full
      BY <1>3, <1>4, <1>7, <2>3 DEF ShapeOcclusion, DirectGain
    <3>2. v \in Nat /\ Full - MinGain \in Nat
      BY <1>1, ShapedType
    <3> HIDE DEF v
    <3>3. ((Full - MinGain) * v) \div Full \in Nat
      BY <1>1, <3>2, Quotient
    <3> QED
      BY <1>1, <1>7, <3>1, <3>3
  <2> QED
    BY <2>1, <2>2, <2>3
<1> QED
  BY <1>1, <1>6, <1>7

-----------------------------------------------------------------------------
(* Rendering as a whole                                                      *)

\* What holds of the part that moves.
RenderSafe ==
  /\ subject \in {"slots", "effects", "plan"} /\ PoolSafe
  /\ subject = "slots" => TypeOK /\ SlotInv
  /\ subject = "plan" => PlanSafe

LEMMA RenderStart == MCInit /\ (subject = "slots" => SoundsAreTold) => RenderSafe
<1> SUFFICES ASSUME MCInit, subject = "slots" => SoundsAreTold PROVE RenderSafe
  OBVIOUS
<1>1. PoolSafe
  BY EffectStart DEF MCInit
<1>2. subject = "slots" => TypeOK /\ SlotInv
  BY SlotInit DEF MCInit
<1>3. subject = "plan" => PlanSafe
  BY DEF MCInit, PlanInit, PlanSafe
<1> QED
  BY <1>1, <1>2, <1>3 DEF MCInit, RenderSafe

LEMMA RenderStep == RenderSafe /\ [MCNext]_<<vars, effectVars, planVars, subject>> => RenderSafe'
<1> SUFFICES ASSUME RenderSafe, [MCNext]_<<vars, effectVars, planVars, subject>> PROVE RenderSafe'
  OBVIOUS
<1>1. subject' = subject
  BY DEF MCNext
<1>2. [EffectNext]_effectVars
  BY DEF MCNext
<1>3. subject = "slots" => [Next]_vars
  BY DEF MCNext
<1>4. subject = "plan" => [PlanNext]_planVars
  BY DEF MCNext
<1> QED
  BY <1>1, <1>2, <1>3, <1>4, EffectStep, SlotStep, PlanStep DEF RenderSafe

\* The slots' variables have their types, no effect set of a source is lost or shared,
\* and no share of its sound is heard twice or not at all, where sounds are told by
\* guid and list or the game thread mixes.
THEOREM RenderSafety == MCSpec /\ (subject = "slots" => SoundsAreTold) => []RenderInv
<1>1. RenderSafe => RenderInv
  BY PoolSafeIsEnough, PlanSafeIsEnough DEF RenderSafe, RenderInv
<1> QED
  BY <1>1, RenderStart, RenderStep, PTL DEF MCSpec
=============================================================================
