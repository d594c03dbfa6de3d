------------------------------ MODULE RenderPlan ------------------------------
(***************************************************************************)
(* What HRTFRenderer::RenderSource makes audible of a source that has its  *)
(* effects: the direct sound, the room send, reflections and pathing, by   *)
(* the configuration, the parameters of the source and what the simulation *)
(* has ready; with the shaping of occlusion (OcclusionShaping.h).  Gains   *)
(* and visibilities are in units of 1/Full.                                *)
(***************************************************************************)
EXTENDS Integers

CONSTANTS
  Full,       \* 1.0
  ZeroVisibility, FullVisibility, MinGain   \* occlusionZeroVisibility, occlusionFullVisibility, occlusionMinGain

ASSUME PlanAssumption ==
  /\ Full \in Nat \ {0} /\ MinGain \in 0 .. Full
  /\ ZeroVisibility \in 0 .. Full - 1 /\ FullVisibility \in ZeroVisibility + 1 .. Full

VARIABLES
  order,   \* configuration, parameters and outputs of the source to render
  plan     \* what is rendered, NoPlan before

planVars == <<order, plan>>

\* RuntimeConfig, SourceParams and IPLSimulationOutputs as far as they decide.
Orders == [physical : BOOLEAN, occlusionOn : BOOLEAN, transmissionOn : BOOLEAN, reflectionsOn : BOOLEAN,
           pathingOn : BOOLEAN, occludes : BOOLEAN, transmits : BOOLEAN, attenuates : BOOLEAN, listenerRelative : BOOLEAN,
           roomAlways : BOOLEAN, ready : {{}, {"direct"}, {"direct", "reflections", "pathing"}}, visible : 0 .. Full]
NoPlan == [flags |-> {}, occlusion |-> Full, leak |-> 0, room |-> FALSE, reflections |-> FALSE, pathing |-> 0]

PlanInit == order \in Orders /\ plan = NoPlan

\* ShapeOcclusionVisibility: the knee.
ShapedVisibility(o) ==
  CASE o.physical -> o.visible
    [] ~o.physical /\ o.visible >= FullVisibility -> Full
    [] ~o.physical /\ o.visible <= ZeroVisibility -> 0
    [] OTHER -> ((o.visible - ZeroVisibility) * Full) \div (FullVisibility - ZeroVisibility)

\* ShapeOcclusion: [occlusion, leak], the leak being the floor put under the
\* low band of the transmission.
ShapeOcclusion(o, flags) ==
  CASE "occlusion" \notin flags \/ o.physical -> [occlusion |-> o.visible, leak |-> 0]
    [] "occlusion" \in flags /\ ~o.physical /\ "transmission" \in flags -> [occlusion |-> ShapedVisibility(o), leak |-> MinGain]
    [] OTHER -> [occlusion |-> MinGain + ((Full - MinGain) * ShapedVisibility(o)) \div Full, leak |-> 0]

HaveOutputs(o) == "direct" \in o.ready

\* Which values the direct effect applies.
DirectFlags(o) ==
  IF o.listenerRelative THEN {}
  ELSE IF ~HaveOutputs(o) THEN {"distance"}
  ELSE {"air", "directivity"} \union (IF o.attenuates THEN {"distance"} ELSE {})
       \union (IF o.occlusionOn /\ o.occludes
               THEN {"occlusion"} \union (IF o.transmissionOn /\ o.transmits THEN {"transmission"} ELSE {}) ELSE {})

\* The shaping goes by the flags before a source of the listener loses them.
Shaped(o) ==
  IF HaveOutputs(o) THEN ShapeOcclusion(o, DirectFlags([o EXCEPT !.listenerRelative = FALSE]))
  ELSE [occlusion |-> Full, leak |-> 0]

RenderReflections(o) == HaveOutputs(o) /\ o.reflectionsOn /\ "reflections" \in o.ready
RoomSend(o) == o.roomAlways \/ (~o.physical /\ ~RenderReflections(o))

\* Mutant: paths are weighed by the visibility even where it occludes nothing.
PathWeightOfTheRay(o) == IF o.physical THEN Full - o.visible ELSE Full
\* The share of the sound that comes by paths.
PathWeight(o) ==
  IF o.physical THEN Full - (IF o.occlusionOn /\ o.occludes THEN o.visible ELSE Full) ELSE Full
Pathing(o) == IF HaveOutputs(o) /\ o.pathingOn /\ "pathing" \in o.ready THEN PathWeight(o) ELSE 0

RenderSource ==
  /\ plan = NoPlan
  /\ plan' = [flags |-> DirectFlags(order), occlusion |-> Shaped(order).occlusion, leak |-> Shaped(order).leak,
              room |-> RoomSend(order), reflections |-> RenderReflections(order), pathing |-> Pathing(order)]
  /\ UNCHANGED order

PlanNext == RenderSource

-----------------------------------------------------------------------------
(* Properties                                                              *)

DirectGain == IF "occlusion" \in plan.flags THEN plan.occlusion ELSE Full

\* With physical acoustics the direct sound and the paths share the source:
\* what is occluded, and nothing else, comes by paths, so a source in plain view
\* is not heard twice and one behind a wall not at all.  Without them occlusion
\* never takes a source below the floor: as a gain, or as the leak of its
\* transmission.
PlanInv ==
  plan # NoPlan /\ HaveOutputs(order) /\ ~order.listenerRelative =>
    /\ order.physical => DirectGain + plan.pathing \in {DirectGain, Full}
    /\ order.physical /\ order.pathingOn /\ "pathing" \in order.ready => DirectGain + plan.pathing = Full
    /\ ~order.physical => DirectGain >= MinGain \/ plan.leak = MinGain
=============================================================================
