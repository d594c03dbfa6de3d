----------------------------- MODULE MCRendering -----------------------------
(***************************************************************************)
(* What is rendered and with what, in one instance for TLC: the capture    *)
(* slots' sounds, the effect sets and the plan of a source's mix, each     *)
(* alone.  `subject` says which of them moves in a behaviour.              *)
(***************************************************************************)
EXTENDS SlotGenerations, EffectPool, RenderPlan

CONSTANTS c1, c2

Run(channels, guid, async, list) ==
  [channels |-> channels, guidKnown |-> guid, asyncMixer |-> async, listComplete |-> list]

\* A worker mixes one channel whose guids are known; or the game thread mixes two
\* channels whose guids are not, while the sound list misses sounds.
MCModes == {Run({c1}, TRUE, TRUE, TRUE), Run({c1, c2}, FALSE, FALSE, FALSE)}

VARIABLE subject

\* What does not move starts in one state; there is no order without a plan.
MCInit ==
  /\ subject \in {"slots", "effects", "plan"}
  /\ subject # "slots" => mode = CHOOSE m \in Modes : TRUE
  /\ Init /\ EffectInit
  /\ IF subject = "plan" THEN PlanInit ELSE order = {} /\ plan = {}

\* Channels are alike: the first sound starts on c1.
MCNext ==
  /\ UNCHANGED subject
  /\ \/ /\ subject = "slots" /\ Next /\ (started = 0 => heard'[c2] = 0)
        /\ UNCHANGED <<effectVars, planVars>>
     \/ subject = "effects" /\ EffectNext /\ UNCHANGED <<vars, planVars>>
     \/ subject = "plan" /\ PlanNext /\ UNCHANGED <<vars, effectVars>>

MCSpec == MCInit /\ [][MCNext]_<<vars, effectVars, planVars, subject>>

-----------------------------------------------------------------------------
\* No effect set of a source is lost or shared (EffectPool), and no share of
\* its sound is heard twice or not at all (RenderPlan).  The slots' variables have
\* their types, here where two channels share the slot.
RenderInv ==
  /\ subject = "slots" /\ ~mode.guidKnown => TypeOK
  /\ subject = "effects" => PoolInv
  /\ subject = "plan" => PlanInv
=============================================================================
