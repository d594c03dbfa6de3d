---------------------------- MODULE MCAudioThread ----------------------------
(***************************************************************************)
(* The clock and the device of the audio thread and the handles it renders *)
(* with, each alone, in one instance for TLC: `subject` says which of them *)
(* moves in a behaviour.  Symmetry would make the liveness checks unsound, *)
(* so there is none.                                                       *)
(***************************************************************************)
EXTENDS AudioClock, OutputDevice, HandleLifetime

CONSTANTS s1, s2, h1, h2

Format(tag, sub, bits, channels) ==
  [tag |-> tag, sub |-> sub, bits |-> bits, channels |-> channels]

MCFormatOf ==
  [d1 |-> Format("pcm", "none", 32, 1), d2 |-> Format("extensible", "float", 32, 3),
   d3 |-> Format("pcm", "none", 8, 2)]

VARIABLE subject

\* What does not move starts in one state.  The lead is a matter of the native
\* path alone; every device comes to be the default one in time.
MCInit ==
  /\ subject \in {"clock", "device", "handle"}
  /\ (subject = "clock" /\ outputPath = "native") \/ fixedLead = FALSE
  /\ subject # "clock" => outputPath = "native"
  /\ subject # "device" => backend = "null"
  /\ defaultDevice = "d1"
  /\ ClockInit /\ DeviceInit /\ Init

MCNext ==
  /\ UNCHANGED subject
  /\ \/ subject = "clock" /\ ClockNext /\ UNCHANGED <<deviceVars, vars>>
     \/ subject = "device" /\ DeviceNext /\ UNCHANGED <<clockVars, vars>>
     \/ subject = "handle" /\ Next /\ UNCHANGED <<clockVars, deviceVars>>

\* ClockFairness, DeviceFairness and Fairness, each for the component that moves.
MCFairness ==
  /\ WF_clockVars(subject = "clock" /\ Audio) /\ WF_clockVars(subject = "clock" /\ Device)
  /\ WF_deviceVars(subject = "device" /\ Thread) /\ WF_deviceVars(subject = "device" /\ StopEnds)
  /\ WF_deviceVars(subject = "device" /\ (Accepted \/ StartGivesUp))
  /\ WF_vars(subject = "handle" /\ BeginFrame) /\ SF_vars(subject = "handle" /\ EndFrame)
  /\ WF_vars(subject = "handle" /\ (EndLoad \/ GetOutputs))
  /\ WF_vars(subject = "handle" /\ EndStore) /\ WF_vars(subject = "handle" /\ NoteFrame)
  /\ WF_vars(subject = "handle" /\ Defer) /\ SF_vars(subject = "handle" /\ ReadCounter)
  /\ WF_vars(subject = "handle" /\ ProcessDeferredReleases)
  /\ SF_vars(subject = "handle" /\ BeginStop) /\ WF_vars(subject = "handle" /\ DestroyAllSources)
  /\ WF_vars(subject = "handle" /\ spc = "stopping" /\ \E s \in Sources : DestroySource(s))

MCSpec ==
  /\ MCInit /\ [][MCNext]_<<clockVars, deviceVars, vars, subject>>
  /\ MCFairness
=============================================================================
