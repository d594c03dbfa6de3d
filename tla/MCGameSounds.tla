----------------------------- MODULE MCGameSounds -----------------------------
(***************************************************************************)
(* The sounds that others make, for TLC: those of the game, which scripts  *)
(* override, and the streams of BASS, whose one handle is used again.      *)
(* `subject` says which of the two moves in a behaviour.                   *)
(***************************************************************************)
EXTENDS SoundOverrides, BassBridge

MCSoundNames == {<<"a", "a", "b">>}
MCPatterns == {<<"*">>, <<"*", "a", "b">>}
MCTables == {[gain |-> <<9>>], [spatialize |-> <<FALSE>>, gain |-> <<>>]}

-----------------------------------------------------------------------------
VARIABLE subject

MCInit == subject \in {"overrides", "bass"} /\ OverridesInit /\ BridgeInit

MCNext ==
  /\ UNCHANGED subject
  /\ \/ subject = "overrides" /\ OverridesNext /\ UNCHANGED bridgeVars
     \/ subject = "bass" /\ BridgeNext /\ UNCHANGED overrideVars

MCSpec == MCInit /\ [][MCNext]_<<subject, overrideVars, bridgeVars>>

\* States are told apart by what may have moved.
MCView == <<subject, IF subject = "bass" THEN <<bridgeVars>> ELSE <<overrideVars>>>>
=============================================================================
