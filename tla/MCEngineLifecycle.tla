------------------------- MODULE MCEngineLifecycle -------------------------
(***************************************************************************)
(* Small instance of EngineLifecycle: one mixer thread, two classes of     *)
(* engine device.                                                          *)
(***************************************************************************)
EXTENDS EngineLifecycle

=============================================================================
