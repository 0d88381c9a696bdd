------------------------------ MODULE MCEventBus ------------------------------
(* Values of EventBus's constants for TLC: types have separate subscriber  *)
(* lists, so one type, with a list of up to two entries, shows every       *)
(* interleaving of two deliveries of one event and of two events.          *)
EXTENDS EventBus

MCTypes == {"TICK_RECEIVED"}
MCNone == {}
=============================================================================
