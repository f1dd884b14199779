--------------------------- MODULE MCEventConsumer ---------------------------
(* Small instances of EventConsumer for TLC; the cfg files give the constants. *)
EXTENDS EventConsumer, TLC
=============================================================================
