-------------------------- MODULE MCSelfUpdateDrain --------------------------
(* One deployment, the reaper, and self-updates that restart the process. *)
EXTENDS SelfUpdateDrain
=============================================================================
