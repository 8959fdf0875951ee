----------------------------- MODULE MCRunStream -----------------------------
(* One run, its handler, the reaper, a restart and a client that follows it. *)
EXTENDS RunStream
=============================================================================
