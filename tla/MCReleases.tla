----------------------------- MODULE MCReleases -----------------------------
(* One target, releases from the console, a janitor, a reaper. *)
EXTENDS Releases
=============================================================================
