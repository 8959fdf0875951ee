------------------------- MODULE MCBranchOperations -------------------------
(***************************************************************************)
(* Requests for model checking the branch operation coordinator: one       *)
(* branch, two build profiles, and one request of each class the           *)
(* coordinator treats differently.  Branches never conflict with each      *)
(* other, so one of them shows all there is.                               *)
(***************************************************************************)
EXTENDS BranchOperations

CONSTANTS main, api, web

Req(kind, trigger, profile, replayable, continueWith) ==
    [branch |-> main, profile |-> profile, kind |-> kind, trigger |-> trigger,
     replayable |-> replayable, continueWith |-> continueWith]

Plain(kind, trigger) == Req(kind, trigger, NoProfile, TRUE, "none")

MCRequests ==
    { Plain("deploy", "manual"),
      Req("deploy", "manual", NoProfile, FALSE, "none"),
      Plain("deploy", "webhook"),
      Req("deploy-profile", "manual", api, TRUE, "none"),
      Req("deploy-profile", "manual", web, TRUE, "none"),
      Req("force-rebuild", "manual", api, TRUE, "deploy-profile"),
      Req("force-rebuild", "manual", api, TRUE, "deploy"),
      Req("auto-restart", "system", web, TRUE, "none"),
      Plain("auto-restart", "scheduler"),
      Plain("stop", "manual"),
      Plain("stop", "webhook"),
      Plain("delete", "manual") }

\* Only these for the run StopThenDeploy: users deploy and stop, nobody deletes.
MCStopRequests ==
    { Plain("deploy", "manual"),
      Req("deploy-profile", "manual", api, TRUE, "none"),
      Plain("stop", "manual") }

=============================================================================
