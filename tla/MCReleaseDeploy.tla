-------------------------- MODULE MCReleaseDeploy --------------------------
(* Two runtime links, one of them new with the release, and two migrations, *)
(* the second of which waits for its plan to be approved; two unit files.   *)
EXTENDS ReleaseDeploy

MCLinks == 1..2
MCAbsent == {2}
MCMigrations == <<"contract", "cleanup">>
MCNeedApproval == {"cleanup"}
MCUnits == {"web", "queue"}
============================================================================
