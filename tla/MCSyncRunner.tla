---------------------------- MODULE MCSyncRunner ----------------------------
(***************************************************************************)
(* Small instances of SyncRunner for TLC.  A shot is [cam, key, n]: n      *)
(* tells apart the shots that share a name.                                *)
(***************************************************************************)
EXTENDS SyncRunner

Shot(c, k, n) == [cam |-> c, key |-> k, n |-> n]

NoKeys == {}
NoCameras == {}
OneKey == {1}
TwoKeys == {1, 2}
SecondKey == {2}
SecondCamera == {2}

OneShot == {Shot(1, 1, 0)}
\* One camera with two keys.
OneCameraShots == {Shot(1, 1, 0), Shot(1, 2, 0)}
\* The first camera takes two shots, the second camera one.
TwoCameraShots == {Shot(1, 1, 0), Shot(1, 2, 0), Shot(2, 1, 0)}

SyncOnly == {"sync"}
SyncOrStage == {"sync", "stage_only"}
SyncOrDry == {"sync", "dry_run"}
AllModes == {"sync", "dry_run", "stage_only"}
=============================================================================
