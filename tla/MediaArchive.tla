---------------------------- MODULE MediaArchive ----------------------------
(***************************************************************************)
(* What the sync program promises about a picture or a video, with no      *)
(* states, manifests, files or runs in sight: a shot is taken onto a       *)
(* camera, the host gets a whole copy of it, and a camera gives a shot up  *)
(* only after that.  The host never gives a copy up.                       *)
(***************************************************************************)

CONSTANT Shots          \* every picture and video that may ever be taken

VARIABLES onCamera,     \* the shots some camera's SD card holds
          onHost        \* the shots the host holds a whole copy of

archiveVars == <<onCamera, onHost>>

Init == onCamera = {} /\ onHost = {}

\* A camera takes a shot no device has yet.
Take(s) ==
    /\ s \notin onCamera \cup onHost
    /\ onCamera' = onCamera \cup {s}
    /\ UNCHANGED onHost

\* The host obtains a whole copy of a shot that is still on its camera.
Copy(s) ==
    /\ s \in onCamera
    /\ onHost' = onHost \cup {s}
    /\ UNCHANGED onCamera

\* A camera is wiped of shots, each of which the host already has.
Erase(S) ==
    /\ S \subseteq onCamera \cap onHost
    /\ onCamera' = onCamera \ S
    /\ UNCHANGED onHost

Next ==
    \/ \E s \in Shots : Take(s) \/ Copy(s)
    \/ \E S \in SUBSET Shots : Erase(S)

Spec == Init /\ [][Next]_archiveVars
=============================================================================
