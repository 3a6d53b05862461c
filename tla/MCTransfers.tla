---------------------------- MODULE MCTransfers ----------------------------
(***************************************************************************)
(* A video and the commands around it for TLC, side by side: a behaviour   *)
(* is one of VideoTransfer or of ControlChannel, as part says, and leaves  *)
(* the other one alone.                                                    *)
(*                                                                         *)
(* Numbers wrap at 8 instead of 2^16, with the code's proportions: a video *)
(* is shorter than Span, Span is shorter than half of SeqMod, AckEvery is  *)
(* smaller than Window.                                                    *)
(***************************************************************************)
EXTENDS VideoTransfer, ControlChannel

VARIABLE part

\* A picture of one chunk, one of two, and sound.
BeginsWith == <<1, 2, 2, 4>>
EndsWith == <<1, 3, 3, 4>>
\* Left-over numbers: just before or behind the video, on the chunk with which the
\* second picture begins and on the one with which it goes on, and far behind.
SomeStale == {5, 2, 3}
\* In the middle of the range, and wrapping after the second chunk.
WrapOrNot == {1, 6}

TransfersInit ==
    /\ part \in {"video", "control"}
    /\ Init /\ ControlInit
    /\ part # "video" => start = 1 /\ totalKnown /\ strict /\ packets = {}

TransfersNext ==
    /\ UNCHANGED part
    /\ \/ part = "video" /\ Next /\ UNCHANGED controlVars
       \/ part = "control" /\ ControlNext /\ UNCHANGED vars

TransfersSpec == TransfersInit /\ [][TransfersNext]_<<vars, controlVars, part>>

\* The states of both have their types.
TypesOK == TypeOK /\ ControlTypeOK
=============================================================================
