----------------------------- MODULE MCRunSync -----------------------------
(***************************************************************************)
(* RunSync for TLC: an invocation of the timer and one of a person.        *)
(***************************************************************************)
EXTENDS RunSync

CONSTANTS timer, person

TimerAndPerson == {timer, person}
TimerOnly == {timer}
=============================================================================
