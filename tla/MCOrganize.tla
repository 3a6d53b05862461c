----------------------------- MODULE MCOrganize -----------------------------
(***************************************************************************)
(* Organize for TLC: five items of four contents, three of them taken in   *)
(* one second, two of which have the same bytes, and two whose own clocks  *)
(* coincide, on one file system or across two.                             *)
(***************************************************************************)
EXTENDS Organize

OneOrTwo == BOOLEAN
FiveItems == 1..5
FourContents == {"a", "b", "c", "d"}
FourNames == 11..14

\* Item 5 is item 1 under another key.
SomeContent == <<"a", "b", "c", "d", "a">>
\* Items 1, 2 and 5 were taken in one second.
SomeMediaNames == <<11, 11, 12, 13, 11>>
\* By their own clocks items 3 and 4 coincide.
SomeOwnNames == <<11, 11, 14, 14, 11>>
=============================================================================
