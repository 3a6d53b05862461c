--------------------------- MODULE MCMediaListing ---------------------------
(***************************************************************************)
(* MediaListing for TLC; its constants are numbers and are given in the    *)
(* cfg files.                                                              *)
(***************************************************************************)
EXTENDS MediaListing
=============================================================================
