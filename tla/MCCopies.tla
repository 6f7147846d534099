------------------------------- MODULE MCCopies -------------------------------
(***************************************************************************)
(* Model values for what is copied between a board and a host: the match   *)
(* log, to a phone (LogSync), and the map tiles, from a Mac (TileStore).   *)
(* They share no variable; a behaviour is of the part `part` names, so     *)
(* that a run checks each of them whole.                                   *)
(***************************************************************************)
EXTENDS LogSync, TileStore

\* Contacts are numbers, in the order they end.
MCContact == 1 .. MaxTotal

\* Three tiles of one or two blocks, and what a board may have of them.
SomeChunks == <<1, 2, 1>>
SomeHeld == {{}, {3}, {2, 3}, {1, 3}}
SomeCircles == <<{1, 2}, {1}, {}>>

VARIABLE part

CopiesInit ==
  /\ Init /\ TileInit /\ part \in {"log", "tiles"}
  /\ part = "log" => files = <<>>

CopiesNext ==
  /\ \/ part = "log" /\ Next /\ UNCHANGED tileVars
     \/ part = "tiles" /\ TileNext /\ UNCHANGED vars
  /\ UNCHANGED part

CopiesSpec == CopiesInit /\ [][CopiesNext]_<<vars, tileVars, part>>

\* The types of both parts.
CopiesTypeOK == TypeOK /\ TileTypeOK
=============================================================================
