------------------------------- MODULE BrowserMC -------------------------------
(***************************************************************************)
(* Browser on a server with two sources, one of them with a directory.     *)
(***************************************************************************)
EXTENDS Browser

CONSTANTS movies, shows, season

Tree == [d \in {Root, movies, shows, season} |->
  IF d = Root THEN {movies, shows} ELSE IF d = shows THEN {season} ELSE {}]
=============================================================================
