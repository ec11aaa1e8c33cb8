------------------------------ MODULE MCOptiUndo ------------------------------
(* Two files, one of which may replace a file of the game's own, and two     *)
(* backups of the same game.                                                 *)
EXTENDS OptiUndo

CONSTANTS b1, b2
MCBackups == {b1, b2}
MCReleases == {"v1"}
===============================================================================
