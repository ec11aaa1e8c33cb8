----------------------------- MODULE MCSelfUpdate -----------------------------
(* The dialog and the terminal interface, a package of two chunks.           *)
EXTENDS SelfUpdate

CONSTANTS gui, tui
MCClients == {gui, tui}
MCDialogs == {gui}
===============================================================================
