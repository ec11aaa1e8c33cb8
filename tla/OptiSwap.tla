------------------------------- MODULE OptiSwap -------------------------------
(***************************************************************************)
(* What opticlient_undo.py promises (its docstring, lines 16-32): taking   *)
(* OptiScaler out of a game and putting it back are exchanges.  Either the *)
(* whole exchange happens or nothing does, and no step of Control Center   *)
(* ever destroys the last copy of a file.  OptiUndo implements it.         *)
(***************************************************************************)
EXTENDS Integers

CONSTANTS Files, Backups, Releases

Own == {"own", "update"}
Nothing == "none"
Contents == Releases \union Own \union {Nothing}

VARIABLES game,   \* what lies in the game folder at each path
          rec,    \* the client's record: its release, the originals it replaced
          vault,  \* what each dated backup folder holds
          hurt    \* a crash, or a failure while undoing a failure, happened

vars == <<game, rec, vault, hurt>>

NoFiles == [f \in Files |-> Nothing]
NoRec == [rel |-> Nothing, orig |-> NoFiles]
Empty == [files |-> NoFiles, rec |-> NoRec]

\* Every content that exists somewhere for path f.
Copies(f) == ({game[f], rec.orig[f]}
                \union {vault[b].files[f] : b \in Backups}
                \union {vault[b].rec.orig[f] : b \in Backups}) \ {Nothing}

Init == /\ game \in [Files -> {"own", Nothing}]
        /\ rec = NoRec
        /\ vault = [b \in Backups |-> Empty]
        /\ hurt = FALSE

\* The client's files leave the game, its own files are back, and the backup
\* holds what left together with the client's record.
TakeOut(b) ==
  /\ rec # NoRec
  /\ vault[b] = Empty
  /\ \A f \in Files : game[f] \in {rec.rel, rec.orig[f]}
  /\ vault' = [vault EXCEPT ![b] =
       [files |-> [f \in Files |-> IF game[f] = rec.rel THEN rec.rel ELSE Nothing],
        rec |-> rec]]
  /\ game' = rec.orig
  /\ rec' = NoRec
  /\ UNCHANGED hurt

\* The reverse, allowed only while the game is as TakeOut left it.
PutBack(b) ==
  /\ rec = NoRec
  /\ vault[b].rec # NoRec
  /\ vault[b].files # NoFiles
  /\ game = vault[b].rec.orig
  /\ game' = [f \in Files |-> IF vault[b].files[f] = Nothing THEN game[f]
                              ELSE vault[b].files[f]]
  /\ rec' = vault[b].rec
  /\ vault' = [vault EXCEPT ![b] = Empty]
  /\ UNCHANGED hurt

\* After a crash or a double failure the exchange may stop half way, but
\* every content that existed for a path still exists for it.
Disturb == /\ hurt'
           /\ \A f \in Files : Copies(f) \subseteq Copies(f)'

(* The client and the game's updater, which Control Center does not drive. *)
ClientInstall(r) ==
  /\ rec = NoRec
  /\ rec' = [rel |-> r, orig |-> game]
  /\ game' = [f \in Files |-> r]
  /\ UNCHANGED <<vault, hurt>>

ClientRestore ==
  /\ rec # NoRec
  /\ \A f \in Files : game[f] = rec.rel
  /\ game' = rec.orig
  /\ rec' = NoRec
  /\ UNCHANGED <<vault, hurt>>

Edit(f) == /\ \E c \in {"update", Nothing} : game' = [game EXCEPT ![f] = c]
           /\ UNCHANGED <<rec, vault, hurt>>

Next == \/ \E b \in Backups : TakeOut(b) \/ PutBack(b)
        \/ Disturb
        \/ \E r \in Releases : ClientInstall(r)
        \/ ClientRestore
        \/ \E f \in Files : Edit(f)

Spec == Init /\ [][Next]_vars
===============================================================================
