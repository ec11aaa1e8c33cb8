------------------------------- MODULE OptiUndo -------------------------------
(***************************************************************************)
(* Control Center takes OptiScaler Client's files out of one game, keeping *)
(* them, and puts them back: opticlient_undo.py.  One operation at a time  *)
(* holds the client's lock; each of its file moves and manifest writes is  *)
(* a step, may fail, and may be the last before a crash.  The end of Put   *)
(* back (unlinking the manifest) runs after the lock is released.          *)
(*                                                                         *)
(* Files are numbered in the order of the receipt.  A rename is atomic and *)
(* durable in order; between drives it is a copy followed by an unlink.    *)
(***************************************************************************)
EXTENDS Integers, FiniteSets

CONSTANTS NumFiles, Backups, Releases,
          ClientWaits,  \* the client is left alone while a removal is cut short
          MaxInstalls, MaxEdits, MaxFaults, MaxCrashes    \* bounds of the model

ASSUME SizesAssumption ==
  /\ NumFiles \in Nat \ {0}
  /\ {MaxInstalls, MaxEdits, MaxFaults, MaxCrashes} \subseteq Nat
  /\ ClientWaits \in BOOLEAN
  /\ Releases \intersect {"own", "update", "none", "unknown"} = {}

Files == 1..NumFiles

VARIABLES
  game,     \* the game folder: what lies at each path
  rec,      \* the client's record of the game (receipt and originals)
  saved,    \* <backup>/files
  brec,     \* <backup>/client-record
  man,      \* <backup>/manifest.json
  op,       \* the operation holding the client's lock
  cleanup,  \* backups a finished Put back has still to delete
  cross,    \* the game is on another drive than the backups
  before,   \* history: the game when the backup's removal began
  hurt,     \* history: an operation was cut short: by a crash, a failing last
            \* manifest write, or a failure while undoing a failure
  spent     \* how much of each bound is used

disk == <<game, rec, saved, brec, man>>
vars == <<game, rec, saved, brec, man, op, cleanup, cross, before, hurt, spent>>

Nothing == "none"
Contents == Releases \union {"own", "update", Nothing}
NoFiles == [f \in Files |-> Nothing]
NoRec == [rel |-> Nothing, orig |-> NoFiles]
NoMan == [state |-> Nothing, rel |-> Nothing, orig |-> NoFiles, moved |-> {}]
Idle == [pc |-> "idle", b |-> Nothing, todo |-> {}, moved |-> {}, left |-> {}]

First(S) == CHOOSE f \in S : \A g \in S : f <= g
Last(S) == CHOOSE f \in S : \A g \in S : g <= f

Recs == [rel : Releases \union {Nothing}, orig : [Files -> Contents]]

TypeOK ==
  /\ game \in [Files -> Contents]
  /\ rec \in Recs
  /\ saved \in [Backups -> [Files -> Releases \union {Nothing}]]
  /\ brec \in [Backups -> Recs]
  /\ man \in [Backups -> [state : {Nothing, "moving", "complete"},
                          rel : Releases \union {Nothing},
                          orig : [Files -> Contents], moved : SUBSET Files]]
  /\ op \in [pc : {"idle", "take", "taken", "mark", "copy", "record", "complete",
                   "undo", "undone", "put", "placed", "roll", "rolled", "recopy"},
             b : Backups \union {Nothing}, todo : SUBSET Files,
             moved : SUBSET Files, left : SUBSET Files]
  /\ cleanup \in SUBSET Backups
  /\ cross \in BOOLEAN /\ hurt \in BOOLEAN
  /\ before \in [Backups -> [Files -> Contents \union {"unknown"}]]
  /\ spent \in [installs : 0..MaxInstalls, edits : 0..MaxEdits,
                faults : 0..MaxFaults, crashes : 0..MaxCrashes]

Init ==
  /\ game \in [Files -> {"own", Nothing}]
  /\ rec = NoRec
  /\ saved = [b \in Backups |-> NoFiles]
  /\ brec = [b \in Backups |-> NoRec]
  /\ man = [b \in Backups |-> NoMan]
  /\ op = Idle /\ cleanup = {}
  /\ cross \in BOOLEAN
  /\ before = [b \in Backups |-> NoFiles]
  /\ hurt = FALSE
  /\ spent = [installs |-> 0, edits |-> 0, faults |-> 0, crashes |-> 0]

-------------------------------------------------------------------------------
(* What a folder of the backups root is, as _backup and _interrupted see it. *)

Interrupted(b) ==
  /\ ~(brec[b] # NoRec /\ rec # NoRec)
  /\ \A f \in man[b].moved : /\ saved[b][f] = man[b].rel
                             /\ game[f] \in {Nothing, man[b].orig[f]}

BackupState(b) ==
  IF man[b].state = "moving"
  THEN IF Interrupted(b) THEN "interrupted" ELSE "incomplete"
  ELSE IF man[b].moved = {} THEN "record-only"
  ELSE IF rec # NoRec THEN "client-record"
  ELSE IF \E f \in man[b].moved : saved[b][f] # man[b].rel THEN "backup-broken"
  ELSE IF game # man[b].orig THEN "game-changed"
  ELSE "ready"

Present(b) == man[b].state # Nothing
Restorable(b) == Present(b) /\ BackupState(b) \in {"ready", "interrupted"}
Unused(b) == man[b] = NoMan /\ brec[b] = NoRec /\ saved[b] = NoFiles /\ b \notin cleanup

\* A cut-short removal of this game that has to be put back first.
Blocked == \E b \in Backups : Present(b) /\ BackupState(b) \in {"interrupted", "incomplete"}

\* Mistake: a file that changed does not stop the removal.
BugRemovable == TRUE

\* _installation: each file is the client's or as it was before; "changed" if not.
Removable == \A f \in Files : game[f] \in {rec.rel, rec.orig[f]}

(* The history variable: what a removal found is no longer comparable once   *)
(* someone else changed the game, a Put back of another backup was cut, or a *)
(* failed Put back told the user which files stayed in the game.             *)
ForgetAllBut(kept) ==
  before' = [b \in Backups |-> IF b \in kept THEN before[b]
                               ELSE [f \in Files |-> "unknown"]]

Spend(what) == spent' = [spent EXCEPT ![what] = @ + 1]
Removing == op.pc \in {"take", "taken", "mark", "copy", "record", "undo", "undone"}
Putting  == op.pc \in {"put", "placed", "roll", "rolled", "recopy"}
Step(pc) == op' = [op EXCEPT !.pc = pc]
At(pc) == op.pc = pc

(* The two directions of _move_verified, for the operation's backup: the    *)
(* source is verified first, and stays until Unlinked* when drives differ.  *)
MoveOut(f) ==
  /\ saved' = [saved EXCEPT ![op.b][f] = game[f]]
  /\ game' = IF cross THEN game ELSE [game EXCEPT ![f] = Nothing]
MoveIn(f) ==
  /\ game' = [game EXCEPT ![f] = saved[op.b][f]]
  /\ saved' = IF cross THEN saved ELSE [saved EXCEPT ![op.b][f] = Nothing]
UnlinkGame(f) == game' = [game EXCEPT ![f] = Nothing] /\ UNCHANGED saved
UnlinkSaved(f) == saved' = [saved EXCEPT ![op.b][f] = Nothing] /\ UNCHANGED game

-------------------------------------------------------------------------------
(* remove_opticlient_installation *)

NextTake(todo) == op' = [op EXCEPT !.todo = todo, !.pc = IF todo = {} THEN "record" ELSE "take"]

RemoveStart(b) ==
  /\ At("idle") /\ rec # NoRec
  /\ ~Blocked /\ Removable /\ Unused(b)
  /\ man' = [man EXCEPT ![b] = [state |-> "moving", rel |-> rec.rel,
                                orig |-> rec.orig, moved |-> {}]]
  /\ LET present == {f \in Files : game[f] = rec.rel}
     IN  op' = [Idle EXCEPT !.b = b, !.todo = present,
                            !.pc = IF present = {} THEN "record" ELSE "take"]
  /\ before' = [before EXCEPT ![b] = game]
  /\ UNCHANGED <<game, rec, saved, brec, cleanup, cross, hurt, spent>>

\* Mistake: the file is moved without reading its digest again.
BugTakeFile ==
  /\ At("take")
  /\ MoveOut(First(op.todo)) /\ Step(IF cross THEN "taken" ELSE "mark")
  /\ UNCHANGED <<rec, brec, man, cleanup, cross, before, hurt, spent>>

TakeFile ==
  /\ At("take")
  /\ LET f == First(op.todo) IN
       IF game[f] = man[op.b].rel
       THEN MoveOut(f) /\ Step(IF cross THEN "taken" ELSE "mark")
       ELSE /\ op' = [op EXCEPT !.pc = "undo", !.todo = op.moved]    \* it changed
            /\ UNCHANGED <<game, saved>>
  /\ UNCHANGED <<rec, brec, man, cleanup, cross, before, hurt, spent>>

TakeUnlink ==
  /\ At("taken") /\ UnlinkGame(First(op.todo)) /\ Step("mark")
  /\ UNCHANGED <<rec, brec, man, cleanup, cross, before, hurt, spent>>

\* Mistake: the manifest is written before the file is marked as moved.
BugMarkFile ==
  /\ At("mark")
  /\ LET f == First(op.todo) IN
       /\ man' = [man EXCEPT ![op.b].moved = op.moved]
       /\ op' = [op EXCEPT !.moved = @ \union {f},
                           !.todo = IF man[op.b].orig[f] # Nothing THEN @ ELSE @ \ {f},
                           !.pc = IF man[op.b].orig[f] # Nothing THEN "copy"
                                  ELSE IF op.todo = {f} THEN "record" ELSE "take"]
  /\ UNCHANGED <<game, rec, saved, brec, cleanup, cross, before, hurt, spent>>

\* The manifest follows every file that left the game.
MarkFile ==
  /\ At("mark")
  /\ LET f == First(op.todo) IN
       /\ man' = [man EXCEPT ![op.b].moved = op.moved \union {f}]
       /\ IF man[op.b].orig[f] # Nothing
          THEN op' = [op EXCEPT !.moved = @ \union {f}, !.pc = "copy"]
          ELSE op' = [op EXCEPT !.moved = @ \union {f}, !.todo = @ \ {f},
                                !.pc = IF op.todo = {f} THEN "record" ELSE "take"]
  /\ UNCHANGED <<game, rec, saved, brec, cleanup, cross, before, hurt, spent>>

\* _copy_verified of the game's own file, from the client's originals.
CopyOriginal ==
  /\ At("copy")
  /\ LET f == First(op.todo) IN
       game' = [game EXCEPT ![f] = man[op.b].orig[f]] /\ NextTake(op.todo \ {f})
  /\ UNCHANGED <<rec, saved, brec, man, cleanup, cross, before, hurt, spent>>

TakeRecord ==
  /\ At("record")
  /\ brec' = [brec EXCEPT ![op.b] = rec] /\ rec' = NoRec /\ Step("complete")
  /\ UNCHANGED <<game, saved, man, cleanup, cross, before, hurt, spent>>

CompleteRemoval ==
  /\ At("complete")
  /\ man' = [man EXCEPT ![op.b].state = "complete"] /\ op' = Idle
  /\ UNCHANGED <<game, rec, saved, brec, cleanup, cross, before, hurt, spent>>

\* Any step of the removal may raise.  Before the record has moved the moves
\* are undone; after it the manifest just stays "moving".
RemoveFault ==
  /\ op.pc \in {"take", "taken", "mark", "copy", "record", "complete"}
  /\ spent.faults < MaxFaults /\ Spend("faults")
  /\ LET moved == op.moved \union (IF At("mark") THEN {First(op.todo)} ELSE {})
     IN  op' = IF At("complete") THEN Idle
               ELSE [op EXCEPT !.pc = "undo", !.todo = moved, !.moved = moved]
  /\ hurt' = (hurt \/ At("complete"))
  /\ UNCHANGED <<game, rec, saved, brec, man, cleanup, cross, before>>

(* _undo_moves: what left goes back, last first; what cannot is kept. *)

UndoFile ==
  /\ At("undo") /\ op.todo # {}
  /\ LET f == Last(op.todo) IN
       /\ MoveIn(f)
       /\ IF cross THEN Step("undone")
          ELSE op' = [op EXCEPT !.todo = @ \ {f}, !.moved = @ \ {f}]
  /\ UNCHANGED <<rec, brec, man, cleanup, cross, before, hurt, spent>>

UndoUnlink ==
  /\ At("undone")
  /\ LET f == Last(op.todo) IN
       /\ UnlinkSaved(f)
       /\ op' = [op EXCEPT !.pc = "undo", !.todo = @ \ {f}, !.moved = @ \ {f}]
  /\ UNCHANGED <<rec, brec, man, cleanup, cross, before, hurt, spent>>

UndoFault ==
  /\ op.pc \in {"undo", "undone"} /\ op.todo # {}
  /\ spent.faults < MaxFaults /\ Spend("faults")
  /\ op' = [op EXCEPT !.pc = "undo", !.todo = @ \ {Last(op.todo)},
                      !.left = @ \union {Last(op.todo)}]
  /\ hurt' = TRUE
  /\ UNCHANGED <<game, rec, saved, brec, man, cleanup, cross, before>>

UndoEnd ==
  /\ At("undo") /\ op.todo = {}
  /\ man' = [man EXCEPT ![op.b] = IF op.left = {} THEN NoMan
                                  ELSE [@ EXCEPT !.moved = op.moved]]
  /\ op' = Idle
  /\ UNCHANGED <<game, rec, saved, brec, cleanup, cross, before, hurt, spent>>

UndoEndFault ==
  /\ At("undo") /\ op.todo = {}
  /\ spent.faults < MaxFaults /\ Spend("faults")
  /\ op' = Idle /\ hurt' = TRUE
  /\ UNCHANGED <<game, rec, saved, brec, man, cleanup, cross, before>>

-------------------------------------------------------------------------------
(* restore_opticlient_backup: todo is what has still to go back, moved what  *)
(* already went back ("done"), left what stayed in the game on a roll back.  *)

\* Mistake: a file whose place in the game is taken is left in the backup.
BugPutStart(b) ==
  /\ At("idle") /\ Restorable(b)
  /\ op' = [Idle EXCEPT !.pc = "put", !.b = b,
                        !.todo = {f \in man[b].moved : game[f] = Nothing}]
  /\ UNCHANGED <<disk, cleanup, cross, before, hurt, spent>>

PutStart(b) ==
  /\ At("idle") /\ Restorable(b)
  /\ op' = [Idle EXCEPT !.pc = "put", !.b = b, !.todo = man[b].moved]
  /\ UNCHANGED <<disk, cleanup, cross, before, hurt, spent>>

\* Mistake: the loop ends after its first file.
BugPutDone(f) == op' = [op EXCEPT !.pc = "put", !.todo = {}, !.moved = @ \union {f}]
PutDone(f) == op' = [op EXCEPT !.pc = "put", !.todo = @ \ {f}, !.moved = @ \union {f}]

PutFile ==
  /\ At("put") /\ op.todo # {}
  /\ LET f == First(op.todo) IN
       MoveIn(f) /\ (IF cross THEN Step("placed") ELSE PutDone(f))
  /\ UNCHANGED <<rec, brec, man, cleanup, cross, before, hurt, spent>>

PutUnlink ==
  /\ At("placed")
  /\ LET f == First(op.todo) IN UnlinkSaved(f) /\ PutDone(f)
  /\ UNCHANGED <<rec, brec, man, cleanup, cross, before, hurt, spent>>

\* The record moves last; the lock is released; the folder is still there.
PutRecord ==
  /\ At("put") /\ op.todo = {}
  /\ IF brec[op.b] # NoRec /\ rec = NoRec
     THEN rec' = brec[op.b] /\ brec' = [brec EXCEPT ![op.b] = NoRec]
     ELSE UNCHANGED <<rec, brec>>
  /\ op' = Idle /\ cleanup' = cleanup \union {op.b}
  /\ UNCHANGED <<game, saved, man, cross, before, hurt, spent>>

\* Unlinking the manifest and the emptied folders, after the lock.
Cleanup(b) ==
  /\ b \in cleanup
  /\ man' = [man EXCEPT ![b] = NoMan] /\ cleanup' = cleanup \ {b}
  /\ UNCHANGED <<game, rec, saved, brec, op, cross, before, hurt, spent>>

\* A file half copied between drives is in the game and in the backup, and
\* is not in "done": the roll back leaves it.
PutFault ==
  /\ op.pc \in {"put", "placed"}
  /\ spent.faults < MaxFaults /\ Spend("faults")
  /\ op' = [op EXCEPT !.pc = "roll", !.todo = op.moved]
  /\ hurt' = (hurt \/ At("placed"))
  /\ IF At("placed") THEN ForgetAllBut({op.b}) ELSE UNCHANGED before
  /\ UNCHANGED <<disk, cleanup, cross>>

RollNext(f) == op' = [op EXCEPT !.pc = "roll", !.todo = @ \ {f}]
RollStays(f) == op' = [op EXCEPT !.pc = "roll", !.todo = @ \ {f}, !.left = @ \union {f}]

RollFile ==
  /\ At("roll") /\ op.todo # {}
  /\ MoveOut(Last(op.todo)) /\ Step(IF cross THEN "rolled" ELSE "recopy")
  /\ UNCHANGED <<rec, brec, man, cleanup, cross, before, hurt, spent>>

RollUnlink ==
  /\ At("rolled") /\ UnlinkGame(Last(op.todo)) /\ Step("recopy")
  /\ UNCHANGED <<rec, brec, man, cleanup, cross, before, hurt, spent>>

\* The originals are with the backup's record, or still with the client's.
Original(b, f) == IF brec[b] # NoRec THEN brec[b].orig[f] ELSE rec.orig[f]

RollOriginal ==
  /\ At("recopy")
  /\ LET f == Last(op.todo)
         own == man[op.b].orig[f]
     IN  \/ /\ own \in {Nothing, Original(op.b, f)}
            /\ game' = [game EXCEPT ![f] = own] /\ RollNext(f)
            /\ UNCHANGED <<hurt, before>>
         \/ /\ own \notin {Nothing, Original(op.b, f)}
            /\ RollStays(f) /\ hurt' = TRUE /\ ForgetAllBut({})
            /\ UNCHANGED game
  /\ UNCHANGED <<rec, saved, brec, man, cleanup, cross, spent>>

\* Either half of a roll back may raise; the file then counts as stayed,
\* even when it is already back in the backup.
RollFault ==
  /\ op.pc \in {"roll", "rolled", "recopy"} /\ op.todo # {}
  /\ spent.faults < MaxFaults /\ Spend("faults")
  /\ RollStays(Last(op.todo)) /\ hurt' = TRUE
  /\ ForgetAllBut({})
  /\ UNCHANGED <<disk, cleanup, cross>>

RollEnd ==
  /\ At("roll") /\ op.todo = {}
  /\ man' = [man EXCEPT ![op.b].moved = @ \ op.left]
  /\ op' = Idle
  /\ UNCHANGED <<game, rec, saved, brec, cleanup, cross, before, hurt, spent>>

\* It follows two failures and ends the operation: not counted.
RollEndFault ==
  /\ At("roll") /\ op.todo = {} /\ op.left # {}
  /\ op' = Idle
  /\ UNCHANGED <<disk, cleanup, cross, before, hurt, spent>>

-------------------------------------------------------------------------------
(* The power is cut, or a process is killed: the kernel drops its flock.     *)

Crash ==
  /\ spent.crashes < MaxCrashes /\ Spend("crashes")
  /\ \/ ~At("idle") /\ op' = Idle /\ UNCHANGED cleanup
     \/ \E b \in cleanup : cleanup' = cleanup \ {b} /\ UNCHANGED op
  /\ hurt' = TRUE
  /\ IF Putting THEN ForgetAllBut({op.b}) ELSE UNCHANGED before
  /\ UNCHANGED <<disk, cross>>

(* The client works under the same lock.  It installs over a clean game and  *)
(* restores one whose files are all its own.                                 *)
ClientInstall(r) ==
  /\ At("idle") /\ rec = NoRec /\ (ClientWaits => ~Blocked)
  /\ spent.installs < MaxInstalls /\ Spend("installs")
  /\ rec' = [rel |-> r, orig |-> game]
  /\ game' = [f \in Files |-> r]
  /\ ForgetAllBut({})
  /\ UNCHANGED <<saved, brec, man, op, cleanup, cross, hurt>>

ClientRestore ==
  /\ At("idle") /\ rec # NoRec /\ (ClientWaits => ~Blocked)
  /\ \A f \in Files : game[f] = rec.rel
  /\ game' = rec.orig /\ rec' = NoRec
  /\ ForgetAllBut({})
  /\ UNCHANGED <<saved, brec, man, op, cleanup, cross, hurt, spent>>

\* A game update or a hand edit, also of a file a removal has yet to reach.
Edit(f) ==
  /\ At("idle") \/ (At("take") /\ f \in op.todo)
  /\ spent.edits < MaxEdits /\ Spend("edits")
  /\ \E c \in {"update", Nothing} \ {game[f]} : game' = [game EXCEPT ![f] = c]
  /\ before' = [b \in Backups |-> [before[b] EXCEPT ![f] = "unknown"]]
  /\ UNCHANGED <<rec, saved, brec, man, op, cleanup, cross, hurt>>

-------------------------------------------------------------------------------
Remove == \/ \E b \in Backups : RemoveStart(b)
          \/ TakeFile \/ TakeUnlink \/ MarkFile \/ CopyOriginal
          \/ TakeRecord \/ CompleteRemoval \/ RemoveFault
          \/ UndoFile \/ UndoUnlink \/ UndoFault \/ UndoEnd \/ UndoEndFault

PutBack == \/ \E b \in Backups : PutStart(b) \/ Cleanup(b)
           \/ PutFile \/ PutUnlink \/ PutRecord \/ PutFault
           \/ RollFile \/ RollUnlink \/ RollOriginal \/ RollFault
           \/ RollEnd \/ RollEndFault

World == \/ Crash
         \/ \E r \in Releases : ClientInstall(r)
         \/ ClientRestore
         \/ \E f \in Files : Edit(f)

Next == Remove \/ PutBack \/ World

Spec == Init /\ [][Next]_vars

-------------------------------------------------------------------------------
(* The refinement: until something hurt it, an operation in progress is     *)
(* invisible, and takes effect when the record moves; afterwards the        *)
(* abstract state is what lies on the disk.                                 *)

AbsGame == IF hurt \/ ~(Removing \/ Putting) THEN game
           ELSE IF Putting THEN man[op.b].orig
           ELSE [f \in Files |-> IF before[op.b][f] = "unknown" THEN game[f]
                                 ELSE before[op.b][f]]

AbsVault ==
  [b \in Backups |->
    IF ~hurt /\ Putting /\ op.b = b
    THEN [files |-> [f \in Files |-> IF f \in man[b].moved THEN man[b].rel ELSE Nothing],
          rec |-> brec[b]]
    ELSE IF ~hurt /\ brec[b] = NoRec THEN [files |-> NoFiles, rec |-> NoRec]
    ELSE [files |-> saved[b], rec |-> brec[b]]]

Exchange == INSTANCE OptiSwap WITH game <- AbsGame, vault <- AbsVault

\* Seen from outside, taking OptiScaler out and putting it back are atomic
\* exchanges, whatever single step of them fails; and even a crash or a
\* failing roll back never loses the last copy of a file (opticlient_undo.py,
\* docstring: "never deletes anything", "nothing half-done stays behind").
AtomicExchange == Exchange!Spec

\* While nothing was cut short, a manifest names exactly the files its backup
\* holds once no operation is running ("the backup still lists exactly what
\* it holds").
Unnamed(b) == {f \in Files : saved[b][f] # Nothing} \ man[b].moved
Missing(b) == man[b].moved \ {f \in Files : saved[b][f] # Nothing}
Settled(b) == Present(b) /\ op.b # b /\ b \notin cleanup
ManifestExact ==
  ~hurt => \A b \in Backups : Settled(b) => Unnamed(b) = {} /\ Missing(b) = {}

\* However often the power goes, at most one file in a backup is not named by
\* its manifest: the one being moved at the first crash (_remove writes the
\* manifest after every file for that).
GapAtMostOne ==
  spent.faults = 0 => \A b \in Backups : Settled(b) => Cardinality(Unnamed(b)) <= 1

\* A finished Put back returns exactly what the removal found, also after a
\* crash in the middle of the removal, except for a file moved but not named
\* before the crash and for what changed in the meantime.
PutBackExact ==
  [][PutRecord =>
       \A f \in Files : \/ before[op.b][f] \in {"unknown", game[f]}
                        \/ f \in Unnamed(op.b)]_vars

\* A put back that ends removes the record from the backup and gives the
\* client exactly the record the files in the game belong to.
RecordFollowsFiles ==
  [][PutRecord => \A f \in man[op.b].moved : game[f] = rec'.rel]_vars
===============================================================================
