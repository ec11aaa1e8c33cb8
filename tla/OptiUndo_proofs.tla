---------------------------- MODULE OptiUndo_proofs ----------------------------
(***************************************************************************)
(* What taking OptiScaler out of a game and putting it back keeps, for any *)
(* number of files, backups and releases, and any number of faults and     *)
(* crashes.                                                                *)
(***************************************************************************)
EXTENDS OptiUndo, FiniteSetTheorems, WellFoundedInduction, TLAPS

-------------------------------------------------------------------------------
(* The first and the last of some files.                                     *)

LEMMA LeastNatural ==
  ASSUME NEW S \in SUBSET Nat, S # {}
  PROVE  \E x \in S : \A y \in S : x <= y
<1> DEFINE less == {ss \in Nat \X Nat : ss[1] < ss[2]}
<1>1. IsWellFoundedOn(less, Nat)
  BY NatLessThanWellFounded, Zenon DEF OpToRel
<1> HIDE DEF less
<1>2. PICK x \in S : \A y \in S : <<y, x>> \notin less
  BY <1>1, WFMin
<1>3. ASSUME NEW y \in S PROVE x <= y
  <2>1. x \in Nat /\ y \in Nat
    OBVIOUS
  <2>2. ~(y < x)
    BY <1>2, <2>1 DEF less
  <2> QED
    BY <2>1, <2>2
<1> QED
  BY <1>3

LEMMA FirstIsFile ==
  ASSUME NEW S \in SUBSET Files, S # {}
  PROVE  First(S) \in S
<1>1. S \in SUBSET Nat
  BY SizesAssumption DEF Files
<1>2. \E f \in S : \A g \in S : f <= g
  BY <1>1, LeastNatural
<1> QED
  BY <1>2 DEF First

LEMMA LastIsFile ==
  ASSUME NEW S \in SUBSET Files, S # {}
  PROVE  Last(S) \in S
<1> DEFINE T == {NumFiles - f : f \in S}
<1>1. \A f \in S : f \in Nat /\ NumFiles - f \in Nat
  BY SizesAssumption DEF Files
<1>2. T \in SUBSET Nat /\ T # {}
  BY <1>1
<1>3. PICK t \in T : \A u \in T : t <= u
  BY <1>2, LeastNatural
<1>4. PICK f \in S : t = NumFiles - f
  OBVIOUS
<1>5. ASSUME NEW g \in S PROVE g <= f
  <2>1. NumFiles - f <= NumFiles - g
    BY <1>3, <1>4
  <2> QED
    BY <1>1, <2>1, SizesAssumption
<1> QED
  BY <1>5 DEF Last

-------------------------------------------------------------------------------
(* Types.  What the type invariant alone does not keep: a running operation  *)
(* has its backup and, within a file, a file; what a failed Put back moves   *)
(* out again is what it has put in; and every record names a release.        *)

Out == {"take", "taken", "mark", "copy", "undone", "placed", "rolled", "recopy"}
Moveable == Releases \union {Nothing}

OpShape ==
  /\ op.pc # "idle" => op.b \in Backups
  /\ op.pc \in Out => op.todo # {}
  /\ op.pc \in {"put", "placed"} => \A f \in op.moved : game[f] \in Moveable
  /\ op.pc = "placed" => game[First(op.todo)] \in Moveable
  /\ op.pc \in {"roll", "rolled", "recopy"} => \A f \in op.todo : game[f] \in Moveable

TypeInv == TypeOK /\ OpShape

Manifests == [state : {Nothing, "moving", "complete"}, rel : Moveable,
              orig : [Files -> Contents], moved : SUBSET Files]
Pcs == {"idle", "take", "taken", "mark", "copy", "record", "complete",
        "undo", "undone", "put", "placed", "roll", "rolled", "recopy"}
Ops == [pc : Pcs, b : Backups \union {Nothing}, todo : SUBSET Files,
        moved : SUBSET Files, left : SUBSET Files]
Spendings == [installs : 0..MaxInstalls, edits : 0..MaxEdits,
              faults : 0..MaxFaults, crashes : 0..MaxCrashes]
Vaults == [Backups -> [Files -> Moveable]]
Histories == [Backups -> [Files -> Contents \union {"unknown"}]]

\* TypeOK, with names for its parts.
LEMMA Typing ==
  TypeOK <=> /\ game \in [Files -> Contents] /\ rec \in Recs /\ saved \in Vaults
             /\ brec \in [Backups -> Recs] /\ man \in [Backups -> Manifests]
             /\ op \in Ops /\ cleanup \in SUBSET Backups
             /\ cross \in BOOLEAN /\ hurt \in BOOLEAN
             /\ before \in Histories /\ spent \in Spendings
BY Zenon DEF TypeOK, Vaults, Manifests, Ops, Pcs, Histories, Spendings, Moveable

LEMMA TypingNext ==
  TypeOK' <=> /\ game' \in [Files -> Contents] /\ rec' \in Recs /\ saved' \in Vaults
              /\ brec' \in [Backups -> Recs] /\ man' \in [Backups -> Manifests]
              /\ op' \in Ops /\ cleanup' \in SUBSET Backups
              /\ cross' \in BOOLEAN /\ hurt' \in BOOLEAN
              /\ before' \in Histories /\ spent' \in Spendings
BY Zenon DEF TypeOK, Vaults, Manifests, Ops, Pcs, Histories, Spendings, Moveable

LEMMA InitTyped ==
  Init => TypeInv
<1> SUFFICES ASSUME Init PROVE TypeInv
  OBVIOUS
<1>1. NoFiles \in [Files -> Contents] /\ NoFiles \in [Files -> Moveable]
  BY DEF NoFiles, Contents, Moveable
<1>2. NoRec \in Recs /\ NoMan \in Manifests /\ Idle \in Ops
  BY <1>1 DEF NoRec, NoMan, Idle, Recs, Manifests, Ops, Pcs, Moveable
<1>3. before \in Histories
  BY <1>1 DEF Init, Histories
<1>4. spent \in Spendings
  BY SizesAssumption DEF Init, Spendings
<1>5. game \in [Files -> Contents] /\ saved \in Vaults
  BY <1>1 DEF Init, Vaults, Contents
<1>6. OpShape
  BY DEF Init, OpShape, Idle, Out
<1> QED
  BY <1>2, <1>3, <1>4, <1>5, <1>6, Typing DEF Init, TypeInv

\* The pieces the actions share.
LEMMA MovesOut ==
  ASSUME TypeOK, op.b \in Backups, NEW f \in Files, game[f] \in Moveable, MoveOut(f)
  PROVE  game' \in [Files -> Contents] /\ saved' \in Vaults
BY Typing DEF MoveOut, Vaults, Moveable, Contents

LEMMA MovesIn ==
  ASSUME TypeOK, op.b \in Backups, NEW f \in Files, MoveIn(f)
  PROVE  /\ game' \in [Files -> Contents] /\ saved' \in Vaults
         /\ game' = [game EXCEPT ![f] = saved[op.b][f]] /\ saved[op.b][f] \in Moveable
BY Typing DEF MoveIn, Vaults, Moveable, Contents

LEMMA SpendTyped ==
  ASSUME spent \in Spendings
  PROVE  /\ spent.faults < MaxFaults /\ Spend("faults") => spent' \in Spendings
         /\ spent.crashes < MaxCrashes /\ Spend("crashes") => spent' \in Spendings
         /\ spent.installs < MaxInstalls /\ Spend("installs") => spent' \in Spendings
         /\ spent.edits < MaxEdits /\ Spend("edits") => spent' \in Spendings
BY SizesAssumption DEF Spend, Spendings

LEMMA ForgetTyped ==
  ASSUME before \in Histories, NEW kept, ForgetAllBut(kept)
  PROVE  before' \in Histories
BY DEF ForgetAllBut, Histories

LEMMA ManifestMoved ==
  ASSUME man \in [Backups -> Manifests], NEW b \in Backups, NEW moved \in SUBSET Files
  PROVE  [man EXCEPT ![b].moved = moved] \in [Backups -> Manifests]
BY DEF Manifests

LEMMA RemoveTyped ==
  ASSUME TypeInv, Remove PROVE TypeInv'
<1> USE DEF TypeInv
<1>0. /\ op \in Ops /\ man \in [Backups -> Manifests] /\ game \in [Files -> Contents]
      /\ saved \in Vaults /\ rec \in Recs /\ before \in Histories
  BY Typing
<1>a. op.todo \in SUBSET Files /\ (op.todo # {} => First(op.todo) \in op.todo /\ Last(op.todo) \in op.todo)
  BY <1>0, FirstIsFile, LastIsFile DEF Ops
<1>1. ASSUME NEW b \in Backups, RemoveStart(b) PROVE TypeInv'
  <2>1. man' \in [Backups -> Manifests]
    BY <1>0, <1>1 DEF RemoveStart, Manifests, Recs, Moveable
  <2>2. op' \in Ops
    BY <1>1 DEF RemoveStart, Idle, Ops, Pcs
  <2>3. OpShape'
    BY <1>1 DEF RemoveStart, Idle, OpShape, Out
  <2>4. before' \in Histories
    BY <1>0, <1>1 DEF RemoveStart, Histories
  <2> QED
    BY <1>1, <2>1, <2>2, <2>3, <2>4, Typing, TypingNext DEF RemoveStart
<1>2. CASE TakeFile
  <2>1. op.b \in Backups /\ First(op.todo) \in Files /\ op.todo # {}
    BY <1>2, <1>a DEF TakeFile, At, OpShape, Out
  <2>2. CASE game[First(op.todo)] = man[op.b].rel
    <3>1. game[First(op.todo)] \in Moveable
      BY <1>0, <2>1, <2>2 DEF Manifests
    <3>2. game' \in [Files -> Contents] /\ saved' \in Vaults
      BY <1>2, <2>1, <2>2, <3>1, MovesOut DEF TakeFile
    <3>3. op' \in Ops /\ OpShape'
      BY <1>0, <1>2, <2>1, <2>2 DEF TakeFile, Step, At, Ops, Pcs, OpShape, Out
    <3> QED
      BY <1>2, <3>2, <3>3, Typing, TypingNext DEF TakeFile
  <2>3. CASE game[First(op.todo)] # man[op.b].rel
    <3>3. op' \in Ops /\ OpShape'
      BY <1>0, <1>2, <2>1, <2>3 DEF TakeFile, At, Ops, Pcs, OpShape, Out
    <3> QED
      BY <1>2, <2>3, <3>3, Typing, TypingNext DEF TakeFile
  <2> QED
    BY <2>2, <2>3
<1>3. CASE TakeUnlink
  <2>1. op.b \in Backups /\ op.todo # {}
    BY <1>3 DEF TakeUnlink, At, OpShape, Out
  <2>2. game' \in [Files -> Contents]
    BY <1>0, <1>3 DEF TakeUnlink, UnlinkGame, Contents
  <2>3. op' \in Ops /\ OpShape'
    BY <1>0, <1>3, <2>1 DEF TakeUnlink, Step, Ops, Pcs, OpShape, Out
  <2> QED
    BY <1>3, <2>2, <2>3, Typing, TypingNext DEF TakeUnlink, UnlinkGame
<1>4. CASE MarkFile
  <2>1. op.b \in Backups /\ op.todo # {} /\ First(op.todo) \in Files
    BY <1>4, <1>a DEF MarkFile, At, OpShape, Out
  <2>2. man' \in [Backups -> Manifests]
    <3>1. op.moved \union {First(op.todo)} \in SUBSET Files
      BY <1>0, <2>1 DEF Ops
    <3> QED
      BY <1>0, <1>4, <2>1, <3>1, ManifestMoved DEF MarkFile
  <2>3. op' \in Ops /\ OpShape'
    <3> DEFINE f == First(op.todo)
               m == op.moved \union {f}
               r == op.todo \ {f}
    <3>1. m \in SUBSET Files /\ r \in SUBSET Files /\ (op.todo # {f} => r # {})
      BY <1>0, <2>1 DEF Ops
    <3>2. \/ op' = [op EXCEPT !.moved = m, !.pc = "copy"]
          \/ op' = [op EXCEPT !.moved = m, !.todo = r,
                              !.pc = IF op.todo = {f} THEN "record" ELSE "take"]
      BY <1>0, <1>4 DEF MarkFile, Ops
    <3> HIDE DEF m, r
    <3> QED
      BY <1>0, <2>1, <3>1, <3>2 DEF Ops, Pcs, OpShape, Out
  <2> QED
    BY <1>4, <2>2, <2>3, Typing, TypingNext DEF MarkFile
<1>5. CASE CopyOriginal
  <2>1. op.b \in Backups /\ First(op.todo) \in Files
    BY <1>5, <1>a DEF CopyOriginal, At, OpShape, Out
  <2>2. game' \in [Files -> Contents]
    BY <1>0, <1>5, <2>1 DEF CopyOriginal, Manifests
  <2>3. op' \in Ops /\ OpShape'
    BY <1>0, <1>5, <2>1 DEF CopyOriginal, NextTake, Ops, Pcs, OpShape, Out
  <2> QED
    BY <1>5, <2>2, <2>3, Typing, TypingNext DEF CopyOriginal
<1>6. CASE TakeRecord
  <2>1. op.b \in Backups
    BY <1>6 DEF TakeRecord, At, OpShape
  <2>2. brec' \in [Backups -> Recs] /\ rec' \in Recs
    BY <1>0, <1>6, <2>1, Typing DEF TakeRecord, NoRec, Recs, NoFiles, Contents
  <2>3. op' \in Ops /\ OpShape'
    BY <1>0, <1>6, <2>1 DEF TakeRecord, Step, Ops, Pcs, OpShape, Out
  <2> QED
    BY <1>6, <2>2, <2>3, Typing, TypingNext DEF TakeRecord
<1>7. CASE CompleteRemoval
  <2>1. op.b \in Backups
    BY <1>7 DEF CompleteRemoval, At, OpShape
  <2>2. man' \in [Backups -> Manifests]
    BY <1>0, <1>7, <2>1, ZenonT(40) DEF CompleteRemoval, Manifests
  <2>3. op' \in Ops /\ OpShape'
    BY <1>7 DEF CompleteRemoval, Idle, Ops, Pcs, OpShape, Out
  <2> QED
    BY <1>7, <2>2, <2>3, Typing, TypingNext DEF CompleteRemoval
<1>8. CASE RemoveFault
  <2>1. op.b \in Backups /\ (At("mark") => First(op.todo) \in Files)
    BY <1>8, <1>a DEF RemoveFault, At, OpShape, Out
  <2>2. spent' \in Spendings
    BY <1>8, SpendTyped, Typing DEF RemoveFault
  <2>3. op' \in Ops /\ OpShape'
    BY <1>0, <1>8, <2>1 DEF RemoveFault, Idle, Ops, Pcs, OpShape, Out
  <2>4. hurt' \in BOOLEAN
    BY <1>8 DEF RemoveFault
  <2> QED
    BY <1>8, <2>2, <2>3, <2>4, Typing, TypingNext DEF RemoveFault
<1>9. CASE UndoFile
  <2>1. op.b \in Backups /\ op.todo # {} /\ Last(op.todo) \in Files
    BY <1>9, <1>a DEF UndoFile, At, OpShape
  <2>2. game' \in [Files -> Contents] /\ saved' \in Vaults
    BY <1>9, <2>1, MovesIn DEF UndoFile
  <2>3. op' \in Ops /\ OpShape'
    <3>1. CASE cross
      BY <1>0, <1>9, <2>1, <3>1 DEF UndoFile, At, Step, Ops, Pcs, OpShape, Out
    <3>2. CASE ~cross
      <4> DEFINE r == op.todo \ {Last(op.todo)}
                 m == op.moved \ {Last(op.todo)}
      <4>1. r \in SUBSET Files /\ m \in SUBSET Files
        BY <1>0 DEF Ops
      <4>2. op' = [op EXCEPT !.todo = r, !.moved = m]
        BY <1>9, <3>2 DEF UndoFile
      <4> HIDE DEF r, m
      <4> QED
        BY <1>0, <1>9, <2>1, <4>1, <4>2 DEF UndoFile, At, Ops, Pcs, OpShape, Out
    <3> QED
      BY <3>1, <3>2
  <2> QED
    BY <1>9, <2>2, <2>3, Typing, TypingNext DEF UndoFile
<1>10. CASE UndoUnlink
  <2>1. op.b \in Backups /\ op.todo # {}
    BY <1>10 DEF UndoUnlink, At, OpShape, Out
  <2>2. saved' \in Vaults
    BY <1>0, <1>10, <2>1 DEF UndoUnlink, UnlinkSaved, Vaults, Moveable
  <2>3. op' \in Ops /\ OpShape'
    BY <1>0, <1>10, <2>1 DEF UndoUnlink, Ops, Pcs, OpShape, Out
  <2> QED
    BY <1>10, <2>2, <2>3, Typing, TypingNext DEF UndoUnlink, UnlinkSaved
<1>11. CASE UndoFault
  <2>1. op.b \in Backups /\ Last(op.todo) \in Files
    BY <1>11, <1>a DEF UndoFault, OpShape
  <2>2. spent' \in Spendings
    BY <1>11, SpendTyped, Typing DEF UndoFault
  <2>3. op' \in Ops /\ OpShape'
    BY <1>0, <1>11, <2>1 DEF UndoFault, Ops, Pcs, OpShape, Out
  <2> QED
    BY <1>11, <2>2, <2>3, Typing, TypingNext DEF UndoFault
<1>12. CASE UndoEnd
  <2>1. man' \in [Backups -> Manifests]
    <3>1. NoMan \in Manifests
      BY DEF NoMan, Manifests, NoFiles, Contents, Moveable
    <3>2. op.b \in Backups /\ op.moved \in SUBSET Files
      BY <1>0, <1>12, <1>a DEF UndoEnd, At, OpShape, Ops
    <3> DEFINE m == IF op.left = {} THEN NoMan ELSE [man[op.b] EXCEPT !.moved = op.moved]
    <3>3. man' = [man EXCEPT ![op.b] = m]
      BY <1>12 DEF UndoEnd
    <3>4. m \in Manifests
      BY <1>0, <3>1, <3>2 DEF Manifests
    <3> QED
      BY <1>0, <3>2, <3>3, <3>4, Zenon
  <2>2. op' \in Ops /\ OpShape'
    BY <1>12 DEF UndoEnd, Idle, Ops, Pcs, OpShape, Out
  <2> QED
    BY <1>12, <2>1, <2>2, Typing, TypingNext DEF UndoEnd
<1>13. CASE UndoEndFault
  <2>1. spent' \in Spendings
    BY <1>13, SpendTyped, Typing DEF UndoEndFault
  <2>2. op' \in Ops /\ OpShape'
    BY <1>13 DEF UndoEndFault, Idle, Ops, Pcs, OpShape, Out
  <2> QED
    BY <1>13, <2>1, <2>2, Typing, TypingNext DEF UndoEndFault
<1> QED
  BY <1>1, <1>2, <1>3, <1>4, <1>5, <1>6, <1>7, <1>8, <1>9, <1>10, <1>11, <1>12, <1>13
     DEF Remove

LEMMA PutBackTyped ==
  ASSUME TypeInv, PutBack PROVE TypeInv'
<1> USE DEF TypeInv
<1>0. /\ op \in Ops /\ man \in [Backups -> Manifests] /\ game \in [Files -> Contents]
      /\ saved \in Vaults /\ rec \in Recs /\ brec \in [Backups -> Recs]
      /\ before \in Histories /\ spent \in Spendings
  BY Typing
<1>a. /\ op.todo \in SUBSET Files
      /\ op.todo # {} => First(op.todo) \in op.todo /\ Last(op.todo) \in op.todo
  BY <1>0, FirstIsFile, LastIsFile DEF Ops
<1>1. ASSUME NEW b \in Backups, PutStart(b) PROVE TypeInv'
  <2>1. op' \in Ops /\ OpShape'
    BY <1>0, <1>1 DEF PutStart, Idle, Ops, Pcs, Manifests, OpShape, Out
  <2> QED
    BY <1>1, <2>1, Typing, TypingNext DEF PutStart, disk
<1>2. ASSUME NEW b \in Backups, Cleanup(b) PROVE TypeInv'
  <2>1. NoMan \in Manifests
    BY DEF NoMan, Manifests, NoFiles, Contents, Moveable
  <2> QED
    BY <1>0, <1>2, <2>1, Typing, TypingNext DEF Cleanup, OpShape
<1>3. CASE PutFile
  <2>1. op.b \in Backups /\ op.todo # {} /\ First(op.todo) \in Files
    BY <1>3, <1>a DEF PutFile, At, OpShape
  <2>2. /\ game' \in [Files -> Contents] /\ saved' \in Vaults
        /\ game' = [game EXCEPT ![First(op.todo)] = saved[op.b][First(op.todo)]]
        /\ saved[op.b][First(op.todo)] \in Moveable
    BY <1>3, <2>1, MovesIn DEF PutFile
  <2>3. \A f \in op.moved \union {First(op.todo)} : game'[f] \in Moveable
    BY <1>0, <1>3, <2>1, <2>2 DEF PutFile, At, OpShape
  <2>4. op' \in Ops /\ OpShape'
    <3>1. CASE cross
      BY <1>0, <1>3, <2>1, <2>3, <3>1 DEF PutFile, At, Step, Ops, Pcs, OpShape, Out
    <3>2. CASE ~cross
      <4> DEFINE r == op.todo \ {First(op.todo)}
                 m == op.moved \union {First(op.todo)}
      <4>1. r \in SUBSET Files /\ m \in SUBSET Files
        BY <1>0, <2>1 DEF Ops
      <4>2. op' = [op EXCEPT !.pc = "put", !.todo = r, !.moved = m]
        BY <1>3, <3>2 DEF PutFile, PutDone
      <4> HIDE DEF r
      <4> QED
        BY <1>0, <2>1, <2>3, <4>1, <4>2 DEF Ops, Pcs, OpShape, Out
    <3> QED
      BY <3>1, <3>2
  <2> QED
    BY <1>3, <2>2, <2>4, Typing, TypingNext DEF PutFile
<1>4. CASE PutUnlink
  <2>1. op.b \in Backups /\ op.todo # {} /\ First(op.todo) \in Files
    BY <1>4, <1>a DEF PutUnlink, At, OpShape, Out
  <2>2. saved' \in Vaults
    BY <1>0, <1>4, <2>1 DEF PutUnlink, UnlinkSaved, Vaults, Moveable
  <2>3. \A f \in op.moved \union {First(op.todo)} : game'[f] \in Moveable
    BY <1>4 DEF PutUnlink, UnlinkSaved, At, OpShape
  <2>4. op' \in Ops /\ OpShape'
    <3> DEFINE r == op.todo \ {First(op.todo)}
               m == op.moved \union {First(op.todo)}
    <3>1. r \in SUBSET Files /\ m \in SUBSET Files
      BY <1>0, <2>1 DEF Ops
    <3>2. op' = [op EXCEPT !.pc = "put", !.todo = r, !.moved = m]
      BY <1>4 DEF PutUnlink, PutDone
    <3> HIDE DEF r
    <3> QED
      BY <1>0, <2>1, <2>3, <3>1, <3>2 DEF Ops, Pcs, OpShape, Out
  <2> QED
    BY <1>4, <2>2, <2>4, Typing, TypingNext DEF PutUnlink, UnlinkSaved
<1>5. CASE PutRecord
  <2>1. op.b \in Backups
    BY <1>5 DEF PutRecord, At, OpShape
  <2>2. brec' \in [Backups -> Recs] /\ rec' \in Recs
    <3>1. NoRec \in Recs
      BY DEF NoRec, Recs, NoFiles, Contents
    <3> QED
      BY <1>0, <1>5, <2>1, <3>1 DEF PutRecord
  <2>3. op' \in Ops /\ OpShape'
    BY <1>5 DEF PutRecord, Idle, Ops, Pcs, OpShape, Out
  <2> QED
    BY <1>5, <2>1, <2>2, <2>3, Typing, TypingNext DEF PutRecord
<1>6. CASE PutFault
  <2>1. spent' \in Spendings /\ hurt' \in BOOLEAN
    BY <1>0, <1>6, SpendTyped, Typing DEF PutFault
  <2>2. before' \in Histories
    BY <1>0, <1>6, ForgetTyped DEF PutFault
  <2>3. op' \in Ops /\ OpShape'
    BY <1>0, <1>6 DEF PutFault, disk, Ops, Pcs, OpShape, Out
  <2> QED
    BY <1>6, <2>1, <2>2, <2>3, Typing, TypingNext DEF PutFault, disk
<1>7. CASE RollFile
  <2>1. op.b \in Backups /\ op.todo # {} /\ Last(op.todo) \in op.todo /\ Last(op.todo) \in Files
    BY <1>7, <1>a DEF RollFile, At, OpShape
  <2>2. game[Last(op.todo)] \in Moveable
    BY <1>7, <2>1 DEF RollFile, At, OpShape
  <2>3. game' \in [Files -> Contents] /\ saved' \in Vaults
    BY <1>7, <2>1, <2>2, MovesOut DEF RollFile
  <2>4. \A f \in op.todo : game'[f] \in Moveable
    BY <1>0, <1>7, <1>a, <2>1 DEF RollFile, MoveOut, At, OpShape, Moveable
  <2>5. op' \in Ops /\ OpShape'
    BY <1>0, <1>7, <2>1, <2>4 DEF RollFile, At, Step, Ops, Pcs, OpShape, Out
  <2> QED
    BY <1>7, <2>3, <2>5, Typing, TypingNext DEF RollFile
<1>8. CASE RollUnlink
  <2>1. op.b \in Backups /\ op.todo # {} /\ Last(op.todo) \in Files
    BY <1>8, <1>a DEF RollUnlink, At, OpShape, Out
  <2>2. game' \in [Files -> Contents]
    BY <1>0, <1>8, <2>1 DEF RollUnlink, UnlinkGame, Contents
  <2>3. \A f \in op.todo : game'[f] \in Moveable
    BY <1>0, <1>8, <1>a, <2>1 DEF RollUnlink, UnlinkGame, At, OpShape, Moveable
  <2>4. op' \in Ops /\ OpShape'
    BY <1>0, <1>8, <2>1, <2>3 DEF RollUnlink, At, Step, Ops, Pcs, OpShape, Out
  <2> QED
    BY <1>8, <2>2, <2>4, Typing, TypingNext DEF RollUnlink, UnlinkGame
<1>9. CASE RollOriginal
  <2>1. op.b \in Backups /\ op.todo # {} /\ Last(op.todo) \in Files
    BY <1>9, <1>a DEF RollOriginal, At, OpShape, Out
  <2> DEFINE r == op.todo \ {Last(op.todo)}
             l == op.left \union {Last(op.todo)}
  <2>2. r \in SUBSET Files /\ l \in SUBSET Files
    BY <1>0, <2>1 DEF Ops
  <2>3. game' \in [Files -> Contents]
    BY <1>0, <1>9, <2>1 DEF RollOriginal, Manifests
  <2>4. \A f \in r : game'[f] \in Moveable
    <3>1. \A f \in r : game'[f] = game[f] /\ f \in op.todo
      BY <1>0, <1>9, <1>a, <2>1 DEF RollOriginal
    <3> QED
      BY <1>9, <3>1 DEF RollOriginal, At, OpShape
  <2>5. \/ op' = [op EXCEPT !.pc = "roll", !.todo = r]
        \/ op' = [op EXCEPT !.pc = "roll", !.todo = r, !.left = l]
    BY <1>9 DEF RollOriginal, RollNext, RollStays
  <2>6. hurt' \in BOOLEAN /\ before' \in Histories
    BY <1>0, <1>9, ForgetTyped, Typing DEF RollOriginal
  <2> HIDE DEF r, l
  <2>7. op' \in Ops /\ OpShape'
    BY <1>0, <2>1, <2>2, <2>4, <2>5 DEF Ops, Pcs, OpShape, Out
  <2> QED
    BY <1>9, <2>3, <2>6, <2>7, Typing, TypingNext DEF RollOriginal
<1>10. CASE RollFault
  <2>1. op.b \in Backups /\ op.todo # {} /\ Last(op.todo) \in Files
    BY <1>10, <1>a DEF RollFault, OpShape
  <2> DEFINE r == op.todo \ {Last(op.todo)}
             l == op.left \union {Last(op.todo)}
  <2>2. r \in SUBSET Files /\ l \in SUBSET Files
    BY <1>0, <2>1 DEF Ops
  <2>3. \A f \in r : game'[f] \in Moveable
    BY <1>10 DEF RollFault, disk, OpShape
  <2>4. op' = [op EXCEPT !.pc = "roll", !.todo = r, !.left = l]
    BY <1>10 DEF RollFault, RollStays
  <2>5. spent' \in Spendings /\ before' \in Histories
    BY <1>0, <1>10, SpendTyped, ForgetTyped DEF RollFault
  <2> HIDE DEF r, l
  <2>6. op' \in Ops /\ OpShape'
    BY <1>0, <2>1, <2>2, <2>3, <2>4 DEF Ops, Pcs, OpShape, Out
  <2> QED
    BY <1>10, <2>5, <2>6, Typing, TypingNext DEF RollFault, disk
<1>11. CASE RollEnd
  <2>1. op.b \in Backups
    BY <1>11 DEF RollEnd, At, OpShape
  <2>2. man' \in [Backups -> Manifests]
    <3>1. man[op.b].moved \ op.left \in SUBSET Files
      BY <1>0, <2>1 DEF Manifests
    <3>2. man' = [man EXCEPT ![op.b].moved = man[op.b].moved \ op.left]
      BY <1>11 DEF RollEnd
    <3> QED
      BY <1>0, <2>1, <3>1, <3>2, ManifestMoved
  <2>3. op' \in Ops /\ OpShape'
    BY <1>11 DEF RollEnd, Idle, Ops, Pcs, OpShape, Out
  <2> QED
    BY <1>11, <2>2, <2>3, Typing, TypingNext DEF RollEnd
<1>12. CASE RollEndFault
  <2>1. op' \in Ops /\ OpShape'
    BY <1>12 DEF RollEndFault, Idle, Ops, Pcs, OpShape, Out
  <2> QED
    BY <1>12, <2>1, Typing, TypingNext DEF RollEndFault, disk
<1> QED
  BY <1>1, <1>2, <1>3, <1>4, <1>5, <1>6, <1>7, <1>8, <1>9, <1>10, <1>11, <1>12
     DEF PutBack

LEMMA WorldTyped ==
  ASSUME TypeInv, World PROVE TypeInv'
<1> USE DEF TypeInv
<1>0. /\ op \in Ops /\ man \in [Backups -> Manifests] /\ game \in [Files -> Contents]
      /\ saved \in Vaults /\ rec \in Recs /\ brec \in [Backups -> Recs]
      /\ before \in Histories /\ spent \in Spendings
  BY Typing
<1>1. CASE Crash
  <2>1. spent' \in Spendings
    BY <1>0, <1>1, SpendTyped DEF Crash
  <2>2. before' \in Histories
    BY <1>0, <1>1, ForgetTyped DEF Crash
  <2>3. op' \in Ops /\ OpShape' /\ cleanup' \in SUBSET Backups
    <3>1. CASE op' = Idle /\ UNCHANGED cleanup
      BY <1>1, <3>1, Typing DEF Idle, Ops, Pcs, OpShape, Out
    <3>2. CASE UNCHANGED op /\ \E b \in cleanup : cleanup' = cleanup \ {b}
      BY <1>0, <1>1, <3>2, Typing DEF Crash, disk, OpShape
    <3> QED
      BY <1>1, <3>1, <3>2 DEF Crash
  <2> QED
    BY <1>1, <2>1, <2>2, <2>3, Typing, TypingNext DEF Crash, disk
<1>2. ASSUME NEW r \in Releases, ClientInstall(r) PROVE TypeInv'
  <2>1. spent' \in Spendings /\ before' \in Histories
    BY <1>0, <1>2, SpendTyped, ForgetTyped DEF ClientInstall
  <2>2. game' \in [Files -> Contents] /\ rec' \in Recs
    BY <1>0, <1>2 DEF ClientInstall, Recs, Contents
  <2>3. OpShape'
    BY <1>2 DEF ClientInstall, At, OpShape, Out
  <2> QED
    BY <1>2, <2>1, <2>2, <2>3, Typing, TypingNext DEF ClientInstall
<1>3. CASE ClientRestore
  <2>1. before' \in Histories
    BY <1>0, <1>3, ForgetTyped DEF ClientRestore
  <2>2. game' \in [Files -> Contents] /\ rec' \in Recs
    BY <1>0, <1>3 DEF ClientRestore, Recs, NoRec, NoFiles, Contents
  <2>3. OpShape'
    BY <1>3 DEF ClientRestore, At, OpShape, Out
  <2> QED
    BY <1>3, <2>1, <2>2, <2>3, Typing, TypingNext DEF ClientRestore
<1>4. ASSUME NEW f \in Files, Edit(f) PROVE TypeInv'
  <2>1. spent' \in Spendings
    BY <1>0, <1>4, SpendTyped DEF Edit
  <2>2. game' \in [Files -> Contents]
    BY <1>0, <1>4 DEF Edit, Contents
  <2>3. before' \in Histories
    BY <1>0, <1>4 DEF Edit, Histories
  <2>4. OpShape'
    BY <1>4 DEF Edit, At, OpShape, Out
  <2> QED
    BY <1>4, <2>1, <2>2, <2>3, <2>4, Typing, TypingNext DEF Edit
<1> QED
  BY <1>1, <1>2, <1>3, <1>4 DEF World

LEMMA TypeStep ==
  TypeInv /\ [Next]_vars => TypeInv'
<1>1. ASSUME TypeInv, UNCHANGED vars PROVE TypeInv'
  BY <1>1, Typing, TypingNext DEF vars, TypeInv, OpShape
<1> QED
  BY <1>1, RemoveTyped, PutBackTyped, WorldTyped DEF Next

\* TypesHold with its strengthening: every action lemma below cites it.
THEOREM Invariance ==
  Spec => []TypeInv
BY InitTyped, TypeStep, PTL DEF Spec

(* Removal, Put back, their undoing and the client move nothing but releases *)
(* into a backup, whatever fails and whenever the power goes; a running      *)
(* operation always has a backup, and a file to move where it says so.       *)
THEOREM TypesHold ==
  Spec => []TypeOK
<1>1. TypeInv => TypeOK
  BY DEF TypeInv
<1> QED
  BY <1>1, Invariance, PTL

-------------------------------------------------------------------------------
(* Records name releases; while a removal runs, its backup has a manifest    *)
(* that no finished Put back deletes.                                        *)

Taking == op.pc \in {"take", "taken", "mark", "copy", "record", "complete", "undo", "undone"}

ReleaseInv ==
  /\ rec = NoRec \/ rec.rel \in Releases
  /\ \A b \in Backups : brec[b] = NoRec \/ brec[b].rel \in Releases
  /\ \A b \in Backups : Present(b) => man[b].rel \in Releases
  /\ Taking => Present(op.b) /\ op.b \notin cleanup

LEMMA NothingIsNoRelease ==
  Nothing \notin Releases
BY SizesAssumption DEF Nothing

LEMMA ReleaseStep ==
  TypeInv /\ ReleaseInv /\ [Next]_vars => ReleaseInv'
<1> SUFFICES ASSUME TypeInv, ReleaseInv, [Next]_vars PROVE ReleaseInv'
  OBVIOUS
<1>0. /\ op \in Ops /\ man \in [Backups -> Manifests] /\ rec \in Recs
      /\ brec \in [Backups -> Recs] /\ (op.pc # "idle" => op.b \in Backups)
  BY Typing DEF TypeInv, OpShape
<1>1. ASSUME NEW b \in Backups, RemoveStart(b) PROVE ReleaseInv'
  <2>1. /\ UNCHANGED <<rec, brec, cleanup>> /\ b \notin cleanup /\ rec.rel \in Releases
        /\ man' = [man EXCEPT ![b] = [state |-> "moving", rel |-> rec.rel,
                                      orig |-> rec.orig, moved |-> {}]]
        /\ op'.b = b
    BY <1>1 DEF RemoveStart, Unused, Idle, ReleaseInv
  <2>2. man'[b].state = "moving" /\ man'[b].rel = rec.rel /\ \A c \in Backups \ {b} : man'[c] = man[c]
    BY <1>0, <2>1
  <2> QED
    BY <2>1, <2>2 DEF ReleaseInv, Present, Nothing
<1>2. CASE MarkFile
  <2>1. /\ man' = [man EXCEPT ![op.b].moved = op.moved \union {First(op.todo)}]
        /\ UNCHANGED <<rec, brec, cleanup>> /\ Taking
    BY <1>2 DEF MarkFile, At, Taking
  <2>2. /\ op.b \in Backups /\ op'.b = op.b
    BY <1>0, <1>2 DEF MarkFile, At, Ops
  <2>3. \A b \in Backups : man'[b].rel = man[b].rel /\ man'[b].state = man[b].state
    BY <1>0, <2>1, <2>2 DEF Manifests
  <2> QED
    BY <2>1, <2>2, <2>3 DEF ReleaseInv, Present
<1>3. CASE TakeRecord
  <2>1. /\ op.b \in Backups /\ brec' = [brec EXCEPT ![op.b] = rec] /\ rec' = NoRec
        /\ UNCHANGED <<man, cleanup>> /\ Taking /\ op'.b = op.b
    BY <1>0, <1>3 DEF TakeRecord, At, Taking, Step, Ops
  <2>2. \A b \in Backups : brec'[b] = brec[b] \/ brec'[b] = rec
    BY <1>0, <2>1
  <2>3. \A b \in Backups : brec'[b] = NoRec \/ brec'[b].rel \in Releases
    BY <2>2 DEF ReleaseInv
  <2> QED
    BY <2>1, <2>3 DEF ReleaseInv, Present
<1>4. CASE CompleteRemoval
  <2>1. /\ man' = [man EXCEPT ![op.b].state = "complete"] /\ op.b \in Backups
        /\ UNCHANGED <<rec, brec, cleanup>> /\ Present(op.b) /\ ~Taking'
    BY <1>0, <1>4 DEF CompleteRemoval, At, Taking, Idle, ReleaseInv
  <2>2. \A b \in Backups : man'[b].rel = man[b].rel /\ (b # op.b => man'[b] = man[b])
    BY <1>0, <2>1 DEF Manifests
  <2> QED
    BY <2>1, <2>2 DEF ReleaseInv, Present
<1>5. CASE UndoEnd
  <2>1. /\ op.b \in Backups /\ UNCHANGED <<rec, brec, cleanup>> /\ ~Taking'
        /\ man' = [man EXCEPT ![op.b] = IF op.left = {} THEN NoMan
                                        ELSE [@ EXCEPT !.moved = op.moved]]
    BY <1>0, <1>5 DEF UndoEnd, At, Taking, Idle
  <2>2. \A b \in Backups : \/ man'[b].state = Nothing
                           \/ man'[b].rel = man[b].rel /\ man'[b].state = man[b].state
    BY <1>0, <2>1 DEF NoMan, Manifests
  <2> QED
    BY <2>1, <2>2 DEF ReleaseInv, Present
<1>6. CASE PutRecord
  <2>1. op.b \in Backups /\ UNCHANGED man /\ ~Taking'
    BY <1>0, <1>6 DEF PutRecord, At, Taking, Idle
  <2>2. CASE brec[op.b] # NoRec /\ rec = NoRec
    BY <1>0, <1>6, <2>1, <2>2 DEF PutRecord, ReleaseInv, Present
  <2>3. CASE ~(brec[op.b] # NoRec /\ rec = NoRec)
    BY <1>6, <2>1, <2>3 DEF PutRecord, ReleaseInv, Present
  <2> QED
    BY <2>2, <2>3
<1>7. ASSUME NEW b \in Backups, Cleanup(b) PROVE ReleaseInv'
  <2>1. /\ UNCHANGED <<rec, brec, op>> /\ b \in cleanup /\ cleanup' = cleanup \ {b}
        /\ man'[b].state = Nothing /\ \A c \in Backups \ {b} : man'[c] = man[c]
    BY <1>0, <1>7 DEF Cleanup, NoMan
  <2> QED
    BY <1>0, <2>1 DEF ReleaseInv, Present, Taking
<1>8. CASE RollEnd
  <2>1. /\ op.b \in Backups /\ UNCHANGED <<rec, brec, cleanup>> /\ ~Taking'
        /\ man' = [man EXCEPT ![op.b].moved = @ \ op.left]
    BY <1>0, <1>8 DEF RollEnd, At, Taking, Idle
  <2>2. \A b \in Backups : man'[b].rel = man[b].rel /\ man'[b].state = man[b].state
    BY <1>0, <2>1 DEF Manifests
  <2> QED
    BY <2>1, <2>2 DEF ReleaseInv, Present
<1>9. ASSUME NEW r \in Releases, ClientInstall(r) PROVE ReleaseInv'
  BY <1>0, <1>9 DEF ClientInstall, ReleaseInv, Present, Taking
<1>10. CASE ClientRestore
  BY <1>0, <1>10 DEF ClientRestore, ReleaseInv, Present, Taking
<1>11. CASE \/ TakeFile \/ TakeUnlink \/ CopyOriginal \/ RemoveFault
            \/ UndoFile \/ UndoUnlink \/ UndoFault \/ UndoEndFault
            \/ PutFile \/ PutUnlink \/ PutFault \/ RollFile \/ RollUnlink
            \/ RollOriginal \/ RollFault \/ RollEndFault \/ Crash
            \/ (\E b \in Backups : PutStart(b)) \/ (\E f \in Files : Edit(f))
            \/ UNCHANGED vars
  <2>1. UNCHANGED <<rec, brec, man>>
    BY <1>11 DEF TakeFile, TakeUnlink, CopyOriginal, RemoveFault,
                 UndoFile, UndoUnlink, UndoFault, UndoEndFault,
                 PutFile, PutUnlink, PutFault, RollFile, RollUnlink,
                 RollOriginal, RollFault, RollEndFault, Crash, PutStart, Edit, disk, vars
  <2>2. cleanup' \subseteq cleanup
    BY <1>11 DEF TakeFile, TakeUnlink, CopyOriginal, RemoveFault,
                 UndoFile, UndoUnlink, UndoFault, UndoEndFault,
                 PutFile, PutUnlink, PutFault, RollFile, RollUnlink,
                 RollOriginal, RollFault, RollEndFault, Crash, PutStart, Edit, vars
  <2>3. Taking' => Taking /\ op'.b = op.b
    <3>1. CASE TakeFile \/ TakeUnlink \/ CopyOriginal
      BY <1>0, <3>1 DEF TakeFile, TakeUnlink, CopyOriginal, NextTake, Step, At, Taking, Ops
    <3>2. CASE RemoveFault \/ UndoFile \/ UndoUnlink \/ UndoFault \/ UndoEndFault
      <4>1. CASE RemoveFault
        <5>1. At("complete") => op' = Idle
          BY <4>1 DEF RemoveFault
        <5>2. ~At("complete") => op'.b = op.b
          BY <1>0, <4>1 DEF RemoveFault, Ops
        <5> QED
          BY <4>1, <5>1, <5>2 DEF RemoveFault, At, Taking, Idle
      <4>2. CASE UndoFile
        BY <1>0, <4>2 DEF UndoFile, Step, At, Taking, Ops
      <4>3. CASE UndoUnlink
        BY <1>0, <4>3 DEF UndoUnlink, At, Taking, Ops
      <4>4. CASE UndoFault \/ UndoEndFault
        <5>1. op'.pc = "idle" \/ (op.pc \in {"undo", "undone"} /\ op'.b = op.b)
          <6>1. UndoEndFault => op'.pc = "idle"
            BY DEF UndoEndFault, Idle
          <6>2. UndoFault => op.pc \in {"undo", "undone"}
            BY DEF UndoFault
          <6>3. UndoFault => op'.b = op.b
            BY <1>0, Zenon DEF UndoFault, Ops
          <6> QED
            BY <4>4, <6>1, <6>2, <6>3
        <5> QED
          BY <5>1 DEF Taking
      <4> QED
        BY <3>2, <4>1, <4>2, <4>3, <4>4
    <3>3. CASE PutFile \/ PutUnlink \/ PutFault \/ RollFile \/ RollUnlink
      BY <1>0, <3>3 DEF PutFile, PutUnlink, PutFault, PutDone, RollFile, RollUnlink,
                        Step, At, Taking, Ops
    <3>4. CASE RollOriginal \/ RollFault \/ RollEndFault
      <4>1. CASE RollOriginal \/ RollFault
        <5>1. op'.pc = "roll"
          BY <1>0, <4>1 DEF RollOriginal, RollFault, RollNext, RollStays, Ops
        <5> QED
          BY <5>1 DEF Taking
      <4>2. CASE RollEndFault
        BY <4>2 DEF RollEndFault, Taking, Idle
      <4> QED
        BY <3>4, <4>1, <4>2
    <3>5. CASE Crash \/ (\E b \in Backups : PutStart(b)) \/ (\E f \in Files : Edit(f))
               \/ UNCHANGED vars
      <4>1. CASE UNCHANGED op
        BY <4>1 DEF Taking
      <4>2. CASE op'.pc \in {"idle", "put"}
        BY <4>2 DEF Taking
      <4> QED
        <5>1. Crash => UNCHANGED op \/ op'.pc = "idle"
          BY DEF Crash, Idle
        <5>2. \A b \in Backups : PutStart(b) => op'.pc = "put"
          BY DEF PutStart, Idle
        <5>3. (\E f \in Files : Edit(f)) \/ UNCHANGED vars => UNCHANGED op
          BY DEF Edit, vars
        <5> QED
          BY <3>5, <4>1, <4>2, <5>1, <5>2, <5>3
    <3> QED
      BY <1>11, <3>1, <3>2, <3>3, <3>4, <3>5
  <2> QED
    BY <2>1, <2>2, <2>3 DEF ReleaseInv, Present
<1> QED
  BY <1>1, <1>2, <1>3, <1>4, <1>5, <1>6, <1>7, <1>8, <1>9, <1>10, <1>11
     DEF Next, Remove, PutBack, World

(* Every manifest and every record in a backup names a release, so a file is *)
(* never taken for the client's because both are missing; and the backup of  *)
(* a running removal is not being deleted by a finished Put back.            *)
THEOREM ReleasesNamed ==
  Spec => []ReleaseInv
<1>1. Init => ReleaseInv
  BY DEF Init, ReleaseInv, Present, NoMan, Taking, Idle
<1> QED
  BY <1>1, ReleaseStep, Invariance, PTL DEF Spec

-------------------------------------------------------------------------------
(* The manifests, while nothing was cut short.                               *)

Held(b) == {f \in Files : saved[b][f] # Nothing}
Busy(b) == op.pc # "idle" /\ op.b = b

\* A removal: the manifest has every file that left, but the one on its way.
TakeShape(m) ==
  /\ op.pc \in {"take", "taken", "mark", "copy", "record", "complete"} => m.moved = op.moved
  /\ op.pc \in {"take", "copy", "record", "complete"} => Held(op.b) = op.moved
  /\ op.pc \in {"taken", "mark"} => Held(op.b) = op.moved \union {First(op.todo)}

\* A Put back: what has still to go back is in the backup, the rest in the game.
PutShape(m) ==
  op.pc \in {"put", "placed"} =>
    /\ m.state = "complete" /\ m.moved = op.todo \union op.moved
    /\ op.todo \intersect op.moved = {}
    /\ Held(op.b) = op.todo /\ \A f \in op.todo : saved[op.b][f] = m.rel
    /\ \A f \in op.moved : game[f] = m.rel
    /\ op.pc = "placed" => game[First(op.todo)] = m.rel

\* Its roll back, the other way round.
Coming == IF op.pc = "roll" THEN op.todo ELSE op.todo \ {Last(op.todo)}
RollShape(m) ==
  op.pc \in {"roll", "rolled", "recopy"} =>
    /\ m.state = "complete" /\ op.todo \subseteq m.moved
    /\ Held(op.b) = m.moved \ Coming /\ \A f \in Coming : game[f] = m.rel

OpInv == op.pc # "idle" => /\ Present(op.b)
                           /\ TakeShape(man[op.b]) /\ PutShape(man[op.b]) /\ RollShape(man[op.b])

Rest(b) ==
  /\ Present(b) /\ ~Busy(b) /\ b \notin cleanup => man[b].state = "complete" /\ Held(b) = man[b].moved
  /\ b \in cleanup => Held(b) = {} /\ ~Busy(b) /\ man[b].state # "moving"

ExactInv == ~hurt => op.left = {} /\ OpInv /\ \A b \in Backups : Rest(b)

\* What one file in or out of a backup does to what it holds.
LEMMA HeldIn ==
  ASSUME saved \in Vaults, NEW b \in Backups, NEW f \in Files, NEW x, x # Nothing,
         saved' = [saved EXCEPT ![b][f] = x]
  PROVE  /\ Held(b)' = Held(b) \union {f}
         /\ \A c \in Backups \ {b} : saved'[c] = saved[c]
BY DEF Held, Vaults

LEMMA HeldOut ==
  ASSUME saved \in Vaults, NEW b \in Backups, NEW f \in Files,
         saved' = [saved EXCEPT ![b][f] = Nothing]
  PROVE  /\ Held(b)' = Held(b) \ {f}
         /\ \A c \in Backups \ {b} : saved'[c] = saved[c]
BY DEF Held, Vaults

\* The backups that the running operation is not about stay as they were.
LEMMA OthersRest ==
  ASSUME NEW c \in Backups, Rest(c), c # op.b, op'.b = op.b \/ op'.pc = "idle",
         man'[c] = man[c], saved'[c] = saved[c], c \in cleanup' <=> c \in cleanup
  PROVE  Rest(c)'
BY DEF Rest, Held, Busy, Present

\* A step inside an operation.
LEMMA StepInside ==
  ASSUME op.b \in Backups, op.pc # "idle", \A b \in Backups : Rest(b),
         op'.b = op.b, op'.pc # "idle", op'.left = {}, cleanup' = cleanup, OpInv',
         \A c \in Backups \ {op.b} : man'[c] = man[c] /\ saved'[c] = saved[c]
  PROVE  ExactInv'
<1>1. Rest(op.b)'
  BY DEF Rest, Busy
<1>2. ASSUME NEW c \in Backups, c # op.b PROVE Rest(c)'
  BY <1>2, OthersRest
<1> QED
  BY <1>1, <1>2 DEF ExactInv

\* The last step of an operation.
LEMMA StepOut ==
  ASSUME NEW b \in Backups, b = op.b, op.pc # "idle", \A c \in Backups : Rest(c),
         op' = Idle, Rest(b)',
         \A c \in Backups \ {b} : /\ man'[c] = man[c] /\ saved'[c] = saved[c]
                                  /\ c \in cleanup' <=> c \in cleanup
  PROVE  ExactInv'
<1>1. op'.pc = "idle" /\ op'.left = {}
  BY DEF Idle
<1>2. ASSUME NEW c \in Backups, c # b PROVE Rest(c)'
  <2>1. c # op.b /\ Rest(c) /\ man'[c] = man[c] /\ saved'[c] = saved[c]
    BY <1>2
  <2> QED
    BY <1>1, <1>2, <2>1, OthersRest
<1> QED
  BY <1>1, <1>2 DEF ExactInv, OpInv

LEMMA ExactRemove ==
  ASSUME TypeInv, ReleaseInv, ExactInv, ~hurt, ~hurt', Remove
  PROVE  ExactInv'
<1>0. /\ op \in Ops /\ man \in [Backups -> Manifests] /\ saved \in Vaults
      /\ game \in [Files -> Contents] /\ (op.pc # "idle" => op.b \in Backups)
  BY Typing DEF TypeInv, OpShape
<1>a. /\ op.todo \in SUBSET Files
      /\ op.todo # {} => First(op.todo) \in op.todo /\ Last(op.todo) \in op.todo
      /\ op.pc \in Out => op.todo # {}
  BY <1>0, FirstIsFile, LastIsFile DEF Ops, TypeInv, OpShape
<1>b. op.left = {} /\ OpInv /\ \A b \in Backups : Rest(b)
  BY DEF ExactInv
<1>1. ASSUME NEW b \in Backups, RemoveStart(b) PROVE ExactInv'
  <2>1. /\ op.pc = "idle" /\ saved' = saved /\ cleanup' = cleanup /\ b \notin cleanup
        /\ saved[b] = NoFiles
        /\ man' = [man EXCEPT ![b] = [state |-> "moving", rel |-> rec.rel,
                                      orig |-> rec.orig, moved |-> {}]]
    BY <1>1 DEF RemoveStart, Unused, At
  <2>2. op'.pc \in {"take", "record"} /\ op'.b = b /\ op'.moved = {} /\ op'.left = {}
    BY <1>1 DEF RemoveStart, Idle
  <2>3. Held(b)' = {}
    BY <2>1 DEF Held, NoFiles
  <2>4. man'[b].state = "moving" /\ man'[b].moved = {}
    BY <1>0, <2>1
  <2>5. OpInv'
    BY <2>2, <2>3, <2>4 DEF OpInv, TakeShape, PutShape, RollShape, Present, Nothing
  <2>6. ASSUME NEW c \in Backups, c # b PROVE Rest(c)'
    BY <1>0, <1>b, <2>1, <2>2, <2>6 DEF Rest, Busy, Held, Present
  <2>7. Rest(b)'
    BY <2>1, <2>2 DEF Rest, Busy
  <2> QED
    BY <2>2, <2>5, <2>6, <2>7 DEF ExactInv
<1>2. CASE op.pc # "idle" /\ \A b \in Backups : ~RemoveStart(b)
  <2>1. PICK b \in Backups : b = op.b
    BY <1>0, <1>2
  <2>2. TakeShape(man[b]) /\ Present(b)
    BY <1>2, <1>b, <2>1 DEF OpInv
  <2> DEFINE f == First(op.todo)
  <2>o. Present(b)' <=> man'[b].state # Nothing
    BY DEF Present
  <2>3. CASE TakeFile
    <3>1. f \in Files /\ op.pc = "take"
      BY <1>a, <2>3 DEF TakeFile, At, Out
    <3>2. CASE game[f] = man[b].rel
      <4>1. saved' = [saved EXCEPT ![b][f] = game[f]] /\ game[f] # Nothing /\ UNCHANGED <<man, cleanup>>
        BY <2>1, <2>2, <2>3, <3>2, NothingIsNoRelease DEF TakeFile, MoveOut, ReleaseInv
      <4>2. Held(b)' = Held(b) \union {f} /\ \A c \in Backups \ {b} : saved'[c] = saved[c]
        BY <1>0, <3>1, <4>1, HeldIn
      <4>3. op' = [op EXCEPT !.pc = IF cross THEN "taken" ELSE "mark"]
        BY <2>1, <2>3, <3>2 DEF TakeFile, Step
      <4>4. op'.pc \in {"taken", "mark"} /\ op'.b = b /\ op'.todo = op.todo /\ op'.moved = op.moved /\ op'.left = {}
        BY <1>0, <1>b, <2>1, <4>3 DEF Ops
      <4>5. OpInv'
        BY <2>2, <2>1, <3>1, <4>1, <4>2, <4>4 DEF OpInv, TakeShape, PutShape, RollShape, Present
      <4> QED
        BY <1>0, <1>2, <1>b, <2>1, <4>1, <4>2, <4>4, <4>5, StepInside
    <3>3. CASE game[f] # man[b].rel
      <4>1. /\ op' = [op EXCEPT !.pc = "undo", !.todo = op.moved]
            /\ UNCHANGED <<saved, man, cleanup>>
        BY <2>1, <2>3, <3>3 DEF TakeFile
      <4>2. op'.pc = "undo" /\ op'.b = b /\ op'.left = {}
        BY <1>0, <1>b, <2>1, <4>1 DEF Ops
      <4>3. OpInv'
        BY <2>2, <4>1, <4>2 DEF OpInv, TakeShape, PutShape, RollShape, Present
      <4> QED
        BY <1>0, <1>2, <1>b, <2>1, <4>1, <4>2, <4>3, StepInside
    <3> QED
      BY <3>2, <3>3
  <2>4. CASE TakeUnlink
    <3>1. op.pc = "taken" /\ op' = [op EXCEPT !.pc = "mark"] /\ UNCHANGED <<saved, man, cleanup>>
      BY <2>4 DEF TakeUnlink, UnlinkGame, Step, At
    <3>2. op'.pc = "mark" /\ op'.b = b /\ op'.todo = op.todo /\ op'.moved = op.moved /\ op'.left = {}
      BY <1>0, <1>b, <2>1, <3>1 DEF Ops
    <3>3. OpInv'
      BY <2>1, <2>2, <3>1, <3>2 DEF OpInv, TakeShape, PutShape, RollShape, Present, Held
    <3> QED
      BY <1>0, <1>2, <1>b, <2>1, <3>1, <3>2, <3>3, StepInside
  <2>5. CASE MarkFile
    <3>1. /\ op.pc = "mark" /\ UNCHANGED <<saved, cleanup>>
          /\ man' = [man EXCEPT ![b].moved = op.moved \union {f}]
      BY <2>1, <2>5 DEF MarkFile, At
    <3>2. /\ op'.pc \in {"copy", "record", "take"} /\ op'.b = b
          /\ op'.moved = op.moved \union {f} /\ op'.left = {}
      BY <1>0, <1>b, <2>1, <2>5 DEF MarkFile, Ops
    <3>3. /\ man'[b].state = man[b].state /\ man'[b].moved = op.moved \union {f}
          /\ \A c \in Backups \ {b} : man'[c] = man[c]
      BY <1>0, <3>1 DEF Manifests
    <3>4. Held(b)' = op.moved \union {f}
      BY <2>1, <2>2, <3>1 DEF TakeShape, Held
    <3>5. OpInv'
      BY <2>2, <3>2, <3>3, <3>4 DEF OpInv, TakeShape, PutShape, RollShape, Present
    <3> QED
      BY <1>0, <1>2, <1>b, <2>1, <3>1, <3>2, <3>3, <3>5, StepInside
  <2>6. CASE CopyOriginal
    <3>1. op.pc = "copy" /\ UNCHANGED <<saved, man, cleanup>>
      BY <2>6 DEF CopyOriginal, At
    <3>2. op'.pc \in {"record", "take"} /\ op'.b = b /\ op'.moved = op.moved /\ op'.left = {}
      BY <1>0, <1>b, <2>1, <2>6 DEF CopyOriginal, NextTake, Ops
    <3>3. OpInv'
      BY <2>1, <2>2, <3>1, <3>2 DEF OpInv, TakeShape, PutShape, RollShape, Present, Held
    <3> QED
      BY <1>0, <1>2, <1>b, <2>1, <3>1, <3>2, <3>3, StepInside
  <2>7. CASE TakeRecord
    <3>1. op.pc = "record" /\ op' = [op EXCEPT !.pc = "complete"] /\ UNCHANGED <<saved, man, cleanup>>
      BY <2>7 DEF TakeRecord, Step, At
    <3>2. op'.pc = "complete" /\ op'.b = b /\ op'.moved = op.moved /\ op'.left = {}
      BY <1>0, <1>b, <2>1, <3>1 DEF Ops
    <3>3. OpInv'
      BY <2>1, <2>2, <3>1, <3>2 DEF OpInv, TakeShape, PutShape, RollShape, Present, Held
    <3> QED
      BY <1>0, <1>2, <1>b, <2>1, <3>1, <3>2, <3>3, StepInside
  <2>8. CASE CompleteRemoval
    <3>1. /\ op.pc = "complete" /\ op' = Idle /\ UNCHANGED <<saved, cleanup>>
          /\ man' = [man EXCEPT ![b].state = "complete"]
      BY <2>1, <2>8 DEF CompleteRemoval, At
    <3>2. /\ man'[b].state = "complete" /\ man'[b].moved = man[b].moved
          /\ \A c \in Backups \ {b} : man'[c] = man[c]
      BY <1>0, <3>1 DEF Manifests
    <3>3. Held(b)' = man'[b].moved
      BY <2>1, <2>2, <3>1, <3>2 DEF TakeShape, Held
    <3>4. b \notin cleanup
      BY <1>2, <1>b, <2>1 DEF Rest, Busy
    <3>5. Rest(b)'
      BY <3>1, <3>2, <3>3, <3>4 DEF Rest
    <3> QED
      BY <1>2, <1>b, <2>1, <3>1, <3>2, <3>5, StepOut
  <2>9. CASE RemoveFault
    <3>1. op.pc # "complete" /\ UNCHANGED <<saved, man, cleanup>>
      BY <2>9 DEF RemoveFault, At
    <3>2. op'.pc = "undo" /\ op'.b = b /\ op'.left = {}
      BY <1>0, <1>b, <2>1, <2>9, <3>1 DEF RemoveFault, At, Ops
    <3>3. OpInv'
      BY <2>2, <3>1, <3>2 DEF OpInv, TakeShape, PutShape, RollShape, Present
    <3> QED
      BY <1>0, <1>2, <1>b, <2>1, <3>1, <3>2, <3>3, StepInside
  <2>10. CASE UndoFile \/ UndoUnlink
    <3>1. PICK g \in Files : \/ UNCHANGED saved
                             \/ saved' = [saved EXCEPT ![b][g] = Nothing]
      BY <1>a, <2>1, <2>10 DEF UndoFile, UndoUnlink, MoveIn, UnlinkSaved, At, Out
    <3>2. \A c \in Backups \ {b} : saved'[c] = saved[c]
      BY <1>0, <3>1, HeldOut
    <3>3. op'.pc \in {"undo", "undone"} /\ op'.b = b /\ op'.left = {} /\ UNCHANGED <<man, cleanup>>
      BY <1>0, <1>b, <2>1, <2>10 DEF UndoFile, UndoUnlink, Step, At, Ops
    <3>4. OpInv'
      BY <2>2, <3>3 DEF OpInv, TakeShape, PutShape, RollShape, Present
    <3> QED
      BY <1>0, <1>2, <1>b, <2>1, <3>2, <3>3, <3>4, StepInside
  <2>11. CASE UndoEnd
    <3>1. op.pc = "undo" /\ op' = Idle /\ man' = [man EXCEPT ![b] = NoMan] /\ UNCHANGED <<saved, cleanup>>
      BY <1>b, <2>1, <2>11 DEF UndoEnd, At
    <3>2. man'[b].state = Nothing /\ \A c \in Backups \ {b} : man'[c] = man[c]
      BY <1>0, <3>1 DEF NoMan
    <3>3. b \notin cleanup
      BY <1>2, <1>b, <2>1 DEF Rest, Busy
    <3>4. Rest(b)'
      BY <3>1, <3>2, <3>3 DEF Rest, Present
    <3> QED
      BY <1>2, <1>b, <2>1, <3>1, <3>2, <3>4, StepOut
  <2>12. CASE UndoFault \/ UndoEndFault
    BY <2>12 DEF UndoFault, UndoEndFault
  <2> QED
    BY <1>2, <2>3, <2>4, <2>5, <2>6, <2>7, <2>8, <2>9, <2>10, <2>11, <2>12 DEF Remove
<1>3. Remove => (\E b \in Backups : RemoveStart(b)) \/ op.pc # "idle"
  BY DEF Remove, At, TakeFile, TakeUnlink, MarkFile, CopyOriginal, TakeRecord,
         CompleteRemoval, RemoveFault, UndoFile, UndoUnlink, UndoFault, UndoEnd, UndoEndFault
<1> QED
  BY <1>1, <1>2, <1>3

LEMMA ExactPutBack ==
  ASSUME TypeInv, ReleaseInv, ExactInv, ~hurt, ~hurt', PutBack
  PROVE  ExactInv'
<1>0. /\ op \in Ops /\ man \in [Backups -> Manifests] /\ saved \in Vaults
      /\ game \in [Files -> Contents] /\ (op.pc # "idle" => op.b \in Backups)
  BY Typing DEF TypeInv, OpShape
<1>a. /\ op.todo \in SUBSET Files
      /\ op.todo # {} => First(op.todo) \in op.todo /\ Last(op.todo) \in op.todo
      /\ op.pc \in Out => op.todo # {}
  BY <1>0, FirstIsFile, LastIsFile DEF Ops, TypeInv, OpShape
<1>b. op.left = {} /\ OpInv /\ \A b \in Backups : Rest(b)
  BY DEF ExactInv
<1>1. ASSUME NEW b \in Backups, PutStart(b) PROVE ExactInv'
  <2>1. /\ op.pc = "idle" /\ Present(b) /\ BackupState(b) \in {"ready", "interrupted"}
        /\ UNCHANGED <<saved, man, cleanup, game>>
        /\ op' = [Idle EXCEPT !.pc = "put", !.b = b, !.todo = man[b].moved]
    BY <1>1 DEF PutStart, Restorable, At, disk
  <2>2. op'.pc = "put" /\ op'.b = b /\ op'.todo = man[b].moved /\ op'.moved = {} /\ op'.left = {}
    BY <2>1 DEF Idle
  <2>3. man[b].state # "moving"
    BY <1>b, <2>1 DEF Rest, Busy
  <2>4. man[b].moved # {} /\ \A f \in man[b].moved : saved[b][f] = man[b].rel
    BY <2>1, <2>3 DEF BackupState
  <2>5. b \notin cleanup
    <3>1. man[b].rel # Nothing /\ man[b].moved \subseteq Files
      BY <1>0, <2>1, NothingIsNoRelease DEF ReleaseInv, Manifests
    <3>2. Held(b) # {}
      BY <2>4, <3>1 DEF Held
    <3> QED
      BY <1>b, <3>2 DEF Rest
  <2>6. man[b].state = "complete" /\ Held(b) = man[b].moved
    BY <1>b, <2>1, <2>5 DEF Rest, Busy
  <2>7. OpInv'
    BY <2>1, <2>2, <2>4, <2>6 DEF OpInv, TakeShape, PutShape, RollShape, Present, Held
  <2>8. ASSUME NEW c \in Backups, c # b PROVE Rest(c)'
    BY <1>b, <2>1, <2>2, <2>8 DEF Rest, Busy, Held, Present
  <2>9. Rest(b)'
    BY <2>1, <2>2, <2>5 DEF Rest, Busy
  <2> QED
    BY <2>2, <2>7, <2>8, <2>9 DEF ExactInv
<1>2. ASSUME NEW b \in Backups, Cleanup(b) PROVE ExactInv'
  <2>1. /\ b \in cleanup /\ cleanup' = cleanup \ {b} /\ UNCHANGED <<op, saved, game>>
        /\ man'[b].state = Nothing /\ \A c \in Backups \ {b} : man'[c] = man[c]
    BY <1>0, <1>2 DEF Cleanup, NoMan
  <2>2. ~Busy(b)
    BY <1>b, <2>1 DEF Rest
  <2>3. op.pc # "idle" => man'[op.b] = man[op.b]
    BY <1>0, <2>1, <2>2 DEF Busy
  <2>4. OpInv'
    BY <1>b, <2>1, <2>3 DEF OpInv, TakeShape, PutShape, RollShape, Coming, Present, Held
  <2>5. ASSUME NEW c \in Backups, c # b PROVE Rest(c)'
    BY <1>b, <2>1, <2>5 DEF Rest, Busy, Held, Present
  <2>6. Rest(b)'
    BY <2>1 DEF Rest, Present
  <2> QED
    BY <1>b, <2>1, <2>4, <2>5, <2>6 DEF ExactInv
<1>3. CASE op.pc # "idle" /\ \A b \in Backups : ~Cleanup(b)
  <2>1. PICK b \in Backups : b = op.b
    BY <1>0, <1>3
  <2>2. PutShape(man[b]) /\ RollShape(man[b]) /\ Present(b) /\ b \notin cleanup
    BY <1>3, <1>b, <2>1 DEF OpInv, Rest, Busy
  <2>n. man[b].rel # Nothing
    BY <2>2, NothingIsNoRelease DEF ReleaseInv
  <2> DEFINE f == First(op.todo)
             l == Last(op.todo)
  <2>3. CASE PutFile
    <3>1. f \in op.todo /\ f \in Files /\ op.pc = "put" /\ UNCHANGED <<man, cleanup>>
      BY <1>a, <2>3 DEF PutFile, At
    <3>2. saved[b][f] = man[b].rel /\ game' = [game EXCEPT ![f] = saved[b][f]]
      BY <2>1, <2>2, <2>3, <3>1 DEF PutFile, MoveIn, PutShape
    <3>3. \A g \in op.moved \union {f} : game'[g] = man[b].rel
      BY <1>0, <2>2, <3>1, <3>2 DEF PutShape, Ops
    <3>4. CASE cross
      <4>1. op' = [op EXCEPT !.pc = "placed"] /\ saved' = saved
        BY <2>3, <3>4 DEF PutFile, MoveIn, Step
      <4>2. /\ op'.pc = "placed" /\ op'.b = b /\ op'.todo = op.todo
            /\ op'.moved = op.moved /\ op'.left = {}
        BY <1>0, <1>b, <2>1, <4>1 DEF Ops
      <4>3. OpInv'
        BY <2>1, <2>2, <3>1, <3>3, <4>1, <4>2
           DEF OpInv, TakeShape, PutShape, RollShape, Present, Held
      <4> QED
        BY <1>0, <1>3, <1>b, <2>1, <3>1, <4>1, <4>2, <4>3, StepInside
    <3>5. CASE ~cross
      <4>1. /\ op' = [op EXCEPT !.pc = "put", !.todo = @ \ {f}, !.moved = @ \union {f}]
            /\ saved' = [saved EXCEPT ![b][f] = Nothing]
        BY <2>1, <2>3, <3>5 DEF PutFile, MoveIn, PutDone
      <4>2. /\ op'.pc = "put" /\ op'.b = b /\ op'.todo = op.todo \ {f}
            /\ op'.moved = op.moved \union {f} /\ op'.left = {}
        BY <1>0, <1>b, <2>1, <4>1 DEF Ops
      <4>3. Held(b)' = Held(b) \ {f} /\ \A c \in Backups \ {b} : saved'[c] = saved[c]
        BY <1>0, <3>1, <4>1, HeldOut
      <4>4. \A g \in op.todo \ {f} : saved'[b][g] = saved[b][g]
        BY <1>0, <1>a, <3>1, <4>1 DEF Vaults
      <4>5. OpInv'
        BY <2>1, <2>2, <3>1, <3>3, <4>2, <4>3, <4>4
           DEF OpInv, TakeShape, PutShape, RollShape, Present
      <4> QED
        BY <1>0, <1>3, <1>b, <2>1, <3>1, <4>2, <4>3, <4>5, StepInside
    <3> QED
      BY <3>4, <3>5
  <2>4. CASE PutUnlink
    <3>1. /\ f \in op.todo /\ f \in Files /\ op.pc = "placed" /\ UNCHANGED <<man, cleanup, game>>
          /\ op' = [op EXCEPT !.pc = "put", !.todo = @ \ {f}, !.moved = @ \union {f}]
          /\ saved' = [saved EXCEPT ![b][f] = Nothing]
      BY <1>a, <2>1, <2>4 DEF PutUnlink, UnlinkSaved, PutDone, At, Out
    <3>2. /\ op'.pc = "put" /\ op'.b = b /\ op'.todo = op.todo \ {f}
          /\ op'.moved = op.moved \union {f} /\ op'.left = {}
      BY <1>0, <1>b, <2>1, <3>1 DEF Ops
    <3>3. Held(b)' = Held(b) \ {f} /\ \A c \in Backups \ {b} : saved'[c] = saved[c]
      BY <1>0, <3>1, HeldOut
    <3>4. \A g \in op.todo \ {f} : saved'[b][g] = saved[b][g]
      BY <1>0, <1>a, <3>1 DEF Vaults
    <3>5. OpInv'
      BY <2>1, <2>2, <3>1, <3>2, <3>3, <3>4
         DEF OpInv, TakeShape, PutShape, RollShape, Present
    <3> QED
      BY <1>0, <1>3, <1>b, <2>1, <3>1, <3>2, <3>3, <3>5, StepInside
  <2>5. CASE PutRecord
    <3>1. /\ op.pc = "put" /\ op.todo = {} /\ op' = Idle /\ cleanup' = cleanup \union {b}
          /\ UNCHANGED <<saved, man>>
      BY <2>1, <2>5 DEF PutRecord, At
    <3>2. Held(b)' = {} /\ man'[b].state = "complete"
      BY <2>1, <2>2, <3>1 DEF PutShape, Held
    <3>3. Rest(b)'
      BY <3>1, <3>2 DEF Rest, Busy, Idle
    <3> QED
      BY <1>3, <1>b, <2>1, <3>1, <3>3, StepOut
  <2>6. CASE PutFault
    <3>1. /\ op.pc = "put" /\ op' = [op EXCEPT !.pc = "roll", !.todo = op.moved]
          /\ UNCHANGED <<saved, man, cleanup, game>>
      BY <2>6 DEF PutFault, At, disk
    <3>2. op'.pc = "roll" /\ op'.b = b /\ op'.todo = op.moved /\ op'.left = {}
      BY <1>0, <1>b, <2>1, <3>1 DEF Ops
    <3>3. Coming' = op.moved
      BY <3>2 DEF Coming
    <3>4. Held(b)' = man[b].moved \ op.moved
      BY <2>1, <2>2, <3>1 DEF PutShape, Held
    <3>5. OpInv'
      BY <2>1, <2>2, <3>1, <3>2, <3>3, <3>4
         DEF OpInv, TakeShape, PutShape, RollShape, Present
    <3> QED
      BY <1>0, <1>3, <1>b, <2>1, <3>1, <3>2, <3>5, StepInside
  <2>7. CASE RollFile
    <3>1. /\ l \in op.todo /\ l \in Files /\ op.pc = "roll" /\ UNCHANGED <<man, cleanup>>
          /\ op' = [op EXCEPT !.pc = IF cross THEN "rolled" ELSE "recopy"]
          /\ saved' = [saved EXCEPT ![b][l] = game[l]]
          /\ game' = game \/ game' = [game EXCEPT ![l] = Nothing]
      BY <1>a, <2>1, <2>7 DEF RollFile, MoveOut, Step, At
    <3>2. /\ op'.pc \in {"rolled", "recopy"} /\ op'.b = b /\ op'.todo = op.todo /\ op'.left = {}
      BY <1>0, <1>b, <2>1, <3>1 DEF Ops
    <3>3. Coming = op.todo /\ Coming' = op.todo \ {l}
      BY <3>1, <3>2 DEF Coming
    <3>4. game[l] = man[b].rel
      BY <2>1, <2>2, <3>1, <3>3 DEF RollShape
    <3>5. Held(b)' = Held(b) \union {l} /\ \A c \in Backups \ {b} : saved'[c] = saved[c]
      BY <1>0, <2>n, <3>1, <3>4, HeldIn
    <3>6. \A g \in op.todo \ {l} : game'[g] = game[g]
      BY <1>0, <1>a, <3>1
    <3>7. Held(b)' = man[b].moved \ (op.todo \ {l})
      BY <2>1, <2>2, <3>1, <3>3, <3>5 DEF RollShape
    <3>8. OpInv'
      BY <2>1, <2>2, <3>1, <3>2, <3>3, <3>6, <3>7
         DEF OpInv, TakeShape, PutShape, RollShape, Present
    <3> QED
      BY <1>0, <1>3, <1>b, <2>1, <3>1, <3>2, <3>5, <3>8, StepInside
  <2>8. CASE RollUnlink
    <3>1. /\ op.pc = "rolled" /\ UNCHANGED <<saved, man, cleanup>>
          /\ op' = [op EXCEPT !.pc = "recopy"] /\ game' = [game EXCEPT ![l] = Nothing]
      BY <2>8 DEF RollUnlink, UnlinkGame, Step, At
    <3>2. op'.pc = "recopy" /\ op'.b = b /\ op'.todo = op.todo /\ op'.left = {}
      BY <1>0, <1>b, <2>1, <3>1 DEF Ops
    <3>3. Coming = op.todo \ {l} /\ Coming' = op.todo \ {l}
      BY <3>1, <3>2 DEF Coming
    <3>4. \A g \in op.todo \ {l} : game'[g] = game[g]
      BY <1>0, <1>a, <3>1
    <3>5. OpInv'
      BY <2>1, <2>2, <3>1, <3>2, <3>3, <3>4
         DEF OpInv, TakeShape, PutShape, RollShape, Present, Held
    <3> QED
      BY <1>0, <1>3, <1>b, <2>1, <3>1, <3>2, <3>5, StepInside
  <2>9. CASE RollOriginal
    <3>1. /\ op.pc = "recopy" /\ UNCHANGED <<saved, man, cleanup>>
          /\ op' = [op EXCEPT !.pc = "roll", !.todo = @ \ {l}]
          /\ game' = [game EXCEPT ![l] = man[b].orig[l]]
      BY <2>1, <2>9 DEF RollOriginal, RollNext, At
    <3>2. op'.pc = "roll" /\ op'.b = b /\ op'.todo = op.todo \ {l} /\ op'.left = {}
      BY <1>0, <1>b, <2>1, <3>1 DEF Ops
    <3>3. Coming = op.todo \ {l} /\ Coming' = op.todo \ {l}
      BY <3>1, <3>2 DEF Coming
    <3>4. \A g \in op.todo \ {l} : game'[g] = game[g]
      BY <1>0, <1>a, <3>1
    <3>5. OpInv'
      BY <2>1, <2>2, <3>1, <3>2, <3>3, <3>4
         DEF OpInv, TakeShape, PutShape, RollShape, Present, Held
    <3> QED
      BY <1>0, <1>3, <1>b, <2>1, <3>1, <3>2, <3>5, StepInside
  <2>10. CASE RollEnd
    <3>1. /\ op.pc = "roll" /\ op.todo = {} /\ op' = Idle /\ UNCHANGED <<saved, cleanup>>
          /\ man' = [man EXCEPT ![b].moved = @ \ op.left]
      BY <2>1, <2>10 DEF RollEnd, At
    <3>2. /\ man'[b].moved = man[b].moved /\ man'[b].state = man[b].state
          /\ \A c \in Backups \ {b} : man'[c] = man[c]
      BY <1>0, <1>b, <3>1 DEF Manifests
    <3>3. Held(b)' = man[b].moved /\ man[b].state = "complete"
      BY <2>1, <2>2, <3>1 DEF RollShape, Coming, Held
    <3>4. Rest(b)'
      BY <2>2, <3>1, <3>2, <3>3 DEF Rest
    <3> QED
      BY <1>3, <1>b, <2>1, <3>1, <3>2, <3>4, StepOut
  <2>11. CASE RollFault \/ RollEndFault
    BY <1>b, <2>11 DEF RollFault, RollEndFault
  <2>12. ASSUME NEW c \in Backups, PutStart(c) PROVE FALSE
    BY <1>3, <2>12 DEF PutStart, At
  <2> QED
    BY <1>3, <2>3, <2>4, <2>5, <2>6, <2>7, <2>8, <2>9, <2>10, <2>11, <2>12 DEF PutBack
<1>4. PutBack => \/ \E b \in Backups : PutStart(b) \/ Cleanup(b)
                 \/ op.pc # "idle"
  BY DEF PutBack, At, PutFile, PutUnlink, PutRecord, PutFault, RollFile, RollUnlink,
         RollOriginal, RollFault, RollEnd, RollEndFault
<1> QED
  BY <1>1, <1>2, <1>3, <1>4

LEMMA ExactStep ==
  TypeInv /\ ReleaseInv /\ ExactInv /\ [Next]_vars => ExactInv'
<1> SUFFICES ASSUME TypeInv, ReleaseInv, ExactInv, [Next]_vars, ~hurt' PROVE ExactInv'
  BY DEF ExactInv
<1>1. ~hurt
  <2>1. Remove => (hurt => hurt')
    BY DEF Remove, RemoveStart, TakeFile, TakeUnlink, MarkFile, CopyOriginal, TakeRecord,
           CompleteRemoval, RemoveFault, UndoFile, UndoUnlink, UndoFault, UndoEnd,
           UndoEndFault
  <2>2. PutBack => (hurt => hurt')
    BY DEF PutBack, PutStart, Cleanup, PutFile, PutUnlink, PutRecord, PutFault, RollFile,
           RollUnlink, RollOriginal, RollFault, RollEnd, RollEndFault
  <2>3. World \/ UNCHANGED vars => (hurt => hurt')
    BY DEF World, Crash, ClientInstall, ClientRestore, Edit, vars
  <2> QED
    BY <2>1, <2>2, <2>3 DEF Next
<1>2. op \in Ops
  BY Typing DEF TypeInv
<1>3. ASSUME World \/ UNCHANGED vars
      PROVE  /\ UNCHANGED <<op, saved, man, cleanup>>
             /\ op.pc \notin {"idle", "take"} => game' = game
  BY <1>3 DEF World, Crash, ClientInstall, ClientRestore, Edit, At, vars
<1>4. ASSUME World \/ UNCHANGED vars PROVE ExactInv'
  <2>1. op.left = {} /\ OpInv /\ \A b \in Backups : Rest(b)
    BY <1>1 DEF ExactInv
  <2>2. OpInv'
    BY <1>3, <1>4, <2>1 DEF OpInv, TakeShape, PutShape, RollShape, Coming, Present, Held
  <2>3. \A b \in Backups : Rest(b)'
    BY <1>3, <1>4, <2>1 DEF Rest, Busy, Held, Present
  <2> QED
    BY <1>3, <1>4, <2>1, <2>2, <2>3 DEF ExactInv
<1> QED
  BY <1>1, <1>4, ExactRemove, ExactPutBack DEF Next

(* While nothing was cut short, "the backup still lists exactly what it      *)
(* holds": outside a running operation every manifest names the files in its *)
(* backup, no more and no less, however many operations, undone failures and *)
(* interruptions by the client and the game's updater came before.           *)
THEOREM ManifestsExact ==
  Spec => []ManifestExact
<1>1. Init => ExactInv
  BY DEF Init, ExactInv, OpInv, Rest, Present, Idle, NoMan
<1>2. ExactInv /\ TypeInv => ManifestExact
  <2> SUFFICES ASSUME ExactInv, TypeInv, ~hurt, NEW b \in Backups, Settled(b)
               PROVE  Unnamed(b) = {} /\ Missing(b) = {}
    BY DEF ManifestExact
  <2>1. Held(b) = man[b].moved
    BY DEF ExactInv, Rest, Settled, Busy
  <2> QED
    BY <2>1 DEF Unnamed, Missing, Held
<1> QED
  BY <1>1, <1>2, ExactStep, ReleasesNamed, Invariance, PTL DEF Spec

-------------------------------------------------------------------------------
(* The files that crashes leave unnamed, while no step fails.                *)

Small(b) == \/ Held(b) \subseteq man[b].moved
            \/ /\ spent.crashes > 0
               /\ \E f \in Files : Held(b) \subseteq man[b].moved \union {f}

\* While a removal runs, its manifest lags behind by the file on its way.
GapTake ==
  Taking =>
    /\ op.pc \in {"take", "taken", "mark", "copy", "record"} => man[op.b].moved = op.moved
    /\ op.pc \notin {"taken", "mark"} => Held(op.b) \subseteq man[op.b].moved
    /\ op.pc \in {"taken", "mark"} =>
         Held(op.b) \subseteq man[op.b].moved \union {First(op.todo)}

GapInv ==
  spent.faults = 0 =>
    /\ op.left = {} /\ op.pc \notin {"roll", "rolled", "recopy"}
    /\ GapTake
    /\ \A b \in Backups : Present(b) /\ ~(Taking /\ op.b = b) => Small(b)

LEMMA SmallKept ==
  ASSUME NEW b, Small(b), Held(b)' \subseteq Held(b), man'[b].moved = man[b].moved,
         spent.crashes > 0 => spent'.crashes > 0
  PROVE  Small(b)'
BY DEF Small

\* A step inside a removal, or its first one.
LEMMA GapInside ==
  ASSUME NEW b \in Backups, op'.b = b, Taking', Taking => op.b = b, GapTake', op'.left = {},
         \A c \in Backups : Present(c) /\ ~(Taking /\ op.b = c) => Small(c),
         \A c \in Backups \ {b} : man'[c] = man[c] /\ saved'[c] = saved[c],
         spent' = spent
  PROVE  GapInv'
<1>1. ASSUME NEW c \in Backups, Present(c)', c # b PROVE Small(c)'
  <2>1. man'[c] = man[c] /\ saved'[c] = saved[c]
    BY <1>1
  <2>2. Small(c)
    BY <1>1, <2>1 DEF Present
  <2>3. Held(c)' = Held(c)
    BY <2>1 DEF Held
  <2> QED
    BY <2>1, <2>2, <2>3, SmallKept
<1> QED
  BY <1>1 DEF GapInv, Taking

\* A step that no removal takes.
LEMMA GapOutside ==
  ASSUME ~Taking', op'.left = {}, op'.pc \notin {"roll", "rolled", "recopy"},
         spent.crashes > 0 => spent'.crashes > 0,
         \A c \in Backups : Present(c)' => /\ Small(c) /\ Held(c)' \subseteq Held(c)
                                           /\ man'[c].moved = man[c].moved
  PROVE  GapInv'
<1>1. ASSUME NEW c \in Backups, Present(c)' PROVE Small(c)'
  <2>1. Small(c) /\ Held(c)' \subseteq Held(c) /\ man'[c].moved = man[c].moved
    BY <1>1
  <2> QED
    BY <2>1, SmallKept
<1> QED
  BY <1>1 DEF GapInv, GapTake

LEMMA GapRemove ==
  ASSUME TypeInv, ReleaseInv, GapInv, spent.faults = 0, spent' = spent, Remove
  PROVE  GapInv'
<1>0. /\ op \in Ops /\ man \in [Backups -> Manifests] /\ saved \in Vaults
      /\ spent \in Spendings /\ (op.pc # "idle" => op.b \in Backups)
  BY Typing DEF TypeInv, OpShape
<1>a. /\ op.todo \in SUBSET Files
      /\ op.todo # {} => First(op.todo) \in op.todo /\ Last(op.todo) \in op.todo
      /\ op.pc \in Out => op.todo # {}
  BY <1>0, FirstIsFile, LastIsFile DEF Ops, TypeInv, OpShape
<1>b. /\ op.left = {} /\ GapTake
      /\ \A b \in Backups : Present(b) /\ ~(Taking /\ op.b = b) => Small(b)
  BY DEF GapInv
<1>c. spent.faults + 1 # spent.faults
  BY <1>0 DEF Spendings
<1>d. ASSUME Spend("faults") PROVE FALSE
  BY <1>0, <1>c, <1>d DEF Spend, Spendings
<1>1. ASSUME NEW b \in Backups, RemoveStart(b) PROVE GapInv'
  <2>1. /\ op.pc = "idle" /\ saved' = saved /\ saved[b] = NoFiles
        /\ man' = [man EXCEPT ![b] = [state |-> "moving", rel |-> rec.rel,
                                      orig |-> rec.orig, moved |-> {}]]
    BY <1>1 DEF RemoveStart, Unused, At
  <2>2. op'.pc \in {"take", "record"} /\ op'.b = b /\ op'.moved = {} /\ op'.left = {}
    BY <1>1 DEF RemoveStart, Idle
  <2>3. Held(b)' = {} /\ man'[b].moved = {}
    BY <1>0, <2>1 DEF Held, NoFiles
  <2>4. Taking' /\ ~Taking
    BY <2>1, <2>2 DEF Taking
  <2>5. GapTake'
    BY <2>2, <2>3 DEF GapTake
  <2>6. \A c \in Backups \ {b} : man'[c] = man[c] /\ saved'[c] = saved[c]
    BY <1>0, <2>1
  <2> QED
    BY <1>b, <2>2, <2>4, <2>5, <2>6, GapInside
<1>2. CASE Taking
  <2>1. PICK b \in Backups : b = op.b
    BY <1>0, <1>2 DEF Taking
  <2> DEFINE f == First(op.todo)
  <2>3. CASE TakeFile
    <3>1. f \in Files /\ op.pc = "take" /\ UNCHANGED man
      BY <1>a, <2>3 DEF TakeFile, At, Out
    <3>2. CASE game[f] = man[b].rel
      <4>1. saved' = [saved EXCEPT ![b][f] = game[f]]
        BY <2>1, <2>3, <3>2 DEF TakeFile, MoveOut
      <4>2. /\ Held(b)' \subseteq Held(b) \union {f}
            /\ \A c \in Backups \ {b} : saved'[c] = saved[c]
        BY <1>0, <3>1, <4>1 DEF Held, Vaults
      <4>3. op' = [op EXCEPT !.pc = IF cross THEN "taken" ELSE "mark"]
        BY <2>1, <2>3, <3>2 DEF TakeFile, Step
      <4>4. /\ op'.pc \in {"taken", "mark"} /\ op'.b = b /\ op'.todo = op.todo
            /\ op'.moved = op.moved /\ op'.left = {}
        BY <1>0, <1>b, <2>1, <4>3 DEF Ops
      <4>5. GapTake' /\ Taking'
        BY <1>b, <1>2, <2>1, <3>1, <4>2, <4>4 DEF GapTake, Taking
      <4> QED
        BY <1>b, <2>1, <3>1, <4>2, <4>4, <4>5, GapInside
    <3>3. CASE game[f] # man[b].rel
      <4>1. op' = [op EXCEPT !.pc = "undo", !.todo = op.moved] /\ saved' = saved
        BY <2>1, <2>3, <3>3 DEF TakeFile
      <4>2. op'.pc = "undo" /\ op'.b = b /\ op'.left = {}
        BY <1>0, <1>b, <2>1, <4>1 DEF Ops
      <4>3. GapTake' /\ Taking'
        BY <1>b, <1>2, <2>1, <3>1, <4>1, <4>2 DEF GapTake, Taking, Held
      <4> QED
        BY <1>b, <2>1, <3>1, <4>1, <4>2, <4>3, GapInside
    <3> QED
      BY <3>2, <3>3
  <2>4. CASE TakeUnlink
    <3>1. op.pc = "taken" /\ op' = [op EXCEPT !.pc = "mark"] /\ UNCHANGED <<saved, man>>
      BY <2>4 DEF TakeUnlink, UnlinkGame, Step, At
    <3>2. /\ op'.pc = "mark" /\ op'.b = b /\ op'.todo = op.todo
          /\ op'.moved = op.moved /\ op'.left = {}
      BY <1>0, <1>b, <2>1, <3>1 DEF Ops
    <3>3. GapTake' /\ Taking'
      BY <1>b, <1>2, <2>1, <3>1, <3>2 DEF GapTake, Taking, Held
    <3> QED
      BY <1>b, <2>1, <3>1, <3>2, <3>3, GapInside
  <2>5. CASE MarkFile
    <3>1. /\ op.pc = "mark" /\ saved' = saved
          /\ man' = [man EXCEPT ![b].moved = op.moved \union {f}]
      BY <2>1, <2>5 DEF MarkFile, At
    <3>2. /\ op'.pc \in {"copy", "record", "take"} /\ op'.b = b
          /\ op'.moved = op.moved \union {f} /\ op'.left = {}
      BY <1>0, <1>b, <2>1, <2>5 DEF MarkFile, Ops
    <3>3. /\ man'[b].moved = op.moved \union {f}
          /\ \A c \in Backups \ {b} : man'[c] = man[c]
      BY <1>0, <3>1 DEF Manifests
    <3>4. Held(b)' \subseteq op.moved \union {f}
      BY <1>b, <1>2, <2>1, <3>1 DEF GapTake, Held
    <3>5. GapTake' /\ Taking'
      BY <3>2, <3>3, <3>4 DEF GapTake, Taking
    <3> QED
      BY <1>b, <2>1, <3>1, <3>2, <3>3, <3>5, GapInside
  <2>6. CASE CopyOriginal
    <3>1. op.pc = "copy" /\ UNCHANGED <<saved, man>>
      BY <2>6 DEF CopyOriginal, At
    <3>2. op'.pc \in {"record", "take"} /\ op'.b = b /\ op'.moved = op.moved /\ op'.left = {}
      BY <1>0, <1>b, <2>1, <2>6 DEF CopyOriginal, NextTake, Ops
    <3>3. GapTake' /\ Taking'
      BY <1>b, <1>2, <2>1, <3>1, <3>2 DEF GapTake, Taking, Held
    <3> QED
      BY <1>b, <2>1, <3>1, <3>2, <3>3, GapInside
  <2>7. CASE TakeRecord
    <3>1. op.pc = "record" /\ op' = [op EXCEPT !.pc = "complete"] /\ UNCHANGED <<saved, man>>
      BY <2>7 DEF TakeRecord, Step, At
    <3>2. op'.pc = "complete" /\ op'.b = b /\ op'.left = {}
      BY <1>0, <1>b, <2>1, <3>1 DEF Ops
    <3>3. GapTake' /\ Taking'
      BY <1>b, <1>2, <2>1, <3>1, <3>2 DEF GapTake, Taking, Held
    <3> QED
      BY <1>b, <2>1, <3>1, <3>2, <3>3, GapInside
  <2>8. CASE CompleteRemoval
    <3>1. /\ op.pc = "complete" /\ op' = Idle /\ saved' = saved
          /\ man' = [man EXCEPT ![b].state = "complete"]
      BY <2>1, <2>8 DEF CompleteRemoval, At
    <3>2. /\ \A c \in Backups : man'[c].moved = man[c].moved
          /\ \A c \in Backups \ {b} : man'[c] = man[c]
      BY <1>0, <3>1 DEF Manifests
    <3>3. Small(b)
      BY <1>b, <1>2, <2>1, <3>1 DEF GapTake, Small
    <3>4. ASSUME NEW c \in Backups, Present(c)'
          PROVE  Small(c) /\ Held(c)' \subseteq Held(c) /\ man'[c].moved = man[c].moved
      BY <1>b, <2>1, <3>1, <3>2, <3>3, <3>4 DEF Held, Present
    <3>5. ~Taking' /\ op'.left = {} /\ op'.pc \notin {"roll", "rolled", "recopy"}
      BY <3>1 DEF Taking, Idle
    <3> QED
      BY <3>4, <3>5, GapOutside
  <2>9. CASE UndoFile \/ UndoUnlink
    <3>1. PICK g \in Files : \/ UNCHANGED saved
                             \/ saved' = [saved EXCEPT ![b][g] = Nothing]
      BY <1>a, <2>1, <2>9 DEF UndoFile, UndoUnlink, MoveIn, UnlinkSaved, At, Out
    <3>2. /\ \A c \in Backups \ {b} : saved'[c] = saved[c]
          /\ Held(b)' \subseteq Held(b)
      BY <1>0, <3>1, HeldOut DEF Held
    <3>3. /\ op.pc \in {"undo", "undone"} /\ op'.pc \in {"undo", "undone"}
          /\ op'.b = b /\ op'.left = {} /\ man' = man
      BY <1>0, <1>b, <2>1, <2>9 DEF UndoFile, UndoUnlink, Step, At, Ops
    <3>4. GapTake' /\ Taking'
      BY <1>b, <1>2, <2>1, <3>2, <3>3 DEF GapTake, Taking
    <3> QED
      BY <1>b, <2>1, <3>2, <3>3, <3>4, GapInside
  <2>10. CASE UndoEnd
    <3>1. op' = Idle /\ man' = [man EXCEPT ![b] = NoMan] /\ saved' = saved
      BY <1>b, <2>1, <2>10 DEF UndoEnd
    <3>2. man'[b].state = Nothing /\ \A c \in Backups \ {b} : man'[c] = man[c]
      BY <1>0, <3>1 DEF NoMan
    <3>3. ASSUME NEW c \in Backups, Present(c)'
          PROVE  Small(c) /\ Held(c)' \subseteq Held(c) /\ man'[c].moved = man[c].moved
      <4>1. c # b /\ man'[c] = man[c]
        BY <3>2, <3>3 DEF Present
      <4> QED
        BY <1>b, <2>1, <3>1, <3>3, <4>1 DEF Held, Present
    <3>4. ~Taking' /\ op'.left = {} /\ op'.pc \notin {"roll", "rolled", "recopy"}
      BY <3>1 DEF Taking, Idle
    <3> QED
      BY <3>3, <3>4, GapOutside
  <2>11. CASE RemoveFault \/ UndoFault \/ UndoEndFault
    BY <1>d, <2>11 DEF RemoveFault, UndoFault, UndoEndFault
  <2>12. ASSUME NEW c \in Backups, RemoveStart(c) PROVE FALSE
    BY <1>2, <2>12 DEF RemoveStart, At, Taking
  <2> QED
    BY <2>3, <2>4, <2>5, <2>6, <2>7, <2>8, <2>9, <2>10, <2>11, <2>12 DEF Remove
<1>3. Remove => (\E b \in Backups : RemoveStart(b)) \/ Taking
  BY DEF Remove, At, Taking, TakeFile, TakeUnlink, MarkFile, CopyOriginal, TakeRecord,
         CompleteRemoval, RemoveFault, UndoFile, UndoUnlink, UndoFault, UndoEnd, UndoEndFault
<1> QED
  BY <1>1, <1>2, <1>3
LEMMA GapPutBack ==
  ASSUME TypeInv, ReleaseInv, GapInv, spent.faults = 0, spent' = spent, PutBack
  PROVE  GapInv'
<1>0. /\ op \in Ops /\ man \in [Backups -> Manifests] /\ saved \in Vaults
      /\ spent \in Spendings /\ (op.pc # "idle" => op.b \in Backups)
  BY Typing DEF TypeInv, OpShape
<1>a. /\ op.todo \in SUBSET Files
      /\ op.todo # {} => First(op.todo) \in op.todo
      /\ op.pc \in Out => op.todo # {}
  BY <1>0, FirstIsFile DEF Ops, TypeInv, OpShape
<1>b. /\ op.left = {} /\ op.pc \notin {"roll", "rolled", "recopy"} /\ GapTake
      /\ \A b \in Backups : Present(b) /\ ~(Taking /\ op.b = b) => Small(b)
  BY DEF GapInv
<1>c. ASSUME Spend("faults") PROVE FALSE
  BY <1>0, <1>c DEF Spend, Spendings
<1>1. ASSUME NEW b \in Backups, PutStart(b) PROVE GapInv'
  <2>1. op.pc = "idle" /\ UNCHANGED <<saved, man>>
        /\ op' = [Idle EXCEPT !.pc = "put", !.b = b, !.todo = man[b].moved]
    BY <1>1 DEF PutStart, At, disk
  <2>2. op'.pc = "put" /\ op'.left = {} /\ ~Taking /\ ~Taking'
    BY <2>1 DEF Idle, Taking
  <2>3. ASSUME NEW c \in Backups, Present(c)'
        PROVE  Small(c) /\ Held(c)' \subseteq Held(c) /\ man'[c].moved = man[c].moved
    BY <1>b, <2>1, <2>2, <2>3 DEF Present, Held
  <2> QED
    BY <2>2, <2>3, GapOutside
<1>2. ASSUME NEW b \in Backups, Cleanup(b) PROVE GapInv'
  <2>1. /\ b \in cleanup /\ UNCHANGED <<op, saved>>
        /\ man'[b].state = Nothing /\ \A c \in Backups \ {b} : man'[c] = man[c]
    BY <1>0, <1>2 DEF Cleanup, NoMan
  <2>2. ASSUME NEW c \in Backups, Present(c)', ~(Taking /\ op.b = c)
        PROVE  Small(c) /\ Held(c)' \subseteq Held(c) /\ man'[c].moved = man[c].moved
    <3>1. c # b
      BY <2>1, <2>2 DEF Present
    <3>2. man'[c] = man[c]
      BY <2>1, <3>1
    <3> QED
      BY <1>b, <2>1, <2>2, <3>2 DEF Present, Held
  <2>3. CASE Taking
    <3>1. PICK t \in Backups : t = op.b
      BY <1>0, <2>3 DEF Taking
    <3>2. man'[t] = man[t] /\ Taking' /\ Held(t)' = Held(t)
      BY <2>1, <2>3, <3>1 DEF ReleaseInv, Taking, Held
    <3>3. GapTake'
      BY <1>b, <2>1, <2>3, <3>1, <3>2 DEF GapTake, Taking
    <3>4. ASSUME NEW c \in Backups, Present(c)', ~(Taking' /\ op'.b = c) PROVE Small(c)'
      <4>1. Small(c) /\ Held(c)' \subseteq Held(c) /\ man'[c].moved = man[c].moved
        BY <2>1, <2>2, <2>3, <3>2, <3>4
      <4> QED
        BY <4>1, SmallKept
    <3> QED
      BY <1>b, <2>1, <3>3, <3>4 DEF GapInv
  <2>4. CASE ~Taking
    BY <1>b, <2>1, <2>2, <2>4, GapOutside DEF Taking
  <2> QED
    BY <2>3, <2>4
<1>3. CASE PutFile \/ PutUnlink \/ PutRecord
  <2>1. op.pc \in {"put", "placed"} /\ ~Taking /\ man' = man
    BY <1>3 DEF PutFile, PutUnlink, PutRecord, At, Taking
  <2>a. \/ op' = Idle
        \/ op' = [op EXCEPT !.pc = "placed"]
        \/ \E S, T : op' = [op EXCEPT !.pc = "put", !.todo = S, !.moved = T]
    BY <1>0, <1>3 DEF PutFile, PutUnlink, PutRecord, PutDone, Step, Ops
  <2>b. op'.left = {} /\ op'.pc \in {"idle", "put", "placed"}
    <3>1. ASSUME NEW S, NEW T, op' = [op EXCEPT !.pc = "put", !.todo = S, !.moved = T]
          PROVE  op'.left = op.left /\ op'.pc = "put"
      BY <1>0, <3>1 DEF Ops
    <3>2. CASE op' = [op EXCEPT !.pc = "placed"]
      BY <1>0, <1>b, <3>2 DEF Ops
    <3>3. CASE op' = Idle
      BY <3>3 DEF Idle
    <3>4. CASE \E S, T : op' = [op EXCEPT !.pc = "put", !.todo = S, !.moved = T]
      <4>1. op'.left = op.left /\ op'.pc = "put"
        BY <3>1, <3>4
      <4> QED
        BY <1>b, <4>1
    <3> QED
      BY <2>a, <3>2, <3>3, <3>4
  <2>2. PICK b \in Backups : b = op.b
    BY <1>0, <2>1
  <2>3. \/ saved' = saved
        \/ \E f \in Files : saved' = [saved EXCEPT ![b][f] = Nothing]
    BY <1>a, <1>3, <2>2 DEF PutFile, PutUnlink, PutRecord, MoveIn, UnlinkSaved, At, Out
  <2>4. \A c \in Backups : Held(c)' \subseteq Held(c)
    BY <1>0, <2>3 DEF Held, Vaults
  <2>5. ASSUME NEW c \in Backups, Present(c)'
        PROVE  Small(c) /\ Held(c)' \subseteq Held(c) /\ man'[c].moved = man[c].moved
    BY <1>b, <2>1, <2>4, <2>5 DEF Present
  <2> QED
    BY <2>b, <2>5, GapOutside DEF Taking
<1>4. CASE PutFault \/ RollFault
  BY <1>c, <1>4 DEF PutFault, RollFault
<1>5. CASE RollFile \/ RollUnlink \/ RollOriginal \/ RollEnd \/ RollEndFault
  BY <1>b, <1>5 DEF RollFile, RollUnlink, RollOriginal, RollEnd, RollEndFault, At
<1> QED
  BY <1>1, <1>2, <1>3, <1>4, <1>5 DEF PutBack

\* A crash leaves the file that was on its way unnamed; before it every file
\* was named in that backup.
LEMMA GapWorld ==
  ASSUME TypeInv, ReleaseInv, GapInv, spent.faults = 0, spent.crashes \in Nat,
         World \/ UNCHANGED vars
  PROVE  GapInv'
<1>0. /\ op \in Ops /\ spent \in Spendings /\ (op.pc # "idle" => op.b \in Backups)
  BY Typing DEF TypeInv, OpShape
<1>a. op.pc \in Out => First(op.todo) \in Files
  BY <1>0, FirstIsFile DEF Ops, TypeInv, OpShape
<1>b. /\ op.left = {} /\ op.pc \notin {"roll", "rolled", "recopy"} /\ GapTake
      /\ \A b \in Backups : Present(b) /\ ~(Taking /\ op.b = b) => Small(b)
  BY DEF GapInv
<1>1. UNCHANGED <<saved, man>>
  BY DEF World, Crash, ClientInstall, ClientRestore, Edit, disk, vars
<1>2. \A b : Held(b)' = Held(b) /\ Present(b)' = Present(b)
  BY <1>1 DEF Held, Present
<1>3. CASE op' = op
  <2>1. spent.crashes > 0 => spent'.crashes > 0
    BY <1>0 DEF World, Crash, ClientInstall, ClientRestore, Edit, Spend, vars, Spendings
  <2>2. Taking' = Taking
    BY <1>3 DEF Taking
  <2>3. GapTake'
    BY <1>b, <1>1, <1>3, <2>2 DEF GapTake, Held
  <2>4. ASSUME NEW c \in Backups, Present(c)', ~(Taking' /\ op'.b = c) PROVE Small(c)'
    <3>1. Small(c)
      BY <1>b, <1>2, <1>3, <2>2, <2>4
    <3> QED
      BY <1>1, <1>2, <2>1, <3>1, SmallKept
  <2> QED
    BY <1>b, <1>3, <2>3, <2>4 DEF GapInv
<1>4. CASE op' # op
  <2>1. op' = Idle /\ op.pc # "idle" /\ Spend("crashes")
    BY <1>4 DEF World, Crash, ClientInstall, ClientRestore, Edit, At, vars
  <2>2. spent'.crashes > 0
    BY <1>0, <2>1 DEF Spend, Spendings
  <2>3. ASSUME NEW c \in Backups, Present(c) PROVE Small(c)'
    <3>1. CASE Taking /\ op.b = c
      <4>1. \/ Held(c) \subseteq man[c].moved
            \/ \E f \in Files : Held(c) \subseteq man[c].moved \union {f}
        BY <1>a, <1>b, <3>1 DEF GapTake, Out
      <4> QED
        BY <1>1, <1>2, <2>2, <4>1 DEF Small
    <3>2. CASE ~(Taking /\ op.b = c)
      <4>1. Small(c)
        BY <1>b, <2>3, <3>2
      <4> QED
        BY <1>1, <1>2, <2>2, <4>1, SmallKept
    <3> QED
      BY <3>1, <3>2
  <2> QED
    BY <1>2, <2>1, <2>3 DEF GapInv, GapTake, Taking, Idle
<1> QED
  BY <1>3, <1>4

LEMMA GapStep ==
  TypeInv /\ ReleaseInv /\ GapInv /\ [Next]_vars => GapInv'
<1> SUFFICES ASSUME TypeInv, ReleaseInv, GapInv, [Next]_vars, spent'.faults = 0
             PROVE  GapInv'
  BY DEF GapInv
<1>1. spent \in Spendings
  BY Typing DEF TypeInv
<1>2. Remove \/ PutBack => spent' = spent \/ Spend("faults")
  BY DEF Remove, RemoveStart, TakeFile, TakeUnlink, MarkFile, CopyOriginal, TakeRecord,
         CompleteRemoval, RemoveFault, UndoFile, UndoUnlink, UndoFault, UndoEnd, UndoEndFault,
         PutBack, PutStart, Cleanup, PutFile, PutUnlink, PutRecord, PutFault, RollFile,
         RollUnlink, RollOriginal, RollFault, RollEnd, RollEndFault
<1>3. World \/ UNCHANGED vars => spent'.faults = spent.faults
  BY <1>1 DEF World, Crash, ClientInstall, ClientRestore, Edit, Spend, vars, Spendings
<1>4. ~Spend("faults")
  BY <1>1 DEF Spend, Spendings
<1>5. spent.faults = 0 /\ spent.crashes \in Nat
  BY <1>1, <1>2, <1>3, <1>4 DEF Next, Spendings
<1> QED
  BY <1>2, <1>4, <1>5, GapRemove, GapPutBack, GapWorld DEF Next

(* While no step fails, any number of crashes leaves at most one file in a   *)
(* backup that its manifest does not name: _remove writes the manifest after *)
(* every file, and _undo_moves and the roll back never leave a second one.   *)
THEOREM GapsAtMostOne ==
  Spec => []GapAtMostOne
<1>1. Init => GapInv
  BY DEF Init, GapInv, GapTake, Taking, Present, Idle, NoMan
<1>2. GapInv => GapAtMostOne
  <2> SUFFICES ASSUME GapInv, spent.faults = 0, NEW b \in Backups, Settled(b)
               PROVE  Cardinality(Unnamed(b)) <= 1
    BY DEF GapAtMostOne
  <2>1. Small(b)
    BY DEF GapInv, Settled
  <2>2. Unnamed(b) = Held(b) \ man[b].moved
    BY DEF Unnamed, Held
  <2>3. Unnamed(b) = {} \/ \E f \in Files : Unnamed(b) = {f}
    BY <2>1, <2>2 DEF Small
  <2>4. Cardinality({}) = 0 /\ \A f \in Files : Cardinality({f}) = 1
    BY FS_Singleton, FS_EmptySet
  <2> QED
    BY <2>3, <2>4
<1> QED
  BY <1>1, <1>2, GapStep, ReleasesNamed, Invariance, PTL DEF Spec


-------------------------------------------------------------------------------
(* The backups, whatever was cut short: what a Put back can rely on.         *)

Moving(b) == man[b].state = "moving"
\* A Put back has returned everything; its folder is left, or about to go.
Returned(b) == b \in cleanup \/ (man[b].state = "complete" /\ brec[b] = NoRec)

Fits(b) ==
  /\ ~Present(b) => man[b] = NoMan
  /\ Present(b) /\ brec[b] # NoRec => brec[b].rel = man[b].rel
  /\ Returned(b) => \A f \in man[b].moved : saved[b][f] = Nothing

\* A removal, and the undoing of it.
TakeFits ==
  /\ Taking => Moving(op.b) /\ (op.pc = "complete" <=> brec[op.b] # NoRec)
  /\ Taking /\ op.pc # "complete" => rec # NoRec /\ rec.rel = man[op.b].rel
  /\ op.pc \in {"take", "taken", "mark", "copy", "record", "complete"} =>
       /\ man[op.b].moved = op.moved
       /\ \A f \in op.moved : saved[op.b][f] = man[op.b].rel
  /\ op.pc \in {"taken", "mark"} => saved[op.b][First(op.todo)] = man[op.b].rel
  /\ op.pc = "copy" => First(op.todo) \in op.moved
  /\ op.pc = "record" => op.todo = {}
  /\ op.pc \in {"undo", "undone"} =>
       /\ op.todo \subseteq op.moved
       /\ \A f \in op.todo : saved[op.b][f] = man[op.b].rel
       /\ \A f \in man[op.b].moved \ op.moved :
            saved[op.b][f] = Nothing /\ game[f] = man[op.b].rel
  /\ op.pc = "undone" => game[Last(op.todo)] = man[op.b].rel

\* A Put back.  One may run, with nothing to do, on a folder that a finished
\* one is about to delete.
PutFits ==
  /\ Putting => /\ op.todo \union op.moved \subseteq man[op.b].moved
                /\ man[op.b].state = "complete" => ~Returned(op.b)
                /\ man[op.b].moved = {} \/ (Present(op.b) /\ ~Returned(op.b))
  /\ op.pc \in {"put", "placed"} =>
       /\ brec[op.b] = NoRec \/ rec = NoRec
       /\ man[op.b].moved = op.todo \union op.moved /\ op.todo \intersect op.moved = {}
       /\ \A f \in op.todo : saved[op.b][f] = man[op.b].rel
       /\ \A f \in op.moved : game[f] = man[op.b].rel /\ saved[op.b][f] = Nothing
  /\ op.pc = "placed" => game[First(op.todo)] = man[op.b].rel

JournalInv ==
  /\ \A b, c \in Backups : Moving(b) /\ Moving(c) => b = c
  /\ \A b \in Backups : Fits(b)
  /\ TakeFits /\ PutFits

\* A backup that a step leaves alone.
LEMMA FitsStill ==
  ASSUME NEW c \in Backups, Fits(c), c \in cleanup' => c \in cleanup,
         man'[c] = man[c], brec'[c] = brec[c], saved'[c] = saved[c]
  PROVE  Fits(c)'
BY DEF Fits, Present, Returned

\* A backup that is being filled.
LEMMA FitsMoving ==
  ASSUME NEW b \in Backups, man'[b].state = "moving", b \notin cleanup',
         brec'[b] = NoRec \/ brec'[b].rel = man'[b].rel
  PROVE  Fits(b)'
BY DEF Fits, Present, Returned, Nothing

\* A step of an operation on b.
LEMMA JournalStep ==
  ASSUME JournalInv, NEW b \in Backups, Fits(b)', TakeFits', PutFits',
         \A c \in Backups : Moving(c)' => Moving(c),
         \A c \in Backups \ {b} : /\ man'[c] = man[c] /\ brec'[c] = brec[c]
                                  /\ saved'[c] = saved[c]
                                  /\ c \in cleanup' => c \in cleanup
  PROVE  JournalInv'
<1>1. \A c \in Backups : Fits(c)'
  BY FitsStill DEF JournalInv
<1> QED
  BY <1>1 DEF JournalInv

\* Nothing is claimed of an operation that is over.
LEMMA JournalIdle ==
  ASSUME op'.pc = "idle"
  PROVE  TakeFits' /\ PutFits'
BY DEF TakeFits, PutFits, Taking, Putting

\* A step inside a removal of backup b.
LEMMA JournalTake ==
  ASSUME TypeInv, ReleaseInv, JournalInv, Taking, NEW b \in Backups, b = op.b,
         UNCHANGED cleanup, TakeFits', op'.pc \in Pcs, ~Putting',
         man'[b].state \in {"moving", "complete"} /\ man'[b].rel = man[b].rel,
         man'[b].state = "moving" \/ brec'[b] # NoRec,
         brec'[b] \in {brec[b], rec} /\ (brec'[b] # brec[b] => op.pc # "complete"),
         \A c \in Backups \ {b} : man'[c] = man[c] /\ brec'[c] = brec[c] /\ saved'[c] = saved[c]
  PROVE  JournalInv'
<1>1. Moving(b) /\ b \notin cleanup /\ Fits(b) /\ Present(b)
  BY DEF JournalInv, TakeFits, ReleaseInv
<1>2. brec'[b] = NoRec \/ brec'[b].rel = man'[b].rel
  BY <1>1 DEF JournalInv, TakeFits, Fits
<1>3. Fits(b)'
  BY <1>1, <1>2 DEF Fits, Present, Returned, Nothing
<1>4. PutFits'
  BY DEF PutFits, Putting
<1>5. \A c \in Backups : Moving(c)' => Moving(c)
  BY <1>1 DEF Moving
<1> QED
  BY <1>3, <1>4, <1>5, JournalStep

LEMMA JournalRemove ==
  ASSUME TypeInv, ReleaseInv, JournalInv, Remove
  PROVE  JournalInv'
<1>0. /\ op \in Ops /\ man \in [Backups -> Manifests] /\ saved \in Vaults
      /\ game \in [Files -> Contents] /\ brec \in [Backups -> Recs]
      /\ (op.pc # "idle" => op.b \in Backups)
  BY Typing DEF TypeInv, OpShape
<1>a. /\ op.todo \in SUBSET Files /\ op.moved \in SUBSET Files
      /\ op.todo # {} => First(op.todo) \in op.todo /\ Last(op.todo) \in op.todo
      /\ op.pc \in Out => op.todo # {}
  BY <1>0, FirstIsFile, LastIsFile DEF Ops, TypeInv, OpShape
<1>1. ASSUME NEW b \in Backups, RemoveStart(b) PROVE JournalInv'
  <2>1. /\ op.pc = "idle" /\ UNCHANGED <<saved, cleanup, rec, brec>> /\ b \notin cleanup
        /\ brec[b] = NoRec /\ rec # NoRec /\ ~Blocked
        /\ man' = [man EXCEPT ![b] = [state |-> "moving", rel |-> rec.rel,
                                      orig |-> rec.orig, moved |-> {}]]
    BY <1>1 DEF RemoveStart, Unused, At
  <2>2. /\ op'.b = b /\ op'.moved = {} /\ op'.pc \in {"take", "record"}
        /\ op'.pc = "record" => op'.todo = {}
    BY <1>1 DEF RemoveStart, Idle
  <2>3. /\ man'[b].state = "moving" /\ man'[b].moved = {} /\ man'[b].rel = rec.rel
        /\ \A c \in Backups \ {b} : man'[c] = man[c]
    BY <1>0, <2>1
  <2>4. \A c \in Backups : ~Moving(c)
    BY <2>1 DEF Blocked, Moving, Present, BackupState, Nothing
  <2>5. \A c \in Backups \ {b} : ~Moving(c)'
    BY <2>3, <2>4 DEF Moving
  <2>6. Fits(b)'
    BY <2>1, <2>3, FitsMoving
  <2>7. \A c \in Backups : Fits(c)'
    BY <2>1, <2>3, <2>6, FitsStill DEF JournalInv
  <2>8. TakeFits'
    BY <2>1, <2>2, <2>3 DEF TakeFits, Taking, Moving
  <2>9. PutFits'
    BY <2>2 DEF PutFits, Putting
  <2> QED
    BY <2>5, <2>7, <2>8, <2>9 DEF JournalInv
<1>2. CASE op.pc # "idle" /\ \A b \in Backups : ~RemoveStart(b)
  <2>0. PICK b \in Backups : b = op.b
    BY <1>0, <1>2
  <2>1. Taking
    BY <1>2 DEF Remove, Taking, At, TakeFile, TakeUnlink, MarkFile, CopyOriginal, TakeRecord,
         CompleteRemoval, RemoveFault, UndoFile, UndoUnlink, UndoFault, UndoEnd, UndoEndFault
  <2>2. Moving(b) /\ Present(b) /\ b \notin cleanup /\ Fits(b)
    BY <2>0, <2>1 DEF JournalInv, TakeFits, ReleaseInv
  <2>n. man[b].rel # Nothing
    BY <2>2, NothingIsNoRelease DEF ReleaseInv
  <2> DEFINE f == First(op.todo)
             l == Last(op.todo)
  <2>3. CASE TakeFile
    <3>1. f \in op.todo /\ f \in Files /\ op.pc = "take" /\ UNCHANGED <<man, brec, rec, cleanup>>
      BY <1>a, <2>3 DEF TakeFile, At, Out
    <3>2. CASE game[f] = man[b].rel
      <4>1. /\ saved' = [saved EXCEPT ![b][f] = man[b].rel]
            /\ op' = [op EXCEPT !.pc = IF cross THEN "taken" ELSE "mark"]
        BY <2>0, <2>3, <3>2 DEF TakeFile, MoveOut, Step
      <4>2. /\ op'.pc \in {"taken", "mark"} /\ op'.b = b /\ op'.todo = op.todo
            /\ op'.moved = op.moved
        BY <1>0, <2>0, <4>1 DEF Ops
      <4>3. /\ saved'[b][f] = man[b].rel /\ \A g \in Files : g # f => saved'[b][g] = saved[b][g]
            /\ \A c \in Backups \ {b} : saved'[c] = saved[c]
        BY <1>0, <3>1, <4>1 DEF Vaults
      <4>4. \A g \in op.moved : saved'[b][g] = man[b].rel
        BY <1>a, <2>0, <3>1, <4>3 DEF JournalInv, TakeFits
      <4>5. TakeFits'
        BY <2>0, <2>1, <3>1, <4>2, <4>3, <4>4 DEF JournalInv, TakeFits, Taking, Moving
      <4> QED
        BY <2>0, <2>1, <2>2, <3>1, <4>2, <4>3, <4>5, JournalTake DEF Putting, Moving, Pcs
    <3>3. CASE game[f] # man[b].rel
      <4>1. op' = [op EXCEPT !.pc = "undo", !.todo = op.moved] /\ saved' = saved /\ game' = game
        BY <2>0, <2>3, <3>3 DEF TakeFile
      <4>2. op'.pc = "undo" /\ op'.b = b /\ op'.todo = op.moved /\ op'.moved = op.moved
        BY <1>0, <2>0, <4>1 DEF Ops
      <4>3. TakeFits'
        BY <2>0, <2>1, <3>1, <4>1, <4>2 DEF JournalInv, TakeFits, Taking, Moving
      <4> QED
        BY <2>0, <2>1, <2>2, <3>1, <4>1, <4>2, <4>3, JournalTake DEF Putting, Moving, Pcs
    <3> QED
      BY <3>2, <3>3
  <2>4. CASE TakeUnlink
    <3>1. /\ op.pc = "taken" /\ op' = [op EXCEPT !.pc = "mark"]
          /\ UNCHANGED <<saved, man, brec, rec, cleanup>>
      BY <2>4 DEF TakeUnlink, UnlinkGame, Step, At
    <3>2. op'.pc = "mark" /\ op'.b = b /\ op'.todo = op.todo /\ op'.moved = op.moved
      BY <1>0, <2>0, <3>1 DEF Ops
    <3>3. TakeFits'
      BY <2>0, <2>1, <3>1, <3>2 DEF JournalInv, TakeFits, Taking, Moving
    <3> QED
      BY <2>0, <2>1, <2>2, <3>1, <3>2, <3>3, JournalTake DEF Putting, Moving, Pcs
  <2>5. CASE MarkFile
    <3>1. /\ op.pc = "mark" /\ UNCHANGED <<saved, brec, rec, cleanup>>
          /\ man' = [man EXCEPT ![b].moved = op.moved \union {f}] /\ f \in op.todo
      BY <1>a, <2>0, <2>5 DEF MarkFile, At, Out
    <3>2. /\ op'.b = b /\ op'.moved = op.moved \union {f}
          /\ \/ op'.pc = "copy" /\ op'.todo = op.todo
             \/ op'.pc = (IF op.todo = {f} THEN "record" ELSE "take") /\ op'.todo = op.todo \ {f}
      BY <1>0, <2>0, <2>5 DEF MarkFile, Ops
    <3>3. /\ man'[b].state = man[b].state /\ man'[b].moved = op.moved \union {f}
          /\ man'[b].rel = man[b].rel /\ \A c \in Backups \ {b} : man'[c] = man[c]
      BY <1>0, <3>1 DEF Manifests
    <3>4. \A g \in op.moved \union {f} : saved[b][g] = man[b].rel
      BY <2>0, <3>1 DEF JournalInv, TakeFits
    <3>5. op'.pc = "copy" => First(op'.todo) \in op'.moved
      BY <3>2
    <3>6. op'.pc = "record" => op'.todo = {}
      BY <3>2
    <3>7. op'.pc \in {"copy", "record", "take"}
      BY <3>2
    <3> HIDE DEF f
    <3>8. TakeFits'
      BY <2>0, <2>1, <3>1, <3>2, <3>3, <3>4, <3>5, <3>6, <3>7
         DEF JournalInv, TakeFits, Taking, Moving
    <3> QED
      BY <2>0, <2>1, <2>2, <3>1, <3>3, <3>7, <3>8, JournalTake DEF Putting, Moving, Pcs
  <2>6. CASE CopyOriginal
    <3>1. op.pc = "copy" /\ UNCHANGED <<saved, man, brec, rec, cleanup>>
      BY <2>6 DEF CopyOriginal, At
    <3>2. /\ op'.pc \in {"record", "take"} /\ op'.b = b /\ op'.moved = op.moved
          /\ op'.pc = "record" => op'.todo = {}
      BY <1>0, <2>0, <2>6 DEF CopyOriginal, NextTake, Ops
    <3>3. TakeFits'
      BY <2>0, <2>1, <3>1, <3>2 DEF JournalInv, TakeFits, Taking, Moving
    <3> QED
      BY <2>0, <2>1, <2>2, <3>1, <3>2, <3>3, JournalTake DEF Putting, Moving, Pcs
  <2>7. CASE TakeRecord
    <3>1. /\ op.pc = "record" /\ op' = [op EXCEPT !.pc = "complete"]
          /\ UNCHANGED <<saved, man, cleanup>> /\ brec' = [brec EXCEPT ![b] = rec]
      BY <2>0, <2>7 DEF TakeRecord, Step, At
    <3>2. op'.pc = "complete" /\ op'.b = b /\ op'.moved = op.moved
      BY <1>0, <2>0, <3>1 DEF Ops
    <3>3. brec'[b] = rec /\ rec # NoRec /\ \A c \in Backups \ {b} : brec'[c] = brec[c]
      BY <1>0, <2>1, <3>1 DEF JournalInv, TakeFits
    <3>4. TakeFits'
      BY <2>0, <2>1, <3>1, <3>2, <3>3 DEF JournalInv, TakeFits, Taking, Moving
    <3> QED
      BY <2>0, <2>1, <2>2, <3>1, <3>2, <3>3, <3>4, JournalTake DEF Putting, Moving, Pcs
  <2>8. CASE CompleteRemoval
    <3>1. /\ op.pc = "complete" /\ op' = Idle /\ UNCHANGED <<saved, cleanup, brec, rec>>
          /\ man' = [man EXCEPT ![b].state = "complete"] /\ brec[b] # NoRec
      BY <2>0, <2>1, <2>8 DEF CompleteRemoval, At, JournalInv, TakeFits
    <3>2. /\ man'[b].state = "complete" /\ man'[b].moved = man[b].moved
          /\ man'[b].rel = man[b].rel /\ \A c \in Backups \ {b} : man'[c] = man[c]
      BY <1>0, <3>1 DEF Manifests
    <3>3. TakeFits'
      BY <3>1, JournalIdle DEF Idle
    <3> QED
      BY <2>0, <2>1, <2>2, <3>1, <3>2, <3>3, JournalTake DEF Putting, Idle, Pcs
  <2>9. CASE RemoveFault
    <3>1. UNCHANGED <<saved, man, game, brec, rec, cleanup>>
      BY <2>9 DEF RemoveFault
    <3>2. CASE op.pc = "complete"
      <4>1. op' = Idle
        BY <2>9, <3>2 DEF RemoveFault, At
      <4> QED
        BY <2>0, <2>1, <2>2, <3>1, <4>1, JournalIdle, JournalTake DEF Putting, Moving, Idle, Pcs
    <3>3. CASE op.pc # "complete"
      <4>1. /\ op'.pc = "undo" /\ op'.b = b /\ op'.todo = op'.moved
            /\ op'.moved = op.moved \union (IF op.pc = "mark" THEN {f} ELSE {})
        BY <1>0, <2>0, <2>9, <3>3 DEF RemoveFault, At, Ops
      <4>2. \A g \in op'.todo : saved[b][g] = man[b].rel
        BY <2>0, <2>9, <3>3, <4>1 DEF RemoveFault, JournalInv, TakeFits
      <4>3. man[b].moved \ op'.moved = {}
        BY <2>0, <2>9, <3>3, <4>1 DEF RemoveFault, JournalInv, TakeFits
      <4> HIDE DEF f
      <4>4. TakeFits'
        BY <2>0, <2>1, <2>2, <3>1, <3>3, <4>1, <4>2, <4>3 DEF JournalInv, TakeFits, Taking, Moving
      <4> QED
        BY <2>0, <2>1, <2>2, <3>1, <4>1, <4>4, JournalTake DEF Putting, Moving, Pcs
    <3> QED
      BY <3>2, <3>3
  <2>10. CASE UndoFile
    <3>1. /\ op.pc = "undo" /\ op.todo # {} /\ MoveIn(l) /\ UNCHANGED <<man, brec, rec, cleanup>>
          /\ IF cross THEN op' = [op EXCEPT !.pc = "undone"]
             ELSE op' = [op EXCEPT !.todo = @ \ {l}, !.moved = @ \ {l}]
      BY <2>10 DEF UndoFile, At, Step
    <3>2. l \in op.todo /\ l \in Files /\ saved[b][l] = man[b].rel /\ op.todo \subseteq op.moved
      BY <1>a, <2>0, <3>1 DEF JournalInv, TakeFits
    <3>3. game'[l] = man[b].rel /\ \A g \in Files : game[g] = man[b].rel => game'[g] = man[b].rel
      BY <1>0, <2>0, <3>1, <3>2 DEF MoveIn
    <3>4. CASE cross
      <4>1. /\ saved' = saved /\ op'.pc = "undone" /\ op'.b = b /\ op'.todo = op.todo
            /\ op'.moved = op.moved
        BY <1>0, <2>0, <3>1, <3>4 DEF Ops, MoveIn
      <4>2. \A g \in man[b].moved \ op.moved : game'[g] = man[b].rel /\ saved[b][g] = Nothing
        BY <1>0, <2>0, <3>1, <3>3 DEF JournalInv, TakeFits, Manifests
      <4> HIDE DEF l
      <4>3. TakeFits'
        BY <2>0, <2>1, <3>1, <3>2, <3>3, <4>1, <4>2 DEF JournalInv, TakeFits, Taking, Moving, l
      <4> QED
        BY <2>0, <2>1, <2>2, <3>1, <4>1, <4>3, JournalTake DEF Putting, Moving, Pcs
    <3>5. CASE ~cross
      <4>1. /\ saved' = [saved EXCEPT ![b][l] = Nothing] /\ op'.pc = "undo" /\ op'.b = b
            /\ op'.todo = op.todo \ {l} /\ op'.moved = op.moved \ {l}
        BY <1>0, <2>0, <3>1, <3>5 DEF Ops, MoveIn
      <4>2. /\ saved'[b][l] = Nothing /\ \A g \in Files : g # l => saved'[b][g] = saved[b][g]
            /\ \A c \in Backups \ {b} : saved'[c] = saved[c]
        BY <1>0, <3>2, <4>1 DEF Vaults
      <4>3. \A g \in man[b].moved \ op'.moved : game'[g] = man[b].rel /\ saved'[b][g] = Nothing
        BY <1>0, <2>0, <3>1, <3>3, <4>1, <4>2 DEF JournalInv, TakeFits, Manifests
      <4>4. \A g \in op'.todo : saved'[b][g] = man[b].rel
        BY <1>a, <2>0, <3>1, <4>1, <4>2 DEF JournalInv, TakeFits
      <4> HIDE DEF l
      <4>5. TakeFits'
        BY <2>0, <2>1, <3>1, <3>2, <4>1, <4>3, <4>4 DEF JournalInv, TakeFits, Taking, Moving
      <4> QED
        BY <2>0, <2>1, <2>2, <3>1, <4>1, <4>2, <4>5, JournalTake DEF Putting, Moving, Pcs
    <3> QED
      BY <3>4, <3>5
  <2>11. CASE UndoUnlink
    <3>1. /\ op.pc = "undone" /\ UNCHANGED <<game, man, brec, rec, cleanup>>
          /\ op'.pc = "undo" /\ op'.b = b
          /\ op'.todo = op.todo \ {l} /\ op'.moved = op.moved \ {l}
          /\ saved' = [saved EXCEPT ![b][l] = Nothing]
      BY <1>0, <2>0, <2>11 DEF UndoUnlink, UnlinkSaved, At, Ops
    <3>2. l \in op.todo /\ l \in Files /\ game[l] = man[b].rel /\ op.todo \subseteq op.moved
      BY <1>a, <2>0, <3>1 DEF JournalInv, TakeFits, Out
    <3>3. /\ saved'[b][l] = Nothing /\ \A g \in Files : g # l => saved'[b][g] = saved[b][g]
          /\ \A c \in Backups \ {b} : saved'[c] = saved[c]
      BY <1>0, <3>1, <3>2 DEF Vaults
    <3>4. \A g \in man[b].moved \ op'.moved : game'[g] = man[b].rel /\ saved'[b][g] = Nothing
      BY <1>0, <2>0, <3>1, <3>2, <3>3 DEF JournalInv, TakeFits, Manifests
    <3>5. \A g \in op'.todo : saved'[b][g] = man[b].rel
      BY <1>a, <2>0, <3>1, <3>3 DEF JournalInv, TakeFits
    <3> HIDE DEF l
    <3>6. TakeFits'
      BY <2>0, <2>1, <3>1, <3>2, <3>4, <3>5 DEF JournalInv, TakeFits, Taking, Moving
    <3> QED
      BY <2>0, <2>1, <2>2, <3>1, <3>3, <3>6, JournalTake DEF Putting, Moving, Pcs
  <2>12. CASE UndoFault
    <3>1. /\ op.pc \in {"undo", "undone"} /\ UNCHANGED <<saved, game, man, brec, rec, cleanup>>
          /\ op'.pc = "undo" /\ op'.b = b /\ op'.todo = op.todo \ {l} /\ op'.moved = op.moved
      BY <1>0, <2>0, <2>12, Zenon DEF UndoFault, Ops
    <3> HIDE DEF l
    <3>2. TakeFits'
      BY <2>0, <2>1, <3>1 DEF JournalInv, TakeFits, Taking, Moving
    <3> QED
      BY <2>0, <2>1, <2>2, <3>1, <3>2, JournalTake DEF Putting, Moving, Pcs
  <2>13. CASE UndoEnd
    <3>1. /\ op.pc = "undo" /\ op' = Idle /\ UNCHANGED <<saved, brec, rec, cleanup>>
          /\ man' = [man EXCEPT ![b] = IF op.left = {} THEN NoMan
                                       ELSE [@ EXCEPT !.moved = op.moved]]
      BY <2>0, <2>13 DEF UndoEnd, At
    <3>2. /\ \A c \in Backups \ {b} : man'[c] = man[c]
          /\ \/ man'[b] = NoMan
             \/ man'[b].state = man[b].state /\ man'[b].rel = man[b].rel
      BY <1>0, <3>1 DEF Manifests
    <3>3. brec[b] = NoRec
      BY <2>0, <2>1, <3>1 DEF JournalInv, TakeFits
    <3>4. Fits(b)'
      BY <2>2, <3>1, <3>2, <3>3 DEF Fits, Present, Returned, NoMan, Moving, Nothing
    <3>5. \A c \in Backups : Moving(c)' => Moving(c)
      BY <2>2, <3>2 DEF Moving, NoMan, Nothing
    <3> QED
      BY <3>1, <3>2, <3>4, <3>5, JournalIdle, JournalStep DEF Idle
  <2>14. CASE UndoEndFault
    <3>1. op' = Idle /\ UNCHANGED <<saved, man, game, brec, rec, cleanup>>
      BY <2>14, Zenon DEF UndoEndFault
    <3> QED
      BY <2>0, <2>1, <2>2, <3>1, JournalIdle, JournalTake DEF Putting, Moving, Idle, Pcs
  <2> QED
    BY <1>2, <2>3, <2>4, <2>5, <2>6, <2>7, <2>8, <2>9, <2>10, <2>11, <2>12, <2>13, <2>14 DEF Remove
<1>3. Remove => (\E b \in Backups : RemoveStart(b)) \/ op.pc # "idle"
  BY DEF Remove, At, TakeFile, TakeUnlink, MarkFile, CopyOriginal, TakeRecord,
         CompleteRemoval, RemoveFault, UndoFile, UndoUnlink, UndoFault, UndoEnd, UndoEndFault
<1> QED
  BY <1>1, <1>2, <1>3

\* A step inside a Put back of backup b.
LEMMA JournalPut ==
  ASSUME JournalInv, Putting, NEW b \in Backups, b = op.b,
         UNCHANGED <<cleanup, man, brec>>, PutFits', op'.pc \in Pcs, ~Taking',
         \A c \in Backups \ {b} : saved'[c] = saved[c]
  PROVE  JournalInv'
<1>1. man[b].moved = {} \/ (Present(b) /\ ~Returned(b))
  BY DEF JournalInv, PutFits
<1>2. Fits(b)'
  BY <1>1 DEF JournalInv, Fits, Present, Returned
<1>3. TakeFits'
  BY DEF TakeFits, Taking
<1>4. \A c \in Backups : Moving(c)' => Moving(c)
  BY DEF Moving
<1> QED
  BY <1>2, <1>3, <1>4, JournalStep

LEMMA JournalPutBack ==
  ASSUME TypeInv, ReleaseInv, JournalInv, PutBack
  PROVE  JournalInv'
<1>0. /\ op \in Ops /\ man \in [Backups -> Manifests] /\ saved \in Vaults
      /\ game \in [Files -> Contents] /\ brec \in [Backups -> Recs]
      /\ (op.pc # "idle" => op.b \in Backups)
  BY Typing DEF TypeInv, OpShape
<1>a. /\ op.todo \in SUBSET Files /\ op.moved \in SUBSET Files
      /\ op.todo # {} => First(op.todo) \in op.todo /\ Last(op.todo) \in op.todo
      /\ op.pc \in Out => op.todo # {}
  BY <1>0, FirstIsFile, LastIsFile DEF Ops, TypeInv, OpShape
<1>1. ASSUME NEW b \in Backups, PutStart(b) PROVE JournalInv'
  <2>1. /\ op.pc = "idle" /\ Present(b) /\ BackupState(b) \in {"ready", "interrupted"}
        /\ UNCHANGED <<saved, man, cleanup, game, brec, rec>>
        /\ op' = [Idle EXCEPT !.pc = "put", !.b = b, !.todo = man[b].moved]
    BY <1>1 DEF PutStart, Restorable, At, disk
  <2>2. op'.pc = "put" /\ op'.b = b /\ op'.todo = man[b].moved /\ op'.moved = {}
    BY <2>1 DEF Idle
  <2>3. /\ \A f \in man[b].moved : saved[b][f] = man[b].rel
        /\ brec[b] = NoRec \/ rec = NoRec
    BY <2>1 DEF BackupState, Interrupted
  <2>4. man[b].state # "moving" => man[b].moved # {}
    BY <2>1 DEF BackupState
  <2>5. man[b].rel # Nothing /\ Fits(b)
    BY <2>1, NothingIsNoRelease DEF ReleaseInv, JournalInv
  <2>6. man[b].moved = {} \/ ~Returned(b)
    BY <2>3, <2>5 DEF Fits
  <2>7. man[b].state = "complete" => ~Returned(b)
    BY <2>4, <2>6
  <2>8. PutFits'
    BY <2>1, <2>2, <2>3, <2>6, <2>7 DEF PutFits, Putting, Present, Returned
  <2>9. TakeFits'
    BY <2>2 DEF TakeFits, Taking
  <2>10. Fits(b)' /\ \A c \in Backups : Moving(c)' => Moving(c)
    BY <2>1, <2>5, FitsStill DEF Moving
  <2> QED
    BY <2>1, <2>8, <2>9, <2>10, JournalStep
<1>2. ASSUME NEW b \in Backups, Cleanup(b) PROVE JournalInv'
  <2>1. /\ b \in cleanup /\ cleanup' = cleanup \ {b} /\ UNCHANGED <<op, saved, game, rec, brec>>
        /\ man'[b] = NoMan /\ \A c \in Backups \ {b} : man'[c] = man[c]
    BY <1>0, <1>2 DEF Cleanup
  <2>2. /\ man'[b].state = Nothing /\ man'[b].moved = {}
    BY <2>1 DEF NoMan
  <2>3. Fits(b)'
    BY <2>1, <2>2 DEF Fits, Present
  <2>4. \A c \in Backups : Moving(c)' => Moving(c)
    BY <2>1, <2>2 DEF Moving, Nothing
  <2>5. TakeFits'
    <3>1. Taking => op.b # b /\ op.b \in Backups
      BY <1>0, <2>1 DEF ReleaseInv, Taking
    <3>2. Taking => man'[op.b] = man[op.b]
      BY <2>1, <3>1
    <3> QED
      BY <2>1, <3>2 DEF JournalInv, TakeFits, Taking, Moving
  <2>6. PutFits'
    <3>1. CASE Putting /\ op.b = b
      <4>1. man[b].moved = {}
        BY <2>1, <3>1 DEF JournalInv, PutFits, Returned
      <4>2. op.todo = {} /\ op.moved = {}
        BY <3>1, <4>1 DEF JournalInv, PutFits
      <4>3. op.pc # "placed"
        BY <1>a, <4>2 DEF Out
      <4> QED
        BY <2>1, <2>2, <3>1, <4>2, <4>3 DEF JournalInv, PutFits, Putting, Nothing
    <3>2. CASE Putting /\ op.b # b
      <4>1. op.b \in Backups
        BY <1>0, <3>2 DEF Putting
      <4>2. man'[op.b] = man[op.b] /\ (op.b \in cleanup' <=> op.b \in cleanup)
        BY <2>1, <3>2, <4>1
      <4> QED
        BY <2>1, <4>2 DEF JournalInv, PutFits, Putting, Present, Returned
    <3>3. CASE ~Putting
      BY <2>1, <3>3 DEF PutFits, Putting
    <3> QED
      BY <3>1, <3>2, <3>3
  <2> QED
    BY <2>1, <2>3, <2>4, <2>5, <2>6, JournalStep
<1>3. CASE op.pc # "idle" /\ \A b \in Backups : ~Cleanup(b)
  <2>0. PICK b \in Backups : b = op.b
    BY <1>0, <1>3
  <2>1. Putting
    BY <1>3 DEF PutBack, Putting, At, PutStart, PutFile, PutUnlink, PutRecord, PutFault,
         RollFile, RollUnlink, RollOriginal, RollFault, RollEnd, RollEndFault
  <2>2. /\ op.todo \union op.moved \subseteq man[b].moved
        /\ man[b].state = "complete" => ~Returned(b)
        /\ man[b].moved = {} \/ (Present(b) /\ ~Returned(b))
        /\ Fits(b)
    BY <2>0, <2>1 DEF JournalInv, PutFits
  <2> DEFINE f == First(op.todo)
             l == Last(op.todo)
  <2>3. CASE PutFile
    <3>1. /\ f \in op.todo /\ f \in Files /\ op.pc = "put"
          /\ UNCHANGED <<man, brec, rec, cleanup>> /\ MoveIn(f)
      BY <1>a, <2>3 DEF PutFile, At
    <3>2. /\ op.todo \intersect op.moved = {} /\ man[b].moved = op.todo \union op.moved
          /\ \A g \in op.todo : saved[b][g] = man[b].rel
          /\ \A g \in op.moved : game[g] = man[b].rel /\ saved[b][g] = Nothing
          /\ brec[b] = NoRec \/ rec = NoRec
      BY <2>0, <3>1 DEF JournalInv, PutFits
    <3>3. game'[f] = man[b].rel /\ \A g \in op.moved : game'[g] = man[b].rel
      BY <1>0, <1>a, <2>0, <3>1, <3>2 DEF MoveIn
    <3>4. CASE cross
      <4>1. op' = [op EXCEPT !.pc = "placed"] /\ saved' = saved
        BY <2>3, <3>4 DEF PutFile, MoveIn, Step
      <4>2. /\ op'.pc = "placed" /\ op'.b = b /\ op'.todo = op.todo /\ op'.moved = op.moved
        BY <1>0, <2>0, <4>1 DEF Ops
      <4>3. PutFits'
        BY <2>2, <3>1, <3>2, <3>3, <4>1, <4>2 DEF PutFits, Putting, Present, Returned
      <4> QED
        BY <2>0, <2>1, <3>1, <4>1, <4>2, <4>3, JournalPut DEF Taking, Pcs
    <3>5. CASE ~cross
      <4>1. /\ op' = [op EXCEPT !.pc = "put", !.todo = @ \ {f}, !.moved = @ \union {f}]
            /\ saved' = [saved EXCEPT ![b][f] = Nothing]
        BY <2>0, <2>3, <3>5 DEF PutFile, MoveIn, PutDone
      <4>2. /\ op'.pc = "put" /\ op'.b = b /\ op'.todo = op.todo \ {f}
            /\ op'.moved = op.moved \union {f}
        BY <1>0, <2>0, <4>1 DEF Ops
      <4>3. /\ saved'[b][f] = Nothing /\ \A g \in Files : g # f => saved'[b][g] = saved[b][g]
            /\ \A c \in Backups \ {b} : saved'[c] = saved[c]
        BY <1>0, <3>1, <4>1 DEF Vaults
      <4>4. \A g \in op'.todo : saved'[b][g] = man[b].rel
        BY <1>a, <3>2, <4>2, <4>3
      <4>5. \A g \in op'.moved : game'[g] = man[b].rel /\ saved'[b][g] = Nothing
        BY <1>a, <3>2, <3>3, <4>2, <4>3
      <4>6. man[b].moved = op'.todo \union op'.moved /\ op'.todo \intersect op'.moved = {}
        BY <3>1, <3>2, <4>2
      <4> HIDE DEF f
      <4>7. PutFits'
        BY <2>2, <3>1, <3>2, <4>2, <4>4, <4>5, <4>6 DEF PutFits, Putting, Present, Returned
      <4> QED
        BY <2>0, <2>1, <3>1, <4>2, <4>3, <4>7, JournalPut DEF Taking, Pcs
    <3> QED
      BY <3>4, <3>5
  <2>4. CASE PutUnlink
    <3>1. /\ f \in op.todo /\ f \in Files /\ op.pc = "placed"
          /\ UNCHANGED <<game, man, brec, rec, cleanup>>
          /\ op' = [op EXCEPT !.pc = "put", !.todo = @ \ {f}, !.moved = @ \union {f}]
          /\ saved' = [saved EXCEPT ![b][f] = Nothing]
      BY <1>a, <2>0, <2>4 DEF PutUnlink, UnlinkSaved, PutDone, At, Out
    <3>2. /\ op.todo \intersect op.moved = {} /\ man[b].moved = op.todo \union op.moved
          /\ \A g \in op.todo : saved[b][g] = man[b].rel
          /\ \A g \in op.moved : game[g] = man[b].rel /\ saved[b][g] = Nothing
          /\ brec[b] = NoRec \/ rec = NoRec
          /\ game[f] = man[b].rel
      BY <2>0, <3>1 DEF JournalInv, PutFits
    <3>3. /\ op'.pc = "put" /\ op'.b = b /\ op'.todo = op.todo \ {f}
          /\ op'.moved = op.moved \union {f}
      BY <1>0, <2>0, <3>1 DEF Ops
    <3>4. /\ saved'[b][f] = Nothing /\ \A g \in Files : g # f => saved'[b][g] = saved[b][g]
          /\ \A c \in Backups \ {b} : saved'[c] = saved[c]
      BY <1>0, <3>1 DEF Vaults
    <3>5. \A g \in op'.todo : saved'[b][g] = man[b].rel
      BY <1>a, <3>2, <3>3, <3>4
    <3>6. \A g \in op'.moved : game'[g] = man[b].rel /\ saved'[b][g] = Nothing
      BY <1>a, <3>1, <3>2, <3>3, <3>4
    <3>7. man[b].moved = op'.todo \union op'.moved /\ op'.todo \intersect op'.moved = {}
      BY <3>1, <3>2, <3>3
    <3> HIDE DEF f
    <3>8. PutFits'
      BY <2>2, <3>1, <3>2, <3>3, <3>5, <3>6, <3>7 DEF PutFits, Putting, Present, Returned
    <3> QED
      BY <2>0, <2>1, <3>1, <3>3, <3>4, <3>8, JournalPut DEF Taking, Pcs
  <2>5. CASE PutRecord
    <3>1. /\ op.pc = "put" /\ op.todo = {} /\ op' = Idle /\ cleanup' = cleanup \union {b}
          /\ UNCHANGED <<saved, man>>
          /\ \A c \in Backups \ {b} : brec'[c] = brec[c]
          /\ brec'[b] \in {brec[b], NoRec}
      BY <1>0, <2>0, <2>5 DEF PutRecord, At
    <3>2. \A g \in man[b].moved : saved[b][g] = Nothing
      BY <2>0, <3>1 DEF JournalInv, PutFits
    <3>3. Fits(b)
      BY DEF JournalInv
    <3>4. Fits(b)'
      BY <3>1, <3>2, <3>3 DEF Fits, Present, Returned
    <3>5. \A c \in Backups : Moving(c)' => Moving(c)
      BY <3>1 DEF Moving
    <3> QED
      BY <3>1, <3>4, <3>5, JournalIdle, JournalStep DEF Idle
  <2>6. CASE PutFault
    <3>1. /\ UNCHANGED <<saved, game, man, brec, rec, cleanup>> /\ op.pc \in {"put", "placed"}
          /\ op' = [op EXCEPT !.pc = "roll", !.todo = op.moved]
      BY <2>6, Zenon DEF PutFault, disk
    <3>2. op'.pc = "roll" /\ op'.b = b /\ op'.todo = op.moved /\ op'.moved = op.moved
      BY <1>0, <2>0, <3>1 DEF Ops
    <3>3. PutFits'
      BY <2>2, <3>1, <3>2 DEF PutFits, Putting, Present, Returned
    <3> QED
      BY <2>0, <2>1, <3>1, <3>2, <3>3, JournalPut DEF Taking, Pcs
  <2>7. CASE RollFile
    <3>1. /\ UNCHANGED <<man, brec, rec, cleanup>> /\ l \in Files
          /\ saved' = [saved EXCEPT ![b][l] = game[l]]
          /\ op' = [op EXCEPT !.pc = IF cross THEN "rolled" ELSE "recopy"]
      BY <1>a, <2>0, <2>7 DEF RollFile, MoveOut, Step
    <3>2. op'.pc \in {"rolled", "recopy"} /\ op'.b = b /\ op'.todo = op.todo /\ op'.moved = op.moved
      BY <1>0, <2>0, <3>1 DEF Ops
    <3>3. \A c \in Backups \ {b} : saved'[c] = saved[c]
      BY <1>0, <3>1 DEF Vaults
    <3>4. PutFits'
      BY <2>2, <3>1, <3>2 DEF PutFits, Putting, Present, Returned
    <3> QED
      BY <2>0, <2>1, <3>1, <3>2, <3>3, <3>4, JournalPut DEF Taking, Pcs
  <2>8. CASE RollUnlink
    <3>1. /\ UNCHANGED <<saved, man, brec, rec, cleanup>> /\ op' = [op EXCEPT !.pc = "recopy"]
      BY <2>8 DEF RollUnlink, UnlinkGame, Step
    <3>2. op'.pc = "recopy" /\ op'.b = b /\ op'.todo = op.todo /\ op'.moved = op.moved
      BY <1>0, <2>0, <3>1 DEF Ops
    <3>3. PutFits'
      BY <2>2, <3>1, <3>2 DEF PutFits, Putting, Present, Returned
    <3> QED
      BY <2>0, <2>1, <3>1, <3>2, <3>3, JournalPut DEF Taking, Pcs
  <2>9. CASE RollOriginal \/ RollFault
    <3>1. UNCHANGED <<saved, man, brec, rec, cleanup>> /\ (RollNext(l) \/ RollStays(l))
      BY <2>9 DEF RollOriginal, RollFault, disk
    <3>2. op'.pc = "roll" /\ op'.b = b /\ op'.todo = op.todo \ {l} /\ op'.moved = op.moved
      BY <1>0, <2>0, <3>1 DEF RollNext, RollStays, Ops
    <3> HIDE DEF l
    <3>3. PutFits'
      BY <2>2, <3>1, <3>2 DEF PutFits, Putting, Present, Returned
    <3> QED
      BY <2>0, <2>1, <3>1, <3>2, <3>3, JournalPut DEF Taking, Pcs
  <2>10. CASE RollEnd
    <3>1. /\ op' = Idle /\ UNCHANGED <<saved, brec, rec, cleanup>>
          /\ man' = [man EXCEPT ![b].moved = @ \ op.left]
      BY <2>0, <2>10 DEF RollEnd
    <3>2. /\ \A c \in Backups \ {b} : man'[c] = man[c]
          /\ man'[b].state = man[b].state /\ man'[b].rel = man[b].rel
          /\ man'[b].moved = man[b].moved \ op.left
          /\ man[b].moved = {} => man'[b] = man[b]
      BY <1>0, <3>1 DEF Manifests
    <3>3. Fits(b)
      BY DEF JournalInv
    <3>4. ~Present(b) => man[b].moved = {}
      BY <3>3 DEF Fits, NoMan
    <3>5. Fits(b)'
      BY <3>1, <3>2, <3>3, <3>4 DEF Fits, Present, Returned
    <3>6. \A c \in Backups : Moving(c)' => Moving(c)
      BY <3>2 DEF Moving
    <3> QED
      BY <3>1, <3>2, <3>5, <3>6, JournalIdle, JournalStep DEF Idle
  <2>11. CASE RollEndFault
    <3>1. op' = Idle /\ UNCHANGED <<saved, man, brec, rec, cleanup>>
      BY <2>11 DEF RollEndFault, disk
    <3>2. Fits(b)' /\ \A c \in Backups : Moving(c)' => Moving(c)
      BY <3>1, FitsStill DEF JournalInv, Moving
    <3> QED
      BY <3>1, <3>2, JournalIdle, JournalStep DEF Idle
  <2>12. \A c \in Backups : ~PutStart(c)
    BY <1>3 DEF PutStart, At
  <2> QED
    BY <1>3, <2>3, <2>4, <2>5, <2>6, <2>7, <2>8, <2>9, <2>10, <2>11, <2>12 DEF PutBack
<1>4. PutBack => (\E b \in Backups : PutStart(b) \/ Cleanup(b)) \/ op.pc # "idle"
  BY DEF PutBack, At, PutFile, PutUnlink, PutRecord, PutFault,
         RollFile, RollUnlink, RollOriginal, RollFault, RollEnd, RollEndFault
<1> QED
  BY <1>1, <1>2, <1>3, <1>4

LEMMA JournalWorld ==
  ASSUME TypeInv, JournalInv, World \/ UNCHANGED vars
  PROVE  JournalInv'
<1>1. /\ UNCHANGED <<saved, man, brec>> /\ \A c \in Backups : c \in cleanup' => c \in cleanup
      /\ op'.pc = "idle" \/ op' = op
  BY DEF World, Crash, ClientInstall, ClientRestore, Edit, vars, disk, Idle, At
<1>2. /\ \A c \in Backups : Fits(c)'
      /\ \A c \in Backups : Moving(c)' => Moving(c)
  BY <1>1, FitsStill DEF JournalInv, Moving
<1>3. CASE op'.pc = "idle"
  BY <1>2, <1>3, JournalIdle DEF JournalInv
<1>4. CASE op' = op /\ op.pc # "idle"
  <2>1. UNCHANGED rec
    BY <1>1, <1>4 DEF World, Crash, ClientInstall, ClientRestore, Edit, vars, disk, At
  <2>2. game' = game \/ op.pc = "take"
    BY <1>1, <1>4 DEF World, Crash, ClientInstall, ClientRestore, Edit, vars, disk, At
  <2>3. TakeFits'
    BY <1>1, <1>4, <2>1, <2>2 DEF JournalInv, TakeFits, Taking, Moving
  <2>4. op.pc # "idle" => op.b \in Backups
    BY DEF TypeInv, OpShape
  <2>5. PutFits'
    BY <1>1, <1>4, <2>1, <2>2, <2>4 DEF JournalInv, PutFits, Putting, Present, Returned
  <2> QED
    BY <1>2, <2>3, <2>5 DEF JournalInv
<1> QED
  BY <1>1, <1>3, <1>4

LEMMA JournalHolds ==
  Spec => []JournalInv
<1>1. Init => JournalInv
  BY DEF Init, JournalInv, Moving, Fits, Present, Returned, TakeFits, Taking, PutFits, Putting,
         Idle, NoMan, NoFiles, Nothing
<1>2. TypeInv /\ ReleaseInv /\ JournalInv /\ [Next]_vars => JournalInv'
  BY JournalRemove, JournalPutBack, JournalWorld DEF Next
<1> QED
  BY <1>1, <1>2, ReleasesNamed, Invariance, PTL DEF Spec

-------------------------------------------------------------------------------
(* The record follows the files.                                             *)

\* Someone waits for an interrupted removal to be put back.
FollowInv ==
  \A b \in Backups : Moving(b) /\ brec[b] = NoRec => rec # NoRec /\ rec.rel = man[b].rel

LEMMA PutFilesGiven ==
  ASSUME TypeInv, JournalInv, PutRecord
  PROVE  /\ op.b \in Backups /\ op' = Idle /\ UNCHANGED <<game, saved, man, before>>
         /\ \A c \in Backups \ {op.b} : brec'[c] = brec[c]
         /\ man[op.b].moved = op.moved /\ \A f \in op.moved : game[f] = man[op.b].rel
         /\ man[op.b].moved = {} \/ Present(op.b)
         /\ \/ /\ brec[op.b] # NoRec /\ rec = NoRec
               /\ rec' = brec[op.b] /\ brec'[op.b] = NoRec
            \/ brec[op.b] = NoRec /\ UNCHANGED <<rec, brec>> /\ man[op.b].state # "complete"
<1>1. op.pc = "put" /\ op.b \in Backups /\ op.todo = {} /\ brec \in [Backups -> Recs]
  BY Typing DEF PutRecord, At, TypeInv, OpShape
<1>2. brec[op.b] = NoRec \/ rec = NoRec
  BY <1>1 DEF JournalInv, PutFits
<1>3. man[op.b].state = "complete" => brec[op.b] # NoRec
  BY <1>1 DEF JournalInv, PutFits, Putting, Returned
<1>4. man[op.b].moved = op.moved /\ \A f \in op.moved : game[f] = man[op.b].rel
  BY <1>1 DEF JournalInv, PutFits
<1>5. man[op.b].moved = {} \/ Present(op.b)
  BY <1>1 DEF JournalInv, PutFits, Putting
<1>6. CASE brec[op.b] # NoRec
  <2>1. rec' = brec[op.b] /\ brec' = [brec EXCEPT ![op.b] = NoRec]
    BY <1>2, <1>6 DEF PutRecord
  <2> QED
    BY <1>1, <1>2, <1>4, <1>5, <1>6, <2>1 DEF PutRecord
<1>7. CASE brec[op.b] = NoRec
  BY <1>1, <1>3, <1>4, <1>5, <1>7 DEF PutRecord
<1> QED
  BY <1>6, <1>7

LEMMA FollowStep ==
  ASSUME ClientWaits, TypeInv, ReleaseInv, JournalInv, FollowInv, [Next]_vars
  PROVE  FollowInv'
<1> SUFFICES ASSUME NEW b \in Backups, Moving(b)', brec'[b] = NoRec
             PROVE  rec' # NoRec /\ rec'.rel = man'[b].rel
  BY DEF FollowInv
<1>0. /\ man \in [Backups -> Manifests] /\ brec \in [Backups -> Recs]
      /\ (op.pc # "idle" => op.b \in Backups)
  BY Typing DEF TypeInv, OpShape
<1>1. CASE \E c \in Backups : RemoveStart(c)
  <2>1. PICK c \in Backups : RemoveStart(c)
    BY <1>1
  <2>2. /\ rec # NoRec /\ ~Blocked /\ rec' = rec
        /\ man' = [man EXCEPT ![c] = [state |-> "moving", rel |-> rec.rel,
                                      orig |-> rec.orig, moved |-> {}]]
    BY <2>1 DEF RemoveStart
  <2>3. \A d \in Backups : ~Moving(d)
    BY <2>2 DEF Blocked, Moving, Present, BackupState, Nothing
  <2>4. c = b
    BY <1>0, <2>2, <2>3 DEF Moving
  <2> QED
    BY <1>0, <2>2, <2>4
<1>2. CASE TakeRecord
  <2>1. /\ op.pc = "record" /\ op.b \in Backups /\ UNCHANGED man
        /\ brec' = [brec EXCEPT ![op.b] = rec]
    BY <1>0, <1>2 DEF TakeRecord, At
  <2>2. Moving(op.b) /\ rec # NoRec
    BY <2>1 DEF JournalInv, TakeFits, Taking
  <2>3. b = op.b
    BY <2>1, <2>2 DEF JournalInv, Moving
  <2> QED
    BY <1>0, <2>1, <2>2, <2>3
<1>3. CASE PutRecord
  <2>1. Moving(b) /\ man' = man
    BY <1>3, PutFilesGiven DEF Moving
  <2>2. CASE UNCHANGED <<rec, brec>>
    BY <2>1, <2>2 DEF FollowInv
  <2>3. CASE brec[op.b] # NoRec /\ rec = NoRec /\ rec' = brec[op.b]
    <3>1. brec[b] # NoRec
      BY <2>1, <2>3 DEF FollowInv
    <3>2. b = op.b
      BY <1>3, <3>1, PutFilesGiven
    <3> QED
      BY <2>1, <2>3, <3>2 DEF JournalInv, Fits, Present, Moving, Nothing
  <2> QED
    BY <1>3, <2>2, <2>3, PutFilesGiven
<1>4. CASE ClientRestore \/ \E r \in Releases : ClientInstall(r)
  <2>1. ~Blocked /\ man' = man
    BY <1>4 DEF ClientRestore, ClientInstall
  <2> QED
    BY <2>1 DEF Blocked, Moving, Present, BackupState, Nothing
<1>5. CASE UNCHANGED <<rec, brec>> /\ Moving(b) /\ man'[b].rel = man[b].rel
  BY <1>5 DEF FollowInv
<1>6. ASSUME UNCHANGED <<rec, brec>>, man' = man
      PROVE  Moving(b) /\ man'[b].rel = man[b].rel
  BY <1>6 DEF Moving
<1>7. ASSUME UNCHANGED <<rec, brec>>, MarkFile \/ CompleteRemoval \/ UndoEnd \/ RollEnd
      PROVE  Moving(b) /\ man'[b].rel = man[b].rel
  <2>1. op.b \in Backups
    BY <1>0, <1>7 DEF MarkFile, CompleteRemoval, UndoEnd, RollEnd, At
  <2>2. CASE MarkFile
    <3>1. man' = [man EXCEPT ![op.b].moved = op.moved \union {First(op.todo)}]
      BY <2>2 DEF MarkFile
    <3> QED
      BY <1>0, <2>1, <3>1 DEF Manifests, Moving
  <2>3. CASE CompleteRemoval
    <3>1. man' = [man EXCEPT ![op.b].state = "complete"]
      BY <2>3 DEF CompleteRemoval
    <3> QED
      BY <1>0, <2>1, <3>1 DEF Manifests, Moving
  <2>4. CASE UndoEnd
    <3>1. \/ man' = [man EXCEPT ![op.b] = NoMan]
          \/ man' = [man EXCEPT ![op.b].moved = op.moved]
      BY <2>4 DEF UndoEnd
    <3>2. NoMan.state # "moving"
      BY DEF NoMan, Nothing
    <3>3. \/ man'[b] = NoMan
          \/ man'[b].state = man[b].state /\ man'[b].rel = man[b].rel
      BY <1>0, <2>1, <3>1 DEF Manifests
    <3> QED
      BY <3>2, <3>3 DEF Moving
  <2>5. CASE RollEnd
    <3>1. man' = [man EXCEPT ![op.b].moved = @ \ op.left]
      BY <2>5 DEF RollEnd
    <3> QED
      BY <1>0, <2>1, <3>1 DEF Manifests, Moving
  <2> QED
    BY <1>7, <2>2, <2>3, <2>4, <2>5
<1>8. ASSUME UNCHANGED <<rec, brec>>, NEW c \in Backups, Cleanup(c)
      PROVE  Moving(b) /\ man'[b].rel = man[b].rel
  <2>1. man' = [man EXCEPT ![c] = NoMan]
    BY <1>8 DEF Cleanup
  <2>2. b # c
    BY <1>0, <2>1 DEF Moving, NoMan, Nothing
  <2> QED
    BY <1>0, <2>1, <2>2 DEF Moving
<1>9. ASSUME Remove, ~TakeRecord, \A c \in Backups : ~RemoveStart(c)
      PROVE  UNCHANGED <<rec, brec>> /\ (man' = man \/ MarkFile \/ CompleteRemoval \/ UndoEnd)
  BY <1>9 DEF Remove, TakeFile, TakeUnlink, MarkFile, CopyOriginal, CompleteRemoval,
       RemoveFault, UndoFile, UndoUnlink, UndoFault, UndoEnd, UndoEndFault
<1>10. ASSUME PutBack, ~PutRecord
       PROVE  UNCHANGED <<rec, brec>> /\ (man' = man \/ RollEnd \/ \E c \in Backups : Cleanup(c))
  BY <1>10 DEF PutBack, PutStart, Cleanup, PutFile, PutUnlink, PutFault, RollFile,
       RollUnlink, RollOriginal, RollFault, RollEnd, RollEndFault, disk
<1>11. ASSUME UNCHANGED vars \/ Crash \/ \E f \in Files : Edit(f)
       PROVE  UNCHANGED <<rec, brec>> /\ man' = man
  BY <1>11 DEF vars, Crash, Edit, disk
<1> QED
  BY <1>1, <1>2, <1>3, <1>4, <1>5, <1>6, <1>7, <1>8, <1>9, <1>10, <1>11 DEF Next, World

(* While the client waits for an interrupted removal, a Put back that ends   *)
(* gives the client the record of exactly the files it put into the game     *)
(* (restore_opticlient_backup moves the record last).                        *)
THEOREM RecordsFollow ==
  ASSUME ClientWaits
  PROVE  Spec => RecordFollowsFiles
<1>1. Init => FollowInv
  BY DEF Init, FollowInv, Moving, NoMan, Nothing
<1>2. TypeInv /\ ReleaseInv /\ JournalInv /\ FollowInv /\ [Next]_vars => FollowInv'
  BY FollowStep
<1>3. ASSUME TypeInv, JournalInv, FollowInv, PutRecord, NEW f \in man[op.b].moved
      PROVE  game[f] = rec'.rel
  <2>1. game[f] = man[op.b].rel /\ Present(op.b) /\ op.b \in Backups
    BY <1>3, PutFilesGiven
  <2>2. CASE brec[op.b] # NoRec /\ rec' = brec[op.b]
    BY <1>3, <2>1, <2>2 DEF JournalInv, Fits
  <2>3. CASE brec[op.b] = NoRec /\ rec' = rec /\ man[op.b].state # "complete"
    <3>1. Moving(op.b)
      BY <1>3, <2>1, <2>3, Typing DEF TypeInv, Manifests, Present, Moving
    <3> QED
      BY <1>3, <2>1, <2>3, <3>1 DEF FollowInv
  <2> QED
    BY <1>3, <2>2, <2>3, PutFilesGiven
<1>4. TypeInv /\ JournalInv /\ FollowInv /\ [Next]_vars =>
        [PutRecord => \A f \in man[op.b].moved : game[f] = rec'.rel]_vars
  BY <1>3
<1> QED
  BY <1>1, <1>2, <1>4, ReleasesNamed, Invariance, JournalHolds, PTL DEF Spec, RecordFollowsFiles

-------------------------------------------------------------------------------
(* What a removal found.                                                     *)

Known(b, f, c) == before[b][f] \in {"unknown", c}
Forgotten(b) == \A f \in Files : before[b][f] = "unknown"
\* The files a removal did not take.
Spared(b) == {f \in Files : f \notin man[b].moved /\ saved[b][f] = Nothing}

\* Until the Put back of another backup is over, as it was before it.
Elsewhere(b, f) == IF Putting /\ op.b # b THEN man[op.b].orig[f] ELSE game[f]

\* What a removal takes was the client's, the rest is as the record says.
TakeFound ==
  /\ op.pc \in {"take", "taken", "mark", "copy", "record"} =>
       \A f \in Files : f \notin op.todo \union op.moved => Known(op.b, f, man[op.b].orig[f])
  /\ Taking => \A f \in op.todo \union op.moved : Known(op.b, f, man[op.b].rel)

\* But for what a Put back has put in, the game is as its record says.
AsItWas ==
  /\ op.pc = "put" => \A f \in Files \ op.moved : game[f] = man[op.b].orig[f]
  /\ op.pc = "placed" =>
       \A f \in Files \ op.moved : f # First(op.todo) => game[f] = man[op.b].orig[f]
  /\ op.pc \in {"roll", "rolled", "recopy"} =>
       \A f \in Files \ op.todo : game[f] = man[op.b].orig[f]

\* What a Put back has not put in is as it was.
PutFound ==
  /\ op.pc \in {"put", "placed"} => \A f \in Spared(op.b) : Known(op.b, f, game[f])
  /\ Putting /\ op.left # {} => \A b \in Backups : Forgotten(b)
  /\ Putting => \A b \in Backups \ {op.b} : Moving(b) =>
       Forgotten(b) \/ (man[op.b].state = "complete" /\ brec[b] # NoRec /\ AsItWas)

Found(b) ==
  /\ \A f \in man[b].moved : Known(b, f, man[b].rel)
  /\ Present(b) /\ brec[b] # NoRec => \A f \in Spared(b) : Known(b, f, man[b].orig[f])
  /\ Moving(b) /\ brec[b] = NoRec => rec # NoRec \/ Forgotten(b)
  /\ Moving(b) /\ (brec[b] = NoRec \/ rec = NoRec) =>
       \A f \in Spared(b) : Known(b, f, Elsewhere(b, f))

FoundInv == TakeFound /\ PutFound /\ \A b \in Backups : Found(b)

\* What is known of a backup is forgotten or kept.
Fades(b) == \A f \in Files : before'[b][f] \in {before[b][f], "unknown"}

LEMMA ForgetFades ==
  ASSUME before \in Histories, NEW kept, ForgetAllBut(kept)
  PROVE  /\ \A b \in Backups : Fades(b)
         /\ \A b \in Backups \ kept : Forgotten(b)'
BY DEF ForgetAllBut, Fades, Forgotten, Histories

LEMMA ForgottenFound ==
  ASSUME NEW b \in Backups, Forgotten(b)', man'[b].moved \subseteq Files
  PROVE  Found(b)'
<1>1. \A f \in Files : before'[b][f] = "unknown"
  BY DEF Forgotten
<1>2. \A f \in Spared(b)' : f \in Files
  BY DEF Spared
<1>3. \A f \in Files : \A c : Known(b, f, c)'
  BY <1>1 DEF Known
<1> QED
  BY <1>2, <1>3, Zenon DEF Found, Known, Forgotten

\* A backup whose manifest and record a step leaves alone.
LEMMA FoundStill ==
  ASSUME NEW b \in Backups, Found(b), Fades(b), man[b].moved \subseteq Files,
         man'[b] = man[b], brec'[b] = brec[b],
         \A f \in Spared(b)' : f \in Spared(b),
         Moving(b) =>
           \/ Forgotten(b)'
           \/ brec[b] # NoRec /\ rec' # NoRec
           \/ /\ rec' = rec
              /\ \A f \in Spared(b)' : \/ before'[b][f] = "unknown"
                                       \/ Elsewhere(b, f)' = Elsewhere(b, f)
  PROVE  Found(b)'
<1>1. \A f \in Spared(b)' : f \in Files
  BY DEF Spared
<1>2. \A f \in Files : \A c : Known(b, f, c) => before'[b][f] \in {"unknown", c}
  BY DEF Known, Fades
<1>3. \A f \in man'[b].moved : before'[b][f] \in {"unknown", man'[b].rel}
  BY <1>2 DEF Found
<1>4. Present(b)' /\ brec'[b] # NoRec =>
        \A f \in Spared(b)' : before'[b][f] \in {"unknown", man'[b].orig[f]}
  BY <1>1, <1>2 DEF Found, Present
<1>5. Moving(b)' /\ brec'[b] = NoRec => rec' # NoRec \/ Forgotten(b)'
  BY DEF Found, Moving, Forgotten, Fades
<1>6. Moving(b)' /\ (brec'[b] = NoRec \/ rec' = NoRec) =>
        \A f \in Spared(b)' : before'[b][f] \in {"unknown", Elsewhere(b, f)'}
  <2> SUFFICES ASSUME Moving(b)', brec'[b] = NoRec \/ rec' = NoRec, NEW f \in Spared(b)'
               PROVE  before'[b][f] \in {"unknown", Elsewhere(b, f)'}
    OBVIOUS
  <2>1. Moving(b) /\ f \in Spared(b) /\ f \in Files
    BY <1>1 DEF Moving
  <2>2. CASE Forgotten(b)'
    BY <2>1, <2>2 DEF Forgotten
  <2>3. CASE rec' = rec /\ Elsewhere(b, f)' = Elsewhere(b, f)
    <3>1. Known(b, f, Elsewhere(b, f))
      BY <2>1, <2>3 DEF Found
    <3> QED
      BY <1>2, <2>1, <2>3, <3>1
  <2> QED
    BY <2>1, <2>2, <2>3
<1> QED
  BY <1>3, <1>4, <1>5, <1>6 DEF Found, Known

\* A step inside a removal into backup b.
LEMMA FoundTake ==
  ASSUME TypeInv, JournalInv, FoundInv, Taking, NEW b \in Backups, b = op.b,
         before' = before, TakeFound', ~Putting', Found(b)',
         \A c \in Backups \ {b} : man'[c] = man[c] /\ brec'[c] = brec[c] /\ saved'[c] = saved[c]
  PROVE  FoundInv'
<1>1. Moving(b)
  BY DEF JournalInv, TakeFits
<1>2. ASSUME NEW c \in Backups \ {b} PROVE Found(c)'
  <2>1. ~Moving(c)
    BY <1>1 DEF JournalInv
  <2>2. Fades(c) /\ man[c].moved \subseteq Files /\ \A f \in Spared(c)' : f \in Spared(c)
    BY Typing DEF Fades, Spared, TypeInv, Manifests
  <2> QED
    BY <2>1, <2>2, FoundStill DEF FoundInv
<1>3. PutFound'
  BY DEF PutFound, Putting
<1> QED
  BY <1>2, <1>3 DEF FoundInv

\* The same, with the client's record still in the game.
LEMMA FoundFiles ==
  ASSUME NEW b \in Backups, Taking, Moving(b), before' = before, ~Putting', UNCHANGED <<rec, brec>>,
         rec # NoRec, brec[b] = NoRec, man[b].moved \subseteq Files, Found(b),
         man'[b].rel = man[b].rel,
         \A f \in man'[b].moved : Known(b, f, man[b].rel),
         \A f \in Spared(b)' : \/ f \in Spared(b) /\ game'[f] = game[f]
                               \/ game'[f] = man[b].rel /\ Known(b, f, man[b].rel)
  PROVE  Found(b)'
<1>1. \A f : Elsewhere(b, f) = game[f] /\ Elsewhere(b, f)' = game'[f]
  BY DEF Elsewhere, Taking, Putting
<1>2. \A f \in Spared(b) : Known(b, f, game[f])
  BY <1>1 DEF Found
<1>3. \A f \in Spared(b)' : Known(b, f, game'[f])
  BY <1>2
<1>4. \A f : \A c : Known(b, f, c)' <=> before[b][f] \in {"unknown", c}
  BY DEF Known
<1>5. \A f \in man'[b].moved : before[b][f] \in {"unknown", man'[b].rel}
  BY DEF Known
<1>6. \A f \in Spared(b)' : before[b][f] \in {"unknown", Elsewhere(b, f)'}
  BY <1>1, <1>3 DEF Known
<1> QED
  BY <1>5, <1>6 DEF Found, Known

LEMMA FoundRemove ==
  ASSUME TypeInv, ReleaseInv, JournalInv, FoundInv, Remove
  PROVE  FoundInv'
<1>0. /\ op \in Ops /\ man \in [Backups -> Manifests] /\ saved \in Vaults
      /\ game \in [Files -> Contents] /\ brec \in [Backups -> Recs] /\ before \in Histories
      /\ (op.pc # "idle" => op.b \in Backups)
  BY Typing DEF TypeInv, OpShape
<1>a. /\ op.todo \in SUBSET Files /\ op.moved \in SUBSET Files
      /\ op.todo # {} => First(op.todo) \in op.todo /\ Last(op.todo) \in op.todo
      /\ op.pc \in Out => op.todo # {}
  BY <1>0, FirstIsFile, LastIsFile DEF Ops, TypeInv, OpShape
<1>1. ASSUME NEW b \in Backups, RemoveStart(b) PROVE FoundInv'
  <2>1. /\ op.pc = "idle" /\ UNCHANGED <<game, saved, rec, brec>> /\ rec # NoRec
        /\ ~Blocked /\ Removable /\ brec[b] = NoRec
        /\ man' = [man EXCEPT ![b] = [state |-> "moving", rel |-> rec.rel,
                                      orig |-> rec.orig, moved |-> {}]]
        /\ before' = [before EXCEPT ![b] = game]
    BY <1>1 DEF RemoveStart, Unused, At
  <2>2. /\ op'.b = b /\ op'.moved = {} /\ op'.todo = {f \in Files : game[f] = rec.rel}
        /\ op'.pc \in {"take", "record"}
    BY <1>1 DEF RemoveStart, Idle
  <2>3. /\ man'[b].state = "moving" /\ man'[b].moved = {} /\ man'[b].rel = rec.rel
        /\ man'[b].orig = rec.orig /\ \A c \in Backups \ {b} : man'[c] = man[c]
        /\ before'[b] = game /\ \A c \in Backups \ {b} : before'[c] = before[c]
    BY <1>0, <2>1 DEF Histories
  <2>4. TakeFound'
    BY <2>1, <2>2, <2>3 DEF TakeFound, Taking, Known, Removable
  <2>5. ~Putting' /\ PutFound'
    BY <2>2 DEF PutFound, Putting
  <2>6. Found(b)'
    BY <2>1, <2>3, <2>5 DEF Found, Known, Elsewhere
  <2>7. ASSUME NEW c \in Backups \ {b} PROVE Found(c)'
    <3>1. ~Moving(c)
      BY <2>1 DEF Blocked, Moving, Present, BackupState, Nothing
    <3>2. Fades(c) /\ man[c].moved \subseteq Files /\ \A f \in Spared(c)' : f \in Spared(c)
      BY <1>0, <2>1, <2>3 DEF Fades, Spared, Manifests
    <3> QED
      BY <2>1, <2>3, <3>1, <3>2, FoundStill DEF FoundInv
  <2> QED
    BY <2>4, <2>5, <2>6, <2>7 DEF FoundInv
<1>2. CASE op.pc # "idle" /\ \A b \in Backups : ~RemoveStart(b)
  <2>0. PICK b \in Backups : b = op.b
    BY <1>0, <1>2
  <2>1. Taking
    BY <1>2 DEF Remove, Taking, At, TakeFile, TakeUnlink, MarkFile, CopyOriginal, TakeRecord,
         CompleteRemoval, RemoveFault, UndoFile, UndoUnlink, UndoFault, UndoEnd, UndoEndFault
  <2>2. /\ Moving(b) /\ Present(b) /\ Found(b) /\ b \notin cleanup
        /\ (op.pc = "complete" <=> brec[b] # NoRec) /\ (op.pc # "complete" => rec # NoRec)
        /\ \A f \in op.todo \union op.moved : Known(b, f, man[b].rel)
    BY <2>0, <2>1 DEF JournalInv, TakeFits, ReleaseInv, FoundInv, TakeFound
  <2>n. man[b].rel # Nothing /\ man[b].moved \subseteq Files
    BY <1>0, <2>2, NothingIsNoRelease DEF ReleaseInv, Manifests
  <2> DEFINE f == First(op.todo)
             l == Last(op.todo)
  <2>3. CASE TakeFile
    <3>1. /\ f \in op.todo /\ f \in Files /\ op.pc = "take"
          /\ UNCHANGED <<man, brec, rec, before>>
      BY <1>a, <2>3 DEF TakeFile, At, Out
    <3>2. CASE game[f] = man[b].rel
      <4>1. /\ saved' = [saved EXCEPT ![b][f] = man[b].rel]
            /\ game' = game \/ game' = [game EXCEPT ![f] = Nothing]
            /\ op' = [op EXCEPT !.pc = IF cross THEN "taken" ELSE "mark"]
        BY <2>0, <2>3, <3>2 DEF TakeFile, MoveOut, Step
      <4>2. /\ op'.pc \in {"taken", "mark"} /\ op'.b = b /\ op'.todo = op.todo
            /\ op'.moved = op.moved
        BY <1>0, <2>0, <4>1 DEF Ops
      <4>3. /\ saved'[b][f] = man[b].rel /\ \A g \in Files : g # f => saved'[b][g] = saved[b][g]
            /\ \A c \in Backups \ {b} : saved'[c] = saved[c]
            /\ \A g \in Files : g # f => game'[g] = game[g]
        BY <1>0, <3>1, <4>1 DEF Vaults
      <4> HIDE DEF f
      <4>4. \A g \in Spared(b)' : g \in Spared(b) /\ game'[g] = game[g]
        BY <2>n, <3>1, <4>3 DEF Spared
      <4>5. TakeFound'
        BY <2>0, <2>1, <3>1, <4>2 DEF FoundInv, TakeFound, Taking, Known
      <4>6. ~Putting'
        BY <4>2 DEF Putting
      <4>7. Found(b)'
        BY <2>1, <2>2, <2>n, <3>1, <4>4, <4>6, FoundFiles DEF Found
      <4> QED
        BY <2>0, <2>1, <3>1, <4>3, <4>5, <4>6, <4>7, FoundTake
    <3>3. CASE game[f] # man[b].rel
      <4>1. op' = [op EXCEPT !.pc = "undo", !.todo = op.moved] /\ saved' = saved /\ game' = game
        BY <2>0, <2>3, <3>3 DEF TakeFile
      <4>2. op'.pc = "undo" /\ op'.b = b /\ op'.todo = op.moved /\ op'.moved = op.moved
        BY <1>0, <2>0, <4>1 DEF Ops
      <4>3. TakeFound' /\ ~Putting'
        BY <2>0, <2>1, <3>1, <4>2 DEF FoundInv, TakeFound, Taking, Known, Putting
      <4>4. Found(b)'
        BY <2>1, <2>2, <2>n, <3>1, <4>1, <4>3, FoundFiles DEF Found, Spared
      <4> QED
        BY <2>0, <2>1, <3>1, <4>1, <4>3, <4>4, FoundTake
    <3> QED
      BY <3>2, <3>3
  <2>4. CASE TakeUnlink
    <3>1. /\ op.pc = "taken" /\ op' = [op EXCEPT !.pc = "mark"] /\ f \in op.todo
          /\ UNCHANGED <<saved, man, brec, rec, before>> /\ game' = [game EXCEPT ![f] = Nothing]
      BY <1>a, <2>4 DEF TakeUnlink, UnlinkGame, Step, At, Out
    <3>2. op'.pc = "mark" /\ op'.b = b /\ op'.todo = op.todo /\ op'.moved = op.moved
      BY <1>0, <2>0, <3>1 DEF Ops
    <3>3. saved[b][f] # Nothing
      BY <2>0, <2>n, <3>1 DEF JournalInv, TakeFits
    <3>4. \A g \in Spared(b)' : g \in Spared(b) /\ game'[g] = game[g]
      BY <1>0, <3>1, <3>3 DEF Spared
    <3>5. TakeFound' /\ ~Putting'
      BY <2>0, <2>1, <3>1, <3>2 DEF FoundInv, TakeFound, Taking, Known, Putting
    <3>6. Found(b)'
      BY <2>1, <2>2, <2>n, <3>1, <3>4, <3>5, FoundFiles DEF Found
    <3> QED
      BY <2>0, <2>1, <3>1, <3>5, <3>6, FoundTake
  <2>5. CASE MarkFile
    <3>1. /\ op.pc = "mark" /\ UNCHANGED <<game, saved, brec, rec, before>>
          /\ man' = [man EXCEPT ![b].moved = op.moved \union {f}] /\ f \in op.todo
      BY <1>a, <2>0, <2>5 DEF MarkFile, At, Out
    <3>2. /\ op'.b = b /\ op'.moved = op.moved \union {f}
          /\ \/ op'.pc = "copy" /\ op'.todo = op.todo
             \/ op'.pc = (IF op.todo = {f} THEN "record" ELSE "take") /\ op'.todo = op.todo \ {f}
      BY <1>0, <2>0, <2>5 DEF MarkFile, Ops
    <3>3. /\ man'[b].orig = man[b].orig /\ man'[b].moved = op.moved \union {f}
          /\ man'[b].rel = man[b].rel /\ \A c \in Backups \ {b} : man'[c] = man[c]
      BY <1>0, <3>1 DEF Manifests
    <3>4. /\ op'.todo \union op'.moved = op.todo \union op.moved
          /\ op'.pc \in {"copy", "record", "take"}
      BY <3>1, <3>2
    <3>5. man[b].moved = op.moved
      BY <2>0, <3>1 DEF JournalInv, TakeFits
    <3> HIDE DEF f
    <3>6. TakeFound' /\ ~Putting'
      BY <2>0, <2>1, <3>1, <3>2, <3>3, <3>4 DEF FoundInv, TakeFound, Taking, Known, Putting
    <3>7. /\ \A g \in Spared(b)' : g \in Spared(b) /\ game'[g] = game[g]
          /\ \A g \in man'[b].moved : Known(b, g, man[b].rel)
      BY <2>2, <3>1, <3>3, <3>5 DEF Spared
    <3>8. Found(b)'
      BY <2>1, <2>2, <2>n, <3>1, <3>3, <3>6, <3>7, FoundFiles
    <3> QED
      BY <2>0, <2>1, <3>1, <3>3, <3>6, <3>8, FoundTake
  <2>6. CASE CopyOriginal
    <3>1. /\ op.pc = "copy" /\ UNCHANGED <<saved, man, brec, rec, before>>
          /\ game' = [game EXCEPT ![f] = man[b].orig[f]]
      BY <2>0, <2>6 DEF CopyOriginal, At
    <3>2. f \in op.moved /\ man[b].moved = op.moved
      BY <2>0, <3>1 DEF JournalInv, TakeFits
    <3>3. /\ op'.pc \in {"record", "take"} /\ op'.b = b /\ op'.moved = op.moved
          /\ op'.todo = op.todo \ {f}
      BY <1>0, <2>0, <2>6 DEF CopyOriginal, NextTake, Ops
    <3> HIDE DEF f
    <3>4. op'.todo \union op'.moved = op.todo \union op.moved
      BY <3>2, <3>3
    <3>5. TakeFound' /\ ~Putting'
      BY <2>0, <2>1, <3>1, <3>3, <3>4 DEF FoundInv, TakeFound, Taking, Known, Putting
    <3>6. \A g \in Spared(b)' : g \in Spared(b) /\ game'[g] = game[g]
      BY <1>0, <3>1, <3>2 DEF Spared
    <3>7. Found(b)'
      BY <2>1, <2>2, <2>n, <3>1, <3>5, <3>6, FoundFiles DEF Found
    <3> QED
      BY <2>0, <2>1, <3>1, <3>5, <3>7, FoundTake
  <2>7. CASE TakeRecord
    <3>1. /\ op.pc = "record" /\ op' = [op EXCEPT !.pc = "complete"] /\ rec' = NoRec
          /\ UNCHANGED <<game, saved, man, before>> /\ brec' = [brec EXCEPT ![b] = rec]
      BY <2>0, <2>7 DEF TakeRecord, Step, At
    <3>2. op'.pc = "complete" /\ op'.b = b /\ op'.moved = op.moved /\ op'.todo = op.todo
      BY <1>0, <2>0, <3>1 DEF Ops
    <3>3. brec'[b] # NoRec /\ \A c \in Backups \ {b} : brec'[c] = brec[c]
      BY <1>0, <2>2, <3>1
    <3>4. TakeFound' /\ ~Putting' /\ ~Putting
      BY <2>0, <2>1, <3>1, <3>2 DEF FoundInv, TakeFound, Taking, Known, Putting
    <3>5. \A g \in Spared(b) : Known(b, g, man[b].orig[g]) /\ Known(b, g, Elsewhere(b, g))
      <4>1. op.todo = {} /\ man[b].moved = op.moved
        BY <2>0, <3>1 DEF JournalInv, TakeFits
      <4>2. \A g \in Files : g \notin op.moved => Known(b, g, man[b].orig[g])
        BY <2>0, <3>1, <4>1 DEF FoundInv, TakeFound
      <4>3. \A g \in Spared(b) : Known(b, g, Elsewhere(b, g))
        BY <2>2, <3>1 DEF Found
      <4> QED
        BY <4>1, <4>2, <4>3 DEF Spared
    <3>6. Found(b)'
      BY <2>2, <3>1, <3>3, <3>4, <3>5 DEF Found, Known, Spared, Elsewhere
    <3> QED
      BY <2>0, <2>1, <3>1, <3>3, <3>4, <3>6, FoundTake
  <2>8. CASE CompleteRemoval
    <3>1. /\ op.pc = "complete" /\ op' = Idle /\ UNCHANGED <<game, saved, brec, rec, before>>
          /\ man' = [man EXCEPT ![b].state = "complete"] /\ brec[b] # NoRec
      BY <2>0, <2>1, <2>8 DEF CompleteRemoval, At, JournalInv, TakeFits
    <3>2. /\ man'[b].state = "complete" /\ man'[b].moved = man[b].moved
          /\ man'[b].orig = man[b].orig
          /\ man'[b].rel = man[b].rel /\ \A c \in Backups \ {b} : man'[c] = man[c]
      BY <1>0, <3>1 DEF Manifests
    <3>3. TakeFound' /\ ~Putting'
      BY <3>1 DEF TakeFound, Taking, Putting, Idle
    <3>4. Found(b)'
      BY <2>2, <3>1, <3>2 DEF Found, Known, Spared, Moving
    <3> QED
      BY <2>0, <2>1, <3>1, <3>2, <3>3, <3>4, FoundTake
  <2>9. CASE RemoveFault \/ UndoFault \/ UndoEndFault
    <3>1. UNCHANGED <<saved, man, game, brec, rec, before>>
      BY <2>9 DEF RemoveFault, UndoFault, UndoEndFault
    <3>2. TakeFound' /\ ~Putting'
      <4>1. CASE op' = Idle
        BY <4>1 DEF TakeFound, Taking, Putting, Idle
      <4>2. CASE RemoveFault /\ op.pc # "complete"
        <5>1. /\ op'.pc = "undo" /\ op'.b = b /\ op'.todo = op'.moved
              /\ op'.moved = op.moved \union (IF op.pc = "mark" THEN {f} ELSE {})
          BY <1>0, <2>0, <4>2 DEF RemoveFault, At, Ops
        <5>2. op'.todo \union op'.moved \subseteq op.todo \union op.moved
          BY <1>a, <5>1 DEF Out
        <5> QED
          BY <2>0, <2>1, <3>1, <5>1, <5>2 DEF FoundInv, TakeFound, Taking, Known, Putting
      <4>3. CASE UndoFault
        <5>1. op'.pc = "undo" /\ op'.b = b /\ op'.todo = op.todo \ {l} /\ op'.moved = op.moved
          BY <1>0, <2>0, <4>3, Zenon DEF UndoFault, Ops
        <5> HIDE DEF l
        <5> QED
          BY <2>0, <2>1, <3>1, <5>1 DEF FoundInv, TakeFound, Taking, Known, Putting
      <4> QED
        BY <2>9, <4>1, <4>2, <4>3 DEF RemoveFault, UndoEndFault, At
    <3>3. Found(b)'
      <4>1. ~Putting
        BY <2>1 DEF Taking, Putting
      <4>2. /\ Fades(b) /\ \A g \in Spared(b)' : g \in Spared(b)
            /\ \A g : Elsewhere(b, g)' = Elsewhere(b, g)
        BY <1>0, <3>1, <3>2, <4>1 DEF Fades, Spared, Elsewhere
      <4> QED
        BY <2>2, <2>n, <3>1, <4>2, FoundStill
    <3> QED
      BY <2>0, <2>1, <3>1, <3>2, <3>3, FoundTake
  <2>10. CASE UndoFile
    <3>1. /\ op.pc = "undo" /\ op.todo # {} /\ MoveIn(l) /\ UNCHANGED <<man, brec, rec, before>>
          /\ IF cross THEN op' = [op EXCEPT !.pc = "undone"]
             ELSE op' = [op EXCEPT !.todo = @ \ {l}, !.moved = @ \ {l}]
      BY <2>10 DEF UndoFile, At, Step
    <3>2. l \in op.todo /\ l \in Files /\ saved[b][l] = man[b].rel
      BY <1>a, <2>0, <3>1 DEF JournalInv, TakeFits
    <3>3. /\ game'[l] = man[b].rel /\ \A g \in Files : g # l => game'[g] = game[g]
          /\ \A g \in Files : g # l => saved'[b][g] = saved[b][g]
          /\ \A c \in Backups \ {b} : saved'[c] = saved[c]
      BY <1>0, <2>0, <3>1, <3>2 DEF MoveIn, Vaults
    <3> HIDE DEF l
    <3>4. /\ op'.pc \in {"undo", "undone"} /\ op'.b = b /\ op'.todo \subseteq op.todo
          /\ op'.moved \subseteq op.moved
      <4>1. CASE cross
        BY <1>0, <2>0, <3>1, <4>1 DEF Ops
      <4>2. CASE ~cross
        <5>1. op' = [op EXCEPT !.todo = @ \ {l}, !.moved = @ \ {l}]
          BY <3>1, <4>2
        <5>2. /\ op'.pc = op.pc /\ op'.b = op.b /\ op'.todo = op.todo \ {l}
              /\ op'.moved = op.moved \ {l}
          BY <1>0, <5>1 DEF Ops
        <5> QED
          BY <2>0, <3>1, <5>2
      <4> QED
        BY <4>1, <4>2
    <3>5. TakeFound' /\ ~Putting'
      BY <2>0, <2>1, <3>1, <3>4 DEF FoundInv, TakeFound, Taking, Known, Putting
    <3>6. \A g \in Spared(b)' : \/ g \in Spared(b) /\ game'[g] = game[g]
                                \/ game'[g] = man[b].rel /\ Known(b, g, man[b].rel)
      BY <2>2, <3>1, <3>2, <3>3 DEF Spared
    <3>7. Found(b)'
      BY <2>1, <2>2, <2>n, <3>1, <3>5, <3>6, FoundFiles DEF Found
    <3> QED
      BY <2>0, <2>1, <3>1, <3>3, <3>5, <3>7, FoundTake
  <2>11. CASE UndoUnlink
    <3>1. /\ op.pc = "undone" /\ UNCHANGED <<game, man, brec, rec, before>> /\ l \in op.todo
          /\ saved' = [saved EXCEPT ![b][l] = Nothing] /\ l \in Files
          /\ op' = [op EXCEPT !.pc = "undo", !.todo = @ \ {l}, !.moved = @ \ {l}]
      BY <1>a, <2>0, <2>11 DEF UndoUnlink, UnlinkSaved, At, Out
    <3>2. game[l] = man[b].rel
      BY <2>0, <3>1 DEF JournalInv, TakeFits
    <3>3. /\ \A g \in Files : g # l => saved'[b][g] = saved[b][g]
          /\ \A c \in Backups \ {b} : saved'[c] = saved[c]
      BY <1>0, <3>1 DEF Vaults
    <3>4. /\ op'.pc = "undo" /\ op'.b = b /\ op'.todo \subseteq op.todo
          /\ op'.moved \subseteq op.moved
      BY <1>0, <2>0, <3>1 DEF Ops
    <3> HIDE DEF l
    <3>5. TakeFound' /\ ~Putting'
      BY <2>0, <2>1, <3>1, <3>4 DEF FoundInv, TakeFound, Taking, Known, Putting
    <3>6. \A g \in Spared(b)' : \/ g \in Spared(b) /\ game'[g] = game[g]
                                \/ game'[g] = man[b].rel /\ Known(b, g, man[b].rel)
      BY <2>2, <3>1, <3>2, <3>3 DEF Spared
    <3>7. Found(b)'
      BY <2>1, <2>2, <2>n, <3>1, <3>5, <3>6, FoundFiles DEF Found
    <3> QED
      BY <2>0, <2>1, <3>1, <3>3, <3>5, <3>7, FoundTake
  <2>12. CASE UndoEnd
    <3>1. /\ op.pc = "undo" /\ op.todo = {} /\ op' = Idle
          /\ UNCHANGED <<game, saved, brec, rec, before>>
          /\ man' = [man EXCEPT ![b] = IF op.left = {} THEN NoMan
                                       ELSE [@ EXCEPT !.moved = op.moved]]
      BY <2>0, <2>12 DEF UndoEnd, At
    <3>2. /\ \A c \in Backups \ {b} : man'[c] = man[c]
          /\ \/ man'[b] = NoMan
             \/ man'[b].rel = man[b].rel /\ man'[b].moved = op.moved
      BY <1>0, <3>1 DEF Manifests
    <3>3. TakeFound' /\ ~Putting'
      BY <3>1 DEF TakeFound, Taking, Putting, Idle
    <3>4. ASSUME man'[b] = NoMan PROVE Found(b)'
      <4>1. man'[b].state = Nothing /\ man'[b].moved = {}
        BY <3>4 DEF NoMan
      <4> QED
        BY <4>1 DEF Found, Present, Moving, Nothing
    <3>5. ASSUME man'[b].rel = man[b].rel, man'[b].moved = op.moved PROVE Found(b)'
      <4>1. \A g \in man[b].moved \ op.moved : game[g] = man[b].rel /\ Known(b, g, man[b].rel)
        BY <2>0, <2>2, <3>1 DEF JournalInv, TakeFits, Found
      <4>2. \A g \in Spared(b)' : \/ g \in Spared(b) /\ game'[g] = game[g]
                                  \/ game'[g] = man[b].rel /\ Known(b, g, man[b].rel)
        BY <3>1, <3>5, <4>1 DEF Spared
      <4> QED
        BY <2>1, <2>2, <2>n, <3>1, <3>3, <3>5, <4>2, FoundFiles
    <3> QED
      BY <2>0, <2>1, <3>1, <3>2, <3>3, <3>4, <3>5, FoundTake
  <2> QED
    BY <1>2, <2>3, <2>4, <2>5, <2>6, <2>7, <2>8, <2>9, <2>10, <2>11, <2>12 DEF Remove
<1>3. Remove => (\E b \in Backups : RemoveStart(b)) \/ op.pc # "idle"
  BY DEF Remove, At, TakeFile, TakeUnlink, MarkFile, CopyOriginal, TakeRecord,
         CompleteRemoval, RemoveFault, UndoFile, UndoUnlink, UndoFault, UndoEnd, UndoEndFault
<1> QED
  BY <1>1, <1>2, <1>3

\* A step inside a Put back of backup b, which moves only what b lists.
LEMMA FoundPut ==
  ASSUME TypeInv, FoundInv, Putting, NEW b \in Backups, b = op.b,
         UNCHANGED <<man, brec, rec>>, \A c \in Backups : Fades(c),
         Putting', ~Taking', op'.b = b,
         \A f \in Files : f \notin man[b].moved => game'[f] = game[f] /\ saved'[b][f] = saved[b][f],
         \A c \in Backups \ {b} : saved'[c] = saved[c],
         op'.pc \in {"put", "placed"} => op.pc \in {"put", "placed"},
         op'.left = op.left \/ \A c \in Backups : Forgotten(c)',
         AsItWas => AsItWas' \/ \A c \in Backups \ {b} : Forgotten(c)'
  PROVE  FoundInv'
<1>1. \A c \in Backups : man[c].moved \subseteq Files
  BY Typing DEF TypeInv, Manifests
<1>2. \A f \in Spared(b)' : f \in Spared(b) /\ f \in Files /\ game'[f] = game[f]
  BY DEF Spared
<1>3. Found(b)'
  <2>1. \A f \in Spared(b)' : Elsewhere(b, f)' = Elsewhere(b, f)
    BY <1>2 DEF Elsewhere
  <2> QED
    BY <1>1, <1>2, <2>1, FoundStill DEF FoundInv
<1>4. ASSUME NEW c \in Backups \ {b} PROVE Found(c)'
  <2>1. \A f : Elsewhere(c, f)' = Elsewhere(c, f)
    BY DEF Elsewhere
  <2>2. \A f \in Spared(c)' : f \in Spared(c)
    BY DEF Spared
  <2> QED
    BY <1>1, <2>1, <2>2, FoundStill DEF FoundInv
<1>5. TakeFound'
  BY DEF TakeFound, Taking
<1>6. op'.pc \in {"put", "placed"} => \A f \in Spared(b)' : Known(b, f, game[f])'
  BY <1>2 DEF FoundInv, PutFound, Known, Fades
<1>7. op'.left # {} => \A c \in Backups : Forgotten(c)'
  BY DEF FoundInv, PutFound, Forgotten, Fades
<1>8. ASSUME NEW c \in Backups \ {b}, Moving(c)'
      PROVE  Forgotten(c)' \/ (man'[b].state = "complete" /\ brec'[c] # NoRec /\ AsItWas')
  <2>1. Moving(c)
    BY <1>8 DEF Moving
  <2>2. CASE Forgotten(c)
    BY <2>2 DEF Forgotten, Fades
  <2> QED
    BY <2>1, <2>2 DEF FoundInv, PutFound
<1>9. PutFound'
  BY <1>6, <1>7, <1>8 DEF PutFound
<1> QED
  BY <1>3, <1>4, <1>5, <1>9 DEF FoundInv

\* The end of an operation.
LEMMA FoundIdle ==
  ASSUME op' = Idle, \A b \in Backups : Found(b)'
  PROVE  FoundInv'
BY DEF FoundInv, TakeFound, PutFound, Taking, Putting, Idle

LEMMA FoundPutBack ==
  ASSUME TypeInv, ReleaseInv, JournalInv, FoundInv, PutBack
  PROVE  FoundInv'
<1>0. /\ op \in Ops /\ man \in [Backups -> Manifests] /\ saved \in Vaults
      /\ game \in [Files -> Contents] /\ brec \in [Backups -> Recs] /\ before \in Histories
      /\ (op.pc # "idle" => op.b \in Backups)
  BY Typing DEF TypeInv, OpShape
<1>a. /\ op.todo \in SUBSET Files /\ op.moved \in SUBSET Files
      /\ op.todo # {} => First(op.todo) \in op.todo /\ Last(op.todo) \in op.todo
      /\ op.pc \in Out => op.todo # {}
      /\ \A b \in Backups : man[b].moved \subseteq Files
  BY <1>0, FirstIsFile, LastIsFile DEF Ops, TypeInv, OpShape, Manifests
<1>f. ASSUME before' = before PROVE \A c \in Backups : Fades(c)
  BY <1>f DEF Fades
<1>1. ASSUME NEW b \in Backups, PutStart(b) PROVE FoundInv'
  <2>1. /\ op.pc = "idle" /\ Present(b) /\ BackupState(b) \in {"ready", "interrupted"}
        /\ UNCHANGED <<saved, man, game, brec, rec, before>>
        /\ op' = [Idle EXCEPT !.pc = "put", !.b = b, !.todo = man[b].moved]
    BY <1>1 DEF PutStart, Restorable, At, disk
  <2>2. op'.pc = "put" /\ op'.b = b /\ op'.moved = {} /\ op'.left = {}
    BY <2>1 DEF Idle
  <2>3. ~Putting /\ Putting' /\ ~Taking'
    BY <2>1, <2>2 DEF Putting, Taking
  <2>4. JournalInv'
    BY <1>1, JournalPutBack
  <2>5. man[b].state = "complete" => brec[b] # NoRec
    BY <2>1, <2>2, <2>3, <2>4 DEF JournalInv, PutFits, Returned
  <2>6. /\ Moving(b) => brec[b] = NoRec \/ rec = NoRec
        /\ ~Moving(b) => man[b].state = "complete" /\ rec = NoRec /\ game = man[b].orig
    BY <1>0, <2>1 DEF BackupState, Interrupted, Moving, Present, Manifests
  <2>7. ASSUME NEW c \in Backups \ {b}, Moving(c) PROVE ~Moving(b)
    BY <2>7 DEF JournalInv
  <2>8. ASSUME NEW c \in Backups PROVE Found(c)'
    <3>1. Moving(c) => \A f : Elsewhere(c, f)' = Elsewhere(c, f)
      BY <2>1, <2>2, <2>3, <2>6, <2>7 DEF Elsewhere
    <3>2. \A f \in Spared(c)' : f \in Spared(c)
      BY <2>1 DEF Spared
    <3> QED
      BY <1>a, <1>f, <2>1, <3>1, <3>2, FoundStill DEF FoundInv
  <2>9. \A f \in Spared(b) : Known(b, f, game[f])
    <3>1. CASE Moving(b)
      BY <2>3, <2>6, <3>1 DEF FoundInv, Found, Elsewhere
    <3>2. CASE ~Moving(b)
      BY <2>1, <2>5, <2>6, <3>2 DEF FoundInv, Found
    <3> QED
      BY <3>1, <3>2
  <2>10. ASSUME NEW c \in Backups \ {b}, Moving(c)
         PROVE  Forgotten(c) \/ (man[b].state = "complete" /\ brec[c] # NoRec /\ AsItWas')
    <3>1. rec = NoRec /\ game = man[b].orig /\ man[b].state = "complete"
      BY <2>6, <2>7, <2>10
    <3>2. AsItWas'
      BY <2>1, <2>2, <3>1 DEF AsItWas
    <3> QED
      BY <2>10, <3>1, <3>2 DEF FoundInv, Found
  <2>11. /\ \A f \in Spared(b)' : Known(b, f, game[f])'
         /\ \A c \in Backups \ {b} : Moving(c)' =>
              Forgotten(c)' \/ (man'[b].state = "complete" /\ brec'[c] # NoRec /\ AsItWas')
    BY <2>1, <2>9, <2>10 DEF Spared, Known, Moving, Forgotten
  <2>12. PutFound' /\ TakeFound'
    BY <2>2, <2>3, <2>11 DEF PutFound, TakeFound, Taking
  <2> QED
    BY <2>8, <2>12 DEF FoundInv
<1>2. ASSUME NEW b \in Backups, Cleanup(b) PROVE FoundInv'
  <2>1. /\ b \in cleanup /\ UNCHANGED <<op, saved, game, rec, brec, before>>
        /\ man'[b] = NoMan /\ \A c \in Backups \ {b} : man'[c] = man[c]
    BY <1>0, <1>2 DEF Cleanup
  <2>2. man'[b].state = Nothing /\ man'[b].moved = {}
    BY <2>1 DEF NoMan
  <2>3. Found(b)'
    BY <2>2 DEF Found, Present, Moving, Nothing
  <2>4. Putting /\ op.b = b => man[b].moved = {} /\ man[b].state # "complete"
    BY <2>1 DEF JournalInv, PutFits, Returned
  <2>5. ASSUME NEW c \in Backups \ {b}, Moving(c), ~Forgotten(c)
        PROVE  ~(Putting /\ op.b = b)
    BY <2>4, <2>5 DEF FoundInv, PutFound
  <2>6. ASSUME NEW c \in Backups \ {b} PROVE Found(c)'
    <3>1. CASE Moving(c) /\ ~Forgotten(c)
      <4>1. \A f : Elsewhere(c, f)' = Elsewhere(c, f)
        <5>1. Putting => op.b \in Backups
          BY <1>0 DEF Putting
        <5> QED
          BY <2>1, <2>5, <3>1, <5>1 DEF Elsewhere, Putting
      <4>2. \A f \in Spared(c)' : f \in Spared(c)
        BY <2>1 DEF Spared
      <4> QED
        BY <1>a, <1>f, <2>1, <4>1, <4>2, FoundStill DEF FoundInv
    <3>2. CASE ~Moving(c) \/ Forgotten(c)
      <4>1. \A f \in Spared(c)' : f \in Spared(c)
        BY <2>1 DEF Spared
      <4>2. Moving(c) => Forgotten(c)'
        BY <2>1, <3>2 DEF Forgotten
      <4> QED
        BY <1>a, <1>f, <2>1, <4>1, <4>2, FoundStill DEF FoundInv
    <3> QED
      BY <3>1, <3>2
  <2>7. TakeFound'
    <3>1. Taking => op.b # b /\ op.b \in Backups
      BY <1>0, <2>1 DEF ReleaseInv, Taking
    <3>2. Taking => man'[op.b] = man[op.b]
      BY <2>1, <3>1
    <3> QED
      BY <2>1, <3>2 DEF FoundInv, TakeFound, Taking, Known
  <2>8. PutFound'
    <3>1. CASE Putting /\ op.b = b
      <4>1. Spared(b)' = Spared(b)
        BY <2>1, <2>2, <2>4, <3>1 DEF Spared
      <4>2. \A c \in Backups \ {b} : Moving(c)' => Forgotten(c)'
        BY <2>1, <2>5, <3>1 DEF Moving, Forgotten
      <4> QED
        BY <2>1, <3>1, <4>1, <4>2 DEF FoundInv, PutFound, Putting, Known, Forgotten
    <3>2. CASE Putting /\ op.b # b
      <4>1. op.b \in Backups
        BY <1>0, <3>2 DEF Putting
      <4>2. man'[op.b] = man[op.b] /\ ~Moving(b)'
        BY <2>1, <2>2, <3>2, <4>1 DEF Moving, Nothing
      <4>3. Spared(op.b)' = Spared(op.b) /\ (AsItWas' <=> AsItWas)
        BY <2>1, <4>2 DEF Spared, AsItWas
      <4>4. \A c \in Backups \ {b} : (Moving(c)' <=> Moving(c)) /\ (Forgotten(c)' <=> Forgotten(c))
        BY <2>1 DEF Moving, Forgotten
      <4>5. Forgotten(b)' <=> Forgotten(b)
        BY <2>1 DEF Forgotten
      <4> QED
        BY <2>1, <4>2, <4>3, <4>4, <4>5 DEF FoundInv, PutFound, Putting, Known
    <3>3. CASE ~Putting
      BY <2>1, <3>3 DEF PutFound, Putting
    <3> QED
      BY <3>1, <3>2, <3>3
  <2> QED
    BY <2>3, <2>6, <2>7, <2>8 DEF FoundInv
<1>3. CASE op.pc # "idle" /\ \A b \in Backups : ~Cleanup(b)
  <2>0. PICK b \in Backups : b = op.b
    BY <1>0, <1>3
  <2>1. Putting
    BY <1>3 DEF PutBack, Putting, At, PutStart, PutFile, PutUnlink, PutRecord, PutFault,
         RollFile, RollUnlink, RollOriginal, RollFault, RollEnd, RollEndFault
  <2>2. op.todo \union op.moved \subseteq man[b].moved
    BY <2>0, <2>1 DEF JournalInv, PutFits
  <2> DEFINE f == First(op.todo)
             l == Last(op.todo)
  <2>3. CASE PutFile
    <3>1. /\ f \in op.todo /\ f \in Files /\ op.pc = "put"
          /\ UNCHANGED <<man, brec, rec, before>> /\ MoveIn(f)
      BY <1>a, <2>3 DEF PutFile, At
    <3>2. /\ \A g \in Files : g # f => game'[g] = game[g] /\ saved'[b][g] = saved[b][g]
          /\ \A c \in Backups \ {b} : saved'[c] = saved[c]
      BY <1>0, <2>0, <3>1 DEF MoveIn, Vaults
    <3>3. /\ op'.b = b /\ op'.left = op.left
          /\ \/ op'.pc = "placed" /\ op'.moved = op.moved /\ op'.todo = op.todo
             \/ op'.pc = "put" /\ op'.moved = op.moved \union {f}
      BY <1>0, <2>0, <2>3 DEF PutFile, PutDone, Step, Ops
    <3>4. AsItWas => AsItWas'
      BY <2>0, <3>1, <3>2, <3>3 DEF AsItWas
    <3>5. Putting' /\ ~Taking' /\ op'.pc \in {"put", "placed"}
      BY <3>3 DEF Putting, Taking
    <3> HIDE DEF f
    <3> QED
      BY <1>f, <2>0, <2>1, <2>2, <3>1, <3>2, <3>3, <3>4, <3>5, FoundPut
  <2>4. CASE PutUnlink
    <3>1. /\ f \in op.todo /\ f \in Files /\ op.pc = "placed"
          /\ UNCHANGED <<game, man, brec, rec, before>>
          /\ saved' = [saved EXCEPT ![b][f] = Nothing]
          /\ op' = [op EXCEPT !.pc = "put", !.todo = @ \ {f}, !.moved = @ \union {f}]
      BY <1>a, <2>0, <2>4 DEF PutUnlink, UnlinkSaved, PutDone, At, Out
    <3>2. /\ \A g \in Files : g # f => saved'[b][g] = saved[b][g]
          /\ \A c \in Backups \ {b} : saved'[c] = saved[c]
      BY <1>0, <3>1 DEF Vaults
    <3>3. op'.b = b /\ op'.left = op.left /\ op'.pc = "put" /\ op'.moved = op.moved \union {f}
      BY <1>0, <2>0, <3>1 DEF Ops
    <3>4. AsItWas => AsItWas'
      BY <2>0, <3>1, <3>3 DEF AsItWas
    <3>5. Putting' /\ ~Taking'
      BY <3>3 DEF Putting, Taking
    <3> HIDE DEF f
    <3> QED
      BY <1>f, <2>0, <2>1, <2>2, <3>1, <3>2, <3>3, <3>4, <3>5, FoundPut
  <2>5. CASE PutRecord
    <3>1. /\ op.pc = "put" /\ op' = Idle /\ UNCHANGED <<game, saved, man, before>>
          /\ \A c \in Backups \ {b} : brec'[c] = brec[c]
          /\ \/ brec[b] # NoRec /\ rec = NoRec /\ rec' = brec[b] /\ brec'[b] = NoRec
             \/ brec[b] = NoRec /\ UNCHANGED <<rec, brec>> /\ man[b].state # "complete"
      BY <2>0, <2>5, PutFilesGiven DEF PutRecord, At
    <3>2. /\ \A c \in Backups : \A g \in Spared(c)' : g \in Spared(c)
          /\ \A g : Elsewhere(b, g)' = game[g] /\ Elsewhere(b, g) = game[g]
      BY <2>0, <3>1 DEF Spared, Elsewhere, Putting, Idle
    <3>3. Found(b)'
      <4>1. CASE brec[b] # NoRec /\ rec = NoRec /\ rec' = brec[b] /\ brec'[b] = NoRec
        BY <3>1, <3>2, <4>1 DEF FoundInv, Found, Known, Moving
      <4>2. CASE UNCHANGED <<rec, brec>>
        BY <1>a, <1>f, <3>1, <3>2, <4>2, FoundStill DEF FoundInv
      <4> QED
        BY <3>1, <4>1, <4>2
    <3>4. ASSUME NEW c \in Backups \ {b} PROVE Found(c)'
      <4>1. Moving(c) => \/ Forgotten(c)
                         \/ man[b].state = "complete" /\ brec[c] # NoRec
        BY <2>0, <2>1 DEF FoundInv, PutFound
      <4>2. Moving(c) => \/ Forgotten(c)'
                         \/ brec[c] # NoRec /\ rec' # NoRec
        BY <3>1, <4>1 DEF Forgotten
      <4> QED
        BY <1>a, <1>f, <3>1, <3>2, <4>2, FoundStill DEF FoundInv
    <3> QED
      BY <3>1, <3>3, <3>4, FoundIdle
  <2>6. CASE PutFault
    <3>1. /\ UNCHANGED <<saved, game, man, brec, rec>> /\ op.pc \in {"put", "placed"}
          /\ op' = [op EXCEPT !.pc = "roll", !.todo = op.moved]
          /\ IF op.pc = "placed" THEN ForgetAllBut({b}) ELSE before' = before
      BY <2>0, <2>6, Zenon DEF PutFault, disk, At
    <3>2. op'.pc = "roll" /\ op'.b = b /\ op'.todo = op.moved /\ op'.left = op.left
      BY <1>0, <2>0, <3>1 DEF Ops
    <3>3. /\ \A c \in Backups : Fades(c)
          /\ op.pc = "placed" => \A c \in Backups \ {b} : Forgotten(c)'
      BY <1>0, <1>f, <3>1, ForgetFades
    <3>4. op.pc = "put" /\ AsItWas => AsItWas'
      BY <2>0, <3>1, <3>2 DEF AsItWas
    <3>5. Putting' /\ ~Taking'
      BY <3>2 DEF Putting, Taking
    <3> QED
      BY <2>0, <2>1, <3>1, <3>2, <3>3, <3>4, <3>5, FoundPut
  <2>7. CASE RollFile \/ RollUnlink
    <3>1. /\ UNCHANGED <<man, brec, rec, before>> /\ l \in Files /\ l \in op.todo
          /\ op.pc \in {"roll", "rolled"}
          /\ game' = game \/ game' = [game EXCEPT ![l] = Nothing]
          /\ saved' = saved \/ saved' = [saved EXCEPT ![b][l] = game[l]]
          /\ \/ op' = [op EXCEPT !.pc = "rolled"]
             \/ op' = [op EXCEPT !.pc = "recopy"]
      BY <1>a, <2>0, <2>7 DEF RollFile, RollUnlink, MoveOut, UnlinkGame, Step, At, Out
    <3>2. /\ op'.pc \in {"rolled", "recopy"} /\ op'.b = b /\ op'.todo = op.todo
          /\ op'.left = op.left
      BY <1>0, <2>0, <3>1 DEF Ops
    <3>3. /\ \A g \in Files : g # l => game'[g] = game[g] /\ saved'[b][g] = saved[b][g]
          /\ \A c \in Backups \ {b} : saved'[c] = saved[c]
      BY <1>0, <3>1 DEF Vaults
    <3> HIDE DEF l
    <3>4. AsItWas => AsItWas'
      BY <2>0, <3>1, <3>2, <3>3 DEF AsItWas
    <3>5. Putting' /\ ~Taking'
      BY <3>2 DEF Putting, Taking
    <3> QED
      BY <1>f, <2>0, <2>1, <2>2, <3>1, <3>2, <3>3, <3>4, <3>5, FoundPut
  <2>8. CASE RollOriginal \/ RollFault
    <3>1. /\ UNCHANGED <<saved, man, brec, rec>> /\ l \in op.todo /\ l \in Files
          /\ \/ /\ RollNext(l) /\ before' = before /\ op.pc = "recopy"
                /\ game' = [game EXCEPT ![l] = man[b].orig[l]]
             \/ RollStays(l) /\ ForgetAllBut({}) /\ game' = game
      BY <1>a, <2>0, <2>8 DEF RollOriginal, RollFault, disk, At, Out
    <3>2. /\ op'.pc = "roll" /\ op'.b = b /\ op'.todo = op.todo \ {l}
          /\ RollNext(l) => op'.left = op.left
      BY <1>0, <2>0, <3>1 DEF RollNext, RollStays, Ops
    <3>3. /\ \A c \in Backups : Fades(c)
          /\ \/ /\ RollNext(l) /\ before' = before /\ op.pc = "recopy"
                /\ game' = [game EXCEPT ![l] = man[b].orig[l]]
             \/ \A c \in Backups : Forgotten(c)'
      BY <1>0, <1>f, <3>1, ForgetFades
    <3>4. \A g \in Files : g # l => game'[g] = game[g]
      BY <1>0, <3>1
    <3> HIDE DEF l
    <3>5. AsItWas => AsItWas' \/ \A c \in Backups : Forgotten(c)'
      <4>1. CASE op.pc = "recopy" /\ game' = [game EXCEPT ![l] = man[b].orig[l]]
        <5>1. game'[l] = man[b].orig[l] /\ man'[b] = man[b]
          BY <1>0, <3>1, <4>1
        <5> QED
          BY <2>0, <3>2, <3>4, <4>1, <5>1 DEF AsItWas
      <4> QED
        BY <3>3, <4>1
    <3>6. Putting' /\ ~Taking'
      BY <3>2 DEF Putting, Taking
    <3>7. op'.left = op.left \/ \A c \in Backups : Forgotten(c)'
      BY <3>2, <3>3
    <3>8. \A g \in Files : g \notin man[b].moved => game'[g] = game[g] /\ saved'[b][g] = saved[b][g]
      BY <2>2, <3>1, <3>4
    <3> QED
      BY <2>0, <2>1, <3>1, <3>2, <3>3, <3>5, <3>6, <3>7, <3>8, FoundPut
  <2>9. CASE RollEnd \/ RollEndFault
    <3>1. /\ op' = Idle /\ UNCHANGED <<game, saved, brec, rec, before>>
          /\ op.pc = "roll" /\ op.todo = {}
          /\ \/ man' = [man EXCEPT ![b].moved = @ \ op.left]
             \/ op.left # {} /\ man' = man
      BY <2>0, <2>9 DEF RollEnd, RollEndFault, disk, At
    <3>2. \A c \in Backups : man'[c].moved \subseteq Files
      BY <1>0, <1>a, <3>1 DEF Manifests
    <3>3. CASE op.left # {}
      <4>1. \A c \in Backups : Forgotten(c)'
        BY <2>1, <3>1, <3>3 DEF FoundInv, PutFound, Forgotten
      <4> QED
        BY <3>1, <3>2, <4>1, ForgottenFound, FoundIdle
    <3>4. CASE op.left = {}
      <4>1. \A c \in Backups : man'[c] = man[c]
        <5>1. man[b].moved \ op.left = man[b].moved
          BY <3>4
        <5>2. [man[b] EXCEPT !.moved = man[b].moved \ op.left] = man[b]
          BY <1>0, <5>1 DEF Manifests
        <5> QED
          BY <1>0, <3>1, <3>4, <5>2
      <4>2. ASSUME NEW c \in Backups PROVE Found(c)'
        <5>1. \A g \in Spared(c)' : g \in Spared(c) /\ g \in Files
          BY <3>1, <4>1 DEF Spared
        <5>2. CASE c = b
          <6>1. \A g : Elsewhere(c, g)' = Elsewhere(c, g)
            BY <2>0, <3>1, <5>2 DEF Elsewhere, Putting, Idle
          <6> QED
            BY <1>a, <1>f, <3>1, <4>1, <5>1, <6>1, FoundStill DEF FoundInv
        <5>3. CASE c # b
          <6>1. Moving(c) => Forgotten(c) \/ AsItWas
            BY <2>0, <2>1, <5>3 DEF FoundInv, PutFound
          <6>2. AsItWas => \A g \in Files : Elsewhere(c, g)' = Elsewhere(c, g)
            BY <2>0, <2>1, <3>1, <5>3 DEF AsItWas, Elsewhere, Putting, Idle
          <6>3. Moving(c) => Forgotten(c)' \/ \A g \in Files : Elsewhere(c, g)' = Elsewhere(c, g)
            BY <3>1, <6>1, <6>2 DEF Forgotten
          <6> QED
            BY <1>a, <1>f, <3>1, <4>1, <5>1, <6>3, FoundStill DEF FoundInv
        <5> QED
          BY <5>2, <5>3
      <4> QED
        BY <3>1, <4>2, FoundIdle
    <3> QED
      BY <3>3, <3>4
  <2>10. \A c \in Backups : ~PutStart(c)
    BY <1>3 DEF PutStart, At
  <2> QED
    BY <1>3, <2>3, <2>4, <2>5, <2>6, <2>7, <2>8, <2>9, <2>10 DEF PutBack
<1>4. PutBack => (\E b \in Backups : PutStart(b) \/ Cleanup(b)) \/ op.pc # "idle"
  BY DEF PutBack, At, PutFile, PutUnlink, PutRecord, PutFault,
         RollFile, RollUnlink, RollOriginal, RollFault, RollEnd, RollEndFault
<1> QED
  BY <1>1, <1>2, <1>3, <1>4

LEMMA FoundWorld ==
  ASSUME TypeInv, FoundInv, World \/ UNCHANGED vars
  PROVE  FoundInv'
<1>0. /\ game \in [Files -> Contents] /\ before \in Histories
      /\ (op.pc # "idle" => op.b \in Backups)
  BY Typing DEF TypeInv, OpShape
<1>1. /\ UNCHANGED <<saved, man, brec>>
      /\ \A b \in Backups : man[b].moved \subseteq Files /\ man'[b].moved \subseteq Files
      /\ \A b \in Backups : \A f \in Spared(b)' : f \in Spared(b) /\ f \in Files
  <2>1. UNCHANGED <<saved, man, brec>>
    BY DEF World, Crash, ClientInstall, ClientRestore, Edit, vars, disk
  <2> QED
    BY <2>1, Typing DEF TypeInv, Manifests, Spared
<1>2. CASE ClientRestore \/ \E r \in Releases : ClientInstall(r)
  <2>1. op' = op /\ op.pc = "idle" /\ ForgetAllBut({})
    BY <1>2 DEF ClientRestore, ClientInstall, At
  <2>2. \A b \in Backups : Found(b)'
    BY <1>0, <1>1, <2>1, ForgetFades, ForgottenFound
  <2> QED
    BY <2>1, <2>2 DEF FoundInv, TakeFound, PutFound, Taking, Putting
<1>3. ASSUME NEW e \in Files, Edit(e) PROVE FoundInv'
  <2>1. /\ UNCHANGED <<rec, op>> /\ op.pc \in {"idle", "take"}
        /\ \A b \in Backups : before'[b] = [before[b] EXCEPT ![e] = "unknown"]
        /\ \A f \in Files : f # e => game'[f] = game[f]
    BY <1>0, <1>3 DEF Edit, At
  <2>2. ASSUME NEW b \in Backups PROVE Fades(b) /\ before'[b][e] = "unknown"
    <3>1. before[b] \in [Files -> Contents \union {"unknown"}]
      BY <1>0 DEF Histories
    <3> QED
      BY <2>1, <3>1 DEF Fades
  <2>3. ~Putting /\ ~Putting'
    BY <2>1 DEF Putting
  <2>4. ASSUME NEW b \in Backups PROVE Found(b)'
    <3>1. \A f \in Spared(b)' : before'[b][f] = "unknown" \/ Elsewhere(b, f)' = Elsewhere(b, f)
      BY <1>1, <2>1, <2>2, <2>3 DEF Elsewhere
    <3> QED
      BY <1>1, <2>1, <2>2, <3>1, FoundStill DEF FoundInv
  <2>5. TakeFound'
    BY <1>0, <1>1, <2>1, <2>2, Typing DEF FoundInv, TakeFound, Taking, Known, Fades, TypeInv, Ops
  <2>6. PutFound'
    BY <2>3 DEF PutFound, Putting
  <2> QED
    BY <2>4, <2>5, <2>6 DEF FoundInv
<1>4. CASE Crash
  <2>1. /\ UNCHANGED <<game, rec>> /\ (op' = op \/ op' = Idle)
        /\ IF Putting THEN ForgetAllBut({op.b}) ELSE before' = before
    BY <1>4 DEF Crash, disk
  <2>2. /\ \A b \in Backups : Fades(b)
        /\ Putting => \A b \in Backups \ {op.b} : Forgotten(b)'
    BY <1>0, <2>1, ForgetFades DEF Fades
  <2>3. ASSUME NEW b \in Backups PROVE Found(b)'
    <3>1. CASE Putting /\ op.b # b
      <4>1. Forgotten(b)'
        BY <2>2, <3>1
      <4> QED
        BY <1>1, <2>2, <4>1, FoundStill DEF FoundInv
    <3>2. CASE ~(Putting /\ op.b # b)
      <4>1. ~(Putting' /\ op'.b # b)
        BY <2>1, <3>2 DEF Putting, Idle
      <4>2. \A f : Elsewhere(b, f)' = Elsewhere(b, f)
        BY <2>1, <3>2, <4>1 DEF Elsewhere
      <4>3. rec' = rec
        BY <2>1
      <4> QED
        BY <1>1, <2>2, <4>2, <4>3, FoundStill DEF FoundInv
    <3> QED
      BY <3>1, <3>2
  <2>4. CASE op' = Idle
    BY <2>3, <2>4, FoundIdle
  <2>5. CASE op' = op
    <3>1. TakeFound'
      <4>1. Taking => before' = before
        BY <2>1 DEF Taking, Putting
      <4>2. op.pc \in {"take", "taken", "mark", "copy", "record"} => Taking
        BY DEF Taking
      <4> QED
        BY <1>1, <2>5, <4>1, <4>2 DEF FoundInv, TakeFound, Taking, Known
    <3>2. PutFound'
      <4>1. Putting => op.b \in Backups
        BY <1>0 DEF Putting
      <4>2. op.pc \in {"put", "placed"} => \A f \in Spared(op.b)' : Known(op.b, f, game[f])'
        <5> SUFFICES ASSUME Putting, op.pc \in {"put", "placed"}, NEW f \in Spared(op.b)'
                     PROVE  before'[op.b][f] \in {"unknown", game'[f]}
          BY <2>5 DEF Known, Putting
        <5>1. f \in Spared(op.b) /\ f \in Files /\ game' = game
          BY <1>1, <2>1, <2>5, <4>1
        <5>2. Known(op.b, f, game[f])
          BY <5>1 DEF FoundInv, PutFound
        <5> QED
          BY <2>2, <4>1, <5>1, <5>2 DEF Known, Fades
      <4>3. Putting /\ op.left # {} => \A b \in Backups : Forgotten(b)'
        BY <2>2 DEF FoundInv, PutFound, Forgotten, Fades
      <4> QED
        BY <2>2, <2>5, <4>2, <4>3 DEF PutFound, Putting
    <3> QED
      BY <2>3, <3>1, <3>2 DEF FoundInv
  <2> QED
    BY <2>1, <2>4, <2>5
<1>5. CASE UNCHANGED vars
  <2>1. \A b \in Backups : Fades(b) /\ \A f : Elsewhere(b, f)' = Elsewhere(b, f)
    BY <1>5 DEF vars, Fades, Elsewhere, Putting
  <2>2. \A b \in Backups : Found(b)'
    BY <1>1, <1>5, <2>1, FoundStill DEF FoundInv, vars
  <2>3. TakeFound' /\ PutFound'
    BY <1>5 DEF FoundInv, TakeFound, PutFound, Taking, Putting, Known, Spared, Forgotten,
         Moving, AsItWas, vars
  <2> QED
    BY <2>2, <2>3 DEF FoundInv
<1> QED
  BY <1>2, <1>3, <1>4, <1>5 DEF World

(* A Put back that ends returns every file as the removal found it, unless   *)
(* someone else changed it since, or a crash came between the move of the    *)
(* file and its name in the manifest - also when other backups were put back *)
(* or cut short in the meantime.                                             *)
THEOREM PutBacksExact ==
  Spec => PutBackExact
<1>1. Init => FoundInv
  BY DEF Init, FoundInv, TakeFound, PutFound, Found, Moving, Present, Taking, Putting,
         Idle, NoMan, Nothing
<1>2. TypeInv /\ ReleaseInv /\ JournalInv /\ FoundInv /\ [Next]_vars => FoundInv'
  BY FoundRemove, FoundPutBack, FoundWorld DEF Next
<1>3. ASSUME TypeInv, JournalInv, FoundInv, PutRecord, NEW f \in Files
      PROVE  before[op.b][f] \in {"unknown", game[f]} \/ f \in Unnamed(op.b)
  <2>1. op.b \in Backups /\ \A g \in man[op.b].moved : game[g] = man[op.b].rel
    BY <1>3, PutFilesGiven
  <2>2. CASE f \in man[op.b].moved
    BY <1>3, <2>1, <2>2 DEF FoundInv, Found, Known
  <2>3. CASE f \in Spared(op.b)
    BY <1>3, <2>3 DEF FoundInv, PutFound, Known, PutRecord, At
  <2> QED
    BY <2>2, <2>3 DEF Spared, Unnamed
<1>4. TypeInv /\ JournalInv /\ FoundInv /\ [Next]_vars =>
        [PutRecord => \A f \in Files : \/ before[op.b][f] \in {"unknown", game[f]}
                                       \/ f \in Unnamed(op.b)]_vars
  BY <1>3
<1> QED
  BY <1>1, <1>2, <1>4, ReleasesNamed, Invariance, JournalHolds, PTL DEF Spec, PutBackExact
===============================================================================
