-------------------------- MODULE SelfUpdate_proofs --------------------------
(***************************************************************************)
(* For any number of clients, chunks, attempts and faults: every state is  *)
(* typed, and SteamOS read-only protection ends up as it was.  For two     *)
(* clients, the desktop's dialog and the terminal interface: the package   *)
(* manager opens only a whole package.                                     *)
(*                                                                         *)
(* Two is needed there.  A third client can open the .part a second one    *)
(* has just completed, the second then renames it over the package the     *)
(* first one has already checked.                                          *)
(***************************************************************************)
EXTENDS SelfUpdate, FiniteSetTheorems, TLAPS

-------------------------------------------------------------------------------
(* Typing. *)

\* What typing needs besides: a client downloads into a file exactly while
\* it reads, and counts its chunks only there.
FdInv == \A c \in Clients : /\ At(c, "get") => fd[c] # NoFile
                            /\ ~At(c, "get") => fd[c] = NoFile /\ off[c] = 0

TypeInv == TypeOK /\ FdInv

LEMMA OneMore ==
  ASSUME NEW S, NEW x, NEW m \in Int, IsFiniteSet(S), Cardinality(S) <= m
  PROVE  IsFiniteSet(S \union {x}) /\ Cardinality(S \union {x}) <= m + 1
<1>1. Cardinality(S) \in Nat
  BY FS_CardinalityType
<1>2. IsFiniteSet(S \union {x})
  BY FS_AddElement
<1>3. Cardinality(S \union {x}) = IF x \in S THEN Cardinality(S) ELSE Cardinality(S) + 1
  BY FS_AddElement
<1> QED
  BY <1>1, <1>2, <1>3

\* The clients that are not at it leave a file for the next .part.
LEMMA FreeFileExists ==
  ASSUME TypeOK, NEW c \in Clients, fd[c] = NoFile
  PROVE  /\ FreeFile \in Files
         /\ FreeFile \notin {part, target}
         /\ \A d \in Clients : fd[d] # FreeFile
<1> DEFINE others == Clients \ {c}
           open   == {fd[d] : d \in others}
           taken  == open \union {part, target}
           n      == Cardinality(Clients)
<1>1. n \in Nat /\ IsFiniteSet(others) /\ Cardinality(others) = n - 1
  BY FS_CardinalityType, FS_RemoveElement, UpdateAssumption
<1>2. IsFiniteSet(open) /\ Cardinality(open) <= n - 1
  <2> DEFINE f == [d \in others |-> fd[d]]
  <2>1. f \in Surjection(others, open)
    BY DEF Surjection
  <2> QED
    BY <1>1, <2>1, FS_Surjection
<1>3. IsFiniteSet(taken) /\ Cardinality(taken) <= n + 1
  <2>1. open \union {part} \union {target} = taken
    OBVIOUS
  <2> HIDE DEF open, taken, n
  <2>2. n - 1 \in Int /\ n \in Int /\ n = (n - 1) + 1
    BY <1>1
  <2>3. IsFiniteSet(open \union {part}) /\ Cardinality(open \union {part}) <= n
    BY ONLY <1>2, <2>2, OneMore
  <2> QED
    BY ONLY <2>1, <2>2, <2>3, OneMore
<1>4. IsFiniteSet(Files) /\ Cardinality(Files) = n + 2
  BY <1>1, FS_Interval, SMTT(30) DEF Files
<1>5. ~(Files \subseteq taken)
  BY <1>1, <1>3, <1>4, FS_Subset, FS_CardinalityType
<1>6. PICK f \in Files : f \notin taken
  BY <1>5
<1>7. f \notin {part, target} /\ \A d \in Clients : fd[d] # f
  <2>1. f # NoFile
    BY <1>1, <1>6 DEF Files, NoFile
  <2> QED
    BY <1>6, <2>1
<1> QED
  BY <1>6, <1>7 DEF FreeFile

LEMMA InitTyped == Init => TypeInv
<1> SUFFICES ASSUME Init PROVE TypeInv
  OBVIOUS
<1>1. Cardinality(Clients) \in Nat
  BY FS_CardinalityType, UpdateAssumption
<1> QED
  BY <1>1, UpdateAssumption
     DEF Init, TypeInv, TypeOK, FdInv, At, NoFile, Files, Stages, Chunks, Nobody

\* No action leaves the types, and a client has a file exactly while it reads.
LEMMA TypeStep ==
  ASSUME TypeInv, [Next]_vars
  PROVE  TypeInv'
<1> USE UpdateAssumption
    DEF TypeInv, TypeOK, FdInv, At, Go, NoFile, Stages, cache, system, Counters
<1>1. ASSUME NEW c \in Clients, Begin(c) PROVE TypeInv'
  BY <1>1 DEF Begin
<1>2. ASSUME NEW c \in Clients, Cached(c) PROVE TypeInv'
  BY <1>2 DEF Cached
<1>3. ASSUME NEW c \in Clients, Discard(c) PROVE TypeInv'
  BY <1>3 DEF Discard
<1>4. ASSUME NEW c \in Clients, Open(c) PROVE TypeInv'
  <2>1. fd[c] = NoFile
    BY <1>4 DEF Open
  <2> DEFINE f == IF part = NoFile THEN FreeFile ELSE part
  <2>2. FreeFile \in Files
    BY <2>1, FreeFileExists
  <2>3. Cardinality(Clients) \in Nat
    BY FS_CardinalityType
  <2>4. f \in Files /\ 0 \notin Files
    BY <2>2, <2>3, SMTT(30) DEF Files
  <2> HIDE DEF f
  <2>5. /\ pc' = [pc EXCEPT ![c] = "get"] /\ fd' = [fd EXCEPT ![c] = f] /\ part' = f
        /\ bytes' = [bytes EXCEPT ![f] = {}]
        /\ UNCHANGED <<off, target, Counters, system, used>>
    BY <1>4 DEF Open, f
  <2> QED
    BY <2>4, <2>5
<1>5. ASSUME NEW c \in Clients, Get(c) PROVE TypeInv'
  BY <1>5 DEF Get, Chunks
<1>6. ASSUME NEW c \in Clients, Received(c) PROVE TypeInv'
  BY <1>6 DEF Received
<1>7. ASSUME NEW c \in Clients, DownloadFails(c) PROVE TypeInv'
  BY <1>7 DEF DownloadFails, Ended
<1>8. ASSUME NEW c \in Clients, Replace(c) PROVE TypeInv'
  <2>1. CASE /\ target' = part /\ part' = NoFile /\ Go(c, "verify")
             /\ UNCHANGED <<fd, off, Counters>>
    BY <1>8, <2>1 DEF Replace
  <2>2. CASE Ended(c) /\ UNCHANGED <<part, target>>
    BY <1>8, <2>2 DEF Replace, Ended
  <2> QED
    BY <1>8, <2>1, <2>2 DEF Replace
<1>9. ASSUME NEW c \in Clients, Verify(c) PROVE TypeInv'
  <2>1. CASE /\ Go(c, IF manager = "rpm-ostree" THEN "wait" ELSE "protect")
             /\ UNCHANGED <<fd, off, Counters>>
    BY <1>9, <2>1 DEF Verify
  <2>2. CASE Ended(c)
    BY <1>9, <2>2 DEF Verify, Ended
  <2> QED
    BY <1>9, <2>1, <2>2 DEF Verify
<1>10. ASSUME NEW c \in Clients, Protect(c) PROVE TypeInv'
  BY <1>10 DEF Protect
<1>11. ASSUME NEW c \in Clients, Disable(c) PROVE TypeInv'
  <2>1. CASE ro' = FALSE /\ restore' = [restore EXCEPT ![c] = TRUE] /\ Go(c, "pacman")
                /\ UNCHANGED <<fd, off, waits, tries, ok>>
    BY <1>11, <2>1 DEF Disable
  <2>2. CASE Ended(c) /\ UNCHANGED ro
    BY <1>11, <2>2 DEF Disable, Ended
  <2> QED
    BY <1>11, <2>1, <2>2 DEF Disable
<1>12. ASSUME NEW c \in Clients, Pacman(c) PROVE TypeInv'
  BY <1>12 DEF Pacman, AfterPacman, Reads
<1>13. ASSUME NEW c \in Clients, PacmanEnds(c) PROVE TypeInv'
  BY <1>13 DEF PacmanEnds, AfterPacman
<1>14. ASSUME NEW c \in Clients, Enable(c) PROVE TypeInv'
  <2>1. CASE ro' = TRUE /\ UNCHANGED <<ok, used>>
    BY <1>14, <2>1 DEF Enable
  <2>2. CASE ok' = [ok EXCEPT ![c] = FALSE] /\ UNCHANGED ro
    BY <1>14, <2>2 DEF Enable
  <2> QED
    BY <1>14, <2>1, <2>2 DEF Enable
<1>15. ASSUME NEW c \in Clients, Finish(c) PROVE TypeInv'
  BY <1>15 DEF Finish, Ended
<1>16. ASSUME NEW c \in Clients, Wait(c) PROVE TypeInv'
  <2>1. CASE busy = Nobody /\ Go(c, "ostree") /\ UNCHANGED <<fd, off, Counters>>
    BY <1>16, <2>1 DEF Wait
  <2>2. CASE /\ waits[c] + 1 < MaxWaits /\ waits' = [waits EXCEPT ![c] = @ + 1]
             /\ UNCHANGED <<pc, fd, off, tries, restore, ok>>
    BY <1>16, <2>2 DEF Wait
  <2>3. CASE Ended(c)
    BY <1>16, <2>3 DEF Wait, Ended
  <2> QED
    BY <1>16, <2>1, <2>2, <2>3 DEF Wait
<1>17. ASSUME NEW c \in Clients, Ostree(c) PROVE TypeInv'
  <2>1. CASE /\ tries[c] + 1 < MaxAttempts
             /\ tries' = [tries EXCEPT ![c] = @ + 1] /\ waits' = [waits EXCEPT ![c] = 0]
             /\ Go(c, "wait") /\ UNCHANGED <<fd, off, restore, ok, busy>>
    BY <1>17, <2>1 DEF Ostree
  <2>2. CASE busy' = c /\ Go(c, "installing") /\ UNCHANGED <<fd, off, Counters>>
    BY <1>17, <2>2 DEF Ostree
  <2>3. CASE Ended(c) /\ UNCHANGED busy
    BY <1>17, <2>3 DEF Ostree, Ended
  <2> QED
    BY <1>17, <2>1, <2>2, <2>3 DEF Ostree
<1>18. ASSUME NEW c \in Clients, Kill(c) PROVE TypeInv'
  BY <1>18 DEF Kill, Ended
<1>19. ASSUME NEW c \in Clients, OstreeAgain(c) PROVE TypeInv'
  BY <1>19 DEF OstreeAgain
<1>20. CASE SystemUpdate
  BY <1>20 DEF SystemUpdate
<1>21. CASE UNCHANGED vars
  BY <1>21 DEF vars
<1> QED
  BY <1>1, <1>2, <1>3, <1>4, <1>5, <1>6, <1>7, <1>8, <1>9, <1>10, <1>11, <1>12, <1>13, <1>14, <1>15, <1>16, <1>17, <1>18, <1>19, <1>20, <1>21
     DEF Next, Download, Install

\* A client of self_update.py has a .part open exactly while it downloads.
THEOREM Invariance == Spec => []TypeInv
<1>1. TypeInv /\ [Next]_vars => TypeInv'
  BY TypeStep
<1> QED
  BY <1>1, InitTyped, PTL DEF Spec

\* Every state is typed, whatever clients, faults and bounds.
THEOREM TypesHold == Spec => []TypeOK
<1>1. TypeInv => TypeOK
  BY DEF TypeInv
<1> QED
  BY <1>1, Invariance, PTL

-------------------------------------------------------------------------------
(* SteamOS read-only protection. *)

\* An installer that turned the protection off has yet to turn it on again.
Owing(c) == restore[c] /\ pc[c] \in {"pacman", "installing", "on"}

\* The script with the switch runs on SteamOS only; a protection is turned off
\* or on only where it was on; and while it is off without a fault some
\* installer owes it.
SwitchInv ==
  /\ ro => roFirst
  /\ \A c \in Clients : At(c, "protect") \/ At(c, "off") \/ restore[c] => manager = "pacman-steamos"
  /\ \A c \in Clients : At(c, "off") \/ At(c, "on") \/ restore[c] => roFirst
  /\ used.faults = 0 /\ roFirst /\ ~ro => \E c \in Clients : Owing(c)

\* A step that leaves the switch alone, counts no fault back and lets nobody
\* off who owes.
LEMMA SwitchAside ==
  ASSUME TypeInv, SwitchInv, NEW c \in Clients,
         UNCHANGED <<ro, roFirst, manager>>, used.faults \in Nat, used'.faults \in Nat,
         used'.faults = 0 => used.faults = 0,
         \A d \in Clients \ {c} : pc'[d] = pc[d] /\ restore'[d] = restore[d],
         pc'[c] \in {"off", "on"} \/ restore'[c] => roFirst,
         pc'[c] \in {"protect", "off"} \/ restore'[c] => manager = "pacman-steamos",
         used'.faults = 0 /\ Owing(c) => Owing(c)'
  PROVE  SwitchInv'
<1>1. \A d \in Clients \ {c} : Owing(d)' = Owing(d)
  BY DEF Owing, At
<1>2. \A d \in Clients : (At(d, "off") \/ At(d, "on") \/ restore[d])' => roFirst'
  BY DEF SwitchInv, At
<1>3. \A d \in Clients : (At(d, "protect") \/ At(d, "off") \/ restore[d])' => manager' = "pacman-steamos"
  BY DEF SwitchInv, At
<1>4. (used.faults = 0 /\ roFirst /\ ~ro)' => \E d \in Clients : Owing(d)'
  BY <1>1 DEF SwitchInv
<1> QED
  BY <1>2, <1>3, <1>4 DEF SwitchInv

LEMMA SwitchStep ==
  ASSUME TypeInv, SwitchInv, [Next]_vars
  PROVE  SwitchInv'
<1> DEFINE Aside(c) ==
      /\ UNCHANGED <<ro, roFirst, manager>>
      /\ used.faults \in Nat /\ used'.faults \in Nat
      /\ used'.faults = 0 => used.faults = 0
      /\ \A d \in Clients \ {c} : pc'[d] = pc[d] /\ restore'[d] = restore[d]
      /\ pc'[c] \in {"off", "on"} \/ restore'[c] => roFirst
      /\ pc'[c] \in {"protect", "off"} \/ restore'[c] => manager = "pacman-steamos"
      /\ used'.faults = 0 /\ Owing(c) => Owing(c)'
<1> USE DEF TypeInv, TypeOK, Go, At, Owing, Counters, system, SwitchInv
<1>1. ASSUME NEW c \in Clients, Begin(c) PROVE Aside(c)
  BY <1>1, UpdateAssumption DEF Begin
<1>2. ASSUME NEW c \in Clients, Cached(c) PROVE Aside(c)
  BY <1>2, UpdateAssumption DEF Cached
<1>3. ASSUME NEW c \in Clients, Discard(c) PROVE Aside(c)
  BY <1>3, UpdateAssumption DEF Discard
<1>4. ASSUME NEW c \in Clients, Open(c) PROVE Aside(c)
  BY <1>4, UpdateAssumption DEF Open
<1>5. ASSUME NEW c \in Clients, Get(c) PROVE Aside(c)
  BY <1>5, UpdateAssumption DEF Get
<1>6. ASSUME NEW c \in Clients, Received(c) PROVE Aside(c)
  BY <1>6, UpdateAssumption DEF Received
<1>7. ASSUME NEW c \in Clients, Replace(c) PROVE Aside(c)
  BY <1>7, UpdateAssumption DEF Replace, Ended
<1>8. ASSUME NEW c \in Clients, DownloadFails(c) PROVE Aside(c)
  BY <1>8, UpdateAssumption DEF DownloadFails, Ended
<1>9. ASSUME NEW c \in Clients, Verify(c) PROVE Aside(c)
  BY <1>9, UpdateAssumption DEF Verify, Ended
<1>10. ASSUME NEW c \in Clients, Protect(c) PROVE Aside(c)
  BY <1>10, UpdateAssumption DEF Protect
<1>11. ASSUME NEW c \in Clients, Pacman(c) PROVE Aside(c)
  BY <1>11, UpdateAssumption DEF Pacman, AfterPacman
<1>12. ASSUME NEW c \in Clients, PacmanEnds(c) PROVE Aside(c)
  BY <1>12, UpdateAssumption DEF PacmanEnds, AfterPacman
<1>13. ASSUME NEW c \in Clients, Wait(c) PROVE Aside(c)
  BY <1>13, UpdateAssumption DEF Wait, Ended
<1>14. ASSUME NEW c \in Clients, Ostree(c) PROVE Aside(c)
  BY <1>14, UpdateAssumption DEF Ostree, Ended
<1>15. ASSUME NEW c \in Clients, Finish(c) PROVE Aside(c)
  BY <1>15, UpdateAssumption DEF Finish, Ended
<1>16. ASSUME NEW c \in Clients, Kill(c) PROVE Aside(c)
  BY <1>16, UpdateAssumption DEF Kill, Ended
<1>17. ASSUME NEW c \in Clients, OstreeAgain(c) PROVE Aside(c)
  BY <1>17, UpdateAssumption DEF OstreeAgain
<1>20. ASSUME NEW c \in Clients, Aside(c) PROVE SwitchInv'
  BY <1>20, SwitchAside
<1>21. ASSUME NEW c \in Clients, Disable(c) PROVE SwitchInv'
  BY <1>21 DEF Disable, Ended
<1>22. ASSUME NEW c \in Clients, Enable(c) PROVE SwitchInv'
  BY <1>22 DEF Enable
<1>23. CASE SystemUpdate
  BY <1>23 DEF SystemUpdate
<1>24. CASE UNCHANGED vars
  BY <1>24 DEF vars
<1> HIDE DEF Aside
<1> QED
  BY <1>1, <1>2, <1>3, <1>4, <1>5, <1>6, <1>7, <1>8, <1>9, <1>10, <1>11, <1>12, <1>13, <1>14, <1>15, <1>16, <1>17, <1>20, <1>21, <1>22, <1>23, <1>24
     DEF Next, Download, Install

\* SteamOS protection is back as it was once no installer runs, and is never
\* turned on by one that did not turn it off (_STEAMOS_ROOT_INSTALL): any
\* number of clients may take turns at the switch.
THEOREM ProtectionHolds == Spec => []ProtectionRestored
<1>1. Init => SwitchInv
  BY DEF Init, SwitchInv, At
<1>2. SwitchInv /\ TypeInv /\ [Next]_vars => SwitchInv'
  BY SwitchStep
<1>3. SwitchInv /\ TypeInv => ProtectionRestored
  BY DEF SwitchInv, TypeInv, TypeOK, ProtectionRestored, Changing, Owing
<1> QED
  BY <1>1, <1>2, <1>3, Invariance, PTL DEF Spec

-------------------------------------------------------------------------------
(* The package. *)

\* A client here downloads nothing of its own any more and has yet to open
\* the package, maybe again; from "protect" or "wait" on it has compared its
\* checksum.
Ahead == {"cached", "verify"} \union
         {"protect", "off", "pacman", "installing", "wait", "ostree"}
Compared == {"protect", "off", "pacman", "installing", "wait", "ostree"}

\* What d may do to the package of a client that is ahead: there is no .part,
\* or the one there is d's alone and holds every chunk d received.
Harmless(d) ==
  /\ pc[d] \in {"cached", "discard", "open"} => part = NoFile
  /\ At(d, "get") => part = NoFile \/ (fd[d] = part /\ 1..off[d] \subseteq bytes[part])
  /\ At(d, "replace") => part = NoFile \/ Whole(part)

PackageInv ==
  /\ part = target => part = NoFile
  /\ \A c \in Clients : pc[c] \in Ahead => \A d \in Clients \ {c} : Harmless(d)
  /\ \A c \in Clients : pc[c] \in Compared => target = NoFile \/ Whole(target)

\* The dialog and the terminal interface.
TwoClients == \A c, d, e \in Clients : c = d \/ d = e \/ c = e

LEMMA PackageStep ==
  ASSUME TwoClients, TypeInv, PackageInv, [Next]_vars
  PROVE  PackageInv'
<1> USE DEF TypeInv, TypeOK, FdInv, PackageInv, Harmless, At, Go, NoFile, Ahead, Compared,
            TwoClients, Whole, cache
<1>1. ASSUME NEW c \in Clients, Begin(c) PROVE PackageInv'
  BY <1>1 DEF Begin
<1>2. ASSUME NEW c \in Clients, Cached(c) PROVE PackageInv'
  BY <1>2 DEF Cached
<1>3. ASSUME NEW c \in Clients, Discard(c) PROVE PackageInv'
  BY <1>3 DEF Discard
<1>4. ASSUME NEW c \in Clients, Get(c) PROVE PackageInv'
  <2>1. /\ fd[c] \in Files /\ off[c] \in Nat /\ off'[c] = off[c] + 1 /\ off[c] + 1 \in Chunks
        /\ bytes' = [bytes EXCEPT ![fd[c]] = @ \union {off[c] + 1}]
        /\ \A d \in Clients \ {c} : off'[d] = off[d]
        /\ UNCHANGED <<pc, fd, part, target>>
    BY <1>4, UpdateAssumption, SMTT(30) DEF Get, Chunks
  <2>2. \A f \in Files : bytes[f] \subseteq bytes'[f] /\ bytes'[f] \subseteq Chunks
    BY <2>1
  <2>3. Whole(target) => Whole(target)'
    BY <2>1, <2>2
  <2>4. ASSUME part # NoFile, part = fd[c], 1..off[c] \subseteq bytes[part]
        PROVE  1..off'[c] \subseteq bytes'[part]
    BY <2>1, <2>4
  <2>5. ASSUME NEW d \in Clients \ {c}, Harmless(d) PROVE Harmless(d)'
    BY <2>1, <2>2, <2>5
  <2> QED
    BY <2>1, <2>3, <2>4, <2>5
<1>5. ASSUME NEW c \in Clients, Received(c) PROVE PackageInv'
  <2>1. /\ pc[c] = "get" /\ pc' = [pc EXCEPT ![c] = "replace"] /\ off[c] = NumChunks
        /\ fd' = [fd EXCEPT ![c] = NoFile] /\ off' = [off EXCEPT ![c] = 0]
        /\ UNCHANGED <<bytes, part, target>>
    BY <1>5 DEF Received
  <2>2. pc[c] \notin Ahead /\ pc'[c] \notin Ahead
    BY <2>1
  <2>3. part = NoFile \/ bytes[part] \subseteq Chunks
    BY <1>5
  <2>4. Harmless(c) => Harmless(c)'
    BY <2>1, <2>3 DEF Chunks
  <2>5. \A d \in Clients \ {c} : /\ pc'[d] = pc[d] /\ fd'[d] = fd[d] /\ off'[d] = off[d]
                                /\ Harmless(d) => Harmless(d)'
    BY <2>1
  <2>6. Whole(target) => Whole(target)'
    BY <2>1
  <2> HIDE DEF Harmless, Whole
  <2> QED
    BY <2>1, <2>2, <2>4, <2>5, <2>6
<1>6. ASSUME NEW c \in Clients, Replace(c) PROVE PackageInv'
  BY <1>6 DEF Replace, Ended
<1>7. ASSUME NEW c \in Clients, DownloadFails(c) PROVE PackageInv'
  BY <1>7 DEF DownloadFails, Ended
<1>8. ASSUME NEW c \in Clients, Verify(c) PROVE PackageInv'
  <2>1. UNCHANGED <<bytes, part, target>>
    BY <1>8 DEF Verify
  <2>2. CASE Whole(target)
    <3>1. /\ pc' = [pc EXCEPT ![c] = IF manager = "rpm-ostree" THEN "wait" ELSE "protect"]
          /\ UNCHANGED <<fd, off>>
      BY <1>8, <2>2 DEF Verify
    <3> QED
      BY <1>8, <2>1, <2>2, <3>1, SMTT(30) DEF Verify
  <2>3. CASE ~Whole(target)
    <3>1. /\ pc' = [pc EXCEPT ![c] = "idle"]
          /\ fd' = [fd EXCEPT ![c] = NoFile] /\ off' = [off EXCEPT ![c] = 0]
      BY <1>8, <2>3 DEF Verify, Ended
    <3> QED
      BY <2>1, <3>1, SMTT(30)
  <2> QED
    BY <2>2, <2>3
<1>9. ASSUME NEW c \in Clients, Protect(c) PROVE PackageInv'
  BY <1>9 DEF Protect
<1>10. ASSUME NEW c \in Clients, Disable(c) PROVE PackageInv'
  BY <1>10 DEF Disable, Ended
<1>11. ASSUME NEW c \in Clients, Pacman(c) PROVE PackageInv'
  BY <1>11 DEF Pacman, AfterPacman
<1>12. ASSUME NEW c \in Clients, PacmanEnds(c) PROVE PackageInv'
  BY <1>12 DEF PacmanEnds, AfterPacman
<1>13. ASSUME NEW c \in Clients, Enable(c) PROVE PackageInv'
  BY <1>13 DEF Enable
<1>14. ASSUME NEW c \in Clients, Wait(c) PROVE PackageInv'
  BY <1>14 DEF Wait, Ended
<1>15. ASSUME NEW c \in Clients, Ostree(c) PROVE PackageInv'
  BY <1>15 DEF Ostree, Ended
<1>16. ASSUME NEW c \in Clients, Finish(c) PROVE PackageInv'
  BY <1>16 DEF Finish, Ended
<1>17. ASSUME NEW c \in Clients, Kill(c) PROVE PackageInv'
  BY <1>17 DEF Kill, Ended
<1>18. ASSUME NEW c \in Clients, Open(c) PROVE PackageInv'
  BY <1>18, FreeFileExists DEF Open
<1>19. ASSUME NEW c \in Clients, OstreeAgain(c) PROVE PackageInv'
  BY <1>19 DEF OstreeAgain
<1>20. CASE SystemUpdate
  BY <1>20 DEF SystemUpdate
<1>21. CASE UNCHANGED vars
  BY <1>21 DEF vars
<1> QED
  BY <1>1, <1>2, <1>3, <1>4, <1>5, <1>6, <1>7, <1>8, <1>9, <1>10, <1>11, <1>12, <1>13, <1>14, <1>15, <1>16, <1>17, <1>18, <1>19, <1>20, <1>21
     DEF Next, Download, Install

\* "Checked against its SHA-256 again in the same command": with the dialog
\* and the terminal interface over one cache, the package manager only opens a
\* package that is all there, however their downloads empty, prune and rename
\* each other's files and whenever either is killed.
THEOREM InstalledWhole ==
  ASSUME TwoClients
  PROVE  Spec => InstalledIsWhole
<1>1. Init => PackageInv
  BY UpdateAssumption DEF Init, PackageInv, Ahead, Compared, Harmless, At, NoFile
<1>2. PackageInv /\ TypeInv /\ [Next]_vars => PackageInv'
  BY PackageStep
<1>3. ASSUME PackageInv, TypeInv, [Next]_vars, NEW c \in Clients,
             At(c, "installing")', ~At(c, "installing")
      PROVE  Whole(target)
  <2> USE DEF TypeInv, TypeOK, At, Go, Ended, AfterPacman
  <2>1. ASSUME NEW d \in Clients, Pacman(d) \/ Ostree(d) PROVE c = d
    BY <1>3, <2>1 DEF Pacman, Ostree
  <2>2. ASSUME NEW d \in Clients
        PROVE  /\ ~Begin(d) /\ ~Cached(d) /\ ~Discard(d) /\ ~Open(d) /\ ~Get(d) /\ ~Received(d)
               /\ ~Replace(d) /\ ~DownloadFails(d) /\ ~Kill(d)
    BY <1>3 DEF Begin, Cached, Discard, Open, Get, Received, Replace, DownloadFails, Kill
  <2>3. ASSUME NEW d \in Clients
        PROVE  /\ ~Verify(d) /\ ~Protect(d) /\ ~Disable(d) /\ ~PacmanEnds(d)
               /\ ~Enable(d) /\ ~Wait(d) /\ ~OstreeAgain(d) /\ ~Finish(d)
    BY <1>3 DEF Verify, Protect, Disable, PacmanEnds, Enable, Wait, OstreeAgain, Finish, Counters
  <2>4. ~SystemUpdate /\ ~UNCHANGED vars
    BY <1>3 DEF SystemUpdate, vars
  <2>5. Pacman(c) \/ Ostree(c)
    BY <1>3, <2>1, <2>2, <2>3, <2>4 DEF Next, Download, Install
  <2>6. Reads(c) /\ pc[c] \in Compared
    BY <1>3, <2>5 DEF Pacman, Ostree, Reads, Compared
  <2> QED
    BY <2>6, <1>3 DEF Reads, PackageInv
<1>4. PackageInv /\ TypeInv /\ [Next]_vars
        => [\A c \in Clients : At(c, "installing")' /\ ~At(c, "installing") => Whole(target)]_vars
  BY <1>3
<1> QED
  BY <1>1, <1>2, <1>4, Invariance, PTL DEF Spec, InstalledIsWhole
=============================================================================
