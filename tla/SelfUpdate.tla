----------------------------- MODULE SelfUpdate -----------------------------
(***************************************************************************)
(* Updating the application: self_update.py.  The desktop's dialog and the *)
(* terminal interface may both be at it, with one cache folder, one        *)
(* package manager and, on SteamOS, one read-only switch between them.     *)
(*                                                                         *)
(* A package is a set of chunks.  A file keeps its identity while a client *)
(* has it open: unlinking or renaming a path does not stop the writer, and *)
(* opening "<name>.part" again empties the file someone else is writing.   *)
(* The bytes received over HTTPS are the release's; they may end early.    *)
(***************************************************************************)
EXTENDS Integers, FiniteSets

CONSTANTS Clients,
          Dialogs,                        \* those that discard what they installed
          NumChunks, MaxWaits, MaxAttempts,
          MaxUpdates, MaxFaults           \* bounds of the model

ASSUME UpdateAssumption ==
  /\ {NumChunks, MaxWaits, MaxAttempts} \subseteq Nat \ {0}
  /\ {MaxUpdates, MaxFaults} \subseteq Nat
  /\ IsFiniteSet(Clients) /\ Dialogs \subseteq Clients

VARIABLES
  pc,       \* where each client is
  fd,       \* the file each client is downloading into
  off,      \* the chunks it received
  waits,    \* rounds it waited for rpm-ostree, and
  tries,    \* its attempts to install (MaxAttempts: no further one)
  restore,  \* bc250_restore: this installer turned the protection off
  ok,       \* its package manager succeeded
  bytes,    \* the right chunks each file of the cache holds
  part,     \* the file at <name>.part
  target,   \* the file at <name>
  manager,  \* the package manager of this system
  busy,     \* its database or transaction is taken, by a client or "system"
  ro,       \* SteamOS read-only protection is on
  roFirst,  \* history: it was on at the start
  used      \* updates started; clients killed and protections that failed

cache == <<fd, off, bytes, part, target>>
system == <<manager, busy, ro, roFirst>>
Counters == <<waits, tries, restore, ok>>
vars == <<pc, cache, Counters, system, used>>

Chunks == 1..NumChunks
Files == 1..(Cardinality(Clients) + 2)
NoFile == 0
Nobody == "nobody"
Whole(f) == f # NoFile /\ bytes[f] = Chunks

Stages == {"idle", "cached", "discard", "open", "get", "replace", "verify",
           "protect", "off", "pacman", "installing", "on", "wait", "ostree", "finish"}

TypeOK ==
  /\ pc \in [Clients -> Stages]
  /\ fd \in [Clients -> Files \union {NoFile}] /\ off \in [Clients -> 0..NumChunks]
  /\ waits \in [Clients -> 0..MaxWaits] /\ tries \in [Clients -> 0..MaxAttempts]
  /\ {restore, ok} \subseteq [Clients -> BOOLEAN]
  /\ bytes \in [Files -> SUBSET Chunks]
  /\ {part, target} \subseteq Files \union {NoFile}
  /\ manager \in {"pacman-steamos", "rpm-ostree"}
  /\ busy \in Clients \union {Nobody, "system"}
  /\ {ro, roFirst} \subseteq BOOLEAN
  /\ used \in [updates : 0..MaxUpdates, faults : 0..MaxFaults]

Init ==
  /\ pc = [c \in Clients |-> "idle"]
  /\ fd = [c \in Clients |-> NoFile] /\ off = [c \in Clients |-> 0]
  /\ waits = [c \in Clients |-> 0] /\ tries = [c \in Clients |-> 0]
  /\ restore = [c \in Clients |-> FALSE] /\ ok = restore
  /\ bytes = [f \in Files |-> {}]
  /\ part \in {NoFile, 1} /\ target \in {NoFile, 2}       \* left by a power cut
  /\ manager \in {"pacman-steamos", "rpm-ostree"}
  /\ busy = Nobody /\ roFirst \in BOOLEAN /\ ro = roFirst
  /\ used = [updates |-> 0, faults |-> 0]

At(c, stage) == pc[c] = stage
Go(c, stage) == pc' = [pc EXCEPT ![c] = stage]

\* The client is done, well or badly, and forgets what it held.
Ended(c) ==
  /\ Go(c, "idle")
  /\ waits' = [waits EXCEPT ![c] = 0] /\ tries' = [tries EXCEPT ![c] = 0]
  /\ restore' = [restore EXCEPT ![c] = FALSE] /\ ok' = [ok EXCEPT ![c] = FALSE]
  /\ fd' = [fd EXCEPT ![c] = NoFile] /\ off' = [off EXCEPT ![c] = 0]

-------------------------------------------------------------------------------
(* download_asset *)

\* prune_updates: every other file goes, another client's .part too.
Begin(c) ==
  /\ At(c, "idle") /\ used.updates < MaxUpdates
  /\ used' = [used EXCEPT !.updates = @ + 1]
  /\ part' = NoFile /\ Go(c, "cached")
  /\ UNCHANGED <<fd, off, bytes, target, Counters, system>>

\* A file already there is read and compared with the published checksum.
Cached(c) ==
  /\ At(c, "cached")
  /\ Go(c, IF target = NoFile THEN "open" ELSE IF Whole(target) THEN "verify" ELSE "discard")
  /\ UNCHANGED <<cache, Counters, system, used>>

Discard(c) ==
  /\ At(c, "discard") /\ target' = NoFile /\ Go(c, "open")
  /\ UNCHANGED <<fd, off, bytes, part, Counters, system, used>>

FreeFile == CHOOSE f \in Files :
              f \notin {part, target} /\ \A c \in Clients : fd[c] # f

Open(c) ==
  /\ At(c, "open") /\ Go(c, "get")
  /\ LET f == IF part = NoFile THEN FreeFile ELSE part IN
       /\ part' = f /\ fd' = [fd EXCEPT ![c] = f]
       /\ bytes' = [bytes EXCEPT ![f] = {}]
  /\ UNCHANGED <<off, target, Counters, system, used>>

\* Mistake: it reads on after the announced size.
BugGet(c) ==
  /\ At(c, "get") /\ off[c] <= NumChunks
  /\ off' = [off EXCEPT ![c] = @ + 1]
  /\ bytes' = [bytes EXCEPT ![fd[c]] = @ \union {off[c] + 1}]
  /\ UNCHANGED <<pc, fd, part, target, Counters, system, used>>

Get(c) ==
  /\ At(c, "get") /\ off[c] < NumChunks
  /\ off' = [off EXCEPT ![c] = @ + 1]
  /\ bytes' = [bytes EXCEPT ![fd[c]] = @ \union {off[c] + 1}]
  /\ UNCHANGED <<pc, fd, part, target, Counters, system, used>>

\* The stream is over: size and checksum of what was received.
Received(c) ==
  /\ At(c, "get") /\ off[c] = NumChunks /\ Go(c, "replace")
  /\ fd' = [fd EXCEPT ![c] = NoFile] /\ off' = [off EXCEPT ![c] = 0]
  /\ UNCHANGED <<bytes, part, target, Counters, system, used>>

\* Cancelled, a network error (also of the connection), or an end before the whole package arrived.
DownloadFails(c) ==
  /\ pc[c] \in {"open", "get"} /\ part' = NoFile /\ Ended(c)
  /\ UNCHANGED <<bytes, target, system, used>>

\* os.replace; it raises when another client removed the .part.
Replace(c) ==
  /\ At(c, "replace")
  /\ \/ /\ part # NoFile /\ target' = part /\ part' = NoFile
        /\ Go(c, "verify") /\ UNCHANGED <<fd, off, Counters>>
     \/ part = NoFile /\ Ended(c) /\ UNCHANGED <<part, target>>
  /\ UNCHANGED <<bytes, system, used>>

-------------------------------------------------------------------------------
(* install_command *)

\* Mistake: the checksum of the download is thought to be enough.
BugVerify(c) ==
  /\ At(c, "verify")
  /\ Go(c, IF manager = "rpm-ostree" THEN "wait" ELSE "protect")
  /\ UNCHANGED <<fd, off, Counters, bytes, part, target, system, used>>

\* sha256sum -c, in the command itself.
Verify(c) ==
  /\ At(c, "verify")
  /\ \/ /\ Whole(target) /\ UNCHANGED <<fd, off, Counters>>
        /\ Go(c, IF manager = "rpm-ostree" THEN "wait" ELSE "protect")
     \/ ~Whole(target) /\ Ended(c)
  /\ UNCHANGED <<bytes, part, target, system, used>>

(* _STEAMOS_ROOT_INSTALL *)

Protect(c) ==
  /\ At(c, "protect") /\ Go(c, IF ro THEN "off" ELSE "pacman")
  /\ UNCHANGED <<cache, Counters, system, used>>

Disable(c) ==
  /\ At(c, "off")
  /\ \/ /\ ro' = FALSE /\ restore' = [restore EXCEPT ![c] = TRUE] /\ Go(c, "pacman")
        /\ UNCHANGED <<fd, off, waits, tries, ok>>
     \/ Ended(c) /\ UNCHANGED ro                                       \* exit 70
  /\ UNCHANGED <<bytes, part, target, manager, busy, roFirst, used>>

AfterPacman(c) == Go(c, IF restore[c] THEN "on" ELSE "finish")

\* Mistake: a failing pacman ends the script.
BugPacman(c) ==
  /\ At(c, "pacman")
  /\ \/ /\ target # NoFile /\ busy = Nobody /\ busy' = c
        /\ Go(c, "installing")
     \/ UNCHANGED busy /\ Go(c, "finish")
  /\ UNCHANGED <<cache, Counters, manager, ro, roFirst, used>>

\* pacman takes its database lock and opens the package, or fails.
Reads(c) == target # NoFile /\ busy = Nobody
Pacman(c) ==
  /\ At(c, "pacman")
  /\ \/ Reads(c) /\ busy' = c /\ Go(c, "installing")
     \/ UNCHANGED busy /\ AfterPacman(c)
  /\ UNCHANGED <<cache, Counters, manager, ro, roFirst, used>>

\* It ends, well or badly.
PacmanEnds(c) ==
  /\ At(c, "installing") /\ busy' = Nobody /\ AfterPacman(c)
  /\ \E good \in BOOLEAN : ok' = [ok EXCEPT ![c] = good]
  /\ UNCHANGED <<cache, waits, tries, restore, manager, ro, roFirst, used>>

\* Turning the protection on again may fail as well; the script says so.
Enable(c) ==
  /\ At(c, "on") /\ Go(c, "finish")
  /\ \/ ro' = TRUE /\ UNCHANGED <<ok, used>>
     \/ /\ used.faults < MaxFaults /\ used' = [used EXCEPT !.faults = @ + 1]
        /\ ok' = [ok EXCEPT ![c] = FALSE] /\ UNCHANGED ro
  /\ UNCHANGED <<cache, waits, tries, restore, manager, busy, roFirst>>

\* The dialog discards an installed package: whatever is at <name> by now.
Finish(c) ==
  /\ At(c, "finish") /\ Ended(c)
  /\ target' = IF ok[c] /\ c \in Dialogs THEN NoFile ELSE target
  /\ UNCHANGED <<bytes, part, system, used>>

(* _rpm_ostree_install: wait while a transaction runs, then try. *)

\* Mistake: it waits for as long as the transaction runs.
BugWait(c) ==
  /\ At(c, "wait") /\ busy = Nobody /\ Go(c, "ostree")
  /\ UNCHANGED <<fd, off, Counters, bytes, part, target, system, used>>

Wait(c) ==
  /\ At(c, "wait")
  /\ \/ /\ busy = Nobody /\ Go(c, "ostree") /\ UNCHANGED <<fd, off, Counters>>
     \/ /\ busy # Nobody /\ waits[c] + 1 < MaxWaits
        /\ waits' = [waits EXCEPT ![c] = @ + 1] /\ UNCHANGED <<pc, fd, off, tries, restore, ok>>
     \/ busy # Nobody /\ waits[c] + 1 >= MaxWaits /\ Ended(c)          \* exit 75
  /\ UNCHANGED <<bytes, part, target, system, used>>

\* A transaction that started since the check costs an attempt.
Ostree(c) ==
  /\ At(c, "ostree")
  /\ \/ /\ busy # Nobody /\ tries[c] + 1 < MaxAttempts
        /\ tries' = [tries EXCEPT ![c] = @ + 1] /\ waits' = [waits EXCEPT ![c] = 0]
        /\ Go(c, "wait") /\ UNCHANGED <<fd, off, restore, ok, busy>>
     \/ Reads(c) /\ busy' = c /\ Go(c, "installing") /\ UNCHANGED <<fd, off, Counters>>
     \/ ~Reads(c) /\ (busy # Nobody => tries[c] + 1 >= MaxAttempts) /\ Ended(c) /\ UNCHANGED busy
  /\ UNCHANGED <<bytes, part, target, manager, ro, roFirst, used>>

\* Refused without a password window, or the mirrors answer 404: it opens the
\* package once more, by sudo or after a refresh, and that attempt is the last.
OstreeAgain(c) ==
  /\ At(c, "installing") /\ manager = "rpm-ostree" /\ tries[c] < MaxAttempts
  /\ busy' = Nobody /\ tries' = [tries EXCEPT ![c] = MaxAttempts] /\ Go(c, "ostree")
  /\ UNCHANGED <<cache, waits, restore, ok, manager, ro, roFirst, used>>

-------------------------------------------------------------------------------
\* Bazzite's own automatic update.
SystemUpdate ==
  /\ manager = "rpm-ostree"
  /\ \/ busy = Nobody /\ busy' = "system"
     \/ busy = "system" /\ busy' = Nobody
  /\ UNCHANGED <<pc, cache, Counters, manager, ro, roFirst, used>>

\* The application or its terminal goes away; a running installer goes too.
Kill(c) ==
  /\ pc[c] # "idle" /\ used.faults < MaxFaults
  /\ used' = [used EXCEPT !.faults = @ + 1]
  /\ Ended(c) /\ busy' = IF busy = c THEN Nobody ELSE busy
  /\ UNCHANGED <<bytes, part, target, manager, ro, roFirst>>

Download(c) == Cached(c) \/ Discard(c) \/ Open(c) \/ Get(c) \/ Received(c) \/ Replace(c)
Install(c) == \/ Verify(c) \/ Protect(c) \/ Disable(c) \/ Pacman(c) \/ PacmanEnds(c)
              \/ Enable(c) \/ Wait(c) \/ Ostree(c) \/ OstreeAgain(c) \/ Finish(c)

Next == \/ \E c \in Clients : Begin(c) \/ Download(c) \/ DownloadFails(c) \/ Install(c) \/ Kill(c)
        \/ SystemUpdate

\* A started client keeps going: every read has a timeout, and installers end.
Spec == Init /\ [][Next]_vars /\ \A c \in Clients : WF_vars(Download(c) \/ Install(c))

-------------------------------------------------------------------------------
\* Whatever two downloads did to each other's files, the package manager only
\* opens a package that is all there ("checked against its SHA-256 again in
\* the same command, right before the package manager sees it").
InstalledIsWhole ==
  [][\A c \in Clients : At(c, "installing")' /\ ~At(c, "installing") => Whole(target)]_vars

\* SteamOS protection is back as it was once no installer runs, and is never
\* turned on by one that did not turn it off; only a killed installer, or
\* a switch that fails, leaves it off.
Changing(c) == pc[c] \in {"off", "pacman", "installing", "on"}
ProtectionRestored ==
  /\ ro => roFirst
  /\ used.faults = 0 /\ (\A c \in Clients : ~Changing(c)) => ro = roFirst

\* Every update ends, also when rpm-ostree stays busy for ever.
UpdateEnds == \A c \in Clients : pc[c] # "idle" ~> pc[c] = "idle"
===============================================================================
