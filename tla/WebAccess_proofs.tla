--------------------------- MODULE WebAccess_proofs ---------------------------
(***************************************************************************)
(* For any number of browsers, worker threads and terminals: the server    *)
(* never has two unfinished hardware actions, knows the one it has, and    *)
(* never ends the trust of a browser by itself.                            *)
(*                                                                         *)
(* One fact carries the actions (JobInv): while nobody decides, only the   *)
(* published terminal may be at work; from the moment a handler has found  *)
(* it idle until it starts one itself, none is; after that only its own.   *)
(* Another carries trust (KeyInv): nobody signs in with a key the server   *)
(* has not read, so when it reads a newer one no browser has that yet.  A  *)
(* key that is renewed again while the terminals are closed is newer still. *)
(***************************************************************************)
EXTENDS WebAccess, WellFoundedInduction, TLAPS

ActPcs == {"free", "stopping", "choose", "wait", "started"}

\* The typing the proof needs: TypeOK says more, about the bounds.
JobTypes ==
  /\ job \in [Terms -> Kinds \union {None}]
  /\ act = [pc |-> act.pc, tok |-> act.tok, what |-> act.what, x |-> act.x]
  /\ act.pc \in ActPcs /\ act.what \in Kinds \union {None}
  /\ asked \in SUBSET [tok : Tokens, what : Requests]

AtWork(x) == job[x] # None

JobInv ==
  \A x \in Terms : AtWork(x) =>
    /\ act.pc \in {"free", "stopping"} => x = backend
    /\ act.pc \notin {"choose", "wait"}
    /\ act.pc = "started" => x = act.x

Inv == JobTypes /\ JobInv

LEMMA InitInv == Init => Inv
BY DEF Init, Inv, JobTypes, JobInv, AtWork, NoAct, ActPcs, None, Kinds

-------------------------------------------------------------------------------
\* Whatever touches neither the jobs nor the handlers changes nothing here.
LEMMA Aside ==
  ASSUME Inv, UNCHANGED <<job, jobs, workers>>
  PROVE  Inv'
BY DEF Inv, JobTypes, JobInv, AtWork, jobs, workers

\* An action that ends, or a terminal that reports its end.
LEMMA JobDoneStep ==
  ASSUME Inv, NEW x \in Terms, JobDone(x)
  PROVE  Inv'
<1>1. job' = [job EXCEPT ![x] = None] /\ UNCHANGED workers
  BY DEF JobDone
<1>2. JobTypes'
  BY <1>1 DEF Inv, JobTypes, workers
<1>3. ASSUME NEW y \in Terms, AtWork(y)'
      PROVE  y # x /\ AtWork(y) /\ (y = backend => backend' = backend)
  <2>1. y # x /\ AtWork(y)
    BY <1>1, <1>3 DEF Inv, JobTypes, AtWork
  <2> QED
    BY <2>1 DEF JobDone, jobs
<1>4. JobInv'
  BY <1>1, <1>3 DEF Inv, JobInv, workers, AtWork
<1> QED
  BY <1>2, <1>4 DEF Inv

\* A browser is let in: only the waiting requests change.
LEMMA AdmitStep ==
  ASSUME Inv, NEW t \in Tokens, NEW what \in Requests, Admit(t, what)
  PROVE  Inv'
BY DEF Admit, Inv, JobTypes, JobInv, AtWork, term, jobs

\* A browser gets its SSH terminal.
LEMMA SshStartStep ==
  ASSUME Inv, NEW r \in asked, SshStart(r)
  PROVE  Inv'
BY DEF SshStart, Inv, JobTypes, JobInv, AtWork, Spawn, term, jobs

\* A handler gets the lock; it goes on only if the published terminal is idle
\* or the browser's own monitor runs there.
LEMMA TakeLockStep ==
  ASSUME Inv, NEW r \in asked, TakeLock(r)
  PROVE  Inv'
<1>1. UNCHANGED <<job, backend>> /\ asked' \subseteq asked /\ act = NoAct
  BY DEF TakeLock, term, jobs
<1>2. r.what \in Kinds
  BY DEF TakeLock
<1>3. \A x \in Terms : AtWork(x) => x = backend
  BY <1>1 DEF Inv, JobInv, NoAct
<1>4. CASE ~Busy /\ act' = [NoAct EXCEPT !.pc = "choose", !.tok = r.tok, !.what = r.what]
  <2>1. \A x \in Terms : ~AtWork(x)
    BY <1>3, <1>4 DEF Busy, Running, AtWork, Terms, NoTerm
  <2>2. act' = [pc |-> "choose", tok |-> r.tok, what |-> r.what, x |-> NoTerm]
    BY <1>4 DEF NoAct
  <2> QED
    BY <1>1, <1>2, <2>1, <2>2 DEF Inv, JobTypes, JobInv, AtWork, ActPcs
<1>5. CASE act' = [NoAct EXCEPT !.pc = "stopping", !.tok = r.tok, !.what = r.what]
  <2>1. act' = [pc |-> "stopping", tok |-> r.tok, what |-> r.what, x |-> NoTerm]
    BY <1>5 DEF NoAct
  <2> QED
    BY <1>1, <1>2, <1>3, <2>1 DEF Inv, JobTypes, JobInv, AtWork, ActPcs
<1>6. CASE UNCHANGED act
  BY <1>1, <1>6 DEF Inv, JobTypes, JobInv, AtWork
<1> QED
  BY <1>4, <1>5, <1>6 DEF TakeLock

\* The handler with the lock waits for its monitor to end, chooses a terminal,
\* starts the action and publishes it.
LEMMA WorkStep ==
  ASSUME Inv, Work
  PROVE  Inv'
<1> USE DEF Inv, JobTypes, JobInv, AtWork, ActPcs, NoAct, Nobody, NoTerm
<1>1. CASE StopMonitor
  <2>1. UNCHANGED <<job, backend, asked>> /\ act.pc = "stopping"
    BY <1>1 DEF StopMonitor, term, jobs
  <2>2. CASE Busy /\ Release
    BY <2>1, <2>2 DEF Release, None
  <2>3. CASE ~Busy /\ Go("choose")
    <3>1. \A x \in Terms : ~AtWork(x)
      BY <2>1, <2>3 DEF Busy, Running, Terms
    <3> QED
      BY <2>1, <2>3, <3>1 DEF Go
  <2> QED
    BY <1>1, <2>2, <2>3 DEF StopMonitor
<1>2. CASE Choose
  <2>1. UNCHANGED <<job, backend, asked>> /\ act.pc = "choose"
    BY <1>2 DEF Choose, term, jobs, Spawn
  <2>2. \A x \in Terms : ~AtWork(x)
    BY <2>1
  <2>3. CASE Release
    BY <2>1, <2>2, <2>3 DEF Release, None
  <2>4. CASE \E y : act' = [act EXCEPT !.pc = "wait", !.x = y]
    BY <2>1, <2>2, <2>4
  <2> QED
    BY <1>2, <2>3, <2>4 DEF Choose
<1>3. CASE Start
  <2>1. UNCHANGED <<backend, asked>> /\ act.pc = "wait"
    BY <1>3 DEF Start, jobs
  <2>2. \A x \in Terms : ~AtWork(x)
    BY <2>1
  <2>3. CASE job' = [job EXCEPT ![act.x] = act.what] /\ Go("started")
    BY <2>1, <2>2, <2>3 DEF Go
  <2>4. CASE Release /\ UNCHANGED job
    BY <2>1, <2>2, <2>4 DEF Release, None
  <2> QED
    BY <1>3, <2>3, <2>4 DEF Start
<1>4. CASE Publish
  <2>1. UNCHANGED <<job, asked>> /\ act.pc = "started" /\ act' = NoAct
    BY <1>4 DEF Publish, Release, term
  <2>2. ASSUME NEW x \in Terms, AtWork(x)
        PROVE  x = act.x /\ backend' = x
    BY <2>1, <2>2, <1>4 DEF Publish, Running, Terms
  <2> QED
    BY <2>1, <2>2 DEF None
<1> QED
  BY <1>1, <1>2, <1>3, <1>4 DEF Work

\* A new process has no terminal at work.
LEMMA RestartedStep ==
  ASSUME Restarted
  PROVE  Inv'
BY DEF Restarted, Emptied, Inv, JobTypes, JobInv, AtWork, NoAct, ActPcs, Kinds

LEMMA Step ==
  ASSUME Inv, [Next]_vars
  PROVE  Inv'
<1>1. CASE \E t \in Tokens : \/ Login(t) \/ Poll(t) \/ Logout(t) \/ Revoke(t)
                             \/ SshClose(t)
  <2>1. UNCHANGED <<job, jobs, workers>>
    BY <1>1 DEF Login, Poll, Logout, Revoke, SshClose, Drop, CloseAll, term
  <2> QED
    BY <2>1, Aside
<1>2. CASE \E t \in Tokens : \E what \in Requests : Admit(t, what)
  BY <1>2, AdmitStep
<1>3. CASE \E r \in asked : SshStart(r) \/ TakeLock(r)
  BY <1>3, SshStartStep, TakeLockStep
<1>4. CASE Work
  BY <1>4, WorkStep
<1>5. CASE \E x \in Terms : ReaderEnds(x)
  <2>1. UNCHANGED <<job, jobs, workers>>
    BY <1>5 DEF ReaderEnds, CloseAll
  <2> QED
    BY <2>1, Aside
<1>6. CASE \E x \in Terms : JobDone(x)
  BY <1>6, JobDoneStep
<1>7. CASE SyncKey \/ SyncEnd \/ SyncFails \/ Renew \/ Install \/ RollBack \/ Look
             \/ UNCHANGED vars
  <2>1. UNCHANGED <<job, jobs, workers>>
    BY <1>7 DEF SyncKey, SyncEnd, SyncFails, Renew, Install, RollBack, Look, vars, CloseAll, term
  <2> QED
    BY <2>1, Aside
<1>8. CASE Update \/ Restart
  BY <1>8, RestartedStep DEF Update, Restart
<1> QED
  BY <1>1, <1>2, <1>3, <1>4, <1>5, <1>6, <1>7, <1>8 DEF Next

\* Where the one decider is, at all times: the next two theorems are read off.
THEOREM Invariance == Spec => []Inv
<1>1. Init => Inv
  BY InitInv
<1>2. Inv /\ [Next]_vars => Inv'
  BY Step
<1> QED
  BY <1>1, <1>2, PTL DEF Spec

(* At most one hardware action is unfinished: two at work would both be the  *)
(* published one, or both the one being started (Handler.action).            *)
THEOREM OneJobHolds == Spec => []OneJob
<1>1. Inv => OneJob
  BY DEF Inv, JobTypes, JobInv, OneJob, Running, AtWork, ActPcs
<1> QED
  BY <1>1, Invariance, PTL

(* While no handler holds job_lock an unfinished action is the published one. *)
THEOREM JobPublishedHolds == Spec => []JobPublished
<1>1. Inv => JobPublished
  BY DEF Inv, JobInv, JobPublished, Running, AtWork, NoAct
<1> QED
  BY <1>1, Invariance, PTL

-------------------------------------------------------------------------------
(* Trust. *)

KeyInv ==
  /\ key \in Nat /\ srv \in Nat /\ srv <= key
  /\ syncing # NoKey => syncing \in Nat /\ srv <= syncing /\ syncing <= key
  /\ device \in [Tokens -> {NoDevice} \union Nat]
  /\ \A t \in Tokens : device[t] <= srv

LEMMA KeyInit == Init => KeyInv
BY DEF Init, KeyInv, NoDevice, NoKey

\* The registry and the copies of the key stay as they are.
LEMMA KeyAside ==
  ASSUME KeyInv, UNCHANGED <<key, srv, syncing, device>>
  PROVE  KeyInv' /\ \A t \in Tokens : device'[t] = device[t]
BY DEF KeyInv

\* What may happen to the trust of a browser in one step.
Kept == \A t \in Tokens : device[t] = key /\ device'[t] = NoDevice
                            => Revoke(t) \/ Logout(t)

LEMMA TrustStep ==
  ASSUME KeyInv, [Next]_vars
  PROVE  KeyInv' /\ Kept
<1> USE DEF NoDevice, Kept
<1>0. \A t \in Tokens : device[t] = key => device[t] # NoDevice
  BY DEF KeyInv
<1>1. CASE \E t \in Tokens : \/ Poll(t) \/ SshClose(t)
                             \/ \E what \in Requests : Admit(t, what)
  <2>1. UNCHANGED <<key, srv, syncing, device>>
    BY <1>1 DEF Poll, SshClose, Admit, disk
  <2> QED
    BY <2>1, <1>0, KeyAside
<1>2. CASE \E r \in asked : SshStart(r) \/ TakeLock(r)
  <2>1. UNCHANGED <<key, srv, syncing, device>>
    BY <1>2 DEF SshStart, TakeLock, disk
  <2> QED
    BY <2>1, <1>0, KeyAside
<1>3. CASE Work \/ (\E x \in Terms : ReaderEnds(x) \/ JobDone(x))
             \/ Install \/ RollBack \/ Look \/ UNCHANGED vars
  <2>1. UNCHANGED <<key, srv, syncing, device>>
    BY <1>3 DEF Work, StopMonitor, Choose, Start, Publish, ReaderEnds, JobDone,
                Install, RollBack, Look, vars, disk
  <2> QED
    BY <2>1, <1>0, KeyAside
<1>4. ASSUME NEW t \in Tokens, Login(t)
      PROVE  KeyInv' /\ Kept
  <2>1. device' = [device EXCEPT ![t] = srv] /\ UNCHANGED <<key, srv, syncing>>
    BY <1>4 DEF Login
  <2> QED
    BY <2>1, <1>0 DEF KeyInv
<1>5. ASSUME NEW t \in Tokens, Logout(t) \/ Revoke(t)
      PROVE  KeyInv' /\ Kept
  <2>1. device' = [device EXCEPT ![t] = NoDevice] /\ UNCHANGED <<key, srv, syncing>>
    BY <1>5 DEF Logout, Revoke
  <2>2. KeyInv'
    BY <2>1 DEF KeyInv
  <2>3. ASSUME NEW s \in Tokens, device[s] = key, device'[s] = NoDevice
        PROVE  s = t
    BY <2>1, <2>3, <1>0 DEF KeyInv
  <2> QED
    BY <2>2, <2>3, <1>5
<1>6. CASE SyncKey       \* a key it has not read: no browser has it yet
  <2>1. /\ key # srv /\ device' = [t \in Tokens |-> NoDevice]
        /\ UNCHANGED <<key, srv>> /\ syncing' = key
    BY <1>6 DEF SyncKey
  <2>2. \A t \in Tokens : device[t] # key
    BY <2>1 DEF KeyInv
  <2> QED
    BY <2>1, <2>2 DEF KeyInv
<1>7. CASE SyncEnd
  <2>1. /\ syncing # NoKey /\ srv' = syncing /\ syncing' = NoKey
        /\ UNCHANGED <<key, device>>
    BY <1>7 DEF SyncEnd, disk
  <2> QED
    BY <2>1, <1>0 DEF KeyInv
<1>10. CASE SyncFails
  <2>1. syncing' = NoKey /\ UNCHANGED <<key, srv, device>>
    BY <1>10 DEF SyncFails, disk
  <2> QED
    BY <2>1, <1>0 DEF KeyInv
<1>8. CASE Renew
  <2>1. key' = key + 1 /\ UNCHANGED <<srv, syncing, device>>
    BY <1>8 DEF Renew
  <2> QED
    BY <2>1, <1>0 DEF KeyInv
<1>9. CASE Update \/ Restart      \* what has the key on disk stays
  <2>1. /\ device' = [t \in Tokens |-> IF device[t] = key THEN device[t] ELSE NoDevice]
        /\ srv' = key /\ syncing' = NoKey /\ UNCHANGED key
    BY <1>9 DEF Update, Restart, Restarted, Emptied
  <2> QED
    BY <2>1, <1>0 DEF KeyInv
<1> QED
  BY <1>1, <1>2, <1>3, <1>4, <1>5, <1>6, <1>7, <1>8, <1>9, <1>10 DEF Next

(* Only its owner or the browser itself ends the trust of a browser that is  *)
(* registered with the current key (Web._sync_key, Server.__init__).         *)
THEOREM TrustKeptHolds == Spec => TrustKept
<1>1. Init => KeyInv
  BY KeyInit
<1>2. KeyInv /\ [Next]_vars => KeyInv'
  BY TrustStep
<1>3. KeyInv /\ [Next]_vars => [Kept]_vars
  BY TrustStep
<1> QED
  BY <1>1, <1>2, <1>3, PTL DEF Spec, TrustKept, Kept

-------------------------------------------------------------------------------
(* Types.  A handler on its way has a browser, an action and, once chosen, a *)
(* terminal; and the watcher is about to restart the server only while the  *)
(* bound on restarts leaves one.                                             *)

LEMMA LeastNatural ==
  ASSUME NEW S \in SUBSET Nat, S # {}
  PROVE  \E x \in S : \A y \in S : x <= y
<1> DEFINE less == {ss \in Nat \X Nat : ss[1] < ss[2]}
<1>1. IsWellFoundedOn(less, Nat)
  BY NatLessThanWellFounded, Zenon DEF OpToRel
<1> HIDE DEF less
<1>2. PICK x \in S : \A y \in S : <<y, x>> \notin less
  BY <1>1, WFMin
<1>3. ASSUME NEW y \in S PROVE x <= y
  <2>1. x \in Nat /\ y \in Nat /\ ~(y < x)
    BY <1>2 DEF less
  <2> QED
    BY <2>1
<1> QED
  BY <1>3

LEMMA NewTermIsUnused ==
  Unused # {} => NewTerm \in Unused
<1> SUFFICES ASSUME Unused # {} PROVE NewTerm \in Unused
  OBVIOUS
<1>1. Unused \in SUBSET Nat
  BY WebAssumption DEF Unused, Terms
<1>2. \E x \in Unused : \A y \in Unused : x <= y
  BY <1>1, LeastNatural
<1> QED
  BY <1>2 DEF NewTerm, First

\* What a registry may hold.
LEMMA Keys ==
  /\ MaxRenewals \in Nat /\ MaxRestarts \in Nat
  /\ NoDevice \in -1..MaxRenewals /\ 0..MaxRenewals \subseteq -1..MaxRenewals
  /\ 0 \in 0..MaxRenewals
BY WebAssumption DEF NoDevice

Tables == [Tokens -> Terms \union {NoTerm}]
Jobs == [Terms -> Kinds \union {None}]
Waiting == [tok : Tokens, what : Requests]
Acts == [pc : ActPcs, tok : Tokens \union {Nobody}, what : Kinds \union {None},
         x : Terms \union {NoTerm}]

DiskTypes ==
  /\ key \in 0..MaxRenewals /\ srv \in 0..MaxRenewals
  /\ device \in [Tokens -> -1..MaxRenewals]
  /\ cookie \in [Tokens -> {"fresh", "held", "gone"}]
  /\ sessions \in SUBSET Tokens /\ syncing \in {NoKey} \union 0..MaxRenewals
TermTypes ==
  local \in Tables /\ ssh \in Tables /\ open \in SUBSET Terms /\ job \in Jobs
WorkTypes ==
  /\ owner \in Tokens \union {Nobody} /\ backend \in Terms \union {NoTerm}
  /\ asked \in SUBSET Waiting
  /\ act \in Acts
  /\ act.pc # "free" => act.tok \in Tokens /\ act.what \in Kinds
WatchTypes ==
  /\ watch \in {"same", "new", "seen", "stop"} /\ restarts \in 0..MaxRestarts
  /\ watch # "same" => restarts < MaxRestarts

TypeInv == DiskTypes /\ TermTypes /\ WorkTypes /\ WatchTypes

LEMMA InitTyped ==
  Init => TypeInv
<1> SUFFICES ASSUME Init PROVE TypeInv
  OBVIOUS
<1>1. DiskTypes
  BY Keys DEF Init, DiskTypes
<1>2. TermTypes /\ WorkTypes
  BY DEF Init, TermTypes, WorkTypes, Empty, Tables, Jobs, Acts, ActPcs, NoAct
<1>3. WatchTypes
  BY WebAssumption DEF Init, WatchTypes
<1> QED
  BY <1>1, <1>2, <1>3 DEF TypeInv

LEMMA DropTyped ==
  ASSUME TermTypes, NEW S, Drop(S)
  PROVE  TermTypes'
BY DEF Drop, Forget, CloseAll, TermTypes, Tables

LEMMA SpawnTyped ==
  ASSUME TermTypes, Unused # {}, Spawn
  PROVE  NewTerm \in Terms /\ open' \in SUBSET Terms /\ job' \in Jobs
BY NewTermIsUnused DEF Spawn, Unused, TermTypes

\* Waiting of browsers, the desktop's, and the change of the key.
LEMMA SessionsTyped ==
  ASSUME TypeInv, NEW t \in Tokens,
         \/ Login(t) \/ Poll(t) \/ Logout(t) \/ Revoke(t) \/ SshClose(t)
         \/ \E what \in Requests : Admit(t, what)
  PROVE  TypeInv'
<1> USE DEF TypeInv
<1>1. CASE Login(t)
  <2>1. TermTypes'
    BY <1>1, DropTyped DEF Login
  <2>2. DiskTypes'
    BY <1>1, Keys DEF Login, DiskTypes
  <2> QED
    BY <1>1, <2>1, <2>2 DEF Login, jobs, workers, WorkTypes, WatchTypes
<1>2. CASE Poll(t)
  <2>1. TermTypes'
    BY <1>2, DropTyped DEF Poll, TermTypes, tables, term
  <2>2. DiskTypes'
    BY <1>2 DEF Poll, DiskTypes, disk, tables
  <2> QED
    BY <1>2, <2>1, <2>2 DEF Poll, jobs, workers, WorkTypes, WatchTypes
<1>3. CASE Logout(t)
  <2>1. TermTypes'
    BY <1>3, DropTyped DEF Logout
  <2>2. DiskTypes'
    BY <1>3, Keys DEF Logout, DiskTypes
  <2> QED
    BY <1>3, <2>1, <2>2 DEF Logout, jobs, workers, WorkTypes, WatchTypes
<1>4. CASE Revoke(t)
  <2>1. DiskTypes'
    BY <1>4, Keys DEF Revoke, DiskTypes, tables
  <2> QED
    BY <1>4, <2>1 DEF Revoke, tables, term, jobs, workers, TermTypes, WorkTypes, WatchTypes
<1>5. CASE SshClose(t)
  <2>1. TermTypes'
    BY <1>5 DEF SshClose, TermTypes, Tables, CloseAll
  <2> QED
    BY <1>5, <2>1 DEF SshClose, disk, jobs, workers, DiskTypes, WorkTypes, WatchTypes
<1>6. ASSUME NEW what \in Requests, Admit(t, what) PROVE TypeInv'
  <2>1. DiskTypes' /\ asked' \in SUBSET Waiting
    BY <1>6 DEF Admit, DiskTypes, WorkTypes, Waiting, disk
  <2> QED
    BY <1>6, <2>1 DEF Admit, term, jobs, TermTypes, WorkTypes, WatchTypes
<1> QED
  BY <1>1, <1>2, <1>3, <1>4, <1>5, <1>6

LEMMA KeysTyped ==
  ASSUME TypeInv, SyncKey \/ SyncEnd \/ SyncFails \/ Renew
  PROVE  TypeInv'
<1> USE DEF TypeInv
<1>1. DiskTypes'
  <2>1. CASE SyncKey
    BY <2>1, Keys DEF SyncKey, DiskTypes
  <2>2. CASE SyncEnd \/ SyncFails
    BY <2>2 DEF SyncEnd, SyncFails, DiskTypes, disk, tables
  <2>3. CASE Renew
    BY <2>3, Keys DEF Renew, DiskTypes, tables
  <2> QED
    BY <2>1, <2>2, <2>3
<1>2. TermTypes'
  BY DEF SyncKey, SyncEnd, SyncFails, Renew, CloseAll, TermTypes, Tables, Empty, tables, term
<1> QED
  BY <1>1, <1>2
     DEF SyncKey, SyncEnd, SyncFails, Renew, WorkTypes, WatchTypes, jobs, workers

LEMMA HandlersTyped ==
  ASSUME TypeInv, Work \/ \E r \in asked : SshStart(r) \/ TakeLock(r)
  PROVE  TypeInv'
<1> USE DEF TypeInv
<1>0. /\ act \in Acts /\ (act.pc # "free" => act.tok \in Tokens /\ act.what \in Kinds)
      /\ NoAct \in Acts /\ NoAct.pc = "free" /\ NoTerm \notin Terms
  BY DEF WorkTypes, NoAct, Acts, ActPcs, Terms, NoTerm
<1>1. ASSUME NEW r \in asked, TakeLock(r) PROVE TypeInv'
  <2>1. r \in Waiting /\ asked' \subseteq asked
    BY <1>1 DEF TakeLock, WorkTypes
  <2>2. \/ act' = act
        \/ act' = [pc |-> "choose", tok |-> r.tok, what |-> r.what, x |-> NoTerm]
        \/ act' = [pc |-> "stopping", tok |-> r.tok, what |-> r.what, x |-> NoTerm]
    BY <1>1 DEF TakeLock, NoAct
  <2>a. r.tok \in Tokens /\ r.what \in Kinds
    BY <1>1, <2>1 DEF Waiting, TakeLock
  <2>b. act' \in Acts /\ (act'.pc # "free" => act'.tok \in Tokens /\ act'.what \in Kinds)
    BY <1>0, <2>2, <2>a DEF Acts, ActPcs
  <2>3. WorkTypes'
    BY <1>1, <2>1, <2>b DEF TakeLock, WorkTypes, jobs
  <2> QED
    BY <1>1, <2>3 DEF TakeLock, disk, tables, term, DiskTypes, TermTypes, WatchTypes
<1>2. CASE StopMonitor
  <2>1. WorkTypes'
    BY <1>0, <1>2 DEF StopMonitor, Release, Go, WorkTypes, Acts, ActPcs, jobs
  <2> QED
    BY <1>2, <2>1 DEF StopMonitor, disk, tables, term, DiskTypes, TermTypes, WatchTypes
<1>3. CASE Choose
  <2>1. act.tok \in Tokens /\ act.what \in Kinds
    BY <1>0, <1>3 DEF Choose
  <2>2. /\ \/ UNCHANGED <<local, term>>
           \/ Unused # {} /\ local' = [local EXCEPT ![act.tok] = NewTerm] /\ Spawn
        /\ UNCHANGED ssh
    BY <1>3 DEF Choose
  <2>3. TermTypes'
    BY <2>1, <2>2, SpawnTyped DEF TermTypes, Tables, term
  <2>4. act' = NoAct \/ \E y \in Terms : act' = [act EXCEPT !.pc = "wait", !.x = y]
    <3>1. ssh[act.tok] \in Terms \union {NoTerm} /\ open \subseteq Terms
      BY <2>1 DEF TermTypes, Tables
    <3>2. Unused # {} => NewTerm \in Terms
      BY NewTermIsUnused DEF Unused
    <3> QED
      BY <1>3, <3>1, <3>2 DEF Choose, Release
  <2>5. WorkTypes'
    <3>1. ASSUME NEW y \in Terms, act' = [act EXCEPT !.pc = "wait", !.x = y]
          PROVE  act' \in Acts /\ act'.tok = act.tok /\ act'.what = act.what
      BY <1>0, <3>1 DEF Acts, ActPcs
    <3>2. UNCHANGED <<owner, backend, asked>>
      BY <1>3 DEF Choose, jobs
    <3> QED
      BY <1>0, <2>1, <2>4, <3>1, <3>2 DEF WorkTypes
  <2> QED
    BY <1>3, <2>3, <2>5 DEF Choose, disk, DiskTypes, WatchTypes
<1>4. CASE Start
  <2>1. act.pc = "wait" /\ UNCHANGED <<owner, backend, asked, open, local, ssh>>
    BY <1>4 DEF Start, jobs, tables
  <2>2. job' \in Jobs
    BY <1>0, <1>4, <2>1 DEF Start, TermTypes, Jobs
  <2>3. act' \in Acts /\ (act'.pc # "free" => act'.tok \in Tokens /\ act'.what \in Kinds)
    BY <1>0, <1>4, <2>1 DEF Start, Release, Go, Acts, ActPcs
  <2> QED
    BY <1>4, <2>1, <2>2, <2>3
       DEF Start, disk, tables, DiskTypes, TermTypes, WorkTypes, WatchTypes
<1>5. CASE Publish
  <2>1. act.tok \in Tokens /\ act.x \in Terms \union {NoTerm}
    BY <1>0, <1>5 DEF Publish, Acts
  <2>2. WorkTypes'
    BY <1>0, <1>5, <2>1 DEF Publish, Release, Running, WorkTypes, jobs
  <2> QED
    BY <1>5, <2>2 DEF Publish, disk, tables, term, DiskTypes, TermTypes, WatchTypes
<1>6. ASSUME NEW r \in asked, SshStart(r) PROVE TypeInv'
  <2>1. r \in Waiting /\ asked' \subseteq asked /\ UNCHANGED local
    BY <1>6 DEF SshStart, WorkTypes
  <2>2. TermTypes'
    <3>1. CASE UNCHANGED <<ssh, term>>
      BY <2>1, <3>1 DEF TermTypes, term
    <3>2. CASE Unused # {} /\ ssh' = [ssh EXCEPT ![r.tok] = NewTerm] /\ Spawn
      BY <2>1, <3>2, SpawnTyped DEF TermTypes, Tables
    <3> QED
      BY <1>6, <3>1, <3>2 DEF SshStart
  <2> QED
    BY <1>6, <2>1, <2>2 DEF SshStart, disk, jobs, DiskTypes, WorkTypes, WatchTypes
<1> QED
  BY <1>1, <1>2, <1>3, <1>4, <1>5, <1>6 DEF Work

LEMMA ProcessTyped ==
  ASSUME TypeInv, \/ \E x \in Terms : ReaderEnds(x) \/ JobDone(x)
                  \/ Install \/ RollBack \/ Look \/ Update \/ Restart \/ UNCHANGED vars
  PROVE  TypeInv'
<1> USE DEF TypeInv
<1>1. ASSUME NEW x \in Terms, ReaderEnds(x) PROVE TypeInv'
  BY <1>1 DEF ReaderEnds, CloseAll, disk, tables, jobs, workers,
              DiskTypes, TermTypes, WorkTypes, WatchTypes
<1>2. ASSUME NEW x \in Terms, JobDone(x) PROVE TypeInv'
  <2>1. TermTypes'
    BY <1>2 DEF JobDone, TermTypes, Jobs, tables
  <2>2. WorkTypes'
    BY <1>2 DEF JobDone, WorkTypes, jobs, workers
  <2> QED
    BY <1>2, <2>1, <2>2 DEF JobDone, disk, tables, DiskTypes, WatchTypes
<1>3. CASE Install \/ RollBack \/ Look
  <2>1. WatchTypes'
    BY <1>3 DEF Install, RollBack, Look, WatchTypes
  <2> QED
    BY <1>3, <2>1 DEF Install, RollBack, Look, disk, tables, term, jobs, workers,
                      DiskTypes, TermTypes, WorkTypes
<1>4. CASE Update \/ Restart
  <2>1. Restarted /\ restarts < MaxRestarts
    BY <1>4 DEF Update, Restart, WatchTypes
  <2>2. DiskTypes'
    BY <2>1, Keys DEF Restarted, Emptied, DiskTypes
  <2>3. TermTypes' /\ WorkTypes'
    BY <2>1 DEF Restarted, Emptied, TermTypes, WorkTypes, Tables, Jobs, Empty,
                Acts, ActPcs, NoAct
  <2>4. WatchTypes'
    BY <2>1, Keys DEF Restarted, Emptied, WatchTypes
  <2> QED
    BY <2>2, <2>3, <2>4
<1>5. CASE UNCHANGED vars
  BY <1>5 DEF vars, disk, tables, term, jobs, workers,
              DiskTypes, TermTypes, WorkTypes, WatchTypes
<1> QED
  BY <1>1, <1>2, <1>3, <1>4, <1>5

(* Tables, terminals and handlers refer only to each other's members, and a *)
(* handler that goes on has a browser and an action.                         *)
THEOREM TypesHold == Spec => []TypeOK
<1>1. TypeInv /\ [Next]_vars => TypeInv'
  BY SessionsTyped, KeysTyped, HandlersTyped, ProcessTyped DEF Next
<1>2. TypeInv => TypeOK
  BY DEF TypeInv, DiskTypes, TermTypes, WorkTypes, WatchTypes, TypeOK,
         Tables, Jobs, Waiting, Acts, ActPcs
<1> QED
  BY <1>1, <1>2, InitTyped, PTL DEF Spec
===============================================================================
