------------------------------ MODULE WebAccess ------------------------------
(***************************************************************************)
(* The web interface: frontends/web/server.py with its browser registry    *)
(* (web_devices.py) and the terminals that run actions (ssh.py).  Worker   *)
(* threads serve browsers; the desktop renews the key and revokes browsers *)
(* through the files; a watcher restarts the server after an update.       *)
(*                                                                         *)
(* A critical section of web.lock is one step, except the key's change,    *)
(* whose terminals are closed one step before they are forgotten: an       *)
(* action adds terminals without that lock.  What route checks before an   *)
(* action or a request about a terminal is a section of its own; only      *)
(* Logout, which undoes what it finds, is one with its check.  Time is     *)
(* left to choice.                                                         *)
(***************************************************************************)
EXTENDS Integers, FiniteSets

CONSTANTS NumWorkers,                        \* worker threads
          NumTokens, NumTerms,               \* bounds of the model: sign-ins,
          MaxRenewals, MaxRestarts           \* terminals referred to at a time

ASSUME WebAssumption ==
  {NumWorkers, NumTokens, NumTerms, MaxRenewals, MaxRestarts} \subseteq Nat

VARIABLES
  key,      \* web.json: the access key, by its generation
  device,   \* web-devices.json: the key each browser with control signed in with
  cookie,   \* the browsers' cookies: "fresh" (not issued yet), "held", "gone"
  srv,      \* Web.key, the key this process works with
  sessions, \* Web.sessions, those that may have terminals (the others have none)
  syncing,  \* the key _sync_key read, from closing to forgetting the terminals
  local,    \* Web.local_sessions
  ssh,      \* Web.ssh_sessions
  open,     \* the terminals (SSHSession) that are not closed
  job,      \* the unfinished action of each terminal, if any
  owner,    \* Web.job_owner      } only while the action is unfinished: the
  backend,  \* Web.job_backend    } handlers look at neither afterwards
  asked,    \* requests of browsers let in, waiting for Web.job_lock or web.lock
  act,      \* the action handler that holds Web.job_lock
  watch,    \* UpdateWatch: "same", "new" (installed), "seen" (once), "stop"
  restarts  \* restarts so far

disk == <<key, device>>
tables == <<sessions, local, ssh>>
jobs == <<owner, backend>>
workers == <<asked, act>>
term == <<open, job>>
vars == <<disk, cookie, srv, syncing, tables, term, jobs, workers, watch, restarts>>

None == "none"
Tokens == 1..NumTokens
Terms == 1..NumTerms
Nobody == 0
NoTerm == 0
First(S) == CHOOSE e \in S : \A f \in S : e <= f      \* a representative
NoDevice == -1
NoAct == [pc |-> "free", tok |-> Nobody, what |-> None, x |-> NoTerm]
Empty == [t \in Tokens |-> NoTerm]
NoKey == -1
Kinds == {"apply", "monitor"}
Requests == Kinds \union {"ssh"}

TypeOK ==
  /\ key \in 0..MaxRenewals /\ srv \in 0..MaxRenewals
  /\ device \in [Tokens -> -1..MaxRenewals]
  /\ cookie \in [Tokens -> {"fresh", "held", "gone"}]
  /\ sessions \in SUBSET Tokens /\ syncing \in {NoKey} \union 0..MaxRenewals
  /\ {local, ssh} \subseteq [Tokens -> Terms \union {NoTerm}]
  /\ open \in SUBSET Terms /\ job \in [Terms -> Kinds \union {None}]
  /\ owner \in Tokens \union {Nobody} /\ backend \in Terms \union {NoTerm}
  /\ asked \in SUBSET [tok : Tokens, what : Requests]
  /\ act \in [pc : {"free", "stopping", "choose", "wait", "started"},
             tok : Tokens \union {Nobody}, what : Kinds \union {None}, x : Terms \union {NoTerm}]
  /\ watch \in {"same", "new", "seen", "stop"} /\ restarts \in 0..MaxRestarts

Init ==
  /\ key = 0 /\ srv = 0
  /\ device = [t \in Tokens |-> NoDevice] /\ cookie = [t \in Tokens |-> "fresh"]
  /\ sessions = {} /\ syncing = NoKey
  /\ local = Empty /\ ssh = Empty /\ open = {} /\ job = [x \in Terms |-> None]
  /\ owner = Nobody /\ backend = NoTerm
  /\ asked = {} /\ act = NoAct
  /\ watch = "same" /\ restarts = 0

-------------------------------------------------------------------------------
(* Terminals *)

Running(x) == x # NoTerm /\ job[x] # None
Known(x) == \E t \in Tokens : x \in {local[t], ssh[t]}

\* SSHSession.close on some terminals.
CloseAll(S) == open' = open \ S /\ UNCHANGED job

\* A number nothing refers to any more serves for the next terminal.
Unused == {x \in Terms : /\ x \notin open /\ ~Running(x) /\ ~Known(x)
                         /\ x \notin {backend, act.x}}
NewTerm == First(Unused)
Spawn == open' = open \union {NewTerm} /\ UNCHANGED job

\* The reader ends by itself when the process behind the terminal does, and
\* after 15 minutes without a job.
ReaderEnds(x) ==
  /\ x \in open /\ CloseAll({x})
  /\ UNCHANGED <<disk, cookie, srv, syncing, tables, jobs, workers, watch, restarts>>

\* Mistake: only a terminal some table knows times out.
BugIdleEnds(x) == Known(x) /\ ~Running(x) /\ ReaderEnds(x)

IdleEnds(x) == ~Running(x) /\ ReaderEnds(x)

\* _execute has the worker's answer, or "Terminal disconnected" of a reader
\* that ended.
JobDone(x) ==
  /\ Running(x) /\ job' = [job EXCEPT ![x] = None]
  /\ IF backend = x THEN backend' = NoTerm /\ owner' = Nobody ELSE UNCHANGED jobs
  /\ UNCHANGED <<open, disk, cookie, srv, syncing, tables, workers, watch, restarts>>

\* Mistake: only a terminal some table knows reports its end.
BugDisconnected(x) == Known(x) /\ x \notin open /\ JobDone(x)

Disconnected(x) == x \notin open /\ JobDone(x)

-------------------------------------------------------------------------------
(* Sessions *)

TermsOf(S) == {local[t] : t \in S} \union {ssh[t] : t \in S}
Forget(S, table) == [t \in Tokens |-> IF t \in S THEN NoTerm ELSE table[t]]

\* _drop_session, for each token of a set.
Drop(S) ==
  /\ local' = Forget(S, local) /\ ssh' = Forget(S, ssh)
  /\ CloseAll(TermsOf(S))

\* _sync_key, met by the first request of any browser after a renewal.
SyncKey ==
  /\ syncing = NoKey /\ key # srv
  /\ sessions' = {} /\ device' = [t \in Tokens |-> NoDevice]
  /\ CloseAll(TermsOf(Tokens)) /\ syncing' = key
  /\ UNCHANGED <<key, cookie, srv, local, ssh, jobs, workers, watch, restarts>>

SyncEnd ==
  /\ syncing # NoKey /\ syncing' = NoKey
  /\ local' = Empty /\ ssh' = Empty /\ srv' = syncing
  /\ UNCHANGED <<disk, cookie, sessions, term, jobs, workers, watch, restarts>>

\* A terminal added meanwhile: "dictionary changed size during iteration".
SyncFails ==
  /\ syncing # NoKey /\ syncing' = NoKey
  /\ TermsOf(Tokens) \intersect open # {}
  /\ UNCHANGED <<disk, cookie, srv, tables, term, jobs, workers, watch, restarts>>

Unlocked == syncing = NoKey /\ key = srv    \* web.lock is free, the key in step

Login(t) ==
  /\ Unlocked /\ cookie[t] = "fresh" /\ \A s \in 1..(t - 1) : cookie[s] # "fresh"
  /\ cookie' = [cookie EXCEPT ![t] = "held"]
  /\ LET stale == {s \in sessions : device[s] = NoDevice} IN
       Drop(stale) /\ sessions' = sessions \ stale
  /\ device' = [device EXCEPT ![t] = srv]
  /\ UNCHANGED <<key, srv, syncing, jobs, workers, watch, restarts>>

Valid(t) == device[t] = srv
Reachable(x) ==
  \E t \in Tokens : cookie[t] = "held" /\ Valid(t) /\ x \in {local[t], ssh[t]}

\* Web.session, for a request that only reads: it admits the browser, or
\* drops what is left of its session.
Poll(t) ==
  /\ Unlocked /\ cookie[t] = "held"
  /\ IF Valid(t)
     THEN UNCHANGED <<tables, term>>
     ELSE sessions' = sessions \ {t} /\ Drop({t})
  /\ UNCHANGED <<disk, cookie, srv, syncing, jobs, workers, watch, restarts>>

Logout(t) ==
  /\ Unlocked /\ cookie[t] = "held" /\ Valid(t)
  /\ cookie' = [cookie EXCEPT ![t] = "gone"]
  /\ sessions' = sessions \ {t} /\ Drop({t})
  /\ device' = [device EXCEPT ![t] = NoDevice]
  /\ UNCHANGED <<key, srv, syncing, jobs, workers, watch, restarts>>

\* route lets the request in: the session, the CSRF token and the control of
\* the browser are checked now; the handler waits for its lock.
Admit(t, what) ==
  /\ Cardinality(asked) + (IF act = NoAct THEN 0 ELSE 1) < NumWorkers
  /\ Unlocked /\ cookie[t] = "held" /\ Valid(t)
  /\ sessions' = sessions \union {t}
  /\ asked' = asked \union {[tok |-> t, what |-> what]}
  /\ UNCHANGED <<disk, cookie, srv, syncing, local, ssh, term, jobs, act, watch, restarts>>

\* ssh_start, under web.lock once more; nothing is checked again.  There may
\* be an open terminal already, or too many attempts.
SshStart(r) ==
  /\ r \in asked /\ r.what = "ssh" /\ asked' = asked \ {r}
  /\ syncing = NoKey
  /\ \/ /\ ssh[r.tok] \notin open /\ Unused # {}
        /\ ssh' = [ssh EXCEPT ![r.tok] = NewTerm] /\ Spawn
     \/ UNCHANGED <<ssh, term>>
  /\ UNCHANGED <<disk, cookie, srv, syncing, sessions, local, jobs, act, watch, restarts>>

\* ssh_close, without web.lock.  The browser may have been let in as long ago
\* as its terminal was started.
SshClose(t) ==
  /\ cookie[t] # "fresh" /\ ssh[t] # NoTerm
  /\ ssh' = [ssh EXCEPT ![t] = NoTerm] /\ CloseAll({ssh[t]})
  /\ UNCHANGED <<disk, cookie, srv, syncing, sessions, local, jobs, workers, watch, restarts>>

-------------------------------------------------------------------------------
(* Handler.action: all of it holds job_lock, none of it web.lock. *)

Busy == Running(backend)
Go(pc) == act' = [act EXCEPT !.pc = pc]
Release == act' = NoAct

\* Mistake: the lock alone is taken to mean that no action runs.
BugTakeLock(r) ==
  /\ r \in asked /\ r.what \in Kinds /\ act = NoAct /\ asked' = asked \ {r}
  /\ act' = [NoAct EXCEPT !.pc = "choose", !.tok = r.tok, !.what = r.what]
  /\ UNCHANGED <<disk, cookie, srv, syncing, tables, term, jobs, watch, restarts>>

TakeLock(r) ==
  /\ r \in asked /\ r.what \in Kinds /\ act = NoAct /\ asked' = asked \ {r}
  /\ LET enter(pc) == act' = [NoAct EXCEPT !.pc = pc, !.tok = r.tok, !.what = r.what] IN
       IF ~Busy THEN enter("choose")
       ELSE IF job[backend] = "monitor" /\ owner = r.tok /\ r.what # "monitor"
            THEN enter("stopping")
            ELSE UNCHANGED act                    \* another action is running
  /\ UNCHANGED <<disk, cookie, srv, syncing, tables, term, jobs, watch, restarts>>

\* The browser's own monitor was interrupted; five seconds for it to end.
StopMonitor ==
  /\ act.pc = "stopping"
  /\ IF Busy THEN Release ELSE Go("choose")
  /\ UNCHANGED <<disk, cookie, srv, syncing, tables, term, jobs, asked, watch, restarts>>

\* The browser's SSH terminal, else its local one, else a new local one, which
\* may not be had.
Choose ==
  LET t == act.tok
      mine == IF ssh[t] # NoTerm THEN ssh[t]
              ELSE IF local[t] \in open THEN local[t] ELSE NoTerm
  IN
  /\ act.pc = "choose"
  /\ \/ /\ mine # NoTerm
        /\ act' = [act EXCEPT !.pc = "wait", !.x = mine]
        /\ UNCHANGED <<local, term>>
     \/ /\ mine = NoTerm /\ Unused # {}
        /\ local' = [local EXCEPT ![t] = NewTerm] /\ Spawn
        /\ act' = [act EXCEPT !.pc = "wait", !.x = NewTerm]
     \/ /\ mine = NoTerm /\ Release /\ UNCHANGED <<local, term>>
  /\ UNCHANGED <<disk, cookie, srv, syncing, sessions, ssh, jobs, asked, watch, restarts>>

\* SSHSession.request("action"): refused when the terminal is closed or busy,
\* or was not ready within five seconds.
Start ==
  /\ act.pc = "wait"
  /\ \/ /\ act.x \in open /\ ~Running(act.x)
        /\ job' = [job EXCEPT ![act.x] = act.what] /\ Go("started")
     \/ Release /\ UNCHANGED job
  /\ UNCHANGED <<open, disk, cookie, srv, syncing, tables, jobs, asked, watch, restarts>>

\* Mistake: the lock is given back before the job is published.
BugPublish ==
  /\ act.pc = "started" /\ Release
  /\ UNCHANGED <<disk, cookie, srv, syncing, tables, term, jobs, asked, watch, restarts>>

Publish ==
  /\ act.pc = "started" /\ Release
  /\ IF Running(act.x) THEN owner' = act.tok /\ backend' = act.x ELSE UNCHANGED jobs
  /\ UNCHANGED <<disk, cookie, srv, syncing, tables, term, asked, watch, restarts>>

Work == StopMonitor \/ Choose \/ Start \/ Publish

-------------------------------------------------------------------------------
(* The desktop, the package manager and the server's own restarts. *)

Renew ==
  /\ key < MaxRenewals /\ key' = key + 1
  /\ UNCHANGED <<device, cookie, srv, syncing, tables, term, jobs, workers, watch, restarts>>

\* The owner disconnects a browser, or its chosen duration is over.
Revoke(t) ==
  /\ device[t] # NoDevice /\ device' = [device EXCEPT ![t] = NoDevice]
  /\ UNCHANGED <<key, cookie, srv, syncing, tables, term, jobs, workers, watch, restarts>>

\* A package manager replaces the code.  What the watcher will find at its
\* next look: the running version ("same"), another one than last time ("new")
\* or the same other one again ("seen").
Install ==
  /\ watch \in {"same", "seen"} /\ restarts < MaxRestarts /\ watch' = "new"
  /\ UNCHANGED <<disk, cookie, srv, syncing, tables, term, jobs, workers, restarts>>

\* The running version comes back, or no version can be read for a moment.
RollBack ==
  /\ watch \in {"new", "seen"} /\ watch' = "same"
  /\ UNCHANGED <<disk, cookie, srv, syncing, tables, term, jobs, workers, restarts>>

\* Mistake: the first look does not remember what it found.
BugLook ==
  /\ watch = "seen" /\ ~Busy /\ watch' = "stop"
  /\ UNCHANGED <<disk, cookie, srv, syncing, tables, term, jobs, workers, restarts>>

\* UpdateWatch.check, every 30 s: a version seen twice stops the server once
\* nothing is busy.
Look ==
  /\ \/ watch = "new" /\ watch' = "seen"
     \/ watch = "seen" /\ ~Busy /\ watch' = "stop"
  /\ UNCHANGED <<disk, cookie, srv, syncing, tables, term, jobs, workers, restarts>>

\* The old process's threads, tables and terminals are gone; a new one reads
\* the key.
Emptied ==
  /\ srv' = key /\ sessions' = {} /\ syncing' = NoKey
  /\ local' = Empty /\ ssh' = Empty /\ open' = {} /\ job' = [x \in Terms |-> None]
  /\ owner' = Nobody /\ backend' = NoTerm /\ asked' = {} /\ act' = NoAct
  /\ restarts' = restarts + 1
  /\ UNCHANGED <<key, cookie>>

\* Mistake: a new process starts with an empty registry.
BugRestarted == Emptied /\ watch' = "same" /\ device' = [t \in Tokens |-> NoDevice]

\* Mistake: the new process still compares with the version of the old one.
BugRestartedWatch == Emptied /\ UNCHANGED <<watch, device>>

\* server_close, and the new process: Web.__init__ and Server.__init__.
Restarted ==
  /\ Emptied /\ watch' = "same"
  /\ device' = [t \in Tokens |-> IF device[t] = key THEN device[t] ELSE NoDevice]

Update == watch = "stop" /\ Restarted

\* Stopped and started by the owner, or killed and started by systemd.
Restart == restarts < MaxRestarts /\ Restarted

-------------------------------------------------------------------------------
Next ==
  \/ \E t \in Tokens : \/ Login(t) \/ Poll(t) \/ Logout(t) \/ Revoke(t)
                       \/ SshClose(t) \/ \E what \in Requests : Admit(t, what)
  \/ \E r \in asked : SshStart(r) \/ TakeLock(r)
  \/ Work
  \/ \E x \in Terms : ReaderEnds(x) \/ JobDone(x)
  \/ SyncKey \/ SyncEnd \/ SyncFails
  \/ Renew \/ Install \/ RollBack \/ Look \/ Update \/ Restart

\* Threads that can run do.  A job may wait for an answer for ever, a browser
\* may keep its terminal from being idle, and none has to ask for anything.
Fairness ==
  /\ WF_vars(Work)
  /\ \A x \in Terms : WF_vars(~Reachable(x) /\ IdleEnds(x)) /\ WF_vars(Disconnected(x))
  /\ WF_vars(Look) /\ WF_vars(Update)

Spec == Init /\ [][Next]_vars /\ Fairness

-------------------------------------------------------------------------------
\* At most one hardware action the server accepted is unfinished, whatever
\* browsers, terminals and threads it came through (action under job_lock).
OneJob == \A x, y \in Terms : Running(x) /\ Running(y) => x = y

\* Outside job_lock an unfinished action is the one the server reports and
\* its watcher waits for.
JobPublished == act = NoAct => \A x \in Terms : Running(x) => backend = x

\* A browser registered with the current key stays signed in until its owner
\* disconnects it or it signs out: no renewal seen late, restart or update
\* clears it (Server.__init__: "A restart never clears them").
TrustKept ==
  [][\A t \in Tokens : device[t] = key /\ device'[t] = NoDevice
                         => Revoke(t) \/ Logout(t)]_vars

\* An action that began is reported finished after its terminal closed, and
\* job_lock is always given back: no browser waits for ever on a dead one.
JobsSettle ==
  /\ \A x \in Terms : (Running(x) /\ x \notin open) ~> ~Running(x)
  /\ (act # NoAct) ~> (act = NoAct)

\* A terminal no signed-in browser can close any more does not stay for ever
\* unless its job does: one forgotten by a renewal, or one that a late action
\* or sign-in to SSH makes for a session that is gone.
LostTerminalsClose ==
  \A x \in Terms : (x \in open /\ ~Reachable(x)) ~> (x \notin open \/ Running(x))

\* Once the package manager leaves the version on disk alone, nothing but a
\* running job keeps a new version from being started.
UpdateTaken ==
  <>[][~Install /\ ~RollBack]_vars => []<>(watch = "same" \/ Busy)

\* What UpdateWatch says of itself: "a running hardware job is left to finish".
UpdateSparesJobs == [][Update => \A x \in Terms : ~Running(x)]_vars
===============================================================================
