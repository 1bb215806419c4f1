------------------------- MODULE SecurityInstallation -------------------------
(***************************************************************************)
(* runDependencySecurity of src/src/lib/dependency-security/runtime.ts: an *)
(* installation that resolves dependencies in a private candidate,         *)
(* publishes the lockfile together with a recovery journal, installs and   *)
(* verifies, and then removes the journal; or leaves it, FAILED or         *)
(* CLEANUP_UNVERIFIED, for the next one to find.                           *)
(*                                                                         *)
(* All published sources are one file here, bun.lock, because one          *)
(* transaction publishes and guards them together.  The lease is the lock  *)
(* of ProjectLock reduced to its owner.  A transaction of FsTransaction is *)
(* seen from outside: it checks what it depends on, takes each path with   *)
(* compare and swap, checks again, and undoes what it did on failure.      *)
(***************************************************************************)
EXTENDS Naturals, FiniteSets

CONSTANTS
  Run,         \* invocations of the installation, each with a lease of its own
  Forcers,     \* those a user starts with --force
  Version,     \* contents of bun.lock
  None,        \* no file, no owner
  Partial,     \* installed modules that agree with no lockfile
  MaxEdits,    \* bound: edits of bun.lock by the user
  MaxFaults    \* bound: I/O errors

\* The order in which a transaction visits them: the journal is staged last.
Path == {"lock", "journal"}
Status == {"INSTALLING", "FAILED", "CLEANUP_UNVERIFIED"}
\* afterLockSha256 stands for the lockfile; op for operationId and the times.
Journal == [op : Run, status : Status, after : Version \cup {None}]
Files == [lock : Version \cup {None}, journal : Journal \cup {None}]

ASSUME SecurityAssumption ==
  /\ Forcers \subseteq Run
  /\ None \notin Run \cup Version \cup Journal /\ Partial \notin Version \cup {None}
  /\ MaxEdits \in Nat /\ MaxFaults \in Nat

IsMarker(j) == j # None /\ j.status = "CLEANUP_UNVERIFIED"

VARIABLES
  file,      \* bun.lock and .ghostinit/security-installation.json
  modules,   \* the lockfile node_modules was installed from
  lease,     \* the owner of the project lock
  pc, task,  \* where a run is, and the transaction it is in or was in last
  known,     \* the files as it knows them: the snapshot, then published.guards
  tx,        \* what its transaction expects and intends, and how far it is
  stray,     \* runs whose child processes were not proven gone and go on
  marked,    \* history: markers committed and not reconciled
  orphans,   \* journals left in a container
  events,    \* history: what has happened that a command does not answer for
  edits, faults

process == <<lease, pc, task, known>>
world == <<stray, edits>>
vars == <<file, modules, process, tx, world, marked, orphans, events, faults>>

Ended == {"ok", "ended", "unsafe"}
Committing == {"begin", "ready", "take", "link", "check", "undo"}
Verifying == {"sources", "installed", "final"}
Commands == {"resolve", "lockAudit", "installing", "audit"}
Label == {"idle", "snapshot", "install"} \cup Committing \cup Verifying \cup Commands \cup Ended
Event == {"edited", "torn", "forced", "abandoned", "strayed"}

\* at is its path, done those it has published, held the file it has displaced.
Tx == [expect : Files, goal : Files, at : Path, done : SUBSET Path,
       held : Version \cup Journal \cup {None}]

TypeOK ==
  /\ file \in Files
  /\ modules \in Version \cup {None, Partial}
  /\ lease \in Run \cup {None}
  /\ pc \in [Run -> Label]
  /\ task \in [Run -> {"publish", "fail", "mark", "clear"}]
  /\ known \in [Run -> Files] /\ tx \in [Run -> Tx]
  /\ stray \subseteq Run /\ events \subseteq Event
  /\ marked \subseteq Journal /\ orphans \subseteq Journal
  /\ edits \in 0 .. MaxEdits /\ faults \in 0 .. MaxFaults

Empty == [lock |-> None, journal |-> None]
NoTx == [expect |-> Empty, goal |-> Empty, at |-> "journal", done |-> {}, held |-> None]

\* A project without a lockfile, or one that is installed.
Init ==
  /\ \E v \in Version \cup {None} : file = [Empty EXCEPT !.lock = v] /\ modules = v
  /\ lease = None /\ pc = [r \in Run |-> "idle"] /\ task = [r \in Run |-> "publish"]
  /\ known = [r \in Run |-> Empty] /\ tx = [r \in Run |-> NoTx]
  /\ stray = {} /\ marked = {} /\ orphans = {} /\ events = {} /\ edits = 0 /\ faults = 0

-----------------------------------------------------------------------------
Goto(r, l) == pc' = [pc EXCEPT ![r] = l]

\* A call that may fail for a reason of its own: e says whether it does.
Io(e) == (e => faults < MaxFaults) /\ faults' = IF e THEN faults + 1 ELSE faults

\* The call ends and what it knew is gone.
Return(r, l) ==
  Goto(r, l) /\ known' = [known EXCEPT ![r] = Empty] /\ task' = [task EXCEPT ![r] = "publish"]

\* release removes the lease if this run still owns it.
End(r, l) == Return(r, l) /\ lease' = IF lease = r THEN None ELSE lease

\* A transaction is next.
Transact(r, t) == Goto(r, "begin") /\ task' = [task EXCEPT ![r] = t] /\ UNCHANGED <<lease, known>>

\* The run goes on to l.
Step(r, l) == Goto(r, l) /\ UNCHANGED <<lease, task, known>>

-----------------------------------------------------------------------------
(* From the lease to the plan                                               *)

\* acquireLock: a marker bars every run; otherwise the lease is free, or its
\* owner's process has ended and it goes stale, or it is taken by force.
Acquire(r) ==
  /\ pc[r] = "idle" /\ ~IsMarker(file.journal)
  /\ lease \in {None} \cup {q \in Run : pc[q] \in Ended \/ r \in Forcers}
  /\ lease' = r /\ Goto(r, "snapshot")
  /\ events' = IF lease # None /\ pc[lease] \notin Ended THEN events \cup {"forced"} ELSE events
  /\ UNCHANGED <<file, modules, task, known, tx, world, marked, orphans, faults>>

\* parseSecurityInstallationJournal: a retry needs the lockfile the incomplete
\* installation published.
Retriable(f) ==
  f.journal # None => ~IsMarker(f.journal) /\ f.lock # None /\ f.journal.after = f.lock

\* snapshotSecurityWorkspace; without a lockfile only a bootstrap goes on.
Snapshot(r) ==
  /\ pc[r] = "snapshot"
  /\ \/ /\ Retriable(file) /\ Goto(r, "resolve")
        /\ known' = [known EXCEPT ![r] = file] /\ UNCHANGED <<lease, task>>
     \/ (Retriable(file) => file.lock = None) /\ End(r, "ended")
  /\ UNCHANGED <<file, modules, tx, world, marked, orphans, events, faults>>

\* The commands in the candidate end with a plan, or with a failure or findings
\* that block, or without a cleanup receipt.
Resolve(r) ==
  /\ pc[r] = "resolve"
  /\ \/ Transact(r, "publish") /\ UNCHANGED stray
     \/ End(r, "ended") /\ UNCHANGED stray
     \/ Transact(r, "mark") /\ stray' = stray \cup {r}
  /\ UNCHANGED <<file, modules, tx, edits, marked, orphans, events, faults>>

-----------------------------------------------------------------------------
(* The four transactions                                                    *)

\* publishSecuritySources and clearSecurityJournal guard the lockfile with what
\* the run knows of it, retainUnverifiedCleanupJournal with what it reads now;
\* retainFailedSecurityJournal does not.
Expected(r) ==
  IF task[r] \in {"publish", "clear"} THEN known[r] ELSE [known[r] EXCEPT !.lock = file.lock]

\* Mutant: the journal names the lockfile from before the publication.
InstallingStale(r, v) == [op |-> r, status |-> "INSTALLING", after |-> file.lock]

\* installationJournalContent
Installing(r, v) == [op |-> r, status |-> "INSTALLING", after |-> v]

\* Mutant: a marker where there was no journal has no operation.
MarkerAnonymous(r, j) ==
  [op |-> IF j = None THEN None ELSE j.op, status |-> "CLEANUP_UNVERIFIED", after |-> file.lock]

\* retainUnverifiedCleanupJournal, over the journal j
Marker(r, j) ==
  [op |-> IF j = None THEN r ELSE j.op, status |-> "CLEANUP_UNVERIFIED", after |-> file.lock]

\* What the transaction wants to be there; v is the lockfile of the repair plan.
Intended(r, v) ==
  CASE task[r] = "publish" -> [lock |-> v, journal |-> Installing(r, v)]
    [] task[r] = "fail" -> [Expected(r) EXCEPT !.journal.status = "FAILED"]
    [] task[r] = "mark" -> [Expected(r) EXCEPT !.journal = Marker(r, @)]
    [] task[r] = "clear" -> [Expected(r) EXCEPT !.journal = None]

\* assertUnchanged of the lease and of the sources, and the journal.
Holds(r, f) ==
  lease = r /\ (task[r] # "fail" => file.lock = f.lock) /\ file.journal = f.journal

\* The caller goes on, or its catch clause takes over.  A journal that cannot be
\* written is given up; after an unverified cleanup the lease is kept.
Finish(r, ok) ==
  /\ CASE task[r] = "publish" /\ ok ->
            Goto(r, "sources") /\ known' = [known EXCEPT ![r] = tx[r].goal]
            /\ UNCHANGED <<lease, task>>
       [] task[r] = "publish" /\ ~ok -> End(r, "ended")
       [] task[r] = "clear" -> IF ok THEN End(r, "ok") ELSE Transact(r, "fail")
       [] task[r] = "fail" -> End(r, "ended")
       [] task[r] = "mark" -> Return(r, "unsafe") /\ UNCHANGED lease
  /\ marked' = IF task[r] = "mark" /\ ok THEN marked \cup {tx[r].goal.journal} ELSE marked
  /\ tx' = [tx EXCEPT ![r] = NoTx]

\* The next path it changes: the journal was staged last.
NextPath(ps) == IF "lock" \in ps THEN "lock" ELSE "journal"
Changed(t) == {p \in Path : t.goal[p] # t.expect[p]}

\* Staging, and the check of the dependencies before the first file is touched.
TxBegin(r, e) ==
  /\ pc[r] = "begin" /\ Io(e)
  /\ IF ~e /\ Holds(r, Expected(r))
     THEN /\ \E v \in Version :
               LET t == [NoTx EXCEPT !.expect = Expected(r), !.goal = Intended(r, v)]
               IN tx' = [tx EXCEPT ![r] = [t EXCEPT !.at = NextPath(Changed(t))]]
          /\ Step(r, "ready") /\ UNCHANGED marked
     ELSE Finish(r, FALSE)
  /\ UNCHANGED <<file, modules, world, orphans, events>>

\* assertStagedWriteReady, assertDeleteUnchanged
Ready(r, e) ==
  /\ pc[r] = "ready" /\ Io(e)
  /\ LET p == tx[r].at IN
     Step(r, IF e \/ file[p] # tx[r].expect[p] THEN "undo"
             ELSE IF tx[r].expect[p] = None THEN "link" ELSE "take")
  /\ UNCHANGED <<file, modules, tx, world, marked, orphans, events>>

\* quarantineCurrentFile takes whatever is at the path by now.
Take(r, e) ==
  /\ pc[r] = "take" /\ Io(e)
  /\ LET p == tx[r].at IN
     IF e \/ file[p] = None
     THEN Step(r, "undo") /\ UNCHANGED <<file, tx>>
     ELSE /\ tx' = [tx EXCEPT ![r].held = file[p]]
          /\ file' = [file EXCEPT ![p] = None]
          /\ Step(r, "link")
  /\ UNCHANGED <<modules, world, marked, orphans, events>>

\* The path is published; what was displaced is discarded.
Published(r, p) ==
  LET rest == Changed(tx[r]) \ (tx[r].done \cup {p}) IN
  /\ file' = [file EXCEPT ![p] = IF tx[r].goal[p] = None THEN @ ELSE tx[r].goal[p]]
  /\ tx' = [tx EXCEPT ![r].done = @ \cup {p}, ![r].held = None, ![r].at = NextPath(rest)]
  /\ Step(r, IF rest = {} THEN "check" ELSE "ready") /\ UNCHANGED <<orphans, events>>

\* putBackQuarantined: the displaced file goes back, or stays in its container
\* when the path is taken or the call fails.
PutBack(r, p, e) ==
  /\ \/ /\ file[p] = None /\ file' = [file EXCEPT ![p] = tx[r].held]
        /\ UNCHANGED <<orphans, events>>
     \/ /\ tx[r].held # None /\ (file[p] = None => e) /\ UNCHANGED file
        /\ orphans' = orphans \cup ({tx[r].held} \cap Journal)
        /\ events' = events \cup {"torn"}
     \/ tx[r].held = None /\ file[p] # None /\ UNCHANGED <<file, orphans, events>>
  /\ tx' = [tx EXCEPT ![r].held = None] /\ Step(r, "undo")

\* Mutant: the displaced file is not compared with what is expected.
LinkBlind(r, e) ==
  /\ pc[r] = "link" /\ Io(e)
  /\ LET p == tx[r].at IN
     IF ~e /\ (tx[r].goal[p] # None => file[p] = None)
     THEN Published(r, p) ELSE PutBack(r, p, e)
  /\ UNCHANGED <<modules, world, marked>>

\* quarantineExpectedFile compares; then the new file is linked in, or nothing
\* is when the path is to be deleted.
Link(r, e) ==
  /\ pc[r] = "link" /\ Io(e)
  /\ LET p == tx[r].at IN
     IF ~e /\ tx[r].held = tx[r].expect[p] /\ (tx[r].goal[p] # None => file[p] = None)
     THEN Published(r, p) ELSE PutBack(r, p, e)
  /\ UNCHANGED <<modules, world, marked>>

\* assertReadDependencies(afterPublication)
TxCheck(r, e) ==
  /\ pc[r] = "check" /\ Io(e)
  /\ IF ~e /\ Holds(r, tx[r].goal) THEN Finish(r, TRUE)
     ELSE Step(r, "undo") /\ UNCHANGED <<tx, marked>>
  /\ UNCHANGED <<file, modules, world, orphans, events>>

\* Mutant: only the path published last is undone.
TxUndoLast(r, e) ==
  /\ pc[r] = "undo" /\ tx[r].done # {} /\ Io(e)
  /\ LET p == IF "journal" \in tx[r].done THEN "journal" ELSE "lock" IN
     /\ tx' = [tx EXCEPT ![r].done = {}]
     /\ file' = [file EXCEPT ![p] = IF ~e /\ @ = tx[r].goal[p] THEN tx[r].expect[p] ELSE @]
     /\ events' = IF file'[p] = tx[r].expect[p] THEN events ELSE events \cup {"torn"}
  /\ UNCHANGED <<modules, process, world, marked, orphans>>

\* rollbackOperations: the last path first, and only what is still as published.
TxUndo(r, e) ==
  /\ pc[r] = "undo" /\ tx[r].done # {} /\ Io(e)
  /\ LET p == IF "journal" \in tx[r].done THEN "journal" ELSE "lock" IN
     /\ tx' = [tx EXCEPT ![r].done = @ \ {p}]
     /\ file' = [file EXCEPT ![p] = IF ~e /\ @ = tx[r].goal[p] THEN tx[r].expect[p] ELSE @]
     /\ events' = IF file'[p] = tx[r].expect[p] THEN events ELSE events \cup {"torn"}
  /\ UNCHANGED <<modules, process, world, marked, orphans>>

TxFailed(r) ==
  /\ pc[r] = "undo" /\ tx[r].done = {} /\ Finish(r, FALSE)
  /\ UNCHANGED <<file, modules, world, orphans, events, faults>>

Transaction(r) ==
  \/ TxFailed(r)
  \/ \E e \in BOOLEAN :
       TxBegin(r, e) \/ Ready(r, e) \/ Take(r, e) \/ Link(r, e) \/ TxCheck(r, e) \/ TxUndo(r, e)

-----------------------------------------------------------------------------
(* Installation and verification                                            *)

\* verifyFinalSources: the lease, the lockfile and the journal are those of the
\* publication.
Verify(r, e) ==
  /\ pc[r] \in Verifying /\ Io(e)
  /\ IF e \/ lease # r \/ file # known[r] THEN Transact(r, "fail")
     ELSE CASE pc[r] = "sources" -> Step(r, "lockAudit")
            [] pc[r] = "installed" -> Step(r, "audit")
            [] pc[r] = "final" -> Transact(r, "clear")
  /\ UNCHANGED <<file, modules, tx, world, marked, orphans, events>>

\* Mutant: a missing receipt is taken for an ordinary failure.
CommandFailsPlainly(r) ==
  /\ pc[r] \in Commands \ {"resolve"}
  /\ Transact(r, "fail") /\ stray' \in {stray, stray \cup {r}}
  /\ UNCHANGED <<file, modules, tx, edits, marked, orphans, events, faults>>

\* A command in the project may fail, or end without a cleanup receipt.
CommandFails(r) ==
  /\ pc[r] \in Commands \ {"resolve"}
  /\ \/ Transact(r, "fail") /\ UNCHANGED stray
     \/ Transact(r, "mark") /\ stray' = stray \cup {r}
  /\ UNCHANGED <<file, modules, tx, edits, marked, orphans, events, faults>>

\* bun audit-dependencies.ts --lock-only
LockAudit(r) ==
  /\ pc[r] = "lockAudit" /\ Step(r, "install")
  /\ UNCHANGED <<file, modules, tx, world, marked, orphans, events, faults>>

\* bun install --frozen-lockfile: while it runs the modules are of no lockfile.
StartInstall(r) ==
  /\ pc[r] = "install" /\ Step(r, "installing") /\ modules' = Partial
  /\ UNCHANGED <<file, tx, world, marked, orphans, events, faults>>

EndInstall(r) ==
  /\ pc[r] = "installing" /\ file.lock # None /\ Step(r, "installed")
  /\ modules' = IF \E q \in Run \ {r} : pc[q] = "installing" THEN Partial ELSE file.lock
  /\ UNCHANGED <<file, tx, world, marked, orphans, events, faults>>

\* Mutant: the installed modules are not compared with the lockfile.
AuditBlind(r) ==
  /\ pc[r] = "audit" /\ Step(r, "final")
  /\ UNCHANGED <<file, modules, tx, world, marked, orphans, events, faults>>

\* The canonical verifier accepts what is installed from the lockfile.
Audit(r) ==
  /\ pc[r] = "audit" /\ modules = file.lock /\ Step(r, "final")
  /\ UNCHANGED <<file, modules, tx, world, marked, orphans, events, faults>>

Installation(r) ==
  \/ CommandFails(r) \/ LockAudit(r) \/ StartInstall(r) \/ EndInstall(r) \/ Audit(r)
  \/ \E e \in BOOLEAN : Verify(r, e)

-----------------------------------------------------------------------------
(* The death of a run, its children, and the user                           *)

\* Its children may survive it.  What it was doing to the files is left undone.
Kill(r) ==
  /\ pc[r] \notin Ended \cup {"idle"} /\ Return(r, "ended")
  /\ stray' \in {stray, IF pc[r] \in Commands THEN stray \cup {r} ELSE stray}
  /\ events' = events \cup (IF pc[r] \in Committing THEN {"torn"} ELSE {})
                      \cup (IF r \in stray' THEN {"abandoned"} ELSE {})
  /\ orphans' = orphans \cup ({tx[r].held} \cap Journal)
  /\ tx' = [tx EXCEPT ![r] = NoTx]
  /\ UNCHANGED <<file, modules, lease, edits, marked, faults>>

\* A surviving child goes on writing, or ends.
StrayWrite(r) ==
  /\ r \in stray /\ modules' = Partial /\ events' = events \cup {"strayed"}
  /\ UNCHANGED <<file, process, tx, world, marked, orphans, faults>>

StrayEnds(r) ==
  /\ r \in stray /\ stray' = stray \ {r}
  /\ UNCHANGED <<file, modules, process, tx, edits, marked, orphans, events, faults>>

EditLock ==
  /\ edits < MaxEdits /\ edits' = edits + 1
  /\ \E v \in (Version \cup {None}) \ {file.lock} : file' = [file EXCEPT !.lock = v]
  /\ events' = events \cup {"edited"}
  /\ UNCHANGED <<modules, process, tx, stray, marked, orphans, faults>>

\* The user has seen to it that no child is left, and removes the journal.
Reconcile ==
  /\ file.journal # None /\ stray = {}
  /\ file' = [file EXCEPT !.journal = None] /\ marked' = marked \ {file.journal}
  /\ events' = events \cup {"edited"}
  /\ UNCHANGED <<modules, process, tx, world, orphans, faults>>

Finished == (\A r \in Run : pc[r] \in Ended) /\ UNCHANGED vars

Next ==
  \/ \E r \in Run :
       \/ Acquire(r) \/ Snapshot(r) \/ Resolve(r) \/ Transaction(r) \/ Installation(r)
       \/ Kill(r) \/ StrayWrite(r) \/ StrayEnds(r)
  \/ EditLock \/ Reconcile \/ Finished

Spec == Init /\ [][Next]_vars

-----------------------------------------------------------------------------
(* Properties                                                               *)

Quiet == \A r \in Run : pc[r] \in Ended \cup {"idle"}

\* What the comment on the release in runDependencySecurity says: while unknown
\* descendants may still write, the lease is not open for another mutation.
NeverOpened == \A r \in Run : pc[r] = "unsafe" /\ r \in stray => lease = r

\* It holds where no I/O error and no edit kept the marker from being written, no
\* running command was taken over and none was killed before it could write it:
\* whatever a command had published by then.
BarrierStands ==
  faults = 0 /\ events \cap {"edited", "forced", "abandoned"} = {} =>
    \A r \in stray : lease = r

\* A committed marker is not destroyed by any run, not even by one that lost its
\* lease in the middle of a transaction: it is at its path or in a container.
MarkerKept ==
  \A m \in marked : m = file.journal \/ m \in orphans \/ \E r \in Run : tx[r].held = m

\* When no command is running, modules that were not installed from the lockfile
\* are announced by a journal, through any I/O error and any kill outside a
\* transaction.
IncompleteRecorded ==
  Quiet /\ events = {} => modules = file.lock \/ file.journal # None

\* A journal that is left is one the next run accepts, or a marker: it names the
\* lockfile that is there.
Retryable ==
  Quiet /\ events \cap {"edited", "torn", "forced"} = {} =>
    Retriable(file) \/ IsMarker(file.journal)

\* A run that removes its journal and reports success leaves the lockfile of its
\* plan installed, whatever was edited meanwhile.  (Four edits that alternate
\* with the two comparisons and the audit could deceive it.)
ClearedMeansInstalled ==
  [][\A r \in Run :
       pc[r] # "ok" /\ pc'[r] = "ok" /\ events \cap {"forced", "strayed"} = {} /\ edits < 4 =>
         file'.lock = known[r].lock /\ modules' = known[r].lock /\ file'.journal = None]_vars
=============================================================================
