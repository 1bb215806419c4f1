---------------------------- MODULE CreateProject ----------------------------
(***************************************************************************)
(* create and init (src/src/commands/create/installer.ts): every command   *)
(* line generates, installs, formats and verifies a project, with all      *)
(* external commands below the supervisor, and either publishes a private  *)
(* candidate at an absent target, builds inside of an existing empty root, *)
(* or merges a private candidate into a root that has files.               *)
(*                                                                         *)
(* A commit or a rollback of FsTransaction, a save of the state and a      *)
(* change of the security journal are one step each; they either succeed   *)
(* or change nothing.  All command lines have the same target.             *)
(***************************************************************************)
EXTENDS ProcessSupervisor

CONSTANT Nobody   \* no command line

ASSUME CreateAssumption == IsFiniteSet(Cli) /\ Nobody \notin Cli /\ MaxFaults \in [Cli -> Nat]

VARIABLES
  pc,           \* what each command line does next
  kind,         \* how it builds: "publish", "inplace" or "merge"
  cand,         \* its private candidate
  native,       \* the lifecycles whose native installation was prepared
  wrote,        \* the ones whose own transaction on the target is committed
  secrets,      \* the ones that have materialized secrets
  before,       \* what its own transaction replaced at the target
  reported,     \* the ones that told the user of files they left behind
  target,       \* the target directory: "absent", "empty" or "files"
  project,      \* whose generated files are in the target
  state,        \* who saved the target's state.json
  journal,      \* the target's security journal
  author,       \* the command line that wrote the journal
  lock,         \* who holds the lock of the target
  verified      \* ghost: the ones whose commands, if any are wanted, have succeeded

root == <<target, project, state, journal, author, lock>>
client == <<kind, cand, native, wrote, secrets, before, reported, verified>>
vars == <<supervisor, faults, pc, client, root>>

\* The external commands in their order: those of SecurityCommandRunner, and
\* those of runInstallerCommand.  The files are formatted in batches; two of
\* them stand for any number, and a plan may need none.
Commands == {"resolve", "lockAudit", "install", "format", "nextBatch", "typecheck"}
Unconfined == {"format", "nextBatch", "typecheck"}
Ended == {"refused", "done", "failed", "kept", "unsafe", "killed"}
Label == {"look", "lock", "generate", "sources", "merge", "secrets", "save", "complete",
          "check", "rename", "discard", "finish", "fail", "rollback", "giveUp", "clear"}

Target == {"absent", "empty", "files"}
Journal == {"none", "installing", "failed", "marker"}

TypeOK ==
  /\ SupervisorTypeOK
  /\ pc \in [Cli -> Label \cup Commands \cup Ended]
  /\ kind \in [Cli -> {"publish", "inplace", "merge"}]
  /\ cand \in [Cli -> {"none", "building", "complete"}]
  /\ native \subseteq Cli /\ wrote \subseteq Cli /\ secrets \subseteq Cli
  /\ before \in [Cli -> [project : Cli \cup {Nobody}, target : Target,
                       journal : Journal, author : Cli \cup {Nobody}]]
  /\ reported \subseteq Cli /\ verified \subseteq Cli
  /\ target \in Target
  /\ project \in Cli \cup {Nobody} /\ state \in Cli \cup {Nobody}
  /\ journal \in Journal /\ author \in Cli \cup {Nobody}
  /\ lock \in Cli \cup {Nobody}

Init ==
  /\ SupervisorInit
  /\ pc = [p \in Cli |-> "look"] /\ kind = [p \in Cli |-> "publish"]
  /\ cand = [p \in Cli |-> "none"] /\ native = {} /\ wrote = {} /\ secrets = {}
  /\ before = [p \in Cli |-> [project |-> Nobody, target |-> "absent",
                              journal |-> "none", author |-> Nobody]]
  /\ reported = {} /\ verified = {}
  /\ target \in Target
  /\ project = Nobody /\ state = Nobody /\ journal = "none" /\ author = Nobody /\ lock = Nobody

Go(p, label) == pc' = [pc EXCEPT ![p] = label]

\* A step either takes the first way, or fails as one of the bounded faults.
OrFails(p, label) ==
  \/ Go(p, label) /\ UNCHANGED faults
  \/ Go(p, "fail") /\ Fault(p)

Private(p) == kind[p] # "inplace"
Vacant == target # "files" /\ project = Nobody /\ state = Nobody /\ lock = Nobody

-----------------------------------------------------------------------------
(* Before the first command. *)

\* privateCandidateRoot, and the refusal of a target that is not vacant.  This
\* is before the lock is taken.
Look(p) ==
  /\ pc[p] = "look"
  /\ \/ /\ target = "absent"
        /\ kind' = [kind EXCEPT ![p] = "publish"]
        /\ cand' = [cand EXCEPT ![p] = "building"] /\ Go(p, "generate")
     \/ /\ target # "absent" /\ Vacant
        /\ kind' = [kind EXCEPT ![p] = "inplace"]
        /\ Go(p, "lock") /\ UNCHANGED cand
     \/ /\ target # "absent" /\ ~Vacant
        /\ kind' = [kind EXCEPT ![p] = "merge"]
        /\ cand' = [cand EXCEPT ![p] = "building"] /\ Go(p, "lock")
     \/ target # "absent" /\ Go(p, "refused") /\ UNCHANGED <<kind, cand>>
  /\ UNCHANGED <<supervisor, faults, native, wrote, secrets, before, reported, verified, root>>

\* acquireLock on the root that is written in the end.  The lock of a candidate
\* that is to be published has nobody to keep out.  Without the lock the
\* candidate is discarded, and it is not an error if that fails.
Lock(p) ==
  /\ pc[p] = "lock"
  /\ IF lock = Nobody /\ journal # "marker"
     THEN lock' = p /\ Go(p, "generate") /\ UNCHANGED <<cand, faults>>
     ELSE /\ Go(p, "refused") /\ UNCHANGED lock
          /\ \/ cand' = [cand EXCEPT ![p] = "none"] /\ UNCHANGED faults
             \/ Private(p) /\ Fault(p) /\ UNCHANGED cand
  /\ UNCHANGED <<supervisor, kind, native, wrote, secrets, before, reported, verified,
                 target, project, state, journal, author>>

\* The files of p are committed to the target.
Commit(p) ==
  /\ project' = p /\ wrote' = wrote \cup {p} /\ target' = "files"
  /\ before' = [before EXCEPT ![p] =
                  [project |-> project, target |-> target,
                   journal |-> journal, author |-> author]]

\* candidateTx, then the installation unless --no-install was given; in place
\* that wants no state and no journal of an installation.
Generate(p) ==
  /\ pc[p] = "generate"
  /\ \/ /\ IF Private(p) THEN UNCHANGED <<project, wrote, target, before>> ELSE Commit(p)
        /\ \/ /\ Go(p, IF Private(p) \/ (journal = "none" /\ state = Nobody)
                     THEN "resolve" ELSE "fail")
              /\ UNCHANGED verified
           \/ /\ Go(p, IF kind[p] = "merge" THEN "merge" ELSE "secrets")
              /\ verified' = verified \cup {p}
        /\ UNCHANGED faults
     \/ Go(p, "fail") /\ Fault(p) /\ UNCHANGED <<project, wrote, target, before, verified>>
  /\ UNCHANGED <<supervisor, kind, cand, native, secrets, reported, state, journal, author, lock>>

-----------------------------------------------------------------------------
(* The external commands. *)

\* The next command line below the supervisor.
Begin(p) ==
  /\ pc[p] \in Commands /\ call[p] = "none"
  /\ Spawn(p)
  /\ UNCHANGED <<pc, client, root>>

\* publishSecuritySources; in a candidate its journal is nobody's concern.
PublishSources(p) ==
  /\ pc[p] = "sources"
  /\ \/ /\ Go(p, "lockAudit")
        /\ IF Private(p) THEN UNCHANGED <<journal, author>>
                         ELSE journal' = "installing" /\ author' = p
        /\ UNCHANGED faults
     \/ Go(p, "fail") /\ Fault(p) /\ UNCHANGED <<journal, author>>
  /\ UNCHANGED <<supervisor, client, target, project, state, lock>>

\* What the caller makes of a settled call: SecurityCommandRunner.run wants
\* cleanup verified, no signal and no error; runInstallerCommand only no error.
Unsafe(p) ==
  \/ verdict[p] = "tree"
  \/ verdict[p] = "containment" /\ pc[p] \notin Unconfined
Succeeded(p) == verdict[p] = "ok" /\ (pc[p] \in Unconfined \/ p \notin signalled)

Settled(p) == pc[p] \in Commands /\ call[p] = "settled"
Return(p) == Forget(p) /\ UNCHANGED <<windows, guard, writers, interrupted>>

\* What comes after a command that succeeded.
Following(p) ==
  CASE pc[p] = "resolve" -> {"sources"}
    [] pc[p] = "lockAudit" -> {"install"}
    [] pc[p] = "install" -> {"format", "typecheck"}
    [] pc[p] = "format" -> {"nextBatch", "typecheck"}
    [] pc[p] = "nextBatch" -> {"typecheck"}
    [] pc[p] = "typecheck" -> {IF kind[p] = "merge" THEN "merge" ELSE "secrets"}

\* Mutant: the journal of a creation is cleared with the installation.
ProceedClears(p) ==
  /\ Settled(p) /\ Succeeded(p) /\ Return(p)
  /\ \E label \in Following(p) : Go(p, label)
  /\ native' = IF pc[p] = "lockAudit" /\ ~Private(p) THEN native \cup {p} ELSE native
  /\ verified' = IF pc[p] = "typecheck" THEN verified \cup {p} ELSE verified
  /\ journal' = IF pc[p] = "install" /\ ~Private(p) THEN "none" ELSE journal
  /\ UNCHANGED <<faults, kind, cand, wrote, secrets, before, reported, target, project, state,
                 author, lock>>

\* The command succeeded.  After the audit of the published lock the native
\* installation of an empty root is prepared (beforeProjectInstall).
Proceed(p) ==
  /\ Settled(p) /\ Succeeded(p) /\ Return(p)
  /\ \E label \in Following(p) : Go(p, label)
  /\ native' = IF pc[p] = "lockAudit" /\ ~Private(p) THEN native \cup {p} ELSE native
  /\ verified' = IF pc[p] = "typecheck" THEN verified \cup {p} ELSE verified
  /\ UNCHANGED <<faults, kind, cand, wrote, secrets, before, reported, root>>

\* The journal of an installation in place; a change of it may fail.
Mark(p, status) ==
  IF ~Private(p)
  THEN \/ journal' = status /\ author' = p /\ UNCHANGED faults
       \/ Fault(p) /\ UNCHANGED <<journal, author>>
  ELSE UNCHANGED <<journal, author, faults>>

\* The command failed, and its process tree is gone.
CommandFails(p) ==
  /\ Settled(p) /\ ~Succeeded(p) /\ ~Unsafe(p) /\ Return(p)
  /\ Go(p, "fail")
  /\ IF pc[p] \in {"lockAudit", "install"} THEN Mark(p, "failed")
     ELSE UNCHANGED <<journal, author, faults>>
  /\ UNCHANGED <<client, target, project, state, lock>>

\* Nothing is known of the process tree: the lease is retained, everything is
\* left as it is, and the command line ends.
Retain(p) ==
  /\ Settled(p) /\ Unsafe(p) /\ Return(p)
  /\ Go(p, "unsafe")
  /\ Mark(p, "marker")
  /\ UNCHANGED <<client, target, project, state, lock>>

-----------------------------------------------------------------------------
(* Finalization. *)

\* effectTx: the prepared files are committed to the locked destination.
Merge(p) ==
  /\ pc[p] = "merge"
  /\ \/ Commit(p) /\ Go(p, "secrets") /\ UNCHANGED faults
     \/ Go(p, "fail") /\ Fault(p) /\ UNCHANGED <<project, wrote, target, before>>
  /\ UNCHANGED <<supervisor, kind, cand, native, secrets, reported, verified,
                 state, journal, author, lock>>

\* The secrets rewrite some of the generated files, if the plan has any.
Materialize(p) ==
  /\ pc[p] = "secrets"
  /\ \/ Go(p, "save") /\ secrets' = secrets \cup {p} /\ UNCHANGED faults
     \/ Go(p, "save") /\ UNCHANGED <<secrets, faults>>
     \/ Go(p, "fail") /\ Fault(p) /\ UNCHANGED secrets
  /\ UNCHANGED <<supervisor, kind, cand, native, wrote, before, reported, verified, root>>

\* loadState, validateStateCompatibility and saveState.
SaveState(p) ==
  /\ pc[p] = "save"
  /\ \/ /\ Go(p, IF p \in native THEN "complete"
                 ELSE CASE kind[p] = "publish" -> "check" [] kind[p] = "merge" -> "discard"
                        [] OTHER -> "finish")
        /\ IF kind[p] = "publish"
           THEN cand' = [cand EXCEPT ![p] = "complete"] /\ UNCHANGED state
           ELSE state' = p /\ UNCHANGED cand
        /\ UNCHANGED faults
     \/ /\ Go(p, "fail") /\ UNCHANGED <<cand, state>>
        /\ IF state # Nobody /\ kind[p] # "publish" THEN UNCHANGED faults ELSE Fault(p)
  /\ UNCHANGED <<supervisor, kind, native, wrote, secrets, before, reported, verified,
                 target, project, journal, author, lock>>

\* completion.complete clears the journal if all that was published, generated
\* and saved is unchanged.
CompleteNative(p) ==
  /\ pc[p] = "complete"
  /\ \/ journal' = "none" /\ author' = Nobody /\ Go(p, "finish") /\ UNCHANGED faults
     \/ Go(p, "fail") /\ Fault(p) /\ UNCHANGED <<journal, author>>
  /\ UNCHANGED <<supervisor, client, target, project, state, lock>>

\* The candidate's lock is released, and the target is looked at again.
CheckTarget(p) ==
  /\ pc[p] = "check"
  /\ IF target = "absent" THEN OrFails(p, "rename") ELSE Go(p, "fail") /\ UNCHANGED faults
  /\ UNCHANGED <<supervisor, client, root>>

\* rename: it replaces an empty directory on POSIX, and fails on any other.
Rename(p) ==
  /\ pc[p] = "rename"
  /\ \/ /\ target = "absent" \/ (target = "empty" /\ Vacant /\ ~windows)
        /\ target' = "files" /\ project' = p /\ state' = p
        /\ cand' = [cand EXCEPT ![p] = "none"] /\ Go(p, "done")
        /\ UNCHANGED faults
     \/ /\ IF target = "absent" THEN Fault(p) ELSE UNCHANGED faults
        /\ Go(p, "fail") /\ UNCHANGED <<target, project, state, cand>>
  /\ UNCHANGED <<supervisor, kind, native, wrote, secrets, before, reported, verified,
                 journal, author, lock>>

\* A merged candidate is discarded.
Discard(p) ==
  /\ pc[p] = "discard"
  /\ \/ cand' = [cand EXCEPT ![p] = "none"] /\ Go(p, "finish") /\ UNCHANGED faults
     \/ Go(p, "fail") /\ Fault(p) /\ UNCHANGED cand
  /\ UNCHANGED <<supervisor, kind, native, wrote, secrets, before, reported, verified, root>>

\* safeRelease; a release that fails leaves a lock that goes stale.
Release(p) ==
  \/ lock' = (IF lock = p THEN Nobody ELSE lock) /\ UNCHANGED faults
  \/ lock = p /\ Fault(p) /\ UNCHANGED lock

Finish(p) ==
  /\ pc[p] = "finish"
  /\ Release(p) /\ Go(p, IF lock' = p THEN "kept" ELSE "done")
  /\ UNCHANGED <<supervisor, client, target, project, state, journal, author>>

-----------------------------------------------------------------------------
(* The catch block. *)

\* Mutant: a native installation is rolled back like any other.
FailRollsBack(p) ==
  /\ pc[p] = "fail" /\ Go(p, "rollback")
  /\ UNCHANGED <<supervisor, faults, client, root>>

\* preserveAfterNativeStart: a native installation that was attempted keeps its
\* files and its journal; everything else is rolled back.
Fail(p) ==
  /\ pc[p] = "fail"
  /\ IF p \in native
     THEN Go(p, "giveUp") /\ reported' = reported \cup {p} /\ Mark(p, "failed")
     ELSE Go(p, "rollback") /\ UNCHANGED <<reported, journal, author, faults>>
  /\ UNCHANGED <<supervisor, kind, cand, native, wrote, secrets, before, verified,
                 target, project, state, lock>>

\* Mutant: only the files are rolled back, not the security transactions.
RollbackFiles(p) ==
  /\ pc[p] = "rollback"
  /\ \/ /\ p \in wrote /\ p \notin secrets
        /\ project' = before[p].project /\ wrote' = wrote \ {p} /\ Go(p, "clear")
        /\ UNCHANGED <<reported, faults>>
     \/ /\ p \in wrote /\ (IF p \in secrets THEN UNCHANGED faults ELSE Fault(p))
        /\ reported' = reported \cup {p} /\ Go(p, "giveUp") /\ UNCHANGED <<project, wrote>>
     \/ p \notin wrote /\ Go(p, "clear") /\ UNCHANGED <<project, wrote, reported, faults>>
  /\ UNCHANGED <<supervisor, kind, cand, native, secrets, before, verified,
                 target, state, journal, author, lock>>

\* rollbackTransactions: the security transactions of an empty root, the last
\* one first, and its files, or the files of a merge.  A path that fails, or
\* holds a secret, is reported; then no candidate is discarded.
Rollback(p) ==
  /\ pc[p] = "rollback"
  /\ \/ /\ p \in wrote /\ p \notin secrets
        /\ project' = before[p].project /\ wrote' = wrote \ {p}
        /\ IF Private(p) THEN UNCHANGED <<journal, author>>
                         ELSE journal' = before[p].journal /\ author' = before[p].author
        /\ target' \in {before[p].target, "files"}
        /\ Go(p, "clear") /\ UNCHANGED <<reported, faults>>
     \/ /\ p \in wrote /\ (IF p \in secrets THEN UNCHANGED faults ELSE Fault(p))
        /\ reported' = reported \cup {p} /\ Go(p, "giveUp")
        /\ UNCHANGED <<project, wrote, journal, author, target>>
     \/ /\ p \notin wrote /\ Go(p, "clear")
        /\ UNCHANGED <<project, wrote, journal, author, target, reported, faults>>
  /\ UNCHANGED <<supervisor, kind, cand, native, secrets, before, verified, state, lock>>

\* The error is thrown as it is; finally releases the lock.
GiveUp(p) ==
  /\ pc[p] = "giveUp"
  /\ Release(p) /\ Go(p, IF p \in native THEN "kept" ELSE "failed")
  /\ UNCHANGED <<supervisor, client, target, project, state, journal, author>>

\* The lock is released and the private candidate is discarded.
Clear(p) ==
  /\ pc[p] = "clear"
  /\ \/ /\ Release(p) /\ cand' = [cand EXCEPT ![p] = "none"] /\ UNCHANGED reported
     \/ /\ cand[p] # "none" /\ Fault(p) /\ lock' = (IF lock = p THEN Nobody ELSE lock)
        /\ reported' = reported \cup {p} /\ UNCHANGED cand
  /\ Go(p, "failed")
  /\ UNCHANGED <<supervisor, kind, native, wrote, secrets, before, verified,
                 target, project, state, journal, author>>

-----------------------------------------------------------------------------
(* The world around. *)

\* A process is killed, by a signal too when no call is there to receive it.
Kill(p) ==
  /\ pc[p] \notin Ended \cup {"look"} /\ Fault(p)
  /\ Go(p, "killed") /\ Forget(p)
  /\ UNCHANGED <<windows, guard, writers, interrupted, client, root>>

\* The lease of a process that is gone goes stale, and the next one takes it.
Lapse ==
  /\ lock # Nobody /\ pc[lock] \in Ended
  /\ lock' = Nobody
  /\ UNCHANGED <<supervisor, faults, pc, client, target, project, state, journal, author>>

\* The user makes the directory, or writes files into it.
UserActs ==
  /\ \/ target = "absent" /\ target' = "empty"
     \/ target = "empty" /\ target' = "files"
  /\ UNCHANGED <<supervisor, faults, pc, client, project, state, journal, author, lock>>

Supervised(p) ==
  /\ SupervisorStep(p)
  /\ UNCHANGED <<pc, client, root>>

Step(p) ==
  \/ Lock(p) \/ Generate(p) \/ Begin(p) \/ PublishSources(p)
  \/ Proceed(p) \/ CommandFails(p) \/ Retain(p)
  \/ Merge(p) \/ Materialize(p) \/ SaveState(p) \/ CompleteNative(p)
  \/ CheckTarget(p) \/ Rename(p) \/ Discard(p) \/ Finish(p)
  \/ Fail(p) \/ Rollback(p) \/ GiveUp(p) \/ Clear(p)

Finished ==
  /\ \A p \in Cli : pc[p] \in Ended
  /\ UNCHANGED vars

Next ==
  \/ \E p \in Cli : Look(p) \/ Step(p) \/ Supervised(p) \/ Kill(p)
  \/ Lapse \/ UserActs \/ Finished

\* The event loop runs: promises settle and timers fire.  A command need not
\* end by itself, nor does a guard have to become ready.
Fairness ==
  \A p \in Cli : WF_vars(Step(p)) /\ WF_vars(Callback(p) /\ UNCHANGED <<pc, client, root>>)

Spec == Init /\ [][Next]_vars /\ Fairness

-----------------------------------------------------------------------------
(* Correctness. *)

\* A command line that receives a signal while one of its commands runs, or is
\* about to, never ends with a finished project, whichever callbacks race.
SignalHeeded == \A p \in interrupted : pc[p] # "done"

\* A command line that failed and said nothing of left-over files has left
\* none: no candidate, none of its files in the target, no journal that it
\* wrote, and no state.  Only a merge that saved the state and then could not
\* discard its candidate leaves that state beside the files it took back.
FailureLeavesNothing ==
  \A p \in Cli : (pc[p] = "failed" /\ p \notin reported) =>
    /\ cand[p] = "none" /\ project # p /\ author # p
    /\ state = p => kind[p] = "merge"

\* A project that was published, or whose installation in place was prepared
\* and that has no journal, is a finished one: its commands have succeeded and a
\* state is saved.  A project that was killed in place before its installation
\* was prepared, or merged, may be unfinished without a journal.
Announced ==
  \A p \in Cli :
    (project = p /\ (kind[p] = "publish" \/ (p \in native /\ journal = "none")))
      => (p \in verified /\ state # Nobody)

\* Whose processes the project is protected from: a command line that still
\* runs, or one that left the marker behind.
Holds(p) == pc[p] \notin Ended \/ (pc[p] = "unsafe" /\ journal = "marker")

\* As long as a process below p may write, the candidate of p is neither
\* discarded nor published, its files are neither rolled back nor replaced by
\* those of another one, and its lock stays.  What a native installation may
\* have changed is never taken back, only replaced by a later project.
NothingUndone ==
  [][\A p \in Cli :
       /\ (writers[p] # {} /\ Holds(p)) =>
            /\ cand'[p] = cand[p]
            /\ project = p => project' = p
            /\ (lock = p /\ pc[p] \notin Ended) => lock' = p
       /\ (p \in native /\ project = p) => (project' = p \/ project' \in wrote' \ wrote)]_vars

\* Every command line that has begun ends, also when guards and commands hang or
\* die: a timer or the end of the cleanup settles every call.
EveryRunEnds == []<>(\A p \in Cli : pc[p] \in Ended \cup {"look"})
=============================================================================
