---------------------------- MODULE ReconcileApply ----------------------------
(***************************************************************************)
(* Desired-state reconciliation: buildReconcilePlan and applyReconcilePlan *)
(* of src/src/lib/reconcile.ts with the state of src/src/lib/state.ts, as  *)
(* `ghostinit sync` and `ghostinit upgrade` run them.                      *)
(*                                                                         *)
(* One command runs at a time (ProjectLock); its user edits any file, or   *)
(* the desired configuration, at any moment, and it may be killed at any   *)
(* step.  A path is published, and undone, by the calls FsTransaction      *)
(* makes: it is read, whatever is there by then is renamed into a private  *)
(* container and compared once more, and its successor is linked where     *)
(* there is no file.  Anything may be edited between two of them, and each *)
(* may fail.  A staging file or a container that cannot be removed makes   *)
(* the commit fail: that is a failure of the next call.                    *)
(*                                                                         *)
(* Hashes are contents.  A move is the creation and the deletion it is     *)
(* made of: they are staged with the same two comparisons.  Local dotenv   *)
(* files, secrets, the formatting of the configuration file and state      *)
(* migration from version 1 are left out.                                  *)
(***************************************************************************)
EXTENDS Naturals, FiniteSets

CONSTANTS
  Path,      \* the paths any plan or record knows
  Config,    \* desired configurations
  Version,   \* CLI versions: they render the same configuration differently
  Gen,       \* contents a generator renders
  User,      \* contents only a user writes
  Target,    \* Target[g][p]: what goal g = <<config, version>> wants at p
  Life,      \* Life[g][p]: the lifecycle it gives p
  Place,     \* the order of the paths' names
  Added,     \* the paths recorded by `ghostinit add`
  First,     \* the goal the project was created with
  None,      \* no file, no record, no operation
  MaxEdits,  \* bound: edits of files by the user
  MaxFaults  \* bound: calls that fail and commands that are killed

Goal == Config \X Version
Lifecycle == {"generator-owned", "structured-merge", "seed-once"}
Record == [hash : Gen, life : Lifecycle]

ASSUME ReconcileAssumption ==
  /\ Target \in [Goal -> [Path -> Gen \cup {None}]]
  /\ Life \in [Goal -> [Path -> Lifecycle]]
  /\ Place \in [Path -> Nat] /\ \A p, q \in Path : Place[p] = Place[q] => p = q
  /\ Gen \cap User = {} /\ None \notin Gen \cup User /\ None \notin Config
  /\ None \notin Record /\ None \notin Path
  /\ First \in Goal /\ Added \subseteq Path /\ MaxEdits \in Nat /\ MaxFaults \in Nat
  /\ \A p \in Added : Target[First][p] # None

VARIABLES
  disk,       \* the file at each path
  config,     \* the configuration in ghostinit.config.json
  cli,        \* the version of the CLI
  files,      \* state.json: files
  accepted,   \* state.json: configHash
  attested,   \* state.json: generationPlan
  pending,    \* state.json: the configuration of pendingOperation
  present,    \* state.json is at its path
  pc,         \* where the command is
  goal,       \* the configuration it loaded, and its version
  plan,       \* the classification of each path
  before,     \* beforeHash: what each change is to replace
  done,       \* operations: the paths published and not undone
  cur,        \* the path at hand
  held,       \* the file displaced from it, in its container
  kept,       \* the bytes of a user in containers left behind
  broken,     \* the rollback failed somewhere
  touched,    \* history: the paths the user changed, or whose file an error says
              \* is in a container (recoveryPath)
  mixed,      \* history: the paths an operation left published and unrecorded
  forgot,     \* history: pendingOperation was cleared while there were some
  edits, faults

project == <<disk, config, cli>>
state == <<files, accepted, attested, pending, present>>
command == <<goal, plan, before, done, cur, held, broken>>
history == <<touched, mixed, forgot, edits, faults>>
vars == <<project, state, pc, command, kept, history>>

Change == {"create", "rewrite", "delete"}
Action == Change \cup {"unchanged", "preserved", "retired", "conflict", "none"}
AtPath == {"take", "judge", "putback", "link"}
Label == {"idle", "planned", "staged", "commit", "undo"} \cup AtPath

TypeOK ==
  /\ disk \in [Path -> Gen \cup User \cup {None}]
  /\ config \in Config /\ cli \in Version
  /\ files \in [Path -> Record \cup {None}]
  /\ accepted \in Config /\ attested \in Goal
  /\ pending \in Config \cup {None}
  /\ present \in BOOLEAN
  /\ pc \in Label
  /\ goal \in Goal \cup {None} /\ (pc # "idle" => goal \in Goal)
  /\ pc \in {"idle", "planned", "staged"} => done = {}
  /\ plan \in [Path -> Action]
  /\ before \in [Path -> Gen \cup {None}]
  /\ \A p \in Path : plan[p] \in {"create", "rewrite", "unchanged"} => Target[goal][p] # None
  /\ done \subseteq {p \in Path : plan[p] \in Change}
  /\ IF pc \in AtPath THEN cur \in Path /\ plan[cur] \in Change ELSE cur = None
  /\ held \in Gen \cup User \cup {None}
  /\ pc \notin {"judge", "putback"} => held \notin User
  /\ pc \notin AtPath => held = None
  /\ kept \subseteq Path \X User
  /\ broken \in BOOLEAN /\ forgot \in BOOLEAN
  /\ touched \subseteq Path /\ mixed \subseteq Path
  /\ edits \in 0 .. MaxEdits /\ faults \in 0 .. MaxFaults

NoPlan == [p \in Path |-> "none"]
Nothing == [p \in Path |-> None]

\* A project as create leaves it: what its goal renders, recorded.
Init ==
  /\ disk = Target[First]
  /\ files = [p \in Path |-> IF Target[First][p] = None THEN None
                             ELSE [hash |-> Target[First][p], life |-> Life[First][p]]]
  /\ config = First[1] /\ cli = First[2]
  /\ accepted = First[1] /\ attested = First /\ pending = None /\ present = TRUE
  /\ pc = "idle" /\ goal = None /\ plan = NoPlan /\ before = Nothing
  /\ done = {} /\ cur = None /\ held = None /\ kept = {} /\ broken = FALSE
  /\ touched = {} /\ mixed = {} /\ forgot = FALSE /\ edits = 0 /\ faults = 0

-----------------------------------------------------------------------------
(* buildReconcilePlan: the class of each path                               *)

\* A path the goal wants: its bytes are replaced only when they are the ones
\* the record attests.
Wanted(g, p) ==
  LET life == Life[g][p] IN
  CASE disk[p] = None -> "create"
    [] disk[p] # None /\ files[p] = None -> IF life = "seed-once" THEN "preserved" ELSE "conflict"
    [] disk[p] # None /\ files[p] # None ->
         IF disk[p] = Target[g][p] THEN "unchanged"
         ELSE IF life = "seed-once" THEN "preserved"
         ELSE IF disk[p] # files[p].hash THEN "conflict" ELSE "rewrite"

\* Mutant: a generated file that is not wanted any more is left where it is.
ObsoleteLeft(p) ==
  IF files[p] = None \/ disk[p] = None THEN "none"
  ELSE IF p \in Added THEN "preserved"
  ELSE IF disk[p] = files[p].hash THEN "retired" ELSE "conflict"

\* A recorded path it does not want: only an untouched generated file goes.
Obsolete(p) ==
  IF files[p] = None \/ disk[p] = None THEN "none"
  ELSE IF p \in Added THEN "preserved"
  ELSE IF files[p].life = "seed-once" THEN "retired"
  ELSE IF files[p].life = "structured-merge" \/ disk[p] # files[p].hash THEN "conflict"
  ELSE "delete"

Classify(g, p) == IF Target[g][p] # None THEN Wanted(g, p) ELSE Obsolete(p)

\* conflicts.length > 0, pending-operation-mismatch among them
Conflicting(g) ==
  \/ \E p \in Path : Classify(g, p) = "conflict"
  \/ pending \notin {None, g[1]}

\* sync reconciles only for a changed configuration or a pending operation,
\* and only when the plan changes something; upgrade always does.
Reconciles(kind, g) ==
  kind = "sync" =>
    \/ g[1] # accepted
    \/ pending # None /\ \E p \in Path : Classify(g, p) \in Change \cup {"retired"}

-----------------------------------------------------------------------------
(* applyReconcilePlan                                                       *)

\* A call that may fail for a reason of its own: e says whether it does.
Io(e) == (e => faults < MaxFaults) /\ faults' = IF e THEN faults + 1 ELSE faults

\* The bytes a change puts in place of before[p].
After(p) == IF plan[p] = "delete" THEN None ELSE Target[goal][p]
Changed == {p \in Path : plan[p] \in Change}

Stop ==
  /\ pc' = "idle" /\ goal' = None /\ plan' = NoPlan /\ before' = Nothing
  /\ done' = {} /\ cur' = None /\ held' = None /\ broken' = FALSE

\* The lock is held; a command that finds conflicts, or nothing to do, changes
\* nothing.
Begin(kind) ==
  /\ pc = "idle" /\ present
  /\ LET g == <<config, cli>> IN
     /\ Reconciles(kind, g) /\ ~Conflicting(g)
     /\ goal' = g /\ plan' = [p \in Path |-> Classify(g, p)]
  /\ before' = [p \in Path |-> IF plan'[p] \in Change THEN disk[p] ELSE None]
  /\ pc' = "planned"
  /\ UNCHANGED <<project, state, done, cur, held, kept, broken, history>>

\* stageReconcilePlan: every path must still be what it was classified by.
Stage ==
  /\ pc = "planned"
  /\ IF \A p \in Changed : disk[p] = before[p]
     THEN pc' = "staged" /\ UNCHANGED command
     ELSE Stop
  /\ UNCHANGED <<project, state, kept, history>>

\* Mutant: the operation is not recorded before it starts.
SavePendingSkipped(e) ==
  /\ pc = "staged" /\ Io(e)
  /\ IF e THEN Stop ELSE pc' = "commit" /\ UNCHANGED command
  /\ UNCHANGED <<project, state, kept, touched, mixed, forgot, edits>>

\* saveStateV2 with pendingOperation; failing leaves everything as it was.
SavePending(e) ==
  /\ pc = "staged" /\ Io(e)
  /\ IF e THEN Stop /\ UNCHANGED pending
     ELSE pc' = "commit" /\ pending' = goal[1] /\ UNCHANGED command
  /\ UNCHANGED <<project, files, accepted, attested, present, kept, touched, mixed, forgot, edits>>

\* Creations are published first, deletions last, each by name.
Rank == [create |-> 1, rewrite |-> 2, delete |-> 3]
Earlier(p, q) ==
  \/ Rank[plan[p]] < Rank[plan[q]]
  \/ plan[p] = plan[q] /\ Place[p] <= Place[q]
Turn(p) == p \in Changed \ done /\ \A q \in Changed \ done : Earlier(p, q)

\* rollbackOperations visits them from the last to the first.
Return(p) == p \in done /\ \A q \in done : Earlier(q, p)

\* A path that is in operations is being undone.
Old(p) == IF p \in done THEN After(p) ELSE before[p]
New(p) == IF p \in done THEN before[p] ELSE After(p)

\* The path is as it should be: operations.push, or the operation is completed.
Finish(p) ==
  /\ pc' = IF p \in done THEN "undo" ELSE "commit"
  /\ done' = IF p \in done THEN done \ {p} ELSE done \cup {p}
  /\ cur' = None /\ held' = None
  /\ UNCHANGED <<broken, mixed>>

\* It is not: a commit throws and undoes what it published; a rollback goes on,
\* to fail in the end.
GiveUp(p) ==
  /\ pc' = "undo" /\ cur' = None /\ held' = None
  /\ IF p \in done THEN done' = done \ {p} /\ broken' = TRUE /\ mixed' = mixed \cup {p}
     ELSE UNCHANGED <<done, broken, mixed>>

\* On to the next call for this path.
Proceed(p, l) == pc' = l /\ cur' = p /\ UNCHANGED <<done, broken, mixed>>

Elsewhere == UNCHANGED <<config, cli, state, goal, plan, before, forgot, edits>>

\* tx.commit, one path: it must still be what was staged.
Publish(p, e) ==
  /\ pc = "commit" /\ Turn(p) /\ Io(e)
  /\ IF e \/ disk[p] # before[p] THEN GiveUp(p)
     ELSE Proceed(p, IF before[p] = None THEN "link" ELSE "take") /\ UNCHANGED held
  /\ UNCHANGED <<disk, kept, touched>> /\ Elsewhere

\* Mutant: an operation counts as undone without putting the bytes back.
UndoNothing(p, e) ==
  /\ pc = "undo" /\ Return(p) /\ Io(e)
  /\ Finish(p)
  /\ UNCHANGED <<disk, kept, touched>> /\ Elsewhere

\* rollbackOperations: only bytes that still are as they were published
Undo(p, e) ==
  /\ pc = "undo" /\ Return(p) /\ Io(e)
  /\ IF ~e /\ disk[p] = before[p] THEN Finish(p)
     ELSE IF e \/ disk[p] # After(p) THEN GiveUp(p)
     ELSE Proceed(p, IF After(p) = None THEN "link" ELSE "take") /\ UNCHANGED held
  /\ UNCHANGED <<disk, kept, touched>> /\ Elsewhere

\* quarantineCurrentFile: whatever is there by now
Take(e) ==
  /\ pc = "take" /\ Io(e)
  /\ IF e \/ disk[cur] = None THEN GiveUp(cur) /\ UNCHANGED disk
     ELSE /\ held' = disk[cur] /\ disk' = [disk EXCEPT ![cur] = None]
          /\ Proceed(cur, "judge")
  /\ UNCHANGED <<kept, touched>> /\ Elsewhere

\* Mutant: what was taken is not compared.
JudgeBlind(e) ==
  /\ pc = "judge" /\ Io(e)
  /\ IF New(cur) = None THEN Finish(cur) ELSE Proceed(cur, "link") /\ UNCHANGED held
  /\ UNCHANGED <<disk, kept, touched>> /\ Elsewhere

\* The taken file must be the expected one.  A deletion, and the undo of a
\* creation, are done with that, and the file is removed.
Judge(e) ==
  /\ pc = "judge" /\ Io(e)
  /\ IF e \/ held # Old(cur) THEN Proceed(cur, "putback") /\ UNCHANGED held
     ELSE IF New(cur) = None THEN Finish(cur)
     ELSE Proceed(cur, "link") /\ UNCHANGED held
  /\ UNCHANGED <<disk, kept, touched>> /\ Elsewhere

\* Mutant: the taken file stays away, and nobody is told.
PutBackForgets(e) ==
  /\ pc = "putback" /\ Io(e)
  /\ GiveUp(cur)
  /\ UNCHANGED <<disk, kept, touched>> /\ Elsewhere

\* putBackQuarantined: it returns where there is no file, or stays in the
\* container that the error names.
PutBack(e) ==
  /\ pc = "putback" /\ Io(e)
  /\ IF e \/ disk[cur] # None
     THEN /\ kept' = kept \cup ({cur} \X ({held} \cap User))
          /\ touched' = touched \cup {cur} /\ UNCHANGED disk
     ELSE disk' = [disk EXCEPT ![cur] = held] /\ UNCHANGED <<kept, touched>>
  /\ GiveUp(cur) /\ Elsewhere

\* link, which fails where there is a file.  A commit then puts the taken file
\* back; a rollback took the transaction's own bytes, and is content when
\* somebody else restored the old ones.
Link(e) ==
  /\ pc = "link" /\ Io(e)
  /\ IF ~e /\ disk[cur] = None THEN disk' = [disk EXCEPT ![cur] = New(cur)] /\ Finish(cur)
     ELSE /\ UNCHANGED disk
          /\ IF cur \in done
             THEN IF disk[cur] = before[cur] THEN Finish(cur) ELSE GiveUp(cur)
             ELSE IF held = None THEN GiveUp(cur)
             ELSE Proceed(cur, "putback") /\ UNCHANGED held
  /\ UNCHANGED <<kept, touched>> /\ Elsewhere

\* finalFileRecords: the planned bytes, never an edit made meanwhile
FinalRecord(p) ==
  IF plan[p] \in {"create", "rewrite", "unchanged"}
  THEN [hash |-> Target[goal][p], life |-> Life[goal][p]]
  ELSE IF \/ plan[p] \in {"delete", "retired"} \/ files[p] = None
          \/ Target[goal][p] = None /\ disk[p] = None
  THEN None
  ELSE IF plan[p] = "preserved" /\ Target[goal][p] # None /\ Life[goal][p] = "seed-once"
  THEN [files[p] EXCEPT !.life = "seed-once"]
  ELSE files[p]

\* What a record says of the disk.  A retired seed is on it and not recorded.
Seed(p) == \E g \in Goal : Life[g][p] = "seed-once"
Agrees(d, r, p) == IF r # None THEN d = r.hash ELSE d = None \/ Seed(p)

\* The second saveStateV2: records, generation plan and configuration
SaveFinal(e) ==
  /\ pc = "commit" /\ Changed \subseteq done /\ Io(e)
  /\ IF e THEN pc' = "undo" /\ UNCHANGED <<state, command, mixed, forgot>>
     ELSE /\ files' = [p \in Path |-> FinalRecord(p)]
          /\ accepted' = goal[1] /\ attested' = goal /\ pending' = None
          /\ mixed' = {p \in mixed : ~Agrees(disk[p], FinalRecord(p), p)}
          /\ forgot' = (forgot \/ mixed' # {})
          /\ Stop /\ UNCHANGED present
  /\ UNCHANGED <<project, kept, touched, edits>>

\* The third saveStateV2: the operation failed and was undone.  When the
\* rollback or this save fails, the operation stays pending.
SaveFailed(e) ==
  /\ pc = "undo" /\ done = {} /\ Io(e)
  /\ IF e \/ broken THEN UNCHANGED <<pending, forgot>>
     ELSE pending' = None /\ forgot' = (forgot \/ mixed # {})
  /\ Stop
  /\ UNCHANGED <<project, files, accepted, attested, present, kept, touched, mixed, edits>>

Apply ==
  \/ Stage
  \/ \E e \in BOOLEAN :
       \/ SavePending(e) \/ SaveFinal(e) \/ SaveFailed(e)
       \/ Take(e) \/ Judge(e) \/ PutBack(e) \/ Link(e)
       \/ \E p \in Path : Publish(p, e) \/ Undo(p, e)

-----------------------------------------------------------------------------
(* The user, and the death of the command                                   *)

Edit(p, c) ==
  /\ edits < MaxEdits /\ c # disk[p]
  /\ disk' = [disk EXCEPT ![p] = c]
  /\ touched' = touched \cup {p} /\ edits' = edits + 1
  /\ UNCHANGED <<config, cli, state, pc, command, kept, mixed, forgot, faults>>

Configure(c) ==
  /\ c # config /\ config' = c
  /\ UNCHANGED <<disk, cli, state, pc, command, kept, history>>

InstallCli(v) ==
  /\ pc = "idle" /\ v # cli /\ cli' = v
  /\ UNCHANGED <<disk, config, state, pc, command, kept, history>>

\* Killed: what was published stays, and a taken file stays in its container.
\* The state file, displaced by a save, may be missing from its path.
Crash ==
  /\ pc # "idle" /\ Io(TRUE)
  /\ mixed' = mixed \cup done \cup (IF held = None THEN {} ELSE {cur})
  /\ kept' = kept \cup ({cur} \X ({held} \cap User))
  /\ \/ UNCHANGED present
     \/ /\ \/ pc = "staged"
           \/ pc = "commit" /\ Changed \subseteq done
           \/ pc = "undo" /\ done = {} /\ ~broken
        /\ present' = FALSE
  /\ Stop
  /\ UNCHANGED <<project, files, accepted, attested, pending, touched, forgot, edits>>

UserStep == \E p \in Path, c \in Gen \cup User \cup {None} : Edit(p, c)

Next ==
  \/ \E kind \in {"sync", "upgrade"} : Begin(kind)
  \/ Apply \/ Crash \/ UserStep
  \/ \E c \in Config : Configure(c)
  \/ \E v \in Version : InstallCli(v)

Spec == Init /\ [][Next]_vars

-----------------------------------------------------------------------------
(* The inductive invariant                                                  *)

\* What a goal that was attained says of the disk.
Attests(d, g, p) ==
  LET t == Target[g][p] IN
  /\ t # None /\ Life[g][p] # "seed-once" => d = t
  /\ t = None => d = None \/ p \in Added \/ Seed(p)

\* What is at a path but for the publication in progress.
Stable(p) == IF p \in done \/ p = cur THEN before[p] ELSE disk[p]

\* The plan is complete for its goal, and what it found at the paths it leaves
\* alone is still there unless the user changed it.
PlanFits(p) ==
  pc # "idle" =>
    /\ IF Target[goal][p] = None
       THEN plan[p] \in {"delete", "retired", "preserved", "none"}
       ELSE plan[p] \in {"create", "rewrite", "unchanged", "preserved"}
    /\ Target[goal][p] # None /\ plan[p] = "preserved" => Life[goal][p] = "seed-once"
    /\ Target[goal][p] = None /\ plan[p] = "preserved" => p \in Added
    /\ plan[p] = "retired" => Seed(p)
    /\ p \notin touched =>
         /\ plan[p] = "unchanged" => disk[p] = Target[goal][p]
         /\ plan[p] = "none" => disk[p] = None \/ files[p] = None

Settled(p) ==
  /\ Agrees(Stable(p), files[p], p) /\ Attests(Stable(p), attested, p)
  /\ p \in done \ {cur} => disk[p] = After(p)
  /\ p = cur => IF pc = "take" THEN disk[p] = Old(p) /\ held = None
                ELSE disk[p] = None /\ held = Old(p)

ApplyInv ==
  /\ \A p \in Path : files[p] # None /\ files[p].life = "seed-once" => Seed(p)
  /\ \A p \in Path : PlanFits(p)
  /\ \A p \in Path \ (touched \cup mixed) : Settled(p)
  /\ pc \in AtPath \cup {"commit", "undo"} => pending # None
  /\ mixed # {} => pending # None \/ forgot

-----------------------------------------------------------------------------
(* Properties                                                               *)

\* Where the bytes of a path may be found.
Copies(p) ==
  {disk[p]} \cup (IF p = cur THEN {held} ELSE {}) \cup {u \in User : <<p, u>> \in kept}

\* Whatever a plan, a publication, a rollback or a resumption after a crash
\* does, bytes that only a user can have written are never overwritten or
\* removed, not even when they arrive between the last comparison and the
\* rename: they are at their path or, where they could not be put back or the
\* command was killed, in a container next to it (quarantineExpectedFile: "never
\* overwritten or deleted").
UserBytesKept ==
  [][~UserStep => \A p \in Path : Copies(p) \cap User \subseteq Copies(p)']_vars

\* Between commands state.json tells the truth: a path that no user touched,
\* no error named as displaced and no interrupted operation left behind holds the
\* bytes its record attests, and what has no record is not there, unless it is a
\* seed.
StateMatchesDisk ==
  pc = "idle" => \A p \in Path \ (touched \cup mixed) : Agrees(disk[p], files[p], p)

\* generationPlan names the goal whose files are on the disk, whether the last
\* operation completed, failed and was undone, or was killed.
PlanAttested ==
  pc = "idle" => \A p \in Path \ (touched \cup mixed) : Attests(disk[p], attested, p)

\* Whatever an operation leaves published and unrecorded, state.json says that
\* an operation is pending; only another operation that ends may forget it.
InterruptionRecorded == pc = "idle" /\ mixed # {} => pending # None \/ forgot

\* What validate-project.ts tells the user: a pending operation is recovered by
\* sync or upgrade.  It can be, when nothing else was changed.
PendingRecoverable ==
  pc = "idle" /\ present /\ touched = {} /\ pending = config /\ cli = First[2]
    => ~Conflicting(<<config, cli>>)
=============================================================================
