---------------------------- MODULE FsTransaction ----------------------------
(***************************************************************************)
(* FsTransaction of src/src/lib/fs.ts: one transaction that stages writes  *)
(* and deletions, publishes them one by one, and undoes them when a step   *)
(* fails or its caller asks for it, while other programs edit the same     *)
(* files and the process may be killed.                                    *)
(*                                                                         *)
(* A file is its bytes.  The transaction never replaces a file: it moves   *)
(* the entry into a private container, compares what it moved, and links   *)
(* its own bytes in with a call that fails when the path is taken.  One    *)
(* step is one such call, so an editor may act between any two of them.    *)
(* Path safety, parent directories and staging files are left out, but a   *)
(* call on any of them may fail: that is what the faults are.              *)
(***************************************************************************)
EXTENDS Naturals, FiniteSets

CONSTANTS
  NPaths,      \* the paths are 1 .. NPaths, in the order the plan visits them
  Written,     \* those the transaction writes
  Deleted,     \* those it deletes
  Deps,        \* those whose bytes it depends on (assertUnchanged)
  MaxEdits,    \* bound: edits of other programs
  MaxFaults    \* bound: I/O errors

Path == 1 .. NPaths

ASSUME FsAssumption ==
  /\ NPaths \in Nat \ {0} /\ MaxEdits \in Nat /\ MaxFaults \in Nat
  /\ Written \subseteq Path /\ Deleted \subseteq Path /\ Deps \subseteq Path
  \* pendingWrites is processed before pendingDeletes
  /\ \A w \in Written, d \in Deleted : w < d

Gone == 0      \* there is no file
Old == 1       \* the bytes the project had at first
New == 2       \* the bytes the transaction writes
Edit(n) == 2 + n
Bytes == Old .. Edit(MaxEdits)

\* What the transaction wants to be at a path it changes.
Goal(p) == IF p \in Written THEN New ELSE Gone

\* The containers of a commit and those of a rollback.
Slot == {"apply", "undo"}

VARIABLES
  target,    \* the file at each path
  away,      \* the displaced file in each container
  prev,      \* the bytes read when the path was staged (previousContent)
  pending,   \* pendingWrites and pendingDeletes
  ops,       \* operations: the paths published and not yet undone
  applied,   \* appliedQuarantines: containers of recorded operations
  failures,  \* the paths a rollback refused or failed to restore
  reported,  \* the paths whose container an error names (recoveryPath)
  pc, cur,   \* where the transaction is, and at which path
  mode,      \* whether commit or rollback undoes
  handle,    \* where the file is that an editor of this path holds open
  saved,     \* history: what others put at a path and did not remove themselves
  touched,   \* history: the paths others changed after they were staged
  late,      \* history: those where they wrote into a displaced file
  edits, faults

disk == <<target, away>>
plan == <<prev, pending>>
outcome == <<failures, reported>>
editor == <<touched, late, edits>>
vars == <<disk, plan, ops, applied, outcome, pc, cur, mode, handle, saved, editor, faults>>

Ended == {"committed", "failed", "rolledBack", "broken", "dead"}
Applying == {"ready", "capture", "compare", "putback", "install", "tidy"}
Undoing == {"undo", "undoCapture", "undoCompare", "undoPutback", "undoReplace", "undoTidy"}
Label == {"planning", "planned", "verify", "cleanup"} \cup Applying \cup Undoing \cup Ended

TypeOK ==
  /\ target \in [Path -> Bytes \cup {Gone}]
  /\ away \in [Slot -> [Path -> Bytes \cup {Gone}]]
  /\ prev \in [Path -> Bytes \cup {Gone}]
  /\ pending \subseteq Written \cup Deleted
  /\ ops \subseteq Written \cup Deleted /\ applied \subseteq Path
  /\ failures \subseteq Path /\ reported \subseteq Path /\ touched \subseteq Path /\ late \subseteq Path
  /\ pc \in Label /\ cur \in Path
  /\ mode \in {"commit", "rollback"}
  /\ handle \in [Path -> {"none", "target", "dead"} \cup Slot]
  /\ saved \in [Path -> SUBSET Bytes]
  /\ edits \in 0 .. MaxEdits /\ faults \in 0 .. MaxFaults

Init ==
  /\ target \in [Path -> {Gone, Old}]
  /\ away = [s \in Slot |-> [p \in Path |-> Gone]]
  /\ prev = [p \in Path |-> Gone] /\ pending = {}
  /\ ops = {} /\ applied = {} /\ failures = {} /\ reported = {}
  /\ pc = "planning" /\ cur = 1 /\ mode = "commit"
  /\ handle = [p \in Path |-> "none"]
  /\ saved = [p \in Path |-> {target[p]} \ {Gone}]
  /\ touched = {} /\ late = {} /\ edits = 0 /\ faults = 0

-----------------------------------------------------------------------------
(* Calls on the file system                                                 *)

\* A call that may fail for a reason of its own: e says whether it does.
Io(e) == (e => faults < MaxFaults) /\ faults' = IF e THEN faults + 1 ELSE faults

\* The file at place x is now at place y, and so is whoever holds it open.
Follow(p, x, y) ==
  handle' = [handle EXCEPT ![p] = IF @ = x THEN y ELSE @]

\* rename(target, displaced)
Displace(s) ==
  /\ away' = [away EXCEPT ![s][cur] = target[cur]]
  /\ target' = [target EXCEPT ![cur] = Gone]
  /\ Follow(cur, "target", s)

\* putBackQuarantined: link displaced to the target unless that is taken
LinkBack(s) ==
  /\ target' = [target EXCEPT ![cur] = away[s][cur]]
  /\ away' = [away EXCEPT ![s][cur] = Gone]
  /\ Follow(cur, s, "target")

\* removeQuarantine
Discard(s) ==
  /\ away' = [away EXCEPT ![s][cur] = Gone]
  /\ Follow(cur, s, "dead")

First(S) == CHOOSE p \in S : \A q \in S : p <= q
Last(S) == CHOOSE p \in S : \A q \in S : q <= p

\* The next path of the plan, or the end of it.
Work(S) ==
  /\ pc' = IF S = {} THEN "verify" ELSE "ready"
  /\ cur' = IF S = {} THEN cur ELSE First(S)

\* rollbackOperations visits the operations from the last to the first.
Unwind(S) ==
  /\ pc' = IF S = {} THEN "cleanup" ELSE "undo"
  /\ cur' = IF S = {} THEN cur ELSE Last(S)

Stay(l) == pc' = l /\ cur' = cur

\* assertReadDependencies(afterPublication)
DepsUnchanged ==
  \A d \in Deps : target[d] = IF d \in ops THEN Goal(d) ELSE prev[d]

-----------------------------------------------------------------------------
(* Planning                                                                 *)

\* write, delete or assertUnchanged reads the path; a path that is already as
\* it should be is not staged.
Stage ==
  /\ pc = "planning"
  /\ prev' = [prev EXCEPT ![cur] = target[cur]]
  /\ pending' = IF cur \in Written \cup Deleted /\ target[cur] # Goal(cur)
                THEN pending \cup {cur} ELSE pending
  /\ IF cur = NPaths THEN Stay("planned") ELSE pc' = "planning" /\ cur' = cur + 1
  /\ UNCHANGED <<disk, ops, applied, outcome, mode, handle, saved, editor, faults>>

-----------------------------------------------------------------------------
(* commit                                                                   *)

\* The dependencies are checked before the first file is touched: a change is
\* an error with nothing to undo.
BeginCommit(e) ==
  /\ pc = "planned" /\ Io(e)
  /\ IF e \/ ~DepsUnchanged THEN Stay("failed")
     ELSE IF pending = {} THEN Stay("committed") ELSE Work(pending)
  /\ UNCHANGED <<disk, plan, ops, applied, outcome, mode, handle, saved, editor>>

\* The staging file is written and the path read again: assertStagedWriteReady,
\* assertDeleteUnchanged.
Ready(e) ==
  /\ pc = "ready" /\ Io(e)
  /\ IF e \/ target[cur] # prev[cur] THEN Unwind(ops)
     ELSE Stay(IF prev[cur] = Gone THEN "install" ELSE "capture")
  /\ UNCHANGED <<disk, plan, ops, applied, outcome, mode, handle, saved, editor>>

\* quarantineCurrentFile; ENOENT when the file vanished
Capture(e) ==
  /\ pc = "capture" /\ Io(e)
  /\ IF e \/ target[cur] = Gone
     THEN Unwind(ops) /\ UNCHANGED <<disk, handle>>
     ELSE Displace("apply") /\ Stay("compare")
  /\ UNCHANGED <<plan, ops, applied, outcome, mode, saved, editor>>

\* The operation is recorded before anything else can fail: from here the old
\* bytes are the transaction's to remove.
Record ==
  /\ ops' = ops \cup {cur}
  /\ applied' = IF prev[cur] = Gone THEN applied ELSE applied \cup {cur}
  /\ saved' = [saved EXCEPT ![cur] = @ \ {prev[cur]}]
  /\ Stay("tidy")

\* quarantineExpectedFile: the moved bytes must be those that were staged.
Compare(e) ==
  /\ pc = "compare" /\ Io(e)
  /\ IF e \/ away["apply"][cur] # prev[cur]
     THEN Stay("putback") /\ UNCHANGED <<ops, applied, saved>>
     ELSE IF cur \in Written THEN Stay("install") /\ UNCHANGED <<ops, applied, saved>>
     ELSE Record
  /\ UNCHANGED <<disk, plan, outcome, mode, handle, editor>>

\* Mutant: a container that cannot be put back is not reported.
PutbackSilent(e) ==
  /\ pc = "putback" /\ Io(e)
  /\ IF e \/ target[cur] # Gone THEN UNCHANGED <<disk, handle>> ELSE LinkBack("apply")
  /\ Unwind(ops)
  /\ UNCHANGED <<plan, ops, applied, outcome, mode, saved, editor>>

\* A racing file is put back, or kept in the container the error names.
Putback(e) ==
  /\ pc = "putback" /\ Io(e)
  /\ IF e \/ target[cur] # Gone
     THEN reported' = reported \cup {cur} /\ UNCHANGED <<disk, handle>>
     ELSE LinkBack("apply") /\ UNCHANGED reported
  /\ Unwind(ops)
  /\ UNCHANGED <<plan, ops, applied, failures, mode, saved, editor>>

\* Mutant: the staging file is renamed over whatever is at the target.
InstallOver(e) ==
  /\ pc = "install" /\ Io(e)
  /\ IF e
     THEN /\ IF prev[cur] = Gone THEN Unwind(ops) ELSE Stay("putback")
          /\ UNCHANGED <<target, ops, applied, saved>>
     ELSE target' = [target EXCEPT ![cur] = New] /\ Record
  /\ UNCHANGED <<away, plan, outcome, mode, handle, editor>>

\* link(staging, target): EEXIST when somebody took the path
Install(e) ==
  /\ pc = "install" /\ Io(e)
  /\ IF e \/ target[cur] # Gone
     THEN /\ IF prev[cur] = Gone THEN Unwind(ops) ELSE Stay("putback")
          /\ UNCHANGED <<target, ops, applied, saved>>
     ELSE target' = [target EXCEPT ![cur] = New] /\ Record
  /\ UNCHANGED <<away, plan, outcome, mode, handle, editor>>

\* Mutant: the operation is recorded only after its artifacts are removed.
TidyUnrecorded(e) ==
  /\ pc = "tidy" /\ Io(e)
  /\ IF e
     THEN Unwind(ops \ {cur}) /\ ops' = ops \ {cur} /\ UNCHANGED <<away, handle, applied>>
     ELSE /\ Discard("apply") /\ applied' = applied \ {cur} /\ UNCHANGED ops
          /\ Work({p \in pending : p > cur})
  /\ UNCHANGED <<target, plan, outcome, mode, saved, editor>>

\* removeStagingEntry and removeQuarantine
Tidy(e) ==
  /\ pc = "tidy" /\ Io(e)
  /\ IF e
     THEN Unwind(ops) /\ UNCHANGED <<away, handle, applied>>
     ELSE /\ Discard("apply") /\ applied' = applied \ {cur}
          /\ Work({p \in pending : p > cur})
  /\ UNCHANGED <<target, plan, ops, outcome, mode, saved, editor>>

\* The dependencies again, now that everything is published.
Verify(e) ==
  /\ pc = "verify" /\ Io(e)
  /\ IF ~e /\ DepsUnchanged THEN Stay("committed") /\ pending' = {}
     ELSE Unwind(ops) /\ UNCHANGED pending
  /\ UNCHANGED <<disk, prev, ops, applied, outcome, mode, handle, saved, editor>>

Commit ==
  \E e \in BOOLEAN :
    \/ BeginCommit(e) \/ Ready(e) \/ Capture(e) \/ Compare(e) \/ Putback(e)
    \/ Install(e) \/ Tidy(e) \/ Verify(e)

-----------------------------------------------------------------------------
(* rollbackOperations                                                       *)

\* Mutant: an operation right before the one dealt with is skipped.
NextUndoSkips == LET S == {p \in ops : p + 1 < cur} IN Unwind(S)

\* This operation is dealt with: on to the one applied before it.
NextUndo == LET S == {p \in ops : p < cur} IN Unwind(S)

Completed == ops' = ops \ {cur} /\ UNCHANGED failures /\ NextUndo
Failed == failures' = failures \cup {cur} /\ UNCHANGED ops /\ NextUndo

\* Bytes of the transaction are only taken away where they still are, and the
\* previous bytes only put where nothing else is.
Undo(e) ==
  /\ pc = "undo" /\ Io(e)
  /\ IF ~e /\ target[cur] = prev[cur] THEN Completed
     ELSE IF e \/ target[cur] # Goal(cur) THEN Failed
     ELSE /\ Stay(IF cur \in Written THEN "undoCapture" ELSE "undoReplace")
          /\ UNCHANGED <<ops, failures>>
  /\ UNCHANGED <<disk, plan, applied, reported, mode, handle, saved, editor>>

UndoCapture(e) ==
  /\ pc = "undoCapture" /\ Io(e)
  /\ IF e \/ target[cur] = Gone
     THEN Failed /\ UNCHANGED <<disk, handle>>
     ELSE Displace("undo") /\ Stay("undoCompare") /\ UNCHANGED <<ops, failures>>
  /\ UNCHANGED <<plan, applied, reported, mode, saved, editor>>

\* A file the transaction created is removed, one it overwrote is replaced.
UndoCompare(e) ==
  /\ pc = "undoCompare" /\ Io(e)
  /\ IF e \/ away["undo"][cur] # New
     THEN Stay("undoPutback") /\ UNCHANGED <<away, handle, ops, failures>>
     ELSE IF prev[cur] = Gone THEN Discard("undo") /\ Completed
     ELSE Stay("undoReplace") /\ UNCHANGED <<away, handle, ops, failures>>
  /\ UNCHANGED <<target, plan, applied, reported, mode, saved, editor>>

UndoPutback(e) ==
  /\ pc = "undoPutback" /\ Io(e)
  /\ IF e \/ target[cur] # Gone
     THEN reported' = reported \cup {cur} /\ UNCHANGED <<disk, handle>>
     ELSE LinkBack("undo") /\ UNCHANGED reported
  /\ Failed
  /\ UNCHANGED <<plan, applied, mode, saved, editor>>

\* createReplacement and link(replacement, target)
UndoReplace(e) ==
  /\ pc = "undoReplace" /\ Io(e)
  /\ IF e \/ target[cur] # Gone
     THEN /\ UNCHANGED <<target, saved>>
          /\ IF cur \in Deleted THEN Failed /\ UNCHANGED <<away, handle>>
             ELSE IF away["undo"][cur] = New THEN Discard("undo") /\ Failed
             ELSE Stay("undoPutback") /\ UNCHANGED <<away, handle, ops, failures>>
     ELSE /\ target' = [target EXCEPT ![cur] = prev[cur]]
          /\ saved' = [saved EXCEPT ![cur] = @ \cup {prev[cur]}]
          /\ UNCHANGED <<away, handle>>
          /\ IF cur \in Deleted THEN Completed
             ELSE Stay("undoTidy") /\ UNCHANGED <<ops, failures>>
  /\ UNCHANGED <<plan, applied, reported, mode, editor>>

\* Failing to remove the container does not undo the restoration.
UndoTidy(e) ==
  /\ pc = "undoTidy" /\ Io(e)
  /\ IF e THEN UNCHANGED <<away, handle>> ELSE Discard("undo")
  /\ Completed
  /\ UNCHANGED <<target, plan, applied, reported, mode, saved, editor>>

\* What is left of recorded operations goes; then the call throws or returns.
Cleanup ==
  /\ pc = "cleanup"
  /\ away' = [away EXCEPT !["apply"] = [p \in Path |-> IF p \in applied THEN Gone ELSE @[p]]]
  /\ handle' = [p \in Path |->
       IF p \in applied /\ handle[p] = "apply" THEN "dead" ELSE handle[p]]
  /\ applied' = {}
  /\ pending' = IF mode = "commit" THEN pending ELSE {}
  /\ Stay(IF failures # {} THEN "broken" ELSE IF mode = "commit" THEN "failed" ELSE "rolledBack")
  /\ UNCHANGED <<target, prev, ops, outcome, mode, saved, editor, faults>>

\* rollback, which remembers a failure and a result of its own.
Rollback ==
  /\ pc \in {"planned", "committed", "failed"}
  /\ mode' = "rollback" /\ Unwind(ops)
  /\ UNCHANGED <<disk, plan, ops, applied, outcome, handle, saved, editor, faults>>

UndoOperations ==
  \/ Cleanup
  \/ \E e \in BOOLEAN : \/ Undo(e) \/ UndoCapture(e) \/ UndoCompare(e) \/ UndoPutback(e)
                       \/ UndoReplace(e) \/ UndoTidy(e)

-----------------------------------------------------------------------------
(* Other programs, and the death of the process                             *)

\* Bytes others see: they removed what was at the path and put b there.
Edited(p, b) ==
  /\ saved' = [saved EXCEPT ![p] = (@ \ {target[p]}) \cup ({b} \ {Gone})]
  /\ touched' = IF pc = "planning" /\ p >= cur THEN touched ELSE touched \cup {p}
  /\ edits' = edits + 1 /\ UNCHANGED late

\* A new file is renamed over the path, or the path is removed.
Replace(p) ==
  /\ edits < MaxEdits
  /\ \E b \in {Edit(edits + 1), Gone} :
       /\ b # target[p]
       /\ target' = [target EXCEPT ![p] = b]
       /\ Edited(p, b)
  /\ Follow(p, "target", "dead")
  /\ UNCHANGED <<away, plan, ops, applied, outcome, pc, cur, mode, faults>>

OpenInPlace(p) ==
  /\ handle[p] = "none" /\ target[p] # Gone
  /\ handle' = [handle EXCEPT ![p] = "target"]
  /\ UNCHANGED <<disk, plan, ops, applied, outcome, pc, cur, mode, saved, editor, faults>>

\* The bytes go to the file that was opened, wherever it has been moved to.
WriteInPlace(p) ==
  /\ edits < MaxEdits /\ handle[p] \in {"target"} \cup Slot
  /\ LET b == Edit(edits + 1)
         s == handle[p] IN
     /\ IF s = "target"
        THEN target' = [target EXCEPT ![p] = b] /\ UNCHANGED away
        ELSE away' = [away EXCEPT ![s][p] = b] /\ UNCHANGED target
     /\ saved' = [saved EXCEPT ![p] =
          (@ \ {IF s = "target" THEN target[p] ELSE away[s][p]}) \cup {b}]
  /\ touched' = touched \cup {p} /\ edits' = edits + 1
  /\ late' = IF handle[p] = "target" THEN late ELSE late \cup {p}
  /\ UNCHANGED <<plan, ops, applied, outcome, pc, cur, mode, handle, faults>>

Die ==
  /\ pc \notin Ended
  /\ Stay("dead")
  /\ UNCHANGED <<disk, plan, ops, applied, outcome, mode, handle, saved, editor, faults>>

Finished == pc \in Ended /\ UNCHANGED vars

Next ==
  \/ Stage \/ Commit \/ Rollback \/ UndoOperations \/ Die \/ Finished
  \/ \E p \in Path : Replace(p) \/ OpenInPlace(p) \/ WriteInPlace(p)

Spec == Init /\ [][Next]_vars

-----------------------------------------------------------------------------
(* Properties                                                               *)

\* Racing bytes are never overwritten or deleted (quarantineExpectedFile).  What
\* other programs wrote, and what the project had, is at its path or in a
\* container until whoever wrote it removes it or the transaction has published
\* its own bytes in its place.  The exception is a path where somebody wrote
\* into a file that the transaction had moved away and compared.
BytesSurvive ==
  \A p \in Path \ late : saved[p] \subseteq {target[p], away["apply"][p], away["undo"][p]}

\* When a call has ended, bytes that are not at their path are in a container
\* that the error names: nothing is left where nobody is told to look.
RecoveryReported ==
  pc \in Ended \ {"dead"} =>
    \A p \in Path \ (reported \cup late) : saved[p] \subseteq {target[p]}

\* Where nobody else interfered, a commit that returns has published the whole
\* plan, and one that throws a plain error has left every file as it was.
AllOrNothing ==
  \A p \in Path \ touched :
    /\ pc = "committed" => target[p] = IF p \in Written \cup Deleted THEN Goal(p) ELSE prev[p]
    /\ pc = "failed" /\ reported = {} => target[p] = prev[p]

\* A rollback that reports success has undone the whole plan; the caller of
\* commit was not told of a container (FsRollbackError) before.
RollbackComplete ==
  pc = "rolledBack" /\ reported = {} => \A p \in Path \ touched : target[p] = prev[p]

\* What the comment on FsRollbackError says: rollback throws it when it could
\* not restore every path, so a result means that every path is restored.
RollbackHonest ==
  pc = "rolledBack" => \A p \in Path \ touched : target[p] = prev[p]
=============================================================================
