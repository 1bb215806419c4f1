------------------------ MODULE FsTransactionProofs ------------------------
(***************************************************************************)
(* The type invariant of the file-system transaction, and what it promises *)
(* of other programs' bytes and of its own plan, proved for any number of  *)
(* paths, edits and errors.                                                *)
(***************************************************************************)
EXTENDS FsTransaction, WellFoundedInduction, TLAPS

\* What the labels say of the path the transaction is at.
AtPath ==
  /\ pc = "planning" => ops = {} /\ \A p \in pending : p < cur
  /\ pc \in Applying => cur \in pending
  /\ pc \in Undoing => cur \in ops
  /\ pc \in {"capture", "compare", "putback", "undoReplace"} => prev[cur] # Gone
  /\ pc \in {"install", "undoCapture", "undoCompare", "undoTidy"} => cur \in Written

\* Only a file that was there is to be deleted.
HadFile == \A p \in (pending \cup ops) \cap Deleted : prev[p] # Gone

IInv == TypeOK /\ AtPath /\ HadFile

-----------------------------------------------------------------------------
(* What the transaction knows of the bytes: the safety invariant.            *)

\* The labels between which a file is in a container of the commit, or of the
\* rollback.
Held == {"compare", "putback", "install"}
HeldBack == {"undoCompare", "undoPutback"}

\* The labels of a commit that has not failed.
Forward == {"planning", "planned", "verify", "committed"} \cup Applying

\* The bytes there have been so far.  Nobody but the transaction writes New.
Known == Gone .. Edit(edits)
BytesKnown ==
  /\ \A p \in Path :
       /\ target[p] \in Known /\ prev[p] \in Known \ {New}
       /\ \A s \in Slot : away[s][p] \in Known
       /\ saved[p] \subseteq Known \ {Gone, New}
  /\ pc = "planning" => \A p \in Path : target[p] # New

\* Who holds a file open writes to a file that exists.
HandlesLive ==
  \A p \in Path :
    /\ handle[p] = "target" => target[p] # Gone
    /\ handle[p] \in Slot => away[handle[p]][p] # Gone

\* How far the loops are: a commit has recorded what lies before its path, a
\* rollback has dealt with what lies behind it.
Progress ==
  /\ pc \in {"planning", "planned"} => ops = {}
  /\ pc \in Applying =>
       /\ \A p \in pending : p < cur => p \in ops
       /\ \A p \in ops : p < cur \/ (pc = "tidy" /\ p = cur)
       /\ pc = "tidy" => cur \in ops
  /\ pc = "verify" => pending \subseteq ops
  /\ pc \in Forward => failures = {} /\ reported = {}
  /\ pc \in Undoing => \A p \in ops : p <= cur \/ p \in failures
  /\ pc = "cleanup" => ops \subseteq failures
  /\ pc \in {"failed", "rolledBack"} => ops = {} /\ failures = {}
  /\ pc \in Forward \cup {"failed"} => applied \subseteq (IF pc = "tidy" THEN {cur} ELSE {})

\* What was not staged was as it should be.
Staged ==
  /\ pc \in Forward \ {"committed"} =>
       \A p \in (Written \cup Deleted) \ pending :
         prev[p] = Goal(p) \/ (pc = "planning" /\ cur <= p)
  /\ pc = "committed" => \A p \in (Written \cup Deleted) \ ops : prev[p] = Goal(p)

\* What the containers of a path hold that is dealt with, or yet to come.
Containers ==
  /\ pc \in {"planning", "planned"} => \A p \in Path : away["apply"][p] = Gone
  /\ pc \in Applying => \A p \in pending :
       cur < p \/ (p = cur /\ pc \in {"ready", "capture"}) => away["apply"][p] = Gone
  /\ pc \in {"install", "tidy"} /\ cur \notin late => away["apply"][cur] = prev[cur]
  /\ pc \in Forward => \A p \in Path : away["undo"][p] = Gone
  /\ pc \in Undoing => \A p \in ops :
       p < cur \/ (p = cur /\ pc \in {"undo", "undoCapture"}) => away["undo"][p] = Gone
  /\ pc \in {"undoReplace", "undoTidy"} /\ cur \in Written \ late => away["undo"][cur] = New

\* The old bytes of a recorded path are the transaction's to remove, until it
\* has put them back.
Forgotten ==
  /\ pc # "dead" => \A p \in ops : prev[p] \in saved[p] => pc = "undoTidy" /\ p = cur
  /\ \A p \in applied :
       /\ p \notin late => away["apply"][p] = prev[p]
       /\ prev[p] \in saved[p] => target[p] = prev[p]

\* RecoveryReported in the middle of a call: what is neither at its path nor
\* reported is the file the transaction holds at the moment.
Reachable ==
  pc # "dead" => \A p \in Path \ (reported \cup late) : \A b \in saved[p] :
    \/ b = target[p]
    \/ p = cur /\ pc \in Held /\ b = away["apply"][p]
    \/ p = cur /\ pc \in HeldBack /\ b = away["undo"][p]

\* AllOrNothing and RollbackComplete in the middle of a call: where nobody else
\* interfered, a recorded path is as the plan wants it and any other as it was.
Effects ==
  /\ pc = "planning" => \A p \in Path \ touched : p < cur => target[p] = prev[p]
  /\ pc \notin {"planning", "broken", "dead"} =>
       \A p \in Path \ (touched \cup reported \cup failures) :
         IF p = cur /\ pc \in Held /\ prev[p] # Gone
         THEN target[p] = Gone /\ away["apply"][p] = prev[p]
         ELSE IF p = cur /\ pc \in HeldBack \cup {"undoReplace"} THEN target[p] = Gone
         ELSE IF p = cur /\ pc = "undoTidy" THEN target[p] = prev[p]
         ELSE target[p] = IF p \in ops THEN Goal(p) ELSE prev[p]
  /\ late \subseteq touched

Safe == /\ BytesKnown /\ HandlesLive /\ Progress /\ Staged /\ Containers
        /\ Forgotten /\ BytesSurvive /\ Reachable /\ Effects

-----------------------------------------------------------------------------
(* The loops. *)

\* A set of numbers has a least one.
LEMMA Least ==
  ASSUME NEW S, S \subseteq Nat, S # {}
  PROVE  \E m \in S : \A n \in S : m <= n
<1> DEFINE R == {ss \in Nat \X Nat : ss[1] < ss[2]}
<1>1. IsWellFoundedOn(R, Nat)
  BY NatLessThanWellFounded DEF OpToRel
<1> HIDE DEF R
<1>2. PICK m \in S : \A n \in S : ~ (<<n, m>> \in R)
  BY <1>1, WFMin
<1>3. ASSUME NEW n \in S PROVE m <= n
  <2>1. m \in Nat /\ n \in Nat
    OBVIOUS
  <2>2. ~ (<<n, m>> \in R)
    BY <1>2
  <2>3. ~ (n < m)
    BY <2>1, <2>2 DEF R
  <2> QED  BY <2>1, <2>3
<1> QED  BY <1>3

\* Paths are numbers, in the order of the plan.
LEMMA PathNat == Path \subseteq Nat
BY FsAssumption, SMT DEF Path

\* First and Last are applied to sets of paths, which have both.
LEMMA FirstIn ==
  ASSUME NEW S, S \subseteq Path, S # {}
  PROVE  First(S) \in S /\ \A q \in S : First(S) <= q
<1>1. S \subseteq Nat
  BY PathNat
<1>2. \E p \in S : \A q \in S : p <= q
  BY <1>1, Least
<1> QED  BY <1>2 DEF First

\* The last one is the first one counted from the end.
LEMMA LastIn ==
  ASSUME NEW S, S \subseteq Path, S # {}
  PROVE  Last(S) \in S /\ \A q \in S : q <= Last(S)
<1> USE FsAssumption DEF Path
<1> DEFINE T == {NPaths - p : p \in S}
<1>1. PICK m \in T : \A n \in T : m <= n
  <2>1. T \subseteq Nat
    BY SMT
  <2>2. T # {}
    OBVIOUS
  <2> HIDE DEF T
  <2> QED  BY <2>1, <2>2, Least
<1>2. PICK p \in S : m = NPaths - p
  BY <1>1
<1>3. \A q \in S : q <= p
  <2> TAKE q \in S
  <2>1. NPaths - q \in T
    OBVIOUS
  <2>2. m <= NPaths - q
    BY <1>1, <2>1
  <2> QED  BY <1>2, <2>2
<1> QED  BY <1>2, <1>3 DEF Last

\* A commit goes on at the first path of its set, or has none left.
LEMMA WorkAt ==
  ASSUME NEW S, S \subseteq Path, Work(S)
  PROVE  \/ pc' = "verify" /\ cur' = cur /\ S = {}
         \/ pc' = "ready" /\ cur' \in S /\ \A q \in S : cur' <= q
<1>1. CASE S = {}
  BY <1>1 DEF Work
<1>2. CASE S # {}
  BY <1>2, FirstIn DEF Work
<1> QED  BY <1>1, <1>2

\* So does a rollback, at the last one.
LEMMA UnwindAt ==
  ASSUME NEW S, S \subseteq Path, Unwind(S)
  PROVE  \/ pc' = "cleanup" /\ cur' = cur /\ S = {}
         \/ pc' = "undo" /\ cur' \in S /\ \A q \in S : q <= cur'
<1>1. CASE S = {}
  BY <1>1 DEF Unwind
<1>2. CASE S # {}
  BY <1>2, LastIn DEF Unwind
<1> QED  BY <1>1, <1>2

\* The loops over what is pending, and over what is recorded.
LEMMA Works ==
  ASSUME TypeOK, NEW S, S \subseteq pending, Work(S)
  PROVE  \/ pc' = "verify" /\ cur' = cur /\ S = {}
         \/ pc' = "ready" /\ cur' \in S /\ \A q \in S : cur' <= q
<1>1. S \subseteq Path
  BY FsAssumption DEF TypeOK
<1> QED  BY <1>1, WorkAt

LEMMA Unwinds ==
  ASSUME TypeOK, Unwind(ops)
  PROVE  \/ pc' = "cleanup" /\ cur' = cur /\ ops = {}
         \/ pc' = "undo" /\ cur' \in ops /\ \A q \in ops : q <= cur'
<1>1. ops \subseteq Path
  BY FsAssumption DEF TypeOK
<1> QED  BY <1>1, UnwindAt

\* An operation is dealt with: the rollback goes on at the last one before it,
\* or ends.
LEMMA DealtWith ==
  ASSUME TypeOK, Completed \/ Failed
  PROVE  \/ pc' = "cleanup" /\ \A q \in ops : ~ (q < cur)
         \/ /\ pc' = "undo" /\ cur' \in ops' /\ cur' < cur
            /\ \A q \in ops : q < cur => q <= cur'
<1> DEFINE S == {p \in ops : p < cur}
<1>1. Unwind(S)
  BY DEF Completed, Failed, NextUndo
<1>2. S \subseteq ops' /\ S \subseteq Path
  <2>1. cur \in Nat
    BY FsAssumption DEF TypeOK, Path
  <2>2. ~ (cur < cur)
    BY <2>1
  <2> QED  BY <2>2, FsAssumption DEF TypeOK, Completed, Failed
<1>3. \/ pc' = "cleanup" /\ S = {}
      \/ pc' = "undo" /\ cur' \in S /\ \A q \in S : q <= cur'
  <2> HIDE DEF S
  <2> QED  BY <1>1, <1>2, UnwindAt
<1> QED  BY <1>2, <1>3

-----------------------------------------------------------------------------
(* The types, and what the labels say: one step per action. *)

\* Every step keeps the types.
LEMMA TypeKept ==
  ASSUME IInv, [Next]_vars
  PROVE  TypeOK'
<1> USE DEF IInv, disk, plan, outcome, editor
<1>1. ASSUME Stage PROVE TypeOK'
  BY <1>1, FsAssumption DEF TypeOK, Path, Stage, Stay, Label
<1>2. ASSUME NEW e \in BOOLEAN, BeginCommit(e) PROVE TypeOK'
  BY <1>2, Works, FsAssumption DEF TypeOK, BeginCommit, Io, Stay, Label, Applying, Ended
<1>3. ASSUME NEW e \in BOOLEAN, Ready(e) PROVE TypeOK'
  BY <1>3, Unwinds, FsAssumption DEF TypeOK, Ready, Io, Stay, Label, Applying, Undoing
<1>4. ASSUME NEW e \in BOOLEAN, Capture(e) PROVE TypeOK'
  BY <1>4, Unwinds, FsAssumption DEF TypeOK, Capture, Io, Displace, Follow, Stay, Label,
     Applying, Undoing, Slot
<1>5. ASSUME NEW e \in BOOLEAN, Compare(e) PROVE TypeOK'
  <2> USE <1>5 DEF Compare
  <2>1. pc' \in Label /\ cur' \in Path
    BY DEF TypeOK, Stay, Record, Label, Applying, Undoing
  <2>2. target' \in [Path -> Bytes \cup {Gone}] /\ away' \in [Slot -> [Path -> Bytes \cup {Gone}]]
    BY FsAssumption DEF TypeOK, Slot, Bytes, Gone, Old, New, Edit
  <2>3. handle' \in [Path -> {"none", "target", "dead"} \cup Slot]
    BY DEF TypeOK, Slot
  <2>4. saved' \in [Path -> SUBSET Bytes]
    BY FsAssumption DEF TypeOK, Record
  <2>5. /\ ops' \subseteq Written \cup Deleted /\ applied' \subseteq Path
        /\ failures' \subseteq Path /\ reported' \subseteq Path
    BY FsAssumption DEF TypeOK, Record, AtPath, Applying
  <2>6. faults' \in 0 .. MaxFaults
    BY FsAssumption DEF TypeOK, Io
  <2> QED  BY <2>1, <2>2, <2>3, <2>4, <2>5, <2>6 DEF TypeOK
<1>6. ASSUME NEW e \in BOOLEAN, Putback(e) PROVE TypeOK'
  BY <1>6, Unwinds, FsAssumption DEF TypeOK, Putback, Io, LinkBack, Follow, Label, Undoing,
     Slot
<1>7. ASSUME NEW e \in BOOLEAN, Install(e) PROVE TypeOK'
  <2> USE <1>7 DEF Install
  <2>1. pc' \in Label /\ cur' \in Path
    BY Unwinds, FsAssumption DEF TypeOK, Stay, Record, Label, Applying, Undoing
  <2>2. target' \in [Path -> Bytes \cup {Gone}] /\ away' \in [Slot -> [Path -> Bytes \cup {Gone}]]
    BY FsAssumption DEF TypeOK, Slot, Bytes, Gone, Old, New, Edit
  <2>3. handle' \in [Path -> {"none", "target", "dead"} \cup Slot]
    BY DEF TypeOK, Slot
  <2>4. saved' \in [Path -> SUBSET Bytes]
    BY FsAssumption DEF TypeOK, Record
  <2>5. /\ ops' \subseteq Written \cup Deleted /\ applied' \subseteq Path
        /\ failures' \subseteq Path /\ reported' \subseteq Path
    BY FsAssumption DEF TypeOK, Record, AtPath, Applying
  <2>6. faults' \in 0 .. MaxFaults
    BY FsAssumption DEF TypeOK, Io
  <2> QED  BY <2>1, <2>2, <2>3, <2>4, <2>5, <2>6 DEF TypeOK
<1>8. ASSUME NEW e \in BOOLEAN, Tidy(e) PROVE TypeOK'
  BY <1>8, Unwinds, Works, FsAssumption DEF TypeOK, Tidy, Io, Discard, Follow, Label, Applying,
     Undoing
<1>9. ASSUME NEW e \in BOOLEAN, Verify(e) PROVE TypeOK'
  BY <1>9, Unwinds, FsAssumption DEF TypeOK, Verify, Io, Stay, Label, Undoing, Ended
<1>10. ASSUME Rollback PROVE TypeOK'
  BY <1>10, Unwinds, FsAssumption DEF TypeOK, Rollback, Label, Undoing
<1>11. ASSUME Cleanup PROVE TypeOK'
  BY <1>11 DEF TypeOK, Cleanup, Stay, Slot, Label, Ended
<1>12. ASSUME NEW e \in BOOLEAN, Undo(e) PROVE TypeOK'
  <2> USE <1>12 DEF Undo
  <2>1. pc' \in Label /\ cur' \in Path
    <3>1. Completed \/ Failed => pc' \in {"undo", "cleanup"} /\ cur' \in Path
      BY DealtWith, UnwindAt, FsAssumption DEF TypeOK, Completed, Failed, NextUndo, Unwind
    <3> QED  BY <3>1 DEF TypeOK, Stay, Label, Applying, Undoing
  <2>2. target' \in [Path -> Bytes \cup {Gone}] /\ away' \in [Slot -> [Path -> Bytes \cup {Gone}]]
    BY FsAssumption DEF TypeOK, Slot, Bytes, Gone, Old, New, Edit
  <2>3. handle' \in [Path -> {"none", "target", "dead"} \cup Slot]
    BY DEF TypeOK, Slot
  <2>4. saved' \in [Path -> SUBSET Bytes]
    BY FsAssumption DEF TypeOK
  <2>5. /\ ops' \subseteq Written \cup Deleted /\ applied' \subseteq Path
        /\ failures' \subseteq Path /\ reported' \subseteq Path
    BY FsAssumption DEF TypeOK, Completed, Failed
  <2>6. faults' \in 0 .. MaxFaults
    BY FsAssumption DEF TypeOK, Io
  <2> QED  BY <2>1, <2>2, <2>3, <2>4, <2>5, <2>6 DEF TypeOK
<1>13. ASSUME NEW e \in BOOLEAN, UndoCapture(e) PROVE TypeOK'
  <2> USE <1>13 DEF UndoCapture
  <2>1. pc' \in Label /\ cur' \in Path
    <3>1. Completed \/ Failed => pc' \in {"undo", "cleanup"} /\ cur' \in Path
      BY DealtWith, UnwindAt, FsAssumption DEF TypeOK, Completed, Failed, NextUndo, Unwind
    <3> QED  BY <3>1 DEF TypeOK, Stay, Label, Applying, Undoing
  <2>2. target' \in [Path -> Bytes \cup {Gone}] /\ away' \in [Slot -> [Path -> Bytes \cup {Gone}]]
    BY FsAssumption DEF TypeOK, Displace, Slot, Bytes, Gone, Old, New, Edit
  <2>3. handle' \in [Path -> {"none", "target", "dead"} \cup Slot]
    BY DEF TypeOK, Displace, Follow, Slot
  <2>4. saved' \in [Path -> SUBSET Bytes]
    BY FsAssumption DEF TypeOK
  <2>5. /\ ops' \subseteq Written \cup Deleted /\ applied' \subseteq Path
        /\ failures' \subseteq Path /\ reported' \subseteq Path
    BY FsAssumption DEF TypeOK, Failed
  <2>6. faults' \in 0 .. MaxFaults
    BY FsAssumption DEF TypeOK, Io
  <2> QED  BY <2>1, <2>2, <2>3, <2>4, <2>5, <2>6 DEF TypeOK
<1>14. ASSUME NEW e \in BOOLEAN, UndoCompare(e) PROVE TypeOK'
  <2> USE <1>14 DEF UndoCompare
  <2>1. pc' \in Label /\ cur' \in Path
    <3>1. Completed \/ Failed => pc' \in {"undo", "cleanup"} /\ cur' \in Path
      BY DealtWith, UnwindAt, FsAssumption DEF TypeOK, Completed, Failed, NextUndo, Unwind
    <3> QED  BY <3>1 DEF TypeOK, Stay, Label, Applying, Undoing
  <2>2. target' \in [Path -> Bytes \cup {Gone}] /\ away' \in [Slot -> [Path -> Bytes \cup {Gone}]]
    BY FsAssumption DEF TypeOK, Discard, Slot, Bytes, Gone, Old, New, Edit
  <2>3. handle' \in [Path -> {"none", "target", "dead"} \cup Slot]
    BY DEF TypeOK, Discard, Follow, Slot
  <2>4. saved' \in [Path -> SUBSET Bytes]
    BY FsAssumption DEF TypeOK
  <2>5. /\ ops' \subseteq Written \cup Deleted /\ applied' \subseteq Path
        /\ failures' \subseteq Path /\ reported' \subseteq Path
    BY FsAssumption DEF TypeOK, Completed
  <2>6. faults' \in 0 .. MaxFaults
    BY FsAssumption DEF TypeOK, Io
  <2> QED  BY <2>1, <2>2, <2>3, <2>4, <2>5, <2>6 DEF TypeOK
<1>15. ASSUME NEW e \in BOOLEAN, UndoPutback(e) PROVE TypeOK'
  <2> USE <1>15 DEF UndoPutback
  <2>1. pc' \in Label /\ cur' \in Path
    <3>1. Completed \/ Failed => pc' \in {"undo", "cleanup"} /\ cur' \in Path
      BY DealtWith, UnwindAt, FsAssumption DEF TypeOK, Completed, Failed, NextUndo, Unwind
    <3> QED  BY <3>1 DEF TypeOK, Label, Applying, Undoing
  <2>2. target' \in [Path -> Bytes \cup {Gone}] /\ away' \in [Slot -> [Path -> Bytes \cup {Gone}]]
    BY FsAssumption DEF TypeOK, LinkBack, Slot, Bytes, Gone, Old, New, Edit
  <2>3. handle' \in [Path -> {"none", "target", "dead"} \cup Slot]
    BY DEF TypeOK, LinkBack, Follow, Slot
  <2>4. saved' \in [Path -> SUBSET Bytes]
    BY FsAssumption DEF TypeOK
  <2>5. /\ ops' \subseteq Written \cup Deleted /\ applied' \subseteq Path
        /\ failures' \subseteq Path /\ reported' \subseteq Path
    BY FsAssumption DEF TypeOK, Failed
  <2>6. faults' \in 0 .. MaxFaults
    BY FsAssumption DEF TypeOK, Io
  <2> QED  BY <2>1, <2>2, <2>3, <2>4, <2>5, <2>6 DEF TypeOK
<1>16. ASSUME NEW e \in BOOLEAN, UndoReplace(e) PROVE TypeOK'
  <2> USE <1>16 DEF UndoReplace
  <2>1. pc' \in Label /\ cur' \in Path
    <3>1. Completed \/ Failed => pc' \in {"undo", "cleanup"} /\ cur' \in Path
      BY DealtWith, UnwindAt, FsAssumption DEF TypeOK, Completed, Failed, NextUndo, Unwind
    <3> QED  BY <3>1 DEF TypeOK, Stay, Label, Applying, Undoing
  <2>2. target' \in [Path -> Bytes \cup {Gone}] /\ away' \in [Slot -> [Path -> Bytes \cup {Gone}]]
    BY FsAssumption DEF TypeOK, Discard, Slot, Bytes, Gone, Old, New, Edit
  <2>3. handle' \in [Path -> {"none", "target", "dead"} \cup Slot]
    BY DEF TypeOK, Discard, Follow, Slot
  <2>4. saved' \in [Path -> SUBSET Bytes]
    BY FsAssumption DEF TypeOK, AtPath, Bytes, Gone, Old, New, Edit
  <2>5. /\ ops' \subseteq Written \cup Deleted /\ applied' \subseteq Path
        /\ failures' \subseteq Path /\ reported' \subseteq Path
    BY FsAssumption DEF TypeOK, Completed, Failed
  <2>6. faults' \in 0 .. MaxFaults
    BY FsAssumption DEF TypeOK, Io
  <2> QED  BY <2>1, <2>2, <2>3, <2>4, <2>5, <2>6 DEF TypeOK
<1>17. ASSUME NEW e \in BOOLEAN, UndoTidy(e) PROVE TypeOK'
  <2> USE <1>17 DEF UndoTidy
  <2>1. pc' \in Label /\ cur' \in Path
    <3>1. Completed \/ Failed => pc' \in {"undo", "cleanup"} /\ cur' \in Path
      BY DealtWith, UnwindAt, FsAssumption DEF TypeOK, Completed, Failed, NextUndo, Unwind
    <3> QED  BY <3>1 DEF TypeOK, Label, Applying, Undoing
  <2>2. target' \in [Path -> Bytes \cup {Gone}] /\ away' \in [Slot -> [Path -> Bytes \cup {Gone}]]
    BY FsAssumption DEF TypeOK, Discard, Slot, Bytes, Gone, Old, New, Edit
  <2>3. handle' \in [Path -> {"none", "target", "dead"} \cup Slot]
    BY DEF TypeOK, Discard, Follow, Slot
  <2>4. saved' \in [Path -> SUBSET Bytes]
    BY FsAssumption DEF TypeOK
  <2>5. /\ ops' \subseteq Written \cup Deleted /\ applied' \subseteq Path
        /\ failures' \subseteq Path /\ reported' \subseteq Path
    BY FsAssumption DEF TypeOK, Completed
  <2>6. faults' \in 0 .. MaxFaults
    BY FsAssumption DEF TypeOK, Io
  <2> QED  BY <2>1, <2>2, <2>3, <2>4, <2>5, <2>6 DEF TypeOK
<1>18. ASSUME Die PROVE TypeOK'
  BY <1>18 DEF TypeOK, Die, Stay, Label, Ended
<1>19. ASSUME NEW p \in Path, Replace(p) PROVE TypeOK'
  BY <1>19, FsAssumption DEF TypeOK, Replace, Edited, Follow, Bytes, Old, Edit
<1>20. ASSUME NEW p \in Path, OpenInPlace(p) PROVE TypeOK'
  BY <1>20 DEF TypeOK, OpenInPlace
<1>21. ASSUME NEW p \in Path, WriteInPlace(p) PROVE TypeOK'
  BY <1>21, FsAssumption, SMTT(20) DEF TypeOK, WriteInPlace, Bytes, Old, Edit
<1>22. CASE UNCHANGED vars
  BY <1>22 DEF vars, TypeOK
<1> QED  BY <1>1, <1>2, <1>3, <1>4, <1>5, <1>6, <1>7, <1>8, <1>9, <1>10, <1>11, <1>12, <1>13,
   <1>14, <1>15, <1>16, <1>17, <1>18, <1>19, <1>20, <1>21, <1>22 DEF Next, Commit,
   UndoOperations, Finished

\* Every step keeps what the labels say of the path.
LEMMA AtPathKept ==
  ASSUME IInv, [Next]_vars
  PROVE  AtPath'
<1> USE DEF IInv, disk, plan, outcome, editor
<1>1. ASSUME Stage PROVE AtPath'
  <2> USE <1>1 DEF Stage
  <2>1. cur \in Nat /\ ~ (cur < cur) /\ cur < cur + 1
    BY FsAssumption DEF TypeOK, Path
  <2>2. \A p \in pending : p < cur /\ p < cur + 1
    BY <2>1, FsAssumption DEF AtPath, TypeOK, Path
  <2>3. ops' = {} /\ pc' \in {"planning", "planned"}
    BY DEF Stay, AtPath
  <2>4. pc' = "planning" => cur' = cur + 1
    BY DEF Stay
  <2>5. pending' \subseteq pending \cup {cur}
      OBVIOUS
  <2> QED  BY <2>1, <2>2, <2>3, <2>4, <2>5 DEF AtPath, Applying, Undoing
<1>2. ASSUME NEW e \in BOOLEAN, BeginCommit(e) PROVE AtPath'
  BY <1>2, Works DEF AtPath, BeginCommit, Stay, Applying, Undoing
<1>3. ASSUME NEW e \in BOOLEAN, Ready(e) PROVE AtPath'
  BY <1>3, Unwinds DEF AtPath, Ready, Stay, TypeOK, HadFile, Applying, Undoing
<1>4. ASSUME NEW e \in BOOLEAN, Capture(e) PROVE AtPath'
  BY <1>4, Unwinds DEF AtPath, Capture, Stay, Applying, Undoing
<1>5. ASSUME NEW e \in BOOLEAN, Compare(e) PROVE AtPath'
  BY <1>5 DEF AtPath, Compare, Record, Stay, Applying, Undoing
<1>6. ASSUME NEW e \in BOOLEAN, Putback(e) PROVE AtPath'
  BY <1>6, Unwinds DEF AtPath, Putback, Applying, Undoing
<1>7. ASSUME NEW e \in BOOLEAN, Install(e) PROVE AtPath'
  BY <1>7, Unwinds DEF AtPath, Install, Record, Stay, Applying, Undoing
<1>8. ASSUME NEW e \in BOOLEAN, Tidy(e) PROVE AtPath'
  BY <1>8, Unwinds, Works DEF AtPath, Tidy, Applying, Undoing
<1>9. ASSUME NEW e \in BOOLEAN, Verify(e) PROVE AtPath'
  BY <1>9, Unwinds DEF AtPath, Verify, Stay, Applying, Undoing
<1>10. ASSUME Rollback PROVE AtPath'
  BY <1>10, Unwinds DEF AtPath, Rollback, Applying, Undoing
<1>11. ASSUME Cleanup PROVE AtPath'
  BY <1>11 DEF AtPath, Cleanup, Stay, Applying, Undoing
<1>12. ASSUME NEW e \in BOOLEAN, Undo(e) PROVE AtPath'
  BY <1>12, DealtWith DEF AtPath, Undo, Stay, TypeOK, HadFile, Applying, Undoing
<1>13. ASSUME NEW e \in BOOLEAN, UndoCapture(e) PROVE AtPath'
  BY <1>13, DealtWith DEF AtPath, UndoCapture, Stay, Applying, Undoing
<1>14. ASSUME NEW e \in BOOLEAN, UndoCompare(e) PROVE AtPath'
  BY <1>14, DealtWith DEF AtPath, UndoCompare, Stay, Applying, Undoing
<1>15. ASSUME NEW e \in BOOLEAN, UndoPutback(e) PROVE AtPath'
  BY <1>15, DealtWith DEF AtPath, UndoPutback, Applying, Undoing
<1>16. ASSUME NEW e \in BOOLEAN, UndoReplace(e) PROVE AtPath'
  BY <1>16, DealtWith DEF AtPath, UndoReplace, Stay, TypeOK, Applying, Undoing
<1>17. ASSUME NEW e \in BOOLEAN, UndoTidy(e) PROVE AtPath'
  BY <1>17, DealtWith DEF AtPath, UndoTidy, Applying, Undoing
<1>18. ASSUME Die PROVE AtPath'
  BY <1>18 DEF AtPath, Die, Stay, Applying, Undoing
<1>19. ASSUME NEW p \in Path, Replace(p) PROVE AtPath'
  BY <1>19 DEF AtPath, Replace
<1>20. ASSUME NEW p \in Path, OpenInPlace(p) PROVE AtPath'
  BY <1>20 DEF AtPath, OpenInPlace
<1>21. ASSUME NEW p \in Path, WriteInPlace(p) PROVE AtPath'
  BY <1>21 DEF AtPath, WriteInPlace
<1>22. CASE UNCHANGED vars
  BY <1>22 DEF vars, AtPath
<1> QED  BY <1>1, <1>2, <1>3, <1>4, <1>5, <1>6, <1>7, <1>8, <1>9, <1>10, <1>11, <1>12, <1>13,
   <1>14, <1>15, <1>16, <1>17, <1>18, <1>19, <1>20, <1>21, <1>22 DEF Next, Commit,
   UndoOperations, Finished

\* A path is planned, or recorded, for deletion only if there was a file.
LEMMA HadFileKept ==
  ASSUME IInv, [Next]_vars
  PROVE  HadFile'
<1> USE DEF IInv, disk, plan, outcome, editor
<1>1. ASSUME Stage PROVE HadFile'
  <2> USE <1>1 DEF Stage
  <2>1. cur \notin pending
    <3>1. cur \in Nat /\ ~ (cur < cur)
      BY FsAssumption DEF TypeOK, Path
    <3> QED  BY <3>1 DEF AtPath
  <2>2. cur \in Deleted => cur \notin Written
    <3>1. cur \in Nat /\ ~ (cur < cur)
      BY FsAssumption DEF TypeOK, Path
    <3> QED  BY <3>1, FsAssumption
  <2>3. ops' = {}
    BY DEF AtPath
  <2>4. cur \in pending' /\ cur \in Deleted => prev'[cur] # Gone
    BY <2>1, <2>2 DEF Goal, TypeOK
  <2>5. ASSUME NEW p \in pending', p # cur PROVE p \in pending /\ prev'[p] = prev[p]
    BY <2>5 DEF TypeOK
  <2> QED  BY <2>3, <2>4, <2>5 DEF HadFile
<1>2. ASSUME NEW e \in BOOLEAN, BeginCommit(e) PROVE HadFile'
  BY <1>2 DEF HadFile, BeginCommit
<1>3. ASSUME NEW e \in BOOLEAN, Ready(e) PROVE HadFile'
  BY <1>3 DEF HadFile, Ready
<1>4. ASSUME NEW e \in BOOLEAN, Capture(e) PROVE HadFile'
  BY <1>4 DEF HadFile, Capture
<1>5. ASSUME NEW e \in BOOLEAN, Compare(e) PROVE HadFile'
  BY <1>5 DEF HadFile, Compare, Record, AtPath
<1>6. ASSUME NEW e \in BOOLEAN, Putback(e) PROVE HadFile'
  BY <1>6 DEF HadFile, Putback
<1>7. ASSUME NEW e \in BOOLEAN, Install(e) PROVE HadFile'
  BY <1>7 DEF HadFile, Install, Record, AtPath, Applying
<1>8. ASSUME NEW e \in BOOLEAN, Tidy(e) PROVE HadFile'
  BY <1>8 DEF HadFile, Tidy
<1>9. ASSUME NEW e \in BOOLEAN, Verify(e) PROVE HadFile'
  BY <1>9 DEF HadFile, Verify
<1>10. ASSUME Rollback PROVE HadFile'
  BY <1>10 DEF HadFile, Rollback
<1>11. ASSUME Cleanup PROVE HadFile'
  BY <1>11 DEF HadFile, Cleanup
<1>12. ASSUME NEW e \in BOOLEAN, Undo(e) PROVE HadFile'
  BY <1>12 DEF HadFile, Undo, Completed, Failed
<1>13. ASSUME NEW e \in BOOLEAN, UndoCapture(e) PROVE HadFile'
  BY <1>13 DEF HadFile, UndoCapture, Failed
<1>14. ASSUME NEW e \in BOOLEAN, UndoCompare(e) PROVE HadFile'
  BY <1>14 DEF HadFile, UndoCompare, Completed
<1>15. ASSUME NEW e \in BOOLEAN, UndoPutback(e) PROVE HadFile'
  BY <1>15 DEF HadFile, UndoPutback, Failed
<1>16. ASSUME NEW e \in BOOLEAN, UndoReplace(e) PROVE HadFile'
  BY <1>16 DEF HadFile, UndoReplace, Completed, Failed
<1>17. ASSUME NEW e \in BOOLEAN, UndoTidy(e) PROVE HadFile'
  BY <1>17 DEF HadFile, UndoTidy, Completed
<1>18. ASSUME Die PROVE HadFile'
  BY <1>18 DEF HadFile, Die
<1>19. ASSUME NEW p \in Path, Replace(p) PROVE HadFile'
  BY <1>19 DEF HadFile, Replace
<1>20. ASSUME NEW p \in Path, OpenInPlace(p) PROVE HadFile'
  BY <1>20 DEF HadFile, OpenInPlace
<1>21. ASSUME NEW p \in Path, WriteInPlace(p) PROVE HadFile'
  BY <1>21 DEF HadFile, WriteInPlace
<1>22. CASE UNCHANGED vars
  BY <1>22 DEF vars, HadFile
<1> QED  BY <1>1, <1>2, <1>3, <1>4, <1>5, <1>6, <1>7, <1>8, <1>9, <1>10, <1>11, <1>12, <1>13,
   <1>14, <1>15, <1>16, <1>17, <1>18, <1>19, <1>20, <1>21, <1>22 DEF Next, Commit,
   UndoOperations, Finished

\* Every step keeps the invariant.
LEMMA StepKeeps == IInv /\ [Next]_vars => IInv'
BY TypeKept, AtPathKept, HadFileKept DEF IInv

\* A project of any files satisfies it.
LEMMA InitHolds == Init => IInv
BY FsAssumption
   DEF Init, IInv, TypeOK, AtPath, HadFile, Path, Slot, Label, Applying, Undoing, Bytes,
       Gone, Old, New, Edit

\* The transaction's variables keep their types, whatever fails and whoever
\* edits: the loops never leave the plan, what is recorded is a path that was
\* staged, and what a rollback puts back is a file that was there.
THEOREM TypeCorrect == Spec => []TypeOK
BY InitHolds, StepKeeps, PTL DEF Spec, IInv

-----------------------------------------------------------------------------
(* The steps, one conjunct of the safety invariant at a time. *)

\* A rollback has dealt with everything behind the operation it goes on with.
LEMMA UndoGoesOn ==
  ASSUME IInv, Safe, pc \in Undoing, Completed \/ Failed
  PROVE  /\ pc' \in {"undo", "cleanup"} /\ ops' \subseteq ops /\ failures \subseteq failures'
         /\ pc' = "cleanup" => ops' \subseteq failures'
         /\ pc' = "undo" => /\ cur' \in ops' /\ cur' < cur
                            /\ \A p \in ops' : p <= cur' \/ p \in failures'
<1> USE DEF IInv
<1>1. \A p \in ops : p \in Nat
  BY PathNat, FsAssumption DEF TypeOK
<1>2. cur \in Nat
  BY PathNat DEF TypeOK
<1>3. \A p \in ops : p < cur \/ p = cur \/ p \in failures
  BY <1>1, <1>2 DEF Safe, Progress
<1>4. ops' \subseteq ops /\ failures \subseteq failures' /\ (cur \in ops' => cur \in failures')
  BY DEF Completed, Failed
<1> QED  BY <1>3, <1>4, DealtWith

\* Nothing it has yet to undo is in a container of the rollback.
LEMMA UndoRest ==
  ASSUME IInv, Safe, pc \in Undoing, Completed \/ Failed
  PROVE  /\ pc' \in {"undo", "cleanup"} /\ ops' \subseteq ops
         /\ pc' = "undo" => /\ cur' # cur
                            /\ \A p \in ops' : p < cur' \/ p = cur' => p # cur /\ away["undo"][p] = Gone
<1> USE DEF IInv
<1>1. \A p \in ops : p \in Nat
  BY PathNat, FsAssumption DEF TypeOK
<1>2. cur \in Nat
  BY PathNat DEF TypeOK
<1>3. \A p \in ops : p < cur => away["undo"][p] = Gone
  BY DEF Safe, Containers
<1>4. ASSUME pc' = "undo", NEW p \in ops', p < cur' \/ p = cur'
      PROVE  p # cur /\ away["undo"][p] = Gone
  <2>1. cur' \in ops /\ cur' < cur /\ p \in ops
    BY <1>4, UndoGoesOn
  <2>2. p < cur /\ p # cur
    BY <1>1, <1>2, <1>4, <2>1
  <2> QED  BY <1>3, <2>1, <2>2
<1> QED  BY <1>1, <1>2, <1>4, UndoGoesOn

\* The bytes of the next edit are nowhere yet.
LEMMA Fresh == ASSUME BytesKnown, TypeOK
  PROVE /\ Edit(edits + 1) \notin Known
        /\ \A p \in Path : Edit(edits + 1) \notin {target[p], prev[p], Gone, New}
BY FsAssumption DEF BytesKnown, TypeOK, Known, Edit, Gone, New

\* Nobody but the transaction writes its bytes, and every edit brings bytes that
\* were not there before.
LEMMA BytesKnownKept ==
  ASSUME IInv, Safe, [Next]_vars
  PROVE  BytesKnown'
<1> USE DEF IInv, Safe, disk, plan, outcome, editor
<1>1. ASSUME Stage PROVE BytesKnown'
  BY <1>1 DEF Stage, BytesKnown, Known
<1>2. ASSUME NEW e \in BOOLEAN, BeginCommit(e) PROVE BytesKnown'
  BY <1>2, Works DEF BeginCommit, Stay, BytesKnown, Known
<1>3. ASSUME NEW e \in BOOLEAN, Ready(e) PROVE BytesKnown'
  BY <1>3, Unwinds DEF Ready, Stay, BytesKnown, Known
<1>4. ASSUME NEW e \in BOOLEAN, Capture(e) PROVE BytesKnown'
  BY <1>4, Unwinds DEF Capture, Displace, Stay, BytesKnown, Known, TypeOK, Gone, New, Edit
<1>5. ASSUME NEW e \in BOOLEAN, Compare(e) PROVE BytesKnown'
  BY <1>5 DEF Compare, Record, Stay, BytesKnown, Known, TypeOK
<1>6. ASSUME NEW e \in BOOLEAN, Putback(e) PROVE BytesKnown'
  BY <1>6, Unwinds DEF Putback, LinkBack, BytesKnown, Known, TypeOK, Slot
<1>7. ASSUME NEW e \in BOOLEAN, Install(e) PROVE BytesKnown'
  BY <1>7, Unwinds DEF Install, Record, Stay, BytesKnown, Known, TypeOK, Gone, New, Edit
<1>8. ASSUME NEW e \in BOOLEAN, Tidy(e) PROVE BytesKnown'
  BY <1>8, Unwinds, Works DEF Tidy, Discard, BytesKnown, Known, TypeOK, Slot, Gone, Edit
<1>9. ASSUME NEW e \in BOOLEAN, Verify(e) PROVE BytesKnown'
  BY <1>9, Unwinds DEF Verify, Stay, BytesKnown, Known
<1>10. ASSUME Rollback PROVE BytesKnown'
  BY <1>10, Unwinds DEF Rollback, BytesKnown, Known
<1>11. ASSUME Cleanup PROVE BytesKnown'
  BY <1>11 DEF Cleanup, Stay, BytesKnown, Known, TypeOK, Gone, Edit
<1>12. ASSUME NEW e \in BOOLEAN, Undo(e) PROVE BytesKnown'
  BY <1>12, DealtWith DEF Undo, Stay, BytesKnown, Known
<1>13. ASSUME NEW e \in BOOLEAN, UndoCapture(e) PROVE BytesKnown'
  BY <1>13, DealtWith DEF UndoCapture, Displace, Stay, BytesKnown, Known, TypeOK, Gone, New,
     Edit
<1>14. ASSUME NEW e \in BOOLEAN, UndoCompare(e) PROVE BytesKnown'
  BY <1>14, DealtWith DEF UndoCompare, Discard, Stay, BytesKnown, Known, TypeOK
<1>15. ASSUME NEW e \in BOOLEAN, UndoPutback(e) PROVE BytesKnown'
  BY <1>15, DealtWith DEF UndoPutback, LinkBack, BytesKnown, Known, TypeOK, Slot
<1>16. ASSUME NEW e \in BOOLEAN, UndoReplace(e) PROVE BytesKnown'
  <2> USE <1>16 DEF UndoReplace
  <2>1. pc' # "planning" /\ edits' = edits
    BY DEF Stay, Completed, Failed, NextUndo, Unwind
  <2>2. prev[cur] \in Known \ {Gone, New}
    BY DEF AtPath, BytesKnown, TypeOK
  <2>3. \A p \in Path : target'[p] \in {target[p], prev[p]} /\ saved'[p] \subseteq saved[p] \cup {prev[cur]}
    BY DEF TypeOK
  <2>4. Gone \in Known
    BY DEF TypeOK, Known, Gone, Edit
  <2>5. \A p \in Path : \A s \in Slot : away'[s][p] \in {away[s][p], Gone}
    BY DEF TypeOK, Slot, Discard
  <2>6. \A p \in Path : target'[p] \in Known /\ saved'[p] \subseteq Known \ {Gone, New}
    BY <2>2, <2>3 DEF BytesKnown
  <2>7. \A p \in Path : \A s \in Slot : away'[s][p] \in Known
    BY <2>4, <2>5 DEF BytesKnown
  <2>8. Known' = Known
    BY <2>1 DEF Known
  <2> QED  BY <2>1, <2>6, <2>7, <2>8 DEF BytesKnown
<1>17. ASSUME NEW e \in BOOLEAN, UndoTidy(e) PROVE BytesKnown'
  BY <1>17, DealtWith DEF UndoTidy, Discard, BytesKnown, Known, TypeOK, Slot, Gone, Edit
<1>18. ASSUME Die PROVE BytesKnown'
  BY <1>18 DEF Die, Stay, BytesKnown, Known
<1>19. ASSUME NEW p \in Path, Replace(p) PROVE BytesKnown'
  BY <1>19 DEF Replace, Edited, BytesKnown, Known, TypeOK, Gone, New, Edit
<1>20. ASSUME NEW p \in Path, OpenInPlace(p) PROVE BytesKnown'
  BY <1>20 DEF OpenInPlace, BytesKnown, Known
<1>21. ASSUME NEW p \in Path, WriteInPlace(p) PROVE BytesKnown'
  BY <1>21 DEF WriteInPlace, BytesKnown, Known, TypeOK, Gone, New, Edit
<1>22. CASE UNCHANGED vars
  BY <1>22 DEF vars, BytesKnown, Known
<1> QED  BY <1>1, <1>2, <1>3, <1>4, <1>5, <1>6, <1>7, <1>8, <1>9, <1>10, <1>11, <1>12, <1>13,
   <1>14, <1>15, <1>16, <1>17, <1>18, <1>19, <1>20, <1>21, <1>22 DEF Next, Commit,
   UndoOperations, Finished

\* A handle moves with its file.
LEMMA HandlesLiveKept ==
  ASSUME IInv, Safe, [Next]_vars
  PROVE  HandlesLive'
<1> USE DEF IInv, Safe, disk, plan, outcome, editor
<1>1. ASSUME Stage PROVE HandlesLive'
  BY <1>1 DEF HandlesLive, Stage
<1>2. ASSUME NEW e \in BOOLEAN, BeginCommit(e) PROVE HandlesLive'
  BY <1>2 DEF HandlesLive, BeginCommit
<1>3. ASSUME NEW e \in BOOLEAN, Ready(e) PROVE HandlesLive'
  BY <1>3 DEF HandlesLive, Ready
<1>4. ASSUME NEW e \in BOOLEAN, Capture(e) PROVE HandlesLive'
  BY <1>4 DEF HandlesLive, Capture, Displace, Follow, TypeOK
<1>5. ASSUME NEW e \in BOOLEAN, Compare(e) PROVE HandlesLive'
  BY <1>5 DEF HandlesLive, Compare
<1>6. ASSUME NEW e \in BOOLEAN, Putback(e) PROVE HandlesLive'
  BY <1>6 DEF HandlesLive, Putback, LinkBack, Follow, TypeOK, Slot
<1>7. ASSUME NEW e \in BOOLEAN, Install(e) PROVE HandlesLive'
  BY <1>7 DEF HandlesLive, Install, TypeOK
<1>8. ASSUME NEW e \in BOOLEAN, Tidy(e) PROVE HandlesLive'
  BY <1>8 DEF HandlesLive, Tidy, Discard, Follow, TypeOK, Slot
<1>9. ASSUME NEW e \in BOOLEAN, Verify(e) PROVE HandlesLive'
  BY <1>9 DEF HandlesLive, Verify
<1>10. ASSUME Rollback PROVE HandlesLive'
  BY <1>10 DEF HandlesLive, Rollback
<1>11. ASSUME Cleanup PROVE HandlesLive'
  BY <1>11 DEF HandlesLive, Cleanup, Slot
<1>12. ASSUME NEW e \in BOOLEAN, Undo(e) PROVE HandlesLive'
  BY <1>12 DEF HandlesLive, Undo
<1>13. ASSUME NEW e \in BOOLEAN, UndoCapture(e) PROVE HandlesLive'
  BY <1>13 DEF HandlesLive, UndoCapture, Displace, Follow, TypeOK
<1>14. ASSUME NEW e \in BOOLEAN, UndoCompare(e) PROVE HandlesLive'
  BY <1>14 DEF HandlesLive, UndoCompare, Discard, Follow, TypeOK, Slot
<1>15. ASSUME NEW e \in BOOLEAN, UndoPutback(e) PROVE HandlesLive'
  BY <1>15 DEF HandlesLive, UndoPutback, LinkBack, Follow, TypeOK, Slot
<1>16. ASSUME NEW e \in BOOLEAN, UndoReplace(e) PROVE HandlesLive'
  BY <1>16 DEF HandlesLive, UndoReplace, Discard, Follow, TypeOK, Slot
<1>17. ASSUME NEW e \in BOOLEAN, UndoTidy(e) PROVE HandlesLive'
  BY <1>17 DEF HandlesLive, UndoTidy, Discard, Follow, TypeOK, Slot
<1>18. ASSUME Die PROVE HandlesLive'
  BY <1>18 DEF HandlesLive, Die
<1>19. ASSUME NEW p \in Path, Replace(p) PROVE HandlesLive'
  BY <1>19 DEF HandlesLive, Replace, Follow, TypeOK, Slot
<1>20. ASSUME NEW p \in Path, OpenInPlace(p) PROVE HandlesLive'
  BY <1>20 DEF HandlesLive, OpenInPlace, Slot
<1>21. ASSUME NEW p \in Path, WriteInPlace(p) PROVE HandlesLive'
  <2> USE <1>21 DEF WriteInPlace
  <2>1. Edit(edits + 1) # Gone /\ handle' = handle
    BY Fresh
  <2>2. CASE handle[p] = "target"
    BY <2>1, <2>2 DEF HandlesLive, TypeOK, Slot
  <2>3. CASE handle[p] \in Slot
    <3>1. \A q \in Path : \A s \in Slot : away'[s][q] \in {away[s][q], Edit(edits + 1)}
      BY <2>3 DEF TypeOK, Slot
    <3> QED  BY <2>1, <2>3, <3>1 DEF HandlesLive, Slot
  <2> QED  BY <2>2, <2>3
<1>22. CASE UNCHANGED vars
  BY <1>22 DEF vars, HandlesLive
<1> QED  BY <1>1, <1>2, <1>3, <1>4, <1>5, <1>6, <1>7, <1>8, <1>9, <1>10, <1>11, <1>12, <1>13,
   <1>14, <1>15, <1>16, <1>17, <1>18, <1>19, <1>20, <1>21, <1>22 DEF Next, Commit,
   UndoOperations, Finished

\* The loops record what they have done.
LEMMA ProgressKept ==
  ASSUME IInv, Safe, [Next]_vars
  PROVE  Progress'
<1> USE DEF IInv, Safe, disk, plan, outcome, editor
<1>1. ASSUME Stage PROVE Progress'
  BY <1>1 DEF Progress, Stage, Stay, Forward, Applying
<1>2. ASSUME NEW e \in BOOLEAN, BeginCommit(e) PROVE Progress'
  <2> USE <1>2 DEF BeginCommit
  <2>1. ops = {} /\ failures = {} /\ reported = {} /\ applied = {}
    BY DEF Progress, Forward
  <2>2. /\ pc' \in {"failed", "committed", "ready"}
        /\ pc' = "ready" => cur' \in pending /\ \A q \in pending : cur' <= q
    BY Works DEF Stay
  <2>3. pc' = "ready" => \A q \in pending : ~ (q < cur')
    <3>1. \A q \in pending : q \in Nat
      BY PathNat, FsAssumption DEF TypeOK
    <3> QED  BY <2>2, <3>1
  <2> QED  BY <2>1, <2>2, <2>3 DEF Progress, Applying, Undoing, Forward
<1>3. ASSUME NEW e \in BOOLEAN, Ready(e) PROVE Progress'
  BY <1>3, Unwinds DEF Progress, Ready, Stay, Forward, Applying, Undoing
<1>4. ASSUME NEW e \in BOOLEAN, Capture(e) PROVE Progress'
  BY <1>4, Unwinds DEF Progress, Capture, Stay, Forward, Applying, Undoing
<1>5. ASSUME NEW e \in BOOLEAN, Compare(e) PROVE Progress'
  BY <1>5 DEF Progress, Compare, Record, Stay, Forward, Applying, Undoing
<1>6. ASSUME NEW e \in BOOLEAN, Putback(e) PROVE Progress'
  BY <1>6, Unwinds DEF Progress, Putback, Forward, Applying
<1>7. ASSUME NEW e \in BOOLEAN, Install(e) PROVE Progress'
  BY <1>7, Unwinds DEF Progress, Install, Record, Stay, Forward, Applying, Undoing
<1>8. ASSUME NEW e \in BOOLEAN, Tidy(e) PROVE Progress'
  <2> USE <1>8 DEF Tidy
  <2>1. /\ cur \in ops /\ \A p \in pending : p < cur => p \in ops
        /\ \A p \in ops : p < cur \/ p = cur
        /\ failures = {} /\ reported = {} /\ applied \subseteq {cur}
    BY DEF Progress, Applying, Forward
  <2>2. cur \in Nat /\ pending \subseteq Nat /\ ops \subseteq Nat
    BY PathNat, FsAssumption DEF TypeOK
  <2>3. CASE e
    <3>1. \/ pc' = "cleanup" /\ ops = {}
          \/ pc' = "undo" /\ \A q \in ops : q <= cur'
      BY <2>3, Unwinds
    <3> QED  BY <2>3, <3>1 DEF Progress, Applying, Undoing, Forward
  <2>4. CASE ~ e
    <3> DEFINE S == {p \in pending : p > cur}
    <3>1. S \subseteq pending /\ Work(S)
      BY <2>4
    <3>2. \/ pc' = "verify" /\ S = {}
          \/ pc' = "ready" /\ cur' \in S /\ \A q \in S : cur' <= q
      <4> HIDE DEF S
      <4> QED  BY <3>1, Works
    <3>3. applied' = {}
      BY <2>1, <2>4
    <3>4. CASE pc' = "verify" /\ S = {}
      <4>1. \A p \in pending : p < cur \/ p = cur
        BY <2>2, <3>4
      <4> QED  BY <2>1, <2>4, <3>3, <3>4, <4>1 DEF Progress, Applying, Undoing, Forward
    <3>5. CASE pc' = "ready" /\ cur' \in S /\ \A q \in S : cur' <= q
      <4>1. \A p \in pending : p < cur' => p < cur \/ p = cur
        BY <2>2, <3>5
      <4>2. \A p \in ops : p < cur'
        BY <2>1, <2>2, <3>5
      <4> QED  BY <2>1, <2>4, <3>3, <3>5, <4>1, <4>2 DEF Progress, Applying, Undoing, Forward
    <3> QED  BY <3>2, <3>4, <3>5
  <2> QED  BY <2>3, <2>4
<1>9. ASSUME NEW e \in BOOLEAN, Verify(e) PROVE Progress'
  BY <1>9, Unwinds DEF Progress, Verify, Stay, Forward, Applying, Undoing
<1>10. ASSUME Rollback PROVE Progress'
  BY <1>10, Unwinds DEF Progress, Rollback, Forward, Applying
<1>11. ASSUME Cleanup PROVE Progress'
  BY <1>11 DEF Progress, Cleanup, Stay, Forward, Applying
<1>12. ASSUME NEW e \in BOOLEAN, Undo(e) PROVE Progress'
  BY <1>12, UndoGoesOn DEF Progress, Undo, Stay, Forward, Applying, Undoing
<1>13. ASSUME NEW e \in BOOLEAN, UndoCapture(e) PROVE Progress'
  <2> USE <1>13 DEF UndoCapture
  <2>1. CASE e \/ target[cur] = Gone
    BY <2>1, UndoGoesOn DEF Progress, Forward, Applying, Undoing
  <2>2. CASE ~ (e \/ target[cur] = Gone)
    BY <2>2 DEF Progress, Forward, Applying, Undoing, Stay
  <2> QED  BY <2>1, <2>2
<1>14. ASSUME NEW e \in BOOLEAN, UndoCompare(e) PROVE Progress'
  BY <1>14, UndoGoesOn DEF Progress, UndoCompare, Stay, Forward, Applying, Undoing
<1>15. ASSUME NEW e \in BOOLEAN, UndoPutback(e) PROVE Progress'
  BY <1>15, UndoGoesOn DEF Progress, UndoPutback, Forward, Applying, Undoing
<1>16. ASSUME NEW e \in BOOLEAN, UndoReplace(e) PROVE Progress'
  BY <1>16, UndoGoesOn DEF Progress, UndoReplace, Stay, Forward, Applying, Undoing
<1>17. ASSUME NEW e \in BOOLEAN, UndoTidy(e) PROVE Progress'
  BY <1>17, UndoGoesOn DEF Progress, UndoTidy, Forward, Applying, Undoing
<1>18. ASSUME Die PROVE Progress'
  BY <1>18 DEF Progress, Die, Stay, Forward, Applying, Undoing
<1>19. ASSUME NEW p \in Path, Replace(p) PROVE Progress'
  BY <1>19 DEF Progress, Replace
<1>20. ASSUME NEW p \in Path, OpenInPlace(p) PROVE Progress'
  BY <1>20 DEF Progress, OpenInPlace
<1>21. ASSUME NEW p \in Path, WriteInPlace(p) PROVE Progress'
  BY <1>21 DEF Progress, WriteInPlace
<1>22. CASE UNCHANGED vars
  BY <1>22 DEF vars, Progress
<1> QED  BY <1>1, <1>2, <1>3, <1>4, <1>5, <1>6, <1>7, <1>8, <1>9, <1>10, <1>11, <1>12, <1>13,
   <1>14, <1>15, <1>16, <1>17, <1>18, <1>19, <1>20, <1>21, <1>22 DEF Next, Commit,
   UndoOperations, Finished

\* A path outside of the plan was already as it should be.
LEMMA StagedKept ==
  ASSUME IInv, Safe, [Next]_vars
  PROVE  Staged'
<1> USE DEF IInv, Safe, disk, plan, outcome, editor
<1>1. ASSUME Stage PROVE Staged'
  <2> USE <1>1 DEF Stage
  <2>1. cur \in Nat /\ Path \subseteq Nat /\ cur \in Path
    BY PathNat DEF TypeOK
  <2>2. \A p \in (Written \cup Deleted) \ pending : prev[p] = Goal(p) \/ cur <= p
    BY DEF Staged, Forward
  <2>3. \A p \in Path : prev'[p] = IF p = cur THEN target[p] ELSE prev[p]
    BY DEF TypeOK
  <2>4. \A p \in (Written \cup Deleted) \ pending' : prev'[p] = Goal(p) \/ cur + 1 <= p
    <3> TAKE p \in (Written \cup Deleted) \ pending'
    <3>1. p \in Path /\ p \in Nat /\ p \notin pending
      BY <2>1, FsAssumption
    <3>2. CASE p = cur
      BY <2>3, <3>1, <3>2
    <3>3. CASE p # cur /\ cur <= p
      BY <2>1, <3>1, <3>3
    <3>4. CASE p # cur /\ prev[p] = Goal(p)
      BY <2>3, <3>1, <3>4
    <3> QED  BY <2>2, <3>1, <3>2, <3>3, <3>4
  <2>5. CASE cur = NPaths
    <3>1. \A p \in Written \cup Deleted : ~ (cur + 1 <= p)
      BY <2>5, FsAssumption DEF Path
    <3> QED  BY <2>4, <2>5, <3>1 DEF Staged, Stay, Goal
  <2>6. CASE cur # NPaths
    BY <2>4, <2>6 DEF Staged, Goal
  <2> QED  BY <2>5, <2>6
<1>2. ASSUME NEW e \in BOOLEAN, BeginCommit(e) PROVE Staged'
  BY <1>2, Works DEF Staged, BeginCommit, Stay, Forward
<1>3. ASSUME NEW e \in BOOLEAN, Ready(e) PROVE Staged'
  BY <1>3, Unwinds DEF Staged, Ready, Stay, Forward, Applying
<1>4. ASSUME NEW e \in BOOLEAN, Capture(e) PROVE Staged'
  BY <1>4, Unwinds DEF Staged, Capture, Stay, Forward, Applying
<1>5. ASSUME NEW e \in BOOLEAN, Compare(e) PROVE Staged'
  BY <1>5 DEF Staged, Compare, Record, Stay, Forward, Applying
<1>6. ASSUME NEW e \in BOOLEAN, Putback(e) PROVE Staged'
  BY <1>6, Unwinds DEF Staged, Putback, Forward, Applying
<1>7. ASSUME NEW e \in BOOLEAN, Install(e) PROVE Staged'
  BY <1>7, Unwinds DEF Staged, Install, Record, Stay, Forward, Applying
<1>8. ASSUME NEW e \in BOOLEAN, Tidy(e) PROVE Staged'
  BY <1>8, Unwinds, Works DEF Staged, Tidy, Forward, Applying
<1>9. ASSUME NEW e \in BOOLEAN, Verify(e) PROVE Staged'
  <2> USE <1>9 DEF Verify
  <2>1. pending \subseteq ops
    BY DEF Progress
  <2>2. \A p \in (Written \cup Deleted) \ pending : prev[p] = Goal(p)
    BY DEF Staged, Forward
  <2>3. CASE pc' = "committed"
    BY <2>1, <2>2, <2>3 DEF Staged, Goal
  <2>4. CASE Unwind(ops)
    <3>1. pc' \in {"undo", "cleanup"}
      BY <2>4, Unwinds DEF TypeOK
    <3> QED  BY <3>1 DEF Staged, Forward, Applying
  <2> QED  BY <2>3, <2>4 DEF Stay
<1>10. ASSUME Rollback PROVE Staged'
  BY <1>10, Unwinds DEF Staged, Rollback, Forward, Applying
<1>11. ASSUME Cleanup PROVE Staged'
  BY <1>11 DEF Staged, Cleanup, Stay, Forward, Applying
<1>12. ASSUME NEW e \in BOOLEAN, Undo(e) PROVE Staged'
  BY <1>12, UndoGoesOn DEF Staged, Undo, Stay, Forward, Applying, Undoing
<1>13. ASSUME NEW e \in BOOLEAN, UndoCapture(e) PROVE Staged'
  BY <1>13, UndoGoesOn DEF Staged, UndoCapture, Stay, Forward, Applying, Undoing
<1>14. ASSUME NEW e \in BOOLEAN, UndoCompare(e) PROVE Staged'
  BY <1>14, UndoGoesOn DEF Staged, UndoCompare, Stay, Forward, Applying, Undoing
<1>15. ASSUME NEW e \in BOOLEAN, UndoPutback(e) PROVE Staged'
  BY <1>15, UndoGoesOn DEF Staged, UndoPutback, Forward, Applying, Undoing
<1>16. ASSUME NEW e \in BOOLEAN, UndoReplace(e) PROVE Staged'
  BY <1>16, UndoGoesOn DEF Staged, UndoReplace, Stay, Forward, Applying, Undoing
<1>17. ASSUME NEW e \in BOOLEAN, UndoTidy(e) PROVE Staged'
  BY <1>17, UndoGoesOn DEF Staged, UndoTidy, Forward, Applying, Undoing
<1>18. ASSUME Die PROVE Staged'
  BY <1>18 DEF Staged, Die, Stay, Forward, Applying
<1>19. ASSUME NEW p \in Path, Replace(p) PROVE Staged'
  BY <1>19 DEF Staged, Replace
<1>20. ASSUME NEW p \in Path, OpenInPlace(p) PROVE Staged'
  BY <1>20 DEF Staged, OpenInPlace
<1>21. ASSUME NEW p \in Path, WriteInPlace(p) PROVE Staged'
  BY <1>21 DEF Staged, WriteInPlace
<1>22. CASE UNCHANGED vars
  BY <1>22 DEF vars, Staged
<1> QED  BY <1>1, <1>2, <1>3, <1>4, <1>5, <1>6, <1>7, <1>8, <1>9, <1>10, <1>11, <1>12, <1>13,
   <1>14, <1>15, <1>16, <1>17, <1>18, <1>19, <1>20, <1>21, <1>22 DEF Next, Commit,
   UndoOperations, Finished

\* A container is used for one path, and empty before and after.
LEMMA ContainersKept ==
  ASSUME IInv, Safe, [Next]_vars
  PROVE  Containers'
<1> USE DEF IInv, Safe, disk, plan, outcome, editor
<1>1. ASSUME Stage PROVE Containers'
  BY <1>1 DEF Containers, Stage, Stay, Forward, Applying, Undoing
<1>2. ASSUME NEW e \in BOOLEAN, BeginCommit(e) PROVE Containers'
  BY <1>2, Works, FsAssumption DEF BeginCommit, Stay, Containers, Forward, TypeOK
<1>3. ASSUME NEW e \in BOOLEAN, Ready(e) PROVE Containers'
  BY <1>3, Unwinds, FsAssumption DEF Ready, Stay, Containers, Forward, TypeOK, AtPath, Applying
<1>4. ASSUME NEW e \in BOOLEAN, Capture(e) PROVE Containers'
  BY <1>4, Unwinds, PathNat, FsAssumption DEF Capture, Displace, Stay, Containers, Forward,
     TypeOK, Applying, Slot
<1>5. ASSUME NEW e \in BOOLEAN, Compare(e) PROVE Containers'
  BY <1>5 DEF Containers, Compare, Record, Stay, Forward, Applying, Undoing
<1>6. ASSUME NEW e \in BOOLEAN, Putback(e) PROVE Containers'
  BY <1>6, Unwinds, FsAssumption DEF Putback, LinkBack, Containers, Forward, TypeOK, Applying,
     Slot
<1>7. ASSUME NEW e \in BOOLEAN, Install(e) PROVE Containers'
  <2> USE <1>7 DEF Install
  <2>1. ops \subseteq Path /\ pending \subseteq Path /\ cur \in Nat
    BY PathNat, FsAssumption DEF TypeOK
  <2>2. CASE Unwind(ops) /\ UNCHANGED ops
    <3>1. pc' \in {"undo", "cleanup"}
      BY <2>2, Unwinds
    <3> QED  BY <2>1, <2>2, <3>1 DEF Containers, Forward, Applying, Undoing
  <2>3. CASE cur' = cur /\ pc' \in {"putback", "tidy"}
    <3>1. \A p \in pending : cur < p => p # cur
      BY <2>1
    <3> QED  BY <2>1, <2>3, <3>1 DEF Containers, Forward, Applying, Undoing
  <2> QED  BY <2>2, <2>3 DEF Stay, Record
<1>8. ASSUME NEW e \in BOOLEAN, Tidy(e) PROVE Containers'
  <2> USE <1>8 DEF Tidy
  <2>1. cur \in Nat /\ pending \subseteq Nat /\ pending \subseteq Path /\ ops \subseteq Path
    BY PathNat, FsAssumption DEF TypeOK
  <2>2. \A p \in Path : away["undo"][p] = Gone
    BY DEF Containers, Forward, Applying
  <2>3. CASE e
    <3>1. pc' \in {"cleanup", "undo"}
      BY <2>3, Unwinds
    <3> QED  BY <2>1, <2>2, <2>3, <3>1 DEF Containers, Applying, Undoing, Forward
  <2>4. CASE ~ e
    <3> DEFINE S == {p \in pending : p > cur}
    <3>1. S \subseteq pending /\ Work(S)
      BY <2>4
    <3>2. \/ pc' = "verify"
          \/ pc' = "ready" /\ cur' \in S
      <4> HIDE DEF S
      <4> QED  BY <3>1, Works
    <3>3. /\ \A p \in Path : away'["undo"][p] = Gone
          /\ \A p \in Path : p # cur => away'["apply"][p] = away["apply"][p]
      BY <2>2, <2>4 DEF Discard, TypeOK, Slot
    <3>4. \A p \in pending : cur < p => p # cur /\ away["apply"][p] = Gone
      BY <2>1 DEF Containers, Applying
    <3>5. pc' = "ready" => \A p \in pending : cur' < p \/ p = cur' => cur < p
      <4>1. pc' = "ready" => cur' \in Nat /\ cur < cur'
        BY <2>1, <3>2
      <4> HIDE DEF S
      <4> QED  BY <2>1, <4>1
    <3> QED  BY <2>1, <2>4, <3>2, <3>3, <3>4, <3>5 DEF Containers, Applying, Undoing, Forward
  <2> QED  BY <2>3, <2>4
<1>9. ASSUME NEW e \in BOOLEAN, Verify(e) PROVE Containers'
  BY <1>9, Unwinds, FsAssumption DEF Verify, Stay, Containers, Forward, TypeOK, Applying
<1>10. ASSUME Rollback PROVE Containers'
  BY <1>10, Unwinds, FsAssumption DEF Rollback, Containers, Progress, Forward, TypeOK, Applying
<1>11. ASSUME Cleanup PROVE Containers'
  BY <1>11 DEF Containers, Cleanup, Stay, Forward, Applying, Undoing
<1>12. ASSUME NEW e \in BOOLEAN, Undo(e) PROVE Containers'
  <2> USE <1>12 DEF Undo
  <2>1. CASE Completed \/ Failed
    BY <2>1, UndoRest DEF Containers, Forward, Applying, Undoing
  <2>2. CASE /\ cur' = cur /\ ops' = ops
             /\ pc' = IF cur \in Written THEN "undoCapture" ELSE "undoReplace"
    BY <2>2 DEF Stay, Containers, Forward, Applying, Undoing
  <2> QED  BY <2>1, <2>2 DEF Stay
<1>13. ASSUME NEW e \in BOOLEAN, UndoCapture(e) PROVE Containers'
  <2> USE <1>13 DEF UndoCapture
  <2>1. cur \in ops /\ cur \in Written
    BY DEF AtPath, Undoing
  <2>2. CASE e \/ target[cur] = Gone
    BY <2>1, <2>2, UndoRest DEF Containers, Forward, Applying, Undoing
  <2>3. CASE ~ (e \/ target[cur] = Gone)
    <3>1. /\ pc' = "undoCompare" /\ cur' = cur /\ ops' = ops
          /\ \A p \in Path : p # cur => away'["undo"][p] = away["undo"][p]
      BY <2>3 DEF Displace, Stay, TypeOK, Slot
    <3>2. \A p \in ops : p < cur => p # cur /\ p \in Path
      BY PathNat, FsAssumption DEF TypeOK
    <3> QED  BY <2>1, <3>1, <3>2 DEF Containers, Forward, Applying, Undoing
  <2> QED  BY <2>2, <2>3
<1>14. ASSUME NEW e \in BOOLEAN, UndoCompare(e) PROVE Containers'
  <2> USE <1>14 DEF UndoCompare
  <2>1. cur \in ops /\ cur \in Written
    BY DEF AtPath, Undoing
  <2>2. CASE Completed
    <3>1. \A p \in Path : p # cur => away'["undo"][p] = away["undo"][p]
      BY <2>2 DEF TypeOK, Slot, Discard
    <3>2. \A p \in ops : p \in Path
      BY FsAssumption DEF TypeOK
    <3> QED  BY <2>1, <2>2, <3>1, <3>2, UndoRest DEF Containers, Forward, Applying, Undoing
  <2>3. CASE Stay("undoPutback") /\ UNCHANGED <<away, ops>>
    BY <2>1, <2>3 DEF Stay, Containers, Forward, Applying, Undoing
  <2>4. CASE Stay("undoReplace") /\ away["undo"][cur] = New /\ UNCHANGED <<away, ops>>
    BY <2>1, <2>4 DEF Stay, Containers, Forward, Applying, Undoing
  <2> QED  BY <2>2, <2>3, <2>4
<1>15. ASSUME NEW e \in BOOLEAN, UndoPutback(e) PROVE Containers'
  <2> USE <1>15 DEF UndoPutback
  <2>1. \A p \in Path : p # cur => away'["undo"][p] = away["undo"][p]
    BY DEF TypeOK, Slot, LinkBack
  <2>2. \A p \in ops : p \in Path
    BY FsAssumption DEF TypeOK
  <2> QED  BY <2>1, <2>2, UndoRest DEF Containers, Forward, Applying, Undoing
<1>16. ASSUME NEW e \in BOOLEAN, UndoReplace(e) PROVE Containers'
  <2> USE <1>16 DEF UndoReplace
  <2>1. cur \in ops
    BY DEF AtPath, Undoing
  <2>2. \A p \in Path : p # cur => away'["undo"][p] = away["undo"][p]
    BY DEF TypeOK, Slot, Discard
  <2>3. \A p \in ops : p \in Path
    BY FsAssumption DEF TypeOK
  <2>4. CASE Completed \/ Failed
    BY <2>2, <2>3, <2>4, UndoRest DEF Containers, Forward, Applying, Undoing
  <2>5. CASE Stay("undoPutback") /\ UNCHANGED <<away, ops>>
    BY <2>5 DEF Stay, Containers, Forward, Applying, Undoing
  <2>6. CASE Stay("undoTidy") /\ UNCHANGED <<away, ops>> /\ cur \notin Deleted
    <3>1. cur \in Written
      BY <2>1, <2>6 DEF TypeOK
    <3> QED  BY <2>6, <3>1 DEF Stay, Containers, Forward, Applying, Undoing
  <2> QED  BY <2>4, <2>5, <2>6
<1>17. ASSUME NEW e \in BOOLEAN, UndoTidy(e) PROVE Containers'
  <2> USE <1>17 DEF UndoTidy
  <2>1. \A p \in Path : p # cur => away'["undo"][p] = away["undo"][p]
    BY DEF TypeOK, Slot, Discard
  <2>2. \A p \in ops : p \in Path
    BY FsAssumption DEF TypeOK
  <2> QED  BY <2>1, <2>2, UndoRest DEF Containers, Forward, Applying, Undoing
<1>18. ASSUME Die PROVE Containers'
  BY <1>18 DEF Containers, Die, Stay, Forward, Applying, Undoing
<1>19. ASSUME NEW p \in Path, Replace(p) PROVE Containers'
  BY <1>19 DEF Containers, Replace, Edited
<1>20. ASSUME NEW p \in Path, OpenInPlace(p) PROVE Containers'
  BY <1>20 DEF Containers, OpenInPlace
<1>21. ASSUME NEW p \in Path, WriteInPlace(p) PROVE Containers'
  BY <1>21, FsAssumption DEF WriteInPlace, Containers, HandlesLive, TypeOK, Slot
<1>22. CASE UNCHANGED vars
  BY <1>22 DEF vars, Containers
<1> QED  BY <1>1, <1>2, <1>3, <1>4, <1>5, <1>6, <1>7, <1>8, <1>9, <1>10, <1>11, <1>12, <1>13,
   <1>14, <1>15, <1>16, <1>17, <1>18, <1>19, <1>20, <1>21, <1>22 DEF Next, Commit,
   UndoOperations, Finished

\* The old bytes of a recorded path are nobody's, until the rollback puts them back.
LEMMA ForgottenKept ==
  ASSUME IInv, Safe, [Next]_vars
  PROVE  Forgotten'
<1> USE DEF IInv, Safe, disk, plan, outcome, editor
<1>1. ASSUME Stage PROVE Forgotten'
  BY <1>1 DEF Stage, Forgotten, Progress, Forward
<1>2. ASSUME NEW e \in BOOLEAN, BeginCommit(e) PROVE Forgotten'
  BY <1>2 DEF Forgotten, BeginCommit
<1>3. ASSUME NEW e \in BOOLEAN, Ready(e) PROVE Forgotten'
  BY <1>3 DEF Forgotten, Ready
<1>4. ASSUME NEW e \in BOOLEAN, Capture(e) PROVE Forgotten'
  BY <1>4 DEF Capture, Forgotten, Progress, Forward, Applying
<1>5. ASSUME NEW e \in BOOLEAN, Compare(e) PROVE Forgotten'
  <2> USE <1>5 DEF Compare
  <2>1. CASE UNCHANGED <<ops, applied, saved>>
    BY <2>1 DEF Forgotten, Stay
  <2>2. CASE Record /\ away["apply"][cur] = prev[cur]
    <3>1. applied = {} /\ ops \subseteq Path /\ cur \in Path
      BY FsAssumption DEF Progress, Forward, Applying, TypeOK
    <3>2. \A p \in Path : saved'[p] = IF p = cur THEN saved[p] \ {prev[p]} ELSE saved[p]
      BY <2>2 DEF Record, TypeOK
    <3> QED  BY <2>2, <3>1, <3>2 DEF Forgotten, Record
  <2> QED  BY <2>1, <2>2
<1>6. ASSUME NEW e \in BOOLEAN, Putback(e) PROVE Forgotten'
  BY <1>6 DEF Putback, Forgotten, Progress, Forward, Applying
<1>7. ASSUME NEW e \in BOOLEAN, Install(e) PROVE Forgotten'
  <2> USE <1>7 DEF Install
  <2>1. applied = {} /\ ops \subseteq Path /\ cur \in Path
    BY FsAssumption DEF Progress, Forward, Applying, TypeOK
  <2>2. CASE UNCHANGED <<ops, applied, saved>>
    BY <2>1, <2>2 DEF Forgotten
  <2>3. CASE Record
    <3>1. \A p \in Path : saved'[p] = IF p = cur THEN saved[p] \ {prev[p]} ELSE saved[p]
      BY <2>3 DEF Record, TypeOK
    <3>2. cur \notin late => away["apply"][cur] = prev[cur]
      BY DEF Containers
    <3> QED  BY <2>1, <2>3, <3>1, <3>2 DEF Forgotten, Record
  <2> QED  BY <2>2, <2>3
<1>8. ASSUME NEW e \in BOOLEAN, Tidy(e) PROVE Forgotten'
  BY <1>8 DEF Forgotten, Tidy, Discard, TypeOK
<1>9. ASSUME NEW e \in BOOLEAN, Verify(e) PROVE Forgotten'
  BY <1>9 DEF Forgotten, Verify
<1>10. ASSUME Rollback PROVE Forgotten'
  BY <1>10 DEF Forgotten, Rollback
<1>11. ASSUME Cleanup PROVE Forgotten'
  BY <1>11 DEF Forgotten, Cleanup
<1>12. ASSUME NEW e \in BOOLEAN, Undo(e) PROVE Forgotten'
  BY <1>12 DEF Forgotten, Undo, Completed, Failed
<1>13. ASSUME NEW e \in BOOLEAN, UndoCapture(e) PROVE Forgotten'
  BY <1>13 DEF UndoCapture, Failed, Displace, Forgotten, TypeOK, AtPath, Undoing, Slot
<1>14. ASSUME NEW e \in BOOLEAN, UndoCompare(e) PROVE Forgotten'
  BY <1>14 DEF Forgotten, UndoCompare, Completed, Discard, TypeOK, Slot
<1>15. ASSUME NEW e \in BOOLEAN, UndoPutback(e) PROVE Forgotten'
  BY <1>15 DEF UndoPutback, Failed, LinkBack, Forgotten, TypeOK, AtPath, Undoing, Slot
<1>16. ASSUME NEW e \in BOOLEAN, UndoReplace(e) PROVE Forgotten'
  <2> USE <1>16 DEF UndoReplace
  <2>1. ops \subseteq Path /\ applied \subseteq Path /\ cur \in Path
    BY FsAssumption DEF TypeOK
  <2>2. \A p \in Path : away'["apply"][p] = away["apply"][p]
    BY DEF Discard, TypeOK, Slot
  <2>3. CASE UNCHANGED <<target, saved>>
    <3>1. ops' \subseteq ops
      BY <2>3 DEF Failed, Completed
    <3> QED  BY <2>1, <2>2, <2>3, <3>1 DEF Forgotten
  <2>4. CASE /\ target' = [target EXCEPT ![cur] = prev[cur]]
             /\ saved' = [saved EXCEPT ![cur] = @ \cup {prev[cur]}]
             /\ Completed \/ (Stay("undoTidy") /\ UNCHANGED ops)
    <3>1. \A p \in Path : /\ p # cur => saved'[p] = saved[p] /\ target'[p] = target[p]
                          /\ p = cur => target'[p] = prev[p]
      BY <2>4 DEF TypeOK
    <3>2. \A p \in ops' : p \in ops /\ (p = cur => pc' = "undoTidy" /\ cur' = cur)
      BY <2>4 DEF Completed, Stay
    <3> QED  BY <2>1, <2>2, <3>1, <3>2 DEF Forgotten
  <2> QED  BY <2>3, <2>4
<1>17. ASSUME NEW e \in BOOLEAN, UndoTidy(e) PROVE Forgotten'
  BY <1>17 DEF Forgotten, UndoTidy, Completed, Discard, TypeOK, Slot
<1>18. ASSUME Die PROVE Forgotten'
  BY <1>18 DEF Forgotten, Die, Stay
<1>19. ASSUME NEW p \in Path, Replace(p) PROVE Forgotten'
  <2> USE <1>19 DEF Replace
  <2>1. PICK b \in {Edit(edits + 1), Gone} : target' = [target EXCEPT ![p] = b] /\ Edited(p, b)
    OBVIOUS
  <2>2. /\ saved' = [saved EXCEPT ![p] = (@ \ {target[p]}) \cup ({b} \ {Gone})]
        /\ late' = late /\ (b # prev[p] \/ b = Gone)
    BY <2>1, Fresh DEF Edited
  <2>3. \A q \in Path : prev[q] \in saved'[q] =>
          prev[q] \in saved[q] /\ (q = p => prev[q] # target[q])
    BY <2>2 DEF TypeOK
  <2>4. ops \subseteq Path /\ applied \subseteq Path
    BY FsAssumption DEF TypeOK
  <2>5. ASSUME NEW q \in applied, prev[q] \in saved'[q] PROVE target'[q] = prev[q]
    <3>1. target[q] = prev[q] /\ q # p
      BY <2>3, <2>4, <2>5 DEF Forgotten
    <3> QED  BY <2>1, <2>4, <3>1 DEF TypeOK
  <2> QED  BY <2>2, <2>3, <2>4, <2>5 DEF Forgotten
<1>20. ASSUME NEW p \in Path, OpenInPlace(p) PROVE Forgotten'
  BY <1>20 DEF Forgotten, OpenInPlace
<1>21. ASSUME NEW p \in Path, WriteInPlace(p) PROVE Forgotten'
  <2> USE <1>21 DEF WriteInPlace
  <2>1. \A q \in Path : prev[q] # Edit(edits + 1)
    BY Fresh
  <2>2. ops \subseteq Path /\ applied \subseteq Path /\ p \in Path
    BY FsAssumption DEF TypeOK
  <2>3. \A q \in Path : q # p => saved'[q] = saved[q] /\ target'[q] = target[q] /\ away'["apply"][q] = away["apply"][q]
    BY DEF TypeOK, Slot
  <2>4. CASE handle[p] = "target"
    <3>1. saved'[p] = (saved[p] \ {target[p]}) \cup {Edit(edits + 1)} /\ late' = late /\ away' = away
      BY <2>4 DEF TypeOK
    <3>2. prev[p] \in saved'[p] => prev[p] \in saved[p] /\ prev[p] # target[p]
      BY <2>1, <3>1
    <3> QED  BY <2>2, <2>3, <3>1, <3>2 DEF Forgotten
  <2>5. CASE handle[p] \in Slot
    <3>1. /\ saved'[p] = (saved[p] \ {away[handle[p]][p]}) \cup {Edit(edits + 1)}
          /\ p \in late' /\ late \subseteq late' /\ target' = target
      BY <2>5 DEF TypeOK, Slot
    <3>2. prev[p] \in saved'[p] => prev[p] \in saved[p]
      BY <2>1, <3>1
    <3> QED  BY <2>2, <2>3, <3>1, <3>2 DEF Forgotten
  <2> QED  BY <2>4, <2>5
<1>22. CASE UNCHANGED vars
  BY <1>22 DEF vars, Forgotten
<1> QED  BY <1>1, <1>2, <1>3, <1>4, <1>5, <1>6, <1>7, <1>8, <1>9, <1>10, <1>11, <1>12, <1>13,
   <1>14, <1>15, <1>16, <1>17, <1>18, <1>19, <1>20, <1>21, <1>22 DEF Next, Commit,
   UndoOperations, Finished

\* A step that takes a file from its path puts it into a container, and one that
\* empties a container has the bytes at their path, or had published its own.
LEMMA BytesSurviveKept ==
  ASSUME IInv, Safe, [Next]_vars
  PROVE  BytesSurvive'
<1> USE DEF IInv, Safe, disk, plan, outcome, editor
<1>1. ASSUME Stage PROVE BytesSurvive'
  BY <1>1 DEF BytesSurvive, Stage
<1>2. ASSUME NEW e \in BOOLEAN, BeginCommit(e) PROVE BytesSurvive'
  BY <1>2 DEF BytesSurvive, BeginCommit
<1>3. ASSUME NEW e \in BOOLEAN, Ready(e) PROVE BytesSurvive'
  BY <1>3 DEF BytesSurvive, Ready
<1>4. ASSUME NEW e \in BOOLEAN, Capture(e) PROVE BytesSurvive'
  BY <1>4 DEF Capture, Displace, BytesSurvive, Containers, TypeOK, AtPath, Applying, Slot
<1>5. ASSUME NEW e \in BOOLEAN, Compare(e) PROVE BytesSurvive'
  BY <1>5 DEF BytesSurvive, Compare, Record, TypeOK
<1>6. ASSUME NEW e \in BOOLEAN, Putback(e) PROVE BytesSurvive'
  BY <1>6 DEF BytesSurvive, Putback, LinkBack, TypeOK, Slot
<1>7. ASSUME NEW e \in BOOLEAN, Install(e) PROVE BytesSurvive'
  BY <1>7 DEF Install, Record, BytesSurvive, BytesKnown, TypeOK
<1>8. ASSUME NEW e \in BOOLEAN, Tidy(e) PROVE BytesSurvive'
  BY <1>8 DEF Tidy, Discard, BytesSurvive, Forgotten, Containers, Progress, TypeOK, Applying,
     Slot
<1>9. ASSUME NEW e \in BOOLEAN, Verify(e) PROVE BytesSurvive'
  BY <1>9 DEF BytesSurvive, Verify
<1>10. ASSUME Rollback PROVE BytesSurvive'
  BY <1>10 DEF BytesSurvive, Rollback
<1>11. ASSUME Cleanup PROVE BytesSurvive'
  BY <1>11 DEF Cleanup, BytesSurvive, Forgotten
<1>12. ASSUME NEW e \in BOOLEAN, Undo(e) PROVE BytesSurvive'
  BY <1>12 DEF BytesSurvive, Undo
<1>13. ASSUME NEW e \in BOOLEAN, UndoCapture(e) PROVE BytesSurvive'
  BY <1>13 DEF UndoCapture, Displace, BytesSurvive, Containers, TypeOK, AtPath, Undoing, Slot
<1>14. ASSUME NEW e \in BOOLEAN, UndoCompare(e) PROVE BytesSurvive'
  BY <1>14 DEF UndoCompare, Discard, BytesSurvive, BytesKnown, TypeOK, Slot
<1>15. ASSUME NEW e \in BOOLEAN, UndoPutback(e) PROVE BytesSurvive'
  BY <1>15 DEF BytesSurvive, UndoPutback, LinkBack, TypeOK, Slot
<1>16. ASSUME NEW e \in BOOLEAN, UndoReplace(e) PROVE BytesSurvive'
  BY <1>16 DEF UndoReplace, Discard, BytesSurvive, BytesKnown, TypeOK, Slot
<1>17. ASSUME NEW e \in BOOLEAN, UndoTidy(e) PROVE BytesSurvive'
  BY <1>17 DEF UndoTidy, Discard, BytesSurvive, Containers, BytesKnown, TypeOK, AtPath, Slot
<1>18. ASSUME Die PROVE BytesSurvive'
  BY <1>18 DEF BytesSurvive, Die
<1>19. ASSUME NEW p \in Path, Replace(p) PROVE BytesSurvive'
  BY <1>19 DEF BytesSurvive, Replace, Edited, TypeOK
<1>20. ASSUME NEW p \in Path, OpenInPlace(p) PROVE BytesSurvive'
  BY <1>20 DEF BytesSurvive, OpenInPlace
<1>21. ASSUME NEW p \in Path, WriteInPlace(p) PROVE BytesSurvive'
  BY <1>21 DEF BytesSurvive, WriteInPlace, TypeOK, Slot
<1>22. CASE UNCHANGED vars
  BY <1>22 DEF vars, BytesSurvive
<1> QED  BY <1>1, <1>2, <1>3, <1>4, <1>5, <1>6, <1>7, <1>8, <1>9, <1>10, <1>11, <1>12, <1>13,
   <1>14, <1>15, <1>16, <1>17, <1>18, <1>19, <1>20, <1>21, <1>22 DEF Next, Commit,
   UndoOperations, Finished

\* Only the file in hand, and the ones that are reported, are away from their path.
LEMMA ReachableKept ==
  ASSUME IInv, Safe, [Next]_vars
  PROVE  Reachable'
<1> USE DEF IInv, Safe, disk, plan, outcome, editor
<1>1. ASSUME Stage PROVE Reachable'
  BY <1>1 DEF Reachable, Stage, Held, HeldBack
<1>2. ASSUME NEW e \in BOOLEAN, BeginCommit(e) PROVE Reachable'
  BY <1>2 DEF Reachable, BeginCommit, Held, HeldBack
<1>3. ASSUME NEW e \in BOOLEAN, Ready(e) PROVE Reachable'
  BY <1>3 DEF Reachable, Ready, Held, HeldBack
<1>4. ASSUME NEW e \in BOOLEAN, Capture(e) PROVE Reachable'
  BY <1>4 DEF Reachable, Capture, Displace, Stay, TypeOK, Held, HeldBack, Slot
<1>5. ASSUME NEW e \in BOOLEAN, Compare(e) PROVE Reachable'
  BY <1>5 DEF Reachable, Compare, Record, Stay, TypeOK, Held, HeldBack
<1>6. ASSUME NEW e \in BOOLEAN, Putback(e) PROVE Reachable'
  BY <1>6 DEF Putback, LinkBack, Reachable, BytesKnown, HeldBack, TypeOK
<1>7. ASSUME NEW e \in BOOLEAN, Install(e) PROVE Reachable'
  BY <1>7 DEF Install, Record, Stay, Reachable, Containers, BytesKnown, Held, Forward, TypeOK,
     Applying
<1>8. ASSUME NEW e \in BOOLEAN, Tidy(e) PROVE Reachable'
  BY <1>8 DEF Reachable, Tidy, Held, HeldBack
<1>9. ASSUME NEW e \in BOOLEAN, Verify(e) PROVE Reachable'
  BY <1>9 DEF Reachable, Verify, Held, HeldBack
<1>10. ASSUME Rollback PROVE Reachable'
  BY <1>10 DEF Reachable, Rollback, Held, HeldBack
<1>11. ASSUME Cleanup PROVE Reachable'
  BY <1>11 DEF Reachable, Cleanup, Held, HeldBack
<1>12. ASSUME NEW e \in BOOLEAN, Undo(e) PROVE Reachable'
  BY <1>12 DEF Reachable, Undo, Held, HeldBack
<1>13. ASSUME NEW e \in BOOLEAN, UndoCapture(e) PROVE Reachable'
  BY <1>13 DEF Reachable, UndoCapture, Displace, Stay, TypeOK, Held, HeldBack, Slot
<1>14. ASSUME NEW e \in BOOLEAN, UndoCompare(e) PROVE Reachable'
  BY <1>14 DEF UndoCompare, Stay, Reachable, BytesKnown, Held, HeldBack
<1>15. ASSUME NEW e \in BOOLEAN, UndoPutback(e) PROVE Reachable'
  BY <1>15 DEF UndoPutback, LinkBack, Reachable, BytesKnown, Held, TypeOK
<1>16. ASSUME NEW e \in BOOLEAN, UndoReplace(e) PROVE Reachable'
  BY <1>16 DEF UndoReplace, Reachable, BytesKnown, Held, HeldBack, TypeOK
<1>17. ASSUME NEW e \in BOOLEAN, UndoTidy(e) PROVE Reachable'
  BY <1>17 DEF Reachable, UndoTidy, Held, HeldBack
<1>18. ASSUME Die PROVE Reachable'
  BY <1>18 DEF Reachable, Die, Stay
<1>19. ASSUME NEW p \in Path, Replace(p) PROVE Reachable'
  BY <1>19 DEF Reachable, Replace, Edited, TypeOK
<1>20. ASSUME NEW p \in Path, OpenInPlace(p) PROVE Reachable'
  BY <1>20 DEF Reachable, OpenInPlace
<1>21. ASSUME NEW p \in Path, WriteInPlace(p) PROVE Reachable'
  BY <1>21 DEF Reachable, WriteInPlace, TypeOK, Slot
<1>22. CASE UNCHANGED vars
  BY <1>22 DEF vars, Reachable
<1> QED  BY <1>1, <1>2, <1>3, <1>4, <1>5, <1>6, <1>7, <1>8, <1>9, <1>10, <1>11, <1>12, <1>13,
   <1>14, <1>15, <1>16, <1>17, <1>18, <1>19, <1>20, <1>21, <1>22 DEF Next, Commit,
   UndoOperations, Finished

\* A recorded path is as the plan wants it and any other as it was.
LEMMA EffectsKept ==
  ASSUME IInv, Safe, [Next]_vars
  PROVE  Effects'
<1> USE DEF IInv, Safe, disk, plan, outcome, editor
<1>1. ASSUME Stage PROVE Effects'
  <2> USE <1>1 DEF Stage
  <2>1. cur \in Nat /\ ops = {} /\ Path \subseteq Nat
    BY PathNat DEF TypeOK, AtPath
  <2>2. \A p \in Path \ touched : p < cur => target[p] = prev[p]
    BY DEF Effects
  <2>3. \A p \in Path : prev'[p] = IF p = cur THEN target[p] ELSE prev[p]
    BY DEF TypeOK
  <2>4. \A p \in Path \ touched : p < cur \/ p = cur => target'[p] = prev'[p]
    BY <2>2, <2>3
  <2>5. CASE cur = NPaths
    <3>1. \A p \in Path : p < cur \/ p = cur
      BY <2>1, <2>5, FsAssumption DEF Path
    <3> QED  BY <2>1, <2>4, <2>5, <3>1 DEF Effects, Stay, Held, HeldBack
  <2>6. CASE cur # NPaths
    <3>1. \A p \in Path : p < cur + 1 => p < cur \/ p = cur
      BY <2>1, FsAssumption DEF Path
    <3> QED  BY <2>1, <2>4, <2>6, <3>1 DEF Effects
  <2> QED  BY <2>5, <2>6
<1>2. ASSUME NEW e \in BOOLEAN, BeginCommit(e) PROVE Effects'
  BY <1>2, Works DEF Effects, BeginCommit, Stay, Held, HeldBack
<1>3. ASSUME NEW e \in BOOLEAN, Ready(e) PROVE Effects'
  BY <1>3, Unwinds DEF Effects, Ready, Stay, Held, HeldBack
<1>4. ASSUME NEW e \in BOOLEAN, Capture(e) PROVE Effects'
  BY <1>4, Unwinds, PathNat DEF Capture, Displace, Stay, Effects, Progress, Held, HeldBack,
     TypeOK, Applying, Slot
<1>5. ASSUME NEW e \in BOOLEAN, Compare(e) PROVE Effects'
  BY <1>5 DEF Effects, Compare, Record, Stay, Held, HeldBack, Goal
<1>6. ASSUME NEW e \in BOOLEAN, Putback(e) PROVE Effects'
  <2> USE <1>6 DEF Putback
  <2>1. pc' \in {"undo", "cleanup"} /\ cur \in Path
    BY Unwinds DEF TypeOK
  <2>2. cur \notin ops
    BY PathNat, <2>1, FsAssumption DEF TypeOK, Progress, Applying
  <2>3. CASE e \/ target[cur] # Gone
    BY <2>1, <2>2, <2>3 DEF Effects, Held, HeldBack
  <2>4. CASE ~ (e \/ target[cur] # Gone)
    <3>1. \A p \in Path : target'[p] = IF p = cur THEN away["apply"][cur] ELSE target[p]
      BY <2>4 DEF TypeOK, LinkBack
    <3>2. cur \notin touched \cup reported \cup failures => away["apply"][cur] = prev[cur]
      BY <2>1, <2>2 DEF Effects, Held, AtPath
    <3> QED  BY <2>1, <2>2, <2>4, <3>1, <3>2 DEF Effects, Held, HeldBack
  <2> QED  BY <2>3, <2>4
<1>7. ASSUME NEW e \in BOOLEAN, Install(e) PROVE Effects'
  <2> USE <1>7 DEF Install
  <2>1. cur \in Path /\ cur \notin ops /\ cur \in Written
    BY PathNat, FsAssumption DEF TypeOK, Progress, Applying, AtPath
  <2>2. CASE (e \/ target[cur] # Gone) /\ prev[cur] = Gone
    <3>1. pc' \in {"undo", "cleanup"}
      BY <2>2, Unwinds DEF TypeOK
    <3> QED  BY <2>1, <2>2, <3>1 DEF Effects, Held, HeldBack
  <2>3. CASE (e \/ target[cur] # Gone) /\ prev[cur] # Gone
    BY <2>1, <2>3 DEF Effects, Held, HeldBack, Stay
  <2>4. CASE ~ (e \/ target[cur] # Gone)
    BY <2>1, <2>4 DEF Effects, Held, HeldBack, Stay, Record, Goal, TypeOK
  <2> QED  BY <2>2, <2>3, <2>4
<1>8. ASSUME NEW e \in BOOLEAN, Tidy(e) PROVE Effects'
  BY <1>8, Unwinds, Works DEF Effects, Tidy, Held, HeldBack
<1>9. ASSUME NEW e \in BOOLEAN, Verify(e) PROVE Effects'
  BY <1>9, Unwinds DEF Effects, Verify, Stay, Held, HeldBack
<1>10. ASSUME Rollback PROVE Effects'
  BY <1>10, Unwinds DEF Effects, Rollback, Held, HeldBack
<1>11. ASSUME Cleanup PROVE Effects'
  BY <1>11 DEF Effects, Cleanup, Stay, Held, HeldBack
<1>12. ASSUME NEW e \in BOOLEAN, Undo(e) PROVE Effects'
  BY <1>12, UndoGoesOn DEF Effects, Undo, Completed, Failed, Stay, Held, HeldBack, Undoing,
     Goal
<1>13. ASSUME NEW e \in BOOLEAN, UndoCapture(e) PROVE Effects'
  BY <1>13, UndoGoesOn DEF Effects, UndoCapture, Failed, Displace, Stay, TypeOK, Held,
     HeldBack, Undoing
<1>14. ASSUME NEW e \in BOOLEAN, UndoCompare(e) PROVE Effects'
  BY <1>14, UndoGoesOn DEF Effects, UndoCompare, Completed, Stay, Held, HeldBack, Undoing
<1>15. ASSUME NEW e \in BOOLEAN, UndoPutback(e) PROVE Effects'
  BY <1>15, UndoGoesOn DEF Effects, UndoPutback, Failed, LinkBack, TypeOK, Held, HeldBack,
     Undoing
<1>16. ASSUME NEW e \in BOOLEAN, UndoReplace(e) PROVE Effects'
  BY <1>16, UndoGoesOn DEF Effects, UndoReplace, Completed, Failed, Stay, TypeOK, Held,
     HeldBack, Undoing
<1>17. ASSUME NEW e \in BOOLEAN, UndoTidy(e) PROVE Effects'
  BY <1>17, UndoGoesOn DEF Effects, UndoTidy, Completed, Held, HeldBack, Undoing
<1>18. ASSUME Die PROVE Effects'
  BY <1>18 DEF Effects, Die, Stay
<1>19. ASSUME NEW p \in Path, Replace(p) PROVE Effects'
  BY <1>19, PathNat DEF Replace, Edited, Effects, TypeOK
<1>20. ASSUME NEW p \in Path, OpenInPlace(p) PROVE Effects'
  BY <1>20 DEF Effects, OpenInPlace
<1>21. ASSUME NEW p \in Path, WriteInPlace(p) PROVE Effects'
  BY <1>21 DEF Effects, WriteInPlace, TypeOK, Slot
<1>22. CASE UNCHANGED vars
  BY <1>22 DEF vars, Effects
<1> QED  BY <1>1, <1>2, <1>3, <1>4, <1>5, <1>6, <1>7, <1>8, <1>9, <1>10, <1>11, <1>12, <1>13,
   <1>14, <1>15, <1>16, <1>17, <1>18, <1>19, <1>20, <1>21, <1>22 DEF Next, Commit,
   UndoOperations, Finished

\* A project of any files satisfies it.
LEMMA InitSafe == Init => Safe
<1> SUFFICES ASSUME Init PROVE Safe
  OBVIOUS
<1> USE FsAssumption DEF Init
<1>1. BytesKnown
  BY DEF BytesKnown, Known, Gone, Old, New, Edit, Slot
<1>2. HandlesLive
  BY DEF HandlesLive, Slot
<1>3. Progress
  BY DEF Progress, Applying, Undoing
<1>4. Staged
  <2>1. \A p \in Written \cup Deleted : 1 <= p
    BY DEF Path
  <2> QED  BY <2>1 DEF Staged
<1>5. Containers
  BY DEF Containers, Applying, Undoing, Slot
<1>6. Forgotten
  BY DEF Forgotten
<1>7. BytesSurvive
  BY DEF BytesSurvive
<1>8. Reachable
  BY DEF Reachable
<1>9. Effects
  <2>1. \A p \in Path : ~ (p < 1)
    BY DEF Path
  <2> QED  BY <2>1 DEF Effects
<1> QED  BY <1>1, <1>2, <1>3, <1>4, <1>5, <1>6, <1>7, <1>8, <1>9 DEF Safe

\* Every reachable state is safe.
LEMMA AlwaysSafe == Spec => [](IInv /\ Safe)
<1>1. Init => IInv /\ Safe
  BY InitHolds, InitSafe
<1>2. IInv /\ Safe /\ [Next]_vars => IInv' /\ Safe'
  BY StepKeeps, BytesKnownKept, HandlesLiveKept, ProgressKept, StagedKept, ContainersKept,
     ForgottenKept, BytesSurviveKept, ReachableKept, EffectsKept DEF Safe
<1> QED  BY <1>1, <1>2, PTL DEF Spec

-----------------------------------------------------------------------------
(* What a caller, and whoever else edits the project, may rely on. *)

\* Racing bytes are never overwritten or deleted, whatever fails, whoever
\* edits, and wherever the process dies: what others wrote is at its path or in
\* a container, unless they wrote it into a file that had been moved away.
THEOREM BytesAreKept == Spec => []BytesSurvive
<1>1. Safe => BytesSurvive
  BY DEF Safe
<1> QED  BY <1>1, AlwaysSafe, PTL

\* When a call has ended, every file that is not at its path is in a container
\* that an error has named: the loops hold a file only in the middle of a call.
THEOREM EverythingReported == Spec => []RecoveryReported
<1>1. Safe => RecoveryReported
  BY DEF Safe, Reachable, RecoveryReported, Ended, Held, HeldBack
<1> QED  BY <1>1, AlwaysSafe, PTL

\* Where nobody else interfered, a commit that returns has published the whole
\* plan, and one that throws a plain error has left every file as it was.
THEOREM CommitIsAtomic == Spec => []AllOrNothing
<1>1. ASSUME IInv, Safe, NEW p \in Path \ touched PROVE
        /\ pc = "committed" => target[p] = IF p \in Written \cup Deleted THEN Goal(p) ELSE prev[p]
        /\ pc = "failed" /\ reported = {} => target[p] = prev[p]
  <2> USE <1>1 DEF Safe
  <2>1. CASE pc = "committed"
    <3>1. failures = {} /\ reported = {}
      BY <2>1 DEF Progress, Forward
    <3>2. target[p] = IF p \in ops THEN Goal(p) ELSE prev[p]
      BY <2>1, <3>1 DEF Effects, Held, HeldBack
    <3>3. ops \subseteq Written \cup Deleted
      BY DEF IInv, TypeOK
    <3> QED  BY <2>1, <3>2, <3>3 DEF Staged
  <2>2. CASE pc = "failed" /\ reported = {}
    <3>1. failures = {} /\ ops = {}
      BY <2>2 DEF Progress
    <3> QED  BY <2>2, <3>1 DEF Effects, Held, HeldBack
  <2> QED  BY <2>1, <2>2
<1>2. IInv /\ Safe => AllOrNothing
  BY <1>1 DEF AllOrNothing
<1> QED  BY <1>2, AlwaysSafe, PTL

\* A rollback that reports success, of a commit that had reported no container,
\* has put back every file nobody else touched.
THEOREM RollbackRestores == Spec => []RollbackComplete
<1>1. ASSUME Safe, pc = "rolledBack", reported = {}, NEW p \in Path \ touched
      PROVE  target[p] = prev[p]
  <2>1. failures = {} /\ ops = {}
    BY <1>1 DEF Safe, Progress
  <2> QED  BY <1>1, <2>1 DEF Safe, Effects, Held, HeldBack
<1>2. Safe => RollbackComplete
  BY <1>1 DEF RollbackComplete
<1> QED  BY <1>2, AlwaysSafe, PTL
=============================================================================
