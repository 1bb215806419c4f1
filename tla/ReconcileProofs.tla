--------------------------- MODULE ReconcileProofs ---------------------------
(***************************************************************************)
(* Proofs about ReconcileApply, for every set of paths, configurations,    *)
(* CLI versions and contents, and every rendering of them.                 *)
(***************************************************************************)
EXTENDS ReconcileApply, TLAPS

USE ReconcileAssumption

\* What a goal renders at a path is generated, or nothing.
LEMMA Rendered ==
  ASSUME NEW g \in Goal, NEW p \in Path
  PROVE  Target[g][p] \in Gen \cup {None} /\ Life[g][p] \in Lifecycle
OBVIOUS

\* The initial project is well formed.
LEMMA InitType == Init => TypeOK
<1> SUFFICES ASSUME Init PROVE TypeOK
  OBVIOUS
<1>1. First[1] \in Config /\ First[2] \in Version
  BY DEF Goal
<1>2. files \in [Path -> Record \cup {None}]
  <2>1. ASSUME NEW p \in Path, Target[First][p] # None
        PROVE  [hash |-> Target[First][p], life |-> Life[First][p]] \in Record
    BY <2>1, Rendered DEF Record
  <2> QED
    BY <2>1 DEF Init
<1>3. disk \in [Path -> Gen \cup User \cup {None}]
  BY Rendered DEF Init
<1>4. plan \in [Path -> Action] /\ \A p \in Path : plan[p] = "none"
  BY DEF Init, NoPlan, Action
<1>5. before \in [Path -> Gen \cup {None}]
  BY DEF Init, Nothing
<1>6. edits \in 0 .. MaxEdits /\ faults \in 0 .. MaxFaults /\ done \subseteq {p \in Path : plan[p] \in Change}
  BY DEF Init
<1> QED
  BY <1>1, <1>2, <1>3, <1>4, <1>5, <1>6 DEF Init, TypeOK, Label, AtPath

\* A path is classified as one of the actions.  Bytes are only to be replaced
\* where the record attests them, and only a wanted path is to be written.
LEMMA Classified ==
  ASSUME TypeOK, NEW g \in Goal, NEW p \in Path
  PROVE  /\ Classify(g, p) \in Action
         /\ Classify(g, p) \in Change => disk[p] \in Gen \cup {None}
         /\ Classify(g, p) \in {"create", "rewrite", "unchanged"} => Target[g][p] # None
<1>1. files[p] # None => files[p].hash \in Gen
  BY DEF TypeOK, Record
<1>2. CASE Target[g][p] # None
  BY <1>1, <1>2 DEF Classify, Wanted, Action, Change
<1>3. CASE Target[g][p] = None
  BY <1>1, <1>3 DEF Classify, Obsolete, Action, Change
<1> QED
  BY <1>2, <1>3

\* What finalFileRecords writes attests generated bytes only.
LEMMA RecordsAttest ==
  ASSUME TypeOK, pc # "idle", NEW p \in Path
  PROVE  FinalRecord(p) \in Record \cup {None}
<1>1. goal \in Goal
  BY DEF TypeOK
<1>2. CASE plan[p] \in {"create", "rewrite", "unchanged"}
  BY <1>1, <1>2, Rendered DEF FinalRecord, TypeOK, Record
<1>3. CASE plan[p] \notin {"create", "rewrite", "unchanged"}
  BY <1>3 DEF FinalRecord, TypeOK, Record, Lifecycle
<1> QED
  BY <1>2, <1>3

\* A stopped command leaves nothing of itself behind.
LEMMA Stopped ==
  ASSUME TypeOK, Stop,
         disk' \in [Path -> Gen \cup User \cup {None}], UNCHANGED <<config, cli, touched, edits>>,
         kept' \subseteq Path \X User, faults' \in 0 .. MaxFaults,
         files' \in [Path -> Record \cup {None}], accepted' \in Config, attested' \in Goal,
         pending' \in Config \cup {None}, present' \in BOOLEAN, forgot' \in BOOLEAN,
         mixed' \subseteq Path
  PROVE  TypeOK'
<1>1. plan' \in [Path -> Action] /\ \A p \in Path : plan'[p] = "none"
  BY DEF Stop, NoPlan, Action
<1>2. before' \in [Path -> Gen \cup {None}]
  BY DEF Stop, Nothing
<1> QED
  BY <1>1, <1>2 DEF TypeOK, Stop, Label, AtPath

\* The count of failures keeps its bound.
LEMMA IoType == ASSUME TypeOK, NEW e \in BOOLEAN, Io(e) PROVE faults' \in 0 .. MaxFaults
BY DEF TypeOK, Io

\* What is at hand for a path is generated, or nothing.
LEMMA OldAndNew ==
  ASSUME TypeOK, pc # "idle", NEW p \in Path
  PROVE  /\ Old(p) \in Gen \cup {None} /\ New(p) \in Gen \cup {None}
         /\ After(p) \in Gen \cup {None} /\ before[p] \in Gen \cup {None}
BY Rendered DEF TypeOK, Old, New, After

\* However a call for a path ends, the state stays well formed.
LEMMA PathType ==
  ASSUME TypeOK, NEW p \in Path, plan[p] \in Change, pc \in AtPath \cup {"commit", "undo"},
         disk' \in [Path -> Gen \cup User \cup {None}], kept' \subseteq Path \X User,
         touched' \subseteq Path, faults' \in 0 .. MaxFaults, Elsewhere,
         \/ Finish(p)
         \/ GiveUp(p)
         \/ \E l \in AtPath : /\ Proceed(p, l) /\ held' \in Gen \cup User \cup {None}
                              /\ l \notin {"judge", "putback"} => held' \notin User
  PROVE  TypeOK'
<1>1. /\ UNCHANGED <<config, cli, files, accepted, attested, pending, present, goal, plan, before,
                     forgot, edits>>
      /\ goal \in Goal
  BY DEF Elsewhere, state, TypeOK, AtPath
<1>2. pc' \in Label \ {"idle", "planned", "staged"} /\ done' \subseteq {q \in Path : plan[q] \in Change}
      /\ broken' \in BOOLEAN /\ mixed' \subseteq Path
  <2>1. done \subseteq {q \in Path : plan[q] \in Change} /\ mixed \subseteq Path /\ broken \in BOOLEAN
    BY DEF TypeOK
  <2>2. CASE Finish(p)
    BY <2>1, <2>2 DEF Finish, Label
  <2>3. CASE GiveUp(p)
    BY <2>1, <2>3 DEF GiveUp, Label
  <2>4. ASSUME NEW l \in AtPath, Proceed(p, l)
        PROVE  /\ pc' \in Label \ {"idle", "planned", "staged"}
               /\ UNCHANGED <<done, broken, mixed>>
    BY <2>4 DEF Proceed, Label, AtPath
  <2> QED
    BY <2>1, <2>2, <2>3, <2>4
<1>3. /\ cur' \in Path \cup {None}
      /\ IF pc' \in AtPath THEN cur' = p ELSE cur' = None
      /\ held' \in Gen \cup User \cup {None}
      /\ pc' \notin {"judge", "putback"} => held' \notin User
      /\ pc' \notin AtPath => held' = None
  BY DEF Finish, GiveUp, Proceed, AtPath
<1> QED
  BY <1>1, <1>2, <1>3 DEF TypeOK

\* Every step keeps the state well formed.
LEMMA TypeStep == TypeOK /\ [Next]_vars => TypeOK'
<1> SUFFICES ASSUME TypeOK, [Next]_vars PROVE TypeOK'
  OBVIOUS
<1>1. ASSUME NEW kind \in {"sync", "upgrade"}, Begin(kind) PROVE TypeOK'
  <2> DEFINE g == <<config, cli>>
  <2>1. g \in Goal
    BY DEF TypeOK, Goal
  <2>2. goal' = g /\ plan' = [p \in Path |-> Classify(g, p)]
    BY <1>1 DEF Begin
  <2>3. /\ plan' \in [Path -> Action]
        /\ \A p \in Path : plan'[p] \in {"create", "rewrite", "unchanged"} => Target[goal'][p] # None
    BY <2>1, <2>2, Classified
  <2>4. before' \in [Path -> Gen \cup {None}]
    BY <1>1, <2>1, <2>2, Classified DEF Begin
  <2>5. /\ pc = "idle" /\ pc' = "planned"
        /\ UNCHANGED <<project, state, done, cur, held, kept, broken, history>>
    BY <1>1 DEF Begin
  <2>6. done = {} /\ cur = None /\ held = None
    BY <2>5 DEF TypeOK, AtPath
  <2> QED
    BY <2>1, <2>2, <2>3, <2>4, <2>5, <2>6 DEF TypeOK, project, state, history, Label, AtPath
<1>2. CASE Stage
  <2>1. /\ pc = "planned" /\ UNCHANGED <<project, state, kept, history>>
        /\ Stop \/ (pc' = "staged" /\ UNCHANGED command)
    BY <1>2 DEF Stage
  <2>2. CASE Stop
    BY <2>1, <2>2, Stopped DEF TypeOK, project, state, history
  <2>3. CASE pc' = "staged" /\ UNCHANGED command
    BY <2>1, <2>3 DEF TypeOK, project, state, command, history, Label, AtPath
  <2> QED
    BY <2>1, <2>2, <2>3
<1>3. ASSUME NEW e \in BOOLEAN, SavePending(e) PROVE TypeOK'
  <2>1. CASE e
    BY <1>3, <2>1, Stopped, IoType DEF SavePending, TypeOK, project
  <2>2. CASE ~e
    BY <1>3, <2>2, IoType DEF SavePending, TypeOK, project, command, Label, AtPath, Goal
  <2> QED
    BY <2>1, <2>2
<1>4. ASSUME NEW e \in BOOLEAN, Take(e) \/ Judge(e) \/ PutBack(e) \/ Link(e) PROVE TypeOK'
  <2>1. /\ cur \in Path /\ plan[cur] \in Change /\ pc \in AtPath /\ pc # "idle"
        /\ faults' \in 0 .. MaxFaults /\ Elsewhere
    BY <1>4, IoType DEF Take, Judge, PutBack, Link, TypeOK, AtPath
  <2>2. CASE Take(e)
    <3>1. disk' \in [Path -> Gen \cup User \cup {None}] /\ disk[cur] \in Gen \cup User \cup {None}
      BY <2>1, <2>2 DEF Take, TypeOK
    <3>2. GiveUp(cur) \/ (Proceed(cur, "judge") /\ held' = disk[cur])
      BY <2>2 DEF Take
    <3>3. kept' \subseteq Path \X User /\ touched' \subseteq Path
      BY <2>2 DEF Take, TypeOK
    <3> QED
      BY <2>1, <3>1, <3>2, <3>3, PathType DEF AtPath
  <2>3. CASE Judge(e)
    <3>1. UNCHANGED <<disk, kept, touched>>
      BY <2>3 DEF Judge
    <3>2. \/ Finish(cur)
          \/ Proceed(cur, "putback") /\ held' = held
          \/ Proceed(cur, "link") /\ held' = held /\ held = Old(cur)
      BY <2>3 DEF Judge
    <3>3. disk' \in [Path -> Gen \cup User \cup {None}] /\ kept' \subseteq Path \X User
          /\ touched' \subseteq Path /\ held \in Gen \cup User \cup {None}
      BY <3>1 DEF TypeOK
    <3>4. Old(cur) \notin User
      BY <2>1, OldAndNew
    <3> QED
      BY <2>1, <3>2, <3>3, <3>4, PathType DEF AtPath
  <2>4. CASE PutBack(e)
    <3>1. held \in Gen \cup User \cup {None}
      BY DEF TypeOK
    <3>2. disk' \in [Path -> Gen \cup User \cup {None}]
      BY <2>1, <2>4, <3>1 DEF PutBack, TypeOK
    <3>3. kept' \subseteq Path \X User /\ touched' \subseteq Path
      BY <2>1, <2>4 DEF PutBack, TypeOK
    <3> QED
      BY <2>1, <2>4, <3>2, <3>3, PathType DEF PutBack
  <2>5. CASE Link(e)
    <3>1. New(cur) \in Gen \cup {None}
      BY <2>1, OldAndNew
    <3>2. disk' \in [Path -> Gen \cup User \cup {None}]
      BY <2>1, <2>5, <3>1 DEF Link, TypeOK
    <3>3. kept' \subseteq Path \X User /\ touched' \subseteq Path /\ held \in Gen \cup User \cup {None}
      BY <2>5 DEF Link, TypeOK
    <3>4. Finish(cur) \/ GiveUp(cur) \/ (Proceed(cur, "putback") /\ held' = held)
      BY <2>5 DEF Link
    <3> QED
      BY <2>1, <3>2, <3>3, <3>4, PathType DEF AtPath
  <2> QED
    BY <1>4, <2>2, <2>3, <2>4, <2>5
<1>5. ASSUME NEW e \in BOOLEAN, SaveFinal(e) PROVE TypeOK'
  <2>1. CASE e
    BY <1>5, <2>1, IoType DEF SaveFinal, TypeOK, project, state, command, Label, AtPath
  <2>2. CASE ~e
    <3>1. files' \in [Path -> Record \cup {None}]
      BY <1>5, <2>2, RecordsAttest DEF SaveFinal
    <3>2. mixed' \subseteq Path /\ forgot' \in BOOLEAN
      BY <1>5, <2>2 DEF SaveFinal, TypeOK
    <3>3. goal \in Goal /\ goal[1] \in Config
      BY <1>5 DEF SaveFinal, TypeOK, Goal
    <3> QED
      BY <1>5, <2>2, <3>1, <3>2, <3>3, Stopped, IoType DEF SaveFinal, TypeOK, project
  <2> QED
    BY <2>1, <2>2
<1>6. ASSUME NEW e \in BOOLEAN, SaveFailed(e) PROVE TypeOK'
  BY <1>6, Stopped, IoType DEF SaveFailed, TypeOK, project
<1>7. ASSUME NEW e \in BOOLEAN, NEW p \in Path, Publish(p, e) \/ Undo(p, e) PROVE TypeOK'
  <2>1. plan[p] \in Change /\ pc \in {"commit", "undo"} /\ faults' \in 0 .. MaxFaults
        /\ Elsewhere /\ UNCHANGED <<disk, kept, touched>>
    BY <1>7, IoType DEF Publish, Undo, Turn, Return, Changed, TypeOK
  <2>2. disk' \in [Path -> Gen \cup User \cup {None}] /\ kept' \subseteq Path \X User
        /\ touched' \subseteq Path /\ held = None
    BY <2>1 DEF TypeOK, AtPath
  <2>3. Finish(p) \/ GiveUp(p) \/ \E l \in {"link", "take"} : Proceed(p, l) /\ held' = held
    BY <1>7 DEF Publish, Undo
  <2> QED
    BY <2>1, <2>2, <2>3, PathType DEF AtPath
<1>8. CASE Crash
  <2>1. mixed' \subseteq Path
    BY <1>8 DEF Crash, TypeOK
  <2>2. disk' \in [Path -> Gen \cup User \cup {None}] /\ present' \in BOOLEAN
    BY <1>8 DEF Crash, TypeOK, project
  <2>3. kept' \subseteq Path \X User
    <3>1. {cur} \X ({held} \cap User) \subseteq Path \X User
      BY DEF TypeOK
    <3> QED
      BY <1>8, <3>1 DEF Crash, TypeOK
  <2>4. faults' \in 0 .. MaxFaults
    BY <1>8, IoType DEF Crash
  <2> QED
    BY <1>8, <2>1, <2>2, <2>3, <2>4, Stopped DEF Crash, TypeOK, project
<1>9. ASSUME NEW p \in Path, NEW c \in Gen \cup User \cup {None}, Edit(p, c) PROVE TypeOK'
  BY <1>9 DEF Edit, TypeOK, state, command
<1>10. ASSUME NEW c \in Config, Configure(c) PROVE TypeOK'
  BY <1>10 DEF Configure, TypeOK, state, command, history
<1>11. ASSUME NEW v \in Version, InstallCli(v) PROVE TypeOK'
  BY <1>11 DEF InstallCli, TypeOK, state, command, history
<1>12. CASE UNCHANGED vars
  BY <1>12 DEF vars, project, state, command, history, TypeOK
<1> QED
  BY <1>1, <1>2, <1>3, <1>4, <1>5, <1>6, <1>7, <1>8, <1>9, <1>10, <1>11, <1>12
  DEF Next, Apply, UserStep

\* The state stays well formed, so no record ever attests bytes of a user and
\* no change is ever planned against them.
THEOREM TypeCorrect == Spec => []TypeOK
<1>1. TypeOK /\ [Next]_vars => TypeOK'
  BY TypeStep
<1> QED
  BY InitType, <1>1, PTL DEF Spec

\* The plan of a command without conflicts fits its goal.
LEMMA PlanFitsNew ==
  ASSUME TypeOK, ApplyInv, NEW kind, Begin(kind), NEW p \in Path
  PROVE  PlanFits(p)'
<1> DEFINE g == <<config, cli>>
<1>1. /\ goal' = g /\ plan'[p] = Classify(g, p) /\ Classify(g, p) # "conflict"
      /\ UNCHANGED <<disk, files, touched>>
  BY DEF Begin, Conflicting, project, state, history
<1>2. files[p] # None /\ files[p].life = "seed-once" => Seed(p)
  BY DEF ApplyInv
<1>3. CASE Target[g][p] # None
  <2>1. Classify(g, p) \in {"create", "rewrite", "unchanged", "preserved"}
    BY <1>1, <1>3 DEF Classify, Wanted
  <2>2. /\ Classify(g, p) = "preserved" => Life[g][p] = "seed-once"
        /\ Classify(g, p) = "unchanged" => disk[p] = Target[g][p]
    BY <1>3 DEF Classify, Wanted
  <2> QED
    BY <1>1, <1>3, <2>1, <2>2 DEF PlanFits
<1>4. CASE Target[g][p] = None
  <2>1. Classify(g, p) \in {"delete", "retired", "preserved", "none"}
    BY <1>1, <1>4 DEF Classify, Obsolete
  <2>2. /\ Classify(g, p) = "preserved" => p \in Added
        /\ Classify(g, p) = "retired" => Seed(p)
        /\ Classify(g, p) = "none" => disk[p] = None \/ files[p] = None
    BY <1>2, <1>4 DEF Classify, Obsolete
  <2> QED
    BY <1>1, <1>4, <2>1, <2>2 DEF PlanFits
<1> QED
  BY <1>3, <1>4

\* The project as created is settled.
LEMMA InitApply == Init => ApplyInv
<1> SUFFICES ASSUME Init PROVE ApplyInv
  OBVIOUS
<1>1. ASSUME NEW p \in Path PROVE Settled(p)
  <2>1. Stable(p) = Target[First][p]
    BY DEF Init, Stable
  <2>2. Target[First][p] # None =>
          /\ files[p] = [hash |-> Target[First][p], life |-> Life[First][p]]
          /\ files[p] # None
    BY Rendered DEF Init, Record
  <2>3. Target[First][p] = None => files[p] = None
    BY DEF Init
  <2>4. Agrees(Stable(p), files[p], p)
    BY <2>1, <2>2, <2>3 DEF Agrees
  <2>5. Attests(Stable(p), attested, p)
    BY <2>1 DEF Init, Attests
  <2> QED
    BY <2>4, <2>5 DEF Init, Settled
<1>2. ASSUME NEW p \in Path, files[p] # None, files[p].life = "seed-once" PROVE Seed(p)
  BY <1>2 DEF Init, Seed
<1> QED
  BY <1>1, <1>2 DEF Init, ApplyInv, PlanFits, AtPath

\* A settled path stays settled when nothing it is about changes.
LEMMA SettledStays ==
  ASSUME NEW p \in Path, Settled(p), disk'[p] = disk[p],
         UNCHANGED <<files, attested, goal, plan, before, done>>,
         \/ UNCHANGED <<cur, held>> /\ (pc = "take" <=> pc' = "take")
         \/ p # cur /\ p # cur'
  PROVE  Settled(p)'
BY DEF Settled, Stable, Agrees, Attests, Old, After, Seed

\* A plan stays fit while the command that made it runs.
LEMMA FitStays ==
  ASSUME NEW p \in Path, PlanFits(p), pc # "idle", UNCHANGED <<goal, plan, files>>,
         disk'[p] = disk[p] \/ p \in touched' \/ plan[p] \in Change, touched \subseteq touched'
  PROVE  PlanFits(p)'
BY DEF PlanFits, Seed, Change

\* What a path is to be settled by while a commit or a rollback deals with it:
\* it is as it was, as it shall be, or at hand.
LEMMA PathSettled ==
  ASSUME NEW p \in Path, Agrees(before[p], files[p], p), Attests(before[p], attested, p),
         UNCHANGED <<files, attested, goal, plan, before>>,
         \/ disk'[p] = before[p] /\ p \notin done' /\ p # cur'
         \/ disk'[p] = After(p) /\ p \in done' /\ p # cur'
         \/ /\ p = cur' /\ done' = done
            /\ IF pc' = "take" THEN disk'[p] = Old(p) /\ held' = None
               ELSE disk'[p] = None /\ held' = Old(p)
  PROVE  Settled(p)'
<1>1. After(p)' = After(p) /\ Stable(p)' = before[p]
  BY DEF After, Stable
<1>2. p = cur' => Old(p)' = Old(p)
  BY <1>1 DEF Old
<1> QED
  BY <1>1, <1>2 DEF Settled, Agrees, Attests, Seed

\* However a call for a path ends, the invariant holds if that path is settled
\* or excepted.
LEMMA PathApply ==
  ASSUME TypeOK, ApplyInv, NEW p \in Path, plan[p] \in Change, pc \in AtPath \cup {"commit", "undo"},
         cur \in {None, p}, \A q \in Path \ {p} : disk'[q] = disk[q], touched \subseteq touched',
         Elsewhere, Finish(p) \/ GiveUp(p) \/ \E l \in AtPath : Proceed(p, l),
         p \notin touched' \cup mixed' => Settled(p)'
  PROVE  ApplyInv'
<1>1. /\ UNCHANGED <<files, attested, pending, goal, plan, before, forgot>>
      /\ mixed \subseteq mixed' /\ pc # "idle" /\ pending # None
  BY DEF Elsewhere, state, Finish, GiveUp, Proceed, ApplyInv, AtPath
<1>2. ASSUME NEW q \in Path PROVE PlanFits(q)'
  BY <1>1, FitStays DEF ApplyInv
<1>3. ASSUME NEW q \in Path \ (touched' \cup mixed') PROVE Settled(q)'
  <2>1. CASE q # p
    <3>1. Settled(q) /\ q # cur /\ q # cur' /\ ((q \in done') <=> (q \in done))
      BY <1>1, <2>1 DEF ApplyInv, Finish, GiveUp, Proceed, TypeOK
    <3> QED
      BY <1>1, <2>1, <3>1 DEF Settled, Stable, Agrees, Attests, After, Seed
  <2> QED
    BY <1>3, <2>1
<1>4. \A q \in Path : files'[q] # None /\ files'[q].life = "seed-once" => Seed(q)'
  BY <1>1 DEF ApplyInv, Seed
<1> QED
  BY <1>1, <1>2, <1>3, <1>4 DEF ApplyInv

\* Nothing is asked of the plan of a command that ended.
LEMMA FitIdle == ASSUME NEW p \in Path, Stop PROVE PlanFits(p)'
BY DEF PlanFits, Stop

\* Reading a path that is to be published or undone keeps the invariant.
LEMMA ReadApply ==
  ASSUME TypeOK, ApplyInv, NEW p \in Path, NEW e \in BOOLEAN, Publish(p, e) \/ Undo(p, e)
  PROVE  ApplyInv'
<1>1. /\ plan[p] \in Change /\ pc \in {"commit", "undo"} /\ cur = None /\ held = None /\ p # cur
      /\ Elsewhere /\ UNCHANGED <<disk, touched>>
  BY DEF Publish, Undo, Turn, Return, Changed, TypeOK, AtPath
<1>2. \/ GiveUp(p)
      \/ Finish(p) /\ p \in done /\ disk[p] = before[p]
      \/ /\ Proceed(p, IF Old(p) = None THEN "link" ELSE "take") /\ held' = held
         /\ disk[p] = Old(p)
  BY DEF Publish, Undo, Turn, Return, Old
<1>3. ASSUME p \notin touched' \cup mixed' PROVE Settled(p)'
  <2>1. Settled(p) /\ UNCHANGED <<files, attested, goal, plan, before>>
    BY <1>1, <1>2, <1>3 DEF ApplyInv, Elsewhere, state, Finish, GiveUp, Proceed
  <2>2. CASE GiveUp(p)
    <3>1. p \notin done /\ done' = done /\ cur' = None
      BY <1>3, <2>2 DEF GiveUp
    <3> QED
      BY <1>1, <2>1, <3>1, SettledStays
  <2>3. p \in done => Agrees(before[p], files[p], p) /\ Attests(before[p], attested, p)
    BY <2>1 DEF Settled, Stable
  <2>4. CASE Finish(p) /\ p \in done /\ disk[p] = before[p]
    <3>1. disk'[p] = before[p] /\ p \notin done' /\ p # cur'
      BY <1>1, <2>4 DEF Finish
    <3> QED
      BY <2>1, <2>3, <2>4, <3>1, PathSettled
  <2>5. CASE /\ Proceed(p, IF Old(p) = None THEN "link" ELSE "take") /\ held' = held
             /\ disk[p] = Old(p)
    <3>1. /\ p = cur' /\ done' = done
          /\ IF pc' = "take" THEN disk'[p] = Old(p) /\ held' = None
             ELSE disk'[p] = None /\ held' = Old(p)
      BY <1>1, <2>5 DEF Proceed
    <3>2. Agrees(before[p], files[p], p) /\ Attests(before[p], attested, p)
      BY <1>1, <2>1, <2>3, <2>5 DEF Settled, Stable, Old
    <3> QED
      BY <2>1, <3>1, <3>2, PathSettled
  <2> QED
    BY <1>2, <2>2, <2>4, <2>5
<1> QED
  BY <1>1, <1>2, <1>3, PathApply DEF AtPath

\* So does taking what is there, comparing it, putting it back, and linking what
\* replaces it.
LEMMA HandApply ==
  ASSUME TypeOK, ApplyInv, NEW e \in BOOLEAN, Take(e) \/ Judge(e) \/ PutBack(e) \/ Link(e)
  PROVE  ApplyInv'
<1>0. PICK p \in Path : p = cur
  BY DEF Take, Judge, PutBack, Link, TypeOK, AtPath
<1>1. /\ p = cur /\ plan[p] \in Change /\ pc \in AtPath /\ p # None
      /\ Elsewhere /\ touched \subseteq touched'
  BY <1>0 DEF Take, Judge, PutBack, Link, TypeOK, AtPath
<1>2. \A q \in Path \ {p} : disk'[q] = disk[q]
  BY <1>0 DEF Take, Judge, PutBack, Link, TypeOK
<1>3. Finish(p) \/ GiveUp(p) \/ \E l \in AtPath : Proceed(p, l)
  BY <1>0 DEF Take, Judge, PutBack, Link, AtPath
<1>4. ASSUME p \notin touched' \cup mixed' PROVE Settled(p)'
  <2>1. Settled(p) /\ UNCHANGED <<files, attested, goal, plan, before>>
    BY <1>1, <1>3, <1>4 DEF ApplyInv, Elsewhere, state, Finish, GiveUp, Proceed
  <2>2. /\ Agrees(before[p], files[p], p) /\ Attests(before[p], attested, p)
        /\ IF pc = "take" THEN disk[p] = Old(p) /\ held = None ELSE disk[p] = None /\ held = Old(p)
    BY <1>1, <2>1 DEF Settled, Stable
  <2>3. GiveUp(p) => p \notin done /\ done' = done /\ cur' = None
    BY <1>4 DEF GiveUp
  <2>4. CASE Take(e)
    <3>1. CASE GiveUp(p) /\ UNCHANGED disk
      <4>1. disk'[p] = before[p] /\ p \notin done' /\ p # cur'
        BY <1>1, <2>2, <2>3, <2>4, <3>1 DEF Take, Old
      <4> QED
        BY <1>1, <2>1, <2>2, <4>1, PathSettled
    <3>2. CASE /\ held' = disk[p] /\ disk' = [disk EXCEPT ![p] = None] /\ Proceed(p, "judge")
      <4>1. p = cur' /\ done' = done /\ pc' # "take" /\ disk'[p] = None /\ held' = Old(p)
        BY <1>1, <2>2, <2>4, <3>2 DEF Proceed, Take, TypeOK
      <4> QED
        BY <1>1, <2>1, <2>2, <4>1, PathSettled
    <3> QED
      BY <1>1, <2>4, <3>1, <3>2 DEF Take
  <2>5. CASE Judge(e)
    <3>1. disk'[p] = None /\ held = Old(p)
      BY <2>2, <2>5 DEF Judge
    <3>2. CASE Finish(p) /\ New(p) = None
      <4>1. \/ disk'[p] = before[p] /\ p \notin done' /\ p # cur'
            \/ disk'[p] = After(p) /\ p \in done' /\ p # cur'
        BY <1>1, <3>1, <3>2 DEF Finish, New
      <4> QED
        BY <1>1, <2>1, <2>2, <4>1, PathSettled
    <3>3. CASE \E l \in {"putback", "link"} : Proceed(p, l) /\ UNCHANGED held
      <4>1. p = cur' /\ done' = done /\ pc' # "take" /\ held' = Old(p)
        BY <1>1, <3>1, <3>3 DEF Proceed
      <4> QED
        BY <1>1, <2>1, <2>2, <3>1, <4>1, PathSettled
    <3> QED
      BY <1>1, <2>5, <3>2, <3>3 DEF Judge
  <2>6. CASE PutBack(e)
    <3>1. disk' = [disk EXCEPT ![p] = held] /\ GiveUp(p) /\ held = Old(p)
      BY <1>1, <1>4, <2>2, <2>6 DEF PutBack
    <3>2. disk'[p] = before[p] /\ p \notin done' /\ p # cur'
      BY <1>1, <2>3, <3>1 DEF Old, TypeOK
    <3> QED
      BY <1>1, <2>1, <2>2, <3>2, PathSettled
  <2>7. CASE Link(e)
    <3>1. disk[p] = None /\ held = Old(p)
      BY <2>2, <2>7 DEF Link
    <3>2. CASE Finish(p) /\ disk' = [disk EXCEPT ![p] = New(p)]
      <4>1. \/ disk'[p] = before[p] /\ p \notin done' /\ p # cur'
            \/ disk'[p] = After(p) /\ p \in done' /\ p # cur'
        BY <1>1, <3>2 DEF Finish, New, TypeOK
      <4> QED
        BY <1>1, <2>1, <2>2, <4>1, PathSettled
    <3>3. CASE Finish(p) /\ UNCHANGED disk /\ p \in done /\ disk[p] = before[p]
      <4>1. disk'[p] = before[p] /\ p \notin done' /\ p # cur'
        BY <1>1, <3>3 DEF Finish
      <4> QED
        BY <1>1, <2>1, <2>2, <4>1, PathSettled
    <3>4. CASE GiveUp(p) /\ UNCHANGED disk /\ (p \in done \/ held = None)
      <4>1. disk'[p] = before[p] /\ p \notin done' /\ p # cur'
        BY <1>1, <2>3, <3>1, <3>4 DEF Old
      <4> QED
        BY <1>1, <2>1, <2>2, <4>1, PathSettled
    <3>5. CASE Proceed(p, "putback") /\ UNCHANGED <<disk, held>>
      <4>1. p = cur' /\ done' = done /\ pc' # "take" /\ disk'[p] = None /\ held' = Old(p)
        BY <1>1, <3>1, <3>5 DEF Proceed
      <4> QED
        BY <1>1, <2>1, <2>2, <4>1, PathSettled
    <3> QED
      BY <1>1, <2>7, <3>1, <3>2, <3>3, <3>4, <3>5 DEF Link
  <2> QED
    BY <2>4, <2>5, <2>6, <2>7
<1> QED
  BY <1>1, <1>2, <1>3, <1>4, PathApply DEF AtPath

\* What the final save records is on the disk, and it is what the goal wants,
\* wherever the user did not interfere.
LEMMA FinalSettled ==
  ASSUME TypeOK, ApplyInv, pc = "commit", Changed \subseteq done, NEW p \in Path \ touched,
         p \notin mixed \/ Agrees(disk[p], FinalRecord(p), p)
  PROVE  Agrees(disk[p], FinalRecord(p), p) /\ Attests(disk[p], goal, p)
<1>1. PlanFits(p) /\ cur = None /\ p # cur /\ goal \in Goal /\ (p \in done => plan[p] \in Change)
  BY DEF ApplyInv, TypeOK, AtPath
<1>2. plan[p] \in {"create", "rewrite", "delete", "unchanged", "preserved", "retired", "none"}
  BY <1>1 DEF PlanFits
<1>3. plan[p] \in Change => p \in done
  BY DEF Changed
<1>4. Agrees(disk[p], FinalRecord(p), p)
  <2> SUFFICES ASSUME p \notin mixed PROVE Agrees(disk[p], FinalRecord(p), p)
    OBVIOUS
  <2>1. Settled(p)
    BY DEF ApplyInv
  <2>2. CASE plan[p] \in {"create", "rewrite", "unchanged"}
    <3>1. disk[p] = Target[goal][p]
      BY <1>1, <1>3, <2>1, <2>2 DEF Settled, After, PlanFits, Change
    <3>2. FinalRecord(p) = [hash |-> Target[goal][p], life |-> Life[goal][p]]
      BY <2>2 DEF FinalRecord
    <3>3. Target[goal][p] \in Gen /\ Life[goal][p] \in Lifecycle
      BY <1>1, <2>2, Rendered DEF TypeOK
    <3>4. FinalRecord(p) # None
      BY <3>2, <3>3 DEF Record
    <3> QED
      BY <3>1, <3>2, <3>4 DEF Agrees
  <2>4. CASE plan[p] = "delete"
    BY <1>3, <2>1, <2>4 DEF Settled, After, FinalRecord, Agrees, Change
  <2>5. CASE plan[p] = "retired"
    BY <1>1, <2>5 DEF PlanFits, FinalRecord, Agrees
  <2>6. CASE plan[p] \in {"preserved", "none"}
    <3>1. Agrees(disk[p], files[p], p)
      BY <1>1, <2>1, <2>6 DEF Settled, Stable, Change
    <3> QED
      BY <2>6, <3>1 DEF FinalRecord, Agrees, TypeOK, Record
  <2> QED
    BY <1>2, <2>2, <2>4, <2>5, <2>6
<1>5. Attests(disk[p], goal, p)
  <2>1. CASE Target[goal][p] # None
    <3>1. ASSUME Life[goal][p] # "seed-once" PROVE disk[p] = Target[goal][p]
      <4>1. plan[p] \in {"create", "rewrite", "unchanged"}
        BY <1>1, <2>1, <3>1 DEF PlanFits
      <4>2. FinalRecord(p) = [hash |-> Target[goal][p], life |-> Life[goal][p]]
        BY <4>1 DEF FinalRecord
      <4>3. FinalRecord(p) # None
        BY <1>1, <2>1, <4>2, Rendered DEF Record
      <4> QED
        BY <1>4, <4>2, <4>3 DEF Agrees
    <3> QED
      BY <2>1, <3>1 DEF Attests
  <2>2. CASE Target[goal][p] = None
    <3>1. plan[p] \in {"delete", "retired", "preserved", "none"}
      BY <1>1, <2>2 DEF PlanFits
    <3>2. CASE plan[p] \in {"delete", "retired"}
      BY <1>4, <2>2, <3>2 DEF FinalRecord, Agrees, Attests
    <3>3. CASE plan[p] = "preserved"
      BY <1>1, <2>2, <3>3 DEF PlanFits, Attests
    <3>4. CASE plan[p] = "none"
      <4>1. disk[p] = None \/ files[p] = None
        BY <1>1, <3>4 DEF PlanFits
      <4>2. FinalRecord(p) = None
        BY <2>2, <3>4, <4>1 DEF FinalRecord
      <4> QED
        BY <1>4, <2>2, <4>2 DEF Agrees, Attests
    <3> QED
      BY <3>1, <3>2, <3>3, <3>4
  <2> QED
    BY <2>1, <2>2
<1> QED
  BY <1>4, <1>5

\* So does the final save.
LEMMA SaveApply ==
  ASSUME TypeOK, ApplyInv, NEW e \in BOOLEAN, SaveFinal(e)
  PROVE  ApplyInv'
<1>1. pc = "commit" /\ Changed \subseteq done /\ cur = None /\ goal \in Goal /\ pending # None
  BY DEF SaveFinal, TypeOK, ApplyInv, AtPath
<1>2. CASE e
  <2>1. UNCHANGED <<disk, files, attested, pending, goal, plan, before, done, cur, held, touched, mixed,
                    forgot>>
        /\ pc' = "undo"
    BY <1>2 DEF SaveFinal, state, command, project
  <2>2. ASSUME NEW p \in Path PROVE PlanFits(p)'
    BY <1>1, <2>1, FitStays DEF ApplyInv
  <2>3. ASSUME NEW p \in Path \ (touched \cup mixed) PROVE Settled(p)'
    BY <1>1, <2>1, SettledStays DEF ApplyInv
  <2> QED
    BY <1>1, <2>1, <2>2, <2>3 DEF ApplyInv, Seed
<1>3. CASE ~e
  <2>1. /\ files' = [p \in Path |-> FinalRecord(p)] /\ attested' = goal
        /\ mixed' = {p \in mixed : ~Agrees(disk[p], FinalRecord(p), p)}
        /\ forgot' = (forgot \/ mixed' # {})
        /\ Stop /\ UNCHANGED <<disk, touched>>
    BY <1>3 DEF SaveFinal, project
  <2>2. ASSUME NEW p \in Path PROVE PlanFits(p)'
    BY <2>1, FitIdle
  <2>3. ASSUME NEW p \in Path, files'[p] # None, files'[p].life = "seed-once" PROVE Seed(p)
    <3>1. FinalRecord(p) # None /\ FinalRecord(p).life = "seed-once"
      BY <2>1, <2>3
    <3>2. (files[p] # None /\ files[p].life = "seed-once") \/ Life[goal][p] = "seed-once"
      BY <3>1 DEF FinalRecord
    <3> QED
      BY <1>1, <3>2 DEF ApplyInv, Seed
  <2>4. ASSUME NEW p \in Path \ (touched' \cup mixed') PROVE Settled(p)'
    <3>1. Agrees(disk[p], FinalRecord(p), p) /\ Attests(disk[p], goal, p)
      BY <1>1, <2>1, FinalSettled
    <3>2. Stable(p)' = disk[p] /\ p \notin done' /\ p # cur'
      BY <2>1 DEF Stable, Stop
    <3> QED
      BY <2>1, <3>1, <3>2 DEF Settled, Agrees, Attests, Seed
  <2>5. pc' = "idle"
    BY <2>1 DEF Stop
  <2> QED
    BY <2>1, <2>2, <2>3, <2>4, <2>5 DEF ApplyInv, Seed, AtPath
<1> QED
  BY <1>2, <1>3

\* So does the end of a command that leaves the records as they were.
LEMMA StopApply ==
  ASSUME TypeOK, ApplyInv, Stop, UNCHANGED <<files, attested, touched>>,
         mixed \cup done \cup (IF held = None THEN {} ELSE {cur}) \subseteq mixed',
         UNCHANGED disk,
         mixed' # {} => pending' # None \/ forgot'
  PROVE  ApplyInv'
<1>1. ASSUME NEW p \in Path \ (touched' \cup mixed') PROVE Settled(p)'
  <2>1. Settled(p) /\ p \notin done
    BY DEF ApplyInv
  <2>2. Stable(p) = disk[p]
    <3>1. CASE p = cur
      BY <1>1, <2>1, <3>1 DEF Settled, Stable, Old
    <3> QED
      BY <2>1, <3>1 DEF Stable
  <2> QED
    BY <2>1, <2>2 DEF Settled, Stable, Agrees, Attests, Seed, Stop
<1>2. pc' = "idle"
  BY DEF Stop
<1> QED
  BY <1>1, <1>2, FitIdle DEF ApplyInv, Seed, AtPath

\* Every step keeps the invariant.
LEMMA ApplyStep == TypeOK /\ ApplyInv /\ [Next]_vars => ApplyInv'
<1> SUFFICES ASSUME TypeOK, ApplyInv, [Next]_vars PROVE ApplyInv'
  OBVIOUS
<1>1. ASSUME NEW kind \in {"sync", "upgrade"}, Begin(kind) PROVE ApplyInv'
  <2>1. /\ pc = "idle" /\ pc' = "planned" /\ done = {} /\ cur = None
        /\ UNCHANGED <<disk, files, attested, pending, done, cur, touched, mixed, forgot>>
    BY <1>1 DEF Begin, TypeOK, project, state, history, AtPath
  <2>2. ASSUME NEW p \in Path \ (touched \cup mixed) PROVE Settled(p)'
    <3>1. Settled(p) /\ p \notin done /\ p # cur
      BY <2>1 DEF ApplyInv
    <3> QED
      BY <2>1, <3>1 DEF Settled, Stable, Agrees, Attests, Seed
  <2> QED
    BY <1>1, <2>1, <2>2, PlanFitsNew DEF ApplyInv, Seed, AtPath
<1>2. CASE Stage
  <2>1. /\ pc = "planned" /\ done = {} /\ cur = None /\ held = None
        /\ UNCHANGED <<disk, files, attested, pending, touched, mixed, forgot>>
    BY <1>2 DEF Stage, TypeOK, project, state, history, AtPath
  <2>2. CASE Stop
    BY <2>1, <2>2, StopApply DEF ApplyInv
  <2>3. CASE pc' = "staged" /\ UNCHANGED command
    <3>1. ASSUME NEW p \in Path PROVE PlanFits(p)'
      BY <2>1, <2>3, FitStays DEF command, ApplyInv
    <3>2. ASSUME NEW p \in Path \ (touched \cup mixed) PROVE Settled(p)'
      BY <2>1, <2>3, SettledStays DEF command, ApplyInv
    <3> QED
      BY <2>1, <2>3, <3>1, <3>2 DEF command, ApplyInv, Seed, AtPath
  <2> QED
    BY <1>2, <2>2, <2>3 DEF Stage
<1>3. ASSUME NEW e \in BOOLEAN, SavePending(e) PROVE ApplyInv'
  <2>1. /\ pc = "staged" /\ done = {} /\ cur = None /\ held = None /\ goal \in Goal /\ goal[1] # None
        /\ UNCHANGED <<disk, files, attested, touched, mixed, forgot>>
    BY <1>3 DEF SavePending, TypeOK, project, Goal, AtPath
  <2>2. CASE Stop /\ UNCHANGED pending
    BY <2>1, <2>2, StopApply DEF ApplyInv
  <2>3. CASE pc' = "commit" /\ pending' = goal[1] /\ UNCHANGED command
    <3>1. ASSUME NEW p \in Path PROVE PlanFits(p)'
      BY <2>1, <2>3, FitStays DEF command, ApplyInv
    <3>2. ASSUME NEW p \in Path \ (touched \cup mixed) PROVE Settled(p)'
      BY <2>1, <2>3, SettledStays DEF command, ApplyInv
    <3> QED
      BY <2>1, <2>3, <3>1, <3>2 DEF command, ApplyInv, Seed, AtPath
  <2> QED
    BY <1>3, <2>2, <2>3 DEF SavePending
<1>4. ASSUME NEW e \in BOOLEAN, SaveFailed(e) PROVE ApplyInv'
  <2>1. /\ pc = "undo" /\ done = {} /\ cur = None /\ held = None /\ Stop
        /\ UNCHANGED <<disk, files, attested, touched, mixed>>
    BY <1>4 DEF SaveFailed, TypeOK, project, AtPath
  <2>2. mixed' # {} => pending' # None \/ forgot'
    BY <1>4, <2>1 DEF SaveFailed, ApplyInv
  <2> QED
    BY <2>1, <2>2, StopApply
<1>5. CASE Crash
  <2>1. /\ Stop /\ UNCHANGED <<files, attested, pending, touched, forgot>>
        /\ mixed' = mixed \cup done \cup (IF held = None THEN {} ELSE {cur})
    BY <1>5 DEF Crash
  <2>2. UNCHANGED disk
    BY <1>5 DEF Crash, project
  <2>3. mixed' # {} => pending' # None \/ forgot'
    BY <2>1 DEF ApplyInv, TypeOK, Label, AtPath
  <2> QED
    BY <2>1, <2>2, <2>3, StopApply
<1>6. ASSUME NEW q \in Path, NEW c \in Gen \cup User \cup {None}, Edit(q, c) PROVE ApplyInv'
  <2>1. /\ UNCHANGED <<files, attested, pending, pc, goal, plan, before, done, cur, held, mixed, forgot>>
        /\ touched' = touched \cup {q} /\ \A p \in Path \ {q} : disk'[p] = disk[p]
    BY <1>6 DEF Edit, state, command, TypeOK
  <2>2. ASSUME NEW p \in Path PROVE PlanFits(p)'
    BY <2>1 DEF ApplyInv, PlanFits, Seed
  <2>3. ASSUME NEW p \in Path \ (touched' \cup mixed') PROVE Settled(p)'
    <3>1. Settled(p) /\ disk'[p] = disk[p]
      BY <2>1, <2>3 DEF ApplyInv
    <3> QED
      BY <2>1, <3>1, SettledStays
  <2> QED
    BY <2>1, <2>2, <2>3 DEF ApplyInv, Seed
<1>7. CASE UNCHANGED <<disk, state, pc, command, history>>
  <2>1. UNCHANGED <<disk, files, attested, pending, pc, goal, plan, before, done, cur, held,
                    touched, mixed, forgot>>
    BY <1>7 DEF state, command, history
  <2>2. ASSUME NEW p \in Path PROVE PlanFits(p)'
    BY <2>1 DEF ApplyInv, PlanFits, Seed
  <2>3. ASSUME NEW p \in Path \ (touched' \cup mixed') PROVE Settled(p)'
    <3>1. Settled(p) /\ disk'[p] = disk[p]
      BY <2>1, <2>3 DEF ApplyInv
    <3> QED
      BY <2>1, <3>1, SettledStays
  <2> QED
    BY <2>1, <2>2, <2>3 DEF ApplyInv, Seed
<1>8. ASSUME NEW c \in Config, Configure(c) PROVE ApplyInv'
  BY <1>7, <1>8 DEF Configure
<1>9. ASSUME NEW v \in Version, InstallCli(v) PROVE ApplyInv'
  BY <1>7, <1>9 DEF InstallCli
<1>10. CASE UNCHANGED vars
  BY <1>7, <1>10 DEF vars, project
<1> QED
  BY <1>1, <1>2, <1>3, <1>4, <1>5, <1>6, <1>8, <1>9, <1>10,
     ReadApply, HandApply, SaveApply
  DEF Next, Apply, UserStep

\* The invariant on which the truth of state.json rests.
THEOREM ApplyInvariant == Spec => []ApplyInv
<1>1. TypeOK /\ TypeOK' /\ ApplyInv /\ [Next]_vars => ApplyInv'
  BY ApplyStep
<1> QED
  BY TypeCorrect, InitApply, <1>1, PTL DEF Spec

\* Between commands, whatever failed or was killed before, state.json attests
\* exactly the bytes at the paths that no user and no interruption changed.
THEOREM StateTellsTheTruth == Spec => []StateMatchesDisk
<1>1. TypeOK /\ ApplyInv => StateMatchesDisk
  BY DEF ApplyInv, TypeOK, StateMatchesDisk, Settled, Stable, AtPath
<1> QED
  BY TypeCorrect, ApplyInvariant, <1>1, PTL

\* And generationPlan names the goal that those bytes were rendered for.
THEOREM PlanIsAttained == Spec => []PlanAttested
<1>1. TypeOK /\ ApplyInv => PlanAttested
  BY DEF ApplyInv, TypeOK, PlanAttested, Settled, Stable, AtPath
<1> QED
  BY TypeCorrect, ApplyInvariant, <1>1, PTL

\* What an interrupted operation left behind is never left without a pending
\* operation, unless an operation that ended cleared it.
THEOREM InterruptionIsRecorded == Spec => []InterruptionRecorded
<1>1. ApplyInv => InterruptionRecorded
  BY DEF ApplyInv, InterruptionRecorded
<1> QED
  BY ApplyInvariant, <1>1, PTL

\* What a call for a path does to the copies of its bytes.
LEMMA BytesAtPath ==
  ASSUME TypeOK, NEW e \in BOOLEAN, Take(e) \/ Judge(e) \/ PutBack(e) \/ Link(e), NEW p \in Path
  PROVE  Copies(p) \cap User \subseteq Copies(p)'
<1>1. /\ cur \in Path /\ pc \in AtPath /\ pc # "idle" /\ kept \subseteq kept' /\ None \notin User
      /\ \A q \in Path \ {cur} : disk'[q] = disk[q] /\ q # cur'
  BY DEF Take, Judge, PutBack, Link, TypeOK, AtPath, Finish, GiveUp, Proceed
<1>2. CASE p # cur
  BY <1>1, <1>2 DEF Copies
<1>3. CASE p = cur
  <2>1. Old(p) \notin User
    BY <1>1, OldAndNew
  <2>2. CASE Take(e)
    <3>1. \/ disk'[p] = disk[p]
          \/ cur' = p /\ held' = disk[p]
      BY <1>3, <2>2 DEF Take, Proceed
    <3>2. held \notin User
      BY <2>2 DEF Take, TypeOK
    <3> QED
      BY <1>1, <3>1, <3>2 DEF Copies
  <2>3. CASE Judge(e)
    <3>1. disk' = disk /\ ((cur' = p /\ held' = held) \/ held \notin User)
      BY <1>3, <2>1, <2>3 DEF Judge, Proceed
    <3> QED
      BY <1>1, <3>1 DEF Copies
  <2>4. CASE PutBack(e)
    <3>1. CASE disk' = disk /\ kept' = kept \cup ({cur} \X ({held} \cap User))
      <4>1. held \in User => <<p, held>> \in kept'
        BY <1>3, <3>1
      <4> QED
        BY <1>1, <1>3, <3>1, <4>1 DEF Copies
    <3>2. CASE disk[p] = None /\ disk' = [disk EXCEPT ![p] = held]
      <4>1. disk'[p] = held
        BY <3>2 DEF TypeOK
      <4> QED
        BY <1>1, <1>3, <3>2, <4>1 DEF Copies
    <3> QED
      BY <1>3, <2>4, <3>1, <3>2 DEF PutBack
  <2>5. CASE Link(e)
    <3>1. held \notin User /\ (disk'[p] = disk[p] \/ disk[p] = None)
      BY <1>3, <2>5 DEF Link, TypeOK
    <3> QED
      BY <1>1, <3>1 DEF Copies
  <2> QED
    BY <2>2, <2>3, <2>4, <2>5
<1> QED
  BY <1>2, <1>3

\* One step of a command destroys no bytes of a user.
LEMMA BytesStep ==
  ASSUME TypeOK, [Next]_vars, ~UserStep, NEW p \in Path
  PROVE  Copies(p) \cap User \subseteq Copies(p)'
<1>1. ASSUME NEW e \in BOOLEAN, Take(e) \/ Judge(e) \/ PutBack(e) \/ Link(e)
      PROVE  Copies(p) \cap User \subseteq Copies(p)'
  BY <1>1, BytesAtPath
<1>2. CASE UNCHANGED <<disk, kept>> /\ held \notin User
  BY <1>2 DEF Copies
<1>3. ASSUME NEW e \in BOOLEAN, NEW q \in Path, Publish(q, e) \/ Undo(q, e)
      PROVE  UNCHANGED <<disk, kept>> /\ held \notin User
  BY <1>3 DEF Publish, Undo, TypeOK
<1>4. CASE Crash
  <2>1. disk' = disk /\ kept' = kept \cup ({cur} \X ({held} \cap User))
    BY <1>4 DEF Crash, project
  <2>2. p = cur /\ held \in User => <<p, held>> \in kept'
    BY <2>1
  <2> QED
    BY <2>1, <2>2 DEF Copies
<1>5. CASE UNCHANGED <<disk, kept, cur, held>>
  BY <1>5 DEF Copies
<1>6. ASSUME NEW e \in BOOLEAN, SavePending(e) \/ SaveFinal(e) \/ SaveFailed(e)
      PROVE  UNCHANGED <<disk, kept>> /\ held \notin User
  BY <1>6 DEF SavePending, SaveFinal, SaveFailed, TypeOK, project, command
<1>7. ASSUME Stage PROVE UNCHANGED <<disk, kept>> /\ held \notin User
  BY <1>7 DEF Stage, TypeOK, project
<1> QED
  BY <1>1, <1>2, <1>3, <1>4, <1>5, <1>6, <1>7
  DEF Next, Apply, Begin, Configure, InstallCli, vars, project, command

\* Whatever a plan, a publication, a rollback or a resumption does, and wherever
\* an edit falls between two of its calls, no bytes that only a user can have
\* written are destroyed: they are at their path or in a container beside it.
THEOREM UserBytesAreKept == Spec => UserBytesKept
<1>1. TypeOK /\ [Next]_vars =>
      [~UserStep => \A p \in Path : Copies(p) \cap User \subseteq Copies(p)']_vars
  BY BytesStep
<1> QED
  BY TypeCorrect, <1>1, PTL DEF Spec, UserBytesKept
=============================================================================
