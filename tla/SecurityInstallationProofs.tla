----------------------- MODULE SecurityInstallationProofs -----------------------
(***************************************************************************)
(* What the installation of dependencies promises of its journal, proved   *)
(* for any number of runs, lockfiles, edits and I/O errors.                *)
(***************************************************************************)
EXTENDS SecurityInstallation, TLAPS

\* The labels of a run that is under way, and those after its publication.
Active(r) == pc[r] \notin Ended \cup {"idle"}
Installed == Verifying \cup {"lockAudit", "install", "installing", "audit"}

\* What a run knows of the journal: it never works over a marker, and after its
\* publication the journal is its own.
KnownJournal ==
  \A r \in Run :
    /\ ~IsMarker(known[r].journal)
    /\ pc[r] \in Installed \/ (pc[r] \in Committing /\ task[r] \in {"fail", "clear"}) =>
         known[r].journal # None /\ known[r].journal.op = r /\ known[r].journal.status = "INSTALLING"
    /\ pc[r] = "resolve" \/ (pc[r] \in Committing /\ task[r] = "publish") =>
         Retriable(known[r]) /\ (known[r].journal # None => known[r].journal.op # r)

\* What the transaction t wants that serves the task a of the run r, which knows k.
Wants(r, a, k, t) ==
  CASE a = "publish" -> t.goal.lock # None /\ t.goal.journal = Installing(r, t.goal.lock)
    [] a = "fail" -> t.goal = [t.expect EXCEPT !.journal.status = "FAILED"]
    [] a = "mark" -> /\ t.goal.lock = t.expect.lock
                     /\ \E v \in Version \cup {None} :
                          t.goal.journal = [op |-> IF k.journal = None THEN r ELSE k.journal.op,
                                            status |-> "CLEANUP_UNVERIFIED", after |-> v]
    [] a = "clear" -> t.goal = [t.expect EXCEPT !.journal = None]
Goals(r) == Wants(r, task[r], known[r], tx[r])

\* Where a transaction is.
Sound(r) ==
  /\ pc[r] \notin Committing \ {"begin"} => tx[r] = NoTx
  /\ pc[r] # "link" => tx[r].held = None
  /\ pc[r] = "link" =>
       tx[r].held \in {None} \cup (IF tx[r].at = "lock" THEN Version ELSE Journal)
  /\ pc[r] \in Committing \ {"begin"} =>
       /\ tx[r].expect.journal = known[r].journal /\ Goals(r)
       /\ tx[r].done \subseteq Changed(tx[r])
       /\ pc[r] \in {"ready", "take", "link"} => tx[r].at \in Changed(tx[r]) \ tx[r].done
       /\ pc[r] = "take" => tx[r].expect[tx[r].at] # None
       /\ pc[r] = "check" => tx[r].done = Changed(tx[r])
InTx == \A r \in Run : Sound(r)

\* Nothing interferes with a transaction but the end of its run: no edit and no
\* takeover, and what is torn is so by a kill.
Fine == events \cap {"edited", "forced"} = {} /\ (faults = 0 \/ "torn" \notin events)

\* Then the run that has the lease is the only one, and the files are as it
\* knows them, or as far as its transaction is.
Midway(r) ==
  /\ tx[r].expect = known[r]
  /\ \A p \in Path :
       file[p] = IF p \in tx[r].done THEN tx[r].goal[p]
                 ELSE IF pc[r] = "link" /\ p = tx[r].at THEN None ELSE tx[r].expect[p]
  /\ pc[r] = "link" => tx[r].held = tx[r].expect[tx[r].at]
  /\ pc[r] = "check" => file = tx[r].goal
Lone(r) ==
  /\ lease = r
  /\ pc[r] \in Committing \ {"begin"} => Midway(r)
  /\ pc[r] \notin Committing \cup {"snapshot"} \/ pc[r] = "begin" => file = known[r]
Alone == Fine => \A r \in Run : Active(r) => Lone(r)

\* BarrierStands between the failure of a command and the marker.
Calm == faults = 0 /\ events \cap {"edited", "forced", "abandoned"} = {}
Ward(r) ==
  /\ lease = r
  /\ \/ pc[r] = "unsafe" /\ IsMarker(file.journal)
     \/ pc[r] \in Committing \ {"undo"} /\ task[r] = "mark"
Guarded == Calm => \A r \in stray : Ward(r)

\* IncompleteRecorded while a run is under way.
Told(f) == modules = f.lock \/ f.journal # None
Tells(r) ==
  /\ Told(known[r])
  /\ pc[r] = "final" \/ (pc[r] \in Committing /\ task[r] = "clear") => modules = known[r].lock
Recorded ==
  events = {} =>
    /\ (\A r \in Run : Active(r) => pc[r] = "snapshot") => Told(file)
    /\ \A r \in Run : Active(r) /\ pc[r] # "snapshot" => Tells(r)

\* Retryable while a run is under way.
Mild == events \cap {"edited", "torn", "forced"} = {}
Readable ==
  Mild =>
    /\ (\A r \in Run : Active(r) => pc[r] = "snapshot") => Retriable(file) \/ IsMarker(file.journal)
    /\ \A r \in Run : Active(r) /\ pc[r] # "snapshot" => Retriable(known[r])

\* How far a journal is.
Rank(j) == IF j.status = "INSTALLING" THEN 1 ELSE IF j.status = "FAILED" THEN 2 ELSE 3

\* A run keeps the journal it displaced until its transaction is over.  Made is
\* a run that has put another one in its place; Renews, one of the same operation.
Keeps(r) == "journal" \in tx[r].done
Made(r) == Keeps(r) /\ tx[r].goal.journal # None
Renews(r) == Made(r) /\ tx[r].expect.journal # None /\ tx[r].expect.journal.op = tx[r].goal.journal.op
Floor(r) == IF Renews(r) THEN Rank(tx[r].expect.journal) ELSE 0

\* The places where a journal is, or where it may come back from, for all that
\* is known of the others: None is its path, and a run is what it has displaced.
\* A journal that was renewed comes back over its successor, and is nowhere.
Place == Run \cup {None}
Out(r) ==
  IF pc[r] = "link" /\ tx[r].at = "journal" THEN tx[r].held
  ELSE IF Keeps(r) /\ ~Renews(r) THEN tx[r].expect.journal ELSE None
At(x) == IF x = None THEN file.journal ELSE Out(x)

\* An operation has one journal at most.
OneJournal ==
  \A x, y \in Place : At(x) # None /\ At(y) # None /\ At(x).op = At(y).op => x = y

\* What replaced a journal is only replaced by what is further.
Forwards ==
  \A r \in Run : Made(r) => \A x \in Place :
    At(x) # None /\ At(x).op = tx[r].goal.journal.op => Rank(At(x)) >= Rank(tx[r].goal.journal)
InTurn ==
  \A q, r \in Run : q # r /\ Made(q) /\ Made(r) /\ tx[q].goal.journal.op = tx[r].goal.journal.op =>
    Rank(tx[q].goal.journal) <= Floor(r) \/ Rank(tx[r].goal.journal) <= Floor(q)

\* A run of which no journal has been written yet.
Unborn(r) ==
  \/ pc[r] \in {"idle", "snapshot", "resolve"}
  \/ /\ pc[r] \in Committing \ {"undo"} /\ task[r] \in {"publish", "mark"} /\ ~Keeps(r)
     /\ known[r].journal # None => known[r].journal.op # r
Unknown ==
  \A r \in Run : Unborn(r) =>
    /\ \A x \in Place : At(x) # None => At(x).op # r
    /\ \A q \in Run : Made(q) => tx[q].goal.journal.op # r
    /\ \A m \in marked : m.op # r

\* A committed marker is the only journal of its operation, for good.
Marked ==
  \A m \in marked :
    /\ IsMarker(m)
    /\ \A x \in Place : At(x) # None /\ At(x).op = m.op => At(x) = m
    /\ \A r \in Run : Made(r) => tx[r].goal.journal # m

\* It is not lost while a run has displaced it.
Kept ==
  \A m \in marked :
    \/ m = file.journal \/ m \in orphans
    \/ \E r \in Run : pc[r] = "link" /\ tx[r].at = "journal" /\ tx[r].held = m

SInv ==
  /\ TypeOK /\ KnownJournal /\ InTx /\ Alone /\ Guarded /\ Recorded /\ Readable
  /\ OneJournal /\ Forwards /\ InTurn /\ Unknown /\ Marked /\ Kept

\* What most steps do to the journals: some are gone, and so is what is known of
\* them.
Fades ==
  /\ \A x \in Place : At(x)' \in {At(x), None}
  /\ \A r \in Run : Made(r)' => Made(r) /\ tx'[r].goal = tx[r].goal /\ Floor(r)' = Floor(r)
  /\ marked' \subseteq marked
Ages == \A r \in Run : Unborn(r)' => Unborn(r)

-----------------------------------------------------------------------------
(* The steps that move journals. *)

\* Where journals only vanish, what is said of those that are there goes on.
LEMMA FadesKeep == ASSUME SInv, Fades PROVE OneJournal' /\ Forwards' /\ InTurn' /\ Marked'
<1> USE DEF SInv, Fades
<1>1. OneJournal'
  BY DEF OneJournal
<1>2. Forwards'
  BY DEF Forwards
<1>3. InTurn'
  BY DEF InTurn
<1>4. Marked'
  BY DEF Marked
<1> QED  BY <1>1, <1>2, <1>3, <1>4

\* So does what is said of the runs that have no journal yet.
LEMMA AgesKeep == ASSUME SInv, Fades, Ages PROVE Unknown'
  BY DEF SInv, Fades, Ages, Unknown

\* A journal comes to be in another place, or is lost on the way.
Moves ==
  /\ \E x, y \in Place :
       /\ x # y /\ At(x)' = None /\ At(y)' \in {At(x), None}
       /\ \A z \in Place \ {x, y} : At(z)' = At(z)
  /\ \A r \in Run : Made(r)' => Made(r) /\ tx'[r].goal = tx[r].goal /\ Floor(r)' = Floor(r)
  /\ marked' \subseteq marked

\* It goes on where a journal moves to a place that is free.
LEMMA MovesKeep == ASSUME SInv, Moves PROVE OneJournal' /\ Forwards' /\ InTurn' /\ Marked'
<1> USE DEF SInv
<1>1. PICK x, y \in Place : /\ x # y /\ At(x)' = None /\ At(y)' \in {At(x), None}
                            /\ \A z \in Place \ {x, y} : At(z)' = At(z)
  BY DEF Moves
<1>2. \A z \in Place : At(z)' # None => \E u \in Place : At(u) = At(z)' /\ u = (IF z = y THEN x ELSE z)
  BY <1>1
<1>3. OneJournal'
  BY <1>1, <1>2 DEF OneJournal
<1>4. Forwards'
  BY <1>2 DEF Forwards, Moves
<1>5. InTurn'
  BY DEF InTurn, Moves
<1>6. Marked'
  BY <1>2 DEF Marked, Moves
<1> QED  BY <1>3, <1>4, <1>5, <1>6

\* A run that has no journal yet has none after a move.
LEMMA MovesAge == ASSUME SInv, Moves, Ages PROVE Unknown'
  BY DEF SInv, Moves, Ages, Unknown

\* quarantineCurrentFile moves the journal to the run that takes it.
LEMMA TakeMoves == ASSUME SInv, NEW r \in Run, NEW e \in BOOLEAN, Take(r, e) PROVE Fades \/ Moves
<1> USE SecurityAssumption DEF SInv, Take, Io, Step, Goto, Place
<1>1. tx \in [Run -> Tx] /\ pc \in [Run -> Label] /\ file \in Files /\ pc[r] = "take"
  BY DEF TypeOK
<1>2. \A q \in Run \ {r} : tx'[q] = tx[q] /\ pc'[q] = pc[q]
  BY <1>1
<1>3. /\ tx'[r].goal = tx[r].goal /\ tx'[r].expect = tx[r].expect
      /\ tx'[r].done = tx[r].done /\ tx'[r].at = tx[r].at
  BY <1>1 DEF Tx
<1>4. \A q \in Run : Made(q)' = Made(q) /\ Keeps(q)' = Keeps(q) /\ Floor(q)' = Floor(q) /\ Renews(q)' = Renews(q)
  BY <1>2, <1>3 DEF Made, Keeps, Floor, Renews, Rank
<1>5. \A q \in Run \ {r} : At(q)' = At(q)
  BY <1>2, <1>4 DEF At, Out
<1>6. CASE pc'[r] = "link" /\ tx[r].at = "journal"
  <2>1. At(None)' = None /\ At(r)' = At(None)
    BY <1>1, <1>3, <1>6 DEF At, Out, Files, Tx
  <2> QED  BY <1>2, <1>3, <1>4, <1>5, <2>1 DEF Moves
<1>7. CASE ~(pc'[r] = "link" /\ tx[r].at = "journal")
  <2>1. At(r)' = At(r)
    BY <1>1, <1>3, <1>4, <1>7 DEF At, Out
  <2>2. At(None)' = At(None)
    BY <1>1, <1>7 DEF At, Files, Tx, Path
  <2> QED  BY <1>2, <1>3, <1>4, <1>5, <2>1, <2>2 DEF Fades
<1> QED  BY <1>6, <1>7

\* A transaction puts its journal in the place of the one it displaced.
Writes(r) ==
  /\ pc[r] = "link" /\ tx[r].at = "journal" /\ tx[r].held = tx[r].expect.journal
  /\ tx[r].goal.journal # None /\ file.journal = None /\ file'.journal = tx[r].goal.journal
  /\ tx'[r].goal = tx[r].goal /\ tx'[r].expect = tx[r].expect /\ Made(r)' /\ pc'[r] \in {"check", "ready"}
  /\ \A q \in Run \ {r} : tx'[q] = tx[q] /\ pc'[q] = pc[q]
  /\ marked' = marked

\* The new journal is written, or the displaced one goes back.
LEMMA LinkMoves ==
  ASSUME SInv, NEW r \in Run, NEW e \in BOOLEAN, Link(r, e)
  PROVE  Fades \/ Moves \/ Writes(r)
<1> USE SecurityAssumption DEF SInv, Step, Goto, Place
<1> DEFINE p == tx[r].at
<1>1. tx \in [Run -> Tx] /\ pc \in [Run -> Label] /\ file \in Files /\ pc[r] = "link" /\ p \in Path
  BY DEF TypeOK, Link, Tx
<1>2. /\ tx[r].expect.journal \in Journal \cup {None} /\ None \notin Journal
      /\ p = "journal" => "journal" \notin tx[r].done /\ tx[r].goal.journal # tx[r].expect.journal
  BY <1>1 DEF InTx, Sound, Committing, Changed, Tx, Files, Path, Journal
<1>3. CASE PutBack(r, p, e) /\ UNCHANGED marked
  <2> USE <1>3 DEF PutBack
  <2>1. \A q \in Run \ {r} : tx'[q] = tx[q] /\ pc'[q] = pc[q]
    BY <1>1
  <2>2. /\ tx'[r].goal = tx[r].goal /\ tx'[r].expect = tx[r].expect
        /\ tx'[r].done = tx[r].done /\ tx'[r].at = tx[r].at /\ tx'[r].held = None /\ pc'[r] = "undo"
    BY <1>1 DEF Tx
  <2>3. \A q \in Run : Made(q)' = Made(q) /\ Keeps(q)' = Keeps(q) /\ Floor(q)' = Floor(q) /\ Renews(q)' = Renews(q)
    BY <2>1, <2>2 DEF Made, Keeps, Floor, Renews, Rank
  <2>4. \A q \in Run \ {r} : At(q)' = At(q)
    BY <2>1, <2>3 DEF At, Out
  <2>5. CASE p = "lock"
    <3>1. At(r)' = At(r)
      BY <1>1, <2>2, <2>3, <2>5 DEF At, Out
    <3>2. At(None)' = At(None)
      BY <1>1, <2>5 DEF At, Files
    <3> QED  BY <2>1, <2>2, <2>3, <2>4, <3>1, <3>2 DEF Fades
  <2>6. CASE p = "journal"
    <3>1. At(r)' = None /\ At(r) = tx[r].held
      BY <1>1, <1>2, <2>2, <2>3, <2>6 DEF At, Out, Keeps
    <3>2. CASE file' = file
      <4>1. At(None)' = At(None)
        BY <3>2 DEF At
      <4> QED  BY <2>1, <2>2, <2>3, <2>4, <3>1, <4>1 DEF Fades
    <3>3. CASE file' # file
      <4>1. At(None)' = At(r)
        BY <1>1, <2>6, <3>1, <3>3 DEF At, Files
      <4> QED  BY <2>1, <2>2, <2>3, <2>4, <3>1, <4>1 DEF Moves
    <3> QED  BY <3>2, <3>3
  <2> QED  BY <1>1, <2>5, <2>6 DEF Path
<1>4. CASE /\ Published(r, p) /\ UNCHANGED marked
           /\ tx[r].held = tx[r].expect[p] /\ (tx[r].goal[p] # None => file[p] = None)
  <2>1. \A q \in Run \ {r} : tx'[q] = tx[q] /\ pc'[q] = pc[q]
    BY <1>1, <1>4 DEF Published
  <2>2. /\ tx'[r].goal = tx[r].goal /\ tx'[r].expect = tx[r].expect
        /\ tx'[r].done = tx[r].done \cup {p} /\ pc'[r] \in {"check", "ready"} /\ marked' = marked
        /\ file' = [file EXCEPT ![p] = IF tx[r].goal[p] = None THEN @ ELSE tx[r].goal[p]]
    BY <1>1, <1>4 DEF Published, Tx
  <2>3. \A q \in Run \ {r} : At(q)' = At(q) /\ Made(q)' = Made(q) /\ Floor(q)' = Floor(q)
    BY <2>1 DEF At, Out, Made, Keeps, Floor, Renews, Rank
  <2>4. CASE p = "lock"
    <3>1. Made(r)' = Made(r) /\ Keeps(r)' = Keeps(r) /\ Floor(r)' = Floor(r) /\ Renews(r)' = Renews(r)
      BY <2>2, <2>4 DEF Made, Keeps, Floor, Renews, Rank
    <3>2. At(r)' = At(r)
      BY <1>1, <2>2, <3>1, <2>4 DEF At, Out
    <3>3. At(None)' = At(None)
      BY <1>1, <2>2, <2>4 DEF At, Files
    <3> QED  BY <2>1, <2>2, <2>3, <3>1, <3>2, <3>3 DEF Fades
  <2>5. CASE p = "journal" /\ tx[r].goal.journal = None
    <3>1. ~Made(r)' /\ ~Renews(r)' /\ Keeps(r)'
      BY <2>2, <2>5 DEF Made, Keeps, Renews
    <3>2. At(r)' = At(r)
      BY <1>1, <1>2, <1>4, <2>2, <3>1, <2>5 DEF At, Out
    <3>3. At(None)' = At(None)
      BY <1>1, <2>2, <2>5 DEF At, Files
    <3> QED  BY <2>1, <2>2, <2>3, <3>1, <3>2, <3>3 DEF Fades
  <2>6. CASE p = "journal" /\ tx[r].goal.journal # None
    <3>1. Made(r)'
      BY <2>2, <2>6 DEF Made, Keeps
    <3>2. file.journal = None /\ file'.journal = tx[r].goal.journal
      BY <1>1, <1>4, <2>2, <2>6 DEF Files
    <3> QED  BY <1>1, <1>4, <2>1, <2>2, <2>6, <3>1, <3>2 DEF Writes
  <2> QED  BY <1>1, <2>4, <2>5, <2>6 DEF Path
<1> QED  BY <1>3, <1>4 DEF Link

\* The journals j and g that a transaction of the task a replaces and
\* publishes.
Planned(r, a, j, g) ==
  /\ j \in Journal \cup {None} /\ g \in Journal \cup {None} /\ ~IsMarker(j) /\ j # g
  /\ \/ /\ a = "publish" /\ g \in Journal /\ g.op = r /\ g.status = "INSTALLING"
        /\ j # None => j.op # r
     \/ /\ a = "fail" /\ j \in Journal /\ j.status = "INSTALLING" /\ j.op = r
        /\ g \in Journal /\ g.op = r /\ g.status = "FAILED"
     \/ /\ a = "mark" /\ g \in Journal /\ g.op = (IF j = None THEN r ELSE j.op) /\ IsMarker(g)
     \/ a = "clear" /\ j \in Journal /\ j.op = r /\ g = None

\* What a task wants, as far as its journals go.
LEMMA WantsWhat ==
  ASSUME NEW r \in Run, NEW a \in {"publish", "fail", "mark", "clear"}, NEW k \in Files, NEW t \in Tx,
         t.expect.journal = k.journal, Wants(r, a, k, t), ~IsMarker(k.journal),
         a \in {"fail", "clear"} =>
           k.journal # None /\ k.journal.op = r /\ k.journal.status = "INSTALLING",
         a = "publish" => (k.journal # None => k.journal.op # r)
  PROVE  Planned(r, a, t.expect.journal, t.goal.journal)
<1> USE SecurityAssumption DEF Planned
<1> DEFINE j == t.expect.journal
           g == t.goal.journal
<1>1. t.expect \in Files /\ t.goal \in Files
  BY DEF Tx
<1>2. j \in Journal \cup {None} /\ g \in Journal \cup {None} /\ None \notin Journal
      /\ t.expect.lock \in Version \cup {None} /\ t.goal.lock \in Version \cup {None}
  BY <1>1 DEF Files
<1>3. j = k.journal /\ ~IsMarker(j)
  OBVIOUS
<1>4. CASE a = "publish"
  <2>1. g = Installing(r, t.goal.lock)
    BY <1>4 DEF Wants
  <2>2. g \in Journal /\ g.op = r /\ g.status = "INSTALLING"
    BY <1>2, <2>1 DEF Installing, Journal, Status
  <2> QED  BY <1>2, <1>3, <1>4, <2>2
<1>5. CASE a = "fail"
  <2>1. j # None /\ j.op = r /\ j.status = "INSTALLING"
    BY <1>3, <1>5
  <2>2. t.goal = [t.expect EXCEPT !.journal.status = "FAILED"]
    BY <1>5 DEF Wants
  <2>3. g = [j EXCEPT !.status = "FAILED"]
    BY <1>1, <2>2 DEF Files
  <2>4. g.op = j.op /\ g.status = "FAILED" /\ g \in Journal
    BY <1>2, <2>1, <2>3 DEF Journal, Status
  <2> QED  BY <1>2, <1>3, <1>5, <2>1, <2>4
<1>6. CASE a = "mark"
  <2>1. PICK v \in Version \cup {None} :
          g = [op |-> IF j = None THEN r ELSE j.op, status |-> "CLEANUP_UNVERIFIED", after |-> v]
    BY <1>3, <1>6 DEF Wants
  <2>2. g \in Journal /\ g.op = (IF j = None THEN r ELSE j.op) /\ g.status = "CLEANUP_UNVERIFIED"
    BY <1>2, <2>1 DEF Journal, Status
  <2> QED  BY <1>2, <1>3, <1>6, <2>2 DEF IsMarker
<1>7. CASE a = "clear"
  <2>1. j # None /\ j.op = r
    BY <1>3, <1>7
  <2>2. g = None
    BY <1>1, <1>7 DEF Wants, Files
  <2> QED  BY <1>2, <1>3, <1>7, <2>1, <2>2
<1> QED  BY <1>4, <1>5, <1>6, <1>7

\* So it is with every transaction under way.
LEMMA GoalsOf ==
  ASSUME SInv, NEW r \in Run, pc[r] \in Committing \ {"begin"}
  PROVE  Planned(r, task[r], tx[r].expect.journal, tx[r].goal.journal)
<1>1. tx[r] \in Tx /\ known[r] \in Files /\ task[r] \in {"publish", "fail", "mark", "clear"}
  BY DEF SInv, TypeOK
<1>2. tx[r].expect.journal = known[r].journal /\ Goals(r)
  BY DEF SInv, InTx, Sound
<1>3. /\ ~IsMarker(known[r].journal)
      /\ task[r] \in {"fail", "clear"} =>
           known[r].journal # None /\ known[r].journal.op = r /\ known[r].journal.status = "INSTALLING"
      /\ task[r] = "publish" => (known[r].journal # None => known[r].journal.op # r)
  BY DEF SInv, KnownJournal
<1> QED  BY <1>1, <1>2, <1>3, WantsWhat DEF Goals

\* A journal that is written is of a new operation, or further than the one it
\* replaces.
LEMMA WritesKeep ==
  ASSUME SInv, NEW r \in Run, Writes(r)
  PROVE  OneJournal' /\ Forwards' /\ InTurn' /\ Marked'
<1> USE SecurityAssumption DEF SInv, Writes, Place
<1> DEFINE j == tx[r].expect.journal
           g == tx[r].goal.journal
<1>0. /\ j # g
      /\ \/ task[r] = "publish" /\ g.op = r /\ (j # None => j.op # r)
         \/ task[r] = "fail" /\ j \in Journal /\ j.status = "INSTALLING" /\ g.op = r /\ j.op = r
            /\ g.status = "FAILED"
         \/ task[r] = "mark" /\ g.op = (IF j = None THEN r ELSE j.op) /\ IsMarker(g)
  BY GoalsOf DEF Planned, Committing
<1>1. /\ j \in Journal \cup {None} /\ g \in Journal /\ None \notin Journal
      /\ ~IsMarker(j) /\ Keeps(r)' /\ ~Keeps(r) /\ At(r) = j /\ At(None)' = g /\ At(None) = None
  BY DEF TypeOK, Tx, Files, InTx, Sound, Committing, KnownJournal, At, Out, Keeps, Made, Path
<1>2. \A q \in Run \ {r} : At(q)' = At(q) /\ Made(q)' = Made(q) /\ tx'[q].goal = tx[q].goal /\ Floor(q)' = Floor(q)
  BY DEF At, Out, Made, Keeps, Floor, Renews, Rank
<1>3. CASE Renews(r)'
  <2>1. j # None /\ j.op = g.op /\ Rank(j) < Rank(g) /\ Floor(r)' = Rank(j) /\ At(r)' = None
    <3>1. j # None /\ j.op = g.op
      BY <1>3 DEF Renews
    <3>2. j.status # "CLEANUP_UNVERIFIED" /\ j.status \in Status /\ g.status \in Status
      BY <1>1, <3>1 DEF IsMarker, Journal
    <3>3. Rank(j) < Rank(g)
      BY <1>0, <3>1, <3>2 DEF Rank, IsMarker, Status
    <3> QED  BY <1>1, <1>3, <3>1, <3>3 DEF Floor, At, Out, Rank
  <2>2. \A x \in Place : At(x)' # None => x = None \/ (x # r /\ At(x)' = At(x) /\ At(x).op # g.op)
    BY <1>1, <1>2, <2>1 DEF OneJournal
  <2>3. OneJournal'
    BY <1>1, <1>2, <2>1, <2>2 DEF OneJournal
  <2>4. Forwards'
    <3>1. \A q \in Run \ {r} : Made(q) /\ tx[q].goal.journal.op = g.op => Rank(g) >= Rank(tx[q].goal.journal)
      <4>1. \A q \in Run : Made(q) /\ tx[q].goal.journal.op = g.op => Rank(j) >= Rank(tx[q].goal.journal)
        BY <1>1, <2>1 DEF Forwards
      <4> QED  BY <2>1, <4>1 DEF Rank
    <3> QED  BY <1>1, <1>2, <2>2, <3>1 DEF Forwards, Rank
  <2>5. InTurn'
    BY <1>1, <1>2, <2>1, <2>2 DEF Forwards, InTurn
  <2>6. Marked'
    <3>1. \A m \in marked : m.op # g.op /\ m # g
      BY <1>1, <2>1 DEF Marked
    <3> QED  BY <1>1, <1>2, <2>2, <3>1 DEF Marked
  <2> QED  BY <2>3, <2>4, <2>5, <2>6
<1>4. CASE ~Renews(r)'
  <2>1. g.op = r /\ Unborn(r)
    <3>1. j # None => j.op # g.op
      BY <1>1, <1>4 DEF Renews, Made
    <3>2. task[r] \in {"publish", "mark"} /\ g.op = r
      BY <1>0, <3>1
    <3> QED  BY <1>1, <3>1, <3>2 DEF Unborn, Committing, InTx, Sound
  <2>2. \A x \in Place : At(x)' # None => x = None \/ (At(x)' = At(x) /\ At(x).op # g.op)
    BY <1>1, <1>2, <1>4, <2>1 DEF Unknown, At, Out
  <2>3. OneJournal'
    BY <1>1, <1>2, <2>1, <2>2 DEF OneJournal
  <2>4. Forwards'
    BY <1>1, <1>2, <2>1, <2>2 DEF Forwards, Unknown, Rank
  <2>5. InTurn'
    BY <1>1, <1>2, <2>1 DEF Unknown, InTurn
  <2>6. Marked'
    BY <1>1, <1>2, <2>1, <2>2 DEF Unknown, Marked
  <2> QED  BY <2>3, <2>4, <2>5, <2>6
<1> QED  BY <1>3, <1>4

\* It is not one of a run that has written none.
LEMMA WritesAge == ASSUME SInv, NEW r \in Run, Writes(r), Ages PROVE Unknown'
<1> USE SecurityAssumption DEF SInv, Writes, Place
<1> DEFINE j == tx[r].expect.journal
           g == tx[r].goal.journal
<1>1. /\ j \in Journal \cup {None} /\ g \in Journal /\ None \notin Journal
      /\ g.op = r \/ (j # None /\ g.op = j.op)
  BY GoalsOf DEF Planned, Committing
<1>2. /\ Keeps(r)' /\ At(r) = j /\ At(r)' \in {j, None} /\ At(None)' = g
  BY DEF At, Out, Keeps, Made
<1>3. \A q \in Run \ {r} : At(q)' = At(q) /\ Made(q)' = Made(q) /\ tx'[q].goal = tx[q].goal
  BY DEF At, Out, Made, Keeps, Renews
<1>4. ~Unborn(r)'
  BY <1>2 DEF Unborn
<1> QED  BY <1>1, <1>2, <1>3, <1>4 DEF Unknown, Ages

\* What a transaction writes is further than what it displaced.
LEMMA FloorBelow == ASSUME SInv, NEW r \in Run, Made(r) PROVE Floor(r) < Rank(tx[r].goal.journal)
<1> DEFINE j == tx[r].expect.journal
           g == tx[r].goal.journal
<1>1. pc[r] \in Committing \ {"begin"}
  BY DEF SInv, InTx, Sound, Made, Keeps, NoTx
<1>2. CASE Renews(r)
  <2>1. j # None /\ g # None /\ j.op = g.op
    BY <1>2 DEF Renews, Made
  <2>2. j \in Journal /\ g \in Journal /\ ~IsMarker(j) /\ (IsMarker(g) \/ (j.status = "INSTALLING" /\ g.status = "FAILED"))
    BY <1>1, <2>1, GoalsOf DEF Planned
  <2> QED  BY <1>2, <2>1, <2>2 DEF Floor, Rank, IsMarker, Journal, Status
<1>3. CASE ~Renews(r)
  BY <1>3 DEF Floor, Rank
<1> QED  BY <1>2, <1>3

\* An undo puts a journal back over the one that renewed it.
Restores(r) ==
  /\ pc[r] = "undo" /\ Renews(r) /\ ~Made(r)'
  /\ file.journal = tx[r].goal.journal /\ file'.journal = tx[r].expect.journal
  /\ \A q \in Run : At(q)' = At(q)
  /\ \A q \in Run \ {r} : Made(q)' = Made(q) /\ tx'[q].goal = tx[q].goal /\ Floor(q)' = Floor(q)
  /\ marked' = marked

\* rollbackOperations moves a journal back, or puts it over its successor.
LEMMA UndoMoves ==
  ASSUME SInv, NEW r \in Run, NEW e \in BOOLEAN, TxUndo(r, e)
  PROVE  Fades \/ Moves \/ Restores(r)
<1> USE SecurityAssumption DEF SInv, Place, process
<1> DEFINE p == IF "journal" \in tx[r].done THEN "journal" ELSE "lock"
<1>1. /\ tx \in [Run -> Tx] /\ pc \in [Run -> Label] /\ file \in Files /\ pc[r] = "undo" /\ pc' = pc
      /\ tx' = [tx EXCEPT ![r].done = @ \ {p}] /\ marked' = marked
      /\ file' = [file EXCEPT ![p] = IF ~e /\ @ = tx[r].goal[p] THEN tx[r].expect[p] ELSE @]
  BY DEF TypeOK, TxUndo
<1>2. \A q \in Run \ {r} : tx'[q] = tx[q]
  BY <1>1
<1>3. /\ tx'[r].goal = tx[r].goal /\ tx'[r].expect = tx[r].expect /\ tx'[r].done = tx[r].done \ {p}
  BY <1>1 DEF Tx
<1>4. \A q \in Run \ {r} : At(q)' = At(q) /\ Made(q)' = Made(q) /\ tx'[q].goal = tx[q].goal /\ Floor(q)' = Floor(q)
  BY <1>1, <1>2 DEF At, Out, Made, Keeps, Floor, Renews, Rank
<1>5. ~Keeps(r)' /\ ~Made(r)' /\ ~Renews(r)' /\ At(r)' = None
  BY <1>1, <1>3 DEF Keeps, Made, Renews, At, Out
<1>6. CASE file'.journal = file.journal
  <2>1. At(None)' = At(None)
    BY <1>6 DEF At
  <2> QED  BY <1>1, <1>4, <1>5, <2>1 DEF Fades
<1>7. CASE file'.journal # file.journal
  <2>1. /\ Keeps(r) /\ file.journal = tx[r].goal.journal /\ file'.journal = tx[r].expect.journal
    BY <1>1, <1>7 DEF Files, Keeps
  <2>2. CASE Renews(r)
    <3>1. At(r) = None
      BY <1>1, <2>2 DEF At, Out
    <3> QED  BY <1>1, <1>4, <1>5, <2>1, <2>2, <3>1 DEF Restores
  <2>3. CASE ~Renews(r)
    <3>1. At(r) = tx[r].expect.journal /\ At(None)' = At(r)
      BY <1>1, <2>1, <2>3 DEF At, Out
    <3> QED  BY <1>1, <1>4, <1>5, <3>1 DEF Moves
  <2> QED  BY <2>2, <2>3
<1> QED  BY <1>6, <1>7

\* The journal that comes back is the furthest of its operation.
LEMMA RestoresKeep ==
  ASSUME SInv, NEW r \in Run, Restores(r)
  PROVE  OneJournal' /\ Forwards' /\ InTurn' /\ Marked'
<1> USE SecurityAssumption DEF SInv, Restores, Place
<1> DEFINE j == tx[r].expect.journal
           g == tx[r].goal.journal
<1>1. /\ Made(r) /\ j # None /\ g # None /\ j.op = g.op /\ Floor(r) = Rank(j)
      /\ At(None) = g /\ At(None)' = j
  BY DEF Renews, Made, Floor, At
<1>2. OneJournal'
  BY <1>1 DEF OneJournal
<1>3. Forwards'
  <2>1. \A q \in Run \ {r} : Made(q) /\ tx[q].goal.journal.op = g.op => Rank(j) >= Rank(tx[q].goal.journal)
    <3> SUFFICES ASSUME NEW q \in Run \ {r}, Made(q), tx[q].goal.journal.op = g.op
                 PROVE  Rank(j) >= Rank(tx[q].goal.journal)
      OBVIOUS
    <3>1. Rank(g) >= Rank(tx[q].goal.journal)
      BY <1>1 DEF Forwards
    <3>2. Floor(q) < Rank(tx[q].goal.journal)
      BY FloorBelow
    <3>3. Rank(tx[q].goal.journal) <= Floor(r) \/ Rank(g) <= Floor(q)
      BY <1>1 DEF InTurn
    <3>4. Floor(q) \in Nat /\ Rank(g) \in Nat /\ Rank(j) \in Nat /\ Rank(tx[q].goal.journal) \in Nat
      BY DEF Floor, Rank
    <3> QED  BY <1>1, <3>1, <3>2, <3>3, <3>4
  <2> QED  BY <1>1, <2>1 DEF Forwards
<1>4. InTurn'
  BY DEF InTurn
<1>5. Marked'
  BY <1>1 DEF Marked
<1> QED  BY <1>2, <1>3, <1>4, <1>5

\* It is of an operation that was there before.
LEMMA RestoresAge == ASSUME SInv, NEW r \in Run, Restores(r), Ages PROVE Unknown'
<1> USE SecurityAssumption DEF SInv, Restores, Place
<1>1. /\ tx[r].expect.journal.op = tx[r].goal.journal.op /\ tx[r].goal.journal # None
      /\ At(None) = tx[r].goal.journal /\ At(None)' = tx[r].expect.journal
  BY DEF Renews, Made, At
<1> QED  BY <1>1 DEF Unknown, Ages

\* A transaction that wrote a marker ends well.
Commits(r) ==
  /\ pc[r] = "check" /\ task[r] = "mark" /\ file.journal = tx[r].goal.journal
  /\ \A x \in Place : At(x)' \in {At(x), None}
  /\ ~Made(r)'
  /\ \A q \in Run \ {r} : Made(q)' = Made(q) /\ tx'[q].goal = tx[q].goal /\ Floor(q)' = Floor(q)
  /\ marked' = marked \cup {tx[r].goal.journal}

\* The end of a transaction discards what it displaced, and may commit a
\* marker.
LEMMA CheckMoves ==
  ASSUME SInv, NEW r \in Run, NEW e \in BOOLEAN, TxCheck(r, e)
  PROVE  Fades \/ Commits(r)
<1> USE SecurityAssumption DEF SInv, Place
<1>1. tx \in [Run -> Tx] /\ pc \in [Run -> Label] /\ pc[r] = "check" /\ file' = file
  BY DEF TypeOK, TxCheck
<1>2. At(None)' = At(None)
  BY <1>1 DEF At
<1>3. CASE pc'[r] = "undo"
  <2>1. tx' = tx /\ marked' = marked /\ pc' = [pc EXCEPT ![r] = "undo"]
    BY <1>1, <1>3 DEF TxCheck, Step, Goto, Finish, End, Return, Transact, TypeOK
  <2>2. \A q \in Run : At(q)' = At(q) /\ Made(q)' = Made(q) /\ Floor(q)' = Floor(q)
    BY <1>1, <2>1 DEF At, Out, Made, Keeps, Floor, Renews, Rank
  <2> QED  BY <1>2, <2>1, <2>2 DEF Fades
<1>4. CASE Holds(r, tx[r].goal) /\ Finish(r, TRUE)
  <2>1. tx' = [tx EXCEPT ![r] = NoTx] /\ pc'[r] # "link" /\ \A q \in Run \ {r} : pc'[q] = pc[q]
    BY <1>1, <1>4 DEF Finish, End, Return, Transact, Goto, TypeOK
  <2>2. \A q \in Run \ {r} : At(q)' = At(q) /\ Made(q)' = Made(q) /\ tx'[q].goal = tx[q].goal /\ Floor(q)' = Floor(q)
    BY <1>1, <2>1 DEF At, Out, Made, Keeps, Floor, Renews, Rank
  <2>3. At(r)' = None /\ ~Made(r)'
    BY <1>1, <2>1 DEF At, Out, Made, Keeps, NoTx
  <2>4. CASE task[r] = "mark"
    BY <1>1, <1>2, <1>4, <2>2, <2>3, <2>4 DEF Commits, Finish, Holds
  <2>5. CASE task[r] # "mark"
    BY <1>2, <1>4, <2>2, <2>3, <2>5 DEF Fades, Finish
  <2> QED  BY <2>4, <2>5
<1> QED  BY <1>1, <1>3, <1>4 DEF TxCheck, Step, Goto

\* A marker that is committed is the only journal of its operation.
LEMMA CommitsKeep ==
  ASSUME SInv, NEW r \in Run, Commits(r)
  PROVE  OneJournal' /\ Forwards' /\ InTurn' /\ Marked'
<1> USE SecurityAssumption DEF SInv, Commits, Place
<1> DEFINE g == tx[r].goal.journal
<1>1. g \in Journal /\ None \notin Journal /\ IsMarker(g) /\ "journal" \in Changed(tx[r])
  <2>1. g \in Journal /\ IsMarker(g) /\ tx[r].expect.journal # g
    BY GoalsOf DEF Planned, Committing
  <2> QED  BY <2>1 DEF Changed, Path
<1>2. Made(r) /\ At(None) = g
  BY <1>1 DEF Made, Keeps, At, InTx, Sound, Committing
<1>3. OneJournal'
  BY DEF OneJournal
<1>4. Forwards'
  BY DEF Forwards
<1>5. InTurn'
  BY DEF InTurn
<1>6. Marked'
  <2>1. \A x \in Place : At(x)' # None /\ At(x)'.op = g.op => At(x)' = g
    BY <1>1, <1>2 DEF OneJournal
  <2>2. \A q \in Run \ {r} : Made(q) => tx[q].goal.journal # g
    <3> SUFFICES ASSUME NEW q \in Run \ {r}, Made(q), tx[q].goal.journal = g PROVE FALSE
      OBVIOUS
    <3>1. Rank(g) <= Floor(q) \/ Rank(g) <= Floor(r)
      BY <1>2 DEF InTurn
    <3>2. Floor(q) < Rank(g) /\ Floor(r) < Rank(g)
      BY <1>2, FloorBelow
    <3>3. Floor(q) \in Nat /\ Floor(r) \in Nat /\ Rank(g) \in Nat
      BY DEF Floor, Rank
    <3> QED  BY <3>1, <3>2, <3>3
  <2> QED  BY <1>1, <2>1, <2>2 DEF Marked
<1> QED  BY <1>3, <1>4, <1>5, <1>6

\* It is not one of a run that has written none.
LEMMA CommitsAge == ASSUME SInv, NEW r \in Run, Commits(r), Ages PROVE Unknown'
<1> USE SecurityAssumption DEF SInv, Commits, Place
<1> DEFINE g == tx[r].goal.journal
<1>1. g # None /\ At(None) = g
  BY GoalsOf DEF Planned, Committing, At
<1> QED  BY <1>1 DEF Unknown, Ages

-----------------------------------------------------------------------------
(* What a step of a run leaves alone. *)

\* A step of a run leaves what the others are doing alone.
Same(q) == pc'[q] = pc[q] /\ task'[q] = task[q] /\ known'[q] = known[q] /\ tx'[q] = tx[q]
RunStep(r) ==
  Acquire(r) \/ Snapshot(r) \/ Resolve(r) \/ Transaction(r) \/ Installation(r) \/ Kill(r)

\* How a transaction ends, by task.
LEMMA FinishDoes ==
  ASSUME TypeOK, NEW r \in Run, NEW ok \in BOOLEAN, Finish(r, ok)
  PROVE  /\ \A q \in Run \ {r} : Same(q)
         /\ tx' = [tx EXCEPT ![r] = NoTx] /\ tx'[r] = NoTx
         /\ marked' = IF task[r] = "mark" /\ ok THEN marked \cup {tx[r].goal.journal} ELSE marked
         /\ \/ /\ task[r] = "publish" /\ ok /\ pc' = [pc EXCEPT ![r] = "sources"] /\ pc'[r] = "sources"
               /\ known' = [known EXCEPT ![r] = tx[r].goal] /\ known'[r] = tx[r].goal
               /\ lease' = lease /\ task' = task
            \/ /\ (task[r] = "publish" /\ ~ok) \/ task[r] = "fail" \/ (task[r] = "clear" /\ ok)
               /\ \E l \in {"ended", "ok"} : pc' = [pc EXCEPT ![r] = l] /\ pc'[r] = l
               /\ known' = [known EXCEPT ![r] = Empty] /\ known'[r] = Empty
               /\ task' = [task EXCEPT ![r] = "publish"] /\ task'[r] = "publish"
               /\ lease' = IF lease = r THEN None ELSE lease
            \/ /\ task[r] = "clear" /\ ~ok /\ pc' = [pc EXCEPT ![r] = "begin"] /\ pc'[r] = "begin"
               /\ task' = [task EXCEPT ![r] = "fail"] /\ task'[r] = "fail"
               /\ lease' = lease /\ known' = known
            \/ /\ task[r] = "mark" /\ pc' = [pc EXCEPT ![r] = "unsafe"] /\ pc'[r] = "unsafe"
               /\ known' = [known EXCEPT ![r] = Empty] /\ known'[r] = Empty
               /\ task' = [task EXCEPT ![r] = "publish"] /\ task'[r] = "publish" /\ lease' = lease
<1>1. task[r] \in {"publish", "fail", "mark", "clear"}
  BY DEF TypeOK
<1>2. \A q \in Run \ {r} : Same(q)
  BY <1>1 DEF TypeOK, Finish, Goto, End, Return, Transact, Same
<1>3. tx' = [tx EXCEPT ![r] = NoTx] /\ tx'[r] = NoTx
  BY DEF TypeOK, Finish
<1>4. marked' = IF task[r] = "mark" /\ ok THEN marked \cup {tx[r].goal.journal} ELSE marked
  BY DEF Finish
<1>5. CASE task[r] = "publish"
  BY <1>2, <1>3, <1>4, <1>5 DEF TypeOK, Finish, Goto, End, Return
<1>6. CASE task[r] = "clear"
  BY <1>2, <1>3, <1>4, <1>6 DEF TypeOK, Finish, Goto, End, Return, Transact
<1>7. CASE task[r] = "fail"
  BY <1>2, <1>3, <1>4, <1>7 DEF TypeOK, Finish, Goto, End, Return
<1>8. CASE task[r] = "mark"
  BY <1>2, <1>3, <1>4, <1>8 DEF TypeOK, Finish, Goto, Return
<1> QED  BY <1>1, <1>5, <1>6, <1>7, <1>8

\* No step of a run changes what another run is doing or knows.
LEMMA OthersSame ==
  ASSUME TypeOK, NEW r \in Run, RunStep(r)
  PROVE  \A q \in Run \ {r} : Same(q)
<1> USE DEF TypeOK, Same
<1>1. CASE Acquire(r)
  BY <1>1 DEF Acquire, Goto
<1>2. CASE Snapshot(r)
  BY <1>2 DEF Snapshot, Goto, End, Return
<1>3. CASE Resolve(r)
  BY <1>3 DEF Resolve, Goto, End, Return, Transact
<1>4. CASE TxFailed(r)
  BY <1>4, FinishDoes DEF TxFailed
<1>5. ASSUME NEW e \in BOOLEAN, TxBegin(r, e) PROVE \A q \in Run \ {r} : Same(q)
  <2>1. CASE Finish(r, FALSE)
    BY <2>1, FinishDoes
  <2>2. CASE ~Finish(r, FALSE)
    BY <1>5, <2>2 DEF TxBegin, Step, Goto
  <2> QED  BY <2>1, <2>2
<1>6. ASSUME NEW e \in BOOLEAN, Ready(r, e) PROVE \A q \in Run \ {r} : Same(q)
  BY <1>6 DEF Ready, Step, Goto
<1>7. ASSUME NEW e \in BOOLEAN, Take(r, e) PROVE \A q \in Run \ {r} : Same(q)
  BY <1>7 DEF Take, Step, Goto
<1>8. ASSUME NEW e \in BOOLEAN, Link(r, e) PROVE \A q \in Run \ {r} : Same(q)
  BY <1>8 DEF Link, Published, PutBack, Step, Goto
<1>9. ASSUME NEW e \in BOOLEAN, TxCheck(r, e) PROVE \A q \in Run \ {r} : Same(q)
  <2>1. CASE Finish(r, TRUE)
    BY <2>1, FinishDoes
  <2>2. CASE ~Finish(r, TRUE)
    BY <1>9, <2>2 DEF TxCheck, Step, Goto
  <2> QED  BY <2>1, <2>2
<1>10. ASSUME NEW e \in BOOLEAN, TxUndo(r, e) PROVE \A q \in Run \ {r} : Same(q)
  BY <1>10 DEF TxUndo, process
<1>11. CASE CommandFails(r)
  BY <1>11 DEF CommandFails, Goto, Transact
<1>12. CASE LockAudit(r) \/ StartInstall(r) \/ EndInstall(r) \/ Audit(r)
  BY <1>12 DEF LockAudit, StartInstall, EndInstall, Audit, Step, Goto
<1>13. ASSUME NEW e \in BOOLEAN, Verify(r, e) PROVE \A q \in Run \ {r} : Same(q)
  BY <1>13 DEF Verify, Verifying, Step, Goto, Transact
<1>14. CASE Kill(r)
  BY <1>14 DEF Kill, Goto, Return
<1> QED  BY <1>1, <1>2, <1>3, <1>4, <1>5, <1>6, <1>7, <1>8, <1>9, <1>10, <1>11, <1>12, <1>13, <1>14
         DEF RunStep, Transaction, Installation

\* So the transactions of the others stay sound.
LEMMA SoundFrame == ASSUME NEW q \in Run, Sound(q), Same(q) PROVE Sound(q)'
<1>1. Goals(q)' <=> Goals(q)
  BY DEF Same, Goals
<1> QED  BY <1>1 DEF Sound, Same, Changed

\* Alone with its lease, a run is the only one under way.
LEMMA Single ==
  ASSUME SInv, Fine, NEW r \in Run, Active(r)
  PROVE  lease = r /\ \A q \in Run \ {r} : ~Active(q)
BY DEF SInv, Alone, Lone

\* Neither the history nor the number of faults is ever taken back.
LEMMA Grows ==
  ASSUME TypeOK, [Next]_vars
  PROVE  events \subseteq events' /\ faults <= faults'
<1> USE DEF TypeOK
<1>1. ASSUME NEW r \in Run, RunStep(r) PROVE events \subseteq events'
  <2>1. CASE Acquire(r) \/ Snapshot(r) \/ Resolve(r) \/ TxFailed(r) \/ CommandFails(r) \/ Kill(r)
    BY <2>1 DEF Acquire, Snapshot, Resolve, TxFailed, CommandFails, Kill
  <2>2. CASE LockAudit(r) \/ StartInstall(r) \/ EndInstall(r) \/ Audit(r)
    BY <2>2 DEF LockAudit, StartInstall, EndInstall, Audit
  <2>3. ASSUME NEW e \in BOOLEAN, TxBegin(r, e) \/ Ready(r, e) \/ Take(r, e) \/ TxCheck(r, e) \/ Verify(r, e)
        PROVE  events \subseteq events'
    BY <2>3 DEF TxBegin, Ready, Take, TxCheck, Verify
  <2>4. ASSUME NEW e \in BOOLEAN, Link(r, e) \/ TxUndo(r, e) PROVE events \subseteq events'
    BY <2>4 DEF Link, Published, PutBack, TxUndo
  <2> QED  BY <1>1, <2>1, <2>2, <2>3, <2>4 DEF RunStep, Transaction, Installation
<1>2. ASSUME NEW r \in Run, RunStep(r) PROVE faults <= faults'
  <2>1. CASE Acquire(r) \/ Snapshot(r) \/ Resolve(r) \/ TxFailed(r) \/ CommandFails(r) \/ Kill(r)
    <3>1. faults' = faults
      BY <2>1 DEF Acquire, Snapshot, Resolve, TxFailed, CommandFails, Kill
    <3> QED  BY <3>1
  <2>2. CASE LockAudit(r) \/ StartInstall(r) \/ EndInstall(r) \/ Audit(r)
    BY <2>2 DEF LockAudit, StartInstall, EndInstall, Audit
  <2>3. ASSUME NEW e \in BOOLEAN, \/ TxBegin(r, e) \/ Ready(r, e) \/ Take(r, e) \/ TxCheck(r, e)
                                  \/ Verify(r, e) \/ Link(r, e) \/ TxUndo(r, e)
        PROVE  faults <= faults'
    <3>1. Io(e)
      BY <2>3 DEF TxBegin, Ready, Take, TxCheck, Verify, Link, TxUndo
    <3> QED  BY <3>1 DEF Io
  <2> QED  BY <1>2, <2>1, <2>2, <2>3 DEF RunStep, Transaction, Installation
<1>3. ASSUME NEW r \in Run, StrayWrite(r) \/ StrayEnds(r)
      PROVE  events \subseteq events' /\ faults <= faults'
  BY <1>3 DEF StrayWrite, StrayEnds
<1>4. CASE EditLock \/ Reconcile \/ UNCHANGED vars
  BY <1>4 DEF EditLock, Reconcile, vars
<1> QED  BY <1>1, <1>2, <1>3, <1>4 DEF Next, RunStep, Finished

\* A step after which nothing has interfered began where nothing had.
LEMMA FineBefore ==
  ASSUME TypeOK, events \subseteq events', faults <= faults'
  PROVE  (Fine' => Fine) /\ (Calm' => Calm)
BY DEF Fine, Calm, TypeOK

\* Faults are counted up to their bound.
LEMMA IoCounts ==
  ASSUME TypeOK, NEW e \in BOOLEAN, Io(e)
  PROVE  faults' \in 0 .. MaxFaults
BY SecurityAssumption DEF TypeOK, Io

\* What a transaction starts with.
LEMMA BeginDoes ==
  ASSUME SInv, NEW r \in Run, NEW e \in BOOLEAN, TxBegin(r, e)
  PROVE  /\ pc[r] = "begin" /\ UNCHANGED <<file, modules, world, orphans, events>>
         /\ \/ Finish(r, FALSE) /\ (e \/ ~Holds(r, Expected(r)))
            \/ /\ ~e /\ Holds(r, Expected(r)) /\ pc' = [pc EXCEPT ![r] = "ready"] /\ pc'[r] = "ready"
               /\ UNCHANGED <<lease, task, known, marked>>
               /\ tx' = [tx EXCEPT ![r] = tx'[r]] /\ tx'[r] \in Tx
               /\ tx'[r].expect = Expected(r) /\ Expected(r).journal = known[r].journal
               /\ tx'[r].done = {} /\ tx'[r].held = None /\ tx'[r].at \in Changed(tx'[r])
               /\ Wants(r, task[r], known[r], tx'[r])
<1> USE SecurityAssumption DEF SInv
<1>1. pc[r] = "begin" /\ UNCHANGED <<file, modules, world, orphans, events>>
  BY DEF TxBegin
<1>2. CASE ~(~e /\ Holds(r, Expected(r)))
  BY <1>1, <1>2 DEF TxBegin
<1>3. CASE ~e /\ Holds(r, Expected(r))
  <2>1. PICK v \in Version :
          LET t == [NoTx EXCEPT !.expect = Expected(r), !.goal = Intended(r, v)]
          IN tx' = [tx EXCEPT ![r] = [t EXCEPT !.at = NextPath(Changed(t))]]
    BY <1>3 DEF TxBegin
  <2> DEFINE x == Expected(r)
             g == Intended(r, v)
             t == [NoTx EXCEPT !.expect = x, !.goal = g]
             j == known[r].journal
  <2>2. known[r] \in Files /\ file \in Files /\ tx \in [Run -> Tx]
        /\ task[r] \in {"publish", "fail", "mark", "clear"}
    BY DEF TypeOK
  <2>3. x \in Files /\ x.journal = j /\ j \in Journal \cup {None} /\ ~IsMarker(j)
        /\ x.lock \in Version \cup {None} /\ file.lock \in Version \cup {None}
    BY <2>2 DEF Expected, Files, KnownJournal
  <2>4. /\ task[r] \in {"fail", "clear"} => j # None /\ j.op = r /\ j.status = "INSTALLING"
        /\ task[r] = "publish" => (j # None => j.op # r)
    BY <1>1 DEF KnownJournal, Committing
  <2>5. g \in Files
    <3>1. CASE task[r] = "publish"
      <4>1. Installing(r, v) \in Journal
        BY DEF Installing, Journal, Status
      <4> QED  BY <3>1, <4>1 DEF Intended, Files
    <3>2. CASE task[r] = "fail"
      <4>1. g = [x EXCEPT !.journal.status = "FAILED"] /\ j \in Journal
        BY <2>3, <2>4, <3>2 DEF Intended
      <4>2. [j EXCEPT !.status = "FAILED"] \in Journal
        BY <4>1 DEF Journal, Status
      <4>3. g = [x EXCEPT !.journal = [j EXCEPT !.status = "FAILED"]]
        BY <2>3, <4>1
      <4> QED  BY <2>3, <4>2, <4>3 DEF Files
    <3>3. CASE task[r] = "mark"
      <4>1. Marker(r, x.journal) \in Journal
        BY <2>3 DEF Marker, Journal, Status
      <4> QED  BY <2>3, <3>3, <4>1 DEF Intended, Files
    <3>4. CASE task[r] = "clear"
      BY <2>3, <3>4 DEF Intended, Files
    <3> QED  BY <2>2, <3>1, <3>2, <3>3, <3>4
  <2>6. /\ tx'[r].expect = x /\ tx'[r].goal = g /\ tx'[r].done = {} /\ tx'[r].held = None
        /\ tx'[r].at = NextPath(Changed(t)) /\ t.expect = x /\ t.goal = g
        /\ tx' = [tx EXCEPT ![r] = tx'[r]]
    BY <2>1, <2>2 DEF NoTx
  <2>7. tx'[r] \in Tx
    BY <2>1, <2>2, <2>3, <2>5 DEF NoTx, Tx, NextPath, Path
  <2>8. Wants(r, task[r], known[r], tx'[r])
    <3>1. CASE task[r] = "publish"
      BY <2>6, <3>1 DEF Wants, Intended
    <3>2. CASE task[r] = "fail"
      BY <2>6, <3>2 DEF Wants, Intended
    <3>3. CASE task[r] = "mark"
      <4>1. g = [x EXCEPT !.journal = Marker(r, x.journal)]
        BY <3>3 DEF Intended
      <4>2. g.lock = x.lock /\ g.journal = Marker(r, j)
        BY <2>3, <4>1 DEF Files
      <4> QED  BY <2>3, <2>6, <3>3, <4>2 DEF Wants, Marker
    <3>4. CASE task[r] = "clear"
      BY <2>6, <3>4 DEF Wants, Intended
    <3> QED  BY <2>2, <3>1, <3>2, <3>3, <3>4
  <2>9. tx'[r].at \in Changed(tx'[r])
    <3>1. tx'[r].expect.journal # tx'[r].goal.journal
      BY <2>2, <2>3, <2>4, <2>6, <2>7, <2>8, WantsWhat DEF Planned
    <3>2. Changed(t) = Changed(tx'[r]) /\ "journal" \in Changed(tx'[r]) /\ Changed(tx'[r]) \subseteq Path
      BY <2>6, <3>1 DEF Changed, Path
    <3> QED  BY <2>6, <3>2 DEF NextPath, Path
  <2>10. pc' = [pc EXCEPT ![r] = "ready"] /\ pc'[r] = "ready" /\ UNCHANGED <<lease, task, known, marked>>
    BY <1>3 DEF TxBegin, Step, Goto, TypeOK
  <2> QED  BY <1>1, <1>3, <2>3, <2>6, <2>7, <2>8, <2>9, <2>10
<1> QED  BY <1>2, <1>3

\* The end of a transaction keeps the types.
LEMMA FinishTypes ==
  ASSUME SInv, NEW r \in Run, NEW ok \in BOOLEAN, Finish(r, ok), faults' \in 0 .. MaxFaults,
         UNCHANGED <<file, modules, world, orphans, events>>,
         ok => pc[r] = "check"
  PROVE  TypeOK'
<1> USE SecurityAssumption DEF SInv, world
<1>1. NoTx \in Tx /\ Empty \in Files
  BY DEF NoTx, Tx, Files, Empty, Path
<1>2. tx' \in [Run -> Tx]
  BY <1>1, FinishDoes DEF TypeOK
<1>3. marked' \subseteq Journal
  <2>1. CASE task[r] = "mark" /\ ok
    <3>1. tx[r].goal.journal \in Journal
      BY <2>1, GoalsOf DEF Planned, Committing
    <3> QED  BY <3>1, FinishDoes DEF TypeOK
  <2> QED  BY <2>1, FinishDoes DEF TypeOK
<1>4. tx[r].goal \in Files
  BY DEF TypeOK, Tx
<1>5. pc' \in [Run -> Label] /\ known' \in [Run -> Files] /\ lease' \in Run \cup {None}
      /\ task' \in [Run -> {"publish", "fail", "mark", "clear"}]
  BY <1>1, <1>4, FinishDoes DEF TypeOK, Label, Ended, Verifying, Committing
<1> QED  BY <1>2, <1>3, <1>5 DEF TypeOK

\* After it the run knows the journal it published, or the one it had.
LEMMA FinishKnows ==
  ASSUME SInv, NEW r \in Run, NEW ok \in BOOLEAN, Finish(r, ok), pc[r] \in Committing,
         ok => pc[r] = "check"
  PROVE  KnownJournal'
<1> USE DEF SInv
<1>1. \A q \in Run \ {r} : Same(q)
  BY FinishDoes
<1>2. CASE pc'[r] = "sources" /\ known'[r] = tx[r].goal /\ task[r] = "publish" /\ ok
  <2>1. Planned(r, task[r], tx[r].expect.journal, tx[r].goal.journal)
    BY <1>2, GoalsOf DEF Committing
  <2>2. tx[r].goal.journal \in Journal /\ tx[r].goal.journal.op = r /\ tx[r].goal.journal.status = "INSTALLING"
    BY <1>2, <2>1 DEF Planned
  <2>3. tx[r].goal.journal # None
    BY <2>2, SecurityAssumption
  <2> QED  BY <1>1, <1>2, <2>2, <2>3 DEF KnownJournal, Same, Installed, Verifying, Committing, IsMarker
<1>3. CASE pc'[r] \in Ended /\ known'[r] = Empty
  BY <1>1, <1>3 DEF KnownJournal, Same, Installed, Verifying, Committing, Ended, Empty, IsMarker
<1>4. CASE pc'[r] = "begin" /\ task'[r] = "fail" /\ known' = known /\ task[r] = "clear"
  BY <1>1, <1>4 DEF KnownJournal, Same, Installed, Verifying, Committing
<1> QED  BY <1>2, <1>3, <1>4, FinishDoes DEF Ended

\* A transaction that wants the same wants it for the same task.
LEMMA GoalsFrame ==
  ASSUME NEW r \in Run, Goals(r), task'[r] = task[r], known'[r] = known[r],
         tx'[r].expect = tx[r].expect, tx'[r].goal = tx[r].goal
  PROVE  Goals(r)' /\ Changed(tx'[r]) = Changed(tx[r])
BY DEF Goals, Wants, Changed

\* A run outside a transaction has none.
LEMMA SoundOutside ==
  ASSUME SInv, NEW r \in Run, \A q \in Run \ {r} : Same(q),
         pc'[r] \notin Committing \ {"begin"}, pc'[r] # "link", tx'[r] = NoTx
  PROVE  InTx'
<1>1. Sound(r)'
  BY DEF Sound, NoTx
<1> QED  BY <1>1, SoundFrame DEF SInv, InTx

\* The end of a transaction leaves none.
LEMMA FinishSound ==
  ASSUME SInv, NEW r \in Run, NEW ok \in BOOLEAN, Finish(r, ok)
  PROVE  InTx'
<1>1. /\ \A q \in Run \ {r} : Same(q)
      /\ tx'[r] = NoTx /\ pc'[r] \notin Committing \ {"begin"} /\ pc'[r] # "link"
  BY FinishDoes DEF SInv, Committing
<1> QED  BY <1>1, SoundOutside

\* The end of a transaction does not make a run new.
LEMMA FinishAges ==
  ASSUME SInv, NEW r \in Run, NEW ok \in BOOLEAN, Finish(r, ok)
  PROVE  Ages
<1>1. /\ \A q \in Run \ {r} : Same(q)
      /\ pc'[r] \in {"sources", "ended", "ok", "unsafe"} \/ (pc'[r] = "begin" /\ task'[r] = "fail")
  BY FinishDoes DEF SInv
<1> QED  BY <1>1 DEF Ages, Unborn, Same, Keeps, Committing

\* Unless it commits a marker, it only discards what was displaced.
LEMMA FinishFades ==
  ASSUME SInv, NEW r \in Run, NEW ok \in BOOLEAN, Finish(r, ok), file' = file, ~(task[r] = "mark" /\ ok)
  PROVE  Fades
<1>1. /\ \A q \in Run \ {r} : Same(q)
      /\ tx'[r] = NoTx /\ pc'[r] # "link" /\ marked' = marked
  BY FinishDoes DEF SInv
<1>2. \A q \in Run \ {r} : At(q)' = At(q) /\ Made(q)' = Made(q) /\ tx'[q].goal = tx[q].goal /\ Floor(q)' = Floor(q)
  BY <1>1, SecurityAssumption DEF Same, At, Out, Made, Keeps, Floor, Renews, Rank
<1>3. At(r)' = None /\ ~Made(r)'
  BY <1>1, SecurityAssumption DEF At, Out, Made, Keeps, NoTx
<1>4. At(None)' = At(None)
  BY DEF At
<1> QED  BY <1>1, <1>2, <1>3, <1>4 DEF Fades, Place

\* It discards no marker.
LEMMA FinishKept ==
  ASSUME SInv, NEW r \in Run, NEW ok \in BOOLEAN, Finish(r, ok), file' = file, orphans' = orphans,
         pc[r] # "link", (task[r] = "mark" /\ ok) => file.journal = tx[r].goal.journal
  PROVE  Kept'
<1>1. /\ \A q \in Run \ {r} : Same(q)
      /\ marked' = IF task[r] = "mark" /\ ok THEN marked \cup {tx[r].goal.journal} ELSE marked
  BY FinishDoes DEF SInv
<1>2. \A m \in marked : m = file'.journal \/ m \in orphans'
                        \/ \E q \in Run : pc'[q] = "link" /\ tx'[q].at = "journal" /\ tx'[q].held = m
  BY <1>1 DEF SInv, Kept, Same
<1> QED  BY <1>1, <1>2 DEF Kept

\* What is under way is not disturbed by a step of the only run that is.
LEMMA LoneKept ==
  ASSUME SInv, NEW r \in Run, Active(r), \A q \in Run \ {r} : Same(q), Fine' => Fine,
         (Fine /\ Fine') => (Active(r)' => Lone(r)')
  PROVE  Alone'
BY Single DEF Alone, Active, Same

\* Files that agree on both paths are the same.
LEMMA FileIs ==
  ASSUME NEW f \in Files, NEW g \in Files, \A p \in Path : f[p] = g[p]
  PROVE  f = g
BY DEF Path, Files

\* A transaction given up leaves the files as the run knew them.
LEMMA FinishLone ==
  ASSUME SInv, NEW r \in Run, Finish(r, FALSE), Active(r), file' = file, Fine => file = known[r], Fine' => Fine
  PROVE  Alone'
<1>1. Fine => lease = r
  BY Single
<1>2. Fine => Lone(r)' \/ ~Active(r)'
  BY <1>1, FinishDoes DEF SInv, Lone, Active, Ended, Committing
<1> QED  BY <1>2, LoneKept, FinishDoes DEF SInv

\* The premises of the properties exclude all interference.
LEMMA CalmIsFine == (Calm => Fine) /\ (events = {} => Fine) /\ (Mild => Fine)
BY DEF Calm, Fine, Mild

\* The lease is safe if the run that has it keeps it.
LEMMA WardKept ==
  ASSUME SInv, NEW r \in Run, Active(r), stray' = stray, Calm' => Calm,
         Calm /\ Calm' /\ r \in stray /\ Ward(r) => Ward(r)'
  PROVE  Guarded'
<1>1. Calm => \A q \in stray : q = r /\ Ward(r)
  BY Single, CalmIsFine DEF SInv, Guarded, Ward
<1> QED  BY <1>1 DEF Guarded

\* The modules stay announced if the only run under way keeps them so.
LEMMA TellsKept ==
  ASSUME SInv, NEW r \in Run, Active(r), \A q \in Run \ {r} : Same(q), events' = {} => events = {},
         events = {} /\ events' = {} =>
           IF Active(r)' /\ pc'[r] # "snapshot" THEN Tells(r)' ELSE Told(file)'
  PROVE  Recorded'
<1>1. events = {} => \A q \in Run \ {r} : ~Active(q)'
  BY Single, CalmIsFine DEF Active, Same
<1> QED  BY <1>1 DEF Recorded

\* The journal stays readable if the only run under way keeps it so.
LEMMA ReadsKept ==
  ASSUME SInv, NEW r \in Run, Active(r), \A q \in Run \ {r} : Same(q), Mild' => Mild,
         Mild /\ Mild' =>
           IF Active(r)' /\ pc'[r] # "snapshot" THEN Retriable(known[r])'
           ELSE Retriable(file)' \/ IsMarker(file.journal)'
  PROVE  Readable'
<1>1. Mild => \A q \in Run \ {r} : ~Active(q)'
  BY Single, CalmIsFine DEF Active, Same
<1> QED  BY <1>1 DEF Readable

\* Without faults no call fails for a reason of its own.
LEMMA NoError == ASSUME TypeOK, NEW e \in BOOLEAN, Io(e), faults' = 0 PROVE ~e
BY DEF TypeOK, Io

\* What is known of a run past its snapshot.
LEMMA UnderWay ==
  ASSUME SInv, NEW r \in Run, Active(r), pc[r] # "snapshot"
  PROVE  /\ events = {} => Tells(r)
         /\ Mild => Retriable(known[r])
         /\ Fine => Lone(r)
BY DEF SInv, Alone, Recorded, Readable

\* The end of a transaction that was given up.
LEMMA FailTells ==
  ASSUME SInv, NEW r \in Run, Finish(r, FALSE), Active(r), pc[r] \in Committing,
         UNCHANGED <<file, modules, events>>, Fine => file = known[r]
  PROVE  Recorded' /\ Readable'
<1>1. \A q \in Run \ {r} : Same(q)
  BY FinishDoes DEF SInv
<1>2. /\ events = {} => Tells(r) /\ file = known[r]
      /\ Mild => Retriable(known[r]) /\ file = known[r]
  BY UnderWay, CalmIsFine DEF Committing
<1>3. Active(r)' => pc'[r] = "begin" /\ task'[r] = "fail" /\ known' = known
  BY FinishDoes DEF SInv, Active, Ended
<1>4. pc'[r] # "snapshot"
  BY FinishDoes DEF SInv
<1>5. Recorded'
  BY <1>1, <1>2, <1>3, <1>4, TellsKept DEF Tells, Told
<1>6. Readable'
  BY <1>1, <1>2, <1>3, <1>4, ReadsKept DEF Mild
<1> QED  BY <1>5, <1>6

\* When all is undone, the files are again as the run knows them.
LEMMA UndoneKnown ==
  ASSUME SInv, NEW r \in Run, pc[r] = "undo", tx[r].done = {}, Fine
  PROVE  file = known[r]
<1>1. Midway(r)
  BY UnderWay DEF Active, Ended, Lone, Committing
<1>2. \A p \in Path : file[p] = known[r][p]
  BY <1>1 DEF Midway
<1> QED  BY <1>2, FileIs DEF SInv, TypeOK

-----------------------------------------------------------------------------
(* The steps, one conjunct of the invariant at a time. *)

\* Every step keeps the types.
LEMMA TypeKept ==
  ASSUME SInv, [Next]_vars
  PROVE  TypeOK'
<1> USE DEF process, world
<1>1. ASSUME NEW r \in Run, Acquire(r) PROVE TypeOK'
  BY <1>1 DEF SInv, TypeOK, Acquire, Goto, Label, Event
<1>2. ASSUME NEW r \in Run, Snapshot(r) PROVE TypeOK'
  BY <1>2 DEF SInv, TypeOK, Snapshot, Goto, End, Return, Label, Commands, Ended, Files, Empty
<1>3. ASSUME NEW r \in Run, Resolve(r) PROVE TypeOK'
  <2> USE <1>3
  <2> USE DEF SInv, Resolve
  <2>1. CASE Transact(r, "publish") /\ UNCHANGED stray
    BY <2>1 DEF TypeOK, Transact, Goto, Label, Committing
  <2>2. CASE End(r, "ended") /\ UNCHANGED stray
    <3>1. Empty \in Files
      BY DEF Empty, Files
    <3> QED  BY <2>2, <3>1 DEF TypeOK, End, Return, Goto, Label, Ended
  <2>3. CASE Transact(r, "mark") /\ stray' = stray \cup {r}
    BY <2>3 DEF TypeOK, Transact, Goto, Label, Committing
  <2> QED  BY <2>1, <2>2, <2>3
<1>4. ASSUME NEW r \in Run, TxFailed(r) PROVE TypeOK'
  <2> USE <1>4
  <2>1. Finish(r, FALSE) /\ faults' \in 0 .. MaxFaults /\ UNCHANGED <<file, modules, world, orphans, events>>
    BY DEF TxFailed, SInv, TypeOK
  <2> QED  BY <2>1, FinishTypes
<1>5. ASSUME NEW r \in Run, NEW e \in BOOLEAN, TxBegin(r, e) PROVE TypeOK'
  <2> USE <1>5
  <2>1. faults' \in 0 .. MaxFaults
    BY IoCounts DEF TxBegin, SInv
  <2>2. CASE Finish(r, FALSE)
    BY <2>1, <2>2, BeginDoes, FinishTypes
  <2>3. CASE ~Finish(r, FALSE)
    <3>1. /\ pc' = [pc EXCEPT ![r] = "ready"] /\ tx' = [tx EXCEPT ![r] = tx'[r]] /\ tx'[r] \in Tx
          /\ UNCHANGED <<file, modules, world, orphans, events, lease, task, known, marked>>
      BY <2>3, BeginDoes
    <3> QED  BY <2>1, <3>1 DEF SInv, TypeOK, world, Label, Committing
  <2> QED  BY <2>2, <2>3
<1>6. ASSUME NEW r \in Run, NEW e \in BOOLEAN, Ready(r, e) PROVE TypeOK'
  BY <1>6, SecurityAssumption DEF SInv, TypeOK, Ready, Io, Step, Goto, Label, Committing
<1>7. ASSUME NEW r \in Run, NEW e \in BOOLEAN, Take(r, e) PROVE TypeOK'
  <2> USE <1>7
  <2> USE DEF SInv, Take, Step, Goto, world
  <2>1. faults' \in 0 .. MaxFaults
    BY IoCounts
  <2>2. tx \in [Run -> Tx] /\ file \in Files /\ tx[r].at \in Path
    BY DEF TypeOK, Tx
  <2>3. CASE UNCHANGED <<file, tx>>
    BY <2>1, <2>3 DEF TypeOK, Label, Committing
  <2>4. CASE tx' = [tx EXCEPT ![r].held = file[tx[r].at]] /\ file' = [file EXCEPT ![tx[r].at] = None]
    <3>1. file' \in Files /\ file[tx[r].at] \in Version \cup Journal \cup {None}
      BY <2>2, <2>4 DEF Files, Path
    <3>2. tx' \in [Run -> Tx]
      BY <2>2, <2>4, <3>1 DEF Tx
    <3> QED  BY <2>1, <3>1, <3>2 DEF TypeOK, Label, Committing
  <2> QED  BY <2>3, <2>4
<1>8. ASSUME NEW r \in Run, NEW e \in BOOLEAN, Link(r, e) PROVE TypeOK'
  <2> USE <1>8
  <2> USE DEF SInv, Link, Step, Goto, world
  <2>1. faults' \in 0 .. MaxFaults
    BY IoCounts
  <2>2. tx \in [Run -> Tx] /\ file \in Files /\ tx[r].at \in Path /\ tx[r].goal \in Files
    BY DEF TypeOK, Tx
  <2>3. CASE Published(r, tx[r].at) /\ UNCHANGED <<modules, world, marked>>
    <3>1. file' \in Files
      BY <2>2, <2>3 DEF Published, Files, Path
    <3>2. tx' \in [Run -> Tx]
      <4>1. NextPath(Changed(tx[r]) \ (tx[r].done \cup {tx[r].at})) \in Path
        BY DEF NextPath, Path
      <4>2. tx'[r] \in Tx
        BY <2>2, <2>3, <4>1 DEF Published, Tx
      <4> QED  BY <2>2, <2>3, <4>2 DEF Published
    <3> QED  BY <2>1, <2>3, <3>1, <3>2 DEF Published, TypeOK, Label, Committing
  <2>4. CASE PutBack(r, tx[r].at, e) /\ UNCHANGED <<modules, world, marked>>
    <3>1. tx[r].held \in {None} \cup (IF tx[r].at = "lock" THEN Version ELSE Journal)
      BY DEF InTx, Sound
    <3>2. file' \in Files
      BY <2>2, <2>4, <3>1 DEF PutBack, Files, Path
    <3>3. tx' \in [Run -> Tx]
      BY <2>2, <2>4 DEF PutBack, Tx
    <3>4. orphans' \subseteq Journal /\ events' \subseteq Event
      BY <2>4 DEF PutBack, TypeOK, Event
    <3> QED  BY <2>1, <2>4, <3>2, <3>3, <3>4 DEF PutBack, TypeOK, Label, Committing
  <2> QED  BY <2>3, <2>4
<1>9. ASSUME NEW r \in Run, NEW e \in BOOLEAN, TxCheck(r, e) PROVE TypeOK'
  <2> USE <1>9
  <2>1. /\ faults' \in 0 .. MaxFaults /\ pc[r] = "check"
        /\ UNCHANGED <<file, modules, world, orphans, events>>
    BY IoCounts DEF TxCheck, SInv
  <2>2. CASE Finish(r, TRUE)
    BY <2>1, <2>2, FinishTypes
  <2>3. CASE Step(r, "undo") /\ UNCHANGED <<tx, marked>>
    BY <2>1, <2>3 DEF SInv, TypeOK, world, Label, Committing, Step, Goto
  <2> QED  BY <2>2, <2>3 DEF TxCheck
<1>10. ASSUME NEW r \in Run, NEW e \in BOOLEAN, TxUndo(r, e) PROVE TypeOK'
  BY <1>10, SecurityAssumption DEF SInv, TypeOK, TxUndo, Io, Journal, Files, Tx, Event, InTx,
     Sound
<1>11. ASSUME NEW r \in Run, CommandFails(r) PROVE TypeOK'
  BY <1>11 DEF SInv, TypeOK, CommandFails, Transact, Goto, Label, Committing
<1>12. ASSUME NEW r \in Run, LockAudit(r) \/ StartInstall(r) \/ EndInstall(r) \/ Audit(r)
       PROVE  TypeOK'
  BY <1>12 DEF SInv, TypeOK, LockAudit, StartInstall, EndInstall, Audit, Step, Goto, Label,
     Commands, Verifying, Files
<1>13. ASSUME NEW r \in Run, NEW e \in BOOLEAN, Verify(r, e) PROVE TypeOK'
  <2> USE <1>13
  <2> USE DEF SInv, Verify, world
  <2>1. faults' \in 0 .. MaxFaults
    BY IoCounts
  <2>2. /\ pc' \in [Run -> Label] /\ task' \in [Run -> {"publish", "fail", "mark", "clear"}]
        /\ lease' = lease /\ known' = known
    BY DEF TypeOK, Step, Transact, Goto, Label, Committing, Commands, Verifying
  <2> QED  BY <2>1, <2>2 DEF TypeOK
<1>14. ASSUME NEW r \in Run, Kill(r) PROVE TypeOK'
  BY <1>14 DEF SInv, TypeOK, Kill, Return, Goto, Label, Ended, Path, Files, Tx, Empty, NoTx, Event
<1>15. ASSUME NEW r \in Run, StrayWrite(r) PROVE TypeOK'
  BY <1>15 DEF SInv, TypeOK, StrayWrite, Event
<1>16. ASSUME NEW r \in Run, StrayEnds(r) PROVE TypeOK'
  BY <1>16 DEF SInv, TypeOK, StrayEnds
<1>17. ASSUME EditLock \/ Reconcile PROVE TypeOK'
  BY <1>17, SecurityAssumption DEF SInv, TypeOK, EditLock, Reconcile, Files, Event
<1>18. CASE UNCHANGED vars
  BY <1>18 DEF vars, SInv, TypeOK
<1> QED  BY <1>1, <1>2, <1>3, <1>4, <1>5, <1>6, <1>7, <1>8, <1>9, <1>10, <1>11, <1>12, <1>13,
   <1>14, <1>15, <1>16, <1>17, <1>18 DEF Next, Transaction, Installation, Finished

\* A run goes on to know a journal of its own, or none that bars it.
LEMMA KnownKept ==
  ASSUME SInv, [Next]_vars
  PROVE  KnownJournal'
<1> USE DEF process, world
<1>1. ASSUME NEW r \in Run, Acquire(r) PROVE KnownJournal'
  BY <1>1 DEF SInv, KnownJournal, Acquire, Goto, Installed, Committing, Verifying
<1>2. ASSUME NEW r \in Run, Snapshot(r) PROVE KnownJournal'
  <2> USE <1>2
  <2> USE SecurityAssumption DEF SInv
  <2>1. \A q \in Run \ {r} : Same(q)
    BY OthersSame DEF RunStep
  <2>2. CASE pc'[r] = "resolve" /\ known'[r] = file /\ Retriable(file)
    <3>1. file.journal # None => file.journal.op # r /\ ~IsMarker(file.journal)
      BY <2>2 DEF Retriable, Unknown, Unborn, Snapshot, Place, At
    <3> QED  BY <2>1, <2>2, <3>1 DEF KnownJournal, Same, Installed, Verifying, Committing, Retriable, IsMarker
  <2>3. CASE pc'[r] = "ended" /\ known'[r] = Empty
    BY <2>1, <2>3 DEF KnownJournal, Same, Installed, Verifying, Committing, Empty, IsMarker
  <2> QED  BY <2>2, <2>3 DEF Snapshot, TypeOK, Goto, End, Return
<1>3. ASSUME NEW r \in Run, Resolve(r) PROVE KnownJournal'
  BY <1>3 DEF SInv, KnownJournal, Resolve, Transact, End, Return, Goto, IsMarker, Installed,
     Committing, Verifying, TypeOK, Empty
<1>4. ASSUME NEW r \in Run, TxFailed(r) PROVE KnownJournal'
  <2> USE <1>4
  <2>1. Finish(r, FALSE) /\ pc[r] \in Committing
    BY DEF TxFailed, Committing
  <2> QED  BY <2>1, FinishKnows DEF Committing
<1>5. ASSUME NEW r \in Run, NEW e \in BOOLEAN, TxBegin(r, e) PROVE KnownJournal'
  <2> USE <1>5
  <2>1. CASE Finish(r, FALSE)
    BY <2>1, BeginDoes, FinishKnows DEF Committing
  <2>2. CASE ~Finish(r, FALSE)
    <3>1. pc[r] = "begin" /\ pc' = [pc EXCEPT ![r] = "ready"] /\ known' = known /\ task' = task
      BY <2>2, BeginDoes
    <3> QED  BY <3>1 DEF SInv, TypeOK, KnownJournal, Installed, Verifying, Committing
  <2> QED  BY <2>1, <2>2
<1>6. ASSUME NEW r \in Run, NEW e \in BOOLEAN, Ready(r, e) PROVE KnownJournal'
  BY <1>6 DEF SInv, KnownJournal, Ready, Step, Goto, Installed, Committing, Verifying
<1>7. ASSUME NEW r \in Run, NEW e \in BOOLEAN, Take(r, e) PROVE KnownJournal'
  BY <1>7 DEF SInv, KnownJournal, Take, Step, Goto, Installed, Committing, Verifying, TypeOK
<1>8. ASSUME NEW r \in Run, NEW e \in BOOLEAN, Link(r, e) PROVE KnownJournal'
  BY <1>8 DEF SInv, KnownJournal, Link, Published, PutBack, Step, Goto, Installed, Committing,
     Verifying, TypeOK
<1>9. ASSUME NEW r \in Run, NEW e \in BOOLEAN, TxCheck(r, e) PROVE KnownJournal'
  <2> USE <1>9
  <2>1. CASE Finish(r, TRUE)
    BY <2>1, FinishKnows DEF TxCheck, Committing
  <2>2. CASE Step(r, "undo")
    BY <2>2 DEF TxCheck, SInv, TypeOK, KnownJournal, Installed, Verifying, Committing, Step, Goto
  <2> QED  BY <2>1, <2>2 DEF TxCheck
<1>10. ASSUME NEW r \in Run, NEW e \in BOOLEAN, TxUndo(r, e) PROVE KnownJournal'
  BY <1>10 DEF SInv, KnownJournal, TxUndo
<1>11. ASSUME NEW r \in Run, CommandFails(r) PROVE KnownJournal'
  BY <1>11 DEF SInv, KnownJournal, CommandFails, Transact, Goto, Installed, Commands, TypeOK
<1>12. ASSUME NEW r \in Run, LockAudit(r) PROVE KnownJournal'
  BY <1>12 DEF SInv, KnownJournal, LockAudit, Step, Goto, Installed, Committing
<1>13. ASSUME NEW r \in Run, StartInstall(r) PROVE KnownJournal'
  BY <1>13 DEF SInv, KnownJournal, StartInstall, Step, Goto, Installed, Committing
<1>14. ASSUME NEW r \in Run, EndInstall(r) PROVE KnownJournal'
  BY <1>14 DEF SInv, KnownJournal, EndInstall, Step, Goto, Installed, Committing
<1>15. ASSUME NEW r \in Run, Audit(r) PROVE KnownJournal'
  BY <1>15 DEF SInv, KnownJournal, Audit, Step, Goto, Installed, Committing
<1>16. ASSUME NEW r \in Run, NEW e \in BOOLEAN, Verify(r, e) PROVE KnownJournal'
  <2> USE <1>16
  <2>1. /\ pc[r] \in Verifying /\ known' = known /\ \A q \in Run \ {r} : pc'[q] = pc[q] /\ task'[q] = task[q]
        /\ pc'[r] \in Installed \/ (pc'[r] = "begin" /\ task'[r] \in {"fail", "clear"})
    BY DEF Verify, SInv, TypeOK, Step, Transact, Goto, Installed, Verifying
  <2> QED  BY <2>1 DEF SInv, KnownJournal, Installed, Verifying, Committing
<1>17. ASSUME NEW r \in Run, Kill(r) PROVE KnownJournal'
  BY <1>17 DEF SInv, KnownJournal, Kill, Return, Goto, IsMarker, Installed, Committing, Verifying,
     TypeOK, Empty
<1>18. ASSUME NEW r \in Run, StrayWrite(r) \/ StrayEnds(r) PROVE KnownJournal'
  BY <1>18 DEF SInv, KnownJournal, StrayWrite, StrayEnds
<1>19. ASSUME EditLock \/ Reconcile PROVE KnownJournal'
  BY <1>19 DEF SInv, KnownJournal, EditLock, Reconcile
<1>20. CASE UNCHANGED vars
  BY <1>20 DEF vars, SInv, KnownJournal
<1> QED  BY <1>1, <1>2, <1>3, <1>4, <1>5, <1>6, <1>7, <1>8, <1>9, <1>10, <1>11, <1>12, <1>13,
   <1>14, <1>15, <1>16, <1>17, <1>18, <1>19, <1>20 DEF Next, Transaction, Installation, Finished

\* A transaction goes on to want what serves its task.
LEMMA InTxKept ==
  ASSUME SInv, [Next]_vars
  PROVE  InTx'
<1> USE DEF process, world
<1>1. ASSUME NEW r \in Run, Acquire(r) PROVE InTx'
  <2> USE <1>1
  <2>1. \A q \in Run \ {r} : Same(q)
    BY OthersSame DEF SInv, RunStep
  <2>2. pc'[r] \notin Committing \ {"begin"} /\ pc'[r] # "link" /\ tx'[r] = NoTx
    BY DEF SInv, TypeOK, InTx, Sound, Committing, Acquire, Goto
  <2> QED  BY <2>1, <2>2, SoundOutside
<1>2. ASSUME NEW r \in Run, Snapshot(r) PROVE InTx'
  <2> USE <1>2
  <2>1. \A q \in Run \ {r} : Same(q)
    BY OthersSame DEF SInv, RunStep
  <2>2. pc'[r] \notin Committing \ {"begin"} /\ pc'[r] # "link" /\ tx'[r] = NoTx
    BY DEF SInv, TypeOK, InTx, Sound, Committing, Snapshot, Goto, End, Return
  <2> QED  BY <2>1, <2>2, SoundOutside
<1>3. ASSUME NEW r \in Run, Resolve(r) PROVE InTx'
  <2> USE <1>3
  <2>1. \A q \in Run \ {r} : Same(q)
    BY OthersSame DEF SInv, RunStep
  <2>2. pc'[r] \notin Committing \ {"begin"} /\ pc'[r] # "link" /\ tx'[r] = NoTx
    BY DEF SInv, TypeOK, InTx, Sound, Committing, Resolve, Goto, End, Return, Transact
  <2> QED  BY <2>1, <2>2, SoundOutside
<1>4. ASSUME NEW r \in Run, TxFailed(r) PROVE InTx'
  BY <1>4, FinishSound DEF TxFailed
<1>5. ASSUME NEW r \in Run, NEW e \in BOOLEAN, TxBegin(r, e) PROVE InTx'
  <2> USE <1>5
  <2>1. CASE Finish(r, FALSE)
    BY <2>1, FinishSound
  <2>2. CASE ~Finish(r, FALSE)
    <3>1. \A q \in Run \ {r} : Same(q)
      BY OthersSame DEF SInv, RunStep, Transaction
    <3>2. /\ pc'[r] = "ready" /\ task' = task /\ known' = known /\ tx'[r].expect.journal = known[r].journal
          /\ tx'[r].done = {} /\ tx'[r].held = None /\ tx'[r].at \in Changed(tx'[r])
          /\ Wants(r, task[r], known[r], tx'[r])
      BY <2>2, BeginDoes
    <3>3. Sound(r)'
      BY <3>2 DEF Sound, Goals, Committing
    <3> QED  BY <3>1, <3>3, SoundFrame DEF SInv, InTx
  <2> QED  BY <2>1, <2>2
<1>6. ASSUME NEW r \in Run, NEW e \in BOOLEAN, Ready(r, e) PROVE InTx'
  <2> USE <1>6
  <2>1. \A q \in Run \ {r} : Same(q)
    BY OthersSame DEF SInv, RunStep, Transaction
  <2>2. /\ task' = task /\ known' = known /\ tx' = tx /\ pc[r] = "ready"
        /\ pc'[r] = "undo" \/ (pc'[r] = "link") \/ (pc'[r] = "take" /\ tx[r].expect[tx[r].at] # None)
    BY DEF Ready, Step, Goto, SInv, TypeOK
  <2>3. Sound(r)'
    BY <2>2 DEF SInv, InTx, Sound, Goals, Committing
  <2> QED  BY <2>1, <2>3, SoundFrame DEF SInv, InTx
<1>7. ASSUME NEW r \in Run, NEW e \in BOOLEAN, Take(r, e) PROVE InTx'
  <2> USE <1>7
  <2>1. \A q \in Run \ {r} : Same(q)
    BY OthersSame DEF SInv, RunStep, Transaction
  <2>2. /\ task' = task /\ known' = known /\ pc[r] = "take"
        /\ tx[r].at \in Path /\ tx \in [Run -> Tx] /\ file \in Files
    BY DEF Take, Step, SInv, TypeOK, Tx
  <2>3. CASE pc'[r] = "undo" /\ tx' = tx
    BY <2>1, <2>2, <2>3, SoundFrame DEF SInv, InTx, Sound, Goals, Committing
  <2>4. CASE pc'[r] = "link" /\ tx' = [tx EXCEPT ![r].held = file[tx[r].at]] /\ file[tx[r].at] # None
    <3>1. /\ tx'[r].expect = tx[r].expect /\ tx'[r].goal = tx[r].goal /\ tx'[r].done = tx[r].done
          /\ tx'[r].at = tx[r].at /\ tx'[r].held = file[tx[r].at]
      BY <2>2, <2>4 DEF Tx
    <3>2. Goals(r)' /\ Changed(tx'[r]) = Changed(tx[r])
      BY <2>2, <3>1, GoalsFrame DEF SInv, InTx, Sound, Committing
    <3>3. tx'[r].held \in (IF tx[r].at = "lock" THEN Version ELSE Journal)
      BY <2>2, <2>4, <3>1 DEF Path, Files
    <3>4. Sound(r)'
      BY <2>2, <2>4, <3>1, <3>2, <3>3 DEF SInv, InTx, Sound, Committing
    <3> QED  BY <2>1, <3>4, SoundFrame DEF SInv, InTx
  <2> QED  BY <2>2, <2>3, <2>4 DEF Take, Step, Goto, SInv, TypeOK
<1>8. ASSUME NEW r \in Run, NEW e \in BOOLEAN, Link(r, e) PROVE InTx'
  <2> USE <1>8
  <2>1. \A q \in Run \ {r} : Same(q)
    BY OthersSame DEF SInv, RunStep, Transaction
  <2>2. /\ task' = task /\ known' = known /\ pc[r] = "link"
        /\ tx[r].at \in Path /\ tx \in [Run -> Tx] /\ pc \in [Run -> Label]
    BY DEF Link, Published, PutBack, Step, SInv, TypeOK, Tx
  <2> DEFINE rest == Changed(tx[r]) \ (tx[r].done \cup {tx[r].at})
  <2>3. CASE Published(r, tx[r].at)
    <3>1. /\ tx'[r].expect = tx[r].expect /\ tx'[r].goal = tx[r].goal /\ tx'[r].held = None
          /\ tx'[r].done = tx[r].done \cup {tx[r].at} /\ tx'[r].at = NextPath(rest)
          /\ pc'[r] = IF rest = {} THEN "check" ELSE "ready"
      BY <2>2, <2>3 DEF Published, Step, Goto, Tx
    <3>2. Goals(r)' /\ Changed(tx'[r]) = Changed(tx[r])
      BY <2>2, <3>1, GoalsFrame DEF SInv, InTx, Sound, Committing
    <3>3. rest # {} => NextPath(rest) \in rest
      BY DEF NextPath, Changed, Path
    <3>4. tx[r].done \cup {tx[r].at} \subseteq Changed(tx[r])
      BY <2>2 DEF SInv, InTx, Sound, Committing
    <3>5. Sound(r)'
      BY <2>2, <3>1, <3>2, <3>3, <3>4 DEF SInv, InTx, Sound, Committing
    <3> QED  BY <2>1, <3>5, SoundFrame DEF SInv, InTx
  <2>4. CASE PutBack(r, tx[r].at, e)
    <3>1. /\ tx'[r].expect = tx[r].expect /\ tx'[r].goal = tx[r].goal /\ tx'[r].held = None
          /\ tx'[r].done = tx[r].done /\ pc'[r] = "undo"
      BY <2>2, <2>4 DEF PutBack, Step, Goto, Tx
    <3>2. Goals(r)' /\ Changed(tx'[r]) = Changed(tx[r])
      BY <2>2, <3>1, GoalsFrame DEF SInv, InTx, Sound, Committing
    <3>3. Sound(r)'
      BY <2>2, <3>1, <3>2 DEF SInv, InTx, Sound, Committing
    <3> QED  BY <2>1, <3>3, SoundFrame DEF SInv, InTx
  <2> QED  BY <2>3, <2>4 DEF Link
<1>9. ASSUME NEW r \in Run, NEW e \in BOOLEAN, TxCheck(r, e) PROVE InTx'
  <2> USE <1>9
  <2>1. CASE Finish(r, TRUE)
    BY <2>1, FinishSound
  <2>2. CASE Step(r, "undo") /\ UNCHANGED <<tx, marked>>
    <3>1. \A q \in Run \ {r} : Same(q)
      BY OthersSame DEF SInv, RunStep, Transaction
    <3>2. task' = task /\ known' = known /\ tx' = tx /\ pc[r] = "check" /\ pc'[r] = "undo"
      BY <2>2 DEF TxCheck, Step, Goto, SInv, TypeOK
    <3>3. Sound(r)'
      BY <3>2 DEF SInv, InTx, Sound, Goals, Committing
    <3> QED  BY <3>1, <3>3, SoundFrame DEF SInv, InTx
  <2> QED  BY <2>1, <2>2 DEF TxCheck
<1>10. ASSUME NEW r \in Run, NEW e \in BOOLEAN, TxUndo(r, e) PROVE InTx'
  <2> USE <1>10
  <2>1. \A q \in Run \ {r} : Same(q)
    BY OthersSame DEF SInv, RunStep, Transaction
  <2>2. /\ task' = task /\ known' = known /\ pc' = pc /\ pc[r] = "undo" /\ tx \in [Run -> Tx]
    BY DEF TxUndo, process, SInv, TypeOK
  <2>3. /\ tx'[r].expect = tx[r].expect /\ tx'[r].goal = tx[r].goal /\ tx'[r].held = tx[r].held
        /\ tx'[r].done \subseteq tx[r].done
    BY <2>2 DEF TxUndo, Tx
  <2>4. Goals(r)' /\ Changed(tx'[r]) = Changed(tx[r])
    BY <2>2, <2>3, GoalsFrame DEF SInv, InTx, Sound, Committing
  <2>5. Sound(r)'
    BY <2>2, <2>3, <2>4 DEF SInv, InTx, Sound, Committing
  <2> QED  BY <2>1, <2>5, SoundFrame DEF SInv, InTx
<1>11. ASSUME NEW r \in Run, CommandFails(r) PROVE InTx'
  <2> USE <1>11
  <2>1. \A q \in Run \ {r} : Same(q)
    BY OthersSame DEF SInv, RunStep, Installation
  <2>2. pc'[r] \notin Committing \ {"begin"} /\ pc'[r] # "link" /\ tx'[r] = NoTx
    BY DEF SInv, TypeOK, InTx, Sound, Committing, Commands, CommandFails, Goto, Transact
  <2> QED  BY <2>1, <2>2, SoundOutside
<1>12. ASSUME NEW r \in Run, LockAudit(r) PROVE InTx'
  <2> USE <1>12
  <2>1. \A q \in Run \ {r} : Same(q)
    BY OthersSame DEF SInv, RunStep, Installation
  <2>2. pc'[r] \notin Committing \ {"begin"} /\ pc'[r] # "link" /\ tx'[r] = NoTx
    BY DEF SInv, TypeOK, InTx, Sound, Committing, LockAudit, Goto, Step
  <2> QED  BY <2>1, <2>2, SoundOutside
<1>13. ASSUME NEW r \in Run, StartInstall(r) PROVE InTx'
  <2> USE <1>13
  <2>1. \A q \in Run \ {r} : Same(q)
    BY OthersSame DEF SInv, RunStep, Installation
  <2>2. pc'[r] \notin Committing \ {"begin"} /\ pc'[r] # "link" /\ tx'[r] = NoTx
    BY DEF SInv, TypeOK, InTx, Sound, Committing, StartInstall, Goto, Step
  <2> QED  BY <2>1, <2>2, SoundOutside
<1>14. ASSUME NEW r \in Run, EndInstall(r) PROVE InTx'
  <2> USE <1>14
  <2>1. \A q \in Run \ {r} : Same(q)
    BY OthersSame DEF SInv, RunStep, Installation
  <2>2. pc'[r] \notin Committing \ {"begin"} /\ pc'[r] # "link" /\ tx'[r] = NoTx
    BY DEF SInv, TypeOK, InTx, Sound, Committing, EndInstall, Goto, Step
  <2> QED  BY <2>1, <2>2, SoundOutside
<1>15. ASSUME NEW r \in Run, Audit(r) PROVE InTx'
  <2> USE <1>15
  <2>1. \A q \in Run \ {r} : Same(q)
    BY OthersSame DEF SInv, RunStep, Installation
  <2>2. pc'[r] \notin Committing \ {"begin"} /\ pc'[r] # "link" /\ tx'[r] = NoTx
    BY DEF SInv, TypeOK, InTx, Sound, Committing, Audit, Goto, Step
  <2> QED  BY <2>1, <2>2, SoundOutside
<1>16. ASSUME NEW r \in Run, NEW e \in BOOLEAN, Verify(r, e) PROVE InTx'
  <2> USE <1>16
  <2>1. \A q \in Run \ {r} : Same(q)
    BY OthersSame DEF SInv, RunStep, Installation
  <2>2. pc'[r] \notin Committing \ {"begin"} /\ pc'[r] # "link" /\ tx'[r] = NoTx
    BY DEF SInv, TypeOK, InTx, Sound, Committing, Verifying, Verify, Goto, Step, Transact
  <2> QED  BY <2>1, <2>2, SoundOutside
<1>17. ASSUME NEW r \in Run, Kill(r) PROVE InTx'
  <2> USE <1>17
  <2>1. \A q \in Run \ {r} : Same(q)
    BY OthersSame DEF SInv, RunStep
  <2>2. pc'[r] \notin Committing \ {"begin"} /\ pc'[r] # "link" /\ tx'[r] = NoTx
    BY DEF SInv, TypeOK, InTx, Sound, Committing, Kill, Goto, Return
  <2> QED  BY <2>1, <2>2, SoundOutside
<1>18. ASSUME NEW r \in Run, StrayWrite(r) PROVE InTx'
  <2> USE <1>18
  <2>1. \A q \in Run : Same(q)
    BY DEF StrayWrite, process, Same
  <2> QED  BY <2>1, SoundFrame DEF SInv, InTx
<1>19. ASSUME NEW r \in Run, StrayEnds(r) PROVE InTx'
  <2> USE <1>19
  <2>1. \A q \in Run : Same(q)
    BY DEF StrayEnds, process, Same
  <2> QED  BY <2>1, SoundFrame DEF SInv, InTx
<1>20. ASSUME EditLock PROVE InTx'
  <2> USE <1>20
  <2>1. \A q \in Run : Same(q)
    BY DEF EditLock, process, Same
  <2> QED  BY <2>1, SoundFrame DEF SInv, InTx
<1>21. ASSUME Reconcile PROVE InTx'
  <2> USE <1>21
  <2>1. \A q \in Run : Same(q)
    BY DEF Reconcile, process, Same
  <2> QED  BY <2>1, SoundFrame DEF SInv, InTx
<1>22. CASE UNCHANGED vars
  BY <1>22 DEF vars, SInv, InTx, Sound, Goals
<1> QED  BY <1>1, <1>2, <1>3, <1>4, <1>5, <1>6, <1>7, <1>8, <1>9, <1>10, <1>11, <1>12, <1>13,
   <1>14, <1>15, <1>16, <1>17, <1>18, <1>19, <1>20, <1>21, <1>22 DEF Next, Transaction,
   Installation, Finished

\* What the run under way knows of the files stays true.
LEMMA AloneKept ==
  ASSUME SInv, [Next]_vars
  PROVE  Alone'
<1> USE DEF process, world
<1>0. Fine' => Fine
  BY Grows, FineBefore DEF SInv
<1>1. ASSUME NEW r \in Run, Acquire(r) PROVE Alone'
  <2> USE <1>1, <1>0
  <2> SUFFICES ASSUME Fine, Fine' PROVE \A q \in Run : Active(q)' => Lone(q)'
    BY DEF Alone
  <2>1. \A q \in Run \ {r} : Same(q)
    BY OthersSame DEF SInv, RunStep
  <2>2. lease = None \/ (lease \in Run /\ pc[lease] \in Ended)
    BY DEF Acquire, Fine
  <2>3. \A q \in Run : ~Active(q)
    BY <2>2, Single, SecurityAssumption DEF Active
  <2>4. pc'[r] = "snapshot" /\ lease' = r
    BY DEF Acquire, Goto, SInv, TypeOK
  <2> QED  BY <2>1, <2>3, <2>4 DEF Active, Lone, Same, Committing
<1>2. ASSUME NEW r \in Run, Snapshot(r) PROVE Alone'
  BY <1>2, <1>0 DEF SInv, Alone, Lone, Snapshot, Goto, End, Return, Active, Committing, Ended,
     TypeOK
<1>3. ASSUME NEW r \in Run, Resolve(r) PROVE Alone'
  BY <1>3, <1>0 DEF SInv, Alone, Lone, Resolve, Transact, End, Return, Goto, Active, Committing,
     Ended, TypeOK
<1>4. ASSUME NEW r \in Run, TxFailed(r) PROVE Alone'
  <2> USE <1>4, <1>0
  <2>1. Active(r)
    BY DEF TxFailed, Active, Ended
  <2>2. Fine => file = known[r]
    <3>1. Fine => Midway(r)
      BY <2>1 DEF SInv, Alone, Lone, TxFailed, Committing
    <3>2. Fine => \A p \in Path : file[p] = known[r][p]
      BY <3>1 DEF TxFailed, Midway
    <3> QED  BY <3>2, FileIs DEF SInv, TypeOK
  <2> QED  BY <2>1, <2>2, FinishLone DEF TxFailed
<1>5. ASSUME NEW r \in Run, NEW e \in BOOLEAN, TxBegin(r, e) PROVE Alone'
  <2> USE <1>5, <1>0
  <2>1. Active(r)
    BY BeginDoes DEF Active, Ended
  <2>2. Fine => file = known[r] /\ lease = r
    BY <2>1, BeginDoes DEF SInv, Alone, Lone
  <2>3. CASE Finish(r, FALSE)
    BY <2>1, <2>2, <2>3, BeginDoes, FinishLone
  <2>4. CASE ~Finish(r, FALSE)
    <3>1. \A q \in Run \ {r} : Same(q)
      BY OthersSame DEF SInv, RunStep, Transaction
    <3>2. /\ pc'[r] = "ready" /\ file' = file /\ lease' = lease /\ known' = known
          /\ tx'[r].expect = Expected(r) /\ tx'[r].done = {}
      BY <2>4, BeginDoes
    <3>3. Fine => Expected(r) = known[r]
      BY <2>2 DEF Expected, SInv, TypeOK, Files
    <3>4. Fine => Lone(r)'
      BY <2>2, <3>2, <3>3 DEF Lone, Midway, Committing
    <3> QED  BY <2>1, <3>1, <3>4, LoneKept
  <2> QED  BY <2>3, <2>4
<1>6. ASSUME NEW r \in Run, NEW e \in BOOLEAN, Ready(r, e) PROVE Alone'
  <2> USE <1>6, <1>0
  <2>1. Active(r) /\ \A q \in Run \ {r} : Same(q)
    BY OthersSame DEF Ready, Active, Ended, SInv, RunStep, Transaction
  <2>2. /\ pc[r] = "ready" /\ tx' = tx /\ known' = known /\ file' = file /\ lease' = lease
        /\ pc'[r] \in {"undo", "take", "link"}
        /\ pc'[r] = "link" => file[tx[r].at] = None
    BY DEF Ready, Step, Goto, SInv, TypeOK
  <2>3. Fine => lease = r /\ Midway(r)
    BY <2>1, <2>2 DEF SInv, Alone, Lone, Committing
  <2>4. pc[r] # "link" => tx[r].held = None
    BY DEF SInv, InTx, Sound
  <2>5. tx[r].at \in Path \ tx[r].done
    BY <2>2 DEF SInv, InTx, Sound, Committing, Changed
  <2>6. Fine => Lone(r)'
    BY <2>2, <2>3, <2>4, <2>5 DEF Lone, Midway, Committing
  <2> QED  BY <2>1, <2>6, LoneKept
<1>7. ASSUME NEW r \in Run, NEW e \in BOOLEAN, Take(r, e) PROVE Alone'
  <2> USE <1>7, <1>0
  <2>1. Active(r) /\ \A q \in Run \ {r} : Same(q)
    BY OthersSame DEF Take, Active, Ended, SInv, RunStep, Transaction
  <2>2. /\ pc[r] = "take" /\ known' = known /\ lease' = lease /\ tx \in [Run -> Tx] /\ file \in Files
    BY DEF Take, Step, Goto, SInv, TypeOK
  <2>3. Fine => lease = r /\ Midway(r)
    BY <2>1, <2>2 DEF SInv, Alone, Lone, Committing
  <2>4. tx[r].at \in Path \ tx[r].done
    BY <2>2 DEF SInv, InTx, Sound, Committing, Changed
  <2>5. CASE pc'[r] = "undo" /\ UNCHANGED <<file, tx>>
    <3>1. Fine => Lone(r)'
      BY <2>2, <2>3, <2>5 DEF Lone, Midway, Committing
    <3> QED  BY <2>1, <3>1, LoneKept
  <2>6. CASE /\ pc'[r] = "link" /\ tx' = [tx EXCEPT ![r].held = file[tx[r].at]]
             /\ file' = [file EXCEPT ![tx[r].at] = None]
    <3>1. /\ tx'[r].expect = tx[r].expect /\ tx'[r].goal = tx[r].goal /\ tx'[r].done = tx[r].done
          /\ tx'[r].at = tx[r].at /\ tx'[r].held = file[tx[r].at]
      BY <2>2, <2>6 DEF Tx
    <3>2. \A p \in Path : file'[p] = IF p = tx[r].at THEN None ELSE file[p]
      BY <2>2, <2>4, <2>6 DEF Files, Path
    <3>3. Fine => Lone(r)'
      BY <2>2, <2>3, <2>4, <2>6, <3>1, <3>2 DEF Lone, Midway, Committing
    <3> QED  BY <2>1, <3>3, LoneKept
  <2> QED  BY <2>5, <2>6 DEF Take, Step, Goto, SInv, TypeOK
<1>8. ASSUME NEW r \in Run, NEW e \in BOOLEAN, Link(r, e) PROVE Alone'
  <2> USE <1>8, <1>0
  <2> DEFINE p == tx[r].at
  <2>1. Active(r) /\ \A q \in Run \ {r} : Same(q)
    BY OthersSame DEF Link, Active, Ended, SInv, RunStep, Transaction
  <2>2. /\ pc[r] = "link" /\ known' = known /\ lease' = lease /\ tx \in [Run -> Tx] /\ file \in Files
        /\ pc \in [Run -> Label] /\ tx[r].goal \in Files /\ tx[r].expect \in Files
    BY DEF Link, Published, PutBack, Step, Goto, SInv, TypeOK, Tx
  <2>3. Fine => lease = r /\ Midway(r)
    BY <2>1, <2>2 DEF SInv, Alone, Lone, Committing
  <2>4. p \in Path \ tx[r].done
    BY <2>2 DEF SInv, InTx, Sound, Committing, Changed
  <2>5. Fine => file[p] = None /\ tx[r].held = tx[r].expect[p]
    BY <2>2, <2>3, <2>4 DEF Midway
  <2>6. CASE Published(r, p)
    <3>1. /\ tx'[r].expect = tx[r].expect /\ tx'[r].goal = tx[r].goal
          /\ tx'[r].done = tx[r].done \cup {p}
          /\ pc'[r] = IF Changed(tx[r]) \ (tx[r].done \cup {p}) = {} THEN "check" ELSE "ready"
      BY <2>2, <2>6 DEF Published, Step, Goto, Tx
    <3>2. \A x \in Path : file'[x] = IF x = p THEN IF tx[r].goal[p] = None THEN file[p] ELSE tx[r].goal[p]
                                      ELSE file[x]
      BY <2>2, <2>4, <2>6 DEF Published, Files, Path
    <3>3. Fine => \A x \in Path : file'[x] = IF x \in tx'[r].done THEN tx'[r].goal[x] ELSE tx'[r].expect[x]
      BY <2>2, <2>3, <2>4, <2>5, <3>1, <3>2 DEF Midway
    <3>4. pc'[r] = "check" => \A x \in Path : x \notin tx'[r].done => tx[r].goal[x] = tx[r].expect[x]
      BY <3>1 DEF Changed
    <3>5. Fine /\ pc'[r] = "check" => file' = tx'[r].goal
      <4>1. file' \in Files
        BY <2>2, <2>4, <2>6 DEF Published, Files, Path
      <4> QED  BY <2>2, <3>1, <3>3, <3>4, <4>1, FileIs
    <3>6. Fine => Lone(r)'
      BY <2>2, <2>3, <3>1, <3>3, <3>5 DEF Lone, Midway, Committing
    <3> QED  BY <2>1, <3>6, LoneKept
  <2>7. CASE PutBack(r, p, e) /\ ~(~e /\ tx[r].held = tx[r].expect[p] /\ (tx[r].goal[p] # None => file[p] = None))
    <3>1. /\ tx'[r].expect = tx[r].expect /\ tx'[r].goal = tx[r].goal
          /\ tx'[r].done = tx[r].done /\ pc'[r] = "undo"
      BY <2>2, <2>7 DEF PutBack, Step, Goto, Tx
    <3>2. Fine => e
      BY <2>5, <2>7
    <3>3. e => faults' # 0
      BY DEF Link, Io, SInv, TypeOK
    <3>4. Fine /\ Fine' => file' = [file EXCEPT ![p] = tx[r].held]
      <4>1. Fine /\ Fine' => "torn" \notin events'
        BY <3>2, <3>3 DEF Fine
      <4> QED  BY <2>5, <2>7, <4>1 DEF PutBack
    <3>5. Fine /\ Fine' => \A x \in Path : file'[x] = IF x = p THEN tx[r].expect[p] ELSE file[x]
      BY <2>2, <2>4, <2>5, <3>4 DEF Files, Path
    <3>6. Fine /\ Fine' => Lone(r)'
      BY <2>2, <2>3, <2>4, <3>1, <3>5 DEF Lone, Midway, Committing
    <3> QED  BY <2>1, <3>6, LoneKept
  <2> QED  BY <2>6, <2>7 DEF Link
<1>9. ASSUME NEW r \in Run, NEW e \in BOOLEAN, TxCheck(r, e) PROVE Alone'
  <2> USE <1>9, <1>0
  <2>1. Active(r) /\ \A q \in Run \ {r} : Same(q)
    BY OthersSame DEF TxCheck, Active, Ended, SInv, RunStep, Transaction
  <2>2. pc[r] = "check" /\ file' = file
    BY DEF TxCheck
  <2>3. Fine => lease = r /\ Midway(r)
    BY <2>1, <2>2 DEF SInv, Alone, Lone, Committing
  <2>4. CASE Finish(r, TRUE)
    <3>1. Fine => Lone(r)' \/ ~Active(r)'
      BY <2>2, <2>3, <2>4, FinishDoes DEF SInv, Lone, Midway, Active, Ended, Committing
    <3> QED  BY <2>1, <3>1, LoneKept
  <2>5. CASE Step(r, "undo") /\ tx' = tx
    <3>1. pc'[r] = "undo" /\ lease' = lease /\ known' = known
      BY <2>5 DEF Step, Goto, SInv, TypeOK
    <3>2. Fine => Lone(r)'
      BY <2>2, <2>3, <2>5, <3>1 DEF Lone, Midway, Committing
    <3> QED  BY <2>1, <3>2, LoneKept
  <2> QED  BY <2>4, <2>5 DEF TxCheck
<1>10. ASSUME NEW r \in Run, NEW e \in BOOLEAN, TxUndo(r, e) PROVE Alone'
  BY <1>10, <1>0 DEF SInv, Alone, Lone, TxUndo, Io, Fine, Midway, Active, Label, Verifying,
     Commands, Ended, TypeOK, Files
<1>11. ASSUME NEW r \in Run, CommandFails(r) PROVE Alone'
  BY <1>11, <1>0 DEF SInv, Alone, Lone, CommandFails, Transact, Goto, Active, Committing,
     Commands, Ended, TypeOK
<1>12. ASSUME NEW r \in Run, LockAudit(r) PROVE Alone'
  BY <1>12, <1>0 DEF SInv, Alone, Lone, LockAudit, Step, Goto, Active, Committing, Ended
<1>13. ASSUME NEW r \in Run, StartInstall(r) PROVE Alone'
  BY <1>13, <1>0 DEF SInv, Alone, Lone, StartInstall, Step, Goto, Active, Committing, Ended
<1>14. ASSUME NEW r \in Run, EndInstall(r) PROVE Alone'
  BY <1>14, <1>0 DEF SInv, Alone, Lone, EndInstall, Step, Goto, Active, Committing, Ended
<1>15. ASSUME NEW r \in Run, Audit(r) PROVE Alone'
  BY <1>15, <1>0 DEF SInv, Alone, Lone, Audit, Step, Goto, Active, Committing, Ended
<1>16. ASSUME NEW r \in Run, NEW e \in BOOLEAN, Verify(r, e) PROVE Alone'
  <2> USE <1>16, <1>0
  <2>1. Active(r) /\ \A q \in Run \ {r} : Same(q)
    BY OthersSame DEF Verify, Verifying, Active, Ended, SInv, RunStep, Installation
  <2>2. /\ pc[r] \in Verifying /\ lease' = lease /\ known' = known /\ file' = file
        /\ pc'[r] \in {"begin", "lockAudit", "audit"}
    BY DEF Verify, Verifying, Step, Transact, Goto, SInv, TypeOK
  <2>3. Fine => Lone(r)'
    BY <2>1, <2>2 DEF SInv, Alone, Lone, Verifying, Committing
  <2> QED  BY <2>1, <2>3, LoneKept
<1>17. ASSUME NEW r \in Run, Kill(r) PROVE Alone'
  BY <1>17, <1>0 DEF SInv, Alone, Lone, Kill, Return, Goto, Active, Ended, TypeOK
<1>18. ASSUME NEW r \in Run, StrayWrite(r) \/ StrayEnds(r) PROVE Alone'
  BY <1>18, <1>0 DEF SInv, Alone, StrayWrite, StrayEnds, Lone, Midway, Active
<1>19. ASSUME EditLock \/ Reconcile PROVE Alone'
  BY <1>19, <1>0 DEF SInv, Alone, EditLock, Reconcile, Fine
<1>20. CASE UNCHANGED vars
  BY <1>20 DEF vars, SInv, Alone, Fine, Lone, Midway, Active
<1> QED  BY <1>1, <1>2, <1>3, <1>4, <1>5, <1>6, <1>7, <1>8, <1>9, <1>10, <1>11, <1>12, <1>13,
   <1>14, <1>15, <1>16, <1>17, <1>18, <1>19, <1>20 DEF Next, Transaction, Installation, Finished

\* Between the failure of a command and its marker the lease is not given up.
LEMMA GuardedKept ==
  ASSUME SInv, [Next]_vars
  PROVE  Guarded'
<1> USE DEF process, world
<1>0. Calm' => Calm
  BY Grows, FineBefore DEF SInv
<1>1. ASSUME NEW r \in Run, Acquire(r) PROVE Guarded'
  <2> USE <1>1, <1>0
  <2>1. stray' = stray /\ pc[r] = "idle" /\ ~IsMarker(file.journal) /\ "forced" \notin events' =>
          ~(\E q \in Run : lease = q /\ pc[q] \notin Ended)
    BY SecurityAssumption DEF Acquire
  <2>2. Calm /\ Calm' => stray = {}
    <3> SUFFICES ASSUME Calm, Calm', NEW q \in stray PROVE FALSE
      OBVIOUS
    <3>1. q \in Run /\ Ward(q)
      BY DEF SInv, TypeOK, Guarded
    <3>2. "forced" \notin events' /\ pc[r] = "idle" /\ ~IsMarker(file.journal) /\ stray' = stray
      BY DEF Calm, Acquire, world
    <3>3. pc[q] \in Ended
      BY <2>1, <3>1, <3>2 DEF Ward
    <3> QED  BY <3>1, <3>2, <3>3 DEF Ward, Committing, Ended
  <2> QED  BY <2>2 DEF Guarded, Acquire, world
<1>2. ASSUME NEW r \in Run, Snapshot(r) PROVE Guarded'
  BY <1>2, <1>0 DEF SInv, Guarded, Ward, Snapshot, Calm, Committing, Ended, Alone, Lone, Fine,
     Active
<1>3. ASSUME NEW r \in Run, Resolve(r) PROVE Guarded'
  BY <1>3, <1>0 DEF SInv, Guarded, Ward, Resolve, Transact, Goto, Calm, Committing, Ended, TypeOK,
     Alone, Lone, Fine, Active
<1>4. ASSUME NEW r \in Run, TxFailed(r) PROVE Guarded'
  <2> USE <1>4, <1>0
  <2>1. Active(r) /\ stray' = stray /\ ~Ward(r)
    BY DEF TxFailed, Active, Ended, Ward, world
  <2> QED  BY <2>1, WardKept
<1>5. ASSUME NEW r \in Run, NEW e \in BOOLEAN, TxBegin(r, e) PROVE Guarded'
  <2> USE <1>5, <1>0
  <2>1. Active(r) /\ stray' = stray /\ pc[r] = "begin"
    BY BeginDoes DEF Active, Ended, world
  <2>2. ASSUME Calm, Calm', Ward(r) PROVE Ward(r)'
    <3>1. ~e
      BY <2>2, NoError DEF TxBegin, Calm, SInv
    <3>2. task[r] = "mark" /\ lease = r /\ file = known[r]
      BY <2>1, <2>2, UnderWay, CalmIsFine DEF Ward, Lone
    <3>3. Holds(r, Expected(r))
      BY <3>2 DEF Holds, Expected, SInv, TypeOK, Files
    <3> QED  BY <3>1, <3>2, <3>3, BeginDoes DEF Ward, Committing
  <2> QED  BY <2>1, <2>2, WardKept
<1>6. ASSUME NEW r \in Run, NEW e \in BOOLEAN, Ready(r, e) PROVE Guarded'
  <2> USE <1>6, <1>0
  <2>1. Active(r) /\ stray' = stray /\ pc[r] = "ready"
    BY DEF Ready, Active, Ended, world
  <2>2. ASSUME Calm, Calm', Ward(r) PROVE Ward(r)'
    <3>1. ~e
      BY <2>2, NoError DEF Ready, Calm, SInv
    <3>2. file[tx[r].at] = tx[r].expect[tx[r].at]
      <4>1. Midway(r)
        BY <2>1, <2>2, UnderWay, CalmIsFine DEF Lone, Committing
      <4>2. tx[r].at \in Path \ tx[r].done
        BY <2>1 DEF SInv, InTx, Sound, Committing, Changed
      <4> QED  BY <2>1, <4>1, <4>2 DEF Midway
    <3>3. pc'[r] \in {"link", "take"} /\ lease' = lease /\ task' = task
      BY <3>1, <3>2 DEF Ready, Step, Goto, SInv, TypeOK
    <3> QED  BY <2>1, <2>2, <3>3 DEF Ward, Committing
  <2> QED  BY <2>1, <2>2, WardKept
<1>7. ASSUME NEW r \in Run, NEW e \in BOOLEAN, Take(r, e) PROVE Guarded'
  <2> USE <1>7, <1>0
  <2>1. Active(r) /\ stray' = stray /\ pc[r] = "take"
    BY DEF Take, Active, Ended, world
  <2>2. ASSUME Calm, Calm', Ward(r) PROVE Ward(r)'
    <3>1. ~e
      BY <2>2, NoError DEF Take, Calm, SInv
    <3>2. file[tx[r].at] # None
      <4>1. Midway(r)
        BY <2>1, <2>2, UnderWay, CalmIsFine DEF Lone, Committing
      <4>2. tx[r].at \in Path \ tx[r].done /\ tx[r].expect[tx[r].at] # None
        BY <2>1 DEF SInv, InTx, Sound, Committing, Changed
      <4> QED  BY <2>1, <4>1, <4>2 DEF Midway
    <3>3. pc'[r] = "link" /\ lease' = lease /\ task' = task
      BY <3>1, <3>2 DEF Take, Step, Goto, SInv, TypeOK
    <3> QED  BY <2>1, <2>2, <3>3 DEF Ward, Committing
  <2> QED  BY <2>1, <2>2, WardKept
<1>8. ASSUME NEW r \in Run, NEW e \in BOOLEAN, Link(r, e) PROVE Guarded'
  <2> USE <1>8, <1>0
  <2>1. Active(r) /\ stray' = stray /\ pc[r] = "link"
    BY DEF Link, Active, Ended, world
  <2>2. ASSUME Calm, Calm', Ward(r) PROVE Ward(r)'
    <3>1. ~e
      BY <2>2, NoError DEF Link, Calm, SInv
    <3>2. file[tx[r].at] = None /\ tx[r].held = tx[r].expect[tx[r].at]
      <4>1. Midway(r)
        BY <2>1, <2>2, UnderWay, CalmIsFine DEF Lone, Committing
      <4>2. tx[r].at \in Path \ tx[r].done
        BY <2>1 DEF SInv, InTx, Sound, Committing, Changed
      <4> QED  BY <2>1, <4>1, <4>2 DEF Midway
    <3>3. Published(r, tx[r].at)
      BY <3>1, <3>2 DEF Link
    <3>4. pc'[r] \in {"check", "ready"} /\ lease' = lease /\ task' = task
      BY <3>3 DEF Published, Step, Goto, SInv, TypeOK
    <3> QED  BY <2>1, <2>2, <3>4 DEF Ward, Committing
  <2> QED  BY <2>1, <2>2, WardKept
<1>9. ASSUME NEW r \in Run, NEW e \in BOOLEAN, TxCheck(r, e) PROVE Guarded'
  <2> USE <1>9, <1>0
  <2>1. Active(r) /\ stray' = stray /\ pc[r] = "check" /\ file' = file
    BY DEF TxCheck, Active, Ended, world
  <2>2. ASSUME Calm, Calm', Ward(r) PROVE Ward(r)'
    <3>1. ~e
      BY <2>2, NoError DEF TxCheck, Calm, SInv
    <3>2. lease = r /\ task[r] = "mark" /\ file = tx[r].goal
      BY <2>1, <2>2, UnderWay, CalmIsFine DEF Lone, Midway, Ward, Committing
    <3>3. Finish(r, TRUE)
      BY <3>1, <3>2 DEF TxCheck, Holds
    <3>4. IsMarker(tx[r].goal.journal)
      BY <2>1, <3>2, GoalsOf DEF Planned, Committing
    <3> QED  BY <2>1, <3>2, <3>3, <3>4, FinishDoes DEF Ward, SInv, IsMarker
  <2> QED  BY <2>1, <2>2, WardKept
<1>10. ASSUME NEW r \in Run, NEW e \in BOOLEAN, TxUndo(r, e) PROVE Guarded'
  <2> USE <1>10, <1>0
  <2>1. Active(r) /\ stray' = stray /\ ~Ward(r)
    BY DEF TxUndo, Active, Ended, Ward, world
  <2> QED  BY <2>1, WardKept
<1>11. ASSUME NEW r \in Run, CommandFails(r) PROVE Guarded'
  BY <1>11, <1>0 DEF SInv, Guarded, Ward, CommandFails, Transact, Goto, Calm, Committing,
     Commands, Ended, TypeOK, Alone, Lone, Fine, Active
<1>12. ASSUME NEW r \in Run, LockAudit(r) PROVE Guarded'
  BY <1>12, <1>0 DEF SInv, Guarded, Ward, LockAudit, Step, Goto, Committing
<1>13. ASSUME NEW r \in Run, StartInstall(r) PROVE Guarded'
  BY <1>13, <1>0 DEF SInv, Guarded, Ward, StartInstall, Step, Goto, Committing
<1>14. ASSUME NEW r \in Run, EndInstall(r) PROVE Guarded'
  BY <1>14, <1>0 DEF SInv, Guarded, Ward, EndInstall, Step, Goto, Committing
<1>15. ASSUME NEW r \in Run, Audit(r) PROVE Guarded'
  BY <1>15, <1>0 DEF SInv, Guarded, Ward, Audit, Step, Goto, Committing
<1>16. ASSUME NEW r \in Run, NEW e \in BOOLEAN, Verify(r, e) PROVE Guarded'
  BY <1>16, <1>0 DEF SInv, Guarded, Ward, Verify, Calm, Committing, Verifying, Ended, Alone, Lone,
     Fine, Active
<1>17. ASSUME NEW r \in Run, Kill(r) PROVE Guarded'
  BY <1>17, <1>0 DEF SInv, Guarded, Ward, Kill, Return, Goto, Calm
<1>18. ASSUME NEW r \in Run, StrayWrite(r) \/ StrayEnds(r) PROVE Guarded'
  BY <1>18, <1>0 DEF SInv, Guarded, StrayWrite, StrayEnds, Ward
<1>19. ASSUME EditLock \/ Reconcile PROVE Guarded'
  BY <1>19, <1>0 DEF SInv, Guarded, EditLock, Reconcile, Calm
<1>20. CASE UNCHANGED vars
  BY <1>20 DEF vars, SInv, Guarded, Calm, Ward
<1> QED  BY <1>1, <1>2, <1>3, <1>4, <1>5, <1>6, <1>7, <1>8, <1>9, <1>10, <1>11, <1>12, <1>13,
   <1>14, <1>15, <1>16, <1>17, <1>18, <1>19, <1>20 DEF Next, Transaction, Installation, Finished

\* The modules stay announced by the journal the run knows.
LEMMA RecordedKept ==
  ASSUME SInv, [Next]_vars
  PROVE  Recorded'
<1> USE DEF process, world
<1>1. ASSUME NEW r \in Run, Acquire(r) PROVE Recorded'
  BY <1>1 DEF SInv, Recorded, Tells, Acquire, Goto, Told, Active
<1>2. ASSUME NEW r \in Run, Snapshot(r) PROVE Recorded'
  <2> USE <1>2
  <2>1. Active(r) /\ \A q \in Run \ {r} : Same(q)
    BY OthersSame DEF SInv, RunStep, Snapshot, Active, Ended
  <2>2. events = {} => Told(file)
    BY <2>1, Single, CalmIsFine DEF Snapshot, SInv, Recorded
  <2>3. /\ file' = file /\ modules' = modules /\ events' = events
        /\ (pc'[r] = "resolve" /\ known'[r] = file) \/ pc'[r] = "ended"
    BY DEF Snapshot, Goto, End, Return, SInv, TypeOK
  <2> QED  BY <2>1, <2>2, <2>3, TellsKept DEF Tells, Told, Active, Ended, Committing
<1>3. ASSUME NEW r \in Run, Resolve(r) PROVE Recorded'
  <2> USE <1>3
  <2>1. Active(r) /\ \A q \in Run \ {r} : Same(q)
    BY OthersSame DEF SInv, RunStep, Resolve, Active, Ended
  <2>2. events = {} => Tells(r) /\ file = known[r]
    BY <2>1, UnderWay, CalmIsFine DEF Resolve, Lone, Committing
  <2>3. /\ file' = file /\ modules' = modules /\ events' = events
        /\ pc'[r] = "ended" \/ (pc'[r] = "begin" /\ known' = known /\ task'[r] \in {"publish", "mark"})
    BY DEF Resolve, Goto, End, Return, Transact, SInv, TypeOK
  <2> QED  BY <2>1, <2>2, <2>3, TellsKept DEF Tells, Told, Active, Ended, Committing
<1>4. ASSUME NEW r \in Run, TxFailed(r) PROVE Recorded'
  BY <1>4, UndoneKnown, FailTells DEF TxFailed, Active, Ended, Committing
<1>5. ASSUME NEW r \in Run, NEW e \in BOOLEAN, TxBegin(r, e) PROVE Recorded'
  <2> USE <1>5
  <2>1. Active(r) /\ pc[r] \in Committing /\ pc[r] = "begin"
    BY BeginDoes DEF Active, Ended, Committing
  <2>2. UNCHANGED <<file, modules, events>> /\ (Fine => file = known[r])
    BY <2>1, BeginDoes, UnderWay DEF Lone
  <2>3. CASE Finish(r, FALSE)
    BY <2>1, <2>2, <2>3, FailTells
  <2>4. CASE ~Finish(r, FALSE)
    <3>1. \A q \in Run \ {r} : Same(q)
      BY OthersSame DEF SInv, RunStep, Transaction
    <3>2. pc'[r] = "ready" /\ task' = task /\ known' = known
      BY <2>4, BeginDoes
    <3> QED  BY <2>1, <2>2, <3>1, <3>2, UnderWay, TellsKept DEF Tells, Told, Active, Ended, Committing
  <2> QED  BY <2>3, <2>4
<1>6. ASSUME NEW r \in Run, NEW e \in BOOLEAN, Ready(r, e) PROVE Recorded'
  BY <1>6 DEF SInv, Recorded, Tells, Ready, Step, Goto, Told, Active, Committing, Ended
<1>7. ASSUME NEW r \in Run, NEW e \in BOOLEAN, Take(r, e) PROVE Recorded'
  <2> USE <1>7
  <2>1. Active(r) /\ \A q \in Run \ {r} : Same(q)
    BY OthersSame DEF SInv, RunStep, Transaction, Take, Active, Ended
  <2>2. /\ pc[r] = "take" /\ pc'[r] \in {"undo", "link"} /\ task' = task /\ known' = known
        /\ modules' = modules /\ events' = events
    BY DEF Take, Step, Goto, SInv, TypeOK
  <2> QED  BY <2>1, <2>2, UnderWay, TellsKept DEF Tells, Told, Active, Ended, Committing
<1>8. ASSUME NEW r \in Run, NEW e \in BOOLEAN, Link(r, e) PROVE Recorded'
  <2> USE <1>8
  <2>1. Active(r) /\ \A q \in Run \ {r} : Same(q)
    BY OthersSame DEF SInv, RunStep, Transaction, Link, Active, Ended
  <2>2. /\ pc[r] = "link" /\ pc'[r] \in {"undo", "check", "ready"} /\ task' = task /\ known' = known
        /\ modules' = modules /\ events \subseteq events'
    BY DEF Link, Published, PutBack, Step, Goto, SInv, TypeOK
  <2> QED  BY <2>1, <2>2, UnderWay, TellsKept DEF Tells, Told, Active, Ended, Committing
<1>9. ASSUME NEW r \in Run, NEW e \in BOOLEAN, TxCheck(r, e) PROVE Recorded'
  <2> USE <1>9
  <2>1. Active(r) /\ \A q \in Run \ {r} : Same(q)
    BY OthersSame DEF SInv, RunStep, Transaction, TxCheck, Active, Ended
  <2>2. pc[r] = "check" /\ modules' = modules /\ events' = events /\ file' = file
    BY DEF TxCheck
  <2>3. CASE Step(r, "undo")
    <3>1. pc'[r] = "undo" /\ task' = task /\ known' = known
      BY <2>3 DEF Step, Goto, SInv, TypeOK
    <3> QED  BY <2>1, <2>2, <3>1, UnderWay, TellsKept DEF Tells, Told, Active, Ended, Committing
  <2>4. CASE Finish(r, TRUE)
    <3>1. events = {} => Tells(r) /\ tx[r].expect = known[r] /\ file = tx[r].goal
      BY <2>1, <2>2, UnderWay, CalmIsFine DEF Lone, Midway, Committing
    <3>2. Planned(r, task[r], tx[r].expect.journal, tx[r].goal.journal)
      BY <2>2, GoalsOf DEF Committing
    <3>3. events = {} => Told(tx[r].goal)
      <4>1. CASE task[r] = "clear"
        <5>1. tx[r].goal.lock = tx[r].expect.lock
          BY <2>2, <4>1 DEF SInv, InTx, Sound, Committing, Goals, Wants, TypeOK, Tx, Files
        <5> QED  BY <2>2, <3>1, <4>1, <5>1 DEF Tells, Told, Committing
      <4>2. CASE task[r] # "clear"
        BY <3>2, <4>2, SecurityAssumption DEF Planned, Told
      <4> QED  BY <4>1, <4>2
    <3>4. /\ pc'[r] # "snapshot" /\ pc'[r] \notin Committing /\ pc'[r] # "final"
          /\ Active(r)' => known'[r] = tx[r].goal
      BY <2>4, FinishDoes DEF SInv, Active, Ended, Committing
    <3> QED  BY <2>1, <2>2, <3>1, <3>3, <3>4, TellsKept DEF Tells, Told
  <2> QED  BY <2>3, <2>4 DEF TxCheck
<1>10. ASSUME NEW r \in Run, NEW e \in BOOLEAN, TxUndo(r, e) PROVE Recorded'
  BY <1>10 DEF SInv, Recorded, Tells, TxUndo, Told, Active, Ended
<1>11. ASSUME NEW r \in Run, CommandFails(r) PROVE Recorded'
  BY <1>11 DEF SInv, Recorded, Tells, CommandFails, Transact, Goto, Told, Active, Commands, Ended,
     TypeOK
<1>12. ASSUME NEW r \in Run, LockAudit(r) PROVE Recorded'
  BY <1>12 DEF SInv, Recorded, Tells, LockAudit, Step, Goto, Told, Active, Committing, Ended
<1>13. ASSUME NEW r \in Run, StartInstall(r) PROVE Recorded'
  BY <1>13 DEF SInv, Recorded, Tells, StartInstall, Step, Goto, Told, Active, Committing, Ended,
     KnownJournal, Installed, Alone, Lone, Fine
<1>14. ASSUME NEW r \in Run, EndInstall(r) PROVE Recorded'
  BY <1>14 DEF SInv, Recorded, Tells, EndInstall, Step, Goto, Told, Active, Committing, Ended,
     Alone, Lone, Fine
<1>15. ASSUME NEW r \in Run, Audit(r) PROVE Recorded'
  BY <1>15 DEF SInv, Recorded, Tells, Audit, Step, Goto, Told, Active, Committing, Ended, Alone,
     Lone, Fine
<1>16. ASSUME NEW r \in Run, NEW e \in BOOLEAN, Verify(r, e) PROVE Recorded'
  <2> USE <1>16
  <2>1. Active(r) /\ \A q \in Run \ {r} : Same(q)
    BY OthersSame DEF SInv, RunStep, Installation, Verify, Verifying, Active, Ended
  <2>2. /\ pc[r] \in Verifying /\ known' = known /\ modules' = modules /\ events' = events
        /\ \/ pc'[r] \in {"lockAudit", "audit"}
           \/ pc'[r] = "begin" /\ (task'[r] = "fail" \/ (task'[r] = "clear" /\ pc[r] = "final"))
    BY DEF Verify, Verifying, Step, Transact, Goto, SInv, TypeOK
  <2> QED  BY <2>1, <2>2, UnderWay, TellsKept DEF Tells, Told, Active, Ended, Verifying, Committing
<1>17. ASSUME NEW r \in Run, Kill(r) PROVE Recorded'
  BY <1>17 DEF SInv, Recorded, Tells, Kill, Return, Goto, Told, Active, Ended, TypeOK, Alone,
     Lone, Fine
<1>18. ASSUME NEW r \in Run, StrayWrite(r) \/ StrayEnds(r) PROVE Recorded'
  BY <1>18 DEF SInv, Recorded, StrayWrite, StrayEnds, Tells, Told, Active
<1>19. ASSUME EditLock \/ Reconcile PROVE Recorded'
  BY <1>19 DEF SInv, Recorded, EditLock, Reconcile
<1>20. CASE UNCHANGED vars
  BY <1>20 DEF vars, SInv, Recorded, Told, Tells, Active
<1> QED  BY <1>1, <1>2, <1>3, <1>4, <1>5, <1>6, <1>7, <1>8, <1>9, <1>10, <1>11, <1>12, <1>13,
   <1>14, <1>15, <1>16, <1>17, <1>18, <1>19, <1>20 DEF Next, Transaction, Installation, Finished

\* The journal a run may leave stays one that can be read.
LEMMA ReadableKept ==
  ASSUME SInv, [Next]_vars
  PROVE  Readable'
<1> USE DEF process, world
<1>1. ASSUME NEW r \in Run, Acquire(r) PROVE Readable'
  BY <1>1 DEF SInv, Readable, Mild, Acquire, Goto, Active
<1>2. ASSUME NEW r \in Run, Snapshot(r) PROVE Readable'
  BY <1>2 DEF SInv, Readable, Mild, Snapshot, Goto, End, Return, Retriable, Active, TypeOK, Empty
<1>3. ASSUME NEW r \in Run, Resolve(r) PROVE Readable'
  <2> USE <1>3
  <2>1. Active(r) /\ \A q \in Run \ {r} : Same(q)
    BY OthersSame DEF SInv, RunStep, Resolve, Active, Ended
  <2>2. Mild => Retriable(known[r]) /\ file = known[r]
    BY <2>1, UnderWay, CalmIsFine DEF Resolve, Lone, Committing
  <2>3. file' = file /\ events' = events /\ pc'[r] \in {"ended", "begin"} /\ (pc'[r] = "begin" => known' = known)
    BY DEF Resolve, Goto, End, Return, Transact, SInv, TypeOK
  <2> QED  BY <2>1, <2>2, <2>3, ReadsKept DEF Mild, Active, Ended
<1>4. ASSUME NEW r \in Run, TxFailed(r) PROVE Readable'
  BY <1>4, UndoneKnown, FailTells DEF TxFailed, Active, Ended, Committing
<1>5. ASSUME NEW r \in Run, NEW e \in BOOLEAN, TxBegin(r, e) PROVE Readable'
  <2> USE <1>5
  <2>1. Active(r) /\ pc[r] \in Committing /\ pc[r] = "begin"
    BY BeginDoes DEF Active, Ended, Committing
  <2>2. UNCHANGED <<file, modules, events>> /\ (Fine => file = known[r])
    BY <2>1, BeginDoes, UnderWay DEF Lone
  <2>3. CASE Finish(r, FALSE)
    BY <2>1, <2>2, <2>3, FailTells
  <2>4. CASE ~Finish(r, FALSE)
    <3>1. \A q \in Run \ {r} : Same(q)
      BY OthersSame DEF SInv, RunStep, Transaction
    <3>2. pc'[r] = "ready" /\ known' = known
      BY <2>4, BeginDoes
    <3> QED  BY <2>1, <2>2, <3>1, <3>2, UnderWay, ReadsKept DEF Mild, Active, Ended
  <2> QED  BY <2>3, <2>4
<1>6. ASSUME NEW r \in Run, NEW e \in BOOLEAN, Ready(r, e) PROVE Readable'
  BY <1>6 DEF SInv, Readable, Mild, Ready, Step, Goto, Active, Ended
<1>7. ASSUME NEW r \in Run, NEW e \in BOOLEAN, Take(r, e) PROVE Readable'
  <2> USE <1>7
  <2>1. Active(r) /\ \A q \in Run \ {r} : Same(q)
    BY OthersSame DEF SInv, RunStep, Transaction, Take, Active, Ended
  <2>2. pc[r] = "take" /\ pc'[r] \in {"undo", "link"} /\ known' = known /\ events' = events
    BY DEF Take, Step, Goto, SInv, TypeOK
  <2> QED  BY <2>1, <2>2, UnderWay, ReadsKept DEF Mild, Active, Ended
<1>8. ASSUME NEW r \in Run, NEW e \in BOOLEAN, Link(r, e) PROVE Readable'
  <2> USE <1>8
  <2>1. Active(r) /\ \A q \in Run \ {r} : Same(q)
    BY OthersSame DEF SInv, RunStep, Transaction, Link, Active, Ended
  <2>2. pc[r] = "link" /\ pc'[r] \in {"undo", "check", "ready"} /\ known' = known /\ events \subseteq events'
    BY DEF Link, Published, PutBack, Step, Goto, SInv, TypeOK
  <2> QED  BY <2>1, <2>2, UnderWay, ReadsKept DEF Mild, Active, Ended
<1>9. ASSUME NEW r \in Run, NEW e \in BOOLEAN, TxCheck(r, e) PROVE Readable'
  <2> USE <1>9
  <2>1. Active(r) /\ \A q \in Run \ {r} : Same(q)
    BY OthersSame DEF SInv, RunStep, Transaction, TxCheck, Active, Ended
  <2>2. pc[r] = "check" /\ events' = events /\ file' = file
    BY DEF TxCheck
  <2>3. CASE Step(r, "undo")
    <3>1. pc'[r] = "undo" /\ known' = known
      BY <2>3 DEF Step, Goto, SInv, TypeOK
    <3> QED  BY <2>1, <2>2, <3>1, UnderWay, ReadsKept DEF Mild, Active, Ended
  <2>4. CASE Finish(r, TRUE)
    <3> DEFINE x == tx[r].expect
               g == tx[r].goal
    <3>1. Mild => Retriable(x) /\ file = g
      BY <2>1, <2>2, UnderWay, CalmIsFine DEF Lone, Midway, Committing
    <3>2. Planned(r, task[r], x.journal, g.journal) /\ Goals(r) /\ x \in Files /\ g \in Files
      BY <2>2, GoalsOf DEF Committing, SInv, InTx, Sound, TypeOK, Tx
    <3>3. Retriable(x) => Retriable(g) \/ (task[r] = "mark" /\ IsMarker(g.journal))
      <4>1. CASE task[r] = "publish"
        BY <3>2, <4>1 DEF Goals, Wants, Installing, Retriable, IsMarker
      <4>2. CASE task[r] = "fail"
        <5>1. g = [x EXCEPT !.journal.status = "FAILED"] /\ x.journal \in Journal
          BY <3>2, <4>2 DEF Goals, Wants, Planned
        <5>2. g.lock = x.lock /\ g.journal.after = x.journal.after
          BY <3>2, <5>1 DEF Files, Journal
        <5> QED  BY <3>2, <4>2, <5>1, <5>2, SecurityAssumption DEF Planned, Retriable, IsMarker
      <4>3. CASE task[r] = "mark"
        BY <3>2, <4>3 DEF Planned
      <4>4. CASE task[r] = "clear"
        BY <3>2, <4>4 DEF Planned, Retriable
      <4> QED  BY <3>2, <4>1, <4>2, <4>3, <4>4 DEF Planned
    <3>4. /\ pc'[r] # "snapshot"
          /\ Active(r)' => known'[r] = g /\ task[r] = "publish"
      BY <2>4, FinishDoes DEF SInv, Active, Ended
    <3> QED  BY <2>1, <2>2, <3>1, <3>3, <3>4, ReadsKept DEF Mild
  <2> QED  BY <2>3, <2>4 DEF TxCheck
<1>10. ASSUME NEW r \in Run, NEW e \in BOOLEAN, TxUndo(r, e) PROVE Readable'
  BY <1>10 DEF SInv, Readable, Mild, TxUndo, Active, Ended
<1>11. ASSUME NEW r \in Run, CommandFails(r) PROVE Readable'
  <2> USE <1>11
  <2>1. Active(r) /\ \A q \in Run \ {r} : Same(q)
    BY OthersSame DEF SInv, RunStep, Installation, CommandFails, Commands, Active, Ended
  <2>2. pc[r] \in Commands /\ pc'[r] = "begin" /\ known' = known /\ events' = events
    BY DEF CommandFails, Commands, Transact, Goto, SInv, TypeOK
  <2> QED  BY <2>1, <2>2, UnderWay, ReadsKept DEF Mild, Active, Ended, Commands
<1>12. ASSUME NEW r \in Run, LockAudit(r) PROVE Readable'
  BY <1>12 DEF SInv, Readable, Mild, LockAudit, Step, Goto, Active, Ended
<1>13. ASSUME NEW r \in Run, StartInstall(r) PROVE Readable'
  BY <1>13 DEF SInv, Readable, Mild, StartInstall, Step, Goto, Active, Ended
<1>14. ASSUME NEW r \in Run, EndInstall(r) PROVE Readable'
  BY <1>14 DEF SInv, Readable, Mild, EndInstall, Step, Goto, Active, Ended
<1>15. ASSUME NEW r \in Run, Audit(r) PROVE Readable'
  BY <1>15 DEF SInv, Readable, Mild, Audit, Step, Goto, Active, Ended
<1>16. ASSUME NEW r \in Run, NEW e \in BOOLEAN, Verify(r, e) PROVE Readable'
  <2> USE <1>16
  <2>1. Active(r) /\ \A q \in Run \ {r} : Same(q)
    BY OthersSame DEF SInv, RunStep, Installation, Verify, Verifying, Active, Ended
  <2>2. pc[r] \in Verifying /\ known' = known /\ events' = events /\ pc'[r] \in {"lockAudit", "audit", "begin"}
    BY DEF Verify, Verifying, Step, Transact, Goto, SInv, TypeOK
  <2> QED  BY <2>1, <2>2, UnderWay, ReadsKept DEF Mild, Active, Ended, Verifying
<1>17. ASSUME NEW r \in Run, Kill(r) PROVE Readable'
  BY <1>17 DEF SInv, Readable, Mild, Kill, Return, Goto, Active, Ended, TypeOK, Alone, Lone, Fine
<1>18. ASSUME NEW r \in Run, StrayWrite(r) \/ StrayEnds(r) PROVE Readable'
  BY <1>18 DEF SInv, Readable, StrayWrite, StrayEnds, Mild, Active
<1>19. ASSUME EditLock \/ Reconcile PROVE Readable'
  BY <1>19 DEF SInv, Readable, EditLock, Reconcile, Mild
<1>20. CASE UNCHANGED vars
  BY <1>20 DEF vars, SInv, Readable, Mild, Active
<1> QED  BY <1>1, <1>2, <1>3, <1>4, <1>5, <1>6, <1>7, <1>8, <1>9, <1>10, <1>11, <1>12, <1>13,
   <1>14, <1>15, <1>16, <1>17, <1>18, <1>19, <1>20 DEF Next, Transaction, Installation, Finished

\* Wherever a marker is taken, it is put back or stays in a container.
LEMMA StillKept ==
  ASSUME SInv, [Next]_vars
  PROVE  Kept'
<1> USE DEF process, world
<1>1. ASSUME NEW r \in Run, Acquire(r) \/ Snapshot(r) \/ Resolve(r) PROVE Kept'
  BY <1>1 DEF SInv, Kept, Acquire, Snapshot, Resolve, Goto, End, Return, TypeOK, Transact
<1>2. ASSUME NEW r \in Run, TxFailed(r) PROVE Kept'
  BY <1>2, FinishKept DEF TxFailed
<1>3. ASSUME NEW r \in Run, NEW e \in BOOLEAN, TxBegin(r, e) PROVE Kept'
  <2> USE <1>3
  <2>1. CASE Finish(r, FALSE)
    BY <2>1, BeginDoes, FinishKept
  <2>2. CASE ~Finish(r, FALSE)
    <3>1. \A q \in Run \ {r} : Same(q)
      BY OthersSame DEF SInv, RunStep, Transaction
    <3>2. pc[r] = "begin" /\ file' = file /\ marked' = marked /\ orphans' = orphans
      BY <2>2, BeginDoes
    <3> QED  BY <3>1, <3>2 DEF SInv, Kept, Same
  <2> QED  BY <2>1, <2>2
<1>4. ASSUME NEW r \in Run, NEW e \in BOOLEAN, Ready(r, e) PROVE Kept'
  BY <1>4 DEF SInv, Kept, Ready, Step, Goto
<1>5. ASSUME NEW r \in Run, NEW e \in BOOLEAN, Take(r, e) PROVE Kept'
  BY <1>5 DEF SInv, Kept, Take, Io, Step, Goto, TypeOK, KnownJournal, Marked, At, Out, Files, Tx
<1>6. ASSUME NEW r \in Run, NEW e \in BOOLEAN, Link(r, e) PROVE Kept'
  <2> USE <1>6
  <2> USE SecurityAssumption DEF SInv
  <2>1. \A q \in Run \ {r} : Same(q)
    BY OthersSame DEF RunStep, Transaction
  <2>2. tx \in [Run -> Tx] /\ file \in Files /\ tx[r].at \in Path /\ pc[r] = "link" /\ marked' = marked
        /\ marked \subseteq Journal /\ tx[r].goal \in Files
    BY DEF Link, TypeOK, Tx
  <2>3. CASE /\ Published(r, tx[r].at) /\ tx[r].held = tx[r].expect[tx[r].at]
             /\ (tx[r].goal[tx[r].at] # None => file[tx[r].at] = None)
    <3>1. orphans' = orphans /\ \A m \in marked : m = file.journal => m = file'.journal
      BY <2>2, <2>3 DEF Published, Files, Path
    <3>2. tx[r].at = "journal" => tx[r].held \notin marked
      <4>1. ~IsMarker(tx[r].expect.journal)
        BY <2>2, GoalsOf DEF Planned, Committing
      <4> QED  BY <2>3, <4>1 DEF Marked
    <3> QED  BY <2>1, <2>2, <3>1, <3>2 DEF Kept, Same
  <2>4. CASE PutBack(r, tx[r].at, e)
    <3>1. CASE tx[r].at = "journal"
      <4>1. \A m \in marked : m = tx[r].held => m = file'.journal \/ m \in orphans'
        BY <2>2, <2>4, <3>1 DEF PutBack, Files, Path
      <4>2. \A m \in marked : m = file.journal => m = file'.journal
        BY <2>2, <2>4, <3>1 DEF PutBack, Files
      <4> QED  BY <2>1, <2>2, <2>4, <4>1, <4>2 DEF Kept, Same, PutBack
    <3>2. CASE tx[r].at = "lock"
      <4>1. file'.journal = file.journal /\ orphans \subseteq orphans'
        BY <2>2, <2>4, <3>2 DEF PutBack, Files
      <4> QED  BY <2>1, <2>2, <3>2, <4>1 DEF Kept, Same
    <3> QED  BY <2>2, <3>1, <3>2 DEF Path
  <2> QED  BY <2>3, <2>4 DEF Link
<1>7. ASSUME NEW r \in Run, NEW e \in BOOLEAN, TxCheck(r, e) PROVE Kept'
  <2> USE <1>7
  <2>1. CASE Finish(r, TRUE) /\ Holds(r, tx[r].goal)
    BY <2>1, FinishKept DEF TxCheck, Holds
  <2>2. CASE Step(r, "undo") /\ UNCHANGED <<tx, marked>>
    <3>1. \A q \in Run \ {r} : Same(q)
      BY OthersSame DEF SInv, RunStep, Transaction
    <3> QED  BY <2>2, <3>1 DEF TxCheck, SInv, Kept, Same
  <2> QED  BY <2>1, <2>2 DEF TxCheck
<1>8. ASSUME NEW r \in Run, NEW e \in BOOLEAN, TxUndo(r, e) PROVE Kept'
  BY <1>8 DEF SInv, Kept, TxUndo, Marked, IsMarker, Keeps, Made
<1>9. ASSUME NEW r \in Run, CommandFails(r) PROVE Kept'
  BY <1>9 DEF SInv, Kept, CommandFails, Transact, Goto, TypeOK, Commands
<1>10. ASSUME NEW r \in Run, LockAudit(r) PROVE Kept'
  BY <1>10 DEF SInv, Kept, LockAudit, Step, Goto
<1>11. ASSUME NEW r \in Run, StartInstall(r) PROVE Kept'
  BY <1>11 DEF SInv, Kept, StartInstall, Step, Goto
<1>12. ASSUME NEW r \in Run, EndInstall(r) PROVE Kept'
  BY <1>12 DEF SInv, Kept, EndInstall, Step, Goto
<1>13. ASSUME NEW r \in Run, Audit(r) PROVE Kept'
  BY <1>13 DEF SInv, Kept, Audit, Step, Goto
<1>14. ASSUME NEW r \in Run, NEW e \in BOOLEAN, Verify(r, e) PROVE Kept'
  <2> USE <1>14
  <2>1. \A q \in Run \ {r} : Same(q)
    BY OthersSame DEF SInv, RunStep, Installation
  <2>2. pc[r] # "link" /\ file' = file /\ marked' = marked /\ orphans' = orphans
    BY DEF Verify, Verifying
  <2> QED  BY <2>1, <2>2 DEF SInv, Kept, Same
<1>15. ASSUME NEW r \in Run, Kill(r) PROVE Kept'
  BY <1>15 DEF SInv, Kept, Kill, Return, Goto, TypeOK
<1>16. ASSUME NEW r \in Run, StrayWrite(r) \/ StrayEnds(r) PROVE Kept'
  BY <1>16 DEF SInv, Kept, StrayWrite, StrayEnds
<1>17. ASSUME EditLock PROVE Kept'
  BY <1>17 DEF SInv, Kept, EditLock
<1>18. ASSUME Reconcile PROVE Kept'
  BY <1>18 DEF SInv, Kept, Reconcile
<1>19. CASE UNCHANGED vars
  BY <1>19 DEF vars, SInv, Kept
<1> QED  BY <1>1, <1>2, <1>3, <1>4, <1>5, <1>6, <1>7, <1>8, <1>9, <1>10, <1>11, <1>12, <1>13,
   <1>14, <1>15, <1>16, <1>17, <1>18, <1>19 DEF Next, Transaction, Installation, Finished

\* No run goes back to where no journal of it was written.
LEMMA RunsAge ==
  ASSUME SInv, [Next]_vars
  PROVE  Ages
<1> USE DEF process, world
<1>1. ASSUME NEW r \in Run, Acquire(r) \/ Snapshot(r) \/ Resolve(r) PROVE Ages
  BY <1>1 DEF SInv, Ages, Acquire, Snapshot, Resolve, Goto, Unborn, Keeps, End, Return, TypeOK,
     Transact
<1>2. ASSUME NEW r \in Run, TxFailed(r) PROVE Ages
  BY <1>2, FinishAges DEF TxFailed
<1>3. ASSUME NEW r \in Run, NEW e \in BOOLEAN, TxBegin(r, e) PROVE Ages
  <2> USE <1>3
  <2>1. CASE Finish(r, FALSE)
    BY <2>1, FinishAges
  <2>2. CASE ~Finish(r, FALSE)
    <3>1. \A q \in Run \ {r} : Same(q)
      BY OthersSame DEF SInv, RunStep, Transaction
    <3>2. pc[r] = "begin" /\ pc'[r] = "ready" /\ task' = task /\ known' = known
      BY <2>2, BeginDoes
    <3>3. ~Keeps(r)
      BY <3>2 DEF SInv, InTx, Sound, Keeps, NoTx
    <3> QED  BY <3>1, <3>2, <3>3 DEF Ages, Unborn, Same, Keeps, Committing
  <2> QED  BY <2>1, <2>2
<1>4. ASSUME NEW r \in Run, NEW e \in BOOLEAN, Ready(r, e) PROVE Ages
  BY <1>4 DEF SInv, Ages, Ready, Step, Goto, Unborn, Keeps, Committing
<1>5. ASSUME NEW r \in Run, NEW e \in BOOLEAN, Take(r, e) PROVE Ages
  BY <1>5 DEF SInv, Ages, Take, Step, Goto, Unborn, Keeps, Committing, TypeOK, Tx
<1>6. ASSUME NEW r \in Run, NEW e \in BOOLEAN, Link(r, e) PROVE Ages
  BY <1>6 DEF SInv, Ages, Link, Published, PutBack, Step, Goto, Unborn, Keeps, TypeOK, InTx,
     Sound, Tx, NoTx
<1>7. ASSUME NEW r \in Run, NEW e \in BOOLEAN, TxCheck(r, e) PROVE Ages
  <2> USE <1>7
  <2>1. CASE Finish(r, TRUE)
    BY <2>1, FinishAges
  <2>2. CASE Step(r, "undo") /\ UNCHANGED <<tx, marked>>
    BY <2>2 DEF Step, Goto, Ages, Unborn, Keeps, Committing, SInv, TypeOK
  <2> QED  BY <2>1, <2>2 DEF TxCheck
<1>8. ASSUME NEW r \in Run, NEW e \in BOOLEAN, TxUndo(r, e) PROVE Ages
  BY <1>8 DEF SInv, Ages, TxUndo, Unborn, Keeps
<1>9. ASSUME NEW r \in Run, CommandFails(r) PROVE Ages
  <2> USE <1>9
  <2>1. \A q \in Run \ {r} : Same(q)
    BY OthersSame DEF SInv, RunStep, Installation
  <2>2. /\ pc'[r] = "begin" /\ known' = known /\ pc[r] \in Installed /\ task'[r] \in {"fail", "mark"}
    BY DEF CommandFails, Commands, Installed, Transact, Goto, SInv, TypeOK
  <2>3. known[r].journal # None /\ known[r].journal.op = r
    BY <2>2 DEF SInv, KnownJournal
  <2> QED  BY <2>1, <2>2, <2>3 DEF Ages, Unborn, Same, Keeps
<1>10. ASSUME NEW r \in Run, LockAudit(r) PROVE Ages
  BY <1>10 DEF SInv, Ages, LockAudit, Step, Goto, Unborn, Keeps, Committing
<1>11. ASSUME NEW r \in Run, StartInstall(r) PROVE Ages
  BY <1>11 DEF SInv, Ages, StartInstall, Step, Goto, Unborn, Keeps, Committing
<1>12. ASSUME NEW r \in Run, EndInstall(r) PROVE Ages
  BY <1>12 DEF SInv, Ages, EndInstall, Step, Goto, Unborn, Keeps, Committing
<1>13. ASSUME NEW r \in Run, Audit(r) PROVE Ages
  BY <1>13 DEF SInv, Ages, Audit, Step, Goto, Unborn, Keeps, Committing
<1>14. ASSUME NEW r \in Run, NEW e \in BOOLEAN, Verify(r, e) PROVE Ages
  <2> USE <1>14
  <2>1. \A q \in Run \ {r} : Same(q)
    BY OthersSame DEF SInv, RunStep, Installation
  <2>2. pc'[r] \in Installed \/ (pc'[r] = "begin" /\ task'[r] \in {"fail", "clear"})
    BY DEF Verify, SInv, TypeOK, Step, Transact, Goto, Installed, Verifying
  <2> QED  BY <2>1, <2>2 DEF Ages, Unborn, Same, Keeps, Installed, Verifying, Committing
<1>15. ASSUME NEW r \in Run, Kill(r) PROVE Ages
  BY <1>15 DEF SInv, Ages, Kill, Return, Goto, Unborn, Keeps, Committing, TypeOK
<1>16. ASSUME NEW r \in Run, StrayWrite(r) \/ StrayEnds(r) PROVE Ages
  BY <1>16 DEF SInv, Ages, StrayWrite, StrayEnds, Unborn, Keeps
<1>17. ASSUME EditLock \/ Reconcile PROVE Ages
  BY <1>17 DEF SInv, Ages, EditLock, Reconcile, Unborn, Keeps
<1>18. CASE UNCHANGED vars
  BY <1>18 DEF vars, Ages, Unborn, Keeps
<1> QED  BY <1>1, <1>2, <1>3, <1>4, <1>5, <1>6, <1>7, <1>8, <1>9, <1>10, <1>11, <1>12, <1>13,
   <1>14, <1>15, <1>16, <1>17, <1>18 DEF Next, Transaction, Installation, Finished

\* Journals vanish or move, or a transaction writes, restores or commits one.
LEMMA JournalsGo ==
  ASSUME SInv, [Next]_vars
  PROVE  Fades \/ Moves \/ \E q \in Run : Writes(q) \/ Restores(q) \/ Commits(q)
<1> USE DEF process, world
<1>1. ASSUME NEW r \in Run, Acquire(r) \/ Snapshot(r) \/ Resolve(r) PROVE Fades
  BY <1>1 DEF SInv, Fades, Acquire, Snapshot, Resolve, Goto, At, Keeps, Renews, Made, Floor, Out,
     Place, InTx, Sound, Committing
<1>2. ASSUME NEW r \in Run, TxFailed(r) PROVE Fades
  BY <1>2 DEF SInv, Fades, TxFailed, Finish, Place, At, Keeps, Renews, Made, Floor, Out, InTx,
     Sound, NoTx
<1>3. ASSUME NEW r \in Run, NEW e \in BOOLEAN, TxBegin(r, e) PROVE Fades
  <2> USE <1>3
  <2>1. CASE Finish(r, FALSE)
    BY <2>1, BeginDoes, FinishFades
  <2>2. CASE ~Finish(r, FALSE)
    <3>1. \A q \in Run \ {r} : Same(q)
      BY OthersSame DEF SInv, RunStep, Transaction
    <3>2. pc[r] = "begin" /\ pc'[r] = "ready" /\ file' = file /\ marked' = marked /\ tx'[r].done = {}
      BY <2>2, BeginDoes
    <3>3. \A q \in Run \ {r} : At(q)' = At(q) /\ Made(q)' = Made(q) /\ tx'[q].goal = tx[q].goal /\ Floor(q)' = Floor(q)
      BY <3>1, SecurityAssumption DEF Same, At, Out, Made, Keeps, Floor, Renews, Rank
    <3>4. At(r)' = None /\ ~Made(r)'
      BY <3>2, SecurityAssumption DEF At, Out, Made, Keeps
    <3>5. At(None)' = At(None)
      BY <3>2 DEF At
    <3> QED  BY <3>2, <3>3, <3>4, <3>5 DEF Fades, Place
  <2> QED  BY <2>1, <2>2
<1>4. ASSUME NEW r \in Run, NEW e \in BOOLEAN, Ready(r, e) PROVE Fades
  BY <1>4 DEF SInv, Fades, Ready, Place, At, Keeps, Renews, Made, Floor, Out, InTx, Sound,
     Committing
<1>5. ASSUME NEW r \in Run, NEW e \in BOOLEAN, Take(r, e) PROVE Fades \/ Moves
  BY <1>5, TakeMoves
<1>6. ASSUME NEW r \in Run, NEW e \in BOOLEAN, Link(r, e) PROVE Fades \/ Moves \/ Writes(r)
  BY <1>6, LinkMoves
<1>7. ASSUME NEW r \in Run, NEW e \in BOOLEAN, TxCheck(r, e) PROVE Fades \/ Commits(r)
  BY <1>7, CheckMoves
<1>8. ASSUME NEW r \in Run, NEW e \in BOOLEAN, TxUndo(r, e) PROVE Fades \/ Moves \/ Restores(r)
  BY <1>8, UndoMoves
<1>9. ASSUME NEW r \in Run, CommandFails(r) PROVE Fades
  BY <1>9 DEF SInv, Fades, CommandFails, Place, At, Keeps, Renews, Made, Floor, Out, InTx, Sound,
     Committing
<1>10. ASSUME NEW r \in Run, LockAudit(r) PROVE Fades
  BY <1>10 DEF SInv, Fades, LockAudit, Step, Goto, At, Keeps, Renews, Made, Floor, Out
<1>11. ASSUME NEW r \in Run, StartInstall(r) PROVE Fades
  BY <1>11 DEF SInv, Fades, StartInstall, Step, Goto, At, Keeps, Renews, Made, Floor, Out
<1>12. ASSUME NEW r \in Run, EndInstall(r) PROVE Fades
  BY <1>12 DEF SInv, Fades, EndInstall, Step, Goto, At, Keeps, Renews, Made, Floor, Out
<1>13. ASSUME NEW r \in Run, Audit(r) PROVE Fades
  BY <1>13 DEF SInv, Fades, Audit, Step, Goto, At, Keeps, Renews, Made, Floor, Out
<1>14. ASSUME NEW r \in Run, NEW e \in BOOLEAN, Verify(r, e) PROVE Fades
  BY <1>14 DEF SInv, Fades, Verify, Place, At, Keeps, Renews, Made, Floor, Out, InTx, Sound,
     Committing
<1>15. ASSUME NEW r \in Run, Kill(r) PROVE Fades
  BY <1>15 DEF SInv, Fades, Kill, Place, At, Keeps, Renews, Made, Floor, Out, InTx, Sound, NoTx
<1>16. ASSUME NEW r \in Run, StrayWrite(r) \/ StrayEnds(r) PROVE Fades
  BY <1>16 DEF SInv, Fades, StrayWrite, StrayEnds, At, Keeps, Renews, Made, Floor, Out
<1>17. ASSUME EditLock PROVE Fades
  BY <1>17 DEF SInv, Fades, EditLock, At, Keeps, Renews, Made, Floor, Out
<1>18. ASSUME Reconcile PROVE Fades
  BY <1>18 DEF SInv, Fades, Reconcile, At, Keeps, Renews, Made, Floor, Out
<1>19. CASE UNCHANGED vars
  BY <1>19 DEF vars, SInv, Fades, Place, At, Out, Made, Keeps, Floor, Renews
<1> QED  BY <1>1, <1>2, <1>3, <1>4, <1>5, <1>6, <1>7, <1>8, <1>9, <1>10, <1>11, <1>12, <1>13,
   <1>14, <1>15, <1>16, <1>17, <1>18, <1>19 DEF Next, Transaction, Installation, Finished

\* Whatever moves them, the journals of an operation go forwards, and a marker
\* is the last.
LEMMA JournalsKept ==
  ASSUME SInv, [Next]_vars
  PROVE  OneJournal' /\ Forwards' /\ InTurn' /\ Unknown' /\ Marked'
<1>1. Ages
  BY RunsAge
<1>2. CASE Fades
  BY <1>1, <1>2, FadesKeep, AgesKeep
<1>3. CASE Moves
  BY <1>1, <1>3, MovesKeep, MovesAge
<1>4. ASSUME NEW q \in Run, Writes(q)
      PROVE  OneJournal' /\ Forwards' /\ InTurn' /\ Unknown' /\ Marked'
  BY <1>1, <1>4, WritesKeep, WritesAge
<1>5. ASSUME NEW q \in Run, Restores(q)
      PROVE  OneJournal' /\ Forwards' /\ InTurn' /\ Unknown' /\ Marked'
  BY <1>1, <1>5, RestoresKeep, RestoresAge
<1>6. ASSUME NEW q \in Run, Commits(q)
      PROVE  OneJournal' /\ Forwards' /\ InTurn' /\ Unknown' /\ Marked'
  BY <1>1, <1>6, CommitsKeep, CommitsAge
<1> QED  BY <1>2, <1>3, <1>4, <1>5, <1>6, JournalsGo

-----------------------------------------------------------------------------
(* The theorems. *)

\* At the start nobody runs, and there is no journal, or that of an operation
\* that ended before.
LEMMA InitHolds == Init => SInv
<1> SUFFICES ASSUME Init PROVE SInv
  OBVIOUS
<1> USE SecurityAssumption DEF Init, NoTx, Empty
<1>1. TypeOK
  BY DEF TypeOK, Label, Tx, Path, Files, Event
<1>2. KnownJournal /\ InTx /\ Alone /\ Guarded /\ Recorded /\ Readable
  BY DEF KnownJournal, InTx, Sound, Alone, Guarded, Recorded, Readable, Told, Active, Ended, Installed,
         Verifying, Committing, IsMarker, Retriable
<1>3. OneJournal /\ Forwards /\ InTurn /\ Unknown /\ Marked /\ Kept
  BY DEF OneJournal, Forwards, InTurn, Unknown, Marked, Kept, Place, At, Out, Made, Keeps
<1> QED  BY <1>1, <1>2, <1>3 DEF SInv

\* Every step keeps the invariant.
LEMMA StepHolds == SInv /\ [Next]_vars => SInv'
BY TypeKept, KnownKept, InTxKept, AloneKept, GuardedKept, RecordedKept, ReadableKept,
   JournalsKept, StillKept DEF SInv

\* It holds in every reachable state.
LEMMA AlwaysHolds == Spec => []SInv
BY InitHolds, StepHolds, PTL DEF Spec

\* Files, runs and their transactions keep their types.
THEOREM TypeCorrect == Spec => []TypeOK
<1>1. SInv => TypeOK
  BY DEF SInv
<1> QED  BY <1>1, AlwaysHolds, PTL

\* While unknown descendants of a command may write, the lease is its run's, if
\* no I/O error, edit, takeover or kill interfered.
THEOREM BarrierHolds == Spec => []BarrierStands
<1>1. SInv => BarrierStands
  BY DEF SInv, Guarded, Calm, Ward, BarrierStands
<1> QED  BY <1>1, AlwaysHolds, PTL

\* Modules that were not installed from the lockfile are announced by a journal,
\* whichever call fails and wherever a run is killed but in a transaction.
THEOREM IncompleteIsRecorded == Spec => []IncompleteRecorded
<1>1. SInv => IncompleteRecorded
  BY DEF SInv, Recorded, Told, Active, Quiet, IncompleteRecorded
<1> QED  BY <1>1, AlwaysHolds, PTL

\* The journal that is left is one that the next run accepts, or a marker.
THEOREM RetryIsPossible == Spec => []Retryable
<1>1. SInv => Retryable
  BY DEF SInv, Readable, Mild, Active, Quiet, Retryable
<1> QED  BY <1>1, AlwaysHolds, PTL

\* No run destroys a committed marker, however many of them lost their lease in
\* the middle of a transaction.
THEOREM MarkersAreKept == Spec => []MarkerKept
<1>1. SInv => MarkerKept
  BY DEF SInv, Kept, MarkerKept
<1> QED  BY <1>1, AlwaysHolds, PTL

-----------------------------------------------------------------------------
(* What a success means. *)

\* Without a takeover the run that has the lease is the only one under way.
Sole == "forced" \notin events => \A r \in Run : Active(r) => lease = r

\* How often bun.lock was edited if modules that are not of the lockfile of the
\* plan are to pass the audit and the comparisons before and after it.
Edited(r) ==
  LET same == file.lock = known[r].lock IN
  CASE pc[r] \in {"lockAudit", "install", "installing"} -> same \/ edits >= 1
    [] pc[r] = "installed" -> modules = known[r].lock \/ edits >= IF same THEN 2 ELSE 1
    [] pc[r] = "audit" -> modules = known[r].lock \/ edits >= IF same THEN 2 ELSE 3
    [] pc[r] = "final" -> modules = known[r].lock \/ edits >= IF same THEN 4 ELSE 3
    [] pc[r] \in Committing -> task[r] = "clear" => modules = known[r].lock \/ edits >= 4
    [] OTHER -> TRUE
Deceived == events \cap {"forced", "strayed"} = {} => \A r \in Run : Edited(r)

\* What the journal is removed with is what the run knows.
ClearsKnown ==
  \A r \in Run : pc[r] \in Committing \ {"begin"} /\ task[r] = "clear" => tx[r].expect = known[r]

DInv == SInv /\ Sole /\ Deceived /\ ClearsKnown

\* Without a takeover a run that is under way is the only one.
LEMMA Alones ==
  ASSUME Sole, "forced" \notin events, NEW r \in Run, Active(r)
  PROVE  lease = r /\ \A q \in Run \ {r} : ~Active(q)
BY DEF Sole

\* A step of it does not disturb what is said of the others.
LEMMA EditedKept ==
  ASSUME Sole, Deceived, NEW r \in Run, Active(r), \A q \in Run \ {r} : Same(q), events \subseteq events',
         events' \cap {"forced", "strayed"} = {} /\ Edited(r) => Edited(r)'
  PROVE  Deceived'
<1> SUFFICES ASSUME events' \cap {"forced", "strayed"} = {}, NEW q \in Run PROVE Edited(q)'
  BY DEF Deceived
<1>1. events \cap {"forced", "strayed"} = {} /\ Edited(r) /\ lease = r
  BY Alones DEF Deceived
<1>2. ~Active(q)' => Edited(q)'
  BY DEF Edited, Active, Ended, Committing
<1>3. q # r => ~Active(q)'
  BY <1>1, Alones DEF Active, Same
<1> QED  BY <1>1, <1>2, <1>3

\* The end of a transaction takes the lease from nobody else.
LEMMA FinishSole ==
  ASSUME DInv, NEW r \in Run, NEW ok \in BOOLEAN, pc[r] \in Committing, Finish(r, ok), events' = events
  PROVE  Sole'
<1> SUFFICES ASSUME "forced" \notin events, NEW q \in Run, Active(q)' PROVE lease' = q
  BY DEF Sole
<1>1. Active(r) /\ lease = r /\ \A u \in Run \ {r} : ~Active(u)
  BY Alones DEF DInv, Active, Committing, Ended
<1>2. q = r
  BY <1>1, FinishDoes DEF DInv, SInv, Active, Same
<1> QED  BY <1>1, <1>2, FinishDoes DEF DInv, SInv, Active, Ended

\* After it nothing more is removed.
LEMMA FinishClears ==
  ASSUME DInv, NEW r \in Run, NEW ok \in BOOLEAN, Finish(r, ok)
  PROVE  ClearsKnown'
<1> SUFFICES ASSUME NEW q \in Run, pc'[q] \in Committing \ {"begin"}, task'[q] = "clear"
             PROVE  tx'[q].expect = known'[q]
  BY DEF ClearsKnown
<1>1. q # r
  BY FinishDoes DEF DInv, SInv, Committing
<1> QED  BY <1>1, FinishDoes DEF DInv, SInv, ClearsKnown, Same

\* The step after it leaves nothing that an edit could deceive.
LEMMA FinishEdits ==
  ASSUME TypeOK, NEW r \in Run, NEW ok \in BOOLEAN, Finish(r, ok)
  PROVE  Edited(r)'
BY FinishDoes DEF Edited, Committing

\* The lease of a run that is under way is only taken by force.
LEMMA SoleKept == ASSUME DInv, [Next]_vars PROVE Sole'
<1> USE DEF process, world, DInv
<1>1. ASSUME NEW r \in Run, Acquire(r) PROVE Sole'
  <2>1. TypeOK /\ pc' = [pc EXCEPT ![r] = "snapshot"] /\ lease' = r
    BY <1>1 DEF Acquire, Goto, SInv
  <2>2. CASE lease = None \/ pc[lease] \in Ended
    <3> SUFFICES ASSUME "forced" \notin events', NEW q \in Run, Active(q)' PROVE q = r
      BY <2>1 DEF Sole
    <3>1. "forced" \notin events
      BY <1>1, <2>2 DEF Acquire
    <3>2. q # r => Active(q) /\ lease = q
      BY <2>1, <3>1 DEF TypeOK, Active, Sole
    <3> QED  BY <2>2, <3>2, SecurityAssumption DEF Active
  <2>3. CASE ~(lease = None \/ pc[lease] \in Ended)
    BY <1>1, <2>3 DEF Acquire, Sole
  <2> QED  BY <2>2, <2>3
<1>2. ASSUME NEW r \in Run, Snapshot(r) PROVE Sole'
  BY <1>2 DEF SInv, Sole, Snapshot, Goto, End, Return, Ended, Active, TypeOK
<1>3. ASSUME NEW r \in Run, Resolve(r) PROVE Sole'
  BY <1>3 DEF SInv, Sole, Resolve, Transact, End, Return, Goto, Ended, Active, TypeOK
<1>4. ASSUME NEW r \in Run, TxFailed(r) PROVE Sole'
  BY <1>4, FinishSole DEF TxFailed, Committing
<1>5. ASSUME NEW r \in Run, NEW e \in BOOLEAN, TxBegin(r, e) PROVE Sole'
  <2>1. CASE Finish(r, FALSE)
    BY <1>5, <2>1, FinishSole DEF TxBegin, Committing
  <2>2. CASE ~Finish(r, FALSE)
    BY <1>5, <2>2 DEF TxBegin, SInv, TypeOK, Sole, Step, Goto, Active, Ended
  <2> QED  BY <2>1, <2>2
<1>6. ASSUME NEW r \in Run, NEW e \in BOOLEAN, Ready(r, e) PROVE Sole'
  BY <1>6 DEF Sole, Ready, Step, Goto, Ended, Active
<1>7. ASSUME NEW r \in Run, NEW e \in BOOLEAN, Take(r, e) PROVE Sole'
  BY <1>7 DEF SInv, Sole, Take, Step, Goto, Ended, Active, TypeOK
<1>8. ASSUME NEW r \in Run, NEW e \in BOOLEAN, Link(r, e) PROVE Sole'
  BY <1>8 DEF SInv, Sole, Link, Published, PutBack, Step, Goto, Ended, Active, TypeOK
<1>9. ASSUME NEW r \in Run, NEW e \in BOOLEAN, TxCheck(r, e) PROVE Sole'
  <2>1. CASE Finish(r, TRUE)
    BY <1>9, <2>1, FinishSole DEF TxCheck, Committing
  <2>2. CASE ~Finish(r, TRUE)
    BY <1>9, <2>2 DEF TxCheck, SInv, TypeOK, Sole, Step, Goto, Active, Ended
  <2> QED  BY <2>1, <2>2
<1>10. ASSUME NEW r \in Run, NEW e \in BOOLEAN, TxUndo(r, e) PROVE Sole'
  BY <1>10 DEF Sole, TxUndo, Active
<1>11. ASSUME NEW r \in Run, CommandFails(r) PROVE Sole'
  BY <1>11 DEF SInv, Sole, CommandFails, Transact, Goto, Commands, Ended, Active, TypeOK
<1>12. ASSUME NEW r \in Run, LockAudit(r) PROVE Sole'
  BY <1>12 DEF Sole, LockAudit, Step, Goto, Ended, Active
<1>13. ASSUME NEW r \in Run, StartInstall(r) PROVE Sole'
  BY <1>13 DEF Sole, StartInstall, Step, Goto, Ended, Active
<1>14. ASSUME NEW r \in Run, EndInstall(r) PROVE Sole'
  BY <1>14 DEF Sole, EndInstall, Step, Goto, Ended, Active
<1>15. ASSUME NEW r \in Run, Audit(r) PROVE Sole'
  BY <1>15 DEF Sole, Audit, Step, Goto, Ended, Active
<1>16. ASSUME NEW r \in Run, NEW e \in BOOLEAN, Verify(r, e) PROVE Sole'
  <2>1. Active(r) /\ lease' = lease /\ events' = events
    BY <1>16 DEF Verify, Verifying, Step, Transact, Active, Ended
  <2>2. \A q \in Run \ {r} : Same(q)
    BY <1>16, OthersSame DEF SInv, RunStep, Installation
  <2> QED  BY <2>1, <2>2 DEF Sole, Active, Same
<1>17. ASSUME NEW r \in Run, Kill(r) PROVE Sole'
  BY <1>17 DEF Sole, Kill, Return, Goto, Active
<1>18. ASSUME NEW r \in Run, StrayWrite(r) PROVE Sole'
  BY <1>18 DEF Sole, StrayWrite, Active
<1>19. ASSUME NEW r \in Run, StrayEnds(r) PROVE Sole'
  BY <1>19 DEF Sole, StrayEnds, Active
<1>20. ASSUME EditLock PROVE Sole'
  BY <1>20 DEF Sole, EditLock, Active
<1>21. ASSUME Reconcile PROVE Sole'
  BY <1>21 DEF Sole, Reconcile, Active
<1>22. CASE UNCHANGED vars
  BY <1>22 DEF vars, Sole, Active
<1> QED  BY <1>1, <1>2, <1>3, <1>4, <1>5, <1>6, <1>7, <1>8, <1>9, <1>10, <1>11, <1>12, <1>13,
   <1>14, <1>15, <1>16, <1>17, <1>18, <1>19, <1>20, <1>21, <1>22 DEF Next, Transaction, Installation, Finished

\* A transaction that removes the journal does so with what its run knows.
LEMMA ClearsKept == ASSUME DInv, [Next]_vars PROVE ClearsKnown'
<1> USE DEF process, world, DInv
<1>1. ASSUME NEW r \in Run, Acquire(r) PROVE ClearsKnown'
  BY <1>1 DEF ClearsKnown, Acquire, Goto, Committing
<1>2. ASSUME NEW r \in Run, Snapshot(r) PROVE ClearsKnown'
  BY <1>2 DEF SInv, ClearsKnown, Snapshot, Goto, End, Return, Committing, TypeOK
<1>3. ASSUME NEW r \in Run, Resolve(r) PROVE ClearsKnown'
  BY <1>3 DEF SInv, ClearsKnown, Resolve, Transact, End, Return, Goto, TypeOK
<1>4. ASSUME NEW r \in Run, TxFailed(r) PROVE ClearsKnown'
  BY <1>4, FinishClears DEF TxFailed
<1>5. ASSUME NEW r \in Run, NEW e \in BOOLEAN, TxBegin(r, e) PROVE ClearsKnown'
  <2>1. CASE Finish(r, FALSE)
    BY <2>1, FinishClears
  <2>2. CASE ~Finish(r, FALSE)
    <3>1. tx'[r].expect = Expected(r) /\ known' = known /\ task' = task
      BY <1>5, <2>2, BeginDoes
    <3>2. \A q \in Run \ {r} : Same(q)
      BY <1>5, OthersSame DEF SInv, RunStep, Transaction
    <3> QED  BY <3>1, <3>2 DEF ClearsKnown, Expected, Same
  <2> QED  BY <2>1, <2>2
<1>6. ASSUME NEW r \in Run, NEW e \in BOOLEAN, Ready(r, e) PROVE ClearsKnown'
  BY <1>6 DEF ClearsKnown, Ready, Step, Goto, Committing
<1>7. ASSUME NEW r \in Run, NEW e \in BOOLEAN, Take(r, e) PROVE ClearsKnown'
  BY <1>7 DEF SInv, ClearsKnown, Take, Step, Goto, Committing, TypeOK, Tx
<1>8. ASSUME NEW r \in Run, NEW e \in BOOLEAN, Link(r, e) PROVE ClearsKnown'
  BY <1>8 DEF SInv, ClearsKnown, Link, Published, PutBack, Step, Goto, Committing, TypeOK, Tx
<1>9. ASSUME NEW r \in Run, NEW e \in BOOLEAN, TxCheck(r, e) PROVE ClearsKnown'
  <2>1. CASE Finish(r, TRUE)
    BY <2>1, FinishClears
  <2>2. CASE ~Finish(r, TRUE)
    BY <1>9, <2>2 DEF TxCheck, SInv, TypeOK, ClearsKnown, Step, Goto, Committing
  <2> QED  BY <2>1, <2>2
<1>10. ASSUME NEW r \in Run, NEW e \in BOOLEAN, TxUndo(r, e) PROVE ClearsKnown'
  BY <1>10 DEF ClearsKnown, TxUndo
<1>11. ASSUME NEW r \in Run, CommandFails(r) PROVE ClearsKnown'
  BY <1>11 DEF SInv, ClearsKnown, CommandFails, Transact, Goto, TypeOK
<1>12. ASSUME NEW r \in Run, LockAudit(r) PROVE ClearsKnown'
  BY <1>12 DEF ClearsKnown, LockAudit, Step, Goto, Committing
<1>13. ASSUME NEW r \in Run, StartInstall(r) PROVE ClearsKnown'
  BY <1>13 DEF ClearsKnown, StartInstall, Step, Goto, Committing
<1>14. ASSUME NEW r \in Run, EndInstall(r) PROVE ClearsKnown'
  BY <1>14 DEF ClearsKnown, EndInstall, Step, Goto, Committing
<1>15. ASSUME NEW r \in Run, Audit(r) PROVE ClearsKnown'
  BY <1>15 DEF ClearsKnown, Audit, Step, Goto, Committing
<1>16. ASSUME NEW r \in Run, NEW e \in BOOLEAN, Verify(r, e) PROVE ClearsKnown'
  <2>1. pc'[r] \notin Committing \ {"begin"}
    BY <1>16 DEF Verify, Verifying, SInv, TypeOK, Step, Transact, Goto, Committing
  <2>2. \A q \in Run \ {r} : Same(q)
    BY <1>16, OthersSame DEF SInv, RunStep, Installation
  <2> QED  BY <2>1, <2>2 DEF ClearsKnown, Same
<1>17. ASSUME NEW r \in Run, Kill(r) PROVE ClearsKnown'
  BY <1>17 DEF SInv, ClearsKnown, Kill, Return, Goto, TypeOK
<1>18. ASSUME NEW r \in Run, StrayWrite(r) PROVE ClearsKnown'
  BY <1>18 DEF ClearsKnown, StrayWrite
<1>19. ASSUME NEW r \in Run, StrayEnds(r) PROVE ClearsKnown'
  BY <1>19 DEF ClearsKnown, StrayEnds
<1>20. ASSUME EditLock PROVE ClearsKnown'
  BY <1>20 DEF ClearsKnown, EditLock
<1>21. ASSUME Reconcile PROVE ClearsKnown'
  BY <1>21 DEF ClearsKnown, Reconcile
<1>22. CASE UNCHANGED vars
  BY <1>22 DEF vars, ClearsKnown
<1> QED  BY <1>1, <1>2, <1>3, <1>4, <1>5, <1>6, <1>7, <1>8, <1>9, <1>10, <1>11, <1>12, <1>13,
   <1>14, <1>15, <1>16, <1>17, <1>18, <1>19, <1>20, <1>21, <1>22 DEF Next, Transaction, Installation, Finished

\* Each of the comparisons and the audit must be deceived by an edit of its own.
LEMMA DeceivedKept == ASSUME DInv, [Next]_vars PROVE Deceived'
<1> USE DEF process, world, DInv
<1>0. TypeOK /\ events \subseteq events'
  BY Grows DEF SInv
<1>1. ASSUME NEW r \in Run, Acquire(r) PROVE Deceived'
  BY <1>1 DEF Deceived, Acquire, Goto, Committing, Edited
<1>2. ASSUME NEW r \in Run, Snapshot(r) PROVE Deceived'
  BY <1>2 DEF SInv, Deceived, Snapshot, Goto, End, Return, Label, Committing, Verifying, TypeOK, Edited
<1>3. ASSUME NEW r \in Run, Resolve(r) PROVE Deceived'
  <2>1. \A q \in Run \ {r} : Same(q)
    BY <1>3, <1>0, OthersSame DEF RunStep
  <2>2. Active(r) /\ Edited(r)'
    BY <1>3, <1>0 DEF Resolve, Transact, End, Return, Goto, TypeOK, Edited, Active, Ended, Committing
  <2> QED  BY <1>0, <2>1, <2>2, EditedKept
<1>4. ASSUME NEW r \in Run, TxFailed(r) PROVE Deceived'
  <2>1. Active(r)
    BY <1>4 DEF TxFailed, Active, Ended
  <2>2. \A q \in Run \ {r} : Same(q)
    BY <1>4, <1>0, OthersSame DEF RunStep, Transaction
  <2>3. Edited(r) => Edited(r)'
    BY <1>4, <1>0, FinishEdits DEF TxFailed
  <2> QED  BY <1>0, <2>1, <2>2, <2>3, EditedKept
<1>5. ASSUME NEW r \in Run, NEW e \in BOOLEAN, TxBegin(r, e) PROVE Deceived'
  <2>1. Active(r)
    BY <1>5 DEF TxBegin, Active, Ended
  <2>2. \A q \in Run \ {r} : Same(q)
    BY <1>5, <1>0, OthersSame DEF RunStep, Transaction
  <2>3. Edited(r) => Edited(r)'
    <3>1. CASE Finish(r, FALSE)
      BY <1>0, <3>1, FinishEdits
    <3>2. CASE ~Finish(r, FALSE)
      BY <1>5, <1>0, <3>2 DEF TxBegin, TypeOK, Step, Goto, Edited, Committing
    <3> QED  BY <3>1, <3>2
  <2> QED  BY <1>0, <2>1, <2>2, <2>3, EditedKept
<1>6. ASSUME NEW r \in Run, NEW e \in BOOLEAN, Ready(r, e) PROVE Deceived'
  BY <1>6 DEF Deceived, Ready, Step, Goto, Committing, Edited
<1>7. ASSUME NEW r \in Run, NEW e \in BOOLEAN, Take(r, e) PROVE Deceived'
  <2>1. Active(r)
    BY <1>7 DEF Take, Active, Ended
  <2>2. \A q \in Run \ {r} : Same(q)
    BY <1>7, <1>0, OthersSame DEF RunStep, Transaction
  <2>3. Edited(r) => Edited(r)'
    BY <1>7, <1>0 DEF Take, TypeOK, Step, Goto, Edited, Committing
  <2> QED  BY <1>0, <2>1, <2>2, <2>3, EditedKept
<1>8. ASSUME NEW r \in Run, NEW e \in BOOLEAN, Link(r, e) PROVE Deceived'
  <2>1. Active(r)
    BY <1>8 DEF Link, Active, Ended
  <2>2. \A q \in Run \ {r} : Same(q)
    BY <1>8, <1>0, OthersSame DEF RunStep, Transaction
  <2>3. Edited(r) => Edited(r)'
    BY <1>8, <1>0 DEF Link, Published, PutBack, TypeOK, Step, Goto, Edited, Committing
  <2> QED  BY <1>0, <2>1, <2>2, <2>3, EditedKept
<1>9. ASSUME NEW r \in Run, NEW e \in BOOLEAN, TxCheck(r, e) PROVE Deceived'
  <2>1. Active(r)
    BY <1>9 DEF TxCheck, Active, Ended
  <2>2. \A q \in Run \ {r} : Same(q)
    BY <1>9, <1>0, OthersSame DEF RunStep, Transaction
  <2>3. Edited(r) => Edited(r)'
    <3>1. CASE Finish(r, TRUE)
      BY <1>0, <3>1, FinishEdits
    <3>2. CASE ~Finish(r, TRUE)
      BY <1>9, <1>0, <3>2 DEF TxCheck, TypeOK, Step, Goto, Edited, Committing
    <3> QED  BY <3>1, <3>2
  <2> QED  BY <1>0, <2>1, <2>2, <2>3, EditedKept
<1>10. ASSUME NEW r \in Run, NEW e \in BOOLEAN, TxUndo(r, e) PROVE Deceived'
  <2>1. Active(r)
    BY <1>10 DEF TxUndo, Active, Ended
  <2>2. \A q \in Run \ {r} : Same(q)
    BY <1>10, <1>0, OthersSame DEF RunStep, Transaction
  <2>3. Edited(r) => Edited(r)'
    BY <1>10, <1>0 DEF TxUndo, Edited, Committing
  <2> QED  BY <1>0, <2>1, <2>2, <2>3, EditedKept
<1>11. ASSUME NEW r \in Run, CommandFails(r) PROVE Deceived'
  BY <1>11 DEF SInv, Deceived, CommandFails, Transact, Goto, Label, Committing, Verifying, Commands, Active, TypeOK, Edited
<1>12. ASSUME NEW r \in Run, LockAudit(r) PROVE Deceived'
  BY <1>12 DEF Deceived, LockAudit, Step, Goto, Committing, Edited
<1>13. ASSUME NEW r \in Run, StartInstall(r) PROVE Deceived'
  <2>1. Active(r)
    BY <1>13 DEF StartInstall, Active, Ended
  <2>2. \A q \in Run \ {r} : Same(q)
    BY <1>13, <1>0, OthersSame DEF RunStep, Installation
  <2>3. Edited(r) => Edited(r)'
    BY <1>13, <1>0 DEF StartInstall, TypeOK, Step, Goto, Edited, Committing
  <2> QED  BY <1>0, <2>1, <2>2, <2>3, EditedKept
<1>14. ASSUME NEW r \in Run, EndInstall(r) PROVE Deceived'
  <2>1. Active(r)
    BY <1>14 DEF EndInstall, Active, Ended
  <2>2. \A q \in Run \ {r} : Same(q)
    BY <1>14, <1>0, OthersSame DEF RunStep, Installation
  <2>3. events' \cap {"forced", "strayed"} = {} => modules' = file.lock
    BY <1>14, <2>1, Alones DEF EndInstall, Active, Ended
  <2>4. events' \cap {"forced", "strayed"} = {} /\ Edited(r) => Edited(r)'
    BY <1>14, <1>0, <2>3 DEF EndInstall, TypeOK, Step, Goto, Edited, Committing
  <2> QED  BY <1>0, <2>1, <2>2, <2>4, EditedKept
<1>15. ASSUME NEW r \in Run, Audit(r) PROVE Deceived'
  BY <1>15 DEF Deceived, Audit, Step, Goto, Committing, Edited
<1>16. ASSUME NEW r \in Run, NEW e \in BOOLEAN, Verify(r, e) PROVE Deceived'
  <2>1. Active(r) /\ UNCHANGED <<file, modules, edits, known>>
    BY <1>16 DEF Verify, Verifying, Step, Transact, Active, Ended
  <2>2. \A q \in Run \ {r} : Same(q)
    BY <1>16, <1>0, OthersSame DEF RunStep, Installation
  <2>3. CASE Transact(r, "fail")
    <3>1. Edited(r)'
      BY <1>0, <2>3 DEF Transact, Goto, TypeOK, Edited, Committing
    <3> QED  BY <1>0, <2>1, <2>2, <3>1, EditedKept
  <2>4. CASE ~Transact(r, "fail")
    <3>1. /\ file = known[r]
          /\ \/ pc[r] = "sources" /\ Step(r, "lockAudit")
             \/ pc[r] = "installed" /\ Step(r, "audit")
             \/ pc[r] = "final" /\ Transact(r, "clear")
      BY <1>16, <2>4 DEF Verify, Verifying
    <3>2. Edited(r) => Edited(r)'
      <4>1. pc[r] = "sources" => Edited(r)'
        BY <1>0, <2>1, <3>1 DEF Step, Goto, TypeOK, Edited, Committing
      <4>2. pc[r] = "installed" /\ Edited(r) => Edited(r)'
        BY <1>0, <2>1, <3>1 DEF Step, Goto, TypeOK, Edited, Committing
      <4>3. pc[r] = "final" /\ Edited(r) => Edited(r)'
        BY <1>0, <2>1, <3>1 DEF Transact, Goto, TypeOK, Edited, Committing
      <4> QED  BY <3>1, <4>1, <4>2, <4>3
    <3> QED  BY <1>0, <2>1, <2>2, <3>2, EditedKept
  <2> QED  BY <2>3, <2>4
<1>17. ASSUME NEW r \in Run, Kill(r) PROVE Deceived'
  BY <1>17 DEF SInv, Deceived, Kill, Return, Goto, TypeOK, Edited
<1>18. ASSUME NEW r \in Run, StrayWrite(r) PROVE Deceived'
  BY <1>18 DEF Deceived, StrayWrite
<1>19. ASSUME NEW r \in Run, StrayEnds(r) PROVE Deceived'
  BY <1>19 DEF Deceived, StrayEnds, Edited
<1>20. ASSUME EditLock PROVE Deceived'
  BY <1>20 DEF SInv, Deceived, EditLock, TypeOK, Edited
<1>21. ASSUME Reconcile PROVE Deceived'
  BY <1>21 DEF Deceived, Reconcile, Edited
<1>22. CASE UNCHANGED vars
  BY <1>22 DEF vars, Deceived, Edited
<1> QED  BY <1>1, <1>2, <1>3, <1>4, <1>5, <1>6, <1>7, <1>8, <1>9, <1>10, <1>11, <1>12, <1>13,
   <1>14, <1>15, <1>16, <1>17, <1>18, <1>19, <1>20, <1>21, <1>22 DEF Next, Transaction, Installation, Finished

\* The last step of a run that reports success.
LEMMA SuccessMeans ==
  ASSUME DInv, [Next]_vars, NEW r \in Run, pc[r] # "ok", pc'[r] = "ok"
  PROVE  \E e \in BOOLEAN : TxCheck(r, e) /\ ~e /\ Holds(r, tx[r].goal) /\ task[r] = "clear"
<1>1. TypeOK /\ (pc[r] = "begin" => pc[r] \in Committing)
  BY DEF DInv, SInv, Committing
<1>2. PICK q \in Run : RunStep(q)
  BY DEF Next, RunStep, StrayWrite, StrayEnds, EditLock, Reconcile, Finished, vars, process
<1>3. q = r
  BY <1>1, <1>2, OthersSame DEF Same
<1>4. CASE Acquire(r) \/ Snapshot(r) \/ Resolve(r) \/ Kill(r)
  BY <1>1, <1>4 DEF TypeOK, Acquire, Snapshot, Resolve, Kill, Transact, End, Return, Goto
<1>5. CASE Installation(r)
  BY <1>1, <1>5 DEF TypeOK, Installation, CommandFails, LockAudit, StartInstall, EndInstall, Audit, Verify,
     Verifying, Step, Transact, Goto
<1>6. ASSUME NEW e \in BOOLEAN, Ready(r, e) \/ Take(r, e) \/ Link(r, e) \/ TxUndo(r, e) PROVE FALSE
  BY <1>1, <1>6 DEF TypeOK, Ready, Take, Link, Published, PutBack, TxUndo, process, Step, Goto
<1>7. ~Finish(r, FALSE)
  BY <1>1 DEF TypeOK, Finish, Transact, End, Return, Goto
<1>8. ASSUME NEW e \in BOOLEAN, TxBegin(r, e) PROVE FALSE
  BY <1>1, <1>7, <1>8 DEF TypeOK, TxBegin, Step, Goto
<1>9. PICK e \in BOOLEAN : TxCheck(r, e)
  BY <1>2, <1>3, <1>4, <1>5, <1>6, <1>7, <1>8 DEF RunStep, Transaction, TxFailed
<1>10. ~e /\ Holds(r, tx[r].goal) /\ Finish(r, TRUE)
  BY <1>1, <1>9 DEF TypeOK, TxCheck, Step, Goto
<1>11. task[r] = "clear"
  BY <1>1, <1>10 DEF TypeOK, Finish, End, Return, Goto
<1> QED  BY <1>9, <1>10, <1>11

\* At the start nobody has been deceived.
LEMMA InitDeceives == Init => DInv
<1>1. Init => Sole /\ Deceived /\ ClearsKnown
  BY DEF Init, Sole, Deceived, ClearsKnown, Edited, Active, Committing
<1> QED  BY <1>1, InitHolds DEF DInv

\* A run that reports success has installed the lockfile of its plan and removed
\* its journal, whatever fails or is edited (short of four edits in turn).
THEOREM SuccessIsInstalled == Spec => ClearedMeansInstalled
<1>1. DInv /\ [Next]_vars => DInv'
  BY StepHolds, SoleKept, ClearsKept, DeceivedKept DEF DInv
<1>2. ASSUME DInv, [Next]_vars, NEW r \in Run, pc[r] # "ok", pc'[r] = "ok",
             events \cap {"forced", "strayed"} = {}, edits < 4
      PROVE  file'.lock = known[r].lock /\ modules' = known[r].lock /\ file'.journal = None
  <2>1. PICK e \in BOOLEAN : TxCheck(r, e) /\ Holds(r, tx[r].goal) /\ task[r] = "clear"
    BY <1>2, SuccessMeans
  <2>2. pc[r] = "check" /\ file' = file /\ modules' = modules
    BY <2>1 DEF TxCheck
  <2>3. tx[r].expect = known[r] /\ tx[r].goal = [known[r] EXCEPT !.journal = None]
    BY <1>2, <2>1, <2>2 DEF DInv, SInv, ClearsKnown, InTx, Sound, Goals, Wants, Committing
  <2>4. known[r] \in Files
    BY <1>2 DEF DInv, SInv, TypeOK
  <2>5. file.lock = known[r].lock /\ file.journal = None
    BY <2>1, <2>3, <2>4 DEF Holds, Files
  <2>6. modules = known[r].lock
    <3>1. Edited(r)
      BY <1>2 DEF DInv, Deceived
    <3>2. edits \in Nat
      BY <1>2, SecurityAssumption DEF DInv, SInv, TypeOK
    <3> QED  BY <1>2, <2>1, <2>2, <3>1, <3>2 DEF Edited, Committing
  <2> QED  BY <2>2, <2>5, <2>6
<1>3. DInv /\ [Next]_vars =>
        [\A r \in Run :
           pc[r] # "ok" /\ pc'[r] = "ok" /\ events \cap {"forced", "strayed"} = {} /\ edits < 4 =>
             file'.lock = known[r].lock /\ modules' = known[r].lock /\ file'.journal = None]_vars
  BY <1>2
<1> QED  BY <1>1, <1>3, InitDeceives, PTL DEF Spec, ClearedMeansInstalled
=============================================================================
