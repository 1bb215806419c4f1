------------------------ MODULE ProjectLockRefinement ------------------------
(***************************************************************************)
(* ProjectLock implements ProjectLease, whatever faults it meets: kills    *)
(* and suspensions between any two calls, failing calls, commands with     *)
(* --force.  A theft of a live claim is the step at which the lease breaks.*)
(***************************************************************************)
EXTENDS ProjectLockProofs

-----------------------------------------------------------------------------
(* The admission barrier.                                                   *)

\* Only a publication makes an owner, and it finds the barrier down.
LEMMA BarrierStep ==
  ASSUME TypeOK, LockInv, [Next]_vars
  PROVE  ~stolen => \A r \in Proc : status[r] = "seeking" /\ status'[r] = "owning" => ~barrier
<1> USE LockAssumption DEF TypeOK, LockInv, StatusAt, At, Goto, files, clocks, history, locals, beats
<1>1. ASSUME NEW p \in Proc, Start(p) PROVE ~stolen => \A r \in Proc : status[r] = "seeking" /\ status'[r] = "owning" => ~barrier
  BY <1>1 DEF Start
<1>2. ASSUME NEW p \in Proc, Observe(p) PROVE ~stolen => \A r \in Proc : status[r] = "seeking" /\ status'[r] = "owning" => ~barrier
  BY <1>2 DEF Observe
<1>3. ASSUME NEW p \in Proc, Seize(p) PROVE ~stolen => \A r \in Proc : status[r] = "seeking" /\ status'[r] = "owning" => ~barrier
  BY <1>3 DEF Seize
<1>4. ASSUME NEW p \in Proc, Inspect(p) PROVE ~stolen => \A r \in Proc : status[r] = "seeking" /\ status'[r] = "owning" => ~barrier
  BY <1>4 DEF Inspect
<1>5. ASSUME NEW p \in Proc, Putback(p) PROVE ~stolen => \A r \in Proc : status[r] = "seeking" /\ status'[r] = "owning" => ~barrier
  BY <1>5 DEF Putback
<1>6. ASSUME NEW p \in Proc, Salvage(p) PROVE ~stolen => \A r \in Proc : status[r] = "seeking" /\ status'[r] = "owning" => ~barrier
  BY <1>6 DEF Salvage
<1>7. ASSUME NEW p \in Proc, SalvageFile(p) PROVE ~stolen => \A r \in Proc : status[r] = "seeking" /\ status'[r] = "owning" => ~barrier
  BY <1>7 DEF SalvageFile
<1>8. ASSUME NEW p \in Proc, Relink(p) PROVE ~stolen => \A r \in Proc : status[r] = "seeking" /\ status'[r] = "owning" => ~barrier
  BY <1>8 DEF Relink, Abort
<1>9. ASSUME NEW p \in Proc, DropSalvaged(p) PROVE ~stolen => \A r \in Proc : status[r] = "seeking" /\ status'[r] = "owning" => ~barrier
  BY <1>9 DEF DropSalvaged
<1>10. ASSUME NEW p \in Proc, PublishClaim(p) PROVE ~stolen => \A r \in Proc : status[r] = "seeking" /\ status'[r] = "owning" => ~barrier
  BY <1>10 DEF PublishClaim
<1>11. ASSUME NEW p \in Proc, Admit(p) PROVE ~stolen => \A r \in Proc : status[r] = "seeking" /\ status'[r] = "owning" => ~barrier
  BY <1>11 DEF Admit
<1>12. ASSUME NEW p \in Proc, Read(p) PROVE ~stolen => \A r \in Proc : status[r] = "seeking" /\ status'[r] = "owning" => ~barrier
  BY <1>12 DEF Read
<1>13. ASSUME NEW p \in Proc, AssertClaim(p) PROVE ~stolen => \A r \in Proc : status[r] = "seeking" /\ status'[r] = "owning" => ~barrier
  BY <1>13 DEF AssertClaim
<1>14. ASSUME NEW p \in Proc, Capture(p) PROVE ~stolen => \A r \in Proc : status[r] = "seeking" /\ status'[r] = "owning" => ~barrier
  BY <1>14 DEF Capture
<1>15. ASSUME NEW p \in Proc, Judge(p) PROVE ~stolen => \A r \in Proc : status[r] = "seeking" /\ status'[r] = "owning" => ~barrier
  BY <1>15 DEF Judge
<1>16. ASSUME NEW p \in Proc, Publish(p) PROVE ~stolen => \A r \in Proc : status[r] = "seeking" /\ status'[r] = "owning" => ~barrier
  BY <1>16 DEF Publish, ChecksHold
<1>17. ASSUME NEW p \in Proc, Undo(p) PROVE ~stolen => \A r \in Proc : status[r] = "seeking" /\ status'[r] = "owning" => ~barrier
  BY <1>17 DEF Undo
<1>18. ASSUME NEW p \in Proc, RestoreLink(p) PROVE ~stolen => \A r \in Proc : status[r] = "seeking" /\ status'[r] = "owning" => ~barrier
  BY <1>18 DEF RestoreLink
<1>19. ASSUME NEW p \in Proc, DropQuarantine(p) PROVE ~stolen => \A r \in Proc : status[r] = "seeking" /\ status'[r] = "owning" => ~barrier
  BY <1>19 DEF DropQuarantine
<1>20. ASSUME NEW p \in Proc, DropClaim(p) PROVE ~stolen => \A r \in Proc : status[r] = "seeking" /\ status'[r] = "owning" => ~barrier
  BY <1>20 DEF DropClaim, AfterDrop
<1>21. ASSUME NEW p \in Proc, DropRestore(p) PROVE ~stolen => \A r \in Proc : status[r] = "seeking" /\ status'[r] = "owning" => ~barrier
  BY <1>21 DEF DropRestore, AfterDrop
<1>22. ASSUME NEW p \in Proc, RelRead(p) PROVE ~stolen => \A r \in Proc : status[r] = "seeking" /\ status'[r] = "owning" => ~barrier
  BY <1>22 DEF RelRead, Supersede
<1>23. ASSUME NEW p \in Proc, RelAssert(p) PROVE ~stolen => \A r \in Proc : status[r] = "seeking" /\ status'[r] = "owning" => ~barrier
  BY <1>23 DEF RelAssert
<1>24. ASSUME NEW p \in Proc, RelRecheck(p) PROVE ~stolen => \A r \in Proc : status[r] = "seeking" /\ status'[r] = "owning" => ~barrier
  BY <1>24 DEF RelRecheck, Supersede
<1>25. ASSUME NEW p \in Proc, RelMove(p) PROVE ~stolen => \A r \in Proc : status[r] = "seeking" /\ status'[r] = "owning" => ~barrier
  BY <1>25 DEF RelMove
<1>26. ASSUME NEW p \in Proc, RelVerify(p) PROVE ~stolen => \A r \in Proc : status[r] = "seeking" /\ status'[r] = "owning" => ~barrier
  BY <1>26 DEF RelVerify
<1>27. ASSUME NEW p \in Proc, RelRevive(p) PROVE ~stolen => \A r \in Proc : status[r] = "seeking" /\ status'[r] = "owning" => ~barrier
  BY <1>27 DEF RelRevive, StatusAt
<1>28. ASSUME NEW p \in Proc, BeginRelease(p) PROVE ~stolen => \A r \in Proc : status[r] = "seeking" /\ status'[r] = "owning" => ~barrier
  BY <1>28 DEF BeginRelease
<1>29. ASSUME NEW p \in Proc, Quit(p) PROVE ~stolen => \A r \in Proc : status[r] = "seeking" /\ status'[r] = "owning" => ~barrier
  BY <1>29 DEF Quit
<1>30. ASSUME NEW p \in Proc, ClaimTimeout(p) PROVE ~stolen => \A r \in Proc : status[r] = "seeking" /\ status'[r] = "owning" => ~barrier
  BY <1>30 DEF ClaimTimeout, Abort
<1>31. ASSUME NEW p \in Proc, BeatOpen(p) PROVE ~stolen => \A r \in Proc : status[r] = "seeking" /\ status'[r] = "owning" => ~barrier
  BY <1>31 DEF BeatOpen
<1>32. ASSUME NEW p \in Proc, BeatTouch(p) PROVE ~stolen => \A r \in Proc : status[r] = "seeking" /\ status'[r] = "owning" => ~barrier
  BY <1>32 DEF BeatTouch
<1>33. ASSUME NEW p \in Proc, BeatClaim(p) PROVE ~stolen => \A r \in Proc : status[r] = "seeking" /\ status'[r] = "owning" => ~barrier
  BY <1>33 DEF BeatClaim
<1>34. ASSUME NEW p \in Proc, LapseLock(p) PROVE ~stolen => \A r \in Proc : status[r] = "seeking" /\ status'[r] = "owning" => ~barrier
  BY <1>34 DEF LapseLock
<1>35. ASSUME NEW p \in Proc, MarkUnverified(p) PROVE ~stolen => \A r \in Proc : status[r] = "seeking" /\ status'[r] = "owning" => ~barrier
  BY <1>35 DEF MarkUnverified
<1>36. ASSUME NEW p \in Proc, Crash(p) PROVE ~stolen => \A r \in Proc : status[r] = "seeking" /\ status'[r] = "owning" => ~barrier
  BY <1>36 DEF Crash
<1>37. ASSUME NEW p \in Proc, Suspend(p) PROVE ~stolen => \A r \in Proc : status[r] = "seeking" /\ status'[r] = "owning" => ~barrier
  BY <1>37 DEF Suspend
<1>38. ASSUME NEW p \in Proc, Resume(p) PROVE ~stolen => \A r \in Proc : status[r] = "seeking" /\ status'[r] = "owning" => ~barrier
  BY <1>38 DEF Resume
<1>39. CASE LapseClaim \/ UNCHANGED vars
  BY <1>39 DEF LapseClaim, vars
<1> QED
  BY <1>1, <1>2, <1>3, <1>4, <1>5, <1>6, <1>7, <1>8, <1>9, <1>10, <1>11, <1>12, <1>13, <1>14, <1>15, <1>16, <1>17, <1>18, <1>19, <1>20, <1>21, <1>22, <1>23, <1>24, <1>25, <1>26, <1>27, <1>28, <1>29, <1>30, <1>31, <1>32, <1>33, <1>34, <1>35, <1>36, <1>37, <1>38, <1>39
  DEF Next, Step, AcquireClaim, AcquireUnderClaim, Release, Finished

\* No lock is acquired once the journal demands a reconciliation, unless a
\* claim was stolen: the check before publication cannot have gone stale.
THEOREM BarrierIsRespected == Spec => BarrierHolds
<1>1. TypeOK /\ LockInv /\ [Next]_vars
      => [\A p \in Proc : status[p] = "seeking" /\ status'[p] = "owning" /\ ~stolen
                          => ~barrier]_vars
  BY BarrierStep
<1> QED
  BY <1>1, TypeCorrect, LockInvariant, PTL DEF Spec, BarrierHolds

-----------------------------------------------------------------------------
(* Refinement of ProjectLease.                                              *)

\* The first state of the protocol is a first state of the lease.
LEMMA LeaseInit == Init => Lease!Init
<1> SUFFICES ASSUME Init PROVE Lease!Init
  OBVIOUS
<1>1. Owners = {}
  BY DEF Init, Owners, Owns
<1>2. Past = {}
  BY DEF Init, Past
<1> QED
  BY <1>1, <1>2 DEF Init, Lease!Init

\* A step that changes no status and ends no owner is nothing to the lease.
LEMMA LeaseStutters ==
  ASSUME forfeited' = forfeited, stolen' = stolen,
         \A r \in Proc : Owns(r)' <=> Owns(r),
         \A r \in Proc : status'[r] = "seeking" <=> status[r] = "seeking"
  PROVE  UNCHANGED <<Owners, forfeited, Past, stolen>>
<1>1. Owners' = Owners
  BY DEF Owners
<1>2. Past' = Past
  BY DEF Past
<1> QED
  BY <1>1, <1>2

\* An owner that stops being one leaves the lease.
LEMMA LeaseLeaves ==
  ASSUME forfeited' = forfeited, stolen' = stolen, NEW p \in Proc, Owns(p), ~Owns(p)',
         \A r \in Proc \ {p} : Owns(r)' <=> Owns(r),
         \A r \in Proc : status'[r] = "seeking" <=> status[r] = "seeking"
  PROVE  Lease!Leave(p)
<1>1. Owners' = Owners \ {p}
  BY DEF Owners, Owns
<1>2. p \in Owners
  BY DEF Owners
<1>3. Past' = Past
  BY DEF Past
<1> QED
  BY <1>1, <1>2, <1>3 DEF Lease!Leave

\* A lapse and a takeover by --force are forfeits of the lease.
LEMMA LeaseForfeits ==
  ASSUME NEW p \in Proc, status[p] # "seeking", forfeited' = forfeited \cup {p},
         status' = status, stolen' = stolen, \A r \in Proc : Owns(r)' <=> Owns(r)
  PROVE  Lease!Forfeit(p)
<1>1. Owners' = Owners
  BY DEF Owners, Owns
<1>2. Past' = Past /\ p \in Past
  BY DEF Past
<1> QED
  BY <1>1, <1>2 DEF Lease!Forfeit

\* A publication is an acquisition: whoever else owns the lease forfeited it,
\* or the lease is broken.
LEMMA LeaseAcquires ==
  ASSUME TypeOK, LockInv, NEW p \in Proc, Publish(p), lockFile = None
  PROVE  Lease!Acquire(p)
<1>1. /\ status' = [status EXCEPT ![p] = "owning"] /\ UNCHANGED <<forfeited, stolen>>
      /\ pc' = [pc EXCEPT ![p] = IF captured[p] THEN "clean" ELSE "drop"] /\ pc[p] = "publish"
  BY DEF Publish, At, Goto, history
<1>2. status[p] = "seeking"
  BY <1>1 DEF LockInv, StatusAt
<1>3. Owners \subseteq forfeited \/ stolen
  <2> SUFFICES ASSUME ~stolen, NEW q \in Proc, Owns(q), q \notin forfeited PROVE FALSE
    BY DEF Owners
  <2>1. pc[q] = "relVerify"
    BY LockAssumption DEF LockInv, LockPlaced, Owns
  <2> QED
    BY <1>1, <2>1 DEF LockInv, ClaimHeld, Owned, Tok, Transition
<1>4. \A r \in Proc : /\ Owns(r)' <=> r = p \/ Owns(r)
                      /\ status'[r] # "seeking" <=> r = p \/ status[r] # "seeking"
  BY <1>1, <1>2 DEF TypeOK, Owns
<1>5. Owners' = Owners \cup {p} /\ Past' = Past \cup {p} /\ p \notin Past
  BY <1>2, <1>4 DEF Owners, Past
<1> QED
  BY <1>1, <1>3, <1>5 DEF Lease!Acquire

\* Every step of the protocol is a step of the lease, or none.
LEMMA LeaseStep ==
  ASSUME TypeOK, LockInv, [Next]_vars
  PROVE  [Lease!Next]_<<Owners, forfeited, Past, stolen>>
<1> DEFINE Implements == [Lease!Next]_<<Owners, forfeited, Past, stolen>>
<1> USE DEF TypeOK, At, Goto, files, clocks, history, locals, beats
<1>1. ASSUME NEW p \in Proc, Start(p) PROVE Implements
  <2>1. /\ forfeited' = forfeited /\ stolen' = stolen
        /\ \A r \in Proc : (Owns(r)' <=> Owns(r)) /\ (status'[r] = "seeking" <=> status[r] = "seeking")
    BY <1>1 DEF Start, Owns
  <2> QED
    BY <2>1, LeaseStutters
<1>2. ASSUME NEW p \in Proc, Observe(p) PROVE Implements
  <2>1. /\ forfeited' = forfeited /\ stolen' = stolen
        /\ \A r \in Proc : (Owns(r)' <=> Owns(r)) /\ (status'[r] = "seeking" <=> status[r] = "seeking")
    BY <1>2 DEF Observe, Owns
  <2> QED
    BY <2>1, LeaseStutters
<1>3. ASSUME NEW p \in Proc, Seize(p) PROVE Implements
  <2>1. /\ forfeited' = forfeited /\ stolen \in BOOLEAN /\ (stolen => stolen')
        /\ \A r \in Proc : (Owns(r)' <=> Owns(r)) /\ (status'[r] = "seeking" <=> status[r] = "seeking")
    BY <1>3 DEF Seize, Owns
  <2>2. CASE stolen' = stolen
    BY <2>1, <2>2, LeaseStutters
  <2>3. CASE stolen' # stolen
    <3>1. stolen' = TRUE
      BY <1>3, <2>3 DEF Seize
    <3>2. Owners' = Owners /\ Past' = Past
      BY <2>1 DEF Owners, Past
    <3> QED
      BY <2>1, <3>1, <3>2 DEF Lease!Next, Lease!Break
  <2> QED
    BY <2>2, <2>3
<1>4. ASSUME NEW p \in Proc, Inspect(p) PROVE Implements
  <2>1. /\ forfeited' = forfeited /\ stolen' = stolen
        /\ \A r \in Proc : (Owns(r)' <=> Owns(r)) /\ (status'[r] = "seeking" <=> status[r] = "seeking")
    BY <1>4 DEF Inspect, Owns
  <2> QED
    BY <2>1, LeaseStutters
<1>5. ASSUME NEW p \in Proc, Putback(p) PROVE Implements
  <2>1. /\ forfeited' = forfeited /\ stolen' = stolen
        /\ \A r \in Proc : (Owns(r)' <=> Owns(r)) /\ (status'[r] = "seeking" <=> status[r] = "seeking")
    BY <1>5 DEF Putback, Owns
  <2> QED
    BY <2>1, LeaseStutters
<1>6. ASSUME NEW p \in Proc, Salvage(p) PROVE Implements
  <2>1. /\ forfeited' = forfeited /\ stolen' = stolen
        /\ \A r \in Proc : (Owns(r)' <=> Owns(r)) /\ (status'[r] = "seeking" <=> status[r] = "seeking")
    BY <1>6 DEF Salvage, Owns
  <2> QED
    BY <2>1, LeaseStutters
<1>7. ASSUME NEW p \in Proc, SalvageFile(p) PROVE Implements
  <2>1. /\ forfeited' = forfeited /\ stolen' = stolen
        /\ \A r \in Proc : (Owns(r)' <=> Owns(r)) /\ (status'[r] = "seeking" <=> status[r] = "seeking")
    BY <1>7 DEF SalvageFile, Owns
  <2> QED
    BY <2>1, LeaseStutters
<1>8. ASSUME NEW p \in Proc, DropSalvaged(p) PROVE Implements
  <2>1. /\ forfeited' = forfeited /\ stolen' = stolen
        /\ \A r \in Proc : (Owns(r)' <=> Owns(r)) /\ (status'[r] = "seeking" <=> status[r] = "seeking")
    BY <1>8 DEF DropSalvaged, Abort, Owns
  <2> QED
    BY <2>1, LeaseStutters
<1>9. ASSUME NEW p \in Proc, PublishClaim(p) PROVE Implements
  <2>1. /\ forfeited' = forfeited /\ stolen' = stolen
        /\ \A r \in Proc : (Owns(r)' <=> Owns(r)) /\ (status'[r] = "seeking" <=> status[r] = "seeking")
    BY <1>9 DEF PublishClaim, Owns
  <2> QED
    BY <2>1, LeaseStutters
<1>10. ASSUME NEW p \in Proc, Admit(p) PROVE Implements
  <2>1. /\ forfeited' = forfeited /\ stolen' = stolen
        /\ \A r \in Proc : (Owns(r)' <=> Owns(r)) /\ (status'[r] = "seeking" <=> status[r] = "seeking")
    BY <1>10 DEF Admit, Owns
  <2> QED
    BY <2>1, LeaseStutters
<1>11. ASSUME NEW p \in Proc, Read(p) PROVE Implements
  <2>1. /\ forfeited' = forfeited /\ stolen' = stolen
        /\ \A r \in Proc : (Owns(r)' <=> Owns(r)) /\ (status'[r] = "seeking" <=> status[r] = "seeking")
    BY <1>11 DEF Read, Owns
  <2> QED
    BY <2>1, LeaseStutters
<1>12. ASSUME NEW p \in Proc, AssertClaim(p) PROVE Implements
  <2>1. /\ forfeited' = forfeited /\ stolen' = stolen
        /\ \A r \in Proc : (Owns(r)' <=> Owns(r)) /\ (status'[r] = "seeking" <=> status[r] = "seeking")
    BY <1>12 DEF AssertClaim, Owns
  <2> QED
    BY <2>1, LeaseStutters
<1>13. ASSUME NEW p \in Proc, Judge(p) PROVE Implements
  <2>1. /\ forfeited' = forfeited /\ stolen' = stolen
        /\ \A r \in Proc : (Owns(r)' <=> Owns(r)) /\ (status'[r] = "seeking" <=> status[r] = "seeking")
    BY <1>13 DEF Judge, Owns
  <2> QED
    BY <2>1, LeaseStutters
<1>14. ASSUME NEW p \in Proc, Undo(p) PROVE Implements
  <2>1. /\ forfeited' = forfeited /\ stolen' = stolen
        /\ \A r \in Proc : (Owns(r)' <=> Owns(r)) /\ (status'[r] = "seeking" <=> status[r] = "seeking")
    BY <1>14 DEF Undo, Owns
  <2> QED
    BY <2>1, LeaseStutters
<1>15. ASSUME NEW p \in Proc, DropQuarantine(p) PROVE Implements
  <2>1. /\ forfeited' = forfeited /\ stolen' = stolen
        /\ \A r \in Proc \ {p} : Owns(r)' <=> Owns(r)
        /\ \A r \in Proc : status'[r] = "seeking" <=> status[r] = "seeking"
        /\ Owns(p)' => Owns(p)
    BY <1>15 DEF DropQuarantine, Owns
  <2>2. CASE Owns(p)' <=> Owns(p)
    <3>1. \A r \in Proc : Owns(r)' <=> Owns(r)
      BY <2>1, <2>2 DEF Owns
    <3> QED
      BY <2>1, <3>1, LeaseStutters
  <2>3. CASE Owns(p) /\ ~Owns(p)'
    BY <2>1, <2>3, LeaseLeaves DEF Lease!Next
  <2> QED
    BY <2>1, <2>2, <2>3
<1>16. ASSUME NEW p \in Proc, DropClaim(p) PROVE Implements
  <2>1. /\ forfeited' = forfeited /\ stolen' = stolen
        /\ \A r \in Proc : (Owns(r)' <=> Owns(r)) /\ (status'[r] = "seeking" <=> status[r] = "seeking")
    BY <1>16 DEF DropClaim, Owns, AfterDrop
  <2> QED
    BY <2>1, LeaseStutters
<1>17. ASSUME NEW p \in Proc, DropRestore(p) PROVE Implements
  <2>1. /\ forfeited' = forfeited /\ stolen' = stolen
        /\ \A r \in Proc : (Owns(r)' <=> Owns(r)) /\ (status'[r] = "seeking" <=> status[r] = "seeking")
    BY <1>17 DEF DropRestore, Owns, AfterDrop
  <2> QED
    BY <2>1, LeaseStutters
<1>18. ASSUME NEW p \in Proc, RelAssert(p) PROVE Implements
  <2>1. /\ forfeited' = forfeited /\ stolen' = stolen
        /\ \A r \in Proc : (Owns(r)' <=> Owns(r)) /\ (status'[r] = "seeking" <=> status[r] = "seeking")
    BY <1>18 DEF RelAssert, Owns, StatusAt, LockInv
  <2> QED
    BY <2>1, LeaseStutters
<1>19. ASSUME NEW p \in Proc, RelMove(p) PROVE Implements
  <2>1. /\ forfeited' = forfeited /\ stolen' = stolen
        /\ \A r \in Proc : (Owns(r)' <=> Owns(r)) /\ (status'[r] = "seeking" <=> status[r] = "seeking")
    BY <1>19 DEF RelMove, Owns
  <2> QED
    BY <2>1, LeaseStutters
<1>20. ASSUME NEW p \in Proc, BeginRelease(p) PROVE Implements
  <2>1. /\ forfeited' = forfeited /\ stolen' = stolen
        /\ \A r \in Proc : (Owns(r)' <=> Owns(r)) /\ (status'[r] = "seeking" <=> status[r] = "seeking")
    BY <1>20 DEF BeginRelease, Owns
  <2> QED
    BY <2>1, LeaseStutters
<1>21. ASSUME NEW p \in Proc, BeatOpen(p) PROVE Implements
  <2>1. /\ forfeited' = forfeited /\ stolen' = stolen
        /\ \A r \in Proc : (Owns(r)' <=> Owns(r)) /\ (status'[r] = "seeking" <=> status[r] = "seeking")
    BY <1>21 DEF BeatOpen, Owns
  <2> QED
    BY <2>1, LeaseStutters
<1>22. ASSUME NEW p \in Proc, BeatTouch(p) PROVE Implements
  <2>1. /\ forfeited' = forfeited /\ stolen' = stolen
        /\ \A r \in Proc : (Owns(r)' <=> Owns(r)) /\ (status'[r] = "seeking" <=> status[r] = "seeking")
    BY <1>22 DEF BeatTouch, Owns
  <2> QED
    BY <2>1, LeaseStutters
<1>23. ASSUME NEW p \in Proc, BeatClaim(p) PROVE Implements
  <2>1. /\ forfeited' = forfeited /\ stolen' = stolen
        /\ \A r \in Proc : (Owns(r)' <=> Owns(r)) /\ (status'[r] = "seeking" <=> status[r] = "seeking")
    BY <1>23 DEF BeatClaim, Owns
  <2> QED
    BY <2>1, LeaseStutters
<1>24. ASSUME NEW p \in Proc, MarkUnverified(p) PROVE Implements
  <2>1. /\ forfeited' = forfeited /\ stolen' = stolen
        /\ \A r \in Proc : (Owns(r)' <=> Owns(r)) /\ (status'[r] = "seeking" <=> status[r] = "seeking")
    BY <1>24 DEF MarkUnverified, Owns
  <2> QED
    BY <2>1, LeaseStutters
<1>25. ASSUME NEW p \in Proc, Suspend(p) PROVE Implements
  <2>1. /\ forfeited' = forfeited /\ stolen' = stolen
        /\ \A r \in Proc : (Owns(r)' <=> Owns(r)) /\ (status'[r] = "seeking" <=> status[r] = "seeking")
    BY <1>25 DEF Suspend, Owns
  <2> QED
    BY <2>1, LeaseStutters
<1>26. ASSUME NEW p \in Proc, Resume(p) PROVE Implements
  <2>1. /\ forfeited' = forfeited /\ stolen' = stolen
        /\ \A r \in Proc : (Owns(r)' <=> Owns(r)) /\ (status'[r] = "seeking" <=> status[r] = "seeking")
    BY <1>26 DEF Resume, Owns
  <2> QED
    BY <2>1, LeaseStutters
<1>27. ASSUME NEW p \in Proc, Relink(p) PROVE Implements
  <2>1. /\ forfeited' = forfeited /\ stolen' = stolen
        /\ \A r \in Proc : (Owns(r)' <=> Owns(r)) /\ (status'[r] = "seeking" <=> status[r] = "seeking")
    BY <1>27 DEF Relink, Owns, Abort
  <2> QED
    BY <2>1, LeaseStutters
<1>28. ASSUME NEW p \in Proc, ClaimTimeout(p) PROVE Implements
  <2>1. /\ forfeited' = forfeited /\ stolen' = stolen
        /\ \A r \in Proc : (Owns(r)' <=> Owns(r)) /\ (status'[r] = "seeking" <=> status[r] = "seeking")
    BY <1>28 DEF ClaimTimeout, Owns, Abort
  <2> QED
    BY <2>1, LeaseStutters
<1>29. ASSUME NEW p \in Proc, RelRevive(p) PROVE Implements
  <2>1. /\ forfeited' = forfeited /\ stolen' = stolen
        /\ \A r \in Proc : (Owns(r)' <=> Owns(r)) /\ (status'[r] = "seeking" <=> status[r] = "seeking")
    BY <1>29 DEF RelRevive, Owns, StatusAt, LockInv
  <2> QED
    BY <2>1, LeaseStutters
<1>30. ASSUME NEW p \in Proc, RelRead(p) PROVE Implements
  <2>1. /\ forfeited' = forfeited /\ stolen' = stolen
        /\ \A r \in Proc \ {p} : Owns(r)' <=> Owns(r)
        /\ \A r \in Proc : status'[r] = "seeking" <=> status[r] = "seeking"
        /\ Owns(p)' => Owns(p)
    BY <1>30 DEF RelRead, Owns, Supersede, StatusAt, LockInv
  <2>2. CASE Owns(p)' <=> Owns(p)
    <3>1. \A r \in Proc : Owns(r)' <=> Owns(r)
      BY <2>1, <2>2 DEF Owns
    <3> QED
      BY <2>1, <3>1, LeaseStutters
  <2>3. CASE Owns(p) /\ ~Owns(p)'
    BY <2>1, <2>3, LeaseLeaves DEF Lease!Next
  <2> QED
    BY <2>1, <2>2, <2>3
<1>31. ASSUME NEW p \in Proc, RelRecheck(p) PROVE Implements
  <2>1. /\ forfeited' = forfeited /\ stolen' = stolen
        /\ \A r \in Proc \ {p} : Owns(r)' <=> Owns(r)
        /\ \A r \in Proc : status'[r] = "seeking" <=> status[r] = "seeking"
        /\ Owns(p)' => Owns(p)
    BY <1>31 DEF RelRecheck, Owns, Supersede, StatusAt, LockInv
  <2>2. CASE Owns(p)' <=> Owns(p)
    <3>1. \A r \in Proc : Owns(r)' <=> Owns(r)
      BY <2>1, <2>2 DEF Owns
    <3> QED
      BY <2>1, <3>1, LeaseStutters
  <2>3. CASE Owns(p) /\ ~Owns(p)'
    BY <2>1, <2>3, LeaseLeaves DEF Lease!Next
  <2> QED
    BY <2>1, <2>2, <2>3
<1>32. ASSUME NEW p \in Proc, RelVerify(p) PROVE Implements
  <2>1. /\ forfeited' = forfeited /\ stolen' = stolen
        /\ \A r \in Proc \ {p} : Owns(r)' <=> Owns(r)
        /\ \A r \in Proc : status'[r] = "seeking" <=> status[r] = "seeking"
        /\ Owns(p)' => Owns(p)
    BY <1>32 DEF RelVerify, Owns, StatusAt, LockInv
  <2>2. CASE Owns(p)' <=> Owns(p)
    <3>1. \A r \in Proc : Owns(r)' <=> Owns(r)
      BY <2>1, <2>2 DEF Owns
    <3> QED
      BY <2>1, <3>1, LeaseStutters
  <2>3. CASE Owns(p) /\ ~Owns(p)'
    BY <2>1, <2>3, LeaseLeaves DEF Lease!Next
  <2> QED
    BY <2>1, <2>2, <2>3
<1>33. ASSUME NEW p \in Proc, Quit(p) PROVE Implements
  <2>1. /\ forfeited' = forfeited /\ stolen' = stolen
        /\ \A r \in Proc \ {p} : Owns(r)' <=> Owns(r)
        /\ \A r \in Proc : status'[r] = "seeking" <=> status[r] = "seeking"
        /\ Owns(p)' => Owns(p)
    BY <1>33 DEF Quit, Owns, StatusAt, LockInv
  <2>2. CASE Owns(p)' <=> Owns(p)
    <3>1. \A r \in Proc : Owns(r)' <=> Owns(r)
      BY <2>1, <2>2 DEF Owns
    <3> QED
      BY <2>1, <3>1, LeaseStutters
  <2>3. CASE Owns(p) /\ ~Owns(p)'
    BY <2>1, <2>3, LeaseLeaves DEF Lease!Next
  <2> QED
    BY <2>1, <2>2, <2>3
<1>34. ASSUME NEW p \in Proc, Crash(p) PROVE Implements
  <2>1. /\ forfeited' = forfeited /\ stolen' = stolen
        /\ \A r \in Proc \ {p} : Owns(r)' <=> Owns(r)
        /\ \A r \in Proc : status'[r] = "seeking" <=> status[r] = "seeking"
        /\ Owns(p)' => Owns(p)
    BY <1>34 DEF Crash, Owns
  <2>2. CASE Owns(p)' <=> Owns(p)
    <3>1. \A r \in Proc : Owns(r)' <=> Owns(r)
      BY <2>1, <2>2 DEF Owns
    <3> QED
      BY <2>1, <3>1, LeaseStutters
  <2>3. CASE Owns(p) /\ ~Owns(p)'
    BY <2>1, <2>3, LeaseLeaves DEF Lease!Next
  <2> QED
    BY <2>1, <2>2, <2>3
<1>35. ASSUME NEW p \in Proc, RestoreLink(p) PROVE Implements
  <2>1. /\ forfeited' = forfeited /\ stolen' = stolen
        /\ \A r \in Proc : (Owns(r)' <=> Owns(r)) /\ (status'[r] = "seeking" <=> status[r] = "seeking")
    BY <1>35 DEF RestoreLink, Owns
  <2> QED
    BY <2>1, LeaseStutters
<1>36. ASSUME NEW p \in Proc, Publish(p) PROVE Implements
  <2>1. CASE lockFile = None
    BY <1>36, <2>1, LeaseAcquires DEF Lease!Next
  <2>2. CASE lockFile # None
    <3>1. /\ forfeited' = forfeited /\ stolen' = stolen
          /\ \A r \in Proc : (Owns(r)' <=> Owns(r)) /\ (status'[r] = "seeking" <=> status[r] = "seeking")
      BY <1>36, <2>2 DEF Publish, Owns
    <3> QED
      BY <3>1, LeaseStutters
  <2> QED
    BY <2>1, <2>2
<1>37. ASSUME NEW p \in Proc, Capture(p) PROVE Implements
  <2>1. status' = status /\ stolen' = stolen /\ \A r \in Proc : Owns(r)' <=> Owns(r)
    BY <1>37 DEF Capture, Owns
  <2>2. CASE forfeited' = forfeited
    BY <2>1, <2>2, LeaseStutters
  <2>3. CASE forfeited' # forfeited
    <3>1. lockFile \in Proc /\ forfeited' = forfeited \cup {lockFile} /\ status[lockFile] # "seeking"
      BY <1>37, <2>3 DEF Capture, LockInv
    <3> QED
      BY <2>1, <3>1, LeaseForfeits DEF Lease!Next
  <2> QED
    BY <2>2, <2>3
<1>38. ASSUME NEW p \in Proc, LapseLock(p) PROVE Implements
  <2>1. /\ status' = status /\ forfeited' = forfeited \cup {p} /\ status[p] # "seeking"
        /\ stolen' = stolen
        /\ \A r \in Proc : Owns(r)' <=> Owns(r)
    BY <1>38 DEF LapseLock, Owns, LockInv
  <2> QED
    BY <2>1, LeaseForfeits DEF Lease!Next
<1>39. CASE LapseClaim \/ UNCHANGED vars
  <2>1. /\ forfeited' = forfeited /\ stolen' = stolen
        /\ \A r \in Proc : (Owns(r)' <=> Owns(r)) /\ (status'[r] = "seeking" <=> status[r] = "seeking")
    BY <1>39 DEF LapseClaim, vars, Owns
  <2> QED
    BY <2>1, LeaseStutters
<1> QED
  BY <1>1, <1>2, <1>3, <1>4, <1>5, <1>6, <1>7, <1>8, <1>9, <1>10, <1>11, <1>12, <1>13, <1>14, <1>15, <1>16, <1>17, <1>18, <1>19, <1>20, <1>21, <1>22, <1>23, <1>24, <1>25, <1>26, <1>27, <1>28, <1>29, <1>30, <1>31, <1>32, <1>33, <1>34, <1>35, <1>36, <1>37, <1>38, <1>39
  DEF Next, Step, AcquireClaim, AcquireUnderClaim, Release, Finished

\* The protocol of lock.ts implements the abstract lease: every step of every
\* instance, under every fault, is a step of the lease or nothing to it.
THEOREM ImplementsLease == Spec => LeaseSpec
<1>1. TypeOK /\ LockInv /\ [Next]_vars => [Lease!Next]_<<Owners, forfeited, Past, stolen>>
  BY LeaseStep
<1> QED
  BY <1>1, LeaseInit, TypeCorrect, LockInvariant, PTL
  DEF Spec, LeaseSpec, Lease!Spec, Lease!lvars
=============================================================================
