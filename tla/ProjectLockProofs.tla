-------------------------- MODULE ProjectLockProofs --------------------------
(* Theorems about ProjectLock, for every set of invocations and every choice *)
(* of the points at which they die or are suspended.                         *)
EXTENDS ProjectLock, TLAPS

\* Initially every variable is in its domain.
LEMMA InitTypeOK == Init => TypeOK
<1> SUFFICES ASSUME Init PROVE TypeOK
  OBVIOUS
<1>1. /\ pc \in [Proc -> Label] /\ claimNo \in [Proc -> 0 .. MaxClaims]
      /\ \A p \in Proc : pc[p] = "start" /\ claimNo[p] = 0
  BY LockAssumption DEF Init, Label
<1>2. /\ quarantine \in [Claim -> Proc \cup {None}]
      /\ obs \in [Proc -> Claim \cup {NoClaim}]
      /\ moved \in [Proc -> Claim \cup {NoClaim}]
  BY DEF Init
<1>3. /\ status \in [Proc -> {"seeking", "owning", "drained", "gone"}]
      /\ captured \in [Proc -> BOOLEAN]
      /\ hb \in [Proc -> {"off", "on", "open"}]
      /\ claimHb \in [Proc -> BOOLEAN]
  BY DEF Init
<1>4. \A p \in Proc : claimNo[p] < MaxClaims
  BY <1>1, LockAssumption
<1>5. /\ lockFile \in Proc \cup {None} /\ claimFile \in Claim \cup {NoClaim}
  BY DEF Init
<1>6. /\ staleLocks \subseteq Proc /\ staleClaims \subseteq Claim
      /\ barrier \in BOOLEAN /\ stalled \subseteq Proc /\ forfeited \subseteq Proc
      /\ stolen \in BOOLEAN /\ keptClaim \subseteq Proc
  BY DEF Init
<1>7. suspensions \in 0 .. MaxSuspensions
  BY LockAssumption DEF Init
<1> QED
  BY <1>1, <1>2, <1>3, <1>4, <1>5, <1>6, <1>7 DEF TypeOK, Recovering, Transition

\* The calls of acquireClaim and recoverAbandonedClaim stay in the domains.
LEMMA ClaimTypes ==
  ASSUME TypeOK, NEW p \in Proc, AcquireClaim(p)
  PROVE  TypeOK'
<1> USE LockAssumption DEF TypeOK, At, Goto, Label, Claiming, Transition, Ended,
      Recovering, files, clocks, history, locals, beats
<1>1. CASE Start(p)
  BY <1>1 DEF Start
<1>2. CASE Observe(p)
  BY <1>2 DEF Observe
<1>3. CASE Seize(p)
  <2>1. CASE Fails(p) /\ Goto(p, "observe") /\ UNCHANGED <<moved, claimFile, stolen>>
    BY <1>3, <2>1 DEF Seize
  <2>2. CASE ~(Goto(p, "observe") /\ UNCHANGED <<moved, claimFile, stolen>>)
    <3>1. /\ moved' = [moved EXCEPT ![p] = claimFile] /\ claimFile' = NoClaim
          /\ stolen' = (stolen \/ \E o \in Proc : pc[o] \in Transition /\ Owned(o))
          /\ pc' = [pc EXCEPT ![p] = IF claimFile = NoClaim THEN "publishClaim" ELSE "inspect"]
      BY <1>3, <2>2 DEF Seize
    <3> QED
      BY <1>3, <3>1 DEF Seize
  <2> QED
    BY <1>3, <2>1, <2>2 DEF Seize
<1>4. CASE Inspect(p)
  BY <1>4 DEF Inspect
<1>5. CASE Putback(p)
  BY <1>5 DEF Putback
<1>6. CASE Salvage(p)
  BY <1>6 DEF Salvage
<1>7. CASE SalvageFile(p)
  BY <1>7 DEF SalvageFile
<1>8. CASE Relink(p)
  <2>1. quarantine[moved[p]] \in Proc \cup {None}
    BY <1>8 DEF Relink
  <2> QED
    BY <1>8, <2>1 DEF Relink, Abort
<1>9. CASE DropSalvaged(p)
  BY <1>9 DEF DropSalvaged, Abort
<1>10. CASE PublishClaim(p)
  <2>1. CASE claimFile = NoClaim
    <3>1. claimNo[p] + 1 \in 1 .. MaxClaims
      BY <1>10 DEF PublishClaim
    <3>2. <<p, claimNo[p] + 1>> \in Claim
      BY <3>1 DEF Claim
    <3>3. pc' \in [Proc -> Label] /\ pc'[p] \in {"admit", "relRead"}
      BY <1>10, <2>1 DEF PublishClaim
    <3>4. claimNo' \in [Proc -> 0 .. MaxClaims]
      BY <1>10, <2>1, <3>1 DEF PublishClaim
    <3>5. \A r \in Proc : pc'[r] \in Claiming \cup {"start"} => claimNo'[r] < MaxClaims
      BY <1>10, <2>1, <3>3 DEF PublishClaim
    <3>6. \A r \in Proc : pc'[r] \in Recovering => moved'[r] # NoClaim
      BY <1>10, <2>1, <3>3 DEF PublishClaim
    <3>7. \A r \in Proc : pc'[r] \in Transition => claimNo'[r] # 0
      BY <1>10, <2>1, <3>1 DEF PublishClaim
    <3> QED
      BY <1>10, <2>1, <3>7, <3>2, <3>3, <3>4, <3>5, <3>6, ZenonT(30) DEF PublishClaim
  <2>2. CASE claimFile # NoClaim
    BY <1>10, <2>2 DEF PublishClaim
  <2> QED
    BY <2>1, <2>2
<1> QED
  BY <1>1, <1>2, <1>3, <1>4, <1>5, <1>6, <1>7, <1>8, <1>9, <1>10 DEF AcquireClaim

\* So do those of acquireLock under the claim.
LEMMA AcquireTypes ==
  ASSUME TypeOK, NEW p \in Proc, AcquireUnderClaim(p)
  PROVE  TypeOK'
<1> USE LockAssumption DEF TypeOK, At, Goto, Label, Claiming, Transition, Ended,
      Recovering, files, clocks, history, locals, beats
<1>1. CASE Admit(p)
  BY <1>1 DEF Admit
<1>2. CASE Read(p)
  BY <1>2 DEF Read
<1>3. CASE AssertClaim(p)
  BY <1>3 DEF AssertClaim
<1>4. CASE Capture(p)
  BY <1>4 DEF Capture
<1>5. CASE Judge(p)
  BY <1>5 DEF Judge
<1>6. CASE Publish(p)
  BY <1>6 DEF Publish
<1>7. CASE Undo(p)
  BY <1>7 DEF Undo
<1>8. CASE RestoreLink(p)
  <2>1. Tok(p) \in Claim
    BY <1>8 DEF RestoreLink, Tok, Claim
  <2>2. lockFile' \in Proc \cup {None}
    BY <1>8, <2>1 DEF RestoreLink
  <2> QED
    BY <1>8, <2>2 DEF RestoreLink
<1>9. CASE DropQuarantine(p)
  BY <1>9 DEF DropQuarantine
<1>10. CASE DropClaim(p)
  BY <1>10 DEF DropClaim, AfterDrop
<1>11. CASE DropRestore(p)
  BY <1>11 DEF DropRestore, AfterDrop
<1> QED
  BY <1>1, <1>2, <1>3, <1>4, <1>5, <1>6, <1>7, <1>8, <1>9, <1>10, <1>11 DEF AcquireUnderClaim

\* So do those of release.
LEMMA ReleaseTypes ==
  ASSUME TypeOK, NEW p \in Proc, Release(p)
  PROVE  TypeOK'
<1> USE LockAssumption DEF TypeOK, At, Goto, Label, Claiming, Transition, Ended,
      Recovering, files, clocks, history, locals, beats
<1>1. CASE RelRead(p)
  BY <1>1 DEF RelRead, Supersede
<1>2. CASE RelAssert(p)
  BY <1>2 DEF RelAssert
<1>3. CASE RelRecheck(p)
  BY <1>3 DEF RelRecheck, Supersede
<1>4. CASE RelMove(p)
  BY <1>4 DEF RelMove
<1>5. CASE RelVerify(p)
  BY <1>5 DEF RelVerify
<1>6. CASE RelRevive(p)
  BY <1>6 DEF RelRevive
<1> QED
  BY <1>1, <1>2, <1>3, <1>4, <1>5, <1>6 DEF Release

\* So do heartbeats, the passing of time, and faults.
LEMMA WorldTypes ==
  ASSUME TypeOK, NEW p \in Proc,
         \/ BeginRelease(p) \/ Quit(p) \/ ClaimTimeout(p) \/ BeatOpen(p) \/ BeatTouch(p)
         \/ BeatClaim(p) \/ LapseLock(p) \/ MarkUnverified(p) \/ Crash(p) \/ Suspend(p)
         \/ Resume(p) \/ LapseClaim
  PROVE  TypeOK'
<1> USE LockAssumption DEF TypeOK, At, Goto, Label, Claiming, Transition, Ended,
      Recovering, files, clocks, history, locals, beats
<1>1. CASE BeginRelease(p)
  BY <1>1 DEF BeginRelease
<1>2. CASE Quit(p)
  BY <1>2 DEF Quit
<1>3. CASE ClaimTimeout(p)
  BY <1>3 DEF ClaimTimeout, Abort
<1>4. CASE BeatOpen(p)
  BY <1>4 DEF BeatOpen
<1>5. CASE BeatTouch(p)
  BY <1>5 DEF BeatTouch
<1>6. CASE BeatClaim(p)
  BY <1>6 DEF BeatClaim, Owned, Tok
<1>7. CASE LapseLock(p)
  BY <1>7 DEF LapseLock
<1>8. CASE MarkUnverified(p)
  BY <1>8 DEF MarkUnverified
<1>9. CASE Crash(p)
  BY <1>9 DEF Crash
<1>10. CASE Suspend(p)
  BY <1>10 DEF Suspend
<1>11. CASE Resume(p)
  BY <1>11 DEF Resume
<1>12. CASE LapseClaim
  BY <1>12 DEF LapseClaim, FreshClaim
<1> QED
  BY <1>1, <1>2, <1>3, <1>4, <1>5, <1>6, <1>7, <1>8, <1>9, <1>10, <1>11, <1>12

\* Every step keeps every variable in its domain.
LEMMA TypeStep == TypeOK /\ [Next]_vars => TypeOK'
<1> SUFFICES ASSUME TypeOK, [Next]_vars PROVE TypeOK'
  OBVIOUS
<1>1. CASE UNCHANGED vars
  BY <1>1 DEF vars, files, clocks, history, locals, beats, TypeOK
<1>2. CASE LapseClaim
  <2>1. CASE Proc = {}
    BY <1>2, <2>1 DEF LapseClaim, FreshClaim, TypeOK, Claim
  <2>2. CASE Proc # {}
    BY <1>2, <2>2, WorldTypes
  <2> QED
    BY <2>1, <2>2
<1>3. CASE Next /\ ~LapseClaim /\ ~UNCHANGED vars
  <2>1. PICK p \in Proc :
          \/ Step(p) \/ BeginRelease(p) \/ Quit(p) \/ ClaimTimeout(p) \/ BeatOpen(p)
          \/ BeatClaim(p) \/ LapseLock(p) \/ MarkUnverified(p) \/ Crash(p) \/ Suspend(p)
          \/ Resume(p)
    BY <1>3 DEF Next, Finished
  <2> QED
    BY <2>1, ClaimTypes, AcquireTypes, ReleaseTypes, WorldTypes DEF Step
<1> QED
  BY <1>1, <1>2, <1>3

\* Every variable keeps its type, and a recovery that has renamed a claim away
\* knows which one.
THEOREM TypeCorrect == Spec => []TypeOK
<1>1. TypeOK /\ [Next]_vars => TypeOK'
  BY TypeStep
<1> QED
  BY InitTypeOK, <1>1, PTL DEF Spec

-----------------------------------------------------------------------------
(* The status of an invocation and its label go together.                    *)

\* What an invocation has achieved follows where it is.
LEMMA StatusStep ==
  ASSUME TypeOK, \A r \in Proc : StatusAt(r), [Next]_vars
  PROVE  \A r \in Proc : StatusAt(r)'
<1> SUFFICES ASSUME NEW r \in Proc PROVE StatusAt(r)'
  OBVIOUS
<1> USE DEF TypeOK, StatusAt, At, Goto, Claiming, files, clocks, history, locals, beats
<1>1. ASSUME NEW p \in Proc, Start(p) PROVE StatusAt(r)'
  BY <1>1 DEF Start
<1>2. ASSUME NEW p \in Proc, Observe(p) PROVE StatusAt(r)'
  BY <1>2 DEF Observe
<1>3. ASSUME NEW p \in Proc, Seize(p) PROVE StatusAt(r)'
  BY <1>3 DEF Seize
<1>4. ASSUME NEW p \in Proc, Inspect(p) PROVE StatusAt(r)'
  BY <1>4 DEF Inspect
<1>5. ASSUME NEW p \in Proc, Putback(p) PROVE StatusAt(r)'
  BY <1>5 DEF Putback
<1>6. ASSUME NEW p \in Proc, Salvage(p) PROVE StatusAt(r)'
  BY <1>6 DEF Salvage
<1>7. ASSUME NEW p \in Proc, SalvageFile(p) PROVE StatusAt(r)'
  BY <1>7 DEF SalvageFile
<1>8. ASSUME NEW p \in Proc, Relink(p) PROVE StatusAt(r)'
  BY <1>8 DEF Relink, Abort
<1>9. ASSUME NEW p \in Proc, DropSalvaged(p) PROVE StatusAt(r)'
  BY <1>9 DEF DropSalvaged, Abort
<1>10. ASSUME NEW p \in Proc, PublishClaim(p) PROVE StatusAt(r)'
  BY <1>10 DEF PublishClaim
<1>11. ASSUME NEW p \in Proc, Admit(p) PROVE StatusAt(r)'
  BY <1>11 DEF Admit
<1>12. ASSUME NEW p \in Proc, Read(p) PROVE StatusAt(r)'
  BY <1>12 DEF Read
<1>13. ASSUME NEW p \in Proc, AssertClaim(p) PROVE StatusAt(r)'
  BY <1>13 DEF AssertClaim
<1>14. ASSUME NEW p \in Proc, Capture(p) PROVE StatusAt(r)'
  BY <1>14 DEF Capture
<1>15. ASSUME NEW p \in Proc, Judge(p) PROVE StatusAt(r)'
  BY <1>15 DEF Judge
<1>16. ASSUME NEW p \in Proc, Publish(p) PROVE StatusAt(r)'
  BY <1>16 DEF Publish
<1>17. ASSUME NEW p \in Proc, Undo(p) PROVE StatusAt(r)'
  BY <1>17 DEF Undo
<1>18. ASSUME NEW p \in Proc, RestoreLink(p) PROVE StatusAt(r)'
  BY <1>18 DEF RestoreLink
<1>19. ASSUME NEW p \in Proc, DropQuarantine(p) PROVE StatusAt(r)'
  BY <1>19 DEF DropQuarantine
<1>20. ASSUME NEW p \in Proc, DropClaim(p) PROVE StatusAt(r)'
  BY <1>20 DEF DropClaim, AfterDrop
<1>21. ASSUME NEW p \in Proc, DropRestore(p) PROVE StatusAt(r)'
  BY <1>21 DEF DropRestore, AfterDrop
<1>22. ASSUME NEW p \in Proc, RelRead(p) PROVE StatusAt(r)'
  BY <1>22 DEF RelRead, Supersede
<1>23. ASSUME NEW p \in Proc, RelAssert(p) PROVE StatusAt(r)'
  BY <1>23 DEF RelAssert
<1>24. ASSUME NEW p \in Proc, RelRecheck(p) PROVE StatusAt(r)'
  BY <1>24 DEF RelRecheck, Supersede
<1>25. ASSUME NEW p \in Proc, RelMove(p) PROVE StatusAt(r)'
  BY <1>25 DEF RelMove
<1>26. ASSUME NEW p \in Proc, RelVerify(p) PROVE StatusAt(r)'
  BY <1>26 DEF RelVerify
<1>27. ASSUME NEW p \in Proc, RelRevive(p) PROVE StatusAt(r)'
  BY <1>27 DEF RelRevive
<1>28. ASSUME NEW p \in Proc, BeginRelease(p) PROVE StatusAt(r)'
  BY <1>28 DEF BeginRelease
<1>29. ASSUME NEW p \in Proc, Quit(p) PROVE StatusAt(r)'
  BY <1>29 DEF Quit
<1>30. ASSUME NEW p \in Proc, ClaimTimeout(p) PROVE StatusAt(r)'
  BY <1>30 DEF ClaimTimeout, Abort
<1>31. ASSUME NEW p \in Proc, BeatOpen(p) PROVE StatusAt(r)'
  BY <1>31 DEF BeatOpen
<1>32. ASSUME NEW p \in Proc, BeatTouch(p) PROVE StatusAt(r)'
  BY <1>32 DEF BeatTouch
<1>33. ASSUME NEW p \in Proc, BeatClaim(p) PROVE StatusAt(r)'
  BY <1>33 DEF BeatClaim
<1>34. ASSUME NEW p \in Proc, LapseLock(p) PROVE StatusAt(r)'
  BY <1>34 DEF LapseLock
<1>35. ASSUME NEW p \in Proc, MarkUnverified(p) PROVE StatusAt(r)'
  BY <1>35 DEF MarkUnverified
<1>36. ASSUME NEW p \in Proc, Crash(p) PROVE StatusAt(r)'
  BY <1>36 DEF Crash
<1>37. ASSUME NEW p \in Proc, Suspend(p) PROVE StatusAt(r)'
  BY <1>37 DEF Suspend
<1>38. ASSUME NEW p \in Proc, Resume(p) PROVE StatusAt(r)'
  BY <1>38 DEF Resume
<1>39. CASE LapseClaim \/ UNCHANGED vars
  BY <1>39 DEF LapseClaim, vars
<1> QED
  BY <1>1, <1>2, <1>3, <1>4, <1>5, <1>6, <1>7, <1>8, <1>9, <1>10, <1>11, <1>12, <1>13, <1>14, <1>15, <1>16, <1>17, <1>18, <1>19, <1>20, <1>21, <1>22, <1>23, <1>24, <1>25, <1>26, <1>27, <1>28, <1>29, <1>30, <1>31, <1>32, <1>33, <1>34, <1>35, <1>36, <1>37, <1>38, <1>39
  DEF Next, Step, AcquireClaim, AcquireUnderClaim, Release, Finished

-----------------------------------------------------------------------------
(* The parts of the inductive invariant.                                    *)

Published ==
  \A p \in Proc : lockFile = p \/ (\E c \in Claim : quarantine[c] = p)
                  => status[p] # "seeking"

\* A file holds only the token of an invocation that has published it.
LEMMA PublishedStep ==
  ASSUME TypeOK, Published, \A r \in Proc : StatusAt(r), [Next]_vars
  PROVE  Published'
<1> USE LockAssumption DEF TypeOK, Published, At, Goto, Tok, files, clocks, history, locals, beats
<1>1. ASSUME NEW p \in Proc, Start(p) PROVE Published'
  BY <1>1 DEF Start
<1>2. ASSUME NEW p \in Proc, Observe(p) PROVE Published'
  BY <1>2 DEF Observe
<1>3. ASSUME NEW p \in Proc, Seize(p) PROVE Published'
  BY <1>3 DEF Seize
<1>4. ASSUME NEW p \in Proc, Inspect(p) PROVE Published'
  BY <1>4 DEF Inspect
<1>5. ASSUME NEW p \in Proc, Putback(p) PROVE Published'
  BY <1>5 DEF Putback
<1>6. ASSUME NEW p \in Proc, Salvage(p) PROVE Published'
  BY <1>6 DEF Salvage
<1>7. ASSUME NEW p \in Proc, SalvageFile(p) PROVE Published'
  BY <1>7 DEF SalvageFile
<1>8. ASSUME NEW p \in Proc, Relink(p) PROVE Published'
  <2>1. moved[p] \in Claim
    BY <1>8 DEF Relink, Recovering
  <2>2. /\ quarantine' = quarantine /\ status' = status
        /\ lockFile' = lockFile \/ lockFile' = quarantine[moved[p]]
    BY <1>8 DEF Relink
  <2> QED
    BY <2>1, <2>2
<1>9. ASSUME NEW p \in Proc, DropSalvaged(p) PROVE Published'
  BY <1>9 DEF DropSalvaged, Abort
<1>10. ASSUME NEW p \in Proc, PublishClaim(p) PROVE Published'
  BY <1>10 DEF PublishClaim
<1>11. ASSUME NEW p \in Proc, Admit(p) PROVE Published'
  BY <1>11 DEF Admit
<1>12. ASSUME NEW p \in Proc, Read(p) PROVE Published'
  BY <1>12 DEF Read
<1>13. ASSUME NEW p \in Proc, AssertClaim(p) PROVE Published'
  BY <1>13 DEF AssertClaim
<1>14. ASSUME NEW p \in Proc, Capture(p) PROVE Published'
  BY <1>14 DEF Capture
<1>15. ASSUME NEW p \in Proc, Judge(p) PROVE Published'
  BY <1>15 DEF Judge
<1>16. ASSUME NEW p \in Proc, Publish(p) PROVE Published'
  BY <1>16 DEF Publish
<1>17. ASSUME NEW p \in Proc, Undo(p) PROVE Published'
  BY <1>17 DEF Undo
<1>18. ASSUME NEW p \in Proc, RestoreLink(p) PROVE Published'
  <2>1. Tok(p) \in Claim
    BY <1>18 DEF RestoreLink, Claim, Transition
  <2>2. /\ quarantine' = quarantine
        /\ lockFile' = lockFile \/ lockFile' = quarantine[Tok(p)]
        /\ status' = status
    BY <1>18 DEF RestoreLink
  <2> QED
    BY <2>1, <2>2
<1>19. ASSUME NEW p \in Proc, DropQuarantine(p) PROVE Published'
  BY <1>19 DEF DropQuarantine
<1>20. ASSUME NEW p \in Proc, DropClaim(p) PROVE Published'
  BY <1>20 DEF DropClaim, AfterDrop
<1>21. ASSUME NEW p \in Proc, DropRestore(p) PROVE Published'
  BY <1>21 DEF DropRestore, AfterDrop
<1>22. ASSUME NEW p \in Proc, RelRead(p) PROVE Published'
  BY <1>22 DEF RelRead, Supersede
<1>23. ASSUME NEW p \in Proc, RelAssert(p) PROVE Published'
  BY <1>23 DEF RelAssert
<1>24. ASSUME NEW p \in Proc, RelRecheck(p) PROVE Published'
  BY <1>24 DEF RelRecheck, Supersede
<1>25. ASSUME NEW p \in Proc, RelMove(p) PROVE Published'
  BY <1>25 DEF RelMove
<1>26. ASSUME NEW p \in Proc, RelVerify(p) PROVE Published'
  BY <1>26 DEF RelVerify
<1>27. ASSUME NEW p \in Proc, RelRevive(p) PROVE Published'
  BY <1>27 DEF RelRevive
<1>28. ASSUME NEW p \in Proc, BeginRelease(p) PROVE Published'
  BY <1>28 DEF BeginRelease
<1>29. ASSUME NEW p \in Proc, Quit(p) PROVE Published'
  BY <1>29 DEF Quit
<1>30. ASSUME NEW p \in Proc, ClaimTimeout(p) PROVE Published'
  BY <1>30 DEF ClaimTimeout, Abort
<1>31. ASSUME NEW p \in Proc, BeatOpen(p) PROVE Published'
  BY <1>31 DEF BeatOpen
<1>32. ASSUME NEW p \in Proc, BeatTouch(p) PROVE Published'
  BY <1>32 DEF BeatTouch
<1>33. ASSUME NEW p \in Proc, BeatClaim(p) PROVE Published'
  BY <1>33 DEF BeatClaim
<1>34. ASSUME NEW p \in Proc, LapseLock(p) PROVE Published'
  BY <1>34 DEF LapseLock
<1>35. ASSUME NEW p \in Proc, MarkUnverified(p) PROVE Published'
  BY <1>35 DEF MarkUnverified
<1>36. ASSUME NEW p \in Proc, Crash(p) PROVE Published'
  BY <1>36 DEF Crash
<1>37. ASSUME NEW p \in Proc, Suspend(p) PROVE Published'
  BY <1>37 DEF Suspend
<1>38. ASSUME NEW p \in Proc, Resume(p) PROVE Published'
  BY <1>38 DEF Resume
<1>39. CASE LapseClaim \/ UNCHANGED vars
  BY <1>39 DEF LapseClaim, vars
<1> QED
  BY <1>1, <1>2, <1>3, <1>4, <1>5, <1>6, <1>7, <1>8, <1>9, <1>10, <1>11, <1>12, <1>13, <1>14, <1>15, <1>16, <1>17, <1>18, <1>19, <1>20, <1>21, <1>22, <1>23, <1>24, <1>25, <1>26, <1>27, <1>28, <1>29, <1>30, <1>31, <1>32, <1>33, <1>34, <1>35, <1>36, <1>37, <1>38, <1>39
  DEF Next, Step, AcquireClaim, AcquireUnderClaim, Release, Finished

\* A lock older than its TTL is forfeited.
LEMMA StaleStep ==
  ASSUME TypeOK, staleLocks \subseteq forfeited, [Next]_vars
  PROVE  (staleLocks \subseteq forfeited)'
<1> USE LockAssumption DEF files, clocks, history, locals, beats
<1>1. ASSUME NEW p \in Proc, Start(p) PROVE (staleLocks \subseteq forfeited)'
  BY <1>1 DEF Start
<1>2. ASSUME NEW p \in Proc, Observe(p) PROVE (staleLocks \subseteq forfeited)'
  BY <1>2 DEF Observe
<1>3. ASSUME NEW p \in Proc, Seize(p) PROVE (staleLocks \subseteq forfeited)'
  BY <1>3 DEF Seize
<1>4. ASSUME NEW p \in Proc, Inspect(p) PROVE (staleLocks \subseteq forfeited)'
  BY <1>4 DEF Inspect
<1>5. ASSUME NEW p \in Proc, Putback(p) PROVE (staleLocks \subseteq forfeited)'
  BY <1>5 DEF Putback
<1>6. ASSUME NEW p \in Proc, Salvage(p) PROVE (staleLocks \subseteq forfeited)'
  BY <1>6 DEF Salvage
<1>7. ASSUME NEW p \in Proc, SalvageFile(p) PROVE (staleLocks \subseteq forfeited)'
  BY <1>7 DEF SalvageFile
<1>8. ASSUME NEW p \in Proc, Relink(p) PROVE (staleLocks \subseteq forfeited)'
  BY <1>8 DEF Relink, Abort
<1>9. ASSUME NEW p \in Proc, DropSalvaged(p) PROVE (staleLocks \subseteq forfeited)'
  BY <1>9 DEF DropSalvaged, Abort
<1>10. ASSUME NEW p \in Proc, PublishClaim(p) PROVE (staleLocks \subseteq forfeited)'
  BY <1>10 DEF PublishClaim
<1>11. ASSUME NEW p \in Proc, Admit(p) PROVE (staleLocks \subseteq forfeited)'
  BY <1>11 DEF Admit
<1>12. ASSUME NEW p \in Proc, Read(p) PROVE (staleLocks \subseteq forfeited)'
  BY <1>12 DEF Read
<1>13. ASSUME NEW p \in Proc, AssertClaim(p) PROVE (staleLocks \subseteq forfeited)'
  BY <1>13 DEF AssertClaim
<1>14. ASSUME NEW p \in Proc, Capture(p) PROVE (staleLocks \subseteq forfeited)'
  BY <1>14 DEF Capture
<1>15. ASSUME NEW p \in Proc, Judge(p) PROVE (staleLocks \subseteq forfeited)'
  BY <1>15 DEF Judge
<1>16. ASSUME NEW p \in Proc, Publish(p) PROVE (staleLocks \subseteq forfeited)'
  BY <1>16 DEF Publish
<1>17. ASSUME NEW p \in Proc, Undo(p) PROVE (staleLocks \subseteq forfeited)'
  BY <1>17 DEF Undo
<1>18. ASSUME NEW p \in Proc, RestoreLink(p) PROVE (staleLocks \subseteq forfeited)'
  BY <1>18 DEF RestoreLink
<1>19. ASSUME NEW p \in Proc, DropQuarantine(p) PROVE (staleLocks \subseteq forfeited)'
  BY <1>19 DEF DropQuarantine
<1>20. ASSUME NEW p \in Proc, DropClaim(p) PROVE (staleLocks \subseteq forfeited)'
  BY <1>20 DEF DropClaim, AfterDrop
<1>21. ASSUME NEW p \in Proc, DropRestore(p) PROVE (staleLocks \subseteq forfeited)'
  BY <1>21 DEF DropRestore, AfterDrop
<1>22. ASSUME NEW p \in Proc, RelRead(p) PROVE (staleLocks \subseteq forfeited)'
  BY <1>22 DEF RelRead, Supersede
<1>23. ASSUME NEW p \in Proc, RelAssert(p) PROVE (staleLocks \subseteq forfeited)'
  BY <1>23 DEF RelAssert
<1>24. ASSUME NEW p \in Proc, RelRecheck(p) PROVE (staleLocks \subseteq forfeited)'
  BY <1>24 DEF RelRecheck, Supersede
<1>25. ASSUME NEW p \in Proc, RelMove(p) PROVE (staleLocks \subseteq forfeited)'
  BY <1>25 DEF RelMove
<1>26. ASSUME NEW p \in Proc, RelVerify(p) PROVE (staleLocks \subseteq forfeited)'
  BY <1>26 DEF RelVerify
<1>27. ASSUME NEW p \in Proc, RelRevive(p) PROVE (staleLocks \subseteq forfeited)'
  BY <1>27 DEF RelRevive
<1>28. ASSUME NEW p \in Proc, BeginRelease(p) PROVE (staleLocks \subseteq forfeited)'
  BY <1>28 DEF BeginRelease
<1>29. ASSUME NEW p \in Proc, Quit(p) PROVE (staleLocks \subseteq forfeited)'
  BY <1>29 DEF Quit
<1>30. ASSUME NEW p \in Proc, ClaimTimeout(p) PROVE (staleLocks \subseteq forfeited)'
  BY <1>30 DEF ClaimTimeout, Abort
<1>31. ASSUME NEW p \in Proc, BeatOpen(p) PROVE (staleLocks \subseteq forfeited)'
  BY <1>31 DEF BeatOpen
<1>32. ASSUME NEW p \in Proc, BeatTouch(p) PROVE (staleLocks \subseteq forfeited)'
  BY <1>32 DEF BeatTouch
<1>33. ASSUME NEW p \in Proc, BeatClaim(p) PROVE (staleLocks \subseteq forfeited)'
  BY <1>33 DEF BeatClaim
<1>34. ASSUME NEW p \in Proc, LapseLock(p) PROVE (staleLocks \subseteq forfeited)'
  BY <1>34 DEF LapseLock
<1>35. ASSUME NEW p \in Proc, MarkUnverified(p) PROVE (staleLocks \subseteq forfeited)'
  BY <1>35 DEF MarkUnverified
<1>36. ASSUME NEW p \in Proc, Crash(p) PROVE (staleLocks \subseteq forfeited)'
  BY <1>36 DEF Crash
<1>37. ASSUME NEW p \in Proc, Suspend(p) PROVE (staleLocks \subseteq forfeited)'
  BY <1>37 DEF Suspend
<1>38. ASSUME NEW p \in Proc, Resume(p) PROVE (staleLocks \subseteq forfeited)'
  BY <1>38 DEF Resume
<1>39. CASE LapseClaim \/ UNCHANGED vars
  BY <1>39 DEF LapseClaim, vars
<1> QED
  BY <1>1, <1>2, <1>3, <1>4, <1>5, <1>6, <1>7, <1>8, <1>9, <1>10, <1>11, <1>12, <1>13, <1>14, <1>15, <1>16, <1>17, <1>18, <1>19, <1>20, <1>21, <1>22, <1>23, <1>24, <1>25, <1>26, <1>27, <1>28, <1>29, <1>30, <1>31, <1>32, <1>33, <1>34, <1>35, <1>36, <1>37, <1>38, <1>39
  DEF Next, Step, AcquireClaim, AcquireUnderClaim, Release, Finished

\* Once a claim was stolen, it was.
LEMMA StolenStep ==
  ASSUME TypeOK, ~stolen', [Next]_vars
  PROVE  ~stolen
<1> USE LockAssumption DEF TypeOK, files, clocks, history, locals, beats
<1>1. ASSUME NEW p \in Proc, Start(p) PROVE ~stolen
  BY <1>1 DEF Start
<1>2. ASSUME NEW p \in Proc, Observe(p) PROVE ~stolen
  BY <1>2 DEF Observe
<1>3. ASSUME NEW p \in Proc, Seize(p) PROVE ~stolen
  BY <1>3 DEF Seize
<1>4. ASSUME NEW p \in Proc, Inspect(p) PROVE ~stolen
  BY <1>4 DEF Inspect
<1>5. ASSUME NEW p \in Proc, Putback(p) PROVE ~stolen
  BY <1>5 DEF Putback
<1>6. ASSUME NEW p \in Proc, Salvage(p) PROVE ~stolen
  BY <1>6 DEF Salvage
<1>7. ASSUME NEW p \in Proc, SalvageFile(p) PROVE ~stolen
  BY <1>7 DEF SalvageFile
<1>8. ASSUME NEW p \in Proc, Relink(p) PROVE ~stolen
  BY <1>8 DEF Relink, Abort
<1>9. ASSUME NEW p \in Proc, DropSalvaged(p) PROVE ~stolen
  BY <1>9 DEF DropSalvaged, Abort
<1>10. ASSUME NEW p \in Proc, PublishClaim(p) PROVE ~stolen
  BY <1>10 DEF PublishClaim
<1>11. ASSUME NEW p \in Proc, Admit(p) PROVE ~stolen
  BY <1>11 DEF Admit
<1>12. ASSUME NEW p \in Proc, Read(p) PROVE ~stolen
  BY <1>12 DEF Read
<1>13. ASSUME NEW p \in Proc, AssertClaim(p) PROVE ~stolen
  BY <1>13 DEF AssertClaim
<1>14. ASSUME NEW p \in Proc, Capture(p) PROVE ~stolen
  BY <1>14 DEF Capture
<1>15. ASSUME NEW p \in Proc, Judge(p) PROVE ~stolen
  BY <1>15 DEF Judge
<1>16. ASSUME NEW p \in Proc, Publish(p) PROVE ~stolen
  BY <1>16 DEF Publish
<1>17. ASSUME NEW p \in Proc, Undo(p) PROVE ~stolen
  BY <1>17 DEF Undo
<1>18. ASSUME NEW p \in Proc, RestoreLink(p) PROVE ~stolen
  BY <1>18 DEF RestoreLink
<1>19. ASSUME NEW p \in Proc, DropQuarantine(p) PROVE ~stolen
  BY <1>19 DEF DropQuarantine
<1>20. ASSUME NEW p \in Proc, DropClaim(p) PROVE ~stolen
  BY <1>20 DEF DropClaim, AfterDrop
<1>21. ASSUME NEW p \in Proc, DropRestore(p) PROVE ~stolen
  BY <1>21 DEF DropRestore, AfterDrop
<1>22. ASSUME NEW p \in Proc, RelRead(p) PROVE ~stolen
  BY <1>22 DEF RelRead, Supersede
<1>23. ASSUME NEW p \in Proc, RelAssert(p) PROVE ~stolen
  BY <1>23 DEF RelAssert
<1>24. ASSUME NEW p \in Proc, RelRecheck(p) PROVE ~stolen
  BY <1>24 DEF RelRecheck, Supersede
<1>25. ASSUME NEW p \in Proc, RelMove(p) PROVE ~stolen
  BY <1>25 DEF RelMove
<1>26. ASSUME NEW p \in Proc, RelVerify(p) PROVE ~stolen
  BY <1>26 DEF RelVerify
<1>27. ASSUME NEW p \in Proc, RelRevive(p) PROVE ~stolen
  BY <1>27 DEF RelRevive
<1>28. ASSUME NEW p \in Proc, BeginRelease(p) PROVE ~stolen
  BY <1>28 DEF BeginRelease
<1>29. ASSUME NEW p \in Proc, Quit(p) PROVE ~stolen
  BY <1>29 DEF Quit
<1>30. ASSUME NEW p \in Proc, ClaimTimeout(p) PROVE ~stolen
  BY <1>30 DEF ClaimTimeout, Abort
<1>31. ASSUME NEW p \in Proc, BeatOpen(p) PROVE ~stolen
  BY <1>31 DEF BeatOpen
<1>32. ASSUME NEW p \in Proc, BeatTouch(p) PROVE ~stolen
  BY <1>32 DEF BeatTouch
<1>33. ASSUME NEW p \in Proc, BeatClaim(p) PROVE ~stolen
  BY <1>33 DEF BeatClaim
<1>34. ASSUME NEW p \in Proc, LapseLock(p) PROVE ~stolen
  BY <1>34 DEF LapseLock
<1>35. ASSUME NEW p \in Proc, MarkUnverified(p) PROVE ~stolen
  BY <1>35 DEF MarkUnverified
<1>36. ASSUME NEW p \in Proc, Crash(p) PROVE ~stolen
  BY <1>36 DEF Crash
<1>37. ASSUME NEW p \in Proc, Suspend(p) PROVE ~stolen
  BY <1>37 DEF Suspend
<1>38. ASSUME NEW p \in Proc, Resume(p) PROVE ~stolen
  BY <1>38 DEF Resume
<1>39. CASE LapseClaim \/ UNCHANGED vars
  BY <1>39 DEF LapseClaim, vars
<1> QED
  BY <1>1, <1>2, <1>3, <1>4, <1>5, <1>6, <1>7, <1>8, <1>9, <1>10, <1>11, <1>12, <1>13, <1>14, <1>15, <1>16, <1>17, <1>18, <1>19, <1>20, <1>21, <1>22, <1>23, <1>24, <1>25, <1>26, <1>27, <1>28, <1>29, <1>30, <1>31, <1>32, <1>33, <1>34, <1>35, <1>36, <1>37, <1>38, <1>39
  DEF Next, Step, AcquireClaim, AcquireUnderClaim, Release, Finished

\* The claim excludes: nobody takes it, nobody mistakes it for another.
LEMMA ClaimsStep ==
  ASSUME TypeOK, ClaimHeld, ClaimsApart, ~stolen', [Next]_vars
  PROVE  (ClaimHeld /\ ClaimsApart)'
<1> USE LockAssumption DEF TypeOK, At, Goto, ClaimHeld, ClaimsApart, Owned, Tok, Transition, Claiming, Ended, Recovering, NoClaim, files, clocks, history, locals, beats
<1>1. ASSUME NEW p \in Proc, Start(p) PROVE (ClaimHeld /\ ClaimsApart)'
  BY <1>1 DEF Start
<1>2. ASSUME NEW p \in Proc, Observe(p) PROVE (ClaimHeld /\ ClaimsApart)'
  BY <1>2 DEF Observe
<1>3. ASSUME NEW p \in Proc, Seize(p) PROVE (ClaimHeld /\ ClaimsApart)'
  <2>1. CASE Fails(p) /\ Goto(p, "observe") /\ UNCHANGED <<moved, claimFile, stolen>>
    BY <1>3, <2>1 DEF Seize
  <2>2. CASE ~(Goto(p, "observe") /\ UNCHANGED <<moved, claimFile, stolen>>)
    <3>1. /\ moved' = [moved EXCEPT ![p] = claimFile] /\ claimFile' = NoClaim
          /\ stolen' = (stolen \/ \E o \in Proc : pc[o] \in Transition /\ Owned(o))
          /\ pc' = [pc EXCEPT ![p] = IF claimFile = NoClaim THEN "publishClaim" ELSE "inspect"]
      BY <1>3, <2>2 DEF Seize
    <3> QED
      BY <1>3, <3>1 DEF Seize
  <2> QED
    BY <1>3, <2>1, <2>2 DEF Seize
<1>4. ASSUME NEW p \in Proc, Inspect(p) PROVE (ClaimHeld /\ ClaimsApart)'
  BY <1>4 DEF Inspect
<1>5. ASSUME NEW p \in Proc, Putback(p) PROVE (ClaimHeld /\ ClaimsApart)'
  BY <1>5 DEF Putback
<1>6. ASSUME NEW p \in Proc, Salvage(p) PROVE (ClaimHeld /\ ClaimsApart)'
  BY <1>6 DEF Salvage
<1>7. ASSUME NEW p \in Proc, SalvageFile(p) PROVE (ClaimHeld /\ ClaimsApart)'
  BY <1>7 DEF SalvageFile
<1>8. ASSUME NEW p \in Proc, Relink(p) PROVE (ClaimHeld /\ ClaimsApart)'
  BY <1>8 DEF Relink, Abort
<1>9. ASSUME NEW p \in Proc, DropSalvaged(p) PROVE (ClaimHeld /\ ClaimsApart)'
  BY <1>9 DEF DropSalvaged, Abort
<1>10. ASSUME NEW p \in Proc, PublishClaim(p) PROVE (ClaimHeld /\ ClaimsApart)'
  <2>1. CASE claimFile # NoClaim
    BY <1>10, <2>1 DEF PublishClaim
  <2>2. CASE claimFile = NoClaim
    <3> DEFINE new == <<p, claimNo[p] + 1>>
    <3>1. /\ claimFile' = new /\ claimNo' = [claimNo EXCEPT ![p] = @ + 1]
          /\ pc'[p] \in {"admit", "relRead"}
          /\ \A r \in Proc \ {p} : pc'[r] = pc[r] /\ moved'[r] = moved[r]
      BY <1>10, <2>2 DEF PublishClaim
    <3>2. \A r \in Proc \ {p} : pc'[r] \notin Transition
      BY <2>2, <3>1
    <3>3. ClaimHeld'
      BY <3>1, <3>2
    <3>4. \A r \in Proc : pc'[r] \in Recovering =>
            /\ moved'[r] = moved[r] /\ moved[r] \in Claim /\ pc[r] \in Recovering
            /\ moved[r][2] <= claimNo[moved[r][1]]
      BY <3>1
    <3>5. \A r \in Proc : pc'[r] \in Recovering =>
            moved[r] # new /\ moved[r][2] <= claimNo'[moved[r][1]]
      BY <3>1, <3>4 DEF Claim
    <3>6. claimFile'[2] <= claimNo'[claimFile'[1]]
      BY <3>1
    <3> QED
      BY <3>1, <3>3, <3>4, <3>5, <3>6
  <2> QED
    BY <2>1, <2>2
<1>11. ASSUME NEW p \in Proc, Admit(p) PROVE (ClaimHeld /\ ClaimsApart)'
  BY <1>11 DEF Admit
<1>12. ASSUME NEW p \in Proc, Read(p) PROVE (ClaimHeld /\ ClaimsApart)'
  BY <1>12 DEF Read
<1>13. ASSUME NEW p \in Proc, AssertClaim(p) PROVE (ClaimHeld /\ ClaimsApart)'
  BY <1>13 DEF AssertClaim
<1>14. ASSUME NEW p \in Proc, Capture(p) PROVE (ClaimHeld /\ ClaimsApart)'
  BY <1>14 DEF Capture
<1>15. ASSUME NEW p \in Proc, Judge(p) PROVE (ClaimHeld /\ ClaimsApart)'
  BY <1>15 DEF Judge
<1>16. ASSUME NEW p \in Proc, Publish(p) PROVE (ClaimHeld /\ ClaimsApart)'
  BY <1>16 DEF Publish
<1>17. ASSUME NEW p \in Proc, Undo(p) PROVE (ClaimHeld /\ ClaimsApart)'
  BY <1>17 DEF Undo
<1>18. ASSUME NEW p \in Proc, RestoreLink(p) PROVE (ClaimHeld /\ ClaimsApart)'
  BY <1>18 DEF RestoreLink
<1>19. ASSUME NEW p \in Proc, DropQuarantine(p) PROVE (ClaimHeld /\ ClaimsApart)'
  BY <1>19 DEF DropQuarantine
<1>20. ASSUME NEW p \in Proc, DropClaim(p) PROVE (ClaimHeld /\ ClaimsApart)'
  BY <1>20 DEF DropClaim, AfterDrop
<1>21. ASSUME NEW p \in Proc, DropRestore(p) PROVE (ClaimHeld /\ ClaimsApart)'
  BY <1>21 DEF DropRestore, AfterDrop
<1>22. ASSUME NEW p \in Proc, RelRead(p) PROVE (ClaimHeld /\ ClaimsApart)'
  BY <1>22 DEF RelRead, Supersede
<1>23. ASSUME NEW p \in Proc, RelAssert(p) PROVE (ClaimHeld /\ ClaimsApart)'
  BY <1>23 DEF RelAssert
<1>24. ASSUME NEW p \in Proc, RelRecheck(p) PROVE (ClaimHeld /\ ClaimsApart)'
  BY <1>24 DEF RelRecheck, Supersede
<1>25. ASSUME NEW p \in Proc, RelMove(p) PROVE (ClaimHeld /\ ClaimsApart)'
  BY <1>25 DEF RelMove
<1>26. ASSUME NEW p \in Proc, RelVerify(p) PROVE (ClaimHeld /\ ClaimsApart)'
  BY <1>26 DEF RelVerify
<1>27. ASSUME NEW p \in Proc, RelRevive(p) PROVE (ClaimHeld /\ ClaimsApart)'
  BY <1>27 DEF RelRevive
<1>28. ASSUME NEW p \in Proc, BeginRelease(p) PROVE (ClaimHeld /\ ClaimsApart)'
  BY <1>28 DEF BeginRelease
<1>29. ASSUME NEW p \in Proc, Quit(p) PROVE (ClaimHeld /\ ClaimsApart)'
  BY <1>29 DEF Quit
<1>30. ASSUME NEW p \in Proc, ClaimTimeout(p) PROVE (ClaimHeld /\ ClaimsApart)'
  BY <1>30 DEF ClaimTimeout, Abort
<1>31. ASSUME NEW p \in Proc, BeatOpen(p) PROVE (ClaimHeld /\ ClaimsApart)'
  BY <1>31 DEF BeatOpen
<1>32. ASSUME NEW p \in Proc, BeatTouch(p) PROVE (ClaimHeld /\ ClaimsApart)'
  BY <1>32 DEF BeatTouch
<1>33. ASSUME NEW p \in Proc, BeatClaim(p) PROVE (ClaimHeld /\ ClaimsApart)'
  BY <1>33 DEF BeatClaim
<1>34. ASSUME NEW p \in Proc, LapseLock(p) PROVE (ClaimHeld /\ ClaimsApart)'
  BY <1>34 DEF LapseLock
<1>35. ASSUME NEW p \in Proc, MarkUnverified(p) PROVE (ClaimHeld /\ ClaimsApart)'
  BY <1>35 DEF MarkUnverified
<1>36. ASSUME NEW p \in Proc, Crash(p) PROVE (ClaimHeld /\ ClaimsApart)'
  BY <1>36 DEF Crash
<1>37. ASSUME NEW p \in Proc, Suspend(p) PROVE (ClaimHeld /\ ClaimsApart)'
  BY <1>37 DEF Suspend
<1>38. ASSUME NEW p \in Proc, Resume(p) PROVE (ClaimHeld /\ ClaimsApart)'
  BY <1>38 DEF Resume
<1>39. CASE LapseClaim \/ UNCHANGED vars
  BY <1>39 DEF LapseClaim, vars
<1> QED
  BY <1>1, <1>2, <1>3, <1>4, <1>5, <1>6, <1>7, <1>8, <1>9, <1>10, <1>11, <1>12, <1>13, <1>14, <1>15, <1>16, <1>17, <1>18, <1>19, <1>20, <1>21, <1>22, <1>23, <1>24, <1>25, <1>26, <1>27, <1>28, <1>29, <1>30, <1>31, <1>32, <1>33, <1>34, <1>35, <1>36, <1>37, <1>38, <1>39
  DEF Next, Step, AcquireClaim, AcquireUnderClaim, Release, Finished

\* What was checked under the claim is still so when it is used.
LEMMA ChecksStep ==
  ASSUME TypeOK, staleLocks \subseteq forfeited, \A r \in Proc : StatusAt(r), ClaimHeld, ClaimsApart,
         \A r \in Proc : ChecksHold(r) /\ LockPlaced(r) /\ QuarantinePlaced(r) /\ ClaimGone(r), ~stolen', [Next]_vars
  PROVE  \A r \in Proc : ChecksHold(r)'
<1> USE LockAssumption DEF TypeOK, At, Goto, ChecksHold, Tok, files, clocks, history, locals, beats
<1>1. ASSUME NEW p \in Proc, Start(p) PROVE \A r \in Proc : ChecksHold(r)'
  BY <1>1 DEF Start
<1>2. ASSUME NEW p \in Proc, Observe(p) PROVE \A r \in Proc : ChecksHold(r)'
  BY <1>2 DEF Observe
<1>3. ASSUME NEW p \in Proc, Seize(p) PROVE \A r \in Proc : ChecksHold(r)'
  BY <1>3 DEF Seize
<1>4. ASSUME NEW p \in Proc, Inspect(p) PROVE \A r \in Proc : ChecksHold(r)'
  BY <1>4 DEF Inspect
<1>5. ASSUME NEW p \in Proc, Putback(p) PROVE \A r \in Proc : ChecksHold(r)'
  BY <1>5 DEF Putback
<1>6. ASSUME NEW p \in Proc, Salvage(p) PROVE \A r \in Proc : ChecksHold(r)'
  BY <1>6 DEF Salvage
<1>7. ASSUME NEW p \in Proc, SalvageFile(p) PROVE \A r \in Proc : ChecksHold(r)'
  BY <1>7 DEF SalvageFile
<1>8. ASSUME NEW p \in Proc, Relink(p) PROVE \A r \in Proc : ChecksHold(r)'
  BY <1>8 DEF Relink, Abort
<1>9. ASSUME NEW p \in Proc, DropSalvaged(p) PROVE \A r \in Proc : ChecksHold(r)'
  <2>1. moved[p] \in Claim /\ moved[p] # claimFile
    BY <1>9 DEF DropSalvaged, ClaimsApart, Recovering
  <2>2. \A r \in Proc : pc[r] = "relVerify" => moved[p] # Tok(r)
    BY <2>1 DEF ClaimHeld, Owned, Transition
  <2>3. /\ \A r \in Proc : pc'[r] = pc[r] \/ pc'[r] \in {"publishClaim", "failed", "holding"}
        /\ \A c \in Claim : c # moved[p] => quarantine'[c] = quarantine[c]
        /\ claimNo' = claimNo /\ lockFile' = lockFile /\ forfeited' = forfeited
        /\ barrier' = barrier /\ status' = status
    BY <1>9, <2>1 DEF DropSalvaged, Abort
  <2>4. \A r \in Proc : pc[r] \in Transition => Tok(r) \in Claim
    BY DEF Transition, Claim
  <2> QED
    BY <2>2, <2>3, <2>4 DEF Transition
<1>10. ASSUME NEW p \in Proc, PublishClaim(p) PROVE \A r \in Proc : ChecksHold(r)'
  BY <1>10 DEF PublishClaim
<1>11. ASSUME NEW p \in Proc, Admit(p) PROVE \A r \in Proc : ChecksHold(r)'
  BY <1>11 DEF Admit, ClaimHeld, Owned, FreshLock, Transition
<1>12. ASSUME NEW p \in Proc, Read(p) PROVE \A r \in Proc : ChecksHold(r)'
  BY <1>12 DEF Read, ClaimHeld, Owned, FreshLock, Transition
<1>13. ASSUME NEW p \in Proc, AssertClaim(p) PROVE \A r \in Proc : ChecksHold(r)'
  BY <1>13 DEF AssertClaim, ClaimHeld, Owned, FreshLock, Transition
<1>14. ASSUME NEW p \in Proc, Capture(p) PROVE \A r \in Proc : ChecksHold(r)'
  BY <1>14 DEF Capture, ClaimHeld, Owned, FreshLock, Transition
<1>15. ASSUME NEW p \in Proc, Judge(p) PROVE \A r \in Proc : ChecksHold(r)'
  BY <1>15 DEF Judge
<1>16. ASSUME NEW p \in Proc, Publish(p) PROVE \A r \in Proc : ChecksHold(r)'
  BY <1>16 DEF Publish, ClaimHeld, Owned, FreshLock, Transition
<1>17. ASSUME NEW p \in Proc, Undo(p) PROVE \A r \in Proc : ChecksHold(r)'
  BY <1>17 DEF Undo
<1>18. ASSUME NEW p \in Proc, RestoreLink(p) PROVE \A r \in Proc : ChecksHold(r)'
  <2>1. pc[p] \in {"restore", "undoLink"} /\ status[p] = "seeking" /\ status' = status
    BY <1>18 DEF RestoreLink, StatusAt
  <2>2. \A r \in Proc \ {p} : pc[r] \notin Transition
    BY <2>1 DEF ClaimHeld, Owned, Transition
  <2>3. pc' = [pc EXCEPT ![p] = "drop"] \/ pc' = [pc EXCEPT ![p] = "restoreUnlink"]
    BY <1>18 DEF RestoreLink
  <2> QED
    BY <2>1, <2>2, <2>3 DEF Transition
<1>19. ASSUME NEW p \in Proc, DropQuarantine(p) PROVE \A r \in Proc : ChecksHold(r)'
  BY <1>19 DEF DropQuarantine, ClaimHeld, Owned, FreshLock, Transition
<1>20. ASSUME NEW p \in Proc, DropClaim(p) PROVE \A r \in Proc : ChecksHold(r)'
  BY <1>20 DEF DropClaim, AfterDrop, ClaimHeld, Owned, FreshLock, Transition
<1>21. ASSUME NEW p \in Proc, DropRestore(p) PROVE \A r \in Proc : ChecksHold(r)'
  BY <1>21 DEF DropRestore, AfterDrop, ClaimHeld, Owned, FreshLock, Transition
<1>22. ASSUME NEW p \in Proc, RelRead(p) PROVE \A r \in Proc : ChecksHold(r)'
  BY <1>22 DEF RelRead, Supersede, ClaimHeld, Owned, FreshLock, Transition
<1>23. ASSUME NEW p \in Proc, RelAssert(p) PROVE \A r \in Proc : ChecksHold(r)'
  BY <1>23 DEF RelAssert
<1>24. ASSUME NEW p \in Proc, RelRecheck(p) PROVE \A r \in Proc : ChecksHold(r)'
  BY <1>24 DEF RelRecheck, Supersede, ClaimHeld, Owned, FreshLock, Transition
<1>25. ASSUME NEW p \in Proc, RelMove(p) PROVE \A r \in Proc : ChecksHold(r)'
  <2>1. lockFile = p /\ lockFile # None /\ Tok(p) \in Claim
    BY <1>25 DEF RelMove, Transition, Claim
  <2>2. /\ quarantine' = [quarantine EXCEPT ![Tok(p)] = p]
        /\ quarantine'[Tok(p)] = p
    BY <1>25, <2>1 DEF RelMove
  <2>3. /\ lockFile' = None /\ pc' = [pc EXCEPT ![p] = "relVerify"] /\ pc[p] = "relMove"
        /\ Tok(p)' = Tok(p)
    BY <1>25, <2>1 DEF RelMove
  <2>4. \A r \in Proc \ {p} : pc'[r] \notin Transition
    BY <2>3 DEF ClaimHeld, Owned, Transition
  <2> QED
    BY <2>2, <2>3, <2>4 DEF Transition
<1>26. ASSUME NEW p \in Proc, RelVerify(p) PROVE \A r \in Proc : ChecksHold(r)'
  BY <1>26 DEF RelVerify, ClaimHeld, Owned, FreshLock, Transition
<1>27. ASSUME NEW p \in Proc, RelRevive(p) PROVE \A r \in Proc : ChecksHold(r)'
  BY <1>27 DEF RelRevive
<1>28. ASSUME NEW p \in Proc, BeginRelease(p) PROVE \A r \in Proc : ChecksHold(r)'
  BY <1>28 DEF BeginRelease
<1>29. ASSUME NEW p \in Proc, Quit(p) PROVE \A r \in Proc : ChecksHold(r)'
  BY <1>29 DEF Quit
<1>30. ASSUME NEW p \in Proc, ClaimTimeout(p) PROVE \A r \in Proc : ChecksHold(r)'
  BY <1>30 DEF ClaimTimeout, Abort
<1>31. ASSUME NEW p \in Proc, BeatOpen(p) PROVE \A r \in Proc : ChecksHold(r)'
  BY <1>31 DEF BeatOpen
<1>32. ASSUME NEW p \in Proc, BeatTouch(p) PROVE \A r \in Proc : ChecksHold(r)'
  BY <1>32 DEF BeatTouch
<1>33. ASSUME NEW p \in Proc, BeatClaim(p) PROVE \A r \in Proc : ChecksHold(r)'
  BY <1>33 DEF BeatClaim
<1>34. ASSUME NEW p \in Proc, LapseLock(p) PROVE \A r \in Proc : ChecksHold(r)'
  BY <1>34 DEF LapseLock
<1>35. ASSUME NEW p \in Proc, MarkUnverified(p) PROVE \A r \in Proc : ChecksHold(r)'
  BY <1>35 DEF MarkUnverified
<1>36. ASSUME NEW p \in Proc, Crash(p) PROVE \A r \in Proc : ChecksHold(r)'
  BY <1>36 DEF Crash
<1>37. ASSUME NEW p \in Proc, Suspend(p) PROVE \A r \in Proc : ChecksHold(r)'
  BY <1>37 DEF Suspend
<1>38. ASSUME NEW p \in Proc, Resume(p) PROVE \A r \in Proc : ChecksHold(r)'
  BY <1>38 DEF Resume
<1>39. CASE LapseClaim \/ UNCHANGED vars
  BY <1>39 DEF LapseClaim, vars
<1> QED
  BY <1>1, <1>2, <1>3, <1>4, <1>5, <1>6, <1>7, <1>8, <1>9, <1>10, <1>11, <1>12, <1>13, <1>14, <1>15, <1>16, <1>17, <1>18, <1>19, <1>20, <1>21, <1>22, <1>23, <1>24, <1>25, <1>26, <1>27, <1>28, <1>29, <1>30, <1>31, <1>32, <1>33, <1>34, <1>35, <1>36, <1>37, <1>38, <1>39
  DEF Next, Step, AcquireClaim, AcquireUnderClaim, Release, Finished

\* The file of an unforfeited owner is at the canonical path.
LEMMA PlaceStep ==
  ASSUME TypeOK, \A r \in Proc : StatusAt(r), ClaimHeld, ClaimsApart,
         \A r \in Proc : ChecksHold(r) /\ LockPlaced(r) /\ QuarantinePlaced(r) /\ ClaimGone(r), ~stolen', [Next]_vars
  PROVE  \A r \in Proc : LockPlaced(r)'
<1> USE LockAssumption DEF TypeOK, At, Goto, LockPlaced, Tok, files, clocks, history, locals, beats
<1>1. ASSUME NEW p \in Proc, Start(p) PROVE \A r \in Proc : LockPlaced(r)'
  BY <1>1 DEF Start
<1>2. ASSUME NEW p \in Proc, Observe(p) PROVE \A r \in Proc : LockPlaced(r)'
  BY <1>2 DEF Observe
<1>3. ASSUME NEW p \in Proc, Seize(p) PROVE \A r \in Proc : LockPlaced(r)'
  BY <1>3 DEF Seize
<1>4. ASSUME NEW p \in Proc, Inspect(p) PROVE \A r \in Proc : LockPlaced(r)'
  BY <1>4 DEF Inspect
<1>5. ASSUME NEW p \in Proc, Putback(p) PROVE \A r \in Proc : LockPlaced(r)'
  BY <1>5 DEF Putback
<1>6. ASSUME NEW p \in Proc, Salvage(p) PROVE \A r \in Proc : LockPlaced(r)'
  BY <1>6 DEF Salvage
<1>7. ASSUME NEW p \in Proc, SalvageFile(p) PROVE \A r \in Proc : LockPlaced(r)'
  BY <1>7 DEF SalvageFile
<1>8. ASSUME NEW p \in Proc, Relink(p) PROVE \A r \in Proc : LockPlaced(r)'
  <2> DEFINE q == quarantine[moved[p]]
  <2>1. CASE ~(lockFile = None /\ q # None)
    BY <1>8, <2>1 DEF Relink, Abort
  <2>2. CASE lockFile = None /\ q # None
    <3> SUFFICES ASSUME NEW r \in Proc, r \notin forfeited', pc'[r] # "crashed"
                 PROVE  LockPlaced(r)'
      BY DEF LockPlaced
    <3>1. /\ lockFile' = q /\ status' = status /\ forfeited' = forfeited
          /\ pc' = [pc EXCEPT ![p] = "relinkUnlink"] /\ pc[p] = "relink"
      BY <1>8, <2>2 DEF Relink
    <3>2. moved[p] \in Claim /\ moved[p] # claimFile /\ pc[r] # "crashed"
      BY <3>1 DEF ClaimsApart, Recovering
    <3>3. CASE q # r
      BY <2>2, <3>1, <3>2, <3>3
    <3>4. CASE q = r
      <4>1. moved[p] = Tok(r) /\ (pc[r] = "relVerify" \/ status[r] = "gone")
        BY <3>1, <3>2, <3>4 DEF QuarantinePlaced
      <4>2. pc[r] \notin Transition
        BY <3>2, <4>1 DEF ClaimHeld, Owned
      <4>3. status[r] = "gone" /\ pc[r] # "relVerify"
        BY <4>1, <4>2 DEF Transition
      <4>4. ~NotFound(Tok(r))
        BY <3>1, <4>1 DEF NotFound, Recovering
      <4>5. r \in keptClaim
        BY <3>2, <4>2, <4>4 DEF ClaimGone
      <4>6. r \in keptClaim' /\ pc'[r] # "relVerify"
        BY <1>8, <3>1, <4>3, <4>5 DEF Relink
      <4> QED
        BY <3>1, <4>3, <4>6
    <3> QED
      BY <3>3, <3>4
  <2> QED
    BY <2>1, <2>2
<1>9. ASSUME NEW p \in Proc, DropSalvaged(p) PROVE \A r \in Proc : LockPlaced(r)'
  BY <1>9 DEF DropSalvaged, Abort
<1>10. ASSUME NEW p \in Proc, PublishClaim(p) PROVE \A r \in Proc : LockPlaced(r)'
  BY <1>10 DEF PublishClaim
<1>11. ASSUME NEW p \in Proc, Admit(p) PROVE \A r \in Proc : LockPlaced(r)'
  BY <1>11 DEF Admit
<1>12. ASSUME NEW p \in Proc, Read(p) PROVE \A r \in Proc : LockPlaced(r)'
  BY <1>12 DEF Read
<1>13. ASSUME NEW p \in Proc, AssertClaim(p) PROVE \A r \in Proc : LockPlaced(r)'
  BY <1>13 DEF AssertClaim
<1>14. ASSUME NEW p \in Proc, Capture(p) PROVE \A r \in Proc : LockPlaced(r)'
  <2>1. CASE lockFile = None
    BY <1>14, <2>1 DEF Capture
  <2>2. CASE lockFile # None
    <3> SUFFICES ASSUME NEW r \in Proc, r \notin forfeited', pc'[r] # "crashed"
                 PROVE  LockPlaced(r)'
      BY DEF LockPlaced
    <3>1. lockFile' = None /\ status' = status /\ pc'[p] = "judge" /\ pc[p] = "capture"
      BY <1>14, <2>2 DEF Capture
    <3>2. lockFile \in forfeited' /\ forfeited \subseteq forfeited'
      BY <1>14, <2>2 DEF Capture, ChecksHold
    <3>3. r # lockFile /\ r \notin forfeited
      BY <3>2
    <3> QED
      BY <1>14, <2>2, <3>1, <3>3 DEF Capture
  <2> QED
    BY <2>1, <2>2
<1>15. ASSUME NEW p \in Proc, Judge(p) PROVE \A r \in Proc : LockPlaced(r)'
  BY <1>15 DEF Judge
<1>16. ASSUME NEW p \in Proc, Publish(p) PROVE \A r \in Proc : LockPlaced(r)'
  BY <1>16 DEF Publish, ClaimHeld, Owned, StatusAt, Transition
<1>17. ASSUME NEW p \in Proc, Undo(p) PROVE \A r \in Proc : LockPlaced(r)'
  BY <1>17 DEF Undo
<1>18. ASSUME NEW p \in Proc, RestoreLink(p) PROVE \A r \in Proc : LockPlaced(r)'
  <2>1. pc[p] \in {"restore", "undoLink"} /\ status[p] = "seeking"
    BY <1>18 DEF RestoreLink, ChecksHold, StatusAt
  <2>2. status' = status /\ forfeited' = forfeited /\ keptClaim' = keptClaim
    BY <1>18 DEF RestoreLink
  <2>3. CASE pc' = [pc EXCEPT ![p] = "drop"] /\ lockFile' = lockFile
    BY <2>1, <2>2, <2>3
  <2>4. CASE /\ lockFile = None /\ quarantine[Tok(p)] # None /\ lockFile' = quarantine[Tok(p)]
             /\ pc' = [pc EXCEPT ![p] = "restoreUnlink"]
    <3> SUFFICES ASSUME NEW r \in Proc, r \notin forfeited', pc'[r] # "crashed"
                 PROVE  LockPlaced(r)'
      BY DEF LockPlaced
    <3>1. Tok(p) \in Claim /\ pc[r] # "crashed"
      BY <2>1, <2>4 DEF Tok, Claim, Transition
    <3>2. quarantine[Tok(p)] # r
      BY <2>1, <2>2, <3>1 DEF QuarantinePlaced
    <3> QED
      BY <2>1, <2>2, <2>4, <3>1, <3>2
  <2> QED
    BY <1>18, <2>3, <2>4 DEF RestoreLink
<1>19. ASSUME NEW p \in Proc, DropQuarantine(p) PROVE \A r \in Proc : LockPlaced(r)'
  <2>1. status[p] # "drained" /\ pc[p] \in {"restoreUnlink", "clean"}
    BY <1>19 DEF DropQuarantine, ChecksHold, StatusAt
  <2>2. status' = status /\ pc' = [pc EXCEPT ![p] = "drop"] /\ UNCHANGED <<lockFile, forfeited, keptClaim>>
    BY <1>19, <2>1 DEF DropQuarantine
  <2> QED
    BY <2>1, <2>2
<1>20. ASSUME NEW p \in Proc, DropClaim(p) PROVE \A r \in Proc : LockPlaced(r)'
  BY <1>20 DEF DropClaim, AfterDrop
<1>21. ASSUME NEW p \in Proc, DropRestore(p) PROVE \A r \in Proc : LockPlaced(r)'
  BY <1>21 DEF DropRestore, AfterDrop
<1>22. ASSUME NEW p \in Proc, RelRead(p) PROVE \A r \in Proc : LockPlaced(r)'
  BY <1>22 DEF RelRead, Supersede, StatusAt
<1>23. ASSUME NEW p \in Proc, RelAssert(p) PROVE \A r \in Proc : LockPlaced(r)'
  BY <1>23 DEF RelAssert, StatusAt
<1>24. ASSUME NEW p \in Proc, RelRecheck(p) PROVE \A r \in Proc : LockPlaced(r)'
  BY <1>24 DEF RelRecheck, Supersede, StatusAt
<1>25. ASSUME NEW p \in Proc, RelMove(p) PROVE \A r \in Proc : LockPlaced(r)'
  <2>1. lockFile = p /\ lockFile # None /\ status[p] = "drained"
    BY <1>25 DEF RelMove, ChecksHold, StatusAt
  <2>2. /\ lockFile' = None /\ status' = status /\ forfeited' = forfeited
        /\ pc' = [pc EXCEPT ![p] = "relVerify"] /\ pc[p] = "relMove"
    BY <1>25, <2>1 DEF RelMove
  <2> SUFFICES ASSUME NEW r \in Proc, r \notin forfeited', pc'[r] # "crashed"
               PROVE  LockPlaced(r)'
    BY DEF LockPlaced
  <2>3. CASE r = p
    BY <2>1, <2>2, <2>3
  <2>4. CASE r # p
    BY <2>1, <2>2, <2>4
  <2> QED
    BY <2>3, <2>4
<1>26. ASSUME NEW p \in Proc, RelVerify(p) PROVE \A r \in Proc : LockPlaced(r)'
  <2>1. /\ quarantine[Tok(p)] = p /\ pc[p] = "relVerify"
    BY <1>26 DEF RelVerify, ChecksHold
  <2>2. /\ status' = [status EXCEPT ![p] = "gone"] /\ pc' = [pc EXCEPT ![p] = "drop"]
        /\ lockFile' = lockFile /\ forfeited' = forfeited /\ keptClaim' = keptClaim
    BY <1>26, <2>1 DEF RelVerify
  <2> SUFFICES ASSUME NEW r \in Proc, r \notin forfeited', pc'[r] # "crashed"
               PROVE  LockPlaced(r)'
    BY DEF LockPlaced
  <2>3. CASE r = p
    BY <2>1, <2>2, <2>3
  <2>4. CASE r # p
    BY <2>1, <2>2, <2>4
  <2> QED
    BY <2>3, <2>4
<1>27. ASSUME NEW p \in Proc, RelRevive(p) PROVE \A r \in Proc : LockPlaced(r)'
  BY <1>27 DEF RelRevive, StatusAt
<1>28. ASSUME NEW p \in Proc, BeginRelease(p) PROVE \A r \in Proc : LockPlaced(r)'
  BY <1>28 DEF BeginRelease
<1>29. ASSUME NEW p \in Proc, Quit(p) PROVE \A r \in Proc : LockPlaced(r)'
  BY <1>29 DEF Quit
<1>30. ASSUME NEW p \in Proc, ClaimTimeout(p) PROVE \A r \in Proc : LockPlaced(r)'
  BY <1>30 DEF ClaimTimeout, Abort
<1>31. ASSUME NEW p \in Proc, BeatOpen(p) PROVE \A r \in Proc : LockPlaced(r)'
  BY <1>31 DEF BeatOpen
<1>32. ASSUME NEW p \in Proc, BeatTouch(p) PROVE \A r \in Proc : LockPlaced(r)'
  BY <1>32 DEF BeatTouch
<1>33. ASSUME NEW p \in Proc, BeatClaim(p) PROVE \A r \in Proc : LockPlaced(r)'
  BY <1>33 DEF BeatClaim
<1>34. ASSUME NEW p \in Proc, LapseLock(p) PROVE \A r \in Proc : LockPlaced(r)'
  BY <1>34 DEF LapseLock
<1>35. ASSUME NEW p \in Proc, MarkUnverified(p) PROVE \A r \in Proc : LockPlaced(r)'
  BY <1>35 DEF MarkUnverified
<1>36. ASSUME NEW p \in Proc, Crash(p) PROVE \A r \in Proc : LockPlaced(r)'
  BY <1>36 DEF Crash
<1>37. ASSUME NEW p \in Proc, Suspend(p) PROVE \A r \in Proc : LockPlaced(r)'
  BY <1>37 DEF Suspend
<1>38. ASSUME NEW p \in Proc, Resume(p) PROVE \A r \in Proc : LockPlaced(r)'
  BY <1>38 DEF Resume
<1>39. CASE LapseClaim \/ UNCHANGED vars
  BY <1>39 DEF LapseClaim, vars
<1> QED
  BY <1>1, <1>2, <1>3, <1>4, <1>5, <1>6, <1>7, <1>8, <1>9, <1>10, <1>11, <1>12, <1>13, <1>14, <1>15, <1>16, <1>17, <1>18, <1>19, <1>20, <1>21, <1>22, <1>23, <1>24, <1>25, <1>26, <1>27, <1>28, <1>29, <1>30, <1>31, <1>32, <1>33, <1>34, <1>35, <1>36, <1>37, <1>38, <1>39
  DEF Next, Step, AcquireClaim, AcquireUnderClaim, Release, Finished

\* The file of an unforfeited owner is in no quarantine but that of its release.
LEMMA QuarantineStep ==
  ASSUME TypeOK, \A r \in Proc : StatusAt(r), ClaimHeld, ClaimsApart,
         \A r \in Proc : ChecksHold(r) /\ LockPlaced(r) /\ QuarantinePlaced(r) /\ ClaimGone(r), ~stolen', [Next]_vars
  PROVE  \A r \in Proc : QuarantinePlaced(r)'
<1> USE LockAssumption DEF TypeOK, At, Goto, QuarantinePlaced, Tok, files, clocks, history, locals, beats
<1>1. ASSUME NEW p \in Proc, Start(p) PROVE \A r \in Proc : QuarantinePlaced(r)'
  BY <1>1 DEF Start
<1>2. ASSUME NEW p \in Proc, Observe(p) PROVE \A r \in Proc : QuarantinePlaced(r)'
  BY <1>2 DEF Observe
<1>3. ASSUME NEW p \in Proc, Seize(p) PROVE \A r \in Proc : QuarantinePlaced(r)'
  BY <1>3 DEF Seize
<1>4. ASSUME NEW p \in Proc, Inspect(p) PROVE \A r \in Proc : QuarantinePlaced(r)'
  BY <1>4 DEF Inspect
<1>5. ASSUME NEW p \in Proc, Putback(p) PROVE \A r \in Proc : QuarantinePlaced(r)'
  BY <1>5 DEF Putback
<1>6. ASSUME NEW p \in Proc, Salvage(p) PROVE \A r \in Proc : QuarantinePlaced(r)'
  BY <1>6 DEF Salvage
<1>7. ASSUME NEW p \in Proc, SalvageFile(p) PROVE \A r \in Proc : QuarantinePlaced(r)'
  BY <1>7 DEF SalvageFile
<1>8. ASSUME NEW p \in Proc, Relink(p) PROVE \A r \in Proc : QuarantinePlaced(r)'
  BY <1>8 DEF Relink, Abort
<1>9. ASSUME NEW p \in Proc, DropSalvaged(p) PROVE \A r \in Proc : QuarantinePlaced(r)'
  BY <1>9 DEF DropSalvaged, Abort
<1>10. ASSUME NEW p \in Proc, PublishClaim(p) PROVE \A r \in Proc : QuarantinePlaced(r)'
  BY <1>10 DEF PublishClaim, StatusAt, Claiming
<1>11. ASSUME NEW p \in Proc, Admit(p) PROVE \A r \in Proc : QuarantinePlaced(r)'
  BY <1>11 DEF Admit
<1>12. ASSUME NEW p \in Proc, Read(p) PROVE \A r \in Proc : QuarantinePlaced(r)'
  BY <1>12 DEF Read
<1>13. ASSUME NEW p \in Proc, AssertClaim(p) PROVE \A r \in Proc : QuarantinePlaced(r)'
  BY <1>13 DEF AssertClaim
<1>14. ASSUME NEW p \in Proc, Capture(p) PROVE \A r \in Proc : QuarantinePlaced(r)'
  <2> SUFFICES ASSUME NEW r \in Proc, r \notin forfeited', pc'[r] # "crashed",
                      NEW c \in Claim, quarantine'[c] = r
               PROVE  c = Tok(r)' /\ (pc'[r] = "relVerify" \/ status'[r] = "gone")
    BY DEF QuarantinePlaced
  <2>1. CASE lockFile = None
    BY <1>14, <2>1 DEF Capture
  <2>2. CASE lockFile # None
    <3>1. quarantine' = [quarantine EXCEPT ![Tok(p)] = lockFile]
      BY <1>14, <2>2 DEF Capture
    <3>2. lockFile \in forfeited' /\ forfeited \subseteq forfeited'
      BY <1>14, <2>2 DEF Capture, ChecksHold
    <3>3. quarantine[c] = r
      BY <3>1, <3>2
    <3> QED
      BY <1>14, <3>2, <3>3 DEF Capture
  <2> QED
    BY <2>1, <2>2
<1>15. ASSUME NEW p \in Proc, Judge(p) PROVE \A r \in Proc : QuarantinePlaced(r)'
  BY <1>15 DEF Judge
<1>16. ASSUME NEW p \in Proc, Publish(p) PROVE \A r \in Proc : QuarantinePlaced(r)'
  BY <1>16 DEF Publish, StatusAt
<1>17. ASSUME NEW p \in Proc, Undo(p) PROVE \A r \in Proc : QuarantinePlaced(r)'
  BY <1>17 DEF Undo
<1>18. ASSUME NEW p \in Proc, RestoreLink(p) PROVE \A r \in Proc : QuarantinePlaced(r)'
  BY <1>18 DEF RestoreLink
<1>19. ASSUME NEW p \in Proc, DropQuarantine(p) PROVE \A r \in Proc : QuarantinePlaced(r)'
  BY <1>19 DEF DropQuarantine
<1>20. ASSUME NEW p \in Proc, DropClaim(p) PROVE \A r \in Proc : QuarantinePlaced(r)'
  BY <1>20 DEF DropClaim, AfterDrop
<1>21. ASSUME NEW p \in Proc, DropRestore(p) PROVE \A r \in Proc : QuarantinePlaced(r)'
  BY <1>21 DEF DropRestore, AfterDrop
<1>22. ASSUME NEW p \in Proc, RelRead(p) PROVE \A r \in Proc : QuarantinePlaced(r)'
  BY <1>22 DEF RelRead, Supersede
<1>23. ASSUME NEW p \in Proc, RelAssert(p) PROVE \A r \in Proc : QuarantinePlaced(r)'
  BY <1>23 DEF RelAssert, StatusAt
<1>24. ASSUME NEW p \in Proc, RelRecheck(p) PROVE \A r \in Proc : QuarantinePlaced(r)'
  BY <1>24 DEF RelRecheck, Supersede
<1>25. ASSUME NEW p \in Proc, RelMove(p) PROVE \A r \in Proc : QuarantinePlaced(r)'
  <2> SUFFICES ASSUME NEW r \in Proc, r \notin forfeited', pc'[r] # "crashed",
                      NEW c \in Claim, quarantine'[c] = r
               PROVE  c = Tok(r)' /\ (pc'[r] = "relVerify" \/ status'[r] = "gone")
    BY DEF QuarantinePlaced
  <2>1. /\ lockFile = p /\ lockFile # None
    BY <1>25 DEF RelMove, ChecksHold
  <2>2. /\ quarantine' = [quarantine EXCEPT ![Tok(p)] = p] /\ forfeited' = forfeited
        /\ pc' = [pc EXCEPT ![p] = "relVerify"] /\ claimNo' = claimNo /\ pc[p] = "relMove"
        /\ status' = status
    BY <1>25, <2>1 DEF RelMove
  <2>3. CASE c = Tok(p)
    BY <2>2, <2>3
  <2>4. CASE c # Tok(p)
    BY <2>2, <2>4
  <2> QED
    BY <2>3, <2>4
<1>26. ASSUME NEW p \in Proc, RelVerify(p) PROVE \A r \in Proc : QuarantinePlaced(r)'
  BY <1>26 DEF RelVerify
<1>27. ASSUME NEW p \in Proc, RelRevive(p) PROVE \A r \in Proc : QuarantinePlaced(r)'
  BY <1>27 DEF RelRevive, StatusAt
<1>28. ASSUME NEW p \in Proc, BeginRelease(p) PROVE \A r \in Proc : QuarantinePlaced(r)'
  BY <1>28 DEF BeginRelease
<1>29. ASSUME NEW p \in Proc, Quit(p) PROVE \A r \in Proc : QuarantinePlaced(r)'
  BY <1>29 DEF Quit
<1>30. ASSUME NEW p \in Proc, ClaimTimeout(p) PROVE \A r \in Proc : QuarantinePlaced(r)'
  BY <1>30 DEF ClaimTimeout, Abort
<1>31. ASSUME NEW p \in Proc, BeatOpen(p) PROVE \A r \in Proc : QuarantinePlaced(r)'
  BY <1>31 DEF BeatOpen
<1>32. ASSUME NEW p \in Proc, BeatTouch(p) PROVE \A r \in Proc : QuarantinePlaced(r)'
  BY <1>32 DEF BeatTouch
<1>33. ASSUME NEW p \in Proc, BeatClaim(p) PROVE \A r \in Proc : QuarantinePlaced(r)'
  BY <1>33 DEF BeatClaim
<1>34. ASSUME NEW p \in Proc, LapseLock(p) PROVE \A r \in Proc : QuarantinePlaced(r)'
  BY <1>34 DEF LapseLock
<1>35. ASSUME NEW p \in Proc, MarkUnverified(p) PROVE \A r \in Proc : QuarantinePlaced(r)'
  BY <1>35 DEF MarkUnverified
<1>36. ASSUME NEW p \in Proc, Crash(p) PROVE \A r \in Proc : QuarantinePlaced(r)'
  BY <1>36 DEF Crash
<1>37. ASSUME NEW p \in Proc, Suspend(p) PROVE \A r \in Proc : QuarantinePlaced(r)'
  BY <1>37 DEF Suspend
<1>38. ASSUME NEW p \in Proc, Resume(p) PROVE \A r \in Proc : QuarantinePlaced(r)'
  BY <1>38 DEF Resume
<1>39. CASE LapseClaim \/ UNCHANGED vars
  BY <1>39 DEF LapseClaim, vars
<1> QED
  BY <1>1, <1>2, <1>3, <1>4, <1>5, <1>6, <1>7, <1>8, <1>9, <1>10, <1>11, <1>12, <1>13, <1>14, <1>15, <1>16, <1>17, <1>18, <1>19, <1>20, <1>21, <1>22, <1>23, <1>24, <1>25, <1>26, <1>27, <1>28, <1>29, <1>30, <1>31, <1>32, <1>33, <1>34, <1>35, <1>36, <1>37, <1>38, <1>39
  DEF Next, Step, AcquireClaim, AcquireUnderClaim, Release, Finished

\* The claim of a transition that is over is not found again.
LEMMA ClaimGoneStep ==
  ASSUME TypeOK, \A r \in Proc : StatusAt(r), ClaimHeld, ClaimsApart,
         \A r \in Proc : ChecksHold(r) /\ ClaimGone(r), ~stolen', [Next]_vars
  PROVE  \A r \in Proc : ClaimGone(r)'
<1> USE LockAssumption DEF TypeOK, At, Goto, ClaimGone, NotFound, Tok, NoClaim, Transition, Claiming, Recovering, files, clocks, history, locals, beats
<1>1. ASSUME NEW p \in Proc, Start(p) PROVE \A r \in Proc : ClaimGone(r)'
  BY <1>1 DEF Start
<1>2. ASSUME NEW p \in Proc, Observe(p) PROVE \A r \in Proc : ClaimGone(r)'
  BY <1>2 DEF Observe
<1>3. ASSUME NEW p \in Proc, Seize(p) PROVE \A r \in Proc : ClaimGone(r)'
  BY <1>3 DEF Seize
<1>4. ASSUME NEW p \in Proc, Inspect(p) PROVE \A r \in Proc : ClaimGone(r)'
  BY <1>4 DEF Inspect
<1>5. ASSUME NEW p \in Proc, Putback(p) PROVE \A r \in Proc : ClaimGone(r)'
  BY <1>5 DEF Putback
<1>6. ASSUME NEW p \in Proc, Salvage(p) PROVE \A r \in Proc : ClaimGone(r)'
  BY <1>6 DEF Salvage
<1>7. ASSUME NEW p \in Proc, SalvageFile(p) PROVE \A r \in Proc : ClaimGone(r)'
  BY <1>7 DEF SalvageFile
<1>8. ASSUME NEW p \in Proc, Relink(p) PROVE \A r \in Proc : ClaimGone(r)'
  BY <1>8 DEF Relink, Abort
<1>9. ASSUME NEW p \in Proc, DropSalvaged(p) PROVE \A r \in Proc : ClaimGone(r)'
  BY <1>9 DEF DropSalvaged, Abort
<1>10. ASSUME NEW p \in Proc, PublishClaim(p) PROVE \A r \in Proc : ClaimGone(r)'
  BY <1>10 DEF PublishClaim
<1>11. ASSUME NEW p \in Proc, Admit(p) PROVE \A r \in Proc : ClaimGone(r)'
  BY <1>11 DEF Admit
<1>12. ASSUME NEW p \in Proc, Read(p) PROVE \A r \in Proc : ClaimGone(r)'
  BY <1>12 DEF Read
<1>13. ASSUME NEW p \in Proc, AssertClaim(p) PROVE \A r \in Proc : ClaimGone(r)'
  BY <1>13 DEF AssertClaim
<1>14. ASSUME NEW p \in Proc, Capture(p) PROVE \A r \in Proc : ClaimGone(r)'
  BY <1>14 DEF Capture
<1>15. ASSUME NEW p \in Proc, Judge(p) PROVE \A r \in Proc : ClaimGone(r)'
  BY <1>15 DEF Judge
<1>16. ASSUME NEW p \in Proc, Publish(p) PROVE \A r \in Proc : ClaimGone(r)'
  BY <1>16 DEF Publish
<1>17. ASSUME NEW p \in Proc, Undo(p) PROVE \A r \in Proc : ClaimGone(r)'
  BY <1>17 DEF Undo
<1>18. ASSUME NEW p \in Proc, RestoreLink(p) PROVE \A r \in Proc : ClaimGone(r)'
  BY <1>18 DEF RestoreLink
<1>19. ASSUME NEW p \in Proc, DropQuarantine(p) PROVE \A r \in Proc : ClaimGone(r)'
  BY <1>19 DEF DropQuarantine
<1>20. ASSUME NEW p \in Proc, DropClaim(p) PROVE \A r \in Proc : ClaimGone(r)'
  <2>1. claimFile = Tok(p) /\ pc[p] = "drop" /\ claimNo' = claimNo
    BY <1>20 DEF DropClaim, ClaimHeld, Owned
  <2>2. \A q \in Proc : pc[q] \in Recovering => moved[q] # Tok(p)
    BY <2>1 DEF ClaimsApart
  <2>3. pc'[p] \notin Recovering /\ \A q \in Proc \ {p} : pc'[q] = pc[q]
    BY <1>20 DEF DropClaim, AfterDrop
  <2>4. CASE claimFile' = NoClaim /\ moved' = moved /\ keptClaim' = keptClaim
    BY <2>1, <2>2, <2>3, <2>4
  <2>5. CASE claimFile' = claimFile /\ moved' = moved /\ keptClaim' = keptClaim \cup {p}
    BY <2>1, <2>3, <2>5
  <2> QED
    BY <1>20, <2>1, <2>4, <2>5 DEF DropClaim, Owned
<1>21. ASSUME NEW p \in Proc, DropRestore(p) PROVE \A r \in Proc : ClaimGone(r)'
  BY <1>21 DEF DropRestore, ChecksHold
<1>22. ASSUME NEW p \in Proc, RelRead(p) PROVE \A r \in Proc : ClaimGone(r)'
  BY <1>22 DEF RelRead, Supersede
<1>23. ASSUME NEW p \in Proc, RelAssert(p) PROVE \A r \in Proc : ClaimGone(r)'
  BY <1>23 DEF RelAssert
<1>24. ASSUME NEW p \in Proc, RelRecheck(p) PROVE \A r \in Proc : ClaimGone(r)'
  BY <1>24 DEF RelRecheck, Supersede
<1>25. ASSUME NEW p \in Proc, RelMove(p) PROVE \A r \in Proc : ClaimGone(r)'
  BY <1>25 DEF RelMove
<1>26. ASSUME NEW p \in Proc, RelVerify(p) PROVE \A r \in Proc : ClaimGone(r)'
  BY <1>26 DEF RelVerify
<1>27. ASSUME NEW p \in Proc, RelRevive(p) PROVE \A r \in Proc : ClaimGone(r)'
  BY <1>27 DEF RelRevive
<1>28. ASSUME NEW p \in Proc, BeginRelease(p) PROVE \A r \in Proc : ClaimGone(r)'
  BY <1>28 DEF BeginRelease
<1>29. ASSUME NEW p \in Proc, Quit(p) PROVE \A r \in Proc : ClaimGone(r)'
  BY <1>29 DEF Quit
<1>30. ASSUME NEW p \in Proc, ClaimTimeout(p) PROVE \A r \in Proc : ClaimGone(r)'
  BY <1>30 DEF ClaimTimeout, Abort
<1>31. ASSUME NEW p \in Proc, BeatOpen(p) PROVE \A r \in Proc : ClaimGone(r)'
  BY <1>31 DEF BeatOpen
<1>32. ASSUME NEW p \in Proc, BeatTouch(p) PROVE \A r \in Proc : ClaimGone(r)'
  BY <1>32 DEF BeatTouch
<1>33. ASSUME NEW p \in Proc, BeatClaim(p) PROVE \A r \in Proc : ClaimGone(r)'
  BY <1>33 DEF BeatClaim
<1>34. ASSUME NEW p \in Proc, LapseLock(p) PROVE \A r \in Proc : ClaimGone(r)'
  BY <1>34 DEF LapseLock
<1>35. ASSUME NEW p \in Proc, MarkUnverified(p) PROVE \A r \in Proc : ClaimGone(r)'
  BY <1>35 DEF MarkUnverified
<1>36. ASSUME NEW p \in Proc, Crash(p) PROVE \A r \in Proc : ClaimGone(r)'
  BY <1>36 DEF Crash
<1>37. ASSUME NEW p \in Proc, Suspend(p) PROVE \A r \in Proc : ClaimGone(r)'
  BY <1>37 DEF Suspend
<1>38. ASSUME NEW p \in Proc, Resume(p) PROVE \A r \in Proc : ClaimGone(r)'
  BY <1>38 DEF Resume
<1>39. CASE LapseClaim \/ UNCHANGED vars
  BY <1>39 DEF LapseClaim, vars
<1> QED
  BY <1>1, <1>2, <1>3, <1>4, <1>5, <1>6, <1>7, <1>8, <1>9, <1>10, <1>11, <1>12, <1>13, <1>14, <1>15, <1>16, <1>17, <1>18, <1>19, <1>20, <1>21, <1>22, <1>23, <1>24, <1>25, <1>26, <1>27, <1>28, <1>29, <1>30, <1>31, <1>32, <1>33, <1>34, <1>35, <1>36, <1>37, <1>38, <1>39
  DEF Next, Step, AcquireClaim, AcquireUnderClaim, Release, Finished

-----------------------------------------------------------------------------
(* The inductive invariant and what follows from it.                        *)

\* Initially nobody owns, claims or has captured anything.
LEMMA InitLockInv == Init => LockInv
  BY LockAssumption DEF Init, LockInv, ClaimHeld, ClaimsApart, ChecksHold, LockPlaced,
     QuarantinePlaced, ClaimGone, NotFound, Tok, Claim, NoClaim, StatusAt, Transition, Recovering, Claiming

\* Every step keeps the invariant: its parts, put together.
LEMMA LockInvStep == TypeOK /\ LockInv /\ [Next]_vars => LockInv'
<1> SUFFICES ASSUME TypeOK, LockInv, [Next]_vars PROVE LockInv'
  OBVIOUS
<1>1. (staleLocks \subseteq forfeited)'
  BY StaleStep DEF LockInv
<1>2. \A p \in Proc : StatusAt(p)'
  BY StatusStep DEF LockInv
<1>3. Published'
  BY PublishedStep DEF LockInv, Published
<1>4. ASSUME ~stolen'
      PROVE  /\ ClaimHeld' /\ ClaimsApart'
             /\ \A p \in Proc : ChecksHold(p)' /\ LockPlaced(p)' /\ QuarantinePlaced(p)' /\ ClaimGone(p)'
  <2>1. ~stolen
    BY <1>4, StolenStep
  <2>2. /\ ClaimHeld /\ ClaimsApart /\ staleLocks \subseteq forfeited
        /\ \A p \in Proc : StatusAt(p)
        /\ \A p \in Proc : ChecksHold(p) /\ LockPlaced(p) /\ QuarantinePlaced(p) /\ ClaimGone(p)
    BY <2>1 DEF LockInv
  <2>3. ClaimHeld' /\ ClaimsApart'
    BY <1>4, <2>2, ClaimsStep
  <2>4. \A p \in Proc : ChecksHold(p)'
    BY <1>4, <2>2, ChecksStep
  <2>5. \A p \in Proc : LockPlaced(p)'
    BY <1>4, <2>2, PlaceStep
  <2>6. \A p \in Proc : QuarantinePlaced(p)'
    BY <1>4, <2>2, QuarantineStep
  <2>7. \A p \in Proc : ClaimGone(p)'
    BY <1>4, <2>2, ClaimGoneStep
  <2> QED
    BY <2>3, <2>4, <2>5, <2>6, <2>7
<1> QED
  BY <1>1, <1>2, <1>3, <1>4 DEF LockInv, Published

\* The invariant that carries every theorem below.
THEOREM LockInvariant == Spec => []LockInv
<1>1. TypeOK /\ LockInv /\ [Next]_vars => LockInv'
  BY LockInvStep
<1> QED
  BY InitLockInv, <1>1, TypeCorrect, PTL DEF Spec

\* However processes die, are suspended or use --force: as long as no claim of
\* a process in transition was stolen, an owner that forfeited nothing still
\* has its lock file in place while its command runs.
THEOREM OwnerStaysInPlace == Spec => []OwnerInPlace
<1>1. LockInv => OwnerInPlace
  BY DEF LockInv, OwnerInPlace, StatusAt, LockPlaced
<1> QED
  BY <1>1, LockInvariant, PTL

\* ... and two commands run under the lock together only if one forfeited it.
THEOREM MutuallyExclusive == Spec => []MutualExclusion
<1>1. LockInv => MutualExclusion
  BY DEF LockInv, MutualExclusion, ExclusiveOwnership, StatusAt, LockPlaced
<1> QED
  BY <1>1, LockInvariant, PTL

\* ... and a release that returned, with its claim removed, is final: its file is
\* not the lock, and if its unlink failed no recovery finds the way to put it back.
THEOREM ReleaseIsFinal == Spec => []ReleasedIsGone
<1>1. LockInv => ReleasedIsGone
  <2> SUFFICES ASSUME LockInv, ~stolen, NEW p \in Proc, pc[p] = "done",
                      p \notin forfeited \cup keptClaim
               PROVE  lockFile # p /\ \A c \in Claim : quarantine[c] = p => NotFound(c)
    BY DEF ReleasedIsGone
  <2>1. status[p] = "gone" /\ p \notin forfeited /\ p \notin keptClaim
    BY DEF LockInv, StatusAt
  <2>2. LockPlaced(p) /\ QuarantinePlaced(p) /\ ClaimGone(p)
    BY DEF LockInv
  <2>3. lockFile # p
    BY <2>1, <2>2 DEF LockPlaced
  <2>4. NotFound(Tok(p))
    BY <2>1, <2>2 DEF ClaimGone, Transition
  <2>5. \A c \in Claim : quarantine[c] = p => c = Tok(p)
    BY <2>1, <2>2 DEF QuarantinePlaced
  <2> QED
    BY <2>3, <2>4, <2>5
<1> QED
  BY <1>1, LockInvariant, PTL
=============================================================================
