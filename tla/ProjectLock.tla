----------------------------- MODULE ProjectLock -----------------------------
(***************************************************************************)
(* The renewable project lease of src/src/lib/lock.ts with the admission   *)
(* barrier of src/src/lib/lock-admission.ts.                               *)
(*                                                                         *)
(* A process is one CLI invocation: it calls acquireLock once and, when it *)
(* got the lock, release until that succeeds.  Its owner token is itself;  *)
(* its n-th transition claim is <<p, n>>.  One step is one call on the     *)
(* file system, so every interleaving of two invocations between two calls *)
(* is a behaviour; reads of a file only the reader can reach are joined to *)
(* the next step.                                                          *)
(*                                                                         *)
(* An inode is named by the token written in it: link and rename keep it.  *)
(* Time is what the code makes of it: a lease file is stale or it is not.  *)
(* A file goes stale only while nobody beats it, because a heartbeat is    *)
(* at most a third of the time to live (validateDurations).                *)
(*                                                                         *)
(* A call whose failure the code survives, with a warning or without, may  *)
(* fail here: the unlinks of quarantines, the links that put a lease back, *)
(* the rename that seizes a claim and the one that removes an own claim.   *)
(***************************************************************************)
EXTENDS Naturals, FiniteSets

CONSTANTS
  Proc,         \* the invocations
  None,         \* no file at this path
  Forcers,      \* the invocations run with --force
  MaxLive,      \* how many invocations may run at the same time
  MaxClaims,    \* bound: claims an invocation takes (1 + calls of release)
  MaxSuspensions, \* bound: how often an invocation is suspended, in total
  CrashPoints,  \* the labels at which a process may be killed
  StallPoints,  \* the labels at which a process may be suspended past the TTLs
  FailPoints    \* the labels at which a call may fail whose failure is survived

\* Where an invocation is while it owns, or believes it owns, a claim.
Transition == {"admit", "read", "assertClaim", "capture", "judge", "restore",
  "restoreUnlink", "assertAgain", "admitAgain", "publish", "undo", "undoLink",
  "clean", "drop", "dropRestore", "relRead", "relAssert", "relRecheck",
  "relMove", "relVerify", "relRestore"}

\* Where it is while it waits for a claim or recovers an abandoned one.
Claiming == {"observe", "seize", "inspect", "putback", "salvage",
  "salvageFile", "relink", "relinkUnlink", "discard", "publishClaim"}

\* Of these, where it has renamed a claim away.
Recovering == {"inspect", "putback", "salvage", "salvageFile", "relink",
  "relinkUnlink", "discard"}

Ended == {"failed", "done", "crashed"}

Label == {"start", "holding", "relRevive"} \cup Claiming \cup Transition \cup Ended

ASSUME LockAssumption ==
  /\ None \notin Proc
  /\ Forcers \subseteq Proc
  /\ MaxClaims \in Nat \ {0} /\ MaxLive \in Nat /\ MaxSuspensions \in Nat
  /\ CrashPoints \subseteq Label \ Ended
  /\ StallPoints \subseteq Label \ Ended
  /\ FailPoints \subseteq Label \ Ended

Claim == Proc \X (1 .. MaxClaims)
NoClaim == <<None, 0>>

VARIABLES
  lockFile,     \* .ghostinit.lock: the owner token in it, or None
  claimFile,    \* .ghostinit.lock.takeover: the claim in it, or NoClaim
  quarantine,   \* the `owner` file in each claim's transition directory
  staleLocks,   \* owner inodes older than the lock TTL
  staleClaims,  \* claim inodes older than the claim TTL
  barrier,      \* the journal says CLEANUP_UNVERIFIED
  pc, status,   \* where each invocation is and what it has achieved
  claimNo,      \* the number of its latest published claim
  obs, moved,   \* the claim it observed, the claim it renamed away
  captured,     \* it took a previous owner into its quarantine and kept it
  hb,           \* its owner heartbeat: off, on, or open (file read, not yet touched)
  claimHb,      \* whether its claim heartbeat runs
  stalled,      \* the invocations that are suspended
  forfeited,    \* history: owners that lapsed or that --force took over
  stolen,       \* history: a recovery renamed away the claim of a process in transition
  suspensions,  \* how many there have been
  keptClaim     \* history: the invocations that could not remove a claim of theirs

files == <<lockFile, claimFile, quarantine>>
history == <<forfeited, stolen, suspensions, keptClaim>>
clocks == <<staleLocks, staleClaims>>
locals == <<claimNo, obs, moved, captured>>
beats == <<hb, claimHb>>
vars == <<files, clocks, history, barrier, pc, status, locals, beats, stalled>>

TypeOK ==
  /\ lockFile \in Proc \cup {None}
  /\ claimFile \in Claim \cup {NoClaim}
  /\ quarantine \in [Claim -> Proc \cup {None}]
  /\ staleLocks \subseteq Proc
  /\ staleClaims \subseteq Claim
  /\ barrier \in BOOLEAN
  /\ pc \in [Proc -> Label]
  /\ status \in [Proc -> {"seeking", "owning", "drained", "gone"}]
  /\ claimNo \in [Proc -> 0 .. MaxClaims]
  /\ \A p \in Proc : pc[p] \in Claiming \cup {"start"} => claimNo[p] < MaxClaims
  /\ \A p \in Proc : pc[p] \in Recovering => moved[p] # NoClaim
  /\ \A p \in Proc : pc[p] \in Transition => claimNo[p] # 0
  /\ obs \in [Proc -> Claim \cup {NoClaim}]
  /\ moved \in [Proc -> Claim \cup {NoClaim}]
  /\ captured \in [Proc -> BOOLEAN]
  /\ hb \in [Proc -> {"off", "on", "open"}]
  /\ claimHb \in [Proc -> BOOLEAN]
  /\ stalled \subseteq Proc
  /\ forfeited \subseteq Proc
  /\ stolen \in BOOLEAN
  /\ suspensions \in 0 .. MaxSuspensions
  /\ keptClaim \subseteq Proc

Init ==
  /\ lockFile = None /\ claimFile = NoClaim
  /\ quarantine = [c \in Claim |-> None]
  /\ staleLocks = {} /\ staleClaims = {} /\ forfeited = {}
  /\ barrier = FALSE
  /\ pc = [p \in Proc |-> "start"]
  /\ status = [p \in Proc |-> "seeking"]
  /\ claimNo = [p \in Proc |-> 0]
  /\ obs = [p \in Proc |-> NoClaim] /\ moved = [p \in Proc |-> NoClaim]
  /\ captured = [p \in Proc |-> FALSE]
  /\ hb = [p \in Proc |-> "off"] /\ claimHb = [p \in Proc |-> FALSE]
  /\ stalled = {} /\ stolen = FALSE /\ suspensions = 0 /\ keptClaim = {}

-----------------------------------------------------------------------------
(* Reading and moving the two lease files.                                  *)

Tok(p) == <<p, claimNo[p]>>
Running(p) == pc[p] \notin Ended /\ p \notin stalled
Live == {p \in Proc : pc[p] \notin Ended \cup {"start"}}

\* p is at label l and its next step may run.
At(p, l) == pc[p] = l /\ p \notin stalled
Goto(p, l) == pc' = [pc EXCEPT ![p] = l]

\* The call at p's label fails.
Fails(p) == pc[p] \in FailPoints

\* Mutant: the age is compared with a TTL of zero.
NeverFreshLock(o) == FALSE

\* snapshot(...) returned a lease no older than its TTL
FreshLock(o) == o # None /\ o \notin staleLocks
FreshClaim(c) == c # NoClaim /\ c \notin staleClaims

\* guard.assertOwned(): the claim file still holds p's token
Owned(p) == claimFile = Tok(p)

\* acquireClaim threw: acquireLock and release reject with its error
Abort(p) == Goto(p, IF status[p] = "seeking" THEN "failed" ELSE "holding")

-----------------------------------------------------------------------------
(* acquireClaim and recoverAbandonedClaim                                   *)

\* acquireLock up to acquireClaim: the first admission check
Start(p) ==
  /\ At(p, "start") /\ Cardinality(Live) < MaxLive
  /\ Goto(p, IF barrier THEN "failed" ELSE "observe")
  /\ UNCHANGED <<files, clocks, history, barrier, status, locals, beats, stalled>>

\* A fresh claim makes the loop sleep and look again: no step.
Observe(p) ==
  /\ At(p, "observe") /\ ~FreshClaim(claimFile)
  /\ obs' = [obs EXCEPT ![p] = claimFile]
  /\ Goto(p, IF claimFile = NoClaim THEN "publishClaim" ELSE "seize")
  /\ UNCHANGED <<files, clocks, history, barrier, status, claimNo, moved, captured, beats, stalled>>

\* The deadline passed while claims of others kept p waiting.
ClaimTimeout(p) ==
  /\ At(p, "observe") /\ claimFile # NoClaim
  /\ Abort(p)
  /\ UNCHANGED <<files, clocks, history, barrier, status, locals, beats, stalled>>

\* rename(fixed, recoveryClaim); any error but ENOENT is another turn of the loop
Seize(p) ==
  /\ At(p, "seize")
  /\ \/ /\ moved' = [moved EXCEPT ![p] = claimFile]
        /\ claimFile' = NoClaim
        /\ stolen' = (stolen \/ \E o \in Proc : pc[o] \in Transition /\ Owned(o))
        /\ Goto(p, IF claimFile = NoClaim THEN "publishClaim" ELSE "inspect")
     \/ Fails(p) /\ Goto(p, "observe") /\ UNCHANGED <<moved, claimFile, stolen>>
  /\ UNCHANGED <<lockFile, quarantine, clocks, forfeited, suspensions, keptClaim, barrier, status,
                 claimNo, obs, captured, beats, stalled>>

\* What was moved must be what was observed, and still stale.
Inspect(p) ==
  /\ At(p, "inspect")
  /\ Goto(p, IF moved[p] # obs[p] \/ FreshClaim(moved[p]) THEN "putback" ELSE "salvage")
  /\ UNCHANGED <<files, clocks, history, barrier, status, locals, beats, stalled>>

\* restoreNoReplace(recoveryClaim, fixed): a claim published meanwhile stays,
\* and after an error the claim stays away
Putback(p) ==
  /\ At(p, "putback")
  /\ \/ claimFile' = IF claimFile = NoClaim THEN moved[p] ELSE claimFile
     \/ Fails(p) /\ UNCHANGED claimFile
  /\ moved' = [moved EXCEPT ![p] = NoClaim]
  /\ Goto(p, "observe")
  /\ UNCHANGED <<lockFile, quarantine, clocks, history, barrier, status, claimNo, obs, captured,
                 beats, stalled>>

\* Does the dead transition hold a captured owner?
Salvage(p) ==
  /\ At(p, "salvage")
  /\ Goto(p, IF quarantine[moved[p]] = None THEN "publishClaim" ELSE "salvageFile")
  /\ UNCHANGED <<files, clocks, history, barrier, status, locals, beats, stalled>>

SalvageFile(p) ==
  /\ At(p, "salvageFile")
  /\ Goto(p, IF lockFile = None THEN "relink" ELSE "discard")
  /\ UNCHANGED <<files, clocks, history, barrier, status, locals, beats, stalled>>

\* link(quarantine, file); EEXIST gives up, a quarantine that is gone throws
Relink(p) ==
  /\ At(p, "relink")
  /\ LET q == quarantine[moved[p]] IN
     /\ lockFile' = IF lockFile = None THEN q ELSE lockFile
     /\ IF q = None THEN Abort(p)
        ELSE Goto(p, IF lockFile = None THEN "relinkUnlink" ELSE "observe")
     /\ moved' = IF lockFile = None /\ q # None THEN moved
                 ELSE [moved EXCEPT ![p] = NoClaim]
  /\ UNCHANGED <<claimFile, quarantine, clocks, history, barrier, status, claimNo, obs,
                 captured, beats, stalled>>

\* unlink of the quarantine.  Failing it is ignored when a lock is in place,
\* and ends the attempt after the link.
DropSalvaged(p) ==
  /\ At(p, "relinkUnlink") \/ At(p, "discard")
  /\ \/ quarantine' = [quarantine EXCEPT ![moved[p]] = None] /\ Goto(p, "publishClaim")
     \/ /\ Fails(p) /\ UNCHANGED quarantine
        /\ IF pc[p] = "discard" THEN Goto(p, "publishClaim") ELSE Abort(p)
  /\ moved' = [moved EXCEPT ![p] = NoClaim]
  /\ UNCHANGED <<lockFile, claimFile, clocks, history, barrier, status, claimNo, obs, captured,
                 beats, stalled>>

\* publishExclusive(claimPath): link without replacement, then the heartbeat
PublishClaim(p) ==
  /\ At(p, "publishClaim")
  /\ IF claimFile = NoClaim
     THEN /\ claimNo' = [claimNo EXCEPT ![p] = @ + 1]
          /\ claimFile' = <<p, claimNo[p] + 1>>
          /\ claimHb' = [claimHb EXCEPT ![p] = TRUE]
          /\ Goto(p, IF status[p] = "seeking" THEN "admit" ELSE "relRead")
     ELSE /\ Goto(p, "observe")
          /\ UNCHANGED <<claimNo, claimFile, claimHb>>
  /\ obs' = [obs EXCEPT ![p] = NoClaim]
  /\ moved' = [moved EXCEPT ![p] = NoClaim]
  /\ UNCHANGED <<lockFile, quarantine, clocks, history, barrier, status, captured, hb, stalled>>

AcquireClaim(p) ==
  \/ Start(p) \/ Observe(p) \/ Seize(p) \/ Inspect(p) \/ Putback(p)
  \/ Salvage(p) \/ SalvageFile(p) \/ Relink(p) \/ DropSalvaged(p) \/ PublishClaim(p)

-----------------------------------------------------------------------------
(* acquireLock under the claim                                              *)

\* Mutant: admission is checked when the claim is taken, not before publication.
AdmitOnce(p) ==
  /\ \/ At(p, "admit") /\ Goto(p, IF barrier THEN "drop" ELSE "read")
     \/ At(p, "admitAgain") /\ Goto(p, "publish")
  /\ UNCHANGED <<files, clocks, history, barrier, status, locals, beats, stalled>>

\* assertProjectMutationAdmitted, again under the claim and before publication
Admit(p) ==
  /\ \/ At(p, "admit") /\ Goto(p, IF barrier THEN "drop" ELSE "read")
     \/ At(p, "admitAgain") /\ Goto(p, IF barrier THEN "undo" ELSE "publish")
  /\ UNCHANGED <<files, clocks, history, barrier, status, locals, beats, stalled>>

\* Mutant: the age is looked at only after the capture.
ReadUnaged(p) ==
  /\ At(p, "read")
  /\ Goto(p, IF lockFile = None THEN "assertAgain" ELSE "assertClaim")
  /\ UNCHANGED <<files, clocks, history, barrier, status, locals, beats, stalled>>

\* snapshot(file): an owner that still renews its lease is not disturbed.
Read(p) ==
  /\ At(p, "read")
  /\ Goto(p, IF lockFile = None THEN "assertAgain"
             ELSE IF FreshLock(lockFile) /\ p \notin Forcers THEN "drop" ELSE "assertClaim")
  /\ UNCHANGED <<files, clocks, history, barrier, status, locals, beats, stalled>>

AssertClaim(p) ==
  /\ \/ At(p, "assertClaim") /\ Goto(p, IF Owned(p) THEN "capture" ELSE "drop")
     \/ At(p, "assertAgain") /\ Goto(p, IF Owned(p) THEN "admitAgain" ELSE "undo")
  /\ UNCHANGED <<files, clocks, history, barrier, status, locals, beats, stalled>>

\* rename(file, quarantinePath); ENOENT fails the acquisition
Capture(p) ==
  /\ At(p, "capture")
  /\ IF lockFile = None
     THEN Goto(p, "drop") /\ UNCHANGED <<lockFile, quarantine, forfeited>>
     ELSE /\ quarantine' = [quarantine EXCEPT ![Tok(p)] = lockFile]
          /\ lockFile' = None
          /\ forfeited' = IF p \in Forcers THEN forfeited \cup {lockFile} ELSE forfeited
          /\ Goto(p, "judge")
  /\ UNCHANGED <<claimFile, clocks, stolen, suspensions, keptClaim, barrier, status, locals, beats,
                 stalled>>

\* The captured inode is looked at again: a heartbeat may have renewed it.
Judge(p) ==
  /\ At(p, "judge")
  /\ LET q == quarantine[Tok(p)]
         keep == q # None /\ (~FreshLock(q) \/ p \in Forcers) IN
     /\ captured' = [captured EXCEPT ![p] = keep]
     /\ Goto(p, IF q = None THEN "drop" ELSE IF keep THEN "assertAgain" ELSE "restore")
  /\ UNCHANGED <<files, clocks, history, barrier, status, claimNo, obs, moved, beats, stalled>>

\* publishExclusive(file, owner), with the owner heartbeat started after it
Publish(p) ==
  /\ At(p, "publish")
  /\ IF lockFile = None
     THEN /\ lockFile' = p
          /\ status' = [status EXCEPT ![p] = "owning"]
          /\ hb' = [hb EXCEPT ![p] = "on"]
          /\ Goto(p, IF captured[p] THEN "clean" ELSE "drop")
     ELSE Goto(p, "undo") /\ UNCHANGED <<lockFile, status, hb>>
  /\ UNCHANGED <<claimFile, quarantine, clocks, history, barrier, locals, claimHb, stalled>>

\* publication failed: give the captured owner back when the path is free
Undo(p) ==
  /\ At(p, "undo")
  /\ Goto(p, IF captured[p] /\ lockFile = None THEN "undoLink" ELSE "drop")
  /\ UNCHANGED <<files, clocks, history, barrier, status, locals, beats, stalled>>

\* link(quarantinePath, file) of restoreNoReplace, by Judge's failure, by Undo,
\* or by a release that captured the lock of someone else
RestoreLink(p) ==
  /\ At(p, "restore") \/ At(p, "undoLink") \/ At(p, "relRestore")
  /\ LET q == quarantine[Tok(p)] IN
     \/ lockFile = None /\ q # None /\ lockFile' = q /\ Goto(p, "restoreUnlink")
     \/ /\ lockFile # None \/ q = None \/ Fails(p)
        /\ UNCHANGED lockFile /\ Goto(p, "drop")
  /\ UNCHANGED <<claimFile, quarantine, clocks, history, barrier, status, locals, beats, stalled>>

\* unlink(quarantinePath): after publication, or after a restoring link, where
\* only success makes the release of a superseded owner a success
DropQuarantine(p) ==
  /\ At(p, "restoreUnlink") \/ At(p, "clean")
  /\ \/ /\ quarantine' = [quarantine EXCEPT ![Tok(p)] = None]
        /\ status' = [status EXCEPT ![p] = IF @ = "drained" THEN "gone" ELSE @]
     \/ Fails(p) /\ UNCHANGED <<quarantine, status>>
  /\ Goto(p, "drop")
  /\ UNCHANGED <<lockFile, claimFile, clocks, history, barrier, locals, beats, stalled>>

-----------------------------------------------------------------------------
(* guard.release                                                            *)

\* Where p goes when its claim is released.
AfterDrop(p) ==
  CASE status[p] = "seeking" -> "failed"
    [] status[p] = "owning" -> "holding"
    [] status[p] = "drained" -> "relRevive"
    [] status[p] = "gone" -> "done"

\* Mutant: a release that removed its lock leaves the claim to a recovery.
DropClaimForgets(p) ==
  /\ At(p, "drop")
  /\ claimHb' = [claimHb EXCEPT ![p] = FALSE]
  /\ Goto(p, AfterDrop(p))
  /\ claimFile' = IF status[p] = "gone" THEN claimFile ELSE NoClaim
  /\ UNCHANGED <<lockFile, quarantine, clocks, history, barrier, status, locals, hb, stalled>>

\* removeOwnedClaim: rename(fixed, movedPath), keep it only when it is p's own.
\* When the rename fails the claim stays, for others to recover.
DropClaim(p) ==
  /\ At(p, "drop")
  /\ claimHb' = [claimHb EXCEPT ![p] = FALSE]
  /\ \/ /\ claimFile' = NoClaim
        /\ IF Owned(p) \/ claimFile = NoClaim
           THEN Goto(p, AfterDrop(p)) /\ UNCHANGED moved
           ELSE Goto(p, "dropRestore") /\ moved' = [moved EXCEPT ![p] = claimFile]
        /\ UNCHANGED keptClaim
     \/ /\ Fails(p) /\ claimFile # NoClaim /\ Goto(p, AfterDrop(p))
        /\ keptClaim' = keptClaim \cup {p}
        /\ UNCHANGED <<claimFile, moved>>
  /\ UNCHANGED <<lockFile, quarantine, clocks, forfeited, stolen, suspensions, barrier, status,
                 claimNo, obs, captured, hb, stalled>>

\* restoreNoReplace(movedPath, fixed): failing it is an error or a warning
DropRestore(p) ==
  /\ At(p, "dropRestore")
  /\ \/ claimFile' = IF claimFile = NoClaim THEN moved[p] ELSE claimFile
     \/ Fails(p) /\ UNCHANGED claimFile
  /\ moved' = [moved EXCEPT ![p] = NoClaim]
  /\ Goto(p, AfterDrop(p))
  /\ UNCHANGED <<lockFile, quarantine, clocks, history, barrier, status, claimNo, obs, captured,
                 beats, stalled>>

AcquireUnderClaim(p) ==
  \/ Admit(p) \/ Read(p) \/ AssertClaim(p) \/ Capture(p) \/ Judge(p) \/ Publish(p)
  \/ Undo(p) \/ RestoreLink(p) \/ DropQuarantine(p) \/ DropClaim(p) \/ DropRestore(p)

-----------------------------------------------------------------------------
(* release                                                                  *)

BeginRelease(p) ==
  /\ At(p, "holding") /\ claimNo[p] < MaxClaims
  /\ Goto(p, "observe")
  /\ UNCHANGED <<files, clocks, history, barrier, status, locals, beats, stalled>>

\* A failed release ends the command: the process exits and leaves its file.
Quit(p) ==
  /\ At(p, "holding") /\ claimNo[p] > 1
  /\ Goto(p, "crashed")
  /\ hb' = [hb EXCEPT ![p] = "off"]
  /\ UNCHANGED <<files, clocks, history, barrier, status, locals, claimHb, stalled>>

\* Not the owner any more: drain the heartbeat, there is nothing to remove.
Supersede(p) ==
  /\ hb[p] # "open"
  /\ hb' = [hb EXCEPT ![p] = "off"]
  /\ status' = [status EXCEPT ![p] = "gone"]
  /\ Goto(p, "drop")

RelRead(p) ==
  /\ At(p, "relRead")
  /\ IF lockFile = p THEN Goto(p, "relAssert") /\ UNCHANGED <<hb, status>> ELSE Supersede(p)
  /\ UNCHANGED <<files, clocks, history, barrier, locals, claimHb, stalled>>

\* assertOwned, then stopAndDrain waits for the heartbeat in flight
RelAssert(p) ==
  /\ At(p, "relAssert") /\ hb[p] # "open"
  /\ IF Owned(p)
     THEN /\ hb' = [hb EXCEPT ![p] = "off"]
          /\ status' = [status EXCEPT ![p] = "drained"]
          /\ Goto(p, "relRecheck")
     ELSE Goto(p, "drop") /\ UNCHANGED <<hb, status>>
  /\ UNCHANGED <<files, clocks, history, barrier, locals, claimHb, stalled>>

RelRecheck(p) ==
  /\ At(p, "relRecheck")
  /\ IF lockFile = p THEN Goto(p, "relMove") /\ UNCHANGED <<hb, status>> ELSE Supersede(p)
  /\ UNCHANGED <<files, clocks, history, barrier, locals, claimHb, stalled>>

\* rename(file, quarantinePath); ENOENT is a release error
RelMove(p) ==
  /\ At(p, "relMove")
  /\ IF lockFile = None
     THEN Goto(p, "drop") /\ UNCHANGED <<lockFile, quarantine>>
     ELSE /\ quarantine' = [quarantine EXCEPT ![Tok(p)] = lockFile]
          /\ lockFile' = None
          /\ Goto(p, "relVerify")
  /\ UNCHANGED <<claimFile, clocks, history, barrier, status, locals, beats, stalled>>

\* The moved file is p's own: unlink it, and failing that is only a warning.
\* Someone else's: restore it.
RelVerify(p) ==
  /\ At(p, "relVerify")
  /\ IF quarantine[Tok(p)] = p
     THEN /\ \/ quarantine' = [quarantine EXCEPT ![Tok(p)] = None]
             \/ Fails(p) /\ UNCHANGED quarantine
          /\ status' = [status EXCEPT ![p] = "gone"]
          /\ Goto(p, "drop")
     ELSE Goto(p, "relRestore") /\ UNCHANGED <<quarantine, status>>
  /\ UNCHANGED <<lockFile, claimFile, clocks, history, barrier, locals, beats, stalled>>

\* The release failed after the drain: beat again if p is still the owner.
RelRevive(p) ==
  /\ At(p, "relRevive")
  /\ hb' = [hb EXCEPT ![p] = IF lockFile = p THEN "on" ELSE @]
  /\ status' = [status EXCEPT ![p] = "owning"]
  /\ Goto(p, "holding")
  /\ UNCHANGED <<files, clocks, history, barrier, locals, claimHb, stalled>>

Release(p) ==
  \/ RelRead(p) \/ RelAssert(p) \/ RelRecheck(p) \/ RelMove(p) \/ RelVerify(p)
  \/ RelRevive(p)

-----------------------------------------------------------------------------
(* Heartbeats, the passing of time, and what happens to processes.          *)

\* The owner heartbeat opens the file.  A beat on a fresh file changes nothing.
BeatOpen(p) ==
  /\ Running(p) /\ hb[p] = "on" /\ lockFile # None
  /\ \/ lockFile = p /\ p \in staleLocks /\ hb' = [hb EXCEPT ![p] = "open"]
     \/ lockFile # p /\ hb' = [hb EXCEPT ![p] = "off"]
  /\ UNCHANGED <<files, clocks, history, barrier, pc, status, locals, claimHb, stalled>>

\* Mutant: the beat in flight is never taken for finished.
BeatNeverDone(p) ==
  /\ Running(p) /\ hb[p] = "open" /\ staleLocks' = staleLocks \ {p}
  /\ UNCHANGED <<files, staleClaims, history, barrier, pc, status, locals, beats, stalled>>

\* utimes on the open handle: it reaches the inode wherever it was moved
BeatTouch(p) ==
  /\ Running(p) /\ hb[p] = "open"
  /\ hb' = [hb EXCEPT ![p] = "on"]
  /\ staleLocks' = staleLocks \ {p}
  /\ UNCHANGED <<files, staleClaims, history, barrier, pc, status, locals, claimHb, stalled>>

\* The claim heartbeat touches its own claim and stops at another's.
BeatClaim(p) ==
  /\ Running(p) /\ claimHb[p] /\ claimFile # NoClaim
  /\ IF Owned(p)
     THEN /\ claimFile \in staleClaims /\ staleClaims' = staleClaims \ {claimFile}
          /\ UNCHANGED claimHb
     ELSE claimHb' = [claimHb EXCEPT ![p] = FALSE] /\ UNCHANGED staleClaims
  /\ UNCHANGED <<files, staleLocks, history, barrier, pc, status, locals, hb, stalled>>

\* A lock that nobody beats gets older than its TTL: its owner is not running,
\* or its heartbeat stopped when it met another owner's file.  The calls that
\* follow the drain of a release are taken to end within the TTL.
LapseLock(o) ==
  /\ o \notin staleLocks
  /\ ~Running(o) \/ (pc[o] = "holding" /\ hb[o] = "off")
  /\ lockFile = o \/ \E c \in Claim : quarantine[c] = o
  /\ staleLocks' = staleLocks \cup {o}
  /\ forfeited' = forfeited \cup {o}
  /\ UNCHANGED <<files, staleClaims, stolen, suspensions, keptClaim, barrier, pc, status, locals,
                 beats, stalled>>

LapseClaim ==
  /\ FreshClaim(claimFile)
  /\ LET p == claimFile[1] IN ~(Running(p) /\ claimHb[p] /\ Owned(p))
  /\ staleClaims' = staleClaims \cup {claimFile}
  /\ UNCHANGED <<files, staleLocks, history, barrier, pc, status, locals, beats, stalled>>

\* The holder could not verify that an installation's processes are gone
\* (retainUnverifiedCleanup): no later command may take the lock.
MarkUnverified(p) ==
  /\ At(p, "holding") /\ ~barrier /\ lockFile = p
  /\ barrier' = TRUE
  /\ UNCHANGED <<files, clocks, history, pc, status, locals, beats, stalled>>

Crash(p) ==
  /\ pc[p] \in CrashPoints
  /\ Goto(p, "crashed")
  /\ hb' = [hb EXCEPT ![p] = "off"] /\ claimHb' = [claimHb EXCEPT ![p] = FALSE]
  /\ stalled' = stalled \ {p}
  /\ UNCHANGED <<files, clocks, history, barrier, status, locals>>

Suspend(p) ==
  /\ pc[p] \in StallPoints /\ p \notin stalled /\ suspensions < MaxSuspensions
  /\ stalled' = stalled \cup {p}
  /\ suspensions' = suspensions + 1
  /\ UNCHANGED <<files, clocks, forfeited, stolen, keptClaim, barrier, pc, status, locals, beats>>

Resume(p) ==
  /\ p \in stalled
  /\ stalled' = stalled \ {p}
  /\ UNCHANGED <<files, clocks, history, barrier, pc, status, locals, beats>>

\* Every invocation is over: the model has nothing left to do.
Finished == (\A p \in Proc : pc[p] \in Ended) /\ UNCHANGED vars

\* What p does by itself, without waiting for a clock, a caller or a fault.
Step(p) == AcquireClaim(p) \/ AcquireUnderClaim(p) \/ Release(p) \/ BeatTouch(p)

Next ==
  \/ \E p \in Proc :
       \/ Step(p) \/ BeginRelease(p) \/ Quit(p) \/ ClaimTimeout(p) \/ BeatOpen(p) \/ BeatClaim(p)
       \/ LapseLock(p) \/ MarkUnverified(p) \/ Crash(p) \/ Suspend(p) \/ Resume(p)
  \/ LapseClaim
  \/ Finished

Spec == Init /\ [][Next]_vars

\* A process that is not suspended forever makes progress, the clock runs on
\* (abandoned claims age, deadlines pass), and suspensions end.
Fairness ==
  /\ \A p \in Proc : /\ SF_vars(Step(p)) /\ WF_vars(Resume(p))
                     /\ SF_vars(ClaimTimeout(p))
                     /\ SF_vars(BeginRelease(p) \/ Quit(p))
  /\ WF_vars(LapseClaim)

FairSpec == Spec /\ Fairness

-----------------------------------------------------------------------------
(* The inductive invariant.  Every part but the first holds while no claim  *)
(* was stolen.                                                              *)

\* What an invocation has achieved, by where it is.
StatusAt(p) ==
  /\ pc[p] \in {"start", "admit", "read", "assertClaim", "capture", "judge", "restore",
                "assertAgain", "admitAgain", "publish", "undo", "undoLink"}
       => status[p] = "seeking"
  /\ pc[p] \in {"holding", "clean", "relRead", "relAssert"} => status[p] = "owning"
  /\ pc[p] \in {"relRecheck", "relMove", "relVerify", "relRevive"} => status[p] = "drained"
  /\ pc[p] \in Claiming => status[p] \in {"seeking", "owning"}
  /\ pc[p] = "done" => status[p] = "gone"
  /\ pc[p] = "failed" => status[p] = "seeking"

\* Claims are told apart: a claim renamed away by a recovery is not the one
\* at the canonical path, nor the one another recovery holds.
ClaimsApart ==
  /\ claimFile # NoClaim => claimFile[2] <= claimNo[claimFile[1]]
  /\ \A p \in Proc : pc[p] \in Recovering =>
       /\ moved[p] # claimFile
       /\ moved[p][2] <= claimNo[moved[p][1]]
  /\ \A p, r \in Proc :
       pc[p] \in Recovering /\ pc[r] \in Recovering /\ p # r => moved[p] # moved[r]

\* A process in a transition still owns the claim: no recovery took it.
ClaimHeld == \A p \in Proc : pc[p] \in Transition => Owned(p)

\* What the checks made under the claim are still worth when they are used.
ChecksHold(p) ==
  /\ pc[p] \in {"assertClaim", "capture"}
       => lockFile # None /\ (lockFile \in forfeited \/ p \in Forcers)
  /\ pc[p] = "publish" /\ barrier => lockFile # None
  /\ pc[p] = "relMove" => lockFile = p
  /\ pc[p] = "relVerify" => quarantine[Tok(p)] = p
  /\ pc[p] \notin {"relRestore", "dropRestore"}
  /\ pc[p] = "restoreUnlink" => status[p] = "seeking"

\* Where the file of an owner that forfeited nothing is: at the canonical
\* path until its own release moves it, and never anywhere else.
LockPlaced(p) ==
  p \notin forfeited /\ pc[p] # "crashed" =>
    /\ status[p] \in {"owning", "drained"} /\ pc[p] # "relVerify" => lockFile = p
    /\ status[p] = "gone" /\ p \notin keptClaim => lockFile # p
    /\ pc[p] = "relVerify" => lockFile # p

\* In a quarantine it is only from the move by its own release on.
QuarantinePlaced(p) ==
  p \notin forfeited /\ pc[p] # "crashed" =>
    \A c \in Claim : quarantine[c] = p =>
      c = Tok(p) /\ (pc[p] = "relVerify" \/ status[p] = "gone")

\* The claim c is neither at the canonical path nor in the hands of a recovery.
NotFound(c) == claimFile # c /\ \A r \in Proc : pc[r] \in Recovering => moved[r] # c

\* A transition that is over has taken its claim along.
ClaimGone(p) ==
  pc[p] \notin Transition \cup {"crashed"} /\ p \notin keptClaim => NotFound(Tok(p))

LockInv ==
  /\ staleLocks \subseteq forfeited
  /\ \A p \in Proc : lockFile = p \/ (\E c \in Claim : quarantine[c] = p)
                      => status[p] # "seeking"
  /\ \A p \in Proc : StatusAt(p)
  /\ ~stolen => /\ ClaimHeld /\ ClaimsApart
                /\ \A p \in Proc : ChecksHold(p) /\ LockPlaced(p) /\ QuarantinePlaced(p) /\ ClaimGone(p)

-----------------------------------------------------------------------------
(* Properties                                                               *)

\* An owner that kept its lease alive and met no --force still has its file
\* at the canonical path while its command runs: no takeover, restore or
\* release of another invocation displaced it, unless a claim was stolen.
OwnerInPlace ==
  ~stolen => \A p \in Proc : pc[p] = "holding" /\ p \notin forfeited => lockFile = p

\* A release that returned has ended its lease for good, although the unlink of
\* its file may have failed: the file is not at the canonical path, and no claim
\* through which a recovery would put it back from its quarantine is to be found.
\* Excepted is a release that could not remove its own claim either.
ReleasedIsGone ==
  ~stolen => \A p \in Proc :
    pc[p] = "done" /\ p \notin forfeited \cup keptClaim
    => lockFile # p /\ \A c \in Claim : quarantine[c] = p => NotFound(c)

\* What the header of lock.ts promises without reserve, "ownership-safe stale
\* takeover": two commands that both keep their lease alive never run together.
ExclusiveOwnership ==
  \A p, q \in Proc :
    /\ pc[p] = "holding" /\ p \notin forfeited
    /\ pc[q] = "holding" /\ q \notin forfeited
    => p = q

\* It holds as long as no recovery renames away the claim of a process that is
\* in the middle of a transition.
MutualExclusion == ~stolen => ExclusiveOwnership

\* No lock is acquired once the journal demands a reconciliation: the check
\* before publication is not made stale by a takeover.
BarrierHolds ==
  [][\A p \in Proc : status[p] = "seeking" /\ status'[p] = "owning" /\ ~stolen
                     => ~barrier]_vars

\* Every call of acquireLock returns or throws, whatever happened to others.
AttemptEnds ==
  \A p \in Proc : pc[p] = "observe" ~> pc[p] \in {"holding"} \cup Ended

\* The abstract lease this protocol implements.
Owns(p) == status[p] \in {"owning", "drained"} /\ pc[p] # "crashed"
Owners == {p \in Proc : Owns(p)}
Past == {p \in Proc : status[p] # "seeking"}
Lease == INSTANCE ProjectLease WITH owners <- Owners, past <- Past, broken <- stolen
LeaseSpec == Lease!Spec
=============================================================================
