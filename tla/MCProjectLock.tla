--------------------------- MODULE MCProjectLock ---------------------------
(* Instances of ProjectLock for TLC.                                         *)
EXTENDS ProjectLock, TLC

Symmetric == Permutations(Proc \ Forcers)

\* Faults anywhere.
Anywhere == Label \ (Ended \cup {"start"})
Never == {}

\* Nothing is claimed after a theft: TLC need not look further.
NoTheft == ~stolen

\* The calls that act on what an earlier call read: where a suspension hurts.
Acting == {"holding", "seize", "relink", "capture", "publish", "undoLink", "drop", "relMove"}
\* The points that leave two files, or a captured owner, behind.
HalfDone == {"holding", "inspect", "judge", "relVerify"}

\* Where a claim or a lock that is not the expected one is put back, and where a
\* quarantine is unlinked.
Failing == {"seize", "putback", "relRestore", "dropRestore",
            "relVerify", "restoreUnlink", "clean", "relinkUnlink", "discard"}

\* A release dies between the drain of its heartbeat and the move of its file.
MidRelease == {"relRecheck"}
=============================================================================
