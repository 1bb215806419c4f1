---------------------------- MODULE ObjectStorage ----------------------------
(***************************************************************************)
(* Uploads of a generated PostgreSQL application: owned objects             *)
(* (templates/adapters/storage/postgres.ts), message attachments           *)
(* (templates/adapters/messaging/postgres-attachments.ts) and the workers  *)
(* that delete the blobs behind them.                                      *)
(*                                                                         *)
(* An upload reserves its room in the owner's quota with a pending row,    *)
(* writes the blob outside of any transaction, and then turns the row      *)
(* ready.  A row that is removed leaves a tombstone in the same            *)
(* transaction; a worker deletes the blob under a lease on the tombstone.  *)
(*                                                                         *)
(* An upload stands for its row, its storage key and the request that      *)
(* makes it.  One step is one transaction or one call of the blob store;   *)
(* the transactions that take more than one lock, or read more than one    *)
(* table, are one step per statement.  All uploads have one owner.  A      *)
(* deadline passes as a step of its own (Expire, LeaseExpires), so a call  *)
(* may take any time.                                                      *)
(***************************************************************************)
EXTENDS Naturals, FiniteSets, FiniteSetsExt

CONSTANTS
  Object,       \* the uploads made with putOwned
  Attachment,   \* the uploads made with storeMessageAttachment
  Worker,       \* the processes that run the cleanup worker
  Size,         \* the bytes of each upload
  MaxObjects,   \* DEFAULT_STORAGE_QUOTA.maxObjectsPerOwner
  MaxBytes,     \* DEFAULT_STORAGE_QUOTA.maxBytesPerOwner
  Nobody,       \* the owner lock is free
  MaxFaults     \* bound: calls that fail or lose their answer, and crashes

Upload == Object \cup Attachment

ASSUME StorageAssumption ==
  /\ IsFiniteSet(Upload) /\ Object \cap Attachment = {}
  /\ Size \in [Upload -> Nat \ {0}]
  /\ MaxObjects \in Nat /\ MaxBytes \in Nat /\ MaxFaults \in Nat
  /\ Nobody \notin Upload /\ Worker \cap Upload = {}
  /\ {"none", "free"} \cap Worker = {}

\* Where a request is: the statement or the call it makes next.
InFlight == {"readOther", "readQueue", "put", "bind", "finalize", "cancel",
             "cancelRow", "drop"}
Ended == {"refused", "done", "failed", "crashed"}

VARIABLES
  pc,           \* where each upload's request is
  returned,     \* the uploads whose putFile returned a blob to the request
  seen,         \* the rows and tombstones its reservation has read so far
  ownerLock,    \* the holder of the owner's advisory lock
  row,          \* the row of stored_objects or message_attachments
  expired,      \* the rows whose expiresAt has passed
  tomb,         \* the tombstone: "none", "free" or the worker that leases it
  blob,         \* the keys present in the blob store
  wpc,          \* where each worker is in its cycle
  job,          \* the uploads a worker works on: row-locked or claimed
  faults,       \* how many faults have happened
  late,         \* ghost: the blobs that landed after their row was removed
  unsettled     \* ghost: the uploads whose own compensation failed

client == <<pc, returned, seen>>
database == <<row, expired, tomb>>
worker == <<wpc, job>>
ghost == <<late, unsettled>>
vars == <<client, ownerLock, database, blob, worker, faults, ghost>>

TypeOK ==
  /\ pc \in [Upload -> {"idle"} \cup InFlight \cup Ended]
  /\ returned \subseteq Upload
  /\ seen \in [Upload -> SUBSET ({"row", "tomb"} \X Upload)]
  /\ ownerLock \in Upload \cup Worker \cup {Nobody}
  /\ row \in [Upload -> {"none", "pending", "ready", "sent"}]
  /\ expired \subseteq Upload
  /\ tomb \in [Upload -> {"none", "free"} \cup Worker]
  /\ blob \subseteq Upload
  /\ wpc \in [Worker -> {"stage", "stageOwner", "release", "claim", "delete", "ack", "nack"}]
  /\ job \in [Worker -> SUBSET Upload]
  /\ faults \in 0 .. MaxFaults
  /\ late \subseteq Upload /\ unsettled \subseteq Upload

Init ==
  /\ pc = [u \in Upload |-> "idle"] /\ returned = {} /\ seen = [u \in Upload |-> {}]
  /\ ownerLock = Nobody
  /\ row = [u \in Upload |-> "none"] /\ expired = {}
  /\ tomb = [u \in Upload |-> "none"] /\ blob = {}
  /\ wpc = [w \in Worker |-> "stage"] /\ job = [w \in Worker |-> {}]
  /\ faults = 0 /\ late = {} /\ unsettled = {}

-----------------------------------------------------------------------------
(* The quota and the shared steps. *)

Rows(T) == {"row"} \X {x \in T : row[x] # "none"}
Tombstones == {"tomb"} \X {x \in Upload : tomb[x] # "none"}
Bytes(entries) == MapThenSumSet(LAMBDA e : Size[e[2]], entries)

\* decideStorageQuota: room for one more object of this size.
Allows(entries, u) ==
  /\ Cardinality(entries) < MaxObjects
  /\ Bytes(entries) + Size[u] <= MaxBytes

\* The tables in the order each adapter reads them.
Own(u) == IF u \in Object THEN Object ELSE Attachment
Other(u) == Upload \ Own(u)

Locked == UNION {job[w] : w \in {v \in Worker : wpc[v] = "stageOwner"}}

Goto(u, label) == pc' = [pc EXCEPT ![u] = label]

\* The rows leave their table and their keys enter storage_blob_cleanup_queue.
\* The key is unique there: a second tombstone would abort the transaction.
Entomb(S) ==
  /\ \A u \in S : tomb[u] = "none"
  /\ row' = [u \in Upload |-> IF u \in S THEN "none" ELSE row[u]]
  /\ tomb' = [u \in Upload |-> IF u \in S THEN "free" ELSE tomb[u]]
  /\ expired' = expired \ S

Fault == faults < MaxFaults /\ faults' = faults + 1

-----------------------------------------------------------------------------
(* The request that uploads. *)

\* Mutant: the reservation does not serialize with the owner's others.
ReserveUnlocked(u) ==
  /\ pc[u] = "idle"
  /\ seen' = [seen EXCEPT ![u] = Rows(Own(u))]
  /\ Goto(u, "readOther")
  /\ UNCHANGED <<returned, ownerLock, database, blob, worker, faults, ghost>>

\* The reservation takes the owner lock and reads its own table; that of an
\* attachment is refused to who does not take part in the conversation.
ReserveLock(u) ==
  /\ pc[u] = "idle" /\ ownerLock = Nobody
  /\ \/ /\ ownerLock' = u
        /\ seen' = [seen EXCEPT ![u] = Rows(Own(u))]
        /\ Goto(u, "readOther")
     \/ u \in Attachment /\ Goto(u, "refused") /\ UNCHANGED <<ownerLock, seen>>
  /\ UNCHANGED <<returned, database, blob, worker, faults, ghost>>

ReserveReadOther(u) ==
  /\ pc[u] = "readOther"
  /\ seen' = [seen EXCEPT ![u] = @ \cup Rows(Other(u))]
  /\ Goto(u, "readQueue")
  /\ UNCHANGED <<returned, ownerLock, database, blob, worker, faults, ghost>>

\* It reads the tombstones last, decides, inserts the row and commits; the
\* answer of the commit may be lost, and then the request fails.
Reserve(u) ==
  /\ pc[u] = "readQueue"
  /\ ownerLock' = Nobody
  /\ seen' = [seen EXCEPT ![u] = {}]
  /\ IF Allows(seen[u] \cup Tombstones, u)
     THEN /\ row' = [row EXCEPT ![u] = "pending"]
          /\ \/ Goto(u, "put") /\ UNCHANGED faults
             \/ Goto(u, "failed") /\ Fault
     ELSE Goto(u, "refused") /\ UNCHANGED <<row, faults>>
  /\ UNCHANGED <<returned, expired, tomb, blob, worker, ghost>>

\* putFile: the blob is there and the call returned it, or the call failed
\* with or without the blob.
Put(u) ==
  /\ pc[u] = "put"
  /\ \/ /\ blob' = blob \cup {u} /\ returned' = returned \cup {u}
        /\ Goto(u, IF u \in Object THEN "bind" ELSE "finalize")
        /\ UNCHANGED faults
     \/ /\ Fault /\ blob' \in {blob, blob \cup {u}}
        /\ Goto(u, "cancel") /\ UNCHANGED returned
  /\ late' = IF u \in blob' /\ row[u] = "none" THEN late \cup {u} ELSE late
  /\ UNCHANGED <<seen, ownerLock, database, worker, unsettled>>

\* bindOwnedReservation: the reservation still holds.
Bind(u) ==
  /\ pc[u] = "bind"
  /\ \/ /\ row[u] = "pending" /\ u \notin expired
        /\ Goto(u, "finalize") /\ UNCHANGED faults
     \/ /\ row[u] # "pending" \/ u \in expired
        /\ Goto(u, "cancel") /\ UNCHANGED faults
     \/ Goto(u, "cancel") /\ Fault
  /\ UNCHANGED <<returned, seen, ownerLock, database, blob, worker, ghost>>

\* finalizeOwnedReservation, or activateMessageAttachment: the pending row
\* turns ready while its reservation lasts.  A ready object has no expiry.
\* The activation fails too when the conversation is no longer the owner's.
Finalize(u) ==
  /\ pc[u] = "finalize" /\ u \notin Locked
  /\ \/ /\ row[u] = "pending" /\ u \notin expired
        /\ row' = [row EXCEPT ![u] = "ready"]
        /\ \/ Goto(u, "done") /\ UNCHANGED faults
           \/ Goto(u, "cancel") /\ Fault
     \/ /\ row[u] # "pending" \/ u \in expired \/ u \in Attachment
        /\ Goto(u, "cancel") /\ UNCHANGED <<row, faults>>
     \/ Goto(u, "cancel") /\ Fault /\ UNCHANGED row
  /\ UNCHANGED <<returned, seen, ownerLock, expired, tomb, blob, worker, ghost>>

\* Mutant: the catch block deletes the blob whatever the outcome.
AfterAnyCancel(u, outcome) ==
  Goto(u, IF u \in returned THEN "drop" ELSE "failed")

\* Where putOwned goes once its cancellation answered.
AfterCancel(u, outcome) ==
  Goto(u, IF u \in returned /\ outcome # "ready" THEN "drop" ELSE "failed")

\* cancelOwnedReservation: a pending row becomes a tombstone.  An error of the
\* transaction, applied or not, counts as the outcome "missing".
CancelObject(u) ==
  /\ pc[u] = "cancel" /\ u \in Object
  /\ \/ /\ row[u] = "pending" /\ Entomb({u})
        /\ AfterCancel(u, "cancelled") /\ UNCHANGED <<faults, ghost>>
     \/ /\ row[u] # "pending" /\ UNCHANGED database
        /\ AfterCancel(u, IF row[u] = "ready" THEN "ready" ELSE "missing")
        /\ UNCHANGED <<faults, ghost>>
     \/ /\ Fault
        /\ IF row[u] = "pending"
           THEN Entomb({u}) \/ UNCHANGED database
           ELSE UNCHANGED database
        /\ AfterCancel(u, "missing")
        /\ unsettled' = unsettled \cup {u} /\ UNCHANGED late
  /\ UNCHANGED <<returned, seen, ownerLock, blob, worker>>

\* cancelMessageAttachment takes the owner lock first ...
CancelLock(u) ==
  /\ pc[u] = "cancel" /\ u \in Attachment /\ ownerLock = Nobody
  /\ ownerLock' = u
  /\ Goto(u, "cancelRow")
  /\ UNCHANGED <<returned, seen, database, blob, worker, faults, ghost>>

\* ... and then the row.  Its error is swallowed; the blob is left to the
\* tombstone.
CancelAttachment(u) ==
  /\ pc[u] = "cancelRow"
  /\ ownerLock' = Nobody
  /\ Goto(u, "failed")
  /\ \/ /\ u \notin Locked /\ row[u] = "pending" /\ Entomb({u})
        /\ UNCHANGED <<faults, ghost>>
     \/ /\ u \notin Locked /\ row[u] # "pending" /\ UNCHANGED <<database, faults, ghost>>
     \/ /\ Fault /\ UNCHANGED <<database, late>>
        /\ unsettled' = unsettled \cup {u}
  /\ UNCHANGED <<returned, seen, blob, worker>>

\* The deleteFile in the catch block of putOwned; its error is swallowed.
Drop(u) ==
  /\ pc[u] = "drop"
  /\ Goto(u, "failed")
  /\ \/ blob' = blob \ {u} /\ UNCHANGED <<faults, ghost>>
     \/ Fault /\ unsettled' = unsettled \cup {u} /\ UNCHANGED <<blob, late>>
  /\ UNCHANGED <<returned, seen, ownerLock, database, worker>>

\* The process of the request dies: its transaction rolls back.
Crash(u) ==
  /\ pc[u] \in InFlight /\ Fault
  /\ Goto(u, "crashed")
  /\ seen' = [seen EXCEPT ![u] = {}]
  /\ ownerLock' = IF ownerLock = u THEN Nobody ELSE ownerLock
  /\ UNCHANGED <<returned, database, blob, worker, ghost>>

-----------------------------------------------------------------------------
(* What the application does with an upload. *)

\* deleteOwned
DeleteOwned(u) ==
  /\ u \in Object /\ row[u] = "ready"
  /\ Entomb({u})
  /\ UNCHANGED <<client, ownerLock, blob, worker, faults, ghost>>

\* createMessage claims an uploaded attachment while it lasts.
SendMessage(u) ==
  /\ u \in Attachment \ Locked /\ row[u] = "ready" /\ u \notin expired
  /\ row' = [row EXCEPT ![u] = "sent"]
  /\ UNCHANGED <<client, ownerLock, expired, tomb, blob, worker, faults, ghost>>

-----------------------------------------------------------------------------
(* The cleanup worker: one cycle stages the expired attachments, releases  *)
(* the expired reservations one by one, then drains the tombstones.        *)

Becomes(w, label, S) ==
  /\ wpc' = [wpc EXCEPT ![w] = label]
  /\ job' = [job EXCEPT ![w] = S]

Abandoned == {u \in Attachment \cap expired : row[u] \in {"pending", "ready"}}
Released == {u \in Object \cap expired : row[u] = "pending"}

\* stageExpiredMessagingAttachments locks the rows, skipping locked ones ...
Stage(w) ==
  /\ wpc[w] = "stage"
  /\ IF Abandoned \ Locked = {}
     THEN Becomes(w, "release", {})
     ELSE Becomes(w, "stageOwner", Abandoned \ Locked)
  /\ UNCHANGED <<client, ownerLock, database, blob, faults, ghost>>

\* ... and then waits for the owner lock, which it holds until it commits.
StageOwner(w) ==
  /\ wpc[w] = "stageOwner" /\ ownerLock = Nobody
  /\ Entomb(job[w])
  /\ Becomes(w, "release", {})
  /\ UNCHANGED <<client, ownerLock, blob, faults, ghost>>

\* Mutant: the cycle ends with the releases.
ReleaseEnds(w) ==
  /\ wpc[w] = "release"
  /\ \/ \E u \in Released : Entomb({u}) /\ UNCHANGED worker
     \/ Released = {} /\ Becomes(w, "stage", {}) /\ UNCHANGED database
  /\ UNCHANGED <<client, ownerLock, blob, faults, ghost>>

\* releaseExpiredReservation, until there is none.
Release(w) ==
  /\ wpc[w] = "release"
  /\ \/ \E u \in Released : Entomb({u}) /\ UNCHANGED worker
     \/ Released = {} /\ Becomes(w, "claim", {}) /\ UNCHANGED database
  /\ UNCHANGED <<client, ownerLock, blob, faults, ghost>>

\* Mutant: a worker claims only what it has leased itself.
ClaimOwn(w) ==
  /\ wpc[w] = "claim"
  /\ \/ \E u \in Upload : tomb[u] = w /\ Becomes(w, "delete", {u})
     \/ (\A u \in Upload : tomb[u] # w) /\ Becomes(w, "stage", {})
  /\ UNCHANGED <<client, ownerLock, database, blob, faults, ghost>>

\* claimCleanupRow: a tombstone nobody leases.  Without one the worker sleeps
\* until its next cycle.
Claim(w) ==
  /\ wpc[w] = "claim"
  /\ \/ \E u \in Upload :
          /\ tomb[u] = "free"
          /\ tomb' = [tomb EXCEPT ![u] = w]
          /\ Becomes(w, "delete", {u})
     \/ /\ \A u \in Upload : tomb[u] # "free"
        /\ Becomes(w, "stage", {}) /\ UNCHANGED tomb
  /\ UNCHANGED <<client, ownerLock, row, expired, blob, faults, ghost>>

\* deleteFile is idempotent; it may fail before or after its effect.
Delete(w) ==
  /\ wpc[w] = "delete"
  /\ \/ /\ blob' = blob \ job[w]
        /\ Becomes(w, "ack", job[w]) /\ UNCHANGED faults
     \/ /\ Fault /\ blob' \in {blob, blob \ job[w]}
        /\ Becomes(w, "nack", job[w])
  /\ UNCHANGED <<client, ownerLock, database, ghost>>

\* Mutant: an acknowledged tombstone is marked instead of deleted.
AckMarks(w) ==
  /\ wpc[w] = "ack"
  /\ tomb' = [u \in Upload |-> IF u \in job[w] /\ tomb[u] = w THEN "deleted" ELSE tomb[u]]
  /\ Becomes(w, "claim", {})
  /\ UNCHANGED <<client, ownerLock, row, expired, blob, faults, ghost>>

\* The tombstone goes if the lease is still this worker's; a lost answer sends
\* the worker to its catch block.
Ack(w) ==
  /\ wpc[w] = "ack"
  /\ \/ /\ tomb' = [u \in Upload |-> IF u \in job[w] /\ tomb[u] = w THEN "none" ELSE tomb[u]]
        /\ \/ Becomes(w, "claim", {}) /\ UNCHANGED faults
           \/ Becomes(w, "nack", job[w]) /\ Fault
     \/ Becomes(w, "nack", job[w]) /\ Fault /\ UNCHANGED tomb
  /\ UNCHANGED <<client, ownerLock, row, expired, blob, ghost>>

\* Mutant: a failed deletion acknowledges its tombstone.
NackRemoves(w) ==
  /\ wpc[w] = "nack"
  /\ tomb' = [u \in Upload |-> IF u \in job[w] /\ tomb[u] = w THEN "none" ELSE tomb[u]]
  /\ Becomes(w, "claim", {})
  /\ UNCHANGED <<client, ownerLock, row, expired, blob, faults, ghost>>

\* The lease is given back for a later retry.
Nack(w) ==
  /\ wpc[w] = "nack"
  /\ tomb' = [u \in Upload |-> IF u \in job[w] /\ tomb[u] = w THEN "free" ELSE tomb[u]]
  /\ Becomes(w, "claim", {})
  /\ UNCHANGED <<client, ownerLock, row, expired, blob, faults, ghost>>

\* The worker dies, or a transaction of it fails: the cycle is over, its row
\* locks are gone, its lease stays until it expires.
WorkerFails(w) ==
  /\ wpc[w] # "stage" /\ Fault
  /\ Becomes(w, "stage", {})
  /\ UNCHANGED <<client, ownerLock, database, blob, ghost>>

-----------------------------------------------------------------------------
(* Time, and the database's own doing. *)

\* A row has an expiry while it is pending, an attachment until it is sent.
Expire(u) ==
  /\ row[u] = "pending" \/ (u \in Attachment /\ row[u] = "ready")
  /\ u \notin expired
  /\ expired' = expired \cup {u}
  /\ UNCHANGED <<client, ownerLock, row, tomb, blob, worker, faults, ghost>>

\* A lease that expired can be claimed again, and settles nothing any more.  It
\* is a fault when its worker still works on it: a deletion that takes longer
\* than CLEANUP_LEASE_MS.
LeaseExpires(u) ==
  /\ tomb[u] \in Worker
  /\ tomb' = [tomb EXCEPT ![u] = "free"]
  /\ IF u \in job[tomb[u]] THEN Fault ELSE UNCHANGED faults
  /\ UNCHANGED <<client, ownerLock, row, expired, blob, worker, ghost>>

\* A worker holds the row and waits for the owner lock, a cancellation holds
\* the owner lock and waits for the row: PostgreSQL aborts one of the two.
BreakDeadlock(w, u) ==
  /\ wpc[w] = "stageOwner" /\ u \in job[w]
  /\ pc[u] = "cancelRow" /\ ownerLock = u
  /\ \/ Becomes(w, "stage", {}) /\ UNCHANGED <<pc, ownerLock>>
     \/ Goto(u, "failed") /\ ownerLock' = Nobody /\ UNCHANGED worker
  /\ UNCHANGED <<returned, seen, database, blob, faults, ghost>>

UploadStep(u) ==
  \/ ReserveReadOther(u) \/ Reserve(u) \/ Put(u) \/ Bind(u) \/ Finalize(u)
  \/ CancelObject(u) \/ CancelLock(u) \/ CancelAttachment(u) \/ Drop(u)
WorkerStep(w) ==
  \/ Stage(w) \/ StageOwner(w) \/ Release(w) \/ Claim(w) \/ Delete(w) \/ Ack(w) \/ Nack(w)

Next ==
  \/ \E u \in Upload :
       \/ UploadStep(u) \/ ReserveLock(u) \/ Crash(u)
       \/ DeleteOwned(u) \/ SendMessage(u) \/ Expire(u) \/ LeaseExpires(u)
  \/ \E w \in Worker :
       \/ WorkerStep(w) \/ WorkerFails(w)
       \/ \E u \in Attachment : BreakDeadlock(w, u)

\* Requests and workers run, deadlines pass and the database breaks its
\* deadlocks; nobody has to start an upload, delete or send anything.  A
\* transaction that waits for a row gets it when the row is unlocked (strong
\* fairness): PostgreSQL grants a lock to the first that waits.
Fairness ==
  /\ \A u \in Attachment : SF_vars(CancelAttachment(u))
  /\ \A u \in Upload : WF_vars(UploadStep(u)) /\ WF_vars(Expire(u))
  /\ \A u \in Upload : WF_vars(LeaseExpires(u))
  /\ \A w \in Worker :
       /\ WF_vars(WorkerStep(w))
       /\ \A u \in Attachment : WF_vars(BreakDeadlock(w, u))

Spec == Init /\ [][Next]_vars /\ Fairness

-----------------------------------------------------------------------------
(* Correctness. *)

\* The owner never holds more objects or bytes than the quota, counting ready
\* and pending rows and the blobs that wait for deletion, although rows become
\* tombstones without the owner lock while a reservation reads the tables.
QuotaKept ==
  LET held == Rows(Upload) \cup Tombstones IN
  Cardinality(held) <= MaxObjects /\ Bytes(held) <= MaxBytes

\* An object or attachment that users can see has its blob.  The one exception:
\* the answer of finalize was lost and the cancellation failed as well, so
\* putOwned took the ready row for missing.
ReadyHasBlob ==
  \A u \in Upload : row[u] \in {"ready", "sent"} /\ u \notin blob => u \in unsettled

\* When a request is over, its blob has a row or a tombstone.  A blob that
\* landed after its reservation had been released is the exception: an
\* attachment's stays, an object's only when putFile did not return it or the
\* deleteFile of the catch block did not happen.
Accounted ==
  \A u \in Upload :
    u \in blob /\ pc[u] \in Ended /\ row[u] = "none" /\ tomb[u] = "none"
    => /\ u \in late
       /\ u \in Attachment \/ pc[u] = "crashed" \/ u \notin returned \/ u \in unsettled

\* Every tombstone is drained in the end, whatever workers die, whatever
\* deletions fail, and although staging and cancelling an attachment take
\* their two locks in opposite orders.
Drained == \A u \in Upload : tomb[u] # "none" ~> tomb[u] = "none"

\* The room of an upload that failed or died is free again in the end, unless
\* its row had turned ready.
RoomReturned ==
  \A u \in Upload :
    pc[u] \in {"failed", "crashed"}
    ~> row[u] \in {"ready", "sent"} \/ (row[u] = "none" /\ tomb[u] = "none")
=============================================================================
