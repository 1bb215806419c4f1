------------------------ MODULE ObjectStorageProofs ------------------------
(***************************************************************************)
(* The safety of the uploads of a generated application, proved for any    *)
(* number of uploads and workers, any sizes, quota and number of faults.   *)
(***************************************************************************)
EXTENDS ObjectStorage, FiniteSetTheorems, FunctionTheorems, TLAPS

\* The labels of a request that has not got its row.
Unreserved == {"idle", "readOther", "readQueue", "refused"}

\* Nothing is known of an upload whose request has no row yet, and no worker has
\* to do with it.
NotYet ==
  \A u \in Upload : pc[u] \in Unreserved =>
    /\ row[u] = "none" /\ tomb[u] = "none" /\ u \notin blob \cup returned
    /\ \A w \in Worker : u \notin job[w]

\* A row and a tombstone of the same upload are never there together.
RowOrTomb == \A u \in Upload : row[u] # "none" => tomb[u] = "none"

\* The owner lock is with the request that is between its statements.
OneReserves ==
  \A u \in Upload : pc[u] \in {"readOther", "readQueue", "cancelRow"} <=> ownerLock = u

\* What a reservation has read covers the rows there are now: the others may
\* leave their table, and nobody but the holder of the lock adds one.
SeenCovers ==
  \A u \in Upload :
    /\ pc[u] = "readOther" => Rows(Own(u)) \subseteq seen[u]
    /\ pc[u] = "readQueue" => Rows(Upload) \subseteq seen[u]

\* A worker that stages has its rows locked for itself; one that deletes works
\* on an upload that has no row any more.
JobsHold ==
  \A w \in Worker :
    /\ wpc[w] = "stageOwner" => \A u \in job[w] :
         /\ u \in Attachment /\ row[u] \in {"pending", "ready"}
         /\ \A v \in Worker \ {w} : wpc[v] = "stageOwner" => u \notin job[v]
    /\ wpc[w] \in {"stage", "release", "claim"} => job[w] = {}
    /\ wpc[w] \in {"delete", "ack", "nack"} => \A u \in job[w] : row[u] = "none"

\* Until a request is over, its pending row has its blob once it was put.
BlobPut ==
  \A u \in Upload :
    /\ pc[u] = "put" => row[u] \in {"none", "pending"} /\ u \notin returned
    /\ pc[u] \in {"bind", "finalize"} => row[u] = "none" \/ (row[u] = "pending" /\ u \in blob)

\* A request that deletes its blob knows that it has no row, or could not learn
\* it; a row that is neither pending nor ready nor gone is an attachment's.
DropsOwn ==
  \A u \in Upload :
    /\ pc[u] = "drop" => row[u] = "none" \/ u \in unsettled
    /\ row[u] = "sent" => u \in Attachment

\* What a worker has deleted can only be back as a late blob.
Deleted == \A w \in Worker : wpc[w] = "ack" => job[w] \cap blob \subseteq late

\* A late blob has no row, and its request will come to the catch block.
LateSettles ==
  \A u \in late :
    /\ pc[u] \notin Unreserved \cup {"done"} /\ row[u] = "none"
    /\ u \in blob => \/ u \in Attachment \/ pc[u] = "crashed" \/ u \notin returned
                     \/ u \in unsettled
                     \/ pc[u] \in {"bind", "finalize", "cancel", "drop"}

\* Accounted at any time: a blob without a row and a tombstone is a late one.
NoneLost == \A u \in blob : row[u] = "none" /\ tomb[u] = "none" => u \in late

OInv ==
  /\ TypeOK /\ NotYet /\ RowOrTomb /\ OneReserves /\ SeenCovers /\ JobsHold
  /\ BlobPut /\ DropsOwn /\ Deleted /\ LateSettles /\ NoneLost /\ ReadyHasBlob

-----------------------------------------------------------------------------
(* The steps, one conjunct of the invariant at a time. *)

\* The tables hold uploads.
LEMMA ReadsTables == \A u \in Upload : Own(u) \in SUBSET Upload
BY DEF Own, Upload

\* Every step keeps the types.
LEMMA TypeKept ==
  ASSUME OInv, [Next]_vars
  PROVE  TypeOK'
<1> USE DEF OInv, client, database, worker, ghost
<1>1. ASSUME NEW u \in Upload, ReserveLock(u) PROVE TypeOK'
  <2> USE <1>1 DEF ReserveLock
  <2>1. Rows(Own(u)) \in SUBSET ({"row", "tomb"} \X Upload)
    BY DEF Rows, Own, Upload
  <2>2. CASE Goto(u, "refused") /\ UNCHANGED <<ownerLock, seen>>
    BY <2>2 DEF TypeOK, Goto, Ended
  <2>3. CASE ownerLock' = u /\ seen' = [seen EXCEPT ![u] = Rows(Own(u))] /\ Goto(u, "readOther")
    BY <2>1, <2>3 DEF TypeOK, Goto, InFlight
  <2> QED  BY <2>2, <2>3
<1>2. ASSUME NEW u \in Upload, ReserveReadOther(u) PROVE TypeOK'
  <2> USE <1>2 DEF ReserveReadOther
  <2>1. Rows(Other(u)) \in SUBSET ({"row", "tomb"} \X Upload)
    BY DEF Rows, Other
  <2>2. seen[u] \cup Rows(Other(u)) \in SUBSET ({"row", "tomb"} \X Upload)
    BY <2>1 DEF TypeOK
  <2> QED  BY <2>2 DEF TypeOK, Goto, InFlight
<1>3. ASSUME NEW u \in Upload, Reserve(u) PROVE TypeOK'
  BY <1>3, StorageAssumption DEF TypeOK, InFlight, Ended, Reserve, Goto, Fault
<1>4. ASSUME NEW u \in Upload, Put(u) PROVE TypeOK'
  BY <1>4, StorageAssumption DEF TypeOK, InFlight, Put, Goto, Fault
<1>5. ASSUME NEW u \in Upload, Bind(u) PROVE TypeOK'
  BY <1>5, StorageAssumption DEF TypeOK, InFlight, Bind, Goto, Fault
<1>6. ASSUME NEW u \in Upload, Finalize(u) PROVE TypeOK'
  BY <1>6, StorageAssumption DEF TypeOK, InFlight, Ended, Finalize, Goto, Fault
<1>7. ASSUME NEW u \in Upload, CancelObject(u) PROVE TypeOK'
  BY <1>7, StorageAssumption DEF TypeOK, InFlight, Ended, CancelObject, AfterCancel, Entomb,
     Goto, Fault
<1>8. ASSUME NEW u \in Upload, CancelLock(u) PROVE TypeOK'
  BY <1>8 DEF TypeOK, InFlight, CancelLock, Goto
<1>9. ASSUME NEW u \in Upload, CancelAttachment(u) PROVE TypeOK'
  BY <1>9, StorageAssumption DEF TypeOK, Ended, CancelAttachment, Entomb, Goto, Fault
<1>10. ASSUME NEW u \in Upload, Drop(u) PROVE TypeOK'
  BY <1>10, StorageAssumption DEF TypeOK, Ended, Drop, Goto, Fault
<1>11. ASSUME NEW u \in Upload, Crash(u) PROVE TypeOK'
  BY <1>11, StorageAssumption DEF TypeOK, Ended, Crash, Goto, Fault
<1>12. ASSUME NEW u \in Upload, DeleteOwned(u) PROVE TypeOK'
  BY <1>12 DEF TypeOK, DeleteOwned, Entomb
<1>13. ASSUME NEW u \in Upload, SendMessage(u) PROVE TypeOK'
  BY <1>13 DEF TypeOK, SendMessage
<1>14. ASSUME NEW u \in Upload, Expire(u) PROVE TypeOK'
  BY <1>14 DEF TypeOK, Expire
<1>15. ASSUME NEW u \in Upload, LeaseExpires(u) PROVE TypeOK'
  BY <1>15, StorageAssumption DEF TypeOK, LeaseExpires, Fault
<1>16. ASSUME NEW w \in Worker, Stage(w) PROVE TypeOK'
  BY <1>16 DEF TypeOK, Stage, Becomes, Abandoned
<1>17. ASSUME NEW w \in Worker, StageOwner(w) PROVE TypeOK'
  BY <1>17 DEF TypeOK, StageOwner, Becomes, Entomb
<1>18. ASSUME NEW w \in Worker, Release(w) PROVE TypeOK'
  BY <1>18 DEF TypeOK, Release, Becomes, Entomb
<1>19. ASSUME NEW w \in Worker, Claim(w) PROVE TypeOK'
  BY <1>19 DEF TypeOK, Claim, Becomes
<1>20. ASSUME NEW w \in Worker, Delete(w) PROVE TypeOK'
  BY <1>20, StorageAssumption DEF TypeOK, Delete, Becomes, Fault
<1>21. ASSUME NEW w \in Worker, Ack(w) PROVE TypeOK'
  BY <1>21, StorageAssumption DEF TypeOK, Ack, Becomes, Fault
<1>22. ASSUME NEW w \in Worker, Nack(w) PROVE TypeOK'
  BY <1>22 DEF TypeOK, Nack, Becomes
<1>23. ASSUME NEW w \in Worker, WorkerFails(w) PROVE TypeOK'
  BY <1>23, StorageAssumption DEF TypeOK, WorkerFails, Becomes, Fault
<1>24. ASSUME NEW w \in Worker, NEW u \in Attachment, BreakDeadlock(w, u) PROVE TypeOK'
  BY <1>24 DEF TypeOK, Ended, BreakDeadlock, Becomes, Goto
<1>25. CASE UNCHANGED vars
  BY <1>25 DEF vars, TypeOK
<1> QED  BY <1>1, <1>2, <1>3, <1>4, <1>5, <1>6, <1>7, <1>8, <1>9, <1>10, <1>11, <1>12, <1>13,
   <1>14, <1>15, <1>16, <1>17, <1>18, <1>19, <1>20, <1>21, <1>22, <1>23, <1>24, <1>25 DEF Next,
   UploadStep, WorkerStep

\* A request gets its row from Reserve, and leaves the labels before it by it.
LEMMA NotYetKept ==
  ASSUME OInv, [Next]_vars
  PROVE  NotYet'
<1> USE DEF OInv, client, database, worker, ghost
<1>1. ASSUME NEW u \in Upload, ReserveLock(u) PROVE NotYet'
  BY <1>1 DEF NotYet, Unreserved, ReserveLock, Goto, TypeOK
<1>2. ASSUME NEW u \in Upload, ReserveReadOther(u) PROVE NotYet'
  BY <1>2 DEF NotYet, Unreserved, ReserveReadOther, Goto
<1>3. ASSUME NEW u \in Upload, Reserve(u) PROVE NotYet'
  BY <1>3 DEF NotYet, Unreserved, Reserve, Goto, TypeOK
<1>4. ASSUME NEW u \in Upload, Put(u) PROVE NotYet'
  BY <1>4 DEF NotYet, Unreserved, Put, Goto, TypeOK
<1>5. ASSUME NEW u \in Upload, Bind(u) PROVE NotYet'
  BY <1>5 DEF NotYet, Unreserved, Bind, Goto, TypeOK
<1>6. ASSUME NEW u \in Upload, Finalize(u) PROVE NotYet'
  BY <1>6 DEF NotYet, Unreserved, Finalize, Goto, TypeOK
<1>7. ASSUME NEW u \in Upload, CancelObject(u) PROVE NotYet'
  BY <1>7 DEF NotYet, Unreserved, CancelObject, AfterCancel, Entomb, Goto, TypeOK
<1>8. ASSUME NEW u \in Upload, CancelLock(u) PROVE NotYet'
  BY <1>8 DEF NotYet, Unreserved, CancelLock, Goto
<1>9. ASSUME NEW u \in Upload, CancelAttachment(u) PROVE NotYet'
  BY <1>9 DEF NotYet, Unreserved, CancelAttachment, Entomb, Goto
<1>10. ASSUME NEW u \in Upload, Drop(u) PROVE NotYet'
  BY <1>10 DEF NotYet, Unreserved, Drop, Goto
<1>11. ASSUME NEW u \in Upload, Crash(u) PROVE NotYet'
  BY <1>11 DEF NotYet, Unreserved, Crash, Goto
<1>12. ASSUME NEW u \in Upload, DeleteOwned(u) PROVE NotYet'
  BY <1>12 DEF NotYet, DeleteOwned, Entomb
<1>13. ASSUME NEW u \in Upload, SendMessage(u) PROVE NotYet'
  BY <1>13 DEF NotYet, SendMessage
<1>14. ASSUME NEW u \in Upload, Expire(u) PROVE NotYet'
  BY <1>14 DEF NotYet, Expire
<1>15. ASSUME NEW u \in Upload, LeaseExpires(u) PROVE NotYet'
  BY <1>15, StorageAssumption DEF NotYet, LeaseExpires
<1>16. ASSUME NEW w \in Worker, Stage(w) PROVE NotYet'
  BY <1>16 DEF NotYet, Stage, Becomes, Abandoned, TypeOK
<1>17. ASSUME NEW w \in Worker, StageOwner(w) PROVE NotYet'
  BY <1>17 DEF NotYet, StageOwner, Becomes, Entomb
<1>18. ASSUME NEW w \in Worker, Release(w) PROVE NotYet'
  BY <1>18 DEF NotYet, Release, Becomes, Released, Entomb, TypeOK
<1>19. ASSUME NEW w \in Worker, Claim(w) PROVE NotYet'
  BY <1>19 DEF NotYet, Claim, Becomes, TypeOK
<1>20. ASSUME NEW w \in Worker, Delete(w) PROVE NotYet'
  BY <1>20 DEF NotYet, Delete, Becomes, TypeOK
<1>21. ASSUME NEW w \in Worker, Ack(w) PROVE NotYet'
  BY <1>21 DEF NotYet, Ack, Becomes, TypeOK
<1>22. ASSUME NEW w \in Worker, Nack(w) PROVE NotYet'
  BY <1>22 DEF NotYet, Nack, Becomes
<1>23. ASSUME NEW w \in Worker, WorkerFails(w) PROVE NotYet'
  BY <1>23 DEF NotYet, WorkerFails, Becomes
<1>24. ASSUME NEW w \in Worker, NEW u \in Attachment, BreakDeadlock(w, u) PROVE NotYet'
  BY <1>24 DEF NotYet, Unreserved, BreakDeadlock, Becomes, Goto, TypeOK
<1>25. CASE UNCHANGED vars
  BY <1>25 DEF vars, NotYet
<1> QED  BY <1>1, <1>2, <1>3, <1>4, <1>5, <1>6, <1>7, <1>8, <1>9, <1>10, <1>11, <1>12, <1>13,
   <1>14, <1>15, <1>16, <1>17, <1>18, <1>19, <1>20, <1>21, <1>22, <1>23, <1>24, <1>25 DEF Next,
   UploadStep, WorkerStep

\* A row is made for an upload without a tombstone, and a tombstone replaces a row.
LEMMA RowOrTombKept ==
  ASSUME OInv, [Next]_vars
  PROVE  RowOrTomb'
<1> USE DEF OInv, client, database, worker, ghost
<1>1. ASSUME NEW u \in Upload, ReserveLock(u) PROVE RowOrTomb'
  BY <1>1 DEF RowOrTomb, ReserveLock
<1>2. ASSUME NEW u \in Upload, ReserveReadOther(u) PROVE RowOrTomb'
  BY <1>2 DEF RowOrTomb, ReserveReadOther
<1>3. ASSUME NEW u \in Upload, Reserve(u) PROVE RowOrTomb'
  BY <1>3 DEF RowOrTomb, Reserve, TypeOK, NotYet, Unreserved
<1>4. ASSUME NEW u \in Upload, Put(u) PROVE RowOrTomb'
  BY <1>4 DEF RowOrTomb, Put
<1>5. ASSUME NEW u \in Upload, Bind(u) PROVE RowOrTomb'
  BY <1>5 DEF RowOrTomb, Bind
<1>6. ASSUME NEW u \in Upload, Finalize(u) PROVE RowOrTomb'
  BY <1>6 DEF RowOrTomb, Finalize, TypeOK
<1>7. ASSUME NEW u \in Upload, CancelObject(u) PROVE RowOrTomb'
  BY <1>7 DEF RowOrTomb, CancelObject, Entomb
<1>8. ASSUME NEW u \in Upload, CancelLock(u) PROVE RowOrTomb'
  BY <1>8 DEF RowOrTomb, CancelLock
<1>9. ASSUME NEW u \in Upload, CancelAttachment(u) PROVE RowOrTomb'
  BY <1>9 DEF RowOrTomb, CancelAttachment, Entomb
<1>10. ASSUME NEW u \in Upload, Drop(u) PROVE RowOrTomb'
  BY <1>10 DEF RowOrTomb, Drop
<1>11. ASSUME NEW u \in Upload, Crash(u) PROVE RowOrTomb'
  BY <1>11 DEF RowOrTomb, Crash
<1>12. ASSUME NEW u \in Upload, DeleteOwned(u) PROVE RowOrTomb'
  BY <1>12 DEF RowOrTomb, DeleteOwned, Entomb
<1>13. ASSUME NEW u \in Upload, SendMessage(u) PROVE RowOrTomb'
  BY <1>13 DEF RowOrTomb, SendMessage
<1>14. ASSUME NEW u \in Upload, Expire(u) PROVE RowOrTomb'
  BY <1>14 DEF RowOrTomb, Expire
<1>15. ASSUME NEW u \in Upload, LeaseExpires(u) PROVE RowOrTomb'
  BY <1>15, StorageAssumption DEF RowOrTomb, LeaseExpires
<1>16. ASSUME NEW w \in Worker, Stage(w) PROVE RowOrTomb'
  BY <1>16 DEF RowOrTomb, Stage
<1>17. ASSUME NEW w \in Worker, StageOwner(w) PROVE RowOrTomb'
  BY <1>17 DEF RowOrTomb, StageOwner, Entomb
<1>18. ASSUME NEW w \in Worker, Release(w) PROVE RowOrTomb'
  BY <1>18 DEF RowOrTomb, Release, Entomb
<1>19. ASSUME NEW w \in Worker, Claim(w) PROVE RowOrTomb'
  BY <1>19 DEF RowOrTomb, Claim, Becomes, TypeOK
<1>20. ASSUME NEW w \in Worker, Delete(w) PROVE RowOrTomb'
  BY <1>20 DEF RowOrTomb, Delete
<1>21. ASSUME NEW w \in Worker, Ack(w) PROVE RowOrTomb'
  BY <1>21 DEF RowOrTomb, Ack
<1>22. ASSUME NEW w \in Worker, Nack(w) PROVE RowOrTomb'
  BY <1>22, StorageAssumption DEF RowOrTomb, Nack
<1>23. ASSUME NEW w \in Worker, WorkerFails(w) PROVE RowOrTomb'
  BY <1>23 DEF RowOrTomb, WorkerFails
<1>24. ASSUME NEW w \in Worker, NEW u \in Attachment, BreakDeadlock(w, u) PROVE RowOrTomb'
  BY <1>24 DEF RowOrTomb, BreakDeadlock
<1>25. CASE UNCHANGED vars
  BY <1>25 DEF vars, RowOrTomb
<1> QED  BY <1>1, <1>2, <1>3, <1>4, <1>5, <1>6, <1>7, <1>8, <1>9, <1>10, <1>11, <1>12, <1>13,
   <1>14, <1>15, <1>16, <1>17, <1>18, <1>19, <1>20, <1>21, <1>22, <1>23, <1>24, <1>25 DEF Next,
   UploadStep, WorkerStep

\* The owner lock is taken and given back with the label.
LEMMA OneReservesKept ==
  ASSUME OInv, [Next]_vars
  PROVE  OneReserves'
<1> USE DEF OInv, client, database, worker, ghost
<1>1. ASSUME NEW u \in Upload, ReserveLock(u) PROVE OneReserves'
  BY <1>1, StorageAssumption DEF OneReserves, ReserveLock, Goto, TypeOK
<1>2. ASSUME NEW u \in Upload, ReserveReadOther(u) PROVE OneReserves'
  BY <1>2 DEF OneReserves, ReserveReadOther, Goto
<1>3. ASSUME NEW u \in Upload, Reserve(u) PROVE OneReserves'
  BY <1>3, StorageAssumption DEF OneReserves, Reserve, Goto, TypeOK
<1>4. ASSUME NEW u \in Upload, Put(u) PROVE OneReserves'
  BY <1>4 DEF OneReserves, Put, Goto, TypeOK
<1>5. ASSUME NEW u \in Upload, Bind(u) PROVE OneReserves'
  BY <1>5 DEF OneReserves, Bind, Goto, TypeOK
<1>6. ASSUME NEW u \in Upload, Finalize(u) PROVE OneReserves'
  BY <1>6 DEF OneReserves, Finalize, Goto, TypeOK
<1>7. ASSUME NEW u \in Upload, CancelObject(u) PROVE OneReserves'
  BY <1>7 DEF OneReserves, CancelObject, AfterCancel, Goto, TypeOK
<1>8. ASSUME NEW u \in Upload, CancelLock(u) PROVE OneReserves'
  BY <1>8, StorageAssumption DEF OneReserves, CancelLock, Goto, TypeOK
<1>9. ASSUME NEW u \in Upload, CancelAttachment(u) PROVE OneReserves'
  BY <1>9, StorageAssumption DEF OneReserves, CancelAttachment, Goto, TypeOK
<1>10. ASSUME NEW u \in Upload, Drop(u) PROVE OneReserves'
  BY <1>10 DEF OneReserves, Drop, Goto
<1>11. ASSUME NEW u \in Upload, Crash(u) PROVE OneReserves'
  BY <1>11, StorageAssumption DEF OneReserves, Crash, Goto, TypeOK
<1>12. ASSUME NEW u \in Upload, DeleteOwned(u) PROVE OneReserves'
  BY <1>12 DEF OneReserves, DeleteOwned
<1>13. ASSUME NEW u \in Upload, SendMessage(u) PROVE OneReserves'
  BY <1>13 DEF OneReserves, SendMessage
<1>14. ASSUME NEW u \in Upload, Expire(u) PROVE OneReserves'
  BY <1>14 DEF OneReserves, Expire
<1>15. ASSUME NEW u \in Upload, LeaseExpires(u) PROVE OneReserves'
  BY <1>15 DEF OneReserves, LeaseExpires
<1>16. ASSUME NEW w \in Worker, Stage(w) PROVE OneReserves'
  BY <1>16 DEF OneReserves, Stage
<1>17. ASSUME NEW w \in Worker, StageOwner(w) PROVE OneReserves'
  BY <1>17 DEF OneReserves, StageOwner
<1>18. ASSUME NEW w \in Worker, Release(w) PROVE OneReserves'
  BY <1>18 DEF OneReserves, Release
<1>19. ASSUME NEW w \in Worker, Claim(w) PROVE OneReserves'
  BY <1>19 DEF OneReserves, Claim
<1>20. ASSUME NEW w \in Worker, Delete(w) PROVE OneReserves'
  BY <1>20 DEF OneReserves, Delete
<1>21. ASSUME NEW w \in Worker, Ack(w) PROVE OneReserves'
  BY <1>21 DEF OneReserves, Ack
<1>22. ASSUME NEW w \in Worker, Nack(w) PROVE OneReserves'
  BY <1>22 DEF OneReserves, Nack
<1>23. ASSUME NEW w \in Worker, WorkerFails(w) PROVE OneReserves'
  BY <1>23 DEF OneReserves, WorkerFails
<1>24. ASSUME NEW w \in Worker, NEW u \in Attachment, BreakDeadlock(w, u) PROVE OneReserves'
  BY <1>24, StorageAssumption DEF OneReserves, BreakDeadlock, Goto, TypeOK
<1>25. CASE UNCHANGED vars
  BY <1>25 DEF vars, OneReserves
<1> QED  BY <1>1, <1>2, <1>3, <1>4, <1>5, <1>6, <1>7, <1>8, <1>9, <1>10, <1>11, <1>12, <1>13,
   <1>14, <1>15, <1>16, <1>17, <1>18, <1>19, <1>20, <1>21, <1>22, <1>23, <1>24, <1>25 DEF Next,
   UploadStep, WorkerStep

\* A reservation reads a table after it has the lock; from then on rows only leave.
LEMMA SeenCoversKept ==
  ASSUME OInv, [Next]_vars
  PROVE  SeenCovers'
<1> USE DEF OInv, client, database, worker, ghost
<1>1. ASSUME NEW u \in Upload, ReserveLock(u) PROVE SeenCovers'
  BY <1>1 DEF SeenCovers, Rows, ReserveLock, Goto, TypeOK
<1>2. ASSUME NEW u \in Upload, ReserveReadOther(u) PROVE SeenCovers'
  BY <1>2 DEF SeenCovers, Rows, Other, ReserveReadOther, Goto, TypeOK
<1>3. ASSUME NEW u \in Upload, Reserve(u) PROVE SeenCovers'
  <2> USE <1>3 DEF Reserve
  <2>1. \A v \in Upload : pc'[v] \notin {"readOther", "readQueue"}
    BY DEF OneReserves, Goto, TypeOK
  <2> QED  BY <2>1 DEF SeenCovers
<1>4. ASSUME NEW u \in Upload, Put(u) PROVE SeenCovers'
  BY <1>4 DEF SeenCovers, Rows, Put, Goto, TypeOK
<1>5. ASSUME NEW u \in Upload, Bind(u) PROVE SeenCovers'
  BY <1>5 DEF SeenCovers, Rows, Bind, Goto, TypeOK
<1>6. ASSUME NEW u \in Upload, Finalize(u) PROVE SeenCovers'
  <2> USE <1>6 DEF Finalize
  <2>1. \A T \in SUBSET Upload : Rows(T)' \subseteq Rows(T)
    BY DEF Rows, TypeOK
  <2>2. \A v \in Upload : pc'[v] \in {"readOther", "readQueue"} => pc'[v] = pc[v]
    BY DEF Goto, TypeOK
  <2> QED  BY <2>1, <2>2, ReadsTables DEF SeenCovers
<1>7. ASSUME NEW u \in Upload, CancelObject(u) PROVE SeenCovers'
  <2> USE <1>7 DEF CancelObject
  <2>1. \A T \in SUBSET Upload : Rows(T)' \subseteq Rows(T)
    BY DEF Rows, Entomb
  <2>2. \A v \in Upload : pc'[v] \in {"readOther", "readQueue"} => pc'[v] = pc[v]
    BY DEF AfterCancel, Goto, TypeOK
  <2> QED  BY <2>1, <2>2, ReadsTables DEF SeenCovers
<1>8. ASSUME NEW u \in Upload, CancelLock(u) PROVE SeenCovers'
  BY <1>8 DEF SeenCovers, Rows, CancelLock, Goto
<1>9. ASSUME NEW u \in Upload, CancelAttachment(u) PROVE SeenCovers'
  <2> USE <1>9 DEF CancelAttachment
  <2>1. \A T \in SUBSET Upload : Rows(T)' \subseteq Rows(T)
    BY DEF Rows, Entomb
  <2>2. \A v \in Upload : pc'[v] \in {"readOther", "readQueue"} => pc'[v] = pc[v]
    BY DEF Goto, TypeOK
  <2> QED  BY <2>1, <2>2, ReadsTables DEF SeenCovers
<1>10. ASSUME NEW u \in Upload, Drop(u) PROVE SeenCovers'
  BY <1>10 DEF SeenCovers, Rows, Drop, Goto
<1>11. ASSUME NEW u \in Upload, Crash(u) PROVE SeenCovers'
  BY <1>11 DEF SeenCovers, Rows, Crash, Goto, TypeOK
<1>12. ASSUME NEW u \in Upload, DeleteOwned(u) PROVE SeenCovers'
  <2> USE <1>12 DEF DeleteOwned
  <2>1. \A T \in SUBSET Upload : Rows(T)' \subseteq Rows(T)
    BY DEF Rows, Entomb
  <2> QED  BY <2>1, ReadsTables DEF SeenCovers
<1>13. ASSUME NEW u \in Upload, SendMessage(u) PROVE SeenCovers'
  BY <1>13 DEF SeenCovers, Rows, SendMessage
<1>14. ASSUME NEW u \in Upload, Expire(u) PROVE SeenCovers'
  BY <1>14 DEF SeenCovers, Rows, Expire
<1>15. ASSUME NEW u \in Upload, LeaseExpires(u) PROVE SeenCovers'
  BY <1>15 DEF SeenCovers, Rows, LeaseExpires
<1>16. ASSUME NEW w \in Worker, Stage(w) PROVE SeenCovers'
  BY <1>16 DEF SeenCovers, Rows, Stage
<1>17. ASSUME NEW w \in Worker, StageOwner(w) PROVE SeenCovers'
  <2> USE <1>17 DEF StageOwner
  <2>1. \A T \in SUBSET Upload : Rows(T)' \subseteq Rows(T)
    BY DEF Rows, Entomb
  <2> QED  BY <2>1, ReadsTables DEF SeenCovers
<1>18. ASSUME NEW w \in Worker, Release(w) PROVE SeenCovers'
  <2> USE <1>18 DEF Release
  <2>1. \A T \in SUBSET Upload : Rows(T)' \subseteq Rows(T)
    BY DEF Rows, Entomb, Released
  <2> QED  BY <2>1, ReadsTables DEF SeenCovers
<1>19. ASSUME NEW w \in Worker, Claim(w) PROVE SeenCovers'
  BY <1>19 DEF SeenCovers, Rows, Claim
<1>20. ASSUME NEW w \in Worker, Delete(w) PROVE SeenCovers'
  BY <1>20 DEF SeenCovers, Rows, Delete
<1>21. ASSUME NEW w \in Worker, Ack(w) PROVE SeenCovers'
  BY <1>21 DEF SeenCovers, Rows, Ack
<1>22. ASSUME NEW w \in Worker, Nack(w) PROVE SeenCovers'
  BY <1>22 DEF SeenCovers, Rows, Nack
<1>23. ASSUME NEW w \in Worker, WorkerFails(w) PROVE SeenCovers'
  BY <1>23 DEF SeenCovers, Rows, WorkerFails
<1>24. ASSUME NEW w \in Worker, NEW u \in Attachment, BreakDeadlock(w, u) PROVE SeenCovers'
  BY <1>24 DEF SeenCovers, Rows, BreakDeadlock, Goto, TypeOK
<1>25. CASE UNCHANGED vars
  BY <1>25 DEF vars, SeenCovers, Rows
<1> QED  BY <1>1, <1>2, <1>3, <1>4, <1>5, <1>6, <1>7, <1>8, <1>9, <1>10, <1>11, <1>12, <1>13,
   <1>14, <1>15, <1>16, <1>17, <1>18, <1>19, <1>20, <1>21, <1>22, <1>23, <1>24, <1>25 DEF Next,
   UploadStep, WorkerStep

\* Only the worker that has locked a row moves it.
LEMMA JobsHoldKept ==
  ASSUME OInv, [Next]_vars
  PROVE  JobsHold'
<1> USE DEF OInv, client, database, worker, ghost
<1>1. ASSUME NEW u \in Upload, ReserveLock(u) PROVE JobsHold'
  BY <1>1 DEF JobsHold, ReserveLock
<1>2. ASSUME NEW u \in Upload, ReserveReadOther(u) PROVE JobsHold'
  BY <1>2 DEF JobsHold, ReserveReadOther
<1>3. ASSUME NEW u \in Upload, Reserve(u) PROVE JobsHold'
  BY <1>3 DEF JobsHold, Reserve, TypeOK, NotYet, Unreserved
<1>4. ASSUME NEW u \in Upload, Put(u) PROVE JobsHold'
  BY <1>4 DEF JobsHold, Put
<1>5. ASSUME NEW u \in Upload, Bind(u) PROVE JobsHold'
  BY <1>5 DEF JobsHold, Bind
<1>6. ASSUME NEW u \in Upload, Finalize(u) PROVE JobsHold'
  BY <1>6 DEF JobsHold, Finalize, TypeOK
<1>7. ASSUME NEW u \in Upload, CancelObject(u) PROVE JobsHold'
  BY <1>7, StorageAssumption DEF JobsHold, CancelObject, Entomb, TypeOK
<1>8. ASSUME NEW u \in Upload, CancelLock(u) PROVE JobsHold'
  BY <1>8 DEF JobsHold, CancelLock
<1>9. ASSUME NEW u \in Upload, CancelAttachment(u) PROVE JobsHold'
  BY <1>9 DEF JobsHold, Locked, CancelAttachment, Entomb, TypeOK
<1>10. ASSUME NEW u \in Upload, Drop(u) PROVE JobsHold'
  BY <1>10 DEF JobsHold, Drop
<1>11. ASSUME NEW u \in Upload, Crash(u) PROVE JobsHold'
  BY <1>11 DEF JobsHold, Crash
<1>12. ASSUME NEW u \in Upload, DeleteOwned(u) PROVE JobsHold'
  BY <1>12, StorageAssumption DEF JobsHold, DeleteOwned, Entomb, TypeOK
<1>13. ASSUME NEW u \in Upload, SendMessage(u) PROVE JobsHold'
  BY <1>13 DEF JobsHold, Locked, SendMessage
<1>14. ASSUME NEW u \in Upload, Expire(u) PROVE JobsHold'
  BY <1>14 DEF JobsHold, Expire
<1>15. ASSUME NEW u \in Upload, LeaseExpires(u) PROVE JobsHold'
  BY <1>15 DEF JobsHold, LeaseExpires
<1>16. ASSUME NEW w \in Worker, Stage(w) PROVE JobsHold'
  BY <1>16 DEF JobsHold, Locked, Abandoned, Stage, Becomes, TypeOK
<1>17. ASSUME NEW w \in Worker, StageOwner(w) PROVE JobsHold'
  BY <1>17 DEF JobsHold, StageOwner, Becomes, Entomb, TypeOK
<1>18. ASSUME NEW w \in Worker, Release(w) PROVE JobsHold'
  BY <1>18, StorageAssumption DEF JobsHold, Release, Becomes, Released, Entomb, TypeOK
<1>19. ASSUME NEW w \in Worker, Claim(w) PROVE JobsHold'
  BY <1>19 DEF JobsHold, Claim, Becomes, TypeOK, RowOrTomb
<1>20. ASSUME NEW w \in Worker, Delete(w) PROVE JobsHold'
  BY <1>20 DEF JobsHold, Delete, Becomes, TypeOK
<1>21. ASSUME NEW w \in Worker, Ack(w) PROVE JobsHold'
  BY <1>21 DEF JobsHold, Ack, Becomes, TypeOK
<1>22. ASSUME NEW w \in Worker, Nack(w) PROVE JobsHold'
  BY <1>22 DEF JobsHold, Nack, Becomes, TypeOK
<1>23. ASSUME NEW w \in Worker, WorkerFails(w) PROVE JobsHold'
  BY <1>23 DEF JobsHold, WorkerFails, Becomes, TypeOK
<1>24. ASSUME NEW w \in Worker, NEW u \in Attachment, BreakDeadlock(w, u) PROVE JobsHold'
  BY <1>24 DEF JobsHold, BreakDeadlock, Becomes, TypeOK
<1>25. CASE UNCHANGED vars
  BY <1>25 DEF vars, JobsHold
<1> QED  BY <1>1, <1>2, <1>3, <1>4, <1>5, <1>6, <1>7, <1>8, <1>9, <1>10, <1>11, <1>12, <1>13,
   <1>14, <1>15, <1>16, <1>17, <1>18, <1>19, <1>20, <1>21, <1>22, <1>23, <1>24, <1>25 DEF Next,
   UploadStep, WorkerStep

\* Between putFile and finalize only the request and the expiry touch its row.
LEMMA BlobPutKept ==
  ASSUME OInv, [Next]_vars
  PROVE  BlobPut'
<1> USE DEF OInv, client, database, worker, ghost
<1>1. ASSUME NEW u \in Upload, ReserveLock(u) PROVE BlobPut'
  BY <1>1 DEF BlobPut, ReserveLock, Goto, TypeOK
<1>2. ASSUME NEW u \in Upload, ReserveReadOther(u) PROVE BlobPut'
  BY <1>2 DEF BlobPut, ReserveReadOther, Goto
<1>3. ASSUME NEW u \in Upload, Reserve(u) PROVE BlobPut'
  BY <1>3 DEF BlobPut, Reserve, Goto, TypeOK, NotYet, Unreserved
<1>4. ASSUME NEW u \in Upload, Put(u) PROVE BlobPut'
  BY <1>4 DEF BlobPut, Put, Goto, TypeOK
<1>5. ASSUME NEW u \in Upload, Bind(u) PROVE BlobPut'
  BY <1>5 DEF BlobPut, Bind, Goto, TypeOK
<1>6. ASSUME NEW u \in Upload, Finalize(u) PROVE BlobPut'
  BY <1>6 DEF BlobPut, Finalize, Goto, TypeOK
<1>7. ASSUME NEW u \in Upload, CancelObject(u) PROVE BlobPut'
  BY <1>7 DEF BlobPut, CancelObject, AfterCancel, Entomb, Goto, TypeOK
<1>8. ASSUME NEW u \in Upload, CancelLock(u) PROVE BlobPut'
  BY <1>8 DEF BlobPut, CancelLock, Goto
<1>9. ASSUME NEW u \in Upload, CancelAttachment(u) PROVE BlobPut'
  BY <1>9 DEF BlobPut, CancelAttachment, Entomb, Goto
<1>10. ASSUME NEW u \in Upload, Drop(u) PROVE BlobPut'
  BY <1>10 DEF BlobPut, Drop, Goto
<1>11. ASSUME NEW u \in Upload, Crash(u) PROVE BlobPut'
  BY <1>11 DEF BlobPut, Crash, Goto
<1>12. ASSUME NEW u \in Upload, DeleteOwned(u) PROVE BlobPut'
  BY <1>12 DEF BlobPut, DeleteOwned, Entomb
<1>13. ASSUME NEW u \in Upload, SendMessage(u) PROVE BlobPut'
  BY <1>13 DEF BlobPut, SendMessage
<1>14. ASSUME NEW u \in Upload, Expire(u) PROVE BlobPut'
  BY <1>14 DEF BlobPut, Expire
<1>15. ASSUME NEW u \in Upload, LeaseExpires(u) PROVE BlobPut'
  BY <1>15 DEF BlobPut, LeaseExpires
<1>16. ASSUME NEW w \in Worker, Stage(w) PROVE BlobPut'
  BY <1>16 DEF BlobPut, Stage
<1>17. ASSUME NEW w \in Worker, StageOwner(w) PROVE BlobPut'
  BY <1>17 DEF BlobPut, StageOwner, Entomb
<1>18. ASSUME NEW w \in Worker, Release(w) PROVE BlobPut'
  BY <1>18 DEF BlobPut, Release, Entomb
<1>19. ASSUME NEW w \in Worker, Claim(w) PROVE BlobPut'
  BY <1>19 DEF BlobPut, Claim
<1>20. ASSUME NEW w \in Worker, Delete(w) PROVE BlobPut'
  BY <1>20 DEF BlobPut, Delete, JobsHold
<1>21. ASSUME NEW w \in Worker, Ack(w) PROVE BlobPut'
  BY <1>21 DEF BlobPut, Ack
<1>22. ASSUME NEW w \in Worker, Nack(w) PROVE BlobPut'
  BY <1>22 DEF BlobPut, Nack
<1>23. ASSUME NEW w \in Worker, WorkerFails(w) PROVE BlobPut'
  BY <1>23 DEF BlobPut, WorkerFails
<1>24. ASSUME NEW w \in Worker, NEW u \in Attachment, BreakDeadlock(w, u) PROVE BlobPut'
  BY <1>24 DEF BlobPut, BreakDeadlock, Goto, TypeOK
<1>25. CASE UNCHANGED vars
  BY <1>25 DEF vars, BlobPut
<1> QED  BY <1>1, <1>2, <1>3, <1>4, <1>5, <1>6, <1>7, <1>8, <1>9, <1>10, <1>11, <1>12, <1>13,
   <1>14, <1>15, <1>16, <1>17, <1>18, <1>19, <1>20, <1>21, <1>22, <1>23, <1>24, <1>25 DEF Next,
   UploadStep, WorkerStep

\* The outcome of the cancellation decides whether the blob is deleted.
LEMMA DropsOwnKept ==
  ASSUME OInv, [Next]_vars
  PROVE  DropsOwn'
<1> USE DEF OInv, client, database, worker, ghost
<1>1. ASSUME NEW u \in Upload, ReserveLock(u) PROVE DropsOwn'
  BY <1>1 DEF DropsOwn, ReserveLock, Goto, TypeOK
<1>2. ASSUME NEW u \in Upload, ReserveReadOther(u) PROVE DropsOwn'
  BY <1>2 DEF DropsOwn, ReserveReadOther, Goto
<1>3. ASSUME NEW u \in Upload, Reserve(u) PROVE DropsOwn'
  BY <1>3 DEF DropsOwn, Reserve, Goto, TypeOK
<1>4. ASSUME NEW u \in Upload, Put(u) PROVE DropsOwn'
  BY <1>4 DEF DropsOwn, Put, Goto, TypeOK
<1>5. ASSUME NEW u \in Upload, Bind(u) PROVE DropsOwn'
  BY <1>5 DEF DropsOwn, Bind, Goto, TypeOK
<1>6. ASSUME NEW u \in Upload, Finalize(u) PROVE DropsOwn'
  BY <1>6 DEF DropsOwn, Finalize, Goto, TypeOK
<1>7. ASSUME NEW u \in Upload, CancelObject(u) PROVE DropsOwn'
  <2> USE <1>7 DEF CancelObject
  <2>1. \A v \in Upload \ {u} : pc'[v] = "drop" => pc[v] = "drop"
    BY DEF AfterCancel, Goto, TypeOK
  <2>2. unsettled \subseteq unsettled' /\ \A v \in Upload : row[v] = "none" => row'[v] = "none"
    BY DEF Entomb, TypeOK
  <2>3. pc'[u] = "drop" => row'[u] = "none" \/ u \in unsettled'
    <3>1. CASE row[u] = "pending" /\ Entomb({u})
      BY <3>1 DEF Entomb
    <3>2. CASE u \in unsettled'
      BY <3>2
    <3>3. CASE row[u] # "pending" /\ UNCHANGED database
               /\ AfterCancel(u, IF row[u] = "ready" THEN "ready" ELSE "missing")
      <4>1. row[u] \in {"none", "ready"}
        BY <3>3, StorageAssumption DEF TypeOK, DropsOwn
      <4> QED  BY <3>3, <4>1 DEF AfterCancel, Goto, TypeOK
    <3> QED  BY <3>1, <3>2, <3>3
  <2>4. \A v \in Upload : row'[v] = "sent" => row[v] = "sent"
    BY DEF Entomb
  <2> QED  BY <2>1, <2>2, <2>3, <2>4 DEF DropsOwn
<1>8. ASSUME NEW u \in Upload, CancelLock(u) PROVE DropsOwn'
  BY <1>8 DEF DropsOwn, CancelLock, Goto
<1>9. ASSUME NEW u \in Upload, CancelAttachment(u) PROVE DropsOwn'
  BY <1>9 DEF DropsOwn, CancelAttachment, Entomb, Goto
<1>10. ASSUME NEW u \in Upload, Drop(u) PROVE DropsOwn'
  BY <1>10 DEF DropsOwn, Drop, Goto
<1>11. ASSUME NEW u \in Upload, Crash(u) PROVE DropsOwn'
  BY <1>11 DEF DropsOwn, Crash, Goto
<1>12. ASSUME NEW u \in Upload, DeleteOwned(u) PROVE DropsOwn'
  BY <1>12 DEF DropsOwn, DeleteOwned, Entomb
<1>13. ASSUME NEW u \in Upload, SendMessage(u) PROVE DropsOwn'
  BY <1>13 DEF DropsOwn, SendMessage
<1>14. ASSUME NEW u \in Upload, Expire(u) PROVE DropsOwn'
  BY <1>14 DEF DropsOwn, Expire
<1>15. ASSUME NEW u \in Upload, LeaseExpires(u) PROVE DropsOwn'
  BY <1>15 DEF DropsOwn, LeaseExpires
<1>16. ASSUME NEW w \in Worker, Stage(w) PROVE DropsOwn'
  BY <1>16 DEF DropsOwn, Stage
<1>17. ASSUME NEW w \in Worker, StageOwner(w) PROVE DropsOwn'
  BY <1>17 DEF DropsOwn, StageOwner, Entomb
<1>18. ASSUME NEW w \in Worker, Release(w) PROVE DropsOwn'
  BY <1>18 DEF DropsOwn, Release, Entomb
<1>19. ASSUME NEW w \in Worker, Claim(w) PROVE DropsOwn'
  BY <1>19 DEF DropsOwn, Claim
<1>20. ASSUME NEW w \in Worker, Delete(w) PROVE DropsOwn'
  BY <1>20 DEF DropsOwn, Delete
<1>21. ASSUME NEW w \in Worker, Ack(w) PROVE DropsOwn'
  BY <1>21 DEF DropsOwn, Ack
<1>22. ASSUME NEW w \in Worker, Nack(w) PROVE DropsOwn'
  BY <1>22 DEF DropsOwn, Nack
<1>23. ASSUME NEW w \in Worker, WorkerFails(w) PROVE DropsOwn'
  BY <1>23 DEF DropsOwn, WorkerFails
<1>24. ASSUME NEW w \in Worker, NEW u \in Attachment, BreakDeadlock(w, u) PROVE DropsOwn'
  BY <1>24 DEF DropsOwn, BreakDeadlock, Goto, TypeOK
<1>25. CASE UNCHANGED vars
  BY <1>25 DEF vars, DropsOwn
<1> QED  BY <1>1, <1>2, <1>3, <1>4, <1>5, <1>6, <1>7, <1>8, <1>9, <1>10, <1>11, <1>12, <1>13,
   <1>14, <1>15, <1>16, <1>17, <1>18, <1>19, <1>20, <1>21, <1>22, <1>23, <1>24, <1>25 DEF Next,
   UploadStep, WorkerStep

\* A blob is written by its own request alone.
LEMMA DeletedKept ==
  ASSUME OInv, [Next]_vars
  PROVE  Deleted'
<1> USE DEF OInv, client, database, worker, ghost
<1>1. ASSUME NEW u \in Upload, ReserveLock(u) PROVE Deleted'
  BY <1>1 DEF Deleted, ReserveLock
<1>2. ASSUME NEW u \in Upload, ReserveReadOther(u) PROVE Deleted'
  BY <1>2 DEF Deleted, ReserveReadOther
<1>3. ASSUME NEW u \in Upload, Reserve(u) PROVE Deleted'
  BY <1>3 DEF Deleted, Reserve
<1>4. ASSUME NEW u \in Upload, Put(u) PROVE Deleted'
  BY <1>4 DEF Deleted, JobsHold, Put
<1>5. ASSUME NEW u \in Upload, Bind(u) PROVE Deleted'
  BY <1>5 DEF Deleted, Bind
<1>6. ASSUME NEW u \in Upload, Finalize(u) PROVE Deleted'
  BY <1>6 DEF Deleted, Finalize
<1>7. ASSUME NEW u \in Upload, CancelObject(u) PROVE Deleted'
  BY <1>7 DEF Deleted, CancelObject
<1>8. ASSUME NEW u \in Upload, CancelLock(u) PROVE Deleted'
  BY <1>8 DEF Deleted, CancelLock
<1>9. ASSUME NEW u \in Upload, CancelAttachment(u) PROVE Deleted'
  BY <1>9 DEF Deleted, CancelAttachment
<1>10. ASSUME NEW u \in Upload, Drop(u) PROVE Deleted'
  BY <1>10 DEF Deleted, Drop
<1>11. ASSUME NEW u \in Upload, Crash(u) PROVE Deleted'
  BY <1>11 DEF Deleted, Crash
<1>12. ASSUME NEW u \in Upload, DeleteOwned(u) PROVE Deleted'
  BY <1>12 DEF Deleted, DeleteOwned
<1>13. ASSUME NEW u \in Upload, SendMessage(u) PROVE Deleted'
  BY <1>13 DEF Deleted, SendMessage
<1>14. ASSUME NEW u \in Upload, Expire(u) PROVE Deleted'
  BY <1>14 DEF Deleted, Expire
<1>15. ASSUME NEW u \in Upload, LeaseExpires(u) PROVE Deleted'
  BY <1>15 DEF Deleted, LeaseExpires
<1>16. ASSUME NEW w \in Worker, Stage(w) PROVE Deleted'
  BY <1>16 DEF Deleted, Stage, Becomes, TypeOK
<1>17. ASSUME NEW w \in Worker, StageOwner(w) PROVE Deleted'
  BY <1>17 DEF Deleted, StageOwner, Becomes
<1>18. ASSUME NEW w \in Worker, Release(w) PROVE Deleted'
  BY <1>18 DEF Deleted, Release, Becomes, Entomb, TypeOK
<1>19. ASSUME NEW w \in Worker, Claim(w) PROVE Deleted'
  BY <1>19 DEF Deleted, Claim, Becomes, TypeOK
<1>20. ASSUME NEW w \in Worker, Delete(w) PROVE Deleted'
  BY <1>20 DEF Deleted, Delete, Becomes, TypeOK
<1>21. ASSUME NEW w \in Worker, Ack(w) PROVE Deleted'
  BY <1>21 DEF Deleted, Ack, Becomes, TypeOK
<1>22. ASSUME NEW w \in Worker, Nack(w) PROVE Deleted'
  BY <1>22 DEF Deleted, Nack, Becomes
<1>23. ASSUME NEW w \in Worker, WorkerFails(w) PROVE Deleted'
  BY <1>23 DEF Deleted, WorkerFails, Becomes
<1>24. ASSUME NEW w \in Worker, NEW u \in Attachment, BreakDeadlock(w, u) PROVE Deleted'
  BY <1>24 DEF Deleted, BreakDeadlock, Becomes, TypeOK
<1>25. CASE UNCHANGED vars
  BY <1>25 DEF vars, Deleted
<1> QED  BY <1>1, <1>2, <1>3, <1>4, <1>5, <1>6, <1>7, <1>8, <1>9, <1>10, <1>11, <1>12, <1>13,
   <1>14, <1>15, <1>16, <1>17, <1>18, <1>19, <1>20, <1>21, <1>22, <1>23, <1>24, <1>25 DEF Next,
   UploadStep, WorkerStep

\* A late blob is deleted by its request, but for the exceptions.
LEMMA LateSettlesKept ==
  ASSUME OInv, [Next]_vars
  PROVE  LateSettles'
<1> USE DEF OInv, client, database, worker, ghost
<1>1. ASSUME NEW u \in Upload, ReserveLock(u) PROVE LateSettles'
  BY <1>1 DEF LateSettles, Unreserved, ReserveLock, Goto, TypeOK
<1>2. ASSUME NEW u \in Upload, ReserveReadOther(u) PROVE LateSettles'
  BY <1>2 DEF LateSettles, Unreserved, ReserveReadOther, Goto
<1>3. ASSUME NEW u \in Upload, Reserve(u) PROVE LateSettles'
  BY <1>3 DEF LateSettles, Unreserved, Reserve, Goto, TypeOK
<1>4. ASSUME NEW u \in Upload, Put(u) PROVE LateSettles'
  BY <1>4 DEF LateSettles, Unreserved, Put, Goto, TypeOK
<1>5. ASSUME NEW u \in Upload, Bind(u) PROVE LateSettles'
  BY <1>5 DEF LateSettles, Unreserved, Bind, Goto, TypeOK
<1>6. ASSUME NEW u \in Upload, Finalize(u) PROVE LateSettles'
  BY <1>6 DEF LateSettles, Unreserved, Finalize, Goto, TypeOK
<1>7. ASSUME NEW u \in Upload, CancelObject(u) PROVE LateSettles'
  BY <1>7 DEF LateSettles, Unreserved, CancelObject, AfterCancel, Entomb, Goto, TypeOK
<1>8. ASSUME NEW u \in Upload, CancelLock(u) PROVE LateSettles'
  BY <1>8 DEF LateSettles, Unreserved, CancelLock, Goto
<1>9. ASSUME NEW u \in Upload, CancelAttachment(u) PROVE LateSettles'
  BY <1>9 DEF LateSettles, Unreserved, CancelAttachment, Entomb, Goto, TypeOK
<1>10. ASSUME NEW u \in Upload, Drop(u) PROVE LateSettles'
  BY <1>10 DEF LateSettles, Unreserved, Drop, Goto
<1>11. ASSUME NEW u \in Upload, Crash(u) PROVE LateSettles'
  BY <1>11 DEF LateSettles, Unreserved, Crash, Goto
<1>12. ASSUME NEW u \in Upload, DeleteOwned(u) PROVE LateSettles'
  BY <1>12 DEF LateSettles, DeleteOwned, Entomb, TypeOK
<1>13. ASSUME NEW u \in Upload, SendMessage(u) PROVE LateSettles'
  BY <1>13 DEF LateSettles, SendMessage
<1>14. ASSUME NEW u \in Upload, Expire(u) PROVE LateSettles'
  BY <1>14 DEF LateSettles, Expire
<1>15. ASSUME NEW u \in Upload, LeaseExpires(u) PROVE LateSettles'
  BY <1>15 DEF LateSettles, LeaseExpires
<1>16. ASSUME NEW w \in Worker, Stage(w) PROVE LateSettles'
  BY <1>16 DEF LateSettles, Stage
<1>17. ASSUME NEW w \in Worker, StageOwner(w) PROVE LateSettles'
  BY <1>17 DEF LateSettles, StageOwner, Entomb, TypeOK
<1>18. ASSUME NEW w \in Worker, Release(w) PROVE LateSettles'
  BY <1>18 DEF LateSettles, Release, Entomb, TypeOK
<1>19. ASSUME NEW w \in Worker, Claim(w) PROVE LateSettles'
  BY <1>19 DEF LateSettles, Claim
<1>20. ASSUME NEW w \in Worker, Delete(w) PROVE LateSettles'
  BY <1>20 DEF LateSettles, Delete
<1>21. ASSUME NEW w \in Worker, Ack(w) PROVE LateSettles'
  BY <1>21 DEF LateSettles, Ack
<1>22. ASSUME NEW w \in Worker, Nack(w) PROVE LateSettles'
  BY <1>22 DEF LateSettles, Nack
<1>23. ASSUME NEW w \in Worker, WorkerFails(w) PROVE LateSettles'
  BY <1>23 DEF LateSettles, WorkerFails
<1>24. ASSUME NEW w \in Worker, NEW u \in Attachment, BreakDeadlock(w, u) PROVE LateSettles'
  BY <1>24 DEF LateSettles, Unreserved, BreakDeadlock, Goto, TypeOK
<1>25. CASE UNCHANGED vars
  BY <1>25 DEF vars, LateSettles
<1> QED  BY <1>1, <1>2, <1>3, <1>4, <1>5, <1>6, <1>7, <1>8, <1>9, <1>10, <1>11, <1>12, <1>13,
   <1>14, <1>15, <1>16, <1>17, <1>18, <1>19, <1>20, <1>21, <1>22, <1>23, <1>24, <1>25 DEF Next,
   UploadStep, WorkerStep

\* A blob loses its row to a tombstone, and its tombstone after the deletion.
LEMMA NoneLostKept ==
  ASSUME OInv, [Next]_vars
  PROVE  NoneLost'
<1> USE DEF OInv, client, database, worker, ghost
<1>1. ASSUME NEW u \in Upload, ReserveLock(u) PROVE NoneLost'
  BY <1>1 DEF NoneLost, ReserveLock
<1>2. ASSUME NEW u \in Upload, ReserveReadOther(u) PROVE NoneLost'
  BY <1>2 DEF NoneLost, ReserveReadOther
<1>3. ASSUME NEW u \in Upload, Reserve(u) PROVE NoneLost'
  BY <1>3 DEF NoneLost, Reserve, TypeOK
<1>4. ASSUME NEW u \in Upload, Put(u) PROVE NoneLost'
  BY <1>4 DEF NoneLost, Put
<1>5. ASSUME NEW u \in Upload, Bind(u) PROVE NoneLost'
  BY <1>5 DEF NoneLost, Bind
<1>6. ASSUME NEW u \in Upload, Finalize(u) PROVE NoneLost'
  BY <1>6 DEF NoneLost, Finalize, TypeOK
<1>7. ASSUME NEW u \in Upload, CancelObject(u) PROVE NoneLost'
  BY <1>7 DEF NoneLost, CancelObject, Entomb, TypeOK
<1>8. ASSUME NEW u \in Upload, CancelLock(u) PROVE NoneLost'
  BY <1>8 DEF NoneLost, CancelLock
<1>9. ASSUME NEW u \in Upload, CancelAttachment(u) PROVE NoneLost'
  BY <1>9 DEF NoneLost, CancelAttachment, Entomb, TypeOK
<1>10. ASSUME NEW u \in Upload, Drop(u) PROVE NoneLost'
  BY <1>10 DEF NoneLost, Drop
<1>11. ASSUME NEW u \in Upload, Crash(u) PROVE NoneLost'
  BY <1>11 DEF NoneLost, Crash
<1>12. ASSUME NEW u \in Upload, DeleteOwned(u) PROVE NoneLost'
  BY <1>12 DEF NoneLost, DeleteOwned, Entomb, TypeOK
<1>13. ASSUME NEW u \in Upload, SendMessage(u) PROVE NoneLost'
  BY <1>13 DEF NoneLost, SendMessage
<1>14. ASSUME NEW u \in Upload, Expire(u) PROVE NoneLost'
  BY <1>14 DEF NoneLost, Expire
<1>15. ASSUME NEW u \in Upload, LeaseExpires(u) PROVE NoneLost'
  BY <1>15 DEF NoneLost, LeaseExpires
<1>16. ASSUME NEW w \in Worker, Stage(w) PROVE NoneLost'
  BY <1>16 DEF NoneLost, Stage
<1>17. ASSUME NEW w \in Worker, StageOwner(w) PROVE NoneLost'
  BY <1>17 DEF NoneLost, StageOwner, Entomb, TypeOK
<1>18. ASSUME NEW w \in Worker, Release(w) PROVE NoneLost'
  BY <1>18 DEF NoneLost, Release, Entomb, TypeOK
<1>19. ASSUME NEW w \in Worker, Claim(w) PROVE NoneLost'
  BY <1>19, StorageAssumption DEF NoneLost, Claim, Becomes, TypeOK
<1>20. ASSUME NEW w \in Worker, Delete(w) PROVE NoneLost'
  BY <1>20 DEF NoneLost, Delete
<1>21. ASSUME NEW w \in Worker, Ack(w) PROVE NoneLost'
  BY <1>21 DEF NoneLost, Deleted, Ack, TypeOK
<1>22. ASSUME NEW w \in Worker, Nack(w) PROVE NoneLost'
  BY <1>22 DEF NoneLost, Nack, TypeOK
<1>23. ASSUME NEW w \in Worker, WorkerFails(w) PROVE NoneLost'
  BY <1>23 DEF NoneLost, WorkerFails
<1>24. ASSUME NEW w \in Worker, NEW u \in Attachment, BreakDeadlock(w, u) PROVE NoneLost'
  BY <1>24 DEF NoneLost, BreakDeadlock
<1>25. CASE UNCHANGED vars
  BY <1>25 DEF vars, NoneLost
<1> QED  BY <1>1, <1>2, <1>3, <1>4, <1>5, <1>6, <1>7, <1>8, <1>9, <1>10, <1>11, <1>12, <1>13,
   <1>14, <1>15, <1>16, <1>17, <1>18, <1>19, <1>20, <1>21, <1>22, <1>23, <1>24, <1>25 DEF Next,
   UploadStep, WorkerStep

\* A visible row is never deleted from under its blob, nor its blob from under it.
LEMMA ReadyHasBlobKept ==
  ASSUME OInv, [Next]_vars
  PROVE  ReadyHasBlob'
<1> USE DEF OInv, client, database, worker, ghost
<1>1. ASSUME NEW u \in Upload, ReserveLock(u) PROVE ReadyHasBlob'
  BY <1>1 DEF ReadyHasBlob, ReserveLock
<1>2. ASSUME NEW u \in Upload, ReserveReadOther(u) PROVE ReadyHasBlob'
  BY <1>2 DEF ReadyHasBlob, ReserveReadOther
<1>3. ASSUME NEW u \in Upload, Reserve(u) PROVE ReadyHasBlob'
  BY <1>3 DEF ReadyHasBlob, Reserve, TypeOK
<1>4. ASSUME NEW u \in Upload, Put(u) PROVE ReadyHasBlob'
  BY <1>4 DEF ReadyHasBlob, Put
<1>5. ASSUME NEW u \in Upload, Bind(u) PROVE ReadyHasBlob'
  BY <1>5 DEF ReadyHasBlob, Bind
<1>6. ASSUME NEW u \in Upload, Finalize(u) PROVE ReadyHasBlob'
  BY <1>6 DEF ReadyHasBlob, BlobPut, Finalize, TypeOK
<1>7. ASSUME NEW u \in Upload, CancelObject(u) PROVE ReadyHasBlob'
  BY <1>7 DEF ReadyHasBlob, CancelObject, Entomb
<1>8. ASSUME NEW u \in Upload, CancelLock(u) PROVE ReadyHasBlob'
  BY <1>8 DEF ReadyHasBlob, CancelLock
<1>9. ASSUME NEW u \in Upload, CancelAttachment(u) PROVE ReadyHasBlob'
  BY <1>9 DEF ReadyHasBlob, CancelAttachment, Entomb
<1>10. ASSUME NEW u \in Upload, Drop(u) PROVE ReadyHasBlob'
  BY <1>10 DEF ReadyHasBlob, DropsOwn, Drop
<1>11. ASSUME NEW u \in Upload, Crash(u) PROVE ReadyHasBlob'
  BY <1>11 DEF ReadyHasBlob, Crash
<1>12. ASSUME NEW u \in Upload, DeleteOwned(u) PROVE ReadyHasBlob'
  BY <1>12 DEF ReadyHasBlob, DeleteOwned, Entomb
<1>13. ASSUME NEW u \in Upload, SendMessage(u) PROVE ReadyHasBlob'
  BY <1>13 DEF ReadyHasBlob, SendMessage
<1>14. ASSUME NEW u \in Upload, Expire(u) PROVE ReadyHasBlob'
  BY <1>14 DEF ReadyHasBlob, Expire
<1>15. ASSUME NEW u \in Upload, LeaseExpires(u) PROVE ReadyHasBlob'
  BY <1>15 DEF ReadyHasBlob, LeaseExpires
<1>16. ASSUME NEW w \in Worker, Stage(w) PROVE ReadyHasBlob'
  BY <1>16 DEF ReadyHasBlob, Stage
<1>17. ASSUME NEW w \in Worker, StageOwner(w) PROVE ReadyHasBlob'
  BY <1>17 DEF ReadyHasBlob, StageOwner, Entomb
<1>18. ASSUME NEW w \in Worker, Release(w) PROVE ReadyHasBlob'
  BY <1>18 DEF ReadyHasBlob, Release, Entomb
<1>19. ASSUME NEW w \in Worker, Claim(w) PROVE ReadyHasBlob'
  BY <1>19 DEF ReadyHasBlob, Claim
<1>20. ASSUME NEW w \in Worker, Delete(w) PROVE ReadyHasBlob'
  BY <1>20 DEF ReadyHasBlob, JobsHold, Delete
<1>21. ASSUME NEW w \in Worker, Ack(w) PROVE ReadyHasBlob'
  BY <1>21 DEF ReadyHasBlob, Ack
<1>22. ASSUME NEW w \in Worker, Nack(w) PROVE ReadyHasBlob'
  BY <1>22 DEF ReadyHasBlob, Nack
<1>23. ASSUME NEW w \in Worker, WorkerFails(w) PROVE ReadyHasBlob'
  BY <1>23 DEF ReadyHasBlob, WorkerFails
<1>24. ASSUME NEW w \in Worker, NEW u \in Attachment, BreakDeadlock(w, u) PROVE ReadyHasBlob'
  BY <1>24 DEF ReadyHasBlob, BreakDeadlock
<1>25. CASE UNCHANGED vars
  BY <1>25 DEF vars, ReadyHasBlob
<1> QED  BY <1>1, <1>2, <1>3, <1>4, <1>5, <1>6, <1>7, <1>8, <1>9, <1>10, <1>11, <1>12, <1>13,
   <1>14, <1>15, <1>16, <1>17, <1>18, <1>19, <1>20, <1>21, <1>22, <1>23, <1>24, <1>25 DEF Next,
   UploadStep, WorkerStep

-----------------------------------------------------------------------------
(* Counting bytes.  The sum is defined by recursion over the set; here it is *)
(* the number of elements of another set, which the library knows about.     *)

\* Each byte of the entries, and the same of uploads.
Units(E) == UNION {{e} \X (1 .. Size[e[2]]) : e \in E}

\* Entries that count: finitely many, each with the size of an upload.
Countable(E) == IsFiniteSet(E) /\ \A e \in E : Size[e[2]] \in Nat

\* One entry has as many bytes as its upload.
LEMMA UnitsOfOne ==
  ASSUME NEW e, Size[e[2]] \in Nat
  PROVE  /\ IsFiniteSet({e} \X (1 .. Size[e[2]]))
         /\ Cardinality({e} \X (1 .. Size[e[2]])) = Size[e[2]]
<1> DEFINE I == 1 .. Size[e[2]]
<1>1. IsFiniteSet({e}) /\ Cardinality({e}) = 1
  BY FS_Singleton
<1>2. IsFiniteSet(I) /\ Cardinality(I) = Size[e[2]]
  <2> DEFINE n == Size[e[2]]
  <2> SUFFICES IsFiniteSet(1 .. n) /\ Cardinality(1 .. n) = n
    OBVIOUS
  <2>1. n \in Nat
    OBVIOUS
  <2> HIDE DEF n
  <2>2. IsFiniteSet(1 .. n) /\ Cardinality(1 .. n) = IF 1 > n THEN 0 ELSE n - 1 + 1
    BY <2>1, FS_Interval
  <2> QED  BY <2>1, <2>2
<1> HIDE DEF I
<1>3. IsFiniteSet({e} \X I) /\ Cardinality({e} \X I) = 1 * Cardinality(I)
  BY <1>1, <1>2, FS_Product
<1> QED  BY <1>2, <1>3 DEF I

LEMMA UnitsFinite ==
  ASSUME NEW E, Countable(E)
  PROVE  IsFiniteSet(Units(E)) /\ Cardinality(Units(E)) \in Nat
<1> DEFINE Of(e) == {e} \X (1 .. Size[e[2]])
           T == {Of(e) : e \in E}
           f == [e \in E |-> Of(e)]
<1>1. f \in Surjection(E, T)
  BY DEF Surjection
<1>2. IsFiniteSet(E) /\ \A t \in T : IsFiniteSet(t)
  BY UnitsOfOne DEF Countable
<1>3. Units(E) = UNION T
  BY DEF Units
<1> HIDE DEF f, T
<1>4. IsFiniteSet(T)
  BY <1>1, <1>2, FS_Surjection
<1>5. IsFiniteSet(UNION T)
  BY <1>2, <1>4, FS_UNION
<1> QED  BY <1>3, <1>5, FS_CardinalityType

\* More entries have more bytes.
LEMMA UnitsGrow ==
  ASSUME NEW E, NEW F, Countable(F), E \subseteq F
  PROVE  Countable(E) /\ Cardinality(E) <= Cardinality(F)
                      /\ Cardinality(Units(E)) <= Cardinality(Units(F))
<1>1. Countable(E) /\ Cardinality(E) <= Cardinality(F)
  BY FS_Subset DEF Countable
<1>2. Units(E) \subseteq Units(F)
  BY DEF Units
<1> QED  BY <1>1, <1>2, UnitsFinite, FS_Subset

\* A further entry adds its own bytes.
LEMMA UnitsAdd ==
  ASSUME NEW E, Countable(E), NEW e, e \notin E, Size[e[2]] \in Nat
  PROVE  /\ Countable(E \cup {e})
         /\ Cardinality(Units(E \cup {e})) = Cardinality(Units(E)) + Size[e[2]]
<1> DEFINE N == {e} \X (1 .. Size[e[2]])
<1>1. Countable(E \cup {e})
  BY FS_AddElement DEF Countable
<1>2. Units(E \cup {e}) = Units(E) \cup N
  BY DEF Units
<1>3. Units(E) \cap N = {}
  BY DEF Units
<1>4. IsFiniteSet(N) /\ Cardinality(N) = Size[e[2]]
  BY UnitsOfOne
<1>5. IsFiniteSet(Units(E)) /\ Cardinality(Units(E)) \in Nat
  BY UnitsFinite
<1> HIDE DEF N
<1>6. Cardinality(Units(E) \cup N) = Cardinality(Units(E)) + Cardinality(N) - Cardinality({})
  BY <1>3, <1>4, <1>5, FS_Union
<1>7. Cardinality({}) = 0
  BY FS_EmptySet
<1> DEFINE a == Cardinality(Units(E))
           b == Size[e[2]]
<1>8. a \in Nat /\ b \in Nat
  BY <1>5
<1>9. Cardinality(Units(E \cup {e})) = a + b - 0
  BY <1>2, <1>4, <1>6, <1>7
<1> HIDE DEF a, b
<1>10. Cardinality(Units(E \cup {e})) = a + b
  BY <1>8, <1>9
<1> QED  BY <1>1, <1>10 DEF a, b

\* The sum that decideStorageQuota computes is the number of bytes: whatever
\* the order in which it adds up.
LEMMA BytesCount ==
  ASSUME NEW E, Countable(E)
  PROVE  Bytes(E) = Cardinality(Units(E))
<1> DEFINE Pick(s) == CHOOSE x \in s : TRUE
           Sum(f) == [s \in SUBSET E |-> IF s = {} THEN 0 ELSE Size[Pick(s)[2]] + f[s \ {Pick(s)}]]
           iter == CHOOSE f : f = Sum(f)
           g == [s \in SUBSET E |-> Cardinality(Units(s))]
<1>1. Bytes(E) = iter[E]
  BY DEF Bytes, MapThenSumSet, MapThenFoldSet
<1>2. ASSUME NEW s \in SUBSET E, s # {}
      PROVE  /\ Pick(s) \in s /\ s \ {Pick(s)} \in SUBSET E
             /\ Cardinality(Units(s)) = Size[Pick(s)[2]] + Cardinality(Units(s \ {Pick(s)}))
  <2>1. Pick(s) \in s
    BY <1>2
  <2> HIDE DEF Pick
  <2>2. Countable(s \ {Pick(s)}) /\ Size[Pick(s)[2]] \in Nat
    BY <2>1, FS_Subset DEF Countable
  <2>3. s = (s \ {Pick(s)}) \cup {Pick(s)}
    BY <2>1
  <2>4. Cardinality(Units((s \ {Pick(s)}) \cup {Pick(s)}))
          = Cardinality(Units(s \ {Pick(s)})) + Size[Pick(s)[2]]
    BY <2>2, UnitsAdd
  <2>5. Cardinality(Units(s \ {Pick(s)})) \in Nat
    BY <2>2, UnitsFinite
  <2>6. Units(s) = Units((s \ {Pick(s)}) \cup {Pick(s)})
    BY <2>3
  <2>7. Cardinality(Units(s)) = Size[Pick(s)[2]] + Cardinality(Units(s \ {Pick(s)}))
    BY <2>2, <2>4, <2>5, <2>6
  <2> QED  BY <2>1, <2>7
<1>3. Cardinality(Units({})) = 0
  BY FS_EmptySet DEF Units
<1>4. g = Sum(g)
  <2> SUFFICES ASSUME NEW s \in SUBSET E PROVE g[s] = Sum(g)[s]
    OBVIOUS
  <2>1. CASE s = {}
    BY <1>3, <2>1
  <2>2. CASE s # {}
    <3> HIDE DEF Pick
    <3> QED  BY <1>2, <2>2
  <2> QED  BY <2>1, <2>2
<1>5. iter = Sum(iter)
  <2> HIDE DEF g, Sum
  <2> QED  BY <1>4
<1>6. \A s \in SUBSET E : iter[s] = IF s = {} THEN 0 ELSE Size[Pick(s)[2]] + iter[s \ {Pick(s)}]
  <2> HIDE DEF iter, Pick
  <2> QED  BY <1>5
<1> HIDE DEF iter, Pick
<1>7. \A s \in SUBSET E : iter[s] = g[s]
  <2> DEFINE Bad == {s \in SUBSET E : iter[s] # g[s]}
  <2> SUFFICES ASSUME Bad # {} PROVE FALSE
    OBVIOUS
  <2>1. IsWellFoundedOn(StrictSubsetOrdering(E), SUBSET E)
    BY FS_StrictSubsetOrderingWellFounded, FS_FiniteSubsetsOfFinite DEF Countable
  <2>2. PICK s \in Bad : \A t \in Bad : ~ (<<t, s>> \in StrictSubsetOrdering(E))
    <3> HIDE DEF Bad
    <3>1. Bad \subseteq SUBSET E
      BY DEF Bad
    <3> QED  BY <2>1, <3>1, WFMin
  <2>3. s # {}
    BY <1>3, <1>6
  <2>4. Pick(s) \in s /\ s \ {Pick(s)} \in SUBSET E
    BY <1>2, <2>3
  <2>5. s \ {Pick(s)} \notin Bad
    <3>1. <<s \ {Pick(s)}, s>> \in StrictSubsetOrdering(E)
      BY <2>4 DEF StrictSubsetOrdering
    <3> QED  BY <2>2, <3>1
  <2>6. iter[s \ {Pick(s)}] = g[s \ {Pick(s)}]
    BY <2>4, <2>5
  <2> QED  BY <1>2, <1>6, <2>3, <2>4, <2>6
<1> QED  BY <1>1, <1>7

-----------------------------------------------------------------------------
(* The quota. *)

\* The uploads that count: those with a row or a tombstone.
Charged == {u \in Upload : row[u] # "none" \/ tomb[u] # "none"}

Held == Rows(Upload) \cup Tombstones
Entries(S) == {"row"} \X S

InQuota(S) ==
  Cardinality(Entries(S)) <= MaxObjects /\ Cardinality(Units(Entries(S))) <= MaxBytes

\* Sets of rows and tombstones can be counted.
LEMMA EntriesCount ==
  ASSUME NEW E, E \subseteq {"row", "tomb"} \X Upload
  PROVE  Countable(E)
<1>1. IsFiniteSet({"row", "tomb"})
  <2>1. IsFiniteSet({"row"}) /\ IsFiniteSet({"row"} \cup {"tomb"})
    BY FS_Singleton, FS_AddElement
  <2> QED  BY <2>1
<1>2. IsFiniteSet({"row", "tomb"} \X Upload)
  BY <1>1, StorageAssumption, FS_Product
<1>3. IsFiniteSet(E)
  BY <1>2, FS_Subset
<1>4. \A e \in E : Size[e[2]] \in Nat
  BY StorageAssumption
<1> QED  BY <1>3, <1>4 DEF Countable

\* Every upload that counts does so once: as a row or as a tombstone.
LEMMA HeldOnce ==
  ASSUME RowOrTomb
  PROVE  /\ Countable(Held) /\ Countable(Entries(Charged))
         /\ Cardinality(Held) = Cardinality(Entries(Charged))
         /\ Cardinality(Units(Held)) = Cardinality(Units(Entries(Charged)))
<1> DEFINE f == [e \in Held |-> <<"row", e[2]>>]
           g == [x \in Units(Held) |-> <<<<"row", x[1][2]>>, x[2]>>]
<1>1. Countable(Held) /\ Countable(Entries(Charged))
  <2>1. Held \subseteq {"row", "tomb"} \X Upload /\ Entries(Charged) \subseteq {"row", "tomb"} \X Upload
    BY DEF Held, Rows, Tombstones, Entries, Charged
  <2> QED  BY <2>1, EntriesCount
<1>2. /\ \A e \in Held : e[2] \in Charged /\ e = <<IF row[e[2]] # "none" THEN "row" ELSE "tomb", e[2]>>
      /\ \A u \in Charged : <<IF row[u] # "none" THEN "row" ELSE "tomb", u>> \in Held
  BY DEF Held, Rows, Tombstones, Charged, RowOrTomb
<1>3. f \in Bijection(Held, Entries(Charged))
  <2>1. f \in [Held -> Entries(Charged)]
    BY <1>2 DEF Entries
  <2>2. ASSUME NEW d \in Held, NEW e \in Held, f[d] = f[e] PROVE d = e
    BY <1>2, <2>2
  <2>3. ASSUME NEW t \in Entries(Charged) PROVE \E e \in Held : f[e] = t
    <3>1. PICK u \in Charged : t = <<"row", u>>
      BY DEF Entries
    <3>2. f[<<IF row[u] # "none" THEN "row" ELSE "tomb", u>>] = t
      BY <1>2, <3>1
    <3> QED  BY <1>2, <3>2
  <2> QED  BY <2>1, <2>2, <2>3, Fun_IsBij
<1>4. g \in Bijection(Units(Held), Units(Entries(Charged)))
  <2>1. \A x \in Units(Held) :
          x[1] \in Held /\ x[2] \in 1 .. Size[x[1][2]] /\ x = <<x[1], x[2]>>
    BY DEF Units
  <2>2. g \in [Units(Held) -> Units(Entries(Charged))]
    BY <1>2, <2>1 DEF Units, Entries
  <2>3. ASSUME NEW x \in Units(Held), NEW y \in Units(Held), g[x] = g[y] PROVE x = y
    BY <1>2, <2>1, <2>3
  <2>4. ASSUME NEW t \in Units(Entries(Charged)) PROVE \E x \in Units(Held) : g[x] = t
    <3>1. PICK n \in Entries(Charged) : t \in {n} \X (1 .. Size[n[2]])
      BY DEF Units
    <3>2. PICK u \in Charged : n = <<"row", u>>
      BY DEF Entries
    <3>3. PICK i \in 1 .. Size[u] : t = <<<<"row", u>>, i>>
      BY <3>1, <3>2
    <3> DEFINE e == <<IF row[u] # "none" THEN "row" ELSE "tomb", u>>
    <3>4. e \in Held /\ e[2] = u
      BY <1>2
    <3> HIDE DEF e
    <3>5. <<e, i>> \in Units(Held)
      BY <3>4 DEF Units
    <3>6. g[<<e, i>>] = t
      BY <3>3, <3>4, <3>5
    <3> QED  BY <3>5, <3>6
  <2> QED  BY <2>2, <2>3, <2>4, Fun_IsBij
<1>5. IsFiniteSet(Held) /\ IsFiniteSet(Units(Held))
  BY <1>1, UnitsFinite DEF Countable
<1> HIDE DEF f, g
<1>6. Cardinality(Held) = Cardinality(Entries(Charged))
  BY <1>3, <1>5, FS_Bijection DEF ExistsBijection
<1>7. Cardinality(Units(Held)) = Cardinality(Units(Entries(Charged)))
  BY <1>4, <1>5, FS_Bijection DEF ExistsBijection
<1> QED  BY <1>1, <1>6, <1>7

\* Fewer uploads stay in the quota.
LEMMA QuotaShrinks ==
  ASSUME NEW S \in SUBSET Upload, NEW T \in SUBSET S, InQuota(S)
  PROVE  InQuota(T)
<1>1. Entries(T) \subseteq Entries(S) /\ Entries(S) \subseteq {"row", "tomb"} \X Upload
  BY DEF Entries
<1>2. Countable(Entries(S))
  BY <1>1, EntriesCount
<1>3. Countable(Entries(T)) /\ Cardinality(Entries(T)) <= Cardinality(Entries(S))
                            /\ Cardinality(Units(Entries(T))) <= Cardinality(Units(Entries(S)))
  BY <1>1, <1>2, UnitsGrow
<1>4. /\ Cardinality(Entries(T)) \in Nat /\ Cardinality(Entries(S)) \in Nat
      /\ Cardinality(Units(Entries(T))) \in Nat /\ Cardinality(Units(Entries(S))) \in Nat
  BY <1>2, <1>3, UnitsFinite, FS_CardinalityType DEF Countable
<1> QED  BY <1>3, <1>4, StorageAssumption DEF InQuota

\* What the quota decides on the rows and tombstones a reservation has seen
\* holds for all there are, since it has seen all of them and maybe more.
LEMMA QuotaDecides ==
  ASSUME TypeOK, RowOrTomb, SeenCovers, NEW u \in Upload, pc[u] = "readQueue",
         Allows(seen[u] \cup Tombstones, u), u \notin Charged
  PROVE  InQuota(Charged \cup {u})
<1> DEFINE F == seen[u] \cup Tombstones
           n == <<"row", u>>
<1>1. Held \subseteq F /\ F \subseteq {"row", "tomb"} \X Upload
  BY DEF TypeOK, SeenCovers, Held, Tombstones
<1>2. Countable(F)
  BY <1>1, EntriesCount
<1>3. Cardinality(F) < MaxObjects /\ Bytes(F) + Size[u] <= MaxBytes
  BY DEF Allows
<1> HIDE DEF F
<1>4. Bytes(F) = Cardinality(Units(F))
  BY <1>2, BytesCount
<1>5. Cardinality(Held) <= Cardinality(F) /\ Cardinality(Units(Held)) <= Cardinality(Units(F))
  BY <1>1, <1>2, UnitsGrow
<1>6. /\ Countable(Entries(Charged)) /\ Cardinality(Held) = Cardinality(Entries(Charged))
      /\ Cardinality(Units(Held)) = Cardinality(Units(Entries(Charged)))
  BY HeldOnce
<1>7. n \notin Entries(Charged) /\ Entries(Charged \cup {u}) = Entries(Charged) \cup {n}
  BY DEF Entries
<1>8. Size[u] \in Nat /\ Size[n[2]] = Size[u]
  BY StorageAssumption
<1> HIDE DEF n
<1>9. Cardinality(Units(Entries(Charged) \cup {n})) = Cardinality(Units(Entries(Charged))) + Size[u]
  BY <1>6, <1>7, <1>8, UnitsAdd
<1>10. Cardinality(Entries(Charged) \cup {n}) = Cardinality(Entries(Charged)) + 1
  BY <1>6, <1>7, FS_AddElement DEF Countable
<1>11. /\ Cardinality(F) \in Nat /\ Cardinality(Units(F)) \in Nat
       /\ Cardinality(Entries(Charged)) \in Nat /\ Cardinality(Units(Entries(Charged))) \in Nat
  BY <1>2, <1>6, UnitsFinite, FS_CardinalityType DEF Countable
<1>12. Cardinality(Entries(Charged)) + 1 <= MaxObjects
  BY <1>3, <1>5, <1>6, <1>11, StorageAssumption
<1>13. Cardinality(Units(Entries(Charged))) + Size[u] <= MaxBytes
  BY <1>3, <1>4, <1>5, <1>6, <1>8, <1>11, StorageAssumption
<1> QED  BY <1>7, <1>9, <1>10, <1>12, <1>13 DEF InQuota

\* The invariant about the uploads gives the one about rows and tombstones.
LEMMA QuotaOfHeld ==
  ASSUME RowOrTomb, InQuota(Charged)
  PROVE  QuotaKept
<1>1. /\ Countable(Held) /\ Cardinality(Held) = Cardinality(Entries(Charged))
      /\ Cardinality(Units(Held)) = Cardinality(Units(Entries(Charged)))
  BY HeldOnce
<1>2. Bytes(Held) = Cardinality(Units(Held))
  BY <1>1, BytesCount
<1> QED  BY <1>1, <1>2 DEF QuotaKept, InQuota, Held

\* But for a reservation no step adds an upload to those that count.
LEMMA ChargedKept ==
  ASSUME OInv, [Next]_vars
  PROVE  \/ Charged' \subseteq Charged
         \/ \E u \in Upload : Reserve(u)
<1> USE DEF OInv, Charged, client, database, worker, ghost
<1>1. ASSUME NEW u \in Upload, ReserveLock(u) PROVE Charged' \subseteq Charged
  BY <1>1 DEF ReserveLock
<1>2. ASSUME NEW u \in Upload, ReserveReadOther(u) PROVE Charged' \subseteq Charged
  BY <1>2 DEF ReserveReadOther
<1>3. ASSUME NEW u \in Upload, Put(u) PROVE Charged' \subseteq Charged
  BY <1>3 DEF Put
<1>4. ASSUME NEW u \in Upload, Bind(u) PROVE Charged' \subseteq Charged
  BY <1>4 DEF Bind
<1>5. ASSUME NEW u \in Upload, Finalize(u) PROVE Charged' \subseteq Charged
  BY <1>5 DEF Finalize, TypeOK
<1>6. ASSUME NEW u \in Upload, CancelObject(u) PROVE Charged' \subseteq Charged
  BY <1>6 DEF CancelObject, TypeOK, Entomb
<1>7. ASSUME NEW u \in Upload, CancelLock(u) PROVE Charged' \subseteq Charged
  BY <1>7 DEF CancelLock
<1>8. ASSUME NEW u \in Upload, CancelAttachment(u) PROVE Charged' \subseteq Charged
  BY <1>8 DEF CancelAttachment, Entomb
<1>9. ASSUME NEW u \in Upload, Drop(u) PROVE Charged' \subseteq Charged
  BY <1>9 DEF Drop
<1>10. ASSUME NEW u \in Upload, Crash(u) PROVE Charged' \subseteq Charged
  BY <1>10 DEF Crash
<1>11. ASSUME NEW u \in Upload, DeleteOwned(u) PROVE Charged' \subseteq Charged
  BY <1>11 DEF DeleteOwned, Entomb
<1>12. ASSUME NEW u \in Upload, SendMessage(u) PROVE Charged' \subseteq Charged
  BY <1>12 DEF SendMessage, TypeOK
<1>13. ASSUME NEW u \in Upload, Expire(u) PROVE Charged' \subseteq Charged
  BY <1>13 DEF Expire
<1>14. ASSUME NEW u \in Upload, LeaseExpires(u) PROVE Charged' \subseteq Charged
  BY <1>14, StorageAssumption DEF LeaseExpires, TypeOK
<1>15. ASSUME NEW w \in Worker, Stage(w) PROVE Charged' \subseteq Charged
  BY <1>15 DEF Stage
<1>16. ASSUME NEW w \in Worker, StageOwner(w) PROVE Charged' \subseteq Charged
  BY <1>16 DEF StageOwner, JobsHold, Entomb
<1>17. ASSUME NEW w \in Worker, Release(w) PROVE Charged' \subseteq Charged
  BY <1>17 DEF Release, Released, Entomb
<1>18. ASSUME NEW w \in Worker, Claim(w) PROVE Charged' \subseteq Charged
  BY <1>18 DEF Claim, TypeOK
<1>19. ASSUME NEW w \in Worker, Delete(w) PROVE Charged' \subseteq Charged
  BY <1>19 DEF Delete
<1>20. ASSUME NEW w \in Worker, Ack(w) PROVE Charged' \subseteq Charged
  BY <1>20, StorageAssumption DEF Ack, TypeOK
<1>21. ASSUME NEW w \in Worker, Nack(w) PROVE Charged' \subseteq Charged
  BY <1>21, StorageAssumption DEF Nack, TypeOK
<1>22. ASSUME NEW w \in Worker, WorkerFails(w) PROVE Charged' \subseteq Charged
  BY <1>22 DEF WorkerFails
<1>23. ASSUME NEW w \in Worker, NEW u \in Attachment, BreakDeadlock(w, u) PROVE Charged' \subseteq Charged
  BY <1>23 DEF BreakDeadlock
<1>24. CASE UNCHANGED vars
  BY <1>24 DEF vars
<1> QED  BY <1>1, <1>2, <1>3, <1>4, <1>5, <1>6, <1>7, <1>8, <1>9, <1>10, <1>11, <1>12, <1>13,
   <1>14, <1>15, <1>16, <1>17, <1>18, <1>19, <1>20, <1>21, <1>22, <1>23, <1>24 DEF Next,
   UploadStep, WorkerStep

\* No step exceeds the quota.
LEMMA QuotaStep ==
  ASSUME OInv, [Next]_vars, InQuota(Charged)
  PROVE  InQuota(Charged')
<1> USE DEF OInv
<1>1. CASE Charged' \subseteq Charged
  <2>1. Charged \in SUBSET Upload
    BY DEF Charged
  <2> QED  BY <1>1, <2>1, QuotaShrinks
<1>2. ASSUME NEW u \in Upload, Reserve(u) PROVE InQuota(Charged')
  <2>1. u \notin Charged
    BY <1>2 DEF Reserve, NotYet, Unreserved, Charged
  <2>2. CASE Allows(seen[u] \cup Tombstones, u)
    <3>1. Charged' \subseteq Charged \cup {u}
      BY <1>2, <2>2 DEF Reserve, Charged, TypeOK
    <3>2. InQuota(Charged \cup {u})
      BY <1>2, <2>1, <2>2, QuotaDecides DEF Reserve
    <3>3. Charged \cup {u} \in SUBSET Upload
      BY DEF Charged
    <3> QED  BY <3>1, <3>2, <3>3, QuotaShrinks
  <2>3. CASE ~ Allows(seen[u] \cup Tombstones, u)
    BY <1>2, <2>3 DEF Reserve, Charged
  <2> QED  BY <2>2, <2>3
<1> QED  BY <1>1, <1>2, ChargedKept

-----------------------------------------------------------------------------
(* The theorems. *)

\* At the start there is nothing.
LEMMA InitHolds == Init => OInv /\ InQuota(Charged)
<1> SUFFICES ASSUME Init PROVE OInv /\ InQuota(Charged)
  OBVIOUS
<1> USE DEF Init
<1>1. TypeOK
  BY StorageAssumption DEF TypeOK
<1>2. NotYet /\ RowOrTomb /\ SeenCovers /\ BlobPut /\ DropsOwn
  BY DEF NotYet, RowOrTomb, SeenCovers, BlobPut, DropsOwn
<1>3. OneReserves
  BY StorageAssumption DEF OneReserves
<1>4. JobsHold /\ Deleted /\ LateSettles /\ NoneLost /\ ReadyHasBlob
  BY DEF JobsHold, Deleted, LateSettles, NoneLost, ReadyHasBlob
<1>5. Charged = {}
  BY DEF Charged
<1>6. Entries({}) = {} /\ Units({}) = {}
  BY DEF Entries, Units
<1>7. InQuota({})
  BY <1>6, FS_EmptySet, StorageAssumption DEF InQuota
<1> QED  BY <1>1, <1>2, <1>3, <1>4, <1>5, <1>7 DEF OInv

\* The invariant holds in every reachable state.
LEMMA AlwaysHolds == Spec => [](OInv /\ InQuota(Charged))
<1>1. ASSUME OInv, InQuota(Charged), [Next]_vars PROVE OInv' /\ InQuota(Charged)'
  <2>1. OInv'
    BY <1>1, TypeKept, NotYetKept, RowOrTombKept, OneReservesKept, SeenCoversKept, JobsHoldKept,
       BlobPutKept, DropsOwnKept, DeletedKept, LateSettlesKept, NoneLostKept, ReadyHasBlobKept
       DEF OInv
  <2>2. InQuota(Charged')
    BY <1>1, QuotaStep
  <2> QED  BY <2>1, <2>2 DEF InQuota
<1> QED  BY <1>1, InitHolds, PTL DEF Spec

\* Requests, tables, the blob store and workers keep their types: every lease is
\* that of a worker.
THEOREM TypeCorrect == Spec => []TypeOK
<1>1. OInv => TypeOK
  BY DEF OInv
<1> QED  BY <1>1, AlwaysHolds, PTL

\* decideStorageQuota keeps the owner in the quota, although it adds up three
\* tables that others change while it reads them.
THEOREM QuotaIsKept == Spec => []QuotaKept
<1>1. OInv /\ InQuota(Charged) => QuotaKept
  BY QuotaOfHeld DEF OInv
<1> QED  BY <1>1, AlwaysHolds, PTL

\* What users see has its blob, whichever workers and cancellations race with
\* the request, unless the request's own compensation failed.
THEOREM VisibleHasBlob == Spec => []ReadyHasBlob
<1>1. OInv => ReadyHasBlob
  BY DEF OInv
<1> QED  BY <1>1, AlwaysHolds, PTL

\* The blob of a request that is over has a row or a tombstone, or landed after
\* both were gone.
THEOREM BlobsAreAccounted == Spec => []Accounted
<1>1. OInv => Accounted
  BY DEF OInv, NoneLost, LateSettles, Accounted, Ended
<1> QED  BY <1>1, AlwaysHolds, PTL
=============================================================================
