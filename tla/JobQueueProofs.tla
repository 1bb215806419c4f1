-------------------------- MODULE JobQueueProofs --------------------------
(***************************************************************************)
(* The safety properties of the job queue and of the scheduler, proved for *)
(* any runs, schedules, hosts and bounds.                                  *)
(***************************************************************************)
EXTENDS JobScheduler, TLAPS

Executing == {"run", "final", "complete", "ack", "fail", "failAck", "failSettle"}

\* A worker that executes knows its run and its attempt.
Executes == \A h \in Host : wpc[h] \in Executing => task[h] \in Task

\* A run that was not enqueued was never claimed.
Fresh == \A r \in Run : state[r] = "absent" => attempt[r] = 0

\* A tick that is at a schedule has read it, and one that is about to advance
\* it has seen its run in the table.
Reads ==
  \A h \in Host : spc[h] \in {"define", "enqueue", "advance"} =>
    /\ read[h][1] \in Schedule /\ read[h][2] \in 1 .. MaxEdits + 1
    /\ spc[h] = "advance" => state[read[h][1]] # "absent"

\* OneResult without the set of a run's results: a result is that of a run's
\* last claim, and the run has ended with it; a success has one.
Committed ==
  /\ \A e \in results : state[e[1]] \in {"succeeded", "cancelled"} /\ e[2] = attempt[e[1]]
  /\ \A r \in Run : state[r] = "succeeded" => <<r, attempt[r]>> \in results

\* The inductive invariant.
IInv ==
  /\ TypeOK /\ Executes /\ Fresh /\ Reads
  /\ CancellationWins /\ AttemptLeft /\ Committed /\ NoneSkipped

\* A statement that settles keeps the types of the columns it writes.
LEMMA SettleType ==
  ASSUME TypeOK, NEW r, NEW s \in {"queued"} \cup Final, Settle(r, s)
  PROVE  state' \in [Run -> {"absent", "queued", "running"} \cup Final] /\ ripe' \subseteq Run
BY DEF TypeOK, QueueTypeOK, Settle

\* What a statement settles to, with or without a cancellation.
LEMMA UnlessType ==
  ASSUME NEW r, NEW s \in {"queued"} \cup Final
  PROVE  Unless(r, s) \in {"queued"} \cup Final
BY DEF Unless, Final

-----------------------------------------------------------------------------
(* The steps of the queue. *)

\* Users, workers and the passing of time keep the invariant.
LEMMA QueueKeeps ==
  ASSUME IInv, QueueStep, UNCHANGED <<schedules, scheduler>>
  PROVE  IInv'
<1> USE DEF IInv, runs, worker, schedules, scheduler
<1>1. ASSUME NEW r \in Run, Enqueue(r), UNCHANGED <<schedules, scheduler>>
      PROVE  IInv'
  <2>1. TypeOK'
    BY <1>1 DEF TypeOK, QueueTypeOK, ScheduleTypeOK, Enqueue
  <2>2. Executes'
    BY <1>1 DEF TypeOK, QueueTypeOK, Executes, Executing, Enqueue
  <2>3. Reads'
    BY <1>1 DEF TypeOK, QueueTypeOK, Reads, Enqueue
  <2>4. Fresh'
    BY <1>1 DEF TypeOK, QueueTypeOK, Fresh, Enqueue
  <2>5. CancellationWins'
    BY <1>1 DEF TypeOK, QueueTypeOK, CancellationWins, Enqueue
  <2>6. AttemptLeft'
    BY <1>1, JobAssumption DEF TypeOK, QueueTypeOK, Fresh, AttemptLeft,
       CancellationWins, Run, Task, Final, Executes, Executing, Enqueue
  <2>7. Committed'
    BY <1>1 DEF TypeOK, QueueTypeOK, Committed, Enqueue
  <2>8. NoneSkipped'
    BY <1>1 DEF TypeOK, QueueTypeOK, NoneSkipped, Enqueue
  <2> QED  BY <2>1, <2>2, <2>3, <2>4, <2>5, <2>6, <2>7, <2>8 DEF IInv
<1>2. ASSUME NEW r \in Run, Cancel(r), UNCHANGED <<schedules, scheduler>>
      PROVE  IInv'
  <2>1. TypeOK'
    BY <1>2, JobAssumption, ScheduleAssumption DEF TypeOK, QueueTypeOK,
       ScheduleTypeOK, Run, Task, Label, Final, Executes, Executing, Reads,
       AttemptLeft, NoTask, Cancel
  <2>2. Executes'
    BY <1>2 DEF TypeOK, QueueTypeOK, Executes, Executing, Cancel
  <2>3. Reads'
    BY <1>2 DEF TypeOK, QueueTypeOK, Reads, Cancel
  <2>4. Fresh'
    BY <1>2 DEF TypeOK, QueueTypeOK, Fresh, Cancel
  <2>5. CancellationWins'
    BY <1>2 DEF TypeOK, QueueTypeOK, CancellationWins, Cancel
  <2>6. AttemptLeft'
    BY <1>2 DEF TypeOK, QueueTypeOK, AttemptLeft, Cancel
  <2>7. Committed'
    BY <1>2 DEF TypeOK, QueueTypeOK, Committed, Cancel
  <2>8. NoneSkipped'
    BY <1>2 DEF TypeOK, QueueTypeOK, NoneSkipped, Cancel
  <2> QED  BY <2>1, <2>2, <2>3, <2>4, <2>5, <2>6, <2>7, <2>8 DEF IInv
<1>3. ASSUME NEW r \in Run, Ripen(r), UNCHANGED <<schedules, scheduler>>
      PROVE  IInv'
  <2>1. TypeOK'
    BY <1>3 DEF TypeOK, QueueTypeOK, ScheduleTypeOK, Ripen
  <2>2. Executes'
    BY <1>3 DEF TypeOK, QueueTypeOK, Executes, Executing, Ripen
  <2>3. Reads'
    BY <1>3 DEF TypeOK, QueueTypeOK, Reads, Ripen
  <2>4. Fresh' /\ CancellationWins' /\ AttemptLeft' /\ Committed' /\ NoneSkipped'
    BY <1>3 DEF Fresh, CancellationWins, AttemptLeft, Committed, NoneSkipped, Ripen
  <2> QED  BY <2>1, <2>2, <2>3, <2>4 DEF IInv
<1>4. ASSUME NEW h \in Host, List(h), UNCHANGED <<schedules, scheduler>>
      PROVE  IInv'
  <2>1. TypeOK'
    BY <1>4, JobAssumption DEF TypeOK, QueueTypeOK, ScheduleTypeOK, Run, Task, Label,
       NoTask, List, Go
  <2>2. Executes'
    BY <1>4 DEF TypeOK, QueueTypeOK, Executes, Executing, List, Go
  <2>3. Reads'
    BY <1>4 DEF TypeOK, QueueTypeOK, Reads, List
  <2>4. Fresh' /\ CancellationWins' /\ AttemptLeft' /\ Committed' /\ NoneSkipped'
    BY <1>4 DEF Fresh, CancellationWins, AttemptLeft, Committed, NoneSkipped, List
  <2> QED  BY <2>1, <2>2, <2>3, <2>4 DEF IInv
<1>5. ASSUME NEW h \in Host, Recover(h), UNCHANGED <<schedules, scheduler>>
      PROVE  IInv'
  <2>1. TypeOK'
    <3>1. state' \in [Run -> {"absent", "queued", "running"} \cup Final]
      BY <1>5, SettleType, UnlessType DEF TypeOK, QueueTypeOK, Final, Recover
    <3>2. attempt' \in [Run -> Nat] /\ \A r \in Run : attempt'[r] <= MaxAttempts[r]
      BY <1>5 DEF TypeOK, QueueTypeOK, Recover
    <3>3. cancel' \subseteq Request /\ ripe' \subseteq Run /\ results' \subseteq Task
      BY <1>5, SettleType, UnlessType DEF TypeOK, QueueTypeOK, Final, Recover
    <3>4. wpc' \in [Host -> Label]
      BY <1>5 DEF TypeOK, QueueTypeOK, Label, Recover, Go
    <3>5. task' \in [Host -> Task \cup {NoTask}]
      BY <1>5 DEF TypeOK, QueueTypeOK, Recover, Go
    <3>6. lost' \subseteq Host /\ stopping' \subseteq Host /\ listed' \in [Host -> SUBSET Task]
      BY <1>5 DEF TypeOK, QueueTypeOK, Recover, Go
    <3>7. faults' \in 0 .. MaxFaults
      BY <1>5 DEF TypeOK, QueueTypeOK, Recover, Go
    <3>8. ScheduleTypeOK'
      BY <1>5 DEF TypeOK, ScheduleTypeOK
    <3> QED  BY <3>1, <3>2, <3>3, <3>4, <3>5, <3>6, <3>7, <3>8 DEF TypeOK, QueueTypeOK
  <2>2. Executes'
    BY <1>5 DEF TypeOK, QueueTypeOK, Executes, Executing, Recover, Go
  <2>3. Reads'
    BY <1>5 DEF TypeOK, QueueTypeOK, Reads, Run, Recover, Go, Settle, Unless, Leased
  <2>4. Fresh'
    BY <1>5 DEF TypeOK, QueueTypeOK, Fresh, Recover, Settle, Unless, Leased
  <2>5. CancellationWins'
    BY <1>5, JobAssumption DEF TypeOK, QueueTypeOK, Fresh, AttemptLeft,
       CancellationWins, Run, Task, Final, Executes, Executing, Recover, Settle,
       Unless, Leased
  <2>6. AttemptLeft'
    BY <1>5, JobAssumption DEF TypeOK, QueueTypeOK, Fresh, AttemptLeft,
       CancellationWins, Run, Task, Final, Executes, Executing, Recover, Settle,
       Unless, Leased
  <2>7. Committed'
    BY <1>5, JobAssumption DEF TypeOK, QueueTypeOK, Fresh, AttemptLeft,
       CancellationWins, Run, Task, Final, Executes, Executing, Committed, Recover,
       Settle, Unless, Leased
  <2>8. NoneSkipped'
    BY <1>5, JobAssumption DEF TypeOK, QueueTypeOK, Fresh, AttemptLeft,
       CancellationWins, Run, Task, Final, Executes, Executing, NoneSkipped, Recover,
       Settle, Unless, Leased
  <2> QED  BY <2>1, <2>2, <2>3, <2>4, <2>5, <2>6, <2>7, <2>8 DEF IInv
<1>6. ASSUME NEW h \in Host, Claim(h), UNCHANGED <<schedules, scheduler>>
      PROVE  IInv'
  <2>1. TypeOK'
    <3>1. state' \in [Run -> {"absent", "queued", "running"} \cup Final]
      BY <1>6 DEF TypeOK, QueueTypeOK, Final, Claim
    <3>2. attempt' \in [Run -> Nat] /\ \A r \in Run : attempt'[r] <= MaxAttempts[r]
      BY <1>6, JobAssumption DEF TypeOK, QueueTypeOK, Run, AttemptLeft, Claim
    <3>3. cancel' \subseteq Request /\ ripe' \subseteq Run /\ results' \subseteq Task
      BY <1>6 DEF TypeOK, QueueTypeOK, Claim
    <3>4. wpc' \in [Host -> Label]
      BY <1>6 DEF TypeOK, QueueTypeOK, Label, Claim, Go, Fault
    <3>5. task' \in [Host -> Task \cup {NoTask}]
      BY <1>6 DEF TypeOK, QueueTypeOK, Run, Task, NoTask, Claim, Go, Fault
    <3>6. lost' \subseteq Host /\ stopping' \subseteq Host /\ listed' \in [Host -> SUBSET Task]
      BY <1>6 DEF TypeOK, QueueTypeOK, Claim, Go, Fault
    <3>7. faults' \in 0 .. MaxFaults
      BY <1>6, JobAssumption DEF TypeOK, QueueTypeOK, Claim, Go, Fault
    <3>8. ScheduleTypeOK'
      BY <1>6 DEF TypeOK, ScheduleTypeOK
    <3> QED  BY <3>1, <3>2, <3>3, <3>4, <3>5, <3>6, <3>7, <3>8 DEF TypeOK, QueueTypeOK
  <2>2. Executes'
    BY <1>6 DEF TypeOK, QueueTypeOK, Run, Task, Executes, Executing, Claim, Go
  <2>3. Reads'
    BY <1>6 DEF TypeOK, QueueTypeOK, Reads, Claim
  <2>4. Fresh'
    BY <1>6 DEF TypeOK, QueueTypeOK, Fresh, Claim
  <2>5. CancellationWins'
    BY <1>6 DEF TypeOK, QueueTypeOK, CancellationWins, Claim
  <2>6. AttemptLeft'
    BY <1>6 DEF TypeOK, QueueTypeOK, AttemptLeft, Claim
  <2>7. Committed'
    BY <1>6 DEF TypeOK, QueueTypeOK, Committed, Claim
  <2>8. NoneSkipped'
    BY <1>6 DEF TypeOK, QueueTypeOK, NoneSkipped, Claim
  <2> QED  BY <2>1, <2>2, <2>3, <2>4, <2>5, <2>6, <2>7, <2>8 DEF IInv
<1>7. ASSUME NEW h \in Host, HandlerEnds(h), UNCHANGED <<schedules, scheduler>>
      PROVE  IInv'
  <2>1. TypeOK'
    BY <1>7 DEF TypeOK, QueueTypeOK, ScheduleTypeOK, Label, HandlerEnds, Go
  <2>2. Executes'
    BY <1>7 DEF TypeOK, QueueTypeOK, Executes, Executing, HandlerEnds, Go
  <2>3. Reads'
    BY <1>7 DEF TypeOK, QueueTypeOK, Reads, HandlerEnds
  <2>4. Fresh' /\ CancellationWins' /\ AttemptLeft' /\ Committed' /\ NoneSkipped'
    BY <1>7 DEF Fresh, CancellationWins, AttemptLeft, Committed, NoneSkipped,
       HandlerEnds
  <2> QED  BY <2>1, <2>2, <2>3, <2>4 DEF IInv
<1>8. ASSUME NEW h \in Host, FinalBeat(h), UNCHANGED <<schedules, scheduler>>
      PROVE  IInv'
  <2>1. TypeOK'
    <3>1. state' \in [Run -> {"absent", "queued", "running"} \cup Final]
      BY <1>8 DEF TypeOK, QueueTypeOK, Final, FinalBeat, Renew
    <3>2. attempt' \in [Run -> Nat] /\ \A r \in Run : attempt'[r] <= MaxAttempts[r]
      BY <1>8 DEF TypeOK, QueueTypeOK, FinalBeat
    <3>3. cancel' \subseteq Request /\ ripe' \subseteq Run /\ results' \subseteq Task
      BY <1>8 DEF TypeOK, QueueTypeOK, Final, FinalBeat, Renew
    <3>4. wpc' \in [Host -> Label]
      BY <1>8 DEF TypeOK, QueueTypeOK, Label, FinalBeat, Go, Fault
    <3>5. task' \in [Host -> Task \cup {NoTask}]
      BY <1>8 DEF TypeOK, QueueTypeOK, FinalBeat, Go, Fault
    <3>6. lost' \subseteq Host /\ stopping' \subseteq Host /\ listed' \in [Host -> SUBSET Task]
      BY <1>8 DEF TypeOK, QueueTypeOK, FinalBeat, Go, Fault, Renew
    <3>7. faults' \in 0 .. MaxFaults
      BY <1>8, JobAssumption DEF TypeOK, QueueTypeOK, FinalBeat, Go, Fault
    <3>8. ScheduleTypeOK'
      BY <1>8 DEF TypeOK, ScheduleTypeOK
    <3> QED  BY <3>1, <3>2, <3>3, <3>4, <3>5, <3>6, <3>7, <3>8 DEF TypeOK, QueueTypeOK
  <2>2. Executes'
    BY <1>8 DEF TypeOK, QueueTypeOK, Executes, Executing, FinalBeat, Go
  <2>3. Reads'
    BY <1>8 DEF TypeOK, QueueTypeOK, Reads, FinalBeat
  <2>4. Fresh' /\ CancellationWins' /\ AttemptLeft' /\ Committed' /\ NoneSkipped'
    BY <1>8 DEF Fresh, CancellationWins, AttemptLeft, Committed, NoneSkipped, FinalBeat
  <2> QED  BY <2>1, <2>2, <2>3, <2>4 DEF IInv
<1>9. ASSUME NEW h \in Host, Complete(h), UNCHANGED <<schedules, scheduler>>
      PROVE  IInv'
  <2>1. TypeOK'
    <3>1. state' \in [Run -> {"absent", "queued", "running"} \cup Final]
      BY <1>9, SettleType, UnlessType DEF TypeOK, QueueTypeOK, Final, Complete
    <3>2. attempt' \in [Run -> Nat] /\ \A r \in Run : attempt'[r] <= MaxAttempts[r]
      BY <1>9 DEF TypeOK, QueueTypeOK, Complete
    <3>3. cancel' \subseteq Request /\ ripe' \subseteq Run /\ results' \subseteq Task
      BY <1>9, SettleType, UnlessType DEF TypeOK, QueueTypeOK, Final, Executes,
         Executing, Complete
    <3>4. wpc' \in [Host -> Label]
      BY <1>9 DEF TypeOK, QueueTypeOK, Label, Complete, Go, Fault, Leave
    <3>5. task' \in [Host -> Task \cup {NoTask}]
      BY <1>9 DEF TypeOK, QueueTypeOK, Complete, Go, Fault, Leave
    <3>6. lost' \subseteq Host /\ stopping' \subseteq Host /\ listed' \in [Host -> SUBSET Task]
      BY <1>9 DEF TypeOK, QueueTypeOK, Complete, Go, Fault, Leave
    <3>7. faults' \in 0 .. MaxFaults
      BY <1>9, JobAssumption DEF TypeOK, QueueTypeOK, Complete, Go, Fault, Leave
    <3>8. ScheduleTypeOK'
      BY <1>9 DEF TypeOK, ScheduleTypeOK
    <3> QED  BY <3>1, <3>2, <3>3, <3>4, <3>5, <3>6, <3>7, <3>8 DEF TypeOK, QueueTypeOK
  <2>2. Executes'
    BY <1>9 DEF TypeOK, QueueTypeOK, Executes, Executing, Complete, Go, Leave
  <2>3. Reads'
    BY <1>9 DEF TypeOK, QueueTypeOK, Reads, Run, Complete, Go, Leave, Settle, Unless,
       Holds, Leased
  <2>4. Fresh'
    BY <1>9 DEF TypeOK, QueueTypeOK, Fresh, Complete, Settle, Unless, Holds, Leased
  <2>5. CancellationWins'
    BY <1>9, JobAssumption DEF TypeOK, QueueTypeOK, Fresh, AttemptLeft,
       CancellationWins, Run, Task, Final, Executes, Executing, Complete, Settle,
       Unless, Holds, Leased
  <2>6. AttemptLeft'
    BY <1>9 DEF TypeOK, QueueTypeOK, AttemptLeft, Complete, Settle, Unless, Holds,
       Leased
  <2>7. Committed'
    BY <1>9, JobAssumption DEF TypeOK, QueueTypeOK, Fresh, AttemptLeft,
       CancellationWins, Run, Task, Final, Executes, Executing, Committed, Complete,
       Settle, Unless, Holds, Leased
  <2>8. NoneSkipped'
    BY <1>9, JobAssumption DEF TypeOK, QueueTypeOK, Fresh, AttemptLeft,
       CancellationWins, Run, Task, Final, Executes, Executing, NoneSkipped, Complete,
       Settle, Unless, Holds, Leased
  <2> QED  BY <2>1, <2>2, <2>3, <2>4, <2>5, <2>6, <2>7, <2>8 DEF IInv
<1>10. ASSUME NEW h \in Host, Acknowledge(h), UNCHANGED <<schedules, scheduler>>
      PROVE  IInv'
  <2>1. TypeOK'
    <3>1. state' \in [Run -> {"absent", "queued", "running"} \cup Final]
      BY <1>10, SettleType, UnlessType DEF TypeOK, QueueTypeOK, Final, Acknowledge
    <3>2. attempt' \in [Run -> Nat] /\ \A r \in Run : attempt'[r] <= MaxAttempts[r]
      BY <1>10 DEF TypeOK, QueueTypeOK, Acknowledge
    <3>3. cancel' \subseteq Request /\ ripe' \subseteq Run /\ results' \subseteq Task
      BY <1>10, SettleType, UnlessType DEF TypeOK, QueueTypeOK, Final, Acknowledge
    <3>4. wpc' \in [Host -> Label]
      BY <1>10 DEF TypeOK, QueueTypeOK, Label, Acknowledge, Go, Fault, Leave
    <3>5. task' \in [Host -> Task \cup {NoTask}]
      BY <1>10 DEF TypeOK, QueueTypeOK, Acknowledge, Go, Fault, Leave
    <3>6. lost' \subseteq Host /\ stopping' \subseteq Host /\ listed' \in [Host -> SUBSET Task]
      BY <1>10 DEF TypeOK, QueueTypeOK, Acknowledge, Go, Fault, Leave
    <3>7. faults' \in 0 .. MaxFaults
      BY <1>10, JobAssumption DEF TypeOK, QueueTypeOK, Acknowledge, Go, Fault, Leave
    <3>8. ScheduleTypeOK'
      BY <1>10 DEF TypeOK, ScheduleTypeOK
    <3> QED  BY <3>1, <3>2, <3>3, <3>4, <3>5, <3>6, <3>7, <3>8 DEF TypeOK, QueueTypeOK
  <2>2. Executes'
    BY <1>10 DEF TypeOK, QueueTypeOK, Executes, Executing, Acknowledge, Go, Leave
  <2>3. Reads'
    BY <1>10 DEF TypeOK, QueueTypeOK, Reads, Run, Acknowledge, Go, Leave, Settle,
       Holds, Leased
  <2>4. Fresh'
    BY <1>10 DEF TypeOK, QueueTypeOK, Fresh, Acknowledge, Settle, Holds, Leased
  <2>5. CancellationWins'
    BY <1>10, JobAssumption DEF TypeOK, QueueTypeOK, Fresh, AttemptLeft,
       CancellationWins, Run, Task, Final, Executes, Executing, Acknowledge, Settle,
       Holds, Leased
  <2>6. AttemptLeft'
    BY <1>10 DEF TypeOK, QueueTypeOK, AttemptLeft, Acknowledge, Settle, Holds, Leased
  <2>7. Committed'
    BY <1>10, JobAssumption DEF TypeOK, QueueTypeOK, Fresh, AttemptLeft,
       CancellationWins, Run, Task, Final, Executes, Executing, Committed, Acknowledge,
       Settle, Holds, Leased
  <2>8. NoneSkipped'
    BY <1>10, JobAssumption DEF TypeOK, QueueTypeOK, Fresh, AttemptLeft,
       CancellationWins, Run, Task, Final, Executes, Executing, NoneSkipped,
       Acknowledge, Settle, Holds, Leased
  <2> QED  BY <2>1, <2>2, <2>3, <2>4, <2>5, <2>6, <2>7, <2>8 DEF IInv
<1>11. ASSUME NEW h \in Host, FailRead(h), UNCHANGED <<schedules, scheduler>>
      PROVE  IInv'
  <2>1. TypeOK'
    <3>1. state' \in [Run -> {"absent", "queued", "running"} \cup Final]
      BY <1>11 DEF TypeOK, QueueTypeOK, Final, FailRead
    <3>2. attempt' \in [Run -> Nat] /\ \A r \in Run : attempt'[r] <= MaxAttempts[r]
      BY <1>11 DEF TypeOK, QueueTypeOK, FailRead
    <3>3. cancel' \subseteq Request /\ ripe' \subseteq Run /\ results' \subseteq Task
      BY <1>11 DEF TypeOK, QueueTypeOK, Final, FailRead
    <3>4. wpc' \in [Host -> Label]
      BY <1>11 DEF TypeOK, QueueTypeOK, Label, FailRead, Go, Fault, Leave
    <3>5. task' \in [Host -> Task \cup {NoTask}]
      BY <1>11 DEF TypeOK, QueueTypeOK, FailRead, Go, Fault, Leave
    <3>6. lost' \subseteq Host /\ stopping' \subseteq Host /\ listed' \in [Host -> SUBSET Task]
      BY <1>11 DEF TypeOK, QueueTypeOK, FailRead, Go, Fault, Leave
    <3>7. faults' \in 0 .. MaxFaults
      BY <1>11, JobAssumption DEF TypeOK, QueueTypeOK, FailRead, Go, Fault, Leave
    <3>8. ScheduleTypeOK'
      BY <1>11 DEF TypeOK, ScheduleTypeOK
    <3> QED  BY <3>1, <3>2, <3>3, <3>4, <3>5, <3>6, <3>7, <3>8 DEF TypeOK, QueueTypeOK
  <2>2. Executes'
    BY <1>11 DEF TypeOK, QueueTypeOK, Executes, Executing, FailRead, Go, Leave
  <2>3. Reads'
    BY <1>11 DEF TypeOK, QueueTypeOK, Reads, FailRead
  <2>4. Fresh' /\ CancellationWins' /\ AttemptLeft' /\ Committed' /\ NoneSkipped'
    BY <1>11 DEF Fresh, CancellationWins, AttemptLeft, Committed, NoneSkipped, FailRead
  <2> QED  BY <2>1, <2>2, <2>3, <2>4 DEF IInv
<1>12. ASSUME NEW h \in Host, FailSettle(h), UNCHANGED <<schedules, scheduler>>
      PROVE  IInv'
  <2>1. TypeOK'
    <3>1. state' \in [Run -> {"absent", "queued", "running"} \cup Final]
      BY <1>12, SettleType, UnlessType DEF TypeOK, QueueTypeOK, Final, FailSettle
    <3>2. attempt' \in [Run -> Nat] /\ \A r \in Run : attempt'[r] <= MaxAttempts[r]
      BY <1>12 DEF TypeOK, QueueTypeOK, FailSettle
    <3>3. cancel' \subseteq Request /\ ripe' \subseteq Run /\ results' \subseteq Task
      BY <1>12, SettleType, UnlessType DEF TypeOK, QueueTypeOK, Final, FailSettle
    <3>4. wpc' \in [Host -> Label]
      BY <1>12 DEF TypeOK, QueueTypeOK, Label, FailSettle, Go, Fault, Leave
    <3>5. task' \in [Host -> Task \cup {NoTask}]
      BY <1>12 DEF TypeOK, QueueTypeOK, FailSettle, Go, Fault, Leave
    <3>6. lost' \subseteq Host /\ stopping' \subseteq Host /\ listed' \in [Host -> SUBSET Task]
      BY <1>12 DEF TypeOK, QueueTypeOK, FailSettle, Go, Fault, Leave
    <3>7. faults' \in 0 .. MaxFaults
      BY <1>12, JobAssumption DEF TypeOK, QueueTypeOK, FailSettle, Go, Fault, Leave
    <3>8. ScheduleTypeOK'
      BY <1>12 DEF TypeOK, ScheduleTypeOK
    <3> QED  BY <3>1, <3>2, <3>3, <3>4, <3>5, <3>6, <3>7, <3>8 DEF TypeOK, QueueTypeOK
  <2>2. Executes'
    BY <1>12 DEF TypeOK, QueueTypeOK, Executes, Executing, FailSettle, Go, Leave
  <2>3. Reads'
    BY <1>12 DEF TypeOK, QueueTypeOK, Reads, Run, FailSettle, Go, Leave, Settle,
       Unless, Holds, Leased
  <2>4. Fresh'
    BY <1>12 DEF TypeOK, QueueTypeOK, Fresh, FailSettle, Settle, Unless, Holds, Leased
  <2>5. CancellationWins'
    BY <1>12, JobAssumption DEF TypeOK, QueueTypeOK, Fresh, AttemptLeft,
       CancellationWins, Run, Task, Final, Executes, Executing, FailSettle, Settle,
       Unless, Holds, Leased
  <2>6. AttemptLeft'
    BY <1>12 DEF TypeOK, QueueTypeOK, AttemptLeft, FailSettle, Settle, Unless, Holds,
       Leased
  <2>7. Committed'
    BY <1>12, JobAssumption DEF TypeOK, QueueTypeOK, Fresh, AttemptLeft,
       CancellationWins, Run, Task, Final, Executes, Executing, Committed, FailSettle,
       Settle, Unless, Holds, Leased
  <2>8. NoneSkipped'
    BY <1>12, JobAssumption DEF TypeOK, QueueTypeOK, Fresh, AttemptLeft,
       CancellationWins, Run, Task, Final, Executes, Executing, NoneSkipped,
       FailSettle, Settle, Unless, Holds, Leased
  <2> QED  BY <2>1, <2>2, <2>3, <2>4, <2>5, <2>6, <2>7, <2>8 DEF IInv
<1>13. ASSUME NEW h \in Host, WorkerEnds(h), UNCHANGED <<schedules, scheduler>>
      PROVE  IInv'
  <2>1. TypeOK'
    BY <1>13, JobAssumption DEF TypeOK, QueueTypeOK, ScheduleTypeOK, Run, Task, Label,
       NoTask, WorkerEnds, Go, Fault
  <2>2. Executes'
    BY <1>13 DEF TypeOK, QueueTypeOK, Executes, Executing, WorkerEnds, Go
  <2>3. Reads'
    BY <1>13 DEF TypeOK, QueueTypeOK, Reads, WorkerEnds
  <2>4. Fresh' /\ CancellationWins' /\ AttemptLeft' /\ Committed' /\ NoneSkipped'
    BY <1>13 DEF Fresh, CancellationWins, AttemptLeft, Committed, NoneSkipped,
       WorkerEnds
  <2> QED  BY <2>1, <2>2, <2>3, <2>4 DEF IInv
<1>14. ASSUME NEW h \in Host, Beat(h), UNCHANGED <<schedules, scheduler>>
      PROVE  IInv'
  <2>1. TypeOK'
    BY <1>14, JobAssumption DEF TypeOK, QueueTypeOK, ScheduleTypeOK, Run, Task, Label,
       NoTask, Beat, Fault, Renew, Holds, Leased, MayBeLost
  <2>2. Executes'
    BY <1>14 DEF TypeOK, QueueTypeOK, Executes, Executing, Beat
  <2>3. Reads'
    BY <1>14 DEF TypeOK, QueueTypeOK, Reads, Beat
  <2>4. Fresh' /\ CancellationWins' /\ AttemptLeft' /\ Committed' /\ NoneSkipped'
    BY <1>14 DEF Fresh, CancellationWins, AttemptLeft, Committed, NoneSkipped, Beat
  <2> QED  BY <2>1, <2>2, <2>3, <2>4 DEF IInv
<1> QED
  BY <1>1, <1>2, <1>3, <1>4, <1>5, <1>6, <1>7, <1>8, <1>9, <1>10, <1>11, <1>12, <1>13,
     <1>14
  DEF QueueStep, WorkerStep

-----------------------------------------------------------------------------
(* The steps of the scheduler, the supervisor and the owner. *)

\* A tick that throws leaves the scheduler's variables of their types ...
LEMMA ThrowsType ==
  ASSUME TypeOK, NEW h \in Host, Throws(h)
  PROVE  /\ spc' \in [Host -> SchedulerLabel] /\ todo' \in [Host -> SUBSET Schedule]
         /\ read' \in [Host -> {NoTask} \cup Reading]
BY DEF TypeOK, ScheduleTypeOK, SchedulerLabel, Throws, At

\* ... and forgets the schedule it was at.
LEMMA ThrowsReads ==
  ASSUME TypeOK, Reads, NEW h \in Host, Throws(h),
         \A r \in Run : state[r] # "absent" => state'[r] # "absent"
  PROVE  Reads'
BY DEF TypeOK, ScheduleTypeOK, Reads, Run, Throws, At

\* What happens on a host besides its worker keeps it.
LEMMA SchedulerKeeps ==
  ASSUME IInv, NEW h \in Host, SchedulerStep(h) \/ StartHost(h) \/ Shutdown(h) \/ Kill(h)
  PROVE  IInv'
<1> USE DEF IInv, runs, worker, schedules, scheduler
<1>1. ASSUME Tick(h)
      PROVE  IInv'
  <2>1. TypeOK'
    BY <1>1 DEF TypeOK, QueueTypeOK, ScheduleTypeOK, SchedulerLabel, Tick, At
  <2>2. Executes'
    BY <1>1 DEF TypeOK, QueueTypeOK, Executes, Executing, Tick, At
  <2>3. Reads'
    BY <1>1 DEF TypeOK, ScheduleTypeOK, Reads, Tick, At
  <2>4. Fresh' /\ CancellationWins' /\ AttemptLeft' /\ Committed' /\ NoneSkipped'
    BY <1>1 DEF Fresh, CancellationWins, AttemptLeft, Committed, NoneSkipped, Tick
  <2> QED  BY <2>1, <2>2, <2>3, <2>4 DEF IInv
<1>2. ASSUME ReadSchedule(h)
      PROVE  IInv'
  <2>1. \/ At(h, "tick") /\ UNCHANGED <<todo, read, stopping>>
        \/ \E s \in Schedule :
             /\ read' = [read EXCEPT ![h] = <<s, version[s], condition[s]>>]
             /\ At(h, "define") /\ UNCHANGED <<todo, stopping>>
        \/ Throws(h)
    BY <1>2 DEF ReadSchedule
  <2>2. \A s \in Schedule : /\ version[s] \in 1 .. MaxEdits + 1
                            /\ <<s, version[s], condition[s]>> \in Reading
    BY ScheduleAssumption DEF TypeOK, ScheduleTypeOK, Reading
  <2>3. UNCHANGED <<runs, worker, faults, schedules>>
    BY <1>2 DEF ReadSchedule
  <2>4. QueueTypeOK'
    BY <2>1, <2>3 DEF TypeOK, QueueTypeOK, Throws
  <2>5. ScheduleTypeOK'
    BY <2>1, <2>2, <2>3, ThrowsType DEF TypeOK, ScheduleTypeOK, SchedulerLabel, At
  <2>6. Executes'
    BY <2>3 DEF Executes
  <2>7. Reads'
    <3>1. CASE At(h, "tick") /\ UNCHANGED <<todo, read, stopping>>
      BY <2>3, <3>1 DEF TypeOK, ScheduleTypeOK, Reads, At
    <3>2. ASSUME NEW s \in Schedule, At(h, "define"),
                 read' = [read EXCEPT ![h] = <<s, version[s], condition[s]>>]
          PROVE  Reads'
      BY <2>2, <2>3, <3>2 DEF TypeOK, ScheduleTypeOK, Reads, At
    <3>3. CASE Throws(h)
      BY <2>3, <3>3, ThrowsReads
    <3> QED  BY <2>1, <3>1, <3>2, <3>3
  <2>8. Fresh' /\ CancellationWins' /\ AttemptLeft' /\ Committed' /\ NoneSkipped'
    BY <2>3 DEF Fresh, CancellationWins, AttemptLeft, Committed, NoneSkipped
  <2> QED  BY <2>4, <2>5, <2>6, <2>7, <2>8 DEF IInv, TypeOK
<1>3. ASSUME ReadDefinition(h)
      PROVE  IInv'
  <2>1. UNCHANGED <<runs, worker, faults, schedules>>
    BY <1>3 DEF ReadDefinition
  <2>2. \/ At(h, "enqueue") /\ UNCHANGED <<todo, read, stopping>>
        \/ Throws(h)
    BY <1>3 DEF ReadDefinition
  <2>3. QueueTypeOK'
    BY <2>1, <2>2 DEF TypeOK, QueueTypeOK, Throws
  <2>4. ScheduleTypeOK'
    BY <2>1, <2>2, ThrowsType DEF TypeOK, ScheduleTypeOK, SchedulerLabel, At
  <2>5. Executes'
    BY <2>1 DEF Executes
  <2>6. Reads'
    <3>1. CASE At(h, "enqueue") /\ UNCHANGED <<todo, read, stopping>>
      BY <1>3, <2>1, <3>1 DEF TypeOK, ScheduleTypeOK, Reads, ReadDefinition, At
    <3> QED  BY <2>1, <2>2, <3>1, ThrowsReads
  <2>7. Fresh' /\ CancellationWins' /\ AttemptLeft' /\ Committed' /\ NoneSkipped'
    BY <2>1 DEF Fresh, CancellationWins, AttemptLeft, Committed, NoneSkipped
  <2> QED  BY <2>3, <2>4, <2>5, <2>6, <2>7 DEF IInv, TypeOK
<1>4. ASSUME EnqueueDue(h)
      PROVE  IInv'
  <2> DEFINE s == read[h][1]
  <2>1. /\ s \in Schedule /\ s \in Run /\ read[h][2] \in 1 .. MaxEdits + 1
        /\ spc[h] = "enqueue"
    BY <1>4 DEF Reads, EnqueueDue, Run
  <2>2. UNCHANGED <<attempt, cancel, ripe, results, worker, role, due, version, condition, edits>>
    BY <1>4 DEF EnqueueDue
  <2>3. \/ /\ state[s] = "absent" /\ state' = [state EXCEPT ![s] = "queued"]
           /\ payload' = [payload EXCEPT ![s] = read[h][2]]
        \/ UNCHANGED <<state, payload>>
    BY <1>4 DEF EnqueueDue
  <2>4. \/ /\ At(h, "advance") /\ UNCHANGED <<todo, read, stopping, faults>>
           /\ state'[s] # "absent"
        \/ Throws(h) /\ (Fault \/ UNCHANGED faults)
    BY <1>4, <2>1 DEF TypeOK, QueueTypeOK, EnqueueDue
  <2> HIDE DEF s
  <2>5. QueueTypeOK'
    <3>1. state' \in [Run -> {"absent", "queued", "running"} \cup Final]
      BY <2>1, <2>3 DEF TypeOK, QueueTypeOK
    <3>2. stopping' \subseteq Host /\ faults' \in 0 .. MaxFaults
      BY <2>4, JobAssumption DEF TypeOK, QueueTypeOK, Throws, Fault
    <3> QED  BY <2>2, <3>1, <3>2 DEF TypeOK, QueueTypeOK
  <2>6. ScheduleTypeOK'
    <3>1. payload' \in [Schedule -> 0 .. MaxEdits + 1]
      BY <2>1, <2>3, ScheduleAssumption DEF TypeOK, ScheduleTypeOK
    <3> QED
      BY <2>2, <2>4, <3>1, ThrowsType DEF TypeOK, ScheduleTypeOK, SchedulerLabel, At
  <2>7. Executes'
    BY <2>2 DEF Executes
  <2>8. Reads'
    <3>1. \A r \in Run : state[r] # "absent" => state'[r] # "absent"
      BY <2>1, <2>3 DEF TypeOK, QueueTypeOK
    <3>2. CASE Throws(h)
      BY <3>1, <3>2, ThrowsReads
    <3>3. CASE At(h, "advance") /\ UNCHANGED read /\ state'[s] # "absent"
      BY <2>1, <3>1, <3>3 DEF TypeOK, ScheduleTypeOK, Reads, Run, At, s
    <3> QED  BY <2>4, <3>2, <3>3
  <2>9. Fresh' /\ CancellationWins'
    <3>1. Fresh'
      BY <2>1, <2>2, <2>3 DEF TypeOK, QueueTypeOK, Fresh
    <3>2. CancellationWins'
      BY <2>1, <2>2, <2>3, JobAssumption DEF TypeOK, QueueTypeOK, Run, CancellationWins
    <3> QED  BY <3>1, <3>2
  <2>10. AttemptLeft'
    BY <2>1, <2>2, <2>3, JobAssumption DEF TypeOK, QueueTypeOK, Fresh, AttemptLeft
  <2>11. Committed'
    BY <2>1, <2>2, <2>3 DEF TypeOK, QueueTypeOK, Task, Committed
  <2>12. NoneSkipped'
    BY <2>1, <2>2, <2>3 DEF TypeOK, QueueTypeOK, Run, NoneSkipped
  <2> QED  BY <2>5, <2>6, <2>7, <2>8, <2>9, <2>10, <2>11, <2>12 DEF IInv, TypeOK
<1>5. ASSUME Advance(h)
      PROVE  IInv'
  <2>1. /\ UNCHANGED <<runs, worker, faults, role, version, condition, edits, payload>>
        /\ spc[h] = "advance"
    BY <1>5 DEF Advance
  <2>2. \/ /\ due' \in {due, due \ {read[h][1]}} /\ UNCHANGED stopping
           /\ todo' = [todo EXCEPT ![h] = @ \ {read[h][1]}]
           /\ read' = [read EXCEPT ![h] = NoTask] /\ At(h, "read")
        \/ Throws(h) /\ UNCHANGED due
    BY <1>5 DEF Advance
  <2>3. QueueTypeOK'
    BY <2>1, <2>2 DEF TypeOK, QueueTypeOK, Throws
  <2>4. ScheduleTypeOK'
    BY <2>1, <2>2, ThrowsType DEF TypeOK, ScheduleTypeOK, SchedulerLabel, At
  <2>5. Executes'
    BY <2>1 DEF Executes
  <2>6. Reads'
    <3>1. CASE At(h, "read") /\ read' = [read EXCEPT ![h] = NoTask]
      BY <2>1, <3>1 DEF TypeOK, ScheduleTypeOK, Reads, At
    <3> QED  BY <2>1, <2>2, <3>1, ThrowsReads
  <2>7. Fresh' /\ CancellationWins' /\ AttemptLeft' /\ Committed'
    BY <2>1 DEF Fresh, CancellationWins, AttemptLeft, Committed
  <2>8. NoneSkipped'
    BY <2>1, <2>2 DEF Reads, NoneSkipped
  <2> QED  BY <2>3, <2>4, <2>5, <2>6, <2>7, <2>8 DEF IInv, TypeOK
<1>6. ASSUME SchedulerEnds(h)
      PROVE  IInv'
  <2>1. UNCHANGED <<runs, worker, schedules>>
    BY <1>6 DEF SchedulerEnds
  <2>2. \/ At(h, "off") /\ UNCHANGED <<stopping, faults, todo, read>>
        \/ Throws(h) /\ Fault
    BY <1>6 DEF SchedulerEnds
  <2>3. QueueTypeOK'
    BY <2>1, <2>2, JobAssumption DEF TypeOK, QueueTypeOK, Throws, Fault
  <2>4. ScheduleTypeOK'
    BY <2>1, <2>2, ThrowsType DEF TypeOK, ScheduleTypeOK, SchedulerLabel, At
  <2>5. Executes'
    BY <2>1 DEF Executes
  <2>6. Reads'
    <3>1. CASE At(h, "off") /\ UNCHANGED read
      BY <2>1, <3>1 DEF TypeOK, ScheduleTypeOK, Reads, At
    <3> QED  BY <2>1, <2>2, <3>1, ThrowsReads
  <2>7. Fresh' /\ CancellationWins' /\ AttemptLeft' /\ Committed' /\ NoneSkipped'
    BY <2>1 DEF Fresh, CancellationWins, AttemptLeft, Committed, NoneSkipped
  <2> QED  BY <2>3, <2>4, <2>5, <2>6, <2>7 DEF IInv, TypeOK
<1>7. ASSUME StartHost(h)
      PROVE  IInv'
  <2>1. TypeOK'
    <3>1. QueueTypeOK'
      BY <1>7 DEF TypeOK, QueueTypeOK, Label, StartHost, Go
    <3>2. ScheduleTypeOK'
      BY <1>7 DEF TypeOK, ScheduleTypeOK, SchedulerLabel, Condition, StartHost, At
    <3> QED  BY <3>1, <3>2 DEF TypeOK
  <2>2. Executes'
    BY <1>7 DEF TypeOK, QueueTypeOK, Executes, Executing, StartHost, At, Go
  <2>3. Reads'
    BY <1>7 DEF TypeOK, QueueTypeOK, Reads, StartHost, At, Go
  <2>4. Fresh' /\ CancellationWins' /\ AttemptLeft' /\ Committed' /\ NoneSkipped'
    BY <1>7 DEF Fresh, CancellationWins, AttemptLeft, Committed, NoneSkipped, StartHost
  <2> QED  BY <2>1, <2>2, <2>3, <2>4 DEF IInv
<1>8. ASSUME Shutdown(h)
      PROVE  IInv'
  <2>1. TypeOK'
    BY <1>8, JobAssumption DEF TypeOK, QueueTypeOK, ScheduleTypeOK, Run, Task, Label,
       NoTask, Shutdown, Fault
  <2>2. Executes'
    BY <1>8 DEF TypeOK, QueueTypeOK, Executes, Executing, Shutdown
  <2>3. Reads'
    BY <1>8 DEF TypeOK, QueueTypeOK, Reads, Shutdown
  <2>4. Fresh' /\ CancellationWins' /\ AttemptLeft' /\ Committed' /\ NoneSkipped'
    BY <1>8 DEF Fresh, CancellationWins, AttemptLeft, Committed, NoneSkipped, Shutdown
  <2> QED  BY <2>1, <2>2, <2>3, <2>4 DEF IInv
<1>9. ASSUME Kill(h)
      PROVE  IInv'
  <2>1. TypeOK'
    <3>1. QueueTypeOK'
      BY <1>9, JobAssumption DEF TypeOK, QueueTypeOK, Label, Kill, Throws, Fault
    <3>2. ScheduleTypeOK'
      BY <1>9, ThrowsType DEF TypeOK, ScheduleTypeOK, Kill
    <3> QED  BY <3>1, <3>2 DEF TypeOK
  <2>2. Executes'
    BY <1>9 DEF TypeOK, QueueTypeOK, Executes, Executing, Kill, At, Throws
  <2>3. Reads'
    BY <1>9, ThrowsReads DEF Kill
  <2>4. Fresh' /\ CancellationWins' /\ AttemptLeft' /\ Committed' /\ NoneSkipped'
    BY <1>9 DEF Fresh, CancellationWins, AttemptLeft, Committed, NoneSkipped, Kill
  <2> QED  BY <2>1, <2>2, <2>3, <2>4 DEF IInv
<1> QED
  BY <1>1, <1>2, <1>3, <1>4, <1>5, <1>6, <1>7, <1>8, <1>9 DEF SchedulerStep

\* So does the owner of a schedule.
LEMMA EditKeeps ==
  ASSUME IInv, NEW s \in Schedule, Edit(s)
  PROVE  IInv'
<1> USE DEF IInv, runs, worker, schedules, scheduler
<1>1. TypeOK'
  <2>1. QueueTypeOK'
    BY DEF TypeOK, QueueTypeOK, Edit
  <2>2. edits' \in [Schedule -> 0 .. MaxEdits] /\ version' \in [Schedule -> Nat]
    BY ScheduleAssumption DEF TypeOK, ScheduleTypeOK, Edit
  <2>3. \A t \in Schedule : version'[t] \in 1 .. edits'[t] + 1
    BY ScheduleAssumption DEF TypeOK, ScheduleTypeOK, Edit
  <2>4. condition' \in [Schedule -> Condition]
    BY DEF TypeOK, ScheduleTypeOK, Edit
  <2> QED  BY <2>1, <2>2, <2>3, <2>4 DEF TypeOK, ScheduleTypeOK, Edit
<1>2. Executes'
  BY DEF TypeOK, QueueTypeOK, Executes, Executing, Edit
<1>3. Reads'
  BY DEF TypeOK, QueueTypeOK, Reads, Edit
<1>4. Fresh' /\ CancellationWins' /\ AttemptLeft' /\ Committed' /\ NoneSkipped'
  BY DEF Fresh, CancellationWins, AttemptLeft, Committed, NoneSkipped, Edit
<1> QED  BY <1>1, <1>2, <1>3, <1>4 DEF IInv

-----------------------------------------------------------------------------
(* The invariant. *)

\* An empty table satisfies the invariant.
LEMMA InitHolds == Init => IInv
BY JobAssumption, ScheduleAssumption
   DEF Init, QueueInit, IInv, TypeOK, QueueTypeOK, ScheduleTypeOK, SchedulerLabel,
       Condition, Run, Task, NoTask, Label, Final,
       Executes, Executing, Fresh, Reads, CancellationWins, AttemptLeft, Committed,
       NoneSkipped

\* Every step keeps it: the lemmas above, put together.
LEMMA StepKeeps == IInv /\ [Next]_vars => IInv'
<1> SUFFICES ASSUME IInv, [Next]_vars PROVE IInv'
  OBVIOUS
<1>1. CASE QueueStep /\ UNCHANGED <<schedules, scheduler>>
  BY <1>1, QueueKeeps
<1>2. CASE \E h \in Host : SchedulerStep(h) \/ StartHost(h) \/ Shutdown(h) \/ Kill(h)
  BY <1>2, SchedulerKeeps
<1>3. CASE \E s \in Schedule : Edit(s)
  BY <1>3, EditKeeps
<1>4. CASE UNCHANGED vars
  BY <1>4 DEF vars, runs, worker, schedules, scheduler, IInv, TypeOK, QueueTypeOK,
     ScheduleTypeOK, Executes, Fresh, Reads, CancellationWins, AttemptLeft, Committed,
     NoneSkipped
<1> QED  BY <1>1, <1>2, <1>3, <1>4 DEF Next

\* So it holds in every behaviour.
LEMMA Safe == Spec => []IInv
BY InitHolds, StepKeeps, PTL DEF Spec

-----------------------------------------------------------------------------
(* What follows from it. *)

\* Every variable stays of its type: no run is claimed more often than its
\* max_attempts, and a worker's task is a run and an attempt of that run.
THEOREM TypeCorrect == Spec => []TypeOK
BY Safe, PTL DEF IInv

\* requestCancellation: once it was accepted no statement of a worker, of
\* recovery or of the queue brings the run back or lets it end otherwise.
THEOREM CancellationIsFinal == Spec => []CancellationWins
BY Safe, PTL DEF IInv

\* claimNextRun never claims a run beyond its max_attempts, because the
\* statements that queue a run again leave it an attempt.
THEOREM QueuedHasAttempt == Spec => []AttemptLeft
BY Safe, PTL DEF IInv

\* completeRunWithResult: of all executions of a run, by workers that believe
\* they still lease it, the last one alone may commit a result.
THEOREM AtMostOneResult == Spec => []OneResult
<1>1. ASSUME IInv PROVE OneResult
  <2> SUFFICES ASSUME NEW r \in Run
               PROVE  LET mine == {e \in results : e[1] = r} IN
                      /\ state[r] = "succeeded" => mine = {<<r, attempt[r]>>}
                      /\ mine # {} => state[r] \in {"succeeded", "cancelled"}
    BY DEF OneResult
  <2>1. \A e \in results : e[1] = r => /\ e = <<r, attempt[r]>>
                                       /\ state[r] \in {"succeeded", "cancelled"}
    BY <1>1 DEF IInv, TypeOK, QueueTypeOK, Task, Committed
  <2>2. state[r] = "succeeded" => <<r, attempt[r]>> \in results
    BY <1>1 DEF IInv, Committed
  <2> QED  BY <2>1, <2>2
<1> QED  BY <1>1, Safe, PTL

\* materializeSchedule: a schedule advances only past an instant whose run is
\* in the queue, wherever the scheduler was killed.
THEOREM NoInstantSkipped == Spec => []NoneSkipped
BY Safe, PTL DEF IInv

\* No step of anybody changes the state of a run that has ended.
THEOREM EndedStaysEnded == Spec => FinalStays
<1> DEFINE Stays == \A r \in Run : state[r] \in Final => state'[r] = state[r]
<1>1. ASSUME IInv, [Next]_vars PROVE Stays
  <2> USE DEF Final
  <2> state \in [Run -> {"absent", "queued", "running"} \cup Final]
    BY <1>1 DEF IInv, TypeOK, QueueTypeOK
  <2>1. CASE state' = state
    BY <2>1
  <2>2. ASSUME NEW r, NEW s, Settle(r, s), state[r] = "running" PROVE Stays
    BY <2>2 DEF Settle
  <2>3. ASSUME NEW r \in Run, Enqueue(r) \/ Cancel(r) PROVE Stays
    BY <2>3 DEF Enqueue, Cancel
  <2>4. ASSUME NEW r \in Run, Ripen(r) PROVE Stays
    BY <2>1, <2>4 DEF Ripen
  <2>5. ASSUME NEW h \in Host, Claim(h) PROVE Stays
    BY <2>5 DEF Claim
  <2>6. ASSUME NEW h \in Host, Recover(h) PROVE Stays
    BY <2>1, <2>2, <2>6 DEF Recover, Leased
  <2>7. ASSUME NEW h \in Host, Complete(h) \/ Acknowledge(h) \/ FailSettle(h)
        PROVE  Stays
    BY <2>1, <2>2, <2>7 DEF Complete, Acknowledge, FailSettle, Holds, Leased
  <2>8. ASSUME NEW h \in Host,
               \/ List(h) \/ HandlerEnds(h) \/ FinalBeat(h) \/ FailRead(h)
               \/ WorkerEnds(h) \/ Beat(h)
        PROVE  Stays
    BY <2>1, <2>8 DEF List, HandlerEnds, FinalBeat, FailRead, WorkerEnds, Beat, runs
  <2>9. ASSUME NEW h \in Host, EnqueueDue(h) PROVE Stays
    <3>1. PICK s : \/ state[s] = "absent" /\ state' = [state EXCEPT ![s] = "queued"]
                   \/ state' = state
      BY <2>9 DEF EnqueueDue
    <3> QED  BY <3>1
  <2>10. ASSUME NEW h \in Host,
                \/ Tick(h) \/ ReadSchedule(h) \/ ReadDefinition(h) \/ Advance(h)
                \/ SchedulerEnds(h)
                \/ StartHost(h) \/ Shutdown(h) \/ Kill(h)
         PROVE  Stays
    BY <2>1, <2>10 DEF Tick, ReadSchedule, ReadDefinition, Advance, SchedulerEnds,
       StartHost, Shutdown, Kill, runs
  <2>11. ASSUME NEW s \in Schedule, Edit(s) PROVE Stays
    BY <2>1, <2>11 DEF Edit, runs
  <2>12. CASE UNCHANGED vars
    BY <2>1, <2>12 DEF vars, runs
  <2> HIDE DEF Stays
  <2> QED
    BY <1>1, <2>3, <2>4, <2>5, <2>6, <2>7, <2>8, <2>9, <2>10, <2>11, <2>12
       DEF Next, QueueStep, WorkerStep, SchedulerStep
<1> QED  BY <1>1, Safe, PTL DEF Spec, FinalStays
=============================================================================
