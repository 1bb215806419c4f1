---------------------------- MODULE JobScheduler ----------------------------
(***************************************************************************)
(* The scheduler (templates/adapters/jobs/scheduler.ts, schedules.tick of  *)
(* the service) and the supervisor (templates/adapters/jobs/scripts.ts)    *)
(* around the worker of JobQueue.  A host runs both (jobs:start), or only  *)
(* one of them (jobs:worker, jobs:scheduler), or neither.                  *)
(*                                                                         *)
(* A schedule is due once: advancing it makes it not due.  The payload of  *)
(* a schedule is a version number that its owner may edit.  Schedules are  *)
(* numbered in the order of their due instants.  The owner may also break  *)
(* a schedule, mend it, switch it off or delete it.                        *)
(***************************************************************************)
EXTENDS JobQueue

CONSTANTS
  MaxEdits      \* bound: edits of each schedule, or of its definition

ASSUME ScheduleAssumption ==
  Schedule \subseteq Nat /\ MaxEdits \in Nat

\* What materializeSchedule makes of a schedule: it is sound; it was switched
\* off, or deleted; its definition is disabled, although the registry of
\* handlers has it enabled, or is retired, for good; its attempts are unfit, out
\* of range; it is stuck, because no next instant can be calculated or the
\* calculated one is not later.
Condition == {"sound", "off", "gone", "paused", "retired", "unfit", "stuck"}

VARIABLES
  role,         \* what each host is set up to run
  due,          \* the schedules whose nextRunAt has come and was not advanced
  version,      \* the version of each schedule's payload
  condition,    \* the condition of each schedule
  edits,        \* how often each schedule was edited
  payload,      \* the version a scheduled run was enqueued with, 0 before
  spc,          \* where each scheduler is
  todo,         \* the due schedules a tick has listed and not yet dealt with
  read          \* the schedule the tick is at, the version and condition it read

schedules == <<role, due, version, condition, edits, payload>>
scheduler == <<spc, todo, read>>
vars == <<runs, worker, stopping, faults, schedules, scheduler>>

Working == {h \in Host : "worker" \in role[h]}
Scheduling == {h \in Host : "scheduler" \in role[h]}

SchedulerLabel == {"off", "tick", "read", "define", "enqueue", "advance"}
Reading == Schedule \X (1 .. MaxEdits + 1) \X Condition

ScheduleTypeOK ==
  /\ role \in [Host -> SUBSET {"worker", "scheduler"}]
  /\ due \subseteq Schedule
  /\ version \in [Schedule -> Nat] /\ condition \in [Schedule -> Condition]
  /\ edits \in [Schedule -> 0 .. MaxEdits]
  /\ \A s \in Schedule : version[s] \in 1 .. edits[s] + 1
  /\ payload \in [Schedule -> 0 .. MaxEdits + 1]
  /\ spc \in [Host -> SchedulerLabel]
  /\ todo \in [Host -> SUBSET Schedule]
  /\ read \in [Host -> {NoTask} \cup Reading]

TypeOK == QueueTypeOK /\ ScheduleTypeOK

Init ==
  /\ QueueInit
  /\ role \in [Host -> SUBSET {"worker", "scheduler"}]
  /\ Working # {} /\ Scheduling # {}
  /\ due = Schedule
  /\ version = [s \in Schedule |-> 1] /\ payload = [s \in Schedule |-> 0]
  /\ condition = [s \in Schedule |-> "sound"] /\ edits = [s \in Schedule |-> 0]
  /\ spc = [h \in Host |-> "off"]
  /\ todo = [h \in Host |-> {}] /\ read = [h \in Host |-> NoTask]

-----------------------------------------------------------------------------
At(h, label) == spc' = [spc EXCEPT ![h] = label]

\* The next schedule of a tick is the one with the earliest instant.
First(s, S) == s \in S /\ \A t \in S : s <= t

\* Some statement or check of a tick fails: the scheduler throws, its process
\* ends, and the supervisor ends the host.
Throws(h) ==
  /\ At(h, "off") /\ stopping' = stopping \cup {h}
  /\ todo' = [todo EXCEPT ![h] = {}] /\ read' = [read EXCEPT ![h] = NoTask]

\* listDueSchedules: it looks at the schedule and not at its definition.
Tick(h) ==
  /\ spc[h] = "tick" /\ h \notin stopping
  /\ todo' = [todo EXCEPT ![h] = {s \in due : condition[s] \notin {"off", "gone"}}]
  /\ At(h, "read")
  /\ UNCHANGED <<runs, worker, stopping, faults, schedules, read>>

\* Mutant: the schedule is advanced as soon as it was read.
ReadAndAdvance(h) ==
  /\ spc[h] = "read"
  /\ IF todo[h] = {}
     THEN At(h, "tick") /\ UNCHANGED <<read, due>>
     ELSE \E s \in Schedule :
            /\ First(s, todo[h]) /\ At(h, "define")
            /\ read' = [read EXCEPT ![h] = <<s, version[s], condition[s]>>]
            /\ due' = due \ {s}
  /\ UNCHANGED <<runs, worker, stopping, faults, role, version, condition, edits, payload, todo>>

\* materializeSchedule reads the schedule again, which may be disabled by now ...
ReadSchedule(h) ==
  /\ spc[h] = "read"
  /\ \/ /\ todo[h] = {}
        /\ At(h, "tick") /\ UNCHANGED <<todo, read, stopping>>
     \/ \E s \in Schedule :
          /\ First(s, todo[h]) /\ condition[s] \notin {"off", "gone"}
          /\ read' = [read EXCEPT ![h] = <<s, version[s], condition[s]>>]
          /\ At(h, "define") /\ UNCHANGED <<todo, stopping>>
     \/ \E s \in Schedule :
          /\ First(s, todo[h]) /\ condition[s] \in {"off", "gone"}
          /\ Throws(h)
  /\ UNCHANGED <<runs, worker, faults, schedules>>

\* ... requires an enabled definition and attempts in range ...
ReadDefinition(h) ==
  /\ spc[h] = "define"
  /\ LET s == read[h][1] IN
     \/ /\ condition[s] \notin {"paused", "retired"} /\ read[h][3] # "unfit"
        /\ At(h, "enqueue") /\ UNCHANGED <<todo, read, stopping>>
     \/ /\ condition[s] \in {"paused", "retired"} \/ read[h][3] = "unfit"
        /\ Throws(h)
  /\ UNCHANGED <<runs, worker, faults, schedules>>

\* Mutant: a schedule whose run was there already is not advanced.
EnqueueOnce(h) ==
  /\ spc[h] = "enqueue"
  /\ LET s == read[h][1]  v == read[h][2] IN
     \/ /\ state[s] = "absent" /\ condition[s] # "gone"
        /\ state' = [state EXCEPT ![s] = "queued"]
        /\ payload' = [payload EXCEPT ![s] = v]
        /\ \/ At(h, "advance") /\ UNCHANGED <<todo, read, stopping, faults>>
           \/ Fault /\ Throws(h)
     \/ /\ state[s] # "absent" /\ condition[s] # "gone" /\ payload[s] = v
        /\ At(h, "read") /\ todo' = [todo EXCEPT ![h] = @ \ {s}]
        /\ read' = [read EXCEPT ![h] = NoTask]
        /\ UNCHANGED <<state, payload, stopping, faults>>
     \/ /\ condition[s] = "gone" \/ (state[s] # "absent" /\ payload[s] # v)
        /\ Throws(h) /\ UNCHANGED <<state, payload, faults>>
  /\ UNCHANGED <<attempt, cancel, ripe, results, worker, role, due, version, condition, edits>>

\* ... enqueues its run for the listed instant, once per idempotency key: a
\* replay must be the same request, and a run needs its schedule ...
EnqueueDue(h) ==
  /\ spc[h] = "enqueue"
  /\ LET s == read[h][1]  v == read[h][2] IN
     \/ /\ state[s] = "absent" /\ condition[s] # "gone"
        /\ state' = [state EXCEPT ![s] = "queued"]
        /\ payload' = [payload EXCEPT ![s] = v]
        /\ \/ At(h, "advance") /\ UNCHANGED <<todo, read, stopping, faults>>
           \/ Fault /\ Throws(h)
     \/ /\ state[s] # "absent" /\ condition[s] # "gone" /\ payload[s] = v
        /\ At(h, "advance") /\ UNCHANGED <<state, payload, todo, read, stopping, faults>>
     \/ /\ condition[s] = "gone" \/ (state[s] # "absent" /\ payload[s] # v)
        /\ Throws(h) /\ UNCHANGED <<state, payload, faults>>
  /\ UNCHANGED <<attempt, cancel, ripe, results, worker, role, due, version, condition, edits>>

\* ... and calculates the next instant and advances the schedule to it, if it is
\* still enabled and at the listed instant.
Advance(h) ==
  /\ spc[h] = "advance"
  /\ LET s == read[h][1] IN
     \/ /\ read[h][3] # "stuck"
        /\ due' = IF condition[s] \in {"off", "gone"} THEN due ELSE due \ {s}
        /\ todo' = [todo EXCEPT ![h] = @ \ {s}]
        /\ read' = [read EXCEPT ![h] = NoTask]
        /\ At(h, "read") /\ UNCHANGED stopping
     \/ /\ read[h][3] = "stuck"
        /\ Throws(h) /\ UNCHANGED due
  /\ UNCHANGED <<runs, worker, faults, role, version, condition, edits, payload>>

SchedulerEnds(h) ==
  \/ /\ spc[h] = "tick" /\ h \in stopping
     /\ At(h, "off")
     /\ UNCHANGED <<runs, worker, stopping, faults, schedules, todo, read>>
  \/ /\ spc[h] # "off" /\ Fault
     /\ Throws(h)
     /\ UNCHANGED <<runs, worker, schedules>>

SchedulerStep(h) ==
  \/ Tick(h) \/ ReadSchedule(h) \/ ReadDefinition(h) \/ EnqueueDue(h) \/ Advance(h)
  \/ SchedulerEnds(h)

-----------------------------------------------------------------------------
\* The owner of the application edits the payload of a schedule, or whatever
\* decides its condition; what it says once its instant is over does not concern
\* this instant.  A schedule that was deleted stays so.
Edit(s) ==
  /\ s \in due /\ edits[s] < MaxEdits /\ condition[s] # "gone"
  /\ edits' = [edits EXCEPT ![s] = @ + 1]
  /\ \/ version' = [version EXCEPT ![s] = @ + 1] /\ UNCHANGED condition
     \/ /\ \E c \in Condition \ {condition[s]} : condition' = [condition EXCEPT ![s] = c]
        /\ UNCHANGED version
  /\ UNCHANGED <<runs, worker, stopping, faults, role, due, payload, scheduler>>

\* The processes of a host are started, also after they ended.  Each writes the
\* registry's definitions first (ensureDefinitions), which enables them again.
StartHost(h) ==
  /\ role[h] # {} /\ wpc[h] = "off" /\ spc[h] = "off"
  /\ Go(h, IF h \in Working THEN "list" ELSE "off")
  /\ At(h, IF h \in Scheduling THEN "tick" ELSE "off")
  /\ stopping' = stopping \ {h}
  /\ condition' =
       [s \in Schedule |-> IF condition[s] = "paused" THEN "sound" ELSE condition[s]]
  /\ UNCHANGED <<runs, task, lost, listed, faults, role, due, version, edits, payload, todo, read>>

\* A deployment asks a host to end.
Shutdown(h) ==
  /\ h \notin stopping /\ (wpc[h] # "off" \/ spc[h] # "off") /\ Fault
  /\ stopping' = stopping \cup {h}
  /\ UNCHANGED <<runs, worker, schedules, scheduler>>

\* A host dies, or the supervisor kills what did not end in time.
Kill(h) ==
  /\ wpc[h] # "off" \/ spc[h] # "off"
  /\ Fault
  /\ wpc' = [wpc EXCEPT ![h] = "off"] /\ task' = [task EXCEPT ![h] = NoTask]
  /\ lost' = lost \ {h} /\ listed' = [listed EXCEPT ![h] = {}]
  /\ Throws(h)
  /\ UNCHANGED <<runs, schedules>>

Next ==
  \/ QueueStep /\ UNCHANGED <<schedules, scheduler>>
  \/ \E h \in Host : SchedulerStep(h) \/ StartHost(h) \/ Shutdown(h) \/ Kill(h)
  \/ \E s \in Schedule : Edit(s)

\* Workers, schedulers and supervisors run, handlers end, leases expire.
Fairness ==
  /\ \A h \in Host :
       /\ WF_vars(WorkerStep(h) /\ UNCHANGED <<schedules, scheduler>>)
       /\ WF_vars(SchedulerStep(h)) /\ WF_vars(StartHost(h))
  /\ \A r \in Run : WF_vars(Ripen(r) /\ UNCHANGED <<schedules, scheduler>>)

Spec == Init /\ [][Next]_vars /\ Fairness

-----------------------------------------------------------------------------
(* Correctness. *)

\* A cancellation that was accepted wins: the run is never queued again and
\* ends neither succeeded nor failed, whichever of completion, retry, recovery
\* and a slow answer to a failing handler comes after it.
CancellationWins == \A r \in cancel : state[r] \in {"running", "cancelled"}

\* A run in the queue has an attempt left, although claimNextRun does not
\* compare attempt and max_attempts.
AttemptLeft == \A r \in Run : state[r] = "queued" => attempt[r] < MaxAttempts[r]

\* At most one execution of a run commits a result, and exactly the last one:
\* no worker that was taken for dead overwrites what its successor did.
OneResult ==
  \A r \in Run :
    LET mine == {e \in results : e[1] = r} IN
    /\ state[r] = "succeeded" => mine = {<<r, attempt[r]>>}
    /\ mine # {} => state[r] \in {"succeeded", "cancelled"}

\* No due instant is skipped: a schedule advances only past an enqueued run.
NoneSkipped == \A s \in Schedule \ due : state[s] # "absent"

\* A run that ended stays as it ended.
FinalStays == [][\A r \in Run : state[r] \in Final => state'[r] = state[r]]_vars

\* A due schedule at which every tick throws, as long as its owner leaves it so:
\* it is refused or stuck, or its run was enqueued and its payload edited before
\* it advanced, so that every replay is a conflict.  Each throw ends the host.
Blocked(s) ==
  /\ s \in due /\ condition[s] \notin {"off", "gone"}
  /\ condition[s] \in {"retired", "unfit", "stuck"} \/ payload[s] \notin {0, version[s]}

\* Every host that works also schedules, as jobs:start does, and a blocked
\* schedule ends each of them at every tick.
Overrun == Working \subseteq Scheduling /\ \E s \in Schedule : Blocked(s)

\* Again and again every run that was queued has ended, even while a schedule
\* keeps taking down the hosts that schedule, as long as one only works; and
\* every due schedule that is enabled was materialized and advanced, but for
\* those at or behind a blocked one: a tick deals with them in order and stops
\* at the first that throws.
AllWorkEnds ==
  []<>(/\ Overrun \/ \A r \in Run : state[r] \notin {"queued", "running"}
       /\ \A s \in due : \/ condition[s] \in {"off", "gone"}
                         \/ \E t \in due : t <= s /\ Blocked(t))
=============================================================================
