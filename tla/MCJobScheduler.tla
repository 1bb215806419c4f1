--------------------------- MODULE MCJobScheduler ---------------------------
(* An instance of JobScheduler for TLC: two schedules, a run that a user      *)
(* requests, and four ways they may be deployed and edited.                   *)
EXTENDS JobScheduler

CONSTANTS q, h1, h2, h3

MCMaxAttempts == [r \in Run |-> IF r \in Request THEN 2 ELSE 1]

\* Hosts a, b, c run the services A, B, C.
Deployed(A, B, C) == [h \in Host |-> IF h = h1 THEN A ELSE IF h = h2 THEN B ELSE C]
Both == {"worker", "scheduler"}
OnlyFirst == [s \in Schedule |-> IF s = 1 THEN "sound" ELSE "off"]
AllSound == [s \in Schedule |-> "sound"]
Left(m, n) == [s \in Schedule |-> MaxEdits - (IF s = 1 THEN m ELSE n)]

\* A start: what the hosts run, the requests still to come (the others have been
\* cancelled), the conditions of the schedules and the edits made already.
Start(r, req, c, e) == [role |-> r, requests |-> req, condition |-> c, edits |-> e]

Starts == {
  \* two workers, one of them beside the scheduler
  Start(Deployed(Both, {"worker"}, {}), {q}, OnlyFirst, Left(0, 0)),
  \* two schedulers and a worker, one schedule that is edited twice
  Start(Deployed({"scheduler"}, {"scheduler"}, {"worker"}), {}, OnlyFirst, Left(2, 0)),
  \* a scheduler and a worker, two schedules that are edited once each
  Start(Deployed({"scheduler"}, {"worker"}, {}), {}, AllSound, Left(1, 1)),
  \* a single host, a schedule that is edited once
  Start(Deployed(Both, {}, {}), {q}, OnlyFirst, Left(1, 0)) }

\* Each is reached from Init by Enqueue, Cancel and Edit, before a host starts.
MCInit ==
  \E start \in Starts :
    /\ role = start.role /\ condition = start.condition /\ edits = start.edits
    /\ cancel = Request \ start.requests
    /\ state = [r \in Run |-> IF r \in cancel THEN "cancelled" ELSE "absent"]
    /\ attempt = [r \in Run |-> 0] /\ ripe = {} /\ results = {}
    /\ wpc = [h \in Host |-> "off"] /\ task = [h \in Host |-> NoTask]
    /\ lost = {} /\ listed = [h \in Host |-> {}]
    /\ stopping = {} /\ faults = 0
    /\ due = Schedule
    /\ version = [s \in Schedule |-> 1] /\ payload = [s \in Schedule |-> 0]
    /\ spc = [h \in Host |-> "off"]
    /\ todo = [h \in Host |-> {}] /\ read = [h \in Host |-> NoTask]

MCSpec == MCInit /\ [][Next]_vars /\ Fairness
=============================================================================
