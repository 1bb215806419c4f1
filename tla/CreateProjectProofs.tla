-------------------------- MODULE CreateProjectProofs --------------------------
(***************************************************************************)
(* What create and init promise of the target directory, proved for any    *)
(* number of command lines and faults, on POSIX and on Windows.            *)
(***************************************************************************)
EXTENDS CreateProject, TLAPS

\* A command line that works on the target has its lock.
Working(p) == kind[p] # "publish" /\ pc[p] \notin Ended \cup {"look", "lock"}
LockHeld == \A p \in Cli : Working(p) => lock = p /\ journal # "marker"

\* Calls belong to the external commands.  What is live below a command line is
\* below a call of it that is not verified, or was left there.
Below ==
  \A p \in Cli :
    /\ call[p] # "none" => pc[p] \in Commands
    /\ writers[p] # {} => \/ pc[p] \in Commands /\ call[p] # "none"
                          \/ pc[p] \in {"unsafe", "killed"}
    /\ call[p] = "settled" /\ writers[p] # {} => verdict[p] = "tree"

\* The labels of a command line that has given up.
GivenUp == {"fail", "rollback", "giveUp", "clear", "failed", "kept", "unsafe", "killed"}

\* A signal is the end of the call, and the end of the call that of the rest.
Heeded ==
  \A p \in interrupted :
    \/ pc[p] \in GivenUp
    \/ pc[p] \in Commands /\ call[p] \in {"cleanup", "settled"} /\ verdict[p] # "ok"

\* Where the transaction on the target is committed, and where it must be.
Committed ==
  \A p \in Cli :
    /\ p \in wrote =>
         /\ kind[p] # "publish" /\ pc[p] \notin {"look", "lock", "generate", "merge", "clear"}
         /\ kind[p] = "merge" => pc[p] \notin Commands \cup {"sources"}
         /\ pc[p] \notin Ended => project = p /\ target = "files"
         /\ pc[p] = "failed" => p \in reported
    /\ p \notin wrote => ~ \/ kind[p] = "inplace" /\ pc[p] \in Commands \cup {"sources"}
                           \/ kind[p] # "publish" /\ pc[p] \in {"secrets", "save", "complete",
                                                               "discard", "finish"}
    /\ pc[p] = "merge" => kind[p] = "merge"
    /\ pc[p] \in {"check", "rename"} => kind[p] = "publish"
    /\ pc[p] \in {"complete", "discard", "finish"} => kind[p] # "publish"

\* The files in the target are those of a transaction, or of a candidate that
\* was published.
Origin(p) == p \in wrote \/ (kind[p] = "publish" /\ pc[p] = "done")
Owned == project # Nobody => Origin(project) /\ target = "files"

\* A project that was published, or that is installed in place and has no
\* journal, is finished.
Announces(p, j) ==
  kind[p] = "publish" \/ (p \in native /\ j = "none") => p \in verified /\ state # Nobody

\* A journal is that of an installation in place whose files are there.
Authored == author # Nobody => author \in wrote /\ kind[author] = "inplace"

\* What a transaction replaced is the project, and the journal, of a command
\* line that has ended.
Replaced ==
  \A p \in wrote : pc[p] \notin Ended =>
    /\ before[p].project # Nobody =>
         /\ before[p].project # p /\ pc[before[p].project] \in Ended
         /\ Origin(before[p].project) /\ before[p].target = "files"
         /\ Announces(before[p].project, before[p].journal)
    /\ before[p].author # Nobody =>
         /\ before[p].author # p /\ pc[before[p].author] \in Ended
         /\ Origin(before[p].author) /\ kind[before[p].author] = "inplace"
    /\ kind[p] = "merge" => journal = before[p].journal
    /\ before[p].journal # "marker"

\* Native installations.
Natively ==
  /\ \A p \in native :
       /\ kind[p] = "inplace" /\ p \in wrote
       /\ pc[p] \in {"install", "format", "nextBatch", "typecheck", "secrets", "save",
                     "complete", "finish", "fail", "giveUp", "done", "kept", "unsafe", "killed"}
  /\ \A p \in Cli : pc[p] = "complete" => p \in native
  /\ \A p \in Cli : kind[p] = "inplace" /\ pc[p] = "lockAudit" => journal # "none"

\* What is done when a label is reached.
Reached ==
  \A p \in Cli :
    /\ pc[p] \in {"merge", "secrets", "save", "complete", "check", "rename", "discard",
                  "finish", "done"} => p \in verified
    /\ pc[p] = "complete" => state # Nobody

\* How a command line comes to fail, and what it has saved by then.
Failing ==
  \A p \in Cli :
    /\ pc[p] = "giveUp" => p \in native \cup reported
    /\ pc[p] = "failed" => p \in reported \/ cand[p] = "none"
    /\ state = p => \/ kind[p] = "merge"
                    \/ pc[p] \in {"complete", "finish", "done", "kept", "killed"}
                    \/ p \in native /\ pc[p] \in {"fail", "giveUp"}
    /\ pc[p] = "look" => kind[p] = "publish"

CInv ==
  /\ TypeOK /\ LockHeld /\ Below /\ Heeded /\ Committed /\ Owned /\ Authored
  /\ Replaced /\ Natively /\ Reached /\ Failing /\ Announced

\* What NothingUndone says of a step.
Preserves ==
  \A p \in Cli :
    /\ (writers[p] # {} /\ Holds(p)) =>
         /\ cand'[p] = cand[p]
         /\ project = p => project' = p
         /\ (lock = p /\ pc[p] \notin Ended) => lock' = p
    /\ (p \in native /\ project = p) => (project' = p \/ project' \in wrote' \ wrote)

-----------------------------------------------------------------------------
(* The steps, one conjunct of the invariant at a time. *)

\* Faults are counted up to their bound.
LEMMA FaultCounted ==
  ASSUME TypeOK, NEW p \in Cli, Fault(p) \/ UNCHANGED faults
  PROVE  faults' \in [Cli -> Nat] /\ \A q \in Cli : faults'[q] <= MaxFaults[q]
<1> USE DEF TypeOK, SupervisorTypeOK
<1>1. CASE UNCHANGED faults
  BY <1>1
<1>2. CASE Fault(p)
  <2>1. faults[p] \in Nat /\ MaxFaults[p] \in Nat /\ faults[p] < MaxFaults[p]
    BY <1>2, CreateAssumption DEF Fault
  <2>2. faults[p] + 1 \in Nat /\ faults[p] + 1 <= MaxFaults[p]
    BY <2>1
  <2> QED  BY <1>2, <2>2 DEF Fault
<1> QED  BY <1>1, <1>2

\* Every step keeps the types.
LEMMA TypeKept ==
  ASSUME CInv, [Next]_vars
  PROVE  TypeOK'
<1> USE DEF CInv, supervisor, root, client
<1>1. ASSUME NEW p \in Cli, Look(p) PROVE TypeOK'
  <2> USE <1>1 DEF Look, Go, Vacant
  <2>1. faults' \in [Cli -> Nat] /\ \A q \in Cli : faults'[q] <= MaxFaults[q]
    <3>1. Fault(p) \/ UNCHANGED faults
      OBVIOUS
    <3> QED  BY <3>1, FaultCounted
  <2>2. SupervisorTypeOK'
    BY <2>1 DEF TypeOK, SupervisorTypeOK, Active, Unverified
  <2>3. pc' \in [Cli -> Label \cup Commands \cup Ended]
    BY DEF TypeOK, Label, Commands, Ended
  <2> QED  BY <2>2, <2>3 DEF TypeOK, Target, Journal
<1>2. ASSUME NEW p \in Cli, Lock(p) PROVE TypeOK'
  BY <1>2, CreateAssumption DEF TypeOK, SupervisorTypeOK, Unverified, Label, Ended, Lock, Go,
     Private, Fault
<1>3. ASSUME NEW p \in Cli, Generate(p) PROVE TypeOK'
  <2> USE <1>3 DEF Generate, Go, Private, Commit
  <2>1. faults' \in [Cli -> Nat] /\ \A q \in Cli : faults'[q] <= MaxFaults[q]
    <3>1. Fault(p) \/ UNCHANGED faults
      OBVIOUS
    <3> QED  BY <3>1, FaultCounted
  <2>2. SupervisorTypeOK'
    BY <2>1 DEF TypeOK, SupervisorTypeOK, Active, Unverified
  <2>3. pc' \in [Cli -> Label \cup Commands \cup Ended]
    BY DEF TypeOK, Label, Commands, Ended
  <2> QED  BY <2>2, <2>3 DEF TypeOK, Target, Journal
<1>4. ASSUME NEW p \in Cli, Begin(p) PROVE TypeOK'
  <2> USE <1>4 DEF Begin, Spawn, Enter
  <2>1. faults' \in [Cli -> Nat] /\ \A q \in Cli : faults'[q] <= MaxFaults[q]
    <3>1. Fault(p) \/ UNCHANGED faults
      OBVIOUS
    <3> QED  BY <3>1, FaultCounted
  <2>2. SupervisorTypeOK'
    <3>1. CASE call' = [call EXCEPT ![p] = "waiting"] /\ guard' = [guard EXCEPT ![p] = "live"]
               /\ verdict' = [verdict EXCEPT ![p] = "ok"]
      BY <2>1, <3>1 DEF TypeOK, SupervisorTypeOK, Active, Unverified
    <3>2. CASE call' = [call EXCEPT ![p] = "cleanup"] /\ guard' = [guard EXCEPT ![p] = "none"]
               /\ verdict' = [verdict EXCEPT ![p] = "error"]
      BY <2>1, <3>2 DEF TypeOK, SupervisorTypeOK, Active, Unverified
    <3> QED  BY <3>1, <3>2
  <2>3. pc' \in [Cli -> Label \cup Commands \cup Ended]
    BY DEF TypeOK, Label, Commands, Ended
  <2> QED  BY <2>2, <2>3 DEF TypeOK, Target, Journal
<1>5. ASSUME NEW p \in Cli, PublishSources(p) PROVE TypeOK'
  <2> USE <1>5 DEF PublishSources, Go, Private
  <2>1. faults' \in [Cli -> Nat] /\ \A q \in Cli : faults'[q] <= MaxFaults[q]
    <3>1. Fault(p) \/ UNCHANGED faults
      OBVIOUS
    <3> QED  BY <3>1, FaultCounted
  <2>2. SupervisorTypeOK'
    BY <2>1 DEF TypeOK, SupervisorTypeOK, Active, Unverified
  <2>3. pc' \in [Cli -> Label \cup Commands \cup Ended]
    BY DEF TypeOK, Label, Commands, Ended
  <2> QED  BY <2>2, <2>3 DEF TypeOK, Target, Journal
<1>6. ASSUME NEW p \in Cli, Proceed(p) PROVE TypeOK'
  BY <1>6 DEF TypeOK, SupervisorTypeOK, Label, Commands, Proceed, Following, Go, Settled, Return,
     Forget, Enter
<1>7. ASSUME NEW p \in Cli, CommandFails(p) PROVE TypeOK'
  <2> USE <1>7 DEF CommandFails, Go, Private, Mark, Settled, Succeeded, Unsafe, Return, Forget,
      Enter
  <2>1. faults' \in [Cli -> Nat] /\ \A q \in Cli : faults'[q] <= MaxFaults[q]
    <3>1. Fault(p) \/ UNCHANGED faults
      OBVIOUS
    <3> QED  BY <3>1, FaultCounted
  <2>2. SupervisorTypeOK'
    BY <2>1 DEF TypeOK, SupervisorTypeOK, Active, Unverified
  <2>3. pc' \in [Cli -> Label \cup Commands \cup Ended]
    BY DEF TypeOK, Label, Commands, Ended
  <2> QED  BY <2>2, <2>3 DEF TypeOK, Target, Journal
<1>8. ASSUME NEW p \in Cli, Retain(p) PROVE TypeOK'
  <2> USE <1>8 DEF Retain, Go, Private, Mark, Settled, Succeeded, Unsafe, Return, Forget, Enter
  <2>1. faults' \in [Cli -> Nat] /\ \A q \in Cli : faults'[q] <= MaxFaults[q]
    <3>1. Fault(p) \/ UNCHANGED faults
      OBVIOUS
    <3> QED  BY <3>1, FaultCounted
  <2>2. SupervisorTypeOK'
    BY <2>1 DEF TypeOK, SupervisorTypeOK, Active, Unverified
  <2>3. pc' \in [Cli -> Label \cup Commands \cup Ended]
    BY DEF TypeOK, Label, Commands, Ended
  <2> QED  BY <2>2, <2>3 DEF TypeOK, Target, Journal
<1>9. ASSUME NEW p \in Cli, Merge(p) PROVE TypeOK'
  <2> USE <1>9 DEF Merge, Go, Commit
  <2>1. faults' \in [Cli -> Nat] /\ \A q \in Cli : faults'[q] <= MaxFaults[q]
    <3>1. Fault(p) \/ UNCHANGED faults
      OBVIOUS
    <3> QED  BY <3>1, FaultCounted
  <2>2. SupervisorTypeOK'
    BY <2>1 DEF TypeOK, SupervisorTypeOK, Active, Unverified
  <2>3. pc' \in [Cli -> Label \cup Commands \cup Ended]
    BY DEF TypeOK, Label, Commands, Ended
  <2> QED  BY <2>2, <2>3 DEF TypeOK, Target, Journal
<1>10. ASSUME NEW p \in Cli, Materialize(p) PROVE TypeOK'
  <2> USE <1>10 DEF Materialize, Go
  <2>1. faults' \in [Cli -> Nat] /\ \A q \in Cli : faults'[q] <= MaxFaults[q]
    <3>1. Fault(p) \/ UNCHANGED faults
      OBVIOUS
    <3> QED  BY <3>1, FaultCounted
  <2>2. SupervisorTypeOK'
    BY <2>1 DEF TypeOK, SupervisorTypeOK, Active, Unverified
  <2>3. pc' \in [Cli -> Label \cup Commands \cup Ended]
    BY DEF TypeOK, Label, Commands, Ended
  <2> QED  BY <2>2, <2>3 DEF TypeOK, Target, Journal
<1>11. ASSUME NEW p \in Cli, SaveState(p) PROVE TypeOK'
  BY <1>11, CreateAssumption DEF TypeOK, SupervisorTypeOK, Active, Unverified, Label, Commands,
     SaveState, Go, Fault
<1>12. ASSUME NEW p \in Cli, CompleteNative(p) PROVE TypeOK'
  BY <1>12, CreateAssumption DEF TypeOK, SupervisorTypeOK, Unverified, Label, Journal,
     CompleteNative, Go, Fault
<1>13. ASSUME NEW p \in Cli, CheckTarget(p) PROVE TypeOK'
  BY <1>13, CreateAssumption DEF TypeOK, SupervisorTypeOK, Label, Ended, Journal, CheckTarget,
     Go, OrFails, Fault
<1>14. ASSUME NEW p \in Cli, Rename(p) PROVE TypeOK'
  BY <1>14, CreateAssumption DEF TypeOK, SupervisorTypeOK, Active, Unverified, Label, Ended,
     Commands, Target, Rename, Go, Fault
<1>15. ASSUME NEW p \in Cli, Discard(p) PROVE TypeOK'
  BY <1>15, CreateAssumption, SMTT(20) DEF TypeOK, SupervisorTypeOK, Active, Unverified, Label,
     Ended, Commands, Discard, Go, Fault
<1>16. ASSUME NEW p \in Cli, Finish(p) PROVE TypeOK'
  <2> USE <1>16 DEF Finish, Go, Release
  <2>1. faults' \in [Cli -> Nat] /\ \A q \in Cli : faults'[q] <= MaxFaults[q]
    <3>1. Fault(p) \/ UNCHANGED faults
      OBVIOUS
    <3> QED  BY <3>1, FaultCounted
  <2>2. SupervisorTypeOK'
    BY <2>1 DEF TypeOK, SupervisorTypeOK, Active, Unverified
  <2>3. pc' \in [Cli -> Label \cup Commands \cup Ended]
    BY DEF TypeOK, Label, Commands, Ended
  <2> QED  BY <2>2, <2>3 DEF TypeOK, Target, Journal
<1>17. ASSUME NEW p \in Cli, Fail(p) PROVE TypeOK'
  <2> USE <1>17 DEF Fail, Go, Mark, Private
  <2>1. faults' \in [Cli -> Nat] /\ \A q \in Cli : faults'[q] <= MaxFaults[q]
    <3>1. Fault(p) \/ UNCHANGED faults
      OBVIOUS
    <3> QED  BY <3>1, FaultCounted
  <2>2. SupervisorTypeOK'
    BY <2>1 DEF TypeOK, SupervisorTypeOK, Active, Unverified
  <2>3. pc' \in [Cli -> Label \cup Commands \cup Ended]
    BY DEF TypeOK, Label, Commands, Ended
  <2> QED  BY <2>2, <2>3 DEF TypeOK, Target, Journal
<1>18. ASSUME NEW p \in Cli, Rollback(p) PROVE TypeOK'
  <2> USE <1>18 DEF Rollback, Go, Private
  <2>1. faults' \in [Cli -> Nat] /\ \A q \in Cli : faults'[q] <= MaxFaults[q]
    <3>1. Fault(p) \/ UNCHANGED faults
      OBVIOUS
    <3> QED  BY <3>1, FaultCounted
  <2>2. SupervisorTypeOK'
    BY <2>1 DEF TypeOK, SupervisorTypeOK, Active, Unverified
  <2>3. pc' \in [Cli -> Label \cup Commands \cup Ended]
    BY DEF TypeOK, Label, Commands, Ended
  <2>4. /\ target' \in Target /\ project' \in Cli \cup {Nobody}
        /\ journal' \in Journal /\ author' \in Cli \cup {Nobody}
    <3>1. before[p] \in [project : Cli \cup {Nobody}, target : Target,
                         journal : Journal, author : Cli \cup {Nobody}]
      BY DEF TypeOK
    <3> QED  BY <3>1 DEF TypeOK, Target
  <2>5. wrote' \subseteq Cli /\ reported' \subseteq Cli
    BY DEF TypeOK
  <2> QED  BY <2>2, <2>3, <2>4, <2>5 DEF TypeOK
<1>19. ASSUME NEW p \in Cli, GiveUp(p) PROVE TypeOK'
  <2> USE <1>19 DEF GiveUp, Go, Release
  <2>1. faults' \in [Cli -> Nat] /\ \A q \in Cli : faults'[q] <= MaxFaults[q]
    <3>1. Fault(p) \/ UNCHANGED faults
      OBVIOUS
    <3> QED  BY <3>1, FaultCounted
  <2>2. SupervisorTypeOK'
    BY <2>1 DEF TypeOK, SupervisorTypeOK, Active, Unverified
  <2>3. pc' \in [Cli -> Label \cup Commands \cup Ended]
    BY DEF TypeOK, Label, Commands, Ended
  <2> QED  BY <2>2, <2>3 DEF TypeOK, Target, Journal
<1>20. ASSUME NEW p \in Cli, Clear(p) PROVE TypeOK'
  <2> USE <1>20 DEF Clear, Go, Release
  <2>1. faults' \in [Cli -> Nat] /\ \A q \in Cli : faults'[q] <= MaxFaults[q]
    <3>1. Fault(p) \/ UNCHANGED faults
      OBVIOUS
    <3> QED  BY <3>1, FaultCounted
  <2>2. SupervisorTypeOK'
    BY <2>1 DEF TypeOK, SupervisorTypeOK, Active, Unverified
  <2>3. pc' \in [Cli -> Label \cup Commands \cup Ended]
    BY DEF TypeOK, Label, Commands, Ended
  <2> QED  BY <2>2, <2>3 DEF TypeOK, Target, Journal
<1>21. ASSUME NEW p \in Cli, Kill(p) PROVE TypeOK'
  <2> USE <1>21 DEF Kill, Go, Forget, Enter
  <2>1. faults' \in [Cli -> Nat] /\ \A q \in Cli : faults'[q] <= MaxFaults[q]
    <3>1. Fault(p) \/ UNCHANGED faults
      OBVIOUS
    <3> QED  BY <3>1, FaultCounted
  <2>2. SupervisorTypeOK'
    BY <2>1 DEF TypeOK, SupervisorTypeOK, Active, Unverified
  <2>3. pc' \in [Cli -> Label \cup Commands \cup Ended]
    BY DEF TypeOK, Label, Commands, Ended
  <2> QED  BY <2>2, <2>3 DEF TypeOK, Target, Journal
<1>22. ASSUME Lapse PROVE TypeOK'
  BY <1>22 DEF TypeOK, SupervisorTypeOK, Lapse
<1>23. ASSUME UserActs PROVE TypeOK'
  BY <1>23 DEF TypeOK, SupervisorTypeOK, Target, UserActs
<1>24. ASSUME NEW p \in Cli, GuardReady(p), UNCHANGED <<pc, client, root>> PROVE TypeOK'
  <2> USE <1>24 DEF GuardReady, StartCommand, Enter
  <2>1. faults' \in [Cli -> Nat] /\ \A q \in Cli : faults'[q] <= MaxFaults[q]
    <3>1. Fault(p) \/ UNCHANGED faults
      OBVIOUS
    <3> QED  BY <3>1, FaultCounted
  <2>2. SupervisorTypeOK'
    <3>1. CASE windows
      <4>1. call' \in [Cli -> {"none", "cleanup", "settled"} \cup Active] /\ call'[p] = "assigning"
        BY <3>1 DEF TypeOK, SupervisorTypeOK, Active
      <4>2. job' \in [Cli -> {"none", "pending", "made"}] /\ job'[p] = "pending"
        BY <3>1 DEF TypeOK, SupervisorTypeOK
      <4> QED  BY <2>1, <3>1, <4>1, <4>2 DEF TypeOK, SupervisorTypeOK
    <3>2. CASE ~windows
      <4>1. call'[p] = "running" /\ call' \in [Cli -> {"none", "cleanup", "settled"} \cup Active]
        BY <3>2 DEF TypeOK, SupervisorTypeOK, Active
      <4>2. writers' \in [Cli -> SUBSET {"command", "daemon"}]
        BY <3>2 DEF TypeOK, SupervisorTypeOK
      <4>3. exited' \in [Cli -> {"no", "zero", "other"}]
        BY <3>2 DEF TypeOK, SupervisorTypeOK
      <4> QED  BY <2>1, <3>2, <4>1, <4>2, <4>3 DEF TypeOK, SupervisorTypeOK
    <3> QED  BY <3>1, <3>2
  <2> QED  BY <2>2 DEF TypeOK
<1>25. ASSUME NEW p \in Cli, JobResolves(p), UNCHANGED <<pc, client, root>> PROVE TypeOK'
  <2> USE <1>25 DEF JobResolves, StartCommand, Finalize, Enter
  <2>1. faults' \in [Cli -> Nat] /\ \A q \in Cli : faults'[q] <= MaxFaults[q]
    <3>1. Fault(p) \/ UNCHANGED faults
      OBVIOUS
    <3> QED  BY <3>1, FaultCounted
  <2>2. call' \in [Cli -> {"none", "cleanup", "settled"} \cup Active] /\ call'[p] # "assigning"
    BY DEF TypeOK, SupervisorTypeOK, Active
  <2>3. writers' \in [Cli -> SUBSET {"command", "daemon"}]
    BY DEF TypeOK, SupervisorTypeOK
  <2>4. exited' \in [Cli -> {"no", "zero", "other"}]
    BY DEF TypeOK, SupervisorTypeOK
  <2>5. verdict' \in [Cli -> {"ok", "error", "interrupted"} \cup Unverified]
    BY DEF TypeOK, SupervisorTypeOK, Unverified
  <2>6. job' \in [Cli -> {"none", "pending", "made"}]
    BY DEF TypeOK, SupervisorTypeOK
  <2>7. \A q \in Cli : call'[q] = "assigning" => job'[q] = "pending"
    BY <2>2 DEF TypeOK, SupervisorTypeOK
  <2>8. SupervisorTypeOK'
    BY <2>1, <2>2, <2>3, <2>4, <2>5, <2>6, <2>7 DEF TypeOK, SupervisorTypeOK
  <2> QED  BY <2>8 DEF TypeOK
<1>26. ASSUME NEW p \in Cli, Complete(p), UNCHANGED <<pc, client, root>> PROVE TypeOK'
  BY <1>26 DEF TypeOK, SupervisorTypeOK, Complete, Finalize, Enter
<1>27. ASSUME NEW p \in Cli, Timeout(p), UNCHANGED <<pc, client, root>> PROVE TypeOK'
  BY <1>27 DEF TypeOK, SupervisorTypeOK, Timeout, Finalize, Enter
<1>28. ASSUME NEW p \in Cli, Signal(p), UNCHANGED <<pc, client, root>> PROVE TypeOK'
  <2> USE <1>28 DEF Signal, Finalize, Enter
  <2>1. faults' \in [Cli -> Nat] /\ \A q \in Cli : faults'[q] <= MaxFaults[q]
    <3>1. Fault(p) \/ UNCHANGED faults
      OBVIOUS
    <3> QED  BY <3>1, FaultCounted
  <2>2. SupervisorTypeOK'
    BY <2>1 DEF TypeOK, SupervisorTypeOK, Active, Unverified
  <2> QED  BY <2>2 DEF TypeOK
<1>29. ASSUME NEW p \in Cli, Close(p), UNCHANGED <<pc, client, root>> PROVE TypeOK'
  BY <1>29 DEF TypeOK, SupervisorTypeOK, Unverified, Close, Finalize, Enter
<1>30. ASSUME NEW p \in Cli, Cleanup(p), UNCHANGED <<pc, client, root>> PROVE TypeOK'
  <2> USE <1>30 DEF Cleanup, Enter, Observable
  <2>1. faults' \in [Cli -> Nat] /\ \A q \in Cli : faults'[q] <= MaxFaults[q]
    <3>1. Fault(p) \/ UNCHANGED faults
      OBVIOUS
    <3> QED  BY <3>1, FaultCounted
  <2>2. SupervisorTypeOK'
    <3>1. call' \in [Cli -> {"none", "cleanup", "settled"} \cup Active] /\ call'[p] = "settled"
      BY DEF TypeOK, SupervisorTypeOK, Active
    <3>2. /\ guard' \in [Cli -> {"none", "live", "dead"}]
          /\ writers' \in [Cli -> SUBSET {"command", "daemon"}]
          /\ verdict' \in [Cli -> {"ok", "error", "interrupted"} \cup Unverified]
      BY DEF TypeOK, SupervisorTypeOK, Unverified
    <3>3. \A q \in Cli : call'[q] = "assigning" => job'[q] = "pending"
      BY DEF TypeOK, SupervisorTypeOK, Active
    <3> QED  BY <2>1, <3>1, <3>2, <3>3 DEF TypeOK, SupervisorTypeOK
  <2> QED  BY <2>2 DEF TypeOK
<1>31. ASSUME NEW p \in Cli, Daemonize(p), UNCHANGED <<pc, client, root>> PROVE TypeOK'
  <2> USE <1>31 DEF Daemonize
  <2>1. faults' \in [Cli -> Nat] /\ \A q \in Cli : faults'[q] <= MaxFaults[q]
    <3>1. Fault(p) \/ UNCHANGED faults
      OBVIOUS
    <3> QED  BY <3>1, FaultCounted
  <2>2. SupervisorTypeOK'
    BY <2>1 DEF TypeOK, SupervisorTypeOK, Active, Unverified
  <2> QED  BY <2>2 DEF TypeOK
<1>32. ASSUME NEW p \in Cli, CommandExits(p), UNCHANGED <<pc, client, root>> PROVE TypeOK'
  <2> USE <1>32 DEF CommandExits
  <2>1. faults' \in [Cli -> Nat] /\ \A q \in Cli : faults'[q] <= MaxFaults[q]
    <3>1. Fault(p) \/ UNCHANGED faults
      OBVIOUS
    <3> QED  BY <3>1, FaultCounted
  <2>2. SupervisorTypeOK'
    <3>1. writers' \in [Cli -> SUBSET {"command", "daemon"}]
      BY DEF TypeOK, SupervisorTypeOK
    <3>2. exited' \in [Cli -> {"no", "zero", "other"}]
      BY DEF TypeOK, SupervisorTypeOK
    <3> QED  BY <2>1, <3>1, <3>2 DEF TypeOK, SupervisorTypeOK
  <2> QED  BY <2>2 DEF TypeOK
<1>33. ASSUME NEW p \in Cli, DaemonExits(p), UNCHANGED <<pc, client, root>> PROVE TypeOK'
  BY <1>33 DEF TypeOK, SupervisorTypeOK, DaemonExits
<1>34. ASSUME NEW p \in Cli, GuardDies(p), UNCHANGED <<pc, client, root>> PROVE TypeOK'
  <2> USE <1>34 DEF GuardDies
  <2>1. faults' \in [Cli -> Nat] /\ \A q \in Cli : faults'[q] <= MaxFaults[q]
    <3>1. Fault(p) \/ UNCHANGED faults
      OBVIOUS
    <3> QED  BY <3>1, FaultCounted
  <2>2. SupervisorTypeOK'
    BY <2>1 DEF TypeOK, SupervisorTypeOK, Active, Unverified
  <2> QED  BY <2>2 DEF TypeOK
<1>35. CASE UNCHANGED vars
  BY <1>35 DEF vars, TypeOK, SupervisorTypeOK
<1> QED  BY <1>1, <1>2, <1>3, <1>4, <1>5, <1>6, <1>7, <1>8, <1>9, <1>10, <1>11, <1>12, <1>13,
   <1>14, <1>15, <1>16, <1>17, <1>18, <1>19, <1>20, <1>21, <1>22, <1>23, <1>24, <1>25, <1>26,
   <1>27, <1>28, <1>29, <1>30, <1>31, <1>32, <1>33, <1>34, <1>35 DEF Next, Step, Supervised,
   SupervisorStep, Callback, Finished

\* The lock is given up with the last step, and no marker is written beside it.
LEMMA LockHeldKept ==
  ASSUME CInv, [Next]_vars
  PROVE  LockHeld'
<1> USE DEF CInv, supervisor, root, client
<1>1. ASSUME NEW p \in Cli, Look(p) PROVE LockHeld'
  BY <1>1 DEF LockHeld, Working, Ended, Look, Go, TypeOK
<1>2. ASSUME NEW p \in Cli, Lock(p) PROVE LockHeld'
  BY <1>2, CreateAssumption DEF LockHeld, Working, Ended, Lock, Go, TypeOK
<1>3. ASSUME NEW p \in Cli, Generate(p) PROVE LockHeld'
  BY <1>3 DEF LockHeld, Working, Ended, Generate, Go, TypeOK
<1>4. ASSUME NEW p \in Cli, Begin(p) PROVE LockHeld'
  BY <1>4 DEF LockHeld, Working, Begin
<1>5. ASSUME NEW p \in Cli, PublishSources(p) PROVE LockHeld'
  BY <1>5 DEF LockHeld, Working, Ended, PublishSources, Go, TypeOK
<1>6. ASSUME NEW p \in Cli, Proceed(p) PROVE LockHeld'
  BY <1>6 DEF LockHeld, Working, Ended, Commands, Proceed, Following, Go, Settled
<1>7. ASSUME NEW p \in Cli, CommandFails(p) PROVE LockHeld'
  BY <1>7 DEF LockHeld, Working, Ended, Commands, CommandFails, Go, Mark, Settled
<1>8. ASSUME NEW p \in Cli, Retain(p) PROVE LockHeld'
  BY <1>8 DEF LockHeld, Working, Ended, Commands, Retain, Go, Private, Mark, Settled, TypeOK
<1>9. ASSUME NEW p \in Cli, Merge(p) PROVE LockHeld'
  BY <1>9 DEF LockHeld, Working, Ended, Merge, Go, TypeOK
<1>10. ASSUME NEW p \in Cli, Materialize(p) PROVE LockHeld'
  BY <1>10 DEF LockHeld, Working, Ended, Materialize, Go, TypeOK
<1>11. ASSUME NEW p \in Cli, SaveState(p) PROVE LockHeld'
  BY <1>11 DEF LockHeld, Working, Ended, SaveState, Go, TypeOK
<1>12. ASSUME NEW p \in Cli, CompleteNative(p) PROVE LockHeld'
  BY <1>12 DEF LockHeld, Working, Ended, CompleteNative, Go, TypeOK
<1>13. ASSUME NEW p \in Cli, CheckTarget(p) PROVE LockHeld'
  BY <1>13 DEF LockHeld, Working, CheckTarget, Go, OrFails, TypeOK, Committed
<1>14. ASSUME NEW p \in Cli, Rename(p) PROVE LockHeld'
  BY <1>14 DEF LockHeld, Working, Rename, Go, TypeOK, Committed
<1>15. ASSUME NEW p \in Cli, Discard(p) PROVE LockHeld'
  BY <1>15 DEF LockHeld, Working, Ended, Discard, Go, TypeOK
<1>16. ASSUME NEW p \in Cli, Finish(p) PROVE LockHeld'
  BY <1>16 DEF LockHeld, Working, Ended, Finish, Go, TypeOK, Committed
<1>17. ASSUME NEW p \in Cli, Fail(p) PROVE LockHeld'
  BY <1>17 DEF LockHeld, Working, Ended, Fail, Go, Mark, TypeOK
<1>18. ASSUME NEW p \in Cli, Rollback(p) PROVE LockHeld'
  BY <1>18 DEF LockHeld, Working, Ended, Rollback, Go, TypeOK, Replaced
<1>19. ASSUME NEW p \in Cli, GiveUp(p) PROVE LockHeld'
  BY <1>19 DEF LockHeld, Working, Ended, GiveUp, Go, Release, TypeOK
<1>20. ASSUME NEW p \in Cli, Clear(p) PROVE LockHeld'
  BY <1>20 DEF LockHeld, Working, Ended, Clear, Go, Release, TypeOK
<1>21. ASSUME NEW p \in Cli, Kill(p) PROVE LockHeld'
  BY <1>21 DEF LockHeld, Working, Ended, Kill, Go
<1>22. ASSUME Lapse PROVE LockHeld'
  BY <1>22 DEF LockHeld, Working, Lapse
<1>23. ASSUME UserActs PROVE LockHeld'
  BY <1>23 DEF LockHeld, Working, UserActs
<1>24. ASSUME NEW p \in Cli, Supervised(p) PROVE LockHeld'
  BY <1>24 DEF LockHeld, Working, Supervised
<1>25. CASE UNCHANGED vars
  BY <1>25 DEF vars, LockHeld, Working
<1> QED  BY <1>1, <1>2, <1>3, <1>4, <1>5, <1>6, <1>7, <1>8, <1>9, <1>10, <1>11, <1>12, <1>13,
   <1>14, <1>15, <1>16, <1>17, <1>18, <1>19, <1>20, <1>21, <1>22, <1>23, <1>24, <1>25 DEF Next,
   Step, Finished

\* The cleanup of a call empties its tree, or the verdict says that it did not.
LEMMA BelowKept ==
  ASSUME CInv, [Next]_vars
  PROVE  Below'
<1> USE DEF CInv, supervisor, root, client
<1>1. ASSUME NEW p \in Cli, Look(p) PROVE Below'
  BY <1>1 DEF Below, Commands, Look, Go, TypeOK
<1>2. ASSUME NEW p \in Cli, Lock(p) PROVE Below'
  BY <1>2 DEF Below, Commands, Lock, Go, TypeOK
<1>3. ASSUME NEW p \in Cli, Generate(p) PROVE Below'
  BY <1>3 DEF Below, Commands, Generate, Go, TypeOK
<1>4. ASSUME NEW p \in Cli, Begin(p) PROVE Below'
  BY <1>4 DEF Below, Begin, Spawn, Enter, TypeOK, SupervisorTypeOK
<1>5. ASSUME NEW p \in Cli, PublishSources(p) PROVE Below'
  BY <1>5 DEF Below, Commands, PublishSources, Go, TypeOK
<1>6. ASSUME NEW p \in Cli, Proceed(p) PROVE Below'
  BY <1>6 DEF Below, Proceed, Following, Go, Settled, Succeeded, Return, Forget, Enter, TypeOK,
     SupervisorTypeOK
<1>7. ASSUME NEW p \in Cli, CommandFails(p) PROVE Below'
  BY <1>7 DEF Below, CommandFails, Go, Settled, Unsafe, Return, Forget, Enter, TypeOK,
     SupervisorTypeOK
<1>8. ASSUME NEW p \in Cli, Retain(p) PROVE Below'
  BY <1>8 DEF Below, Retain, Go, Return, Forget, Enter, TypeOK, SupervisorTypeOK
<1>9. ASSUME NEW p \in Cli, Merge(p) PROVE Below'
  BY <1>9 DEF Below, Commands, Merge, Go, TypeOK
<1>10. ASSUME NEW p \in Cli, Materialize(p) PROVE Below'
  BY <1>10 DEF Below, Commands, Materialize, Go, TypeOK
<1>11. ASSUME NEW p \in Cli, SaveState(p) PROVE Below'
  BY <1>11 DEF Below, Commands, SaveState, Go, TypeOK
<1>12. ASSUME NEW p \in Cli, CompleteNative(p) PROVE Below'
  BY <1>12 DEF Below, Commands, CompleteNative, Go, TypeOK
<1>13. ASSUME NEW p \in Cli, CheckTarget(p) PROVE Below'
  BY <1>13 DEF Below, Commands, CheckTarget, Go, OrFails, TypeOK
<1>14. ASSUME NEW p \in Cli, Rename(p) PROVE Below'
  BY <1>14 DEF Below, Commands, Rename, Go, TypeOK
<1>15. ASSUME NEW p \in Cli, Discard(p) PROVE Below'
  BY <1>15 DEF Below, Commands, Discard, Go, TypeOK
<1>16. ASSUME NEW p \in Cli, Finish(p) PROVE Below'
  BY <1>16 DEF Below, Commands, Finish, Go
<1>17. ASSUME NEW p \in Cli, Fail(p) PROVE Below'
  BY <1>17 DEF Below, Commands, Fail, Go, TypeOK
<1>18. ASSUME NEW p \in Cli, Rollback(p) PROVE Below'
  BY <1>18 DEF Below, Commands, Rollback, Go, TypeOK
<1>19. ASSUME NEW p \in Cli, GiveUp(p) PROVE Below'
  BY <1>19 DEF Below, Commands, GiveUp, Go
<1>20. ASSUME NEW p \in Cli, Clear(p) PROVE Below'
  BY <1>20 DEF Below, Commands, Clear, Go
<1>21. ASSUME NEW p \in Cli, Kill(p) PROVE Below'
  BY <1>21 DEF Below, Kill, Go, Forget, Enter, TypeOK, SupervisorTypeOK
<1>22. ASSUME Lapse PROVE Below'
  BY <1>22 DEF Below, Lapse
<1>23. ASSUME UserActs PROVE Below'
  BY <1>23 DEF Below, UserActs
<1>24. ASSUME NEW p \in Cli, GuardReady(p), UNCHANGED <<pc, client, root>> PROVE Below'
  BY <1>24 DEF Below, GuardReady, StartCommand, Enter, TypeOK, SupervisorTypeOK
<1>25. ASSUME NEW p \in Cli, JobResolves(p), UNCHANGED <<pc, client, root>> PROVE Below'
  BY <1>25 DEF Below, JobResolves, StartCommand, Finalize, Enter, TypeOK, SupervisorTypeOK
<1>26. ASSUME NEW p \in Cli, Complete(p), UNCHANGED <<pc, client, root>> PROVE Below'
  BY <1>26 DEF Below, Complete, Finalize, Enter
<1>27. ASSUME NEW p \in Cli, Timeout(p), UNCHANGED <<pc, client, root>> PROVE Below'
  BY <1>27 DEF Below, Timeout, Finalize, Enter
<1>28. ASSUME NEW p \in Cli, Signal(p), UNCHANGED <<pc, client, root>> PROVE Below'
  BY <1>28 DEF Below, Signal, Finalize, Enter, Active, TypeOK, SupervisorTypeOK
<1>29. ASSUME NEW p \in Cli, Close(p), UNCHANGED <<pc, client, root>> PROVE Below'
  BY <1>29 DEF Below, Close, Finalize, Enter, Active
<1>30. ASSUME NEW p \in Cli, Cleanup(p), UNCHANGED <<pc, client, root>> PROVE Below'
  BY <1>30 DEF Below, Cleanup, Enter, TypeOK, SupervisorTypeOK
<1>31. ASSUME NEW p \in Cli, Daemonize(p), UNCHANGED <<pc, client, root>> PROVE Below'
  BY <1>31 DEF Below, Daemonize
<1>32. ASSUME NEW p \in Cli, CommandExits(p), UNCHANGED <<pc, client, root>> PROVE Below'
  BY <1>32 DEF Below, CommandExits
<1>33. ASSUME NEW p \in Cli, DaemonExits(p), UNCHANGED <<pc, client, root>> PROVE Below'
  BY <1>33 DEF Below, DaemonExits
<1>34. ASSUME NEW p \in Cli, GuardDies(p), UNCHANGED <<pc, client, root>> PROVE Below'
  BY <1>34 DEF Below, GuardDies
<1>35. CASE UNCHANGED vars
  BY <1>35 DEF vars, Below
<1> QED  BY <1>1, <1>2, <1>3, <1>4, <1>5, <1>6, <1>7, <1>8, <1>9, <1>10, <1>11, <1>12, <1>13,
   <1>14, <1>15, <1>16, <1>17, <1>18, <1>19, <1>20, <1>21, <1>22, <1>23, <1>24, <1>25, <1>26,
   <1>27, <1>28, <1>29, <1>30, <1>31, <1>32, <1>33, <1>34, <1>35 DEF Next, Step, Supervised,
   SupervisorStep, Callback, Finished

\* After a signal the call does not succeed, and what follows is the catch block.
LEMMA HeededKept ==
  ASSUME CInv, [Next]_vars
  PROVE  Heeded'
<1> USE DEF CInv, supervisor, root, client
<1>1. ASSUME NEW p \in Cli, Look(p) PROVE Heeded'
  BY <1>1 DEF Heeded, GivenUp, Commands, Look, Go, TypeOK, SupervisorTypeOK
<1>2. ASSUME NEW p \in Cli, Lock(p) PROVE Heeded'
  BY <1>2 DEF Heeded, GivenUp, Commands, Lock, Go, TypeOK, SupervisorTypeOK
<1>3. ASSUME NEW p \in Cli, Generate(p) PROVE Heeded'
  BY <1>3 DEF Heeded, GivenUp, Commands, Generate, Go, TypeOK, SupervisorTypeOK
<1>4. ASSUME NEW p \in Cli, Begin(p) PROVE Heeded'
  BY <1>4 DEF Heeded, Begin, Spawn, Enter, TypeOK, SupervisorTypeOK
<1>5. ASSUME NEW p \in Cli, PublishSources(p) PROVE Heeded'
  BY <1>5 DEF Heeded, GivenUp, Commands, PublishSources, Go, TypeOK, SupervisorTypeOK
<1>6. ASSUME NEW p \in Cli, Proceed(p) PROVE Heeded'
  BY <1>6 DEF Heeded, GivenUp, Commands, Proceed, Following, Go, Settled, Succeeded,
     Return, Forget, Enter
<1>7. ASSUME NEW p \in Cli, CommandFails(p) PROVE Heeded'
  BY <1>7 DEF Heeded, GivenUp, CommandFails, Go, Return, Forget, Enter, TypeOK
<1>8. ASSUME NEW p \in Cli, Retain(p) PROVE Heeded'
  BY <1>8 DEF Heeded, GivenUp, Retain, Go, Return, Forget, Enter, TypeOK
<1>9. ASSUME NEW p \in Cli, Merge(p) PROVE Heeded'
  BY <1>9 DEF Heeded, GivenUp, Commands, Merge, Go, TypeOK, SupervisorTypeOK
<1>10. ASSUME NEW p \in Cli, Materialize(p) PROVE Heeded'
  BY <1>10 DEF Heeded, GivenUp, Commands, Materialize, Go, TypeOK, SupervisorTypeOK
<1>11. ASSUME NEW p \in Cli, SaveState(p) PROVE Heeded'
  BY <1>11 DEF Heeded, GivenUp, Commands, SaveState, Go, TypeOK, SupervisorTypeOK
<1>12. ASSUME NEW p \in Cli, CompleteNative(p) PROVE Heeded'
  BY <1>12 DEF Heeded, GivenUp, Commands, CompleteNative, Go, TypeOK, SupervisorTypeOK
<1>13. ASSUME NEW p \in Cli, CheckTarget(p) PROVE Heeded'
  BY <1>13 DEF Heeded, GivenUp, Commands, CheckTarget, Go, OrFails, TypeOK, SupervisorTypeOK
<1>14. ASSUME NEW p \in Cli, Rename(p) PROVE Heeded'
  BY <1>14 DEF Heeded, GivenUp, Commands, Rename, Go, TypeOK, SupervisorTypeOK
<1>15. ASSUME NEW p \in Cli, Discard(p) PROVE Heeded'
  BY <1>15 DEF Heeded, GivenUp, Commands, Discard, Go, TypeOK, SupervisorTypeOK
<1>16. ASSUME NEW p \in Cli, Finish(p) PROVE Heeded'
  BY <1>16 DEF Heeded, GivenUp, Commands, Finish, Go
<1>17. ASSUME NEW p \in Cli, Fail(p) PROVE Heeded'
  <2>1. pc' = [pc EXCEPT ![p] = pc'[p]] /\ pc'[p] \in {"giveUp", "rollback"}
    BY <1>17 DEF Fail, Go, TypeOK
  <2>2. pc[p] = "fail" /\ UNCHANGED <<supervisor>>
    BY <1>17 DEF Fail
  <2>3. \A q \in Cli : pc'[q] \in GivenUp \/ (q # p /\ pc'[q] = pc[q])
    BY <2>1 DEF GivenUp, TypeOK
  <2> QED  BY <2>2, <2>3 DEF Heeded, GivenUp, TypeOK, SupervisorTypeOK
<1>18. ASSUME NEW p \in Cli, Rollback(p) PROVE Heeded'
  BY <1>18 DEF Heeded, GivenUp, Rollback, Go, Fault, TypeOK, SupervisorTypeOK
<1>19. ASSUME NEW p \in Cli, GiveUp(p) PROVE Heeded'
  BY <1>19 DEF Heeded, GivenUp, GiveUp, Go
<1>20. ASSUME NEW p \in Cli, Clear(p) PROVE Heeded'
  BY <1>20 DEF Heeded, GivenUp, Clear, Go
<1>21. ASSUME NEW p \in Cli, Kill(p) PROVE Heeded'
  BY <1>21 DEF Heeded, GivenUp, Kill, Go, Forget, Enter, TypeOK
<1>22. ASSUME Lapse PROVE Heeded'
  BY <1>22 DEF Heeded, Lapse
<1>23. ASSUME UserActs PROVE Heeded'
  BY <1>23 DEF Heeded, UserActs
<1>24. ASSUME NEW p \in Cli, GuardReady(p), UNCHANGED <<pc, client, root>> PROVE Heeded'
  BY <1>24 DEF Heeded, GuardReady, StartCommand, Enter, TypeOK, SupervisorTypeOK
<1>25. ASSUME NEW p \in Cli, JobResolves(p), UNCHANGED <<pc, client, root>> PROVE Heeded'
  BY <1>25 DEF Heeded, JobResolves, StartCommand, Finalize, Enter, TypeOK, SupervisorTypeOK
<1>26. ASSUME NEW p \in Cli, Complete(p), UNCHANGED <<pc, client, root>> PROVE Heeded'
  BY <1>26 DEF Heeded, Complete, Finalize, Enter
<1>27. ASSUME NEW p \in Cli, Timeout(p), UNCHANGED <<pc, client, root>> PROVE Heeded'
  BY <1>27 DEF Heeded, Timeout, Finalize, Enter
<1>28. ASSUME NEW p \in Cli, Signal(p), UNCHANGED <<pc, client, root>> PROVE Heeded'
  BY <1>28 DEF Heeded, Below, Signal, Finalize, Enter, Active, TypeOK, SupervisorTypeOK
<1>29. ASSUME NEW p \in Cli, Close(p), UNCHANGED <<pc, client, root>> PROVE Heeded'
  BY <1>29 DEF Heeded, Close, Finalize, Enter
<1>30. ASSUME NEW p \in Cli, Cleanup(p), UNCHANGED <<pc, client, root>> PROVE Heeded'
  BY <1>30 DEF Heeded, Cleanup, Enter, TypeOK, SupervisorTypeOK
<1>31. ASSUME NEW p \in Cli, Daemonize(p), UNCHANGED <<pc, client, root>> PROVE Heeded'
  BY <1>31 DEF Heeded, Daemonize
<1>32. ASSUME NEW p \in Cli, CommandExits(p), UNCHANGED <<pc, client, root>> PROVE Heeded'
  BY <1>32 DEF Heeded, CommandExits
<1>33. ASSUME NEW p \in Cli, DaemonExits(p), UNCHANGED <<pc, client, root>> PROVE Heeded'
  BY <1>33 DEF Heeded, DaemonExits
<1>34. ASSUME NEW p \in Cli, GuardDies(p), UNCHANGED <<pc, client, root>> PROVE Heeded'
  BY <1>34 DEF Heeded, GuardDies
<1>35. CASE UNCHANGED vars
  BY <1>35 DEF vars, Heeded
<1> QED  BY <1>1, <1>2, <1>3, <1>4, <1>5, <1>6, <1>7, <1>8, <1>9, <1>10, <1>11, <1>12, <1>13,
   <1>14, <1>15, <1>16, <1>17, <1>18, <1>19, <1>20, <1>21, <1>22, <1>23, <1>24, <1>25, <1>26,
   <1>27, <1>28, <1>29, <1>30, <1>31, <1>32, <1>33, <1>34, <1>35 DEF Next, Step, Supervised,
   SupervisorStep, Callback, Finished

\* Files are committed at their label, and rolled back before the others.
LEMMA CommittedKept ==
  ASSUME CInv, [Next]_vars
  PROVE  Committed'
<1> USE DEF CInv, supervisor, root, client
<1>1. ASSUME NEW p \in Cli, Look(p) PROVE Committed'
  BY <1>1 DEF Committed, Commands, Look, Go, TypeOK
<1>2. ASSUME NEW p \in Cli, Lock(p) PROVE Committed'
  BY <1>2 DEF Committed, Commands, Lock, Go, TypeOK
<1>3. ASSUME NEW p \in Cli, Generate(p) PROVE Committed'
  BY <1>3 DEF Committed, Ended, Commands, Generate, Go, Private, Commit, TypeOK, LockHeld,
     Working
<1>4. ASSUME NEW p \in Cli, Begin(p) PROVE Committed'
  BY <1>4 DEF Committed, Begin
<1>5. ASSUME NEW p \in Cli, PublishSources(p) PROVE Committed'
  BY <1>5 DEF Committed, Ended, PublishSources, Go, TypeOK
<1>6. ASSUME NEW p \in Cli, Proceed(p) PROVE Committed'
  BY <1>6 DEF Committed, Ended, Commands, Proceed, Following, Go, Settled, TypeOK
<1>7. ASSUME NEW p \in Cli, CommandFails(p) PROVE Committed'
  BY <1>7 DEF Committed, Ended, Commands, CommandFails, Go, Settled
<1>8. ASSUME NEW p \in Cli, Retain(p) PROVE Committed'
  BY <1>8 DEF Committed, Ended, Retain, Go, Settled
<1>9. ASSUME NEW p \in Cli, Merge(p) PROVE Committed'
  BY <1>9 DEF Committed, Ended, Commands, Merge, Go, Commit, TypeOK, LockHeld, Working
<1>10. ASSUME NEW p \in Cli, Materialize(p) PROVE Committed'
  BY <1>10 DEF Committed, Ended, Commands, Materialize, Go, TypeOK
<1>11. ASSUME NEW p \in Cli, SaveState(p) PROVE Committed'
  BY <1>11 DEF Committed, Ended, Commands, SaveState, Go, TypeOK, Natively
<1>12. ASSUME NEW p \in Cli, CompleteNative(p) PROVE Committed'
  BY <1>12 DEF Committed, Ended, CompleteNative, Go, TypeOK, Natively
<1>13. ASSUME NEW p \in Cli, CheckTarget(p) PROVE Committed'
  BY <1>13 DEF Committed, CheckTarget, Go, OrFails, TypeOK
<1>14. ASSUME NEW p \in Cli, Rename(p) PROVE Committed'
  BY <1>14 DEF Committed, Rename, Go, TypeOK
<1>15. ASSUME NEW p \in Cli, Discard(p) PROVE Committed'
  BY <1>15 DEF Committed, Ended, Commands, Discard, Go, TypeOK
<1>16. ASSUME NEW p \in Cli, Finish(p) PROVE Committed'
  BY <1>16 DEF Committed, Ended, Commands, Finish, Go
<1>17. ASSUME NEW p \in Cli, Fail(p) PROVE Committed'
  BY <1>17 DEF Committed, Ended, Commands, Fail, Go, TypeOK
<1>18. ASSUME NEW p \in Cli, Rollback(p) PROVE Committed'
  BY <1>18 DEF Committed, Ended, Commands, Rollback, Go, TypeOK
<1>19. ASSUME NEW p \in Cli, GiveUp(p) PROVE Committed'
  BY <1>19 DEF Committed, Ended, Commands, GiveUp, Go, Failing
<1>20. ASSUME NEW p \in Cli, Clear(p) PROVE Committed'
  BY <1>20 DEF Committed, Commands, Clear, Go
<1>21. ASSUME NEW p \in Cli, Kill(p) PROVE Committed'
  BY <1>21 DEF Committed, Commands, Kill, Go
<1>22. ASSUME Lapse PROVE Committed'
  BY <1>22 DEF Committed, Lapse
<1>23. ASSUME UserActs PROVE Committed'
  BY <1>23 DEF Committed, UserActs
<1>24. ASSUME NEW p \in Cli, Supervised(p) PROVE Committed'
  BY <1>24 DEF Committed, Supervised
<1>25. CASE UNCHANGED vars
  BY <1>25 DEF vars, Committed
<1> QED  BY <1>1, <1>2, <1>3, <1>4, <1>5, <1>6, <1>7, <1>8, <1>9, <1>10, <1>11, <1>12, <1>13,
   <1>14, <1>15, <1>16, <1>17, <1>18, <1>19, <1>20, <1>21, <1>22, <1>23, <1>24, <1>25 DEF Next,
   Step, Finished

\* Files replace each other in the target, and a rename finds none.
LEMMA OwnedKept ==
  ASSUME CInv, [Next]_vars
  PROVE  Owned'
<1> USE DEF CInv, supervisor, root, client
<1>1. ASSUME NEW p \in Cli, Look(p) PROVE Owned'
  BY <1>1 DEF Owned, Origin, Look, Go, TypeOK
<1>2. ASSUME NEW p \in Cli, Lock(p) PROVE Owned'
  BY <1>2 DEF Owned, Origin, Lock, Go, TypeOK
<1>3. ASSUME NEW p \in Cli, Generate(p) PROVE Owned'
  BY <1>3 DEF Owned, Origin, Generate, Go, Commit, TypeOK
<1>4. ASSUME NEW p \in Cli, Begin(p) PROVE Owned'
  BY <1>4 DEF Owned, Origin, Begin
<1>5. ASSUME NEW p \in Cli, PublishSources(p) PROVE Owned'
  BY <1>5 DEF Owned, Origin, PublishSources, Go, TypeOK
<1>6. ASSUME NEW p \in Cli, Proceed(p) PROVE Owned'
  BY <1>6 DEF Owned, Origin, Proceed, Following, Go, Settled, Commands
<1>7. ASSUME NEW p \in Cli, CommandFails(p) PROVE Owned'
  BY <1>7 DEF Owned, Origin, CommandFails, Go, Settled, Commands
<1>8. ASSUME NEW p \in Cli, Retain(p) PROVE Owned'
  BY <1>8 DEF Owned, Origin, Retain, Go, Settled, Commands
<1>9. ASSUME NEW p \in Cli, Merge(p) PROVE Owned'
  BY <1>9 DEF Owned, Origin, Merge, Go, Commit, TypeOK
<1>10. ASSUME NEW p \in Cli, Materialize(p) PROVE Owned'
  BY <1>10 DEF Owned, Origin, Materialize, Go, TypeOK
<1>11. ASSUME NEW p \in Cli, SaveState(p) PROVE Owned'
  BY <1>11 DEF Owned, Origin, SaveState, Go, TypeOK
<1>12. ASSUME NEW p \in Cli, CompleteNative(p) PROVE Owned'
  BY <1>12 DEF Owned, Origin, CompleteNative, Committed, Ended
<1>13. ASSUME NEW p \in Cli, CheckTarget(p) PROVE Owned'
  BY <1>13 DEF Owned, Origin, CheckTarget, Go, TypeOK
<1>14. ASSUME NEW p \in Cli, Rename(p) PROVE Owned'
  BY <1>14 DEF Owned, Origin, Rename, Go, TypeOK, Committed
<1>15. ASSUME NEW p \in Cli, Discard(p) PROVE Owned'
  BY <1>15 DEF Owned, Origin, Discard, Committed, Ended
<1>16. ASSUME NEW p \in Cli, Finish(p) PROVE Owned'
  BY <1>16 DEF Owned, Origin, Finish, Go
<1>17. ASSUME NEW p \in Cli, Fail(p) PROVE Owned'
  BY <1>17 DEF Owned, Origin, Fail, Go, TypeOK
<1>18. ASSUME NEW p \in Cli, Rollback(p) PROVE Owned'
  BY <1>18 DEF Owned, Origin, Rollback, Go, TypeOK, Replaced, Ended
<1>19. ASSUME NEW p \in Cli, GiveUp(p) PROVE Owned'
  BY <1>19 DEF Owned, Origin, GiveUp, Go
<1>20. ASSUME NEW p \in Cli, Clear(p) PROVE Owned'
  BY <1>20 DEF Owned, Origin, Clear, Go
<1>21. ASSUME NEW p \in Cli, Kill(p) PROVE Owned'
  BY <1>21 DEF Owned, Origin, Kill, Go, Ended
<1>22. ASSUME Lapse PROVE Owned'
  BY <1>22 DEF Owned, Origin, Lapse
<1>23. ASSUME UserActs PROVE Owned'
  BY <1>23 DEF Owned, UserActs
<1>24. ASSUME NEW p \in Cli, Supervised(p) PROVE Owned'
  BY <1>24 DEF Owned, Origin, Supervised
<1>25. CASE UNCHANGED vars
  BY <1>25 DEF vars, Owned, Origin
<1> QED  BY <1>1, <1>2, <1>3, <1>4, <1>5, <1>6, <1>7, <1>8, <1>9, <1>10, <1>11, <1>12, <1>13,
   <1>14, <1>15, <1>16, <1>17, <1>18, <1>19, <1>20, <1>21, <1>22, <1>23, <1>24, <1>25 DEF Next,
   Step, Finished

\* A journal is written by the owner of the files, and taken back before them.
LEMMA AuthoredKept ==
  ASSUME CInv, [Next]_vars
  PROVE  Authored'
<1> USE DEF CInv, supervisor, root, client
<1>1. ASSUME NEW p \in Cli, Look(p) PROVE Authored'
  BY <1>1 DEF Authored, Look, Go, TypeOK, Committed
<1>2. ASSUME NEW p \in Cli, Lock(p) PROVE Authored'
  BY <1>2 DEF Authored, Lock, Go, TypeOK
<1>3. ASSUME NEW p \in Cli, Generate(p) PROVE Authored'
  BY <1>3 DEF Authored, Generate, Go, Commit, TypeOK
<1>4. ASSUME NEW p \in Cli, Begin(p) PROVE Authored'
  BY <1>4 DEF Authored, Begin
<1>5. ASSUME NEW p \in Cli, PublishSources(p) PROVE Authored'
  BY <1>5 DEF Authored, PublishSources, Go, Private, TypeOK, Committed
<1>6. ASSUME NEW p \in Cli, Proceed(p) PROVE Authored'
  BY <1>6 DEF Authored, Proceed, Following, Go, Settled, Commands
<1>7. ASSUME NEW p \in Cli, CommandFails(p) PROVE Authored'
  BY <1>7 DEF Authored, CommandFails, Go, Mark, Private, Settled, Commands, TypeOK, Committed
<1>8. ASSUME NEW p \in Cli, Retain(p) PROVE Authored'
  BY <1>8 DEF Authored, Retain, Go, Mark, Private, Settled, Commands, TypeOK, Committed
<1>9. ASSUME NEW p \in Cli, Merge(p) PROVE Authored'
  BY <1>9 DEF Authored, Merge, Go, Commit, TypeOK
<1>10. ASSUME NEW p \in Cli, Materialize(p) PROVE Authored'
  BY <1>10 DEF Authored, Materialize, Go, TypeOK
<1>11. ASSUME NEW p \in Cli, SaveState(p) PROVE Authored'
  BY <1>11 DEF Authored, SaveState, Go, TypeOK
<1>12. ASSUME NEW p \in Cli, CompleteNative(p) PROVE Authored'
  BY <1>12 DEF Authored, CompleteNative, Committed, Ended
<1>13. ASSUME NEW p \in Cli, CheckTarget(p) PROVE Authored'
  BY <1>13 DEF Authored, CheckTarget, Go, TypeOK
<1>14. ASSUME NEW p \in Cli, Rename(p) PROVE Authored'
  BY <1>14 DEF Authored, Rename, Go, TypeOK, Committed
<1>15. ASSUME NEW p \in Cli, Discard(p) PROVE Authored'
  BY <1>15 DEF Authored, Discard, Committed, Ended
<1>16. ASSUME NEW p \in Cli, Finish(p) PROVE Authored'
  BY <1>16 DEF Authored, Finish, Go
<1>17. ASSUME NEW p \in Cli, Fail(p) PROVE Authored'
  BY <1>17 DEF Authored, Fail, Go, Mark, TypeOK, Natively
<1>18. ASSUME NEW p \in Cli, Rollback(p) PROVE Authored'
  BY <1>18 DEF Authored, Origin, Rollback, Go, Private, TypeOK, Replaced, Ended
<1>19. ASSUME NEW p \in Cli, GiveUp(p) PROVE Authored'
  BY <1>19 DEF Authored, GiveUp, Go
<1>20. ASSUME NEW p \in Cli, Clear(p) PROVE Authored'
  BY <1>20 DEF Authored, Clear, Go
<1>21. ASSUME NEW p \in Cli, Kill(p) PROVE Authored'
  BY <1>21 DEF Authored, Kill, Go, Ended
<1>22. ASSUME Lapse PROVE Authored'
  BY <1>22 DEF Authored, Lapse
<1>23. ASSUME UserActs PROVE Authored'
  BY <1>23 DEF Authored, UserActs
<1>24. ASSUME NEW p \in Cli, Supervised(p) PROVE Authored'
  BY <1>24 DEF Authored, Supervised
<1>25. CASE UNCHANGED vars
  BY <1>25 DEF vars, Authored
<1> QED  BY <1>1, <1>2, <1>3, <1>4, <1>5, <1>6, <1>7, <1>8, <1>9, <1>10, <1>11, <1>12, <1>13,
   <1>14, <1>15, <1>16, <1>17, <1>18, <1>19, <1>20, <1>21, <1>22, <1>23, <1>24, <1>25 DEF Next,
   Step, Finished

\* The journal that a transaction finds is that of a command line that ended.
LEMMA JournalReplaced ==
  ASSUME CInv, NEW p \in Cli, Working(p), p \notin wrote, author # Nobody
  PROVE  author # p /\ pc[author] \in Ended /\ Origin(author) /\ kind[author] = "inplace"
<1>1. author \in Cli /\ author \in wrote /\ kind[author] = "inplace"
  BY DEF CInv, TypeOK, Authored
<1>2. lock = p
  BY DEF CInv, LockHeld
<1>3. pc[author] \notin {"look", "lock"} /\ (Working(author) => lock = author)
  BY <1>1 DEF CInv, LockHeld, Committed
<1> QED  BY <1>1, <1>2, <1>3 DEF Working, Origin

\* Under the lock nothing but the own transaction changes the target.
LEMMA ReplacedKept ==
  ASSUME CInv, [Next]_vars
  PROVE  Replaced'
<1> USE DEF CInv, supervisor, root, client
<1>1. ASSUME NEW p \in Cli, Look(p) PROVE Replaced'
  BY <1>1 DEF Replaced, Origin, Announces, Look, Go, TypeOK, Committed
<1>2. ASSUME NEW p \in Cli, Lock(p) PROVE Replaced'
  BY <1>2 DEF Replaced, Origin, Announces, Lock, Go, TypeOK, Committed
<1>3. ASSUME NEW p \in Cli, Generate(p) PROVE Replaced'
  <2>1. Commit(p) => Working(p) /\ p \notin wrote
    BY <1>3 DEF Generate, Go, Private, Working, Ended, Committed, Commit, Failing
  <2>2. Commit(p) /\ author # Nobody =>
          author # p /\ pc[author] \in Ended /\ Origin(author) /\ kind[author] = "inplace"
    BY <2>1, JournalReplaced
  <2> QED  BY <1>3, <2>2 DEF Replaced, Origin, Announces, Ended, Generate, Go, Private, Commit,
              TypeOK, Committed, LockHeld, Working, Owned, Announced
<1>4. ASSUME NEW p \in Cli, Begin(p) PROVE Replaced'
  BY <1>4 DEF Replaced, Origin, Announces, Begin
<1>5. ASSUME NEW p \in Cli, PublishSources(p) PROVE Replaced'
  BY <1>5 DEF Replaced, Origin, Announces, Ended, PublishSources, Go, Private, TypeOK,
     Committed
<1>6. ASSUME NEW p \in Cli, Proceed(p) PROVE Replaced'
  BY <1>6 DEF Replaced, Origin, Announces, Ended, Proceed, Following, Go, Settled, Commands
<1>7. ASSUME NEW p \in Cli, CommandFails(p) PROVE Replaced'
  BY <1>7 DEF Replaced, Origin, Announces, Ended, CommandFails, Go, Private, Mark, Settled,
     TypeOK, Committed, Commands
<1>8. ASSUME NEW p \in Cli, Retain(p) PROVE Replaced'
  BY <1>8 DEF Replaced, Origin, Announces, Ended, Retain, Go, Private, Mark, Settled, TypeOK,
     Committed, Commands
<1>9. ASSUME NEW p \in Cli, Merge(p) PROVE Replaced'
  <2>1. Commit(p) => Working(p) /\ p \notin wrote
    BY <1>9 DEF Merge, Go, Working, Ended, Committed, Commit, Failing
  <2>2. Commit(p) /\ author # Nobody =>
          author # p /\ pc[author] \in Ended /\ Origin(author) /\ kind[author] = "inplace"
    BY <2>1, JournalReplaced
  <2> QED  BY <1>9, <2>2 DEF Replaced, Origin, Announces, Ended, Merge, Go, Commit,
              TypeOK, Committed, LockHeld, Working, Owned, Announced
<1>10. ASSUME NEW p \in Cli, Materialize(p) PROVE Replaced'
  BY <1>10 DEF Replaced, Origin, Announces, Ended, Materialize, Go, TypeOK
<1>11. ASSUME NEW p \in Cli, SaveState(p) PROVE Replaced'
  BY <1>11, CreateAssumption DEF Replaced, Origin, Announces, Ended, SaveState, Go, TypeOK
<1>12. ASSUME NEW p \in Cli, CompleteNative(p) PROVE Replaced'
  BY <1>12 DEF Replaced, Origin, Announces, Ended, CompleteNative, Go, TypeOK, Committed,
     Natively
<1>13. ASSUME NEW p \in Cli, CheckTarget(p) PROVE Replaced'
  BY <1>13 DEF Replaced, Origin, Announces, CheckTarget, Go, OrFails, TypeOK, Committed
<1>14. ASSUME NEW p \in Cli, Rename(p) PROVE Replaced'
  BY <1>14 DEF Replaced, Origin, Announces, Rename, Go, TypeOK, Committed
<1>15. ASSUME NEW p \in Cli, Discard(p) PROVE Replaced'
  BY <1>15 DEF Replaced, Origin, Announces, Ended, Discard, Go, TypeOK
<1>16. ASSUME NEW p \in Cli, Finish(p) PROVE Replaced'
  BY <1>16 DEF Replaced, Origin, Announces, Ended, Finish, Go
<1>17. ASSUME NEW p \in Cli, Fail(p) PROVE Replaced'
  BY <1>17 DEF Replaced, Origin, Announces, Ended, Fail, Go, TypeOK, Committed, Natively
<1>18. ASSUME NEW p \in Cli, Rollback(p) PROVE Replaced'
  BY <1>18 DEF Replaced, Origin, Announces, Ended, Rollback, Go, TypeOK, Committed
<1>19. ASSUME NEW p \in Cli, GiveUp(p) PROVE Replaced'
  BY <1>19 DEF Replaced, Origin, Announces, Ended, GiveUp, Go
<1>20. ASSUME NEW p \in Cli, Clear(p) PROVE Replaced'
  BY <1>20 DEF Replaced, Origin, Announces, Ended, Clear, Go
<1>21. ASSUME NEW p \in Cli, Kill(p) PROVE Replaced'
  BY <1>21 DEF Replaced, Origin, Announces, Kill, Go
<1>22. ASSUME Lapse PROVE Replaced'
  BY <1>22 DEF Replaced, Origin, Announces, Lapse
<1>23. ASSUME UserActs PROVE Replaced'
  BY <1>23 DEF Replaced, Origin, Announces, UserActs
<1>24. ASSUME NEW p \in Cli, Supervised(p) PROVE Replaced'
  BY <1>24 DEF Replaced, Origin, Announces, Supervised
<1>25. CASE UNCHANGED vars
  BY <1>25 DEF vars, Replaced, Origin, Announces
<1> QED  BY <1>1, <1>2, <1>3, <1>4, <1>5, <1>6, <1>7, <1>8, <1>9, <1>10, <1>11, <1>12, <1>13,
   <1>14, <1>15, <1>16, <1>17, <1>18, <1>19, <1>20, <1>21, <1>22, <1>23, <1>24, <1>25 DEF Next,
   Step, Finished

\* A native installation is begun beside its journal, and never rolled back.
LEMMA NativelyKept ==
  ASSUME CInv, [Next]_vars
  PROVE  Natively'
<1> USE DEF CInv, supervisor, root, client
<1>1. ASSUME NEW p \in Cli, Look(p) PROVE Natively'
  BY <1>1 DEF Natively, Look, Go, TypeOK
<1>2. ASSUME NEW p \in Cli, Lock(p) PROVE Natively'
  BY <1>2 DEF Natively, Lock, Go, TypeOK
<1>3. ASSUME NEW p \in Cli, Generate(p) PROVE Natively'
  BY <1>3 DEF Natively, Generate, Go, Commit, TypeOK
<1>4. ASSUME NEW p \in Cli, Begin(p) PROVE Natively'
  BY <1>4 DEF Natively, Begin
<1>5. ASSUME NEW p \in Cli, PublishSources(p) PROVE Natively'
  BY <1>5 DEF Natively, PublishSources, Go, Private, TypeOK
<1>6. ASSUME NEW p \in Cli, Proceed(p) PROVE Natively'
  BY <1>6 DEF Natively, Commands, Committed, Proceed, Following, Go, Private, Settled, TypeOK
<1>7. ASSUME NEW p \in Cli, CommandFails(p) PROVE Natively'
  BY <1>7 DEF Natively, CommandFails, Go, Mark
<1>8. ASSUME NEW p \in Cli, Retain(p) PROVE Natively'
  BY <1>8 DEF Natively, Retain, Go, Mark
<1>9. ASSUME NEW p \in Cli, Merge(p) PROVE Natively'
  BY <1>9 DEF Natively, Merge, Go, Commit, TypeOK
<1>10. ASSUME NEW p \in Cli, Materialize(p) PROVE Natively'
  BY <1>10 DEF Natively, Materialize, Go, TypeOK
<1>11. ASSUME NEW p \in Cli, SaveState(p) PROVE Natively'
  BY <1>11 DEF Natively, SaveState, Go, TypeOK
<1>12. ASSUME NEW p \in Cli, CompleteNative(p) PROVE Natively'
  BY <1>12 DEF Natively, CompleteNative, Go, TypeOK, Ended, LockHeld, Working
<1>13. ASSUME NEW p \in Cli, CheckTarget(p) PROVE Natively'
  BY <1>13 DEF Natively, CheckTarget, Go, OrFails, TypeOK
<1>14. ASSUME NEW p \in Cli, Rename(p) PROVE Natively'
  BY <1>14 DEF Natively, Rename, Go, TypeOK
<1>15. ASSUME NEW p \in Cli, Discard(p) PROVE Natively'
  BY <1>15 DEF Natively, Discard, Go, TypeOK
<1>16. ASSUME NEW p \in Cli, Finish(p) PROVE Natively'
  BY <1>16 DEF Natively, Finish, Go
<1>17. ASSUME NEW p \in Cli, Fail(p) PROVE Natively'
  BY <1>17 DEF Natively, Fail, Go, TypeOK, Ended, LockHeld, Working
<1>18. ASSUME NEW p \in Cli, Rollback(p) PROVE Natively'
  BY <1>18 DEF Natively, Rollback, Go, Private, TypeOK, Ended, LockHeld, Working
<1>19. ASSUME NEW p \in Cli, GiveUp(p) PROVE Natively'
  BY <1>19 DEF Natively, GiveUp, Go
<1>20. ASSUME NEW p \in Cli, Clear(p) PROVE Natively'
  BY <1>20 DEF Natively, Clear, Go
<1>21. ASSUME NEW p \in Cli, Kill(p) PROVE Natively'
  BY <1>21 DEF Natively, Kill, Go
<1>22. ASSUME Lapse PROVE Natively'
  BY <1>22 DEF Natively, Lapse
<1>23. ASSUME UserActs PROVE Natively'
  BY <1>23 DEF Natively, UserActs
<1>24. ASSUME NEW p \in Cli, Supervised(p) PROVE Natively'
  BY <1>24 DEF Natively, Supervised
<1>25. CASE UNCHANGED vars
  BY <1>25 DEF vars, Natively
<1> QED  BY <1>1, <1>2, <1>3, <1>4, <1>5, <1>6, <1>7, <1>8, <1>9, <1>10, <1>11, <1>12, <1>13,
   <1>14, <1>15, <1>16, <1>17, <1>18, <1>19, <1>20, <1>21, <1>22, <1>23, <1>24, <1>25 DEF Next,
   Step, Finished

\* The labels of a success come after one another.
LEMMA ReachedKept ==
  ASSUME CInv, [Next]_vars
  PROVE  Reached'
<1> USE DEF CInv, supervisor, root, client
<1>1. ASSUME NEW p \in Cli, Look(p) PROVE Reached'
  BY <1>1 DEF Reached, Look, Go, TypeOK
<1>2. ASSUME NEW p \in Cli, Lock(p) PROVE Reached'
  BY <1>2 DEF Reached, Lock, Go, TypeOK
<1>3. ASSUME NEW p \in Cli, Generate(p) PROVE Reached'
  BY <1>3 DEF Reached, Generate, Go, TypeOK
<1>4. ASSUME NEW p \in Cli, Begin(p) PROVE Reached'
  BY <1>4 DEF Reached, Begin
<1>5. ASSUME NEW p \in Cli, PublishSources(p) PROVE Reached'
  BY <1>5 DEF Reached, PublishSources, Go, TypeOK
<1>6. ASSUME NEW p \in Cli, Proceed(p) PROVE Reached'
  BY <1>6 DEF Reached, Commands, Proceed, Following, Go, Settled
<1>7. ASSUME NEW p \in Cli, CommandFails(p) PROVE Reached'
  BY <1>7 DEF Reached, CommandFails, Go
<1>8. ASSUME NEW p \in Cli, Retain(p) PROVE Reached'
  BY <1>8 DEF Reached, Retain, Go
<1>9. ASSUME NEW p \in Cli, Merge(p) PROVE Reached'
  BY <1>9 DEF Reached, Merge, Go, TypeOK
<1>10. ASSUME NEW p \in Cli, Materialize(p) PROVE Reached'
  BY <1>10 DEF Reached, Materialize, Go, TypeOK
<1>11. ASSUME NEW p \in Cli, SaveState(p) PROVE Reached'
  BY <1>11, CreateAssumption DEF Reached, SaveState, Go, TypeOK, Natively
<1>12. ASSUME NEW p \in Cli, CompleteNative(p) PROVE Reached'
  BY <1>12 DEF Reached, CompleteNative, Go, TypeOK
<1>13. ASSUME NEW p \in Cli, CheckTarget(p) PROVE Reached'
  BY <1>13 DEF Reached, CheckTarget, Go, OrFails, TypeOK
<1>14. ASSUME NEW p \in Cli, Rename(p) PROVE Reached'
  BY <1>14, CreateAssumption DEF Reached, Rename, Go, TypeOK
<1>15. ASSUME NEW p \in Cli, Discard(p) PROVE Reached'
  BY <1>15 DEF Reached, Discard, Go, TypeOK
<1>16. ASSUME NEW p \in Cli, Finish(p) PROVE Reached'
  BY <1>16 DEF Reached, Finish, Go
<1>17. ASSUME NEW p \in Cli, Fail(p) PROVE Reached'
  BY <1>17 DEF Reached, Fail, Go, TypeOK
<1>18. ASSUME NEW p \in Cli, Rollback(p) PROVE Reached'
  BY <1>18 DEF Reached, Rollback, Go, TypeOK
<1>19. ASSUME NEW p \in Cli, GiveUp(p) PROVE Reached'
  BY <1>19 DEF Reached, GiveUp, Go
<1>20. ASSUME NEW p \in Cli, Clear(p) PROVE Reached'
  BY <1>20 DEF Reached, Clear, Go
<1>21. ASSUME NEW p \in Cli, Kill(p) PROVE Reached'
  BY <1>21 DEF Reached, Kill, Go
<1>22. ASSUME Lapse PROVE Reached'
  BY <1>22 DEF Reached, Lapse
<1>23. ASSUME UserActs PROVE Reached'
  BY <1>23 DEF Reached, UserActs
<1>24. ASSUME NEW p \in Cli, Supervised(p) PROVE Reached'
  BY <1>24 DEF Reached, Supervised
<1>25. CASE UNCHANGED vars
  BY <1>25 DEF vars, Reached
<1> QED  BY <1>1, <1>2, <1>3, <1>4, <1>5, <1>6, <1>7, <1>8, <1>9, <1>10, <1>11, <1>12, <1>13,
   <1>14, <1>15, <1>16, <1>17, <1>18, <1>19, <1>20, <1>21, <1>22, <1>23, <1>24, <1>25 DEF Next,
   Step, Finished

\* A command line that gives up has removed what is its own, or says so.
LEMMA FailingKept ==
  ASSUME CInv, [Next]_vars
  PROVE  Failing'
<1> USE DEF CInv, supervisor, root, client
<1>1. ASSUME NEW p \in Cli, Look(p) PROVE Failing'
  BY <1>1 DEF Failing, Look, Go, TypeOK
<1>2. ASSUME NEW p \in Cli, Lock(p) PROVE Failing'
  BY <1>2 DEF Failing, Lock, Go, TypeOK
<1>3. ASSUME NEW p \in Cli, Generate(p) PROVE Failing'
  BY <1>3 DEF Failing, Generate, Go, TypeOK
<1>4. ASSUME NEW p \in Cli, Begin(p) PROVE Failing'
  BY <1>4 DEF Failing, Begin
<1>5. ASSUME NEW p \in Cli, PublishSources(p) PROVE Failing'
  BY <1>5 DEF Failing, PublishSources, Go, TypeOK
<1>6. ASSUME NEW p \in Cli, Proceed(p) PROVE Failing'
  BY <1>6 DEF Failing, Commands, Proceed, Following, Go, Settled
<1>7. ASSUME NEW p \in Cli, CommandFails(p) PROVE Failing'
  BY <1>7 DEF Failing, Commands, CommandFails, Go, Settled
<1>8. ASSUME NEW p \in Cli, Retain(p) PROVE Failing'
  BY <1>8 DEF Failing, Commands, Retain, Go, Settled
<1>9. ASSUME NEW p \in Cli, Merge(p) PROVE Failing'
  BY <1>9 DEF Failing, Merge, Go, TypeOK
<1>10. ASSUME NEW p \in Cli, Materialize(p) PROVE Failing'
  BY <1>10 DEF Failing, Materialize, Go, TypeOK
<1>11. ASSUME NEW p \in Cli, SaveState(p) PROVE Failing'
  BY <1>11 DEF Failing, SaveState, Go, TypeOK
<1>12. ASSUME NEW p \in Cli, CompleteNative(p) PROVE Failing'
  BY <1>12 DEF Failing, Natively, CompleteNative, Go, TypeOK
<1>13. ASSUME NEW p \in Cli, CheckTarget(p) PROVE Failing'
  BY <1>13 DEF Failing, CheckTarget, Go, OrFails, TypeOK
<1>14. ASSUME NEW p \in Cli, Rename(p) PROVE Failing'
  BY <1>14 DEF Failing, Rename, Go, TypeOK
<1>15. ASSUME NEW p \in Cli, Discard(p) PROVE Failing'
  BY <1>15 DEF Failing, Discard, Go, TypeOK
<1>16. ASSUME NEW p \in Cli, Finish(p) PROVE Failing'
  BY <1>16 DEF Failing, Finish, Go
<1>17. ASSUME NEW p \in Cli, Fail(p) PROVE Failing'
  BY <1>17 DEF Failing, Fail, Go, TypeOK
<1>18. ASSUME NEW p \in Cli, Rollback(p) PROVE Failing'
  BY <1>18 DEF Failing, Rollback, Go, TypeOK
<1>19. ASSUME NEW p \in Cli, GiveUp(p) PROVE Failing'
  BY <1>19 DEF Failing, GiveUp, Go
<1>20. ASSUME NEW p \in Cli, Clear(p) PROVE Failing'
  BY <1>20 DEF Failing, Clear, Go, TypeOK
<1>21. ASSUME NEW p \in Cli, Kill(p) PROVE Failing'
  BY <1>21 DEF Failing, Kill, Go
<1>22. ASSUME Lapse PROVE Failing'
  BY <1>22 DEF Failing, Lapse
<1>23. ASSUME UserActs PROVE Failing'
  BY <1>23 DEF Failing, UserActs
<1>24. ASSUME NEW p \in Cli, Supervised(p) PROVE Failing'
  BY <1>24 DEF Failing, Supervised
<1>25. CASE UNCHANGED vars
  BY <1>25 DEF vars, Failing
<1> QED  BY <1>1, <1>2, <1>3, <1>4, <1>5, <1>6, <1>7, <1>8, <1>9, <1>10, <1>11, <1>12, <1>13,
   <1>14, <1>15, <1>16, <1>17, <1>18, <1>19, <1>20, <1>21, <1>22, <1>23, <1>24, <1>25 DEF Next,
   Step, Finished

\* The journal goes when the project is finished.
LEMMA AnnouncedKept ==
  ASSUME CInv, [Next]_vars
  PROVE  Announced'
<1> USE DEF CInv, supervisor, root, client
<1>1. ASSUME NEW p \in Cli, Look(p) PROVE Announced'
  BY <1>1 DEF Announced, Look, TypeOK, Failing
<1>2. ASSUME NEW p \in Cli, Lock(p) PROVE Announced'
  BY <1>2 DEF Announced, Lock
<1>3. ASSUME NEW p \in Cli, Generate(p) PROVE Announced'
  BY <1>3 DEF Announced, Generate, Private, Commit, Natively
<1>4. ASSUME NEW p \in Cli, Begin(p) PROVE Announced'
  BY <1>4 DEF Announced, Begin
<1>5. ASSUME NEW p \in Cli, PublishSources(p) PROVE Announced'
  BY <1>5 DEF Announced, PublishSources
<1>6. ASSUME NEW p \in Cli, Proceed(p) PROVE Announced'
  BY <1>6 DEF Announced, Proceed, Following, Private, Natively
<1>7. ASSUME NEW p \in Cli, CommandFails(p) PROVE Announced'
  BY <1>7 DEF Announced, CommandFails, Mark
<1>8. ASSUME NEW p \in Cli, Retain(p) PROVE Announced'
  BY <1>8 DEF Announced, Retain, Mark
<1>9. ASSUME NEW p \in Cli, Merge(p) PROVE Announced'
  BY <1>9 DEF Announced, Merge, Commit, Natively, Committed
<1>10. ASSUME NEW p \in Cli, Materialize(p) PROVE Announced'
  BY <1>10 DEF Announced, Materialize
<1>11. ASSUME NEW p \in Cli, SaveState(p) PROVE Announced'
  BY <1>11, CreateAssumption DEF Announced, SaveState
<1>12. ASSUME NEW p \in Cli, CompleteNative(p) PROVE Announced'
  BY <1>12 DEF Announced, CompleteNative, Committed, Reached, Ended
<1>13. ASSUME NEW p \in Cli, CheckTarget(p) PROVE Announced'
  BY <1>13 DEF Announced, CheckTarget
<1>14. ASSUME NEW p \in Cli, Rename(p) PROVE Announced'
  BY <1>14, CreateAssumption DEF Announced, Rename, Reached
<1>15. ASSUME NEW p \in Cli, Discard(p) PROVE Announced'
  BY <1>15 DEF Announced, Discard
<1>16. ASSUME NEW p \in Cli, Finish(p) PROVE Announced'
  BY <1>16 DEF Announced, Finish
<1>17. ASSUME NEW p \in Cli, Fail(p) PROVE Announced'
  BY <1>17 DEF Announced, Fail, Mark
<1>18. ASSUME NEW p \in Cli, Rollback(p) PROVE Announced'
  BY <1>18, CreateAssumption DEF Announced, Rollback, Private, TypeOK, Committed, Replaced,
     Announces, Ended
<1>19. ASSUME NEW p \in Cli, GiveUp(p) PROVE Announced'
  BY <1>19 DEF Announced, GiveUp
<1>20. ASSUME NEW p \in Cli, Clear(p) PROVE Announced'
  BY <1>20 DEF Announced, Clear
<1>21. ASSUME NEW p \in Cli, Kill(p) PROVE Announced'
  BY <1>21 DEF Announced, Kill
<1>22. ASSUME Lapse PROVE Announced'
  BY <1>22 DEF Announced, Lapse
<1>23. ASSUME UserActs PROVE Announced'
  BY <1>23 DEF Announced, UserActs
<1>24. ASSUME NEW p \in Cli, Supervised(p) PROVE Announced'
  BY <1>24 DEF Announced, Supervised
<1>25. CASE UNCHANGED vars
  BY <1>25 DEF vars, Announced
<1> QED  BY <1>1, <1>2, <1>3, <1>4, <1>5, <1>6, <1>7, <1>8, <1>9, <1>10, <1>11, <1>12, <1>13,
   <1>14, <1>15, <1>16, <1>17, <1>18, <1>19, <1>20, <1>21, <1>22, <1>23, <1>24, <1>25 DEF Next,
   Step, Finished

\* A step leaves alone what other processes may be at work on.
LEMMA StepPreserves ==
  ASSUME CInv, [Next]_vars
  PROVE  Preserves
<1> USE DEF CInv, supervisor, root, client
<1>1. ASSUME NEW q \in Cli, Look(q) PROVE Preserves
  BY <1>1 DEF Preserves, Look, Below, Commands, TypeOK
<1>2. ASSUME NEW q \in Cli, Lock(q) PROVE Preserves
  BY <1>2, CreateAssumption DEF Preserves, Lock, Below, Commands, TypeOK
<1>3. ASSUME NEW q \in Cli, Generate(q) PROVE Preserves
  BY <1>3, CreateAssumption DEF Preserves, Generate, Private, Commit, Holds, Ended, Committed,
     Owned, Origin, LockHeld, Working
<1>4. ASSUME NEW q \in Cli, Begin(q) PROVE Preserves
  BY <1>4 DEF Preserves, Begin
<1>5. ASSUME NEW q \in Cli, PublishSources(q) PROVE Preserves
  BY <1>5 DEF Preserves, PublishSources
<1>6. ASSUME NEW q \in Cli, Proceed(q) PROVE Preserves
  BY <1>6 DEF Preserves, Proceed
<1>7. ASSUME NEW q \in Cli, CommandFails(q) PROVE Preserves
  BY <1>7 DEF Preserves, CommandFails
<1>8. ASSUME NEW q \in Cli, Retain(q) PROVE Preserves
  BY <1>8 DEF Preserves, Retain
<1>9. ASSUME NEW q \in Cli, Merge(q) PROVE Preserves
  BY <1>9, CreateAssumption DEF Preserves, Merge, Commit, Holds, Ended, Committed, Owned,
     Origin, LockHeld, Working
<1>10. ASSUME NEW q \in Cli, Materialize(q) PROVE Preserves
  BY <1>10 DEF Preserves, Materialize
<1>11. ASSUME NEW q \in Cli, SaveState(q) PROVE Preserves
  BY <1>11 DEF Preserves, SaveState, Below, Commands, TypeOK
<1>12. ASSUME NEW q \in Cli, CompleteNative(q) PROVE Preserves
  BY <1>12 DEF Preserves, CompleteNative
<1>13. ASSUME NEW q \in Cli, CheckTarget(q) PROVE Preserves
  BY <1>13 DEF Preserves, CheckTarget
<1>14. ASSUME NEW q \in Cli, Rename(q) PROVE Preserves
  BY <1>14, CreateAssumption DEF Preserves, Rename, Below, Commands, Owned, TypeOK
<1>15. ASSUME NEW q \in Cli, Discard(q) PROVE Preserves
  BY <1>15 DEF Preserves, Discard, Below, Commands, TypeOK
<1>16. ASSUME NEW q \in Cli, Finish(q) PROVE Preserves
  BY <1>16 DEF Preserves, Finish, Release, Below, Commands
<1>17. ASSUME NEW q \in Cli, Fail(q) PROVE Preserves
  BY <1>17 DEF Preserves, Fail
<1>18. ASSUME NEW q \in Cli, Rollback(q) PROVE Preserves
  BY <1>18 DEF Preserves, Rollback, Below, Ended, Commands, Committed, Natively
<1>19. ASSUME NEW q \in Cli, GiveUp(q) PROVE Preserves
  BY <1>19 DEF Preserves, GiveUp, Release, Below, Commands
<1>20. ASSUME NEW q \in Cli, Clear(q) PROVE Preserves
  BY <1>20 DEF Preserves, Clear, Release, Below, Commands, TypeOK
<1>21. ASSUME NEW q \in Cli, Kill(q) PROVE Preserves
  BY <1>21 DEF Preserves, Kill
<1>22. ASSUME Lapse PROVE Preserves
  BY <1>22 DEF Preserves, Lapse
<1>23. ASSUME UserActs PROVE Preserves
  BY <1>23 DEF Preserves, UserActs
<1>24. ASSUME NEW q \in Cli, Supervised(q) PROVE Preserves
  BY <1>24 DEF Preserves, Supervised
<1>25. CASE UNCHANGED vars
  BY <1>25 DEF vars, Preserves
<1> QED  BY <1>1, <1>2, <1>3, <1>4, <1>5, <1>6, <1>7, <1>8, <1>9, <1>10, <1>11, <1>12, <1>13,
   <1>14, <1>15, <1>16, <1>17, <1>18, <1>19, <1>20, <1>21, <1>22, <1>23, <1>24, <1>25 DEF Next,
   Step, Finished

-----------------------------------------------------------------------------
(* The theorems. *)

\* At the start no command line has done anything.
LEMMA InitHolds == Init => CInv
<1> SUFFICES ASSUME Init PROVE CInv
  OBVIOUS
<1> USE CreateAssumption DEF Init, SupervisorInit
<1>1. TypeOK
  BY DEF TypeOK, SupervisorTypeOK, Label, Target, Journal
<1>2. LockHeld /\ Below /\ Heeded /\ Committed /\ Owned /\ Authored /\ Replaced
  BY DEF LockHeld, Working, Below, Heeded, Committed, Owned, Authored, Replaced, Commands
<1>3. Natively /\ Reached /\ Failing /\ Announced
  BY DEF Natively, Reached, Failing, Announced
<1> QED  BY <1>1, <1>2, <1>3 DEF CInv

\* The invariant holds in every reachable state.
LEMMA AlwaysHolds == Spec => []CInv
<1>1. CInv /\ [Next]_vars => CInv'
  BY TypeKept, LockHeldKept, BelowKept, HeededKept, CommittedKept, OwnedKept, AuthoredKept,
     ReplacedKept,
     NativelyKept, ReachedKept, FailingKept, AnnouncedKept DEF CInv
<1> QED  BY <1>1, InitHolds, PTL DEF Spec

\* Supervised calls, command lines and the target keep their types.
THEOREM TypeCorrect == Spec => []TypeOK
<1>1. CInv => TypeOK
  BY DEF CInv
<1> QED  BY <1>1, AlwaysHolds, PTL

\* A signal that was received while a command ran is never lost in the race of
\* callbacks: the command line does not end with a finished project.
THEOREM SignalIsHeeded == Spec => []SignalHeeded
<1>1. CInv => SignalHeeded
  BY DEF CInv, Heeded, SignalHeeded, GivenUp, Commands
<1> QED  BY <1>1, AlwaysHolds, PTL

\* A failure that names no left-over files has left none in the target, which
\* may be another command line's by now.
THEOREM FailureIsClean == Spec => []FailureLeavesNothing
<1>1. CInv => FailureLeavesNothing
  BY CreateAssumption DEF CInv, Failing, Committed, Owned, Origin, Authored, Natively,
     FailureLeavesNothing
<1> QED  BY <1>1, AlwaysHolds, PTL

\* A project that was published, or whose installation in place was prepared
\* and that has no journal, is finished: its commands have succeeded and a state
\* is saved.  It says nothing of a project in place before its installation.
THEOREM UnfinishedIsAnnounced == Spec => []Announced
<1>1. CInv => Announced
  BY DEF CInv
<1> QED  BY <1>1, AlwaysHolds, PTL

\* Nothing is undone below processes that may still write.
THEOREM NothingIsUndone == Spec => NothingUndone
<1>1. CInv /\ [Next]_vars => Preserves
  BY StepPreserves
<1>2. CInv /\ [Next]_vars =>
        [\A p \in Cli :
           /\ (writers[p] # {} /\ Holds(p)) =>
                /\ cand'[p] = cand[p]
                /\ project = p => project' = p
                /\ (lock = p /\ pc[p] \notin Ended) => lock' = p
           /\ (p \in native /\ project = p) => (project' = p \/ project' \in wrote' \ wrote)]_vars
  BY <1>1 DEF Preserves
<1> QED  BY <1>2, AlwaysHolds, PTL DEF Spec, NothingUndone
=============================================================================
