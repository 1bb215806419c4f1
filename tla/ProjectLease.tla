----------------------------- MODULE ProjectLease -----------------------------
(***************************************************************************)
(* What acquireLock and release of src/src/lib/lock.ts promise to the      *)
(* commands that call them: a lease with at most one owner who has not     *)
(* forfeited it.  An owner forfeits the lease when nothing renews it for   *)
(* its time to live (the process died or was suspended) or when another    *)
(* command is run with --force; a forfeited owner may be succeeded.        *)
(*                                                                         *)
(* The promise has one hole: a recovery may rename away the claim of an    *)
(* invocation in the middle of its transition.  From then on the lease is  *)
(* broken, and owners are no longer kept apart.                            *)
(***************************************************************************)
CONSTANT Proc

VARIABLES
  owners,     \* the running invocations that own the lease, as far as they know
  forfeited,  \* those that may be succeeded by another
  past,       \* the invocations that have owned the lease
  broken      \* a recovery took the claim of a transition that goes on

lvars == <<owners, forfeited, past, broken>>

Init == owners = {} /\ forfeited = {} /\ past = {} /\ broken = FALSE

\* acquireLock succeeds once in an invocation, and, as long as the lease is
\* not broken, only when every present owner has forfeited it.
Acquire(p) ==
  /\ p \notin past
  /\ owners \subseteq forfeited \/ broken
  /\ owners' = owners \cup {p} /\ past' = past \cup {p}
  /\ UNCHANGED <<forfeited, broken>>

\* release, or the end of the process: it never owns the lease again.
Leave(p) ==
  /\ p \in owners
  /\ owners' = owners \ {p}
  /\ UNCHANGED <<forfeited, past, broken>>

\* Only an invocation that has owned the lease can forfeit it.
Forfeit(p) ==
  /\ p \in past
  /\ forfeited' = forfeited \cup {p}
  /\ UNCHANGED <<owners, past, broken>>

\* The theft.
Break == broken' = TRUE /\ UNCHANGED <<owners, forfeited, past>>

Next == Break \/ \E p \in Proc : Acquire(p) \/ Leave(p) \/ Forfeit(p)

Spec == Init /\ [][Next]_lvars

\* The mutual exclusion the commands rely on.
OneOwner == ~broken => \A p, q \in owners \ forfeited : p = q
=============================================================================
