-------------------------- MODULE MCReconcileApply --------------------------
(* An instance of ReconcileApply for TLC: a file that every goal renders, in *)
(* versions of its own; one that only the second configuration has; one that *)
(* only the first has; a seed that a later CLI takes over; an added artifact. *)
EXTENDS ReconcileApply

MCPath == {"page", "new", "old", "seed", "extra"}
MCGen == {"g1", "g2", "g3"}

\* The second configuration renders g2 where the first renders g1, and the
\* second CLI version g3 where the first renders g2.
Text(g) == IF g[1] = 1 THEN "g1" ELSE IF g[2] = 1 THEN "g2" ELSE "g3"

MCTarget == [g \in Goal |-> [p \in MCPath |->
  CASE p = "page" -> Text(g)
    [] p = "new" -> IF g[1] = 2 THEN Text(g) ELSE None
    [] p = "old" -> IF g[1] = 1 THEN "g1" ELSE None
    [] p = "seed" -> IF g = <<2, 1>> THEN None ELSE "g1"
    [] p = "extra" -> IF g = <<1, 1>> THEN "g2" ELSE None]]

MCLife == [g \in Goal |-> [p \in MCPath |->
  CASE p = "seed" /\ g[2] = 1 -> "seed-once"
    [] p = "page" /\ g[1] = 2 -> "structured-merge"
    [] OTHER -> "generator-owned"]]
MCPlace == [p \in MCPath |->
  CASE p = "extra" -> 1 [] p = "new" -> 2 [] p = "old" -> 3 [] p = "page" -> 4 [] p = "seed" -> 5]
MCFirst == <<1, 1>>
=============================================================================
