------------------------ MODULE MCSecurityInstallation ------------------------
(* SecurityInstallation for TLC.                                            *)
EXTENDS SecurityInstallation, TLC

\* Lockfiles differ in nothing but being different, and so do runs when all of
\* them or none may use --force.
Symmetry == Permutations(Version) \cup Permutations(Run)
=============================================================================
