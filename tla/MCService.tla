----------------------------- MODULE MCService -----------------------------
(* An instance of Service for model checking.                              *)
EXTENDS Service, TLC

\* Processes are interchangeable, and so are commands.
Symmetry == Permutations(Servers) \cup Permutations(Controllers)
=============================================================================
