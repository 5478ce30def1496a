----------------------------- MODULE MCManager -----------------------------
EXTENDS Manager, TLC

\* Clients are interchangeable, and so are broker slots.
Symmetry == Permutations(Clients) \cup Permutations(Brokers)
=============================================================================
