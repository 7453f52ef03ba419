------------------------------ MODULE MCMytbf ------------------------------
EXTENDS Mytbf, TLC

\* Threads are interchangeable, and so are the structs malloc returns.
Symmetry == Permutations(Thread) \cup Permutations(Bucket)
=============================================================================
