--------------------------- MODULE MCRunLifecycle ---------------------------
\* Instances of RunLifecycle for TLC: the processes are interchangeable.
EXTENDS RunLifecycle, TLC

Symmetry == Permutations(Proc)
=============================================================================
