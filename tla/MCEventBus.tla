----------------------------- MODULE MCEventBus -----------------------------
\* Instances of EventBus for TLC.  The functions are interchangeable.
EXTENDS EventBus, TLC

Symmetry == Permutations(Functions)
=============================================================================
