---------------------------- MODULE MCEntityPool ----------------------------
\* Instances of EntityPool for TLC: one vehicle id and one blip id.
EXTENDS EntityPool
=============================================================================
