-------------------------- MODULE MCResultLifecycle --------------------------
(* Three result objects: one current, one superseded and one being built.  *)
EXTENDS ResultLifecycle

CONSTANTS r1, r2, r3

MCResults == {r1, r2, r3}
EveryMode == BOOLEAN
NoFaults == {}
AllFaults == FaultKinds
=============================================================================
