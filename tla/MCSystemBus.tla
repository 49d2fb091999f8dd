----------------------------- MODULE MCSystemBus -----------------------------
(* SystemBus for TLC: three calls, of which the inbound ones share the pool. *)
EXTENDS SystemBus, TLC

\* The handlers' calls are interchangeable, and so are the other threads'.
Symmetry == Permutations(Inbound) \cup Permutations(Calls \ Inbound)
=============================================================================
