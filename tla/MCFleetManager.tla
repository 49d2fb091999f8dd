--------------------------- MODULE MCFleetManager ---------------------------
(* FleetManager for TLC: one update per kind of effect it can have.          *)
EXTENDS FleetManager, TLC

\* The workers of the bus are interchangeable.
Symmetry == Permutations(Threads)

Upd(st, bat, ce) == [status |-> st, battery |-> bat, cert |-> ce]

MCUpdates == {
    Upd("available", "bad", "keep"),     \* refused, with the status written
    Upd("bad", "keep", "keep"),
    Upd("in_mission", "low", "keep"),
    Upd("charging", "ok", "renewed"),
    Upd("keep", "keep", "revoked"),
    Upd("keep", "keep", "valid")}
=============================================================================
