---------------------------- MODULE MCUasGateway ----------------------------
(* UasGateway for TLC: two accounts, of which the first is the bootstrapped  *)
(* administrator; everything that can take an administrator away, two        *)
(* operations of other workers, and a rule with a star.                      *)
EXTENDS UasGateway, TLC

CONSTANTS u1, u2

\* Requests are interchangeable.
Symmetry == Permutations(Requests)

Ask(op, u, role) == [op |-> op, user |-> u, role |-> role]

MCCalls ==
    {Ask("bootstrap", u1, None), Ask("login", u1, None), Ask("login", u2, None),
     Ask("create", u2, Admin), Ask("create", u2, "operator"),
     Ask("disable", u1, None), Ask("disable", u2, None), Ask("delete", u1, None),
     Ask("purchase", None, None), Ask("list_drones", None, None)}

MCRules == {<<Gateway, "user_management", "*">>}
=============================================================================
