--------------------------- MODULE MCUasLifecycle ---------------------------
(* Instances of UasLifecycle for TLC: one firmware, certificate and drone,   *)
(* and the requests made about them.                                         *)
EXTENDS UasLifecycle, TLC

CONSTANTS f1, k1, s1, a, b, g1, g2,
          sub, cert, rep, reg, buyA, buyB

Ask(kind, operator, named) ==
  [kind |-> kind, firmware |-> f1, cert |-> k1, serial |-> s1,
   operator |-> operator, goals |-> named]

MCRequest ==
  [c \in Calls |->
    CASE c = sub -> Ask("submit", a, {{g1}})
      [] c = cert -> Ask("certify", a, {None})
      [] c = rep -> Ask("report", a, {None})
      [] c = reg -> Ask("register", a, {{g1}, {g1, g2}})
      [] c = buyA -> Ask("purchase", a, {None})
      [] c = buyB -> Ask("purchase", b, {None})]

(* The two purchases differ in nothing but who makes them.                   *)
MCSymmetry ==
  {p \in Permutations({a, b, buyA, buyB}) :
     p[a] \in {a, b} /\ p[buyA] = IF p[a] = a THEN buyA ELSE buyB}

MCLocalCert == [f \in Firmwares |-> k1]
MCRegulatorGoals == {{g1}}
=============================================================================
