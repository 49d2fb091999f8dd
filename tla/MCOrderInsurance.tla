-------------------------- MODULE MCOrderInsurance --------------------------
(* The instances of OrderInsurance that TLC checks. *)
EXTENDS OrderInsurance, TLC

CONSTANTS c1, c2, c3, d1, d2, o1, o2

Req(kind, action, numeric) ==
    [kind |-> kind, action |-> action, order |-> o1, drone |-> d1, numeric |-> numeric]

Buy(action) == Req("buy", action, TRUE)

\* A registration or a purchase; an order, an assignment or another request to
\* the insurer; a termination, of this order or another, a second assignment or
\* registration, that of a second drone, or an action the insurer does not know.
MCRequests ==
    (c1 :> {Req("register", None, TRUE), Buy("annual_insurance")}) @@
    (c2 :> {Req("create", None, TRUE), Req("create", None, FALSE), Req("select", None, TRUE),
            Buy("mission_insurance"), Req("buy", "mission_insurance", FALSE),
            Buy("calculate_policy"), Buy("report_incident"), Req("buy", "report_incident", FALSE)}) @@
    (c3 :> {Buy("terminate_policy"), [Buy("terminate_policy") EXCEPT !.order = o2],
            Req("select", None, TRUE), Req("register", None, TRUE), Buy("unknown"),
            [Req("register", None, TRUE) EXCEPT !.drone = d2]})

\* One purchase.
MCPurchase == c1 :> {Buy("mission_insurance"), Req("buy", "mission_insurance", FALSE)}
=============================================================================
