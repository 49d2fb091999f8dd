-------------------------- MODULE OperatorBusiness --------------------------
(* The operator's prices: BusinessLogicCore and BusinessLogicService         *)
(* (systems/operator/src/business_logic).  Amounts are kopecks.  The code's  *)
(* round(x, 2) is to the nearest kopeck; where x lies just between two of    *)
(* them the float decides, and the model allows both.                        *)
EXTENDS Integers

CONSTANTS
    Missions,       \* mission_data: [distance, duration, cargo], which nobody checks
    Orders,         \* order_ids
    ProposalIds,    \* a bound on proposals; the code draws a fresh id for each
    Validity,       \* the 24 h a proposal is valid
    MaxTime         \* bound on the clock

ASSUME MissionsAssumption ==
    Missions \subseteq [distance : Int, duration : Int, cargo : Int]
ASSUME TimeAssumption == MaxTime \in Nat /\ Validity \in Nat

VARIABLES
    clock,
    proposals,      \* price, cost, order and valid_until of each proposal made
    payments        \* what the bank was told to take, and when: [proposal, order, amount, at]

businessVars == <<clock, proposals, payments>>

NoProposal == [price |-> 0, cost |-> 0, order |-> "none", until |-> 0]
Made == {p \in ProposalIds : proposals[p] # NoProposal}

Init ==
    /\ clock = 0
    /\ proposals = [p \in ProposalIds |-> NoProposal]
    /\ payments = {}
-----------------------------------------------------------------------------
(* The core.                                                                 *)

MinMargin == 10         \* percent of the cost
MaxDiscount == 5        \* percent of the price

\* A price that is given as twentieths of a kopeck, since 5 % of a kopeck may decide.
ValidateMargin(price20, cost) ==
    price20 > 0 /\ cost > 0 /\ 100 * (price20 - 20 * cost) >= MinMargin * 20 * cost

ValidateDiscount(original, discounted) ==
    /\ original > 0 /\ discounted > 0
    /\ 100 * (original - discounted) <= MaxDiscount * original

\* A bug to check SuggestedIsAccepted against: the mark-up loses its kopecks.
CalculateMinPriceCut(cost) == (11 * cost) \div 10

\* round(cost / (1 - 10 %)): never just between two kopecks.
CalculateMinPrice(cost) == (20 * cost + 9) \div 18

ValidateOrderEconomics(price, cost, original, discounted) ==
    ValidateMargin(20 * price, cost) /\ (discounted => ValidateDiscount(original, price))
-----------------------------------------------------------------------------
(* The service.                                                              *)

\* 2 % of the cargo's value.
Premium(mission) == 2 * mission.cargo

\* 50 roubles a km and 500 for a start, 1000 an hour: of these only the hours round.
CalculateMissionCost(mission) ==
    5000 * mission.distance + 50000
    + (10000 * mission.duration + 3) \div 6
    + Premium(mission)

\* 5 % above the least price, in twentieths of a kopeck ...
Proposed(cost) == 21 * CalculateMinPrice(cost)

\* ... and rounded.
Rounded(price20) ==
    {(price20 + 10) \div 20} \cup (IF price20 % 20 = 10 THEN {price20 \div 20} ELSE {})

\* A bug to check SoldWithMargin against: the margin is not checked.
CreateProposalUnchecked(p, order, mission) ==
    LET cost == CalculateMissionCost(mission) IN
    /\ proposals[p] = NoProposal
    /\ cost >= 0
    /\ \E price \in Rounded(Proposed(cost)) :
        proposals' = [proposals EXCEPT ![p] =
            [price |-> price, cost |-> cost, order |-> order, until |-> clock + Validity]]
    /\ UNCHANGED <<clock, payments>>

\* The margin of the price is checked before it is rounded.  A cost below zero, which
\* a distance or a time below zero makes, is raised by calculate_min_price.
CreateProposal(p, order, mission) ==
    LET cost == CalculateMissionCost(mission) IN
    /\ proposals[p] = NoProposal
    /\ cost >= 0
    /\ ValidateMargin(Proposed(cost), cost)
    /\ \E price \in Rounded(Proposed(cost)) :
        proposals' = [proposals EXCEPT ![p] =
            [price |-> price, cost |-> cost, order |-> order, until |-> clock + Validity]]
    /\ UNCHANGED <<clock, payments>>

\* VAT of 20 %, rounded, and added to the price.
CalculateTax(price) == price + (2 * price + 5) \div 10

\* process_order looks at no order_id: any order may name the proposal, and name it
\* again when it is paid.
ProcessOrder(p, order) ==
    /\ p \in Made
    /\ clock <= proposals[p].until
    /\ payments' = payments \cup
        {[proposal |-> p, order |-> order, amount |-> CalculateTax(proposals[p].price), at |-> clock]}
    /\ UNCHANGED <<clock, proposals>>

Tick ==
    /\ clock < MaxTime
    /\ clock' = clock + 1
    /\ UNCHANGED <<proposals, payments>>

Next ==
    \/ \E p \in ProposalIds, order \in Orders, mission \in Missions : CreateProposal(p, order, mission)
    \/ \E p \in ProposalIds, order \in Orders : ProcessOrder(p, order)
    \/ Tick

Spec == Init /\ [][Next]_businessVars
-----------------------------------------------------------------------------
\* What is in the store, and what the bank took, is at least 10 % above the cost, for
\* all the roundings on the way, and the bank took it from a proposal that was valid.
SoldWithMargin ==
    /\ \A p \in Made : 10 * proposals[p].price >= 11 * proposals[p].cost
    /\ \A paid \in payments :
        /\ paid.proposal \in Made
        /\ 100 * paid.amount >= 132 * proposals[paid.proposal].cost
        /\ paid.at <= proposals[paid.proposal].until

\* The price validate_with_limits suggests for the cost of a proposal, the least one,
\* passes validate_order_economics, and so it does as a discount of the proposal: the
\* two ways to count the margin, the mark-up and the largest discount fit together.
\* Below 2 roubles the roundings are too coarse for that.
SuggestedIsAccepted ==
    \A p \in Made :
        LET cost == proposals[p].cost
            least == CalculateMinPrice(cost)
        IN  cost >= 200 => /\ ValidateOrderEconomics(least, cost, least, FALSE)
                           /\ ValidateOrderEconomics(least, cost, proposals[p].price, TRUE)
=============================================================================
