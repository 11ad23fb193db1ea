------------------------- MODULE MCSpendGuardrails -------------------------
(***************************************************************************)
(* Instances of SpendGuardrails for TLC: amounts of a few cents, so that   *)
(* half a cent is rounded and the band, the step and the sums all bind.    *)
(***************************************************************************)
EXTENDS SpendGuardrails

Limits(floor, ceiling, step, count) ==
    [daily_cap |-> 6, monthly_cap |-> 9, floor |-> floor, ceiling |-> ceiling,
     max_step_pct |-> step, max_changes |-> count]

MCBusinessRows == {Limits(1, 8, 50, 2)}
\* A wide one, one whose band is elsewhere, and one that relaxes the business.
MCPolicies == {Limits(2, 8, 50, 2), Limits(5, 6, 20, 1), Limits(0, 12, 100, 3)}

Sums(today, month, reserved, count) ==
    [today |-> today, month |-> month, reserved |-> reserved, changes |-> count]
MCSnapshots == {Sums(0, 0, 0, 0), Sums(4, 4, 0, 1), Sums(-2, 5, 2, 1), Sums(0, 3, 0, 2)}

MCChanges ==
    [kind : {"human_approval", "rule_authorization"}, what : {"budget"},
     before : {3, 5, 7}, after : {1, 4, 12}]
    \union [kind : {"human_approval"}, what : {"creation"}, before : {0}, after : {1, 5, 9}]
    \union [kind : {"human_approval", "rule_authorization"}, what : {"status"},
            before : {0}, after : {0}]
=============================================================================
