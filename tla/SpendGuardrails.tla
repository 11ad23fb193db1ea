--------------------------- MODULE SpendGuardrails ---------------------------
(***************************************************************************)
(* The guardrails of one change, from the approval to the write            *)
(* (execution/domain/guardrails.py): limits by scope are composed, the     *)
(* change is clamped and measured against the sums of its account, and the *)
(* effective value is signed.  The chokepoint evaluates again, may find    *)
(* other limits and other sums, and sends what it evaluated.               *)
(*                                                                         *)
(* Amounts are minor units, percentages whole.  The hash of a verdict or a *)
(* diff is what it is computed from; the brake, the drift of the remote    *)
(* state and the expiry of the signature are in ExecutionChokepoint.       *)
(* The account has one connection, so one row of limits.                   *)
(***************************************************************************)
EXTENDS Integers

CONSTANTS
    Absent,          \* no row, no signature, nothing sent
    BusinessRows,    \* limits of a business: no code writes them
    Policies,        \* limits the owner may set for the account
    Snapshots,       \* what the spend ledger may add up to
    Changes          \* the diffs proposed, and who would authorize them

GuardrailSets ==
    [daily_cap : Nat, monthly_cap : Nat, floor : Nat, ceiling : Nat,
     max_step_pct : 1..100, max_changes : Nat]

\* A creation carries its budget inside a plan, a status carries no amount:
\* only a budget is a value the guardrails may clamp.
ChangeSet ==
    [kind : {"human_approval", "rule_authorization"},
     what : {"budget", "creation", "status"}, before : Nat, after : Nat]

LedgerSnapshots == [today : Int, month : Int, reserved : Nat, changes : Nat]

ASSUME GuardrailAssumption ==
    /\ \A g \in BusinessRows \union Policies :
           g \in GuardrailSets /\ g.floor <= g.ceiling /\ g # Absent
    /\ Snapshots \subseteq LedgerSnapshots
    /\ \A c \in Changes :
           /\ c \in ChangeSet
           /\ c.what = "status" => c.before = 0 /\ c.after = 0
           /\ c.what = "creation" => c.before = 0

VARIABLES
    limits,          \* table guardrails: the row of each scope
    snapshot,        \* what SqlSpendLedger.snapshot reads now
    change,          \* the proposal's diff
    request,         \* the state of the proposal
    attempt,         \* the row of its execution
    signed,          \* the authorization: effective value and verdict
    admitted,        \* history: what the gates let pass, and under what
    written          \* the value the platform was asked for

guardVars == <<limits, snapshot, change, request, attempt, signed, admitted, written>>

Reasons ==
    {"max_changes_per_entity_day_reached", "daily_cap_exceeded", "monthly_cap_exceeded",
     "clamped_to_floor", "clamped_to_ceiling", "clamped_to_max_step",
     "campaign_creation_budget_outside_limits", "auto_action_would_increase_spend",
     "auto_action_would_increase_spend_after_clamp"}

Verdicts == [allowed : BOOLEAN, after : Int, reasons : SUBSET Reasons]

GuardTypeOK ==
    /\ limits \in [business : BusinessRows \union {Absent},
                   account : Policies \union {Absent}]
    /\ snapshot \in Snapshots
    /\ change \in Changes
    /\ request \in {"pending", "scheduled", "invalidated", "executing"}
    /\ attempt \in {"none", "CLAIMED", "RESERVED", "RUNNING", "FAILED", "BLOCKED_GUARDRAIL"}
    /\ signed \in [after : Int, verdict : Verdicts] \union {Absent}
    /\ written \in Int \union {Absent}

-----------------------------------------------------------------------------
(* The limits in force. *)

AtLeastAsRestrictive(g, general) ==
    /\ g.daily_cap <= general.daily_cap /\ g.monthly_cap <= general.monthly_cap
    /\ g.floor >= general.floor /\ g.ceiling <= general.ceiling
    /\ g.max_step_pct <= general.max_step_pct /\ g.max_changes <= general.max_changes

\* An account may only narrow its business; a row that widens it, like no
\* row at all, is an error and never a limit.
Composes(business, account) ==
    business # Absent /\ account # Absent => AtLeastAsRestrictive(account, business)
LimitsReadable ==
    /\ {limits.business, limits.account} # {Absent}
    /\ Composes(limits.business, limits.account)
EffectiveLimits == IF limits.account = Absent THEN limits.business ELSE limits.account

-----------------------------------------------------------------------------
(* GuardrailEvaluator. *)

\* Money.scaled_by: to the cent, ties away from zero.
ScaledBy(amount, pct) == (2 * amount * pct + 100) \div 200

ToBand(v, g) == IF v < g.floor THEN g.floor ELSE IF v > g.ceiling THEN g.ceiling ELSE v
ToStep(before, v, step) ==
    IF v > before + step THEN before + step
    ELSE IF v < before - step THEN before - step ELSE v

\* First the band, then the step: where they disagree the step wins.
Clamp(c, g) == ToStep(c.before, ToBand(c.after, g), ScaledBy(c.before, g.max_step_pct))

CapReasons(g, s, delta) ==
    (IF s.changes >= g.max_changes THEN {"max_changes_per_entity_day_reached"} ELSE {})
    \union
    (IF delta > 0 /\ s.today + s.reserved + delta > g.daily_cap
     THEN {"daily_cap_exceeded"} ELSE {})
    \union
    (IF delta > 0 /\ s.month + s.reserved + delta > g.monthly_cap
     THEN {"monthly_cap_exceeded"} ELSE {})

ClampReasons(c, g) ==
    (IF c.after < g.floor THEN {"clamped_to_floor"}
     ELSE IF c.after > g.ceiling THEN {"clamped_to_ceiling"} ELSE {})
    \union
    (IF Clamp(c, g) # ToBand(c.after, g) THEN {"clamped_to_max_step"} ELSE {})

Denied(value, reasons) == [allowed |-> FALSE, after |-> value, reasons |-> reasons]

\* A creation is never clamped: its budget fits the band and the caps as it is.
EvaluateCreation(c, g, s) ==
    LET reasons == CapReasons(g, s, c.after)
                   \union IF c.after \in g.floor..g.ceiling THEN {}
                          ELSE {"campaign_creation_budget_outside_limits"}
    IN  [allowed |-> reasons = {}, after |-> c.after, reasons |-> reasons]

\* Mutant: a rule is held to what it asked for, not to what the floor makes of it.
EvaluateNominal(c, g, s) ==
    LET byRule == c.kind = "rule_authorization"
        caps   == CapReasons(g, s, Clamp(c, g) - c.before)
    IN  IF byRule /\ c.after > c.before
        THEN Denied(c.after, {"auto_action_would_increase_spend"})
        ELSE IF c.what = "creation" THEN EvaluateCreation(c, g, s)
        ELSE IF caps # {} THEN Denied(c.before, caps)
        ELSE [allowed |-> TRUE, after |-> Clamp(c, g), reasons |-> ClampReasons(c, g)]

Evaluate(c, g, s) ==
    LET byRule == c.kind = "rule_authorization"
        caps   == CapReasons(g, s, Clamp(c, g) - c.before)
    IN  IF byRule /\ c.after > c.before
        THEN Denied(c.after, {"auto_action_would_increase_spend"})
        ELSE IF c.what = "creation" THEN EvaluateCreation(c, g, s)
        ELSE IF byRule /\ Clamp(c, g) > c.before
        THEN Denied(c.before, {"auto_action_would_increase_spend_after_clamp"})
        ELSE IF caps # {} THEN Denied(c.before, caps)
        ELSE [allowed |-> TRUE, after |-> Clamp(c, g), reasons |-> ClampReasons(c, g)]

\* effective_diff: what is signed, verified and written.
EffectiveDiff(c, v) == IF v.allowed /\ c.what = "budget" THEN v.after ELSE c.after

Verdict == Evaluate(change, EffectiveLimits, snapshot)

-----------------------------------------------------------------------------
(* The change. *)

GuardInit ==
    /\ limits \in [business : BusinessRows \union {Absent}, account : Policies \union {Absent}]
    /\ snapshot \in Snapshots
    /\ change \in Changes
    /\ request = "pending" /\ attempt = "none"
    /\ signed = Absent /\ admitted = Absent /\ written = Absent

\* SubmitApproval, or AuthorizeRuleAction: the effective value and the
\* verdict of this moment are signed, and the execution is queued.
Authorize ==
    /\ request = "pending" /\ LimitsReadable /\ Verdict.allowed
    /\ signed' = [after |-> EffectiveDiff(change, Verdict), verdict |-> Verdict]
    /\ request' = "scheduled" /\ attempt' = "CLAIMED"
    /\ UNCHANGED <<limits, snapshot, change, admitted, written>>

\* Evaluation and signature check in the gates. The value is compared before
\* the verdict; an error while reading the limits fails the row.
Gates ==
    IF ~LimitsReadable THEN "FAILED"
    ELSE IF EffectiveDiff(change, Verdict) # signed.after THEN "FAILED"
    ELSE IF Verdict # signed.verdict THEN "INVALIDATED"
    ELSE IF ~Verdict.allowed THEN "BLOCKED_GUARDRAIL" ELSE "OK"

Refuse ==
    /\ attempt = "CLAIMED" /\ Gates # "OK"
    /\ attempt' = IF Gates = "FAILED" THEN "FAILED" ELSE "BLOCKED_GUARDRAIL"
    /\ request' = IF Gates = "INVALIDATED" THEN "invalidated" ELSE request
    /\ UNCHANGED <<limits, snapshot, change, signed, admitted, written>>

Admit ==
    /\ attempt = "CLAIMED" /\ Gates = "OK"
    /\ attempt' = "RESERVED"
    /\ admitted' = [limits |-> EffectiveLimits, snapshot |-> snapshot, verdict |-> Verdict]
    /\ UNCHANGED <<limits, snapshot, change, request, signed, written>>

\* Nothing is left to change once clamped: the row closes, the proposal stays.
ClampIsNoop ==
    change.what = "budget" /\ EffectiveDiff(change, admitted.verdict) = change.before

SkipNoop ==
    /\ attempt = "RESERVED" /\ ClampIsNoop
    /\ attempt' = "BLOCKED_GUARDRAIL"
    /\ UNCHANGED <<limits, snapshot, change, request, signed, admitted, written>>

\* Mutant: the value the proposal asked for travels, not the clamped one.
WriteAsAsked ==
    /\ attempt = "RESERVED" /\ ~ClampIsNoop
    /\ attempt' = "RUNNING" /\ request' = "executing"
    /\ written' = change.after
    /\ UNCHANGED <<limits, snapshot, change, signed, admitted>>

Write ==
    /\ attempt = "RESERVED" /\ ~ClampIsNoop
    /\ attempt' = "RUNNING" /\ request' = "executing"
    /\ written' = EffectiveDiff(change, admitted.verdict)
    /\ UNCHANGED <<limits, snapshot, change, signed, admitted>>

\* PUT /guardrails/{account_ref}, at any moment.
PutGuardrail(policy) ==
    /\ Composes(limits.business, policy)
    /\ limits' = [limits EXCEPT !.account = policy]
    /\ UNCHANGED <<snapshot, change, request, attempt, signed, admitted, written>>

\* Other changes of the account settle, reserve and release, the platform
\* reports what it spent, and the day turns.
OthersSpend ==
    /\ snapshot' \in Snapshots
    /\ UNCHANGED <<limits, change, request, attempt, signed, admitted, written>>

GuardNext ==
    \/ Authorize \/ Refuse \/ Admit \/ SkipNoop \/ Write \/ OthersSpend
    \/ \E policy \in Policies : PutGuardrail(policy)

GuardSpec == GuardInit /\ [][GuardNext]_guardVars

-----------------------------------------------------------------------------
(* Properties. *)

\* What a change may do to an account, said without clamping anything: a rule
\* only lowers; a step is no longer than allowed; a raise fits the sums of the
\* day and the month with everything reserved; the entity has a change left;
\* a creation lies in the band, and a budget lies there or came as near as one
\* step takes it.
Admissible(c, g, s, v) ==
    LET step == ScaledBy(c.before, g.max_step_pct)
    IN  /\ c.kind = "rule_authorization" => v <= c.before
        /\ s.changes < g.max_changes
        /\ v > c.before => /\ s.today + s.reserved + (v - c.before) <= g.daily_cap
                           /\ s.month + s.reserved + (v - c.before) <= g.monthly_cap
        /\ c.what = "creation" => v \in g.floor..g.ceiling
        /\ c.what = "budget" =>
               /\ v \in (c.before - step)..(c.before + step)
               /\ \/ v \in g.floor..g.ceiling
                  \/ v = c.before + step /\ v < g.floor
                  \/ v = c.before - step /\ v > g.ceiling

\* Whatever moved between the approval and the write, the platform is asked
\* for exactly the value that was signed, and that value was admissible under
\* the limits and the sums the gates read (execution/domain/guardrails.py:272,
\* chokepoint.py:181).
WrittenIsSignedAndAdmissible ==
    written # Absent =>
        /\ written = signed.after
        /\ Admissible(change, admitted.limits, admitted.snapshot, written)

\* "El veredicto de guardarrailes recalculado ya no coincide con el que se
\* firmo -- un recorte cambio el resultado desde que se autorizo"
\* (proposals/domain/authorization.py:82): a verdict that is another one by the
\* time of the gates invalidates the proposal with its row.
ChangedVerdictInvalidates ==
    [][attempt = "CLAIMED" /\ attempt' # "CLAIMED" /\ LimitsReadable
           /\ Verdict # signed.verdict
       => request' = "invalidated"]_guardVars
=============================================================================
