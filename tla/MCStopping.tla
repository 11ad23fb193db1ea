----------------------------- MODULE MCStopping -----------------------------
(***************************************************************************)
(* What stops a change, for TLC: the executions of approved proposals,     *)
(* with one brake in force or not; the emergency brake that is in force    *)
(* over its scopes and connections; and the guardrails that clamp, deny or *)
(* sign one change.  A behaviour belongs to one of the three.              *)
(***************************************************************************)
EXTENDS MCExecutionChokepoint, EmergencyBrake, MCSpendGuardrails

VARIABLE side

StoppingVars == <<side, vars, brakeVars, guardVars>>

\* Where the guardrails take no part, one of their initial states is enough.
StoppingInit ==
    /\ side \in {"execution", "brake", "guardrails"}
    /\ Init /\ BrakeInit /\ GuardInit
    /\ side # "guardrails" =>
           /\ limits = [business |-> Absent, account |-> Absent]
           /\ snapshot = Sums(0, 0, 0, 0)
           /\ change.what = "creation" /\ change.after = 1

StoppingNext ==
    \/ side = "execution" /\ Next /\ UNCHANGED <<side, brakeVars, guardVars>>
    \/ side = "brake" /\ BrakeNext /\ UNCHANGED <<side, vars, guardVars>>
    \/ side = "guardrails" /\ GuardNext /\ UNCHANGED <<side, vars, brakeVars>>

StoppingSpec == StoppingInit /\ [][StoppingNext]_StoppingVars

StoppingSymmetry ==
    Permutations(Workers) \cup Permutations(Callers) \cup Permutations(Accounts)

-----------------------------------------------------------------------------
\* Every variable of the three keeps its type.
TypesOK == TypeOK /\ BrakeTypeOK /\ GuardTypeOK
=============================================================================
