-------------------------- MODULE Stopping_proofs ---------------------------
(***************************************************************************)
(* The theorems of SpendGuardrails and EmergencyBrake, what stops a        *)
(* change: for any limits, sums and changes, any connections of an         *)
(* account, places of the panel and requests under way, and any clock. Of  *)
(* the guardrails, first the evaluator (what it allows is admissible,      *)
(* whatever it clamps) and then the way of its verdict from the approval   *)
(* over the gates to the write, as one inductive invariant.                *)
(*                                                                         *)
(* Of the brake, types first; then what a reading has seen (SeenInv);      *)
(* then, for what was answered, who holds the account's lock (LockInv),    *)
(* which rows are written and not committed (RowsInv), and the row that    *)
(* keeps the promise (PromiseInv). Last, the types of both beside those of *)
(* the executions.                                                         *)
(***************************************************************************)
EXTENDS MCStopping, ExecutionChokepoint_proofs, FiniteSetTheorems, TLAPS

-----------------------------------------------------------------------------
\* A row of limits, of whichever scope.
Rows == BusinessRows \union Policies

-----------------------------------------------------------------------------
(* SpendGuardrails: the evaluator. *)

\* The constants in the form the proofs use them.
LEMMA RowType ==
    ASSUME NEW g \in Rows
    PROVE  /\ g.daily_cap \in Nat /\ g.monthly_cap \in Nat
           /\ g.floor \in Nat /\ g.ceiling \in Nat /\ g.floor <= g.ceiling
           /\ g.max_step_pct \in 1..100 /\ g.max_changes \in Nat
           /\ g # Absent
BY GuardrailAssumption DEF Rows, GuardrailSets

\* A snapshot is four numbers.
LEMMA SnapshotType ==
    ASSUME NEW s \in Snapshots
    PROVE  s.today \in Int /\ s.month \in Int /\ s.reserved \in Nat /\ s.changes \in Nat
BY GuardrailAssumption DEF LedgerSnapshots

\* Only a budget starts from an amount of its own.
LEMMA ChangeType ==
    ASSUME NEW c \in Changes
    PROVE  /\ c.kind \in {"human_approval", "rule_authorization"}
           /\ c.what \in {"budget", "creation", "status"}
           /\ c.before \in Nat /\ c.after \in Nat
           /\ c.what = "status" => c.before = 0 /\ c.after = 0
           /\ c.what = "creation" => c.before = 0
BY GuardrailAssumption DEF ChangeSet

\* The length of a step is a natural number of cents.
LEMMA ScaledType ==
    ASSUME NEW amount \in Nat, NEW pct \in 1..100
    PROVE  ScaledBy(amount, pct) \in Nat
<1>1. amount * pct \in Nat
  OBVIOUS
<1>2. \A n \in Nat : (2 * n + 100) \div 200 \in Nat
  OBVIOUS
<1>3. 2 * amount * pct = 2 * (amount * pct)
  OBVIOUS
<1> QED
  BY <1>1, <1>2, <1>3 DEF ScaledBy

\* A clamped value is at most one step away, and in the band unless one step
\* is too short to reach it.
LEMMA ClampReaches ==
    ASSUME NEW c \in Changes, NEW g \in Rows
    PROVE  LET v    == Clamp(c, g)
               step == ScaledBy(c.before, g.max_step_pct)
           IN  /\ v \in Int
               /\ v \in (c.before - step)..(c.before + step)
               /\ \/ v \in g.floor..g.ceiling
                  \/ v = c.before + step /\ v < g.floor
                  \/ v = c.before - step /\ v > g.ceiling
<1> DEFINE step == ScaledBy(c.before, g.max_step_pct)
           band == ToBand(c.after, g)
<1>1. step \in Nat
  BY ScaledType, ChangeType, RowType
<1>2. band \in g.floor..g.ceiling /\ band \in Int
  BY ChangeType, RowType DEF ToBand
<1>3. Clamp(c, g) = ToStep(c.before, band, step)
  BY DEF Clamp
<1> HIDE DEF step, band
<1>4. c.before \in Nat /\ g.floor \in Nat /\ g.ceiling \in Nat
  BY ChangeType, RowType
<1>5. /\ Clamp(c, g) \in Int
      /\ Clamp(c, g) \in (c.before - step)..(c.before + step)
      /\ \/ Clamp(c, g) \in g.floor..g.ceiling
         \/ Clamp(c, g) = c.before + step /\ Clamp(c, g) < g.floor
         \/ Clamp(c, g) = c.before - step /\ Clamp(c, g) > g.ceiling
  BY <1>1, <1>2, <1>3, <1>4 DEF ToStep
<1> QED
  BY <1>5 DEF step

\* No reason against a delta is all a cap asks for.
LEMMA NoCapReason ==
    ASSUME NEW g \in Rows, NEW s \in Snapshots, NEW delta \in Int,
           CapReasons(g, s, delta) = {}
    PROVE  /\ s.changes < g.max_changes
           /\ delta > 0 => /\ s.today + s.reserved + delta <= g.daily_cap
                           /\ s.month + s.reserved + delta <= g.monthly_cap
<1>1. ~ s.changes >= g.max_changes
  BY DEF CapReasons
<1>2. ~ (delta > 0 /\ s.today + s.reserved + delta > g.daily_cap)
  BY DEF CapReasons
<1>3. ~ (delta > 0 /\ s.month + s.reserved + delta > g.monthly_cap)
  BY DEF CapReasons
<1> QED
  BY <1>1, <1>2, <1>3, RowType, SnapshotType

\* What the evaluator allows is admissible: clamped, denied or left as it was,
\* for every change, every limits and all sums (guardrails.py:333).
THEOREM AllowedIsAdmissible ==
    ASSUME NEW c \in Changes, NEW g \in Rows, NEW s \in Snapshots,
           Evaluate(c, g, s).allowed
    PROVE  Admissible(c, g, s, EffectiveDiff(c, Evaluate(c, g, s)))
<1> DEFINE step == ScaledBy(c.before, g.max_step_pct)
           caps == CapReasons(g, s, Clamp(c, g) - c.before)
           verdict == Evaluate(c, g, s)
<1>1. ~(c.kind = "rule_authorization" /\ c.after > c.before)
  BY DEF Evaluate, Denied
<1>2. CASE c.what = "creation"
  <2>1. verdict = EvaluateCreation(c, g, s)
    BY <1>1, <1>2 DEF Evaluate
  <2>2. /\ CapReasons(g, s, c.after) = {}
        /\ c.after \in g.floor..g.ceiling
    <3> DEFINE band == IF c.after \in g.floor..g.ceiling THEN {}
                       ELSE {"campaign_creation_budget_outside_limits"}
    <3>1. CapReasons(g, s, c.after) \union band = {}
      <4>1. EvaluateCreation(c, g, s).allowed
        BY <2>1
      <4>2. EvaluateCreation(c, g, s).allowed = (CapReasons(g, s, c.after) \union band = {})
        BY Zenon DEF EvaluateCreation
      <4> QED BY <4>1, <4>2
    <3>2. CapReasons(g, s, c.after) = {} /\ band = {}
      <4> HIDE DEF band
      <4> QED BY <3>1
    <3> QED
      BY <3>2
  <2>3. EffectiveDiff(c, verdict) = c.after
    BY <1>2 DEF EffectiveDiff
  <2>4. c.before = 0 /\ c.after \in Nat /\ c.after - c.before = c.after
    BY <1>2, ChangeType
  <2>5. /\ s.changes < g.max_changes
        /\ c.after > 0 => /\ s.today + s.reserved + c.after <= g.daily_cap
                          /\ s.month + s.reserved + c.after <= g.monthly_cap
    BY <2>2, <2>4, NoCapReason
  <2>6. Admissible(c, g, s, c.after)
    BY <1>1, <1>2, <2>2, <2>4, <2>5 DEF Admissible
  <2> QED
    BY <2>3, <2>6
<1>3. CASE c.what # "creation"
  <2>1. /\ ~(c.kind = "rule_authorization" /\ Clamp(c, g) > c.before)
        /\ caps = {}
        /\ verdict.after = Clamp(c, g)
    BY <1>1, <1>3 DEF Evaluate, Denied
  <2>2. Clamp(c, g) \in Int /\ c.before \in Nat /\ Clamp(c, g) - c.before \in Int
    BY ClampReaches, ChangeType
  <2>3. /\ s.changes < g.max_changes
        /\ Clamp(c, g) - c.before > 0 =>
               /\ s.today + s.reserved + (Clamp(c, g) - c.before) <= g.daily_cap
               /\ s.month + s.reserved + (Clamp(c, g) - c.before) <= g.monthly_cap
    BY <2>1, <2>2, NoCapReason
  <2>4. CASE c.what = "budget"
    <3>1. EffectiveDiff(c, verdict) = Clamp(c, g)
      BY <2>1, <2>4 DEF EffectiveDiff
    <3>2. Admissible(c, g, s, Clamp(c, g))
      BY <1>3, <2>1, <2>2, <2>3, ClampReaches DEF Admissible
    <3> QED
      BY <3>1, <3>2
  <2>5. CASE c.what = "status"
    <3>1. EffectiveDiff(c, verdict) = c.after /\ c.after = 0 /\ c.before = 0
      BY <2>5, ChangeType DEF EffectiveDiff
    <3>2. Admissible(c, g, s, 0)
      BY <2>3, <2>5, <3>1 DEF Admissible
    <3> QED
      BY <3>1, <3>2
  <2> QED
    BY <1>3, <2>4, <2>5, ChangeType
<1> QED
  BY <1>2, <1>3

-----------------------------------------------------------------------------
(* SpendGuardrails: from the approval to the write. *)

\* What was admitted is what was evaluated then, allowed, and signed.
AdmittedIsSigned ==
    /\ admitted.limits \in Rows /\ admitted.snapshot \in Snapshots
    /\ admitted.verdict = Evaluate(change, admitted.limits, admitted.snapshot)
    /\ admitted.verdict.allowed
    /\ signed.after = EffectiveDiff(change, admitted.verdict)

GuardIInv ==
    /\ limits \in [business : BusinessRows \union {Absent},
                   account : Policies \union {Absent}]
    /\ snapshot \in Snapshots /\ change \in Changes
    /\ request = "pending" => attempt = "none"
    /\ attempt \in {"RESERVED", "RUNNING"} => AdmittedIsSigned
    /\ written # Absent => /\ attempt = "RUNNING"
                           /\ written = EffectiveDiff(change, admitted.verdict)

\* Limits that can be read are a row.
LEMMA LimitsAreARow ==
    ASSUME GuardIInv, LimitsReadable
    PROVE  EffectiveLimits \in Rows
BY DEF GuardIInv, LimitsReadable, EffectiveLimits, Rows

\* GuardIInv is inductive.
LEMMA GuardStep == GuardIInv /\ [GuardNext]_guardVars => GuardIInv'
<1> SUFFICES ASSUME GuardIInv, [GuardNext]_guardVars
             PROVE  GuardIInv'
  OBVIOUS
<1>1. CASE Authorize
  BY <1>1 DEF Authorize, GuardIInv, AdmittedIsSigned
<1>2. CASE Refuse
  BY <1>2 DEF Refuse, GuardIInv, AdmittedIsSigned
<1>3. CASE Admit
  <2>1. /\ LimitsReadable /\ Verdict.allowed
        /\ signed.after = EffectiveDiff(change, Verdict)
    BY <1>3 DEF Admit, Gates
  <2>2. /\ admitted'.limits = EffectiveLimits
        /\ admitted'.snapshot = snapshot
        /\ admitted'.verdict = Verdict
    BY <1>3 DEF Admit
  <2>3. AdmittedIsSigned'
    BY <1>3, <2>1, <2>2, LimitsAreARow
       DEF Admit, AdmittedIsSigned, GuardIInv, Verdict
  <2> QED
    BY <1>3, <2>3 DEF Admit, GuardIInv
<1>4. CASE SkipNoop
  BY <1>4 DEF SkipNoop, GuardIInv, AdmittedIsSigned
<1>5. CASE Write
  BY <1>5 DEF Write, GuardIInv, AdmittedIsSigned
<1>6. CASE OthersSpend
  BY <1>6 DEF OthersSpend, GuardIInv, AdmittedIsSigned
<1>7. CASE \E policy \in Policies : PutGuardrail(policy)
  BY <1>7 DEF PutGuardrail, GuardIInv, AdmittedIsSigned
<1>8. CASE UNCHANGED guardVars
  BY <1>8 DEF guardVars, GuardIInv, AdmittedIsSigned
<1> QED
  BY <1>1, <1>2, <1>3, <1>4, <1>5, <1>6, <1>7, <1>8 DEF GuardNext

\* GuardIInv gives the safety invariant by what the evaluator allows.
LEMMA GuardIInvIsEnough == GuardIInv => WrittenIsSignedAndAdmissible
BY AllowedIsAdmissible DEF GuardIInv, AdmittedIsSigned, WrittenIsSignedAndAdmissible

\* At first nothing is signed, admitted or sent.
LEMMA GuardInitInv == GuardInit => GuardTypeOK /\ GuardIInv
BY DEF GuardInit, GuardTypeOK, GuardIInv

\* What is sent was signed and was admissible under the limits and the sums of
\* the gates, whatever limits the owner sets and others spend in between.
THEOREM SentAsSigned == GuardSpec => []WrittenIsSignedAndAdmissible
<1> QED
  BY GuardInitInv, GuardStep, GuardIInvIsEnough, PTL DEF GuardSpec

\* The verdict is one, whatever it is about.
LEMMA EvaluateTypes ==
    ASSUME NEW c \in Changes, NEW g \in Rows, NEW s \in Snapshots
    PROVE  /\ Evaluate(c, g, s) \in Verdicts
           /\ EffectiveDiff(c, Evaluate(c, g, s)) \in Int
<1>1. Clamp(c, g) \in Int /\ c.before \in Int /\ c.after \in Int
  BY ClampReaches, ChangeType
<1>2. /\ \A d : CapReasons(g, s, d) \in SUBSET Reasons
      /\ ClampReasons(c, g) \in SUBSET Reasons
  BY DEF CapReasons, ClampReasons, Reasons
<1>3. \A v \in Int, reasons \in SUBSET Reasons : Denied(v, reasons) \in Verdicts
  BY DEF Denied, Verdicts
<1>4. EvaluateCreation(c, g, s) \in Verdicts
  <2> DEFINE reasons == CapReasons(g, s, c.after)
                        \union IF c.after \in g.floor..g.ceiling THEN {}
                               ELSE {"campaign_creation_budget_outside_limits"}
  <2>1. reasons \in SUBSET Reasons
    BY <1>2 DEF Reasons
  <2>2. EvaluateCreation(c, g, s)
            = [allowed |-> reasons = {}, after |-> c.after, reasons |-> reasons]
    BY Zenon DEF EvaluateCreation
  <2> HIDE DEF reasons
  <2> QED BY <1>1, <2>1, <2>2 DEF Verdicts
<1>5. /\ {"auto_action_would_increase_spend"} \in SUBSET Reasons
      /\ {"auto_action_would_increase_spend_after_clamp"} \in SUBSET Reasons
  BY DEF Reasons
<1>6. [allowed |-> TRUE, after |-> Clamp(c, g), reasons |-> ClampReasons(c, g)] \in Verdicts
  BY <1>1, <1>2 DEF Verdicts
<1>7. Evaluate(c, g, s) \in Verdicts
  BY <1>1, <1>2, <1>3, <1>4, <1>5, <1>6 DEF Evaluate
<1> QED BY <1>1, <1>7 DEF EffectiveDiff, Verdicts

\* No step takes a variable out of its type.
LEMMA GuardStepTypes == GuardTypeOK /\ GuardIInv /\ [GuardNext]_guardVars => GuardTypeOK'
<1> SUFFICES ASSUME GuardTypeOK, GuardIInv, [GuardNext]_guardVars PROVE GuardTypeOK'
  OBVIOUS
<1>1. CASE Authorize
  <2>1. Verdict \in Verdicts /\ EffectiveDiff(change, Verdict) \in Int
    BY <1>1, LimitsAreARow, EvaluateTypes DEF Authorize, Verdict, GuardIInv
  <2> QED BY <1>1, <2>1 DEF Authorize, GuardTypeOK
<1>2. CASE Write
  <2>1. attempt = "RESERVED" /\ AdmittedIsSigned
    BY <1>2 DEF Write, GuardIInv
  <2>2. EffectiveDiff(change, admitted.verdict) \in Int
    BY <2>1, EvaluateTypes DEF AdmittedIsSigned, GuardIInv
  <2> QED BY <1>2, <2>2 DEF Write, GuardTypeOK
<1>3. CASE \E policy \in Policies : PutGuardrail(policy)
  BY <1>3 DEF PutGuardrail, GuardTypeOK
<1>4. CASE Refuse \/ Admit \/ SkipNoop \/ OthersSpend \/ UNCHANGED guardVars
  BY <1>4 DEF Refuse, Admit, SkipNoop, OthersSpend, guardVars, GuardTypeOK
<1> QED
  BY <1>1, <1>2, <1>3, <1>4 DEF GuardNext

-----------------------------------------------------------------------------
(* EmergencyBrake: one scope. *)

\* The scopes do not share a place, and every place is of its scope.
LEMMA PlacesApart ==
    /\ \A p \in Places : ScopeOf(p) \in Scopes /\ p \in PlacesOf(ScopeOf(p))
    /\ \A s \in Scopes : PlacesOf(s) \subseteq Places
    /\ \A s \in Scopes : \A p \in PlacesOf(s) : ScopeOf(p) = s
BY EmergencyBrakeAssumption DEF Places, Scopes, PlacesOf, ScopeOf

\* What one statement returns: the strongest row of the scope, if one is on.
LEMMA GetReads ==
    ASSUME NEW s \in Scopes
    PROVE  /\ Get(s) \in Modes \cup {"released", "none"}
           /\ Get(s) = "ALL" <=> \E p \in PlacesOf(s) : brakes[p].mode = "ALL"
           /\ Engaged(Get(s)) <=> InForce(s) # {}
           /\ \A p \in InForce(s) : InForce(s) = {p} => Get(s) = brakes[p].mode
<1> DEFINE views == {brakes[p].mode : p \in PlacesOf(s)}
<1>1. Get(s) = IF "ALL" \in views THEN "ALL"
               ELSE IF "AUTONOMOUS" \in views THEN "AUTONOMOUS"
               ELSE IF "released" \in views THEN "released" ELSE "none"
  BY DEF Get
<1>2. \A m : m \in views <=> \E p \in PlacesOf(s) : brakes[p].mode = m
  OBVIOUS
<1>3. "ALL" \in views \/ "AUTONOMOUS" \in views <=> InForce(s) # {}
  BY <1>2 DEF InForce, Engaged, Modes
<1> HIDE DEF views
<1>4. Get(s) \in Modes \cup {"released", "none"} /\ (Get(s) = "ALL" <=> "ALL" \in views)
  BY <1>1 DEF Modes
<1>5. Engaged(Get(s)) <=> "ALL" \in views \/ "AUTONOMOUS" \in views
  BY <1>1 DEF Engaged, Modes
<1>6. ASSUME NEW p \in InForce(s), InForce(s) = {p}
      PROVE  Get(s) = brakes[p].mode
  <2>1. brakes[p].mode \in Modes /\ p \in PlacesOf(s)
    BY DEF InForce, Engaged
  <2>2. \A m \in Modes : m \in views => m = brakes[p].mode
    BY <1>2, <1>6 DEF InForce, Engaged
  <2>3. brakes[p].mode \in views
    BY <1>2, <2>1
  <2> QED
    BY <1>1, <2>1, <2>2, <2>3 DEF Modes
<1> QED
  BY <1>2, <1>3, <1>4, <1>5, <1>6

-----------------------------------------------------------------------------
(* Types. *)

\* Every variable is well typed at first,
LEMMA BrakeInitTypeOK == BrakeInit => BrakeTypeOK
BY EmergencyBrakeAssumption
   DEF BrakeInit, BrakeTypeOK, Times, Modes, Scopes, Kinds, Places, NeverEngaged, Waiting,
       NotReading, Unanswered

\* What BrakeTypeOK says of one request.
CallerState ==
    [step : {"idle", "read", "checked", "wrote"}, do : {"engage", "release"},
     place : Places, mode : Modes, at : Times, rows : SUBSET Places]

\* A request that goes on, or has written its rows, is a request.
LEMMA CallerMoves ==
    ASSUME BrakeTypeOK, NEW c \in Callers
    PROVE  /\ [callers[c] EXCEPT !.step = "checked"] \in CallerState
           /\ \A rows \in SUBSET Places :
                  [callers[c] EXCEPT !.step = "wrote", !.rows = rows] \in CallerState
<1>1. callers[c] \in CallerState
  BY DEF BrakeTypeOK, CallerState
<1> QED
  BY <1>1 DEF CallerState

\* and stays so, whoever asks, writes, commits or reads.
LEMMA BrakeNextTypeOK == BrakeTypeOK /\ [BrakeNext]_brakeVars => BrakeTypeOK'
<1> SUFFICES ASSUME BrakeTypeOK, [BrakeNext]_brakeVars
             PROVE  BrakeTypeOK'
  OBVIOUS
<1>1. Waiting \in [step : {"idle", "read", "checked", "wrote"}, do : {"engage", "release"},
                   place : Places, mode : Modes, at : Times, rows : SUBSET Places]
  BY EmergencyBrakeAssumption DEF Waiting, Places, Modes, Times
<1>2. CASE ClockTicks
  BY <1>2, EmergencyBrakeAssumption DEF ClockTicks, BrakeTypeOK, Times
<1>3. ASSUME NEW c \in Callers, RequestEnds(c)
      PROVE  BrakeTypeOK'
  BY <1>1, <1>3 DEF RequestEnds, BrakeTypeOK
<1>4. ASSUME NEW c \in Callers, NEW do \in {"engage", "release"}, NEW p \in Pressed,
             NEW m \in Modes, PanelAsks(c, do, p, m)
      PROVE  BrakeTypeOK'
  <2>1. p \in Places
    BY EmergencyBrakeAssumption DEF Places
  <2> QED
    BY <1>4, <2>1 DEF PanelAsks, BrakeTypeOK
<1>5. ASSUME NEW c \in Callers, Rechecks(c)
      PROVE  BrakeTypeOK'
  <2>1. CASE RequestEnds(c)
    BY <1>3, <2>1
  <2>2. CASE callers' = [callers EXCEPT ![c].step = "checked"]
    BY <1>5, <2>2, CallerMoves DEF Rechecks, RequestEnds, BrakeTypeOK, CallerState
  <2> QED
    BY <1>5, <2>1, <2>2 DEF Rechecks
<1>6. ASSUME NEW c \in Callers, EngageWrites(c) \/ ReleaseWrites(c)
      PROVE  BrakeTypeOK'
  <2>1. PICK rows \in SUBSET Places : Wrote(c, rows)
    <3>1. callers[c].place \in Places
      BY DEF BrakeTypeOK
    <3>2. InForce(ScopeOf(callers[c].place)) \subseteq Places
      BY <3>1, PlacesApart DEF InForce
    <3> QED
      BY <1>6, <3>1, <3>2 DEF EngageWrites, ReleaseWrites
  <2> QED
    <3>1. callers' = [callers EXCEPT ![c] = [callers[c] EXCEPT !.step = "wrote", !.rows = rows]]
      BY <2>1 DEF Wrote, BrakeTypeOK
    <3>2. callers' \in [Callers -> CallerState]
      <4>1. callers \in [Callers -> CallerState]
        BY DEF BrakeTypeOK, CallerState
      <4> QED
        BY <3>1, <4>1, CallerMoves
    <3> QED
      BY <2>1, <3>2 DEF Wrote, BrakeTypeOK, CallerState
<1>7. ASSUME NEW c \in Callers, Commits(c)
      PROVE  BrakeTypeOK'
  <2>1. \A p \in Places : RowEngaged(c, brakes[p]) \in [mode : Modes \cup {"released", "none"}, since : Times]
    BY DEF RowEngaged, BrakeTypeOK, Modes
  <2>2. Released \in [mode : Modes \cup {"released", "none"}, since : Times]
    BY EmergencyBrakeAssumption DEF Released, Times
  <2>3. brakes' \in [Places -> [mode : Modes \cup {"released", "none"}, since : Times]]
    BY <1>7, <2>1, <2>2 DEF Commits, BrakeTypeOK
  <2>4. Unanswered \in [mode : Modes \cup {"none"}, at : Times]
    BY EmergencyBrakeAssumption DEF Unanswered, Times
  <2>5. promise' \in [Scopes -> [mode : Modes \cup {"none"}, at : Times]]
    BY <1>7, <2>4 DEF Commits, BrakeTypeOK
  <2> QED
    BY <1>1, <1>7, <2>3, <2>5 DEF Commits, BrakeTypeOK
<1>8. ASSUME NEW locked \in BOOLEAN, ReadingStarts(locked)
      PROVE  BrakeTypeOK'
  BY <1>8 DEF ReadingStarts, BrakeTypeOK, Blocking, Scopes
<1>9. CASE ReadsScope
  <2>1. Get(reader.step) \in Modes \cup {"released", "none"}
    BY <1>9, GetReads DEF ReadsScope
  <2>2. MostRestrictiveBrake(reader.found, Get(reader.step)) \in Modes \cup {"none"}
    BY <2>1 DEF MostRestrictiveBrake, Engaged, BrakeTypeOK, Modes
  <2>3. After(reader.step) \in Scopes \cup {"decide", "done"}
    BY DEF After, Scopes
  <2> QED
    BY <1>9, <2>2, <2>3 DEF ReadsScope, BrakeTypeOK
<1>10. CASE ReadingEnds
  BY <1>10 DEF ReadingEnds, BrakeTypeOK, NotReading
<1>11. CASE UNCHANGED brakeVars
  BY <1>11 DEF brakeVars, BrakeTypeOK
<1> QED
  BY <1>2, <1>3, <1>4, <1>5, <1>6, <1>7, <1>8, <1>9, <1>10, <1>11 DEF BrakeNext, Aborts

\* Every variable of the brake keeps its type.
THEOREM BrakeTypes == BrakeSpec => []BrakeTypeOK
BY BrakeInitTypeOK, BrakeNextTypeOK, PTL DEF BrakeSpec

-----------------------------------------------------------------------------
(* What a reading has seen. *)

\* Every scope that blocked all along and was read already is in what the
\* reading found.
SeenInv ==
    reader.step # "done" =>
        /\ firm \subseteq Blocking
        /\ \A b \in firm :
               \/ b[1] = reader.step
               \/ b[1] = "business" /\ reader.step = "global"
               \/ b[1] = "account" /\ reader.step # "decide"
               \/ Blocks(reader.found, b[2])

\* A scope read adds what it blocks and takes nothing away, whichever stronger
\* or weaker brake was found before it.
LEMMA MostRestrictiveKeeps ==
    ASSUME NEW found \in Modes \cup {"none"}, NEW view, NEW k \in Kinds
    PROVE  Blocks(MostRestrictiveBrake(found, view), k) <=> Blocks(found, k) \/ Blocks(view, k)
BY DEF MostRestrictiveBrake, Blocks, Engaged, Modes, Kinds

\* A commit takes out of firm what it lifts, and each scope read adds what it
\* blocks: no step loses a brake that held all along.
LEMMA BrakeNextSeen == BrakeTypeOK /\ SeenInv /\ [BrakeNext]_brakeVars => SeenInv'
<1> SUFFICES ASSUME BrakeTypeOK, SeenInv, [BrakeNext]_brakeVars
             PROVE  SeenInv'
  OBVIOUS
<1>1. brakes' = brakes => Blocking' = Blocking
  BY DEF Blocking, Get
<1>2. CASE UNCHANGED <<brakes, reader, firm>>
  BY <1>1, <1>2 DEF SeenInv
<1>3. ASSUME NEW c \in Callers, Commits(c)
      PROVE  SeenInv'
  BY <1>3 DEF SeenInv, Commits
<1>4. ASSUME NEW locked \in BOOLEAN, ReadingStarts(locked)
      PROVE  SeenInv'
  BY <1>1, <1>4 DEF SeenInv, ReadingStarts, Blocking, Scopes
<1>5. CASE ReadsScope
  <2>1. /\ reader.step \in Scopes /\ firm \subseteq Blocking /\ firm' = firm
        /\ reader'.step = After(reader.step)
        /\ reader'.found = MostRestrictiveBrake(reader.found, Get(reader.step))
    BY <1>5 DEF ReadsScope, SeenInv, Scopes, BrakeTypeOK
  <2>2. ASSUME NEW b \in firm
        PROVE  \/ b[1] = After(reader.step)
               \/ b[1] = "business" /\ After(reader.step) = "global"
               \/ b[1] = "account" /\ After(reader.step) # "decide"
               \/ Blocks(MostRestrictiveBrake(reader.found, Get(reader.step)), b[2])
    <3>1. b[1] \in Scopes /\ b[2] \in Kinds /\ Blocks(Get(b[1]), b[2])
      BY <2>1 DEF Blocking
    <3>2. reader.found \in Modes \cup {"none"}
      BY DEF BrakeTypeOK
    <3>3. CASE b[1] = reader.step \/ Blocks(reader.found, b[2])
      BY <3>1, <3>2, <3>3, MostRestrictiveKeeps
    <3>4. CASE b[1] # reader.step /\ ~Blocks(reader.found, b[2])
      BY <2>1, <3>1, <3>4 DEF SeenInv, After, Scopes
    <3> QED
      BY <3>3, <3>4
  <2>3. Blocking' = Blocking
    BY <1>1, <1>5 DEF ReadsScope
  <2> QED
    BY <2>1, <2>2, <2>3 DEF SeenInv
<1>6. CASE ReadingEnds
  BY <1>6 DEF SeenInv, ReadingEnds, NotReading
<1> QED
  BY <1>2, <1>3, <1>4, <1>5, <1>6
     DEF BrakeNext, brakeVars, ClockTicks, PanelAsks, Rechecks, EngageWrites, ReleaseWrites,
         Wrote, Aborts, RequestEnds

\* What one scope has stopped during a whole reading, the reading finds stopped,
\* however the three statements interleave with the panel (sql_brake_state.py,
\* guardrails.py).
THEOREM BrakeReadingSees == BrakeSpec => []BrakeIsSeen
<1>1. BrakeInit => SeenInv
  BY DEF BrakeInit, SeenInv, NotReading
<1>2. BrakeTypeOK /\ SeenInv => BrakeIsSeen
  BY DEF BrakeTypeOK, SeenInv, BrakeIsSeen, Blocking, Scopes
<1> QED
  BY <1>1, <1>2, BrakeInitTypeOK, BrakeNextTypeOK, BrakeNextSeen, PTL DEF BrakeSpec
-----------------------------------------------------------------------------
(* What was answered. *)

\* Who holds the account's lock: the second look of an engagement, and the
\* rows of a release, are still true.
HasLock(c) == callers[c].place \in Accounts /\ callers[c].step \in {"checked", "wrote"}

LockInv ==
    /\ \A c, d \in Callers : HasLock(c) /\ HasLock(d) => c = d
    /\ \A c \in Callers :
           /\ callers[c].step = "checked" => callers[c].do = "engage"
           /\ HasLock(c) /\ callers[c].do = "engage" => InForce("account") = {}
           /\ HasLock(c) /\ callers[c].do = "release" => callers[c].rows = InForce("account")

\* What is written and not committed belongs to one transaction, and what a
\* release has written is in force and no younger than its request.
RowsInv ==
    \A c \in Callers : callers[c].step = "wrote" =>
        /\ callers[c].do = "engage" => callers[c].rows = {callers[c].place}
        /\ callers[c].do = "release" =>
               /\ callers[c].rows \subseteq InForce(ScopeOf(callers[c].place))
               /\ \A p \in callers[c].rows : brakes[p].since <= callers[c].at
        /\ \A d \in Callers \ {c} :
               callers[d].step = "wrote" => callers[c].rows \cap callers[d].rows = {}

\* The row that keeps a promise: in force since the request that was answered,
\* and at least as strong as the answer.
PromiseInv ==
    \A s \in Scopes : promise[s].mode # "none" =>
        \E p \in InForce(s) :
            /\ brakes[p].since = promise[s].at
            /\ promise[s].mode = "ALL" => brakes[p].mode = "ALL"
            /\ s = "account" => InForce(s) = {p} /\ brakes[p].mode = promise[s].mode

\* A request that moves without committing leaves every brake as it is.
LEMMA SameBrakes ==
    ASSUME UNCHANGED <<brakes, promise>>, PromiseInv
    PROVE  /\ \A s : InForce(s)' = InForce(s)
           /\ PromiseInv'
<1>1. \A s : InForce(s)' = InForce(s)
  BY DEF InForce
<1> QED
  BY <1>1 DEF PromiseInv

\* A request that ends gives back lock and rows.
LEMMA RequestEndsHolds ==
    ASSUME BrakeTypeOK, LockInv, RowsInv, PromiseInv, NEW c \in Callers, RequestEnds(c)
    PROVE  LockInv' /\ RowsInv' /\ PromiseInv'
<1>1. /\ callers'[c].step = "idle" /\ \A d \in Callers \ {c} : callers'[d] = callers[d]
      /\ UNCHANGED <<brakes, promise>>
  BY DEF RequestEnds, BrakeTypeOK, Waiting
<1>2. PromiseInv' /\ \A s : InForce(s)' = InForce(s)
  BY <1>1, SameBrakes
<1>3. LockInv'
  BY <1>1, <1>2 DEF LockInv, HasLock
<1>4. RowsInv'
  BY <1>1, <1>2 DEF RowsInv
<1> QED
  BY <1>2, <1>3, <1>4

\* The first reading decides nothing yet.
LEMMA AsksHolds ==
    ASSUME BrakeTypeOK, LockInv, RowsInv, PromiseInv, NEW c \in Callers,
           NEW do \in {"engage", "release"}, NEW p \in Pressed, NEW m \in Modes,
           PanelAsks(c, do, p, m)
    PROVE  LockInv' /\ RowsInv' /\ PromiseInv'
<1>1. /\ callers'[c].step = "read" /\ \A d \in Callers \ {c} : callers'[d] = callers[d]
      /\ UNCHANGED <<brakes, promise>>
  BY DEF PanelAsks, BrakeTypeOK
<1>2. PromiseInv' /\ \A s : InForce(s)' = InForce(s)
  BY <1>1, SameBrakes
<1>3. LockInv'
  BY <1>1, <1>2 DEF LockInv, HasLock
<1>4. RowsInv'
  BY <1>1, <1>2 DEF RowsInv
<1> QED
  BY <1>2, <1>3, <1>4

\* The second look, after the lock: for an account, no other request is between
\* its own second look and its commit, and no row is in force.
LEMMA RechecksHolds ==
    ASSUME BrakeTypeOK, LockInv, RowsInv, PromiseInv, NEW c \in Callers, Rechecks(c),
           ~RequestEnds(c)
    PROVE  LockInv' /\ RowsInv' /\ PromiseInv'
<1> DEFINE p == callers[c].place
<1>1. /\ callers[c].do = "engage" /\ MayLock(p) /\ ~Engaged(Get(ScopeOf(p)))
      /\ callers' = [callers EXCEPT ![c].step = "checked"]
      /\ UNCHANGED <<brakes, promise>>
  BY DEF Rechecks
<1>2. /\ callers'[c].step = "checked" /\ callers'[c].do = "engage" /\ callers'[c].place = p
      /\ \A d \in Callers \ {c} : callers'[d] = callers[d]
      /\ UNCHANGED brakes
  BY <1>1 DEF BrakeTypeOK
<1>3. PromiseInv' /\ \A s : InForce(s)' = InForce(s)
  BY <1>1, SameBrakes
<1>4. p \in Accounts => /\ \A d \in Callers : ~HasLock(d)
                        /\ InForce("account") = {}
  BY <1>1, GetReads DEF MayLock, AccountLocked, HasLock, ScopeOf, Scopes
<1> HIDE DEF p
<1>5. LockInv'
  BY <1>2, <1>3, <1>4 DEF LockInv, HasLock
<1>6. RowsInv'
  BY <1>2, <1>3 DEF RowsInv
<1> QED
  BY <1>3, <1>5, <1>6

\* The rows that a transaction writes are nobody else's, and a release takes
\* those of the account under the same lock.
LEMMA WritesHolds ==
    ASSUME BrakeTypeOK, LockInv, RowsInv, PromiseInv, NEW c \in Callers,
           EngageWrites(c) \/ ReleaseWrites(c)
    PROVE  LockInv' /\ RowsInv' /\ PromiseInv'
<1> DEFINE p == callers[c].place
<1>1. PICK rows :
          /\ Wrote(c, rows) /\ rows \cap Written(c) = {}
          /\ \/ callers[c].step = "checked" /\ rows = {p}
             \/ /\ callers[c].step = "read" /\ callers[c].do = "release"
                /\ rows = InForce(ScopeOf(p)) /\ MayLock(p) /\ MayLift(c, rows)
  BY DEF EngageWrites, ReleaseWrites
<1>2. /\ callers'[c].step = "wrote" /\ callers'[c].do = callers[c].do /\ callers'[c].place = p
      /\ callers'[c].at = callers[c].at /\ callers'[c].rows = rows
      /\ \A d \in Callers \ {c} : callers'[d] = callers[d]
      /\ UNCHANGED <<brakes, promise>>
  BY <1>1 DEF Wrote, BrakeTypeOK
<1>3. PromiseInv' /\ \A s : InForce(s)' = InForce(s)
  BY <1>2, SameBrakes
<1>4. \A d \in Callers \ {c} : callers[d].step = "wrote" => rows \cap callers[d].rows = {}
  BY <1>1 DEF Written
<1>5. p \in Accounts /\ callers[c].step = "read" =>
          (\A d \in Callers : ~HasLock(d)) /\ rows = InForce("account")
  BY <1>1 DEF MayLock, AccountLocked, HasLock, ScopeOf
<1>6. callers[c].step = "checked" => callers[c].do = "engage"
  BY DEF LockInv
<1>7. callers[c].do = "release" => \A q \in rows : brakes[q].since <= callers[c].at
  BY <1>1, <1>6 DEF MayLift
<1>8. LockInv'
  BY <1>1, <1>2, <1>3, <1>5, <1>6 DEF LockInv, HasLock
<1>9. RowsInv'
  BY <1>1, <1>2, <1>3, <1>4, <1>6, <1>7 DEF RowsInv
<1> QED
  BY <1>3, <1>8, <1>9

\* A commit changes its own rows only. An engagement leaves the row that keeps
\* its promise; a release younger than a promise ends it, an older one has not
\* got the row (MayLift).
LEMMA CommitsHolds ==
    ASSUME BrakeTypeOK, LockInv, RowsInv, PromiseInv, NEW c \in Callers, Commits(c)
    PROVE  LockInv' /\ RowsInv' /\ PromiseInv'
<1>0. PICK q \in CallerState, s \in Scopes : q = callers[c] /\ s = ScopeOf(q.place)
  <2>1. callers[c] \in CallerState
    BY DEF BrakeTypeOK, CallerState
  <2> QED
    BY <2>1, PlacesApart DEF CallerState
<1>1. /\ q = callers[c] /\ s = ScopeOf(q.place)
      /\ q.step = "wrote" /\ q.place \in Places /\ q.mode \in Modes /\ q.at \in Nat
      /\ q.do \in {"engage", "release"}
  BY <1>0 DEF Commits, CallerState, Times
<1>2. callers'[c].step = "idle" /\ \A d \in Callers \ {c} : callers'[d] = callers[d]
  BY DEF Commits, BrakeTypeOK, Waiting
<1>3. ASSUME NEW p \in Places
      PROVE  /\ p \notin q.rows => brakes'[p] = brakes[p]
             /\ p \in q.rows /\ q.do = "engage" =>
                    /\ brakes'[p].since = q.at
                    /\ brakes'[p].mode = IF brakes[p].mode = "ALL" THEN "ALL" ELSE q.mode
             /\ p \in q.rows /\ q.do = "release" => ~Engaged(brakes'[p].mode)
  BY <1>1 DEF Commits, RowEngaged, Released, Engaged, Modes
<1>4. /\ \A t \in Scopes : t # s => promise'[t] = promise[t]
      /\ q.do = "engage" => promise'[s].mode = q.mode /\ promise'[s].at = q.at
      /\ q.do = "release" => \/ (promise'[s] = promise[s] /\ ~(q.at >= promise[s].at))
                             \/ promise'[s].mode = "none"
  BY <1>1 DEF Commits, BrakeTypeOK, Unanswered
<1>5. q.rows \subseteq PlacesOf(s)
  BY <1>1, PlacesApart DEF RowsInv, InForce
<1>6. \A t \in Scopes : PlacesOf(t) \subseteq Places /\ (t # s => PlacesOf(t) \cap q.rows = {})
  BY <1>1, <1>5, PlacesApart
<1>7. \A t \in Scopes : t # s =>
          InForce(t)' = InForce(t) /\ \A p \in InForce(t) : brakes'[p] = brakes[p]
  BY <1>3, <1>6 DEF InForce
<1>8. s = "account" => HasLock(c)
  BY <1>1 DEF HasLock, ScopeOf, Places
<1>9. LockInv'
  <2>1. \A d \in Callers : HasLock(d)' => d # c /\ HasLock(d)
    BY <1>2 DEF HasLock
  <2>2. (\E d \in Callers : HasLock(d)') => InForce("account")' = InForce("account")
    BY <1>7, <1>8, <2>1 DEF LockInv, Scopes
  <2> QED
    BY <1>2, <2>1, <2>2 DEF LockInv
<1>10. RowsInv'
  <2>1. ASSUME NEW d \in Callers, d # c, callers[d].step = "wrote", callers[d].do = "release",
               NEW p \in callers[d].rows
        PROVE  p \in InForce(ScopeOf(callers[d].place))' /\ brakes'[p] = brakes[p]
    <3>1. p \in InForce(ScopeOf(callers[d].place)) /\ p \notin q.rows
      BY <1>1, <2>1 DEF RowsInv
    <3>2. p \in Places
      BY <3>1, PlacesApart DEF InForce, BrakeTypeOK
    <3> QED
      BY <1>2, <1>3, <2>1, <3>1, <3>2 DEF InForce
  <2> QED
    BY <1>2, <2>1 DEF RowsInv
<1>11. PromiseInv'
  <2>1. ASSUME NEW t \in Scopes, t # s, promise'[t].mode # "none"
        PROVE  \E p \in InForce(t)' :
                   /\ brakes'[p].since = promise'[t].at
                   /\ promise'[t].mode = "ALL" => brakes'[p].mode = "ALL"
                   /\ t = "account" => InForce(t)' = {p} /\ brakes'[p].mode = promise'[t].mode
    BY <1>4, <1>7, <2>1 DEF PromiseInv
  \* The row that the engagement wrote.
  <2>2. ASSUME q.do = "engage"
        PROVE  /\ q.place \in InForce(s)'
               /\ brakes'[q.place].since = promise'[s].at
               /\ promise'[s].mode = "ALL" => brakes'[q.place].mode = "ALL"
               /\ s = "account" =>
                      InForce(s)' = {q.place} /\ brakes'[q.place].mode = promise'[s].mode
    <3>1. q.rows = {q.place}
      BY <1>1, <2>2 DEF RowsInv
    <3>2. /\ brakes'[q.place].since = q.at
          /\ brakes'[q.place].mode = IF brakes[q.place].mode = "ALL" THEN "ALL" ELSE q.mode
      BY <1>1, <1>3, <2>2, <3>1
    <3>3. q.place \in InForce(s)'
      BY <1>1, <3>2, PlacesApart DEF InForce, Engaged, Modes
    <3>4. ASSUME s = "account"
          PROVE  InForce(s)' = {q.place} /\ brakes'[q.place].mode = q.mode
      <4>1. InForce(s) = {}
        BY <1>1, <1>8, <2>2, <3>4 DEF LockInv
      <4>2. \A p \in PlacesOf(s) : p # q.place => p \notin InForce(s)'
        BY <1>1, <1>3, <1>6, <3>1, <4>1 DEF InForce
      <4>3. brakes[q.place].mode # "ALL"
        BY <1>1, <4>1, PlacesApart DEF InForce, Engaged, Modes
      <4>4. InForce(s)' \subseteq PlacesOf(s)
        BY DEF InForce
      <4> QED
        BY <3>2, <3>3, <4>2, <4>3, <4>4
    <3> QED
      BY <1>4, <2>2, <3>2, <3>3, <3>4
  \* A release older than the answer has lifted none of its rows.
  <2>3. ASSUME q.do = "release", promise'[s].mode # "none"
        PROVE  \E p \in InForce(s)' :
                   /\ brakes'[p].since = promise'[s].at
                   /\ promise'[s].mode = "ALL" => brakes'[p].mode = "ALL"
                   /\ s = "account" => InForce(s)' = {p} /\ brakes'[p].mode = promise'[s].mode
    <3>1. promise'[s] = promise[s] /\ ~(q.at >= promise[s].at)
      BY <1>4, <2>3
    <3>2. PICK p \in InForce(s) :
              /\ brakes[p].since = promise[s].at
              /\ promise[s].mode = "ALL" => brakes[p].mode = "ALL"
      BY <1>1, <2>3, <3>1 DEF PromiseInv
    <3>3. p \notin q.rows
      BY <1>1, <2>3, <3>1, <3>2 DEF RowsInv
    <3>4. s # "account"
      BY <1>1, <1>8, <2>3, <3>2, <3>3 DEF LockInv
    <3>5. p \in Places /\ brakes'[p] = brakes[p] /\ p \in InForce(s)'
      BY <1>1, <1>3, <1>6, <3>3 DEF InForce
    <3> QED
      BY <3>1, <3>2, <3>4, <3>5
  <2>4. ASSUME promise'[s].mode # "none"
        PROVE  \E p \in InForce(s)' :
                   /\ brakes'[p].since = promise'[s].at
                   /\ promise'[s].mode = "ALL" => brakes'[p].mode = "ALL"
                   /\ s = "account" => InForce(s)' = {p} /\ brakes'[p].mode = promise'[s].mode
    BY <1>1, <2>2, <2>3, <2>4
  <2> QED
    BY <1>1, <2>1, <2>4 DEF PromiseInv
<1> QED
  BY <1>9, <1>10, <1>11

\* So no step of anybody breaks a promise.
LEMMA BrakeNextHolds ==
    ASSUME BrakeTypeOK, LockInv, RowsInv, PromiseInv, [BrakeNext]_brakeVars
    PROVE  LockInv' /\ RowsInv' /\ PromiseInv'
<1>1. CASE UNCHANGED <<brakes, callers, promise>>
  <2>1. PromiseInv' /\ \A s : InForce(s)' = InForce(s)
    BY <1>1, SameBrakes
  <2> QED
    BY <1>1, <2>1 DEF LockInv, HasLock, RowsInv
<1>2. ASSUME NEW c \in Callers, Rechecks(c) \/ Aborts(c)
      PROVE  LockInv' /\ RowsInv' /\ PromiseInv'
  BY <1>2, RechecksHolds, RequestEndsHolds DEF Aborts
<1> QED
  BY <1>1, <1>2, AsksHolds, WritesHolds, CommitsHolds
     DEF BrakeNext, brakeVars, ClockTicks, ReadingStarts, ReadsScope, ReadingEnds

\* A brake answered to be on stays on, at least as strong, until a release no
\* older than it commits; an account then has one row in force, with the very
\* mode that was answered (sql_brake_state.py, save).
THEOREM BrakeAnswersHold == BrakeSpec => []BrakeHolds
<1>1. BrakeInit => LockInv /\ RowsInv /\ PromiseInv
  BY DEF BrakeInit, LockInv, RowsInv, PromiseInv, HasLock, Waiting, Unanswered
<1>2. ASSUME BrakeTypeOK, PromiseInv
      PROVE  BrakeHolds
  <2> SUFFICES ASSUME NEW s \in Scopes, promise[s].mode # "none"
               PROVE  /\ \A k \in Kinds : Blocks(promise[s].mode, k) => Blocks(Get(s), k)
                      /\ s = "account" =>
                             Cardinality(InForce("account")) = 1 /\ Get(s) = promise[s].mode
    BY DEF BrakeHolds
  <2>1. PICK p \in InForce(s) :
            /\ promise[s].mode = "ALL" => brakes[p].mode = "ALL"
            /\ s = "account" => InForce(s) = {p} /\ brakes[p].mode = promise[s].mode
    BY <1>2 DEF PromiseInv
  <2>2. Engaged(Get(s)) /\ (promise[s].mode = "ALL" => Get(s) = "ALL")
    BY <2>1, GetReads DEF InForce
  <2>3. \A k \in Kinds : Blocks(promise[s].mode, k) => Blocks(Get(s), k)
    BY <2>2 DEF Blocks, Engaged, Modes
  <2>4. s = "account" => Cardinality(InForce("account")) = 1 /\ Get(s) = promise[s].mode
    BY <2>1, GetReads, FS_Singleton
  <2> QED
    BY <2>3, <2>4
<1> QED
  BY <1>1, <1>2, BrakeInitTypeOK, BrakeNextTypeOK, BrakeNextHolds, PTL DEF BrakeSpec

-----------------------------------------------------------------------------
(* With the executions, side by side. *)

\* Every variable of the three keeps its type where the three are together
\* (TypesOK), for any size of each: none touches another's.
THEOREM StoppingTypes == StoppingSpec => []TypesOK
<1> DEFINE IInv == TypesOK /\ GuardIInv
<1>1. StoppingInit => IInv
  BY InitTypeOK, BrakeInitTypeOK, GuardInitInv DEF StoppingInit, TypesOK
<1>2. ASSUME IInv, [StoppingNext]_StoppingVars PROVE IInv'
  <2>1. [Next]_vars /\ [BrakeNext]_brakeVars /\ [GuardNext]_guardVars
    BY <1>2 DEF StoppingNext, StoppingVars
  <2> QED
    BY <1>2, <2>1, NextTypeOK, BrakeNextTypeOK, GuardStep, GuardStepTypes DEF TypesOK
<1> QED
  BY <1>1, <1>2, PTL DEF StoppingSpec
=============================================================================
