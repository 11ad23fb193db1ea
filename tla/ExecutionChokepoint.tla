------------------------- MODULE ExecutionChokepoint -------------------------
(***************************************************************************)
(* From an approved proposal to one change on the platform: the execution  *)
(* queue, the chokepoint that every worker drives through it, the money    *)
(* reservation that spans the remote call, and what people may do in the   *)
(* meantime (withdraw, brake).  Workers are ads-worker and the run_once of *)
(* an ads-api request.                                                     *)
(*                                                                         *)
(* Each action is one database transaction or one message.  The broker is  *)
(* WritePort, reached through requests that may be lost, late or refused;  *)
(* the idempotency key of an execution is its proposal.                    *)
(***************************************************************************)
EXTENDS Integers, FiniteSets, FiniteSetsExt

CONSTANTS
    Proposals,
    Workers,
    Delta,           \* proposal -> change of the daily budget, in cents
    DailyCap,        \* of the one account they all spend from
    Autonomous,      \* proposals a rule authorized, no person
    LeaseHolds,      \* does no worker ever outlive its five minutes?
    GatesMayFail,    \* may the database fail in the middle of the gates?
    None,
    MaxDay           \* bound: the calendar stops here

ASSUME ChokepointAssumption ==
    /\ Delta \in [Proposals -> Int] /\ DailyCap \in Nat /\ MaxDay \in Nat
    /\ Autonomous \subseteq {p \in Proposals : Delta[p] <= 0}
    /\ LeaseHolds \in BOOLEAN /\ GatesMayFail \in BOOLEAN
    /\ None \notin Proposals /\ None \notin Nat

VARIABLES
    proposal,        \* proposals.state
    execution,       \* executions.outcome, or "absent"
    leased,          \* proposals whose execution is claimed and not yet stale
    reservation,     \* execution_reservations.state, or "none"
    ledger,          \* spend_ledger: the date of the applied change, or None
    brake,           \* the effective emergency brake
    expired,         \* proposals past expires_at
    lapsed,          \* proposals whose authorization is past its own
    day,
    worker,          \* what each worker is doing, and on which row
    inbox,           \* write requests on their way to the broker
    rejected,        \* proposals the broker refused to write
    sends,           \* execute_write calls made for each proposal
    receipt, asked, changed,    \* the broker: WritePort
    changedOn        \* the day the platform made the change

Port == INSTANCE WritePort WITH Keys <- Proposals

books == <<reservation, ledger>>
people == <<brake, expired, lapsed, day>>
remote == <<inbox, rejected, receipt, asked, changed, changedOn>>
vars == <<proposal, execution, leased, books, people, worker, sends, remote>>

Claimable == {"CLAIMED", "RUNNING", "UNKNOWN"}
Blocked == {"BLOCKED_BRAKE", "BLOCKED_GUARDRAIL"}
NotWritten == Blocked \union {"FAILED", "SKIPPED_DRIFT"}

Idle == [pc |-> "idle"]
\* old: the row's lease ran out while this worker had it.
WorkerState ==
    {Idle} \union
    [pc : {"gated", "revalidated", "cleared", "running", "waiting",
           "gate_error", "failing", "doubting"},
     p : Proposals, old : BOOLEAN]

Init ==
    /\ proposal = [p \in Proposals |-> "pending"]
    /\ execution = [p \in Proposals |-> "absent"]
    /\ leased = {}
    /\ reservation = [p \in Proposals |-> "none"]
    /\ ledger = [p \in Proposals |-> None]
    /\ brake = "off" /\ expired = {} /\ lapsed = {} /\ day = 0
    /\ worker = [w \in Workers |-> Idle]
    /\ inbox = {} /\ rejected = {}
    /\ sends = [p \in Proposals |-> 0]
    /\ changedOn = [p \in Proposals |-> None]
    /\ Port!PortInit

-----------------------------------------------------------------------------
(* Brake and guardrails. *)

BrakeBlocks(p) == brake = "all" \/ (brake = "autonomous" /\ p \in Autonomous)

Total(ps) == SumFunctionOnSet(Delta, ps)
Raises == {p \in Proposals : Delta[p] > 0}

\* An unresolved reservation counts at its increase, whatever its day.
\* Mutants: a cut makes room from its reservation on; an increase in doubt no
\* longer counts.
AppliedEarly ==
    {p \in Proposals : ledger[p] = day \/ (Delta[p] < 0 /\ reservation[p] = "ACTIVE")}
Applied == {p \in Proposals : ledger[p] = day}
Reserved == {p \in Raises : reservation[p] = "ACTIVE"}
FitsCap(p) == Delta[p] > 0 => Total(Applied) + Total(Reserved) + Delta[p] <= DailyCap

Release(p) ==
    reservation' = [reservation EXCEPT ![p] = IF @ = "ACTIVE" THEN "RELEASED" ELSE @]

-----------------------------------------------------------------------------
(* People and time. *)

\* SubmitApproval, or AuthorizeRuleAction for a rule: signed for an hour,
\* scheduled and queued in one transaction.
Approve(p) ==
    /\ proposal[p] = "pending" /\ p \notin expired
    /\ ~BrakeBlocks(p) /\ FitsCap(p)
    /\ proposal' = [proposal EXCEPT ![p] = "scheduled"]
    /\ execution' = [execution EXCEPT ![p] = "CLAIMED"]
    /\ UNCHANGED <<leased, books, people, worker, sends, remote>>

\* WithdrawProposal and UndoExecution._cancel_scheduled: the queued row stays.
Withdraw(p) ==
    /\ proposal[p] = "scheduled"
    /\ proposal' = [proposal EXCEPT ![p] = "invalidated"]
    /\ UNCHANGED <<execution, leased, books, people, worker, sends, remote>>

ToggleBrake ==
    /\ IF brake = "off" THEN brake' \in {"autonomous", "all"} ELSE brake' = "off"
    /\ UNCHANGED <<proposal, execution, leased, books, expired, lapsed, day,
                   worker, sends, remote>>

Expire(p) ==
    /\ \/ p \notin expired /\ expired' = expired \union {p} /\ UNCHANGED lapsed
       \/ /\ p \notin lapsed /\ proposal[p] # "pending"
          /\ lapsed' = lapsed \union {p} /\ UNCHANGED expired
    /\ UNCHANGED <<proposal, execution, leased, books, brake, day, worker,
                   sends, remote>>

Midnight ==
    /\ day < MaxDay
    /\ day' = day + 1
    /\ UNCHANGED <<proposal, execution, leased, books, brake, expired, lapsed,
                   worker, sends, remote>>

\* Five minutes after the claim the row may be claimed again, even if the
\* worker that has it is only slow.
Holders(p) == {w \in Workers : worker[w] # Idle /\ worker[w].p = p}

LeaseLapses(p) ==
    /\ p \in leased
    /\ LeaseHolds => Holders(p) = {}
    /\ leased' = leased \ {p}
    /\ worker' = [w \in Workers |-> IF w \in Holders(p)
                                    THEN [worker[w] EXCEPT !.old = TRUE]
                                    ELSE worker[w]]
    /\ UNCHANGED <<proposal, execution, books, people, sends, remote>>

-----------------------------------------------------------------------------
(* Building blocks of the worker's transactions. *)

At(w, pc) == worker[w].pc = pc
Goto(w, pc) == worker' = [worker EXCEPT ![w].pc = pc]
Rest(w) == worker' = [worker EXCEPT ![w] = Idle]
Begin(w, p, pc) == worker' = [worker EXCEPT ![w] = [pc |-> pc, p |-> p, old |-> FALSE]]

\* queue.save: the upsert writes the whole row, claim time included, and
\* whatever another worker made of it in between.
Save(w, p, status) ==
    /\ execution' = [execution EXCEPT ![p] = status]
    /\ leased' = IF worker[w] # Idle /\ worker[w].old THEN leased \ {p}
                 ELSE leased \union {p}

\* The last resort of run_once: an exception leaves the row in doubt if money
\* is reserved for it, and FAILED otherwise.
Doubt(w, p) ==
    /\ Save(w, p, IF reservation[p] = "ACTIVE" THEN "UNKNOWN" ELSE "FAILED")
    /\ UNCHANGED <<proposal, books>>

\* _succeed: ledger, reservation, execution and proposal in one transaction
\* under the account lock.  Its ledger row is dated now.
\* Mutants: the ledger row is dated a day late; the reservation stays open.
SucceedNextDay(w, p) ==
    /\ ledger' = [ledger EXCEPT ![p] = day + 1]
    /\ reservation' = [reservation EXCEPT ![p] = IF @ = "ACTIVE" THEN "SETTLED" ELSE @]
    /\ Save(w, p, "EXECUTED")
    /\ proposal' = [proposal EXCEPT ![p] = "executed"]
SucceedUnsettled(w, p) ==
    /\ ledger' = [ledger EXCEPT ![p] = day]
    /\ Save(w, p, "EXECUTED")
    /\ proposal' = [proposal EXCEPT ![p] = "executed"]
    /\ UNCHANGED reservation

Succeed(w, p) ==
    /\ ledger' = [ledger EXCEPT ![p] = day]
    /\ reservation' = [reservation EXCEPT ![p] = IF @ = "ACTIVE" THEN "SETTLED" ELSE @]
    /\ Save(w, p, "EXECUTED")
    /\ proposal' = [proposal EXCEPT ![p] = "executed"]

Claims(w, p) == At(w, "idle") /\ execution[p] \in Claimable /\ p \notin leased

-----------------------------------------------------------------------------
(* run_once on a fresh row: claim and gates in one transaction. *)

Fresh(w, p) == Claims(w, p) /\ execution[p] = "CLAIMED" /\ reservation[p] # "ACTIVE"

\* What the gates say. The channel may be switched off in this process's
\* configuration.
GateVerdict(p, enabled) ==
    IF proposal[p] # "scheduled" \/ ~enabled THEN "FAILED"
    ELSE IF BrakeBlocks(p) THEN "BLOCKED_BRAKE"
    ELSE IF p \in lapsed THEN "FAILED"
    ELSE IF ~FitsCap(p) THEN "BLOCKED_GUARDRAIL" ELSE "OK"

\* Every refusal closes the row; only a guardrail verdict that is no longer
\* the signed one invalidates the proposal with it.
GatesRefuse(w, p) ==
    /\ Fresh(w, p)
    /\ \E enabled \in BOOLEAN :
           LET outcome == GateVerdict(p, enabled)
           IN  /\ outcome # "OK"
               /\ Save(w, p, outcome)
               /\ proposal' = IF outcome = "BLOCKED_GUARDRAIL"
                              THEN [proposal EXCEPT ![p] = "invalidated"] ELSE proposal
    /\ UNCHANGED <<books, people, worker, sends, remote>>

PassGates(w, p) ==
    /\ Fresh(w, p)
    /\ GateVerdict(p, TRUE) = "OK"
    /\ reservation[p] = "none"
    /\ reservation' = [reservation EXCEPT ![p] = "ACTIVE"]
    /\ leased' = leased \union {p}
    /\ Begin(w, p, "gated")
    /\ UNCHANGED <<proposal, execution, ledger, people, sends, remote>>

\* An error inside the gates rolls the claim back with them, yet the worker
\* still goes on to write the row it no longer holds.
GateError(w, p) ==
    /\ GatesMayFail
    /\ Fresh(w, p) /\ proposal[p] = "scheduled"
    /\ Begin(w, p, "gate_error")
    /\ UNCHANGED <<proposal, execution, leased, books, people, sends, remote>>

ReadAfterGateError(w) ==
    /\ At(w, "gate_error")
    /\ Goto(w, IF reservation[worker[w].p] = "ACTIVE" THEN "doubting" ELSE "failing")
    /\ UNCHANGED <<proposal, execution, leased, books, people, sends, remote>>

\* The release ran either before or after another worker's reservation.
SaveAfterGateError(w) ==
    /\ worker[w].pc \in {"failing", "doubting"}
    /\ LET p == worker[w].p
       IN  \/ At(w, "doubting") /\ Save(w, p, "UNKNOWN") /\ UNCHANGED books
           \/ /\ At(w, "failing") /\ Save(w, p, "FAILED")
              /\ (Release(p) /\ UNCHANGED ledger) \/ UNCHANGED books
    /\ Rest(w)
    /\ UNCHANGED <<proposal, people, sends, remote>>

-----------------------------------------------------------------------------
(* ... and from the reservation to the write. *)

\* has_drifted, a round trip: no transaction is open while it lasts.
Revalidate(w) ==
    /\ At(w, "gated")
    /\ Goto(w, "revalidated")
    /\ UNCHANGED <<proposal, execution, leased, books, people, sends, remote>>

\* The remote state is another one. If the proposal is no longer scheduled
\* the trigger refuses the save and the whole transaction is lost.
SkipDrift(w) ==
    /\ At(w, "gated")
    /\ LET p == worker[w].p
       IN  \/ /\ proposal[p] \in {"scheduled", "invalidated"}
              /\ proposal' = [proposal EXCEPT ![p] = "invalidated"]
              /\ Save(w, p, "SKIPPED_DRIFT")
              /\ Release(p)
           \/ /\ proposal[p] \notin {"scheduled", "invalidated"}
              /\ UNCHANGED <<proposal, execution, leased, reservation>>
    /\ Rest(w)
    /\ UNCHANGED <<ledger, people, sends, remote>>

\* The remote state or the brake cannot be read.
ReadError(w) ==
    /\ worker[w].pc \in {"gated", "revalidated"}
    /\ Doubt(w, worker[w].p)
    /\ Rest(w)
    /\ UNCHANGED <<people, sends, remote>>

\* The brake is read again, uncached; a change the guardrails clamp to nothing
\* stops here too (which changes, SpendGuardrails tells; here any may). Either
\* way the money is free again and the proposal stays scheduled.
RecheckBrake(w) ==
    /\ At(w, "revalidated")
    /\ \E noop \in BOOLEAN :
       LET p == worker[w].p
       IN  IF BrakeBlocks(p) \/ noop
           THEN /\ Save(w, p, IF BrakeBlocks(p) THEN "BLOCKED_BRAKE" ELSE "BLOCKED_GUARDRAIL")
                /\ Release(p)
                /\ Rest(w)
           ELSE Goto(w, "cleared") /\ UNCHANGED <<execution, leased, reservation>>
    /\ UNCHANGED <<proposal, ledger, people, sends, remote>>

\* RUNNING and EXECUTING are durable before anything is sent; an expired or
\* withdrawn proposal makes the transaction fail instead.
\* Mutant: the proposal read at the claim is trusted until the write.
StartRunningUnchecked(w) ==
    /\ At(w, "cleared")
    /\ Save(w, worker[w].p, "RUNNING")
    /\ Goto(w, "running")
    /\ UNCHANGED <<proposal, books, people, sends, remote>>

StartRunning(w) ==
    /\ At(w, "cleared")
    /\ LET p == worker[w].p
       IN  IF p \notin expired /\ proposal[p] \in {"scheduled", "executing"}
           THEN /\ Save(w, p, "RUNNING")
                /\ proposal' = [proposal EXCEPT ![p] = "executing"]
                /\ Goto(w, "running")
                /\ UNCHANGED books
           ELSE Doubt(w, p) /\ Rest(w)
    /\ UNCHANGED <<people, sends, remote>>

Send(w) ==
    /\ At(w, "running")
    /\ sends' = [sends EXCEPT ![worker[w].p] = @ + 1]
    /\ inbox' = inbox \union {worker[w].p}
    /\ Goto(w, "waiting")
    /\ UNCHANGED <<proposal, execution, leased, books, people,
                   rejected, receipt, asked, changed, changedOn>>

GotSuccess(w) ==
    /\ At(w, "waiting")
    /\ LET p == worker[w].p
       IN  /\ receipt[p] = "SUCCEEDED" /\ proposal[p] \in {"executing", "executed"}
           /\ Succeed(w, p)
    /\ Rest(w)
    /\ UNCHANGED <<people, sends, remote>>

\* DENIED, BLOCKED_HARD_CAP, SKIPPED_DRIFT: surely not written.
GotRejection(w) ==
    /\ At(w, "waiting")
    /\ LET p == worker[w].p
       IN  /\ p \in rejected /\ proposal[p] = "executing"
           /\ proposal' = [proposal EXCEPT ![p] = "failed"]
           /\ Save(w, p, "FAILED")
           /\ Release(p)
    /\ Rest(w)
    /\ UNCHANGED <<ledger, people, sends, remote>>

\* No answer in ten seconds, or one that proves nothing: FAILED, UNKNOWN.
\* Mutants: a timeout sends again; a timeout is a failure.
NoAnswerSendsAgain(w) ==
    /\ At(w, "waiting")
    /\ Goto(w, "running")
    /\ UNCHANGED <<proposal, execution, leased, books, people, sends, remote>>
NoAnswerFails(w) ==
    /\ At(w, "waiting")
    /\ Save(w, worker[w].p, "FAILED")
    /\ Release(worker[w].p)
    /\ Rest(w)
    /\ UNCHANGED <<proposal, ledger, people, sends, remote>>

NoAnswer(w) ==
    /\ At(w, "waiting")
    /\ Save(w, worker[w].p, "UNKNOWN")
    /\ Rest(w)
    /\ UNCHANGED <<proposal, books, people, sends, remote>>

Crash(w) ==
    /\ ~At(w, "idle")
    /\ Rest(w)
    /\ UNCHANGED <<proposal, execution, leased, books, people, sends, remote>>

-----------------------------------------------------------------------------
(* run_once on a row that may already have reached the broker: read the     *)
(* receipt, never write.  One transaction that holds the row throughout.    *)
(* That reading a receipt rejects is no step: a receipt is written once the *)
(* key is reserved and says SUCCEEDED, FAILED or UNKNOWN, so no rejection   *)
(* is ever read, and the binding compared before asking is that of the row. *)

\* Mutant: only the status of the row is looked at.
InFlightByStatus(w, p) == Claims(w, p) /\ execution[p] # "CLAIMED"

InFlight(w, p) ==
    Claims(w, p) /\ (execution[p] # "CLAIMED" \/ reservation[p] = "ACTIVE")

\* The proposal as begin_execution leaves it, for a row still CLAIMED.
MayBegin(p) ==
    execution[p] = "CLAIMED" => proposal[p] = "scheduled" /\ p \notin expired

ReconcileInDoubt(w, p) ==
    /\ InFlight(w, p)
    /\ Save(w, p, "UNKNOWN")
    /\ proposal' = IF execution[p] = "CLAIMED" /\ MayBegin(p)
                   THEN [proposal EXCEPT ![p] = "executing"] ELSE proposal
    /\ UNCHANGED <<books, people, worker, sends, remote>>

ReconcileSettles(w, p) ==
    /\ InFlight(w, p)
    /\ reservation[p] = "ACTIVE" /\ MayBegin(p) /\ receipt[p] = "SUCCEEDED"
    /\ Succeed(w, p)
    /\ UNCHANGED <<people, worker, sends, remote>>

-----------------------------------------------------------------------------
(* The broker and the way to it. *)

BrokerAdmits(p) ==
    /\ p \in inbox /\ inbox' = inbox \ {p}
    /\ Port!Admit(p)
    /\ UNCHANGED <<proposal, execution, leased, books, people, worker, sends,
                   rejected, changedOn>>

BrokerRejects(p) ==
    /\ p \in inbox /\ inbox' = inbox \ {p}
    /\ receipt[p] = "absent"
    /\ rejected' = rejected \union {p}
    /\ UNCHANGED <<proposal, execution, leased, books, people, worker, sends,
                   receipt, asked, changed, changedOn>>

\* Lost on the way, or failed before the broker wrote anything down.
RequestLost(p) ==
    /\ p \in inbox /\ inbox' = inbox \ {p}
    /\ UNCHANGED <<proposal, execution, leased, books, people, worker, sends,
                   rejected, receipt, asked, changed, changedOn>>

BrokerAsks(p) ==
    /\ Port!Ask(p)
    /\ changedOn' = IF changed' # changed THEN [changedOn EXCEPT ![p] = day] ELSE changedOn
    /\ UNCHANGED <<proposal, execution, leased, books, people, worker, sends,
                   inbox, rejected>>

BrokerSettles(p) ==
    /\ \E v \in Port!Verdicts : Port!Settle(p, v)
    /\ UNCHANGED <<proposal, execution, leased, books, people, worker, sends,
                   inbox, rejected, changedOn>>

-----------------------------------------------------------------------------
Continue(w) ==
    \/ ReadAfterGateError(w) \/ SaveAfterGateError(w)
    \/ Revalidate(w) \/ SkipDrift(w) \/ ReadError(w) \/ RecheckBrake(w)
    \/ StartRunning(w) \/ Send(w)
    \/ GotSuccess(w) \/ GotRejection(w) \/ NoAnswer(w)

Claim(w, p) ==
    \/ GatesRefuse(w, p) \/ PassGates(w, p) \/ GateError(w, p)
    \/ ReconcileInDoubt(w, p) \/ ReconcileSettles(w, p)

Environment(p) ==
    \/ Approve(p) \/ Withdraw(p) \/ Expire(p) \/ LeaseLapses(p)
    \/ BrokerAdmits(p) \/ BrokerRejects(p) \/ RequestLost(p)
    \/ BrokerAsks(p) \/ BrokerSettles(p)

Next ==
    \/ \E w \in Workers : Continue(w) \/ Crash(w) \/ \E p \in Proposals : Claim(w, p)
    \/ \E p \in Proposals : Environment(p)
    \/ ToggleBrake \/ Midnight

Spec == Init /\ [][Next]_vars

\* Workers run their cycle for ever and finish what they start (or die),
\* leases lapse by the clock, and a broker that is asked for a receipt every
\* five minutes for ever answers at some point.
Fairness ==
    /\ \A w \in Workers : WF_vars(Continue(w))
    /\ \A p \in Proposals :
           /\ WF_vars(LeaseLapses(p))
           /\ WF_vars(\E w \in Workers : Claim(w, p))
           /\ SF_vars(\E w \in Workers : ReconcileSettles(w, p))

FairSpec == Spec /\ Fairness

-----------------------------------------------------------------------------
(* Properties. *)

States == {"pending", "scheduled", "executing", "executed", "failed", "invalidated"}

TypeOK ==
    /\ proposal \in [Proposals -> States]
    /\ execution \in [Proposals -> {"absent", "EXECUTED"} \union Claimable \union NotWritten]
    /\ leased \in SUBSET Proposals
    /\ reservation \in [Proposals -> {"none", "ACTIVE", "SETTLED", "RELEASED"}]
    /\ ledger \in [Proposals -> (0 .. MaxDay) \union {None}]
    /\ brake \in {"off", "autonomous", "all"}
    /\ expired \in SUBSET Proposals /\ lapsed \in SUBSET Proposals
    /\ day \in 0 .. MaxDay
    /\ worker \in [Workers -> WorkerState]
    /\ inbox \in SUBSET Proposals /\ rejected \in SUBSET Proposals
    /\ sends \in [Proposals -> Nat]
    /\ Port!PortTypeOK
    /\ changedOn \in [Proposals -> (0 .. MaxDay) \union {None}]

\* Whoever crashes, stalls or claims again, one approval is at most one
\* execute_write: after RUNNING only receipts are read (_reconcile).
SentOnce == \A p \in Proposals : sends[p] <= 1

\* Money on the platform that the ledger does not show yet is still reserved
\* (sql_unit_of_work.py, ADS-01: a reservation never lapses).
UnsettledIsReserved ==
    \A p \in changed : ledger[p] = None => reservation[p] = "ACTIVE"

\* On no day does the platform take more raises than the cap, plus what cuts
\* it really made (negative changes) have freed: over a lost answer, midnight
\* and two workers (lock_account, _evaluate_guardrails, reserved_increase).
DailyCapHolds ==
    \A d \in 0 .. MaxDay :
        Total({p \in Raises : changedOn[p] = d})
            <= DailyCap - Total({p \in changed \ Raises : changedOn[p] <= d})

\* A row closed as not written, or money given back, is the truth for ever:
\* the broker neither has the request nor will act on it.
NotWrittenIsTrue ==
    \A p \in Proposals :
        execution[p] \in NotWritten \/ reservation[p] = "RELEASED" =>
            p \notin inbox /\ receipt[p] = "absent"

\* The money follows the write: reserved while the platform may hold the change,
\* given back only when it does not and never will.
MoneyFollowsTheWrite == UnsettledIsReserved /\ NotWrittenIsTrue

\* One verdict in four places: row, proposal, reservation and ledger say that
\* it was executed together or not at all, and never without the change.
BooksAgree ==
    \A p \in Proposals :
        /\ execution[p] = "EXECUTED" <=> reservation[p] = "SETTLED"
        /\ execution[p] = "EXECUTED" <=> proposal[p] = "executed"
        /\ execution[p] = "EXECUTED" <=> ledger[p] # None
        /\ execution[p] = "EXECUTED" => p \in changed

\* What was withdrawn before it began is never written, wherever the worker
\* was at that moment (begin_execution and the trigger on proposals).
WithdrawnIsNeverWritten ==
    \A p \in Proposals : proposal[p] = "invalidated" => sends[p] = 0

\* A change the broker confirmed ends up in the books, over lost answers,
\* crashes and restarts of the worker (_reconcile, claim lease).
ConfirmedIsSettled ==
    \A p \in Proposals : receipt[p] = "SUCCEEDED" ~> execution[p] = "EXECUTED"

\* An approved execution is taken up and decided or put in doubt.
QueuedIsDecided ==
    \A p \in Proposals : execution[p] = "CLAIMED" ~> execution[p] # "CLAIMED"

-----------------------------------------------------------------------------
(* What the source says, and the code does not do. *)

\* chokepoint.py:162 and :381 call a proposal left scheduled by a brake or by
\* a clamp to nothing "reevaluable": while it is alive and nothing holds it,
\* it is looked at again.
BlockedIsReevaluated ==
    \A p \in Proposals :
        (execution[p] \in Blocked /\ proposal[p] = "scheduled")
            ~> (\/ BrakeBlocks(p) \/ p \in expired \/ p \in lapsed
                \/ execution[p] \notin Blocked \/ proposal[p] # "scheduled")
=============================================================================
