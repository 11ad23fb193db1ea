--------------------- MODULE ExecutionChokepoint_proofs ---------------------
(***************************************************************************)
(* The theorems of ExecutionChokepoint, for any proposals, workers,        *)
(* amounts and calendar.                                                   *)
(*                                                                         *)
(* Types first; then what sends (SendInv), what moves money (MoneyInv) and *)
(* what closes the books (BooksInv), each an inductive invariant on top of *)
(* the one before, action by action.                                       *)
(*                                                                         *)
(* Last the daily cap: which date each book gives a change (DatesInv), and *)
(* that the raises of a day that may still be made, or were, fit its cap   *)
(* beside the cuts that were made (ClaimsFit).                             *)
(***************************************************************************)
EXTENDS ExecutionChokepoint, SumTheorems, TLAPS

-----------------------------------------------------------------------------
(* Workers. *)

Driving == {"gated", "revalidated", "cleared", "running", "waiting"}
Faulty  == {"gate_error", "failing", "doubting"}

\* A worker that has something to do has a row.
LEMMA BusyWorker ==
    ASSUME TypeOK, NEW w \in Workers, worker[w].pc # "idle"
    PROVE  /\ worker[w].pc \in Driving \union Faulty
           /\ worker[w].p \in Proposals /\ worker[w].old \in BOOLEAN
           /\ worker[w] # Idle
<1>1. worker[w] \in WorkerState
  BY DEF TypeOK
<1> QED
  BY <1>1 DEF WorkerState, Idle, Driving, Faulty

\* Idle is the only state without one.
LEMMA IdleWorker ==
    ASSUME TypeOK, NEW w \in Workers, worker[w] # Idle
    PROVE  worker[w].pc # "idle"
<1>1. worker[w] \in WorkerState
  BY DEF TypeOK
<1> QED
  BY <1>1 DEF WorkerState, Idle

\* The three ways a worker moves, each on its own: on to another step,
LEMMA GotoMoves ==
    ASSUME TypeOK, NEW w \in Workers, worker[w].pc # "idle",
           NEW pc \in Driving \union Faulty, Goto(w, pc)
    PROVE  /\ worker' \in [Workers -> WorkerState]
           /\ worker'[w].pc = pc /\ worker'[w].p = worker[w].p
           /\ worker'[w].old = worker[w].old
           /\ \A v \in Workers \ {w} : worker'[v] = worker[v]
<1>1. worker \in [Workers -> WorkerState]
  BY DEF TypeOK
<1>2. worker[w] \in [pc : Driving \union Faulty, p : Proposals, old : BOOLEAN]
  BY <1>1 DEF WorkerState, Idle, Driving, Faulty
<1>3. [worker[w] EXCEPT !.pc = pc] \in WorkerState
  BY <1>2 DEF WorkerState, Driving, Faulty
<1> QED
  BY <1>1, <1>2, <1>3 DEF Goto

\* back to rest,
LEMMA RestMoves ==
    ASSUME TypeOK, NEW w \in Workers, Rest(w)
    PROVE  /\ worker' \in [Workers -> WorkerState]
           /\ worker'[w] = Idle /\ worker'[w].pc = "idle"
           /\ \A v \in Workers \ {w} : worker'[v] = worker[v]
BY DEF TypeOK, Rest, WorkerState, Idle

\* and off with a new row.
LEMMA BeginMoves ==
    ASSUME TypeOK, NEW w \in Workers, NEW p \in Proposals,
           NEW pc \in Driving \union Faulty, Begin(w, p, pc)
    PROVE  /\ worker' \in [Workers -> WorkerState]
           /\ worker'[w].pc = pc /\ worker'[w].p = p /\ worker'[w].old = FALSE
           /\ \A v \in Workers \ {w} : worker'[v] = worker[v]
<1>1. [pc |-> pc, p |-> p, old |-> FALSE] \in WorkerState
  BY DEF WorkerState, Driving, Faulty
<1> QED
  BY <1>1 DEF TypeOK, Begin

\* A lease that lapses under a worker only marks it.
LEMMA LapseMoves ==
    ASSUME TypeOK, NEW p \in Proposals, LeaseLapses(p)
    PROVE  /\ worker' \in [Workers -> WorkerState]
           /\ \A v \in Workers :
                  /\ worker'[v].pc = worker[v].pc
                  /\ worker[v].pc # "idle" => worker'[v].p = worker[v].p
                  /\ LeaseHolds => worker'[v] = worker[v] /\ (worker[v].pc # "idle" => worker[v].p # p)
<1>1. ASSUME NEW v \in Workers
      PROVE  /\ worker'[v] \in WorkerState
             /\ worker'[v].pc = worker[v].pc
             /\ worker[v].pc # "idle" => worker'[v].p = worker[v].p
             /\ LeaseHolds => worker'[v] = worker[v] /\ (worker[v].pc # "idle" => worker[v].p # p)
  <2>1. worker'[v] = IF v \in Holders(p) THEN [worker[v] EXCEPT !.old = TRUE] ELSE worker[v]
    BY DEF LeaseLapses
  <2>2. worker[v] \in WorkerState
    BY DEF TypeOK
  <2>3. v \in Holders(p) => worker[v] \in [pc : Driving \union Faulty, p : Proposals, old : BOOLEAN]
    BY <2>2 DEF WorkerState, Holders, Driving, Faulty
  <2>4. worker[v].pc # "idle" => worker[v] # Idle
    BY DEF Idle
  <2>5. LeaseHolds => v \notin Holders(p)
    BY DEF LeaseLapses
  <2>6. CASE v \in Holders(p)
    <3>1. [worker[v] EXCEPT !.old = TRUE] \in WorkerState
      BY <2>3, <2>6 DEF WorkerState, Driving, Faulty
    <3> QED
      BY <2>1, <2>3, <2>5, <2>6, <3>1
  <2>7. CASE v \notin Holders(p)
    BY <2>1, <2>2, <2>4, <2>7 DEF Holders
  <2> QED
    BY <2>6, <2>7
<1>2. worker' = [v \in Workers |-> worker'[v]]
  BY DEF LeaseLapses
<1>3. worker' \in [Workers -> WorkerState]
  BY <1>1, <1>2
<1> QED
  BY <1>1, <1>3

-----------------------------------------------------------------------------
(* Types. *)

Outcomes == {"absent", "EXECUTED"} \union Claimable \union NotWritten

\* A saved row is a row.
LEMMA SaveType ==
    ASSUME TypeOK, NEW w \in Workers, NEW p \in Proposals, NEW status \in Outcomes,
           Save(w, p, status)
    PROVE  /\ execution' \in [Proposals -> Outcomes]
           /\ leased' \in SUBSET Proposals
BY DEF TypeOK, Save, Outcomes

\* Nor does money given back make a reservation anything but one,
LEMMA ReleaseType ==
    ASSUME TypeOK, NEW p \in Proposals, Release(p)
    PROVE  reservation' \in [Proposals -> {"none", "ACTIVE", "SETTLED", "RELEASED"}]
BY DEF TypeOK, Release

\* a doubt writes only the row,
LEMMA DoubtType ==
    ASSUME TypeOK, NEW w \in Workers, NEW p \in Proposals, Doubt(w, p)
    PROVE  /\ execution' \in [Proposals -> Outcomes]
           /\ leased' \in SUBSET Proposals
           /\ UNCHANGED <<proposal, books>>
<1> DEFINE status == IF reservation[p] = "ACTIVE" THEN "UNKNOWN" ELSE "FAILED"
<1>1. status \in Outcomes
  BY DEF Outcomes, Claimable, NotWritten
<1>2. Save(w, p, status) /\ UNCHANGED <<proposal, books>>
  BY DEF Doubt
<1> HIDE DEF status
<1> QED
  BY <1>1, <1>2, SaveType

\* and a success writes all four books, with what belongs there.
LEMMA SucceedType ==
    ASSUME TypeOK, NEW w \in Workers, NEW p \in Proposals, Succeed(w, p)
    PROVE  /\ execution' \in [Proposals -> Outcomes]
           /\ leased' \in SUBSET Proposals
           /\ proposal' \in [Proposals -> States]
           /\ reservation' \in [Proposals -> {"none", "ACTIVE", "SETTLED", "RELEASED"}]
           /\ ledger' \in [Proposals -> (0 .. MaxDay) \union {None}]
<1>1. Save(w, p, "EXECUTED") /\ "EXECUTED" \in Outcomes
  BY DEF Succeed, Outcomes
<1>2. /\ proposal' \in [Proposals -> States]
      /\ reservation' \in [Proposals -> {"none", "ACTIVE", "SETTLED", "RELEASED"}]
      /\ ledger' \in [Proposals -> (0 .. MaxDay) \union {None}]
  BY DEF Succeed, TypeOK, States
<1> QED
  BY <1>1, <1>2, SaveType

\* Every state is well typed at first,
LEMMA InitTypeOK == Init => TypeOK
BY ChokepointAssumption
   DEF Init, TypeOK, States, WorkerState, Port!PortInit, Port!PortTypeOK

\* and stays so, whoever moves.
LEMMA NextTypeOK == TypeOK /\ [Next]_vars => TypeOK'
<1> SUFFICES ASSUME TypeOK, [Next]_vars
             PROVE  TypeOK'
  OBVIOUS
<1> USE DEF Outcomes
<1>1. ASSUME NEW p \in Proposals, Approve(p)
      PROVE  TypeOK'
  BY <1>1 DEF TypeOK, Approve, States, Claimable, NotWritten, books, people, remote, Port!PortTypeOK
<1>2. ASSUME NEW p \in Proposals, Withdraw(p)
      PROVE  TypeOK'
  BY <1>2 DEF TypeOK, Withdraw, States, books, people, remote, Port!PortTypeOK
<1>3. ASSUME NEW p \in Proposals, Expire(p)
      PROVE  TypeOK'
  BY <1>3 DEF TypeOK, Expire, books, remote, Port!PortTypeOK
<1>4. ASSUME NEW p \in Proposals, LeaseLapses(p)
      PROVE  TypeOK'
  <2>1. worker' \in [Workers -> WorkerState]
    BY <1>4, LapseMoves
  <2> QED
    BY <1>4, <2>1 DEF TypeOK, LeaseLapses, books, people, remote, Port!PortTypeOK
<1>5. ASSUME NEW p \in Proposals, BrokerAdmits(p) \/ BrokerRejects(p) \/ RequestLost(p)
      PROVE  TypeOK'
  BY <1>5 DEF TypeOK, BrokerAdmits, BrokerRejects, RequestLost, books, people,
              Port!Admit, Port!PortTypeOK
<1>6. ASSUME NEW p \in Proposals, BrokerAsks(p)
      PROVE  TypeOK'
  BY <1>6 DEF TypeOK, BrokerAsks, books, people, Port!Ask, Port!PortTypeOK
<1>7. ASSUME NEW p \in Proposals, BrokerSettles(p)
      PROVE  TypeOK'
  BY <1>7 DEF TypeOK, BrokerSettles, books, people, Port!Settle, Port!PortTypeOK
<1>8. CASE ToggleBrake \/ Midnight
  BY <1>8, ChokepointAssumption
     DEF TypeOK, ToggleBrake, Midnight, books, remote, Port!PortTypeOK
<1>9. ASSUME NEW w \in Workers, NEW p \in Proposals, GatesRefuse(w, p)
      PROVE  TypeOK'
  <2>1. PICK enabled \in BOOLEAN :
            LET outcome == GateVerdict(p, enabled)
            IN  /\ outcome # "OK"
                /\ Save(w, p, outcome)
                /\ proposal' = IF outcome = "BLOCKED_GUARDRAIL"
                               THEN [proposal EXCEPT ![p] = "invalidated"] ELSE proposal
    BY <1>9 DEF GatesRefuse
  <2>2. GateVerdict(p, enabled) \in Outcomes
    BY <2>1 DEF GateVerdict, NotWritten, Blocked
  <2>3. execution' \in [Proposals -> Outcomes] /\ leased' \in SUBSET Proposals
    BY <2>1, <2>2, SaveType
  <2>4. proposal' \in [Proposals -> States]
    BY <2>1 DEF TypeOK, States
  <2> QED
    BY <1>9, <2>3, <2>4 DEF TypeOK, GatesRefuse, books, people, remote, Port!PortTypeOK
<1>10. ASSUME NEW w \in Workers, NEW p \in Proposals, PassGates(w, p)
       PROVE  TypeOK'
  <2>1. worker' \in [Workers -> WorkerState]
    BY <1>10, BeginMoves DEF PassGates, Driving
  <2> QED
    BY <1>10, <2>1 DEF TypeOK, PassGates, people, remote, Port!PortTypeOK
<1>11. ASSUME NEW w \in Workers, NEW p \in Proposals, GateError(w, p)
       PROVE  TypeOK'
  <2>1. worker' \in [Workers -> WorkerState]
    BY <1>11, BeginMoves DEF GateError, Faulty
  <2> QED
    BY <1>11, <2>1 DEF TypeOK, GateError, books, people, remote, Port!PortTypeOK
<1>12. ASSUME NEW w \in Workers, NEW p \in Proposals, ReconcileInDoubt(w, p)
       PROVE  TypeOK'
  <2>1. execution' \in [Proposals -> Outcomes] /\ leased' \in SUBSET Proposals
    BY <1>12, SaveType DEF ReconcileInDoubt, Claimable
  <2> QED
    BY <1>12, <2>1 DEF TypeOK, ReconcileInDoubt, States, books, people, remote, Port!PortTypeOK
<1>13. ASSUME NEW w \in Workers, NEW p \in Proposals, ReconcileSettles(w, p)
       PROVE  TypeOK'
  BY <1>13, SucceedType DEF TypeOK, ReconcileSettles, people, remote, Port!PortTypeOK
<1>14. ASSUME NEW w \in Workers, ReadAfterGateError(w) \/ Revalidate(w)
       PROVE  TypeOK'
  <2>1. worker' \in [Workers -> WorkerState]
    BY <1>14, GotoMoves DEF ReadAfterGateError, Revalidate, At, Faulty, Driving
  <2> QED
    BY <1>14, <2>1
       DEF TypeOK, ReadAfterGateError, Revalidate, books, people, remote, Port!PortTypeOK
<1>15. ASSUME NEW w \in Workers, Crash(w)
       PROVE  TypeOK'
  BY <1>15, RestMoves DEF TypeOK, Crash, books, people, remote, Port!PortTypeOK
<1>16. ASSUME NEW w \in Workers, SaveAfterGateError(w)
       PROVE  TypeOK'
  <2> DEFINE p == worker[w].p
  <2>1. p \in Proposals
    BY <1>16, BusyWorker DEF SaveAfterGateError
  <2>2. Save(w, p, "UNKNOWN") \/ Save(w, p, "FAILED")
    BY <1>16 DEF SaveAfterGateError
  <2>3. UNCHANGED ledger /\ (UNCHANGED reservation \/ Release(p))
    BY <1>16 DEF SaveAfterGateError, books
  <2>4. worker' \in [Workers -> WorkerState]
    BY <1>16, RestMoves DEF SaveAfterGateError
  <2> HIDE DEF p
  <2>5. execution' \in [Proposals -> Outcomes] /\ leased' \in SUBSET Proposals
    BY <2>1, <2>2, SaveType DEF Claimable, NotWritten
  <2>6. reservation' \in [Proposals -> {"none", "ACTIVE", "SETTLED", "RELEASED"}]
    BY <2>1, <2>3, ReleaseType DEF TypeOK
  <2> QED
    BY <1>16, <2>3, <2>4, <2>5, <2>6
       DEF TypeOK, SaveAfterGateError, people, remote, Port!PortTypeOK
<1>17. ASSUME NEW w \in Workers, SkipDrift(w)
       PROVE  TypeOK'
  <2> DEFINE p == worker[w].p
  <2>1. p \in Proposals
    BY <1>17, BusyWorker DEF SkipDrift, At
  <2>2. worker' \in [Workers -> WorkerState]
    BY <1>17, RestMoves DEF SkipDrift
  <2>3. \/ /\ proposal' = [proposal EXCEPT ![p] = "invalidated"]
           /\ Save(w, p, "SKIPPED_DRIFT") /\ Release(p)
        \/ UNCHANGED <<proposal, execution, leased, reservation>>
    BY <1>17 DEF SkipDrift
  <2> HIDE DEF p
  <2>4. CASE UNCHANGED <<proposal, execution, leased, reservation>>
    BY <1>17, <2>2, <2>4 DEF TypeOK, SkipDrift, people, remote, Port!PortTypeOK
  <2>5. CASE /\ proposal' = [proposal EXCEPT ![p] = "invalidated"]
             /\ Save(w, p, "SKIPPED_DRIFT") /\ Release(p)
    <3>1. execution' \in [Proposals -> Outcomes] /\ leased' \in SUBSET Proposals
      BY <2>1, <2>5, SaveType DEF NotWritten
    <3>2. reservation' \in [Proposals -> {"none", "ACTIVE", "SETTLED", "RELEASED"}]
      BY <2>1, <2>5, ReleaseType
    <3>3. proposal' \in [Proposals -> States]
      BY <2>5 DEF TypeOK, States
    <3> QED
      BY <1>17, <2>2, <3>1, <3>2, <3>3 DEF TypeOK, SkipDrift, people, remote, Port!PortTypeOK
  <2> QED
    BY <2>3, <2>4, <2>5
<1>18. ASSUME NEW w \in Workers, ReadError(w)
       PROVE  TypeOK'
  <2>1. worker[w].p \in Proposals /\ worker' \in [Workers -> WorkerState]
    BY <1>18, BusyWorker, RestMoves DEF ReadError
  <2>2. /\ execution' \in [Proposals -> Outcomes] /\ leased' \in SUBSET Proposals
        /\ UNCHANGED <<proposal, books>>
    BY <1>18, <2>1, DoubtType DEF ReadError
  <2> QED
    BY <1>18, <2>1, <2>2 DEF TypeOK, ReadError, books, people, remote, Port!PortTypeOK
<1>19. ASSUME NEW w \in Workers, RecheckBrake(w)
       PROVE  TypeOK'
  <2> DEFINE p == worker[w].p
  <2>1. p \in Proposals
    BY <1>19, BusyWorker DEF RecheckBrake, At
  <2>2. \/ /\ Save(w, p, "BLOCKED_BRAKE") \/ Save(w, p, "BLOCKED_GUARDRAIL")
           /\ Release(p) /\ Rest(w)
        \/ Goto(w, "cleared") /\ UNCHANGED <<execution, leased, reservation>>
    BY <1>19 DEF RecheckBrake
  <2> HIDE DEF p
  <2>3. CASE Goto(w, "cleared") /\ UNCHANGED <<execution, leased, reservation>>
    <3>1. worker' \in [Workers -> WorkerState]
      BY <1>19, <2>3, GotoMoves DEF RecheckBrake, At, Driving
    <3> QED
      BY <1>19, <2>3, <3>1 DEF TypeOK, RecheckBrake, people, remote, Port!PortTypeOK
  <2>4. CASE /\ Save(w, p, "BLOCKED_BRAKE") \/ Save(w, p, "BLOCKED_GUARDRAIL")
             /\ Release(p) /\ Rest(w)
    <3>1. execution' \in [Proposals -> Outcomes] /\ leased' \in SUBSET Proposals
      BY <2>1, <2>4, SaveType DEF NotWritten, Blocked
    <3>2. /\ reservation' \in [Proposals -> {"none", "ACTIVE", "SETTLED", "RELEASED"}]
          /\ worker' \in [Workers -> WorkerState]
      BY <2>1, <2>4, ReleaseType, RestMoves
    <3> QED
      BY <1>19, <3>1, <3>2 DEF TypeOK, RecheckBrake, people, remote, Port!PortTypeOK
  <2> QED
    BY <2>2, <2>3, <2>4
<1>20. ASSUME NEW w \in Workers, StartRunning(w)
       PROVE  TypeOK'
  <2> DEFINE p == worker[w].p
  <2>1. p \in Proposals
    BY <1>20, BusyWorker DEF StartRunning, At
  <2>2. \/ /\ Save(w, p, "RUNNING") /\ proposal' = [proposal EXCEPT ![p] = "executing"]
           /\ Goto(w, "running") /\ UNCHANGED books
        \/ Doubt(w, p) /\ Rest(w)
    BY <1>20 DEF StartRunning
  <2> HIDE DEF p
  <2>3. CASE /\ Save(w, p, "RUNNING") /\ proposal' = [proposal EXCEPT ![p] = "executing"]
             /\ Goto(w, "running") /\ UNCHANGED books
    <3>1. execution' \in [Proposals -> Outcomes] /\ leased' \in SUBSET Proposals
      BY <2>1, <2>3, SaveType DEF Claimable
    <3>2. worker' \in [Workers -> WorkerState]
      BY <1>20, <2>3, GotoMoves DEF StartRunning, At, Driving
    <3>3. proposal' \in [Proposals -> States]
      BY <2>3 DEF TypeOK, States
    <3> QED
      BY <1>20, <2>3, <3>1, <3>2, <3>3 DEF TypeOK, StartRunning, books, people, remote, Port!PortTypeOK
  <2>4. CASE Doubt(w, p) /\ Rest(w)
    BY <1>20, <2>1, <2>4, DoubtType, RestMoves
       DEF TypeOK, StartRunning, books, people, remote, Port!PortTypeOK
  <2> QED
    BY <2>2, <2>3, <2>4
<1>21. ASSUME NEW w \in Workers, Send(w)
       PROVE  TypeOK'
  <2>1. worker' \in [Workers -> WorkerState] /\ worker[w].p \in Proposals
    BY <1>21, GotoMoves, BusyWorker DEF Send, At, Driving
  <2> QED
    BY <1>21, <2>1 DEF TypeOK, Send, books, people, Port!PortTypeOK
<1>22. ASSUME NEW w \in Workers, GotSuccess(w)
       PROVE  TypeOK'
  <2>1. worker' \in [Workers -> WorkerState] /\ worker[w].p \in Proposals
    BY <1>22, RestMoves, BusyWorker DEF GotSuccess, At
  <2>2. Succeed(w, worker[w].p)
    BY <1>22 DEF GotSuccess
  <2> QED
    BY <1>22, <2>1, <2>2, SucceedType DEF TypeOK, GotSuccess, people, remote, Port!PortTypeOK
<1>23. ASSUME NEW w \in Workers, GotRejection(w)
       PROVE  TypeOK'
  <2> DEFINE p == worker[w].p
  <2>1. worker' \in [Workers -> WorkerState] /\ p \in Proposals
    BY <1>23, RestMoves, BusyWorker DEF GotRejection, At
  <2>2. /\ proposal' = [proposal EXCEPT ![p] = "failed"]
        /\ Save(w, p, "FAILED") /\ Release(p)
    BY <1>23 DEF GotRejection
  <2> HIDE DEF p
  <2>3. execution' \in [Proposals -> Outcomes] /\ leased' \in SUBSET Proposals
    BY <2>1, <2>2, SaveType DEF NotWritten
  <2>4. reservation' \in [Proposals -> {"none", "ACTIVE", "SETTLED", "RELEASED"}]
    BY <2>1, <2>2, ReleaseType
  <2>5. proposal' \in [Proposals -> States]
    BY <2>2 DEF TypeOK, States
  <2> QED
    BY <1>23, <2>1, <2>3, <2>4, <2>5 DEF TypeOK, GotRejection, people, remote, Port!PortTypeOK
<1>24. ASSUME NEW w \in Workers, NoAnswer(w)
       PROVE  TypeOK'
  <2>1. worker' \in [Workers -> WorkerState] /\ worker[w].p \in Proposals
    BY <1>24, RestMoves, BusyWorker DEF NoAnswer, At
  <2>2. execution' \in [Proposals -> Outcomes] /\ leased' \in SUBSET Proposals
    BY <1>24, <2>1, SaveType DEF NoAnswer, Claimable
  <2> QED
    BY <1>24, <2>1, <2>2 DEF TypeOK, NoAnswer, books, people, remote, Port!PortTypeOK
<1>25. CASE UNCHANGED vars
  BY <1>25 DEF TypeOK, vars, books, people, remote, Port!PortTypeOK
<1> QED
  BY <1>1, <1>2, <1>3, <1>4, <1>5, <1>6, <1>7, <1>8, <1>9, <1>10, <1>11, <1>12, <1>13,
     <1>14, <1>15, <1>16, <1>17, <1>18, <1>19, <1>20, <1>21, <1>22, <1>23, <1>24, <1>25
     DEF Next, Continue, Claim, Environment

\* Every variable of the chokepoint keeps its type.
THEOREM ChokepointTypes == Spec => []TypeOK
BY InitTypeOK, NextTypeOK, PTL DEF Spec
-----------------------------------------------------------------------------
(* What sends. *)

\* The worker w is past the gates with p and has not given it up; or it failed
\* in the gates and is on its way to say so.
Drives(w, p) == worker[w].pc \in Driving /\ worker[w].p = p
Errs(w, p) == worker[w].pc \in Faulty /\ worker[w].p = p
\* What a proposal never comes back from to scheduled.
Begun == {"executing", "executed", "failed"}

\* A reservation marks the one worker that passed the gates with p, and lasts:
\* nobody passes them again, so nobody but that worker ever sends.
SendInv ==
    /\ \A p \in Proposals, v, w \in Workers : Drives(v, p) /\ Drives(w, p) => v = w
    /\ \A p \in Proposals, w \in Workers : Drives(w, p) =>
           /\ reservation[p] # "none"
           /\ worker[w].pc # "waiting" => sends[p] = 0
           /\ worker[w].pc \in {"running", "waiting"} => proposal[p] \in Begun
    /\ \A p \in Proposals :
           /\ sends[p] <= 1
           /\ sends[p] > 0 => reservation[p] # "none" /\ proposal[p] \in Begun

\* No step makes a second driver, a second send or a way back to scheduled:
\* the reservation of PassGates and the proposal that StartRunning reads again
\* are what keeps it (chokepoint.py, begin_execution).
LEMMA NextSendInv == TypeOK /\ SendInv /\ [Next]_vars => SendInv'
<1> SUFFICES ASSUME TypeOK, SendInv, [Next]_vars
             PROVE  SendInv'
  OBVIOUS
<1> USE DEF Driving, Faulty, Begun
\* Nothing but the proposal moves.
<1>1. ASSUME NEW p \in Proposals, Approve(p) \/ Withdraw(p)
      PROVE  SendInv'
  BY <1>1 DEF SendInv, Drives, TypeOK, Approve, Withdraw, books
<1>2. ASSUME NEW p \in Proposals,
             Expire(p) \/ BrokerAdmits(p) \/ BrokerRejects(p) \/ RequestLost(p)
                 \/ BrokerAsks(p) \/ BrokerSettles(p)
      PROVE  SendInv'
  BY <1>2 DEF SendInv, Drives, Expire, BrokerAdmits, BrokerRejects, RequestLost, BrokerAsks,
              BrokerSettles, books
<1>3. CASE ToggleBrake \/ Midnight \/ UNCHANGED vars
  BY <1>3 DEF SendInv, Drives, ToggleBrake, Midnight, vars, books
<1>4. ASSUME NEW p \in Proposals, LeaseLapses(p)
      PROVE  SendInv'
  <2>1. \A v \in Workers, q \in Proposals : Drives(v, q)' => Drives(v, q) /\ worker'[v].pc = worker[v].pc
    BY <1>4, LapseMoves DEF Drives
  <2> QED
    BY <1>4, <2>1 DEF SendInv, LeaseLapses, books
<1>5. ASSUME NEW w \in Workers, NEW p \in Proposals, GatesRefuse(w, p)
      PROVE  SendInv'
  BY <1>5 DEF SendInv, Drives, TypeOK, GatesRefuse, GateVerdict, books
<1>6. ASSUME NEW w \in Workers, NEW p \in Proposals, PassGates(w, p)
      PROVE  SendInv'
  <2>1. /\ worker'[w].pc = "gated" /\ worker'[w].p = p
        /\ \A v \in Workers \ {w} : worker'[v] = worker[v]
    BY <1>6, BeginMoves DEF PassGates
  <2>2. reservation[p] = "none" /\ reservation' = [reservation EXCEPT ![p] = "ACTIVE"]
        /\ UNCHANGED <<proposal, sends>>
    BY <1>6 DEF PassGates
  <2> QED
    BY <2>1, <2>2 DEF SendInv, Drives, TypeOK
<1>7. ASSUME NEW w \in Workers, NEW p \in Proposals, GateError(w, p)
      PROVE  SendInv'
  <2>1. /\ worker'[w].pc = "gate_error"
        /\ \A v \in Workers \ {w} : worker'[v] = worker[v]
    BY <1>7, BeginMoves DEF GateError
  <2> QED
    BY <1>7, <2>1 DEF SendInv, Drives, GateError, books
<1>8. ASSUME NEW w \in Workers, NEW p \in Proposals, ReconcileInDoubt(w, p)
      PROVE  SendInv'
  BY <1>8 DEF SendInv, Drives, TypeOK, ReconcileInDoubt, books
<1>9. ASSUME NEW w \in Workers, NEW p \in Proposals, ReconcileSettles(w, p)
      PROVE  SendInv'
  BY <1>9 DEF SendInv, Drives, TypeOK, ReconcileSettles, Succeed
<1>10. ASSUME NEW w \in Workers, ReadAfterGateError(w) \/ Revalidate(w)
       PROVE  SendInv'
  BY <1>10, GotoMoves DEF SendInv, Drives, ReadAfterGateError, Revalidate, At, books
<1>11. ASSUME NEW w \in Workers, Crash(w) \/ NoAnswer(w)
       PROVE  SendInv'
  BY <1>11, RestMoves DEF SendInv, Drives, Crash, NoAnswer, books
<1>12. ASSUME NEW w \in Workers, SaveAfterGateError(w)
       PROVE  SendInv'
  BY <1>12, RestMoves DEF SendInv, Drives, TypeOK, SaveAfterGateError, Release, books
<1>13. ASSUME NEW w \in Workers, SkipDrift(w)
       PROVE  SendInv'
  BY <1>13, RestMoves DEF SendInv, Drives, TypeOK, SkipDrift, Release
<1>14. ASSUME NEW w \in Workers, ReadError(w)
       PROVE  SendInv'
  BY <1>14, RestMoves DEF SendInv, Drives, ReadError, Doubt, books
<1>15. ASSUME NEW w \in Workers, RecheckBrake(w)
       PROVE  SendInv'
  BY <1>15, RestMoves, GotoMoves DEF SendInv, Drives, TypeOK, RecheckBrake, Release, At
<1>16. ASSUME NEW w \in Workers, StartRunning(w)
       PROVE  SendInv'
  BY <1>16, RestMoves, GotoMoves DEF SendInv, Drives, TypeOK, StartRunning, Doubt, At, books
<1>17. ASSUME NEW w \in Workers, Send(w)
       PROVE  SendInv'
  BY <1>17, GotoMoves DEF SendInv, Drives, TypeOK, Send, At, books
<1>18. ASSUME NEW w \in Workers, GotSuccess(w)
       PROVE  SendInv'
  BY <1>18, RestMoves DEF SendInv, Drives, TypeOK, GotSuccess, Succeed
<1>19. ASSUME NEW w \in Workers, GotRejection(w)
       PROVE  SendInv'
  BY <1>19, RestMoves DEF SendInv, Drives, TypeOK, GotRejection, Release
<1> QED
  BY <1>1, <1>2, <1>3, <1>4, <1>5, <1>6, <1>7, <1>8, <1>9, <1>10, <1>11, <1>12, <1>13,
     <1>14, <1>15, <1>16, <1>17, <1>18, <1>19
     DEF Next, Continue, Claim, Environment

\* And at first nobody drives.
LEMMA InitSendInv == Init => SendInv
BY DEF Init, SendInv, Drives, Driving, Idle

\* One approval is at most one execute_write, for any number of workers that
\* crash, stall past their lease, or fail in the gates.
THEOREM ChokepointSendsOnce == Spec => []SentOnce
<1>1. TypeOK /\ SendInv => SentOnce
  BY DEF SendInv, SentOnce
<1> QED
  BY <1>1, InitTypeOK, NextTypeOK, InitSendInv, NextSendInv, PTL DEF Spec

\* A proposal invalidated before begin_execution is never written, wherever any
\* worker was with it.
THEOREM ChokepointSparesTheWithdrawn == Spec => []WithdrawnIsNeverWritten
<1>1. TypeOK /\ SendInv => WithdrawnIsNeverWritten
  BY DEF TypeOK, SendInv, WithdrawnIsNeverWritten, Begun
<1> QED
  BY <1>1, InitTypeOK, NextTypeOK, InitSendInv, NextSendInv, PTL DEF Spec

-----------------------------------------------------------------------------
(* What moves money. *)

\* The hypothesis of the next theorems: if the database may fail inside the
\* gates, one worker alone runs the queue.  Two of them could write FAILED over
\* each other's row (GateError; see the README).
Prudent == GatesMayFail => \A v, w \in Workers : v = w

\* Everything the broker knows of p follows a send, a refusal is final, a row
\* says not written only of what was never sent or was refused, and until its
\* answer the driver's money stays reserved.
MoneyInv ==
    /\ \A p \in Proposals :
           /\ p \in inbox \/ p \in rejected \/ receipt[p] # "absent" => sends[p] > 0
           /\ p \in asked => receipt[p] # "absent"
           /\ p \in rejected => p \notin inbox /\ receipt[p] = "absent"
           /\ reservation[p] = "RELEASED" \/ execution[p] \in NotWritten =>
                  sends[p] = 0 \/ p \in rejected
           /\ execution[p] = "CLAIMED" => sends[p] = 0
           /\ reservation[p] = "SETTLED" => ledger[p] # None
    /\ \A p \in Proposals, w \in Workers :
           /\ Drives(w, p) /\ worker[w].pc # "waiting" => reservation[p] = "ACTIVE"
           /\ Drives(w, p) /\ worker[w].pc = "running" => execution[p] \in {"RUNNING", "UNKNOWN"}
           /\ Errs(w, p) => GatesMayFail /\ sends[p] = 0

\* No step gives money back, or closes a row as not written, under a request
\* the broker has or may still get.
LEMMA NextMoneyInv ==
    ASSUME Prudent, TypeOK, SendInv, MoneyInv, [Next]_vars
    PROVE  MoneyInv'
<1> USE DEF Driving, Faulty, Begun
<1>1. ASSUME NEW p \in Proposals, Approve(p)
      PROVE  MoneyInv'
  BY <1>1 DEF MoneyInv, SendInv, Drives, Errs, TypeOK, Approve, NotWritten, Blocked, books, remote
<1>2. ASSUME NEW p \in Proposals, Withdraw(p) \/ Expire(p)
      PROVE  MoneyInv'
  BY <1>2 DEF MoneyInv, Drives, Errs, Withdraw, Expire, books, remote
<1>3. CASE ToggleBrake \/ Midnight \/ UNCHANGED vars
  BY <1>3 DEF MoneyInv, Drives, Errs, ToggleBrake, Midnight, vars, books, remote
<1>4. ASSUME NEW p \in Proposals, LeaseLapses(p)
      PROVE  MoneyInv'
  <2>1. \A v \in Workers, q \in Proposals :
            /\ Drives(v, q)' => Drives(v, q) /\ worker'[v].pc = worker[v].pc
            /\ Errs(v, q)' => Errs(v, q)
    BY <1>4, LapseMoves DEF Drives, Errs
  <2> QED
    BY <1>4, <2>1 DEF MoneyInv, LeaseLapses, books, remote
<1>5. ASSUME NEW p \in Proposals, BrokerAdmits(p) \/ BrokerRejects(p) \/ RequestLost(p)
      PROVE  MoneyInv'
  BY <1>5 DEF MoneyInv, Drives, Errs, TypeOK, BrokerAdmits, BrokerRejects, RequestLost,
              Port!Admit, Port!PortTypeOK, books
<1>6. ASSUME NEW p \in Proposals, BrokerAsks(p)
      PROVE  MoneyInv'
  BY <1>6 DEF MoneyInv, Drives, Errs, TypeOK, BrokerAsks, Port!Ask, books
<1>7. ASSUME NEW p \in Proposals, BrokerSettles(p)
      PROVE  MoneyInv'
  BY <1>7 DEF MoneyInv, Drives, Errs, TypeOK, BrokerSettles, Port!Settle, Port!Verdicts,
              Port!PortTypeOK, books
<1>8. ASSUME NEW w \in Workers, NEW p \in Proposals, GatesRefuse(w, p)
      PROVE  MoneyInv'
  <2>1. execution[p] = "CLAIMED" /\ UNCHANGED <<books, worker, sends, remote>>
    BY <1>8 DEF GatesRefuse, Fresh
  <2>2. PICK outcome : execution' = [execution EXCEPT ![p] = outcome] /\ outcome \in NotWritten
    BY <1>8 DEF GatesRefuse, GateVerdict, Save, NotWritten, Blocked
  <2> QED
    BY <2>1, <2>2 DEF MoneyInv, SendInv, Drives, Errs, TypeOK, NotWritten, Blocked, books, remote
<1>9. ASSUME NEW w \in Workers, NEW p \in Proposals, PassGates(w, p)
      PROVE  MoneyInv'
  <2>1. /\ worker'[w].pc = "gated" /\ worker'[w].p = p
        /\ \A v \in Workers \ {w} : worker'[v] = worker[v]
    BY <1>9, BeginMoves DEF PassGates
  <2>2. /\ reservation[p] = "none" /\ reservation' = [reservation EXCEPT ![p] = "ACTIVE"]
        /\ UNCHANGED <<proposal, execution, ledger, sends, remote>>
    BY <1>9 DEF PassGates
  <2> QED
    BY <2>1, <2>2 DEF MoneyInv, SendInv, Drives, Errs, TypeOK, remote
<1>10. ASSUME NEW w \in Workers, NEW p \in Proposals, GateError(w, p)
       PROVE  MoneyInv'
  <2>1. /\ worker'[w].pc = "gate_error" /\ worker'[w].p = p
        /\ \A v \in Workers \ {w} : worker'[v] = worker[v]
    BY <1>10, BeginMoves DEF GateError
  <2>2. GatesMayFail /\ execution[p] = "CLAIMED"
    BY <1>10 DEF GateError, Fresh
  <2> QED
    BY <1>10, <2>1, <2>2 DEF MoneyInv, SendInv, Drives, Errs, TypeOK, GateError, books, remote
<1>11. ASSUME NEW w \in Workers, NEW p \in Proposals, ReconcileInDoubt(w, p)
       PROVE  MoneyInv'
  BY <1>11 DEF MoneyInv, Drives, Errs, TypeOK, ReconcileInDoubt, Save, NotWritten, Blocked, books, remote
<1>12. ASSUME NEW w \in Workers, NEW p \in Proposals, ReconcileSettles(w, p)
       PROVE  MoneyInv'
  <2>1. day # None
    BY ChokepointAssumption DEF TypeOK
  <2> QED
    BY <1>12, <2>1 DEF MoneyInv, SendInv, Drives, Errs, TypeOK, ReconcileSettles, Succeed, Save,
                       NotWritten, Blocked, remote
<1>13. ASSUME NEW w \in Workers, ReadAfterGateError(w) \/ Revalidate(w)
       PROVE  MoneyInv'
  BY <1>13, GotoMoves DEF MoneyInv, Drives, Errs, ReadAfterGateError, Revalidate, At, books, remote
<1>14. ASSUME NEW w \in Workers, Crash(w)
       PROVE  MoneyInv'
  BY <1>14, RestMoves DEF MoneyInv, Drives, Errs, Crash, books, remote
\* A worker the gates failed is the only one there is.
<1>15. ASSUME NEW w \in Workers, SaveAfterGateError(w)
       PROVE  MoneyInv'
  <2> DEFINE p == worker[w].p
  <2>1. p \in Proposals /\ Errs(w, p)
    BY <1>15, BusyWorker DEF SaveAfterGateError, Errs
  <2>2. GatesMayFail /\ sends[p] = 0 /\ \A v \in Workers : v = w
    BY <2>1 DEF MoneyInv, Prudent
  <2>3. \A v \in Workers : worker'[v].pc = "idle"
    BY <1>15, <2>2, RestMoves DEF SaveAfterGateError
  <2>4. /\ \E status \in {"UNKNOWN", "FAILED"} : execution' = [execution EXCEPT ![p] = status]
        /\ UNCHANGED <<proposal, ledger, sends, remote>>
        /\ reservation' = reservation \/ Release(p)
    BY <1>15 DEF SaveAfterGateError, Save, books
  <2> HIDE DEF p
  <2> QED
    BY <2>1, <2>2, <2>3, <2>4
       DEF MoneyInv, Drives, Errs, TypeOK, Release, NotWritten, Blocked, remote
<1>16. ASSUME NEW w \in Workers, SkipDrift(w)
       PROVE  MoneyInv'
  <2>1. worker[w].p \in Proposals /\ Drives(w, worker[w].p)
    BY <1>16, BusyWorker DEF SkipDrift, At, Drives
  <2> QED
    BY <1>16, <2>1, RestMoves
       DEF MoneyInv, SendInv, Drives, Errs, TypeOK, SkipDrift, At, Save, Release, NotWritten, Blocked, remote
<1>17. ASSUME NEW w \in Workers, ReadError(w)
       PROVE  MoneyInv'
  <2>1. worker[w].p \in Proposals /\ Drives(w, worker[w].p)
    BY <1>17, BusyWorker DEF ReadError, Drives
  <2> QED
    BY <1>17, <2>1, RestMoves
       DEF MoneyInv, SendInv, Drives, Errs, TypeOK, ReadError, Doubt, Save, NotWritten, Blocked, books, remote
<1>18. ASSUME NEW w \in Workers, RecheckBrake(w)
       PROVE  MoneyInv'
  <2>1. worker[w].p \in Proposals /\ Drives(w, worker[w].p)
    BY <1>18, BusyWorker DEF RecheckBrake, At, Drives
  <2> QED
    BY <1>18, <2>1, RestMoves, GotoMoves
       DEF MoneyInv, SendInv, Drives, Errs, TypeOK, RecheckBrake, At, Save, Release, NotWritten, Blocked, remote
<1>19. ASSUME NEW w \in Workers, StartRunning(w)
       PROVE  MoneyInv'
  <2>1. worker[w].p \in Proposals /\ Drives(w, worker[w].p)
    BY <1>19, BusyWorker DEF StartRunning, At, Drives
  <2> QED
    BY <1>19, <2>1, RestMoves, GotoMoves
       DEF MoneyInv, SendInv, Drives, Errs, TypeOK, StartRunning, Doubt, At, Save, NotWritten, Blocked, books, remote
<1>20. ASSUME NEW w \in Workers, Send(w)
       PROVE  MoneyInv'
  <2>1. worker[w].p \in Proposals /\ Drives(w, worker[w].p)
    BY <1>20, BusyWorker DEF Send, At, Drives
  <2> QED
    BY <1>20, <2>1, GotoMoves
       DEF MoneyInv, SendInv, Prudent, Drives, Errs, TypeOK, Send, At, NotWritten, Blocked, books, remote
<1>21. ASSUME NEW w \in Workers, GotSuccess(w)
       PROVE  MoneyInv'
  <2>1. worker[w].p \in Proposals /\ Drives(w, worker[w].p)
    BY <1>21, BusyWorker DEF GotSuccess, At, Drives
  <2>2. day # None
    BY ChokepointAssumption DEF TypeOK
  <2> QED
    BY <1>21, <2>1, <2>2, RestMoves
       DEF MoneyInv, SendInv, Drives, Errs, TypeOK, GotSuccess, Succeed, At, Save, NotWritten, Blocked, remote
<1>22. ASSUME NEW w \in Workers, GotRejection(w)
       PROVE  MoneyInv'
  <2>1. worker[w].p \in Proposals /\ Drives(w, worker[w].p)
    BY <1>22, BusyWorker DEF GotRejection, At, Drives
  <2> QED
    BY <1>22, <2>1, RestMoves
       DEF MoneyInv, SendInv, Drives, Errs, TypeOK, GotRejection, At, Save, Release, NotWritten, Blocked, remote
<1>23. ASSUME NEW w \in Workers, NoAnswer(w)
       PROVE  MoneyInv'
  <2>1. worker[w].p \in Proposals /\ Drives(w, worker[w].p)
    BY <1>23, BusyWorker DEF NoAnswer, At, Drives
  <2> QED
    BY <1>23, <2>1, RestMoves
       DEF MoneyInv, SendInv, Drives, Errs, TypeOK, NoAnswer, At, Save, NotWritten, Blocked, books, remote
<1> QED
  BY <1>1, <1>2, <1>3, <1>4, <1>5, <1>6, <1>7, <1>8, <1>9, <1>10, <1>11, <1>12, <1>13,
     <1>14, <1>15, <1>16, <1>17, <1>18, <1>19, <1>20, <1>21, <1>22, <1>23
     DEF Next, Continue, Claim, Environment

\* And at first there is no money anywhere.
LEMMA InitMoneyInv == Init => MoneyInv
BY DEF Init, MoneyInv, Drives, Errs, Driving, Faulty, Idle, NotWritten, Blocked, Port!PortInit

\* Reserved while the platform may hold the change, given back only when it
\* never will, even when leases lapse under slow workers (sql_unit_of_work.py,
\* ADS-01).
THEOREM ChokepointMoneyFollowsTheWrite ==
    Prudent => (Spec => []MoneyFollowsTheWrite)
<1> SUFFICES ASSUME Prudent PROVE Spec => []MoneyFollowsTheWrite
  OBVIOUS
<1>1. Init => TypeOK /\ SendInv /\ MoneyInv
  BY InitTypeOK, InitSendInv, InitMoneyInv
<1>2. TypeOK /\ SendInv /\ MoneyInv /\ [Next]_vars => (TypeOK /\ SendInv /\ MoneyInv)'
  BY NextTypeOK, NextSendInv, NextMoneyInv
<1>3. TypeOK /\ SendInv /\ MoneyInv => MoneyFollowsTheWrite
  <2>1. TypeOK /\ SendInv /\ MoneyInv => UnsettledIsReserved
    BY DEF TypeOK, SendInv, MoneyInv, UnsettledIsReserved, Port!PortTypeOK
  <2>2. TypeOK /\ SendInv /\ MoneyInv => NotWrittenIsTrue
    BY DEF TypeOK, MoneyInv, NotWrittenIsTrue
  <2> QED
    BY <2>1, <2>2 DEF MoneyFollowsTheWrite
<1> QED
  BY <1>1, <1>2, <1>3, PTL DEF Spec

-----------------------------------------------------------------------------
(* What closes the books. *)

\* While no worker outlives its lease, the driver has the row to itself: it is
\* leased, it is as the driver left it, and the money is where the driver put it.
BooksInv ==
    /\ BooksAgree
    /\ \A p \in Proposals, w \in Workers :
           /\ Drives(w, p) =>
                  /\ p \in leased /\ ~worker[w].old /\ reservation[p] = "ACTIVE"
                  /\ execution[p] = IF worker[w].pc \in {"running", "waiting"}
                                    THEN "RUNNING" ELSE "CLAIMED"
           /\ Errs(w, p) => /\ execution[p] = "CLAIMED" /\ reservation[p] # "ACTIVE"
                            /\ worker[w].pc # "doubting"
    /\ \A p \in Proposals : receipt[p] = "SUCCEEDED" => p \in changed

\* No step writes one of the four books without the others, or over a row that
\* another worker is driving.
LEMMA NextBooksInv ==
    ASSUME Prudent, LeaseHolds, TypeOK, SendInv, MoneyInv, BooksInv, [Next]_vars
    PROVE  BooksInv'
<1> USE DEF Driving, Faulty, Begun, BooksAgree
<1>1. ASSUME NEW p \in Proposals, Approve(p) \/ Withdraw(p)
      PROVE  BooksInv'
  BY <1>1 DEF BooksInv, SendInv, Drives, Errs, TypeOK, Approve, Withdraw, books, remote
<1>2. ASSUME NEW p \in Proposals, Expire(p)
      PROVE  BooksInv'
  BY <1>2 DEF BooksInv, Drives, Errs, Expire, books, remote
<1>3. CASE ToggleBrake \/ Midnight \/ UNCHANGED vars
  BY <1>3 DEF BooksInv, Drives, Errs, ToggleBrake, Midnight, vars, books, remote
<1>4. ASSUME NEW p \in Proposals, LeaseLapses(p)
      PROVE  BooksInv'
  <2>1. \A v \in Workers :
            worker'[v] = worker[v] /\ (worker[v].pc # "idle" => worker[v].p # p)
    BY <1>4, LapseMoves
  <2>2. leased' = leased \ {p} /\ UNCHANGED <<proposal, execution, books, remote>>
    BY <1>4 DEF LeaseLapses
  <2> QED
    BY <2>1, <2>2 DEF BooksInv, Drives, Errs, books, remote
<1>5. ASSUME NEW p \in Proposals, BrokerAdmits(p) \/ BrokerRejects(p) \/ RequestLost(p)
      PROVE  BooksInv'
  BY <1>5 DEF BooksInv, Drives, Errs, TypeOK, BrokerAdmits, BrokerRejects, RequestLost,
              Port!Admit, Port!PortTypeOK, books
<1>6. ASSUME NEW p \in Proposals, BrokerAsks(p)
      PROVE  BooksInv'
  BY <1>6 DEF BooksInv, Drives, Errs, TypeOK, BrokerAsks, Port!Ask, books
<1>7. ASSUME NEW p \in Proposals, BrokerSettles(p)
      PROVE  BooksInv'
  BY <1>7 DEF BooksInv, Drives, Errs, TypeOK, BrokerSettles, Port!Settle, Port!Verdicts,
              Port!PortTypeOK, books
<1>8. ASSUME NEW w \in Workers, NEW p \in Proposals, GatesRefuse(w, p)
      PROVE  BooksInv'
  <2>1. /\ execution[p] = "CLAIMED" /\ p \notin leased /\ worker[w].pc = "idle"
        /\ reservation[p] # "ACTIVE" /\ UNCHANGED <<books, worker, sends, remote>>
    BY <1>8 DEF GatesRefuse, Fresh, Claims, At
  <2>2. PICK outcome :
            /\ outcome \in NotWritten
            /\ execution' = [execution EXCEPT ![p] = outcome]
            /\ proposal' = proposal \/ (proposal[p] = "scheduled"
                                        /\ proposal' = [proposal EXCEPT ![p] = "invalidated"])
    BY <1>8 DEF GatesRefuse, GateVerdict, Save, NotWritten, Blocked
  <2>3. leased \subseteq leased'
    BY <1>8, <2>1 DEF GatesRefuse, Save
  <2>4. \A v \in Workers : ~Errs(v, p)
    BY <2>1 DEF MoneyInv, Prudent, Errs
  <2> QED
    BY <2>1, <2>2, <2>3, <2>4 DEF BooksInv, Drives, Errs, TypeOK, NotWritten, Blocked, books, remote
<1>9. ASSUME NEW w \in Workers, NEW p \in Proposals, PassGates(w, p)
      PROVE  BooksInv'
  <2>1. /\ worker'[w] = [pc |-> "gated", p |-> p, old |-> FALSE]
        /\ \A v \in Workers \ {w} : worker'[v] = worker[v]
    BY <1>9 DEF PassGates, Begin, TypeOK
  <2>2. /\ reservation[p] = "none" /\ reservation' = [reservation EXCEPT ![p] = "ACTIVE"]
        /\ leased' = leased \union {p}
        /\ execution[p] = "CLAIMED" /\ worker[w].pc = "idle"
        /\ UNCHANGED <<proposal, execution, ledger, sends, remote>>
    BY <1>9 DEF PassGates, Fresh, Claims, At
  <2>3. \A v \in Workers : ~Errs(v, p)
    BY <2>2 DEF MoneyInv, Prudent, Errs
  <2> QED
    BY <2>1, <2>2, <2>3 DEF BooksInv, Drives, Errs, TypeOK, remote
<1>10. ASSUME NEW w \in Workers, NEW p \in Proposals, GateError(w, p)
       PROVE  BooksInv'
  <2>1. /\ worker'[w].pc = "gate_error" /\ worker'[w].p = p
        /\ \A v \in Workers \ {w} : worker'[v] = worker[v]
    BY <1>10, BeginMoves DEF GateError
  <2>2. execution[p] = "CLAIMED" /\ reservation[p] # "ACTIVE"
    BY <1>10 DEF GateError, Fresh
  <2> QED
    BY <1>10, <2>1, <2>2 DEF BooksInv, Drives, Errs, GateError, books, remote
<1>11. ASSUME NEW w \in Workers, NEW p \in Proposals, ReconcileInDoubt(w, p)
       PROVE  BooksInv'
  <2>1. /\ execution[p] \in Claimable /\ p \notin leased /\ worker[w].pc = "idle"
        /\ leased \subseteq leased' /\ execution' = [execution EXCEPT ![p] = "UNKNOWN"]
    BY <1>11 DEF ReconcileInDoubt, InFlight, Claims, At, Save
  <2>2. \A v \in Workers : ~Errs(v, p)
    BY <2>1 DEF MoneyInv, Prudent, Errs
  <2>3. proposal' = proposal \/ (proposal[p] = "scheduled"
                                 /\ proposal' = [proposal EXCEPT ![p] = "executing"])
    BY <1>11 DEF ReconcileInDoubt, MayBegin
  <2> QED
    BY <1>11, <2>1, <2>2, <2>3 DEF BooksInv, Drives, Errs, TypeOK, ReconcileInDoubt, Claimable, books, remote
<1>12. ASSUME NEW w \in Workers, NEW p \in Proposals, ReconcileSettles(w, p)
       PROVE  BooksInv'
  <2>1. /\ p \notin leased /\ worker[w].pc = "idle" /\ leased \subseteq leased'
        /\ reservation[p] = "ACTIVE" /\ receipt[p] = "SUCCEEDED"
        /\ UNCHANGED <<worker, remote>>
    BY <1>12 DEF ReconcileSettles, InFlight, Claims, At, Succeed, Save
  <2>2. day # None
    BY ChokepointAssumption DEF TypeOK
  <2>3. /\ ledger' = [ledger EXCEPT ![p] = day]
        /\ reservation' = [reservation EXCEPT ![p] = "SETTLED"]
        /\ execution' = [execution EXCEPT ![p] = "EXECUTED"]
        /\ proposal' = [proposal EXCEPT ![p] = "executed"]
    BY <1>12, <2>1 DEF ReconcileSettles, Succeed, Save, TypeOK
  <2> QED
    BY <2>1, <2>2, <2>3 DEF BooksInv, Drives, Errs, TypeOK, remote
<1>13. ASSUME NEW w \in Workers, ReadAfterGateError(w)
       PROVE  BooksInv'
  <2>1. worker[w].p \in Proposals /\ Errs(w, worker[w].p)
    BY <1>13, BusyWorker DEF ReadAfterGateError, At, Errs
  <2>2. Goto(w, "failing")
    BY <1>13, <2>1 DEF BooksInv, ReadAfterGateError
  <2>3. /\ worker'[w].pc = "failing" /\ worker'[w].p = worker[w].p
        /\ \A v \in Workers \ {w} : worker'[v] = worker[v]
    BY <1>13, <2>2, GotoMoves DEF ReadAfterGateError, At
  <2> QED
    BY <1>13, <2>1, <2>3 DEF BooksInv, Drives, Errs, ReadAfterGateError, books, remote
<1>14. ASSUME NEW w \in Workers, Revalidate(w)
       PROVE  BooksInv'
  BY <1>14, GotoMoves DEF BooksInv, Drives, Errs, Revalidate, At, books, remote
<1>15. ASSUME NEW w \in Workers, Crash(w)
       PROVE  BooksInv'
  BY <1>15, RestMoves DEF BooksInv, Drives, Errs, Crash, books, remote
<1>16. ASSUME NEW w \in Workers, SaveAfterGateError(w)
       PROVE  BooksInv'
  <2> DEFINE p == worker[w].p
  <2>1. p \in Proposals /\ Errs(w, p)
    BY <1>16, BusyWorker DEF SaveAfterGateError, Errs
  <2>2. /\ execution[p] = "CLAIMED" /\ reservation[p] # "ACTIVE" /\ worker[w].pc = "failing"
        /\ \A v \in Workers : v = w
    BY <1>16, <2>1 DEF BooksInv, MoneyInv, Prudent, SaveAfterGateError
  <2>3. \A v \in Workers : worker'[v].pc = "idle"
    BY <1>16, <2>2, RestMoves DEF SaveAfterGateError
  <2>4. /\ execution' = [execution EXCEPT ![p] = "FAILED"]
        /\ UNCHANGED <<proposal, reservation, ledger, remote>>
    BY <1>16, <2>2 DEF SaveAfterGateError, At, Save, Release, TypeOK, books
  <2> HIDE DEF p
  <2> QED
    BY <2>1, <2>2, <2>3, <2>4 DEF BooksInv, Drives, Errs, TypeOK, remote
<1>17. ASSUME NEW w \in Workers, SkipDrift(w)
       PROVE  BooksInv'
  <2>1. worker[w].p \in Proposals /\ Drives(w, worker[w].p)
    BY <1>17, BusyWorker DEF SkipDrift, At, Drives
  <2> QED
    BY <1>17, <2>1, RestMoves
       DEF BooksInv, SendInv, Drives, Errs, TypeOK, SkipDrift, At, Save, Release, remote
<1>18. ASSUME NEW w \in Workers, ReadError(w)
       PROVE  BooksInv'
  <2>1. worker[w].p \in Proposals /\ Drives(w, worker[w].p)
    BY <1>18, BusyWorker DEF ReadError, Drives
  <2> QED
    BY <1>18, <2>1, RestMoves
       DEF BooksInv, SendInv, Drives, Errs, TypeOK, ReadError, Doubt, Save, books, remote
<1>19. ASSUME NEW w \in Workers, RecheckBrake(w)
       PROVE  BooksInv'
  <2>1. worker[w].p \in Proposals /\ Drives(w, worker[w].p)
    BY <1>19, BusyWorker DEF RecheckBrake, At, Drives
  <2> QED
    BY <1>19, <2>1, RestMoves, GotoMoves
       DEF BooksInv, SendInv, Drives, Errs, TypeOK, RecheckBrake, At, Save, Release, remote
<1>20. ASSUME NEW w \in Workers, StartRunning(w)
       PROVE  BooksInv'
  <2>1. worker[w].p \in Proposals /\ Drives(w, worker[w].p)
    BY <1>20, BusyWorker DEF StartRunning, At, Drives
  <2> QED
    BY <1>20, <2>1, RestMoves, GotoMoves
       DEF BooksInv, SendInv, Drives, Errs, TypeOK, StartRunning, Doubt, At, Save, books, remote
<1>21. ASSUME NEW w \in Workers, Send(w)
       PROVE  BooksInv'
  <2>1. worker[w].p \in Proposals /\ Drives(w, worker[w].p)
    BY <1>21, BusyWorker DEF Send, At, Drives
  <2> QED
    BY <1>21, <2>1, GotoMoves DEF BooksInv, SendInv, Drives, Errs, TypeOK, Send, At, books
<1>22. ASSUME NEW w \in Workers, GotSuccess(w)
       PROVE  BooksInv'
  <2>1. worker[w].p \in Proposals /\ Drives(w, worker[w].p)
    BY <1>22, BusyWorker DEF GotSuccess, At, Drives
  <2>2. day # None
    BY ChokepointAssumption DEF TypeOK
  <2> QED
    BY <1>22, <2>1, <2>2, RestMoves
       DEF BooksInv, SendInv, Drives, Errs, TypeOK, GotSuccess, Succeed, At, Save, remote
<1>23. ASSUME NEW w \in Workers, GotRejection(w)
       PROVE  BooksInv'
  <2>1. worker[w].p \in Proposals /\ Drives(w, worker[w].p)
    BY <1>23, BusyWorker DEF GotRejection, At, Drives
  <2> QED
    BY <1>23, <2>1, RestMoves
       DEF BooksInv, SendInv, Drives, Errs, TypeOK, GotRejection, At, Save, Release, remote
<1>24. ASSUME NEW w \in Workers, NoAnswer(w)
       PROVE  BooksInv'
  <2>1. worker[w].p \in Proposals /\ Drives(w, worker[w].p)
    BY <1>24, BusyWorker DEF NoAnswer, At, Drives
  <2> QED
    BY <1>24, <2>1, RestMoves
       DEF BooksInv, SendInv, Drives, Errs, TypeOK, NoAnswer, At, Save, books, remote
<1> QED
  BY <1>1, <1>2, <1>3, <1>4, <1>5, <1>6, <1>7, <1>8, <1>9, <1>10, <1>11, <1>12, <1>13, <1>14,
     <1>15, <1>16, <1>17, <1>18, <1>19, <1>20, <1>21, <1>22, <1>23, <1>24
     DEF Next, Continue, Claim, Environment

\* And at first the books are empty.
LEMMA InitBooksInv == Init => BooksInv
BY DEF Init, BooksInv, BooksAgree, Drives, Errs, Driving, Faulty, Idle, Port!PortInit

\* Row, proposal, reservation and ledger say EXECUTED together, and only of a
\* change the platform made, while no worker outlives its lease (_succeed).
THEOREM ChokepointBooksAgree == Prudent /\ LeaseHolds => (Spec => []BooksAgree)
<1> SUFFICES ASSUME Prudent, LeaseHolds PROVE Spec => []BooksAgree
  OBVIOUS
<1> DEFINE IInv == TypeOK /\ SendInv /\ MoneyInv /\ BooksInv
<1>1. Init => IInv
  BY InitTypeOK, InitSendInv, InitMoneyInv, InitBooksInv
<1>2. IInv /\ [Next]_vars => IInv'
  BY NextTypeOK, NextSendInv, NextMoneyInv, NextBooksInv
<1>3. IInv => BooksAgree
  BY DEF BooksInv
<1> HIDE DEF IInv
<1> QED
  BY <1>1, <1>2, <1>3, PTL DEF Spec

-----------------------------------------------------------------------------
(* What the day's cap is held against. *)

\* When things were done: what was settled was confirmed, what was confirmed was
\* made, on a day that has come, and settled no earlier than made.  Nothing is
\* under way for what was not approved, and there are finitely many approvals.
DatesInv ==
    /\ IsFiniteSet({p \in Proposals : proposal[p] # "pending"})
    /\ \A p \in Proposals :
           /\ reservation[p] # "none" => proposal[p] # "pending"
           /\ reservation[p] = "ACTIVE" => ledger[p] = None
           /\ receipt[p] = "SUCCEEDED" => p \in changed
           /\ p \in changed <=> changedOn[p] # None
           /\ p \in changed => changedOn[p] <= day
           /\ ledger[p] # None => /\ receipt[p] = "SUCCEEDED"
                                  /\ changedOn[p] <= ledger[p] /\ ledger[p] <= day

\* What claims today's cap: the raises that may still be made, and those made today.
Claiming == {p \in Raises : reservation[p] = "ACTIVE" \/ changedOn[p] = day}
CutsMade == changed \ Raises
ClaimsFit == Total(Claiming) + Total(CutsMade) <= DailyCap

\* The kinds of step, as far as the cap is concerned: something is admitted by
\* the gates; the platform makes a change; or reservations end and time passes.
Admits(p) ==
    /\ FitsCap(p) /\ reservation[p] = "none" /\ proposal[p] = "scheduled"
    /\ reservation' = [reservation EXCEPT ![p] = "ACTIVE"]
    /\ UNCHANGED <<changed, changedOn, day>>
Makes(p) ==
    /\ p \notin changed /\ changed' = changed \cup {p}
    /\ changedOn' = [changedOn EXCEPT ![p] = day]
    /\ UNCHANGED <<reservation, day>>
Passes ==
    /\ \A p \in Proposals : \/ reservation'[p] = reservation[p]
                            \/ reservation[p] = "ACTIVE" /\ reservation'[p] # "ACTIVE"
    /\ UNCHANGED <<changed, changedOn>>
    /\ day' \in {day, day + 1}

\* Every step is of one of the kinds.
LEMMA CapStepKinds ==
    ASSUME TypeOK, [Next]_vars
    PROVE  (\E p \in Proposals : Admits(p) \/ Makes(p)) \/ Passes
<1>1. ASSUME NEW p \in Proposals, Environment(p), ~ BrokerAsks(p)
      PROVE  Passes
  BY <1>1 DEF Passes, Environment, Approve, Withdraw, Expire, LeaseLapses, BrokerAdmits,
     BrokerRejects, RequestLost, BrokerSettles, Port!Admit, Port!Settle, books, people, remote
<1>2. ASSUME NEW p \in Proposals, BrokerAsks(p)
      PROVE  Makes(p) \/ Passes
  <2>1. p \notin asked /\ changed \subseteq asked
    BY <1>2 DEF BrokerAsks, Port!Ask, TypeOK, Port!PortTypeOK
  <2>2. \/ changed' = changed /\ changedOn' = changedOn
        \/ changed' = changed \cup {p} /\ changedOn' = [changedOn EXCEPT ![p] = day]
    BY <1>2, <2>1 DEF BrokerAsks, Port!Ask
  <2>3. UNCHANGED <<reservation, day>>
    BY <1>2 DEF BrokerAsks, books, people
  <2> QED
    BY <2>1, <2>2, <2>3 DEF Makes, Passes
<1>3. CASE ToggleBrake \/ Midnight \/ UNCHANGED vars
  BY <1>3 DEF Passes, ToggleBrake, Midnight, vars, books, people, remote
<1>4. ASSUME NEW w \in Workers, Crash(w)
      PROVE  Passes
  BY <1>4 DEF Passes, Crash, books, people, remote
<1>5. ASSUME NEW w \in Workers, Continue(w)
      PROVE  Passes
  <2>1. UNCHANGED <<people, changed, changedOn>>
    BY <1>5 DEF Continue, ReadAfterGateError, SaveAfterGateError, Revalidate, SkipDrift, ReadError,
       RecheckBrake, StartRunning, Send, GotSuccess, GotRejection, NoAnswer, remote
  <2>2. \E p : \/ UNCHANGED reservation
               \/ Release(p)
               \/ reservation' = [reservation EXCEPT ![p] = IF @ = "ACTIVE" THEN "SETTLED" ELSE @]
    BY <1>5 DEF Continue, ReadAfterGateError, SaveAfterGateError, Revalidate, SkipDrift, ReadError,
       RecheckBrake, StartRunning, Send, GotSuccess, GotRejection, NoAnswer, Doubt, Succeed, books
  <2>3. \A p \in Proposals : \/ reservation'[p] = reservation[p]
                             \/ reservation[p] = "ACTIVE" /\ reservation'[p] # "ACTIVE"
    <3> SUFFICES ASSUME NEW q \in Proposals
                 PROVE  \/ reservation'[q] = reservation[q]
                        \/ reservation[q] = "ACTIVE" /\ reservation'[q] # "ACTIVE"
      OBVIOUS
    <3>1. reservation \in [Proposals -> {"none", "ACTIVE", "SETTLED", "RELEASED"}]
      BY DEF TypeOK
    <3> QED
      BY <2>2, <3>1 DEF Release
  <2> QED
    BY <2>1, <2>3 DEF Passes, people
<1>6. ASSUME NEW w \in Workers, NEW p \in Proposals, Claim(w, p), ~ PassGates(w, p)
      PROVE  Passes
  <2>1. UNCHANGED <<people, changed, changedOn>>
    BY <1>6 DEF Claim, GatesRefuse, GateError, ReconcileInDoubt, ReconcileSettles, remote
  <2>2. \/ UNCHANGED reservation
        \/ reservation' = [reservation EXCEPT ![p] = IF @ = "ACTIVE" THEN "SETTLED" ELSE @]
    BY <1>6 DEF Claim, GatesRefuse, GateError, ReconcileInDoubt, ReconcileSettles, Succeed, books
  <2>3. \A q \in Proposals : \/ reservation'[q] = reservation[q]
                             \/ reservation[q] = "ACTIVE" /\ reservation'[q] # "ACTIVE"
    <3> SUFFICES ASSUME NEW q \in Proposals
                 PROVE  \/ reservation'[q] = reservation[q]
                        \/ reservation[q] = "ACTIVE" /\ reservation'[q] # "ACTIVE"
      OBVIOUS
    <3>1. reservation \in [Proposals -> {"none", "ACTIVE", "SETTLED", "RELEASED"}]
      BY DEF TypeOK
    <3> QED
      BY <2>2, <3>1
  <2> QED
    BY <2>1, <2>3 DEF Passes, people
<1>7. ASSUME NEW w \in Workers, NEW p \in Proposals, PassGates(w, p)
      PROVE  Admits(p)
  <2>1. FitsCap(p) /\ proposal[p] = "scheduled"
    BY <1>7 DEF PassGates, GateVerdict
  <2> QED
    BY <1>7, <2>1 DEF Admits, PassGates, people, remote
<1> QED
  BY <1>1, <1>2, <1>3, <1>4, <1>5, <1>6, <1>7 DEF Next

\* A proposal leaves pending by approval only, and never goes back to it.
LEMMA ApprovedOneByOne ==
    ASSUME TypeOK, [Next]_vars, IsFiniteSet({p \in Proposals : proposal[p] # "pending"}),
           \A p \in Proposals : reservation[p] # "none" => proposal[p] # "pending"
    PROVE  /\ IsFiniteSet({p \in Proposals : proposal'[p] # "pending"})
           /\ \A p \in Proposals : proposal[p] # "pending" => proposal'[p] # "pending"
<1> DEFINE known == {p \in Proposals : proposal[p] # "pending"}
<1>1. ASSUME NEW p \in Proposals, Approve(p)
      PROVE  /\ {q \in Proposals : proposal'[q] # "pending"} \subseteq known \cup {p}
             /\ \A q \in Proposals : proposal[q] # "pending" => proposal'[q] # "pending"
  BY <1>1 DEF Approve, TypeOK
<1>2. ASSUME \A p \in Proposals : ~ Approve(p)
      PROVE  \A q \in Proposals : proposal'[q] # "pending" <=> proposal[q] # "pending"
  <2>1. ASSUME NEW p \in Proposals, Environment(p)
        PROVE  \A q \in Proposals : proposal'[q] # "pending" <=> proposal[q] # "pending"
    BY <1>2, <2>1 DEF Environment, Withdraw, Expire, LeaseLapses, BrokerAdmits, BrokerRejects,
       RequestLost, BrokerAsks, BrokerSettles, TypeOK
  <2>2. ASSUME NEW w \in Workers, Continue(w) \/ Crash(w)
        PROVE  \A q \in Proposals : proposal'[q] # "pending" <=> proposal[q] # "pending"
    <3>1. \/ UNCHANGED proposal
          \/ \E s \in {"executing", "executed", "failed", "invalidated"} :
                 /\ proposal[worker[w].p] \in {"scheduled", "invalidated", "executing", "executed"}
                 /\ proposal' = [proposal EXCEPT ![worker[w].p] = s]
      BY <2>2 DEF Continue, Crash, ReadAfterGateError, SaveAfterGateError, Revalidate, SkipDrift,
         ReadError, RecheckBrake, StartRunning, Send, GotSuccess, GotRejection, NoAnswer, Doubt, Succeed
    <3> QED
      BY <3>1 DEF TypeOK
  <2>3. ASSUME NEW w \in Workers, NEW p \in Proposals, Claim(w, p)
        PROVE  \A q \in Proposals : proposal'[q] # "pending" <=> proposal[q] # "pending"
    <3>1. \/ UNCHANGED proposal
          \/ \E s \in {"executing", "executed", "invalidated"} :
                 proposal[p] # "pending" /\ proposal' = [proposal EXCEPT ![p] = s]
      BY <2>3 DEF Claim, GatesRefuse, GateVerdict, PassGates, GateError, ReconcileInDoubt,
         ReconcileSettles, MayBegin, Succeed
    <3> QED
      BY <3>1 DEF TypeOK
  <2>4. CASE ToggleBrake \/ Midnight \/ UNCHANGED vars
    BY <2>4 DEF ToggleBrake, Midnight, vars
  <2> QED
    BY <2>1, <2>2, <2>3, <2>4 DEF Next
<1>3. CASE \E p \in Proposals : Approve(p)
  <2>1. PICK p \in Proposals : Approve(p)
    BY <1>3
  <2>2. IsFiniteSet(known \cup {p})
    BY FS_AddElement
  <2> QED
    BY <1>1, <2>1, <2>2, FS_Subset
<1>4. CASE \A p \in Proposals : ~ Approve(p)
  <2>1. {p \in Proposals : proposal'[p] # "pending"} = known
    BY <1>2, <1>4
  <2> QED
    BY <1>2, <1>4, <2>1
<1> QED
  BY <1>3, <1>4

\* Only a confirmed change is settled, and only a change that was made confirmed.
LEMMA SettledIsConfirmed ==
    ASSUME TypeOK, [Next]_vars
    PROVE  \A p \in Proposals :
               /\ receipt[p] = "SUCCEEDED" => receipt'[p] = "SUCCEEDED"
               /\ receipt'[p] = "SUCCEEDED" => receipt[p] = "SUCCEEDED" \/ p \in changed
               /\ ledger'[p] # ledger[p] =>
                      /\ receipt[p] = "SUCCEEDED" /\ ledger'[p] = day /\ day' = day
                      /\ reservation'[p] # "ACTIVE" /\ UNCHANGED <<changed, changedOn>>
<1>1. ASSUME NEW p \in Proposals, Environment(p)
      PROVE  /\ UNCHANGED ledger
             /\ \A q \in Proposals :
                    /\ receipt[q] = "SUCCEEDED" => receipt'[q] = "SUCCEEDED"
                    /\ receipt'[q] = "SUCCEEDED" => receipt[q] = "SUCCEEDED" \/ q \in changed
  BY <1>1 DEF Environment, Approve, Withdraw, Expire, LeaseLapses, BrokerAdmits, BrokerRejects,
     RequestLost, BrokerAsks, BrokerSettles, Port!Admit, Port!Ask, Port!Settle, Port!Verdicts,
     TypeOK, Port!PortTypeOK, books, remote
<1>2. CASE ToggleBrake \/ Midnight \/ UNCHANGED vars
  BY <1>2 DEF ToggleBrake, Midnight, vars, books, remote
<1>3. ASSUME NEW w \in Workers, (Continue(w) /\ ~ GotSuccess(w)) \/ Crash(w)
      PROVE  UNCHANGED <<ledger, receipt>>
  BY <1>3 DEF Continue, Crash, ReadAfterGateError, SaveAfterGateError, Revalidate, SkipDrift, ReadError,
     RecheckBrake, StartRunning, Send, GotRejection, NoAnswer, Doubt, books, remote
<1>4. ASSUME NEW w \in Workers, NEW p \in Proposals, Claim(w, p), ~ ReconcileSettles(w, p)
      PROVE  UNCHANGED <<ledger, receipt>>
  BY <1>4 DEF Claim, GatesRefuse, PassGates, GateError, ReconcileInDoubt, books, remote
<1>5. ASSUME NEW w \in Workers, NEW p \in Proposals,
             ReconcileSettles(w, p) \/ (GotSuccess(w) /\ p = worker[w].p)
      PROVE  /\ receipt[p] = "SUCCEEDED" /\ ledger' = [ledger EXCEPT ![p] = day]
             /\ reservation'[p] # "ACTIVE" /\ UNCHANGED <<day, remote>>
  BY <1>5 DEF ReconcileSettles, GotSuccess, Succeed, TypeOK, people
<1>6. ASSUME NEW w \in Workers, GotSuccess(w)
      PROVE  worker[w].p \in Proposals
  BY <1>6, BusyWorker DEF GotSuccess, At
<1>7. CASE \/ \E p \in Proposals : Environment(p)
           \/ ToggleBrake \/ Midnight \/ UNCHANGED vars
  BY <1>1, <1>2, <1>7
<1>8. CASE \E w \in Workers : \/ Continue(w) /\ ~ GotSuccess(w)
                              \/ Crash(w)
                              \/ \E p \in Proposals : Claim(w, p) /\ ~ ReconcileSettles(w, p)
  BY <1>3, <1>4, <1>8
<1>9. CASE \E w \in Workers, p \in Proposals :
               ReconcileSettles(w, p) \/ (GotSuccess(w) /\ p = worker[w].p)
  BY <1>5, <1>9 DEF TypeOK, remote
<1> QED
  BY <1>6, <1>7, <1>8, <1>9 DEF Next

\* The dates agree at first,
LEMMA InitDatesInv == Init => DatesInv
<1> SUFFICES ASSUME Init PROVE DatesInv
  OBVIOUS
<1>1. {p \in Proposals : proposal[p] # "pending"} = {}
  BY DEF Init
<1> QED
  BY <1>1, FS_EmptySet DEF Init, DatesInv, Port!PortInit

\* and after every step.
LEMMA NextDatesInv ==
    ASSUME TypeOK, SendInv, MoneyInv, DatesInv, [Next]_vars
    PROVE  DatesInv'
<1>0. /\ IsFiniteSet({p \in Proposals : proposal'[p] # "pending"})
      /\ \A p \in Proposals : proposal[p] # "pending" => proposal'[p] # "pending"
  BY ApprovedOneByOne DEF DatesInv
<1>1. /\ day \in Nat /\ None \notin Nat
      /\ \A p \in Proposals : /\ changedOn[p] \in Nat \cup {None} /\ ledger[p] \in Nat \cup {None}
                              /\ receipt[p] = "SUCCEEDED" => reservation[p] # "none"
  BY ChokepointAssumption DEF TypeOK, MoneyInv, SendInv
<1>2. ASSUME NEW p \in Proposals
      PROVE  /\ receipt[p] = "SUCCEEDED" => receipt'[p] = "SUCCEEDED"
             /\ receipt'[p] = "SUCCEEDED" => receipt[p] = "SUCCEEDED" \/ p \in changed
             /\ ledger'[p] # ledger[p] =>
                      /\ receipt[p] = "SUCCEEDED" /\ ledger'[p] = day /\ day' = day
                      /\ reservation'[p] # "ACTIVE" /\ UNCHANGED <<changed, changedOn>>
  BY SettledIsConfirmed
<1>3. ASSUME NEW q \in Proposals, Admits(q)
      PROVE  DatesInv'
  BY <1>0, <1>1, <1>2, <1>3 DEF DatesInv, Admits, TypeOK
<1>4. ASSUME NEW q \in Proposals, Makes(q)
      PROVE  DatesInv'
  BY <1>0, <1>1, <1>2, <1>4 DEF DatesInv, Makes, TypeOK
<1>5. CASE Passes
  BY <1>0, <1>1, <1>2, <1>5 DEF DatesInv, Passes
<1> QED
  BY <1>3, <1>4, <1>5, CapStepKinds

\* The sums are over finite sets of numbers.
LEMMA SumsAreFinite ==
    ASSUME TypeOK, SendInv, MoneyInv, DatesInv
    PROVE  /\ IsFiniteSet(Claiming) /\ IsFiniteSet(changed) /\ IsFiniteSet(CutsMade)
           /\ IsFiniteSet(Applied) /\ IsFiniteSet(Reserved)
           /\ \A p \in Proposals : Delta[p] \in Int /\ (p \in Raises <=> Delta[p] > 0)
           /\ \A S \in SUBSET Proposals : Total(S) = SumFunctionOnSet(Delta, S)
           /\ changed \subseteq Proposals /\ Raises \subseteq Proposals
<1> DEFINE known == {p \in Proposals : proposal[p] # "pending"}
<1>1. IsFiniteSet(known) /\ None \notin Nat /\ day \in Nat
  BY ChokepointAssumption DEF DatesInv, TypeOK
<1>2. \A p \in Proposals : /\ reservation[p] # "none" => p \in known
                           /\ p \in changed => p \in known
                           /\ ledger[p] # None => p \in known
  BY DEF TypeOK, SendInv, MoneyInv, DatesInv, Port!PortTypeOK
<1>3. changed \subseteq Proposals
  BY DEF TypeOK, Port!PortTypeOK
<1>4. /\ Claiming \subseteq known /\ changed \subseteq known /\ CutsMade \subseteq known
      /\ Applied \subseteq known /\ Reserved \subseteq known
  BY <1>1, <1>2, <1>3 DEF Claiming, CutsMade, Applied, Reserved, Raises, DatesInv
<1>5. /\ IsFiniteSet(Claiming) /\ IsFiniteSet(changed) /\ IsFiniteSet(CutsMade)
      /\ IsFiniteSet(Applied) /\ IsFiniteSet(Reserved)
  BY <1>1, <1>4, FS_Subset
<1> QED
  BY <1>3, <1>5, ChokepointAssumption DEF Total, Raises

\* What the gates count is no less than what claims the day.
LEMMA GatesCountTheClaims ==
    ASSUME Prudent, TypeOK, SendInv, MoneyInv, DatesInv
    PROVE  Total(Claiming) + Total(CutsMade) <= Total(Applied) + Total(Reserved)
<1> DEFINE raised == Applied \cap Raises
           cut == Applied \ Raises
<1>0. /\ IsFiniteSet(Claiming) /\ IsFiniteSet(CutsMade) /\ IsFiniteSet(Reserved)
      /\ IsFiniteSet(raised) /\ IsFiniteSet(cut) /\ IsFiniteSet(raised \cup Reserved)
      /\ \A p \in Proposals : Delta[p] \in Int /\ (p \in Raises <=> Delta[p] > 0)
      /\ \A S \in SUBSET Proposals : Total(S) = SumFunctionOnSet(Delta, S)
      /\ Claiming \subseteq Raises /\ CutsMade \subseteq Proposals /\ Raises \subseteq Proposals
      /\ Applied \subseteq Proposals /\ Reserved \subseteq Raises
  BY SumsAreFinite, FS_Intersection, FS_Difference, FS_Union DEF Claiming, CutsMade, Applied, Reserved
<1>1. day \in Nat /\ None \notin Nat /\ \A p \in Proposals : changedOn[p] \in Nat \cup {None}
                                                            /\ ledger[p] \in Nat \cup {None}
  BY ChokepointAssumption DEF TypeOK
<1>2. Claiming \subseteq raised \cup Reserved
  BY <1>1 DEF Claiming, Applied, Reserved, Raises, DatesInv, MoneyInv, SendInv, TypeOK, Port!PortTypeOK
<1>3. raised \cap Reserved = {} /\ cut \subseteq CutsMade
  BY <1>1 DEF Applied, Reserved, CutsMade, DatesInv
<1>4. SumFunctionOnSet(Delta, Claiming) <= SumFunctionOnSet(Delta, raised \cup Reserved)
  <2> HIDE DEF raised
  <2>1. \A x \in raised \cup Reserved : x \in Raises
    BY <1>0 DEF raised
  <2> QED
    BY <1>0, <1>2, <2>1, SumCompare
<1>5. SumFunctionOnSet(Delta, raised \cup Reserved)
        = SumFunctionOnSet(Delta, raised) + SumFunctionOnSet(Delta, Reserved)
  BY <1>0, <1>3, SumUnion
<1>6. SumFunctionOnSet(Delta, CutsMade) <= SumFunctionOnSet(Delta, cut)
  <2> HIDE DEF cut
  <2>1. \A x \in CutsMade : x \notin Raises
    BY DEF CutsMade
  <2> QED
    BY <1>0, <1>3, <2>1, SumCompare
<1>7. SumFunctionOnSet(Delta, Applied) = SumFunctionOnSet(Delta, raised) + SumFunctionOnSet(Delta, cut)
  <2>1. raised \cup cut = Applied /\ raised \cap cut = {} /\ raised \subseteq Proposals
        /\ cut \subseteq Proposals
    BY <1>0
  <2> HIDE DEF raised, cut
  <2> QED
    BY <1>0, <2>1, SumUnion
<1>8. /\ SumFunctionOnSet(Delta, raised) \in Int /\ SumFunctionOnSet(Delta, cut) \in Int
      /\ SumFunctionOnSet(Delta, Reserved) \in Int /\ SumFunctionOnSet(Delta, Claiming) \in Int
      /\ SumFunctionOnSet(Delta, CutsMade) \in Int
  BY <1>0, SumType
<1>9. /\ Total(Claiming) = SumFunctionOnSet(Delta, Claiming)
      /\ Total(CutsMade) = SumFunctionOnSet(Delta, CutsMade)
      /\ Total(Applied) = SumFunctionOnSet(Delta, Applied)
      /\ Total(Reserved) = SumFunctionOnSet(Delta, Reserved)
  BY DEF Total
<1> HIDE DEF raised, cut
<1> QED
  BY <1>4, <1>5, <1>6, <1>7, <1>8, <1>9

\* What claims the day fits it, whatever is admitted, made, ended or forgotten.
LEMMA NextClaimsFit ==
    ASSUME Prudent, TypeOK, SendInv, MoneyInv, DatesInv, ClaimsFit, [Next]_vars
    PROVE  ClaimsFit'
<1>0. TypeOK' /\ SendInv' /\ MoneyInv' /\ DatesInv'
  BY NextTypeOK, NextSendInv, NextMoneyInv, NextDatesInv
<1>1. /\ IsFiniteSet(Claiming) /\ IsFiniteSet(CutsMade)
      /\ \A p \in Proposals : Delta[p] \in Int /\ (p \in Raises <=> Delta[p] > 0)
      /\ CutsMade \subseteq Proposals \ Raises /\ Claiming \subseteq Raises /\ Raises \subseteq Proposals
      /\ \A S \in SUBSET Proposals : Total(S) = SumFunctionOnSet(Delta, S)
  BY SumsAreFinite DEF CutsMade, Claiming
<1>2. /\ IsFiniteSet(Claiming') /\ IsFiniteSet(CutsMade') /\ Raises' = Raises
      /\ CutsMade' \subseteq Proposals \ Raises /\ Claiming' \subseteq Raises
  <2>1. /\ IsFiniteSet(Claiming)' /\ IsFiniteSet(CutsMade)' /\ (changed \subseteq Proposals)'
    BY <1>0, SumsAreFinite, PTL
  <2> QED
    BY <2>1 DEF CutsMade, Claiming, Raises
<1>3. /\ Total(Claiming)' = SumFunctionOnSet(Delta, Claiming')
      /\ Total(CutsMade)' = SumFunctionOnSet(Delta, CutsMade')
      /\ Total(Claiming) = SumFunctionOnSet(Delta, Claiming)
      /\ Total(CutsMade) = SumFunctionOnSet(Delta, CutsMade)
  BY DEF Total
<1>4. /\ SumFunctionOnSet(Delta, Claiming) \in Int /\ SumFunctionOnSet(Delta, CutsMade) \in Int
      /\ SumFunctionOnSet(Delta, Claiming') \in Int /\ SumFunctionOnSet(Delta, CutsMade') \in Int
  BY <1>1, <1>2, SumType
<1>5. DailyCap \in Nat /\ day \in Nat /\ None \notin Nat /\ None # day /\ None # day + 1
  BY ChokepointAssumption DEF TypeOK
<1>6. CASE Claiming' \subseteq Claiming /\ CutsMade \subseteq CutsMade'
  <2>1. SumFunctionOnSet(Delta, Claiming') <= SumFunctionOnSet(Delta, Claiming)
    BY <1>1, <1>2, <1>6, SumCompare
  <2>2. SumFunctionOnSet(Delta, CutsMade') <= SumFunctionOnSet(Delta, CutsMade)
    BY <1>1, <1>2, <1>6, SumCompare
  <2> QED
    BY <1>3, <1>4, <1>5, <2>1, <2>2 DEF ClaimsFit
<1>7. ASSUME NEW q \in Proposals, Makes(q)
      PROVE  Claiming' \subseteq Claiming /\ CutsMade \subseteq CutsMade'
  <2>1. UNCHANGED <<reservation, day>> /\ q \in changed' /\ ledger'[q] = None
    <3>1. ledger'[q] = ledger[q]
      BY <1>7, SettledIsConfirmed DEF Makes, TypeOK, Port!PortTypeOK
    <3> QED
      BY <1>7, <3>1 DEF Makes, DatesInv, TypeOK
  <2>2. reservation[q] = "ACTIVE"
    BY <1>0, <2>1 DEF TypeOK, SendInv, MoneyInv, Port!PortTypeOK
  <2> QED
    BY <1>7, <2>1, <2>2 DEF Makes, Claiming, CutsMade, Raises, TypeOK
<1>8. CASE Passes
  <2>1. Claiming' \subseteq Claiming /\ CutsMade \subseteq CutsMade'
    BY <1>5, <1>8 DEF Passes, Claiming, CutsMade, Raises, DatesInv, TypeOK
  <2> QED
    BY <1>6, <2>1
<1>9. ASSUME NEW q \in Proposals, Admits(q)
      PROVE  ClaimsFit'
  <2>1. UNCHANGED <<changed, changedOn, day>> /\ CutsMade' = CutsMade
    BY <1>9 DEF Admits, CutsMade, Raises
  <2>2. CASE q \notin Raises
    <3>1. Claiming' \subseteq Claiming
      BY <1>9, <2>1, <2>2 DEF Admits, Claiming, Raises, TypeOK
    <3> QED
      BY <1>6, <2>1, <3>1
  <2>3. CASE q \in Raises
    <3>1. q \notin Claiming
      BY <1>5, <1>9 DEF Admits, Claiming, DatesInv, TypeOK, MoneyInv, SendInv, Port!PortTypeOK
    <3>2. Claiming' = Claiming \cup {q}
      BY <1>9, <2>1, <2>3 DEF Admits, Claiming, Raises, TypeOK
    <3>3. SumFunctionOnSet(Delta, Claiming') = Delta[q] + SumFunctionOnSet(Delta, Claiming)
      BY <1>1, <3>1, <3>2, SumAdd
    <3>4. /\ Total(Applied) + Total(Reserved) + Delta[q] <= DailyCap
          /\ Total(Claiming) + Total(CutsMade) <= Total(Applied) + Total(Reserved)
      BY <1>1, <1>9, <2>3, GatesCountTheClaims DEF Admits, FitsCap
    <3>5. Total(Applied) \in Int /\ Total(Reserved) \in Int /\ Delta[q] \in Int
      <4>1. /\ IsFiniteSet(Applied) /\ IsFiniteSet(Reserved)
            /\ Applied \subseteq Proposals /\ Reserved \subseteq Proposals
        BY <1>1, SumsAreFinite DEF Applied, Reserved
      <4> QED
        BY <1>1, <4>1, SumType
    <3> QED
      BY <1>3, <1>4, <1>5, <2>1, <3>3, <3>4, <3>5 DEF ClaimsFit
  <2> QED
    BY <2>2, <2>3
<1> QED
  BY <1>6, <1>7, <1>8, <1>9, CapStepKinds

\* The cap of the days from today on.
DaysToComeHold ==
    \A d \in 0 .. MaxDay : d >= day =>
        Total({p \in Raises : changedOn[p] = d})
            <= DailyCap - Total({p \in changed \ Raises : changedOn[p] <= d})

\* On a day that has come or is to come, all that is made claims it.
LEMMA ClaimsBoundTheDay ==
    TypeOK /\ SendInv /\ MoneyInv /\ DatesInv /\ ClaimsFit => DaysToComeHold
<1> SUFFICES ASSUME TypeOK, SendInv, MoneyInv, DatesInv, ClaimsFit, NEW d \in 0 .. MaxDay, d >= day
             PROVE  Total({p \in Raises : changedOn[p] = d})
                        <= DailyCap - Total({p \in changed \ Raises : changedOn[p] <= d})
  BY DEF DaysToComeHold
<1> DEFINE made == {p \in Raises : changedOn[p] = d}
<1>0. /\ IsFiniteSet(Claiming) /\ IsFiniteSet(CutsMade)
      /\ \A p \in Proposals : Delta[p] \in Int /\ (p \in Raises <=> Delta[p] > 0)
      /\ CutsMade \subseteq Proposals /\ Claiming \subseteq Raises /\ Raises \subseteq Proposals
  BY SumsAreFinite DEF CutsMade, Claiming
<1>1. /\ day \in Nat /\ d \in Nat /\ None \notin Nat /\ DailyCap \in Nat
      /\ \A p \in Proposals : changedOn[p] \in Nat \cup {None}
  BY ChokepointAssumption DEF TypeOK
<1>2. made \subseteq Claiming
  BY <1>0, <1>1 DEF Claiming, DatesInv
<1>3. {p \in changed \ Raises : changedOn[p] <= d} = CutsMade
  BY <1>0, <1>1 DEF CutsMade, DatesInv
<1>4. IsFiniteSet(made)
  BY <1>0, <1>2, FS_Subset
<1>5. SumFunctionOnSet(Delta, made) <= SumFunctionOnSet(Delta, Claiming)
  <2> HIDE DEF made
  <2> QED
    BY <1>0, <1>2, <1>4, SumCompare
<1>6. /\ SumFunctionOnSet(Delta, made) \in Int /\ SumFunctionOnSet(Delta, Claiming) \in Int
      /\ SumFunctionOnSet(Delta, CutsMade) \in Int
  BY <1>0, <1>2, <1>4, SumType
<1>7. SumFunctionOnSet(Delta, Claiming) + SumFunctionOnSet(Delta, CutsMade) <= DailyCap
  BY DEF ClaimsFit, Total
<1>8. SumFunctionOnSet(Delta, made) <= DailyCap - SumFunctionOnSet(Delta, CutsMade)
  <2> HIDE DEF made
  <2> QED
    BY <1>1, <1>5, <1>6, <1>7
<1> QED
  BY <1>3, <1>8 DEF Total

\* A past day stays as it is: what is made is made today.
LEMMA PastDaysStay ==
    ASSUME TypeOK, SendInv, MoneyInv, DatesInv, [Next]_vars, NEW d \in 0 .. MaxDay, d < day'
    PROVE  \/ d >= day /\ UNCHANGED <<changed, changedOn>>
           \/ /\ d < day
              /\ {p \in Raises : changedOn'[p] = d} = {p \in Raises : changedOn[p] = d}
              /\ {p \in changed' \ Raises : changedOn'[p] <= d} = {p \in changed \ Raises : changedOn[p] <= d}
<1>1. /\ day \in Nat /\ d \in Nat /\ None \notin Nat
      /\ \A p \in Proposals : changedOn[p] \in Nat \cup {None}
      /\ changed \subseteq Proposals /\ Raises \subseteq Proposals
  BY ChokepointAssumption DEF TypeOK, Port!PortTypeOK, Raises
<1>2. CASE UNCHANGED <<changed, changedOn>>
  BY <1>1, <1>2
<1>3. ASSUME NEW q \in Proposals, Makes(q)
      PROVE  /\ d < day
             /\ {p \in Raises : changedOn'[p] = d} = {p \in Raises : changedOn[p] = d}
             /\ {p \in changed' \ Raises : changedOn'[p] <= d} = {p \in changed \ Raises : changedOn[p] <= d}
  <2>1. /\ q \notin changed /\ changed' = changed \cup {q} /\ day' = day
        /\ changedOn' = [changedOn EXCEPT ![q] = day] /\ changedOn[q] = None
        /\ changedOn \in [Proposals -> (0 .. MaxDay) \cup {None}]
    BY <1>3 DEF Makes, DatesInv, TypeOK
  <2>2. d < day /\ d # day /\ ~ (day <= d) /\ None # d
    BY <1>1, <2>1
  <2>3. changedOn'[q] = day /\ \A p \in Proposals \ {q} : changedOn'[p] = changedOn[p]
    BY <2>1
  <2> QED
    BY <1>1, <2>1, <2>2, <2>3
<1> QED
  BY <1>2, <1>3, CapStepKinds DEF Admits, Passes

\* On no day does the platform make more raises than the cap and the cuts made
\* until then allow, with answers lost, leases lapsed and midnights anywhere
\* (lock_account, _evaluate_guardrails, reserved_increase).
THEOREM ChokepointDailyCap == Prudent => (Spec => []DailyCapHolds)
<1> SUFFICES ASSUME Prudent PROVE Spec => []DailyCapHolds
  OBVIOUS
<1> DEFINE IInv == TypeOK /\ SendInv /\ MoneyInv /\ DatesInv /\ ClaimsFit
<1>1. Init => IInv /\ DailyCapHolds
  <2> SUFFICES ASSUME Init PROVE IInv /\ DailyCapHolds
    OBVIOUS
  <2>1. TypeOK /\ SendInv /\ MoneyInv /\ DatesInv
    BY InitTypeOK, InitSendInv, InitMoneyInv, InitDatesInv
  <2>2. Claiming = {} /\ CutsMade = {} /\ day = 0 /\ DailyCap \in Nat
    <3>1. /\ day = 0 /\ changed = {} /\ DailyCap \in Nat /\ None # 0
          /\ \A p \in Proposals : reservation[p] = "none" /\ changedOn[p] = None
      BY ChokepointAssumption DEF Init, Port!PortInit
    <3> QED
      BY <3>1 DEF Claiming, CutsMade, Raises
  <2>3. ClaimsFit
    BY <2>2, SumEmpty DEF ClaimsFit, Total
  <2>4. DailyCapHolds
    <3>1. DaysToComeHold
      BY <2>1, <2>3, ClaimsBoundTheDay
    <3> QED
      BY <2>2, <3>1 DEF DaysToComeHold, DailyCapHolds
  <2> QED
    BY <2>1, <2>3, <2>4
<1>2. IInv /\ DailyCapHolds /\ [Next]_vars => (IInv /\ DailyCapHolds)'
  <2> SUFFICES ASSUME IInv, DailyCapHolds, [Next]_vars
               PROVE  (IInv /\ DailyCapHolds)'
    OBVIOUS
  <2>1. (TypeOK /\ SendInv /\ MoneyInv /\ DatesInv /\ ClaimsFit)'
    BY NextTypeOK, NextSendInv, NextMoneyInv, NextDatesInv, NextClaimsFit
  <2>2. ASSUME NEW d \in 0 .. MaxDay
        PROVE  (Total({p \in Raises : changedOn[p] = d})
                    <= DailyCap - Total({p \in changed \ Raises : changedOn[p] <= d}))'
    <3>1. CASE d >= day'
      <4>1. DaysToComeHold'
        BY <2>1, ClaimsBoundTheDay, PTL
      <4> QED
        BY <3>1, <4>1 DEF DaysToComeHold
    <3>2. CASE d < day'
      <4>1. Total({p \in Raises : changedOn[p] = d})
                <= DailyCap - Total({p \in changed \ Raises : changedOn[p] <= d})
        BY DEF DailyCapHolds
      <4> QED
        BY <3>2, <4>1, PastDaysStay DEF Total, Raises
    <3> QED
      BY <2>1, <3>1, <3>2, ChokepointAssumption DEF TypeOK
  <2> QED
    BY <2>1, <2>2 DEF DailyCapHolds
<1> HIDE DEF IInv
<1> QED
  BY <1>1, <1>2, PTL DEF Spec
=============================================================================
