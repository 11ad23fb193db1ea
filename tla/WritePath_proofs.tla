--------------------------- MODULE WritePath_proofs ---------------------------
(***************************************************************************)
(* The write path: each side finds in the other what it takes for granted, *)
(* so what is proved of each holds of the two together.                    *)
(*                                                                         *)
(* The modules of each side's proofs are instantiated here, their lemmas   *)
(* speak of the path.  An instance names every operator of its own, so the *)
(* first part says that CP, Chokepoint and Execution, and BP and Broker,   *)
(* mean the same by the same word.  Then the broker is shown to be left    *)
(* alone (PathContainsTheBroker), the socket to carry each proposal once   *)
(* (SocketInv), and the steps of both sides to be steps of the chokepoint  *)
(* over its abstract port (ChokepointSteps).                               *)
(***************************************************************************)
EXTENDS WritePath, TLAPS

\* The two sides with all that is proved of them.
CP == INSTANCE ExecutionChokepoint_proofs WITH
          receipt <- Receipt, asked <- Asked, changed <- Changed,
          rejected <- Refused, inbox <- OnItsWay
BP == INSTANCE BrokerWriteLedger_proofs WITH
          Keys <- Proposals \union OtherKeys, Resend <- TRUE

-----------------------------------------------------------------------------
(* One meaning for each word. *)

\* The sums of money are one,
LEMMA SameSums ==
    \A f, ks : /\ CP!SumFunctionOnSet(f, ks) = Chokepoint!SumFunctionOnSet(f, ks)
               /\ Execution!SumFunctionOnSet(f, ks) = Chokepoint!SumFunctionOnSet(f, ks)
               /\ BP!SumFunctionOnSet(f, ks) = Broker!SumFunctionOnSet(f, ks)
BY DEF CP!SumFunctionOnSet, CP!FoldFunctionOnSet, CP!MapThenFoldSet,
   Chokepoint!SumFunctionOnSet, Chokepoint!FoldFunctionOnSet, Chokepoint!MapThenFoldSet,
   Execution!SumFunctionOnSet, Execution!FoldFunctionOnSet, Execution!MapThenFoldSet,
   BP!SumFunctionOnSet, BP!FoldFunctionOnSet, BP!MapThenFoldSet,
   Broker!SumFunctionOnSet, Broker!FoldFunctionOnSet, Broker!MapThenFoldSet

\* and so is what fits the cap of ads-api.
LEMMA SameGates ==
    \A p : /\ CP!FitsCap(p) <=> Chokepoint!FitsCap(p)
           /\ Execution!FitsCap(p) <=> CP!FitsCap(p)
BY SameSums DEF CP!FitsCap, CP!Total, CP!Applied, CP!Reserved, CP!Raises,
   Chokepoint!FitsCap, Chokepoint!Total, Chokepoint!Applied, Chokepoint!Reserved,
   Chokepoint!Raises, Execution!FitsCap, Execution!Total, Execution!Applied,
   Execution!Reserved, Execution!Raises

\* The way out of an error in the gates,
LEMMA ErrorNames ==
    ASSUME NEW w \in Workers
    PROVE  /\ CP!ReadAfterGateError(w) <=> Chokepoint!ReadAfterGateError(w)
           /\ CP!SaveAfterGateError(w) <=> Chokepoint!SaveAfterGateError(w)
           /\ CP!Revalidate(w) <=> Chokepoint!Revalidate(w)
           /\ UNCHANGED OnItsWay =>
                  /\ Execution!ReadAfterGateError(w) => CP!ReadAfterGateError(w)
                  /\ Execution!SaveAfterGateError(w) => CP!SaveAfterGateError(w)
                  /\ Execution!Revalidate(w) => CP!Revalidate(w)
BY SameGates DEF Execution!ReadAfterGateError, CP!ReadAfterGateError, Chokepoint!ReadAfterGateError,
   Execution!SaveAfterGateError, CP!SaveAfterGateError, Chokepoint!SaveAfterGateError,
   Execution!Revalidate, CP!Revalidate, Chokepoint!Revalidate, Execution!At, CP!At,
   Chokepoint!At, Execution!Goto, CP!Goto, Chokepoint!Goto, Execution!Rest, CP!Rest,
   Chokepoint!Rest, Execution!Idle, CP!Idle, Chokepoint!Idle, Execution!Save, CP!Save,
   Chokepoint!Save, Execution!books, CP!books, Chokepoint!books, Execution!people,
   CP!people, Chokepoint!people, Execution!remote, CP!remote, Chokepoint!remote,
   Execution!Release, CP!Release, Chokepoint!Release

\* what stops a worker before it writes,
LEMMA DriftNames ==
    ASSUME NEW w \in Workers
    PROVE  /\ CP!SkipDrift(w) <=> Chokepoint!SkipDrift(w)
           /\ CP!ReadError(w) <=> Chokepoint!ReadError(w)
           /\ UNCHANGED OnItsWay =>
                  /\ Execution!SkipDrift(w) => CP!SkipDrift(w)
                  /\ Execution!ReadError(w) => CP!ReadError(w)
BY SameGates DEF Execution!SkipDrift, CP!SkipDrift, Chokepoint!SkipDrift, Execution!ReadError,
   CP!ReadError, Chokepoint!ReadError, Execution!At, CP!At, Chokepoint!At,
   Execution!Goto, CP!Goto, Chokepoint!Goto, Execution!Rest, CP!Rest, Chokepoint!Rest,
   Execution!Idle, CP!Idle, Chokepoint!Idle, Execution!Save, CP!Save, Chokepoint!Save,
   Execution!books, CP!books, Chokepoint!books, Execution!people, CP!people,
   Chokepoint!people, Execution!remote, CP!remote, Chokepoint!remote,
   Execution!Release, CP!Release, Chokepoint!Release, Execution!Doubt, CP!Doubt,
   Chokepoint!Doubt

\* what leads up to the write,
LEMMA WriteNames ==
    ASSUME NEW w \in Workers
    PROVE  /\ CP!RecheckBrake(w) <=> Chokepoint!RecheckBrake(w)
           /\ CP!StartRunning(w) <=> Chokepoint!StartRunning(w)
           /\ CP!Send(w) <=> Chokepoint!Send(w)
           /\ UNCHANGED OnItsWay =>
                  /\ Execution!RecheckBrake(w) => CP!RecheckBrake(w)
                  /\ Execution!StartRunning(w) => CP!StartRunning(w)
BY SameGates DEF Execution!RecheckBrake, CP!RecheckBrake, Chokepoint!RecheckBrake,
   Execution!StartRunning, CP!StartRunning, Chokepoint!StartRunning, Execution!Send,
   CP!Send, Chokepoint!Send, Execution!At, CP!At, Chokepoint!At, Execution!Goto,
   CP!Goto, Chokepoint!Goto, Execution!Rest, CP!Rest, Chokepoint!Rest, Execution!Idle,
   CP!Idle, Chokepoint!Idle, Execution!Save, CP!Save, Chokepoint!Save, Execution!books,
   CP!books, Chokepoint!books, Execution!people, CP!people, Chokepoint!people,
   Execution!remote, CP!remote, Chokepoint!remote, Execution!Release, CP!Release,
   Chokepoint!Release, Execution!Doubt, CP!Doubt, Chokepoint!Doubt,
   Execution!BrakeBlocks, CP!BrakeBlocks, Chokepoint!BrakeBlocks

\* what an answer leads to, or none,
LEMMA AnswerNames ==
    ASSUME NEW w \in Workers
    PROVE  /\ CP!GotSuccess(w) <=> Chokepoint!GotSuccess(w)
           /\ CP!GotRejection(w) <=> Chokepoint!GotRejection(w)
           /\ CP!NoAnswer(w) <=> Chokepoint!NoAnswer(w)
           /\ CP!Crash(w) <=> Chokepoint!Crash(w)
           /\ UNCHANGED OnItsWay =>
                  /\ Execution!GotSuccess(w) => CP!GotSuccess(w)
                  /\ Execution!GotRejection(w) => CP!GotRejection(w)
                  /\ Execution!NoAnswer(w) => CP!NoAnswer(w)
                  /\ Execution!Crash(w) => CP!Crash(w)
BY SameGates DEF Execution!GotSuccess, CP!GotSuccess, Chokepoint!GotSuccess, Execution!GotRejection,
   CP!GotRejection, Chokepoint!GotRejection, Execution!NoAnswer, CP!NoAnswer,
   Chokepoint!NoAnswer, Execution!Crash, CP!Crash, Chokepoint!Crash, Execution!At,
   CP!At, Chokepoint!At, Execution!Goto, CP!Goto, Chokepoint!Goto, Execution!Rest,
   CP!Rest, Chokepoint!Rest, Execution!Idle, CP!Idle, Chokepoint!Idle, Execution!Save,
   CP!Save, Chokepoint!Save, Execution!books, CP!books, Chokepoint!books,
   Execution!people, CP!people, Chokepoint!people, Execution!remote, CP!remote,
   Chokepoint!remote, Execution!Release, CP!Release, Chokepoint!Release,
   Execution!Succeed, CP!Succeed, Chokepoint!Succeed

\* the gates,
LEMMA GateNames ==
    ASSUME NEW w \in Workers, NEW p \in Proposals
    PROVE  /\ CP!GatesRefuse(w, p) <=> Chokepoint!GatesRefuse(w, p)
           /\ CP!PassGates(w, p) <=> Chokepoint!PassGates(w, p)
           /\ CP!GateError(w, p) <=> Chokepoint!GateError(w, p)
           /\ UNCHANGED OnItsWay =>
                  /\ Execution!GatesRefuse(w, p) => CP!GatesRefuse(w, p)
                  /\ Execution!PassGates(w, p) => CP!PassGates(w, p)
                  /\ Execution!GateError(w, p) => CP!GateError(w, p)
BY SameGates DEF Execution!GatesRefuse, CP!GatesRefuse, Chokepoint!GatesRefuse, Execution!PassGates,
   CP!PassGates, Chokepoint!PassGates, Execution!GateError, CP!GateError,
   Chokepoint!GateError, Execution!At, CP!At, Chokepoint!At, Execution!Goto, CP!Goto,
   Chokepoint!Goto, Execution!Rest, CP!Rest, Chokepoint!Rest, Execution!Idle, CP!Idle,
   Chokepoint!Idle, Execution!Save, CP!Save, Chokepoint!Save, Execution!books,
   CP!books, Chokepoint!books, Execution!people, CP!people, Chokepoint!people,
   Execution!remote, CP!remote, Chokepoint!remote, Execution!Begin, CP!Begin,
   Chokepoint!Begin, Execution!Fresh, CP!Fresh, Chokepoint!Fresh, Execution!Claims,
   CP!Claims, Chokepoint!Claims, Execution!Claimable, CP!Claimable,
   Chokepoint!Claimable, Execution!GateVerdict, CP!GateVerdict, Chokepoint!GateVerdict,
   Execution!BrakeBlocks, CP!BrakeBlocks, Chokepoint!BrakeBlocks

\* the row that may have been sent,
LEMMA ReconcileNames ==
    ASSUME NEW w \in Workers, NEW p \in Proposals
    PROVE  /\ CP!ReconcileInDoubt(w, p) <=> Chokepoint!ReconcileInDoubt(w, p)
           /\ CP!ReconcileSettles(w, p) <=> Chokepoint!ReconcileSettles(w, p)
           /\ UNCHANGED OnItsWay =>
                  /\ Execution!ReconcileInDoubt(w, p) => CP!ReconcileInDoubt(w, p)
                  /\ Execution!ReconcileSettles(w, p) => CP!ReconcileSettles(w, p)
BY SameGates DEF Execution!ReconcileInDoubt, CP!ReconcileInDoubt, Chokepoint!ReconcileInDoubt,
   Execution!ReconcileSettles, CP!ReconcileSettles, Chokepoint!ReconcileSettles,
   Execution!At, CP!At, Chokepoint!At, Execution!Goto, CP!Goto, Chokepoint!Goto,
   Execution!Rest, CP!Rest, Chokepoint!Rest, Execution!Idle, CP!Idle, Chokepoint!Idle,
   Execution!Save, CP!Save, Chokepoint!Save, Execution!books, CP!books,
   Chokepoint!books, Execution!people, CP!people, Chokepoint!people, Execution!remote,
   CP!remote, Chokepoint!remote, Execution!InFlight, CP!InFlight, Chokepoint!InFlight,
   Execution!Claims, CP!Claims, Chokepoint!Claims, Execution!Claimable, CP!Claimable,
   Chokepoint!Claimable, Execution!MayBegin, CP!MayBegin, Chokepoint!MayBegin,
   Execution!Succeed, CP!Succeed, Chokepoint!Succeed

\* people, and leases,
LEMMA PeopleNames ==
    ASSUME NEW p \in Proposals
    PROVE  /\ CP!Approve(p) <=> Chokepoint!Approve(p)
           /\ CP!Withdraw(p) <=> Chokepoint!Withdraw(p)
           /\ CP!Expire(p) <=> Chokepoint!Expire(p)
           /\ CP!LeaseLapses(p) <=> Chokepoint!LeaseLapses(p)
           /\ UNCHANGED OnItsWay =>
                  /\ Execution!Approve(p) => CP!Approve(p)
                  /\ Execution!Withdraw(p) => CP!Withdraw(p)
                  /\ Execution!Expire(p) => CP!Expire(p)
                  /\ Execution!LeaseLapses(p) => CP!LeaseLapses(p)
BY SameGates DEF Execution!Approve, CP!Approve, Chokepoint!Approve, Execution!Withdraw, CP!Withdraw,
   Chokepoint!Withdraw, Execution!Expire, CP!Expire, Chokepoint!Expire,
   Execution!LeaseLapses, CP!LeaseLapses, Chokepoint!LeaseLapses, Execution!books,
   CP!books, Chokepoint!books, Execution!people, CP!people, Chokepoint!people,
   Execution!remote, CP!remote, Chokepoint!remote, Execution!Holders, CP!Holders,
   Chokepoint!Holders, Execution!Idle, CP!Idle, Chokepoint!Idle, Execution!BrakeBlocks,
   CP!BrakeBlocks, Chokepoint!BrakeBlocks

\* the brake and the calendar,
LEMMA TimeNames ==
    /\ CP!ToggleBrake <=> Chokepoint!ToggleBrake
    /\ CP!Midnight <=> Chokepoint!Midnight
    /\ UNCHANGED OnItsWay =>
           /\ Execution!ToggleBrake => CP!ToggleBrake
           /\ Execution!Midnight => CP!Midnight
BY SameGates DEF Execution!ToggleBrake, CP!ToggleBrake, Chokepoint!ToggleBrake, Execution!Midnight,
   CP!Midnight, Chokepoint!Midnight, Execution!books, CP!books, Chokepoint!books,
   Execution!remote, CP!remote, Chokepoint!remote

\* and the broker, which only the abstract port has.
LEMMA PortNames ==
    ASSUME NEW p \in Proposals
    PROVE  /\ CP!BrokerAdmits(p) <=> Chokepoint!BrokerAdmits(p)
           /\ CP!BrokerRejects(p) <=> Chokepoint!BrokerRejects(p)
           /\ CP!RequestLost(p) <=> Chokepoint!RequestLost(p)
           /\ CP!BrokerAsks(p) <=> Chokepoint!BrokerAsks(p)
           /\ CP!BrokerSettles(p) <=> Chokepoint!BrokerSettles(p)
BY SameGates DEF CP!BrokerAdmits, Chokepoint!BrokerAdmits, CP!BrokerRejects,
   Chokepoint!BrokerRejects, CP!RequestLost, Chokepoint!RequestLost, CP!BrokerAsks,
   Chokepoint!BrokerAsks, CP!BrokerSettles, Chokepoint!BrokerSettles, CP!books,
   Chokepoint!books, CP!people, Chokepoint!people, CP!Port!Admit,
   Chokepoint!Port!Admit, CP!Port!Ask, Chokepoint!Port!Ask, CP!Port!Settle,
   Chokepoint!Port!Settle, CP!Port!Verdicts, Chokepoint!Port!Verdicts

\* So are the caps of the broker,
LEMMA SameCaps ==
    \A q, d : BP!WithinCaps(q, d) <=> Broker!WithinCaps(q, d)
<1>1. \A ks : /\ BP!AppliedDelta(ks) = Broker!AppliedDelta(ks)
              /\ BP!PendingDelta(ks) = Broker!PendingDelta(ks)
  BY SameSums DEF BP!AppliedDelta, Broker!AppliedDelta, BP!PendingDelta, Broker!PendingDelta
<1>2. \A caps, before, after, count, today, month, creation :
          BP!WithinHardCaps(caps, before, after, count, today, month, creation)
              <=> Broker!WithinHardCaps(caps, before, after, count, today, month, creation)
  BY DEF BP!WithinHardCaps, Broker!WithinHardCaps, BP!WithinMoneyCaps,
         Broker!WithinMoneyCaps, BP!WithinCreationCaps, Broker!WithinCreationCaps,
         BP!WithinBounds, Broker!WithinBounds, BP!WithinSpendCaps,
         Broker!WithinSpendCaps, BP!MaxStep, Broker!MaxStep, BP!RoundHalfEven,
         Broker!RoundHalfEven, BP!Abs, Broker!Abs
<1>3. /\ \A table, a : BP!RowsOf(table, a) = Broker!RowsOf(table, a)
      /\ \A a : BP!Pending(a) = Broker!Pending(a)
      /\ \A d : BP!Month(d) = Broker!Month(d)
      /\ \A i : BP!Before(i) = Broker!Before(i)
  BY DEF BP!RowsOf, Broker!RowsOf, BP!Pending, Broker!Pending, BP!Month, Broker!Month,
         BP!Before, Broker!Before
<1>4. \A ks : BP!Cardinality(ks) = Broker!Cardinality(ks)
  BY DEF BP!Cardinality, Broker!Cardinality, BP!IsFiniteSet, Broker!IsFiniteSet
<1> QED
  BY <1>1, <1>2, <1>3, <1>4 DEF BP!WithinCaps, Broker!WithinCaps

\* what its checks answer,
LEMMA SameChecks ==
    \A q, t, x :
        /\ BP!Authorize(q, t, x) = Broker!Authorize(q, t, x)
        /\ BP!ReserveVerdict(q, t, x) = Broker!ReserveVerdict(q, t, x)
BY SameCaps DEF BP!Authorize, Broker!Authorize, BP!ReserveVerdict, Broker!ReserveVerdict,
   BP!Verified, Broker!Verified, BP!CreatedResource, Broker!CreatedResource,
   BP!LegacyBarrier, Broker!LegacyBarrier, BP!Recorded, Broker!Recorded, BP!Day,
   Broker!Day, BP!GetOutcome, Broker!GetOutcome, BP!ReceiptMatches,
   Broker!ReceiptMatches

\* how a slot takes a request,
LEMMA TakeNames ==
    ASSUME NEW s \in Slots
    PROVE  /\ BP!Receive(s) <=> Broker!Receive(s)
           /\ BP!ReceiveUpload(s) <=> Broker!ReceiveUpload(s)
BY SameChecks DEF BP!Receive, Broker!Receive, BP!ReceiveUpload, Broker!ReceiveUpload, BP!At,
   Broker!At, BP!Verified, Broker!Verified, BP!CreatedResource, Broker!CreatedResource,
   BP!tables, Broker!tables, BP!platform, Broker!platform

\* how it gets to the reservation,
LEMMA HandleNames ==
    ASSUME NEW s \in Slots
    PROVE  /\ BP!StateRead(s) <=> Broker!StateRead(s)
           /\ BP!StateReadFailed(s) <=> Broker!StateReadFailed(s)
           /\ BP!Prepared(s) <=> Broker!Prepared(s)
           /\ BP!PreparationFailed(s) <=> Broker!PreparationFailed(s)
BY SameChecks DEF BP!StateRead, Broker!StateRead, BP!StateReadFailed, Broker!StateReadFailed,
   BP!Prepared, Broker!Prepared, BP!PreparationFailed, Broker!PreparationFailed, BP!At,
   Broker!At, BP!Goto, Broker!Goto, BP!Answer, Broker!Answer, BP!TryReserve,
   Broker!TryReserve, BP!NewReceipt, Broker!NewReceipt, BP!Day, Broker!Day,
   BP!PositiveDelta, Broker!PositiveDelta, BP!Amount, Broker!Amount, BP!tables,
   Broker!tables, BP!platform, Broker!platform

\* to the platform, and back to an answer,
LEMMA CallNames ==
    ASSUME NEW s \in Slots
    PROVE  /\ BP!RateLimited(s) <=> Broker!RateLimited(s)
           /\ BP!CallPlatform(s) <=> Broker!CallPlatform(s)
           /\ BP!Finalize(s) <=> Broker!Finalize(s)
           /\ BP!Deliver(s) <=> Broker!Deliver(s)
BY SameChecks DEF BP!RateLimited, Broker!RateLimited, BP!CallPlatform, Broker!CallPlatform,
   BP!Finalize, Broker!Finalize, BP!Deliver, Broker!Deliver, BP!At, Broker!At,
   BP!Answer, Broker!Answer, BP!Idle, Broker!Idle, BP!Change, Broker!Change, BP!Day,
   Broker!Day, BP!SignedDelta, Broker!SignedDelta, BP!Before, Broker!Before,
   BP!Settled, Broker!Settled, BP!tables, Broker!tables, BP!platform, Broker!platform

\* how it uploads,
LEMMA UploadNames ==
    ASSUME NEW s \in Slots
    PROVE  /\ BP!Upload(s) <=> Broker!Upload(s)
           /\ BP!RecordUpload(s) <=> Broker!RecordUpload(s)
BY SameChecks DEF BP!Upload, Broker!Upload, BP!RecordUpload, Broker!RecordUpload, BP!At, Broker!At,
   BP!Goto, Broker!Goto, BP!Answer, Broker!Answer, BP!tables, Broker!tables,
   BP!platform, Broker!platform

\* and the process it lives in.
LEMMA ProcessNames ==
    /\ BP!Tick <=> Broker!Tick
    /\ BP!Crash <=> Broker!Crash
BY SameChecks DEF BP!Tick, Broker!Tick, BP!Crash, Broker!Crash, BP!At, Broker!At, BP!Idle,
   Broker!Idle, BP!tables, Broker!tables, BP!platform, Broker!platform

\* and a step of one is a step of the other, for both sides.
LEMMA SameSteps ==
    /\ CP!Next <=> Chokepoint!Next
    /\ BP!Next <=> Broker!Next
<1>1. CP!Next <=> Chokepoint!Next
  BY ErrorNames, DriftNames, WriteNames, AnswerNames, GateNames, ReconcileNames, PeopleNames,
     TimeNames, PortNames
     DEF CP!Next, CP!Continue, CP!Claim, CP!Environment, Chokepoint!Next,
         Chokepoint!Continue, Chokepoint!Claim, Chokepoint!Environment
<1>2. BP!Next <=> Broker!Next
  BY TakeNames, HandleNames, CallNames, UploadNames, ProcessNames
     DEF BP!Next, BP!Step, Broker!Next, Broker!Step
<1> QED
  BY <1>1, <1>2

\* Each side finds what it assumes.
LEMMA SidesFindTheirAssumptions ==
    /\ CP!ChokepointAssumption
    /\ BP!UnreadableAssumption /\ BP!LedgerAssumption
    /\ BP!UploadKeysAssumption /\ BP!ParentsAssumption
BY PathAssumption DEF BP!ReceiptRow, Broker!ReceiptRow, BP!ChangeRow, Broker!ChangeRow,
   BP!Intents, Broker!Intents, BP!Ops, Broker!Ops, BP!Authorizations, Broker!Authorizations,
   BP!AccountCaps, Broker!AccountCaps, BP!Recorded, Broker!Recorded

\* So their lemmas may be used here.
USE SidesFindTheirAssumptions
    DEF CP!ChokepointAssumption, BP!UnreadableAssumption, BP!LedgerAssumption,
        BP!UploadKeysAssumption, BP!ParentsAssumption

-----------------------------------------------------------------------------
(* The broker keeps its promises here: what surrounds it takes no step of   *)
(* its tables.                                                              *)

\* A slot takes a request, or the broker does something else, or nothing.
LEMMA BrokerSteps ==
    ASSUME [PathNext]_pathVars
    PROVE  /\ [BP!Next]_BP!vars
           /\ BP!TakesNothing \/ \E s \in Slots : Take(s)
<1>1. ASSUME NEW s \in Slots, Take(s)
      PROVE  BP!Next
  BY <1>1, TakeNames DEF Take, BP!Next, BP!Step
<1>2. ASSUME NEW s \in Slots, Reply(s) \/ AskPlatform(s) \/ Handle(s)
      PROVE  BP!Works(s)
  BY <1>2, HandleNames, CallNames, UploadNames DEF Reply, AskPlatform, Handle, BP!Works
<1>3. ASSUME BrokerByItself
      PROVE  BP!Tick \/ BP!Crash
  BY <1>3, ProcessNames DEF BrokerByItself
<1>4. ASSUME ExecutionSide \/ (\E p \in Proposals : RequestLost(p)) \/ UNCHANGED pathVars
      PROVE  UNCHANGED BP!vars
  BY <1>4 DEF ExecutionSide, RequestLost, pathVars, brokerVars, BP!vars, BP!tables, BP!platform
<1>5. BP!TakesNothing => [BP!Next]_BP!vars
  BY DEF BP!TakesNothing, BP!Works, BP!Next, BP!Step
<1> QED
  BY <1>1, <1>2, <1>3, <1>4, <1>5 DEF PathNext, BP!TakesNothing

\* At first the tables are empty.
LEMMA BrokerStarts == PathInit => BP!Init
BY DEF PathInit, Broker!Init, BP!Init, Broker!Idle, BP!Idle

\* The broker inside the path is the broker: all its theorems hold here, for
\* keys that come as often as anyone likes.
THEOREM PathContainsTheBroker == PathSpec => Broker!Spec
<1>1. PathInit => Broker!Init
  BY DEF PathInit
<1>2. [PathNext]_pathVars => [Broker!Next]_Broker!vars
  BY BrokerSteps, SameSteps DEF BP!vars, BP!tables, BP!platform, Broker!vars,
     Broker!tables, Broker!platform
<1> QED
  BY <1>1, <1>2, PTL DEF PathSpec, Broker!Spec

\* By the name under which its theorems are known here.
LEMMA BrokerBehaves == PathSpec => BP!Spec
<1> QED
  BY BrokerStarts, BrokerSteps, PTL DEF PathSpec, BP!Spec

-----------------------------------------------------------------------------
(* The socket. *)

\* What is on its way, taken or answered was sent; what is on its way was not
\* taken yet; what is answered is in no slot any more, and the answer is true.
SocketInv ==
    /\ inbox \subseteq Proposals
    /\ answers \subseteq Proposals \X Outcomes
    /\ \A p \in Proposals :
           /\ p \in sent \/ p \in inbox => sends[p] > 0
           /\ p \in inbox => p \notin sent
           /\ \A out \in Outcomes : <<p, out>> \in answers =>
                  /\ p \in sent
                  /\ \A s \in Slots : slots[s].pc # "idle" => KeyOf(s) # p
                  /\ out \in BP!Rejections => receipts[p] = None
                  /\ out = "SUCCEEDED" =>
                         receipts[p] # None /\ receipts[p].outcome = "SUCCEEDED"

\* What the broker knows of proposals, whose keys it meets once each.
BrokerInv == BP!IInv /\ BP!OnceInv(Proposals) /\ BP!ToldInv

\* A slot that takes a request of a proposal takes it off the socket.
LEMMA TakeFromSocket ==
    ASSUME BP!TypeOK, SocketInv, NEW s \in Slots, Take(s)
    PROVE  \E q \in Requests :
               /\ slots[s].pc = "idle" /\ slots'[s].pc # "idle" /\ slots'[s].req = q
               /\ \A t \in Slots : t # s => slots'[t] = slots[t]
               /\ sent' = sent \union {q.key}
               /\ q.key \in Proposals => q.key \in inbox /\ q.key \notin sent
               /\ inbox' = inbox \ {q.key}
               /\ UNCHANGED <<receipts, answers, sends>>
<1>1. slots \in [Slots -> BP!SlotState]
  BY DEF BP!TypeOK
<1>2. PICK q \in Requests :
          /\ slots[s].pc = "idle" /\ slots'[s].pc # "idle" /\ slots'[s].req = q
          /\ \A t \in Slots : t # s => slots'[t] = slots[t]
          /\ sent' = sent \union {q.key} /\ UNCHANGED receipts
  <2>1. CASE BP!Receive(s)
    BY <1>1, <2>1 DEF BP!Receive, BP!At, BP!tables
  <2>2. CASE BP!ReceiveUpload(s)
    BY <1>1, <2>2 DEF BP!ReceiveUpload, BP!At, BP!tables
  <2> QED
    BY <2>1, <2>2, TakeNames DEF Take
<1>3. /\ q.key \in inbox \union OtherKeys /\ inbox' = inbox \ {q.key}
      /\ UNCHANGED <<answers, sends>>
  BY <1>2 DEF Take, KeyOf, workerVars
<1> QED
  BY <1>2, <1>3, PathAssumption DEF SocketInv

\* So no proposal is taken twice.
LEMMA ProposalsAreTakenOnce ==
    ASSUME BP!TypeOK, SocketInv, [PathNext]_pathVars
    PROVE  BP!TakenOnce(Proposals)
<1> SUFFICES ASSUME NEW t \in Slots, slots[t].pc = "idle", slots'[t].pc # "idle",
                    slots'[t].req.key \in Proposals
             PROVE  slots'[t].req.key \notin sent
  BY DEF BP!TakenOnce
<1>1. ~ BP!TakesNothing
  BY BP!RequestsAreKept
<1>2. PICK s \in Slots : Take(s)
  BY <1>1, BrokerSteps
<1> QED
  BY <1>2, TakeFromSocket

\* The broker's invariants hold along the path,
LEMMA NextBrokerInv ==
    ASSUME BrokerInv, BP!IInv', SocketInv, [PathNext]_pathVars
    PROVE  BrokerInv'
<1>1. BP!TypeOK /\ Proposals \in SUBSET (Proposals \union OtherKeys)
  BY DEF BrokerInv, BP!IInv
<1>2. BP!OnceInv(Proposals)'
  BY <1>1, BrokerSteps, ProposalsAreTakenOnce, BP!OnceStep DEF BrokerInv
<1>3. BP!ToldInv'
  BY BrokerSteps, BP!ToldStep DEF BrokerInv
<1> QED
  BY <1>2, <1>3 DEF BrokerInv

\* from the start.
LEMMA InitBrokerInv == PathInit => BrokerInv
<1>1. PathInit => BP!Init
  BY BrokerStarts
<1>2. BP!Init => BP!IInv /\ BP!ToldInv
  BY BP!InitIInv, BP!InitToldInv
<1>3. BP!Init => BP!OnceInv(Proposals)
  BY DEF BP!Init, BP!Idle, BP!OnceInv
<1> QED
  BY <1>1, <1>2, <1>3 DEF BrokerInv

-----------------------------------------------------------------------------
(* The socket, step by step. *)

\* On the workers' side nothing but Send touches the socket or counts as sending.
LEMMA OnlySendSends ==
    ASSUME ExecutionSide
    PROVE  /\ UNCHANGED <<brokerVars, answers>>
           /\ \/ UNCHANGED <<sends, inbox>>
              \/ \E w \in Workers : Execution!Send(w)
<1>1. ASSUME NEW w \in Workers, WorkerContinues(w) \/ Execution!Crash(w)
      PROVE  UNCHANGED <<sends, inbox>> \/ Execution!Send(w)
  BY <1>1 DEF WorkerContinues, GetsSuccess, Execution!ReadAfterGateError,
         Execution!SaveAfterGateError, Execution!Revalidate, Execution!SkipDrift,
         Execution!ReadError, Execution!RecheckBrake, Execution!StartRunning,
         Execution!GotSuccess, Execution!GotRejection, Execution!NoAnswer,
         Execution!Crash, Execution!remote
<1>2. ASSUME NEW w \in Workers, NEW p \in Proposals, Execution!Claim(w, p)
      PROVE  UNCHANGED <<sends, inbox>>
  BY <1>2 DEF Execution!Claim, Execution!GatesRefuse, Execution!PassGates,
         Execution!GateError, Execution!ReconcileInDoubt, Execution!ReconcileSettles,
         Execution!remote
<1>3. ASSUME NEW p \in Proposals, OthersAct(p)
      PROVE  UNCHANGED <<sends, inbox>>
  BY <1>3 DEF OthersAct, Execution!Approve, Execution!Withdraw, Execution!Expire,
         Execution!LeaseLapses, Execution!remote
<1>4. ASSUME Execution!ToggleBrake \/ Execution!Midnight
      PROVE  UNCHANGED <<sends, inbox>>
  BY <1>4 DEF Execution!ToggleBrake, Execution!Midnight, Execution!remote
<1> QED
  BY <1>1, <1>2, <1>3, <1>4 DEF ExecutionSide

\* Whoever sends does so for the first time.
LEMMA SendsTheFirst ==
    ASSUME CP!TypeOK, CP!SendInv, NEW w \in Workers, Execution!Send(w)
    PROVE  \E p \in Proposals :
               /\ p = worker[w].p /\ sends[p] = 0
               /\ sends' = [sends EXCEPT ![p] = 1] /\ inbox' = inbox \union {p}
<1>1. worker[w].pc = "running"
  BY DEF Execution!Send, Execution!At
<1>2. worker[w].p \in Proposals
  BY <1>1, CP!BusyWorker
<1>3. sends[worker[w].p] = 0
  BY <1>1, <1>2 DEF CP!SendInv, CP!Drives, CP!Driving
<1>4. /\ sends' = [sends EXCEPT ![worker[w].p] = sends[worker[w].p] + 1]
      /\ inbox' = inbox \union {worker[w].p}
  BY DEF Execution!Send
<1>5. sends[worker[w].p] + 1 = 1
  BY <1>3
<1> QED
  BY <1>2, <1>3, <1>4, <1>5

\* A slot with a request of a proposal: it is no upload.
LEMMA SlotOfProposal ==
    ASSUME BP!TypeOK, NEW s \in Slots, slots[s].pc # "idle"
    PROVE  /\ KeyOf(s) \in Proposals \union OtherKeys
           /\ KeyOf(s) \in Proposals => slots[s].req.intent.op # "upload"
           /\ slots[s].pc = "answered" => slots[s].out \in Outcomes \union {"none"}
<1>1. /\ slots[s].req \in Requests /\ slots[s].req.key \in Proposals \union OtherKeys
      /\ slots[s].out \in BP!Recorded \union BP!Rejections \union {"none"}
  BY BP!BusySlot
<1> QED
  BY <1>1, PathAssumption DEF KeyOf, Outcomes, BP!Recorded, BP!Rejections,
     Broker!Recorded, Broker!Rejections

\* A row is written only by a slot with its key, and a success is for good.
LEMMA RowsBySlots ==
    ASSUME BP!IInv, [BP!Next]_BP!vars, NEW p \in Proposals
    PROVE  /\ receipts[p] = None /\ receipts'[p] # None =>
                  \E s \in Slots : slots[s].pc # "idle" /\ KeyOf(s) = p
           /\ receipts[p] # None /\ receipts[p].outcome = "SUCCEEDED" =>
                  receipts'[p] = receipts[p]
<1>1. p \in Proposals \union OtherKeys
  OBVIOUS
<1> QED
  BY <1>1, BP!ReservedIsVerified, BP!SuccessStays DEF KeyOf

\* What a slot answers is true, and it has the key to itself.
LEMMA AnswersAreBorne ==
    ASSUME BrokerInv, NEW s \in Slots, slots[s].pc = "answered", KeyOf(s) \in Proposals
    PROVE  /\ slots[s].out \in Outcomes /\ KeyOf(s) \in sent
           /\ \A t \in Slots : t # s /\ slots[t].pc # "idle" => KeyOf(t) # KeyOf(s)
           /\ slots[s].out \in BP!Rejections => receipts[KeyOf(s)] = None
           /\ slots[s].out = "SUCCEEDED" =>
                  receipts[KeyOf(s)] # None /\ receipts[KeyOf(s)].outcome = "SUCCEEDED"
<1>1. BP!TypeOK
  BY DEF BrokerInv, BP!IInv
<1>2. /\ slots[s].req.intent.op # "upload"
      /\ slots[s].out \in Outcomes \union {"none"}
  BY <1>1, SlotOfProposal
<1>3. /\ slots[s].out # "none"
      /\ slots[s].out = "SUCCEEDED" =>
             receipts[KeyOf(s)] # None /\ receipts[KeyOf(s)].outcome = "SUCCEEDED"
  BY <1>2 DEF BrokerInv, BP!ToldInv, KeyOf
<1>4. /\ KeyOf(s) \in sent
      /\ \A t \in Slots : t # s /\ slots[t].pc # "idle" => KeyOf(t) # KeyOf(s)
      /\ slots[s].out \in BP!Rejections => receipts[KeyOf(s)] = None
  BY DEF BrokerInv, BP!OnceInv, KeyOf
<1> QED
  BY <1>2, <1>3, <1>4

\* Telling it leaves the slot idle and everything else alone.
LEMMA ReplyMoves ==
    ASSUME BP!TypeOK, NEW s \in Slots, Reply(s)
    PROVE  /\ slots[s].pc = "answered" /\ slots'[s].pc = "idle"
           /\ \A t \in Slots : t # s => slots'[t] = slots[t]
           /\ \/ /\ KeyOf(s) \in Proposals
                 /\ answers' = answers \union {<<KeyOf(s), slots[s].out>>}
              \/ UNCHANGED answers
           /\ UNCHANGED <<workerVars, changedOn, inbox, receipts, effects, calls, sent>>
<1>1. BP!Deliver(s)
  BY CallNames DEF Reply
<1> QED
  BY <1>1 DEF Reply, BP!Deliver, BP!At, BP!Idle, BP!TypeOK, BP!tables, BP!platform

\* So an answer told is true.
LEMMA ReplyTells ==
    ASSUME BrokerInv, SocketInv, NEW s \in Slots, Reply(s)
    PROVE  SocketInv'
<1>0. BP!TypeOK
  BY DEF BrokerInv, BP!IInv
<1>1. /\ slots[s].pc = "answered" /\ slots'[s].pc = "idle"
      /\ \A t \in Slots : t # s => slots'[t] = slots[t]
      /\ UNCHANGED <<sends, inbox, receipts, sent>>
  BY <1>0, ReplyMoves DEF workerVars
<1>2. \A t \in Slots : slots'[t].pc # "idle" => slots[t].pc # "idle" /\ KeyOf(t)' = KeyOf(t) /\ t # s
  BY <1>1 DEF KeyOf
<1>3. CASE KeyOf(s) \in Proposals /\ answers' = answers \union {<<KeyOf(s), slots[s].out>>}
  <2>1. /\ slots[s].out \in Outcomes /\ KeyOf(s) \in sent
        /\ \A t \in Slots : t # s /\ slots[t].pc # "idle" => KeyOf(t) # KeyOf(s)
        /\ slots[s].out \in BP!Rejections => receipts[KeyOf(s)] = None
        /\ slots[s].out = "SUCCEEDED" =>
               receipts[KeyOf(s)] # None /\ receipts[KeyOf(s)].outcome = "SUCCEEDED"
    BY <1>1, <1>3, AnswersAreBorne
  <2>2. ASSUME NEW p \in Proposals, NEW out \in Outcomes, <<p, out>> \in answers'
        PROVE  /\ p \in sent
               /\ \A t \in Slots : slots'[t].pc # "idle" => KeyOf(t)' # p
               /\ out \in BP!Rejections => receipts[p] = None
               /\ out = "SUCCEEDED" => receipts[p] # None /\ receipts[p].outcome = "SUCCEEDED"
    <3>1. CASE <<p, out>> \in answers
      BY <1>2, <3>1 DEF SocketInv
    <3>2. CASE p = KeyOf(s) /\ out = slots[s].out
      BY <1>2, <2>1, <3>2
    <3> QED
      BY <1>3, <2>2, <3>1, <3>2
  <2>3. answers' \subseteq Proposals \X Outcomes
    BY <1>3, <2>1 DEF SocketInv
  <2> QED
    BY <1>1, <2>2, <2>3 DEF SocketInv
<1>4. CASE UNCHANGED answers
  BY <1>1, <1>2, <1>4 DEF SocketInv
<1> QED
  BY <1>0, <1>3, <1>4, ReplyMoves

\* Sending, taking, losing, handling, answering: the socket stays as it was meant.
LEMMA NextSocketInv ==
    ASSUME BrokerInv, CP!TypeOK, CP!SendInv, SocketInv, [PathNext]_pathVars
    PROVE  SocketInv'
<1>0. BP!IInv /\ BP!TypeOK /\ [BP!Next]_BP!vars
  BY BrokerSteps DEF BrokerInv, BP!IInv
<1>1. ASSUME NEW w \in Workers, Execution!Send(w), UNCHANGED <<brokerVars, answers>>
      PROVE  SocketInv'
  <2>1. PICK p \in Proposals : /\ sends[p] = 0 /\ sends' = [sends EXCEPT ![p] = 1]
                               /\ inbox' = inbox \union {p}
    BY <1>1, SendsTheFirst
  <2>2. sends \in [Proposals -> Nat] /\ p \notin sent
    BY <2>1 DEF CP!TypeOK, SocketInv
  <2> QED
    BY <1>1, <2>1, <2>2 DEF SocketInv, brokerVars, KeyOf
<1>2. ASSUME UNCHANGED <<brokerVars, answers, sends>>, inbox' \subseteq inbox
      PROVE  SocketInv'
  BY <1>2 DEF SocketInv, brokerVars, KeyOf
<1>3. ASSUME NEW s \in Slots, Take(s)
      PROVE  SocketInv'
  <2>1. PICK q \in Requests :
            /\ slots[s].pc = "idle" /\ slots'[s].pc # "idle" /\ slots'[s].req = q
            /\ \A t \in Slots : t # s => slots'[t] = slots[t]
            /\ sent' = sent \union {q.key}
            /\ q.key \in Proposals => q.key \in inbox /\ q.key \notin sent
            /\ inbox' = inbox \ {q.key}
            /\ UNCHANGED <<receipts, answers, sends>>
    BY <1>0, <1>3, TakeFromSocket
  <2> QED
    BY <2>1 DEF SocketInv, KeyOf
<1>4. ASSUME NEW s \in Slots, Reply(s)
      PROVE  SocketInv'
  BY <1>4, ReplyTells
<1>5. ASSUME UNCHANGED <<sent, answers, sends, inbox>>, BP!TakesNothing
      PROVE  SocketInv'
  <2>1. \A t \in Slots : slots'[t].pc # "idle" => slots[t].pc # "idle" /\ KeyOf(t)' = KeyOf(t)
    BY <1>0, <1>5, BP!RequestsAreKept DEF KeyOf
  <2>2. ASSUME NEW p \in Proposals, NEW out \in Outcomes, <<p, out>> \in answers
        PROVE  /\ p \in sent
               /\ \A t \in Slots : slots'[t].pc # "idle" => KeyOf(t)' # p
               /\ out \in BP!Rejections => receipts'[p] = None
               /\ out = "SUCCEEDED" => receipts'[p] # None /\ receipts'[p].outcome = "SUCCEEDED"
    <3>1. /\ p \in sent /\ \A t \in Slots : slots[t].pc # "idle" => KeyOf(t) # p
          /\ out \in BP!Rejections => receipts[p] = None
          /\ out = "SUCCEEDED" => receipts[p] # None /\ receipts[p].outcome = "SUCCEEDED"
      BY <2>2 DEF SocketInv
    <3> QED
      BY <1>0, <2>1, <3>1, RowsBySlots
  <2> QED
    BY <1>5, <2>2 DEF SocketInv
<1>6. ASSUME NEW s \in Slots, AskPlatform(s) \/ Handle(s)
      PROVE  UNCHANGED <<sent, answers, sends, inbox>> /\ BP!TakesNothing
  <2>1. BP!Works(s)
    BY <1>6, HandleNames, CallNames, UploadNames DEF AskPlatform, Handle, BP!Works
  <2>2. UNCHANGED sent
    BY <2>1 DEF BP!Works, BP!StateRead, BP!StateReadFailed, BP!Prepared, BP!PreparationFailed,
       BP!RateLimited, BP!CallPlatform, BP!Finalize, BP!Deliver, BP!Upload, BP!RecordUpload
  <2> QED
    BY <1>6, <2>1, <2>2 DEF AskPlatform, Handle, BP!TakesNothing, workerVars
<1>7. ASSUME BrokerByItself
      PROVE  UNCHANGED <<sent, answers, sends, inbox>> /\ BP!TakesNothing
  BY <1>7, ProcessNames DEF BrokerByItself, BP!TakesNothing, BP!Tick, BP!Crash, workerVars
<1>8. CASE ExecutionSide
  BY <1>1, <1>2, <1>8, OnlySendSends
<1>9. CASE \E p \in Proposals : RequestLost(p)
  BY <1>2, <1>9 DEF RequestLost, workerVars
<1>10. CASE UNCHANGED pathVars
  BY <1>2, <1>10 DEF pathVars, workerVars
<1> QED
  BY <1>3, <1>4, <1>5, <1>6, <1>7, <1>8, <1>9, <1>10 DEF PathNext

-----------------------------------------------------------------------------
(* The workers over the broker do what they do over its abstract port. *)

\* What the workers know of the broker stays, if its rows and answers do.
LEMMA NothingSeen ==
    ASSUME UNCHANGED <<workerVars, changedOn, receipts, effects, calls>>,
           UNCHANGED Refused
    PROVE  UNCHANGED CP!vars
BY DEF CP!vars, CP!books, CP!people, CP!remote, workerVars, Receipt, Asked, Changed, OnItsWay

\* A step of the workers' side, but Send, is one: what is on its way stays so.
LEMMA WorkersStep ==
    ASSUME CP!TypeOK, CP!SendInv, ExecutionSide, UNCHANGED <<sends, brokerVars, answers>>
    PROVE  CP!Next
<1>0. UNCHANGED OnItsWay
  BY DEF OnItsWay, Receipt, Refused, brokerVars
<1>1. ASSUME NEW w \in Workers, WorkerContinues(w), ~Execution!Send(w)
      PROVE  CP!Continue(w)
  BY <1>0, <1>1, ErrorNames, DriftNames, WriteNames, AnswerNames
     DEF WorkerContinues, GetsSuccess, CP!Continue
<1>2. ASSUME NEW w \in Workers, Execution!Crash(w)
      PROVE  CP!Crash(w)
  BY <1>0, <1>2, AnswerNames
<1>3. ASSUME NEW w \in Workers, NEW p \in Proposals, Execution!Claim(w, p)
      PROVE  CP!Claim(w, p)
  BY <1>0, <1>3, GateNames, ReconcileNames DEF Execution!Claim, CP!Claim
<1>4. ASSUME NEW p \in Proposals, OthersAct(p)
      PROVE  CP!Environment(p)
  BY <1>0, <1>4, PeopleNames DEF OthersAct, CP!Environment
<1>5. ASSUME Execution!ToggleBrake \/ Execution!Midnight
      PROVE  CP!ToggleBrake \/ CP!Midnight
  BY <1>0, <1>5, TimeNames
<1>6. ASSUME NEW w \in Workers, Execution!Send(w)
      PROVE  FALSE
  <2>1. PICK p \in Proposals : sends[p] = 0 /\ sends' = [sends EXCEPT ![p] = 1]
    BY <1>6, SendsTheFirst
  <2>2. sends \in [Proposals -> Nat]
    BY DEF CP!TypeOK
  <2> QED
    BY <2>1, <2>2
<1> QED
  BY <1>1, <1>2, <1>3, <1>4, <1>5, <1>6 DEF ExecutionSide, CP!Next

\* A send puts the request on its way: nobody has heard of it before.
LEMMA SendStep ==
    ASSUME BrokerInv, CP!TypeOK, CP!SendInv, SocketInv,
           NEW w \in Workers, Execution!Send(w), UNCHANGED <<brokerVars, answers>>
    PROVE  CP!Send(w)
<1>1. PICK p \in Proposals :
          p = worker[w].p /\ sends[p] = 0 /\ sends' = [sends EXCEPT ![p] = 1]
  BY SendsTheFirst
<1>2. p \notin sent /\ receipts[p] = None
  BY <1>1 DEF SocketInv, BrokerInv, BP!OnceInv
<1>3. p \notin Refused
  BY <1>2 DEF SocketInv, Refused, Outcomes
<1>4. OnItsWay' = OnItsWay \union {p}
  <2>1. sends \in [Proposals -> Nat]
    BY DEF CP!TypeOK
  <2>2. UNCHANGED <<Receipt, Refused>> /\ Receipt[p] = "absent"
    BY <1>2 DEF Receipt, Refused, brokerVars
  <2> QED
    BY <1>1, <1>3, <2>1, <2>2 DEF OnItsWay
<1> QED
  BY <1>1, <1>4 DEF Execution!Send, CP!Send, Execution!At, CP!At, Execution!Goto, CP!Goto,
     Execution!books, CP!books, Execution!people, CP!people

\* A reservation admits the request, a record settles it.
LEMMA RecordSteps ==
    ASSUME BrokerInv, CP!TypeOK, SocketInv, [BP!Next]_BP!vars,
           UNCHANGED <<workerVars, changedOn, answers, effects, calls>>
    PROVE  CP!Next \/ UNCHANGED CP!vars
<1>0. /\ BP!IInv /\ BP!TypeOK
      /\ UNCHANGED <<Asked, Changed, Refused>>
  BY DEF BrokerInv, BP!IInv, Asked, Changed, Refused
<1>1. receipts \in [Proposals \union OtherKeys -> BP!ReceiptRow \union {None}]
  BY <1>0 DEF BP!TypeOK
<1>2. None \notin BP!ReceiptRow
  OBVIOUS
<1>3. ASSUME UNCHANGED receipts
      PROVE  UNCHANGED CP!vars
  BY <1>0, <1>3, NothingSeen
<1>4. ASSUME NEW k \in Proposals \union OtherKeys, k \notin Proposals, NEW row,
             receipts' = [receipts EXCEPT ![k] = row]
      PROVE  UNCHANGED CP!vars
  <2>1. UNCHANGED Receipt
    BY <1>1, <1>4 DEF Receipt
  <2>2. UNCHANGED OnItsWay
    BY <1>0, <2>1 DEF OnItsWay, workerVars
  <2> QED
    BY <1>0, <2>1, <2>2 DEF CP!vars, CP!books, CP!people, CP!remote, workerVars
<1>5. ASSUME NEW p \in Proposals, BP!Reserves(p)
      PROVE  CP!BrokerAdmits(p)
  <2>1. PICK row \in BP!ReceiptRow :
            row.outcome = "none" /\ receipts' = [receipts EXCEPT ![p] = row]
    BY <1>5 DEF BP!Reserves
  <2>2. receipts[p] = None /\ receipts'[p] # None
    BY <1>1, <1>2, <1>5, <2>1 DEF BP!Reserves
  <2>3. Receipt[p] = "absent" /\ Receipt' = [Receipt EXCEPT ![p] = "open"]
    BY <1>1, <1>2, <2>1, <2>2 DEF Receipt
  <2>4. PICK s \in Slots : slots[s].pc # "idle" /\ KeyOf(s) = p
    BY <1>0, <2>2, RowsBySlots
  <2>5. p \in OnItsWay
    <3>1. sends[p] > 0
      BY <2>4 DEF BrokerInv, BP!OnceInv, SocketInv, KeyOf
    <3>2. p \notin Refused
      BY <2>4 DEF SocketInv, Refused, Outcomes
    <3> QED
      BY <2>3, <3>1, <3>2 DEF OnItsWay
  <2>6. OnItsWay' = OnItsWay \ {p}
    BY <1>0, <2>3 DEF OnItsWay, workerVars, Receipt
  <2> QED
    BY <1>0, <2>3, <2>5, <2>6 DEF CP!BrokerAdmits, CP!Port!Admit, CP!books, CP!people, workerVars
<1>6. ASSUME NEW p \in Proposals, NEW out \in BP!Recorded, BP!Settles(p, out)
      PROVE  CP!BrokerSettles(p)
  <2>1. /\ receipts[p] \in BP!ReceiptRow /\ receipts[p].outcome = "none"
        /\ receipts' = [receipts EXCEPT ![p] = BP!Settled(receipts[p], out)]
    BY <1>1, <1>6 DEF BP!Settles
  <2>2. /\ BP!Settled(receipts[p], out) \in BP!ReceiptRow
        /\ BP!Settled(receipts[p], out).outcome = out
    BY <2>1 DEF BP!Settled, BP!ReceiptRow
  <2>3. Receipt[p] = "open" /\ Receipt' = [Receipt EXCEPT ![p] = out]
    BY <1>1, <1>2, <2>1, <2>2 DEF Receipt, BP!Recorded
  <2>4. UNCHANGED OnItsWay
    BY <1>0, <2>3 DEF OnItsWay, workerVars, BP!Recorded, Receipt
  <2>5. /\ out = "SUCCEEDED" => p \in Changed
        /\ out = "FAILED" => p \notin Asked
        /\ out = "UNKNOWN" => p \in Asked
    BY <1>6 DEF BP!Settles, Changed, Asked
  <2>6. out \in CP!Port!Verdicts /\ CP!Port!Settle(p, out)
    BY <1>0, <2>3, <2>5 DEF CP!Port!Settle, CP!Port!Verdicts, BP!Recorded
  <2> QED
    BY <1>0, <2>4, <2>6 DEF CP!BrokerSettles, CP!books, CP!people, workerVars
<1>7. ASSUME NEW k \in Proposals \union OtherKeys, BP!Calls(k)
      PROVE  FALSE
  BY <1>0, <1>7 DEF BP!Calls, BP!TypeOK
<1>8. ASSUME NEW k \in Proposals \union OtherKeys, k \notin Proposals,
             BP!Reserves(k) \/ \E out \in BP!Recorded : BP!Settles(k, out)
      PROVE  UNCHANGED CP!vars
  BY <1>4, <1>8 DEF BP!Reserves, BP!Settles
<1>9. CASE BP!Quiet
  BY <1>3, <1>9 DEF BP!Quiet
<1> QED
  BY <1>0, <1>5, <1>6, <1>7, <1>8, <1>9, BP!StepKinds DEF CP!Next, CP!Environment

\* The call of the platform asks, and dates what it changes.
LEMMA AskStep ==
    ASSUME BrokerInv, CP!TypeOK, NEW s \in Slots, AskPlatform(s)
    PROVE  CP!Next \/ UNCHANGED CP!vars
<1> DEFINE k == KeyOf(s)
<1>0. /\ BP!IInv /\ BP!TypeOK /\ BP!CallPlatform(s) /\ BP!Next
  BY CallNames DEF BrokerInv, BP!IInv, AskPlatform, BP!Next, BP!Step
<1>1. /\ slots[s].pc = "reserved" /\ k \in Proposals \union OtherKeys
      /\ calls' = [calls EXCEPT ![k] = calls[k] + 1]
      /\ UNCHANGED <<workerVars, answers, receipts>>
  BY <1>0, SlotOfProposal DEF BP!CallPlatform, BP!At, AskPlatform, KeyOf, BP!tables
<1>2. calls \in [Proposals \union OtherKeys -> Nat]
  BY <1>0 DEF BP!TypeOK
<1>3. calls'[k] # calls[k]
  BY <1>1, <1>2
<1>4. BP!Calls(k)
  <2>1. ~BP!Quiet
    BY <1>3 DEF BP!Quiet
  <2>2. \A j \in Proposals \union OtherKeys :
            ~BP!Reserves(j) /\ \A out \in BP!Recorded : ~BP!Settles(j, out)
    BY <1>3 DEF BP!Reserves, BP!Settles
  <2>3. PICK j \in Proposals \union OtherKeys : BP!Calls(j)
    BY <1>0, <2>1, <2>2, BP!StepKinds
  <2>4. j = k
    BY <1>1, <1>2, <1>3, <2>3 DEF BP!Calls
  <2> QED
    BY <2>3, <2>4
<1>5. PICK change \in BP!ChangeRow : effects' \in {effects, [effects EXCEPT ![k] = change]}
  BY <1>4 DEF BP!Calls
<1>6. /\ change # None /\ effects[k] = None /\ calls[k] = 0
      /\ receipts[k] # None /\ receipts[k].outcome = "none"
      /\ effects \in [Proposals \union OtherKeys -> BP!ChangeRow \union {None}]
  BY <1>0, <1>4 DEF BP!Calls, BP!TypeOK
<1>7. UNCHANGED <<Receipt, Refused, OnItsWay>>
  BY <1>1 DEF Receipt, Refused, OnItsWay, workerVars
<1>8. CASE k \in Proposals
  <2>1. Receipt[k] = "open" /\ k \notin Asked /\ Asked' = Asked \union {k}
    BY <1>1, <1>2, <1>6, <1>8 DEF Receipt, Asked
  <2>2. Changed' \in {Changed, Changed \union {k}}
    BY <1>5, <1>6, <1>8 DEF Changed
  <2>3. CP!BrokerAsks(k)
    BY <1>1, <1>7, <2>1, <2>2 DEF CP!BrokerAsks, CP!Port!Ask, AskPlatform, CP!books, CP!people,
       workerVars
  <2> QED
    BY <1>8, <2>3 DEF CP!Next, CP!Environment
<1>9. CASE k \notin Proposals
  <2>1. UNCHANGED <<Asked, Changed>>
    BY <1>1, <1>2, <1>5, <1>6, <1>9 DEF Asked, Changed
  <2> QED
    BY <1>1, <1>7, <2>1 DEF AskPlatform, CP!vars, CP!books, CP!people, CP!remote, workerVars
<1> QED
  BY <1>8, <1>9

\* A refusal told is one of the port: the request is on its way no more.
LEMMA ReplyStep ==
    ASSUME BrokerInv, SocketInv, NEW s \in Slots, Reply(s)
    PROVE  CP!Next \/ UNCHANGED CP!vars
<1> DEFINE k == KeyOf(s)
           out == slots[s].out
<1>0. BP!TypeOK
  BY DEF BrokerInv, BP!IInv
<1>1. /\ slots[s].pc = "answered"
      /\ \/ k \in Proposals /\ answers' = answers \union {<<k, out>>}
         \/ UNCHANGED answers
      /\ UNCHANGED <<workerVars, changedOn, receipts, effects, calls>>
  BY <1>0, ReplyMoves
<1>2. CASE UNCHANGED Refused
  BY <1>1, <1>2, NothingSeen
<1>3. CASE Refused' # Refused
  <2>1. k \in Proposals /\ answers' = answers \union {<<k, out>>} /\ out \in Broker!Rejections
    BY <1>1, <1>3 DEF Refused
  <2>2. Refused' = Refused \union {k}
    BY <2>1 DEF Refused
  <2>3. receipts[k] = None /\ k \in sent
    BY <1>1, <2>1, AnswersAreBorne DEF Broker!Rejections, BP!Rejections
  <2>4. sends[k] > 0 /\ k \notin Refused
    BY <1>3, <2>1, <2>2, <2>3 DEF SocketInv
  <2>5. Receipt[k] = "absent" /\ UNCHANGED <<Receipt, Asked, Changed>>
    BY <1>1, <2>1, <2>3 DEF Receipt, Asked, Changed
  <2>6. k \in OnItsWay /\ OnItsWay' = OnItsWay \ {k}
    BY <1>1, <2>1, <2>2, <2>4, <2>5 DEF OnItsWay, workerVars
  <2>7. CP!BrokerRejects(k)
    BY <1>1, <2>2, <2>5, <2>6 DEF CP!BrokerRejects, CP!books, CP!people, workerVars
  <2> QED
    BY <2>1, <2>7 DEF CP!Next, CP!Environment
<1> QED
  BY <1>2, <1>3

\* Every step of the path is one of the chokepoint, or nothing to it.
LEMMA ChokepointSteps ==
    ASSUME BrokerInv, CP!TypeOK, CP!SendInv, SocketInv, [PathNext]_pathVars
    PROVE  [CP!Next]_CP!vars
<1>0. [BP!Next]_BP!vars
  BY BrokerSteps
<1>1. CASE ExecutionSide
  <2>1. CASE \E w \in Workers : Execution!Send(w)
    BY <1>1, <2>1, OnlySendSends, SendStep DEF CP!Next, CP!Continue
  <2>2. CASE UNCHANGED <<sends, inbox>>
    BY <1>1, <2>2, OnlySendSends, WorkersStep
  <2> QED
    BY <1>1, <2>1, <2>2, OnlySendSends
<1>2. ASSUME NEW s \in Slots, Take(s) \/ Handle(s)
      PROVE  CP!Next \/ UNCHANGED CP!vars
  <2>1. UNCHANGED <<workerVars, changedOn, answers, effects, calls>>
    BY <1>2, TakeNames, HandleNames, CallNames, UploadNames
       DEF Take, Handle, BP!Receive, BP!ReceiveUpload, BP!StateRead, BP!StateReadFailed,
           BP!Prepared, BP!PreparationFailed, BP!RateLimited, BP!Finalize, BP!Upload,
           BP!RecordUpload, BP!platform
  <2> QED
    BY <1>0, <2>1, RecordSteps
<1>3. CASE \E s \in Slots : AskPlatform(s) \/ Reply(s)
  BY <1>3, AskStep, ReplyStep
<1>4. CASE BrokerByItself \/ (\E p \in Proposals : RequestLost(p)) \/ UNCHANGED pathVars
  <2>1. UNCHANGED <<workerVars, changedOn, receipts, effects, calls, answers>>
    BY <1>4, ProcessNames DEF BrokerByItself, RequestLost, pathVars, brokerVars, BP!Tick,
       BP!Crash, BP!tables, BP!platform
  <2> QED
    BY <2>1, NothingSeen DEF Refused
<1> QED
  BY <1>1, <1>2, <1>3, <1>4 DEF PathNext


\* At first nothing is on its way and nobody has heard of anything.
LEMMA PathStarts == PathInit => CP!Init /\ SocketInv
<1> SUFFICES ASSUME PathInit PROVE CP!Init /\ SocketInv
  OBVIOUS
<1>1. /\ Execution!Init
      /\ receipts = [k \in Proposals \union OtherKeys |-> None]
      /\ calls = [k \in Proposals \union OtherKeys |-> 0]
      /\ effects = [k \in Proposals \union OtherKeys |-> None]
      /\ sent = {} /\ inbox = {} /\ answers = {}
  BY DEF PathInit, Broker!Init
<1>2. sends = [p \in Proposals |-> 0]
  BY <1>1 DEF Execution!Init
<1>3. /\ Receipt = [p \in Proposals |-> "absent"] /\ Asked = {} /\ Changed = {}
      /\ Refused = {} /\ OnItsWay = {}
  BY <1>1, <1>2 DEF Receipt, Asked, Changed, Refused, OnItsWay
<1>4. CP!Init
  BY <1>1, <1>3 DEF Execution!Init, CP!Init, Execution!Idle, CP!Idle, CP!Port!PortInit
<1>5. SocketInv
  BY <1>1 DEF SocketInv
<1> QED
  BY <1>4, <1>5

-----------------------------------------------------------------------------
(* Both sides and the socket together. *)

PathInv == BrokerInv /\ SocketInv /\ CP!TypeOK /\ CP!SendInv

\* Each side's invariant holds because of the other's: a proposal is taken once
\* because it is sent once, and sent once although the socket loses requests.
LEMMA NextPathInv ==
    ASSUME PathInv, BP!IInv', [PathNext]_pathVars
    PROVE  PathInv'
<1>1. BrokerInv /\ SocketInv /\ CP!TypeOK /\ CP!SendInv
  BY DEF PathInv
<1>2. [CP!Next]_CP!vars
  BY <1>1, ChokepointSteps
<1>3. BrokerInv' /\ SocketInv'
  BY <1>1, NextBrokerInv, NextSocketInv
<1>4. CP!TypeOK' /\ CP!SendInv'
  BY <1>1, <1>2, CP!NextTypeOK, CP!NextSendInv
<1> QED
  BY <1>3, <1>4 DEF PathInv

\* It holds along every run.
LEMMA PathInvariance == PathSpec => []PathInv /\ []BP!IInv
<1>1. PathInit => PathInv
  BY InitBrokerInv, PathStarts, CP!InitTypeOK, CP!InitSendInv DEF PathInv
<1>2. PathInv /\ BP!IInv' /\ [PathNext]_pathVars => PathInv'
  BY NextPathInv
<1>3. PathSpec => []BP!IInv
  BY BrokerBehaves, BP!Invariance, PTL
<1> QED
  BY <1>1, <1>2, <1>3, PTL DEF PathSpec

\* The workers over the real broker behave as ExecutionChokepoint,
LEMMA ChokepointBehaves == PathSpec => CP!Spec
<1>1. PathInit => CP!Init
  BY PathStarts
<1>2. PathInv /\ [PathNext]_pathVars => [CP!Next]_CP!vars
  BY ChokepointSteps DEF PathInv
<1> QED
  BY <1>1, <1>2, PathInvariance, PTL DEF PathSpec, CP!Spec

\* What the two sides call by one name is the same thing.
LEMMA SameProperties ==
    /\ CP!TypeOK => Chokepoint!TypeOK
    /\ CP!MoneyFollowsTheWrite => Chokepoint!MoneyFollowsTheWrite
    /\ CP!BooksAgree => Chokepoint!BooksAgree
    /\ CP!DailyCapHolds => Chokepoint!DailyCapHolds
    /\ BP!TypeOK => Broker!TypeOK
    /\ BP!SpendWithinCaps => Broker!SpendWithinCaps
<1>1. CP!TypeOK => Chokepoint!TypeOK
  <2>1. /\ CP!States = Chokepoint!States /\ CP!WorkerState = Chokepoint!WorkerState
        /\ CP!Claimable = Chokepoint!Claimable /\ CP!NotWritten = Chokepoint!NotWritten
        /\ CP!Port!PortTypeOK <=> Chokepoint!Port!PortTypeOK
    BY DEF CP!States, Chokepoint!States, CP!WorkerState, Chokepoint!WorkerState, CP!Idle,
       Chokepoint!Idle, CP!Claimable, Chokepoint!Claimable, CP!NotWritten,
       Chokepoint!NotWritten, CP!Blocked, Chokepoint!Blocked, CP!Port!PortTypeOK,
       Chokepoint!Port!PortTypeOK, CP!Port!Verdicts, Chokepoint!Port!Verdicts
  <2> QED
    BY <2>1 DEF CP!TypeOK, Chokepoint!TypeOK
<1>2. /\ CP!MoneyFollowsTheWrite => Chokepoint!MoneyFollowsTheWrite
      /\ CP!BooksAgree => Chokepoint!BooksAgree
  BY DEF CP!MoneyFollowsTheWrite, Chokepoint!MoneyFollowsTheWrite,
     CP!UnsettledIsReserved, Chokepoint!UnsettledIsReserved, CP!NotWrittenIsTrue,
     Chokepoint!NotWrittenIsTrue, CP!NotWritten, Chokepoint!NotWritten, CP!Blocked,
     Chokepoint!Blocked, CP!BooksAgree, Chokepoint!BooksAgree
<1>3. CP!DailyCapHolds => Chokepoint!DailyCapHolds
  BY SameSums DEF CP!DailyCapHolds, Chokepoint!DailyCapHolds, CP!Total, Chokepoint!Total,
     CP!Raises, Chokepoint!Raises
<1>4. BP!TypeOK => Broker!TypeOK
  <2>1. BP!Recorded = Broker!Recorded /\ BP!Rejections = Broker!Rejections
    BY DEF BP!Recorded, Broker!Recorded, BP!Rejections, Broker!Rejections
  <2>2. BP!Waiting = Broker!Waiting /\ BP!Idle = Broker!Idle
    BY DEF BP!Waiting, Broker!Waiting, BP!Idle, Broker!Idle
  <2>3. BP!ChangeRow = Broker!ChangeRow
    BY DEF BP!ChangeRow, Broker!ChangeRow
  <2>4. BP!Intents = Broker!Intents
    BY DEF BP!Intents, Broker!Intents, BP!Ops, Broker!Ops
  <2>5. BP!ReceiptRow = Broker!ReceiptRow
    BY <2>1, <2>4 DEF BP!ReceiptRow, Broker!ReceiptRow
  <2>6. BP!SlotState = Broker!SlotState
    BY <2>1, <2>2 DEF BP!SlotState, Broker!SlotState
  <2> QED
    BY <2>1, <2>3, <2>5, <2>6 DEF BP!TypeOK, Broker!TypeOK
<1>5. BP!SpendWithinCaps => Broker!SpendWithinCaps
  <2>1. /\ \A table, a : BP!RowsOf(table, a) = Broker!RowsOf(table, a)
        /\ \A d : BP!Month(d) = Broker!Month(d)
        /\ \A ks : BP!EffectDelta(ks) = Broker!EffectDelta(ks)
        /\ \A ks : BP!Cardinality(ks) = Broker!Cardinality(ks)
    BY SameSums DEF BP!RowsOf, Broker!RowsOf, BP!Month, Broker!Month, BP!EffectDelta,
       Broker!EffectDelta, BP!Cardinality, Broker!Cardinality, BP!IsFiniteSet,
       Broker!IsFiniteSet
  <2>2. ASSUME BP!SpendWithinCaps, NEW a \in Accounts,
               NEW k \in Proposals \union OtherKeys, effects[k] # None
        PROVE  LET mine  == Broker!RowsOf(effects, a)
                   today == {m \in mine : effects[m].day = effects[k].day}
                   month == {m \in mine :
                                Broker!Month(effects[m].day) = Broker!Month(effects[k].day)}
               IN  /\ Broker!Cardinality(today) <= CapsOf[a].max_changes
                   /\ Broker!EffectDelta(today) <= CapsOf[a].daily_cap
                   /\ Broker!EffectDelta(month) <= CapsOf[a].monthly_cap
    BY <2>1, <2>2 DEF BP!SpendWithinCaps
  <2> QED
    BY <2>2 DEF Broker!SpendWithinCaps
<1> QED
  BY <1>1, <1>2, <1>3, <1>4, <1>5

-----------------------------------------------------------------------------
(* What holds from end to end. *)

\* The workers over the real broker, its socket and its packages do only what
\* they do over the abstract port (BrokerPlatform.execute_write to authorize):
\* what is proved of ExecutionChokepoint holds here.
THEOREM PathImplementsChokepoint == PathSpec => ImplementsChokepoint
<1>1. PathInit => Chokepoint!Init
  BY PathStarts DEF CP!Init, Chokepoint!Init, CP!Idle, Chokepoint!Idle,
     CP!Port!PortInit, Chokepoint!Port!PortInit
<1>2. PathInv /\ [PathNext]_pathVars => [Chokepoint!Next]_Chokepoint!vars
  BY ChokepointSteps, SameSteps DEF PathInv, CP!vars, CP!books, CP!people, CP!remote,
     Chokepoint!vars, Chokepoint!books, Chokepoint!people, Chokepoint!remote
<1> QED
  BY <1>1, <1>2, PathInvariance, PTL DEF PathSpec, ImplementsChokepoint, Chokepoint!Spec

\* Both sides and the socket keep their types (socket_server.py, dispatcher.py).
THEOREM PathTypes == PathSpec => []PathTypeOK
<1>1. PathInv => PathTypeOK
  BY SameProperties DEF PathInv, BrokerInv, BP!IInv, SocketInv, PathTypeOK
<1> QED
  BY <1>1, PathInvariance, PTL

\* An answer is true when told and stays true, whatever packages, crashes and
\* lost connections do meanwhile (_handle_execute_write, get_execution_receipt).
LEMMA AnswersStayTrue == PathInv => AnswersAreTrue
<1> SUFFICES ASSUME PathInv, NEW p \in Proposals
             PROVE  /\ p \in Refused => /\ receipts[p] = None /\ calls[p] = 0
                                        /\ effects[p] = None
                    /\ <<p, "SUCCEEDED">> \in answers => Receipt[p] = "SUCCEEDED"
  BY DEF AnswersAreTrue
<1>1. BP!TypeOK /\ BP!ReservedFirst /\ SocketInv
  BY DEF PathInv, BrokerInv, BP!IInv
<1>2. /\ p \in Refused => receipts[p] = None
      /\ <<p, "SUCCEEDED">> \in answers =>
             receipts[p] # None /\ receipts[p].outcome = "SUCCEEDED"
  BY <1>1 DEF SocketInv, Refused, Outcomes, Broker!Recorded, Broker!Rejections, BP!Rejections
<1>3. receipts[p] = None => calls[p] = 0 /\ effects[p] = None
  BY <1>1 DEF BP!ReservedFirst, BP!TypeOK
<1> QED
  BY <1>2, <1>3 DEF Receipt

\* The books of ads-api are true of the platform itself: over the broker's real
\* slots and tables, with packages writing beside, lost requests and answers and
\* crashes of both processes, while no worker outlives its lease (chokepoint.py).
THEOREM PathSound == CP!Prudent /\ LeaseHolds => (PathSpec => []PathIsSound)
<1> SUFFICES ASSUME CP!Prudent, LeaseHolds PROVE PathSpec => []PathIsSound
  OBVIOUS
<1>1. CP!Spec => []CP!MoneyFollowsTheWrite
  BY CP!ChokepointMoneyFollowsTheWrite
<1>2. CP!Spec => []CP!BooksAgree
  BY CP!ChokepointBooksAgree
<1>3. PathInv /\ CP!MoneyFollowsTheWrite /\ CP!BooksAgree => PathIsSound
  BY AnswersStayTrue, SameProperties DEF PathIsSound
<1> QED
  BY <1>1, <1>2, <1>3, PathInvariance, ChokepointBehaves, PTL

\* Two guards watch the money of one platform and neither opens the other: the
\* owner's cap of ads-api (_evaluate_guardrails) and the caps of the broker
\* (_check_caps) hold at once, although they count different things.
THEOREM PathHoldsBothCaps ==
    CP!Prudent => (PathSpec => [](Chokepoint!DailyCapHolds /\ Broker!SpendWithinCaps))
<1> SUFFICES ASSUME CP!Prudent
             PROVE  PathSpec => [](Chokepoint!DailyCapHolds /\ Broker!SpendWithinCaps)
  OBVIOUS
<1>1. CP!Spec => []CP!DailyCapHolds
  BY CP!ChokepointDailyCap
<1>2. BP!Spec => []BP!SpendWithinCaps
  BY BP!CapsHold
<1>3. CP!DailyCapHolds /\ BP!SpendWithinCaps
          => Chokepoint!DailyCapHolds /\ Broker!SpendWithinCaps
  BY SameProperties
<1> QED
  BY <1>1, <1>2, <1>3, BrokerBehaves, ChokepointBehaves, PTL
=============================================================================
