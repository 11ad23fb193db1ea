---------------------- MODULE BrokerWriteLedger_proofs ----------------------
(***************************************************************************)
(* The theorems of BrokerWriteLedger, for any number of keys, slots and    *)
(* accounts, any caps and any requests.                                    *)
(*                                                                         *)
(* Types first; then the inductive invariant IInv, one action after the    *)
(* other; from it the safety invariants, the action property and the       *)
(* refinement of WritePort.                                                *)
(*                                                                         *)
(* Last the caps: every reservation, at what it may cost in the end, fits  *)
(* its day and its month (HoldingsInv).                                    *)
(***************************************************************************)
EXTENDS BrokerWriteLedger, SumTheorems, TLAPS

-----------------------------------------------------------------------------
(* Operators. *)

\* A request is made of a key, an intent and an authorization.
LEMMA RequestType ==
    ASSUME NEW q \in Requests
    PROVE  /\ q.key \in Keys
           /\ q.intent \in Intents
           /\ q.auth \in Authorizations
BY LedgerAssumption

\* The day of a clock reading is a natural number.
LEMMA DayType ==
    ASSUME NEW t \in Nat
    PROVE  Day(t) \in Nat
BY LedgerAssumption DEF Day

\* A reservation holds back a natural amount.
LEMMA PositiveDeltaType ==
    ASSUME NEW b \in Int \union {Unreadable}, NEW a \in Int \union {Unreadable}
    PROVE  PositiveDelta(b, a) \in Nat
BY UnreadableAssumption DEF PositiveDelta, Amount

\* The signed change is a whole number, and never more than what is held back.
LEMMA SignedDeltaType ==
    ASSUME NEW b \in Int \union {Unreadable}, NEW a \in Int \union {Unreadable}
    PROVE  /\ SignedDelta(b, a) \in Int
           /\ SignedDelta(b, a) <= PositiveDelta(b, a)
BY UnreadableAssumption DEF PositiveDelta, SignedDelta, Amount

\* Nor is that of a creation, which is held back from no previous value.
LEMMA CreationDelta ==
    ASSUME NEW a \in Int \union {Unreadable}
    PROVE  /\ SignedDelta(0, a) \in Int
           /\ SignedDelta(0, a) <= PositiveDelta(Unreadable, a)
BY UnreadableAssumption DEF PositiveDelta, SignedDelta, Amount

\* The change of a request is a row of applied_changes.
LEMMA ChangeType ==
    ASSUME NEW q \in Requests, NEW t \in Nat
    PROVE  Change(q.intent, t) \in ChangeRow
<1>1. q.intent \in Intents
  BY RequestType
<1>2. q.intent.account \in Accounts /\ q.intent.before \in Int \union {Unreadable}
      /\ q.intent.after \in Int \union {Unreadable}
  BY <1>1 DEF Intents
<1>3. Before(q.intent) \in Int \union {Unreadable}
  BY <1>2 DEF Before
<1>4. SignedDelta(Before(q.intent), q.intent.after) \in Int
  BY <1>2, <1>3, SignedDeltaType
<1> QED
  BY <1>2, <1>4, DayType DEF Change, ChangeRow

\* The reservation of a request is a row of write_receipts.
LEMMA NewReceiptType ==
    ASSUME NEW q \in Requests, NEW t \in Nat
    PROVE  NewReceipt(q, t) \in ReceiptRow
<1>1. q.intent \in Intents /\ q.auth.id \in Nat
  BY RequestType DEF Authorizations
<1>2. PositiveDelta(q.intent.before, q.intent.after) \in Nat
  BY <1>1, PositiveDeltaType DEF Intents
<1> QED
  BY <1>1, <1>2, DayType DEF NewReceipt, ReceiptRow

\* No row is taken for a missing one.
LEMMA RowIsNotNone == None \notin ReceiptRow /\ None \notin ChangeRow
BY LedgerAssumption

\* What the checks answer, and what a reservation may rest on once they let
\* it through: the key is free, and a creation starts from no value.
LEMMA VerdictType ==
    ASSUME TypeOK, NEW q \in Requests, NEW now, NEW checked
    PROVE  /\ ReserveVerdict(q, now, checked) \in {"OK"} \union Rejections \union Recorded
           /\ ReserveVerdict(q, now, checked) = "OK" =>
                  /\ outcomes[q.key] = "none" /\ receipts[q.key] = None
                  /\ q.intent.op = "campaign" => q.intent.before = Unreadable
<1>1. q.key \in Keys
  BY RequestType
<1>2. outcomes[q.key] \in Recorded \union {"none"}
  BY <1>1 DEF TypeOK
<1>3. GetOutcome(q.key) \in Recorded \union {"none"}
  BY <1>2 DEF GetOutcome, Recorded
<1>4. ReserveVerdict(q, now, checked) \in {"OK"} \union Rejections \union Recorded
  BY <1>3 DEF ReserveVerdict, Rejections
<1>5. ASSUME ReserveVerdict(q, now, checked) = "OK"
      PROVE  /\ outcomes[q.key] = "none" /\ receipts[q.key] = None
             /\ q.intent.op = "campaign" => q.intent.before = Unreadable
  <2>1. GetOutcome(q.key) = "none" /\ Verified(q, checked)
    BY <1>3, <1>5 DEF ReserveVerdict, Recorded
  <2> QED
    BY <2>1 DEF GetOutcome, Verified
<1> QED
  BY <1>4, <1>5

\* What authorize answers, when it does not let a request through.
LEMMA AuthorizeType ==
    ASSUME NEW q, NEW t, NEW drifted
    PROVE  Authorize(q, t, drifted) \in {"OK"} \union Rejections
BY DEF Authorize, Rejections

-----------------------------------------------------------------------------
(* Types. *)

\* A busy slot holds a request, the clock reading it was taken at and an answer.
LEMMA BusySlot ==
    ASSUME TypeOK, NEW s \in Slots, slots[s].pc # "idle"
    PROVE  /\ slots[s] \in [pc : Waiting \union {"answered"}, req : Requests, now : Nat,
                            out : Recorded \union Rejections \union {"none"}]
           /\ slots[s].req \in Requests /\ slots[s].req.key \in Keys /\ slots[s].now \in Nat
<1>1. slots[s] \in SlotState
  BY DEF TypeOK
<1>2. slots[s] \in [pc : Waiting \union {"answered"}, req : Requests, now : Nat,
                    out : Recorded \union Rejections \union {"none"}]
  BY <1>1 DEF SlotState, Idle
<1> QED
  BY <1>2, RequestType

\* A busy slot moves to another point of the handler, with or without an answer.
LEMMA SlotMoves ==
    ASSUME TypeOK, NEW s \in Slots, slots[s].pc # "idle",
           NEW pc \in Waiting \union {"answered"},
           NEW out \in Recorded \union Rejections \union {"none"}
    PROVE  /\ [slots EXCEPT ![s].pc = pc] \in [Slots -> SlotState]
           /\ [slots EXCEPT ![s].pc = pc, ![s].out = out] \in [Slots -> SlotState]
<1>1. slots[s] \in [pc : Waiting \union {"answered"}, req : Requests, now : Nat,
                    out : Recorded \union Rejections \union {"none"}]
  BY BusySlot
<1>2. slots \in [Slots -> SlotState]
  BY DEF TypeOK
<1>3. /\ [slots[s] EXCEPT !.pc = pc] \in SlotState
      /\ [[slots[s] EXCEPT !.pc = pc] EXCEPT !.out = out] \in SlotState
  BY <1>1 DEF SlotState
<1> QED
  BY <1>2, <1>3

\* Answering is such a move.
LEMMA AnswerType ==
    ASSUME TypeOK, NEW s \in Slots, slots[s].pc # "idle",
           NEW out \in Recorded \union Rejections \union {"none"}, Answer(s, out)
    PROVE  slots' \in [Slots -> SlotState]
BY SlotMoves DEF Answer

\* A slot that starts on a request.
LEMMA SlotStarts ==
    ASSUME TypeOK, NEW s \in Slots, NEW q \in Requests,
           NEW pc \in Waiting \union {"answered"},
           NEW out \in Recorded \union Rejections \union {"none"},
           slots' = [slots EXCEPT ![s] = [pc |-> pc, req |-> q, now |-> clock, out |-> out]]
    PROVE  slots' \in [Slots -> SlotState]
<1>1. clock \in Nat
  BY LedgerAssumption DEF TypeOK
<1>2. [pc |-> pc, req |-> q, now |-> clock, out |-> out] \in SlotState
  BY <1>1 DEF SlotState
<1> QED
  BY <1>2 DEF TypeOK

\* The reservation keeps the types, whatever the verdict.
LEMMA TryReserveType ==
    ASSUME TypeOK, NEW s \in Slots, slots[s].pc # "idle", NEW checked, TryReserve(s, checked)
    PROVE  /\ slots' \in [Slots -> SlotState]
           /\ receipts' \in [Keys -> ReceiptRow \union {None}]
           /\ outcomes' = outcomes /\ applied' = applied
<1> DEFINE q == slots[s].req
           v == ReserveVerdict(q, slots[s].now, checked)
<1>1. q \in Requests /\ q.key \in Keys /\ slots[s].now \in Nat
  BY BusySlot
<1>2. v \in {"OK"} \union Rejections \union Recorded
  BY <1>1, VerdictType
<1>3. CASE v = "OK"
  <2>1. NewReceipt(q, slots[s].now) \in ReceiptRow
    BY <1>1, NewReceiptType
  <2>2. receipts' = [receipts EXCEPT ![q.key] = NewReceipt(q, slots[s].now)]
        /\ Goto(s, "reserved") /\ UNCHANGED <<outcomes, applied>>
    BY <1>3 DEF TryReserve
  <2>3. slots' \in [Slots -> SlotState]
    BY <2>2, SlotMoves DEF Goto, Waiting
  <2> QED
    BY <1>1, <2>1, <2>2, <2>3 DEF TypeOK
<1>4. CASE v # "OK"
  <2>1. Answer(s, v) /\ UNCHANGED tables
    BY <1>4 DEF TryReserve
  <2>2. slots' \in [Slots -> SlotState]
    BY <1>2, <1>4, <2>1, AnswerType
  <2> QED
    BY <2>1, <2>2 DEF TypeOK, tables
<1> QED
  BY <1>3, <1>4

\* The program starts with every table empty and every slot idle.
LEMMA InitType == Init => TypeOK
<1> SUFFICES ASSUME Init PROVE TypeOK
  OBVIOUS
<1>1. clock \in 0 .. MaxClock /\ sent \in SUBSET Keys
  BY LedgerAssumption DEF Init
<1>2. slots \in [Slots -> SlotState]
  BY DEF Init, SlotState
<1> QED
  BY <1>1, <1>2 DEF Init, TypeOK, Recorded

\* Every step keeps the types, action by action; that a slot about to record
\* has an outcome and a reservation is what the owners know.
LEMMA NextType ==
    ASSUME TypeOK, OwnersKnow, [Next]_vars
    PROVE  TypeOK'
<1> USE DEF Waiting, Recorded, Rejections
<1>1. ASSUME NEW s \in Slots, Receive(s)
      PROVE  TypeOK'
  <2>1. PICK q \in Requests :
            /\ LET v  == Authorize(q, clock, FALSE)
                   at == IF q.intent.op # "campaign" THEN "reading"
                         ELSE IF v = "OK" THEN "preparing" ELSE "answered"
               IN  slots' = [slots EXCEPT ![s] =
                       [pc |-> at, req |-> q, now |-> clock,
                        out |-> IF at = "answered" THEN v ELSE "none"]]
            /\ sent' = sent \union {q.key}
            /\ UNCHANGED <<clock, tables, platform>>
    BY <1>1 DEF Receive
  <2> DEFINE v  == Authorize(q, clock, FALSE)
             at == IF q.intent.op # "campaign" THEN "reading"
                   ELSE IF v = "OK" THEN "preparing" ELSE "answered"
             out == IF at = "answered" THEN v ELSE "none"
  <2>2. at \in Waiting \union {"answered"} /\ out \in Recorded \union Rejections \union {"none"}
    BY AuthorizeType
  <2>3. slots' = [slots EXCEPT ![s] = [pc |-> at, req |-> q, now |-> clock, out |-> out]]
    BY <2>1
  <2> HIDE DEF at, out
  <2>4. slots' \in [Slots -> SlotState]
    BY <2>2, <2>3, SlotStarts
  <2> QED
    BY <2>1, <2>4, RequestType DEF TypeOK, tables, platform
<1>2. ASSUME NEW s \in Slots, StateRead(s)
      PROVE  TypeOK'
  <2>1. PICK drifted \in BOOLEAN :
            LET q == slots[s].req
                v == Authorize(q, slots[s].now, drifted)
            IN  \/ v # "OK" /\ Answer(s, v) /\ UNCHANGED tables
                \/ /\ v = "OK" /\ q.intent.op = "child"
                   /\ Goto(s, "preparing") /\ UNCHANGED tables
                \/ v = "OK" /\ q.intent.op = "update" /\ TryReserve(s, slots[s].now)
    BY <1>2 DEF StateRead
  <2> DEFINE v == Authorize(slots[s].req, slots[s].now, drifted)
  <2>2. slots[s].pc # "idle" /\ UNCHANGED <<clock, platform, sent>>
    BY <1>2 DEF StateRead, At
  <2>3. CASE v # "OK" /\ Answer(s, v) /\ UNCHANGED tables
    <3>1. v \in Recorded \union Rejections \union {"none"}
      BY <2>3, AuthorizeType
    <3> HIDE DEF v
    <3>2. slots' \in [Slots -> SlotState]
      BY <2>2, <2>3, <3>1, AnswerType
    <3> QED
      BY <2>2, <2>3, <3>2 DEF TypeOK, tables, platform
  <2>4. CASE Goto(s, "preparing") /\ UNCHANGED tables
    <3>1. slots' \in [Slots -> SlotState]
      BY <2>2, <2>4, SlotMoves DEF Goto
    <3> QED
      BY <2>2, <2>4, <3>1 DEF TypeOK, tables, platform
  <2>5. CASE TryReserve(s, slots[s].now)
    BY <2>2, <2>5, TryReserveType DEF TypeOK, tables, platform
  <2> QED
    BY <2>1, <2>3, <2>4, <2>5
<1>3. ASSUME NEW s \in Slots, StateReadFailed(s) \/ PreparationFailed(s)
      PROVE  TypeOK'
  <2>1. slots' \in [Slots -> SlotState]
    BY <1>3, AnswerType DEF StateReadFailed, PreparationFailed, At
  <2> QED
    BY <1>3, <2>1 DEF StateReadFailed, PreparationFailed, TypeOK, tables, platform
<1>4. ASSUME NEW s \in Slots, Prepared(s)
      PROVE  TypeOK'
  BY <1>4, TryReserveType DEF Prepared, At, TypeOK, tables, platform
<1>5. ASSUME NEW s \in Slots, RateLimited(s)
      PROVE  TypeOK'
  <2>1. slots' \in [Slots -> SlotState]
    BY <1>5, SlotMoves DEF RateLimited, At
  <2> QED
    BY <1>5, <2>1 DEF RateLimited, TypeOK, tables, platform
<1>6. ASSUME NEW s \in Slots, CallPlatform(s)
      PROVE  TypeOK'
  <2>1. slots[s].req \in Requests /\ slots[s].req.key \in Keys /\ slots[s].now \in Nat
    BY <1>6, BusySlot DEF CallPlatform, At
  <2>2. Change(slots[s].req.intent, slots[s].now) \in ChangeRow
    BY <2>1, ChangeType
  <2>3. slots' \in [Slots -> SlotState]
    <3>1. PICK out \in {"SUCCEEDED", "UNKNOWN"} :
              slots' = [slots EXCEPT ![s].pc = "called", ![s].out = out]
      BY <1>6 DEF CallPlatform
    <3> QED
      BY <1>6, <3>1, SlotMoves DEF CallPlatform, At
  <2>4. effects' \in [Keys -> ChangeRow \union {None}] /\ calls' \in [Keys -> Nat]
    BY <1>6, <2>1, <2>2 DEF CallPlatform, TypeOK
  <2> QED
    BY <1>6, <2>3, <2>4 DEF CallPlatform, TypeOK, tables
<1>7. ASSUME NEW s \in Slots, Finalize(s)
      PROVE  TypeOK'
  <2> DEFINE q == slots[s].req
             out == slots[s].out
             row == receipts[q.key]
             persisted == IF outcomes[q.key] = "none" THEN out ELSE outcomes[q.key]
  <2>1. q \in Requests /\ q.key \in Keys /\ slots[s].now \in Nat
    BY <1>7, BusySlot DEF Finalize, At
  <2>2. out \in Recorded /\ row \in ReceiptRow
    <3>1. OwnerKnows(s) /\ At(s, "called")
      BY <1>7 DEF OwnersKnow, Owns, Finalize, At
    <3> QED
      BY <2>1, <3>1 DEF OwnerKnows, TypeOK
  <2>3. persisted \in Recorded
    BY <2>1, <2>2 DEF TypeOK
  <2>4. Change(q.intent, slots[s].now) \in ChangeRow
    BY <2>1, ChangeType
  <2>5. slots' \in [Slots -> SlotState]
    BY <1>7, <2>3, AnswerType DEF Finalize, At
  <2>6. receipts' \in [Keys -> ReceiptRow \union {None}]
    <3>1. Settled(row, out) \in ReceiptRow
      BY <2>2 DEF Settled, ReceiptRow
    <3> QED
      BY <1>7, <2>1, <3>1 DEF Finalize, TypeOK
  <2>7. outcomes' \in [Keys -> Recorded \union {"none"}]
    BY <1>7, <2>1, <2>3 DEF Finalize, TypeOK
  <2>8. applied' \in [Keys -> ChangeRow \union {None}]
    BY <1>7, <2>1, <2>4 DEF Finalize, TypeOK
  <2> QED
    BY <1>7, <2>5, <2>6, <2>7, <2>8 DEF Finalize, TypeOK, platform
<1>8. ASSUME NEW s \in Slots, Deliver(s)
      PROVE  TypeOK'
  <2>1. slots' \in [Slots -> SlotState]
    BY <1>8 DEF Deliver, TypeOK, SlotState
  <2> QED
    BY <1>8, <2>1 DEF Deliver, TypeOK, tables, platform
<1>9. ASSUME NEW s \in Slots, ReceiveUpload(s)
      PROVE  TypeOK'
  <2>1. PICK q \in Requests :
            /\ LET at == IF ~Verified(q, clock) \/ CreatedResource(q.key)
                         THEN "answered" ELSE "uploading"
               IN  slots' = [slots EXCEPT ![s] =
                       [pc |-> at, req |-> q, now |-> clock,
                        out |-> IF at = "uploading" THEN "none"
                                ELSE IF Verified(q, clock) THEN "SUCCEEDED" ELSE "DENIED"]]
            /\ sent' = sent \union {q.key}
            /\ UNCHANGED <<clock, tables, platform>>
    BY <1>9 DEF ReceiveUpload
  <2> DEFINE at == IF ~Verified(q, clock) \/ CreatedResource(q.key)
                   THEN "answered" ELSE "uploading"
             out == IF at = "uploading" THEN "none"
                    ELSE IF Verified(q, clock) THEN "SUCCEEDED" ELSE "DENIED"
  <2>2. at \in Waiting \union {"answered"} /\ out \in Recorded \union Rejections \union {"none"}
    OBVIOUS
  <2>3. slots' = [slots EXCEPT ![s] = [pc |-> at, req |-> q, now |-> clock, out |-> out]]
    BY <2>1
  <2> HIDE DEF at, out
  <2>4. slots' \in [Slots -> SlotState]
    BY <2>2, <2>3, SlotStarts
  <2> QED
    BY <2>1, <2>4, RequestType DEF TypeOK, tables, platform
<1>10. ASSUME NEW s \in Slots, Upload(s)
       PROVE  TypeOK'
  <2> DEFINE k == slots[s].req.key
             stored == [uploads EXCEPT ![k] = @ + 1]
  <2>1. slots[s].pc # "idle" /\ k \in Keys
    BY <1>10, BusySlot DEF Upload, At
  <2>2. stored \in [Keys -> Nat]
    BY <2>1 DEF TypeOK
  <2>3. slots' \in [Slots -> SlotState]
    <3>1. CASE Goto(s, "uploaded")
      BY <2>1, <3>1, SlotMoves DEF Goto
    <3>2. CASE Answer(s, "FAILED")
      BY <2>1, <3>2, AnswerType
    <3> QED
      BY <1>10, <3>1, <3>2 DEF Upload
  <2>4. uploads' \in [Keys -> Nat]
    BY <1>10, <2>2 DEF Upload, TypeOK
  <2> QED
    BY <1>10, <2>3, <2>4 DEF Upload, TypeOK, tables
<1>11. ASSUME NEW s \in Slots, RecordUpload(s)
       PROVE  TypeOK'
  <2>1. slots[s].pc # "idle" /\ slots[s].req.key \in Keys
    BY <1>11, BusySlot DEF RecordUpload, At
  <2>2. slots' \in [Slots -> SlotState]
    BY <1>11, <2>1, AnswerType DEF RecordUpload
  <2>3. outcomes' \in [Keys -> Recorded \union {"none"}]
    BY <1>11, <2>1 DEF RecordUpload, TypeOK
  <2> QED
    BY <1>11, <2>2, <2>3 DEF RecordUpload, TypeOK, platform
<1>12. CASE Tick
  BY <1>12, LedgerAssumption DEF Tick, TypeOK, tables, platform
<1>13. CASE Crash
  BY <1>13 DEF Crash, TypeOK, SlotState, tables, platform
<1>14. CASE UNCHANGED vars
  BY <1>14 DEF vars, TypeOK, tables, platform
<1> QED
  BY <1>1, <1>2, <1>3, <1>4, <1>5, <1>6, <1>7, <1>8, <1>9, <1>10, <1>11, <1>12,
     <1>13, <1>14 DEF Next, Step

-----------------------------------------------------------------------------
(* The inductive invariant.  The types after the step are known already;    *)
(* what is left is what slots, tables and platform say about one another.   *)

Relations == OwnersKnow /\ OneOwner /\ ReservedFirst /\ LedgerAgrees

\* A step that touches no reservation, no change and no verdict of a reserved
\* key, and makes nobody an owner, keeps the relations.
LEMMA QuietStep ==
    ASSUME IInv,
           UNCHANGED <<receipts, applied, effects, calls>>,
           \A k \in Keys : receipts[k] # None => outcomes'[k] = outcomes[k],
           \A s \in Slots : slots'[s] = slots[s] \/ slots'[s].pc \notin {"reserved", "called"}
    PROVE  Relations'
<1>1. OwnersKnow'
  <2> SUFFICES ASSUME NEW s \in Slots, Owns(s)'
               PROVE  OwnerKnows(s)'
    BY DEF OwnersKnow
  <2>1. slots'[s] = slots[s]
    BY DEF Owns
  <2>2. OwnerKnows(s)
    BY <2>1 DEF IInv, OwnersKnow, Owns
  <2> QED
    BY <2>1, <2>2 DEF OwnerKnows, At
<1>2. OneOwner'
  BY DEF IInv, OneOwner, Owns
<1>3. ReservedFirst'
  BY DEF IInv, ReservedFirst, Promised
<1>4. LedgerAgrees'
  BY DEF IInv, LedgerAgrees
<1> QED
  BY <1>1, <1>2, <1>3, <1>4 DEF Relations

\* An insert into write_receipts: the key was free, so nobody owned it.
LEMMA ReserveStep ==
    ASSUME IInv, NEW s \in Slots, slots[s].pc # "idle", NEW checked,
           TryReserve(s, checked), UNCHANGED <<effects, calls>>,
           slots[s].req.intent.op # "upload"
    PROVE  Relations'
<1> DEFINE q == slots[s].req
           k == q.key
           now == slots[s].now
           row == NewReceipt(q, now)
           v == ReserveVerdict(q, now, checked)
<1>0. /\ TypeOK /\ OwnersKnow /\ OneOwner /\ ReservedFirst /\ LedgerAgrees
      /\ q \in Requests /\ k \in Keys /\ now \in Nat
  BY BusySlot DEF IInv
<1>1. CASE v # "OK"
  <2>1. Answer(s, v) /\ UNCHANGED tables
    BY <1>1 DEF TryReserve
  <2>2. \A t \in Slots : slots'[t] = slots[t] \/ slots'[t].pc = "answered"
    BY <1>0, <2>1 DEF Answer, TypeOK
  <2> QED
    BY <2>1, <2>2, QuietStep DEF tables
<1>2. CASE v = "OK"
  <2>1. /\ receipts' = [receipts EXCEPT ![k] = row]
        /\ slots' = [slots EXCEPT ![s].pc = "reserved"]
        /\ UNCHANGED <<outcomes, applied, effects, calls>>
    BY <1>2 DEF TryReserve, Goto
  <2>2. /\ outcomes[k] = "none" /\ receipts[k] = None
        /\ q.intent.op = "campaign" => q.intent.before = Unreadable
    BY <1>0, <1>2, VerdictType
  <2>3. calls[k] = 0 /\ applied[k] = None /\ effects[k] = None
    BY <1>0, <2>2 DEF ReservedFirst
  <2>4. receipts'[k] = row /\ \A j \in Keys : j # k => receipts'[j] = receipts[j]
    BY <1>0, <2>1 DEF TypeOK
  <2>5. row # None
    BY <1>0, NewReceiptType, RowIsNotNone
  <2>6. /\ slots'[s].pc = "reserved" /\ slots'[s].req = q /\ slots'[s].now = now
        /\ \A t \in Slots : t # s => slots'[t] = slots[t]
    BY <1>0, <2>1, BusySlot DEF TypeOK
  <2>7. \A t \in Slots : t # s /\ Owns(t) => slots[t].req.key # k /\ slots[t].req.key \in Keys
    <3> SUFFICES ASSUME NEW t \in Slots, t # s, Owns(t)
                 PROVE  slots[t].req.key # k /\ slots[t].req.key \in Keys
      OBVIOUS
    <3>1. slots[t].req.key \in Keys
      BY <1>0, BusySlot DEF Owns
    <3>2. receipts[slots[t].req.key] # None
      BY <1>0 DEF OwnersKnow, OwnerKnows
    <3> QED
      BY <2>2, <3>1, <3>2
  <2>8. OwnersKnow'
    <3> SUFFICES ASSUME NEW t \in Slots, Owns(t)'
                 PROVE  OwnerKnows(t)'
      BY DEF OwnersKnow
    <3>1. CASE t = s
      BY <2>1, <2>3, <2>4, <2>5, <2>6, <3>1 DEF OwnerKnows, At, NewReceipt
    <3>2. CASE t # s
      <4>1. Owns(t) /\ slots'[t] = slots[t]
        BY <2>6, <3>2 DEF Owns
      <4>2. OwnerKnows(t) /\ receipts'[slots[t].req.key] = receipts[slots[t].req.key]
        BY <1>0, <2>4, <2>7, <3>2, <4>1 DEF OwnersKnow
      <4> QED
        BY <2>1, <4>1, <4>2 DEF OwnerKnows, At
    <3> QED
      BY <3>1, <3>2
  <2>9. OneOwner'
    BY <1>0, <2>6, <2>7 DEF OneOwner, Owns
  <2>10. ReservedFirst'
    <3>1. row.delta >= Promised(row).delta
      <4>1. q.intent.before \in Int \union {Unreadable} /\ q.intent.after \in Int \union {Unreadable}
        BY <1>0, RequestType DEF Intents
      <4>2. SignedDelta(Before(q.intent), q.intent.after)
                <= PositiveDelta(q.intent.before, q.intent.after)
        BY <2>2, <4>1, SignedDeltaType, CreationDelta DEF Before
      <4>3. SignedDelta(Before(q.intent), q.intent.after) \in Int
        BY <2>2, <4>1, SignedDeltaType, CreationDelta DEF Before
      <4>4. PositiveDelta(q.intent.before, q.intent.after) \in Nat
        BY <4>1, PositiveDeltaType
      <4> QED
        BY <4>2, <4>3, <4>4 DEF NewReceipt, Promised
    <3> QED
      BY <1>0, <2>1, <2>3, <2>4, <2>5, <3>1 DEF ReservedFirst, Promised
  <2>11. LedgerAgrees'
    BY <1>0, <2>1, <2>2, <2>3, <2>4 DEF LedgerAgrees, NewReceipt
  <2> QED
    BY <2>8, <2>9, <2>10, <2>11 DEF Relations
<1> QED
  BY <1>1, <1>2

\* The call: only its owner touches the key, and it makes what was reserved.
LEMMA CallStep ==
    ASSUME IInv, NEW s \in Slots, CallPlatform(s)
    PROVE  Relations'
<1> DEFINE q == slots[s].req
           k == q.key
           now == slots[s].now
           change == Change(q.intent, now)
<1>1. /\ TypeOK /\ OwnersKnow /\ OneOwner /\ ReservedFirst /\ LedgerAgrees
      /\ slots[s].pc = "reserved" /\ q \in Requests /\ k \in Keys /\ now \in Nat
  BY BusySlot DEF IInv, CallPlatform, At
<1>2. OwnerKnows(s)
  BY <1>1 DEF OwnersKnow, Owns
<1>3. /\ receipts[k] # None /\ receipts[k].intent = q.intent /\ receipts[k].day = Day(now)
      /\ receipts[k].outcome = "none" /\ calls[k] = 0 /\ effects[k] = None
  BY <1>1, <1>2 DEF OwnerKnows, At, ReservedFirst
<1>4. change = Promised(receipts[k]) /\ change # None
  BY <1>1, <1>3, ChangeType, RowIsNotNone DEF Change, Promised
<1>5. /\ calls' = [calls EXCEPT ![k] = calls[k] + 1]
      /\ UNCHANGED <<receipts, outcomes, applied>>
  BY <1>1 DEF CallPlatform, tables
<1>6. PICK out \in {"SUCCEEDED", "UNKNOWN"} :
          /\ slots' = [slots EXCEPT ![s].pc = "called", ![s].out = out]
          /\ \/ effects' = [effects EXCEPT ![k] = change]
             \/ out = "UNKNOWN" /\ effects' = effects
  BY DEF CallPlatform
<1> HIDE DEF change
<1>7. calls'[k] = 1 /\ \A j \in Keys : j # k => calls'[j] = calls[j] /\ effects'[j] = effects[j]
  BY <1>1, <1>3, <1>5, <1>6 DEF TypeOK
<1>8. \/ effects'[k] = change
      \/ out = "UNKNOWN" /\ effects'[k] = None
  BY <1>1, <1>3, <1>6 DEF TypeOK
<1>9. /\ slots'[s].pc = "called" /\ slots'[s].out = out
      /\ slots'[s].req = q /\ slots'[s].now = now
      /\ \A t \in Slots : t # s => slots'[t] = slots[t]
  BY <1>1, <1>6, BusySlot DEF TypeOK
<1>10. \A t \in Slots : t # s /\ Owns(t) => slots[t].req.key # k /\ slots[t].req.key \in Keys
  BY <1>1, BusySlot DEF OneOwner, Owns
<1>11. OwnersKnow'
  <2> SUFFICES ASSUME NEW t \in Slots, Owns(t)'
               PROVE  OwnerKnows(t)'
    BY DEF OwnersKnow
  <2>1. CASE t = s
    BY <1>3, <1>4, <1>5, <1>7, <1>8, <1>9, <2>1 DEF OwnerKnows, At
  <2>2. CASE t # s
    <3>1. Owns(t) /\ slots'[t] = slots[t]
      BY <1>9, <2>2 DEF Owns
    <3>2. /\ OwnerKnows(t)
          /\ calls'[slots[t].req.key] = calls[slots[t].req.key]
          /\ effects'[slots[t].req.key] = effects[slots[t].req.key]
      BY <1>1, <1>7, <1>10, <2>2, <3>1 DEF OwnersKnow
    <3> QED
      BY <1>5, <3>1, <3>2 DEF OwnerKnows, At
  <2> QED
    BY <2>1, <2>2
<1>12. OneOwner'
  BY <1>1, <1>9, <1>10 DEF OneOwner, Owns
<1>13. ReservedFirst'
  <2> SUFFICES ASSUME NEW j \in Keys
               PROVE  /\ calls'[j] \in {0, 1}
                      /\ effects'[j] # None => calls'[j] = 1
                      /\ receipts[j] = None => calls'[j] = 0 /\ applied[j] = None
                      /\ receipts[j] # None =>
                             /\ \E p \in Requests : p.key = j /\ p.intent.op # "upload"
                             /\ receipts[j].delta >= Promised(receipts[j]).delta
                             /\ effects'[j] \in {None, Promised(receipts[j])}
    BY <1>5 DEF ReservedFirst, Promised
  <2>1. CASE j = k
    BY <1>1, <1>3, <1>4, <1>7, <1>8, <2>1 DEF ReservedFirst
  <2>2. CASE j # k
    BY <1>1, <1>7, <2>2 DEF ReservedFirst
  <2> QED
    BY <2>1, <2>2
<1>14. LedgerAgrees'
  <2> SUFFICES ASSUME NEW j \in Keys, receipts[j] # None
               PROVE  /\ receipts[j].outcome = outcomes[j]
                      /\ receipts[j].pending <=> outcomes[j] # "SUCCEEDED"
                      /\ outcomes[j] = "SUCCEEDED" <=> applied[j] # None
                      /\ applied[j] # None => applied[j] = effects'[j]
    BY <1>5 DEF LedgerAgrees
  <2>1. CASE j = k
    <3>1. applied[k] = None
      BY <1>1, <1>3 DEF LedgerAgrees
    <3> QED
      BY <1>1, <2>1, <3>1 DEF LedgerAgrees
  <2>2. CASE j # k
    BY <1>1, <1>7, <2>2 DEF LedgerAgrees
  <2> QED
    BY <2>1, <2>2
<1> QED
  BY <1>11, <1>12, <1>13, <1>14 DEF Relations

\* The record: the owner's verdict is the first one of its key, and it tells
\* what the platform did.
LEMMA RecordStep ==
    ASSUME IInv, NEW s \in Slots, Finalize(s)
    PROVE  /\ Relations'
           /\ outcomes[slots[s].req.key] = "none" /\ applied[slots[s].req.key] = None
           /\ receipts[slots[s].req.key].pending
           /\ receipts' = [receipts EXCEPT ![slots[s].req.key] =
                  Settled(receipts[slots[s].req.key], slots[s].out)]
<1> DEFINE q == slots[s].req
           k == q.key
           out == slots[s].out
           now == slots[s].now
           row == Settled(receipts[k], out)
           change == Change(q.intent, now)
<1>1. /\ TypeOK /\ OwnersKnow /\ OneOwner /\ ReservedFirst /\ LedgerAgrees
      /\ slots[s].pc = "called" /\ q \in Requests /\ k \in Keys /\ now \in Nat
  BY BusySlot DEF IInv, Finalize, At
<1>2. OwnerKnows(s)
  BY <1>1 DEF OwnersKnow, Owns
<1>3. /\ receipts[k] # None /\ receipts[k] \in ReceiptRow
      /\ receipts[k].outcome = "none" /\ receipts[k].intent = q.intent
      /\ receipts[k].day = Day(now)
      /\ out \in Recorded /\ (out = "SUCCEEDED" => effects[k] # None)
  BY <1>1, <1>2 DEF OwnerKnows, At, TypeOK, Recorded
<1>4. outcomes[k] = "none" /\ applied[k] = None /\ receipts[k].pending
  BY <1>1, <1>3 DEF LedgerAgrees
<1>5. change = Promised(receipts[k]) /\ change # None
  BY <1>1, <1>3, ChangeType, RowIsNotNone DEF Change, Promised
<1>6. /\ receipts' = [receipts EXCEPT ![k] = row]
      /\ outcomes' = [outcomes EXCEPT ![k] = out]
      /\ applied' = IF out = "SUCCEEDED" THEN [applied EXCEPT ![k] = change] ELSE applied
      /\ slots' = [slots EXCEPT ![s].pc = "answered", ![s].out = out]
      /\ UNCHANGED <<effects, calls>>
  BY <1>3, <1>4 DEF Finalize, Answer, platform
<1> HIDE DEF change
<1>7. /\ receipts'[k] = row /\ outcomes'[k] = out
      /\ applied'[k] = IF out = "SUCCEEDED" THEN change ELSE None
      /\ \A j \in Keys : j # k => /\ receipts'[j] = receipts[j]
                                  /\ outcomes'[j] = outcomes[j]
                                  /\ applied'[j] = applied[j]
  BY <1>1, <1>4, <1>6 DEF TypeOK
<1>8. /\ row \in ReceiptRow /\ row # None /\ row.outcome = out
      /\ row.pending <=> out # "SUCCEEDED"
      /\ row.intent = receipts[k].intent /\ row.day = receipts[k].day
      /\ row.delta = receipts[k].delta
  <2>1. row \in ReceiptRow
    BY <1>3 DEF Settled, ReceiptRow
  <2> QED
    BY <1>3, <2>1, RowIsNotNone DEF Settled, ReceiptRow
<1>9. /\ slots'[s].pc = "answered"
      /\ \A t \in Slots : t # s => slots'[t] = slots[t]
  BY <1>1, <1>6, BusySlot DEF TypeOK
<1>10. OwnersKnow'
  <2> SUFFICES ASSUME NEW t \in Slots, Owns(t)'
               PROVE  OwnerKnows(t)'
    BY DEF OwnersKnow
  <2>1. t # s /\ Owns(t) /\ slots'[t] = slots[t]
    BY <1>9 DEF Owns
  <2>2. slots[t].req.key # k /\ slots[t].req.key \in Keys
    BY <1>1, <2>1, BusySlot DEF OneOwner, Owns
  <2>3. OwnerKnows(t) /\ receipts'[slots[t].req.key] = receipts[slots[t].req.key]
    BY <1>1, <1>7, <2>1, <2>2 DEF OwnersKnow
  <2> QED
    BY <1>6, <2>1, <2>3 DEF OwnerKnows, At
<1>11. OneOwner'
  BY <1>1, <1>9 DEF OneOwner, Owns
<1>12. Promised(row) = Promised(receipts[k])
  BY <1>8 DEF Promised
<1> HIDE DEF row
<1>13. ReservedFirst'
  <2> SUFFICES ASSUME NEW j \in Keys
               PROVE  /\ calls[j] \in {0, 1}
                      /\ effects[j] # None => calls[j] = 1
                      /\ receipts'[j] = None => calls[j] = 0 /\ applied'[j] = None
                      /\ receipts'[j] # None =>
                             /\ \E p \in Requests : p.key = j /\ p.intent.op # "upload"
                             /\ receipts'[j].delta >= Promised(receipts'[j]).delta
                             /\ effects[j] \in {None, Promised(receipts'[j])}
    BY <1>6 DEF ReservedFirst, Promised
  <2>1. CASE j = k
    BY <1>1, <1>3, <1>7, <1>8, <1>12, <2>1 DEF ReservedFirst
  <2>2. CASE j # k
    BY <1>1, <1>7, <2>2 DEF ReservedFirst
  <2> QED
    BY <2>1, <2>2
<1>14. LedgerAgrees'
  <2> SUFFICES ASSUME NEW j \in Keys, receipts'[j] # None
               PROVE  /\ receipts'[j].outcome = outcomes'[j]
                      /\ receipts'[j].pending <=> outcomes'[j] # "SUCCEEDED"
                      /\ outcomes'[j] = "SUCCEEDED" <=> applied'[j] # None
                      /\ applied'[j] # None => applied'[j] = effects[j]
    BY <1>6 DEF LedgerAgrees
  <2>1. CASE j = k
    <3>1. out = "SUCCEEDED" => effects[k] = change
      BY <1>1, <1>3, <1>5 DEF ReservedFirst
    <3> QED
      BY <1>5, <1>7, <1>8, <2>1, <3>1
  <2>2. CASE j # k
    BY <1>1, <1>7, <2>2 DEF LedgerAgrees
  <2> QED
    BY <2>1, <2>2
<1> QED
  BY <1>4, <1>6, <1>10, <1>11, <1>13, <1>14 DEF Relations, row

\* A busy slot that goes on with the same request is where only a write, or
\* only an upload, may be, if it was there already or changes side to answer.
LEMMA SlotsStayFit ==
    ASSUME TypeOK, SlotsFit, NEW s \in Slots, slots[s].pc # "idle",
           slots' \in [Slots -> SlotState],
           \A t \in Slots : t # s => slots'[t] = slots[t],
           \/ slots'[s].pc = "answered"
           \/ /\ slots'[s].req = slots[s].req
              /\ slots[s].req.intent.op # "upload"
              /\ slots'[s].pc \in {"preparing", "reserved", "called"}
           \/ /\ slots'[s].req = slots[s].req
              /\ slots[s].req.intent.op = "upload" /\ slots'[s].pc = "uploaded"
    PROVE  SlotsFit'
BY DEF SlotsFit

\* Every step keeps the relations between slots, tables and platform.
LEMMA NextRelations ==
    ASSUME IInv, [Next]_vars
    PROVE  SlotsFit' /\ Relations'
<1>0. TypeOK /\ SlotsFit /\ OwnersKnow /\ OneOwner /\ ReservedFirst /\ LedgerAgrees
  BY DEF IInv
<1>00. TypeOK'
  BY <1>0, NextType
<1>1. ASSUME NEW s \in Slots, Receive(s)
      PROVE  SlotsFit' /\ Relations'
  <2>1. /\ \A t \in Slots : t # s => slots'[t] = slots[t]
        /\ slots'[s].pc \in {"reading", "preparing", "answered"}
        /\ slots'[s].req.intent.op # "upload"
        /\ UNCHANGED <<receipts, outcomes, applied, effects, calls>>
    BY <1>0, <1>1 DEF Receive, TypeOK, tables, platform
  <2>2. SlotsFit'
    BY <1>0, <2>1 DEF SlotsFit
  <2> QED
    BY <2>1, <2>2, QuietStep
<1>2. ASSUME NEW s \in Slots, slots[s].pc \in {"reading", "preparing"}, NEW checked,
             TryReserve(s, checked), UNCHANGED <<effects, calls>>
      PROVE  SlotsFit' /\ Relations'
  <2>1. slots[s].pc # "idle" /\ slots[s].req.intent.op # "upload"
    BY <1>0, <1>2 DEF SlotsFit
  <2>2. /\ \A t \in Slots : t # s => slots'[t] = slots[t]
        /\ \/ slots'[s].pc = "answered"
           \/ slots'[s].pc = "reserved" /\ slots'[s].req = slots[s].req
    BY <1>0, <1>2, <2>1, BusySlot DEF TryReserve, Answer, Goto, TypeOK
  <2>3. SlotsFit'
    BY <1>0, <1>00, <2>1, <2>2, SlotsStayFit DEF TypeOK
  <2> QED
    BY <1>2, <2>1, <2>3, ReserveStep
<1>3. ASSUME NEW s \in Slots, slots[s].pc # "idle", NEW out, Answer(s, out),
             UNCHANGED <<receipts, applied, effects, calls>>,
             \A k \in Keys : receipts[k] # None => outcomes'[k] = outcomes[k]
      PROVE  SlotsFit' /\ Relations'
  <2>1. /\ \A t \in Slots : t # s => slots'[t] = slots[t]
        /\ slots'[s].pc = "answered"
    BY <1>0, <1>3, BusySlot DEF Answer, TypeOK
  <2>2. SlotsFit'
    BY <1>0, <1>00, <1>3, <2>1, SlotsStayFit DEF TypeOK
  <2> QED
    BY <1>3, <2>1, <2>2, QuietStep
<1>4. ASSUME NEW s \in Slots, StateRead(s)
      PROVE  SlotsFit' /\ Relations'
  <2>1. PICK drifted \in BOOLEAN :
            LET q == slots[s].req
                v == Authorize(q, slots[s].now, drifted)
            IN  \/ v # "OK" /\ Answer(s, v) /\ UNCHANGED tables
                \/ /\ v = "OK" /\ q.intent.op = "child"
                   /\ Goto(s, "preparing") /\ UNCHANGED tables
                \/ v = "OK" /\ q.intent.op = "update" /\ TryReserve(s, slots[s].now)
    BY <1>4 DEF StateRead
  <2>2. slots[s].pc = "reading" /\ UNCHANGED <<effects, calls>>
    BY <1>4 DEF StateRead, At, platform
  <2> DEFINE v == Authorize(slots[s].req, slots[s].now, drifted)
  <2>3. CASE Answer(s, v) /\ UNCHANGED tables
    BY <1>3, <2>2, <2>3 DEF tables
  <2>4. CASE Goto(s, "preparing") /\ UNCHANGED tables
    <3>1. /\ \A t \in Slots : t # s => slots'[t] = slots[t]
          /\ slots'[s].pc = "preparing" /\ slots'[s].req = slots[s].req
      BY <1>0, <2>2, <2>4, BusySlot DEF Goto, TypeOK
    <3>2. SlotsFit'
      BY <1>0, <1>00, <2>2, <3>1, SlotsStayFit DEF TypeOK, SlotsFit
    <3> QED
      BY <2>2, <2>4, <3>1, <3>2, QuietStep DEF tables
  <2>5. CASE TryReserve(s, slots[s].now)
    BY <1>2, <2>2, <2>5
  <2> QED
    BY <2>1, <2>3, <2>4, <2>5
<1>5. ASSUME NEW s \in Slots, StateReadFailed(s) \/ PreparationFailed(s)
      PROVE  SlotsFit' /\ Relations'
  BY <1>3, <1>5 DEF StateReadFailed, PreparationFailed, At, tables, platform
<1>6. ASSUME NEW s \in Slots, Prepared(s)
      PROVE  SlotsFit' /\ Relations'
  BY <1>2, <1>6 DEF Prepared, At, platform
<1>7. ASSUME NEW s \in Slots, RateLimited(s)
      PROVE  SlotsFit' /\ Relations'
  <2>1. /\ \A t \in Slots : t # s => slots'[t] = slots[t]
        /\ slots[s].pc = "reserved" /\ slots'[s].pc = "called" /\ slots'[s].out = "FAILED"
        /\ slots'[s].req = slots[s].req /\ slots'[s].now = slots[s].now
        /\ UNCHANGED <<receipts, outcomes, applied, effects, calls>>
    BY <1>0, <1>7, BusySlot DEF RateLimited, At, TypeOK, tables, platform
  <2>2. SlotsFit'
    BY <1>0, <1>00, <2>1, SlotsStayFit DEF TypeOK, SlotsFit
  <2>3. OwnersKnow'
    <3> SUFFICES ASSUME NEW t \in Slots, Owns(t)'
                 PROVE  OwnerKnows(t)'
      BY DEF OwnersKnow
    <3>1. OwnerKnows(t)
      BY <1>0, <2>1 DEF OwnersKnow, Owns
    <3> QED
      BY <2>1, <3>1 DEF OwnerKnows, At
  <2>4. OneOwner'
    BY <1>0, <2>1 DEF OneOwner, Owns
  <2>5. ReservedFirst' /\ LedgerAgrees'
    BY <1>0, <2>1 DEF ReservedFirst, LedgerAgrees, Promised
  <2> QED
    BY <2>2, <2>3, <2>4, <2>5 DEF Relations
<1>8. ASSUME NEW s \in Slots, CallPlatform(s)
      PROVE  SlotsFit' /\ Relations'
  <2>1. /\ \A t \in Slots : t # s => slots'[t] = slots[t]
        /\ slots[s].pc = "reserved" /\ slots'[s].pc = "called"
        /\ slots'[s].req = slots[s].req
    BY <1>0, <1>8, BusySlot DEF CallPlatform, At, TypeOK
  <2>2. SlotsFit'
    BY <1>0, <1>00, <2>1, SlotsStayFit DEF TypeOK, SlotsFit
  <2> QED
    BY <1>8, <2>2, CallStep
<1>9. ASSUME NEW s \in Slots, Finalize(s)
      PROVE  SlotsFit' /\ Relations'
  <2>1. /\ \A t \in Slots : t # s => slots'[t] = slots[t]
        /\ slots[s].pc # "idle" /\ slots'[s].pc = "answered"
    BY <1>0, <1>9, BusySlot DEF Finalize, Answer, At, TypeOK
  <2>2. SlotsFit'
    BY <1>0, <1>00, <2>1, SlotsStayFit DEF TypeOK
  <2> QED
    BY <1>9, <2>2, RecordStep
<1>10. ASSUME NEW s \in Slots, Deliver(s)
       PROVE  SlotsFit' /\ Relations'
  <2>1. /\ \A t \in Slots : t # s => slots'[t] = slots[t]
        /\ slots'[s].pc = "idle"
        /\ UNCHANGED <<receipts, outcomes, applied, effects, calls>>
    BY <1>0, <1>10 DEF Deliver, Idle, TypeOK, tables, platform
  <2>2. SlotsFit'
    BY <1>0, <2>1 DEF SlotsFit
  <2> QED
    BY <2>1, <2>2, QuietStep
<1>11. ASSUME NEW s \in Slots, ReceiveUpload(s)
       PROVE  SlotsFit' /\ Relations'
  <2>1. /\ \A t \in Slots : t # s => slots'[t] = slots[t]
        /\ slots'[s].pc \in {"answered", "uploading"}
        /\ slots'[s].req.intent.op = "upload"
        /\ UNCHANGED <<receipts, outcomes, applied, effects, calls>>
    BY <1>0, <1>11 DEF ReceiveUpload, TypeOK, tables, platform
  <2>2. SlotsFit'
    BY <1>0, <2>1 DEF SlotsFit
  <2> QED
    BY <2>1, <2>2, QuietStep
<1>12. ASSUME NEW s \in Slots, Upload(s)
       PROVE  SlotsFit' /\ Relations'
  <2>1. /\ slots[s].pc = "uploading"
        /\ UNCHANGED <<receipts, outcomes, applied, effects, calls>>
    BY <1>12 DEF Upload, At, tables
  <2>2. CASE Goto(s, "uploaded")
    <3>1. /\ \A t \in Slots : t # s => slots'[t] = slots[t]
          /\ slots'[s].pc = "uploaded" /\ slots'[s].req = slots[s].req
      BY <1>0, <2>1, <2>2, BusySlot DEF Goto, TypeOK
    <3>2. SlotsFit'
      BY <1>0, <1>00, <2>1, <3>1, SlotsStayFit DEF TypeOK, SlotsFit
    <3> QED
      BY <2>1, <3>1, <3>2, QuietStep
  <2>3. CASE Answer(s, "FAILED")
    BY <1>3, <2>1, <2>3
  <2> QED
    BY <1>12, <2>2, <2>3 DEF Upload
<1>13. ASSUME NEW s \in Slots, RecordUpload(s)
       PROVE  SlotsFit' /\ Relations'
  <2> DEFINE k == slots[s].req.key
  <2>1. /\ slots[s].pc = "uploaded" /\ Answer(s, "SUCCEEDED")
        /\ outcomes' = [outcomes EXCEPT ![k] = IF @ = "none" THEN "SUCCEEDED" ELSE @]
        /\ UNCHANGED <<receipts, applied, effects, calls>>
    BY <1>13 DEF RecordUpload, At, platform
  <2>2. k \in Keys /\ slots[s].req \in Requests /\ slots[s].req.intent.op = "upload"
    BY <1>0, <2>1, BusySlot DEF SlotsFit
  <2>3. receipts[k] = None
    BY <1>0, <2>2, UploadKeysAssumption DEF ReservedFirst
  <2>4. \A j \in Keys : receipts[j] # None => outcomes'[j] = outcomes[j]
    BY <1>0, <2>1, <2>3 DEF TypeOK
  <2> QED
    BY <1>3, <2>1, <2>4
<1>14. CASE Tick \/ UNCHANGED vars
  <2>1. UNCHANGED <<slots, receipts, outcomes, applied, effects, calls>>
    BY <1>14 DEF Tick, vars, tables, platform
  <2>2. SlotsFit'
    BY <1>0, <2>1 DEF SlotsFit
  <2> QED
    BY <2>1, <2>2, QuietStep
<1>15. CASE Crash
  <2>1. /\ \A t \in Slots : slots'[t].pc = "idle"
        /\ UNCHANGED <<receipts, outcomes, applied, effects, calls>>
    BY <1>15 DEF Crash, Idle, tables, platform
  <2>2. SlotsFit'
    BY <2>1 DEF SlotsFit
  <2> QED
    BY <2>1, <2>2, QuietStep
<1> QED
  BY <1>1, <1>4, <1>5, <1>6, <1>7, <1>8, <1>9, <1>10, <1>11, <1>12, <1>13, <1>14,
     <1>15 DEF Next, Step

\* In the initial state nothing is reserved and no slot is busy.
LEMMA InitIInv == Init => IInv
<1> SUFFICES ASSUME Init PROVE IInv
  OBVIOUS
<1>1. TypeOK
  BY InitType
<1>2. SlotsFit /\ OwnersKnow /\ OneOwner
  BY DEF Init, Idle, SlotsFit, OwnersKnow, OneOwner, Owns
<1>3. ReservedFirst /\ LedgerAgrees
  BY DEF Init, ReservedFirst, LedgerAgrees
<1> QED
  BY <1>1, <1>2, <1>3 DEF IInv

\* IInv holds for ever: it is inductive as it stands.
THEOREM Invariance == Spec => []IInv
<1>1. IInv /\ [Next]_vars => IInv'
  <2> SUFFICES ASSUME IInv, [Next]_vars PROVE IInv'
    OBVIOUS
  <2>1. TypeOK' /\ SlotsFit' /\ Relations'
    BY NextType, NextRelations DEF IInv
  <2> QED
    BY <2>1 DEF IInv, Relations
<1> QED
  BY InitIInv, <1>1, PTL DEF Spec

-----------------------------------------------------------------------------
(* The safety invariants, from IInv. *)

\* The variables keep their types: what every other theorem starts from.
THEOREM TypeCorrect == Spec => []TypeOK
<1>1. IInv => TypeOK
  BY DEF IInv
<1> QED
  BY <1>1, Invariance, PTL

\* However a key is retried, the platform is asked once (begin_admitted_write).
THEOREM OneCall == Spec => []AtMostOneCall
<1>1. IInv => AtMostOneCall
  BY DEF IInv, ReservedFirst, AtMostOneCall
<1> QED
  BY <1>1, Invariance, PTL

\* Receipt, outcome and applied change of a key agree, and with the platform
\* (finalize).
THEOREM Agreement == Spec => []LedgerAgrees
<1>1. IInv => LedgerAgrees
  BY DEF IInv
<1> QED
  BY <1>1, Invariance, PTL

\* What the platform changed is counted, as applied or as pending, whatever
\* crash or lost answer fell in between (finalize, pending_totals).
THEOREM Counted == Spec => []EffectsAreCounted
<1>1. ASSUME IInv PROVE EffectsAreCounted
  <2> SUFFICES ASSUME NEW k \in Keys, effects[k] # None
               PROVE  \/ applied[k] = effects[k]
                      \/ /\ receipts[k] # None /\ receipts[k].pending
                         /\ receipts[k].intent.account = effects[k].account
                         /\ receipts[k].day = effects[k].day
                         /\ receipts[k].delta >= effects[k].delta
    BY DEF EffectsAreCounted
  <2>1. receipts[k] # None
    BY <1>1 DEF IInv, ReservedFirst
  <2>2. /\ effects[k] = Promised(receipts[k])
        /\ receipts[k].delta >= Promised(receipts[k]).delta
    BY <1>1, <2>1 DEF IInv, ReservedFirst
  <2>3. CASE receipts[k].pending
    BY <2>1, <2>2, <2>3 DEF Promised
  <2>4. CASE ~receipts[k].pending
    BY <1>1, <2>1, <2>4 DEF IInv, LedgerAgrees
  <2> QED
    BY <2>3, <2>4
<1> QED
  BY <1>1, Invariance, PTL

-----------------------------------------------------------------------------
(* What one step may do to the tables and to the platform. *)

\* No reservation, change or verdict is touched, except an outcome nobody had.
Quiet ==
    /\ UNCHANGED <<receipts, applied, effects, calls>>
    /\ \A k \in Keys : outcomes[k] # "none" => outcomes'[k] = outcomes[k]

\* The reservation of a free key.
Reserves(k) ==
    /\ receipts[k] = None
    /\ \E row \in ReceiptRow :
           row.outcome = "none" /\ receipts' = [receipts EXCEPT ![k] = row]
    /\ UNCHANGED <<outcomes, applied, effects, calls>>

\* The call for a reserved key nothing was asked for yet.
Calls(k) ==
    /\ receipts[k] # None /\ receipts[k].outcome = "none" /\ calls[k] = 0
    /\ calls' = [calls EXCEPT ![k] = 1]
    /\ \E change \in ChangeRow : effects' \in {effects, [effects EXCEPT ![k] = change]}
    /\ effects[k] = None
    /\ UNCHANGED <<receipts, outcomes, applied>>

\* The first verdict of a reserved key, and one the facts bear out.
Settles(k, out) ==
    /\ receipts[k] # None /\ receipts[k].outcome = "none" /\ receipts[k].pending
    /\ outcomes[k] = "none" /\ applied[k] = None
    /\ out = "SUCCEEDED" => effects[k] # None
    /\ out = "FAILED" => calls[k] = 0
    /\ out = "UNKNOWN" => calls[k] = 1
    /\ receipts' = [receipts EXCEPT ![k] = Settled(receipts[k], out)]
    /\ \A j \in Keys : j # k => outcomes'[j] = outcomes[j] /\ applied'[j] = applied[j]
    /\ UNCHANGED <<effects, calls>>

\* There is no other step.
LEMMA StepKinds ==
    ASSUME IInv, [Next]_vars
    PROVE  \/ Quiet
           \/ \E k \in Keys : Reserves(k) \/ Calls(k) \/ \E out \in Recorded : Settles(k, out)
<1>0. TypeOK /\ OwnersKnow /\ ReservedFirst /\ LedgerAgrees
  BY DEF IInv
<1>1. ASSUME NEW s \in Slots, slots[s].pc # "idle", NEW checked, TryReserve(s, checked),
             UNCHANGED <<effects, calls>>
      PROVE  Quiet \/ \E k \in Keys : Reserves(k)
  <2> DEFINE q == slots[s].req
             v == ReserveVerdict(q, slots[s].now, checked)
  <2>1. q \in Requests /\ q.key \in Keys /\ slots[s].now \in Nat
    BY <1>0, <1>1, BusySlot
  <2>2. CASE v # "OK"
    BY <1>1, <2>2 DEF TryReserve, Quiet, tables
  <2>3. CASE v = "OK"
    <3>1. receipts[q.key] = None
      BY <1>0, <2>1, <2>3, VerdictType
    <3>2. NewReceipt(q, slots[s].now) \in ReceiptRow
          /\ NewReceipt(q, slots[s].now).outcome = "none"
      BY <2>1, NewReceiptType DEF NewReceipt
    <3>3. receipts' = [receipts EXCEPT ![q.key] = NewReceipt(q, slots[s].now)]
          /\ UNCHANGED <<outcomes, applied>>
      BY <1>1, <2>3 DEF TryReserve
    <3> QED
      BY <1>1, <2>1, <3>1, <3>2, <3>3 DEF Reserves
  <2> QED
    BY <2>2, <2>3
<1>2. ASSUME NEW s \in Slots, StateRead(s) \/ Prepared(s)
      PROVE  Quiet \/ \E k \in Keys : Reserves(k)
  <2>1. slots[s].pc # "idle" /\ UNCHANGED <<effects, calls>>
    BY <1>2 DEF StateRead, Prepared, At, platform
  <2>2. UNCHANGED tables \/ \E checked \in {slots[s].now, clock} : TryReserve(s, checked)
    BY <1>2 DEF StateRead, Prepared
  <2>3. CASE UNCHANGED tables
    BY <2>1, <2>3 DEF Quiet, tables
  <2>4. CASE \E checked \in {slots[s].now, clock} : TryReserve(s, checked)
    BY <1>1, <2>1, <2>4
  <2> QED
    BY <2>2, <2>3, <2>4
<1>3. ASSUME NEW s \in Slots, CallPlatform(s)
      PROVE  \E k \in Keys : Calls(k)
  <2> DEFINE k == slots[s].req.key
             change == Change(slots[s].req.intent, slots[s].now)
  <2>1. slots[s].pc = "reserved" /\ k \in Keys /\ change \in ChangeRow
    BY <1>0, <1>3, BusySlot, ChangeType DEF CallPlatform, At
  <2>2. OwnerKnows(s)
    BY <1>0, <2>1 DEF OwnersKnow, Owns
  <2>3. /\ receipts[k] # None /\ receipts[k].outcome = "none" /\ calls[k] = 0
        /\ effects[k] = None
    BY <1>0, <2>1, <2>2 DEF OwnerKnows, At, ReservedFirst
  <2>4. /\ calls' = [calls EXCEPT ![k] = calls[k] + 1]
        /\ effects' \in {effects, [effects EXCEPT ![k] = change]}
        /\ UNCHANGED <<receipts, outcomes, applied>>
    BY <1>3 DEF CallPlatform, tables
  <2> HIDE DEF change
  <2>5. Calls(k)
    BY <2>1, <2>3, <2>4 DEF Calls
  <2> QED
    BY <2>1, <2>5
<1>4. ASSUME NEW s \in Slots, Finalize(s)
      PROVE  \E k \in Keys : \E out \in Recorded : Settles(k, out)
  <2> DEFINE k == slots[s].req.key
             out == slots[s].out
  <2>1. slots[s].pc = "called" /\ k \in Keys
    BY <1>0, <1>4, BusySlot DEF Finalize, At
  <2>2. OwnerKnows(s)
    BY <1>0, <2>1 DEF OwnersKnow, Owns
  <2>3. /\ receipts[k] # None /\ receipts[k].outcome = "none"
        /\ out \in Recorded
        /\ out = "SUCCEEDED" => effects[k] # None
        /\ out = "FAILED" => calls[k] = 0
        /\ out = "UNKNOWN" => calls[k] = 1
    BY <2>1, <2>2 DEF OwnerKnows, At, Recorded
  <2>4. /\ receipts[k].pending /\ outcomes[k] = "none" /\ applied[k] = None
        /\ receipts' = [receipts EXCEPT ![k] = Settled(receipts[k], out)]
    BY <1>4, RecordStep
  <2>5. /\ \A j \in Keys : j # k => outcomes'[j] = outcomes[j] /\ applied'[j] = applied[j]
        /\ UNCHANGED <<effects, calls>>
    BY <1>0, <1>4 DEF Finalize, TypeOK, platform
  <2>6. Settles(k, out)
    BY <2>3, <2>4, <2>5 DEF Settles
  <2> QED
    BY <2>1, <2>3, <2>6
<1>5. ASSUME NEW s \in Slots, RecordUpload(s)
      PROVE  Quiet
  <2>1. slots[s].req.key \in Keys
    BY <1>0, <1>5, BusySlot DEF RecordUpload, At
  <2> QED
    BY <1>0, <1>5, <2>1 DEF RecordUpload, Quiet, TypeOK, platform
<1>6. ASSUME NEW s \in Slots,
             \/ Receive(s) \/ StateReadFailed(s) \/ PreparationFailed(s) \/ RateLimited(s)
             \/ Deliver(s) \/ ReceiveUpload(s) \/ Upload(s)
      PROVE  Quiet
  BY <1>6 DEF Receive, StateReadFailed, PreparationFailed, RateLimited, Deliver,
              ReceiveUpload, Upload, Quiet, tables, platform
<1>7. CASE Tick \/ Crash \/ UNCHANGED vars
  BY <1>7 DEF Tick, Crash, vars, Quiet, tables, platform
<1> QED
  BY <1>2, <1>3, <1>4, <1>5, <1>6, <1>7 DEF Next, Step

\* What is recorded stays: no step rewrites an outcome, an applied change or
\* the identity of a reservation (record_outcome_if_absent, begin_receipt).
THEOREM History == Spec => HistoryIsKept
<1> DEFINE Kept ==
        \A k \in Keys :
            /\ outcomes[k] # "none" => outcomes'[k] = outcomes[k]
            /\ applied[k] # None => applied'[k] = applied[k]
            /\ receipts[k] # None =>
                   /\ receipts'[k] # None
                   /\ [receipts'[k] EXCEPT !.outcome = "none", !.pending = TRUE]
                        = [receipts[k] EXCEPT !.outcome = "none", !.pending = TRUE]
                   /\ receipts'[k].pending => receipts[k].pending
<1>1. ASSUME IInv, [Next]_vars
      PROVE  Kept
  <2>0. TypeOK
    BY <1>1 DEF IInv
  <2>1. CASE Quiet
    BY <2>1 DEF Quiet
  <2>2. ASSUME NEW k \in Keys, Reserves(k)
        PROVE  Kept
    BY <2>0, <2>2 DEF Reserves, TypeOK
  <2>3. ASSUME NEW k \in Keys, Calls(k)
        PROVE  Kept
    BY <2>3 DEF Calls
  <2>4. ASSUME NEW k \in Keys, NEW out \in Recorded, Settles(k, out)
        PROVE  Kept
    <3> DEFINE row == Settled(receipts[k], out)
    <3>1. /\ receipts'[k] = row
          /\ \A j \in Keys : j # k => receipts'[j] = receipts[j]
      BY <2>0, <2>4 DEF Settles, TypeOK
    <3>2. receipts[k] \in ReceiptRow /\ row \in ReceiptRow
      <4>1. receipts[k] \in ReceiptRow
        BY <2>0, <2>4 DEF Settles, TypeOK
      <4> QED
        BY <4>1 DEF Settled, ReceiptRow
    <3>3. /\ row # None
          /\ [row EXCEPT !.outcome = "none", !.pending = TRUE]
               = [receipts[k] EXCEPT !.outcome = "none", !.pending = TRUE]
      BY <3>2, RowIsNotNone DEF Settled, ReceiptRow
    <3> HIDE DEF row
    <3> QED
      BY <2>4, <3>1, <3>3 DEF Settles
  <2> HIDE DEF Kept
  <2> QED
    BY <1>1, <2>1, <2>2, <2>3, <2>4, StepKinds
<1>2. IInv /\ [Next]_vars => [Kept]_vars
  BY <1>1
<1>3. [][Kept]_vars => HistoryIsKept
  BY DEF HistoryIsKept
<1> HIDE DEF Kept
<1> QED
  BY <1>2, <1>3, Invariance, PTL DEF Spec

\* A verdict stays, and so does what a reservation is for; it may be settled.
LEMMA RowsStay ==
    ASSUME IInv, [Next]_vars, NEW k \in Keys
    PROVE  /\ outcomes[k] # "none" => outcomes'[k] = outcomes[k]
           /\ receipts[k] # None => /\ receipts'[k] # None
                                    /\ receipts'[k].intent = receipts[k].intent
                                    /\ receipts'[k].day = receipts[k].day
                                    /\ receipts'[k].pending => receipts[k].pending
<1>0. TypeOK
  BY DEF IInv
<1>1. CASE Quiet
  BY <1>1 DEF Quiet
<1>2. ASSUME NEW j \in Keys, Reserves(j) \/ Calls(j)
      PROVE  /\ outcomes[k] # "none" => outcomes'[k] = outcomes[k]
             /\ receipts[k] # None => receipts'[k] = receipts[k]
  BY <1>0, <1>2 DEF Reserves, Calls, TypeOK
<1>3. ASSUME NEW j \in Keys, NEW out \in Recorded, Settles(j, out)
      PROVE  /\ outcomes[k] # "none" => outcomes'[k] = outcomes[k]
             /\ receipts[k] # None => /\ receipts'[k] # None
                                      /\ receipts'[k].intent = receipts[k].intent
                                      /\ receipts'[k].day = receipts[k].day
                                      /\ receipts'[k].pending => receipts[k].pending
  <2>1. receipts[j] \in ReceiptRow /\ receipts[j].pending
    BY <1>0, <1>3 DEF Settles, TypeOK
  <2>2. /\ Settled(receipts[j], out) \in ReceiptRow
        /\ Settled(receipts[j], out).intent = receipts[j].intent
        /\ Settled(receipts[j], out).day = receipts[j].day
    BY <2>1 DEF Settled, ReceiptRow
  <2>3. receipts'[k] = IF k = j THEN Settled(receipts[j], out) ELSE receipts[k]
    BY <1>0, <1>3 DEF Settles, TypeOK
  <2> QED
    BY <1>3, <2>1, <2>2, <2>3, RowIsNotNone DEF Settles
<1> QED
  BY <1>1, <1>2, <1>3, StepKinds

-----------------------------------------------------------------------------
(* Parents before children.                                                 *)

\* The insert that request q makes: verified, parent included, and within the
\* caps of the day it is dated.
ReservedFor(q, now) ==
    /\ receipts' = [receipts EXCEPT ![q.key] = NewReceipt(q, now)]
    /\ WithinCaps(q, Day(now))
    /\ q.intent.op \in {"campaign", "child"} => q.intent.before = Unreadable
    /\ q.intent.parent # None => CreatedResource(q.intent.parent)

\* Nothing is reserved but by a slot, and what was verified and let through by
\* the caps.
LEMMA ReservedIsVerified ==
    ASSUME IInv, [Next]_vars, NEW k \in Keys, receipts[k] = None, receipts'[k] # None
    PROVE  \E q \in Requests, now \in Nat :
               /\ ReservedFor(q, now) /\ q.key = k
               /\ \E s \in Slots : slots[s].pc # "idle" /\ slots[s].req = q
<1>0. TypeOK /\ OwnersKnow
  BY DEF IInv
<1>1. ASSUME NEW s \in Slots, slots[s].pc # "idle", NEW checked, TryReserve(s, checked)
      PROVE  \E q \in Requests, now \in Nat :
                 /\ ReservedFor(q, now) /\ q.key = k
                 /\ \E t \in Slots : slots[t].pc # "idle" /\ slots[t].req = q
  <2> DEFINE q == slots[s].req
             now == slots[s].now
             v == ReserveVerdict(q, now, checked)
  <2>1. q \in Requests /\ q.key \in Keys /\ now \in Nat
    BY <1>0, <1>1, BusySlot
  <2>2. v = "OK"
    BY <1>1 DEF TryReserve, tables
  <2>3. receipts' = [receipts EXCEPT ![q.key] = NewReceipt(q, now)]
    BY <1>1, <2>2 DEF TryReserve
  <2>4. q.key = k
    BY <1>0, <2>1, <2>3 DEF TypeOK
  <2>5. Verified(q, checked) /\ WithinCaps(q, Day(now))
    <3>1. GetOutcome(q.key) \in Recorded \union {"none"}
      BY <1>0, <2>1 DEF GetOutcome, TypeOK, Recorded
    <3> QED
      BY <2>2, <3>1 DEF ReserveVerdict, Recorded
  <2>6. ReservedFor(q, now)
    BY <2>3, <2>5 DEF ReservedFor, Verified
  <2> QED
    BY <1>1, <2>1, <2>4, <2>6
<1>2. ASSUME NEW s \in Slots, StateRead(s) \/ Prepared(s)
      PROVE  slots[s].pc # "idle" /\ \E checked \in {slots[s].now, clock} : TryReserve(s, checked)
  BY <1>2 DEF StateRead, Prepared, At, tables
<1>3. ASSUME NEW s \in Slots, Finalize(s)
      PROVE  FALSE
  <2>1. slots[s].pc = "called" /\ slots[s].req.key \in Keys
    BY <1>0, <1>3, BusySlot DEF Finalize, At
  <2>2. receipts[slots[s].req.key] # None
    BY <1>0, <2>1 DEF OwnersKnow, Owns, OwnerKnows
  <2>3. receipts'[k] = receipts[k]
    BY <1>0, <1>3, <2>1, <2>2 DEF Finalize, TypeOK
  <2> QED
    BY <2>3
<1>4. ASSUME NEW s \in Slots,
             \/ Receive(s) \/ StateReadFailed(s) \/ PreparationFailed(s) \/ RateLimited(s)
             \/ CallPlatform(s) \/ Deliver(s) \/ ReceiveUpload(s) \/ Upload(s) \/ RecordUpload(s)
      PROVE  FALSE
  BY <1>4 DEF Receive, StateReadFailed, PreparationFailed, RateLimited, CallPlatform, Deliver,
              ReceiveUpload, Upload, RecordUpload, tables
<1>5. ~(Tick \/ Crash \/ UNCHANGED vars)
  BY DEF Tick, Crash, vars, tables
<1> QED
  BY <1>1, <1>2, <1>3, <1>4, <1>5 DEF Next, Step

\* A verdict without a reservation is that of an upload.
LEMMA VerdictsHaveRequests ==
    ASSUME IInv, [Next]_vars, NEW k \in Keys, outcomes[k] = "none", outcomes'[k] # "none"
    PROVE  receipts[k] # None \/ \E q \in Requests : q.key = k /\ q.intent.op = "upload"
<1>0. TypeOK /\ OwnersKnow /\ SlotsFit
  BY DEF IInv
<1>1. ASSUME NEW s \in Slots, Finalize(s)
      PROVE  receipts[k] # None
  <2>1. slots[s].pc = "called" /\ slots[s].req.key \in Keys
    BY <1>0, <1>1, BusySlot DEF Finalize, At
  <2>2. receipts[slots[s].req.key] # None
    BY <1>0, <2>1 DEF OwnersKnow, Owns, OwnerKnows
  <2>3. k = slots[s].req.key
    BY <1>0, <1>1, <2>1 DEF Finalize, TypeOK
  <2> QED
    BY <2>2, <2>3
<1>2. ASSUME NEW s \in Slots, RecordUpload(s)
      PROVE  \E q \in Requests : q.key = k /\ q.intent.op = "upload"
  <2>1. slots[s].pc = "uploaded" /\ slots[s].req \in Requests /\ slots[s].req.key \in Keys
    BY <1>0, <1>2, BusySlot DEF RecordUpload, At
  <2>2. slots[s].req.intent.op = "upload"
    BY <1>0, <2>1 DEF SlotsFit
  <2>3. k = slots[s].req.key
    BY <1>0, <1>2, <2>1 DEF RecordUpload, TypeOK
  <2> QED
    BY <2>1, <2>2, <2>3
<1>3. ASSUME NEW s \in Slots,
             \/ Receive(s) \/ StateRead(s) \/ StateReadFailed(s) \/ Prepared(s)
             \/ PreparationFailed(s) \/ RateLimited(s) \/ CallPlatform(s) \/ Deliver(s)
             \/ ReceiveUpload(s) \/ Upload(s)
      PROVE  FALSE
  BY <1>3 DEF Receive, StateRead, StateReadFailed, Prepared, PreparationFailed, RateLimited,
              CallPlatform, Deliver, ReceiveUpload, Upload, TryReserve, tables
<1>4. ~(Tick \/ Crash \/ UNCHANGED vars)
  BY DEF Tick, Crash, vars, tables
<1> QED
  BY <1>1, <1>2, <1>3, <1>4 DEF Next, Step

\* What is reserved was asked for by a request whose parent exists, and a verdict
\* without a reservation belongs to an upload.
ParentInv ==
    \A k \in Keys :
        /\ receipts[k] = None /\ outcomes[k] # "none" =>
               \E q \in Requests : q.key = k /\ q.intent.op = "upload"
        /\ receipts[k] # None =>
               \E q \in Requests :
                   /\ receipts[k].intent = q.intent
                   /\ q.intent.parent # None => outcomes[q.intent.parent] = "SUCCEEDED"

\* A child of a package is only asked for once its parent is known to exist on
\* the platform, whatever crash or retry fell in between (_verify_parent).
THEOREM ParentsFirst == Spec => []ParentFirst
<1>1. Init => ParentInv
  BY DEF Init, ParentInv
<1>2. ASSUME IInv, ParentInv, [Next]_vars
      PROVE  ParentInv'
  <2>0. TypeOK
    BY <1>2 DEF IInv
  <2>1. ASSUME NEW k \in Keys
        PROVE  /\ outcomes[k] # "none" => outcomes'[k] = outcomes[k]
               /\ receipts[k] # None => receipts'[k] # None
                                        /\ receipts'[k].intent = receipts[k].intent
    BY <1>2, RowsStay
  <2>2. ASSUME NEW q \in Requests, q.intent.parent # None,
               outcomes[q.intent.parent] = "SUCCEEDED"
        PROVE  outcomes'[q.intent.parent] = "SUCCEEDED"
    BY <2>1, <2>2, RequestType DEF Intents
  <2> SUFFICES ASSUME NEW k \in Keys
               PROVE  /\ receipts'[k] = None /\ outcomes'[k] # "none" =>
                             \E q \in Requests : q.key = k /\ q.intent.op = "upload"
                      /\ receipts'[k] # None =>
                             \E q \in Requests :
                                 /\ receipts'[k].intent = q.intent
                                 /\ q.intent.parent # None =>
                                        outcomes'[q.intent.parent] = "SUCCEEDED"
    BY DEF ParentInv
  <2>3. CASE receipts[k] # None
    <3>1. PICK q \in Requests :
              /\ receipts[k].intent = q.intent
              /\ q.intent.parent # None => outcomes[q.intent.parent] = "SUCCEEDED"
      BY <1>2, <2>3 DEF ParentInv
    <3> QED
      BY <2>1, <2>2, <2>3, <3>1
  <2>4. CASE receipts[k] = None /\ receipts'[k] # None
    <3>1. PICK q \in Requests :
              /\ receipts'[k].intent = q.intent
              /\ q.intent.parent # None => CreatedResource(q.intent.parent)
      <4>1. PICK q \in Requests, now \in Nat : ReservedFor(q, now) /\ q.key = k
        BY <1>2, <2>4, ReservedIsVerified
      <4>2. receipts'[k] = NewReceipt(q, now)
        BY <2>0, <4>1 DEF ReservedFor, TypeOK
      <4> QED
        BY <4>1, <4>2 DEF ReservedFor, NewReceipt
    <3> QED
      BY <2>2, <2>4, <3>1 DEF CreatedResource
  <2>5. CASE receipts[k] = None /\ receipts'[k] = None
    <3>1. CASE outcomes[k] = "none" /\ outcomes'[k] # "none"
      BY <1>2, <2>5, <3>1, VerdictsHaveRequests
    <3>2. CASE outcomes[k] # "none"
      BY <1>2, <2>5, <3>2 DEF ParentInv
    <3> QED
      BY <2>5, <3>1, <3>2
  <2> QED
    BY <2>3, <2>4, <2>5
<1>3. ASSUME IInv, ParentInv
      PROVE  ParentFirst
  <2> SUFFICES ASSUME NEW k \in Keys, calls[k] > 0, receipts[k].intent.parent # None
               PROVE  /\ outcomes[receipts[k].intent.parent] = "SUCCEEDED"
                      /\ effects[receipts[k].intent.parent] # None
    BY DEF ParentFirst
  <2>1. receipts[k] # None
    BY <1>3 DEF IInv, ReservedFirst
  <2>2. PICK q \in Requests : receipts[k].intent = q.intent
                              /\ outcomes[q.intent.parent] = "SUCCEEDED"
    BY <1>3, <2>1 DEF ParentInv
  <2> DEFINE parent == q.intent.parent
  <2>3. parent \in Keys
    BY <2>2, RequestType DEF Intents
  <2>4. receipts[parent] # None
    BY <1>3, <2>2, <2>3, ParentsAssumption DEF ParentInv
  <2> QED
    BY <1>3, <2>2, <2>3, <2>4 DEF IInv, LedgerAgrees
<1> QED
  BY <1>1, <1>2, <1>3, Invariance, PTL DEF Spec

-----------------------------------------------------------------------------
(* What a rejection means for keys that are not sent twice.                 *)

\* Where a slot is afterwards that moved or answered.
LEMMA SlotWent ==
    ASSUME TypeOK, NEW s \in Slots, slots[s].pc # "idle", NEW pc, NEW out
    PROVE  /\ Goto(s, pc) =>
                  /\ \A t \in Slots : t # s => slots'[t] = slots[t]
                  /\ slots'[s].req = slots[s].req /\ slots'[s].pc = pc
           /\ Answer(s, out) =>
                  /\ \A t \in Slots : t # s => slots'[t] = slots[t]
                  /\ slots'[s].req = slots[s].req /\ slots'[s].pc = "answered"
                  /\ slots'[s].out = out
BY BusySlot DEF Goto, Answer, TypeOK

\* Every step that takes no request.
Works(s) ==
    \/ StateRead(s) \/ StateReadFailed(s) \/ Prepared(s) \/ PreparationFailed(s)
    \/ RateLimited(s) \/ CallPlatform(s) \/ Finalize(s) \/ Deliver(s)
    \/ Upload(s) \/ RecordUpload(s)
TakesNothing == (\E s \in Slots : Works(s)) \/ Tick \/ Crash \/ UNCHANGED vars

\* A busy slot has the request it took,
LEMMA RequestsAreKept ==
    ASSUME TypeOK, TakesNothing, NEW s \in Slots, slots'[s].pc # "idle"
    PROVE  slots[s].pc # "idle" /\ slots'[s].req = slots[s].req
<1> DEFINE Kept == slots[s].pc # "idle" /\ slots'[s].req = slots[s].req
<1>1. ASSUME NEW t \in Slots, slots[t].pc # "idle",
             \E pc, out : Goto(t, pc) \/ Answer(t, out)
      PROVE  Kept
  BY <1>1, SlotWent
<1>2. ASSUME NEW t \in Slots, StateRead(t) \/ Prepared(t) \/ Upload(t)
      PROVE  Kept
  <2>1. slots[t].pc # "idle"
    BY <1>2 DEF StateRead, Prepared, Upload, At
  <2>2. ASSUME NEW checked, TryReserve(t, checked)
        PROVE  Goto(t, "reserved") \/ \E out : Answer(t, out)
    BY <2>2 DEF TryReserve
  <2>3. CASE StateRead(t)
    <3>1. \/ TryReserve(t, slots[t].now)
          \/ Goto(t, "preparing")
          \/ \E out : Answer(t, out)
      BY <2>3 DEF StateRead
    <3> QED
      BY <1>1, <2>1, <2>2, <3>1
  <2>4. CASE Prepared(t)
    <3>1. \E checked : TryReserve(t, checked)
      BY <2>4 DEF Prepared
    <3> QED
      BY <1>1, <2>1, <2>2, <3>1
  <2>5. CASE Upload(t)
    <3>1. CASE Goto(t, "uploaded")
      BY <1>1, <2>1, <3>1
    <3>2. CASE Answer(t, "FAILED")
      BY <1>1, <2>1, <3>2
    <3> QED
      BY <2>5, <3>1, <3>2 DEF Upload
  <2> QED
    BY <1>2, <2>3, <2>4, <2>5
<1>3. ASSUME NEW t \in Slots,
             StateReadFailed(t) \/ PreparationFailed(t) \/ Finalize(t) \/ RecordUpload(t)
      PROVE  Kept
  <2>1. slots[t].pc # "idle" /\ \E out : Answer(t, out)
    BY <1>3 DEF StateReadFailed, PreparationFailed, Finalize, RecordUpload, At
  <2> QED
    BY <1>1, <2>1
<1>4. ASSUME NEW t \in Slots, RateLimited(t) \/ CallPlatform(t)
      PROVE  Kept
  <2>1. /\ slots[t].pc = "reserved"
        /\ \E out : slots' = [slots EXCEPT ![t].pc = "called", ![t].out = out]
    BY <1>4 DEF RateLimited, CallPlatform, At
  <2> QED
    BY <2>1, BusySlot DEF TypeOK
<1>5. ASSUME NEW t \in Slots, Deliver(t)
      PROVE  Kept
  BY <1>5 DEF Deliver, Idle, TypeOK
<1>6. CASE Crash
  BY <1>6 DEF Crash, Idle
<1>7. CASE Tick \/ UNCHANGED vars
  BY <1>7 DEF Tick, vars
<1> QED
  BY <1>2, <1>3, <1>4, <1>5, <1>6, <1>7 DEF TakesNothing, Works

\* and takes one only when it is idle.
LEMMA TakenOrKept ==
    ASSUME TypeOK, [Next]_vars, NEW s \in Slots, slots'[s].pc # "idle"
    PROVE  \/ slots[s].pc # "idle" /\ slots'[s].req = slots[s].req
           \/ slots[s].pc = "idle" /\ (Receive(s) \/ ReceiveUpload(s))
<1>1. CASE TakesNothing
  BY <1>1, RequestsAreKept
<1>2. ASSUME NEW t \in Slots, Receive(t) \/ ReceiveUpload(t)
      PROVE  slots[t].pc = "idle" /\ (t # s => slots'[s] = slots[s])
  <2>1. CASE Receive(t)
    BY <2>1 DEF Receive, At, TypeOK
  <2>2. CASE ReceiveUpload(t)
    BY <2>2 DEF ReceiveUpload, At, TypeOK
  <2> QED
    BY <1>2, <2>1, <2>2
<1>3. TakesNothing \/ \E t \in Slots : Receive(t) \/ ReceiveUpload(t)
  BY DEF TakesNothing, Works, Next, Step
<1> QED
  BY <1>1, <1>2, <1>3

\* Of these keys, each is handled by one slot; one that was not sent, is still
\* being checked or was rejected has no reservation.
OnceInv(ks) ==
    /\ \A s \in Slots : slots[s].pc # "idle" /\ slots[s].req.key \in ks =>
           slots[s].req.key \in sent
    /\ \A s, t \in Slots :
           /\ slots[s].pc # "idle" /\ slots[t].pc # "idle" /\ s # t
           /\ slots[s].req.key \in ks
           => slots[s].req.key # slots[t].req.key
    /\ \A k \in ks : k \notin sent => receipts[k] = None
    /\ \A s \in Slots :
           /\ slots[s].pc # "idle" /\ slots[s].req.key \in ks
           /\ \/ slots[s].pc \in {"reading", "preparing"}
              \/ slots[s].pc = "answered" /\ slots[s].out \in Rejections
           => receipts[slots[s].req.key] = None

\* A slot that takes a request of one of these keys is the first to do so.
TakenOnce(ks) ==
    \A s \in Slots :
        slots[s].pc = "idle" /\ slots'[s].pc # "idle" /\ slots'[s].req.key \in ks =>
            slots'[s].req.key \notin sent

\* A busy slot goes on with its request, and no other key is reserved.
LEMMA OnceGoesOn ==
    ASSUME NEW ks \in SUBSET Keys, TypeOK, OnceInv(ks),
           NEW s \in Slots, slots[s].pc # "idle", UNCHANGED sent,
           \A t \in Slots : t # s => slots'[t] = slots[t],
           slots'[s].req = slots[s].req,
           \A k \in Keys : k # slots[s].req.key => receipts'[k] = receipts[k],
           /\ slots[s].req.key \in ks
           /\ \/ slots'[s].pc \in {"reading", "preparing"}
              \/ slots'[s].pc = "answered" /\ slots'[s].out \in Rejections
           => receipts'[slots[s].req.key] = None
    PROVE  OnceInv(ks)'
<1>1. slots[s].req.key \in Keys /\ (slots[s].req.key \in ks => slots[s].req.key \in sent)
  BY BusySlot DEF OnceInv
<1>2. \A t \in Slots : slots[t].pc # "idle" => slots[t].req.key \in Keys
  BY BusySlot
<1> QED
  BY <1>1, <1>2 DEF OnceInv

\* A slot takes a request, of one of these keys for the first time.
LEMMA OnceReceives ==
    ASSUME NEW ks \in SUBSET Keys, TypeOK, OnceInv(ks),
           NEW s \in Slots, NEW q \in Requests, q.key \in ks => q.key \notin sent,
           sent' = sent \union {q.key}, UNCHANGED receipts,
           \A t \in Slots : t # s => slots'[t] = slots[t],
           slots'[s].req = q
    PROVE  OnceInv(ks)'
<1>1. q.key \in Keys /\ (q.key \in ks => receipts[q.key] = None)
  BY RequestType DEF OnceInv
<1> QED
  BY <1>1 DEF OnceInv

\* Every step keeps one slot for each of these keys, if it takes none twice.
LEMMA OnceStep ==
    ASSUME NEW ks \in SUBSET Keys, IInv, OnceInv(ks), TakenOnce(ks), [Next]_vars
    PROVE  OnceInv(ks)'
<1>0. TypeOK /\ OwnersKnow /\ LedgerAgrees /\ Recorded \intersect Rejections = {}
  BY DEF IInv, Recorded, Rejections
<1>1. ASSUME NEW s \in Slots, Receive(s) \/ ReceiveUpload(s)
      PROVE  OnceInv(ks)'
  <2>1. PICK q \in Requests :
            /\ sent' = sent \union {q.key} /\ UNCHANGED receipts
            /\ \A t \in Slots : t # s => slots'[t] = slots[t]
            /\ slots[s].pc = "idle" /\ slots'[s].pc # "idle" /\ slots'[s].req = q
    <3>1. CASE Receive(s)
      BY <1>0, <3>1 DEF Receive, At, TypeOK, tables
    <3>2. CASE ReceiveUpload(s)
      BY <1>0, <3>2 DEF ReceiveUpload, At, TypeOK, tables
    <3> QED
      BY <1>1, <3>1, <3>2
  <2>2. q.key \in ks => q.key \notin sent
    BY <2>1 DEF TakenOnce
  <2> QED
    BY <1>0, <2>1, <2>2, OnceReceives
<1>2. ASSUME NEW s \in Slots, slots[s].pc # "idle", NEW out, Answer(s, out),
             UNCHANGED <<receipts, sent>>,
             slots[s].pc \in {"reading", "preparing"} \/ out \notin Rejections
      PROVE  OnceInv(ks)'
  <2>1. /\ \A t \in Slots : t # s => slots'[t] = slots[t]
        /\ slots'[s].req = slots[s].req /\ slots'[s].pc = "answered" /\ slots'[s].out = out
    BY <1>0, <1>2, SlotWent
  <2>2. /\ slots[s].pc \in {"reading", "preparing"} /\ slots[s].req.key \in ks
        => receipts[slots[s].req.key] = None
    BY DEF OnceInv
  <2> QED
    BY <1>0, <1>2, <2>1, <2>2, OnceGoesOn
<1>3. ASSUME NEW s \in Slots, slots[s].pc \in {"reading", "preparing"}, Goto(s, "preparing"),
             UNCHANGED <<receipts, sent>>
      PROVE  OnceInv(ks)'
  <2>1. /\ \A t \in Slots : t # s => slots'[t] = slots[t]
        /\ slots'[s].req = slots[s].req /\ slots'[s].pc = "preparing"
    BY <1>0, <1>3, SlotWent
  <2>2. slots[s].req.key \in ks => receipts[slots[s].req.key] = None
    BY <1>3 DEF OnceInv
  <2> QED
    BY <1>0, <1>3, <2>1, <2>2, OnceGoesOn
<1>4. ASSUME NEW s \in Slots, slots[s].pc \in {"reading", "preparing"}, NEW checked,
             TryReserve(s, checked), UNCHANGED sent
      PROVE  OnceInv(ks)'
  <2> DEFINE q == slots[s].req
             v == ReserveVerdict(q, slots[s].now, checked)
  <2>1. CASE v = "OK"
    <3>1. receipts' = [receipts EXCEPT ![q.key] = NewReceipt(q, slots[s].now)]
          /\ Goto(s, "reserved")
      BY <1>4, <2>1 DEF TryReserve
    <3>2. \A k \in Keys : k # q.key => receipts'[k] = receipts[k]
      BY <1>0, <3>1 DEF TypeOK
    <3>3. /\ \A t \in Slots : t # s => slots'[t] = slots[t]
          /\ slots'[s].req = slots[s].req /\ slots'[s].pc = "reserved"
      BY <1>0, <1>4, <3>1, SlotWent
    <3> QED
      BY <1>0, <1>4, <3>2, <3>3, OnceGoesOn
  <2>2. CASE v # "OK"
    <3>1. Answer(s, v) /\ UNCHANGED <<receipts, sent>>
      BY <1>4, <2>2 DEF TryReserve, tables
    <3> QED
      BY <1>2, <1>4, <3>1
  <2> QED
    BY <2>1, <2>2
<1>5. ASSUME NEW s \in Slots, StateRead(s)
      PROVE  OnceInv(ks)'
  <2>1. slots[s].pc = "reading" /\ UNCHANGED sent
    BY <1>5 DEF StateRead, At
  <2>2. \/ \E v : Answer(s, v) /\ UNCHANGED tables
        \/ Goto(s, "preparing") /\ UNCHANGED tables
        \/ TryReserve(s, slots[s].now)
    BY <1>5 DEF StateRead
  <2>3. CASE \E v : Answer(s, v) /\ UNCHANGED tables
    BY <1>2, <2>1, <2>3 DEF tables
  <2>4. CASE Goto(s, "preparing") /\ UNCHANGED tables
    BY <1>3, <2>1, <2>4 DEF tables
  <2>5. CASE TryReserve(s, slots[s].now)
    BY <1>4, <2>1, <2>5
  <2> QED
    BY <2>2, <2>3, <2>4, <2>5
<1>6. ASSUME NEW s \in Slots, StateReadFailed(s) \/ PreparationFailed(s)
      PROVE  OnceInv(ks)'
  <2>1. slots[s].pc \in {"reading", "preparing"} /\ UNCHANGED <<receipts, sent>>
        /\ \E out : Answer(s, out)
    BY <1>6 DEF StateReadFailed, PreparationFailed, At, tables
  <2> QED
    BY <1>2, <2>1
<1>7. ASSUME NEW s \in Slots, Prepared(s)
      PROVE  OnceInv(ks)'
  BY <1>4, <1>7 DEF Prepared, At
<1>8. ASSUME NEW s \in Slots, RateLimited(s) \/ CallPlatform(s)
      PROVE  OnceInv(ks)'
  <2>1. /\ slots[s].pc = "reserved" /\ UNCHANGED <<receipts, sent>>
        /\ \E out : slots' = [slots EXCEPT ![s].pc = "called", ![s].out = out]
    BY <1>8 DEF RateLimited, CallPlatform, At, tables
  <2>2. /\ \A t \in Slots : t # s => slots'[t] = slots[t]
        /\ slots'[s].req = slots[s].req /\ slots'[s].pc = "called"
    BY <1>0, <2>1, BusySlot DEF TypeOK
  <2> QED
    BY <1>0, <2>1, <2>2, OnceGoesOn
<1>9. ASSUME NEW s \in Slots, Finalize(s)
      PROVE  OnceInv(ks)'
  <2> DEFINE k == slots[s].req.key
  <2>1. slots[s].pc = "called" /\ k \in Keys /\ UNCHANGED sent
    BY <1>0, <1>9, BusySlot DEF Finalize, At
  <2>2. slots[s].out \in Recorded /\ outcomes[k] \in Recorded \union {"none"}
    BY <1>0, <2>1 DEF OwnersKnow, Owns, OwnerKnows, At, Recorded, TypeOK
  <2>3. \A j \in Keys : j # k => receipts'[j] = receipts[j]
    BY <1>0, <1>9, <2>1 DEF Finalize, TypeOK
  <2>4. \E out \in Recorded : Answer(s, out)
    BY <1>9, <2>2 DEF Finalize
  <2>5. /\ \A t \in Slots : t # s => slots'[t] = slots[t]
        /\ slots'[s].req = slots[s].req /\ slots'[s].pc = "answered"
        /\ slots'[s].out \in Recorded
    BY <1>0, <2>1, <2>4, SlotWent
  <2> QED
    BY <1>0, <2>1, <2>3, <2>5, OnceGoesOn
<1>10. ASSUME NEW s \in Slots, Deliver(s)
       PROVE  OnceInv(ks)'
  <2>1. /\ UNCHANGED <<receipts, sent>> /\ slots'[s].pc = "idle"
        /\ \A t \in Slots : t # s => slots'[t] = slots[t]
    BY <1>0, <1>10 DEF Deliver, Idle, TypeOK, tables
  <2> QED
    BY <2>1 DEF OnceInv
<1>11. ASSUME NEW s \in Slots, Upload(s)
       PROVE  OnceInv(ks)'
  <2>1. slots[s].pc = "uploading" /\ UNCHANGED <<receipts, sent>>
    BY <1>11 DEF Upload, At, tables
  <2>2. CASE Goto(s, "uploaded")
    <3>1. /\ \A t \in Slots : t # s => slots'[t] = slots[t]
          /\ slots'[s].req = slots[s].req /\ slots'[s].pc = "uploaded"
      BY <1>0, <2>1, <2>2, SlotWent
    <3> QED
      BY <1>0, <2>1, <3>1, OnceGoesOn
  <2>3. CASE Answer(s, "FAILED")
    BY <1>2, <2>1, <2>3 DEF Rejections
  <2> QED
    BY <1>11, <2>2, <2>3 DEF Upload
<1>12. ASSUME NEW s \in Slots, RecordUpload(s)
       PROVE  OnceInv(ks)'
  <2>1. slots[s].pc = "uploaded" /\ UNCHANGED <<receipts, sent>> /\ Answer(s, "SUCCEEDED")
    BY <1>12 DEF RecordUpload, At
  <2> QED
    BY <1>2, <2>1 DEF Rejections
<1>13. CASE Crash
  <2>1. UNCHANGED <<receipts, sent>> /\ \A s \in Slots : slots'[s].pc = "idle"
    BY <1>13 DEF Crash, Idle, tables
  <2> QED
    BY <2>1 DEF OnceInv
<1>14. CASE Tick \/ UNCHANGED vars
  <2>1. UNCHANGED <<receipts, sent, slots>>
    BY <1>14 DEF Tick, vars, tables
  <2> QED
    BY <2>1 DEF OnceInv
<1> QED
  BY <1>1, <1>5, <1>6, <1>7, <1>8, <1>9, <1>10, <1>11, <1>12, <1>13, <1>14 DEF Next, Step

\* When no key is sent twice, a rejection is answered only for a key nothing was
\* reserved, asked or changed for: the money may be released (_rejection).
THEOREM RejectedIsUntouched == ~Resend => (Spec => []RejectionMeansNothingDone)
<1> SUFFICES ASSUME ~Resend PROVE Spec => []RejectionMeansNothingDone
  OBVIOUS
<1>1. Init => OnceInv(Keys)
  BY DEF Init, Idle, OnceInv
<1>2. IInv /\ OnceInv(Keys) /\ [Next]_vars => OnceInv(Keys)'
  <2> SUFFICES ASSUME IInv, OnceInv(Keys), [Next]_vars
               PROVE  OnceInv(Keys)'
    OBVIOUS
  <2>1. TypeOK
    BY DEF IInv
  <2>2. TakenOnce(Keys)
    <3> SUFFICES ASSUME NEW s \in Slots, slots[s].pc = "idle", slots'[s].pc # "idle"
                 PROVE  slots'[s].req.key \notin sent
      BY DEF TakenOnce
    <3>1. Receive(s) \/ ReceiveUpload(s)
      BY <2>1, TakenOrKept
    <3>2. CASE Receive(s)
      BY <2>1, <3>2 DEF Receive, TypeOK
    <3>3. CASE ReceiveUpload(s)
      BY <2>1, <3>3 DEF ReceiveUpload, TypeOK
    <3> QED
      BY <3>1, <3>2, <3>3
  <2> QED
    BY <2>2, OnceStep
<1>3. ASSUME IInv, OnceInv(Keys)
      PROVE  RejectionMeansNothingDone
  <2> SUFFICES ASSUME NEW s \in Slots, At(s, "answered"), slots[s].out \in Rejections
               PROVE  LET k == slots[s].req.key
                      IN  receipts[k] = None /\ calls[k] = 0 /\ effects[k] = None
    BY DEF RejectionMeansNothingDone
  <2> DEFINE k == slots[s].req.key
  <2>1. k \in Keys
    BY <1>3, BusySlot DEF IInv, At
  <2>2. receipts[k] = None
    BY <1>3, <2>1 DEF OnceInv, At
  <2>3. calls[k] = 0 /\ effects[k] = None
    BY <1>3, <2>1, <2>2 DEF IInv, ReservedFirst
  <2> QED
    BY <2>2, <2>3
<1> QED
  BY <1>1, <1>2, <1>3, Invariance, PTL DEF Spec

-----------------------------------------------------------------------------
(* What a success means, however often its key is sent.                     *)

\* An answer says something, and to a write SUCCEEDED only if its reservation does.
ToldInv ==
    \A s \in Slots : slots[s].pc = "answered" =>
        /\ slots[s].out # "none"
        /\ slots[s].out = "SUCCEEDED" /\ slots[s].req.intent.op # "upload" =>
               LET row == receipts[slots[s].req.key]
               IN  row # None /\ row.outcome = "SUCCEEDED"

\* A success stays one.
LEMMA SuccessStays ==
    ASSUME IInv, [Next]_vars, NEW k \in Keys,
           receipts[k] # None, receipts[k].outcome = "SUCCEEDED"
    PROVE  receipts'[k] = receipts[k]
<1>0. TypeOK
  BY DEF IInv
<1>1. CASE Quiet
  BY <1>1 DEF Quiet
<1>2. ASSUME NEW j \in Keys, Reserves(j) \/ Calls(j)
      PROVE  receipts'[k] = receipts[k]
  BY <1>0, <1>2 DEF Reserves, Calls, TypeOK
<1>3. ASSUME NEW j \in Keys, NEW out \in Recorded, Settles(j, out)
      PROVE  receipts'[k] = receipts[k]
  BY <1>0, <1>3 DEF Settles, TypeOK
<1> QED
  BY <1>1, <1>2, <1>3, StepKinds

\* Reservation and record are the only steps that answer a write with success,
\* and both read it off the ledger.
LEMMA ToldStep ==
    ASSUME IInv, ToldInv, [Next]_vars
    PROVE  ToldInv'
<1>0. TypeOK /\ OwnersKnow /\ LedgerAgrees /\ SlotsFit
  BY DEF IInv
<1> DEFINE Borne(s) ==
               /\ slots'[s].out # "none"
               /\ slots'[s].out = "SUCCEEDED" /\ slots'[s].req.intent.op # "upload" =>
                      LET row == receipts'[slots'[s].req.key]
                      IN  row # None /\ row.outcome = "SUCCEEDED"
<1> SUFFICES ASSUME NEW s \in Slots, slots'[s].pc = "answered"
             PROVE  Borne(s)
  BY DEF ToldInv
<1>1. CASE slots'[s] = slots[s]
  <2>1. slots[s].req.key \in Keys
    BY <1>0, <1>1, BusySlot
  <2> QED
    BY <1>1, <2>1, SuccessStays DEF ToldInv
<1>2. ASSUME NEW t \in Slots, slots[t].pc # "idle", NEW out \in Rejections \union {"FAILED"},
             Answer(t, out)
      PROVE  Borne(s) \/ slots'[s] = slots[s]
  BY <1>0, <1>2, SlotWent DEF Rejections
<1>3. ASSUME NEW t \in Slots, slots[t].pc # "idle", NEW pc, pc # "answered", Goto(t, pc)
      PROVE  Borne(s) \/ slots'[s] = slots[s]
  BY <1>0, <1>3, SlotWent
<1>4. ASSUME NEW t \in Slots, slots[t].pc \in {"reading", "preparing"}, NEW checked,
             TryReserve(t, checked)
      PROVE  Borne(s) \/ slots'[s] = slots[s]
  <2> DEFINE q == slots[t].req
             v == ReserveVerdict(q, slots[t].now, checked)
  <2>1. q \in Requests /\ q.key \in Keys
    BY <1>0, <1>4, BusySlot
  <2>2. CASE v = "OK"
    BY <1>3, <1>4, <2>2 DEF TryReserve
  <2>3. CASE v # "OK"
    <3>1. Answer(t, v) /\ UNCHANGED tables
      BY <1>4, <2>3 DEF TryReserve
    <3>2. CASE v = "SUCCEEDED"
      <4>1. GetOutcome(q.key) = "SUCCEEDED" /\ ReceiptMatches(q)
        BY <3>2 DEF ReserveVerdict
      <4>2. receipts[q.key] # None /\ receipts[q.key].outcome = "SUCCEEDED"
        BY <1>0, <2>1, <4>1 DEF GetOutcome, ReceiptMatches, LedgerAgrees
      <4>3. s # t => slots'[s] = slots[s]
        BY <1>0, <1>4, <3>1, SlotWent
      <4>4. slots'[t].req = q /\ slots'[t].out = v
        BY <1>0, <1>4, <3>1, SlotWent
      <4>5. v # "none"
        BY <3>2
      <4> QED
        BY <3>1, <3>2, <4>2, <4>3, <4>4, <4>5 DEF tables
    <3>3. CASE v # "SUCCEEDED"
      <4>1. v # "none"
        BY <1>0, <2>1, VerdictType DEF Rejections, Recorded
      <4>2. /\ s # t => slots'[s] = slots[s]
            /\ slots'[t].out = v
        BY <1>0, <1>4, <3>1, SlotWent
      <4> QED
        BY <3>3, <4>1, <4>2
    <3> QED
      BY <3>2, <3>3
  <2> QED
    BY <2>2, <2>3
<1>5. ASSUME NEW t \in Slots, StateRead(t)
      PROVE  Borne(s) \/ slots'[s] = slots[s]
  <2>1. slots[t].pc = "reading"
    BY <1>5 DEF StateRead, At
  <2>2. \/ \E out \in Rejections : Answer(t, out)
        \/ Goto(t, "preparing") \/ TryReserve(t, slots[t].now)
    BY <1>5, AuthorizeType DEF StateRead
  <2>3. CASE \E out \in Rejections : Answer(t, out)
    BY <1>2, <2>1, <2>3
  <2>4. CASE Goto(t, "preparing")
    BY <1>3, <2>1, <2>4
  <2>5. CASE TryReserve(t, slots[t].now)
    BY <1>4, <2>1, <2>5
  <2> QED
    BY <2>2, <2>3, <2>4, <2>5
<1>6. ASSUME NEW t \in Slots, Prepared(t)
      PROVE  Borne(s) \/ slots'[s] = slots[s]
  BY <1>4, <1>6 DEF Prepared, At
<1>7. ASSUME NEW t \in Slots, StateReadFailed(t) \/ PreparationFailed(t)
      PROVE  Borne(s) \/ slots'[s] = slots[s]
  <2>1. slots[t].pc # "idle" /\ (Answer(t, "FAILED") \/ Answer(t, "DENIED"))
    BY <1>7 DEF StateReadFailed, PreparationFailed, At
  <2> QED
    BY <1>2, <2>1 DEF Rejections
<1>8. ASSUME NEW t \in Slots, RateLimited(t) \/ CallPlatform(t)
      PROVE  Borne(s) \/ slots'[s] = slots[s]
  <2>1. /\ slots[t].pc = "reserved"
        /\ \E out : slots' = [slots EXCEPT ![t].pc = "called", ![t].out = out]
    BY <1>8 DEF RateLimited, CallPlatform, At
  <2> QED
    BY <1>0, <2>1, BusySlot DEF TypeOK
<1>9. ASSUME NEW t \in Slots, Finalize(t)
      PROVE  Borne(s) \/ slots'[s] = slots[s]
  <2> DEFINE k == slots[t].req.key
             out == slots[t].out
  <2>1. slots[t].pc = "called" /\ k \in Keys
    BY <1>0, <1>9, BusySlot DEF Finalize, At
  <2>2. outcomes[k] = "none" /\ receipts' = [receipts EXCEPT ![k] = Settled(receipts[k], out)]
    BY <1>9, RecordStep
  <2>3. Answer(t, out)
    BY <1>9, <2>2 DEF Finalize
  <2>4. receipts[k] # None /\ receipts[k] \in ReceiptRow /\ out \in Recorded
    BY <1>0, <2>1 DEF OwnersKnow, Owns, OwnerKnows, At, Recorded, TypeOK
  <2>5. Settled(receipts[k], out) \in ReceiptRow /\ Settled(receipts[k], out).outcome = out
    BY <2>4 DEF Settled, ReceiptRow
  <2>6. receipts'[k] # None /\ receipts'[k].outcome = out
    BY <1>0, <2>1, <2>2, <2>5, RowIsNotNone DEF TypeOK
  <2>7. /\ s # t => slots'[s] = slots[s]
        /\ slots'[t].req.key = k /\ slots'[t].out = out
    BY <1>0, <2>1, <2>3, SlotWent
  <2> QED
    BY <2>4, <2>6, <2>7 DEF Recorded
<1>10. ASSUME NEW t \in Slots, Deliver(t)
       PROVE  Borne(s) \/ slots'[s] = slots[s]
  BY <1>0, <1>10 DEF Deliver, Idle, TypeOK
<1>11. ASSUME NEW t \in Slots, Receive(t)
       PROVE  Borne(s) \/ slots'[s] = slots[s]
  <2>1. PICK q \in Requests, pc \in {"reading", "preparing", "answered"},
             out \in {"none", "OK"} \union Rejections :
            /\ slots' = [slots EXCEPT ![t] = [pc |-> pc, req |-> q, now |-> clock, out |-> out]]
            /\ pc = "answered" => out # "none"
    <3>1. PICK q \in Requests :
              LET v  == Authorize(q, clock, FALSE)
                  at == IF q.intent.op # "campaign" THEN "reading"
                        ELSE IF v = "OK" THEN "preparing" ELSE "answered"
              IN  slots' = [slots EXCEPT ![t] =
                      [pc |-> at, req |-> q, now |-> clock,
                       out |-> IF at = "answered" THEN v ELSE "none"]]
      BY <1>11 DEF Receive
    <3>2. Authorize(q, clock, FALSE) \in {"OK"} \union Rejections
      BY AuthorizeType
    <3> QED
      BY <3>1, <3>2 DEF Rejections
  <2>2. out # "SUCCEEDED"
    BY DEF Rejections
  <2> QED
    BY <1>0, <2>1, <2>2 DEF TypeOK
<1>12. ASSUME NEW t \in Slots, ReceiveUpload(t)
       PROVE  Borne(s) \/ slots'[s] = slots[s]
  BY <1>0, <1>12 DEF ReceiveUpload, TypeOK
<1>13. ASSUME NEW t \in Slots, Upload(t)
       PROVE  Borne(s) \/ slots'[s] = slots[s]
  <2>1. slots[t].pc # "idle"
    BY <1>13 DEF Upload, At
  <2>2. CASE Goto(t, "uploaded")
    BY <1>3, <2>1, <2>2
  <2>3. CASE Answer(t, "FAILED")
    BY <1>2, <2>1, <2>3
  <2> QED
    BY <1>13, <2>2, <2>3 DEF Upload
<1>14. ASSUME NEW t \in Slots, RecordUpload(t)
       PROVE  Borne(s) \/ slots'[s] = slots[s]
  <2>1. /\ slots[t].pc = "uploaded" /\ Answer(t, "SUCCEEDED")
        /\ slots[t].req.intent.op = "upload"
    BY <1>0, <1>14 DEF RecordUpload, At, SlotsFit
  <2> QED
    BY <1>0, <2>1, SlotWent
<1>15. CASE Crash
  BY <1>15 DEF Crash, Idle
<1>16. CASE Tick \/ UNCHANGED vars
  BY <1>1, <1>16 DEF Tick, vars
<1> HIDE DEF Borne
<1> QED
  BY <1>1, <1>5, <1>6, <1>7, <1>8, <1>9, <1>10, <1>11, <1>12, <1>13, <1>14, <1>15, <1>16
     DEF Next, Step

\* At first nobody was told anything.
LEMMA InitToldInv == Init => ToldInv
BY DEF Init, Idle, ToldInv

-----------------------------------------------------------------------------
(* The refinement of WritePort. *)

\* Every behaviour of the broker is one of the abstract port: reservations,
\* calls and records map to Admit, Ask and Settle, every other step stutters.
THEOREM Refinement == Spec => ImplementsWritePort
<1>1. Init => Port!PortInit
  BY DEF Init, Port!PortInit, ReceiptView
<1>2. ASSUME IInv, [Next]_vars
      PROVE  [Port!PortNext]_Port!portVars
  <2>0. TypeOK /\ ReservedFirst
    BY <1>2 DEF IInv
  <2> DEFINE asked == {k \in Keys : calls[k] > 0}
             changed == {k \in Keys : effects[k] # None}
  <2>1. CASE Quiet
    <3>1. UNCHANGED <<ReceiptView, asked, changed>>
      BY <2>1 DEF Quiet, ReceiptView
    <3> QED
      BY <3>1 DEF Port!portVars
  <2>2. ASSUME NEW k \in Keys, Reserves(k)
        PROVE  Port!PortNext
    <3>1. PICK row \in ReceiptRow :
              row.outcome = "none" /\ receipts' = [receipts EXCEPT ![k] = row]
      BY <2>2 DEF Reserves
    <3>2. row # None
      BY RowIsNotNone
    <3>3. ReceiptView[k] = "absent" /\ ReceiptView' = [ReceiptView EXCEPT ![k] = "open"]
      BY <2>0, <2>2, <3>1, <3>2 DEF Reserves, ReceiptView, TypeOK
    <3>4. UNCHANGED <<asked, changed>>
      BY <2>2 DEF Reserves
    <3>5. Port!Admit(k)
      BY <3>3, <3>4 DEF Port!Admit
    <3> QED
      BY <3>5 DEF Port!PortNext
  <2>3. ASSUME NEW k \in Keys, Calls(k)
        PROVE  Port!PortNext
    <3>1. PICK change \in ChangeRow : effects' \in {effects, [effects EXCEPT ![k] = change]}
      BY <2>3 DEF Calls
    <3>2. change # None /\ calls' = [calls EXCEPT ![k] = 1] /\ calls[k] = 0
      BY <2>3, RowIsNotNone DEF Calls
    <3>3. ReceiptView[k] = "open" /\ UNCHANGED ReceiptView
      BY <2>3 DEF Calls, ReceiptView
    <3>4. k \notin asked /\ asked' = asked \union {k}
      BY <2>0, <3>2 DEF TypeOK
    <3>5. changed' \in {changed, changed \union {k}}
      BY <2>0, <3>1, <3>2 DEF TypeOK
    <3>6. Port!Ask(k)
      BY <3>3, <3>4, <3>5 DEF Port!Ask
    <3> QED
      BY <3>6 DEF Port!PortNext
  <2>4. ASSUME NEW k \in Keys, NEW out \in Recorded, Settles(k, out)
        PROVE  Port!PortNext
    <3> DEFINE row == Settled(receipts[k], out)
    <3>1. receipts[k] \in ReceiptRow
      BY <2>0, <2>4 DEF Settles, TypeOK
    <3>2. row \in ReceiptRow /\ row.outcome = out
      BY <3>1 DEF Settled, ReceiptRow
    <3>3. row # None /\ receipts' = [receipts EXCEPT ![k] = row]
      BY <2>4, <3>2, RowIsNotNone DEF Settles
    <3>4. ReceiptView[k] = "open"
      BY <2>4 DEF Settles, ReceiptView
    <3>5. out # "none"
      BY DEF Recorded
    <3> HIDE DEF row
    <3>6. ReceiptView' = [ReceiptView EXCEPT ![k] = out]
      BY <2>0, <3>2, <3>3, <3>5 DEF ReceiptView, TypeOK
    <3>7. /\ UNCHANGED <<asked, changed>>
          /\ out = "SUCCEEDED" => k \in changed
          /\ out = "FAILED" => k \notin asked
          /\ out = "UNKNOWN" => k \in asked
      BY <2>4 DEF Settles
    <3>8. Port!Settle(k, out)
      BY <3>4, <3>6, <3>7 DEF Port!Settle
    <3> QED
      BY <3>8 DEF Port!PortNext, Port!Verdicts, Recorded
  <2> QED
    BY <1>2, <2>1, <2>2, <2>3, <2>4, StepKinds
<1>3. IInv /\ [Next]_vars => [Port!PortNext]_Port!portVars
  BY <1>2
<1> QED
  BY <1>1, <1>3, Invariance, PTL DEF Spec, ImplementsWritePort, Port!PortSpec

-----------------------------------------------------------------------------
(* The caps hold.  What is added up is not what was made but what may be:   *)
(* every reservation, at its amount when it raises, and at nothing while it *)
(* is a cut nobody confirmed.                                               *)

\* The keys of an account whose reservation is dated on one of the days, and
\* the days of a month.
Reserved == {k \in Keys : receipts[k] # None}
HeldIn(a, days) ==
    {k \in Reserved : receipts[k].intent.account = a /\ receipts[k].day \in days}
DaysLike(d) == {e \in Nat : Month(e) = Month(d)}

\* What a reservation may cost in the end: a raise its amount from the first
\* moment, a cut nothing until it is known to be made.
Cost(row) ==
    LET delta == Promised(row).delta
    IN  IF row.pending /\ delta < 0 THEN 0 ELSE delta
Costs == [k \in Keys |-> IF receipts[k] = None THEN 0 ELSE Cost(receipts[k])]
Held(a, days) == SumFunctionOnSet(Costs, HeldIn(a, days))

\* What is reserved for a day, and for its month, fits the account's caps.
HoldingsFit(a, d) ==
    /\ Cardinality(HeldIn(a, {d})) <= CapsOf[a].max_changes
    /\ Held(a, {d}) <= CapsOf[a].daily_cap
    /\ Held(a, DaysLike(d)) <= CapsOf[a].monthly_cap

HoldingsInv ==
    /\ IsFiniteSet(Reserved)
    /\ \A a \in Accounts, d \in Nat : HoldingsFit(a, d)

\* A reservation stands for a whole amount, and holds back at least that and
\* at least nothing.
LEMMA CostType ==
    ASSUME IInv, NEW k \in Keys, receipts[k] # None
    PROVE  /\ receipts[k] \in ReceiptRow /\ Promised(receipts[k]).delta \in Int
           /\ Costs[k] = Cost(receipts[k]) /\ Costs[k] \in Int
           /\ Promised(receipts[k]).delta <= Costs[k]
           /\ receipts[k].delta \in Nat
           /\ receipts[k].pending => 0 <= Costs[k] /\ Costs[k] <= receipts[k].delta
           /\ ~receipts[k].pending => Costs[k] = Promised(receipts[k]).delta
<1>1. receipts[k] \in ReceiptRow
  BY DEF IInv, TypeOK
<1>2. receipts[k].intent \in Intents /\ receipts[k].delta \in Nat
  BY <1>1 DEF ReceiptRow
<1>3. receipts[k].intent.before \in Int \union {Unreadable}
      /\ receipts[k].intent.after \in Int \union {Unreadable}
  BY <1>2 DEF Intents
<1>4. Promised(receipts[k]).delta \in Int
  <2>1. Before(receipts[k].intent) \in Int \union {Unreadable}
    BY <1>3 DEF Before
  <2>2. SignedDelta(Before(receipts[k].intent), receipts[k].intent.after) \in Int
    BY <1>3, <2>1, SignedDeltaType
  <2> QED
    BY <2>2 DEF Promised
<1>5. receipts[k].delta >= Promised(receipts[k]).delta
  BY DEF IInv, ReservedFirst
<1>6. Costs[k] = Cost(receipts[k])
  BY DEF Costs
<1> QED
  BY <1>1, <1>2, <1>4, <1>5, <1>6 DEF Cost

\* The rows of applied_changes of an account dated on one of the days.
RowsIn(a, days) == {k \in RowsOf(applied, a) : applied[k].day \in days}

\* A reserved key is either applied, as what it was reserved for, or pending.
LEMMA AppliedOrPending ==
    ASSUME IInv, NEW a, NEW days
    PROVE  /\ \A k \in RowsIn(a, days) :
                  /\ k \in HeldIn(a, days) /\ ~receipts[k].pending
                  /\ Costs[k] = applied[k].delta /\ applied[k] \in ChangeRow
           /\ \A k \in Pending(a) : k \in Reserved /\ receipts[k].pending
           /\ HeldIn(a, days) \subseteq RowsIn(a, days) \union Pending(a)
<1>0. TypeOK /\ ReservedFirst /\ LedgerAgrees
  BY DEF IInv
<1>1. ASSUME NEW k \in Keys, applied[k] # None
      PROVE  /\ receipts[k] # None /\ ~receipts[k].pending
             /\ applied[k] = Promised(receipts[k]) /\ applied[k] \in ChangeRow
  <2>1. receipts[k] # None
    BY <1>0, <1>1 DEF ReservedFirst
  <2>2. applied[k] = effects[k] /\ outcomes[k] = "SUCCEEDED" /\ ~receipts[k].pending
    BY <1>0, <1>1, <2>1 DEF LedgerAgrees
  <2>3. effects[k] = Promised(receipts[k])
    BY <1>0, <1>1, <2>1, <2>2 DEF ReservedFirst
  <2> QED
    BY <1>0, <1>1, <2>1, <2>2, <2>3 DEF TypeOK
<1>2. ASSUME NEW k \in RowsIn(a, days)
      PROVE  /\ k \in HeldIn(a, days) /\ ~receipts[k].pending
             /\ Costs[k] = applied[k].delta /\ applied[k] \in ChangeRow
  <2>1. /\ k \in Keys /\ applied[k] # None /\ applied[k].account = a
        /\ applied[k].day \in days
    BY DEF RowsIn, RowsOf
  <2>2. /\ receipts[k] # None /\ ~receipts[k].pending
        /\ applied[k] = Promised(receipts[k]) /\ applied[k] \in ChangeRow
    BY <1>1, <2>1
  <2>3. receipts[k].intent.account = a /\ receipts[k].day \in days
    BY <2>1, <2>2 DEF Promised
  <2>4. Costs[k] = applied[k].delta
    BY <2>1, <2>2, CostType
  <2> QED
    BY <2>1, <2>2, <2>3, <2>4 DEF HeldIn, Reserved
<1>3. ASSUME NEW k \in HeldIn(a, days)
      PROVE  k \in RowsIn(a, days) \union Pending(a)
  <2>1. /\ k \in Keys /\ receipts[k] # None /\ receipts[k].intent.account = a
        /\ receipts[k].day \in days
    BY DEF HeldIn, Reserved
  <2>2. CASE receipts[k].pending
    BY <2>1, <2>2 DEF Pending
  <2>3. CASE ~receipts[k].pending
    <3>1. applied[k] # None
      BY <1>0, <2>1, <2>3 DEF LedgerAgrees
    <3>2. applied[k] = Promised(receipts[k])
      BY <1>1, <2>1, <3>1
    <3> QED
      BY <2>1, <3>1, <3>2 DEF Promised, RowsIn, RowsOf
  <2> QED
    BY <2>2, <2>3
<1>4. \A k \in Pending(a) : k \in Reserved /\ receipts[k].pending
  BY DEF Pending, Reserved
<1> QED
  BY <1>2, <1>3, <1>4

\* Whatever days are looked at, holdings are a finite set with a sum.
LEMMA HoldingsAreFinite ==
    ASSUME IInv, IsFiniteSet(Reserved), NEW a, NEW days
    PROVE  /\ IsFiniteSet(HeldIn(a, days)) /\ Cardinality(HeldIn(a, days)) \in Nat
           /\ \A k \in HeldIn(a, days) : k \in Keys /\ receipts[k] # None /\ Costs[k] \in Int
           /\ Held(a, days) \in Int
<1>1. HeldIn(a, days) \in SUBSET Reserved
  BY DEF HeldIn
<1>2. IsFiniteSet(HeldIn(a, days)) /\ Cardinality(HeldIn(a, days)) \in Nat
  BY <1>1, FS_Subset, FS_CardinalityType
<1>3. \A k \in HeldIn(a, days) : k \in Keys /\ receipts[k] # None /\ Costs[k] \in Int
  BY CostType DEF HeldIn, Reserved
<1> QED
  BY <1>2, <1>3, SumType DEF Held

\* The check counts at least what is held: the applied rows of the days, and
\* every pending reservation, whatever its day.
LEMMA ChecksCountTheHoldings ==
    ASSUME IInv, IsFiniteSet(Reserved), NEW a, NEW days
    PROVE  /\ Cardinality(RowsIn(a, days)) \in Nat /\ Cardinality(Pending(a)) \in Nat
           /\ Cardinality(HeldIn(a, days))
                  <= Cardinality(RowsIn(a, days)) + Cardinality(Pending(a))
           /\ AppliedDelta(RowsIn(a, days)) \in Int /\ PendingDelta(Pending(a)) \in Int
           /\ Held(a, days) <= AppliedDelta(RowsIn(a, days)) + PendingDelta(Pending(a))
<1> DEFINE made == RowsIn(a, days)
           open == Pending(a)
           all  == [k \in made \union open |->
                        IF k \in made THEN applied[k].delta ELSE receipts[k].delta]
<1>1. /\ \A k \in made : /\ k \in HeldIn(a, days) /\ ~receipts[k].pending
                         /\ Costs[k] = applied[k].delta /\ applied[k].delta \in Int
      /\ \A k \in open : k \in Reserved /\ receipts[k].pending
      /\ HeldIn(a, days) \subseteq made \union open
  BY AppliedOrPending DEF ChangeRow
<1>2. made \in SUBSET Reserved /\ open \in SUBSET Reserved /\ made \cap open = {}
  BY <1>1 DEF HeldIn
<1>3. /\ IsFiniteSet(made) /\ IsFiniteSet(open)
      /\ Cardinality(made) \in Nat /\ Cardinality(open) \in Nat
  BY <1>2, FS_Subset, FS_CardinalityType
<1>4. IsFiniteSet(made \union open)
      /\ Cardinality(made \union open) = Cardinality(made) + Cardinality(open)
  BY <1>2, <1>3, FS_Union, FS_EmptySet
<1>5. Cardinality(HeldIn(a, days)) <= Cardinality(made) + Cardinality(open)
  BY <1>1, <1>4, FS_Subset
<1>6. \A k \in open : /\ receipts[k].delta \in Nat /\ Costs[k] \in Int
                     /\ 0 <= Costs[k] /\ Costs[k] <= receipts[k].delta
  BY <1>1, CostType DEF Reserved
<1>7. /\ \A k \in made : all[k] = applied[k].delta
      /\ \A k \in open : all[k] = receipts[k].delta
  BY <1>2
<1>8. \A k \in made \union open : all[k] \in Int
  BY <1>1, <1>6
<1> HIDE DEF all
<1>9. SumFunctionOnSet(all, made) = AppliedDelta(made)
  BY <1>3, <1>7, SumSame DEF AppliedDelta
<1>10. SumFunctionOnSet(all, open) = PendingDelta(open)
  BY <1>3, <1>7, SumSame DEF PendingDelta
<1>11. /\ AppliedDelta(made) \in Int /\ PendingDelta(open) \in Int
       /\ SumFunctionOnSet(all, made \union open) = AppliedDelta(made) + PendingDelta(open)
  <2>1. SumFunctionOnSet(all, made) \in Int /\ SumFunctionOnSet(all, open) \in Int
    BY <1>3, <1>8, SumType
  <2>2. SumFunctionOnSet(all, made \union open)
            = SumFunctionOnSet(all, made) + SumFunctionOnSet(all, open)
    BY <1>2, <1>3, <1>8, SumUnion
  <2> QED
    BY <1>9, <1>10, <2>1, <2>2
<1>12. Held(a, days) <= SumFunctionOnSet(all, made \union open)
  <2> DEFINE held == HeldIn(a, days)
             both == made \union open
  <2>1. IsFiniteSet(held) /\ \A k \in held : Costs[k] \in Int
    BY HoldingsAreFinite
  <2>2. \A k \in held \cap both : Costs[k] <= all[k]
    BY <1>1, <1>6, <1>7, <2>1
  <2>3. \A k \in held \ both : Costs[k] <= 0
    BY <1>1
  <2>4. \A k \in both \ held : all[k] >= 0
    BY <1>1, <1>6, <1>7
  <2> HIDE DEF held, both
  <2>5. IsFiniteSet(both) /\ \A k \in both : all[k] \in Int
    BY <1>4, <1>8 DEF both
  <2>6. SumFunctionOnSet(Costs, held) <= SumFunctionOnSet(all, both)
    BY <2>1, <2>2, <2>3, <2>4, <2>5, SumCompare
  <2> QED
    BY <2>6 DEF held, both, Held
<1> QED
  BY <1>3, <1>5, <1>11, <1>12

\* What the caps let through fits beside what is held, on its day and in its
\* month: a cut is charged nothing, and an amount nobody can read is no money.
LEMMA WhatTheCapsAllow ==
    ASSUME IInv, IsFiniteSet(Reserved), NEW q \in Requests, NEW now \in Nat,
           WithinCaps(q, Day(now)),
           q.intent.op \in {"campaign", "child"} => q.intent.before = Unreadable
    PROVE  LET a    == q.intent.account
               d    == Day(now)
               cost == Cost(NewReceipt(q, now))
           IN  /\ cost \in Nat
               /\ Cardinality(HeldIn(a, {d})) + 1 <= CapsOf[a].max_changes
               /\ cost # 0 => /\ Held(a, {d}) + cost <= CapsOf[a].daily_cap
                              /\ Held(a, DaysLike(d)) + cost <= CapsOf[a].monthly_cap
<1> DEFINE i == q.intent
           a == i.account
           d == Day(now)
           cost == Cost(NewReceipt(q, now))
           delta == SignedDelta(Before(i), i.after)
           today == RowsIn(a, {d})
           month == RowsIn(a, DaysLike(d))
           open == Pending(a)
           day == AppliedDelta(today) + PendingDelta(open)
           whole == AppliedDelta(month) + PendingDelta(open)
<1>1. /\ i \in Intents /\ a \in Accounts /\ d \in Nat
      /\ i.before \in Int \union {Unreadable} /\ i.after \in Int \union {Unreadable}
  BY RequestType, DayType DEF Intents
<1>2. Before(i) \in Int \union {Unreadable}
  BY <1>1 DEF Before
<1>3. delta \in Int
  BY <1>1, <1>2, SignedDeltaType
<1>4. cost = IF delta < 0 THEN 0 ELSE delta
  BY DEF Cost, NewReceipt, Promised
<1>5. CapsOf[a] \in AccountCaps
  BY <1>1, LedgerAssumption
<1>6. /\ today = {k \in RowsOf(applied, a) : applied[k].day = d}
      /\ month = {k \in RowsOf(applied, a) : Month(applied[k].day) = Month(d)}
  <2>1. \A k \in RowsOf(applied, a) : applied[k].day \in Nat
    BY DEF RowsOf, IInv, TypeOK, ChangeRow
  <2> QED
    BY <2>1 DEF RowsIn, DaysLike
<1>7. WithinHardCaps(CapsOf[a], Before(i), i.after,
                     Cardinality(today) + Cardinality(open), day, whole, i.op = "campaign")
  BY <1>6 DEF WithinCaps
<1>8. /\ Cardinality(HeldIn(a, {d})) \in Nat /\ Held(a, {d}) \in Int
      /\ Held(a, DaysLike(d)) \in Int
  BY HoldingsAreFinite
<1>9. /\ Cardinality(today) \in Nat /\ Cardinality(open) \in Nat
      /\ Cardinality(HeldIn(a, {d})) <= Cardinality(today) + Cardinality(open)
      /\ day \in Int /\ Held(a, {d}) <= day
  BY ChecksCountTheHoldings
<1>10. whole \in Int /\ Held(a, DaysLike(d)) <= whole
  BY ChecksCountTheHoldings
<1> HIDE DEF cost, delta, today, month, open, day, whole
<1>11. Cardinality(today) + Cardinality(open) < CapsOf[a].max_changes
  BY <1>7 DEF WithinHardCaps
<1>12. delta > 0 => WithinSpendCaps(CapsOf[a], delta, day, whole)
  <2> SUFFICES ASSUME delta > 0
               PROVE  WithinSpendCaps(CapsOf[a], delta, day, whole)
    OBVIOUS
  <2>1. Unreadable \notin {Before(i), i.after} /\ delta = i.after - Before(i)
    BY <1>3 DEF delta, SignedDelta
  <2>2. CASE i.op = "campaign"
    <3>1. Before(i) = 0 /\ delta = i.after
      BY <1>1, <2>1, <2>2 DEF Before
    <3> QED
      BY <1>7, <2>2, <3>1 DEF WithinHardCaps, WithinCreationCaps
  <2>3. CASE i.op # "campaign"
    <3>1. i.after > Before(i)
      BY <1>1, <1>2, <2>1
    <3> QED
      BY <1>7, <2>1, <2>3, <3>1 DEF WithinHardCaps, WithinMoneyCaps
  <2> QED
    BY <2>2, <2>3
<1>13. cost \in Nat /\ (cost # 0 => cost = delta /\ delta > 0)
  BY <1>3, <1>4
<1>14. Cardinality(HeldIn(a, {d})) + 1 <= CapsOf[a].max_changes
  BY <1>5, <1>8, <1>9, <1>11 DEF AccountCaps
<1>15. ASSUME cost # 0
       PROVE  /\ Held(a, {d}) + cost <= CapsOf[a].daily_cap
              /\ Held(a, DaysLike(d)) + cost <= CapsOf[a].monthly_cap
  <2>1. /\ cost = delta
        /\ day + delta <= CapsOf[a].daily_cap /\ whole + delta <= CapsOf[a].monthly_cap
    BY <1>12, <1>13, <1>15 DEF WithinSpendCaps
  <2>2. CapsOf[a].daily_cap \in Nat /\ CapsOf[a].monthly_cap \in Nat
    BY <1>5 DEF AccountCaps
  <2> QED
    BY <1>3, <1>8, <1>9, <1>10, <2>1, <2>2
<1> QED
  BY <1>13, <1>14, <1>15 DEF cost

\* A new reservation keeps what is held within the caps of every day.
LEMMA ReservingFits ==
    ASSUME IInv, HoldingsInv, NEW q \in Requests, NEW now \in Nat, ReservedFor(q, now),
           receipts[q.key] = None
    PROVE  HoldingsInv'
<1> DEFINE k == q.key
           mine == q.intent.account
           day == Day(now)
           row == NewReceipt(q, now)
<1>0. k \in Keys /\ mine \in Accounts /\ day \in Nat
  BY RequestType, DayType DEF Intents
<1>1. row \in ReceiptRow /\ row # None
  BY NewReceiptType, RowIsNotNone
<1>2. receipts'[k] = row /\ \A j \in Keys : j # k => receipts'[j] = receipts[j]
  BY <1>0 DEF ReservedFor, IInv, TypeOK
<1>3. row.intent.account = mine /\ row.day = day
  BY DEF NewReceipt
<1>4. /\ Cost(row) \in Nat
      /\ Cardinality(HeldIn(mine, {day})) + 1 <= CapsOf[mine].max_changes
      /\ Cost(row) # 0 => /\ Held(mine, {day}) + Cost(row) <= CapsOf[mine].daily_cap
                          /\ Held(mine, DaysLike(day)) + Cost(row) <= CapsOf[mine].monthly_cap
  BY WhatTheCapsAllow DEF ReservedFor, HoldingsInv
<1> HIDE DEF k, mine, day, row
<1>5. Reserved' = Reserved \union {k} /\ k \notin Reserved
  BY <1>0, <1>1, <1>2 DEF Reserved, k
<1>6. IsFiniteSet(Reserved) /\ IsFiniteSet(Reserved')
  BY <1>5, FS_AddElement DEF HoldingsInv
<1>7. Costs'[k] = Cost(row) /\ \A j \in Reserved : Costs'[j] = Costs[j]
  <2>1. \A j \in Keys : Costs'[j] = IF receipts'[j] = None THEN 0 ELSE Cost(receipts'[j])
    BY DEF Costs, Cost, Promised
  <2>2. \A j \in Keys : Costs[j] = IF receipts[j] = None THEN 0 ELSE Cost(receipts[j])
    BY DEF Costs
  <2> QED
    BY <1>0, <1>1, <1>2, <1>5, <2>1, <2>2 DEF Reserved
<1>8. ASSUME NEW a, NEW days, ~ (a = mine /\ day \in days)
      PROVE  HeldIn(a, days)' = HeldIn(a, days) /\ Held(a, days)' = Held(a, days)
  <2>1. HeldIn(a, days)' = HeldIn(a, days)
    BY <1>2, <1>3, <1>5, <1>8 DEF HeldIn, Reserved
  <2>2. \A j \in HeldIn(a, days) : Costs'[j] = Costs[j]
    BY <1>7 DEF HeldIn
  <2>3. IsFiniteSet(HeldIn(a, days))
    BY <1>6, HoldingsAreFinite
  <2>4. SumFunctionOnSet(Costs', HeldIn(a, days)) = SumFunctionOnSet(Costs, HeldIn(a, days))
    BY <2>2, <2>3, SumSame
  <2> QED
    BY <2>1, <2>4 DEF Held
<1>9. ASSUME NEW days, day \in days
      PROVE  /\ Cardinality(HeldIn(mine, days)') = Cardinality(HeldIn(mine, days)) + 1
             /\ Held(mine, days)' = Cost(row) + Held(mine, days)
  <2> DEFINE held == HeldIn(mine, days)
  <2>1. HeldIn(mine, days)' = held \union {k}
    BY <1>2, <1>3, <1>5, <1>9 DEF HeldIn, Reserved
  <2>2. k \notin held /\ \A j \in held : Costs'[j] = Costs[j]
    BY <1>5, <1>7 DEF HeldIn
  <2>3. IsFiniteSet(held) /\ Cardinality(held) \in Nat /\ \A j \in held : Costs[j] \in Int
    BY <1>6, HoldingsAreFinite
  <2> HIDE DEF held
  <2>4. Cardinality(held \union {k}) = Cardinality(held) + 1
    BY <2>2, <2>3, FS_AddElement
  <2>5. \A j \in held \union {k} : Costs'[j] \in Int
    BY <1>4, <1>7, <2>2, <2>3
  <2>6. SumFunctionOnSet(Costs', held \union {k}) = Costs'[k] + SumFunctionOnSet(Costs', held)
    BY <2>2, <2>3, <2>5, SumAdd
  <2>7. SumFunctionOnSet(Costs', held) = SumFunctionOnSet(Costs, held)
    BY <2>2, <2>3, SumSame
  <2> QED
    BY <1>7, <2>1, <2>4, <2>6, <2>7 DEF held, Held
<1>10. ASSUME NEW a \in Accounts, NEW d \in Nat
       PROVE  HoldingsFit(a, d)'
  <2>0. HoldingsFit(a, d)
    BY DEF HoldingsInv
  <2>1. /\ Held(a, {d}) \in Int /\ Held(a, DaysLike(d)) \in Int
        /\ Cardinality(HeldIn(a, {d})) \in Nat
    BY <1>6, HoldingsAreFinite
  <2>2. /\ Cardinality(HeldIn(a, {d})') <= CapsOf[a].max_changes
        /\ Held(a, {d})' <= CapsOf[a].daily_cap
    <3>1. CASE a = mine /\ d = day
      <4>1. /\ Cardinality(HeldIn(a, {d})') = Cardinality(HeldIn(a, {d})) + 1
            /\ Held(a, {d})' = Cost(row) + Held(a, {d})
        BY <1>9, <3>1
      <4> QED
        BY <1>4, <2>0, <2>1, <3>1, <4>1 DEF HoldingsFit
    <3>2. CASE ~ (a = mine /\ d = day)
      <4>1. HeldIn(a, {d})' = HeldIn(a, {d}) /\ Held(a, {d})' = Held(a, {d})
        BY <1>8, <3>2
      <4> QED
        BY <2>0, <4>1 DEF HoldingsFit
    <3> QED
      BY <3>1, <3>2
  <2>3. Held(a, DaysLike(d))' <= CapsOf[a].monthly_cap
    <3>1. CASE a = mine /\ day \in DaysLike(d)
      <4>1. DaysLike(d) = DaysLike(day)
        BY <3>1 DEF DaysLike
      <4>2. Held(a, DaysLike(d))' = Cost(row) + Held(a, DaysLike(d))
        BY <1>9, <3>1
      <4> QED
        BY <1>4, <2>0, <2>1, <3>1, <4>1, <4>2 DEF HoldingsFit
    <3>2. CASE ~ (a = mine /\ day \in DaysLike(d))
      <4>1. Held(a, DaysLike(d))' = Held(a, DaysLike(d))
        BY <1>8, <3>2
      <4> QED
        BY <2>0, <4>1 DEF HoldingsFit
    <3> QED
      BY <3>1, <3>2
  <2> QED
    BY <2>2, <2>3 DEF HoldingsFit, DaysLike, Month
<1> QED
  BY <1>6, <1>10 DEF HoldingsInv

\* A step that reserves nothing settles at most: nothing held costs more.
LEMMA SettlingFits ==
    ASSUME IInv, HoldingsInv, [Next]_vars,
           \A k \in Keys : receipts[k] = None => receipts'[k] = None
    PROVE  HoldingsInv'
<1>1. ASSUME NEW k \in Keys, receipts[k] # None
      PROVE  /\ receipts'[k] # None /\ receipts'[k].intent = receipts[k].intent
             /\ receipts'[k].day = receipts[k].day
             /\ receipts'[k].pending => receipts[k].pending
             /\ Costs[k] \in Int /\ Costs'[k] \in Int /\ Costs'[k] <= Costs[k]
  <2>1. /\ receipts'[k] # None /\ receipts'[k].intent = receipts[k].intent
        /\ receipts'[k].day = receipts[k].day
        /\ receipts'[k].pending => receipts[k].pending
    BY <1>1, RowsStay
  <2>2. Promised(receipts'[k]) = Promised(receipts[k])
    BY <2>1 DEF Promised
  <2>3. Promised(receipts[k]).delta \in Int /\ Costs[k] = Cost(receipts[k])
    BY <1>1, CostType
  <2>4. Costs'[k] = Cost(receipts'[k])
    BY <2>1 DEF Costs, Cost, Promised
  <2> QED
    BY <2>1, <2>2, <2>3, <2>4 DEF Cost
<1>2. Reserved' = Reserved
  BY <1>1 DEF Reserved
<1>3. ASSUME NEW a, NEW days
      PROVE  /\ HeldIn(a, days)' = HeldIn(a, days)
             /\ Held(a, days) \in Int /\ Held(a, days)' \in Int
             /\ Held(a, days)' <= Held(a, days)
  <2> DEFINE held == HeldIn(a, days)
  <2>1. HeldIn(a, days)' = held
    BY <1>1, <1>2 DEF HeldIn, Reserved
  <2>2. IsFiniteSet(held) /\ Held(a, days) \in Int
        /\ \A k \in held : k \in Keys /\ receipts[k] # None
    BY HoldingsAreFinite DEF HoldingsInv
  <2>3. \A k \in held : Costs[k] \in Int /\ Costs'[k] \in Int /\ Costs'[k] <= Costs[k]
    BY <1>1, <2>2
  <2> HIDE DEF held
  <2>4. SumFunctionOnSet(Costs', held) \in Int
    BY <2>2, <2>3, SumType
  <2>5. SumFunctionOnSet(Costs', held) <= SumFunctionOnSet(Costs, held)
    BY <2>2, <2>3, SumCompare
  <2> QED
    BY <2>1, <2>2, <2>4, <2>5 DEF held, Held
<1>4. ASSUME NEW a \in Accounts, NEW d \in Nat
      PROVE  HoldingsFit(a, d)'
  <2>1. CapsOf[a] \in AccountCaps
    BY LedgerAssumption
  <2>2. HoldingsFit(a, d)
    BY DEF HoldingsInv
  <2>3. /\ HeldIn(a, {d})' = HeldIn(a, {d}) /\ Held(a, {d})' <= CapsOf[a].daily_cap
    BY <1>3, <2>1, <2>2 DEF HoldingsFit, AccountCaps
  <2>4. Held(a, DaysLike(d))' <= CapsOf[a].monthly_cap
    BY <1>3, <2>1, <2>2 DEF HoldingsFit, AccountCaps
  <2> QED
    BY <2>2, <2>3, <2>4 DEF HoldingsFit, DaysLike, Month
<1> QED
  BY <1>2, <1>4 DEF HoldingsInv

\* What the platform really did is among what is held, and costs no more.
LEMMA EffectsAreHeld ==
    ASSUME IInv, IsFiniteSet(Reserved), NEW a, NEW days
    PROVE  LET done == {m \in RowsOf(effects, a) : effects[m].day \in days}
           IN  /\ Cardinality(done) <= Cardinality(HeldIn(a, days))
               /\ EffectDelta(done) \in Int /\ EffectDelta(done) <= Held(a, days)
               /\ Cardinality(done) \in Nat
<1> DEFINE done == {m \in RowsOf(effects, a) : effects[m].day \in days}
           held == HeldIn(a, days)
           deltas == [m \in done |-> effects[m].delta]
<1>0. TypeOK /\ ReservedFirst /\ LedgerAgrees
  BY DEF IInv
<1>1. ASSUME NEW m \in done
      PROVE  /\ m \in held /\ deltas[m] \in Int
             /\ Costs[m] \in Int /\ deltas[m] <= Costs[m]
  <2>1. /\ m \in Keys /\ effects[m] # None /\ effects[m].account = a
        /\ effects[m].day \in days
    BY DEF RowsOf
  <2>2. receipts[m] # None /\ effects[m] = Promised(receipts[m])
    BY <1>0, <2>1 DEF ReservedFirst
  <2>3. receipts[m].intent.account = a /\ receipts[m].day \in days
    BY <2>1, <2>2 DEF Promised
  <2>4. /\ deltas[m] = Promised(receipts[m]).delta /\ deltas[m] \in Int
        /\ Costs[m] \in Int /\ deltas[m] <= Costs[m]
    BY <2>1, <2>2, CostType
  <2> QED
    BY <2>1, <2>2, <2>3, <2>4 DEF HeldIn, Reserved
<1>2. ASSUME NEW m \in held \ done
      PROVE  Costs[m] \in Int /\ Costs[m] >= 0
  <2>1. /\ m \in Keys /\ receipts[m] # None /\ receipts[m].intent.account = a
        /\ receipts[m].day \in days
    BY DEF HeldIn, Reserved
  <2>2. effects[m] = None
    <3>1. effects[m] # None => effects[m] = Promised(receipts[m])
      BY <1>0, <2>1 DEF ReservedFirst
    <3> QED
      BY <2>1, <3>1 DEF RowsOf, Promised
  <2>3. receipts[m].pending
    BY <1>0, <2>1, <2>2 DEF LedgerAgrees
  <2> QED
    BY <2>1, <2>3, CostType
<1>3. IsFiniteSet(held) /\ \A m \in held : Costs[m] \in Int
  BY HoldingsAreFinite
<1> HIDE DEF done, held, deltas
<1>4. done \in SUBSET held
  BY <1>1
<1>5. IsFiniteSet(done) /\ Cardinality(done) \in Nat /\ Cardinality(done) <= Cardinality(held)
  BY <1>3, <1>4, FS_Subset, FS_CardinalityType
<1>6. SumFunctionOnSet(deltas, done) \in Int
      /\ SumFunctionOnSet(deltas, done) <= SumFunctionOnSet(Costs, held)
  <2>1. \A m \in done \cap held : deltas[m] <= Costs[m]
    BY <1>1
  <2>2. \A m \in done \ held : deltas[m] <= 0
    BY <1>4
  <2>3. \A m \in done : deltas[m] \in Int
    BY <1>1
  <2>4. \A m \in held \ done : Costs[m] >= 0
    BY <1>2
  <2>5. SumFunctionOnSet(deltas, done) \in Int
    BY <1>5, <2>3, SumType
  <2>6. SumFunctionOnSet(deltas, done) <= SumFunctionOnSet(Costs, held)
    BY <1>3, <1>5, <2>1, <2>2, <2>3, <2>4, SumCompare
  <2> QED
    BY <2>5, <2>6
<1> QED
  BY <1>5, <1>6 DEF done, held, deltas, EffectDelta, Held

\* Holdings fit the caps for ever.
THEOREM HoldingsInvariance == Spec => []HoldingsInv
<1>1. Init => HoldingsInv
  <2> SUFFICES ASSUME Init PROVE HoldingsInv
    OBVIOUS
  <2>1. Reserved = {}
    BY DEF Init, Reserved
  <2>2. \A a, days : HeldIn(a, days) = {} /\ Held(a, days) = 0
    BY <2>1, SumEmpty DEF HeldIn, Held
  <2>3. \A a \in Accounts : CapsOf[a] \in AccountCaps
    BY LedgerAssumption
  <2> QED
    BY <2>1, <2>2, <2>3, FS_EmptySet DEF HoldingsInv, HoldingsFit, AccountCaps
<1>2. ASSUME IInv, HoldingsInv, [Next]_vars
      PROVE  HoldingsInv'
  <2>1. CASE \A k \in Keys : receipts[k] = None => receipts'[k] = None
    BY <1>2, <2>1, SettlingFits
  <2>2. ASSUME NEW k \in Keys, receipts[k] = None, receipts'[k] # None
        PROVE  HoldingsInv'
    <3>1. PICK q \in Requests, now \in Nat : ReservedFor(q, now) /\ q.key = k
      BY <1>2, <2>2, ReservedIsVerified
    <3> QED
      BY <1>2, <2>2, <3>1, ReservingFits
  <2> QED
    BY <2>1, <2>2
<1> QED
  BY <1>1, <1>2, Invariance, PTL DEF Spec

\* Whatever requests race, whatever crash or lost answer falls in between, what
\* the platform changed for an account in a day, and in a month, never goes over
\* its caps nor over its number of changes (_check_caps, pending_totals).
THEOREM CapsHold == Spec => []SpendWithinCaps
<1>1. ASSUME IInv, HoldingsInv
      PROVE  SpendWithinCaps
  <2> SUFFICES ASSUME NEW a \in Accounts, NEW k \in Keys, effects[k] # None
               PROVE  LET d     == effects[k].day
                          mine  == RowsOf(effects, a)
                          today == {m \in mine : effects[m].day = d}
                          month == {m \in mine : Month(effects[m].day) = Month(d)}
                      IN  /\ Cardinality(today) <= CapsOf[a].max_changes
                          /\ EffectDelta(today) <= CapsOf[a].daily_cap
                          /\ EffectDelta(month) <= CapsOf[a].monthly_cap
    BY DEF SpendWithinCaps
  <2> DEFINE d == effects[k].day
             DoneOn(days) == {m \in RowsOf(effects, a) : effects[m].day \in days}
  <2>1. \A m \in Keys : effects[m] # None => effects[m].day \in Nat
    BY <1>1 DEF IInv, TypeOK, ChangeRow
  <2>2. d \in Nat
    BY <2>1
  <2>3. DoneOn({d}) = {m \in RowsOf(effects, a) : effects[m].day = d}
    OBVIOUS
  <2>4. DoneOn(DaysLike(d)) = {m \in RowsOf(effects, a) : Month(effects[m].day) = Month(d)}
    BY <2>1 DEF DaysLike, RowsOf
  <2>5. /\ Cardinality(DoneOn({d})) \in Nat /\ EffectDelta(DoneOn({d})) \in Int
        /\ EffectDelta(DoneOn(DaysLike(d))) \in Int
        /\ Cardinality(DoneOn({d})) <= Cardinality(HeldIn(a, {d}))
        /\ EffectDelta(DoneOn({d})) <= Held(a, {d})
        /\ EffectDelta(DoneOn(DaysLike(d))) <= Held(a, DaysLike(d))
    BY <1>1, EffectsAreHeld DEF HoldingsInv
  <2>6. /\ Cardinality(HeldIn(a, {d})) \in Nat /\ Held(a, {d}) \in Int
        /\ Held(a, DaysLike(d)) \in Int
    BY <1>1, HoldingsAreFinite DEF HoldingsInv
  <2>7. HoldingsFit(a, d)
    BY <1>1, <2>2 DEF HoldingsInv
  <2>8. CapsOf[a] \in AccountCaps
    BY LedgerAssumption
  <2> HIDE DEF d, DoneOn
  <2>9. /\ Cardinality(DoneOn({d})) <= CapsOf[a].max_changes
        /\ EffectDelta(DoneOn({d})) <= CapsOf[a].daily_cap
        /\ EffectDelta(DoneOn(DaysLike(d))) <= CapsOf[a].monthly_cap
    BY <2>5, <2>6, <2>7, <2>8 DEF HoldingsFit, AccountCaps
  <2> QED
    BY <2>3, <2>4, <2>9 DEF d
<1> QED
  BY <1>1, Invariance, HoldingsInvariance, PTL
=============================================================================
